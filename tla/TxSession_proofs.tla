--------------------------- MODULE TxSession_proofs --------------------------
(***************************************************************************)
(* Proofs about transactional sessions, for any sets of sessions, values   *)
(* and record ids and any bounds: every way a transaction can end releases *)
(* its locks; and, as long as no session is closed while others work,      *)
(* locks are kept to the end, what a transaction has written stays locked  *)
(* in X, and nobody scans over the inserts of another.  If, besides, no    *)
(* index raises, then when no session is between the two halves of a       *)
(* change the index describes the table, through rollbacks too; and        *)
(* transactions are atomic, so that TxSession implements AtomicTable.      *)
(***************************************************************************)
EXTENDS TxSession, FiniteSetTheorems, SequenceTheorems, TLAPS

\* A session that runs a statement or a rollback has an open transaction; one
\* between the storage and the index half of a change knows its row.
ControlInv ==
  /\ \A s \in Session : pc[s] \notin {"idle", "closed"} => open[s]
  /\ \A s \in Session : pc[s] \in {"index", "unindex", "reindex"} => stmt[s].rows # <<>>

LeakInv == \A s \in Session : ~ open[s] => \A r \in Resource : held[r][s] = "none"

SessionInv == TypeOK /\ IsFiniteSet(index) /\ ControlInv /\ LeakInv

-----------------------------------------------------------------------------
\* Sequences, as the statements and journals use them.

LEMMA FirstOf ==
  ASSUME NEW S, NEW q \in Seq(S), q # <<>>
  PROVE  /\ Head(q) \in S /\ Head(q) = q[1] /\ 1 \in DOMAIN q /\ Tail(q) \in Seq(S)
         /\ \A i \in DOMAIN Tail(q) : i + 1 \in DOMAIN q /\ Tail(q)[i] = q[i + 1]
<1>1. /\ Tail(q) \in Seq(S) /\ Len(Tail(q)) = Len(q) - 1
      /\ \A i \in 1 .. Len(Tail(q)) : Tail(q)[i] = q[i + 1]
      /\ Head(q) \in S /\ Head(q) = q[1] /\ Len(q) \in Nat /\ Len(q) # 0
  BY HeadTailProperties, EmptySeq, LenProperties
<1>2. DOMAIN q = 1 .. Len(q) /\ DOMAIN Tail(q) = 1 .. Len(Tail(q))
  BY <1>1, LenProperties
<1> QED  BY <1>1, <1>2

LEMMA LastOf ==
  ASSUME NEW S, NEW q \in Seq(S), NEW e \in S
  PROVE  /\ Append(q, e) \in Seq(S) /\ Len(Append(q, e)) = Len(q) + 1 /\ Len(q) \in Nat
         /\ \A i \in DOMAIN Append(q, e) :
              \/ i \in DOMAIN q /\ Append(q, e)[i] = q[i]
              \/ i = Len(q) + 1 /\ Append(q, e)[i] = e
         /\ \A i \in DOMAIN q : i \in DOMAIN Append(q, e) /\ Append(q, e)[i] = q[i]
         /\ Len(q) + 1 \in DOMAIN Append(q, e) /\ Append(q, e)[Len(q) + 1] = e
<1>1. /\ Append(q, e) \in Seq(S) /\ Len(Append(q, e)) = Len(q) + 1 /\ Len(q) \in Nat
      /\ \A i \in 1 .. Len(q) : Append(q, e)[i] = q[i]
      /\ Append(q, e)[Len(q) + 1] = e
  BY AppendProperties, LenProperties
<1>2. DOMAIN q = 1 .. Len(q) /\ DOMAIN Append(q, e) = 1 .. Len(q) + 1
  BY <1>1, LenProperties
<1> QED  BY <1>1, <1>2

LEMMA NothingIn ==
  ASSUME NEW S
  PROVE  <<>> \in Seq(S) /\ Len(<<>>) = 0 /\ DOMAIN <<>> = {}
BY EmptySeq

LEMMA OneIn ==
  ASSUME NEW S, NEW e \in S
  PROVE  <<e>> \in Seq(S) /\ <<e>> # <<>> /\ DOMAIN <<e>> = {1} /\ <<e>>[1] = e
OBVIOUS

\* The entries of a table, and those of a value, are as many as its rows.
LEMMA Turned ==
  ASSUME NEW E \in SUBSET (Val \X Rid), IsFiniteSet(E)
  PROVE  IsFiniteSet({<<e[2], e[1]>> : e \in E})
<1> DEFINE R == {<<e[2], e[1]>> : e \in E}
           f == [e \in E |-> <<e[2], e[1]>>]
<1>1. f \in Surjection(E, R)
  BY DEF Surjection
<1> QED  BY <1>1, FS_Surjection

LEMMA OrdersType ==
  ASSUME NEW R \in SUBSET Row, IsFiniteSet(R), NEW rows \in Orders(R)
  PROVE  rows \in Seq(Row)
<1>1. Cardinality(R) \in Nat
  BY FS_CardinalityType
<1>2. rows \in [1..Cardinality(R) -> Row]
  BY DEF Orders
<1> QED  BY <1>1, <1>2, SeqDef

-----------------------------------------------------------------------------
\* What the parts of an action keep.

LEMMA RaisedType ==
  ASSUME TypeOK, NEW s \in Session, NEW r \in Resource, NEW m \in Mode
  PROVE  /\ Locks!Raised(s, r, m) \in Mode
         /\ m = "X" \/ held[r][s] = "X" => Locks!Raised(s, r, m) = "X"
<1>1. held[r][s] \in Mode \cup {"none"}
  BY DEF TypeOK
<1>2. CASE held[r][s] = "none"
  BY <1>2 DEF Locks!Raised, Mode
<1>3. CASE held[r][s] \in Mode
  <2>1. held[r][s] # "none"
    BY <1>3 DEF Mode
  <2>2. Locks!Raised(s, r, m) = Locks!Stronger(held[r][s], m)
    BY <2>1 DEF Locks!Raised
  <2>3. Locks!Priority["S"] = 0 /\ Locks!Priority["U"] = 1 /\ Locks!Priority["X"] = 2
    BY Zenon DEF Locks!Priority, Locks!Mode
  <2> QED  BY <1>3, <2>2, <2>3 DEF Locks!Stronger, Mode
<1> QED  BY <1>1, <1>2, <1>3

LEMMA NoStmtType == NoStmt \in Statement /\ NoStmt.rows = <<>> /\ NoStmt.at \in Nat
<1>1. NoStmt.val \in Val
  BY ConstantsAssumption DEF NoStmt
<1> QED  BY <1>1, NothingIn DEF NoStmt, Statement

LEMMA CollectType ==
  ASSUME TypeOK, NEW s \in Session, NEW rows \in Seq(Row), Collect(s, rows)
  PROVE  /\ stmt' \in [Session -> Statement] /\ stmt'[s].rows = rows
         /\ \A o \in Session : o # s => stmt'[o] = stmt[o]
<1>1. stmt[s] \in Statement /\ [stmt[s] EXCEPT !.rows = rows] \in Statement
  <2>1. PICK st \in Statement : st = stmt[s]
    BY DEF TypeOK
  <2>2. [st EXCEPT !.rows = rows] \in Statement
    BY DEF Statement
  <2> QED  BY <2>1, <2>2
<1>2. stmt' = [stmt EXCEPT ![s] = [stmt[s] EXCEPT !.rows = rows]]
  BY DEF Collect
<1>3. stmt \in [Session -> Statement]
  BY DEF TypeOK
<1>4. [stmt[s] EXCEPT !.rows = rows].rows = rows
  BY <1>1 DEF Statement
<1>5. PICK new \in Statement : new = [stmt[s] EXCEPT !.rows = rows] /\ new.rows = rows
  BY <1>1, <1>4
<1>6. stmt' = [stmt EXCEPT ![s] = new]
  BY <1>2, <1>5
<1> QED  BY <1>3, <1>5, <1>6

LEMMA NoteType ==
  ASSUME TypeOK, NEW s \in Session, NEW kind \in {"ins", "del"}, NEW rid \in Rid, NEW val \in Val,
         Note(s, kind, rid, val)
  PROVE  /\ journal' \in [Session -> Seq(Change)]
         /\ \A o \in Session : Len(journal[o]) <= Len(journal'[o])
         /\ \A o \in Session : o # s => journal'[o] = journal[o]
         /\ journal'[s] = Append(journal[s], [kind |-> kind, rid |-> rid, val |-> val])
<1> DEFINE e == [kind |-> kind, rid |-> rid, val |-> val]
<1>1. e \in Change
  BY DEF Change
<1>2. journal' = [journal EXCEPT ![s] = Append(journal[s], e)]
  BY DEF Note
<1>3. \A o \in Session : journal[o] \in Seq(Change) /\ Len(journal[o]) \in Nat
  BY LenProperties DEF TypeOK
<1> HIDE DEF e
<1>4. Append(journal[s], e) \in Seq(Change) /\ Len(Append(journal[s], e)) = Len(journal[s]) + 1
  BY <1>1, <1>3, LastOf
<1> QED  BY <1>2, <1>3, <1>4 DEF TypeOK, e

\* One lock is taken by one session.
LEMMA ObtainType ==
  ASSUME TypeOK, NEW s \in Session, NEW r \in Resource, NEW m \in Mode, Locks!Obtain(s, r, m)
  PROVE  /\ held' \in [Resource -> [Session -> Mode \cup {"none"}]]
         /\ held'[r][s] \in Mode
         /\ m = "X" \/ held[r][s] = "X" => held'[r][s] = "X"
         /\ \A q \in Resource : \A o \in Session : q # r \/ o # s => held'[q][o] = held[q][o]
         /\ \A o \in Session : o # s /\ held'[r][s] = "X" => held[r][o] = "none"
         /\ \A o \in Session : o # s => held[r][o] # "X"
<1>1. held' = [held EXCEPT ![r][s] = Locks!Raised(s, r, m)]
  BY DEF Locks!Obtain
<1>2. \A o \in Session \ {s} : \/ held[r][o] = "none"
                               \/ Locks!Compat(held[r][o], Locks!Raised(s, r, m))
  BY DEF Locks!Obtain, Locks!CanHold
<1>3. /\ Locks!Raised(s, r, m) \in Mode
      /\ m = "X" \/ held[r][s] = "X" => Locks!Raised(s, r, m) = "X"
  BY RaisedType
<1>4. held'[r][s] = Locks!Raised(s, r, m)
  BY <1>1 DEF TypeOK
<1>5. /\ held' \in [Resource -> [Session -> Mode \cup {"none"}]]
      /\ \A q \in Resource : \A o \in Session : q # r \/ o # s => held'[q][o] = held[q][o]
  BY <1>1, <1>3 DEF TypeOK
<1>6. \A o \in Session : o # s => held[r][o] # "X" /\ (held'[r][s] = "X" => held[r][o] = "none")
  BY <1>2, <1>4 DEF Locks!Compat
<1> QED  BY <1>3, <1>4, <1>5, <1>6

LEMMA ReleasedType ==
  ASSUME TypeOK, NEW s \in Session, Locks!DropAll(s)
  PROVE  /\ held' \in [Resource -> [Session -> Mode \cup {"none"}]]
         /\ \A r \in Resource : held'[r][s] = "none"
         /\ \A r \in Resource : \A o \in Session : o # s => held'[r][o] = held[r][o]
BY DEF TypeOK, Locks!DropAll

\* Storing and removing a row.
LEMMA WithType ==
  ASSUME TypeOK, NEW r \in Rid, NEW v \in Val, store' = With(r, v)
  PROVE  /\ Live' = Live \cup {r} /\ Live' \subseteq Rid /\ store' \in [Live' -> Val]
         /\ store'[r] = v /\ \A q \in Live : q # r => store'[q] = store[q]
BY DEF TypeOK, With, Live

LEMMA WithoutType ==
  ASSUME TypeOK, NEW r, store' = Without(r)
  PROVE  /\ Live' = Live \ {r} /\ Live' \subseteq Rid /\ store' \in [Live' -> Val]
         /\ \A q \in Live : q # r => store'[q] = store[q]
BY DEF TypeOK, Without, Live

-----------------------------------------------------------------------------
\* SessionInv, action by action.

LEMMA SessionInit == Init => SessionInv
<1> SUFFICES ASSUME Init  PROVE SessionInv
  OBVIOUS
<1> DEFINE f == [r \in DOMAIN Seed |-> <<Seed[r], r>>]
<1>1. f \in Surjection(DOMAIN Seed, index)
  BY DEF Init, Surjection
<1>2. IsFiniteSet(index)
  BY <1>1, ConstantsAssumption, FS_Surjection
<1>3. /\ <<>> \in Seq(Change) /\ Len(<<>>) = 0 /\ NoStmt \in Statement
  BY NothingIn, NoStmtType
<1>4. held \in [Resource -> [Session -> Mode \cup {"none"}]]
  BY DEF Init, Locks!ServiceInit
<1>5. TypeOK
  BY <1>3, <1>4, ConstantsAssumption DEF Init, TypeOK, Live
<1>6. ControlInv /\ LeakInv
  BY DEF Init, ControlInv, LeakInv, Locks!ServiceInit
<1> QED  BY <1>2, <1>5, <1>6 DEF SessionInv

LEMMA EndSession ==
  ASSUME SessionInv, NEW s \in Session, End(s)
  PROVE  SessionInv'
<1> USE DEF SessionInv
<1>1. /\ held' \in [Resource -> [Session -> Mode \cup {"none"}]]
      /\ \A r \in Resource : held'[r][s] = "none"
      /\ \A r \in Resource : \A o \in Session : o # s => held'[r][o] = held[r][o]
  BY ReleasedType DEF End
<1>2. <<>> \in Seq(Change) /\ Len(<<>>) = 0 /\ NoStmt \in Statement
  BY NothingIn, NoStmtType
<1>3. TypeOK'
  BY <1>1, <1>2 DEF End, TypeOK, Goto, data, Live
<1>4. ControlInv'
  BY DEF End, ControlInv, TypeOK, Goto
<1>5. LeakInv'
  BY <1>1 DEF End, LeakInv, TypeOK
<1>6. IsFiniteSet(index)'
  BY DEF End, data
<1> QED  BY <1>3, <1>4, <1>5, <1>6

LEMMA StartUndoSession ==
  ASSUME SessionInv, NEW s \in Session, open[s], NEW twice \in BOOLEAN, StartUndo(s, twice)
  PROVE  SessionInv'
<1> USE DEF SessionInv
<1>1. Len(journal[s]) \in Nat
  BY LenProperties DEF TypeOK
<1>2. TypeOK'
  BY <1>1 DEF StartUndo, TypeOK, Goto, data, Live
<1>3. ControlInv' /\ LeakInv' /\ IsFiniteSet(index)'
  BY DEF StartUndo, ControlInv, LeakInv, TypeOK, Goto, data
<1> QED  BY <1>2, <1>3

\* The statements of a client, and the steps that only move a session on.
LEMMA AskSession ==
  ASSUME SessionInv, NEW s \in Session, Ask(s)
  PROVE  SessionInv'
<1> USE DEF SessionInv
<1>1. CASE Begin(s)
  BY <1>1 DEF Begin, TypeOK, ControlInv, LeakInv, data, Live
<1>2. CASE Commit(s)
  BY <1>2, EndSession DEF Commit
<1>3. CASE Rollback(s)
  BY <1>3, StartUndoSession DEF Rollback
<1>4. CASE Close(s)
  <2>1. held' = [r \in Resource |-> [t \in Session |-> "none"]]
    BY <1>4 DEF Close, Locks!Reset
  <2>2. TypeOK'
    BY <1>4, <2>1 DEF Close, TypeOK, Goto, data, tx, Live
  <2>3. ControlInv' /\ LeakInv' /\ IsFiniteSet(index)'
    BY <1>4, <2>1 DEF Close, ControlInv, LeakInv, TypeOK, Goto, data, tx
  <2> QED  BY <2>2, <2>3
<1>5. ASSUME NEW kind \in Kinds, NEW v \in Val, Execute(s, kind, v)
      PROVE  SessionInv'
  <2> DEFINE new == [NoStmt EXCEPT !.kind = kind, !.val = v]
  <2>1. new \in Statement
    BY NoStmtType, ConstantsAssumption DEF Statement
  <2> HIDE DEF new
  <2>2. stmt' = [stmt EXCEPT ![s] = new]
    BY <1>5 DEF Execute, new
  <2>3. pc' = [pc EXCEPT ![s] = IF kind = "insert" THEN "insert" ELSE "open"]
    BY <1>5 DEF Execute, Goto
  <2>4. /\ open' = [open EXCEPT ![s] = TRUE] /\ auto' = [auto EXCEPT ![s] = ~ open[s]]
        /\ UNCHANGED <<held, store, index, orphans, journal, undoing>>
    BY <1>5 DEF Execute, data
  <2>5. TypeOK'
    BY <2>1, <2>2, <2>3, <2>4 DEF TypeOK, Live
  <2>6. ControlInv' /\ LeakInv' /\ IsFiniteSet(index)'
    BY <2>2, <2>3, <2>4 DEF ControlInv, LeakInv, TypeOK
  <2> QED  BY <2>5, <2>6
<1> QED  BY <1>1, <1>2, <1>3, <1>4, <1>5 DEF Ask

\* The lock of a step is taken by a session with a transaction.
LEMMA ObtainSession ==
  ASSUME SessionInv, NEW s \in Session, NEW r \in Resource, NEW m \in Mode,
         Locks!Obtain(s, r, m), open[s], UNCHANGED open
  PROVE  /\ held' \in [Resource -> [Session -> Mode \cup {"none"}]]
         /\ LeakInv'
<1> USE DEF SessionInv
<1>1. /\ held' \in [Resource -> [Session -> Mode \cup {"none"}]]
      /\ \A q \in Resource : \A o \in Session : q # r \/ o # s => held'[q][o] = held[q][o]
  BY ObtainType
<1>2. LeakInv'
  BY <1>1 DEF LeakInv
<1> QED  BY <1>1, <1>2

LEMMA InsertSession ==
  ASSUME SessionInv, NEW s \in Session, NEW r \in Rid, InsertRow(s, r)
  PROVE  SessionInv'
<1> USE DEF SessionInv
<1>1. open[s] /\ UNCHANGED open /\ stmt[s].val \in Val
  BY DEF InsertRow, ControlInv, TypeOK, Statement
<1>2. held' \in [Resource -> [Session -> Mode \cup {"none"}]] /\ LeakInv'
  BY <1>1, ObtainSession DEF InsertRow, Resource, Mode
<1>3. Live' \subseteq Rid /\ store' \in [Live' -> Val]
  BY <1>1, WithType DEF InsertRow
<1>4. journal' \in [Session -> Seq(Change)]
      /\ \A o \in Session : Len(journal[o]) <= Len(journal'[o])
  BY <1>1, NoteType DEF InsertRow
<1>5. <<r, stmt[s].val>> \in Row /\ <<<<r, stmt[s].val>>>> \in Seq(Row)
      /\ <<<<r, stmt[s].val>>>> # <<>>
  BY <1>1, OneIn DEF Row
<1>6. /\ stmt' \in [Session -> Statement] /\ stmt'[s].rows # <<>>
      /\ \A o \in Session : o # s => stmt'[o] = stmt[o]
  <2>1. PICK rows \in Seq(Row) : rows = <<<<r, stmt[s].val>>>> /\ rows # <<>>
    BY <1>5
  <2>2. Collect(s, rows)
    BY <2>1 DEF InsertRow
  <2>3. /\ stmt' \in [Session -> Statement] /\ stmt'[s].rows = rows
        /\ \A o \in Session : o # s => stmt'[o] = stmt[o]
    BY <2>2, CollectType
  <2> QED  BY <2>1, <2>3
<1>7. /\ pc' = [pc EXCEPT ![s] = "index"] /\ UNCHANGED <<index, orphans, open, auto, undoing>>
  BY DEF InsertRow, Goto
<1>8. \A o \in Session : undoing[o] <= Len(journal'[o])
  BY <1>4, LenProperties DEF TypeOK
<1>9. TypeOK'
  BY <1>2, <1>3, <1>4, <1>6, <1>7, <1>8 DEF TypeOK
<1>10. ControlInv'
  BY <1>1, <1>6, <1>7 DEF ControlInv, TypeOK
<1> QED  BY <1>2, <1>7, <1>9, <1>10

LEMMA IndexSession ==
  ASSUME SessionInv, NEW s \in Session, IndexRow(s) \/ UnindexRow(s)
  PROVE  SessionInv'
<1> USE DEF SessionInv
<1>1. stmt[s].rows \in Seq(Row) /\ stmt[s].rows # <<>> /\ open[s]
  BY DEF TypeOK, Statement, ControlInv, IndexRow, UnindexRow
<1>2. /\ Head(stmt[s].rows) \in Row /\ Head(stmt[s].rows) = stmt[s].rows[1]
      /\ Tail(stmt[s].rows) \in Seq(Row)
  BY <1>1, FirstOf
<1>3. index' \in SUBSET (Val \X Rid) /\ IsFiniteSet(index')
  <2>1. index' = index \/ index' = index \cup {<<stmt[s].rows[1][2], stmt[s].rows[1][1]>>}
        \/ index' = index \ {<<Head(stmt[s].rows)[2], Head(stmt[s].rows)[1]>>}
    BY DEF IndexRow, UnindexRow
  <2>2. <<stmt[s].rows[1][2], stmt[s].rows[1][1]>> \in Val \X Rid
    BY <1>2 DEF Row
  <2>3. PICK e \in Val \X Rid : e = <<stmt[s].rows[1][2], stmt[s].rows[1][1]>>
    BY <2>2
  <2>4. index' = index \/ index' = index \cup {e} \/ index' = index \ {e}
    BY <1>2, <2>1, <2>3
  <2>5. index \in SUBSET (Val \X Rid)
    BY DEF TypeOK
  <2>6. IsFiniteSet(index \cup {e}) /\ IsFiniteSet(index \ {e})
    BY FS_AddElement, FS_RemoveElement
  <2> QED  BY <2>4, <2>5, <2>6
<1>4. /\ stmt' \in [Session -> Statement] /\ \A o \in Session : o # s => stmt'[o] = stmt[o]
  <2>1. UNCHANGED stmt \/ Collect(s, Tail(stmt[s].rows))
    BY DEF IndexRow, UnindexRow
  <2> QED  BY <1>2, <2>1, CollectType DEF TypeOK
<1>5. \E l \in {"failed", "done", "remove"} : pc' = [pc EXCEPT ![s] = l]
  BY DEF IndexRow, UnindexRow, Goto
<1>6. /\ UNCHANGED <<held, store, open, auto, journal, undoing>>
      /\ orphans' \in SUBSET orphans
  BY DEF IndexRow, UnindexRow, tx
<1>7. TypeOK'
  BY <1>3, <1>4, <1>5, <1>6 DEF TypeOK, Live
<1>8. ControlInv' /\ LeakInv'
  BY <1>1, <1>4, <1>5, <1>6 DEF ControlInv, LeakInv, TypeOK
<1> QED  BY <1>3, <1>7, <1>8

LEMMA ScanSession ==
  ASSUME SessionInv, NEW s \in Session, ScanRow(s)
  PROVE  SessionInv'
<1> USE DEF SessionInv
<1>1. open[s] /\ UNCHANGED <<held, store, index, orphans, open, auto, journal, undoing>>
  BY DEF ScanRow, data, tx, ControlInv
<1>2. \E l \in {"scan", "remove", "done"} : pc' = [pc EXCEPT ![s] = l]
  BY DEF ScanRow, Goto, TypeOK
<1>3. stmt' \in [Session -> Statement] /\ \A o \in Session : o # s => stmt'[o] = stmt[o]
  <2>1. CASE stmt' = [stmt EXCEPT ![s].at = 0]
    <3>1. stmt[s] \in Statement
      BY DEF TypeOK
    <3>2. [stmt[s] EXCEPT !.at = 0] \in Statement
      BY <3>1 DEF Statement
    <3> QED  BY <2>1, <3>2 DEF TypeOK
  <2>2. ASSUME NEW r \in Live,
               stmt' = [stmt EXCEPT ![s].at = r,
                          ![s].rows = IF stmt[s].kind = "delete" /\ store[r] = stmt[s].val
                                      THEN Append(@, <<r, store[r]>>) ELSE @]
        PROVE  stmt' \in [Session -> Statement] /\ \A o \in Session : o # s => stmt'[o] = stmt[o]
    <3> DEFINE rows == IF stmt[s].kind = "delete" /\ store[r] = stmt[s].val
                       THEN Append(stmt[s].rows, <<r, store[r]>>) ELSE stmt[s].rows
    <3>1. stmt[s] \in Statement /\ stmt[s].rows \in Seq(Row) /\ <<r, store[r]>> \in Row /\ r \in Nat
      BY ConstantsAssumption DEF TypeOK, Statement, Row
    <3>2. rows \in Seq(Row)
      BY <3>1, LastOf
    <3>3. stmt' = [stmt EXCEPT ![s] = [stmt[s] EXCEPT !.at = r, !.rows = rows]]
      BY <2>2, <3>1 DEF TypeOK, Statement
    <3> HIDE DEF rows
    <3>4. [stmt[s] EXCEPT !.at = r, !.rows = rows] \in Statement
      BY <3>1, <3>2 DEF Statement
    <3> QED  BY <3>3, <3>4 DEF TypeOK
  <2> QED  BY <2>1, <2>2 DEF ScanRow
<1>4. TypeOK'
  BY <1>1, <1>2, <1>3 DEF TypeOK, Live
<1>5. ControlInv' /\ LeakInv'
  BY <1>1, <1>2, <1>3 DEF ControlInv, LeakInv, TypeOK
<1> QED  BY <1>1, <1>4, <1>5

LEMMA RemoveSession ==
  ASSUME SessionInv, NEW s \in Session, RemoveRow(s)
  PROVE  SessionInv'
<1> USE DEF SessionInv
<1>1. stmt[s].rows \in Seq(Row) /\ stmt[s].rows # <<>> /\ open[s]
  BY DEF TypeOK, Statement, ControlInv, RemoveRow
<1>2. Head(stmt[s].rows) \in Row /\ Tail(stmt[s].rows) \in Seq(Row)
  BY <1>1, FirstOf
<1>3. PICK r \in Rid : r = Head(stmt[s].rows)[1]
  BY <1>2 DEF Row
<1>4. /\ Locks!Obtain(s, r, "X") /\ UNCHANGED <<index, orphans, open, auto, undoing>>
      /\ \/ /\ r \in Live /\ store' = Without(r) /\ Note(s, "del", r, store[r])
            /\ Goto(s, "unindex") /\ UNCHANGED stmt
         \/ Collect(s, Tail(stmt[s].rows)) /\ UNCHANGED <<store, journal, pc>>
  BY <1>3 DEF RemoveRow
<1>5. held' \in [Resource -> [Session -> Mode \cup {"none"}]] /\ LeakInv'
  BY <1>1, <1>4, ObtainSession DEF Resource, Mode
<1>6. CASE /\ r \in Live /\ store' = Without(r) /\ Note(s, "del", r, store[r])
           /\ Goto(s, "unindex") /\ UNCHANGED stmt
  <2>1. Live' \subseteq Rid /\ store' \in [Live' -> Val]
    BY <1>6, WithoutType
  <2>2. PICK v \in Val : v = store[r]
    BY <1>6 DEF TypeOK
  <2>3. /\ journal' \in [Session -> Seq(Change)]
        /\ \A o \in Session : Len(journal[o]) <= Len(journal'[o])
    BY <1>6, <2>2, NoteType
  <2>4. \A o \in Session : undoing[o] <= Len(journal'[o])
    BY <2>3, LenProperties DEF TypeOK
  <2>5. TypeOK'
    BY <1>4, <1>5, <1>6, <2>1, <2>3, <2>4 DEF TypeOK, Goto
  <2>6. ControlInv'
    BY <1>1, <1>4, <1>6 DEF ControlInv, TypeOK, Goto
  <2> QED  BY <1>4, <1>5, <2>5, <2>6
<1>7. CASE Collect(s, Tail(stmt[s].rows)) /\ UNCHANGED <<store, journal, pc>>
  <2>1. stmt' \in [Session -> Statement] /\ \A o \in Session : o # s => stmt'[o] = stmt[o]
    BY <1>2, <1>7, CollectType
  <2>2. TypeOK'
    BY <1>4, <1>5, <1>7, <2>1 DEF TypeOK, Live
  <2>3. pc[s] = "remove"
    BY DEF RemoveRow
  <2>4. ControlInv'
    BY <1>1, <1>4, <1>7, <2>1, <2>3 DEF ControlInv
  <2> QED  BY <1>4, <1>5, <2>2, <2>4
<1> QED  BY <1>4, <1>6, <1>7

\* Reading: OpenTable, SearchIndex, FetchRow, LastRow.
LEMMA ReadSession ==
  ASSUME SessionInv, NEW s \in Session,
         OpenTable(s) \/ SearchIndex(s) \/ FetchRow(s) \/ LastRow(s)
  PROVE  SessionInv'
<1> USE DEF SessionInv
<1>1. /\ open[s] /\ UNCHANGED <<store, index, orphans, open, auto, journal, undoing>>
      /\ \E l \in {"search", "scan", "fetch", "done"} : pc' = [pc EXCEPT ![s] = l]
  BY DEF OpenTable, SearchIndex, FetchRow, LastRow, data, tx, ControlInv, Goto, TypeOK
<1>2. held' \in [Resource -> [Session -> Mode \cup {"none"}]] /\ LeakInv'
  <2>1. CASE OpenTable(s)
    BY <1>1, <2>1, ObtainSession DEF OpenTable, Resource, Mode
  <2>2. CASE FetchRow(s)
    <3>1. PICK r \in Rid : r = Head(stmt[s].rows)[1]
      BY <2>2, FirstOf DEF FetchRow, TypeOK, Statement, Row
    <3> QED  BY <1>1, <2>2, <3>1, ObtainSession DEF FetchRow, Resource, Mode
  <2>3. CASE SearchIndex(s) \/ LastRow(s)
    BY <1>1, <2>3 DEF SearchIndex, LastRow, TypeOK, LeakInv
  <2> QED  BY <2>1, <2>2, <2>3
<1>3. stmt' \in [Session -> Statement] /\ \A o \in Session : o # s => stmt'[o] = stmt[o]
  <2>1. CASE OpenTable(s) \/ LastRow(s)
    BY <2>1 DEF OpenTable, LastRow, TypeOK
  <2>2. CASE FetchRow(s)
    <3>1. Tail(stmt[s].rows) \in Seq(Row) /\ Collect(s, Tail(stmt[s].rows))
      BY <2>2, FirstOf DEF FetchRow, TypeOK, Statement
    <3> QED  BY <3>1, CollectType
  <2>3. CASE SearchIndex(s)
    <3> DEFINE found == {e \in index : e[1] = stmt[s].val}
               R     == {<<e[2], e[1]>> : e \in found}
    <3>1. PICK rows \in Orders(R) : Collect(s, rows)
      BY <2>3 DEF SearchIndex
    <3>2. found \in SUBSET (Val \X Rid) /\ IsFiniteSet(found)
      BY FS_Subset DEF TypeOK
    <3> HIDE DEF found
    <3>3. R \in SUBSET Row /\ IsFiniteSet(R)
      BY <3>2, Turned DEF Row
    <3> HIDE DEF R
    <3>4. rows \in Seq(Row)
      BY <3>1, <3>3, OrdersType
    <3> QED  BY <3>1, <3>4, CollectType
  <2> QED  BY <2>1, <2>2, <2>3
<1>4. TypeOK'
  BY <1>1, <1>2, <1>3 DEF TypeOK, Live
<1>5. ControlInv'
  BY <1>1, <1>3 DEF ControlInv, TypeOK
<1> QED  BY <1>1, <1>2, <1>4, <1>5

\* A statement that succeeds, fails, or is refused a lock.
LEMMA OutcomeSession ==
  ASSUME SessionInv, NEW s \in Session, LockFails(s) \/ Succeed(s) \/ Fail(s)
  PROVE  SessionInv'
<1> USE DEF SessionInv
<1>1. open[s] /\ auto[s] \in BOOLEAN
  BY DEF LockFails, Wanted, Succeed, Fail, ControlInv, TypeOK
<1>2. CASE End(s)
  BY <1>2, EndSession
<1>3. CASE StartUndo(s, auto[s]) \/ StartUndo(s, FALSE)
  BY <1>1, <1>3, StartUndoSession
<1>4. CASE /\ \E l \in {"failed", "idle"} : Goto(s, l)
           /\ UNCHANGED <<held, data, tx>>
           /\ stmt' = stmt \/ stmt' = [stmt EXCEPT ![s] = NoStmt]
  <2>1. TypeOK'
    BY <1>4, NoStmtType DEF TypeOK, Goto, data, tx, Live
  <2>2. ControlInv' /\ LeakInv' /\ IsFiniteSet(index)'
    BY <1>1, <1>4 DEF ControlInv, LeakInv, TypeOK, Goto, data, tx
  <2> QED  BY <2>1, <2>2
<1> QED  BY <1>2, <1>3, <1>4 DEF LockFails, Succeed, Fail

\* The undo of a change, and its failure.
LEMMA RaisesSession ==
  ASSUME SessionInv, NEW s \in Session, Undoing(s), UndoRaises(s), UNCHANGED data
  PROVE  SessionInv'
<1> USE DEF SessionInv
<1>1. open[s] /\ Len(journal[s]) \in Nat
  BY LenProperties DEF ControlInv, TypeOK, Undoing
<1>2. /\ UNCHANGED <<held, store, index, orphans, open, journal>>
      /\ auto' = [auto EXCEPT ![s] = FALSE]
      /\ \E n \in {Len(journal[s]), 0} : undoing' = [undoing EXCEPT ![s] = n]
      /\ \E l \in {"undo", "idle"} : pc' = [pc EXCEPT ![s] = l]
      /\ stmt' = [stmt EXCEPT ![s] = NoStmt]
  BY DEF UndoRaises, Goto, TypeOK, data
<1>3. undoing' \in [Session -> Nat] /\ \A o \in Session : undoing'[o] <= Len(journal'[o])
  <2>1. PICK n \in {Len(journal[s]), 0} : undoing' = [undoing EXCEPT ![s] = n]
    BY <1>2
  <2>2. n \in Nat /\ n <= Len(journal[s])
    BY <1>1
  <2> QED  BY <1>2, <2>1, <2>2 DEF TypeOK
<1>4. /\ pc' \in [Session -> {"idle", "insert", "index", "open", "scan", "remove", "unindex",
                             "search", "fetch", "done", "failed", "undo", "reindex", "closed"}]
      /\ stmt' \in [Session -> Statement] /\ auto' \in [Session -> BOOLEAN]
  <2>1. PICK l \in {"undo", "idle"} : pc' = [pc EXCEPT ![s] = l]
    BY <1>2
  <2>2. pc' \in [Session -> {"idle", "insert", "index", "open", "scan", "remove", "unindex",
                             "search", "fetch", "done", "failed", "undo", "reindex", "closed"}]
    BY <2>1 DEF TypeOK
  <2>3. stmt \in [Session -> Statement] /\ NoStmt \in Statement
    BY NoStmtType DEF TypeOK
  <2>4. stmt' \in [Session -> Statement]
    BY <1>2, <2>3
  <2>5. auto' \in [Session -> BOOLEAN]
    BY <1>2 DEF TypeOK
  <2> QED  BY <2>2, <2>4, <2>5
<1>5. TypeOK'
  BY <1>2, <1>3, <1>4 DEF TypeOK, Live
<1>6. \A o \in Session : /\ pc'[o] # pc[o] => o = s /\ pc'[o] \in {"undo", "idle"}
                         /\ pc'[o] \notin {"undo", "idle"} => stmt'[o] = stmt[o]
  BY <1>2 DEF TypeOK
<1>7. ControlInv'
  BY <1>1, <1>2, <1>6 DEF ControlInv
<1>8. LeakInv'
  BY <1>2 DEF LeakInv
<1> QED  BY <1>2, <1>5, <1>7, <1>8

\* One entry of the journal is undone, and the session goes on.
LEMMA UndoneSession ==
  ASSUME SessionInv, NEW s \in Session, pc[s] = "undo", undoing[s] > 0, Undone(s),
         Live' \subseteq Rid, store' \in [Live' -> Val],
         index' \in SUBSET (Val \X Rid), IsFiniteSet(index'), orphans' = orphans,
         UNCHANGED <<held, open, auto, journal>>,
         stmt' \in [Session -> Statement], \A o \in Session : o # s => stmt'[o] = stmt[o],
         UNCHANGED pc \/ (Goto(s, "reindex") /\ stmt'[s].rows # <<>>)
  PROVE  SessionInv'
<1> USE DEF SessionInv
<1>1. undoing[s] - 1 \in Nat /\ undoing' = [undoing EXCEPT ![s] = undoing[s] - 1]
  BY DEF Undone, TypeOK
<1>2. \A o \in Session : undoing'[o] \in Nat /\ undoing'[o] <= undoing[o]
  BY <1>1 DEF TypeOK
<1>3. \A o \in Session : undoing'[o] <= Len(journal[o])
  BY <1>2, LenProperties DEF TypeOK
<1>4. \A o \in Session : pc'[o] = pc[o] \/ (o = s /\ pc'[o] = "reindex" /\ stmt'[s].rows # <<>>)
  BY DEF Goto, TypeOK
<1>5. pc' \in [Session -> {"idle", "insert", "index", "open", "scan", "remove", "unindex",
                          "search", "fetch", "done", "failed", "undo", "reindex", "closed"}]
  BY DEF Goto, TypeOK
<1>6. TypeOK'
  BY <1>1, <1>3, <1>5 DEF TypeOK
<1>7. ControlInv' /\ LeakInv'
  BY <1>4 DEF ControlInv, LeakInv
<1> QED  BY <1>6, <1>7

\* The change that is undone next.
LEMMA NextUndone ==
  ASSUME TypeOK, NEW s \in Session, undoing[s] > 0
  PROVE  undoing[s] \in DOMAIN journal[s] /\ journal[s][undoing[s]] \in Change
<1>1. undoing[s] \in 1 .. Len(journal[s]) /\ journal[s] \in Seq(Change)
  BY LenProperties DEF TypeOK
<1> QED  BY <1>1, ElementOfSeq, LenProperties

\* Taking an entry out of the index, or putting one in.
LEMMA EntriesType ==
  ASSUME SessionInv, NEW v \in Val, NEW r \in Rid
  PROVE  /\ index \cup {<<v, r>>} \in SUBSET (Val \X Rid) /\ IsFiniteSet(index \cup {<<v, r>>})
         /\ index \ {<<v, r>>} \in SUBSET (Val \X Rid) /\ IsFiniteSet(index \ {<<v, r>>})
         /\ index \in SUBSET (Val \X Rid) /\ IsFiniteSet(index)
<1>1. index \in SUBSET (Val \X Rid) /\ IsFiniteSet(index)
  BY DEF SessionInv, TypeOK
<1>2. PICK e \in Val \X Rid : e = <<v, r>>
  OBVIOUS
<1>3. IsFiniteSet(index \cup {e}) /\ IsFiniteSet(index \ {e})
  BY <1>1, FS_AddElement, FS_RemoveElement
<1>4. index \cup {e} \in SUBSET (Val \X Rid) /\ index \ {e} \in SUBSET (Val \X Rid)
  BY <1>1
<1> QED  BY <1>1, <1>2, <1>3, <1>4

LEMMA UndoSession ==
  ASSUME SessionInv, NEW s \in Session,
         \/ UndoInsert(s) \/ UndoOwnRemove(s) \/ FinishRollback(s)
         \/ \E r \in Rid : UndoRemove(s, r)
  PROVE  SessionInv'
<1> USE DEF SessionInv
<1>1. CASE FinishRollback(s)
  BY <1>1, EndSession DEF FinishRollback
<1>2. CASE UndoInsert(s)
  <2>1. PICK c \in Change : c = journal[s][undoing[s]]
    BY <1>2, NextUndone DEF UndoInsert
  <2>2. c.rid \in Rid /\ c.val \in Val /\ pc[s] = "undo" /\ undoing[s] > 0
    BY <1>2 DEF Change, UndoInsert
  <2>3. CASE UndoRaises(s) /\ UNCHANGED data
    BY <2>2, <2>3, RaisesSession DEF Undoing
  <2>4. CASE /\ index' = IF c.rid \in Live THEN index \ {<<c.val, c.rid>>} ELSE index
             /\ store' = Without(c.rid) /\ Undone(s)
             /\ UNCHANGED <<held, orphans, open, auto, journal, pc, stmt>>
    <3>1. /\ stmt' \in [Session -> Statement] /\ UNCHANGED <<stmt, pc>>
          /\ \A o \in Session : o # s => stmt'[o] = stmt[o]
      BY <2>4 DEF TypeOK
    <3>2. Live' \subseteq Rid /\ store' \in [Live' -> Val]
      BY <2>4, WithoutType
    <3>3. index' \in SUBSET (Val \X Rid) /\ IsFiniteSet(index')
      BY <2>2, <2>4, EntriesType
    <3> QED  BY <2>2, <2>4, <3>1, <3>2, <3>3, UndoneSession
  <2> QED  BY <1>2, <2>1, <2>3, <2>4 DEF UndoInsert
<1>3. ASSUME NEW r \in Rid, UndoRemove(s, r)
      PROVE  SessionInv'
  <2>1. PICK c \in Change : c = journal[s][undoing[s]]
    BY <1>3, NextUndone DEF UndoRemove
  <2>2. /\ c.val \in Val /\ pc[s] = "undo" /\ undoing[s] > 0 /\ store' = With(r, c.val)
        /\ Undone(s) /\ Goto(s, "reindex") /\ Collect(s, <<<<r, c.val>>>>)
        /\ UNCHANGED <<held, index, orphans, open, auto, journal>>
    BY <1>3, <2>1 DEF Change, UndoRemove
  <2>3. Live' \subseteq Rid /\ store' \in [Live' -> Val]
    BY <2>2, WithType
  <2>4. <<r, c.val>> \in Row
    BY <2>2 DEF Row
  <2>5. PICK rows \in Seq(Row) : rows = <<<<r, c.val>>>> /\ rows # <<>>
    BY <2>4, OneIn
  <2>6. /\ stmt' \in [Session -> Statement] /\ stmt'[s].rows # <<>>
        /\ \A o \in Session : o # s => stmt'[o] = stmt[o]
    <3>1. Collect(s, rows)
      BY <2>2, <2>5
    <3>2. stmt'[s].rows = rows /\ stmt' \in [Session -> Statement]
          /\ \A o \in Session : o # s => stmt'[o] = stmt[o]
      BY <3>1, CollectType
    <3> QED  BY <2>5, <3>2
  <2>7. index' \in SUBSET (Val \X Rid) /\ IsFiniteSet(index')
    BY <2>2, EntriesType
  <2>8. UNCHANGED <<held, open, auto, journal>> /\ orphans' = orphans
    BY <2>2
  <2>9. \/ UNCHANGED pc \/ (Goto(s, "reindex") /\ stmt'[s].rows # <<>>)
    BY <2>2, <2>6
  <2> QED  BY <2>2, <2>3, <2>6, <2>7, <2>8, <2>9, UndoneSession
<1>4. CASE UndoOwnRemove(s)
  <2>1. /\ pc[s] = "undo" /\ undoing[s] > 0 /\ Undone(s)
        /\ UNCHANGED <<held, store, index, orphans, open, auto, journal, pc, stmt>>
    BY <1>4 DEF UndoOwnRemove, data
  <2>2. /\ Live' \subseteq Rid /\ store' \in [Live' -> Val] /\ index' \in SUBSET (Val \X Rid)
        /\ IsFiniteSet(index') /\ stmt' \in [Session -> Statement]
    BY <2>1 DEF TypeOK, Live
  <2> QED  BY <2>1, <2>2, UndoneSession
<1> QED  BY <1>1, <1>2, <1>3, <1>4

\* The row that an undo has put back is indexed.
LEMMA RestoredSession ==
  ASSUME SessionInv, NEW s \in Session, IndexRestored(s)
  PROVE  SessionInv'
<1> USE DEF SessionInv
<1>1. stmt[s].rows \in Seq(Row) /\ stmt[s].rows # <<>> /\ open[s] /\ pc[s] = "reindex"
  BY DEF TypeOK, Statement, ControlInv, IndexRestored
<1>2. PICK row \in Row : row = stmt[s].rows[1]
  BY <1>1, FirstOf
<1>3. row[1] \in Rid /\ row[2] \in Val
  BY DEF Row
<1>4. CASE UndoRaises(s) /\ UNCHANGED data
  BY <1>1, <1>4, RaisesSession DEF Undoing
<1>5. CASE /\ index' = index \cup {<<row[2], row[1]>>}
           /\ orphans' = IF row[1] \in Live THEN orphans ELSE orphans \cup {<<row[2], row[1]>>}
           /\ stmt' = [stmt EXCEPT ![s] = NoStmt] /\ Goto(s, "undo")
           /\ UNCHANGED <<held, store, tx>>
  <2>1. index' \in SUBSET (Val \X Rid) /\ IsFiniteSet(index')
    BY <1>3, <1>5, EntriesType
  <2>2. orphans' \subseteq Val \X Rid
    BY <1>3, <1>5 DEF TypeOK
  <2>3. TypeOK'
    BY <1>5, <2>1, <2>2, NoStmtType DEF TypeOK, Goto, tx, Live
  <2>4. ControlInv' /\ LeakInv'
    BY <1>1, <1>5 DEF ControlInv, LeakInv, TypeOK, Goto, tx
  <2> QED  BY <2>1, <2>3, <2>4
<1> QED  BY <1>2, <1>4, <1>5 DEF IndexRestored

\* A record id for a new row is one that nothing mentions.
LEMMA FreshIsUnknown == \A r \in Fresh : r \in Unknown /\ r \in Rid
BY DEF Fresh, Unknown

\* Nothing mentions an unknown record id.
LEMMA UnknownIsNew ==
  ASSUME NEW r \in Unknown
  PROVE  /\ r \in Rid /\ r \notin Live /\ \A v \in Val : <<v, r>> \notin index
         /\ \A s \in Session :
              /\ \A i \in DOMAIN journal[s] : journal[s][i].rid # r
              /\ \A i \in DOMAIN stmt[s].rows : stmt[s].rows[i][1] # r
<1>1. r \in Rid /\ r \notin Live /\ \A e \in index : e[2] # r
  BY DEF Unknown
<1>2. \A s \in Session : r \notin Mentioned(s)
  BY DEF Unknown
<1> QED BY <1>1, <1>2 DEF Mentioned

LEMMA SessionStep == SessionInv /\ [Next]_vars => SessionInv'
<1> SUFFICES ASSUME SessionInv, [Next]_vars  PROVE SessionInv'
  OBVIOUS
<1>1. CASE UNCHANGED vars
  BY <1>1 DEF vars, SessionInv, TypeOK, ControlInv, LeakInv, Live
<1>2. ASSUME NEW s \in Session, Ask(s)  PROVE SessionInv'
  BY <1>2, AskSession
<1>3. ASSUME NEW s \in Session, Step(s)  PROVE SessionInv'
  <2>1. CASE \E r \in Fresh : InsertRow(s, r)
    BY <2>1, FreshIsUnknown, InsertSession
  <2>2. CASE IndexRow(s) \/ UnindexRow(s)
    BY <2>2, IndexSession
  <2>3. CASE ScanRow(s)
    BY <2>3, ScanSession
  <2>4. CASE RemoveRow(s)
    BY <2>4, RemoveSession
  <2>5. CASE OpenTable(s) \/ SearchIndex(s) \/ FetchRow(s) \/ LastRow(s)
    BY <2>5, ReadSession
  <2>6. CASE LockFails(s) \/ Succeed(s) \/ Fail(s)
    BY <2>6, OutcomeSession
  <2>7. CASE UndoInsert(s) \/ UndoOwnRemove(s) \/ FinishRollback(s)
    BY <2>7, UndoSession
  <2>8. CASE \E r \in Fresh : UndoRemove(s, r)
    BY <2>8, FreshIsUnknown, UndoSession
  <2>9. CASE IndexRestored(s)
    BY <2>9, RestoredSession
  <2> QED  BY <1>3, <2>1, <2>2, <2>3, <2>4, <2>5, <2>6, <2>7, <2>8, <2>9 DEF Step
<1> QED  BY <1>1, <1>2, <1>3 DEF Next

\* The state is of its type, a session that runs a statement has an open
\* transaction, and one without a transaction holds no lock.
THEOREM SessionInvariant == Spec => []SessionInv
<1>1. Init => SessionInv
  BY SessionInit
<1>2. SessionInv /\ [Next]_vars => SessionInv'
  BY SessionStep
<1> QED  BY <1>1, <1>2, PTL DEF Spec

\* However a transaction ends (commit, rollback, the end or the failure of a
\* statement that opened its own, a rollback whose undo raised), the session is
\* left with no lock: every end goes through release_all, and a transaction the
\* code leaves open keeps its locks.  For every number of sessions, every index
\* that may raise, and whoever closes.
THEOREM LocksReleased == Spec => []NoLockLeak
<1>1. SessionInv => NoLockLeak
  BY DEF SessionInv, NoLockLeak, LeakInv
<1> QED  BY <1>1, SessionInvariant, PTL
-----------------------------------------------------------------------------
\* No session is closed while others work: close resets the lock manager all
\* sessions share, after which nothing below holds.
NobodyCloses == Closers = {}

\* A lock in X excludes every other holder.
Alone(s, o) == \A r \in Resource : held[r][s] = "X" => held[r][o] = "none"
ExclusiveInv == \A s, o \in Session : s # o => Alone(s, o)

\* What a session must hold where it is: the table while it reads or has just
\* inserted, the record it has just removed.
Holding(s) ==
  /\ pc[s] \in {"scan", "search", "remove", "unindex"} => held[Table][s] # "none"
  /\ pc[s] = "index" => held[Table][s] = "X"
  /\ pc[s] = "unindex" => held[Head(stmt[s].rows)[1]][s] = "X"

\* What a session has changed is locked in X.
Guarded(s) ==
  \A i \in DOMAIN journal[s] :
    held[IF journal[s][i].kind = "ins" THEN Table ELSE journal[s][i].rid][s] = "X"

LockInv == ExclusiveInv /\ \A s \in Session : Holding(s) /\ Guarded(s)

\* The sessions other than s are not touched.
Others(s) ==
  \A o \in Session : o # s =>
    /\ pc'[o] = pc[o] /\ stmt'[o] = stmt[o] /\ journal'[o] = journal[o]
    /\ \A r \in Resource : held'[r][o] = held[r][o]

-----------------------------------------------------------------------------
\* The record of a change is a resource, and so is the table.
LEMMA Lockable ==
  ASSUME SessionInv, NEW s \in Session
  PROVE  /\ Table \in Resource
         /\ \A i \in DOMAIN journal[s] : journal[s][i] \in Change /\ journal[s][i].rid \in Rid
         /\ stmt[s].rows \in Seq(Row)
         /\ stmt[s].rows # <<>> => /\ Head(stmt[s].rows) \in Row /\ Head(stmt[s].rows)[1] \in Rid
                                   /\ Head(stmt[s].rows)[1] \in Resource
<1>1. journal[s] \in Seq(Change) /\ stmt[s].rows \in Seq(Row)
  BY DEF SessionInv, TypeOK, Statement
<1>2. \A i \in DOMAIN journal[s] : journal[s][i] \in Change
  BY <1>1, ElementOfSeq, LenProperties
<1>3. stmt[s].rows # <<>> => Head(stmt[s].rows) \in Row
  BY <1>1, FirstOf
<1> QED  BY <1>1, <1>2, <1>3 DEF Resource, Row, Change

\* When the others are not touched, only what s holds has to be looked at.
LEMMA OnlyOne ==
  ASSUME SessionInv, LockInv, NEW s \in Session, Others(s),
         \A o \in Session \ {s} : Alone(s, o)' /\ Alone(o, s)',
         Holding(s)', Guarded(s)'
  PROVE  LockInv'
<1>1. ASSUME NEW o \in Session, o # s  PROVE Holding(o)'
  <2>1. pc[o] = "unindex" => Head(stmt[o].rows)[1] \in Resource
    BY Lockable DEF SessionInv, ControlInv
  <2>2. Table \in Resource
    BY DEF Resource
  <2>3. Holding(o) /\ pc'[o] = pc[o] /\ stmt'[o] = stmt[o]
        /\ \A r \in Resource : held'[r][o] = held[r][o]
    BY <1>1 DEF LockInv, Others
  <2> QED  BY <2>1, <2>2, <2>3 DEF Holding
<1>2. ASSUME NEW o \in Session, o # s  PROVE Guarded(o)'
  <2>1. \A i \in DOMAIN journal[o] : journal[o][i].rid \in Resource /\ Table \in Resource
    BY Lockable DEF Resource
  <2>2. Guarded(o) /\ journal'[o] = journal[o] /\ \A r \in Resource : held'[r][o] = held[r][o]
    BY <1>2 DEF LockInv, Others
  <2> QED  BY <2>1, <2>2 DEF Guarded
<1>3. ASSUME NEW o \in Session, NEW p \in Session, o # p  PROVE Alone(o, p)'
  <2>1. CASE o = s \/ p = s
    BY <1>3, <2>1
  <2>2. CASE o # s /\ p # s
    <3>1. Alone(o, p) /\ \A r \in Resource : held'[r][o] = held[r][o] /\ held'[r][p] = held[r][p]
      BY <1>3, <2>2 DEF LockInv, ExclusiveInv, Others
    <3> QED  BY <3>1 DEF Alone
  <2> QED  BY <2>1, <2>2
<1> QED  BY <1>1, <1>2, <1>3 DEF LockInv, ExclusiveInv

\* A session that changes no lock and no journal, and stays where it is, moves to
\* where it needs no lock, or from one read to the next.
LEMMA MoveLock ==
  ASSUME SessionInv, LockInv, NEW s \in Session, UNCHANGED <<held, journal>>,
         \A o \in Session : o # s => pc'[o] = pc[o] /\ stmt'[o] = stmt[o],
         \/ pc'[s] \notin {"scan", "search", "remove", "unindex", "index"}
         \/ pc'[s] \in {"scan", "remove"} /\ pc[s] \in {"scan", "unindex"}
         \/ pc'[s] = pc[s] /\ stmt'[s] = stmt[s]
  PROVE  LockInv'
<1>1. Others(s)
  BY DEF Others
<1>2. Holding(s)'
  BY DEF Holding, LockInv
<1>3. Guarded(s)'
  BY DEF Guarded, LockInv
<1>4. \A o \in Session \ {s} : Alone(s, o)' /\ Alone(o, s)'
  BY DEF Alone, LockInv, ExclusiveInv
<1> QED  BY <1>1, <1>2, <1>3, <1>4, OnlyOne

\* A session that ends its transaction lets everything go, its journal too.
LEMMA EndLock ==
  ASSUME SessionInv, LockInv, NEW s \in Session, End(s)
  PROVE  LockInv'
<1>1. /\ \A r \in Resource : held'[r][s] = "none"
      /\ \A r \in Resource : \A o \in Session : o # s => held'[r][o] = held[r][o]
  BY ReleasedType DEF End, SessionInv
<1>2. /\ \A o \in Session :
           o # s => pc'[o] = pc[o] /\ stmt'[o] = stmt[o] /\ journal'[o] = journal[o]
      /\ pc'[s] = "idle" /\ journal'[s] = <<>>
  BY DEF End, Goto, SessionInv, TypeOK
<1>3. Others(s)
  BY <1>1, <1>2 DEF Others
<1>4. \A o \in Session \ {s} : Alone(s, o)' /\ Alone(o, s)'
  BY <1>1 DEF Alone
<1>5. Holding(s)' /\ Guarded(s)'
  BY <1>2, NothingIn DEF Holding, Guarded
<1> QED  BY <1>3, <1>4, <1>5, OnlyOne

\* A lock obtained keeps sessions apart.
LEMMA ObtainLock ==
  ASSUME SessionInv, LockInv, NEW s \in Session, NEW r \in Resource, NEW m \in Mode,
         Locks!Obtain(s, r, m)
  PROVE  /\ \A o \in Session \ {s} : Alone(s, o)' /\ Alone(o, s)'
         /\ \A q \in Resource : \A o \in Session : o # s => held'[q][o] = held[q][o]
         /\ \A q \in Resource : q # r => held'[q][s] = held[q][s]
         /\ \A q \in Resource : held[q][s] = "X" => held'[q][s] = "X"
         /\ held'[r][s] \in Mode /\ held'[r][s] # "none" /\ (m = "X" => held'[r][s] = "X")
<1>1. /\ held'[r][s] \in Mode
      /\ m = "X" \/ held[r][s] = "X" => held'[r][s] = "X"
      /\ \A q \in Resource : \A o \in Session : q # r \/ o # s => held'[q][o] = held[q][o]
      /\ \A o \in Session : o # s /\ held'[r][s] = "X" => held[r][o] = "none"
      /\ \A o \in Session : o # s => held[r][o] # "X"
  BY ObtainType DEF SessionInv
<1>2. ASSUME NEW o \in Session \ {s}  PROVE Alone(s, o)' /\ Alone(o, s)'
  <2>1. Alone(s, o) /\ Alone(o, s)
    BY <1>2 DEF LockInv, ExclusiveInv
  <2> QED  BY <1>1, <2>1 DEF Alone
<1>3. held'[r][s] # "none"
  BY <1>1 DEF Mode
<1> QED  BY <1>1, <1>2, <1>3

LEMMA InsertLock ==
  ASSUME SessionInv, LockInv, NEW s \in Session, NEW r \in Rid, InsertRow(s, r)
  PROVE  LockInv'
<1> DEFINE e == [kind |-> "ins", rid |-> r, val |-> stmt[s].val]
<1>1. /\ \A o \in Session \ {s} : Alone(s, o)' /\ Alone(o, s)'
      /\ \A q \in Resource : \A o \in Session : o # s => held'[q][o] = held[q][o]
      /\ \A q \in Resource : held[q][s] = "X" => held'[q][s] = "X"
      /\ held'[Table][s] = "X"
  BY ObtainLock DEF InsertRow, Resource, Mode
<1>2. stmt[s].val \in Val
  BY DEF SessionInv, TypeOK, Statement
<1>3. /\ \A o \in Session : o # s => journal'[o] = journal[o]
      /\ journal'[s] = Append(journal[s], e)
  BY <1>2, NoteType DEF InsertRow, SessionInv
<1>4. /\ pc'[s] = "index" /\ \A o \in Session : o # s => pc'[o] = pc[o] /\ stmt'[o] = stmt[o]
  BY DEF InsertRow, Goto, Collect, SessionInv, TypeOK
<1>5. Others(s)
  BY <1>1, <1>3, <1>4 DEF Others
<1>6. Holding(s)'
  BY <1>1, <1>4 DEF Holding
<1>7. Guarded(s)'
  <2>1. e \in Change /\ e.kind = "ins" /\ journal[s] \in Seq(Change)
    BY <1>2 DEF Change, SessionInv, TypeOK
  <2> HIDE DEF e
  <2>2. \A i \in DOMAIN journal'[s] :
          \/ i \in DOMAIN journal[s] /\ journal'[s][i] = journal[s][i]
          \/ journal'[s][i] = e
    BY <1>3, <2>1, LastOf
  <2>3. \A i \in DOMAIN journal[s] : journal[s][i].rid \in Resource
    BY Lockable DEF Resource
  <2>4. Guarded(s)
    BY DEF LockInv
  <2> QED  BY <1>1, <2>1, <2>2, <2>3, <2>4 DEF Guarded
<1> QED  BY <1>1, <1>5, <1>6, <1>7, OnlyOne

LEMMA RemoveLock ==
  ASSUME SessionInv, LockInv, NEW s \in Session, RemoveRow(s)
  PROVE  LockInv'
<1>1. PICK r \in Rid : r = Head(stmt[s].rows)[1] /\ r \in Resource /\ r # Table
  BY Lockable, ConstantsAssumption DEF RemoveRow
<1>2. /\ pc[s] = "remove" /\ Locks!Obtain(s, r, "X")
      /\ \/ /\ r \in Live /\ Note(s, "del", r, store[r])
            /\ Goto(s, "unindex") /\ UNCHANGED stmt
         \/ Collect(s, Tail(stmt[s].rows)) /\ UNCHANGED <<store, journal, pc>>
  BY <1>1 DEF RemoveRow
<1>3. /\ \A o \in Session \ {s} : Alone(s, o)' /\ Alone(o, s)'
      /\ \A q \in Resource : \A o \in Session : o # s => held'[q][o] = held[q][o]
      /\ \A q \in Resource : q # r => held'[q][s] = held[q][s]
      /\ \A q \in Resource : held[q][s] = "X" => held'[q][s] = "X"
      /\ held'[r][s] = "X"
  BY <1>1, <1>2, ObtainLock DEF Mode
<1>4. held'[Table][s] # "none" /\ Guarded(s)
  BY <1>1, <1>2, <1>3 DEF LockInv, Holding, Resource
<1>5. \A i \in DOMAIN journal[s] : journal[s][i].rid \in Resource /\ Table \in Resource
  BY Lockable DEF Resource
<1>6. CASE r \in Live /\ Note(s, "del", r, store[r]) /\ Goto(s, "unindex") /\ UNCHANGED stmt
  <2>1. PICK v \in Val : v = store[r]
    BY <1>6 DEF SessionInv, TypeOK
  <2> DEFINE e == [kind |-> "del", rid |-> r, val |-> v]
  <2>2. /\ \A o \in Session : o # s => journal'[o] = journal[o]
        /\ journal'[s] = Append(journal[s], e)
    BY <1>6, <2>1, NoteType DEF SessionInv
  <2>3. e \in Change /\ e.kind = "del" /\ e.rid = r /\ journal[s] \in Seq(Change)
    BY DEF Change, SessionInv, TypeOK
  <2> HIDE DEF e
  <2>4. \A i \in DOMAIN journal'[s] :
          \/ i \in DOMAIN journal[s] /\ journal'[s][i] = journal[s][i]
          \/ journal'[s][i] = e
    BY <2>2, <2>3, LastOf
  <2>5. Guarded(s)'
    BY <1>3, <1>4, <1>5, <2>3, <2>4 DEF Guarded
  <2>6. pc'[s] = "unindex" /\ \A o \in Session : o # s => pc'[o] = pc[o]
    BY <1>6 DEF Goto, SessionInv, TypeOK
  <2>7. Holding(s)' /\ Others(s)
    BY <1>1, <1>3, <1>4, <1>6, <2>2, <2>6 DEF Holding, Others
  <2> QED  BY <1>3, <2>5, <2>7, OnlyOne
<1>7. CASE Collect(s, Tail(stmt[s].rows)) /\ UNCHANGED <<store, journal, pc>>
  <2>1. \A o \in Session : o # s => stmt'[o] = stmt[o]
    BY <1>7 DEF Collect, SessionInv, TypeOK
  <2>2. Holding(s)' /\ Others(s)
    BY <1>2, <1>3, <1>4, <1>7, <2>1 DEF Holding, Others
  <2>3. Guarded(s)'
    BY <1>3, <1>4, <1>5, <1>7 DEF Guarded
  <2> QED  BY <1>3, <2>2, <2>3, OnlyOne
<1> QED  BY <1>2, <1>6, <1>7

LEMMA ReadLock ==
  ASSUME SessionInv, LockInv, NEW s \in Session, OpenTable(s) \/ FetchRow(s)
  PROVE  LockInv'
<1>1. PICK r \in Resource : /\ Locks!Obtain(s, r, "S")
                            /\ OpenTable(s) => r = Table
  BY Lockable DEF OpenTable, FetchRow
<1>2. /\ \A o \in Session \ {s} : Alone(s, o)' /\ Alone(o, s)'
      /\ \A q \in Resource : \A o \in Session : o # s => held'[q][o] = held[q][o]
      /\ \A q \in Resource : held[q][s] = "X" => held'[q][s] = "X"
      /\ held'[r][s] # "none"
  BY <1>1, ObtainLock DEF Mode
<1>3. /\ UNCHANGED journal
      /\ \A o \in Session : o # s => pc'[o] = pc[o] /\ stmt'[o] = stmt[o]
      /\ (pc'[s] \in {"search", "scan"} /\ OpenTable(s)) \/ pc'[s] = "fetch"
  BY DEF OpenTable, FetchRow, Goto, Collect, tx, SessionInv, TypeOK
<1>4. Others(s) /\ Holding(s)'
  BY <1>1, <1>2, <1>3 DEF Others, Holding
<1>5. Guarded(s)'
  <2>1. \A i \in DOMAIN journal[s] : journal[s][i].rid \in Resource /\ Table \in Resource
    BY Lockable DEF Resource
  <2> QED  BY <1>2, <1>3, <2>1 DEF Guarded, LockInv
<1> QED  BY <1>2, <1>4, <1>5, OnlyOne

LEMMA UndoLock ==
  ASSUME SessionInv, LockInv, NEW s \in Session,
         \/ UndoInsert(s) \/ UndoOwnRemove(s) \/ IndexRestored(s)
         \/ \E r \in Rid : UndoRemove(s, r)
  PROVE  LockInv'
<1>1. /\ UNCHANGED <<held, journal>>
      /\ \A o \in Session : o # s => pc'[o] = pc[o] /\ stmt'[o] = stmt[o]
      /\ pc'[s] \in {"undo", "reindex", "idle"}
  BY DEF UndoInsert, UndoOwnRemove, UndoRemove, IndexRestored, UndoRaises, Goto, Collect, tx,
         SessionInv, TypeOK
<1> QED  BY <1>1, MoveLock

LEMMA StartUndoLock ==
  ASSUME SessionInv, LockInv, NEW s \in Session, NEW twice, StartUndo(s, twice)
  PROVE  LockInv'
<1>1. /\ UNCHANGED <<held, journal>> /\ pc'[s] = "undo"
      /\ \A o \in Session : o # s => pc'[o] = pc[o] /\ stmt'[o] = stmt[o]
  BY DEF StartUndo, Goto, SessionInv, TypeOK
<1> QED  BY <1>1, MoveLock

LEMMA LockStep == NobodyCloses /\ SessionInv /\ LockInv /\ [Next]_vars => LockInv'
<1> SUFFICES ASSUME NobodyCloses, SessionInv, LockInv, [Next]_vars  PROVE LockInv'
  OBVIOUS
<1>1. CASE UNCHANGED vars
  BY <1>1 DEF vars, LockInv, ExclusiveInv, Alone, Holding, Guarded
<1>2. ASSUME NEW s \in Session, Ask(s)  PROVE LockInv'
  <2>1. CASE Begin(s) \/ \E kind \in Kinds, v \in Val : Execute(s, kind, v)
    <3>1. /\ UNCHANGED <<held, journal>>
          /\ \A o \in Session : o # s => pc'[o] = pc[o] /\ stmt'[o] = stmt[o]
          /\ pc'[s] \in {"idle", "insert", "open"}
      BY <2>1 DEF Begin, Execute, Goto, SessionInv, TypeOK
    <3> QED  BY <3>1, MoveLock
  <2>2. CASE Commit(s) \/ Rollback(s)
    BY <2>2, EndLock, StartUndoLock DEF Commit, Rollback
  <2>3. ~ Close(s)
    BY DEF Close, NobodyCloses
  <2> QED  BY <1>2, <2>1, <2>2, <2>3 DEF Ask
<1>3. ASSUME NEW s \in Session, Step(s)  PROVE LockInv'
  <2>1. CASE \E r \in Fresh : InsertRow(s, r)
    BY <2>1, FreshIsUnknown, InsertLock
  <2>2. CASE RemoveRow(s)
    BY <2>2, RemoveLock
  <2>3. CASE OpenTable(s) \/ FetchRow(s)
    BY <2>3, ReadLock
  <2>4. CASE IndexRow(s) \/ UnindexRow(s) \/ ScanRow(s)
    <3>1. /\ UNCHANGED <<held, journal>>
          /\ \A o \in Session : o # s => pc'[o] = pc[o] /\ stmt'[o] = stmt[o]
          /\ \/ pc'[s] \in {"done", "failed"}
             \/ pc'[s] \in {"scan", "remove"} /\ pc[s] \in {"scan", "unindex"}
      BY <2>4 DEF IndexRow, UnindexRow, ScanRow, Goto, Collect, tx, data, SessionInv, TypeOK
    <3> QED  BY <3>1, MoveLock
  <2>5. CASE SearchIndex(s) \/ LastRow(s)
    <3>1. /\ UNCHANGED <<held, journal>> /\ pc'[s] \in {"fetch", "done"}
          /\ \A o \in Session : o # s => pc'[o] = pc[o] /\ stmt'[o] = stmt[o]
      BY <2>5 DEF SearchIndex, LastRow, Goto, Collect, tx, SessionInv, TypeOK
    <3> QED  BY <3>1, MoveLock
  <2>6. CASE LockFails(s) \/ Succeed(s) \/ Fail(s)
    <3>1. CASE End(s)
      BY <3>1, EndLock
    <3>2. CASE StartUndo(s, auto[s]) \/ StartUndo(s, FALSE)
      BY <3>2, StartUndoLock
    <3>3. CASE /\ \E l \in {"failed", "idle"} : Goto(s, l)
               /\ UNCHANGED <<held, tx>>
               /\ stmt' = stmt \/ stmt' = [stmt EXCEPT ![s] = NoStmt]
      <4>1. /\ UNCHANGED <<held, journal>> /\ pc'[s] \in {"failed", "idle"}
            /\ \A o \in Session : o # s => pc'[o] = pc[o] /\ stmt'[o] = stmt[o]
        BY <3>3 DEF Goto, tx, SessionInv, TypeOK
      <4> QED  BY <4>1, MoveLock
    <3> QED  BY <2>6, <3>1, <3>2, <3>3 DEF LockFails, Succeed, Fail
  <2>7. CASE \/ UndoInsert(s) \/ UndoOwnRemove(s) \/ IndexRestored(s)
             \/ \E r \in Fresh : UndoRemove(s, r)
    BY <2>7, FreshIsUnknown, UndoLock
  <2>8. CASE FinishRollback(s)
    BY <2>8, EndLock DEF FinishRollback
  <2> QED  BY <1>3, <2>1, <2>2, <2>3, <2>4, <2>5, <2>6, <2>7, <2>8 DEF Step
<1> QED  BY <1>1, <1>2, <1>3 DEF Next

LEMMA LockInit == Init => LockInv
<1> SUFFICES ASSUME Init  PROVE LockInv
  OBVIOUS
<1>1. \A r \in Resource, s \in Session : held[r][s] = "none"
  BY DEF Init, Locks!ServiceInit
<1>2. \A s \in Session : pc[s] = "idle" /\ DOMAIN journal[s] = {}
  BY NothingIn DEF Init
<1> QED  BY <1>1, <1>2 DEF LockInv, ExclusiveInv, Alone, Holding, Guarded

\* Locks exclude one another, sessions hold what they need where they are, and
\* changes stay locked.
THEOREM LockInvariant == NobodyCloses => (Spec => []LockInv)
<1> SUFFICES ASSUME NobodyCloses  PROVE Spec => []LockInv
  OBVIOUS
<1>1. Init => LockInv
  BY LockInit
<1>2. LockInv /\ SessionInv /\ [Next]_vars => LockInv'
  BY LockStep
<1> QED  BY <1>1, <1>2, SessionInvariant, PTL DEF Spec

-----------------------------------------------------------------------------
\* Strictness: whatever an open transaction has inserted or removed stays locked
\* in X until it ends, through failed statements and failed rollbacks too.
THEOREM ChangesStayLocked == NobodyCloses => (Spec => []WritesLocked)
<1> SUFFICES ASSUME NobodyCloses  PROVE Spec => []WritesLocked
  OBVIOUS
<1>1. LockInv => WritesLocked
  BY DEF LockInv, Guarded, WritesLocked
<1> QED  BY <1>1, LockInvariant, PTL

\* A session that scans the table or searches an index sees no row that another
\* session's open transaction has inserted: the other holds the table in X from
\* its first insert on, and the reader holds it too.
THEOREM ScansSeeNoOpenInsert == NobodyCloses => (Spec => []NoDirtyInsertRead)
<1> SUFFICES ASSUME NobodyCloses  PROVE Spec => []NoDirtyInsertRead
  OBVIOUS
<1>1. SessionInv /\ LockInv => NoDirtyInsertRead
  <2> SUFFICES ASSUME SessionInv, LockInv, NEW s \in Session, NEW o \in Session, s # o,
                      pc[s] \in {"scan", "search"}, NEW r \in OwnRows(o)
               PROVE  FALSE
    BY DEF NoDirtyInsertRead
  <2>1. PICK j \in DOMAIN Pending(o) : Pending(o)[j].kind = "ins"
    BY DEF OwnRows
  <2>2. journal[o] \in Seq(Change) /\ undoing[o] \in Nat /\ undoing[o] <= Len(journal[o])
        /\ Len(journal[o]) \in Nat
    BY LenProperties DEF SessionInv, TypeOK
  <2>3. j \in DOMAIN journal[o] /\ journal[o][j].kind = "ins"
    <3>1. CASE Pending(o) = journal[o]
      BY <2>1, <3>1
    <3>2. CASE Pending(o) = SubSeq(journal[o], 1, undoing[o])
      BY <2>1, <2>2, <3>2
    <3> QED  BY <3>1, <3>2 DEF Pending
  <2>4. held[Table][o] = "X"
    BY <2>3 DEF LockInv, Guarded
  <2>5. held[Table][s] # "none"
    BY DEF LockInv, Holding
  <2>6. Alone(o, s) /\ Table \in Resource
    BY DEF LockInv, ExclusiveInv, Resource
  <2> QED  BY <2>4, <2>5, <2>6 DEF Alone
<1> QED  BY <1>1, SessionInvariant, LockInvariant, PTL

\* Closing a session while others work is the only way a lock is lost before its
\* transaction ends.
THEOREM OnlyCloseLosesLocks == NobodyCloses => (Spec => LocksKept)
<1> SUFFICES ASSUME NobodyCloses  PROVE Spec => LocksKept
  OBVIOUS
<1> DEFINE Kept == \A s \in Session, r \in Resource :
                     held[r][s] # "none" /\ held'[r][s] = "none" => ~ open'[s]
<1>1. SessionInv /\ [Next]_vars => [Kept]_vars
  <2> SUFFICES ASSUME SessionInv, Next  PROVE Kept
    OBVIOUS
  <2>1. ASSUME NEW s \in Session, End(s)  PROVE Kept
    <3>1. /\ \A r \in Resource : \A o \in Session : o # s => held'[r][o] = held[r][o]
          /\ open'[s] = FALSE
      BY <2>1, ReleasedType DEF End, SessionInv, TypeOK
    <3> QED  BY <3>1
  <2>2. ASSUME NEW s \in Session, NEW r \in Resource, NEW m \in Mode, Locks!Obtain(s, r, m)
        PROVE  Kept
    <3>1. /\ held'[r][s] \in Mode
          /\ \A q \in Resource : \A o \in Session : q # r \/ o # s => held'[q][o] = held[q][o]
      BY <2>2, ObtainType DEF SessionInv
    <3> QED  BY <3>1 DEF Mode
  <2>3. ASSUME NEW s \in Session, UNCHANGED held  PROVE Kept
    BY <2>3
  <2>4. PICK s \in Session : Step(s) \/ Ask(s)
    BY DEF Next
  <2>5. CASE Ask(s)
    BY <2>1, <2>3, <2>5 DEF Ask, Begin, Commit, Rollback, StartUndo, Close, Execute, NobodyCloses
  <2>6. CASE Step(s)
    <3>1. CASE (\E r \in Fresh : InsertRow(s, r)) \/ OpenTable(s) \/ RemoveRow(s) \/ FetchRow(s)
      <4>1. \E r \in Resource, m \in Mode : Locks!Obtain(s, r, m)
        BY <3>1, Lockable DEF InsertRow, OpenTable, RemoveRow, FetchRow, Mode
      <4> QED  BY <2>2, <4>1
    <3>2. CASE LockFails(s) \/ Succeed(s) \/ Fail(s)
      BY <2>1, <2>3, <3>2 DEF LockFails, Succeed, Fail, StartUndo
    <3>3. CASE FinishRollback(s)
      BY <2>1, <3>3 DEF FinishRollback
    <3>4. CASE \/ UndoInsert(s) \/ UndoOwnRemove(s) \/ (\E r \in Fresh : UndoRemove(s, r))
               \/ IndexRestored(s) \/ IndexRow(s) \/ ScanRow(s) \/ UnindexRow(s)
               \/ SearchIndex(s) \/ LastRow(s)
      BY <2>3, <3>4 DEF UndoInsert, UndoOwnRemove, UndoRemove, IndexRestored, UndoRaises,
                        IndexRow, ScanRow, UnindexRow, SearchIndex, LastRow
    <3> QED  BY <2>6, <3>1, <3>2, <3>3, <3>4 DEF Step
  <2> QED  BY <2>4, <2>5, <2>6
<1> QED  BY <1>1, SessionInvariant, PTL DEF Spec, LocksKept

-----------------------------------------------------------------------------
(* The rows and the index.                                                 *)

\* No change of an index raises: an index that does leaves its row stored and
\* unindexed, or removed and indexed, until the transaction ends.
IndexesTakeAll == InsertFails = {} /\ RemoveFails = {}

Stored(r, v) == r \in Live /\ store[r] = v

\* s has stored the row and not indexed it, or removed it and not unindexed it.
ToIndex(s, r, v)   == pc[s] \in {"index", "reindex"} /\ stmt[s].rows[1] = <<r, v>>
ToUnindex(s, r, v) == pc[s] = "unindex" /\ Head(stmt[s].rows) = <<r, v>>

\* What a transaction remembers of live rows is what they hold.  Nobody can take
\* an inserted row before it is indexed; a row an undo has put back, anybody can.
Remembers(s) ==
  /\ \A i \in DOMAIN journal[s] :
       journal[s][i].kind = "ins" /\ journal[s][i].rid \in Live
         => store[journal[s][i].rid] = journal[s][i].val
  /\ pc[s] \in {"open", "scan", "remove", "index", "unindex", "reindex"} =>
       \A i \in DOMAIN stmt[s].rows :
         stmt[s].rows[i][1] \in Live => store[stmt[s].rows[i][1]] = stmt[s].rows[i][2]
  /\ pc[s] = "index" => stmt[s].rows[1][1] \in Live
  /\ pc[s] = "unindex" => Head(stmt[s].rows)[1] \notin Live

\* An entry is that of a stored row, of a row on its way out, or of a row that
\* was gone before an undo could index it; a stored row has an entry, but for the
\* rows on their way in.
Accounted(v, r) ==
  /\ <<v, r>> \in index => \/ Stored(r, v) \/ <<v, r>> \in orphans
                           \/ \E s \in Session : ToUnindex(s, r, v)
  /\ Stored(r, v) => <<v, r>> \in index \/ \E s \in Session : ToIndex(s, r, v)
  /\ <<v, r>> \in orphans => <<v, r>> \in index /\ r \notin Live

EntriesInv == \A v \in Val, r \in Rid : Accounted(v, r)

IndexInv == EntriesInv /\ \A s \in Session : Remembers(s)

BaseInv == SessionInv /\ LockInv

-----------------------------------------------------------------------------
\* The table keeps sessions apart: while a session is about to index a row it has
\* stored, no other one scans, removes, or has inserted; and no two sessions
\* have removed the same row.
LEMMA OneWriter ==
  ASSUME BaseInv, NEW s \in Session, NEW o \in Session, s # o, pc[o] = "index"
  PROVE  /\ pc[s] \notin {"scan", "search", "remove", "unindex", "index"}
         /\ \A i \in DOMAIN journal[s] : journal[s][i].kind # "ins"
<1>1. held[Table][o] = "X" /\ held[Table][s] = "none"
  BY DEF BaseInv, LockInv, Holding, ExclusiveInv, Alone, Resource
<1> QED  BY <1>1 DEF BaseInv, LockInv, Holding, Guarded

LEMMA OneRemover ==
  ASSUME BaseInv, NEW s \in Session, NEW o \in Session, s # o,
         pc[s] = "unindex", pc[o] = "unindex"
  PROVE  Head(stmt[s].rows)[1] # Head(stmt[o].rows)[1]
<1>1. /\ held[Head(stmt[s].rows)[1]][s] = "X" /\ held[Head(stmt[o].rows)[1]][o] = "X"
      /\ Head(stmt[s].rows)[1] \in Resource
  BY Lockable DEF BaseInv, LockInv, Holding, SessionInv, ControlInv
<1>2. Alone(s, o)
  BY DEF BaseInv, LockInv, ExclusiveInv
<1> QED  BY <1>1, <1>2 DEF Alone, Mode

\* The first row of a statement about to index or unindex is a row.
LEMMA FirstRow ==
  ASSUME BaseInv, NEW s \in Session, stmt[s].rows # <<>>
  PROVE  /\ Head(stmt[s].rows) = stmt[s].rows[1] /\ 1 \in DOMAIN stmt[s].rows
         /\ stmt[s].rows[1][1] \in Rid /\ stmt[s].rows[1][2] \in Val
         /\ stmt[s].rows[1] = <<stmt[s].rows[1][1], stmt[s].rows[1][2]>>
         /\ Tail(stmt[s].rows) \in Seq(Row)
         /\ \A i \in DOMAIN Tail(stmt[s].rows) :
              i + 1 \in DOMAIN stmt[s].rows /\ Tail(stmt[s].rows)[i] = stmt[s].rows[i + 1]
<1>1. stmt[s].rows \in Seq(Row)
  BY DEF BaseInv, SessionInv, TypeOK, Statement
<1> QED  BY <1>1, FirstOf DEF Row

LEMMA InChange ==
  ASSUME BaseInv, NEW s \in Session, pc[s] \in {"index", "unindex", "reindex"}
  PROVE  stmt[s].rows # <<>>
BY DEF BaseInv, SessionInv, ControlInv

\* A session that is left alone remembers right, when a row nothing mentions is
\* stored, when a row is removed, and when nothing happens to the table.
LEMMA RemembersAdded ==
  ASSUME BaseInv, IndexInv, NEW o \in Session, NEW r \in Unknown, NEW v \in Val,
         store' = With(r, v),
         pc'[o] = pc[o], stmt'[o] = stmt[o], journal'[o] = journal[o]
  PROVE  Remembers(o)'
<1>1. /\ Live' = Live \cup {r} /\ \A q \in Live : q # r => store'[q] = store[q]
  BY UnknownIsNew, WithType DEF BaseInv, SessionInv
<1>2. /\ \A i \in DOMAIN journal[o] : journal[o][i].rid # r
      /\ \A i \in DOMAIN stmt[o].rows : stmt[o].rows[i][1] # r
  BY UnknownIsNew
<1>3. pc[o] = "unindex" => Head(stmt[o].rows)[1] # r
  BY <1>2, InChange, FirstRow
<1>4. Remembers(o)
  BY DEF IndexInv
<1> QED  BY <1>1, <1>2, <1>3, <1>4 DEF Remembers

LEMMA RemembersRemoved ==
  ASSUME BaseInv, IndexInv, NEW o \in Session, NEW r \in Rid, store' = Without(r),
         pc[o] = "index" => stmt[o].rows[1][1] # r,
         pc'[o] = pc[o], stmt'[o] = stmt[o], journal'[o] = journal[o]
  PROVE  Remembers(o)'
<1>1. Live' = Live \ {r} /\ \A q \in Live : q # r => store'[q] = store[q]
  BY WithoutType DEF BaseInv, SessionInv
<1>2. Remembers(o)
  BY DEF IndexInv
<1> QED  BY <1>1, <1>2 DEF Remembers

LEMMA RemembersSame ==
  ASSUME IndexInv, NEW o \in Session, UNCHANGED store,
         pc'[o] = pc[o], stmt'[o] = stmt[o], journal'[o] = journal[o]
  PROVE  Remembers(o)'
BY DEF IndexInv, Remembers, Live

\* A step that touches neither the table nor the index, of a session that is not
\* between the halves of a change.
LEMMA QuietIndex ==
  ASSUME BaseInv, IndexInv, NEW s \in Session, UNCHANGED data,
         \A o \in Session : o # s => /\ pc'[o] = pc[o] /\ stmt'[o] = stmt[o]
                                     /\ journal'[o] = journal[o],
         pc[s] \notin {"index", "unindex", "reindex"},
         pc'[s] \notin {"index", "unindex", "reindex"},
         Remembers(s)'
  PROVE  IndexInv'
<1>1. \A o \in Session : o # s => Remembers(o)'
  BY RemembersSame DEF data
<1>2. ASSUME NEW v \in Val, NEW r \in Rid
      PROVE  /\ Stored(r, v)' = Stored(r, v)
             /\ \A o \in Session : /\ ToIndex(o, r, v)' <=> ToIndex(o, r, v)
                                   /\ ToUnindex(o, r, v)' <=> ToUnindex(o, r, v)
  BY DEF Stored, ToIndex, ToUnindex, Live, data
<1>3. index' = index /\ orphans' = orphans /\ Live' = Live
  BY DEF data, Live
<1>4. EntriesInv'
  BY <1>2, <1>3 DEF EntriesInv, Accounted, IndexInv
<1> QED  BY <1>1, <1>4 DEF IndexInv

-----------------------------------------------------------------------------
\* IndexInv, action by action: a row is stored under a record id nothing mentions.
LEMMA InsertIndex ==
  ASSUME BaseInv, IndexInv, NEW s \in Session, NEW r \in Fresh, InsertRow(s, r)
  PROVE  IndexInv'
<1> DEFINE x == stmt[s].val
           e == [kind |-> "ins", rid |-> r, val |-> x]
<1>1. r \in Unknown /\ r \in Rid /\ r \notin Live /\ \A v \in Val : <<v, r>> \notin index
  BY FreshIsUnknown, UnknownIsNew
<1>2. x \in Val /\ journal[s] \in Seq(Change) /\ e \in Change /\ e.kind = "ins" /\ e.rid = r
      /\ e.val = x
  BY <1>1 DEF BaseInv, SessionInv, TypeOK, Statement, Change
<1>3. store' = With(r, x) /\ index' = index /\ orphans' = orphans /\ pc[s] = "insert"
  BY DEF InsertRow
<1>4. /\ Live' = Live \cup {r} /\ store'[r] = x /\ \A q \in Live : q # r => store'[q] = store[q]
  BY <1>1, <1>2, <1>3, WithType DEF BaseInv, SessionInv
<1>5. /\ \A o \in Session : o # s => journal'[o] = journal[o]
      /\ journal'[s] = Append(journal[s], e)
  BY <1>1, <1>2, NoteType DEF InsertRow, BaseInv, SessionInv
<1>6. /\ pc'[s] = "index" /\ stmt'[s].rows = <<<<r, x>>>>
      /\ \A o \in Session : o # s => pc'[o] = pc[o] /\ stmt'[o] = stmt[o]
  BY DEF InsertRow, Goto, Collect, BaseInv, SessionInv, TypeOK, Statement
<1>7. stmt'[s].rows[1] = <<r, x>> /\ DOMAIN stmt'[s].rows = {1}
  BY <1>6
<1> HIDE DEF e, x
<1>8. \A o \in Session : o # s => Remembers(o)'
  BY <1>1, <1>2, <1>3, <1>5, <1>6, RemembersAdded
<1>9. Remembers(s)'
  <2>1. \A i \in DOMAIN journal'[s] :
          \/ i \in DOMAIN journal[s] /\ journal'[s][i] = journal[s][i]
          \/ journal'[s][i] = e
    BY <1>2, <1>5, LastOf
  <2>2. \A i \in DOMAIN journal[s] : journal[s][i].rid # r
    BY UnknownIsNew, <1>1
  <2>3. Remembers(s)
    BY DEF IndexInv
  <2>4. \A i \in DOMAIN journal'[s] :
          journal'[s][i].kind = "ins" /\ journal'[s][i].rid \in Live'
            => store'[journal'[s][i].rid] = journal'[s][i].val
    BY <1>2, <1>4, <2>1, <2>2, <2>3 DEF Remembers
  <2>5. r \in Live' /\ store'[r] = x
    BY <1>4
  <2> QED  BY <1>6, <1>7, <2>4, <2>5 DEF Remembers
<1>10. EntriesInv'
  <2> SUFFICES ASSUME NEW v \in Val, NEW q \in Rid  PROVE Accounted(v, q)'
    BY DEF EntriesInv
  <2>1. \A o \in Session : ToUnindex(o, q, v)' <=> ToUnindex(o, q, v)
    BY <1>3, <1>6 DEF ToUnindex
  <2>2. Accounted(v, q)
    BY DEF IndexInv, EntriesInv
  <2>3. CASE q = r
    <3>1. Stored(q, v)' => ToIndex(s, q, v)'
      BY <1>4, <1>6, <1>7, <2>3 DEF Stored, ToIndex
    <3>2. <<v, q>> \notin index' /\ <<v, q>> \notin orphans'
      BY <1>1, <1>3, <2>2, <2>3 DEF Accounted
    <3> QED  BY <3>1, <3>2 DEF Accounted
  <2>4. CASE q # r
    <3>1. (Stored(q, v)' <=> Stored(q, v)) /\ (q \in Live' <=> q \in Live)
      BY <1>4, <2>4 DEF Stored
    <3>2. \A o \in Session : ToIndex(o, q, v)' <=> ToIndex(o, q, v)
      BY <1>3, <1>6, <1>7, <2>4 DEF ToIndex
    <3> QED  BY <1>3, <2>1, <2>2, <3>1, <3>2 DEF Accounted
  <2> QED  BY <2>3, <2>4
<1> QED  BY <1>8, <1>9, <1>10 DEF IndexInv

\* The stored row enters the index.
LEMMA IndexIndex ==
  ASSUME BaseInv, IndexInv, IndexesTakeAll, NEW s \in Session, IndexRow(s)
  PROVE  IndexInv'
<1>1. pc[s] = "index" /\ stmt[s].rows # <<>>
  BY InChange DEF IndexRow
<1>2. PICK r \in Rid, x \in Val : stmt[s].rows[1] = <<r, x>> /\ 1 \in DOMAIN stmt[s].rows
  BY <1>1, FirstRow
<1>3. /\ pc'[s] = "done" /\ UNCHANGED <<store, orphans, journal, stmt>>
      /\ index' = index \cup {<<x, r>>}
      /\ \A o \in Session : o # s => pc'[o] = pc[o]
  BY <1>2 DEF IndexRow, Goto, IndexesTakeAll, tx, BaseInv, SessionInv, TypeOK
<1>4. Stored(r, x)
  BY <1>1, <1>2 DEF IndexInv, Remembers, Stored
<1>5. \A o \in Session : o # s => Remembers(o)'
  BY <1>3, RemembersSame
<1>6. Remembers(s)'
  BY <1>3 DEF IndexInv, Remembers, Live
<1>7. EntriesInv'
  <2> SUFFICES ASSUME NEW v \in Val, NEW q \in Rid  PROVE Accounted(v, q)'
    BY DEF EntriesInv
  <2>1. \A o \in Session : /\ ToUnindex(o, q, v)' <=> ToUnindex(o, q, v)
                           /\ o # s => (ToIndex(o, q, v)' <=> ToIndex(o, q, v))
    BY <1>1, <1>3 DEF ToIndex, ToUnindex
  <2>2. (Stored(q, v)' <=> Stored(q, v)) /\ Live' = Live
    BY <1>3 DEF Stored, Live
  <2>3. ToIndex(s, q, v) => q = r /\ v = x
    BY <1>2 DEF ToIndex
  <2>4. Accounted(v, q)
    BY DEF IndexInv, EntriesInv
  <2> QED  BY <1>3, <1>4, <2>1, <2>2, <2>3, <2>4 DEF Accounted
<1> QED  BY <1>5, <1>6, <1>7 DEF IndexInv

\* A removed row is on its way out of the index, or was gone already.
LEMMA RemoveIndex ==
  ASSUME BaseInv, IndexInv, NEW s \in Session, RemoveRow(s)
  PROVE  IndexInv'
<1>1. pc[s] = "remove" /\ stmt[s].rows # <<>> /\ index' = index /\ orphans' = orphans
  BY DEF RemoveRow
<1>2. PICK r \in Rid, x \in Val : /\ stmt[s].rows[1] = <<r, x>> /\ Head(stmt[s].rows) = <<r, x>>
                                  /\ 1 \in DOMAIN stmt[s].rows
  BY <1>1, FirstRow
<1>3. \A o \in Session : pc[o] # "index"
  BY <1>1, OneWriter
<1>4. CASE r \in Live /\ store' = Without(r) /\ Note(s, "del", r, store[r]) /\ Goto(s, "unindex")
           /\ UNCHANGED stmt
  <2>1. store[r] = x
    BY <1>1, <1>2, <1>4 DEF IndexInv, Remembers
  <2>2. Live' = Live \ {r} /\ \A q \in Live : q # r => store'[q] = store[q]
    BY <1>4, WithoutType DEF BaseInv, SessionInv
  <2> DEFINE e == [kind |-> "del", rid |-> r, val |-> x]
  <2>3. /\ \A o \in Session : o # s => journal'[o] = journal[o]
        /\ journal'[s] = Append(journal[s], e)
    BY <1>4, <2>1, NoteType DEF BaseInv, SessionInv
  <2>4. e \in Change /\ e.kind = "del" /\ journal[s] \in Seq(Change)
    BY DEF Change, BaseInv, SessionInv, TypeOK
  <2>5. pc'[s] = "unindex" /\ \A o \in Session : o # s => pc'[o] = pc[o]
    BY <1>4 DEF Goto, BaseInv, SessionInv, TypeOK
  <2> HIDE DEF e
  <2>6. \A o \in Session : o # s => Remembers(o)'
    BY <1>3, <1>4, <2>3, <2>5, RemembersRemoved
  <2>7. Remembers(s)'
    <3>1. \A i \in DOMAIN journal'[s] :
            \/ i \in DOMAIN journal[s] /\ journal'[s][i] = journal[s][i]
            \/ journal'[s][i] = e
      BY <2>3, <2>4, LastOf
    <3> QED  BY <1>1, <1>2, <1>4, <2>2, <2>4, <2>5, <3>1 DEF Remembers, IndexInv
  <2>8. EntriesInv'
    <3> SUFFICES ASSUME NEW v \in Val, NEW q \in Rid  PROVE Accounted(v, q)'
      BY DEF EntriesInv
    <3>1. \A o \in Session : /\ ToIndex(o, q, v)' <=> ToIndex(o, q, v)
                             /\ ToUnindex(o, q, v) => ToUnindex(o, q, v)'
      BY <1>1, <1>4, <2>5 DEF ToIndex, ToUnindex
    <3>2. q = r /\ v = x => ToUnindex(s, q, v)'
      BY <1>2, <1>4, <2>5 DEF ToUnindex
    <3>3. \/ q = r /\ ~ Stored(q, v)' /\ q \notin Live' /\ (Stored(q, v) => v = x)
          \/ (Stored(q, v)' <=> Stored(q, v)) /\ (q \in Live' <=> q \in Live)
      BY <2>1, <2>2 DEF Stored
    <3>4. Accounted(v, q)
      BY DEF IndexInv, EntriesInv
    <3>5. \A o \in Session : ToUnindex(o, q, v)' => ToUnindex(o, q, v) \/ (q = r /\ v = x)
      BY <1>2, <1>4, <2>5 DEF ToUnindex
    <3> QED  BY <1>1, <3>1, <3>2, <3>3, <3>4, <3>5 DEF Accounted
  <2> QED  BY <2>6, <2>7, <2>8 DEF IndexInv
<1>5. CASE Collect(s, Tail(stmt[s].rows)) /\ UNCHANGED <<store, journal, pc>>
  <2>1. /\ stmt'[s].rows = Tail(stmt[s].rows)
        /\ \A o \in Session : o # s => stmt'[o] = stmt[o]
    BY <1>1, <1>5, FirstRow, CollectType DEF BaseInv, SessionInv
  <2>2. Remembers(s)'
    BY <1>1, <1>5, <2>1, FirstRow DEF IndexInv, Remembers, Live
  <2> QED  BY <1>1, <1>5, <2>1, <2>2, QuietIndex DEF data
<1> QED  BY <1>2, <1>4, <1>5 DEF RemoveRow

\* The removed row leaves the index.
LEMMA UnindexIndex ==
  ASSUME BaseInv, IndexInv, IndexesTakeAll, NEW s \in Session, UnindexRow(s)
  PROVE  IndexInv'
<1>1. pc[s] = "unindex" /\ stmt[s].rows # <<>>
  BY InChange DEF UnindexRow
<1>2. PICK r \in Rid, x \in Val : stmt[s].rows[1] = <<r, x>> /\ Head(stmt[s].rows) = <<r, x>>
  BY <1>1, FirstRow
<1>3. /\ pc'[s] = "remove" /\ UNCHANGED <<store, journal>>
      /\ index' = index \ {<<x, r>>} /\ orphans' = orphans \ {<<x, r>>}
      /\ Collect(s, Tail(stmt[s].rows))
      /\ \A o \in Session : o # s => pc'[o] = pc[o]
  BY <1>2 DEF UnindexRow, Goto, IndexesTakeAll, tx, BaseInv, SessionInv, TypeOK
<1>4. /\ stmt'[s].rows = Tail(stmt[s].rows)
      /\ \A o \in Session : o # s => stmt'[o] = stmt[o]
  BY <1>1, <1>3, FirstRow, CollectType DEF BaseInv, SessionInv
<1>5. r \notin Live
  BY <1>1, <1>2 DEF IndexInv, Remembers
<1>6. \A o \in Session : o # s => Remembers(o)'
  BY <1>3, <1>4, RemembersSame
<1>7. Remembers(s)'
  BY <1>1, <1>3, <1>4, FirstRow DEF IndexInv, Remembers, Live
<1>8. EntriesInv'
  <2> SUFFICES ASSUME NEW v \in Val, NEW q \in Rid  PROVE Accounted(v, q)'
    BY DEF EntriesInv
  <2>1. \A o \in Session : ToIndex(o, q, v)' <=> ToIndex(o, q, v)
    BY <1>1, <1>3, <1>4 DEF ToIndex
  <2>2. /\ \A o \in Session : o # s => (ToUnindex(o, q, v)' <=> ToUnindex(o, q, v))
        /\ ToUnindex(s, q, v) => q = r /\ v = x
    BY <1>1, <1>2, <1>3, <1>4 DEF ToUnindex
  <2>3. (Stored(q, v)' <=> Stored(q, v)) /\ Live' = Live
    BY <1>3 DEF Stored, Live
  <2>4. q = r => ~ Stored(q, v)
    BY <1>5 DEF Stored
  <2>5. Accounted(v, q)
    BY DEF IndexInv, EntriesInv
  <2> QED  BY <1>3, <2>1, <2>2, <2>3, <2>4, <2>5 DEF Accounted
<1> QED  BY <1>6, <1>7, <1>8 DEF IndexInv

\* An inserted row is undone: it leaves the table and the index together.
LEMMA UndoInsertIndex ==
  ASSUME BaseInv, IndexInv, IndexesTakeAll, NEW s \in Session, UndoInsert(s)
  PROVE  IndexInv'
<1>1. PICK i \in DOMAIN journal[s] : i = undoing[s] /\ journal[s][i] \in Change
  BY NextUndone DEF UndoInsert, BaseInv, SessionInv
<1>2. PICK r \in Rid, x \in Val : r = journal[s][i].rid /\ x = journal[s][i].val
  BY <1>1 DEF Change
<1>3. /\ pc[s] = "undo" /\ journal[s][i].kind = "ins"
      /\ index' = IF r \in Live THEN index \ {<<x, r>>} ELSE index
      /\ store' = Without(r) /\ UNCHANGED <<orphans, journal, pc, stmt>>
  BY <1>1, <1>2 DEF UndoInsert, IndexesTakeAll
<1>4. Live' = Live \ {r} /\ \A q \in Live : q # r => store'[q] = store[q]
  BY <1>3, WithoutType DEF BaseInv, SessionInv
<1>5. \A o \in Session : pc[o] # "index"
  BY <1>3, OneWriter
<1>6. \A o \in Session : Remembers(o)'
  BY <1>3, <1>5, RemembersRemoved
<1>7. EntriesInv'
  <2> SUFFICES ASSUME NEW v \in Val, NEW q \in Rid  PROVE Accounted(v, q)'
    BY DEF EntriesInv
  <2>1. \A o \in Session : /\ ToIndex(o, q, v)' <=> ToIndex(o, q, v)
                           /\ ToUnindex(o, q, v)' <=> ToUnindex(o, q, v)
    BY <1>3 DEF ToIndex, ToUnindex
  <2>2. Accounted(v, q)
    BY DEF IndexInv, EntriesInv
  <2>3. CASE q = r /\ r \in Live
    <3>1. Stored(q, v) => v = x
      BY <1>1, <1>2, <1>3, <2>3 DEF Stored, IndexInv, Remembers
    <3>2. \A o \in Session : ~ ToUnindex(o, q, v)
      BY <2>3 DEF ToUnindex, IndexInv, Remembers
    <3>3. ~ Stored(q, v)' /\ index' = index \ {<<x, r>>}
      BY <1>3, <1>4, <2>3 DEF Stored
    <3> QED  BY <1>3, <2>1, <2>2, <2>3, <3>1, <3>2, <3>3 DEF Accounted
  <2>4. CASE ~ (q = r /\ r \in Live)
    <3>1. (Stored(q, v)' <=> Stored(q, v)) /\ (q \in Live' <=> q \in Live)
      BY <1>4, <2>4 DEF Stored
    <3>2. <<v, q>> \in index' <=> <<v, q>> \in index
      BY <1>3, <2>4
    <3> QED  BY <1>3, <2>1, <2>2, <3>1, <3>2 DEF Accounted
  <2> QED  BY <2>3, <2>4
<1> QED  BY <1>6, <1>7 DEF IndexInv

\* A removed row is undone: it comes back to the table, and is still to be indexed.
LEMMA UndoRemoveIndex ==
  ASSUME BaseInv, IndexInv, NEW s \in Session, NEW r \in Fresh, UndoRemove(s, r)
  PROVE  IndexInv'
<1>1. r \in Unknown /\ r \in Rid /\ r \notin Live /\ \A v \in Val : <<v, r>> \notin index
  BY FreshIsUnknown, UnknownIsNew
<1>2. PICK i \in DOMAIN journal[s] : i = undoing[s] /\ journal[s][i] \in Change
  BY NextUndone DEF UndoRemove, BaseInv, SessionInv
<1>3. PICK x \in Val : x = journal[s][i].val
  BY <1>2 DEF Change
<1>4. /\ pc[s] = "undo" /\ store' = With(r, x) /\ UNCHANGED <<index, orphans, journal>>
      /\ Collect(s, <<<<r, x>>>>) /\ Goto(s, "reindex")
  BY <1>2, <1>3 DEF UndoRemove
<1>5. Live' = Live \cup {r} /\ store'[r] = x /\ \A q \in Live : q # r => store'[q] = store[q]
  BY <1>1, <1>4, WithType DEF BaseInv, SessionInv
<1>6. /\ pc'[s] = "reindex" /\ stmt'[s].rows = <<<<r, x>>>>
      /\ \A o \in Session : o # s => pc'[o] = pc[o] /\ stmt'[o] = stmt[o]
  BY <1>4 DEF Goto, Collect, BaseInv, SessionInv, TypeOK, Statement
<1>7. stmt'[s].rows[1] = <<r, x>> /\ DOMAIN stmt'[s].rows = {1}
  BY <1>6
<1>8. \A o \in Session : o # s => Remembers(o)'
  BY <1>1, <1>4, <1>6, RemembersAdded
<1>9. Remembers(s)'
  <2>1. \A j \in DOMAIN journal[s] : journal[s][j].rid # r
    BY UnknownIsNew, <1>1
  <2>2. Remembers(s)
    BY DEF IndexInv
  <2>3. \A j \in DOMAIN journal'[s] :
          journal'[s][j].kind = "ins" /\ journal'[s][j].rid \in Live'
            => store'[journal'[s][j].rid] = journal'[s][j].val
    BY <1>4, <1>5, <2>1, <2>2 DEF Remembers
  <2> QED  BY <1>5, <1>6, <1>7, <2>3 DEF Remembers
<1>10. EntriesInv'
  <2> SUFFICES ASSUME NEW v \in Val, NEW q \in Rid  PROVE Accounted(v, q)'
    BY DEF EntriesInv
  <2>1. \A o \in Session : ToUnindex(o, q, v)' <=> ToUnindex(o, q, v)
    BY <1>4, <1>6 DEF ToUnindex
  <2>2. Accounted(v, q)
    BY DEF IndexInv, EntriesInv
  <2>3. CASE q = r
    <3>1. Stored(q, v)' => ToIndex(s, q, v)'
      BY <1>5, <1>6, <1>7, <2>3 DEF Stored, ToIndex
    <3>2. <<v, q>> \notin index' /\ <<v, q>> \notin orphans'
      BY <1>1, <1>4, <2>2, <2>3 DEF Accounted
    <3> QED  BY <3>1, <3>2 DEF Accounted
  <2>4. CASE q # r
    <3>1. (Stored(q, v)' <=> Stored(q, v)) /\ (q \in Live' <=> q \in Live)
      BY <1>5, <2>4 DEF Stored
    <3>2. \A o \in Session : ToIndex(o, q, v)' <=> ToIndex(o, q, v)
      BY <1>4, <1>6, <1>7, <2>4 DEF ToIndex
    <3> QED  BY <1>4, <2>1, <2>2, <3>1, <3>2 DEF Accounted
  <2> QED  BY <2>3, <2>4
<1> QED  BY <1>8, <1>9, <1>10 DEF IndexInv

\* It is indexed: there it is, or it is gone and leaves an orphan.
LEMMA RestoredIndex ==
  ASSUME BaseInv, IndexInv, IndexesTakeAll, NEW s \in Session, IndexRestored(s)
  PROVE  IndexInv'
<1>1. pc[s] = "reindex" /\ stmt[s].rows # <<>>
  BY InChange DEF IndexRestored
<1>2. PICK r \in Rid, x \in Val : stmt[s].rows[1] = <<r, x>> /\ 1 \in DOMAIN stmt[s].rows
  BY <1>1, FirstRow
<1>3. /\ pc'[s] = "undo" /\ UNCHANGED <<store, journal>> /\ index' = index \cup {<<x, r>>}
      /\ orphans' = IF r \in Live THEN orphans ELSE orphans \cup {<<x, r>>}
      /\ \A o \in Session : o # s => pc'[o] = pc[o] /\ stmt'[o] = stmt[o]
  BY <1>2 DEF IndexRestored, Goto, IndexesTakeAll, tx, BaseInv, SessionInv, TypeOK
<1>4. r \in Live => Stored(r, x)
  BY <1>1, <1>2 DEF IndexInv, Remembers, Stored
<1>5. \A o \in Session : o # s => Remembers(o)'
  BY <1>3, RemembersSame
<1>6. Remembers(s)'
  BY <1>3 DEF IndexInv, Remembers, Live
<1>7. EntriesInv'
  <2> SUFFICES ASSUME NEW v \in Val, NEW q \in Rid  PROVE Accounted(v, q)'
    BY DEF EntriesInv
  <2>1. \A o \in Session : /\ ToUnindex(o, q, v)' <=> ToUnindex(o, q, v)
                           /\ o # s => (ToIndex(o, q, v)' <=> ToIndex(o, q, v))
    BY <1>1, <1>3 DEF ToIndex, ToUnindex
  <2>2. (Stored(q, v)' <=> Stored(q, v)) /\ Live' = Live
    BY <1>3 DEF Stored, Live
  <2>3. ToIndex(s, q, v) => q = r /\ v = x
    BY <1>2 DEF ToIndex
  <2>4. Accounted(v, q)
    BY DEF IndexInv, EntriesInv
  <2>5. CASE r \in Live
    BY <1>3, <1>4, <2>1, <2>2, <2>3, <2>4, <2>5 DEF Accounted
  <2>6. CASE r \notin Live
    BY <1>3, <2>1, <2>2, <2>3, <2>4, <2>6 DEF Accounted
  <2> QED  BY <2>5, <2>6
<1> QED  BY <1>5, <1>6, <1>7 DEF IndexInv

\* The steps that change neither the table nor the index.  A statement that is
\* not reading and collects nothing remembers what it did.
LEMMA SettledIndex ==
  ASSUME BaseInv, IndexInv, NEW s \in Session, UNCHANGED data,
         \A o \in Session : o # s => /\ pc'[o] = pc[o] /\ stmt'[o] = stmt[o]
                                     /\ journal'[o] = journal[o],
         journal'[s] = journal[s] \/ journal'[s] = <<>>,
         pc[s] \notin {"index", "unindex", "reindex"},
         pc'[s] \notin {"index", "unindex", "reindex"},
         \/ pc'[s] \notin {"open", "scan", "remove"}
         \/ stmt'[s].rows = <<>>
         \/ pc[s] \in {"open", "scan", "remove"} /\ stmt'[s].rows = stmt[s].rows
  PROVE  IndexInv'
<1>1. Remembers(s)'
  BY NothingIn DEF IndexInv, Remembers, Live, data
<1> QED  BY <1>1, QuietIndex

LEMMA ScanIndex ==
  ASSUME BaseInv, IndexInv, NEW s \in Session, ScanRow(s)
  PROVE  IndexInv'
<1>1. /\ UNCHANGED <<data, journal>> /\ pc[s] = "scan" /\ pc'[s] \in {"scan", "remove", "done"}
      /\ \A o \in Session : o # s => pc'[o] = pc[o] /\ stmt'[o] = stmt[o]
  BY DEF ScanRow, tx, Goto, BaseInv, SessionInv, TypeOK
<1>2. stmt[s].rows \in Seq(Row) /\ Remembers(s)
  BY DEF BaseInv, SessionInv, TypeOK, Statement, IndexInv
<1>3. CASE stmt'[s].rows = stmt[s].rows
  BY <1>1, <1>3, SettledIndex
<1>4. ASSUME NEW r \in Live, stmt'[s].rows = Append(stmt[s].rows, <<r, store[r]>>)
      PROVE  IndexInv'
  <2>1. PICK e \in Row : e = <<r, store[r]>>
    BY DEF Row, BaseInv, SessionInv, TypeOK
  <2>2. \A i \in DOMAIN stmt'[s].rows :
          \/ i \in DOMAIN stmt[s].rows /\ stmt'[s].rows[i] = stmt[s].rows[i]
          \/ stmt'[s].rows[i] = e
    BY <1>2, <1>4, <2>1, LastOf
  <2>3. Remembers(s)'
    BY <1>1, <1>2, <2>1, <2>2 DEF Remembers, Live, data
  <2> QED  BY <1>1, <2>3, QuietIndex
<1>5. \/ stmt'[s].rows = stmt[s].rows
      \/ \E r \in Live : stmt'[s].rows = Append(stmt[s].rows, <<r, store[r]>>)
  <2>1. s \in DOMAIN stmt /\ "rows" \in DOMAIN stmt[s]
    BY DEF BaseInv, SessionInv, TypeOK, Statement
  <2>3. stmt' = [stmt EXCEPT ![s].at = 0] => stmt'[s].rows = stmt[s].rows
    BY <2>1
  <2>2. ASSUME NEW r \in Live,
               stmt' = [stmt EXCEPT ![s].at = r,
                          ![s].rows = IF stmt[s].kind = "delete" /\ store[r] = stmt[s].val
                                      THEN Append(@, <<r, store[r]>>) ELSE @]
        PROVE  stmt'[s].rows \in {stmt[s].rows, Append(stmt[s].rows, <<r, store[r]>>)}
    BY <2>1, <2>2
  <2> QED  BY <2>2, <2>3 DEF ScanRow
<1> QED  BY <1>3, <1>4, <1>5

LEMMA EndIndex ==
  ASSUME BaseInv, IndexInv, NEW s \in Session, pc[s] \notin {"index", "unindex", "reindex"},
         End(s) \/ \E twice \in BOOLEAN : StartUndo(s, twice)
  PROVE  IndexInv'
<1>1. /\ UNCHANGED data /\ pc'[s] \in {"idle", "undo"}
      /\ \A o \in Session : o # s => /\ pc'[o] = pc[o] /\ stmt'[o] = stmt[o]
                                     /\ journal'[o] = journal[o]
      /\ journal'[s] = journal[s] \/ journal'[s] = <<>>
  BY DEF End, StartUndo, Goto, BaseInv, SessionInv, TypeOK
<1> QED  BY <1>1, SettledIndex

LEMMA IndexStep ==
  NobodyCloses /\ IndexesTakeAll /\ BaseInv /\ IndexInv /\ [Next]_vars => IndexInv'
<1> SUFFICES ASSUME NobodyCloses, IndexesTakeAll, BaseInv, IndexInv, [Next]_vars  PROVE IndexInv'
  OBVIOUS
<1>1. CASE UNCHANGED vars
  <2>1. UNCHANGED <<store, index, orphans, journal, pc, stmt>>
    BY <1>1 DEF vars
  <2>2. \A s \in Session : Remembers(s)'
    BY <2>1 DEF IndexInv, Remembers, Live
  <2>3. ASSUME NEW v \in Val, NEW r \in Rid  PROVE Accounted(v, r)'
    <3>1. Accounted(v, r)
      BY DEF IndexInv, EntriesInv
    <3>2. /\ Stored(r, v)' = Stored(r, v) /\ Live' = Live
          /\ \A o \in Session : /\ ToIndex(o, r, v)' <=> ToIndex(o, r, v)
                                /\ ToUnindex(o, r, v)' <=> ToUnindex(o, r, v)
      BY <2>1 DEF Stored, ToIndex, ToUnindex, Live
    <3> QED  BY <2>1, <3>1, <3>2 DEF Accounted
  <2> QED  BY <2>2, <2>3 DEF IndexInv, EntriesInv
<1>2. ASSUME NEW s \in Session, Ask(s)  PROVE IndexInv'
  <2>1. CASE Begin(s)
    BY <2>1, SettledIndex DEF Begin
  <2>2. CASE Commit(s) \/ Rollback(s)
    BY <2>2, EndIndex DEF Commit, Rollback
  <2>3. ASSUME NEW kind \in Kinds, NEW v \in Val, Execute(s, kind, v)  PROVE IndexInv'
    <3>1. /\ UNCHANGED <<data, journal>> /\ pc[s] = "idle" /\ pc'[s] \in {"insert", "open"}
          /\ \A o \in Session : o # s => pc'[o] = pc[o] /\ stmt'[o] = stmt[o]
          /\ stmt'[s] = [NoStmt EXCEPT !.kind = kind, !.val = v]
      BY <2>3 DEF Execute, Goto, BaseInv, SessionInv, TypeOK
    <3>2. stmt'[s].rows = <<>>
      BY <3>1, NoStmtType DEF Statement
    <3> QED  BY <3>1, <3>2, SettledIndex
  <2>4. ~ Close(s)
    BY DEF Close, NobodyCloses
  <2> QED  BY <1>2, <2>1, <2>2, <2>3, <2>4 DEF Ask
<1>3. ASSUME NEW s \in Session, Step(s)  PROVE IndexInv'
  <2>1. CASE (\E r \in Fresh : InsertRow(s, r)) \/ RemoveRow(s) \/ ScanRow(s)
    BY <2>1, InsertIndex, RemoveIndex, ScanIndex
  <2>2. CASE IndexRow(s) \/ UnindexRow(s)
    BY <2>2, IndexIndex, UnindexIndex
  <2>3. CASE UndoInsert(s) \/ \E r \in Fresh : UndoRemove(s, r)
    BY <2>3, UndoInsertIndex, UndoRemoveIndex
  <2>8. CASE IndexRestored(s)
    BY <2>8, RestoredIndex
  <2>4. CASE OpenTable(s) \/ LastRow(s) \/ UndoOwnRemove(s)
    <3>1. /\ UNCHANGED <<data, journal, stmt>>
          /\ pc[s] = "open" \/ pc'[s] \in {"done", "undo"}
          /\ pc[s] \notin {"index", "unindex", "reindex"}
          /\ pc'[s] \notin {"index", "unindex", "reindex"}
          /\ \A o \in Session : o # s => pc'[o] = pc[o]
      BY <2>4 DEF OpenTable, LastRow, UndoOwnRemove, tx, Goto, BaseInv, SessionInv, TypeOK
    <3> QED  BY <3>1, SettledIndex
  <2>5. CASE SearchIndex(s) \/ FetchRow(s)
    <3>1. /\ UNCHANGED <<data, journal>> /\ pc[s] \in {"search", "fetch"} /\ pc'[s] = "fetch"
          /\ \A o \in Session : o # s => pc'[o] = pc[o] /\ stmt'[o] = stmt[o]
      BY <2>5 DEF SearchIndex, FetchRow, Collect, tx, Goto, BaseInv, SessionInv, TypeOK
    <3> QED  BY <3>1, SettledIndex
  <2>6. CASE LockFails(s) \/ Succeed(s) \/ Fail(s)
    <3>1. pc[s] \notin {"index", "unindex", "reindex"} /\ auto[s] \in BOOLEAN
      BY <2>6 DEF LockFails, Wanted, Succeed, Fail, BaseInv, SessionInv, TypeOK
    <3>2. CASE End(s) \/ StartUndo(s, auto[s]) \/ StartUndo(s, FALSE)
      BY <3>1, <3>2, EndIndex
    <3>3. CASE (\E l \in {"failed", "idle"} : Goto(s, l)) /\ UNCHANGED <<data, tx>>
               /\ (stmt' = stmt \/ stmt' = [stmt EXCEPT ![s] = NoStmt])
      <4>1. /\ UNCHANGED <<data, journal>> /\ pc'[s] \in {"failed", "idle"}
            /\ \A o \in Session : o # s => pc'[o] = pc[o] /\ stmt'[o] = stmt[o]
        BY <3>3 DEF tx, Goto, BaseInv, SessionInv, TypeOK
      <4> QED  BY <3>1, <4>1, SettledIndex
    <3> QED  BY <2>6, <3>2, <3>3 DEF LockFails, Succeed, Fail
  <2>7. CASE FinishRollback(s)
    BY <2>7, EndIndex DEF FinishRollback
  <2> QED  BY <1>3, <2>1, <2>2, <2>3, <2>4, <2>5, <2>6, <2>7, <2>8 DEF Step
<1> QED  BY <1>1, <1>2, <1>3 DEF Next

LEMMA IndexInit == Init => IndexInv
<1> SUFFICES ASSUME Init  PROVE IndexInv
  OBVIOUS
<1>1. \A s \in Session : pc[s] = "idle" /\ DOMAIN journal[s] = {}
  BY NothingIn DEF Init
<1>2. \A s \in Session : Remembers(s)
  BY <1>1 DEF Remembers
<1>3. \A v \in Val, r \in Rid : <<v, r>> \in index <=> Stored(r, v)
  BY ConstantsAssumption DEF Init, Stored, Live
<1>4. orphans = {}
  BY DEF Init
<1>5. EntriesInv
  BY <1>3, <1>4 DEF EntriesInv, Accounted
<1> QED  BY <1>2, <1>5 DEF IndexInv

\* Every stored row has its entry, but for the rows on their way in; every entry
\* is that of a stored row, of a row on its way out, or an orphan: the entry that
\* the undo of a DELETE makes for a row that another session has removed between
\* its return to the table and its indexing.
THEOREM IndexInvariant == NobodyCloses /\ IndexesTakeAll => (Spec => []IndexInv)
<1> SUFFICES ASSUME NobodyCloses, IndexesTakeAll  PROVE Spec => []IndexInv
  OBVIOUS
<1>1. Init => IndexInv
  BY IndexInit
<1>2. SessionInv /\ LockInv /\ IndexInv /\ [Next]_vars => IndexInv'
  BY IndexStep DEF BaseInv
<1> QED  BY <1>1, <1>2, SessionInvariant, LockInvariant, PTL DEF Spec

\* When no session is between the storage half and the index half of a change,
\* the index has the entries of the rows of the table and the orphans, no more and
\* no less: inserts, deletes and rollbacks, interleaved in any way, lose no entry
\* and leave no other behind.
THEOREM IndexFollowsStore == NobodyCloses /\ IndexesTakeAll => (Spec => []IndexMatchesStore)
<1> SUFFICES ASSUME NobodyCloses, IndexesTakeAll  PROVE Spec => []IndexMatchesStore
  OBVIOUS
<1>1. SessionInv /\ IndexInv => IndexMatchesStore
  <2> SUFFICES ASSUME SessionInv, IndexInv,
                      \A s \in Session : pc[s] \notin {"index", "unindex", "failed", "reindex"}
               PROVE  index = {<<store[r], r>> : r \in Live} \cup orphans
    BY DEF IndexMatchesStore
  <2>1. ASSUME NEW v \in Val, NEW r \in Rid
        PROVE  <<v, r>> \in index <=> (r \in Live /\ v = store[r]) \/ <<v, r>> \in orphans
    <3>1. Accounted(v, r)
      BY DEF IndexInv, EntriesInv
    <3> QED  BY <3>1 DEF Accounted, ToIndex, ToUnindex, Stored
  <2>2. /\ index \subseteq Val \X Rid /\ orphans \subseteq Val \X Rid
        /\ \A r \in Live : r \in Rid /\ store[r] \in Val
    BY DEF SessionInv, TypeOK
  <2> QED  BY <2>1, <2>2
<1> QED  BY <1>1, SessionInvariant, IndexInvariant, PTL

-----------------------------------------------------------------------------
\* Atomicity: what each step does to the committed rows and to the effect of its
\* transaction, which AtomicTable counts per value.

\* The deletions of s that stand are the same, of the same values.
SameDeletions(s) ==
  /\ Deletions(s)' = Deletions(s)
  /\ \A i \in Deletions(s) : Pending(s)'[i].val = Pending(s)[i].val

\* There is something to count: finitely many rows and deletions.
CountInv == IsFiniteSet(Live) /\ IsFiniteSet(Gone)

Net(s, v)    == Cardinality(Mine(s, v)) - Cardinality(Taken(s, v))
Committed(v) == Cardinality(Untouched(v)) + Cardinality(Missing(v))

LEMMA InGone ==
  ASSUME NEW s \in Session, NEW i
  PROVE  <<s, i>> \in Gone <=> i \in Deletions(s)
BY DEF Gone

LEMMA GoneIs ==
  ASSUME NEW c
  PROVE  c \in Gone <=> \E s \in Session : \E i \in Deletions(s) : c = <<s, i>>
BY DEF Gone

\* The counts are of finite sets.
LEMMA Countable ==
  ASSUME CountInv, NEW s \in Session, NEW v \in Val
  PROVE  /\ IsFiniteSet(OwnRows(s)) /\ IsFiniteSet(Deletions(s))
         /\ IsFiniteSet(Mine(s, v)) /\ Cardinality(Mine(s, v)) \in Nat
         /\ IsFiniteSet(Taken(s, v)) /\ Cardinality(Taken(s, v)) \in Nat
         /\ IsFiniteSet(Untouched(v)) /\ Cardinality(Untouched(v)) \in Nat
         /\ IsFiniteSet(Missing(v)) /\ Cardinality(Missing(v)) \in Nat
<1>1. /\ OwnRows(s) \subseteq Live /\ Mine(s, v) \subseteq Live /\ Untouched(v) \subseteq Live
      /\ Missing(v) \subseteq Gone
  BY DEF OwnRows, Mine, Untouched, Missing
<1>2. IsFiniteSet(Deletions(s))
  <2> DEFINE D == {c \in Gone : c[1] = s}
             f == [c \in D |-> c[2]]
  <2>1. IsFiniteSet(D)
    BY FS_Subset DEF CountInv
  <2>2. f \in Surjection(D, Deletions(s))
    <3>1. \A c \in D : c[2] \in Deletions(s)
      BY GoneIs
    <3>2. \A i \in Deletions(s) : <<s, i>> \in D /\ f[<<s, i>>] = i
      BY InGone
    <3> QED  BY <3>1, <3>2 DEF Surjection
  <2> QED  BY <2>1, <2>2, FS_Surjection
<1>3. Taken(s, v) \subseteq Deletions(s)
  BY DEF Taken
<1> QED  BY <1>1, <1>2, <1>3, FS_Subset, FS_CardinalityType DEF CountInv

\* One more, or one less, of the sets that are counted.
LEMMA OneMore ==
  ASSUME NEW S, IsFiniteSet(S), NEW x, x \notin S
  PROVE  /\ Cardinality(S \cup {x}) = Cardinality(S) + 1 /\ IsFiniteSet(S \cup {x})
         /\ Cardinality(S) \in Nat
BY FS_AddElement, FS_CardinalityType

LEMMA OneLess ==
  ASSUME NEW S, IsFiniteSet(S), NEW x \in S
  PROVE  /\ Cardinality(S \ {x}) = Cardinality(S) - 1 /\ IsFiniteSet(S \ {x})
         /\ Cardinality(S) \in Nat
BY FS_RemoveElement, FS_CardinalityType

LEMMA Apart ==
  ASSUME NEW S, IsFiniteSet(S), NEW T, IsFiniteSet(T), S \cap T = {}
  PROVE  Cardinality(S \cup T) = Cardinality(S) + Cardinality(T)
<1>1. Cardinality(S \cup T) = Cardinality(S) + Cardinality(T) - Cardinality(S \cap T)
  BY FS_Union
<1>2. Cardinality(S \cap T) = 0 /\ Cardinality(S) \in Nat /\ Cardinality(T) \in Nat
  BY FS_EmptySet, FS_CardinalityType
<1> QED  BY <1>1, <1>2

\* The committed rows and the effects of the transactions, when none but that of
\* s on value w has changed.
LEMMA TableIs ==
  ASSUME NEW s \in Session, NEW w \in Val, NEW by \in Int,
         \A v \in Val : Committed(v)' = Committed(v),
         \A o \in Session, v \in Val : o # s \/ v # w => Net(o, v)' = Net(o, v),
         Net(s, w)' = Net(s, w) + by
  PROVE  /\ CommittedRows' = CommittedRows
         /\ NetEffect' = [NetEffect EXCEPT ![s][w] = NetEffect[s][w] + by]
<1>1. CommittedRows = [v \in Val |-> Committed(v)] /\ CommittedRows' = [v \in Val |-> Committed(v)']
  BY DEF CommittedRows, Committed
<1>2. /\ NetEffect = [o \in Session |-> [v \in Val |-> Net(o, v)]]
      /\ NetEffect' = [o \in Session |-> [v \in Val |-> Net(o, v)']]
  BY DEF NetEffect, Net
<1>3. NetEffect[s] = [v \in Val |-> Net(s, v)]
  BY <1>2
<1>4. [NetEffect[s] EXCEPT ![w] = NetEffect[s][w] + by] = [v \in Val |-> Net(s, v)']
  BY <1>3
<1>5. [NetEffect EXCEPT ![s] = [v \in Val |-> Net(s, v)']] = NetEffect'
  BY <1>2
<1> QED  BY <1>1, <1>4, <1>5

LEMMA TableSame ==
  ASSUME \A v \in Val : Committed(v)' = Committed(v),
         \A o \in Session, v \in Val : Net(o, v)' = Net(o, v)
  PROVE  UNCHANGED <<CommittedRows, NetEffect>>
<1>1. CommittedRows = [v \in Val |-> Committed(v)] /\ CommittedRows' = [v \in Val |-> Committed(v)']
  BY DEF CommittedRows, Committed
<1>2. /\ NetEffect = [o \in Session |-> [v \in Val |-> Net(o, v)]]
      /\ NetEffect' = [o \in Session |-> [v \in Val |-> Net(o, v)']]
  BY DEF NetEffect, Net
<1> QED  BY <1>1, <1>2

-----------------------------------------------------------------------------
\* The sets that are counted, when the deletions or the rows stay as they are.
LEMMA DeletionsStay ==
  ASSUME \A o \in Session : SameDeletions(o)
  PROVE  /\ Gone' = Gone
         /\ \A v \in Val : Missing(v)' = Missing(v)
         /\ \A o \in Session, v \in Val : Taken(o, v)' = Taken(o, v)
<1>1. Gone' = Gone
  BY DEF Gone, SameDeletions
<1>2. ASSUME NEW v \in Val  PROVE Missing(v)' = Missing(v)
  <2>1. \A c \in Gone : Pending(c[1])'[c[2]].val = Pending(c[1])[c[2]].val
    BY GoneIs DEF SameDeletions
  <2> QED  BY <1>1, <2>1 DEF Missing
<1>3. \A o \in Session, v \in Val : Taken(o, v)' = Taken(o, v)
  BY DEF Taken, SameDeletions
<1> QED  BY <1>1, <1>2, <1>3

LEMMA RowsStay ==
  ASSUME UNCHANGED store, \A o \in Session : OwnRows(o)' = OwnRows(o)
  PROVE  /\ \A v \in Val : Untouched(v)' = Untouched(v)
         /\ \A o \in Session, v \in Val : Mine(o, v)' = Mine(o, v)
BY DEF Untouched, Mine, Live

\* A step that touches neither.
LEMMA NothingCounted ==
  ASSUME UNCHANGED store, \A o \in Session : OwnRows(o)' = OwnRows(o) /\ SameDeletions(o)
  PROVE  UNCHANGED <<CommittedRows, NetEffect>>
<1>1. \A v \in Val : Committed(v)' = Committed(v)
  BY DeletionsStay, RowsStay DEF Committed
<1>2. \A o \in Session, v \in Val : Net(o, v)' = Net(o, v)
  BY DeletionsStay, RowsStay DEF Net
<1> QED  BY <1>1, <1>2, TableSame

\* The transaction of s gains a row of its own.
LEMMA GainsRow ==
  ASSUME CountInv, NEW s \in Session, NEW r, NEW w \in Val, r \notin Live,
         Live' = Live \cup {r}, store'[r] = w, \A q \in Live : store'[q] = store[q],
         OwnRows(s)' = OwnRows(s) \cup {r},
         \A o \in Session : SameDeletions(o) /\ (o # s => OwnRows(o)' = OwnRows(o))
  PROVE  /\ CommittedRows' = CommittedRows
         /\ NetEffect' = [NetEffect EXCEPT ![s][w] = NetEffect[s][w] + 1]
<1>1. \A o \in Session : OwnRows(o) \subseteq Live
  BY DEF OwnRows
<1>2. \A v \in Val : Untouched(v)' = Untouched(v)
  BY <1>1 DEF Untouched
<1>3. \A o \in Session, v \in Val : o # s => Mine(o, v)' = Mine(o, v)
  BY <1>1 DEF Mine
<1>4. /\ Mine(s, w)' = Mine(s, w) \cup {r} /\ r \notin Mine(s, w)
      /\ \A v \in Val : v # w => Mine(s, v)' = Mine(s, v)
  BY <1>1 DEF Mine
<1>5. Cardinality(Mine(s, w)') = Cardinality(Mine(s, w)) + 1
  BY <1>4, OneMore, Countable
<1>6. Cardinality(Mine(s, w)) \in Nat /\ Cardinality(Taken(s, w)) \in Nat
  BY Countable
<1>7. Net(s, w)' = Net(s, w) + 1
  BY <1>5, <1>6, DeletionsStay DEF Net
<1>8. \A v \in Val : Committed(v)' = Committed(v)
  BY <1>2, DeletionsStay DEF Committed
<1>9. \A o \in Session, v \in Val : o # s \/ v # w => Net(o, v)' = Net(o, v)
  BY <1>3, <1>4, DeletionsStay DEF Net
<1> QED  BY <1>7, <1>8, <1>9, TableIs

\* The transaction of s loses a row of its own.
LEMMA LosesRow ==
  ASSUME CountInv, NEW s \in Session, NEW r \in OwnRows(s), NEW w \in Val, store[r] = w,
         Live' = Live \ {r}, \A q \in Live : q # r => store'[q] = store[q],
         OwnRows(s)' = OwnRows(s) \ {r},
         \A o \in Session : /\ SameDeletions(o)
                            /\ o # s => OwnRows(o)' = OwnRows(o) /\ r \notin OwnRows(o)
  PROVE  /\ CommittedRows' = CommittedRows
         /\ NetEffect' = [NetEffect EXCEPT ![s][w] = NetEffect[s][w] + (-1)]
<1>1. \A o \in Session : OwnRows(o) \subseteq Live
  BY DEF OwnRows
<1>2. \A v \in Val : Untouched(v)' = Untouched(v)
  BY <1>1 DEF Untouched
<1>3. \A o \in Session, v \in Val : o # s => Mine(o, v)' = Mine(o, v)
  BY <1>1 DEF Mine
<1>4. /\ Mine(s, w)' = Mine(s, w) \ {r} /\ r \in Mine(s, w)
      /\ \A v \in Val : v # w => Mine(s, v)' = Mine(s, v)
  BY <1>1 DEF Mine
<1>5. Cardinality(Mine(s, w)') = Cardinality(Mine(s, w)) - 1
  BY <1>4, OneLess, Countable
<1>6. Cardinality(Mine(s, w)) \in Nat /\ Cardinality(Taken(s, w)) \in Nat
  BY Countable
<1>7. Net(s, w)' = Net(s, w) + (-1)
  BY <1>5, <1>6, DeletionsStay DEF Net
<1>8. \A v \in Val : Committed(v)' = Committed(v)
  BY <1>2, DeletionsStay DEF Committed
<1>9. \A o \in Session, v \in Val : o # s \/ v # w => Net(o, v)' = Net(o, v)
  BY <1>3, <1>4, DeletionsStay DEF Net
<1> QED  BY <1>7, <1>8, <1>9, TableIs

\* The transaction of s deletes a committed row, as change n of its journal.
LEMMA DeletesRow ==
  ASSUME CountInv, NEW s \in Session, NEW r \in Live, NEW w \in Val, NEW n, store[r] = w,
         Live' = Live \ {r}, \A q \in Live : q # r => store'[q] = store[q],
         \A o \in Session : OwnRows(o)' = OwnRows(o) /\ r \notin OwnRows(o),
         n \notin Deletions(s), Deletions(s)' = Deletions(s) \cup {n},
         Pending(s)'[n].val = w,
         \A i \in Deletions(s) : Pending(s)'[i].val = Pending(s)[i].val,
         \A o \in Session : o # s => SameDeletions(o)
  PROVE  /\ CommittedRows' = CommittedRows
         /\ NetEffect' = [NetEffect EXCEPT ![s][w] = NetEffect[s][w] + (-1)]
<1>1. \A o \in Session : OwnRows(o) \subseteq Live
  BY DEF OwnRows
<1>2. /\ Untouched(w)' = Untouched(w) \ {r} /\ r \in Untouched(w)
      /\ \A v \in Val : v # w => Untouched(v)' = Untouched(v)
  BY <1>1 DEF Untouched
<1>3. \A o \in Session, v \in Val : Mine(o, v)' = Mine(o, v)
  BY <1>1 DEF Mine
<1>4. Gone' = Gone \cup {<<s, n>>} /\ <<s, n>> \notin Gone
  BY InGone DEF Gone, SameDeletions
<1>5. \A c \in Gone : Pending(c[1])'[c[2]].val = Pending(c[1])[c[2]].val
  BY GoneIs DEF SameDeletions
<1>6. /\ Missing(w)' = Missing(w) \cup {<<s, n>>} /\ <<s, n>> \notin Missing(w)
      /\ \A v \in Val : v # w => Missing(v)' = Missing(v)
  BY <1>4, <1>5 DEF Missing
<1>7. /\ Taken(s, w)' = Taken(s, w) \cup {n} /\ n \notin Taken(s, w)
      /\ \A v \in Val : v # w => Taken(s, v)' = Taken(s, v)
      /\ \A o \in Session, v \in Val : o # s => Taken(o, v)' = Taken(o, v)
  BY DEF Taken, SameDeletions
<1>8. /\ Cardinality(Untouched(w)') = Cardinality(Untouched(w)) - 1
      /\ Cardinality(Missing(w)') = Cardinality(Missing(w)) + 1
      /\ Cardinality(Taken(s, w)') = Cardinality(Taken(s, w)) + 1
  BY <1>2, <1>6, <1>7, OneLess, OneMore, Countable
<1>9. /\ Cardinality(Untouched(w)) \in Nat /\ Cardinality(Missing(w)) \in Nat
      /\ Cardinality(Taken(s, w)) \in Nat /\ Cardinality(Mine(s, w)) \in Nat
  BY Countable
<1>10. Committed(w)' = Committed(w) /\ Net(s, w)' = Net(s, w) + (-1)
  BY <1>3, <1>8, <1>9 DEF Committed, Net
<1>11. \A v \in Val : Committed(v)' = Committed(v)
  BY <1>2, <1>6, <1>10 DEF Committed
<1>12. \A o \in Session, v \in Val : o # s \/ v # w => Net(o, v)' = Net(o, v)
  BY <1>3, <1>7 DEF Net
<1> QED  BY <1>10, <1>11, <1>12, TableIs

\* A deletion of s, change n of its journal, is taken back.
LEMMA RestoresRow ==
  ASSUME CountInv, NEW s \in Session, NEW r, NEW w \in Val, NEW n \in Deletions(s),
         r \notin Live, Live' = Live \cup {r},
         store'[r] = w, \A q \in Live : store'[q] = store[q],
         \A o \in Session : OwnRows(o)' = OwnRows(o),
         Deletions(s)' = Deletions(s) \ {n}, Pending(s)[n].val = w,
         \A i \in Deletions(s)' : Pending(s)'[i].val = Pending(s)[i].val,
         \A o \in Session : o # s => SameDeletions(o)
  PROVE  /\ CommittedRows' = CommittedRows
         /\ NetEffect' = [NetEffect EXCEPT ![s][w] = NetEffect[s][w] + 1]
<1>1. \A o \in Session : OwnRows(o) \subseteq Live
  BY DEF OwnRows
<1>2. /\ Untouched(w)' = Untouched(w) \cup {r} /\ r \notin Untouched(w)
      /\ \A v \in Val : v # w => Untouched(v)' = Untouched(v)
  BY <1>1 DEF Untouched
<1>3. \A o \in Session, v \in Val : Mine(o, v)' = Mine(o, v)
  BY <1>1 DEF Mine
<1>4. Gone' = Gone \ {<<s, n>>} /\ <<s, n>> \in Gone
  BY InGone DEF Gone, SameDeletions
<1>5. \A c \in Gone' : Pending(c[1])'[c[2]].val = Pending(c[1])[c[2]].val
  BY <1>4, GoneIs DEF SameDeletions
<1>6. /\ Missing(w)' = Missing(w) \ {<<s, n>>} /\ <<s, n>> \in Missing(w)
      /\ \A v \in Val : v # w => Missing(v)' = Missing(v)
  BY <1>4, <1>5 DEF Missing
<1>7. /\ Taken(s, w)' = Taken(s, w) \ {n} /\ n \in Taken(s, w)
      /\ \A v \in Val : v # w => Taken(s, v)' = Taken(s, v)
      /\ \A o \in Session, v \in Val : o # s => Taken(o, v)' = Taken(o, v)
  BY DEF Taken, SameDeletions
<1>8. /\ Cardinality(Untouched(w)') = Cardinality(Untouched(w)) + 1
      /\ Cardinality(Missing(w)') = Cardinality(Missing(w)) - 1
      /\ Cardinality(Taken(s, w)') = Cardinality(Taken(s, w)) - 1
  BY <1>2, <1>6, <1>7, OneLess, OneMore, Countable
<1>9. /\ Cardinality(Untouched(w)) \in Nat /\ Cardinality(Missing(w)) \in Nat
      /\ Cardinality(Taken(s, w)) \in Nat /\ Cardinality(Mine(s, w)) \in Nat
  BY Countable
<1>10. Committed(w)' = Committed(w) /\ Net(s, w)' = Net(s, w) + 1
  BY <1>3, <1>8, <1>9 DEF Committed, Net
<1>11. \A v \in Val : Committed(v)' = Committed(v)
  BY <1>2, <1>6, <1>10 DEF Committed
<1>12. \A o \in Session, v \in Val : o # s \/ v # w => Net(o, v)' = Net(o, v)
  BY <1>3, <1>7 DEF Net
<1> QED  BY <1>10, <1>11, <1>12, TableIs

\* The transaction of s commits: its rows and deletions become everybody's.
LEMMA Commits ==
  ASSUME CountInv, NEW s \in Session, UNCHANGED store,
         OwnRows(s)' = {}, Deletions(s)' = {},
         \A o \in Session : o # s => /\ SameDeletions(o) /\ OwnRows(o)' = OwnRows(o)
                                     /\ OwnRows(o) \cap OwnRows(s) = {}
  PROVE  /\ CommittedRows' = [v \in Val |-> CommittedRows[v] + NetEffect[s][v]]
         /\ NetEffect' = [NetEffect EXCEPT ![s] = [v \in Val |-> 0]]
<1>1. \A o \in Session : OwnRows(o) \subseteq Live
  BY DEF OwnRows
<1>2. ASSUME NEW v \in Val  PROVE Committed(v)' = Committed(v) + Net(s, v)
  <2>1. Untouched(v)' = Untouched(v) \cup Mine(s, v) /\ Untouched(v) \cap Mine(s, v) = {}
    BY <1>1 DEF Untouched, Mine, Live
  <2>2. /\ IsFiniteSet(Mine(s, v)) /\ Cardinality(Mine(s, v)) \in Nat
        /\ IsFiniteSet(Taken(s, v)) /\ Cardinality(Taken(s, v)) \in Nat
        /\ IsFiniteSet(Untouched(v)) /\ Cardinality(Untouched(v)) \in Nat
        /\ IsFiniteSet(Missing(v)) /\ Cardinality(Missing(v)) \in Nat
    BY Countable
  <2>3. Cardinality(Untouched(v)') = Cardinality(Untouched(v)) + Cardinality(Mine(s, v))
    BY <2>1, <2>2, Apart
  <2> DEFINE P == {s} \X Taken(s, v)
  <2>4. Gone' = {c \in Gone : c[1] # s}
    <3>1. \A c \in Gone' : c \in Gone /\ c[1] # s
      BY DEF Gone, SameDeletions
    <3>2. \A c \in Gone : c[1] # s => c \in Gone'
      BY DEF Gone, SameDeletions
    <3> QED  BY <3>1, <3>2
  <2>5. \A c \in Gone' : Pending(c[1])'[c[2]].val = Pending(c[1])[c[2]].val
    BY <2>4, GoneIs DEF SameDeletions
  <2>6. Missing(v) = Missing(v)' \cup P
    <3>1. Missing(v)' = {c \in Missing(v) : c[1] # s}
      BY <2>4, <2>5 DEF Missing
    <3>2. \A c \in Missing(v) : c[1] = s => c \in P
      BY GoneIs DEF Missing, Taken
    <3>3. \A c \in P : c \in Missing(v)
      BY GoneIs DEF Missing, Taken
    <3> QED  BY <3>1, <3>2, <3>3
  <2>7. Missing(v)' \cap P = {}
    BY <2>4 DEF Missing
  <2>8. IsFiniteSet(P) /\ Cardinality(P) = Cardinality(Taken(s, v))
    <3>1. IsFiniteSet({s}) /\ Cardinality({s}) = 1
      BY FS_Singleton
    <3>2. IsFiniteSet(P) /\ Cardinality(P) = Cardinality({s}) * Cardinality(Taken(s, v))
      BY <2>2, <3>1, FS_Product
    <3> QED  BY <2>2, <3>1, <3>2
  <2>9. IsFiniteSet(Missing(v)') /\ Cardinality(Missing(v)') \in Nat
    BY <2>2, <2>6, FS_Subset, FS_CardinalityType
  <2> HIDE DEF P
  <2>11. Cardinality(Missing(v)) = Cardinality(Missing(v)') + Cardinality(Taken(s, v))
    BY <2>6, <2>7, <2>8, <2>9, Apart
  <2> QED  BY <2>2, <2>3, <2>9, <2>11 DEF Committed, Net
<1>3. ASSUME NEW v \in Val  PROVE Net(s, v)' = 0
  <2>1. Mine(s, v)' = {} /\ Taken(s, v)' = {}
    BY DEF Mine, Taken
  <2> QED  BY <2>1, FS_EmptySet DEF Net
<1>4. \A o \in Session, v \in Val : o # s => Net(o, v)' = Net(o, v)
  BY DEF Net, Mine, Taken, SameDeletions
<1>5. /\ CommittedRows = [v \in Val |-> Committed(v)]
      /\ CommittedRows' = [v \in Val |-> Committed(v)']
      /\ NetEffect = [o \in Session |-> [v \in Val |-> Net(o, v)]]
      /\ NetEffect' = [o \in Session |-> [v \in Val |-> Net(o, v)']]
  BY DEF CommittedRows, Committed, NetEffect, Net
<1>6. \A v \in Val : CommittedRows[v] + NetEffect[s][v] = Committed(v)'
  BY <1>2, <1>5
<1>7. [v \in Val |-> Net(s, v)'] = [v \in Val |-> 0]
  BY <1>3
<1>8. \A o \in Session : o # s => [v \in Val |-> Net(o, v)'] = [v \in Val |-> Net(o, v)]
  BY <1>4
<1> QED  BY <1>5, <1>6, <1>7, <1>8

-----------------------------------------------------------------------------
\* How far the journal of s stands, and what is counted of it.
Standing(s) == IF Undoing(s) THEN undoing[s] ELSE Len(journal[s])
Inserts(s, i, r) == journal[s][i].kind = "ins" /\ journal[s][i].rid = r
OwnDelete(s, i) == \E j \in 1 .. Len(journal[s]) : Inserts(s, j, journal[s][i].rid)

LEMMA Front ==
  ASSUME NEW j \in Seq(Change), NEW n \in Nat, n <= Len(j)
  PROVE  /\ DOMAIN SubSeq(j, 1, n) = 1 .. n /\ DOMAIN j = 1 .. Len(j) /\ Len(j) \in Nat
         /\ \A i \in 1 .. n : SubSeq(j, 1, n)[i] = j[i]
BY SubSeqProperties, LenProperties

LEMMA CountIs ==
  ASSUME TypeOK, NEW s \in Session
  PROVE  /\ Standing(s) \in Nat /\ Standing(s) <= Len(journal[s]) /\ Len(journal[s]) \in Nat
         /\ \A i \in 1 .. Standing(s) : Pending(s)[i] = journal[s][i]
         /\ OwnRows(s) = {r \in Live : \E i \in 1 .. Standing(s) : Inserts(s, i, r)}
         /\ Deletions(s) =
              {i \in 1 .. Standing(s) : journal[s][i].kind = "del" /\ ~ OwnDelete(s, i)}
<1>1. journal[s] \in Seq(Change) /\ undoing[s] \in Nat /\ undoing[s] <= Len(journal[s])
  BY DEF TypeOK
<1>2. /\ Standing(s) \in Nat /\ Standing(s) <= Len(journal[s]) /\ Len(journal[s]) \in Nat
      /\ DOMAIN Pending(s) = 1 .. Standing(s) /\ DOMAIN journal[s] = 1 .. Len(journal[s])
      /\ \A i \in 1 .. Standing(s) : Pending(s)[i] = journal[s][i]
  BY <1>1, Front, LenProperties DEF Standing, Pending, Undoing
<1>3. \A r : r \in Inserted(s) <=> \E j \in 1 .. Len(journal[s]) : Inserts(s, j, r)
  BY <1>2 DEF Inserted, Inserts
<1>4. Deletions(s) = {i \in 1 .. Standing(s) : journal[s][i].kind = "del" /\ ~ OwnDelete(s, i)}
  BY <1>2, <1>3 DEF Deletions, OwnDelete
<1>5. OwnRows(s) = {r \in Live : \E i \in 1 .. Standing(s) : Inserts(s, i, r)}
  BY <1>2 DEF OwnRows, Inserts
<1> QED  BY <1>2, <1>4, <1>5

LEMMA NextCountIs ==
  ASSUME TypeOK', NEW s \in Session
  PROVE  /\ Standing(s)' \in Nat /\ Standing(s)' <= Len(journal'[s]) /\ Len(journal'[s]) \in Nat
         /\ \A i \in 1 .. Standing(s)' : Pending(s)'[i] = journal'[s][i]
         /\ OwnRows(s)' = {r \in Live' : \E i \in 1 .. Standing(s)' : Inserts(s, i, r)'}
         /\ Deletions(s)' = {i \in 1 .. Standing(s)' :
                               journal'[s][i].kind = "del" /\ ~ OwnDelete(s, i)'}
<1>1. journal'[s] \in Seq(Change) /\ undoing'[s] \in Nat /\ undoing'[s] <= Len(journal'[s])
  BY DEF TypeOK
<1>2. /\ Standing(s)' \in Nat /\ Standing(s)' <= Len(journal'[s]) /\ Len(journal'[s]) \in Nat
      /\ DOMAIN Pending(s)' = 1 .. Standing(s)' /\ DOMAIN journal'[s] = 1 .. Len(journal'[s])
      /\ \A i \in 1 .. Standing(s)' : Pending(s)'[i] = journal'[s][i]
  BY <1>1, Front, LenProperties DEF Standing, Pending, Undoing
<1>3. \A r : r \in Inserted(s)' <=> \E j \in 1 .. Len(journal'[s]) : Inserts(s, j, r)'
  BY <1>2 DEF Inserted, Inserts
<1>4. Deletions(s)' = {i \in 1 .. Standing(s)' : journal'[s][i].kind = "del" /\ ~ OwnDelete(s, i)'}
  BY <1>2, <1>3 DEF Deletions, OwnDelete
<1>5. OwnRows(s)' = {r \in Live' : \E i \in 1 .. Standing(s)' : Inserts(s, i, r)'}
  BY <1>2 DEF OwnRows, Inserts
<1> QED  BY <1>2, <1>4, <1>5

\* A session whose journal stands as it did counts the same deletions, and the
\* same rows as far as they are live.
LEMMA AsideCount ==
  ASSUME TypeOK, TypeOK', NEW s \in Session,
         journal'[s] = journal[s], Standing(s)' = Standing(s)
  PROVE  /\ SameDeletions(s)
         /\ OwnRows(s)' = {r \in Live' : \E i \in 1 .. Standing(s) : Inserts(s, i, r)}
<1>1. \A i, r : Inserts(s, i, r)' <=> Inserts(s, i, r)
  BY DEF Inserts
<1>2. \A i \in 1 .. Standing(s) : OwnDelete(s, i)' <=> OwnDelete(s, i)
  BY <1>1 DEF OwnDelete
<1>3. Deletions(s)' = Deletions(s)
  BY <1>2, CountIs, NextCountIs
<1>4. \A i \in Deletions(s) : Pending(s)'[i].val = Pending(s)[i].val
  BY CountIs, NextCountIs
<1>5. OwnRows(s)' = {r \in Live' : \E i \in 1 .. Standing(s) : Inserts(s, i, r)}
  BY <1>1, NextCountIs
<1> QED  BY <1>3, <1>4, <1>5 DEF SameDeletions

\* The others are where they were.
Bystanders(s) ==
  \A o \in Session : o # s =>
    pc'[o] = pc[o] /\ journal'[o] = journal[o] /\ undoing'[o] = undoing[o]

LEMMA BystandersCount ==
  ASSUME TypeOK, TypeOK', NEW s \in Session, Bystanders(s)
  PROVE  \A o \in Session : o # s =>
           /\ SameDeletions(o)
           /\ OwnRows(o)' = {r \in Live' : \E i \in 1 .. Standing(o) : Inserts(o, i, r)}
<1>1. \A o \in Session : o # s => Standing(o)' = Standing(o) /\ journal'[o] = journal[o]
  BY DEF Bystanders, Standing, Undoing
<1> QED  BY <1>1, AsideCount

\* A record id that nothing mentions is nobody's.
LEMMA UnknownCount ==
  ASSUME TypeOK, NEW r \in Unknown
  PROVE  /\ r \notin Live
         /\ \A o \in Session : \A i \in 1 .. Len(journal[o]) : journal[o][i].rid # r
<1>1. \A o \in Session : DOMAIN journal[o] = 1 .. Len(journal[o])
  BY LenProperties DEF TypeOK
<1> QED  BY UnknownIsNew, <1>1

\* Whoever has inserted holds the table alone.
LEMMA OneInserter ==
  ASSUME BaseInv, NEW s \in Session, NEW o \in Session, s # o,
         NEW i \in 1 .. Len(journal[s]), journal[s][i].kind = "ins"
  PROVE  /\ pc[o] \notin {"scan", "search", "remove", "unindex", "index"}
         /\ \A j \in 1 .. Len(journal[o]) : journal[o][j].kind # "ins"
<1>1. DOMAIN journal[s] = 1 .. Len(journal[s]) /\ DOMAIN journal[o] = 1 .. Len(journal[o])
  BY LenProperties DEF BaseInv, SessionInv, TypeOK
<1>2. held[Table][s] = "X"
  BY <1>1 DEF BaseInv, LockInv, Guarded
<1>3. held[Table][o] = "none"
  BY <1>2 DEF BaseInv, LockInv, ExclusiveInv, Alone, Resource
<1> QED  BY <1>1, <1>3 DEF BaseInv, LockInv, Holding, Guarded

LEMMA OwnersApart ==
  ASSUME BaseInv, NEW s \in Session, NEW o \in Session, s # o
  PROVE  OwnRows(o) \cap OwnRows(s) = {}
<1> SUFFICES ASSUME NEW r \in OwnRows(s), r \in OwnRows(o)  PROVE FALSE
  OBVIOUS
<1>1. TypeOK
  BY DEF BaseInv, SessionInv
<1>2. PICK i \in 1 .. Len(journal[s]) : journal[s][i].kind = "ins"
  BY <1>1, CountIs DEF Inserts
<1>3. PICK j \in 1 .. Len(journal[o]) : journal[o][j].kind = "ins"
  BY <1>1, CountIs DEF Inserts
<1> QED  BY <1>2, <1>3, OneInserter

-----------------------------------------------------------------------------
\* The steps that change neither rows nor what stands of a journal.
LEMMA QuietCount ==
  ASSUME TypeOK, TypeOK', NEW s \in Session, UNCHANGED store, Bystanders(s),
         journal'[s] = journal[s], Standing(s)' = Standing(s)
  PROVE  UNCHANGED <<CommittedRows, NetEffect>>
<1>1. Live' = Live
  BY DEF Live
<1>2. SameDeletions(s) /\ OwnRows(s)' = OwnRows(s)
  BY <1>1, AsideCount, CountIs
<1>3. \A o \in Session : o # s => SameDeletions(o) /\ OwnRows(o)' = OwnRows(o)
  BY <1>1, BystandersCount, CountIs
<1> QED  BY <1>2, <1>3, NothingCounted

\* What an entry added to the journal changes.
LEMMA AppendCount ==
  ASSUME TypeOK, TypeOK', NEW s \in Session, ~ Undoing(s), ~ Undoing(s)',
         NEW e \in Change, journal'[s] = Append(journal[s], e)
  PROVE  \E n \in Nat :
           /\ n = Len(journal[s]) /\ Len(journal'[s]) = n + 1
           /\ \A i \in 1 .. n : journal'[s][i] = journal[s][i]
           /\ journal'[s][n + 1] = e
           /\ Standing(s) = n /\ Standing(s)' = n + 1
           /\ \A q : /\ \A i \in 1 .. n : Inserts(s, i, q)' <=> Inserts(s, i, q)
                     /\ Inserts(s, n + 1, q)' <=> e.kind = "ins" /\ e.rid = q
<1>1. journal[s] \in Seq(Change)
  BY DEF TypeOK
<1>2. PICK n \in Nat : n = Len(journal[s])
  BY <1>1, LenProperties
<1>3. /\ Len(journal'[s]) = n + 1
      /\ \A i \in 1 .. n : journal'[s][i] = journal[s][i]
      /\ journal'[s][n + 1] = e
  BY <1>1, <1>2, AppendProperties, LenProperties
<1>4. Standing(s) = n /\ Standing(s)' = n + 1
  BY <1>2, <1>3 DEF Standing
<1>5. \A q : /\ \A i \in 1 .. n : Inserts(s, i, q)' <=> Inserts(s, i, q)
             /\ Inserts(s, n + 1, q)' <=> e.kind = "ins" /\ e.rid = q
  BY <1>3 DEF Inserts
<1> QED  BY <1>2, <1>3, <1>4, <1>5

\* INSERT stores a row.
LEMMA InsertCount ==
  ASSUME BaseInv, CountInv, TypeOK', NEW s \in Session, NEW r \in Unknown, InsertRow(s, r)
  PROVE  Atomic!Write(s, stmt[s].val, 1)
<1> DEFINE e == [kind |-> "ins", rid |-> r, val |-> stmt[s].val]
<1>1. TypeOK /\ stmt[s].val \in Val /\ r \in Rid /\ r \notin Live
  BY DEF BaseInv, SessionInv, TypeOK, Statement, Unknown
<1>2. PICK w \in Val : w = stmt[s].val
  BY <1>1
<1>3. /\ Live' = Live \cup {r} /\ store'[r] = w /\ \A q \in Live : store'[q] = store[q]
  BY <1>1, <1>2, WithType DEF InsertRow
<1>4. /\ pc[s] = "insert" /\ pc'[s] = "index" /\ undoing' = undoing /\ auto' = auto
      /\ \A o \in Session : o # s => pc'[o] = pc[o] /\ journal'[o] = journal[o]
      /\ journal'[s] = Append(journal[s], e)
  BY <1>1, NoteType DEF InsertRow, Goto, TypeOK
<1>5. e \in Change /\ e.kind = "ins" /\ e.rid = r
  BY <1>1 DEF Change
<1> HIDE DEF e
<1>6. PICK n \in Nat :
           /\ n = Len(journal[s]) /\ Len(journal'[s]) = n + 1
           /\ \A i \in 1 .. n : journal'[s][i] = journal[s][i]
           /\ journal'[s][n + 1] = e
           /\ Standing(s) = n /\ Standing(s)' = n + 1
           /\ \A q : /\ \A i \in 1 .. n : Inserts(s, i, q)' <=> Inserts(s, i, q)
                     /\ Inserts(s, n + 1, q)' <=> e.kind = "ins" /\ e.rid = q
  <2>1. ~ Undoing(s) /\ ~ Undoing(s)'
    BY <1>4 DEF Undoing
  <2> QED  BY <1>1, <1>4, <1>5, <2>1, AppendCount
<1>7. \A o \in Session : \A i \in 1 .. Len(journal[o]) : journal[o][i].rid # r
  BY <1>1, UnknownCount
<1>8. OwnRows(s)' = OwnRows(s) \cup {r}
  <2>1. OwnRows(s)' = {q \in Live' : \E i \in 1 .. n + 1 : Inserts(s, i, q)'}
    BY <1>6, NextCountIs
  <2>2. \A q : (\E i \in 1 .. n + 1 : Inserts(s, i, q)')
                 <=> (\E i \in 1 .. n : Inserts(s, i, q)) \/ q = r
    <3>1. PICK m \in Nat : m = n + 1
      OBVIOUS
    <3>2. m \in 1 .. m /\ \A i \in 1 .. m : i = m \/ i \in 1 .. n
      BY <3>1
    <3>3. \A i \in 1 .. n : i \in 1 .. m
      BY <3>1
    <3> SUFFICES ASSUME NEW q
                 PROVE  (\E i \in 1 .. m : Inserts(s, i, q)')
                          <=> (\E i \in 1 .. n : Inserts(s, i, q)) \/ q = r
      BY <3>1
    <3>4. /\ \A i \in 1 .. n : Inserts(s, i, q)' <=> Inserts(s, i, q)
          /\ Inserts(s, m, q)' <=> q = r
      BY <1>5, <1>6, <3>1
    <3> QED  BY <3>2, <3>3, <3>4
  <2>3. OwnRows(s) = {q \in Live : \E i \in 1 .. n : Inserts(s, i, q)}
    BY <1>1, <1>6, CountIs
  <2> QED  BY <1>3, <2>1, <2>2, <2>3
<1>9. SameDeletions(s)
  <2>1. ASSUME NEW i \in 1 .. n  PROVE OwnDelete(s, i)' <=> OwnDelete(s, i)
    <3>1. journal'[s][i].rid = journal[s][i].rid /\ journal[s][i].rid # r
      BY <1>6, <1>7
    <3>2. PICK x : x = journal[s][i].rid /\ x = journal'[s][i].rid /\ x # r
      BY <3>1
    <3>3. /\ \A j \in 1 .. n : Inserts(s, j, x)' <=> Inserts(s, j, x)
          /\ ~ Inserts(s, n + 1, x)'
      BY <1>5, <1>6, <3>2
    <3> QED  BY <1>6, <3>2, <3>3 DEF OwnDelete
  <2>2. Deletions(s) = {i \in 1 .. n : journal[s][i].kind = "del" /\ ~ OwnDelete(s, i)}
    BY <1>1, <1>6, CountIs
  <2>3. Deletions(s)' = {i \in 1 .. n + 1 : journal'[s][i].kind = "del" /\ ~ OwnDelete(s, i)'}
    BY <1>6, NextCountIs
  <2>4. journal'[s][n + 1].kind # "del"
    BY <1>5, <1>6
  <2>5. Deletions(s)' = Deletions(s)
    BY <1>6, <2>1, <2>2, <2>3, <2>4
  <2>6. \A i \in 1 .. n : Pending(s)'[i] = journal'[s][i] /\ Pending(s)[i] = journal[s][i]
    BY <1>1, <1>6, CountIs, NextCountIs
  <2> QED  BY <1>6, <2>2, <2>5, <2>6 DEF SameDeletions
<1>10. ASSUME NEW o \in Session, o # s  PROVE SameDeletions(o) /\ OwnRows(o)' = OwnRows(o)
  <2>1. Bystanders(s)
    BY <1>4 DEF Bystanders
  <2>2. SameDeletions(o)
        /\ OwnRows(o)' = {q \in Live' : \E i \in 1 .. Standing(o) : Inserts(o, i, q)}
    BY <1>1, <1>10, <2>1, BystandersCount
  <2>3. OwnRows(o) = {q \in Live : \E i \in 1 .. Standing(o) : Inserts(o, i, q)}
        /\ Standing(o) \in Nat /\ Len(journal[o]) \in Nat /\ Standing(o) <= Len(journal[o])
    BY <1>1, CountIs
  <2>4. \A i \in 1 .. Standing(o) : ~ Inserts(o, i, r)
    BY <1>7, <2>3 DEF Inserts
  <2> QED  BY <1>3, <2>2, <2>3, <2>4
<1>11. /\ CommittedRows' = CommittedRows
       /\ NetEffect' = [NetEffect EXCEPT ![s][w] = NetEffect[s][w] + 1]
  BY <1>1, <1>3, <1>8, <1>9, <1>10, GainsRow
<1>12. RollingBack' = RollingBack
  BY <1>1, <1>4 DEF RollingBack, Undoing, TypeOK
<1> QED  BY <1>2, <1>11, <1>12 DEF Atomic!Write

\* DELETE removes a row: one of the transaction's own, or a committed one, since
\* no other session can have inserted it while s reads the table.
LEMMA RemoveCount ==
  ASSUME BaseInv, CountInv, TypeOK', NEW s \in Session, RemoveRow(s)
  PROVE  /\ RollingBack' = RollingBack
         /\ \/ \E v \in Val : Atomic!Write(s, v, -1)
            \/ UNCHANGED <<CommittedRows, NetEffect>>
<1>1. TypeOK
  BY DEF BaseInv, SessionInv
<1>2. PICK r \in Rid : r = Head(stmt[s].rows)[1]
  BY Lockable DEF BaseInv, RemoveRow
<1>3. /\ pc[s] = "remove" /\ undoing' = undoing /\ auto' = auto
      /\ \/ /\ r \in Live /\ store' = Without(r) /\ Note(s, "del", r, store[r])
            /\ Goto(s, "unindex")
         \/ UNCHANGED <<store, journal, pc>>
  BY <1>2 DEF RemoveRow
<1>4. /\ pc'[s] \notin {"failed", "undo", "reindex"} /\ \A o \in Session : o # s => pc'[o] = pc[o]
  BY <1>1, <1>3 DEF Goto, TypeOK
<1>5. RollingBack' = RollingBack
  BY <1>1, <1>3, <1>4 DEF RollingBack, Undoing, TypeOK
<1>6. CASE UNCHANGED <<store, journal, pc>>
  <2>1. Bystanders(s) /\ journal'[s] = journal[s] /\ Standing(s)' = Standing(s)
    BY <1>3, <1>6 DEF Bystanders, Standing, Undoing
  <2> QED  BY <1>1, <1>5, <1>6, <2>1, QuietCount
<1>7. CASE r \in Live /\ store' = Without(r) /\ Note(s, "del", r, store[r]) /\ Goto(s, "unindex")
  <2>1. PICK w \in Val : w = store[r]
    BY <1>1, <1>7 DEF TypeOK
  <2> DEFINE e == [kind |-> "del", rid |-> r, val |-> w]
  <2>2. Live' = Live \ {r} /\ \A q \in Live : q # r => store'[q] = store[q]
    BY <1>1, <1>7, WithoutType
  <2>3. /\ \A o \in Session : o # s => journal'[o] = journal[o]
        /\ journal'[s] = Append(journal[s], e)
    BY <1>1, <1>7, <2>1, NoteType
  <2>4. e \in Change /\ e.kind = "del" /\ e.rid = r /\ e.val = w
    BY DEF Change
  <2> HIDE DEF e
  <2>5. PICK n \in Nat :
          /\ n = Len(journal[s]) /\ Len(journal'[s]) = n + 1
          /\ \A i \in 1 .. n : journal'[s][i] = journal[s][i]
          /\ journal'[s][n + 1] = e
          /\ Standing(s) = n /\ Standing(s)' = n + 1
          /\ \A q : /\ \A i \in 1 .. n : Inserts(s, i, q)' <=> Inserts(s, i, q)
                    /\ ~ Inserts(s, n + 1, q)'
    <3>1. ~ Undoing(s) /\ ~ Undoing(s)'
      BY <1>3, <1>4 DEF Undoing
    <3> QED  BY <1>1, <2>3, <2>4, <3>1, AppendCount
  <2>6. /\ OwnRows(s) = {q \in Live : \E i \in 1 .. n : Inserts(s, i, q)}
        /\ Deletions(s) = {i \in 1 .. n : journal[s][i].kind = "del" /\ ~ OwnDelete(s, i)}
        /\ \A i \in 1 .. n : Pending(s)[i] = journal[s][i]
    BY <1>1, <2>5, CountIs
  <2>7. /\ OwnRows(s)' = {q \in Live' : \E i \in 1 .. n + 1 : Inserts(s, i, q)'}
        /\ Deletions(s)' = {i \in 1 .. n + 1 : journal'[s][i].kind = "del" /\ ~ OwnDelete(s, i)'}
        /\ \A i \in 1 .. n + 1 : Pending(s)'[i] = journal'[s][i]
    BY <2>5, NextCountIs
  <2>8. OwnRows(s)' = OwnRows(s) \ {r}
    BY <2>2, <2>5, <2>6, <2>7
  <2>9. \A i \in 1 .. n : OwnDelete(s, i)' <=> OwnDelete(s, i)
    <3> SUFFICES ASSUME NEW i \in 1 .. n  PROVE OwnDelete(s, i)' <=> OwnDelete(s, i)
      OBVIOUS
    <3>1. journal'[s][i].rid = journal[s][i].rid
      BY <2>5
    <3> QED  BY <2>5, <3>1 DEF OwnDelete
  <2>10. OwnDelete(s, n + 1)' <=> \E i \in 1 .. n : Inserts(s, i, r)
    <3>1. PICK m \in Nat : m = n + 1
      OBVIOUS
    <3>2. journal'[s][m].rid = r
      BY <2>4, <2>5, <3>1
    <3> QED  BY <2>5, <3>1, <3>2 DEF OwnDelete
  <2>11. \A o \in Session : o # s =>
           /\ SameDeletions(o)
           /\ OwnRows(o)' = {q \in Live' : \E i \in 1 .. Standing(o) : Inserts(o, i, q)}
           /\ OwnRows(o) = {q \in Live : \E i \in 1 .. Standing(o) : Inserts(o, i, q)}
    <3>1. Bystanders(s)
      BY <1>3, <1>4, <2>3 DEF Bystanders
    <3> QED  BY <1>1, <3>1, BystandersCount, CountIs
  <2>12. \A o \in Session : o # s => r \notin OwnRows(o)
    <3> SUFFICES ASSUME NEW o \in Session, o # s, r \in OwnRows(o)  PROVE FALSE
      OBVIOUS
    <3>1. PICK i \in 1 .. Len(journal[o]) : journal[o][i].kind = "ins"
      BY <1>1, CountIs DEF Inserts
    <3> QED  BY <1>3, <3>1, OneInserter
  <2>13. \A o \in Session : o # s => OwnRows(o)' = OwnRows(o)
    BY <2>2, <2>11, <2>12
  <2>14. CASE r \in OwnRows(s)
    <3>1. \E i \in 1 .. n : Inserts(s, i, r)
      BY <2>6, <2>14
    <3>2. SameDeletions(s)
      <4>1. PICK m \in Nat : m = n + 1
        OBVIOUS
      <4>2. m \notin Deletions(s)'
        BY <2>7, <2>10, <3>1, <4>1
      <4>3. /\ Deletions(s) \subseteq 1 .. n /\ Deletions(s)' \subseteq 1 .. n
            /\ \A i \in 1 .. n : i \in Deletions(s)' <=> i \in Deletions(s)
        <5>1. Deletions(s) \subseteq 1 .. n
          BY <2>6
        <5>2. Deletions(s)' \subseteq 1 .. n
          <6>1. Deletions(s)' \subseteq 1 .. m
            BY <2>7, <4>1
          <6>2. \A i \in 1 .. m : i # m => i \in 1 .. n
            BY <4>1
          <6> QED  BY <4>2, <6>1, <6>2
        <5>3. \A i \in 1 .. n : i \in 1 .. n + 1 /\ journal'[s][i].kind = journal[s][i].kind
          BY <2>5
        <5>4. \A i \in 1 .. n : i \in Deletions(s)' <=> i \in Deletions(s)
          <6> SUFFICES ASSUME NEW i \in 1 .. n  PROVE i \in Deletions(s)' <=> i \in Deletions(s)
            OBVIOUS
          <6>1. i \in Deletions(s) <=> journal[s][i].kind = "del" /\ ~ OwnDelete(s, i)
            BY <2>6
          <6>2. i \in Deletions(s)' <=> journal'[s][i].kind = "del" /\ ~ OwnDelete(s, i)'
            BY <2>7, <5>3
          <6> QED  BY <2>9, <5>3, <6>1, <6>2
        <5> QED  BY <5>1, <5>2, <5>4
      <4>4. \A i \in 1 .. n : Pending(s)'[i] = Pending(s)[i]
        BY <2>5, <2>6, <2>7
      <4>5. Deletions(s)' = Deletions(s)
        BY <4>3
      <4> QED  BY <4>3, <4>4, <4>5 DEF SameDeletions
    <3>3. CommittedRows' = CommittedRows
          /\ NetEffect' = [NetEffect EXCEPT ![s][w] = NetEffect[s][w] + (-1)]
      BY <2>1, <2>2, <2>8, <2>11, <2>12, <2>13, <2>14, <3>2, LosesRow
    <3> QED  BY <1>5, <3>3 DEF Atomic!Write
  <2>15. CASE r \notin OwnRows(s)
    <3>1. ~ \E i \in 1 .. n : Inserts(s, i, r)
      BY <1>7, <2>6, <2>15
    <3>2. /\ n + 1 \notin Deletions(s) /\ Deletions(s)' = Deletions(s) \cup {n + 1}
          /\ \A i \in Deletions(s) : Pending(s)'[i].val = Pending(s)[i].val
          /\ Pending(s)'[n + 1].val = w
      <4>1. PICK m \in Nat : m = n + 1 /\ m \notin 1 .. n
        OBVIOUS
      <4>2. \A i \in 1 .. m : i = m \/ i \in 1 .. n
        BY <4>1
      <4>3. \A i \in 1 .. n : i \in 1 .. m /\ journal'[s][i] = journal[s][i]
        BY <2>5, <4>1
      <4>4. m \in 1 .. m /\ journal'[s][m].kind = "del" /\ journal'[s][m].val = w
            /\ ~ OwnDelete(s, m)'
        BY <2>4, <2>5, <2>10, <3>1, <4>1
      <4>5. /\ Deletions(s)' = {i \in 1 .. m : journal'[s][i].kind = "del" /\ ~ OwnDelete(s, i)'}
            /\ \A i \in 1 .. m : Pending(s)'[i] = journal'[s][i]
        BY <2>7, <4>1
      <4>6. m \notin Deletions(s) /\ Deletions(s) \subseteq 1 .. n
        BY <2>6, <4>1
      <4>7. \A i \in 1 .. n : i \in Deletions(s)' <=> i \in Deletions(s)
        BY <2>6, <2>9, <4>3, <4>5
      <4>8. m \in Deletions(s)' /\ Deletions(s)' \subseteq 1 .. m
        BY <4>4, <4>5
      <4>9. Deletions(s)' = Deletions(s) \cup {m}
        BY <4>2, <4>6, <4>7, <4>8
      <4>10. \A i \in Deletions(s) : Pending(s)'[i].val = Pending(s)[i].val
        BY <2>6, <4>3, <4>5, <4>6
      <4> QED  BY <4>1, <4>4, <4>5, <4>6, <4>9, <4>10
    <3>3. \A o \in Session : OwnRows(o)' = OwnRows(o) /\ r \notin OwnRows(o)
      BY <2>8, <2>12, <2>13, <2>15
    <3>4. PICK m : m = n + 1
      OBVIOUS
    <3>5. /\ m \notin Deletions(s) /\ Deletions(s)' = Deletions(s) \cup {m}
          /\ Pending(s)'[m].val = w
          /\ \A i \in Deletions(s) : Pending(s)'[i].val = Pending(s)[i].val
      BY <3>2, <3>4
    <3>6. CommittedRows' = CommittedRows
          /\ NetEffect' = [NetEffect EXCEPT ![s][w] = NetEffect[s][w] + (-1)]
      BY <1>7, <2>1, <2>2, <2>11, <3>3, <3>5, DeletesRow
    <3> QED  BY <1>5, <3>6 DEF Atomic!Write
  <2> QED  BY <2>14, <2>15
<1> QED  BY <1>3, <1>6, <1>7

-----------------------------------------------------------------------------
\* A step of a rollback takes the last entry off what stands of the journal.
LEMMA StepBack ==
  ASSUME TypeOK, TypeOK', NEW s \in Session, pc[s] = "undo", undoing[s] > 0, Undone(s),
         UNCHANGED <<auto, journal>>, pc'[s] \in {"undo", "reindex"},
         \A o \in Session : o # s => pc'[o] = pc[o]
  PROVE  \E u \in Nat \ {0} :
           /\ u = undoing[s] /\ journal[s][u] \in Change
           /\ Bystanders(s) /\ RollingBack' = RollingBack
           /\ OwnRows(s) = {q \in Live : \E i \in 1 .. u : Inserts(s, i, q)}
           /\ OwnRows(s)' = {q \in Live' : \E i \in 1 .. u - 1 : Inserts(s, i, q)}
           /\ Deletions(s) = {i \in 1 .. u : journal[s][i].kind = "del" /\ ~ OwnDelete(s, i)}
           /\ Deletions(s)' = {i \in 1 .. u - 1 : journal[s][i].kind = "del" /\ ~ OwnDelete(s, i)}
           /\ \A i \in 1 .. u : Pending(s)[i] = journal[s][i]
           /\ \A i \in 1 .. u - 1 : Pending(s)'[i] = journal[s][i]
<1>1. PICK u \in Nat \ {0} : u = undoing[s]
  BY DEF TypeOK
<1>2. journal[s][u] \in Change
  BY <1>1, NextUndone
<1>3. undoing'[s] = u - 1 /\ \A o \in Session : o # s => undoing'[o] = undoing[o]
  BY <1>1 DEF Undone, TypeOK
<1>4. Bystanders(s) /\ RollingBack' = RollingBack
  BY <1>3 DEF Bystanders, RollingBack, Undoing
<1>5. Standing(s) = u /\ Standing(s)' = u - 1
  BY <1>1, <1>3 DEF Standing, Undoing
<1>6. /\ \A i, q : Inserts(s, i, q)' <=> Inserts(s, i, q)
      /\ \A i : OwnDelete(s, i)' <=> OwnDelete(s, i)
  BY DEF Inserts, OwnDelete
<1>7. /\ OwnRows(s) = {q \in Live : \E i \in 1 .. u : Inserts(s, i, q)}
      /\ Deletions(s) = {i \in 1 .. u : journal[s][i].kind = "del" /\ ~ OwnDelete(s, i)}
      /\ \A i \in 1 .. u : Pending(s)[i] = journal[s][i]
  BY <1>5, CountIs
<1>8. /\ OwnRows(s)' = {q \in Live' : \E i \in 1 .. u - 1 : Inserts(s, i, q)'}
      /\ Deletions(s)' = {i \in 1 .. u - 1 : journal'[s][i].kind = "del" /\ ~ OwnDelete(s, i)'}
      /\ \A i \in 1 .. u - 1 : Pending(s)'[i] = journal'[s][i]
  BY <1>5, NextCountIs
<1>9. /\ OwnRows(s)' = {q \in Live' : \E i \in 1 .. u - 1 : Inserts(s, i, q)}
      /\ Deletions(s)' = {i \in 1 .. u - 1 : journal[s][i].kind = "del" /\ ~ OwnDelete(s, i)}
      /\ \A i \in 1 .. u - 1 : Pending(s)'[i] = journal[s][i]
  BY <1>6, <1>8
<1> QED  BY <1>1, <1>2, <1>4, <1>7, <1>9

\* What the others count while s undoes an entry that is not theirs.
LEMMA OthersOwn ==
  ASSUME TypeOK, TypeOK', NEW s \in Session, Bystanders(s), NEW r,
         \A q : q # r => (q \in Live' <=> q \in Live),
         \A o \in Session : o # s => \A i \in 1 .. Len(journal[o]) : ~ Inserts(o, i, r)
  PROVE  \A o \in Session : o # s =>
           SameDeletions(o) /\ OwnRows(o)' = OwnRows(o) /\ r \notin OwnRows(o)
<1> SUFFICES ASSUME NEW o \in Session, o # s
             PROVE  SameDeletions(o) /\ OwnRows(o)' = OwnRows(o) /\ r \notin OwnRows(o)
  OBVIOUS
<1>1. SameDeletions(o) /\ OwnRows(o)' = {q \in Live' : \E i \in 1 .. Standing(o) : Inserts(o, i, q)}
  BY BystandersCount
<1>2. OwnRows(o) = {q \in Live : \E i \in 1 .. Standing(o) : Inserts(o, i, q)}
      /\ Standing(o) \in Nat /\ Len(journal[o]) \in Nat /\ Standing(o) <= Len(journal[o])
  BY CountIs
<1>3. \A i \in 1 .. Standing(o) : ~ Inserts(o, i, r)
  BY <1>2
<1> QED  BY <1>1, <1>2, <1>3

\* The undo of an insert takes back a row of the transaction's own.
LEMMA UndoInsertCount ==
  ASSUME BaseInv, CountInv, IndexesTakeAll, TypeOK', NEW s \in Session, UndoInsert(s)
  PROVE  /\ RollingBack' = RollingBack
         /\ \/ \E v \in Val : Atomic!Write(s, v, -1)
            \/ UNCHANGED <<CommittedRows, NetEffect>>
<1>1. TypeOK
  BY DEF BaseInv, SessionInv
<1>2. PICK u \in Nat \ {0} :
        /\ u = undoing[s] /\ journal[s][u] \in Change
        /\ Bystanders(s) /\ RollingBack' = RollingBack
        /\ OwnRows(s) = {q \in Live : \E i \in 1 .. u : Inserts(s, i, q)}
        /\ OwnRows(s)' = {q \in Live' : \E i \in 1 .. u - 1 : Inserts(s, i, q)}
        /\ Deletions(s) = {i \in 1 .. u : journal[s][i].kind = "del" /\ ~ OwnDelete(s, i)}
        /\ Deletions(s)' = {i \in 1 .. u - 1 : journal[s][i].kind = "del" /\ ~ OwnDelete(s, i)}
        /\ \A i \in 1 .. u : Pending(s)[i] = journal[s][i]
        /\ \A i \in 1 .. u - 1 : Pending(s)'[i] = journal[s][i]
  <2>1. /\ pc[s] = "undo" /\ undoing[s] > 0 /\ Undone(s)
        /\ UNCHANGED <<auto, journal>> /\ pc'[s] \in {"undo", "reindex"}
        /\ \A o \in Session : o # s => pc'[o] = pc[o]
    BY DEF UndoInsert, IndexesTakeAll
  <2> QED  BY <1>1, <2>1, StepBack
<1>3. PICK r \in Rid : r = journal[s][u].rid
  BY <1>2 DEF Change
<1>4. journal[s][u].kind = "ins" /\ store' = Without(r)
  BY <1>2, <1>3 DEF UndoInsert, IndexesTakeAll
<1>5. Live' = Live \ {r} /\ \A q \in Live : q # r => store'[q] = store[q]
  BY <1>1, <1>4, WithoutType
<1>6. \A q : Inserts(s, u, q) <=> q = r
  BY <1>3, <1>4 DEF Inserts
<1>7. OwnRows(s)' = OwnRows(s) \ {r}
  BY <1>2, <1>5, <1>6
<1>8. SameDeletions(s)
  <2>1. \A i \in Deletions(s) : i # u
    BY <1>2, <1>4
  <2>2. Deletions(s)' = Deletions(s) /\ Deletions(s) \subseteq 1 .. u - 1
    BY <1>2, <2>1
  <2> QED  BY <1>2, <2>2 DEF SameDeletions
<1>9. \A o \in Session : o # s =>
        SameDeletions(o) /\ OwnRows(o)' = OwnRows(o) /\ r \notin OwnRows(o)
  <2>1. u \in 1 .. Len(journal[s])
    BY <1>1, <1>2, LenProperties DEF TypeOK
  <2>2. \A o \in Session : o # s => \A i \in 1 .. Len(journal[o]) : ~ Inserts(o, i, r)
    BY <1>4, <2>1, OneInserter DEF Inserts
  <2>3. \A q : q # r => (q \in Live' <=> q \in Live)
    BY <1>5
  <2> QED  BY <1>1, <1>2, <2>2, <2>3, OthersOwn
<1>10. CASE r \in Live
  <2>1. PICK w \in Val : store[r] = w
    BY <1>1, <1>10 DEF TypeOK
  <2>2. r \in OwnRows(s)
    BY <1>2, <1>6, <1>10
  <2>3. /\ CommittedRows' = CommittedRows
        /\ NetEffect' = [NetEffect EXCEPT ![s][w] = NetEffect[s][w] + (-1)]
    BY <1>5, <1>7, <1>8, <1>9, <2>1, <2>2, LosesRow
  <2> QED  BY <1>2, <2>3 DEF Atomic!Write
<1>11. CASE r \notin Live
  <2>1. store' = store
    <3>1. Live \ {r} = Live
      BY <1>11
    <3>2. store' = [q \in Live |-> store[q]]
      BY <1>4, <3>1 DEF Without
    <3> QED  BY <1>1, <3>2 DEF TypeOK
  <2>2. OwnRows(s)' = OwnRows(s)
    BY <1>2, <1>7, <1>11
  <2> QED  BY <1>2, <1>8, <1>9, <2>1, <2>2, NothingCounted
<1> QED  BY <1>10, <1>11

\* The undo of a deletion brings a committed row back, under another id.
LEMMA UndoRemoveCount ==
  ASSUME BaseInv, CountInv, TypeOK', NEW s \in Session, NEW r \in Unknown, UndoRemove(s, r)
  PROVE  /\ RollingBack' = RollingBack
         /\ \E v \in Val : Atomic!Write(s, v, 1)
<1>1. TypeOK /\ r \in Rid /\ r \notin Live
  BY DEF BaseInv, SessionInv, Unknown
<1>2. PICK u \in Nat \ {0} :
        /\ u = undoing[s] /\ journal[s][u] \in Change
        /\ Bystanders(s) /\ RollingBack' = RollingBack
        /\ OwnRows(s) = {q \in Live : \E i \in 1 .. u : Inserts(s, i, q)}
        /\ OwnRows(s)' = {q \in Live' : \E i \in 1 .. u - 1 : Inserts(s, i, q)}
        /\ Deletions(s) = {i \in 1 .. u : journal[s][i].kind = "del" /\ ~ OwnDelete(s, i)}
        /\ Deletions(s)' = {i \in 1 .. u - 1 : journal[s][i].kind = "del" /\ ~ OwnDelete(s, i)}
        /\ \A i \in 1 .. u : Pending(s)[i] = journal[s][i]
        /\ \A i \in 1 .. u - 1 : Pending(s)'[i] = journal[s][i]
  <2>1. /\ pc[s] = "undo" /\ undoing[s] > 0 /\ Undone(s)
        /\ UNCHANGED <<auto, journal>> /\ pc'[s] \in {"undo", "reindex"}
        /\ \A o \in Session : o # s => pc'[o] = pc[o]
    BY <1>1 DEF UndoRemove, Goto, TypeOK
  <2> QED  BY <1>1, <2>1, StepBack
<1>3. PICK w \in Val : w = journal[s][u].val
  BY <1>2 DEF Change
<1>4. journal[s][u].kind = "del" /\ journal[s][u].rid \notin Inserted(s) /\ store' = With(r, w)
  BY <1>2, <1>3 DEF UndoRemove
<1>5. Live' = Live \cup {r} /\ store'[r] = w /\ \A q \in Live : store'[q] = store[q]
  BY <1>1, <1>4, WithType
<1>6. u \in 1 .. Len(journal[s]) /\ DOMAIN journal[s] = 1 .. Len(journal[s])
  BY <1>1, <1>2, LenProperties DEF TypeOK
<1>7. u \in Deletions(s)
  BY <1>2, <1>4, <1>6 DEF Inserted, OwnDelete, Inserts
<1>8. \A o \in Session : \A i \in 1 .. Len(journal[o]) : ~ Inserts(o, i, r)
  BY <1>1, UnknownCount DEF Inserts
<1>9. OwnRows(s)' = OwnRows(s)
  <2>1. \A q : ~ Inserts(s, u, q)
    BY <1>4 DEF Inserts
  <2>2. \A i \in 1 .. u - 1 : ~ Inserts(s, i, r)
    BY <1>6, <1>8
  <2> QED  BY <1>2, <1>5, <2>1, <2>2
<1>10. /\ Deletions(s)' = Deletions(s) \ {u} /\ Pending(s)[u].val = w
       /\ \A i \in Deletions(s)' : Pending(s)'[i].val = Pending(s)[i].val
  BY <1>2, <1>3
<1>11. \A o \in Session : o # s =>
         SameDeletions(o) /\ OwnRows(o)' = OwnRows(o) /\ r \notin OwnRows(o)
  <2>1. \A q : q # r => (q \in Live' <=> q \in Live)
    BY <1>5
  <2> QED  BY <1>1, <1>2, <1>8, <2>1, OthersOwn
<1>12. \A o \in Session : OwnRows(o)' = OwnRows(o)
  BY <1>9, <1>11
<1>13. /\ CommittedRows' = CommittedRows
       /\ NetEffect' = [NetEffect EXCEPT ![s][w] = NetEffect[s][w] + 1]
  BY <1>1, <1>5, <1>7, <1>10, <1>11, <1>12, RestoresRow
<1> QED  BY <1>2, <1>13 DEF Atomic!Write

\* A row that the transaction inserted and deleted again is no effect of it.
LEMMA UndoOwnRemoveCount ==
  ASSUME BaseInv, CountInv, TypeOK', NEW s \in Session, UndoOwnRemove(s)
  PROVE  /\ RollingBack' = RollingBack
         /\ UNCHANGED <<CommittedRows, NetEffect>>
<1>1. TypeOK /\ store' = store /\ Live' = Live
  BY DEF BaseInv, SessionInv, UndoOwnRemove, data, Live
<1>2. PICK u \in Nat \ {0} :
        /\ u = undoing[s] /\ journal[s][u] \in Change
        /\ Bystanders(s) /\ RollingBack' = RollingBack
        /\ OwnRows(s) = {q \in Live : \E i \in 1 .. u : Inserts(s, i, q)}
        /\ OwnRows(s)' = {q \in Live' : \E i \in 1 .. u - 1 : Inserts(s, i, q)}
        /\ Deletions(s) = {i \in 1 .. u : journal[s][i].kind = "del" /\ ~ OwnDelete(s, i)}
        /\ Deletions(s)' = {i \in 1 .. u - 1 : journal[s][i].kind = "del" /\ ~ OwnDelete(s, i)}
        /\ \A i \in 1 .. u : Pending(s)[i] = journal[s][i]
        /\ \A i \in 1 .. u - 1 : Pending(s)'[i] = journal[s][i]
  <2>1. /\ pc[s] = "undo" /\ undoing[s] > 0 /\ Undone(s)
        /\ UNCHANGED <<auto, journal>> /\ pc'[s] \in {"undo", "reindex"}
        /\ \A o \in Session : o # s => pc'[o] = pc[o]
    BY DEF UndoOwnRemove
  <2> QED  BY <1>1, <2>1, StepBack
<1>3. journal[s][u].kind = "del" /\ journal[s][u].rid \in Inserted(s)
  BY <1>2 DEF UndoOwnRemove
<1>4. DOMAIN journal[s] = 1 .. Len(journal[s])
  BY <1>1, LenProperties DEF TypeOK
<1>5. OwnDelete(s, u)
  BY <1>3, <1>4 DEF Inserted, OwnDelete, Inserts
<1>6. \A q : ~ Inserts(s, u, q)
  BY <1>3 DEF Inserts
<1>7. OwnRows(s)' = OwnRows(s)
  <2>1. \A i \in 1 .. u : i = u \/ i \in 1 .. u - 1
    OBVIOUS
  <2>2. \A i \in 1 .. u - 1 : i \in 1 .. u
    OBVIOUS
  <2> QED  BY <1>1, <1>2, <1>6, <2>1, <2>2
<1>8. SameDeletions(s)
  <2>1. Deletions(s)' = Deletions(s) /\ Deletions(s) \subseteq 1 .. u - 1
    BY <1>2, <1>5
  <2> QED  BY <1>2, <2>1 DEF SameDeletions
<1>9. \A o \in Session : o # s => SameDeletions(o) /\ OwnRows(o)' = OwnRows(o)
  <2>1. Bystanders(s)
    BY <1>2
  <2> QED  BY <1>1, <2>1, BystandersCount, CountIs
<1> QED  BY <1>1, <1>2, <1>7, <1>8, <1>9, NothingCounted

-----------------------------------------------------------------------------
\* Whether the sessions are rolling back, when only that of s may have changed.
LEMMA RollingIs ==
         /\ RollingBack \in [Session -> BOOLEAN] /\ RollingBack' \in [Session -> BOOLEAN]
         /\ \A s \in Session :
              /\ RollingBack[s] <=> Undoing(s) \/ (pc[s] = "failed" /\ auto[s])
              /\ RollingBack'[s] <=> Undoing(s)' \/ (pc'[s] = "failed" /\ auto'[s])
BY DEF RollingBack, Undoing

LEMMA RollingSame ==
  ASSUME NEW s \in Session, NEW f \in [Session -> BOOLEAN], NEW g \in [Session -> BOOLEAN],
         \A o \in Session : o # s => (g[o] <=> f[o])
  PROVE  /\ g[s] => g = [f EXCEPT ![s] = TRUE]
         /\ ~ g[s] => g = [f EXCEPT ![s] = FALSE]
         /\ (g[s] <=> f[s]) => g = f
<1>1. \A o \in Session : o # s => g[o] = f[o]
  OBVIOUS
<1>2. g[s] = TRUE \/ g[s] = FALSE
  OBVIOUS
<1>3. f[s] = TRUE \/ f[s] = FALSE
  OBVIOUS
<1>4. g[s] = TRUE => g = [f EXCEPT ![s] = TRUE]
  BY <1>1
<1>5. g[s] = FALSE => g = [f EXCEPT ![s] = FALSE]
  BY <1>1
<1>6. g[s] = f[s] => g = f
  BY <1>1
<1> QED  BY <1>2, <1>3, <1>4, <1>5, <1>6

\* The row an undo has put back is indexed: no row and no deletion changes.
LEMMA RestoredCount ==
  ASSUME IndexesTakeAll, TypeOK, TypeOK', NEW s \in Session, IndexRestored(s)
  PROVE  UNCHANGED <<CommittedRows, NetEffect, RollingBack>>
<1>1. stmt[s].rows[1][2] \notin InsertFails
  BY DEF IndexesTakeAll
<1>2. /\ pc[s] = "reindex" /\ pc'[s] = "undo" /\ UNCHANGED <<store, journal, undoing, auto>>
      /\ \A o \in Session : o # s => pc'[o] = pc[o]
  BY <1>1 DEF IndexRestored, Goto, tx, TypeOK
<1>3. Undoing(s) /\ Undoing(s)'
  BY <1>2 DEF Undoing
<1>4. Bystanders(s) /\ Standing(s)' = Standing(s) /\ journal'[s] = journal[s]
  BY <1>2, <1>3 DEF Bystanders, Standing
<1>5. UNCHANGED <<CommittedRows, NetEffect>>
  BY <1>2, <1>4, QuietCount
<1>6. RollingBack'[s] <=> RollingBack[s]
  BY <1>3, RollingIs
<1>7. \A o \in Session : o # s => (RollingBack'[o] <=> RollingBack[o])
  BY <1>2, RollingIs DEF Undoing
<1> QED  BY <1>5, <1>6, <1>7, RollingIs, RollingSame

\* The end of a transaction: nothing is left of its journal.
LEMMA EndCount ==
  ASSUME TypeOK, TypeOK', NEW s \in Session, End(s)
  PROVE  /\ OwnRows(s)' = {} /\ Deletions(s)' = {} /\ UNCHANGED store
         /\ \A o \in Session : o # s => SameDeletions(o) /\ OwnRows(o)' = OwnRows(o)
         /\ ~ RollingBack'[s] /\ RollingBack' = [RollingBack EXCEPT ![s] = FALSE]
<1>1. /\ UNCHANGED store /\ Live' = Live /\ journal'[s] = <<>> /\ pc'[s] = "idle" /\ Bystanders(s)
      /\ \A o \in Session : o # s => auto'[o] = auto[o] /\ pc'[o] = pc[o]
  BY DEF End, Goto, data, TypeOK, Live, Bystanders
<1>2. Standing(s)' = 0
  BY <1>1, NothingIn DEF Standing, Undoing
<1>3. OwnRows(s)' = {} /\ Deletions(s)' = {}
  BY <1>2, NextCountIs
<1>4. \A o \in Session : o # s => SameDeletions(o) /\ OwnRows(o)' = OwnRows(o)
  BY <1>1, BystandersCount, CountIs
<1>5. ~ RollingBack'[s] /\ RollingBack' = [RollingBack EXCEPT ![s] = FALSE]
  BY <1>1, RollingIs, RollingSame DEF Undoing
<1> QED  BY <1>1, <1>3, <1>4, <1>5

LEMMA CommitCount ==
  ASSUME BaseInv, CountInv, TypeOK', NEW s \in Session, End(s), pc[s] \in {"idle", "done"}
  PROVE  Atomic!Commit(s)
<1>1. TypeOK
  BY DEF BaseInv, SessionInv
<1>2. /\ CommittedRows' = [v \in Val |-> CommittedRows[v] + NetEffect[s][v]]
      /\ NetEffect' = [NetEffect EXCEPT ![s] = [v \in Val |-> 0]]
  BY <1>1, EndCount, OwnersApart, Commits
<1>3. ~ RollingBack[s] /\ RollingBack' = RollingBack
  <2>1. ~ RollingBack[s] /\ RollingBack = [RollingBack EXCEPT ![s] = FALSE]
    BY RollingIs, RollingSame DEF Undoing
  <2> QED  BY <1>1, <2>1, EndCount
<1> QED  BY <1>2, <1>3 DEF Atomic!Commit, Atomic!NoChange

LEMMA FinishCount ==
  ASSUME BaseInv, CountInv, TypeOK', NEW s \in Session, FinishRollback(s)
  PROVE  Atomic!Aborted(s)
<1>1. TypeOK /\ End(s) /\ pc[s] = "undo" /\ undoing[s] = 0
  BY DEF BaseInv, SessionInv, FinishRollback
<1>2. Standing(s) = 0
  BY <1>1 DEF Standing, Undoing
<1>3. OwnRows(s) = {} /\ Deletions(s) = {}
  BY <1>1, <1>2, CountIs
<1>4. OwnRows(s)' = OwnRows(s) /\ SameDeletions(s)
  BY <1>1, <1>3, EndCount DEF SameDeletions
<1>5. UNCHANGED <<CommittedRows, NetEffect>>
  BY <1>1, <1>4, EndCount, NothingCounted
<1>6. NetEffect[s] = [v \in Val |-> 0]
  <2>1. \A v \in Val : Mine(s, v) = {} /\ Taken(s, v) = {}
    BY <1>3 DEF Mine, Taken
  <2>2. \A v \in Val : Cardinality(Mine(s, v)) - Cardinality(Taken(s, v)) = 0
    BY <2>1, FS_EmptySet
  <2> QED  BY <2>2 DEF NetEffect
<1>7. RollingBack[s] /\ RollingBack' = [RollingBack EXCEPT ![s] = FALSE]
  BY <1>1, EndCount, RollingIs DEF Undoing
<1> QED  BY <1>5, <1>6, <1>7 DEF Atomic!Aborted, Atomic!NoChange

\* The rollback starts: of a statement that failed, it is under way already.
LEMMA StartUndoCount ==
  ASSUME TypeOK, TypeOK', NEW s \in Session, NEW twice \in BOOLEAN, StartUndo(s, twice),
         ~ Undoing(s)
  PROVE  \/ Atomic!Abort(s)
         \/ pc[s] = "failed" /\ auto[s] /\ UNCHANGED <<CommittedRows, NetEffect, RollingBack>>
<1>1. /\ UNCHANGED store /\ journal' = journal /\ pc'[s] = "undo" /\ undoing'[s] = Len(journal[s])
      /\ \A o \in Session :
           o # s => pc'[o] = pc[o] /\ auto'[o] = auto[o] /\ undoing'[o] = undoing[o]
  BY DEF StartUndo, Goto, TypeOK, data
<1>2. Bystanders(s) /\ Standing(s)' = Standing(s) /\ journal'[s] = journal[s]
  BY <1>1 DEF Bystanders, Standing, Undoing
<1>3. UNCHANGED <<CommittedRows, NetEffect>>
  BY <1>1, <1>2, QuietCount
<1>4. RollingBack'[s] /\ \A o \in Session : o # s => (RollingBack'[o] <=> RollingBack[o])
  BY <1>1, RollingIs DEF Undoing
<1>5. CASE RollingBack[s]
  <2>1. RollingBack' = RollingBack
    BY <1>4, <1>5, RollingIs, RollingSame
  <2>2. pc[s] = "failed" /\ auto[s]
    BY <1>5, RollingIs
  <2> QED  BY <1>3, <2>1, <2>2
<1>6. CASE ~ RollingBack[s]
  <2>1. RollingBack' = [RollingBack EXCEPT ![s] = TRUE]
    BY <1>4, RollingIs, RollingSame
  <2> QED  BY <1>3, <1>6, <2>1 DEF Atomic!Abort
<1> QED  BY <1>5, <1>6

\* A step that moves s, without a rollback before or after it, or makes its
\* statement fail.
LEMMA MoveCount ==
  ASSUME TypeOK, TypeOK', NEW s \in Session, UNCHANGED <<store, journal, undoing>>,
         ~ Undoing(s), pc[s] = "failed" => ~ auto[s], ~ Undoing(s)',
         \A o \in Session : o # s => pc'[o] = pc[o] /\ auto'[o] = auto[o]
  PROVE  Atomic!Abort(s) \/ UNCHANGED <<CommittedRows, NetEffect, RollingBack>>
<1>1. Bystanders(s) /\ Standing(s)' = Standing(s) /\ journal'[s] = journal[s]
  BY DEF Bystanders, Standing
<1>2. UNCHANGED <<CommittedRows, NetEffect>>
  BY <1>1, QuietCount
<1>3. ~ RollingBack[s] /\ \A o \in Session : o # s => (RollingBack'[o] <=> RollingBack[o])
  BY RollingIs DEF Undoing
<1>4. CASE RollingBack'[s]
  <2>1. RollingBack' = [RollingBack EXCEPT ![s] = TRUE]
    BY <1>3, <1>4, RollingIs, RollingSame
  <2> QED  BY <1>2, <1>3, <2>1 DEF Atomic!Abort
<1>5. CASE ~ RollingBack'[s]
  <2>1. RollingBack' = RollingBack
    BY <1>3, <1>5, RollingIs, RollingSame
  <2> QED  BY <1>2, <2>1
<1> QED  BY <1>4, <1>5

-----------------------------------------------------------------------------
\* Every step leaves finitely many rows and deletions.
LEMMA CountStep ==
  ASSUME TypeOK, TypeOK', CountInv, NEW s \in Session, Bystanders(s),
         \E r : Live' \subseteq Live \cup {r}
  PROVE  CountInv'
<1>1. IsFiniteSet(Live')
  BY FS_AddElement, FS_Subset DEF CountInv
<1>2. Gone' \subseteq Gone \cup ({s} \X (1 .. Standing(s)'))
  <2>1. Deletions(s)' \subseteq 1 .. Standing(s)'
    BY NextCountIs
  <2>2. \A o \in Session : o # s => Deletions(o)' = Deletions(o)
    BY BystandersCount DEF SameDeletions
  <2> QED  BY <2>1, <2>2 DEF Gone
<1>3. IsFiniteSet({s} \X (1 .. Standing(s)'))
  <2>1. Standing(s)' \in Nat
    BY NextCountIs
  <2>2. PICK n \in Int : n = Standing(s)'
    BY <2>1
  <2>3. IsFiniteSet(1 .. n)
    BY FS_Interval
  <2>4. IsFiniteSet({s})
    BY FS_Singleton
  <2> QED  BY <2>2, <2>3, <2>4, FS_Product
<1>4. IsFiniteSet(Gone')
  BY <1>2, <1>3, FS_Union, FS_Subset DEF CountInv
<1> QED  BY <1>1, <1>4 DEF CountInv

\* What a step of one session touches.
LEMMA OneSession ==
  ASSUME TypeOK, NEW s \in Session, Step(s) \/ Ask(s)
  PROVE  Bystanders(s) /\ \E r : Live' \subseteq Live \cup {r}
<1>1. CASE UNCHANGED store
  <2>1. Bystanders(s)
    <3>1. CASE Ask(s)
      BY <3>1 DEF Ask, Begin, Commit, Rollback, Close, Execute, StartUndo, End, Goto, tx,
                  Bystanders, TypeOK
    <3>2. CASE IndexRow(s) \/ OpenTable(s) \/ ScanRow(s) \/ UnindexRow(s) \/ SearchIndex(s)
               \/ FetchRow(s) \/ LastRow(s)
      BY <3>2 DEF IndexRow, OpenTable, ScanRow, UnindexRow, SearchIndex, FetchRow, LastRow, Goto,
                  tx, Bystanders, TypeOK
    <3>3. CASE LockFails(s) \/ Succeed(s) \/ Fail(s) \/ FinishRollback(s)
      BY <3>3 DEF LockFails, Succeed, Fail, FinishRollback, StartUndo, End, Goto, tx,
                  Bystanders, TypeOK
    <3>4. CASE (\E r \in Fresh : InsertRow(s, r)) \/ RemoveRow(s)
      BY <3>4 DEF InsertRow, RemoveRow, Note, Goto, Bystanders, TypeOK
    <3>5. CASE \/ UndoInsert(s) \/ (\E r \in Fresh : UndoRemove(s, r))
               \/ IndexRestored(s) \/ UndoOwnRemove(s)
      BY <3>5 DEF UndoInsert, UndoRemove, IndexRestored, UndoOwnRemove, UndoRaises, Undone, Goto,
                  tx, Bystanders, TypeOK
    <3> QED  BY <3>1, <3>2, <3>3, <3>4, <3>5 DEF Step
  <2>2. Live' \subseteq Live \cup {s}
    BY <1>1 DEF Live
  <2> QED  BY <2>1, <2>2
<1>2. CASE \E r \in Fresh : InsertRow(s, r)
  <2>1. PICK r \in Rid : InsertRow(s, r)
    BY <1>2, FreshIsUnknown
  <2>2. Live' = Live \cup {r}
    BY <2>1 DEF InsertRow, With, Live
  <2> QED  BY <2>1, <2>2 DEF InsertRow, Note, Goto, Bystanders, TypeOK
<1>3. CASE RemoveRow(s) /\ store' # store
  <2>1. Live' \subseteq Live \cup {s}
    BY <1>3 DEF RemoveRow, Without, Live
  <2> QED  BY <1>3, <2>1 DEF RemoveRow, Note, Goto, Bystanders, TypeOK
<1>4. CASE UndoInsert(s) /\ store' # store
  <2>1. Live' \subseteq Live \cup {s}
    BY <1>4 DEF UndoInsert, Without, Live, data
  <2> QED  BY <1>4, <2>1 DEF UndoInsert, UndoRaises, Undone, Goto, Bystanders, TypeOK
<1>5. CASE \E r \in Fresh : UndoRemove(s, r)
  <2>1. PICK r \in Rid : UndoRemove(s, r)
    BY <1>5, FreshIsUnknown
  <2>2. Live' = Live \cup {r}
    BY <2>1 DEF UndoRemove, With, Live
  <2> QED  BY <2>1, <2>2 DEF UndoRemove, UndoRaises, Undone, Goto, Bystanders, TypeOK
<1>6. CASE store' # store
  <2>1. \/ \E r \in Fresh : InsertRow(s, r) \/ UndoRemove(s, r)
        \/ RemoveRow(s) \/ UndoInsert(s)
    BY <1>6 DEF Step, Ask, Begin, Commit, Rollback, Close, Execute, StartUndo, End, IndexRow,
                OpenTable, ScanRow, UnindexRow, SearchIndex, FetchRow, LastRow, LockFails, Succeed,
                Fail, FinishRollback, IndexRestored, UndoOwnRemove, data
  <2>2. \/ \E r \in Fresh : InsertRow(s, r)
        \/ RemoveRow(s) /\ store' # store
        \/ UndoInsert(s) /\ store' # store
        \/ \E r \in Fresh : UndoRemove(s, r)
    BY <1>6, <2>1, Zenon
  <2>3. CASE \E r \in Fresh : InsertRow(s, r)
    BY <1>2, <2>3
  <2>4. CASE RemoveRow(s) /\ store' # store
    BY <1>3, <2>4
  <2>5. CASE UndoInsert(s) /\ store' # store
    BY <1>4, <2>5
  <2>6. CASE \E r \in Fresh : UndoRemove(s, r)
    BY <1>5, <2>6
  <2> QED  BY <2>2, <2>3, <2>4, <2>5, <2>6, Zenon
<1> QED  BY <1>1, <1>6

\* Every step of a session is a step of AtomicTable, or changes nothing there.
LEMMA AtomicStep ==
  ASSUME NobodyCloses, IndexesTakeAll, BaseInv, CountInv, TypeOK', NEW s \in Session,
         Step(s) \/ Ask(s)
  PROVE  Atomic!TableNext \/ UNCHANGED <<CommittedRows, NetEffect, RollingBack>>
<1>1. TypeOK
  BY DEF BaseInv, SessionInv
<1>2. CASE \E r \in Fresh : InsertRow(s, r)
  <2>1. PICK r \in Unknown : InsertRow(s, r)
    BY <1>2, FreshIsUnknown
  <2>2. stmt[s].val \in Val
    BY <1>1 DEF TypeOK, Statement
  <2> QED  BY <2>1, <2>2, InsertCount DEF Atomic!TableNext
<1>3. CASE RemoveRow(s) \/ UndoInsert(s)
  BY <1>3, RemoveCount, UndoInsertCount DEF Atomic!TableNext
<1>4. CASE \E r \in Fresh : UndoRemove(s, r)
  BY <1>4, FreshIsUnknown, UndoRemoveCount DEF Atomic!TableNext
<1>5. CASE UndoOwnRemove(s) \/ IndexRestored(s)
  BY <1>1, <1>5, UndoOwnRemoveCount, RestoredCount
<1>6. CASE FinishRollback(s)
  BY <1>6, FinishCount DEF Atomic!TableNext
<1>7. CASE Commit(s) \/ (Succeed(s) /\ End(s))
  BY <1>7, CommitCount DEF Commit, Succeed, Atomic!TableNext
<1>8. CASE \/ Rollback(s)
           \/ LockFails(s) /\ StartUndo(s, auto[s])
           \/ Fail(s) /\ StartUndo(s, FALSE)
  <2>1. PICK twice \in BOOLEAN : StartUndo(s, twice)
    BY <1>1, <1>8 DEF Rollback, TypeOK
  <2>2. ~ Undoing(s)
    BY <1>8 DEF Rollback, LockFails, Wanted, Fail, Undoing
  <2> QED  BY <1>1, <2>1, <2>2, StartUndoCount DEF Atomic!TableNext
<1>9. ASSUME UNCHANGED <<store, journal, undoing>>,
             ~ Undoing(s), pc[s] = "failed" => ~ auto[s], ~ Undoing(s)',
             \A o \in Session : o # s => pc'[o] = pc[o] /\ auto'[o] = auto[o]
      PROVE  Atomic!TableNext \/ UNCHANGED <<CommittedRows, NetEffect, RollingBack>>
  BY <1>1, <1>9, MoveCount DEF Atomic!TableNext
<1>10. CASE Begin(s) \/ \E kind \in Kinds, v \in Val : Execute(s, kind, v)
  <2>1. /\ UNCHANGED <<store, journal, undoing>> /\ pc[s] = "idle"
        /\ pc'[s] \in {"idle", "insert", "open"}
        /\ \A o \in Session : o # s => pc'[o] = pc[o] /\ auto'[o] = auto[o]
    BY <1>1, <1>10 DEF Begin, Execute, Goto, data, TypeOK
  <2> QED  BY <1>9, <2>1 DEF Undoing
<1>11. CASE IndexRow(s) \/ OpenTable(s) \/ ScanRow(s) \/ UnindexRow(s) \/ SearchIndex(s)
            \/ FetchRow(s) \/ LastRow(s)
  <2>1. /\ UNCHANGED <<store, journal, undoing>> /\ pc[s] \notin {"undo", "reindex", "failed"}
        /\ pc'[s] \notin {"undo", "reindex"}
        /\ \A o \in Session : o # s => pc'[o] = pc[o] /\ auto'[o] = auto[o]
    BY <1>1, <1>11 DEF IndexRow, OpenTable, ScanRow, UnindexRow, SearchIndex, FetchRow, LastRow,
                       Goto, data, tx, TypeOK
  <2> QED  BY <1>9, <2>1 DEF Undoing
<1>12. CASE \/ LockFails(s) /\ Goto(s, "failed") /\ UNCHANGED <<held, data, tx, stmt>>
            \/ (Succeed(s) \/ Fail(s)) /\ ~ auto[s]
  <2>1. /\ UNCHANGED <<store, journal, undoing>> /\ pc'[s] \notin {"undo", "reindex"}
        /\ pc[s] \notin {"undo", "reindex"} /\ (pc[s] = "failed" => ~ auto[s])
        /\ \A o \in Session : o # s => pc'[o] = pc[o] /\ auto'[o] = auto[o]
    BY <1>1, <1>12 DEF LockFails, Wanted, Succeed, Fail, Goto, data, tx, TypeOK
  <2> QED  BY <1>9, <2>1 DEF Undoing
<1>13. ~ Close(s)
  BY DEF Close, NobodyCloses
<1>14. LockFails(s) \/ Succeed(s) \/ Fail(s) =>
         \/ Succeed(s) /\ End(s)
         \/ LockFails(s) /\ StartUndo(s, auto[s])
         \/ Fail(s) /\ StartUndo(s, FALSE)
         \/ LockFails(s) /\ Goto(s, "failed") /\ UNCHANGED <<held, data, tx, stmt>>
         \/ (Succeed(s) \/ Fail(s)) /\ ~ auto[s]
  BY DEF LockFails, Succeed, Fail
<1> QED  BY <1>2, <1>3, <1>4, <1>5, <1>6, <1>7, <1>8, <1>10, <1>11, <1>12, <1>13, <1>14
      DEF Step, Ask

LEMMA AtomicInit == Init => CountInv /\ Atomic!TableInit
<1> SUFFICES ASSUME Init  PROVE CountInv /\ Atomic!TableInit
  OBVIOUS
<1>1. SessionInv
  BY SessionInit
<1>2. \A s \in Session : Standing(s) = 0 /\ pc[s] = "idle"
  BY NothingIn DEF Init, Standing, Undoing
<1>3. \A s \in Session : OwnRows(s) = {} /\ Deletions(s) = {}
  BY <1>1, <1>2, CountIs DEF SessionInv
<1>4. CountInv
  <2>1. Gone = {}
    BY <1>3 DEF Gone
  <2>2. IsFiniteSet(Live)
    BY ConstantsAssumption DEF Init, Live
  <2> QED  BY <2>1, <2>2, FS_EmptySet DEF CountInv
<1>5. CommittedRows \in [Val -> Nat]
  <2>1. ASSUME NEW v \in Val
        PROVE  IsFiniteSet(Untouched(v)) /\ IsFiniteSet(Missing(v))
    BY <1>4, FS_Subset DEF CountInv, Untouched, Missing
  <2>2. \A v \in Val : Cardinality(Untouched(v)) \in Nat /\ Cardinality(Missing(v)) \in Nat
    BY <2>1, FS_CardinalityType
  <2>3. \A v \in Val : Cardinality(Untouched(v)) + Cardinality(Missing(v)) \in Nat
    BY <2>2
  <2> QED  BY <2>3 DEF CommittedRows
<1>6. NetEffect = [s \in Session |-> [v \in Val |-> 0]]
  <2>1. \A s \in Session, v \in Val : Mine(s, v) = {} /\ Taken(s, v) = {}
    BY <1>3 DEF Mine, Taken
  <2>2. \A s \in Session, v \in Val : Cardinality(Mine(s, v)) - Cardinality(Taken(s, v)) = 0
    BY <2>1, FS_EmptySet
  <2> QED  BY <2>2 DEF NetEffect
<1>7. RollingBack = [s \in Session |-> FALSE]
  <2>1. \A s \in Session : (Undoing(s) \/ (pc[s] = "failed" /\ auto[s])) = FALSE
    BY <1>2 DEF Undoing
  <2> QED  BY <2>1, Zenon DEF RollingBack
<1> QED  BY <1>4, <1>5, <1>6, <1>7 DEF Atomic!TableInit, Atomic!NoChange

\* Transactions are atomic: whatever steps the INSERTs, DELETEs and rollbacks of
\* any number of sessions are cut into, the committed rows change only by the
\* whole effect of a transaction that commits, and one that is rolled back
\* leaves none.
THEOREM TransactionsAtomic == NobodyCloses /\ IndexesTakeAll => (Spec => AtomicityHolds)
<1> SUFFICES ASSUME NobodyCloses, IndexesTakeAll  PROVE Spec => AtomicityHolds
  OBVIOUS
<1>1. Init => CountInv /\ Atomic!TableInit
  BY AtomicInit
<1>2. SessionInv /\ LockInv /\ CountInv /\ [Next]_vars =>
        CountInv' /\ [Atomic!TableNext]_Atomic!tableVars
  <2> SUFFICES ASSUME SessionInv, LockInv, CountInv, [Next]_vars
               PROVE  CountInv' /\ [Atomic!TableNext]_Atomic!tableVars
    OBVIOUS
  <2>1. TypeOK /\ TypeOK' /\ BaseInv
    BY SessionStep DEF SessionInv, BaseInv
  <2>2. CASE UNCHANGED vars
    <3>1. UNCHANGED <<store, journal, undoing, pc, auto>>
      BY <2>2 DEF vars, data, tx
    <3>2. Gone' = Gone /\ Live' = Live
      BY <3>1 DEF Gone, Deletions, Pending, Undoing, Inserted, Live
    <3>3. UNCHANGED <<CommittedRows, NetEffect, RollingBack>>
      BY <3>1, <3>2 DEF CommittedRows, NetEffect, RollingBack, Untouched, Missing, Mine, Taken,
                        OwnRows, Deletions, Pending, Undoing, Inserted
    <3> QED  BY <3>2, <3>3 DEF CountInv, Atomic!tableVars
  <2>3. ASSUME NEW s \in Session, Step(s) \/ Ask(s)
        PROVE  CountInv' /\ [Atomic!TableNext]_Atomic!tableVars
    <3>1. CountInv'
      BY <2>1, <2>3, OneSession, CountStep
    <3>2. Atomic!TableNext \/ UNCHANGED <<CommittedRows, NetEffect, RollingBack>>
      BY <2>1, <2>3, AtomicStep
    <3> QED  BY <3>1, <3>2 DEF Atomic!tableVars
  <2> QED  BY <2>2, <2>3 DEF Next
<1> QED  BY <1>1, <1>2, SessionInvariant, LockInvariant, PTL
      DEF Spec, AtomicityHolds, Atomic!TableSpec
=============================================================================
