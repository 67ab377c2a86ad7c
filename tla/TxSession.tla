------------------------------ MODULE TxSession -----------------------------
(***************************************************************************)
(* Transactional sessions over one table: TransactionalSession, its        *)
(* locking file organization, the undo journal and the transaction         *)
(* manager (engine/transactions), with the INSERT, DELETE, SELECT and      *)
(* index lookup of the executor (engine/query) that run inside them.       *)
(*                                                                         *)
(* Each session runs on a thread of its own; pc is where it is:            *)
(*   "idle"     between statements, with or without an open transaction    *)
(*   "insert"   INSERT asks for the table in X and stores the row          *)
(*   "index"    INSERT adds the row to the indexes                         *)
(*   "open"     DELETE, SELECT or a lookup asks for the table in S         *)
(*   "scan"     the table is scanned, one row at a time                    *)
(*   "remove"   DELETE asks for a matched row in X and removes it          *)
(*   "unindex"  DELETE takes the row out of the indexes                    *)
(*   "search"   a lookup collects candidates from an index                 *)
(*   "fetch"    a lookup asks for a candidate row in S and reads it        *)
(*   "done"     the statement is over                                      *)
(*   "failed"   the statement raised something other than a lock error     *)
(*   "undo"     the journal is undone, from its end                        *)
(*   "reindex"  the undo has put a deleted row back and is to index it     *)
(* The locks are those of LockService, which Strict2PL implements.         *)
(***************************************************************************)
EXTENDS Sequences, FiniteSets, Integers, LockModes

CONSTANTS Session,      \* sessions, each with at most one open transaction
          Val,          \* row values
          Rid,          \* record ids, in the order of a scan
          Table,        \* the table, as a lockable resource
          Seed,         \* the rows the table starts with
          InsertFails,  \* values whose insertion into an index raises
          RemoveFails,  \* values whose removal from an index raises
          Closers,      \* sessions that may be closed while others work
          Kinds,        \* the kinds of statement that are run
          MaxRows,      \* bound on the rows of the table
          MaxJournal,   \* bound on the changes of one transaction
          MaxOrphans    \* statements start while there are no more orphans

ASSUME ConstantsAssumption ==
  /\ Rid \subseteq Nat /\ Table \notin Rid
  /\ Val # {}
  /\ DOMAIN Seed \subseteq Rid /\ Seed \in [DOMAIN Seed -> Val] /\ IsFiniteSet(DOMAIN Seed)
  /\ InsertFails \subseteq Val /\ RemoveFails \subseteq Val
  /\ Closers \subseteq Session
  /\ Kinds \subseteq {"insert", "delete", "select", "lookup"}
  /\ MaxRows \in Nat /\ MaxJournal \in Nat /\ MaxOrphans \in Nat

VARIABLES held,     \* the lock table
          store,    \* the rows of the file organization, by record id
          index,    \* the entries of the table's index: value, record id
          orphans,  \* those of its entries that an undo made for a row gone by then
          open,     \* whether the session has an open transaction
          auto,     \* whether execute_statement is to end it, with the statement
          journal,  \* the undo journal of the open transaction
          undoing,  \* how many of its entries are still to be undone
          pc,       \* see above
          stmt      \* the statement in progress

vars == <<held, store, index, orphans, open, auto, journal, undoing, pc, stmt>>
data == <<store, index, orphans>>
tx   == <<open, auto, journal, undoing>>

Resource == Rid \cup {Table}
Locks == INSTANCE LockService WITH Tx <- Session, None <- "none"

Live   == DOMAIN store
Row    == Rid \X Val
Change == [kind : {"ins", "del"}, rid : Rid, val : Val]

\* rows is what the statement has collected: record ids and values.
NoStmt    == [kind |-> "none", val |-> CHOOSE v \in Val : TRUE, at |-> 0, rows |-> <<>>]
Statement == [kind : {"none", "insert", "delete", "select", "lookup"},
              val : Val, at : Nat, rows : Seq(Row)]

TypeOK ==
  /\ held \in [Resource -> [Session -> Mode \cup {"none"}]]
  /\ Live \subseteq Rid /\ store \in [Live -> Val]
  /\ index \subseteq Val \X Rid /\ orphans \subseteq Val \X Rid
  /\ open \in [Session -> BOOLEAN] /\ auto \in [Session -> BOOLEAN]
  /\ journal \in [Session -> Seq(Change)]
  /\ undoing \in [Session -> Nat] /\ \A s \in Session : undoing[s] <= Len(journal[s])
  /\ pc \in [Session -> {"idle", "insert", "index", "open", "scan", "remove", "unindex",
                         "search", "fetch", "done", "failed", "undo", "reindex", "closed"}]
  /\ stmt \in [Session -> Statement]

Init ==
  /\ Locks!ServiceInit
  /\ store = Seed
  /\ index = {<<Seed[r], r>> : r \in DOMAIN Seed} /\ orphans = {}
  /\ open = [s \in Session |-> FALSE] /\ auto = [s \in Session |-> FALSE]
  /\ journal = [s \in Session |-> <<>>] /\ undoing = [s \in Session |-> 0]
  /\ pc = [s \in Session |-> "idle"] /\ stmt = [s \in Session |-> NoStmt]

Goto(s, label) == pc' = [pc EXCEPT ![s] = label]
Note(s, kind, rid, val) ==
  journal' = [journal EXCEPT ![s] = Append(@, [kind |-> kind, rid |-> rid, val |-> val])]
Collect(s, rows) == stmt' = [stmt EXCEPT ![s].rows = rows]

Undoing(s) == pc[s] \in {"undo", "reindex"}

\* The changes of s that stand, and those of them that deleted a committed row.
Pending(s) == IF Undoing(s) THEN SubSeq(journal[s], 1, undoing[s]) ELSE journal[s]
Inserted(s) == {journal[s][i].rid : i \in {j \in DOMAIN journal[s] : journal[s][j].kind = "ins"}}
Deletions(s) == {i \in DOMAIN Pending(s) : /\ Pending(s)[i].kind = "del"
                                           /\ Pending(s)[i].rid \notin Inserted(s)}
Gone == UNION {{s} \X Deletions(s) : s \in Session}

\* The record ids in the journal and the statement of s.
Mentioned(s) ==
  {journal[s][i].rid : i \in DOMAIN journal[s]}
    \cup {stmt[s].rows[i][1] : i \in DOMAIN stmt[s].rows}

\* A record id that no row, index, journal or statement mentions.  A slot is
\* given out once, but an id nothing mentions any more cannot be told from one
\* that was never used, so the model recycles those.
Unknown == Rid \ (Live \cup {e[2] : e \in index} \cup UNION {Mentioned(s) : s \in Session})

\* An insert goes to any page with room: behind a scan in progress or ahead of it.
Fresh ==
  LET free == Unknown
  IN {r \in free : (\A q \in free : r <= q) \/ (\A q \in free : q <= r)}

With(r, v)    == [q \in Live \cup {r} |-> IF q = r THEN v ELSE store[q]]
Without(r)    == [q \in Live \ {r} |-> store[q]]

-----------------------------------------------------------------------------
\* begin, and BEGIN TRANSACTION.
Begin(s) ==
  /\ pc[s] = "idle" /\ ~ open[s]
  /\ open' = [open EXCEPT ![s] = TRUE]
  /\ UNCHANGED <<held, data, auto, journal, undoing, pc, stmt>>

\* Mutant of End: _finish forgets release_all.
EndKeepingLocks(s) ==
  /\ open' = [open EXCEPT ![s] = FALSE] /\ auto' = [auto EXCEPT ![s] = FALSE]
  /\ journal' = [journal EXCEPT ![s] = <<>>] /\ undoing' = [undoing EXCEPT ![s] = 0]
  /\ stmt' = [stmt EXCEPT ![s] = NoStmt]
  /\ Goto(s, "idle")
  /\ UNCHANGED <<held, data>>

\* The transaction is finished: _finish releases every lock.
End(s) ==
  /\ Locks!DropAll(s)
  /\ open' = [open EXCEPT ![s] = FALSE] /\ auto' = [auto EXCEPT ![s] = FALSE]
  /\ journal' = [journal EXCEPT ![s] = <<>>] /\ undoing' = [undoing EXCEPT ![s] = 0]
  /\ stmt' = [stmt EXCEPT ![s] = NoStmt]
  /\ Goto(s, "idle")
  /\ UNCHANGED data

\* commit, and END TRANSACTION.
Commit(s) == pc[s] = "idle" /\ open[s] /\ End(s)

\* rollback: the journal is undone first.  twice: whether a failure of the undo
\* makes the caller roll back once more.
StartUndo(s, twice) ==
  /\ Goto(s, "undo")
  /\ undoing' = [undoing EXCEPT ![s] = Len(journal[s])]
  /\ auto' = [auto EXCEPT ![s] = twice]
  /\ UNCHANGED <<held, data, open, journal, stmt>>

Rollback(s) == pc[s] = "idle" /\ open[s] /\ StartUndo(s, FALSE)

\* The number of rows is bounded, counting those a rollback may bring back and
\* those about to be inserted.
Room == Cardinality(Live) + Cardinality({s \in Session : pc[s] = "insert"})
          + Cardinality(Gone) < MaxRows

\* execute_statement: a statement outside a transaction opens one of its own.
Execute(s, kind, v) ==
  /\ pc[s] = "idle" /\ Cardinality(orphans) <= MaxOrphans
  /\ kind = "select" => v = NoStmt.val
  /\ kind = "insert" => Room /\ Len(journal[s]) < MaxJournal
  /\ kind = "delete" => Len(journal[s]) + MaxRows <= MaxJournal
  /\ open' = [open EXCEPT ![s] = TRUE]
  /\ auto' = [auto EXCEPT ![s] = ~ open[s]]
  /\ stmt' = [stmt EXCEPT ![s] = [NoStmt EXCEPT !.kind = kind, !.val = v]]
  /\ Goto(s, IF kind = "insert" THEN "insert" ELSE "open")
  /\ UNCHANGED <<held, data, journal, undoing>>

-----------------------------------------------------------------------------
\* Mutant of InsertRow: insert locks the new record only, not the table.
InsertRowLockingRecord(s, r) ==
  /\ pc[s] = "insert"
  /\ Locks!Obtain(s, r, "X")
  /\ store' = With(r, stmt[s].val)
  /\ Note(s, "ins", r, stmt[s].val)
  /\ Collect(s, <<<<r, stmt[s].val>>>>)
  /\ Goto(s, "index")
  /\ UNCHANGED <<index, orphans, open, auto, undoing>>

\* _LockingFileOrganization.insert
InsertRow(s, r) ==
  /\ pc[s] = "insert"
  /\ Locks!Obtain(s, Table, "X")
  /\ store' = With(r, stmt[s].val)
  /\ Note(s, "ins", r, stmt[s].val)
  /\ Collect(s, <<<<r, stmt[s].val>>>>)
  /\ Goto(s, "index")
  /\ UNCHANGED <<index, orphans, open, auto, undoing>>

\* The index maintenance of _execute_insert, after the row is stored.
IndexRow(s) ==
  LET row == stmt[s].rows[1]
  IN /\ pc[s] = "index"
     /\ IF row[2] \in InsertFails
        THEN Goto(s, "failed") /\ UNCHANGED index
        ELSE Goto(s, "done") /\ index' = index \cup {<<row[2], row[1]>>}
     /\ UNCHANGED <<held, store, orphans, tx, stmt>>

\* _LockingFileOrganization.scan and lock_shared
OpenTable(s) ==
  /\ pc[s] = "open"
  /\ Locks!Obtain(s, Table, "S")
  /\ Goto(s, IF stmt[s].kind = "lookup" THEN "search" ELSE "scan")
  /\ UNCHANGED <<data, tx, stmt>>

\* The scan reads the next row of the file; DELETE collects the rows it matches.
ScanRow(s) ==
  /\ pc[s] = "scan"
  /\ LET ahead == {r \in Live : r > stmt[s].at}
     IN IF ahead = {}
        THEN /\ Goto(s, IF stmt[s].kind = "delete" THEN "remove" ELSE "done")
             /\ stmt' = [stmt EXCEPT ![s].at = 0]
        ELSE /\ \E r \in ahead :
                  /\ \A q \in ahead : r <= q
                  /\ stmt' = [stmt EXCEPT ![s].at = r,
                               ![s].rows = IF stmt[s].kind = "delete" /\ store[r] = stmt[s].val
                                           THEN Append(@, <<r, store[r]>>) ELSE @]
             /\ UNCHANGED pc
  /\ UNCHANGED <<held, data, tx>>

\* Mutant of RemoveRow: remove locks the record in S.
RemoveRowShared(s) ==
  /\ pc[s] = "remove"
  /\ stmt[s].rows # <<>>
  /\ LET r == Head(stmt[s].rows)[1]
     IN /\ Locks!Obtain(s, r, "S")
        /\ IF r \in Live
           THEN /\ store' = Without(r)
                /\ Note(s, "del", r, store[r])
                /\ Goto(s, "unindex")
                /\ UNCHANGED stmt
           ELSE /\ Collect(s, Tail(stmt[s].rows))
                /\ UNCHANGED <<store, journal, pc>>
  /\ UNCHANGED <<index, orphans, open, auto, undoing>>

\* _LockingFileOrganization.remove, for the next row DELETE has matched; a row
\* that is gone by then is skipped.
RemoveRow(s) ==
  /\ pc[s] = "remove"
  /\ stmt[s].rows # <<>>
  /\ LET r == Head(stmt[s].rows)[1]
     IN /\ Locks!Obtain(s, r, "X")
        /\ IF r \in Live
           THEN /\ store' = Without(r)
                /\ Note(s, "del", r, store[r])
                /\ Goto(s, "unindex")
                /\ UNCHANGED stmt
           ELSE /\ Collect(s, Tail(stmt[s].rows))
                /\ UNCHANGED <<store, journal, pc>>
  /\ UNCHANGED <<index, orphans, open, auto, undoing>>

\* The index maintenance of _execute_delete, after the row is removed.
UnindexRow(s) ==
  LET row == Head(stmt[s].rows)
  IN /\ pc[s] = "unindex"
     /\ IF row[2] \in RemoveFails
        THEN Goto(s, "failed") /\ UNCHANGED <<index, orphans, stmt>>
        ELSE /\ Goto(s, "remove")
             /\ index' = index \ {<<row[2], row[1]>>} /\ orphans' = orphans \ {<<row[2], row[1]>>}
             /\ Collect(s, Tail(stmt[s].rows))
     /\ UNCHANGED <<held, store, tx>>

\* The sequences that list a set.
Orders(S) == {f \in [1..Cardinality(S) -> S] : \A x \in S : \E i \in DOMAIN f : f[i] = x}

\* IndexLookup: the candidates of the index, in its order, fetched one at a time.
SearchIndex(s) ==
  /\ pc[s] = "search"
  /\ \E rows \in Orders({<<e[2], e[1]>> : e \in {f \in index : f[1] = stmt[s].val}}) :
       Collect(s, rows)
  /\ Goto(s, "fetch")
  /\ UNCHANGED <<held, data, tx>>

FetchRow(s) ==
  /\ pc[s] = "fetch"
  /\ stmt[s].rows # <<>>
  /\ Locks!Obtain(s, Head(stmt[s].rows)[1], "S")
  /\ Collect(s, Tail(stmt[s].rows))
  /\ UNCHANGED <<data, tx, pc>>

\* No row is left to remove or to fetch.
LastRow(s) ==
  /\ pc[s] \in {"remove", "fetch"}
  /\ stmt[s].rows = <<>>
  /\ Goto(s, "done")
  /\ UNCHANGED <<held, data, tx, stmt>>

-----------------------------------------------------------------------------
\* The lock the next step of s asks for.
Wanted(s) ==
  CASE pc[s] = "insert" -> <<Table, "X">>
    [] pc[s] = "open"   -> <<Table, "S">>
    [] pc[s] = "remove" /\ stmt[s].rows # <<>> -> <<Head(stmt[s].rows)[1], "X">>
    [] pc[s] = "fetch"  /\ stmt[s].rows # <<>> -> <<Head(stmt[s].rows)[1], "S">>
    [] OTHER -> <<>>

\* Mutant of LockFails: a refused acquire waits for ever.
LockNeverFails(s) == FALSE

\* acquire gives up on a lock it was refused: a deadlock or the timeout makes
\* _run roll the transaction back (and execute_statement again, should that
\* fail, when the transaction is the statement's own), any other error is just
\* raised.
LockFails(s) ==
  /\ Wanted(s) # <<>>
  /\ ~ Locks!CanHold(s, Wanted(s)[1], Wanted(s)[2])
  /\ \/ StartUndo(s, auto[s])
     \/ Goto(s, "failed") /\ UNCHANGED <<held, data, tx, stmt>>

\* The statement succeeded: its own transaction commits with it.
Succeed(s) ==
  /\ pc[s] = "done"
  /\ IF auto[s] THEN End(s)
     ELSE /\ stmt' = [stmt EXCEPT ![s] = NoStmt]
          /\ Goto(s, "idle")
          /\ UNCHANGED <<held, data, tx>>

\* The statement raised: its own transaction is rolled back; an explicit one
\* stays as the statement left it.
Fail(s) ==
  /\ pc[s] = "failed"
  /\ IF auto[s] THEN StartUndo(s, FALSE)
     ELSE /\ stmt' = [stmt EXCEPT ![s] = NoStmt]
          /\ Goto(s, "idle")
          /\ UNCHANGED <<held, data, tx>>

-----------------------------------------------------------------------------
\* _apply_undo, one journal entry per step, on the bare catalog: no locks.
Undone(s) == undoing' = [undoing EXCEPT ![s] = @ - 1]

\* The undo raised: the whole journal is undone again, or rollback is over and
\* the transaction is not.
UndoRaises(s) ==
  /\ auto' = [auto EXCEPT ![s] = FALSE]
  /\ undoing' = [undoing EXCEPT ![s] = IF auto[s] THEN Len(journal[s]) ELSE 0]
  /\ stmt' = [stmt EXCEPT ![s] = NoStmt]
  /\ Goto(s, IF auto[s] THEN "undo" ELSE "idle")
  /\ UNCHANGED <<held, open, journal>>

UndoInsert(s) ==
  /\ pc[s] = "undo" /\ undoing[s] > 0
  /\ LET c == journal[s][undoing[s]]
     IN /\ c.kind = "ins"
        /\ IF c.rid \in Live /\ c.val \in RemoveFails
           THEN UndoRaises(s) /\ UNCHANGED data
           ELSE /\ index' = IF c.rid \in Live THEN index \ {<<c.val, c.rid>>} ELSE index
                /\ store' = Without(c.rid)
                /\ Undone(s)
                /\ UNCHANGED <<held, orphans, open, auto, journal, pc, stmt>>

\* Mutant of UndoRemove: the row comes back without its index entry.
UndoRemoveUnindexed(s, r) ==
  /\ pc[s] = "undo" /\ undoing[s] > 0
  /\ LET c == journal[s][undoing[s]]
     IN /\ c.kind = "del" /\ c.rid \notin Inserted(s)
        /\ store' = With(r, c.val)
        /\ Undone(s)
  /\ UNCHANGED <<held, index, orphans, open, auto, journal, pc, stmt>>

\* A deleted row comes back under a new record id, unless the transaction had
\* inserted it itself.  No lock keeps other sessions from it,
UndoRemove(s, r) ==
  /\ pc[s] = "undo" /\ undoing[s] > 0
  /\ LET c == journal[s][undoing[s]]
     IN /\ c.kind = "del" /\ c.rid \notin Inserted(s)
        /\ store' = With(r, c.val)
        /\ Collect(s, <<<<r, c.val>>>>)
  /\ Undone(s)
  /\ Goto(s, "reindex")
  /\ UNCHANGED <<held, index, orphans, open, auto, journal>>

\* and _index_row indexes it as it was, though one of them may have deleted it.
IndexRestored(s) ==
  LET row == stmt[s].rows[1]
  IN /\ pc[s] = "reindex"
     /\ IF row[2] \in InsertFails
        THEN UndoRaises(s) /\ UNCHANGED data
        ELSE /\ index' = index \cup {<<row[2], row[1]>>}
             /\ orphans' = IF row[1] \in Live THEN orphans ELSE orphans \cup {<<row[2], row[1]>>}
             /\ stmt' = [stmt EXCEPT ![s] = NoStmt]
             /\ Goto(s, "undo")
             /\ UNCHANGED <<held, store, tx>>

\* Mutant of UndoOwnRemove: a row the transaction had inserted itself is put
\* back at its place too.
UndoOwnRemoveRestoring(s) ==
  /\ pc[s] = "undo" /\ undoing[s] > 0
  /\ LET c == journal[s][undoing[s]]
     IN /\ c.kind = "del" /\ c.rid \in Inserted(s)
        /\ \E r \in Fresh : /\ store' = With(r, c.val)
                            /\ index' = index \cup {<<c.val, r>>}
  /\ Undone(s)
  /\ UNCHANGED <<held, orphans, open, auto, journal, pc, stmt>>

UndoOwnRemove(s) ==
  /\ pc[s] = "undo" /\ undoing[s] > 0
  /\ LET c == journal[s][undoing[s]] IN c.kind = "del" /\ c.rid \in Inserted(s)
  /\ Undone(s)
  /\ UNCHANGED <<held, data, open, auto, journal, pc, stmt>>

\* The journal is undone: the transaction is aborted.
FinishRollback(s) == pc[s] = "undo" /\ undoing[s] = 0 /\ End(s)

\* close of a session, which its connection does when it ends, transaction or
\* not: it closes the lock manager all sessions share.
Close(s) ==
  /\ s \in Closers
  /\ pc[s] = "idle"
  /\ Locks!Reset
  /\ Goto(s, "closed")
  /\ UNCHANGED <<data, tx, stmt>>

-----------------------------------------------------------------------------
\* What the thread of s does by itself once it runs a statement or a rollback.
Step(s) ==
  \/ \E r \in Fresh : InsertRow(s, r)
  \/ IndexRow(s) \/ OpenTable(s) \/ ScanRow(s) \/ RemoveRow(s) \/ UnindexRow(s)
  \/ SearchIndex(s) \/ FetchRow(s) \/ LastRow(s) \/ LockFails(s) \/ Succeed(s) \/ Fail(s)
  \/ UndoInsert(s) \/ (\E r \in Fresh : UndoRemove(s, r)) \/ IndexRestored(s)
  \/ UndoOwnRemove(s) \/ FinishRollback(s)

\* What the client asks for.
Ask(s) ==
  \/ Begin(s) \/ Commit(s) \/ Rollback(s) \/ Close(s)
  \/ \E kind \in Kinds, v \in Val : Execute(s, kind, v)

Next == \E s \in Session : Step(s) \/ Ask(s)

Spec == Init /\ [][Next]_vars

\* A thread that runs a statement is not suspended for ever, and an acquire
\* that stays refused times out.
FairSpec == Spec /\ \A s \in Session : WF_vars(Step(s))

-----------------------------------------------------------------------------
\* The rows an open transaction has inserted and the deletions that stand, with
\* value v; the committed rows, counting those that open transactions have
\* deleted; and the net effect of each open transaction.
OwnRows(s) ==
  Live \cap {Pending(s)[i].rid : i \in {j \in DOMAIN Pending(s) : Pending(s)[j].kind = "ins"}}
Mine(s, v)  == {r \in OwnRows(s) : store[r] = v}
Taken(s, v) == {i \in Deletions(s) : Pending(s)[i].val = v}
Untouched(v) == {r \in Live \ UNION {OwnRows(s) : s \in Session} : store[r] = v}
Missing(v)   == {c \in Gone : Pending(c[1])[c[2]].val = v}

CommittedRows == [v \in Val |-> Cardinality(Untouched(v)) + Cardinality(Missing(v))]
NetEffect ==
  [s \in Session |-> [v \in Val |-> Cardinality(Mine(s, v)) - Cardinality(Taken(s, v))]]

RollingBack == [s \in Session |-> Undoing(s) \/ (pc[s] = "failed" /\ auto[s])]

Atomic == INSTANCE AtomicTable
            WITH committed <- CommittedRows, delta <- NetEffect, aborting <- RollingBack

\* Transactions are atomic: INSERT, DELETE and the undo of the journal, row by
\* row and interleaved with the other sessions, change the committed rows only
\* by whole transactions.
AtomicityHolds == Atomic!TableSpec

\* A session that scans the table sees no row of another session's open
\* transaction: the table locks of scan and insert keep them apart.
NoDirtyInsertRead ==
  \A s, o \in Session : s # o /\ pc[s] \in {"scan", "search"} => OwnRows(o) = {}

\* Strictness: what an open transaction has changed stays locked in X.
WritesLocked ==
  \A s \in Session : \A i \in DOMAIN journal[s] :
    held[IF journal[s][i].kind = "ins" THEN Table ELSE journal[s][i].rid][s] = "X"

\* The state is of its type, and a session without a transaction holds no lock:
\* each of the ways a transaction can end releases them all.
NoLockLeak ==
  /\ TypeOK
  /\ \A s \in Session : ~ open[s] => \A r \in Resource : held[r][s] = "none"

\* When no session is between the storage and the index half of a change, the
\* index has the entries of the rows, and those that an undo made for a row that
\* was deleted between its return and its indexing: no other entry is ever left.
IndexMatchesStore ==
  (\A s \in Session : pc[s] \notin {"index", "unindex", "failed", "reindex"}) =>
    index = {<<store[r], r>> : r \in Live} \cup orphans

\* Locks are kept until the transaction ends, whatever other sessions do.
LocksKept ==
  [][\A s \in Session, r \in Resource :
       held[r][s] # "none" /\ held'[r][s] = "none" => ~ open'[s]]_vars

\* Every statement and every rollback comes to its end.
StatementEnds == \A s \in Session : pc[s] \notin {"idle", "closed"} ~> pc[s] = "idle"
=============================================================================
