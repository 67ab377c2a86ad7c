---------------------------- MODULE Gestor_proofs ----------------------------
(***************************************************************************)
(* Proofs about the server, for any finite set of connections and any      *)
(* limit on them: no slot is lost and none is made, connections that have  *)
(* ended hold no lock, and the files are closed before the process exits.  *)
(***************************************************************************)
EXTENDS Gestor, FiniteSetTheorems, SequenceTheorems, TLAPS

\* The workers that have been started and not ended.
Serving == {c \in Conn : worker[c] \notin {"none", "ended"}}

\* Shutdown is entered by the handler and by the finally block, no third time,
\* and the main thread has a connection in its hands between two accepts.
MainInv ==
  /\ main \in Loop => round = 0
  /\ main \in {"joining", "flush"} => round \in {1, 2}
  /\ main \in {"slot", "create", "start"} => taken \in Conn

\* A connection is in one place: queued, in the hands of the main thread, or in
\* the list, and only those in the list have been started.
PlaceInv ==
  /\ \A i, j \in DOMAIN backlog : backlog[i] = backlog[j] => i = j
  /\ taken \notin Queued
  /\ Queued \cap Listed = {}
  /\ main \in {"slot", "create"} => taken \notin Listed
  /\ main = "start" => taken \in Listed /\ worker[taken] = "none"
  /\ \A c \in Conn : worker[c] # "none" => c \in Listed

\* Each slot is free, or taken by a worker, or taken for the next worker.  A
\* signal may lose the last.
SlotInv ==
  /\ main \in {"accept", "slot"} => slots + Cardinality(Serving) = MaxConnections
  /\ main \in {"create", "start"} => slots + Cardinality(Serving) + 1 = MaxConnections
  /\ slots + Cardinality(Serving) <= MaxConnections

ServerInv == TypeOK /\ MainInv /\ PlaceInv /\ SlotInv

-----------------------------------------------------------------------------
LEMMA ServingFinite == IsFiniteSet(Serving) /\ Cardinality(Serving) \in Nat
BY ConstantsAssumption, FS_Subset, FS_CardinalityType DEF Serving

\* What a queue of connections holds after an append and without its head.
LEMMA Appended ==
  ASSUME NEW q \in Seq(Conn), NEW c \in Conn
  PROVE  /\ Append(q, c) \in Seq(Conn)
         /\ DOMAIN Append(q, c) = 1 .. Len(q) + 1
         /\ {Append(q, c)[i] : i \in DOMAIN Append(q, c)} = {q[i] : i \in DOMAIN q} \cup {c}
<1>1. /\ Append(q, c) \in Seq(Conn) /\ Len(Append(q, c)) = Len(q) + 1
      /\ Append(q, c)[Len(q) + 1] = c
      /\ \A i \in 1 .. Len(q) : Append(q, c)[i] = q[i]
  BY AppendProperties
<1>2. DOMAIN q = 1 .. Len(q) /\ DOMAIN Append(q, c) = 1 .. Len(q) + 1 /\ Len(q) \in Nat
  BY <1>1, LenProperties
<1> QED  BY <1>1, <1>2

LEMMA Beheaded ==
  ASSUME NEW q \in Seq(Conn), q # <<>>
  PROVE  /\ Head(q) \in Conn /\ Tail(q) \in Seq(Conn)
         /\ Head(q) = q[1] /\ 1 \in DOMAIN q
         /\ \A i \in DOMAIN Tail(q) : i + 1 \in DOMAIN q /\ Tail(q)[i] = q[i + 1] /\ i \in Nat \ {0}
<1>1. /\ Tail(q) \in Seq(Conn) /\ Len(Tail(q)) = Len(q) - 1
      /\ \A i \in 1 .. Len(Tail(q)) : Tail(q)[i] = q[i + 1]
      /\ Head(q) \in Conn /\ Head(q) = q[1] /\ Len(q) \in Nat /\ Len(q) # 0
  BY HeadTailProperties, EmptySeq, LenProperties
<1>2. DOMAIN q = 1 .. Len(q) /\ DOMAIN Tail(q) = 1 .. Len(Tail(q))
  BY <1>1, LenProperties
<1> QED  BY <1>1, <1>2

\* A worker that moves between two places of its work still has its slot; one
\* that starts takes the place of the main thread, one that ends gives it up.
LEMMA ServingStep ==
  ASSUME TypeOK, NEW c \in Conn, NEW label, worker' = [worker EXCEPT ![c] = label]
  PROVE  Cardinality(Serving') = Cardinality(Serving)
           + (IF label \notin {"none", "ended"} THEN 1 ELSE 0)
           - (IF worker[c] \notin {"none", "ended"} THEN 1 ELSE 0)
<1>1. IsFiniteSet(Serving) /\ Cardinality(Serving) \in Nat
  BY ServingFinite
<1>2. IF label \notin {"none", "ended"} THEN Serving' = Serving \cup {c} ELSE Serving' = Serving \ {c}
  BY DEF TypeOK, Serving
<1>3. c \in Serving <=> worker[c] \notin {"none", "ended"}
  BY DEF Serving
<1>4. CASE label \notin {"none", "ended"}
  BY <1>1, <1>2, <1>3, <1>4, FS_AddElement
<1>5. CASE label \in {"none", "ended"}
  BY <1>1, <1>2, <1>3, <1>5, FS_RemoveElement
<1> QED  BY <1>4, <1>5

LEMMA ServerInit == Init => ServerInv
<1> SUFFICES ASSUME Init  PROVE ServerInv
  OBVIOUS
<1>1. backlog \in Seq(Conn) /\ threads \in Seq(Conn) /\ Len(threads) = 0
      /\ DOMAIN backlog = {} /\ DOMAIN threads = {}
  BY EmptySeq DEF Init
<1>2. TypeOK
  BY <1>1, ConstantsAssumption DEF Init, TypeOK, Loop
<1>3. MainInv
  BY DEF Init, MainInv
<1>4. PlaceInv
  BY <1>1 DEF Init, PlaceInv, Queued, Listed
<1>5. Serving = {}
  BY DEF Init, Serving
<1>6. SlotInv
  BY <1>5, FS_EmptySet, ConstantsAssumption DEF Init, SlotInv
<1> QED  BY <1>2, <1>3, <1>4, <1>6 DEF ServerInv

\* What Shutdown leaves behind, and either end of Unwind.
LEMMA UnwindStep ==
  ASSUME ServerInv, main \in {"joining", "flush"}, Unwind,
         UNCHANGED <<taken, threads, slots, worker, active, locked, prepared, left>>,
         catalog' \in BOOLEAN
  PROVE  ServerInv'
<1> <<>> \in Seq(Conn) /\ Len(threads) \in Nat /\ 0 \in 0 .. Len(threads)
  BY EmptySeq, LenProperties DEF ServerInv, TypeOK
<1>1. backlog' \in Seq(Conn) /\ round' \in 0 .. 2 /\ joined' \in 0 .. Len(threads)
      /\ (main' = "exit" \/ (main' = "joining" /\ round' = 2))
      /\ (backlog' = backlog \/ backlog' = <<>>)
  <2>1. CASE round = 1
    BY <2>1 DEF Unwind, Shutdown
  <2>2. CASE round # 1
    BY <2>2 DEF ServerInv, TypeOK, MainInv, Unwind
  <2> QED  BY <2>1, <2>2
<1>2. TypeOK' /\ MainInv'
  BY <1>1 DEF ServerInv, TypeOK, MainInv, Loop
<1>3. PlaceInv'
  BY <1>1 DEF ServerInv, PlaceInv, Queued, Listed
<1>4. SlotInv'
  BY <1>1 DEF ServerInv, SlotInv, Serving
<1> QED  BY <1>2, <1>3, <1>4 DEF ServerInv

LEMMA MainStep ==
  ASSUME ServerInv, Serve \/ Signal \/ Stop
  PROVE  ServerInv'
<1> USE DEF ServerInv
<1>1. CASE Accept
  <2>1. /\ Head(backlog) \in Conn /\ Tail(backlog) \in Seq(Conn)
        /\ Head(backlog) = backlog[1] /\ 1 \in DOMAIN backlog
        /\ \A i \in DOMAIN Tail(backlog) :
             i + 1 \in DOMAIN backlog /\ Tail(backlog)[i] = backlog[i + 1] /\ i \in Nat \ {0}
    BY <1>1, Beheaded DEF TypeOK, Accept
  <2>2. TypeOK' /\ MainInv'
    BY <1>1, <2>1 DEF Accept, TypeOK, MainInv, Loop, work
  <2>3. Queued' \subseteq Queued /\ Head(backlog) \in Queued /\ Head(backlog) \notin Queued'
    BY <1>1, <2>1 DEF Accept, PlaceInv, Queued
  <2>4. \A i, j \in DOMAIN backlog' : backlog'[i] = backlog'[j] => i = j
    BY <1>1, <2>1 DEF Accept, PlaceInv
  <2>5. PlaceInv'
    BY <1>1, <2>3, <2>4 DEF Accept, PlaceInv, Listed
  <2>6. SlotInv'
    BY <1>1 DEF Accept, SlotInv, Serving
  <2> QED  BY <2>2, <2>5, <2>6
<1>2. CASE AcquireSlot
  <2>1. TypeOK' /\ MainInv'
    BY <1>2, ConstantsAssumption DEF AcquireSlot, TypeOK, MainInv, Loop, work
  <2>2. PlaceInv'
    BY <1>2 DEF AcquireSlot, PlaceInv, Queued, Listed
  <2>3. SlotInv'
    BY <1>2, ServingFinite, ConstantsAssumption DEF AcquireSlot, SlotInv, Serving, TypeOK
  <2> QED  BY <2>1, <2>2, <2>3
<1>3. CASE CreateWorker
  <2>1. taken \in Conn /\ worker[taken] = "none"
    BY <1>3 DEF CreateWorker, MainInv, PlaceInv
  <2>2. threads' \in Seq(Conn) /\ Listed' = Listed \cup {taken} /\ Len(threads') = Len(threads) + 1
    <3>1. threads \in Seq(Conn) /\ threads' = Append(threads, taken)
      BY <1>3 DEF CreateWorker, TypeOK
    <3> QED  BY <2>1, <3>1, Appended, AppendProperties DEF Listed
  <2>3. joined' \in 0 .. Len(threads')
    BY <1>3, <2>2, LenProperties DEF CreateWorker, TypeOK
  <2>4. TypeOK' /\ MainInv'
    BY <1>3, <2>2, <2>3 DEF CreateWorker, TypeOK, MainInv, Loop, work
  <2>5. PlaceInv'
    BY <1>3, <2>1, <2>2 DEF CreateWorker, PlaceInv, Queued
  <2>6. SlotInv'
    BY <1>3 DEF CreateWorker, SlotInv, Serving
  <2> QED  BY <2>4, <2>5, <2>6
<1>4. CASE StartWorker
  <2>1. taken \in Conn /\ worker[taken] = "none" /\ taken \in Listed
    BY <1>4 DEF StartWorker, MainInv, PlaceInv
  <2>2. TypeOK' /\ MainInv'
    BY <1>4, <2>1 DEF StartWorker, TypeOK, MainInv, Loop, work
  <2>3. \A i \in DOMAIN backlog : backlog[i] \in Conn
    BY LenProperties DEF TypeOK
  <2>4. PlaceInv'
    <3>1. worker' = [worker EXCEPT ![taken] = "receive"] /\ taken' = NoConn /\ main' = "accept"
          /\ UNCHANGED <<backlog, threads>>
      BY <1>4 DEF StartWorker
    <3>2. taken' \notin Queued'
      BY <2>3, <3>1, ConstantsAssumption DEF Queued
    <3>3. \A c \in Conn : worker'[c] # "none" => c \in Listed'
      BY <2>1, <3>1 DEF PlaceInv, TypeOK, Listed
    <3> QED  BY <3>1, <3>2, <3>3 DEF PlaceInv, Queued, Listed
  <2>5. Cardinality(Serving') = Cardinality(Serving) + 1
    <3>1. PICK c \in Conn : c = taken
      BY <2>1
    <3>2. worker' = [worker EXCEPT ![c] = "receive"]
      BY <1>4, <3>1 DEF StartWorker
    <3>3. Cardinality(Serving') = Cardinality(Serving)
             + (IF "receive" \notin {"none", "ended"} THEN 1 ELSE 0)
             - (IF worker[c] \notin {"none", "ended"} THEN 1 ELSE 0)
      BY <3>2, ServingStep
    <3> QED  BY <2>1, <3>1, <3>3, ServingFinite
  <2>6. main = "start" /\ main' = "accept" /\ slots' = slots /\ slots \in Nat
    BY <1>4 DEF StartWorker, TypeOK
  <2>7. SlotInv'
    BY <2>5, <2>6, ServingFinite DEF SlotInv
  <2> QED  BY <2>2, <2>4, <2>7
<1>5. CASE Signal
  <2>1. backlog' = <<>> /\ backlog' \in Seq(Conn) /\ DOMAIN backlog' = {} /\ joined' \in 0 .. Len(threads)
    BY <1>5, EmptySeq, LenProperties DEF Signal, Shutdown, TypeOK
  <2>2. TypeOK' /\ MainInv'
    BY <1>5, <2>1 DEF Signal, Shutdown, TypeOK, MainInv, Loop, work
  <2>3. PlaceInv'
    BY <1>5, <2>1 DEF Signal, Shutdown, PlaceInv, Queued, Listed
  <2>4. SlotInv'
    BY <1>5 DEF Signal, Shutdown, SlotInv, Serving
  <2> QED  BY <2>2, <2>3, <2>4
<1>6. CASE Join
  <2>1. joined' \in 0 .. Len(threads)
    BY <1>6, LenProperties DEF Join, TypeOK
  <2>2. TypeOK' /\ MainInv'
    BY <1>6, <2>1 DEF Join, TypeOK, MainInv, Loop, work
  <2>3. PlaceInv' /\ SlotInv'
    BY <1>6 DEF Join, PlaceInv, SlotInv, Queued, Listed, Serving
  <2> QED  BY <2>2, <2>3
<1>7. CASE JoinRaises
  BY <1>7, UnwindStep DEF JoinRaises, TypeOK, work
<1>8. CASE JoinedAll
  <2>1. TypeOK' /\ MainInv'
    BY <1>8 DEF JoinedAll, TypeOK, MainInv, Loop, work
  <2>2. PlaceInv' /\ SlotInv'
    BY <1>8 DEF JoinedAll, PlaceInv, SlotInv, Queued, Listed, Serving
  <2> QED  BY <2>1, <2>2
<1>9. CASE CloseCatalog
  BY <1>9, UnwindStep DEF CloseCatalog, work
<1> QED  BY <1>1, <1>2, <1>3, <1>4, <1>5, <1>6, <1>7, <1>8, <1>9 DEF Serve, Stop

\* What every step of a worker does: it moves, and gives its slot up when and
\* only when it ends.
LEMMA WorkMoves ==
  ASSUME ServerInv, NEW c \in Conn, Work(c)
  PROVE  /\ worker[c] \notin {"none", "ended"}
         /\ \E label \in {"receive", "handle", "close", "hangup", "release", "ended"} :
              /\ worker' = [worker EXCEPT ![c] = label]
              /\ slots' = IF label = "ended" THEN slots + 1 ELSE slots
         /\ UNCHANGED <<main, taken, round, joined, backlog, threads, catalog>>
         /\ active' \subseteq Conn /\ locked' \subseteq Conn
         /\ prepared' \in [Conn -> SUBSET Name] /\ left' \subseteq Conn
<1> USE ConstantsAssumption DEF ServerInv, TypeOK, At, Goto, server, work
<1>1. CASE Receive(c)
  BY <1>1 DEF Receive
<1>2. CASE ReceiveBadFrame(c)
  BY <1>2 DEF ReceiveBadFrame
<1>3. CASE ReceiveNothing(c)
  BY <1>3 DEF ReceiveNothing
<1>4. CASE Answer(c)
  BY <1>4 DEF Answer, Respond
<1>5. CASE Begin(c)
  BY <1>5 DEF Begin, Respond
<1>6. CASE Finish(c)
  BY <1>6 DEF Finish, Respond
<1>7. CASE Query(c)
  BY <1>7 DEF Query, Respond
<1>8. CASE Raise(c)
  BY <1>8 DEF Raise
<1>9. ASSUME NEW n \in Name, Prepare(c, n) \/ Deallocate(c, n)
      PROVE  /\ Respond(c) /\ UNCHANGED <<active, locked>>
             /\ prepared' \in [Conn -> SUBSET Name]
  <2>1. prepared[c] \cup {n} \in SUBSET Name /\ prepared[c] \ {n} \in SUBSET Name
    BY DEF TypeOK
  <2>2. \E set \in SUBSET Name : prepared' = [prepared EXCEPT ![c] = set]
    BY <1>9, <2>1 DEF Prepare, Deallocate
  <2>3. Respond(c) /\ UNCHANGED <<active, locked>>
    BY <1>9 DEF Prepare, Deallocate
  <2> QED  BY <2>2, <2>3 DEF TypeOK
<1>10. CASE \E n \in Name : Prepare(c, n) \/ Deallocate(c, n)
  BY <1>9, <1>10 DEF Respond
<1>11. CASE CloseSession(c)
  BY <1>11 DEF CloseSession
<1>12. CASE HangUp(c)
  BY <1>12 DEF HangUp
<1>13. CASE Release(c)
  BY <1>13 DEF Release
<1> QED  BY <1>1, <1>2, <1>3, <1>4, <1>5, <1>6, <1>7, <1>8, <1>10, <1>11, <1>12, <1>13 DEF Work

LEMMA WorkStep ==
  ASSUME ServerInv, NEW c \in Conn, Work(c)
  PROVE  ServerInv'
<1> USE DEF ServerInv
<1>1. PICK label \in {"receive", "handle", "close", "hangup", "release", "ended"} :
        /\ worker' = [worker EXCEPT ![c] = label]
        /\ slots' = IF label = "ended" THEN slots + 1 ELSE slots
  BY WorkMoves
<1>2. /\ worker[c] \notin {"none", "ended"}
      /\ UNCHANGED <<main, taken, round, joined, backlog, threads, catalog>>
      /\ active' \subseteq Conn /\ locked' \subseteq Conn
      /\ prepared' \in [Conn -> SUBSET Name] /\ left' \subseteq Conn
  BY WorkMoves
<1>3. Cardinality(Serving') = Cardinality(Serving)
        + (IF label \notin {"none", "ended"} THEN 1 ELSE 0)
        - (IF worker[c] \notin {"none", "ended"} THEN 1 ELSE 0)
  BY <1>1, ServingStep
<1>4. slots \in Nat /\ Cardinality(Serving) \in Nat /\ MaxConnections \in Nat
  BY ServingFinite, ConstantsAssumption DEF TypeOK
<1>5. SlotInv' /\ slots' + Cardinality(Serving') = slots + Cardinality(Serving) /\ slots' \in Nat
  BY <1>1, <1>2, <1>3, <1>4 DEF SlotInv
<1>6. Cardinality(Serving') \in Nat
  <2>1. Serving' \in SUBSET Conn
    BY DEF Serving
  <2> QED  BY <2>1, ConstantsAssumption, FS_Subset, FS_CardinalityType
<1>7. slots' \in 0 .. MaxConnections
  BY <1>4, <1>5, <1>6 DEF SlotInv
<1>8. TypeOK'
  BY <1>1, <1>2, <1>7 DEF TypeOK
<1>9. MainInv'
  BY <1>2 DEF MainInv
<1>10. PlaceInv'
  <2>1. main = "start" => taken # c
    BY <1>2 DEF PlaceInv
  <2>2. worker' \in [Conn -> {worker'[d] : d \in Conn}] /\ \A d \in Conn : d # c => worker'[d] = worker[d]
    BY <1>1 DEF TypeOK
  <2> QED  BY <1>1, <1>2, <2>1, <2>2 DEF PlaceInv, MainInv, Queued, Listed
<1> QED  BY <1>5, <1>8, <1>9, <1>10

LEMMA ServerStep == ServerInv /\ [Next]_vars => ServerInv'
<1> SUFFICES ASSUME ServerInv, [Next]_vars  PROVE ServerInv'
  OBVIOUS
<1> USE DEF ServerInv
<1>1. ASSUME NEW c \in Conn, Connect(c)
      PROVE  ServerInv'
  <2>1. backlog \in Seq(Conn) /\ backlog' = Append(backlog, c)
    BY <1>1 DEF Connect, TypeOK
  <2>2. backlog' \in Seq(Conn) /\ Queued' = Queued \cup {c}
    BY <2>1, Appended DEF Queued
  <2>3. TypeOK' /\ MainInv'
    BY <1>1, <2>2 DEF Connect, TypeOK, MainInv, work
  <2>4. /\ DOMAIN backlog = 1 .. Len(backlog) /\ DOMAIN backlog' = 1 .. Len(backlog) + 1
        /\ Len(backlog) \in Nat /\ backlog'[Len(backlog) + 1] = c
        /\ \A i \in 1 .. Len(backlog) : backlog'[i] = backlog[i]
    BY <2>1, Appended, AppendProperties, LenProperties
  <2>5. \A i \in 1 .. Len(backlog) : backlog[i] # c
    BY <1>1, <2>4 DEF Connect, Queued
  <2>6. \A i, j \in DOMAIN backlog' : backlog'[i] = backlog'[j] => i = j
    BY <2>4, <2>5 DEF PlaceInv
  <2>7. PlaceInv'
    BY <1>1, <2>2, <2>6 DEF Connect, PlaceInv, Listed
  <2>8. SlotInv'
    BY <1>1 DEF Connect, SlotInv, Serving
  <2> QED  BY <2>3, <2>7, <2>8
<1>2. ASSUME NEW c \in Conn, Leave(c)
      PROVE  ServerInv'
  <2>1. TypeOK' /\ MainInv'
    BY <1>2 DEF Leave, TypeOK, MainInv, server, work
  <2>2. PlaceInv' /\ SlotInv'
    BY <1>2 DEF Leave, PlaceInv, SlotInv, Queued, Listed, Serving, server
  <2> QED  BY <2>1, <2>2
<1>3. CASE UNCHANGED vars
  <2>1. TypeOK' /\ MainInv'
    BY <1>3 DEF vars, server, work, TypeOK, MainInv
  <2>2. PlaceInv' /\ SlotInv'
    BY <1>3 DEF vars, server, work, PlaceInv, SlotInv, Queued, Listed, Serving
  <2> QED  BY <2>1, <2>2
<1> QED  BY <1>1, <1>2, <1>3, WorkStep, MainStep DEF Next

\* The server keeps its state in bounds, a connection in one place, and count
\* of its slots.
THEOREM ServerInvariant == Spec => []ServerInv
BY ServerInit, ServerStep, PTL DEF Spec

-----------------------------------------------------------------------------
\* The worker about to be started is not yet serving: it holds a slot of its own.
LEMMA BusySize ==
  ASSUME ServerInv
  PROVE  Cardinality(Busy) = Cardinality(Serving)
           + (IF main \in {"create", "start"} THEN 1 ELSE 0)
<1>1. CASE main \in {"create", "start"}
  <2>1. taken \in Conn /\ worker[taken] = "none"
    BY <1>1 DEF ServerInv, MainInv, PlaceInv
  <2>2. taken \notin Serving /\ Busy = Serving \cup {taken}
    BY <1>1, <2>1 DEF Serving, Busy
  <2> QED  BY <1>1, <2>2, ServingFinite, FS_AddElement
<1>2. CASE main \notin {"create", "start"}
  <2>1. Busy = Serving
    BY <1>2 DEF Serving, Busy
  <2> QED  BY <1>2, <2>1, ServingFinite
<1> QED  BY <1>1, <1>2

\* No way a connection can end loses its slot, and none gives it back twice: as
\* long as the server accepts, the free slots and the connections in service
\* make up MAX_CONNECTIONS.
THEOREM SlotsKept == Spec => []SlotsConserved
<1>1. ServerInv => SlotsConserved
  <2> SUFFICES ASSUME ServerInv  PROVE SlotsConserved
    OBVIOUS
  <2>1. slots \in Nat /\ Cardinality(Serving) \in Nat
    BY ServingFinite DEF ServerInv, TypeOK
  <2>2. main \in Loop => slots + Cardinality(Busy) = MaxConnections
    BY <2>1, BusySize DEF ServerInv, SlotInv, Loop
  <2> QED  BY <2>2 DEF ServerInv, SlotsConserved
<1> QED  BY <1>1, ServerInvariant, PTL

-----------------------------------------------------------------------------
\* A worker takes locks only while it handles a request, and drops them (with
\* those of every other) when it closes its session.
LEMMA LocksStep == TypeOK /\ EndedHoldsNothing /\ [Next]_vars => EndedHoldsNothing'
<1> SUFFICES ASSUME TypeOK, EndedHoldsNothing, [Next]_vars,
                    NEW o \in locked'
             PROVE  worker'[o] \notin {"hangup", "release", "ended"}
  BY DEF EndedHoldsNothing
<1>1. CASE \E c \in Conn : Connect(c) \/ Leave(c)
  BY <1>1 DEF Connect, Leave, EndedHoldsNothing, work
<1>2. CASE Serve
  <2>1. locked' = locked
    BY <1>2 DEF Serve, Accept, AcquireSlot, CreateWorker, StartWorker, work
  <2>2. worker' = worker \/ worker' = [worker EXCEPT ![taken] = "receive"]
    BY <1>2 DEF Serve, Accept, AcquireSlot, CreateWorker, StartWorker
  <2> QED  BY <2>1, <2>2 DEF EndedHoldsNothing, TypeOK
<1>3. CASE Signal \/ Stop \/ UNCHANGED vars
  <2>1. UNCHANGED <<worker, locked>>
    BY <1>3 DEF Signal, Stop, Join, JoinRaises, JoinedAll, CloseCatalog, vars, work
  <2> QED  BY <2>1 DEF EndedHoldsNothing
<1>4. ASSUME NEW c \in Conn, Work(c)
      PROVE  worker'[o] \notin {"hangup", "release", "ended"}
  <2> USE DEF At, Goto, TypeOK, EndedHoldsNothing
  <2>1. CASE Receive(c) \/ ReceiveBadFrame(c) \/ ReceiveNothing(c)
    BY <2>1 DEF Receive, ReceiveBadFrame, ReceiveNothing, work
  <2>2. CASE \/ Answer(c) \/ Begin(c) \/ Finish(c) \/ Query(c) \/ Raise(c)
             \/ \E n \in Name : Prepare(c, n) \/ Deallocate(c, n)
    <3>1. worker[c] = "handle" /\ locked' \subseteq locked \cup {c}
      BY <2>2 DEF Answer, Begin, Finish, Query, Raise, Prepare, Deallocate, Respond, work
    <3>2. \E label \in {"receive", "close"} : worker' = [worker EXCEPT ![c] = label]
      BY <2>2 DEF Answer, Begin, Finish, Query, Raise, Prepare, Deallocate, Respond
    <3> QED  BY <3>1, <3>2
  <2>3. CASE CloseSession(c)
    BY <2>3 DEF CloseSession
  <2>4. CASE HangUp(c) \/ Release(c)
    <3>1. worker[c] \in {"hangup", "release"} /\ locked' = locked
      BY <2>4 DEF HangUp, Release, work
    <3>2. \A d \in Conn : d # c => worker'[d] = worker[d]
      BY <2>4 DEF HangUp, Release
    <3> QED  BY <3>1, <3>2
  <2> QED  BY <1>4, <2>1, <2>2, <2>3, <2>4 DEF Work
<1> QED  BY <1>1, <1>2, <1>3, <1>4 DEF Next

\* Whatever a connection was doing when it ended, no lock of it is left.
THEOREM EndedKeepsNothing == Spec => []EndedHoldsNothing
<1>1. Init => EndedHoldsNothing
  BY DEF Init, EndedHoldsNothing
<1>2. ServerInv => TypeOK
  BY DEF ServerInv
<1> QED  BY <1>1, <1>2, LocksStep, ServerInvariant, PTL DEF Spec

\* The last step before the exit closes the catalog, or is the join of a worker
\* that was listed and not started; and the process does nothing afterwards.
LEMMA ClosedStep == TypeOK /\ CatalogClosed /\ [Next]_vars => CatalogClosed'
<1> SUFFICES ASSUME TypeOK, CatalogClosed, [Next]_vars, main' = "exit"
             PROVE  ~ catalog' \/ \E c \in Listed' : worker'[c] = "none"
  BY DEF CatalogClosed
<1>1. CASE JoinRaises
  <2>1. joined + 1 \in 1 .. Len(threads)
    BY <1>1, LenProperties DEF JoinRaises, TypeOK
  <2>2. threads[joined + 1] \in Listed
    BY <2>1, LenProperties DEF TypeOK, Listed
  <2> QED  BY <1>1, <2>2 DEF JoinRaises, Listed
<1>2. CASE CloseCatalog
  BY <1>2 DEF CloseCatalog
<1>3. CASE UNCHANGED vars
  BY <1>3 DEF vars, server, CatalogClosed, Listed
<1>4. CASE Serve \/ Signal \/ Join \/ JoinedAll
  BY <1>4 DEF Serve, Accept, AcquireSlot, CreateWorker, StartWorker, Signal, Shutdown, Join, JoinedAll
<1>5. ASSUME NEW c \in Conn, Connect(c) \/ Leave(c) \/ Work(c)
      PROVE  FALSE
  <2>1. CASE Connect(c)
    BY <2>1 DEF Connect, Loop
  <2>2. CASE Leave(c)
    BY <2>2 DEF Leave, At, server
  <2>3. CASE Work(c)
    BY <2>3 DEF Work, Receive, ReceiveBadFrame, ReceiveNothing, Answer, Begin, Finish, Query,
                Raise, Prepare, Deallocate, CloseSession, HangUp, Release, Respond, At, server
  <2> QED  BY <1>5, <2>1, <2>2, <2>3
<1> QED  BY <1>1, <1>2, <1>3, <1>4, <1>5 DEF Next, Stop

\* The process exits with its files closed, except when a signal has come between
\* the listing of a worker and its start.
THEOREM ClosedAtExit == Spec => []CatalogClosed
<1>1. Init => CatalogClosed
  BY DEF Init, CatalogClosed
<1>2. ServerInv => TypeOK
  BY DEF ServerInv
<1> QED  BY <1>1, <1>2, ClosedStep, ServerInvariant, PTL DEF Spec
=============================================================================
