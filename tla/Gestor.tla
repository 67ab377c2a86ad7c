------------------------------- MODULE Gestor -------------------------------
(***************************************************************************)
(* The TCP server (engine/transactions/connection_handler.py) and the      *)
(* process around it (engine/__main__.py).                                 *)
(*                                                                         *)
(* The main thread accepts connections and, on a signal, stops:            *)
(*   "accept"   waits for a connection                                     *)
(*   "slot"     waits for a free slot, with a connection in its hands      *)
(*   "create"   makes the worker and appends it to _threads                *)
(*   "start"    starts the worker                                          *)
(*   "joining"  shutdown: the listener is closed, the workers are joined   *)
(*   "flush"    closes the catalog                                         *)
(*   "exit"     the process is over, with every worker                     *)
(* A worker serves one connection:                                         *)
(*   "none"     it has not been started                                    *)
(*   "receive"  reads a frame                                              *)
(*   "handle"   executes the request and sends the response                *)
(*   "close", "hangup", "release"   the three steps of its finally block   *)
(*   "ended"    it is over                                                 *)
(***************************************************************************)
EXTENDS Naturals, Sequences, FiniteSets

CONSTANTS Conn,            \* connections, each made once
          NoConn,          \* none
          Name,            \* names of prepared statements
          MaxConnections   \* MAX_CONNECTIONS

ASSUME ConstantsAssumption ==
  /\ IsFiniteSet(Conn) /\ NoConn \notin Conn
  /\ MaxConnections \in Nat \ {0}

VARIABLES main,      \* where the main thread is
          taken,     \* the connection in its hands
          round,     \* how often shutdown has been entered
          joined,    \* how many workers that shutdown has joined
          backlog,   \* connections the listener has queued
          slots,     \* _slots
          threads,   \* _threads
          worker,    \* where each worker is
          catalog,   \* whether the catalog is open
          active,    \* the connections with a transaction in the manager
          locked,    \* those whose transaction holds locks
          prepared,  \* the prepared statements of each connection
          left       \* the connections whose client has closed its end

server == <<main, taken, round, joined, backlog, threads, catalog>>
work   == <<active, locked, prepared>>
vars   == <<server, slots, worker, work, left>>

Loop == {"accept", "slot", "create", "start"}

TypeOK ==
  /\ main \in Loop \cup {"joining", "flush", "exit"}
  /\ taken \in Conn \cup {NoConn} /\ round \in 0..2
  /\ backlog \in Seq(Conn) /\ threads \in Seq(Conn) /\ joined \in 0..Len(threads)
  /\ slots \in 0..MaxConnections
  /\ worker \in [Conn -> {"none", "receive", "handle", "close", "hangup", "release", "ended"}]
  /\ catalog \in BOOLEAN
  /\ active \subseteq Conn /\ locked \subseteq Conn
  /\ prepared \in [Conn -> SUBSET Name] /\ left \subseteq Conn

Init ==
  /\ main = "accept" /\ taken = NoConn /\ round = 0 /\ joined = 0
  /\ backlog = <<>> /\ slots = MaxConnections /\ threads = <<>>
  /\ worker = [c \in Conn |-> "none"] /\ catalog = TRUE
  /\ active = {} /\ locked = {} /\ prepared = [c \in Conn |-> {}] /\ left = {}

Queued == {backlog[i] : i \in DOMAIN backlog}
Listed == {threads[i] : i \in DOMAIN threads}

\* The workers run until the process exits.
At(c, label)   == main # "exit" /\ worker[c] = label
Goto(c, label) == worker' = [worker EXCEPT ![c] = label]

-----------------------------------------------------------------------------
\* A client connects: the kernel queues it while the listener is open.
Connect(c) ==
  /\ main \in Loop
  /\ c \notin Queued \cup Listed \cup {taken}
  /\ Len(backlog) < MaxConnections
  /\ backlog' = Append(backlog, c)
  /\ UNCHANGED <<main, taken, round, joined, threads, catalog, slots, worker, work, left>>

\* ... and closes its end, with or without a request in progress.
Leave(c) ==
  /\ At(c, "receive") \/ At(c, "handle")
  /\ left' = left \cup {c}
  /\ UNCHANGED <<server, slots, worker, work>>

\* serve_forever, statement by statement.
Accept ==
  /\ main = "accept" /\ backlog # <<>>
  /\ taken' = Head(backlog) /\ backlog' = Tail(backlog)
  /\ main' = "slot"
  /\ UNCHANGED <<round, joined, threads, catalog, slots, worker, work, left>>

AcquireSlot ==
  /\ main = "slot" /\ slots > 0
  /\ slots' = slots - 1
  /\ main' = "create"
  /\ UNCHANGED <<taken, round, joined, backlog, threads, catalog, worker, work, left>>

CreateWorker ==
  /\ main = "create"
  /\ threads' = Append(threads, taken)
  /\ main' = "start"
  /\ UNCHANGED <<taken, round, joined, backlog, catalog, slots, worker, work, left>>

StartWorker ==
  /\ main = "start"
  /\ worker' = [worker EXCEPT ![taken] = "receive"]
  /\ taken' = NoConn
  /\ main' = "accept"
  /\ UNCHANGED <<round, joined, backlog, threads, catalog, slots, work, left>>

-----------------------------------------------------------------------------
\* shutdown closes the listener and starts to join the workers: once from the
\* signal handler, wherever the signal finds the main thread, and once more
\* from the finally block that the SystemExit of the handler (or an exception
\* out of shutdown) unwinds into.
Shutdown ==
  /\ round' = round + 1 /\ joined' = 0
  /\ backlog' = <<>>
  /\ main' = "joining"

Signal ==
  /\ main \in Loop
  /\ Shutdown
  /\ UNCHANGED <<taken, threads, catalog, slots, worker, work, left>>

\* What follows the handler: the finally block, and then the end of the process.
Unwind ==
  IF round = 1 THEN Shutdown
  ELSE main' = "exit" /\ UNCHANGED <<round, joined, backlog>>

\* Mutant of Join: no timeout.
JoinForEver ==
  /\ main = "joining" /\ joined < Len(threads)
  /\ worker[threads[joined + 1]] = "ended"
  /\ joined' = joined + 1
  /\ UNCHANGED <<main, taken, round, backlog, threads, catalog, slots, worker, work, left>>

\* join(timeout=1): the worker has ended, or the second has passed.
Join ==
  /\ main = "joining" /\ joined < Len(threads)
  /\ worker[threads[joined + 1]] # "none"
  /\ joined' = joined + 1
  /\ UNCHANGED <<main, taken, round, backlog, threads, catalog, slots, worker, work, left>>

\* join raises RuntimeError for a worker that was never started.
JoinRaises ==
  /\ main = "joining" /\ joined < Len(threads)
  /\ worker[threads[joined + 1]] = "none"
  /\ Unwind
  /\ UNCHANGED <<taken, threads, catalog, slots, worker, work, left>>

\* Mutant of JoinedAll: the handler exits without closing the catalog.
JoinedAllAndExit ==
  /\ main = "joining" /\ joined = Len(threads)
  /\ Unwind
  /\ UNCHANGED <<taken, threads, catalog, slots, worker, work, left>>

JoinedAll ==
  /\ main = "joining" /\ joined = Len(threads)
  /\ main' = "flush"
  /\ UNCHANGED <<taken, round, joined, backlog, threads, catalog, slots, worker, work, left>>

CloseCatalog ==
  /\ main = "flush"
  /\ catalog' = FALSE
  /\ Unwind
  /\ UNCHANGED <<taken, threads, slots, worker, work, left>>

-----------------------------------------------------------------------------
\* recv_frame_versioned: a request, a frame that is not one (ProtocolError, of
\* which the client is told before it is disconnected), or the end of the
\* connection or the socket timeout.
Receive(c) ==
  /\ At(c, "receive") /\ c \notin left
  /\ Goto(c, "handle")
  /\ UNCHANGED <<server, slots, work, left>>

ReceiveBadFrame(c) ==
  /\ At(c, "receive") /\ c \notin left
  /\ Goto(c, "close")
  /\ UNCHANGED <<server, slots, work, left>>

ReceiveNothing(c) ==
  /\ At(c, "receive")
  /\ Goto(c, "close")
  /\ UNCHANGED <<server, slots, work, left>>

\* sendall of the response, whatever it says: OSError when the client has left,
\* unless the system takes the bytes all the same.
Respond(c) ==
  /\ At(c, "handle")
  /\ \/ Goto(c, "receive")
     \/ c \in left /\ Goto(c, "close")
  /\ UNCHANGED <<server, slots, left>>

\* PING, an unknown opcode, and any request that fails before it changes
\* anything: a statement that does not parse, a BEGIN inside a transaction, a
\* COMMIT outside one, the EXECUTE of an unknown name.
Answer(c) == Respond(c) /\ UNCHANGED work

Begin(c) ==
  /\ Respond(c)
  /\ c \notin active
  /\ active' = active \cup {c}
  /\ UNCHANGED <<locked, prepared>>

\* COMMIT, ROLLBACK, and a statement whose lock failure rolls the transaction back.
Finish(c) ==
  /\ Respond(c)
  /\ c \in active
  /\ active' = active \ {c} /\ locked' = locked \ {c}
  /\ UNCHANGED prepared

\* A statement inside a transaction, from QUERY or from EXECUTE: it leaves its
\* locks.  Outside one it leaves nothing, like Answer.
Query(c) ==
  /\ Respond(c)
  /\ c \in active
  /\ locked' = locked \cup {c}
  /\ UNCHANGED <<active, prepared>>

Prepare(c, n) ==
  /\ Respond(c)
  /\ prepared' = [prepared EXCEPT ![c] = @ \cup {n}]
  /\ UNCHANGED <<active, locked>>

Deallocate(c, n) ==
  /\ Respond(c)
  /\ prepared' = [prepared EXCEPT ![c] = @ \ {n}]
  /\ UNCHANGED <<active, locked>>

\* Mutant of Raise: the exception ends the thread without a finally block.
RaiseUnhandled(c) ==
  /\ At(c, "handle")
  /\ Goto(c, "ended")
  /\ UNCHANGED <<server, slots, work, left>>

\* The request raises something _dispatch does not catch: an error that is not
\* a SoupDBError, in a statement or in the undo of a rollback.  A transaction
\* is left as it is; that of a single statement is over or, when its rollback
\* is what raised, left open.
Raise(c) ==
  /\ At(c, "handle")
  /\ Goto(c, "close")
  /\ \/ UNCHANGED <<active, locked>>
     \/ active' = active \cup {c} /\ locked' = locked \cup {c}
  /\ UNCHANGED <<server, slots, prepared, left>>

-----------------------------------------------------------------------------
\* Mutants of the finally block: the locks stay; the slot is not released.
CloseSessionKeepingLocks(c) ==
  /\ At(c, "close")
  /\ Goto(c, "hangup")
  /\ UNCHANGED <<server, slots, work, left>>
HangUpAndEnd(c) ==
  /\ At(c, "hangup")
  /\ prepared' = [prepared EXCEPT ![c] = {}]
  /\ Goto(c, "ended")
  /\ UNCHANGED <<server, slots, active, locked, left>>

\* The finally block.  session.close closes the one lock manager there is; the
\* transaction stays in the manager's table.
CloseSession(c) ==
  /\ At(c, "close")
  /\ locked' = {}
  /\ Goto(c, "hangup")
  /\ UNCHANGED <<server, slots, active, prepared, left>>

HangUp(c) ==
  /\ At(c, "hangup")
  /\ prepared' = [prepared EXCEPT ![c] = {}]
  /\ Goto(c, "release")
  /\ UNCHANGED <<server, slots, active, locked, left>>

Release(c) ==
  /\ At(c, "release")
  /\ slots' = slots + 1
  /\ Goto(c, "ended")
  /\ UNCHANGED <<server, work, left>>

-----------------------------------------------------------------------------
Serve == Accept \/ AcquireSlot \/ CreateWorker \/ StartWorker
Stop  == Join \/ JoinRaises \/ JoinedAll \/ CloseCatalog

Work(c) ==
  \/ Receive(c) \/ ReceiveBadFrame(c) \/ ReceiveNothing(c)
  \/ Answer(c) \/ Begin(c) \/ Finish(c) \/ Query(c) \/ Raise(c)
  \/ \E n \in Name : Prepare(c, n) \/ Deallocate(c, n)
  \/ CloseSession(c) \/ HangUp(c) \/ Release(c)

Next ==
  \/ \E c \in Conn : Connect(c) \/ Leave(c) \/ Work(c)
  \/ Serve \/ Signal \/ Stop

Spec == Init /\ [][Next]_vars

\* The main thread is scheduled; and so are the workers, whose reads time out,
\* while the server accepts connections.  Nothing is assumed of them after a
\* signal.
FairSpec ==
  /\ Spec /\ WF_vars(Serve) /\ WF_vars(Stop)
  /\ \A c \in Conn : WF_vars(main \in Loop /\ Work(c))

-----------------------------------------------------------------------------
\* Who has acquired a slot and not released it: the workers, and the main
\* thread on behalf of the one it is about to start.
Busy == {c \in Conn : worker[c] \notin {"none", "ended"}}
          \cup (IF main \in {"create", "start"} THEN {taken} ELSE {})

\* The state is of its type, and the slots count the connections being served:
\* none is lost by any way a connection can end, and at most MAX_CONNECTIONS are
\* served at a time.
SlotsConserved ==
  TypeOK /\ (main \in Loop => slots + Cardinality(Busy) = MaxConnections)

\* A connection that has ended holds no lock, whatever state it left its
\* transaction in.
EndedHoldsNothing == \A c \in locked : worker[c] \notin {"hangup", "release", "ended"}

\* Some client keeps its slot: it sends one request after another for ever.
SlotKept == \E c \in Conn : []<><<Receive(c)>>_vars

\* A client in the backlog is served unless the server stops, in whichever ways
\* the other connections end; only a client that never stops sending requests
\* can keep it waiting for ever.
QueuedServed ==
  SlotKept \/ \A c \in Conn : c \in Queued ~> worker[c] # "none" \/ main \notin Loop

\* The process stops after a signal, whatever its workers are doing.
StopsOnSignal == main = "joining" ~> main = "exit"

\* The files are closed before the process exits, except when the signal has
\* come between the two statements that list a worker and start it.
CatalogClosed == main = "exit" => ~ catalog \/ \E c \in Listed : worker[c] = "none"
=============================================================================
