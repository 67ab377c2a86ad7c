----------------------------- MODULE Strict2PL -----------------------------
(***************************************************************************)
(* The lock manager of SoupDB: StrictTwoPhaseLocking                       *)
(* (engine/transactions/strategies/strict_2pl.py).                         *)
(*                                                                         *)
(* A transaction runs on the worker thread of its connection, so acquire   *)
(* is executed by one thread per transaction.  It is a polling loop, and   *)
(* only a part of each turn is protected by the manager's mutex:           *)
(*                                                                         *)
(*   "idle"     the thread is not inside acquire                           *)
(*   "try"      the mutex block: grant, or register the wait               *)
(*   "detect"   _deadlock_detected begins, without the mutex               *)
(*   "walk"     ... it iterates over the live _waiting dictionary          *)
(*   "holders"  ... and over the live holders of one waiter's resource     *)
(*   "victim"   a cycle was found: DeadlockDetected is about to be raised  *)
(*   "poll"     no cycle: test the deadline, sleep, try again              *)
(*   "expired"  the deadline passed: LockNotGranted is about to be raised  *)
(***************************************************************************)
EXTENDS LockModes, FiniteSets

CONSTANTS Tx,         \* transactions, each on a thread of its own
          Resource,   \* lockable resources: ("table", name), ("record", rid)
          NoResource, \* not waiting
          Timed,      \* the transactions whose acquires carry a deadline
          Asked,      \* the modes acquires ask for
          MaxCount    \* bound on the grants one holder accumulates

ASSUME ConstantsAssumption ==
  /\ IsFiniteSet(Tx)
  /\ NoResource \notin Resource
  /\ Timed \subseteq Tx
  /\ Asked \subseteq Mode
  /\ MaxCount \in Nat \ {0}

VARIABLES grants,     \* _grants: per resource and transaction, (mode, count)
          waiting,    \* _waiting: the resource a transaction is blocked on
          pc,         \* where each thread is inside acquire
          req,        \* the arguments of each acquire call in progress
          due,        \* whether the monotonic clock has reached the deadline
          walk        \* the progress of each thread's _deadlock_detected

vars == <<grants, waiting, pc, req, due, walk>>

\* A (mode, count) pair; count 0 stands for a transaction absent from the
\* resource's dictionary (which the code deletes as soon as it is empty).
NotHeld == [mode |-> "S", count |-> 0]
Holders(r) == {t \in Tx : grants[r][t].count > 0}
Waiters    == {t \in Tx : waiting[t] # NoResource}

NoReq  == [res |-> NoResource, mode |-> "S"]

\* seen, size and edges belong to the loop over _waiting; at (the waiter), res,
\* heldSize, live and frozen to the loop over one resource's dictionary of
\* holders.  The sizes are those the iterators started with and compare with.
\* live: the dictionary is still the one in _grants; otherwise frozen is what
\* it holds.
NoWalk == [seen |-> {}, size |-> 0, edges |-> {},
           at |-> {}, res |-> NoResource, heldSize |-> 0,
           live |-> FALSE, frozen |-> {}]

Grant   == [mode : Mode, count : 0..MaxCount]
Request == [res : Resource \cup {NoResource}, mode : Mode]
Walk    == [seen : SUBSET Tx, size : Nat, edges : SUBSET (Tx \X Tx),
            at : SUBSET Tx, res : Resource \cup {NoResource}, heldSize : Nat,
            live : BOOLEAN, frozen : SUBSET Tx]

TypeOK ==
  /\ grants  \in [Resource -> [Tx -> Grant]]
  /\ waiting \in [Tx -> Resource \cup {NoResource}]
  /\ pc      \in [Tx -> {"idle", "try", "detect", "walk", "holders",
                         "victim", "poll", "expired"}]
  /\ req     \in [Tx -> Request]
  /\ due     \in [Tx -> BOOLEAN]
  /\ walk    \in [Tx -> Walk]

Init ==
  /\ grants  = [r \in Resource |-> [t \in Tx |-> NotHeld]]
  /\ waiting = [t \in Tx |-> NoResource]
  /\ pc      = [t \in Tx |-> "idle"]
  /\ req     = [t \in Tx |-> NoReq]
  /\ due     = [t \in Tx |-> FALSE]
  /\ walk    = [t \in Tx |-> NoWalk]

Goto(t, label) == pc' = [pc EXCEPT ![t] = label]

\* acquire is over on thread t, by return or by exception.
Return(t) ==
  /\ Goto(t, "idle")
  /\ req' = [req EXCEPT ![t] = NoReq]
  /\ due' = [due EXCEPT ![t] = FALSE]

StopWaiting(t) == waiting' = [waiting EXCEPT ![t] = NoResource]

\* The dictionaries of holders of the resources in R leave _grants: a walk that
\* is inside one keeps iterating over the object, whose content is left[r].
Detach(R, left) ==
  walk' = [u \in Tx |->
             IF walk[u].live /\ walk[u].res \in R
             THEN [walk[u] EXCEPT !.live = FALSE, !.frozen = left[walk[u].res]]
             ELSE walk[u]]

\* Each resource in R whose last holder leaves loses its dictionary.
DropEmpty(R) ==
  Detach({r \in R : \A u \in Tx : grants'[r][u].count = 0}, [r \in Resource |-> {}])

-----------------------------------------------------------------------------
\* acquire is called; the deadline is computed before the loop starts.
Call(t, r, m) ==
  /\ pc[t] = "idle"
  /\ grants[r][t].count < MaxCount
  /\ Goto(t, "try")
  /\ req' = [req EXCEPT ![t] = [res |-> r, mode |-> m]]
  /\ UNCHANGED <<grants, waiting, due, walk>>

\* Mutant of CanGrant: a transaction that already holds the resource is granted
\* whatever it asks for.
CanGrantToHolder(t, r, m) ==
  \/ grants[r][t].count > 0
  \/ \A other \in Holders(r) \ {t} : Compat(grants[r][other].mode, m)

\* _try_grant: a transaction that already holds the resource asks for the
\* stronger of the two modes, and only the other holders can refuse it.
CanGrant(t, r, m) ==
  LET desired == IF grants[r][t].count > 0 THEN Stronger(grants[r][t].mode, m) ELSE m
  IN \A other \in Holders(r) \ {t} : Compat(grants[r][other].mode, desired)

\* Mutants of Granted: the count grows by two; a holder's mode is replaced by
\* the one it asks for.
GrantedTwice(t, r, m) ==
  LET held == grants[r][t]
  IN [mode  |-> IF held.count > 0 THEN Stronger(held.mode, m) ELSE m,
      count |-> held.count + 2]
GrantedAsAsked(t, r, m) == [mode |-> m, count |-> grants[r][t].count + 1]

Granted(t, r, m) ==
  LET held == grants[r][t]
  IN [mode  |-> IF held.count > 0 THEN Stronger(held.mode, m) ELSE m,
      count |-> held.count + 1]

\* The mutex block of acquire: granted.
TryGranted(t) ==
  LET r == req[t].res
      m == req[t].mode
  IN /\ pc[t] = "try"
     /\ CanGrant(t, r, m)
     /\ grants'  = [grants EXCEPT ![r][t] = Granted(t, r, m)]
     /\ StopWaiting(t)
     /\ Return(t)
     /\ UNCHANGED walk

\* The mutex block of acquire: refused, the wait is registered.
TryRefused(t) ==
  /\ pc[t] = "try"
  /\ ~ CanGrant(t, req[t].res, req[t].mode)
  /\ waiting' = [waiting EXCEPT ![t] = req[t].res]
  /\ Goto(t, "detect")
  /\ UNCHANGED <<grants, req, due, walk>>

-----------------------------------------------------------------------------
\* _deadlock_detected.  The walk is over live dictionaries and holds no mutex.
DetectStart(t) ==
  /\ pc[t] = "detect"
  /\ IF waiting[t] = NoResource          \* only close can have cleared it
     THEN Goto(t, "poll") /\ UNCHANGED walk
     ELSE /\ walk' = [walk EXCEPT ![t] = [NoWalk EXCEPT !.size = Cardinality(Waiters)]]
          /\ Goto(t, "walk")
  /\ UNCHANGED <<grants, waiting, req, due>>

\* The for loop over _waiting.items(): the iterator fails when the dictionary
\* has changed size, or when it meets more keys than it started with.
WaitersChanged(t) ==
  \/ Cardinality(Waiters) # walk[t].size
  \/ Cardinality(walk[t].seen) = walk[t].size /\ ~ (Waiters \subseteq walk[t].seen)

WalkNext(t) ==
  /\ pc[t] = "walk"
  /\ ~ WaitersChanged(t)
  /\ \E w \in Waiters \ walk[t].seen :
       LET r    == waiting[w]
           seen == walk[t].seen \cup {w}
       IN IF Holders(r) = {}
          THEN /\ walk' = [walk EXCEPT ![t] = [walk[t] EXCEPT !.seen = seen]]
               /\ UNCHANGED pc
          ELSE /\ walk' = [walk EXCEPT ![t] =
                    [walk[t] EXCEPT !.seen = seen, !.at = {w}, !.res = r, !.live = TRUE,
                                    !.heldSize = Cardinality(Holders(r))]]
               /\ Goto(t, "holders")
  /\ UNCHANGED <<grants, waiting, req, due>>

\* The inner for loop: one edge to every holder but the waiter itself.
Iterated(t) == IF walk[t].live THEN Holders(walk[t].res) ELSE walk[t].frozen

WalkHolders(t) ==
  /\ pc[t] = "holders"
  /\ Cardinality(Iterated(t)) = walk[t].heldSize
  /\ walk' = [walk EXCEPT
                ![t] = [NoWalk EXCEPT
                  !.seen  = walk[t].seen,
                  !.size  = walk[t].size,
                  !.edges = walk[t].edges \cup
                              {e \in walk[t].at \X Iterated(t) : e[1] # e[2]}]]
  /\ Goto(t, "walk")
  /\ UNCHANGED <<grants, waiting, req, due>>

\* RuntimeError from either loop leaves acquire at once, with the wait still
\* registered.
WalkCrash(t) ==
  /\ \/ pc[t] = "walk" /\ WaitersChanged(t)
     \/ pc[t] = "holders" /\ Cardinality(Iterated(t)) # walk[t].heldSize
  /\ walk' = [walk EXCEPT ![t] = NoWalk]
  /\ Return(t)
  /\ UNCHANGED <<grants, waiting>>

\* Mutant of CycleFrom: only a direct wait for itself counts as a cycle.
SelfLoop(edges, t) == <<t, t>> \in edges

\* in_cycle(t): the depth-first search from t meets a node of its own path,
\* that is, an endless path starts at t: every node of some set with t in it
\* has an edge that stays in the set.
CycleFrom(edges, t) ==
  \E S \in SUBSET Tx : /\ t \in S
                       /\ \A a \in S : \E b \in S : <<a, b>> \in edges

\* Both loops are over: the answer of _deadlock_detected.
WalkEnd(t) ==
  /\ pc[t] = "walk"
  /\ ~ WaitersChanged(t)
  /\ Waiters \subseteq walk[t].seen
  /\ Goto(t, IF CycleFrom(walk[t].edges, t) THEN "victim" ELSE "poll")
  /\ walk' = [walk EXCEPT ![t] = NoWalk]
  /\ UNCHANGED <<grants, waiting, req, due>>

-----------------------------------------------------------------------------
\* Mutant of Poll: the deadline is never tested.
PollForEver(t) ==
  /\ pc[t] = "poll"
  /\ Goto(t, "try")
  /\ UNCHANGED <<grants, waiting, req, due, walk>>

\* The rest of the loop's turn: the deadline is tested after the detection.
Poll(t) ==
  /\ pc[t] = "poll"
  /\ Goto(t, IF t \in Timed /\ due[t] THEN "expired" ELSE "try")
  /\ UNCHANGED <<grants, waiting, req, due, walk>>

\* raise DeadlockDetected, after the wait is withdrawn under the mutex.
RaiseDeadlock(t) ==
  /\ pc[t] = "victim"
  /\ StopWaiting(t)
  /\ Return(t)
  /\ UNCHANGED <<grants, walk>>

\* raise LockNotGranted, likewise.
RaiseTimeout(t) ==
  /\ pc[t] = "expired"
  /\ StopWaiting(t)
  /\ Return(t)
  /\ UNCHANGED <<grants, walk>>

\* The monotonic clock reaches the deadline of t's acquire.
Tick(t) ==
  /\ t \in Timed /\ pc[t] # "idle" /\ ~ due[t]
  /\ due' = [due EXCEPT ![t] = TRUE]
  /\ UNCHANGED <<grants, waiting, pc, req, walk>>

-----------------------------------------------------------------------------
\* Mutant of Release: the resource is taken out of _grants with all its holders.
ReleaseResource(t, r) ==
  /\ pc[t] = "idle"
  /\ grants[r][t].count > 0
  /\ grants' = [grants EXCEPT ![r] = [u \in Tx |-> NotHeld]]
  /\ DropEmpty({r})
  /\ UNCHANGED <<waiting, pc, req, due>>

\* release: one grant less; the mode stays the strongest ever asked for.
Release(t, r) ==
  /\ pc[t] = "idle"
  /\ grants[r][t].count > 0
  /\ grants' = [grants EXCEPT ![r][t] =
                  IF grants[r][t].count > 1
                  THEN [mode |-> grants[r][t].mode, count |-> grants[r][t].count - 1]
                  ELSE NotHeld]
  /\ DropEmpty({r})
  /\ UNCHANGED <<waiting, pc, req, due>>

\* release_all, called by commit and rollback on the transaction's thread.
ReleaseAll(t) ==
  /\ pc[t] = "idle"
  /\ grants' = [r \in Resource |-> [grants[r] EXCEPT ![t] = NotHeld]]
  /\ StopWaiting(t)
  /\ DropEmpty(Resource)
  /\ UNCHANGED <<pc, req, due>>

\* close forgets the grants and the waits of every transaction, whatever their
\* threads are doing; the dictionaries of holders are dropped with their content.
Close ==
  /\ grants'  = [r \in Resource |-> [t \in Tx |-> NotHeld]]
  /\ waiting' = [t \in Tx |-> NoResource]
  /\ Detach(Resource, [r \in Resource |-> Holders(r)])
  /\ UNCHANGED <<pc, req, due>>

-----------------------------------------------------------------------------
\* What the thread of t does on its own while it is inside acquire.
Turn(t) ==
  \/ TryGranted(t)    \/ TryRefused(t)
  \/ DetectStart(t)   \/ WalkNext(t)    \/ WalkHolders(t)
  \/ WalkCrash(t)     \/ WalkEnd(t)
  \/ Poll(t)          \/ RaiseDeadlock(t) \/ RaiseTimeout(t)

\* What the session that owns t asks for.
Ask(t) ==
  \/ \E r \in Resource, m \in Asked : Call(t, r, m)
  \/ \E r \in Resource : Release(t, r)
  \/ ReleaseAll(t)

Next ==
  \/ \E t \in Tx : Turn(t) \/ Ask(t) \/ Tick(t)
  \/ Close

Spec == Init /\ [][Next]_vars

\* A thread inside acquire keeps running; nothing is promised about the clock,
\* which may be far from any deadline, or about the sessions that call in.
Fairness == \A t \in Tx : WF_vars(Turn(t))

FairSpec == Spec /\ Fairness

-----------------------------------------------------------------------------
\* Two transactions never hold incompatible modes of one resource, whatever
\* the upgrades of a re-acquiring holder (_try_grant, _stronger) do.
GrantsCompatible ==
  \A r \in Resource : \A a, b \in Holders(r) :
    a # b => Compat(grants[r][a].mode, grants[r][b].mode)

\* No step of another thread, nor any turn of its own acquire, takes a grant
\* from a transaction or weakens it: only its own release or release_all does,
\* and close, which empties the whole table.
GrantsKept ==
  \A r \in Resource, t \in Tx :
    grants[r][t].count > 0 =>
      \/ /\ grants'[r][t].count > 0
         /\ Priority[grants'[r][t].mode] >= Priority[grants[r][t].mode]
      \/ /\ pc[t] = "idle" /\ pc'[t] = "idle"
         /\ \A u \in Tx \ {t}, q \in Resource : grants'[q][u] = grants[q][u]
      \/ \A q \in Resource, u \in Tx : grants'[q][u] = NotHeld

GrantsOnlyDropped == [][GrantsKept]_vars

\* The table of modes that the grants amount to, for the abstract service.
HeldModes == [r \in Resource |-> [t \in Tx |->
                IF grants[r][t].count > 0 THEN grants[r][t].mode ELSE "none"]]

Service == INSTANCE LockService WITH held <- HeldModes, None <- "none"

\* acquire, with its polling, unprotected deadlock search and races, release,
\* release_all and close implement the atomic lock service.
ServiceRefined == Service!ServiceSpec
=============================================================================
