-------------------------- MODULE Strict2PL_proofs --------------------------
(***************************************************************************)
(* Proofs about the lock manager, for any finite set of transactions and   *)
(* any set of resources: it is type correct, never grants incompatible     *)
(* modes, drops grants only on request, and implements LockService.        *)
(***************************************************************************)
EXTENDS Strict2PL, FiniteSetTheorems, TLAPS

\* A thread inside acquire works on a resource it may still take once more;
\* a walk that reads a live dictionary reads that of a resource.
CallInv ==
  /\ \A t \in Tx : pc[t] # "idle" => /\ req[t].res \in Resource
                                     /\ grants[req[t].res][t].count < MaxCount
  /\ \A t \in Tx : walk[t].live => walk[t].res \in Resource

TypeInv == TypeOK /\ CallInv

\* Only the iterators' sizes need the set of transactions to be finite.
LEMMA SubsetSize ==
  ASSUME NEW S \in SUBSET Tx
  PROVE  Cardinality(S) \in Nat
BY ConstantsAssumption, FS_Subset, FS_CardinalityType

LEMMA StrongerType ==
  ASSUME NEW a \in Mode, NEW b \in Mode
  PROVE  Stronger(a, b) \in Mode
BY DEF Stronger

LEMMA DetachType ==
  ASSUME TypeInv, NEW R \in SUBSET Resource, NEW left \in [Resource -> SUBSET Tx],
         Detach(R, left)
  PROVE  /\ walk' \in [Tx -> Walk]
         /\ \A t \in Tx : walk'[t].live => walk'[t].res \in Resource
<1>1. ASSUME NEW u \in Tx
      PROVE  /\ walk'[u] \in Walk
             /\ walk'[u].live => walk'[u].res \in Resource
  <2>1. walk[u] \in Walk
    BY DEF TypeInv, TypeOK
  <2>2. CASE walk[u].live /\ walk[u].res \in R
    <3>1. walk'[u] = [walk[u] EXCEPT !.live = FALSE, !.frozen = left[walk[u].res]]
      BY <2>2 DEF Detach
    <3>2. left[walk[u].res] \in SUBSET Tx
      BY <2>2
    <3> QED  BY <2>1, <3>1, <3>2 DEF Walk
  <2>3. CASE ~ (walk[u].live /\ walk[u].res \in R)
    <3>1. walk'[u] = walk[u]
      BY <2>3 DEF Detach
    <3> QED  BY <2>1, <3>1 DEF TypeInv, CallInv
  <2> QED  BY <2>2, <2>3
<1> QED  BY <1>1 DEF Detach

LEMMA DropEmptyType ==
  ASSUME TypeInv, NEW R \in SUBSET Resource, DropEmpty(R)
  PROVE  /\ walk' \in [Tx -> Walk]
         /\ \A t \in Tx : walk'[t].live => walk'[t].res \in Resource
<1> DEFINE E == {r \in R : \A u \in Tx : grants'[r][u].count = 0}
<1>1. Detach(E, [r \in Resource |-> {}])
  BY DEF DropEmpty
<1>2. E \in SUBSET Resource /\ [r \in Resource |-> {}] \in [Resource -> SUBSET Tx]
  OBVIOUS
<1> HIDE DEF E
<1> QED  BY <1>1, <1>2, DetachType

\* The mutex block's grant keeps the table well typed.
LEMMA GrantedType ==
  ASSUME TypeInv, NEW t \in Tx, NEW r \in Resource, NEW m \in Mode,
         grants[r][t].count < MaxCount
  PROVE  Granted(t, r, m) \in Grant
<1>1. grants[r][t] \in Grant
  BY DEF TypeInv, TypeOK
<1>2. Stronger(grants[r][t].mode, m) \in Mode
  BY <1>1, StrongerType DEF Grant
<1>3. grants[r][t].count + 1 \in 0..MaxCount
  BY <1>1, ConstantsAssumption DEF Grant
<1> QED  BY <1>2, <1>3 DEF Granted, Grant

\* One step per action.
LEMMA TypeStep == TypeInv /\ [Next]_vars => TypeInv'
<1> SUFFICES ASSUME TypeInv, [Next]_vars
             PROVE  TypeInv'
  OBVIOUS
<1> USE DEF TypeInv
<1>1. ASSUME NEW t \in Tx, NEW r \in Resource, NEW m \in Asked,
             Call(t, r, m)
      PROVE  TypeInv'
  <2>1. [res |-> r, mode |-> m] \in Request
    BY ConstantsAssumption DEF Request
  <2>2. TypeOK'
    BY <1>1, <2>1 DEF TypeOK, Call, Goto
  <2>3. CallInv'
    BY <1>1 DEF TypeOK, CallInv, Call, Goto
  <2> QED  BY <2>2, <2>3
<1>2. ASSUME NEW t \in Tx, TryGranted(t)
      PROVE  TypeInv'
  <2>1. req[t].res \in Resource /\ grants[req[t].res][t].count < MaxCount
    BY <1>2 DEF CallInv, TryGranted
  <2>2. req[t].mode \in Mode
    BY DEF TypeOK, Request
  <2>3. Granted(t, req[t].res, req[t].mode) \in Grant
    BY <2>1, <2>2, GrantedType
  <2>4. NoReq \in Request
    BY DEF NoReq, Request, Mode
  <2>5. TypeOK'
    BY <1>2, <2>1, <2>3, <2>4 DEF TypeOK, TryGranted, Return, StopWaiting, Goto
  <2>6. CallInv'
    BY <1>2, <2>1 DEF TypeOK, CallInv, TryGranted, Return, Goto
  <2> QED  BY <2>5, <2>6
<1>3. ASSUME NEW t \in Tx, TryRefused(t)
      PROVE  TypeInv'
  <2>1. TypeOK'
    BY <1>3 DEF TypeOK, CallInv, TryRefused, Goto
  <2>2. CallInv'
    BY <1>3 DEF TypeOK, CallInv, TryRefused, Goto
  <2> QED  BY <2>1, <2>2
<1>4. ASSUME NEW t \in Tx, DetectStart(t)
      PROVE  TypeInv'
  <2>1. Cardinality(Waiters) \in Nat
    BY SubsetSize DEF Waiters
  <2>2. [NoWalk EXCEPT !.size = Cardinality(Waiters)] \in Walk
    BY <2>1 DEF NoWalk, Walk
  <2>3. ~ [NoWalk EXCEPT !.size = Cardinality(Waiters)].live
    BY DEF NoWalk
  <2>4. TypeOK'
    BY <1>4, <2>2 DEF TypeOK, DetectStart, Goto
  <2>5. CallInv'
    BY <1>4, <2>3 DEF TypeOK, CallInv, DetectStart, Goto
  <2> QED  BY <2>4, <2>5
<1>5. ASSUME NEW t \in Tx, WalkNext(t)
      PROVE  TypeInv'
  <2>1. PICK w \in Waiters \ walk[t].seen :
          LET r    == waiting[w]
              seen == walk[t].seen \cup {w}
          IN IF Holders(r) = {}
             THEN /\ walk' = [walk EXCEPT ![t] = [walk[t] EXCEPT !.seen = seen]]
                  /\ UNCHANGED pc
             ELSE /\ walk' = [walk EXCEPT ![t] =
                       [walk[t] EXCEPT !.seen = seen, !.at = {w}, !.res = r, !.live = TRUE,
                                       !.heldSize = Cardinality(Holders(r))]]
                  /\ Goto(t, "holders")
    BY <1>5 DEF WalkNext
  <2>2. w \in Tx /\ waiting[w] \in Resource
    BY DEF Waiters, TypeOK
  <2>3. Cardinality(Holders(waiting[w])) \in Nat
    BY SubsetSize DEF Holders
  <2>4. walk[t] \in Walk
    BY DEF TypeOK
  <2>5. walk[t].seen \cup {w} \in SUBSET Tx
    BY <2>2, <2>4 DEF Walk
  <2>6. UNCHANGED <<grants, waiting, req, due>>
    BY <1>5 DEF WalkNext
  <2>7. CASE Holders(waiting[w]) = {}
    <3> DEFINE new == [walk[t] EXCEPT !.seen = walk[t].seen \cup {w}]
    <3>1. walk' = [walk EXCEPT ![t] = new] /\ pc' = pc
      BY <2>1, <2>7
    <3>2. new \in Walk /\ new.live = walk[t].live /\ new.res = walk[t].res
      BY <2>4, <2>5 DEF Walk
    <3> HIDE DEF new
    <3>3. TypeOK'
      BY <3>1, <3>2, <2>6 DEF TypeOK
    <3>4. CallInv'
      BY <3>1, <3>2, <2>6 DEF CallInv, TypeOK
    <3> QED  BY <3>3, <3>4
  <2>8. CASE Holders(waiting[w]) # {}
    <3> DEFINE new == [walk[t] EXCEPT !.seen = walk[t].seen \cup {w}, !.at = {w},
                                      !.res = waiting[w], !.live = TRUE,
                                      !.heldSize = Cardinality(Holders(waiting[w]))]
    <3>1. walk' = [walk EXCEPT ![t] = new] /\ pc' = [pc EXCEPT ![t] = "holders"]
      BY <2>1, <2>8 DEF Goto
    <3>2. new \in Walk /\ new.res \in Resource
      BY <2>2, <2>3, <2>4, <2>5 DEF Walk
    <3> HIDE DEF new
    <3>3. TypeOK'
      BY <3>1, <3>2, <2>6 DEF TypeOK
    <3>4. CallInv'
      BY <3>1, <3>2, <2>6, <1>5 DEF CallInv, TypeOK, WalkNext
    <3> QED  BY <3>3, <3>4
  <2> QED  BY <2>7, <2>8
<1>6. ASSUME NEW t \in Tx, WalkHolders(t)
      PROVE  TypeInv'
  <2> DEFINE new == [NoWalk EXCEPT
                       !.seen  = walk[t].seen,
                       !.size  = walk[t].size,
                       !.edges = walk[t].edges \cup
                                   {e \in walk[t].at \X Iterated(t) : e[1] # e[2]}]
  <2>1. walk[t] \in Walk
    BY DEF TypeOK
  <2>2. Iterated(t) \in SUBSET Tx
    BY <2>1 DEF Iterated, Holders, Walk
  <2>3. walk[t].at \X Iterated(t) \in SUBSET (Tx \X Tx)
    BY <2>1, <2>2 DEF Walk
  <2>4. new \in Walk /\ ~ new.live
    BY <2>1, <2>3 DEF Walk, NoWalk
  <2>5. walk' = [walk EXCEPT ![t] = new] /\ Goto(t, "walk")
    BY <1>6 DEF WalkHolders
  <2> HIDE DEF new
  <2>6. TypeOK'
    BY <1>6, <2>4, <2>5 DEF TypeOK, WalkHolders, Goto
  <2>7. CallInv'
    BY <1>6, <2>4, <2>5 DEF TypeOK, CallInv, WalkHolders, Goto
  <2> QED  BY <2>6, <2>7
<1>7. NoWalk \in Walk /\ ~ NoWalk.live /\ NoReq \in Request
  BY DEF NoWalk, Walk, NoReq, Request, Mode
<1>8. ASSUME NEW t \in Tx, WalkCrash(t)
      PROVE  TypeInv'
  <2>1. TypeOK'
    BY <1>7, <1>8 DEF TypeOK, WalkCrash, Return, Goto
  <2>2. CallInv'
    BY <1>7, <1>8 DEF TypeOK, CallInv, WalkCrash, Return, Goto
  <2> QED  BY <2>1, <2>2
<1>9. ASSUME NEW t \in Tx, WalkEnd(t)
      PROVE  TypeInv'
  <2>1. TypeOK'
    BY <1>7, <1>9 DEF TypeOK, WalkEnd, Goto
  <2>2. CallInv'
    BY <1>7, <1>9 DEF TypeOK, CallInv, WalkEnd, Goto
  <2> QED  BY <2>1, <2>2
<1>10. ASSUME NEW t \in Tx, Poll(t)
       PROVE  TypeInv'
  <2>1. TypeOK'
    BY <1>10 DEF TypeOK, Poll, Goto
  <2>2. CallInv'
    BY <1>10 DEF TypeOK, CallInv, Poll, Goto
  <2> QED  BY <2>1, <2>2
<1>11. ASSUME NEW t \in Tx, RaiseDeadlock(t) \/ RaiseTimeout(t)
       PROVE  TypeInv'
  <2>1. TypeOK'
    BY <1>7, <1>11 DEF TypeOK, RaiseDeadlock, RaiseTimeout, Return, StopWaiting, Goto
  <2>2. CallInv'
    BY <1>11 DEF TypeOK, CallInv, RaiseDeadlock, RaiseTimeout, Return, Goto
  <2> QED  BY <2>1, <2>2
<1>12. ASSUME NEW t \in Tx, Tick(t)
       PROVE  TypeInv'
  BY <1>12 DEF TypeOK, CallInv, Tick
<1>13. NotHeld \in Grant /\ NotHeld.count < MaxCount
  BY ConstantsAssumption DEF NotHeld, Grant, Mode
<1>14. ASSUME NEW t \in Tx, NEW r \in Resource, Release(t, r)
       PROVE  TypeInv'
  <2> DEFINE new == IF grants[r][t].count > 1
                    THEN [mode |-> grants[r][t].mode, count |-> grants[r][t].count - 1]
                    ELSE NotHeld
  <2>1. grants[r][t] \in Grant
    BY DEF TypeOK
  <2>2. new \in Grant
    BY <1>13, <2>1, ConstantsAssumption DEF Grant
  <2>3. grants' = [grants EXCEPT ![r][t] = new]
    BY <1>14 DEF Release
  <2> HIDE DEF new
  <2>4. /\ walk' \in [Tx -> Walk]
        /\ \A u \in Tx : walk'[u].live => walk'[u].res \in Resource
    BY <1>14, DropEmptyType DEF Release
  <2>5. TypeOK'
    BY <1>14, <2>2, <2>3, <2>4 DEF TypeOK, Release
  <2>6. CallInv'
    BY <1>14, <2>3, <2>4 DEF TypeOK, CallInv, Release
  <2> QED  BY <2>5, <2>6
<1>15. ASSUME NEW t \in Tx, ReleaseAll(t)
       PROVE  TypeInv'
  <2>1. /\ walk' \in [Tx -> Walk]
        /\ \A u \in Tx : walk'[u].live => walk'[u].res \in Resource
    BY <1>15, DropEmptyType DEF ReleaseAll
  <2>2. TypeOK'
    BY <1>13, <1>15, <2>1 DEF TypeOK, ReleaseAll, StopWaiting
  <2>3. CallInv'
    BY <1>15, <2>1 DEF TypeOK, CallInv, ReleaseAll
  <2> QED  BY <2>2, <2>3
<1>16. ASSUME Close
       PROVE  TypeInv'
  <2>1. [r \in Resource |-> Holders(r)] \in [Resource -> SUBSET Tx]
    BY DEF Holders
  <2>2. /\ walk' \in [Tx -> Walk]
        /\ \A u \in Tx : walk'[u].live => walk'[u].res \in Resource
    BY <1>16, <2>1, DetachType DEF Close
  <2>3. TypeOK'
    BY <1>13, <1>16, <2>2 DEF TypeOK, Close
  <2>4. CallInv'
    BY <1>13, <1>16, <2>2 DEF TypeOK, CallInv, Close
  <2> QED  BY <2>3, <2>4
<1>17. CASE UNCHANGED vars
  BY <1>17 DEF vars, TypeOK, CallInv
<1> QED
  BY <1>1, <1>2, <1>3, <1>4, <1>5, <1>6, <1>8, <1>9, <1>10, <1>11, <1>12, <1>14,
     <1>15, <1>16, <1>17 DEF Next, Turn, Ask

LEMMA TypeInit == Init => TypeInv
<1> SUFFICES ASSUME Init
             PROVE  TypeInv
  OBVIOUS
<1>1. NoWalk \in Walk /\ ~ NoWalk.live /\ NoReq \in Request /\ NotHeld \in Grant
  BY ConstantsAssumption DEF NoWalk, Walk, NoReq, Request, Mode, NotHeld, Grant
<1>2. TypeOK
  BY <1>1 DEF Init, TypeOK
<1>3. CallInv
  BY <1>1 DEF Init, CallInv
<1> QED  BY <1>2, <1>3 DEF TypeInv

LEMMA TypeInvariant == Spec => []TypeInv
BY TypeInit, TypeStep, PTL DEF Spec

\* The state of the lock manager is well typed; in particular no transaction
\* accumulates more grants than the requests it has made.
THEOREM TypeCorrect == Spec => []TypeOK
<1>1. TypeInv => TypeOK
  BY DEF TypeInv
<1> QED  BY <1>1, TypeInvariant, PTL

-----------------------------------------------------------------------------
\* What a step does to the table of grants, in terms of the mode a transaction
\* holds: it is granted a mode, it drops its own, or everything is dropped.
GrantStep(t) ==
  /\ CanGrant(t, req[t].res, req[t].mode)
  /\ grants' = [grants EXCEPT ![req[t].res][t] = Granted(t, req[t].res, req[t].mode)]
  /\ pc[t] # "idle"

DropStep(t, r) ==
  /\ \/ grants'[r][t] = NotHeld
     \/ grants'[r][t].mode = grants[r][t].mode /\ grants'[r][t].count > 0
  /\ grants' = [grants EXCEPT ![r][t] = grants'[r][t]]
  /\ grants[r][t].count > 0
  /\ pc[t] = "idle" /\ pc'[t] = "idle"

DropAllStep(t) ==
  /\ grants' = [r \in Resource |-> [grants[r] EXCEPT ![t] = NotHeld]]
  /\ pc[t] = "idle" /\ pc'[t] = "idle"

ResetStep == grants' = [r \in Resource |-> [t \in Tx |-> NotHeld]]

LEMMA GrantSteps ==
  ASSUME TypeInv, [Next]_vars
  PROVE  \/ UNCHANGED grants
         \/ \E t \in Tx : GrantStep(t) \/ DropAllStep(t)
         \/ \E t \in Tx, r \in Resource : DropStep(t, r)
         \/ ResetStep
<1>1. ASSUME NEW t \in Tx, TryGranted(t)
      PROVE  GrantStep(t)
  BY <1>1 DEF TryGranted, GrantStep
<1>2. ASSUME NEW t \in Tx, NEW r \in Resource, Release(t, r)
      PROVE  DropStep(t, r)
  <2>1. grants[r][t] \in Grant /\ grants \in [Resource -> [Tx -> Grant]]
    BY DEF TypeInv, TypeOK
  <2>2. grants'[r][t] = IF grants[r][t].count > 1
                        THEN [mode |-> grants[r][t].mode, count |-> grants[r][t].count - 1]
                        ELSE NotHeld
    BY <1>2, <2>1 DEF Release
  <2>3. grants' = [grants EXCEPT ![r][t] = grants'[r][t]]
    BY <1>2, <2>2 DEF Release
  <2>4. \/ grants'[r][t] = NotHeld
        \/ grants'[r][t].mode = grants[r][t].mode /\ grants'[r][t].count > 0
    BY <2>1, <2>2 DEF Grant
  <2> QED  BY <1>2, <2>3, <2>4 DEF DropStep, Release
<1>3. ASSUME NEW t \in Tx, ReleaseAll(t)
      PROVE  DropAllStep(t)
  BY <1>3 DEF ReleaseAll, DropAllStep
<1>4. ASSUME Close
      PROVE  ResetStep
  BY <1>4 DEF Close, ResetStep
<1>5. ASSUME NEW t \in Tx, Turn(t), ~ TryGranted(t)
      PROVE  UNCHANGED grants
  BY <1>5 DEF Turn, TryRefused, DetectStart, WalkNext, WalkHolders, WalkCrash, WalkEnd,
              Poll, RaiseDeadlock, RaiseTimeout
<1>6. ASSUME NEW t \in Tx, Tick(t) \/ (\E r \in Resource, m \in Asked :
                                         Call(t, r, m))
      PROVE  UNCHANGED grants
  BY <1>6 DEF Tick, Call
<1>7. CASE UNCHANGED vars
  BY <1>7 DEF vars
<1> QED  BY <1>1, <1>2, <1>3, <1>4, <1>5, <1>6, <1>7 DEF Next, Ask

-----------------------------------------------------------------------------
\* The matrix is symmetric.
LEMMA CompatSymmetric == \A a, b \in Mode : Compat(a, b) <=> Compat(b, a)
BY DEF Compat, Mode

\* A grant makes a holder of the requested resource, in the mode that was
\* compared with the other holders, and changes no one else.
LEMMA GrantEffect ==
  ASSUME TypeInv, NEW t \in Tx, GrantStep(t)
  PROVE  LET r == req[t].res
             m == req[t].mode
             desired == IF grants[r][t].count > 0 THEN Stronger(grants[r][t].mode, m) ELSE m
         IN /\ r \in Resource /\ m \in Mode /\ desired \in Mode
            /\ grants'[r][t].mode = desired
            /\ grants'[r][t].count = grants[r][t].count + 1
            /\ \A q \in Resource, u \in Tx :
                 q # r \/ u # t => grants'[q][u] = grants[q][u]
            /\ \A u \in Holders(r) \ {t} : Compat(grants[r][u].mode, desired)
<1> DEFINE r == req[t].res
           m == req[t].mode
<1>1. r \in Resource /\ m \in Mode
  BY DEF GrantStep, TypeInv, CallInv, TypeOK, Request
<1>2. grants \in [Resource -> [Tx -> Grant]]
  BY DEF TypeInv, TypeOK
<1>3. grants[r][t].mode \in Mode
  BY <1>1, <1>2 DEF Grant
<1>4. Stronger(grants[r][t].mode, m) \in Mode
  BY <1>1, <1>3, StrongerType
<1>5. grants' = [grants EXCEPT ![r][t] = Granted(t, r, m)]
  BY DEF GrantStep
<1>6. grants'[r][t] = Granted(t, r, m)
  BY <1>1, <1>2, <1>5
<1>7. \A q \in Resource, u \in Tx : q # r \/ u # t => grants'[q][u] = grants[q][u]
  BY <1>1, <1>2, <1>5
<1>8. CanGrant(t, r, m)
  BY DEF GrantStep
<1> HIDE DEF r, m
<1> QED  BY <1>1, <1>4, <1>6, <1>7, <1>8 DEF Granted, CanGrant, r, m

LEMMA CompatStep == TypeInv /\ GrantsCompatible /\ [Next]_vars => GrantsCompatible'
<1> SUFFICES ASSUME TypeInv, GrantsCompatible, [Next]_vars
             PROVE  GrantsCompatible'
  OBVIOUS
<1>0. grants \in [Resource -> [Tx -> Grant]]
  BY DEF TypeInv, TypeOK
\* A step that leaves every remaining holder its mode keeps the invariant.
<1>1. ASSUME \A r \in Resource, t \in Tx :
               grants'[r][t].count > 0 => /\ grants[r][t].count > 0
                                          /\ grants'[r][t].mode = grants[r][t].mode
      PROVE  GrantsCompatible'
  BY <1>1 DEF GrantsCompatible, Holders
<1>2. CASE UNCHANGED grants
  BY <1>1, <1>2
<1>3. CASE ResetStep
  BY <1>1, <1>3 DEF ResetStep, NotHeld
<1>4. ASSUME NEW t \in Tx, DropAllStep(t)
      PROVE  GrantsCompatible'
  BY <1>0, <1>1, <1>4 DEF DropAllStep, NotHeld
<1>5. ASSUME NEW t \in Tx, NEW r \in Resource, DropStep(t, r)
      PROVE  GrantsCompatible'
  <2>1. \A q \in Resource, u \in Tx : q # r \/ u # t => grants'[q][u] = grants[q][u]
    BY <1>0, <1>5 DEF DropStep
  <2>2. grants'[r][t].count > 0 => grants'[r][t].mode = grants[r][t].mode
    BY <1>5 DEF DropStep, NotHeld
  <2>3. grants[r][t].count > 0
    BY <1>5 DEF DropStep
  <2> QED  BY <1>1, <2>1, <2>2, <2>3
<1>6. ASSUME NEW t \in Tx, GrantStep(t)
      PROVE  GrantsCompatible'
  <2> DEFINE r == req[t].res
             m == req[t].mode
             desired == IF grants[r][t].count > 0 THEN Stronger(grants[r][t].mode, m) ELSE m
  <2>1. /\ r \in Resource /\ desired \in Mode
        /\ grants'[r][t].mode = desired
        /\ \A q \in Resource, u \in Tx : q # r \/ u # t => grants'[q][u] = grants[q][u]
        /\ \A u \in Holders(r) \ {t} : Compat(grants[r][u].mode, desired)
    BY <1>6, GrantEffect
  <2> HIDE DEF r, m, desired
  <2> SUFFICES ASSUME NEW q \in Resource, NEW a \in Holders(q)', NEW b \in Holders(q)', a # b
               PROVE  Compat(grants'[q][a].mode, grants'[q][b].mode)
    BY DEF GrantsCompatible
  <2>2. a \in Tx /\ b \in Tx
    BY DEF Holders
  <2>3. \A u \in {a, b} : u # t \/ q # r => u \in Holders(q)
    BY <2>1, <2>2 DEF Holders
  <2>4. CASE q = r /\ a = t
    <3>1. Compat(grants[r][b].mode, desired)
      BY <2>1, <2>3, <2>4
    <3>2. grants[r][b].mode \in Mode
      BY <1>0, <2>1, <2>2 DEF Grant
    <3> QED  BY <2>1, <2>2, <2>4, <3>1, <3>2, CompatSymmetric
  <2>5. CASE q = r /\ b = t
    BY <2>1, <2>2, <2>3, <2>5
  <2>6. CASE q # r \/ (a # t /\ b # t)
    BY <2>1, <2>2, <2>3, <2>6 DEF GrantsCompatible
  <2> QED  BY <2>4, <2>5, <2>6
<1> QED  BY <1>2, <1>3, <1>4, <1>5, <1>6, GrantSteps

\* No two transactions ever hold incompatible locks of one resource.
THEOREM Compatible == Spec => []GrantsCompatible
<1>1. Init => GrantsCompatible
  BY DEF Init, GrantsCompatible, Holders, NotHeld
<1> QED  BY <1>1, CompatStep, TypeInvariant, PTL DEF Spec

-----------------------------------------------------------------------------
LEMMA StrongerAtLeast ==
  ASSUME NEW a \in Mode, NEW b \in Mode
  PROVE  Priority[Stronger(a, b)] >= Priority[a]
BY DEF Stronger, Priority, Mode

LEMMA KeptStep == TypeInv /\ [Next]_vars => [GrantsKept]_vars
<1> SUFFICES ASSUME TypeInv, [Next]_vars
             PROVE  GrantsKept
  OBVIOUS
<1>0. grants \in [Resource -> [Tx -> Grant]]
  BY DEF TypeInv, TypeOK
<1>1. \A r \in Resource, t \in Tx : Priority[grants[r][t].mode] \in Nat
  BY <1>0 DEF Grant, Priority, Mode
<1>2. CASE UNCHANGED grants
  BY <1>1, <1>2 DEF GrantsKept
<1>3. CASE ResetStep
  BY <1>3 DEF ResetStep, GrantsKept
<1>4. ASSUME NEW t \in Tx, DropAllStep(t)
      PROVE  GrantsKept
  <2>1. \A q \in Resource, u \in Tx : u # t => grants'[q][u] = grants[q][u]
    BY <1>0, <1>4 DEF DropAllStep
  <2>2. pc[t] = "idle" /\ pc'[t] = "idle"
    BY <1>4 DEF DropAllStep
  <2> QED  BY <1>1, <2>1, <2>2 DEF GrantsKept
<1>5. ASSUME NEW t \in Tx, NEW r \in Resource, DropStep(t, r)
      PROVE  GrantsKept
  <2>1. \A q \in Resource, u \in Tx : q # r \/ u # t => grants'[q][u] = grants[q][u]
    BY <1>0, <1>5 DEF DropStep
  <2>2. pc[t] = "idle" /\ pc'[t] = "idle"
    BY <1>5 DEF DropStep
  <2> QED  BY <1>1, <2>1, <2>2 DEF GrantsKept
<1>6. ASSUME NEW t \in Tx, GrantStep(t)
      PROVE  GrantsKept
  <2> DEFINE r == req[t].res
             m == req[t].mode
  <2>1. /\ r \in Resource /\ m \in Mode
        /\ grants[r][t].count > 0 => grants'[r][t].mode = Stronger(grants[r][t].mode, m)
        /\ grants'[r][t].count = grants[r][t].count + 1
        /\ \A q \in Resource, u \in Tx : q # r \/ u # t => grants'[q][u] = grants[q][u]
    BY <1>6, GrantEffect
  <2> HIDE DEF r, m
  <2>2. grants[r][t].mode \in Mode /\ grants[r][t].count \in Nat
    BY <1>0, <2>1 DEF Grant
  <2>3. Priority[Stronger(grants[r][t].mode, m)] >= Priority[grants[r][t].mode]
    BY <2>1, <2>2, StrongerAtLeast
  <2>4. grants[r][t].count > 0 =>
          /\ grants'[r][t].count > 0
          /\ Priority[grants'[r][t].mode] >= Priority[grants[r][t].mode]
    BY <2>1, <2>2, <2>3
  <2> QED  BY <1>1, <2>1, <2>4 DEF GrantsKept
<1> QED  BY <1>2, <1>3, <1>4, <1>5, <1>6, GrantSteps

\* A lock is lost or weakened only by its holder's release or by close.
THEOREM OnlyDropped == Spec => GrantsOnlyDropped
BY KeptStep, TypeInvariant, PTL DEF Spec, GrantsOnlyDropped

-----------------------------------------------------------------------------
\* The mode a transaction holds, as the abstract service sees it.
LEMMA HeldValue ==
  ASSUME NEW r \in Resource, NEW t \in Tx
  PROVE  HeldModes[r][t] = IF grants[r][t].count > 0 THEN grants[r][t].mode ELSE "none"
BY DEF HeldModes

LEMMA HeldValueNext ==
  ASSUME NEW r \in Resource, NEW t \in Tx
  PROVE  HeldModes'[r][t] = IF grants'[r][t].count > 0 THEN grants'[r][t].mode ELSE "none"
BY DEF HeldModes

\* A table of modes is determined by its entries.
LEMMA HeldModesEqual ==
  ASSUME NEW F, F \in [Resource -> [Tx -> Mode \cup {"none"}]], TypeInv',
         \A r \in Resource, t \in Tx : F[r][t] = HeldModes'[r][t]
  PROVE  HeldModes' = F
<1>1. HeldModes' \in [Resource -> [Tx -> Mode \cup {"none"}]]
  BY DEF HeldModes, TypeInv, TypeOK, Grant
<1>2. \A r \in Resource : F[r] = HeldModes'[r]
  BY <1>1
<1> QED  BY <1>1, <1>2

LEMMA RefineInit == Init => Service!ServiceInit
BY DEF Init, Service!ServiceInit, HeldModes, NotHeld

LEMMA RefineStep == TypeInv /\ TypeInv' /\ [Next]_vars => [Service!ServiceNext]_HeldModes
<1> SUFFICES ASSUME TypeInv, TypeInv', [Next]_vars
             PROVE  Service!ServiceNext \/ HeldModes' = HeldModes
  OBVIOUS
<1>0. /\ grants \in [Resource -> [Tx -> Grant]]
      /\ HeldModes \in [Resource -> [Tx -> Mode \cup {"none"}]]
  BY DEF TypeInv, TypeOK, Grant, HeldModes
<1>1. CASE UNCHANGED grants
  BY <1>1 DEF HeldModes
<1>2. CASE ResetStep
  <2>1. Service!Reset
    BY <1>2 DEF ResetStep, Service!Reset, HeldModes, NotHeld
  <2> QED  BY <2>1 DEF Service!ServiceNext
<1>3. ASSUME NEW t \in Tx, DropAllStep(t)
      PROVE  Service!ServiceNext
  <2> DEFINE F == [r \in Resource |-> [HeldModes[r] EXCEPT ![t] = "none"]]
  <2>1. F \in [Resource -> [Tx -> Mode \cup {"none"}]]
    BY <1>0
  <2>2. \A r \in Resource, u \in Tx : F[r][u] = HeldModes'[r][u]
    BY <1>0, <1>3, HeldValue, HeldValueNext DEF DropAllStep, NotHeld
  <2>3. HeldModes' = F
    <3> HIDE DEF F
    <3> QED  BY <2>1, <2>2, HeldModesEqual
  <2> QED  BY <2>3 DEF Service!ServiceNext, Service!DropAll
<1>4. ASSUME NEW t \in Tx, NEW r \in Resource, DropStep(t, r)
      PROVE  Service!ServiceNext \/ HeldModes' = HeldModes
  <2>1. \A q \in Resource, u \in Tx : q # r \/ u # t => grants'[q][u] = grants[q][u]
    BY <1>0, <1>4 DEF DropStep
  <2>2. grants[r][t].count > 0
    BY <1>4 DEF DropStep
  <2>3. CASE grants'[r][t] = NotHeld
    <3> DEFINE F == [HeldModes EXCEPT ![r][t] = "none"]
    <3>1. F \in [Resource -> [Tx -> Mode \cup {"none"}]]
      BY <1>0
    <3>2. \A q \in Resource, u \in Tx : F[q][u] = HeldModes'[q][u]
      BY <1>0, <2>1, <2>3, HeldValue, HeldValueNext DEF NotHeld
    <3>3. HeldModes' = F
      BY <3>1, <3>2, HeldModesEqual
    <3> QED  BY <3>3 DEF Service!ServiceNext, Service!Drop
  <2>4. CASE grants'[r][t].mode = grants[r][t].mode /\ grants'[r][t].count > 0
    <3>1. \A q \in Resource, u \in Tx : HeldModes[q][u] = HeldModes'[q][u]
      BY <2>1, <2>2, <2>4, HeldValue, HeldValueNext
    <3>2. HeldModes' = HeldModes
      BY <1>0, <3>1, HeldModesEqual
    <3> QED  BY <3>2
  <2> QED  BY <1>4, <2>3, <2>4 DEF DropStep
<1>5. ASSUME NEW t \in Tx, GrantStep(t)
      PROVE  Service!ServiceNext
  <2> DEFINE r == req[t].res
             m == req[t].mode
             desired == IF grants[r][t].count > 0 THEN Stronger(grants[r][t].mode, m) ELSE m
             F == [HeldModes EXCEPT ![r][t] = desired]
  <2>1. /\ r \in Resource /\ m \in Mode /\ desired \in Mode
        /\ grants'[r][t].mode = desired
        /\ grants'[r][t].count = grants[r][t].count + 1
        /\ \A q \in Resource, u \in Tx : q # r \/ u # t => grants'[q][u] = grants[q][u]
        /\ \A u \in Holders(r) \ {t} : Compat(grants[r][u].mode, desired)
    BY <1>5, GrantEffect
  <2> HIDE DEF r, m
  <2>2. grants[r][t].count \in Nat
    BY <1>0, <2>1 DEF Grant
  <2>3. F \in [Resource -> [Tx -> Mode \cup {"none"}]]
    BY <1>0, <2>1
  <2>4. grants'[r][t].count > 0
    BY <2>1, <2>2
  <2>5. \A q \in Resource, u \in Tx : F[q][u] = HeldModes'[q][u]
    <3> HIDE DEF desired
    <3> QED  BY <1>0, <2>1, <2>4, HeldValue, HeldValueNext
  <2>6. HeldModes' = F
    <3> HIDE DEF F
    <3> QED  BY <2>3, <2>5, HeldModesEqual
  <2>7. Service!Raised(t, r, m) = desired
    <3>1. grants[r][t].mode \in Mode /\ "none" \notin Mode
      BY <1>0, <2>1 DEF Grant, Mode
    <3>2. \A x \in Mode : Service!Stronger(x, m) = Stronger(x, m)
      BY DEF Service!Stronger, Stronger, Service!Priority, Priority, Service!Mode, Mode
    <3> QED  BY <2>1, <3>1, <3>2, HeldValue DEF Service!Raised
  <2>8. Service!CanHold(t, r, m)
    <3> HIDE DEF desired
    <3> SUFFICES ASSUME NEW u \in Tx \ {t}
                 PROVE  HeldModes[r][u] = "none" \/ Compat(HeldModes[r][u], desired)
      BY <2>7 DEF Service!CanHold, Service!Compat, Compat
    <3>1. CASE grants[r][u].count > 0
      BY <2>1, <3>1, HeldValue DEF Holders
    <3>2. CASE ~ (grants[r][u].count > 0)
      BY <2>1, <3>2, HeldValue
    <3> QED  BY <3>1, <3>2
  <2>9. Service!Obtain(t, r, m)
    BY <2>6, <2>7, <2>8 DEF Service!Obtain
  <2>10. m \in Service!Mode
    BY <2>1 DEF Mode, Service!Mode
  <2> QED  BY <2>1, <2>9, <2>10 DEF Service!ServiceNext
<1> QED  BY <1>1, <1>2, <1>3, <1>4, <1>5, GrantSteps

\* The polling lock manager, deadlock search and all, implements the atomic
\* lock service.
THEOREM Refinement == Spec => ServiceRefined
BY TypeInvariant, RefineInit, RefineStep, PTL
   DEF Spec, ServiceRefined, Service!ServiceSpec
=============================================================================
