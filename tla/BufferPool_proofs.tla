-------------------------- MODULE BufferPool_proofs -------------------------
(***************************************************************************)
(* Proofs about BufferPool, for every number of pages, threads, capacity   *)
(* and bound.  Three invariants are proved together.  Shape types the      *)
(* state and what a call knows at each of its steps.  Bound counts the     *)
(* pages in the pool with those on their way into it.  Calm says what a    *)
(* call may rely on as long as no other has met it: that its page is still *)
(* out of the pool, its victim still in it and unpinned, the position      *)
(* still where it left it.                                                 *)
(***************************************************************************)
EXTENDS BufferPool, FiniteSetTheorems, TLAPS

Holders(p) == {t \in Thread : <<t, p>> \in holds}

\* The steps that come after FindRoom and before Insert, with a victim to drop.
Evicting == {"flush", "reseek", "write", "clean", "drop"}
Fetching == {"room", "seek", "read", "insert"} \cup Evicting
Pinning  == Fetching \cup {"count", "store"}

\* A call knows the page and the victim its step needs; beyond the end of the
\* file there are zeros.
Fit(c) ==
  /\ c.at \in {"room", "seek", "read", "insert", "count", "store", "lower", "drop"}
       => c.page \in Page
  /\ c.at \in Evicting => c.victim \in Page
  /\ c.at = "room" => c.victim = NoPage
Shape ==
  /\ TypeOK
  /\ \A t \in Thread : Fit(call[t])
  /\ \A p \in Page : p >= length => disk[p] = Zero

\* The threads whose page comes on top of what the pool has.
Brings(t) == \/ At(t, "insert")
             \/ call[t].at \in {"seek", "read"} /\ call[t].victim = NoPage
Bringing == {t \in Thread : Brings(t)}
Room  == Capacity + (IF overlapped THEN Cardinality(Thread) - 1 ELSE 0)
Bound == Cardinality(resident) + Cardinality(Bringing) <= Room

\* At most one thread is in a call.
Alone == \A t, u \in Thread : Busy(t) /\ Busy(u) => t = u

\* Pins are counted exactly, a pinned frame is in the pool, and a frame that is
\* neither flagged nor being changed is its page.
Counted ==
  /\ holds = live
  /\ \A p \in Page : pins[p] = Cardinality(Holders(p))
  /\ \A p \in Page : pins[p] > 0 => p \in resident
Saved ==
  /\ dirty \subseteq resident
  /\ \A p \in resident : p \notin dirty /\ (\A t \in Thread : <<t, p>> \notin edited)
                           => frame[p] = disk[p]

\* What the call of t may rely on: of the page it pins, of its victim, of the
\* position and of the copies it has made.
PageKnown(t) ==
  LET c == call[t] IN
  /\ c.at \in Pinning /\ c.page # NoPage => <<t, c.page>> \notin holds
  /\ c.at \in Fetching /\ c.page # NoPage => c.page \notin resident
  /\ c.at \in {"count", "store"} => c.page \in resident
  /\ c.at = "store" => c.seen = pins[c.page]
  /\ c.at = "lower" => <<t, c.page>> \in holds
  /\ c.at = "lower" /\ <<t, c.page>> \in edited => c.page \in dirty
VictimKnown(t) ==
  LET c == call[t] IN
  /\ c.at \in {"seek", "read"} \cup Evicting /\ c.victim # NoPage => c.victim \in resident
  /\ c.at \in {"seek", "read"} \cup Evicting /\ c.victim # NoPage /\ c.page # NoPage
       => pins[c.victim] = 0
  /\ c.at \in {"reseek", "write"} => c.victim \in dirty
  /\ c.at = "drop" => c.victim \notin dirty
CopiesKnown(t) ==
  LET c == call[t] IN
  /\ c.at = "read" => position = c.page
  /\ c.at = "extend" => position = length
  /\ c.at = "write" => position = c.victim
  /\ c.at \in {"reseek", "write"} => c.out = frame[c.victim]
  /\ c.at = "clean" => frame[c.victim] = disk[c.victim]
  /\ c.at \in Evicting \cup {"insert"} /\ c.page # NoPage => c.data = disk[c.page]
Known(t) == PageKnown(t) /\ VictimKnown(t) /\ CopiesKnown(t)

Calm == ~overlapped => Alone /\ Counted /\ Saved /\ \A t \in Thread : Known(t)

PoolInv == Shape /\ Bound /\ Calm

-----------------------------------------------------------------------------
LEMMA PagesFinite == ASSUME NEW S \in SUBSET Page
                     PROVE  IsFiniteSet(S) /\ Cardinality(S) \in Nat
<1>1. IsFiniteSet(Page)
  BY ConstantsAssumption, FS_Interval DEF Page
<1>2. IsFiniteSet(S)
  BY <1>1, FS_Subset
<1> QED BY <1>2, FS_CardinalityType

LEMMA ThreadsFinite == ASSUME NEW S \in SUBSET Thread
                       PROVE  /\ IsFiniteSet(S) /\ Cardinality(S) \in Nat
                              /\ Cardinality(S) <= Cardinality(Thread)
                              /\ Cardinality(Thread) \in Nat \ {0}
<1>1. IsFiniteSet(Thread) /\ Thread # {}
  BY ConstantsAssumption
<1>2. IsFiniteSet(S) /\ Cardinality(S) <= Cardinality(Thread)
  BY <1>1, FS_Subset
<1>3. Cardinality(S) \in Nat /\ Cardinality(Thread) \in Nat
  BY <1>1, <1>2, FS_CardinalityType
<1>4. Cardinality(Thread) # 0
  BY <1>1, FS_EmptySet
<1> QED BY <1>2, <1>3, <1>4

LEMMA NewestType == ASSUME NEW R \in SUBSET Page, NEW p \in Page, older \subseteq Page \X Page
                    PROVE  Newest(R, p) \subseteq Page \X Page
BY DEF Newest


-----------------------------------------------------------------------------
LEMMA IdleType == Idle \in Call
BY ConstantsAssumption DEF Idle, Call, Steps

\* What each way of moving on does to the calls.
LEMMA OnGo ==
  ASSUME TypeOK, NEW t \in Thread, NEW step \in Steps, Go(t, step)
  PROVE  /\ call' \in [Thread -> Call]
         /\ call'[t] = [call[t] EXCEPT !.at = step]
         /\ call'[t].at = step /\ call'[t].page = call[t].page /\ call'[t].victim = call[t].victim
         /\ call'[t].data = call[t].data /\ call'[t].out = call[t].out
         /\ call'[t].seen = call[t].seen
         /\ \A u \in Thread \ {t} : call'[u] = call[u]
<1>1. call[t] \in Call
  BY DEF TypeOK
<1>2. [call[t] EXCEPT !.at = step] \in Call
  BY <1>1 DEF Call
<1>3. call' \in [Thread -> Call] /\ call'[t] = [call[t] EXCEPT !.at = step]
      /\ \A u \in Thread \ {t} : call'[u] = call[u]
  BY <1>2 DEF TypeOK, Go
<1> QED BY <1>1, <1>3 DEF Call

LEMMA OnReturn ==
  ASSUME TypeOK, NEW t \in Thread, Return(t)
  PROVE  /\ call' \in [Thread -> Call]
         /\ call'[t] = Idle /\ call'[t].at = "idle"
         /\ \A u \in Thread \ {t} : call'[u] = call[u]
BY IdleType DEF TypeOK, Return, Idle

LEMMA OnEnter ==
  ASSUME TypeOK, NEW t \in Thread, NEW step \in Steps,
         NEW p \in Page \cup {NoPage}, NEW v \in Page \cup {NoPage}, Enter(t, step, p, v)
  PROVE  /\ call' \in [Thread -> Call]
         /\ call[t].at = "idle"
         /\ call'[t].at = step /\ call'[t].page = p /\ call'[t].victim = v
         /\ \A u \in Thread \ {t} : call'[u] = call[u]
         /\ overlapped' \in BOOLEAN
         /\ ~overlapped' => ~overlapped /\ \A u \in Thread \ {t} : call[u].at = "idle"
<1>1. [Idle EXCEPT !.at = step, !.page = p, !.victim = v] \in Call
  BY IdleType DEF Call
<1>2. call' \in [Thread -> Call]
      /\ call'[t] = [Idle EXCEPT !.at = step, !.page = p, !.victim = v]
      /\ \A u \in Thread \ {t} : call'[u] = call[u]
  BY <1>1 DEF TypeOK, Enter
<1>3. call'[t].at = step /\ call'[t].page = p /\ call'[t].victim = v
  BY <1>2 DEF Idle
<1>4. /\ call[t].at = "idle" /\ overlapped' \in BOOLEAN
      /\ ~overlapped' => ~overlapped /\ \A u \in Thread \ {t} : call[u].at = "idle"
  BY DEF TypeOK, Enter, Meets, Busy, At
<1> QED BY <1>2, <1>3, <1>4

LEMMA PoolInit == Init => PoolInv
<1> SUFFICES ASSUME Init PROVE PoolInv
  OBVIOUS
<1>1. Shape
  <2>1. TypeOK
    <3>2. call \in [Thread -> Call]
      BY IdleType, Zenon DEF Init
    <3>3. 0 \in 0 .. MaxPages
      BY ConstantsAssumption
    <3> QED BY <3>2, <3>3, ConstantsAssumption DEF Init, TypeOK
  <2> QED BY <2>1 DEF Init, Shape, Fit, Idle, Evicting
<1>2. Bound
  <2>1. Bringing = {}
    BY DEF Init, Bringing, Brings, At, Idle
  <2> QED BY <2>1, FS_EmptySet, ConstantsAssumption DEF Init, Bound, Room
<1>3. Calm
  <2>1. Alone
    BY DEF Init, Alone, Busy, At, Idle
  <2>2. Counted
    <3>1. \A p : Holders(p) = {}
      BY DEF Init, Holders
    <3> QED BY <3>1, FS_EmptySet DEF Init, Counted
  <2>3. Saved
    BY DEF Init, Saved
  <2>4. \A t \in Thread : Known(t)
    BY DEF Init, Known, PageKnown, VictimKnown, CopiesKnown, Idle, Pinning, Fetching, Evicting
  <2> QED BY <2>1, <2>2, <2>3, <2>4 DEF Calm
<1> QED BY <1>1, <1>2, <1>3 DEF PoolInv


\* A step of t that moves its call on as told keeps the calls well formed.
LEMMA FitStep ==
  ASSUME Shape, NEW t \in Thread, call' \in [Thread -> Call], Fit(call'[t]),
         \A u \in Thread \ {t} : call'[u] = call[u]
  PROVE  \A u \in Thread : Fit(call[u])'
<1> SUFFICES ASSUME NEW u \in Thread PROVE Fit(call'[u])
  BY DEF Fit
<1>1. CASE u = t
  BY <1>1
<1>2. CASE u # t
  BY <1>2 DEF Shape
<1> QED BY <1>1, <1>2

\* WriteNext keeps the file well formed.
LEMMA OnWriteNext ==
  ASSUME Shape, NEW d \in Data, WriteNext(d)
  PROVE  /\ disk' \in [Page -> Data] /\ length' \in 0 .. MaxPages /\ position' \in 0 .. MaxPages
         /\ \A p \in Page : p >= length' => disk'[p] = Zero
<1>1. disk \in [Page -> Data] /\ length \in 0 .. MaxPages /\ position \in 0 .. MaxPages - 1
  BY DEF Shape, TypeOK, WriteNext, Page
<1>2. length' \in 0 .. MaxPages /\ position' \in 0 .. MaxPages /\ disk' \in [Page -> Data]
  BY <1>1, ConstantsAssumption DEF WriteNext
<1>3. ASSUME NEW p \in Page, p >= length' PROVE disk'[p] = Zero
  <2>1. p >= length /\ p # position
    BY <1>1, <1>3 DEF WriteNext, Page
  <2> QED BY <1>1, <2>1 DEF WriteNext, Shape
<1> QED BY <1>2, <1>3

LEMMA SeekFits == \A p \in Page : p \in 0 .. MaxPages
BY ConstantsAssumption DEF Page

LEMMA ShapeStep == Shape /\ [Next]_vars => Shape'
<1> SUFFICES ASSUME Shape, [Next]_vars PROVE Shape'
  OBVIOUS
<1>0. TypeOK /\ (\A t \in Thread : call[t] \in Call /\ Fit(call[t]))
  BY DEF Shape, TypeOK
<1> USE DEF At

<1>1. ASSUME NEW t \in Thread, Allocate(t) PROVE Shape'
  <2>1. call' \in [Thread -> Call] /\ Fit(call'[t]) /\ \A u \in Thread \ {t} : call'[u] = call[u]
    <3>1. Enter(t, "extend", NoPage, NoPage)
      BY <1>1 DEF Allocate
    <3>2. call' \in [Thread -> Call] /\ \A u \in Thread \ {t} : call'[u] = call[u]
      BY <1>0, <3>1, OnEnter DEF Steps
    <3>3. Fit(call'[t])
      BY <1>0, <1>1, <3>1, OnEnter DEF Allocate, Fit, Steps, Evicting
    <3> QED BY <3>2, <3>3
  <2>2. \A u \in Thread : Fit(call[u])'
    BY <2>1, FitStep
  <2> QED BY <1>0, <1>1, <2>1, <2>2 DEF Allocate, Enter, Meets, Seek, Shape, TypeOK, file, pool,
                                        clients

<1>2. ASSUME NEW t \in Thread, Extend(t) PROVE Shape'
  <2>1. call' \in [Thread -> Call] /\ Fit(call'[t]) /\ \A u \in Thread \ {t} : call'[u] = call[u]
    <3>1. Go(t, "extended")
      BY <1>2 DEF Extend
    <3>2. call' \in [Thread -> Call] /\ \A u \in Thread \ {t} : call'[u] = call[u]
      BY <1>0, <3>1, OnGo DEF Steps
    <3>3. Fit(call'[t])
      BY <1>0, <1>2, <3>1, OnGo DEF Extend, Fit, Steps, Evicting
    <3> QED BY <3>2, <3>3
  <2>2. \A u \in Thread : Fit(call[u])'
    BY <2>1, FitStep
  <2>3. Zero \in Data /\ WriteNext(Zero)
    BY <1>0, <1>2, ConstantsAssumption DEF Extend, Call
  <2>4. /\ disk' \in [Page -> Data] /\ length' \in 0 .. MaxPages /\ position' \in 0 .. MaxPages
        /\ \A p \in Page : p >= length' => disk'[p] = Zero
    BY <2>3, OnWriteNext
  <2>5. UNCHANGED <<count, pool, clients, overlapped>>
    BY <1>2 DEF Extend, WriteNext
  <2> QED BY <1>0, <2>1, <2>2, <2>4, <2>5 DEF Shape, TypeOK, pool, clients

<1>3. ASSUME NEW t \in Thread, Allocated(t) PROVE Shape'
  <2>1. call' \in [Thread -> Call] /\ Fit(call'[t]) /\ \A u \in Thread \ {t} : call'[u] = call[u]
    BY <1>0, <1>3, OnReturn DEF Allocated, Fit, Steps, Idle, Call, Evicting
  <2>2. \A u \in Thread : Fit(call[u])'
    BY <2>1, FitStep
  <2> QED BY <1>0, <1>3, <2>1, <2>2 DEF Allocated, Shape, TypeOK, file, pool, clients

<1>4. ASSUME NEW t \in Thread, NEW p \in Page, PinHit(t, p) PROVE Shape'
  <2>1. call' \in [Thread -> Call] /\ Fit(call'[t]) /\ \A u \in Thread \ {t} : call'[u] = call[u]
    <3>1. Enter(t, "count", p, NoPage)
      BY <1>4 DEF PinHit
    <3>2. call' \in [Thread -> Call] /\ \A u \in Thread \ {t} : call'[u] = call[u]
      BY <1>0, <3>1, OnEnter DEF Steps
    <3>3. Fit(call'[t])
      BY <1>0, <1>4, <3>1, OnEnter DEF PinHit, Fit, Steps, Evicting
    <3> QED BY <3>2, <3>3
  <2>2. \A u \in Thread : Fit(call[u])'
    BY <2>1, FitStep
  <2> QED BY <1>0, <1>4, <2>1, <2>2, NewestType DEF PinHit, Enter, Meets, Shape, TypeOK, file,
                                                    pool, clients

<1>5. ASSUME NEW t \in Thread, NEW p \in Page, PinMiss(t, p) PROVE Shape'
  <2>1. call' \in [Thread -> Call] /\ Fit(call'[t]) /\ \A u \in Thread \ {t} : call'[u] = call[u]
    <3>1. Enter(t, "room", p, NoPage)
      BY <1>5 DEF PinMiss
    <3>2. call' \in [Thread -> Call] /\ \A u \in Thread \ {t} : call'[u] = call[u]
      BY <1>0, <3>1, OnEnter DEF Steps
    <3>3. Fit(call'[t])
      BY <1>0, <1>5, <3>1, OnEnter DEF PinMiss, Fit, Steps, Evicting
    <3> QED BY <3>2, <3>3
  <2>2. \A u \in Thread : Fit(call[u])'
    BY <2>1, FitStep
  <2> QED BY <1>0, <1>5, <2>1, <2>2 DEF PinMiss, Enter, Meets, Shape, TypeOK, file, pool, clients

<1>6. ASSUME NEW t \in Thread, FindRoom(t) PROVE Shape'
  <2>1. call' \in [Thread -> Call] /\ Fit(call'[t]) /\ \A u \in Thread \ {t} : call'[u] = call[u]
    <3>1. CASE Go(t, "seek")
      <4>1. call' \in [Thread -> Call] /\ \A u \in Thread \ {t} : call'[u] = call[u]
        BY <1>0, <3>1, OnGo DEF Steps
      <4>2. Fit(call'[t])
        BY <1>0, <1>6, <3>1, OnGo DEF FindRoom, Fit, Steps, Evicting
      <4> QED BY <4>1, <4>2
    <3>2. ASSUME NEW v \in Page, call' = [call EXCEPT ![t].at = "seek", ![t].victim = v]
         
         
         
         
         
         
         
         
         
         
         
         
         
         
         
         
         
         
         
         
          PROVE  call' \in [Thread -> Call] /\ Fit(call'[t]) /\ \A u \in Thread \ {t} : call'[u] = call[u]
      <4>1. [call[t] EXCEPT !.at = "seek", !.victim = v] \in Call
        BY <1>0 DEF Call, Steps
      <4>2. call' \in [Thread -> Call] /\ \A u \in Thread \ {t} : call'[u] = call[u]
        BY <1>0, <3>2, <4>1 DEF TypeOK
      <4>3. call'[t] = [call[t] EXCEPT !.at = "seek", !.victim = v]
        BY <1>0, <3>2 DEF TypeOK
      <4> QED BY <1>0, <1>6, <4>2, <4>3 DEF FindRoom, Fit, Steps, Idle, Call, Evicting
    <3> QED BY <1>6, <3>1, <3>2 DEF FindRoom
  <2>2. \A u \in Thread : Fit(call[u])'
    BY <2>1, FitStep
  <2> QED BY <1>0, <1>6, <2>1, <2>2 DEF FindRoom, Shape, TypeOK, file, pool, clients

<1>7. ASSUME NEW t \in Thread, NoVictim(t) PROVE Shape'
  <2>1. call' \in [Thread -> Call] /\ Fit(call'[t]) /\ \A u \in Thread \ {t} : call'[u] = call[u]
    BY <1>0, <1>7, OnReturn DEF NoVictim, Fit, Steps, Idle, Call, Evicting
  <2>2. \A u \in Thread : Fit(call[u])'
    BY <2>1, FitStep
  <2> QED BY <1>0, <1>7, <2>1, <2>2 DEF NoVictim, Shape, TypeOK, file, pool, clients

<1>8. ASSUME NEW t \in Thread, SeekPage(t) PROVE Shape'
  <2>1. call' \in [Thread -> Call] /\ Fit(call'[t]) /\ \A u \in Thread \ {t} : call'[u] = call[u]
    <3>1. Go(t, "read")
      BY <1>8 DEF SeekPage
    <3>2. call' \in [Thread -> Call] /\ \A u \in Thread \ {t} : call'[u] = call[u]
      BY <1>0, <3>1, OnGo DEF Steps
    <3>3. Fit(call'[t])
      BY <1>0, <1>8, <3>1, OnGo DEF SeekPage, Fit, Steps, Evicting
    <3> QED BY <3>2, <3>3
  <2>2. \A u \in Thread : Fit(call[u])'
    BY <2>1, FitStep
  <2> QED BY <1>0, <1>8, <2>1, <2>2, SeekFits DEF SeekPage, Seek, Fit, Shape, TypeOK, file, pool,
                                                  clients

<1>9. ASSUME NEW t \in Thread, Read(t) PROVE Shape'
  <2>0. position \in Page /\ position + 1 \in 0 .. MaxPages
    BY <1>0, <1>9, ConstantsAssumption DEF Read, TypeOK, Page
  <2>a. disk[position] \in Data
    BY <1>0, <2>0 DEF TypeOK
  <2>b. [call[t] EXCEPT !.data = disk[position],
                        !.at = IF call[t].victim = NoPage THEN "insert" ELSE "flush"] \in Call
    BY <1>0, <2>a DEF Call, Steps
  <2>c. call'[t] = [call[t] EXCEPT !.data = disk[position],
                       !.at = IF call[t].victim = NoPage THEN "insert" ELSE "flush"]
    BY <1>0, <1>9 DEF Read, TypeOK
  <2>1. call' \in [Thread -> Call] /\ Fit(call'[t]) /\ \A u \in Thread \ {t} : call'[u] = call[u]
    <3>1. call' \in [Thread -> Call] /\ \A u \in Thread \ {t} : call'[u] = call[u]
      BY <1>0, <1>9, <2>b DEF Read, TypeOK
    <3>2. /\ call'[t].page = call[t].page /\ call'[t].victim = call[t].victim
          /\ call'[t].at = IF call[t].victim = NoPage THEN "insert" ELSE "flush"
      BY <1>0, <2>c DEF Call
    <3>3. Fit(call'[t])
      BY <1>0, <1>9, <3>2 DEF Read, Fit, Call, Evicting
    <3> QED BY <3>1, <3>3
  <2>2. \A u \in Thread : Fit(call[u])'
    BY <2>1, FitStep
  <2> QED BY <1>0, <1>9, <2>0, <2>1, <2>2 DEF Read, Shape, TypeOK, pool, clients

<1>10. ASSUME NEW t \in Thread, ShortRead(t) PROVE Shape'
  <2>1. call' \in [Thread -> Call] /\ Fit(call'[t]) /\ \A u \in Thread \ {t} : call'[u] = call[u]
    BY <1>0, <1>10, OnReturn DEF ShortRead, Fit, Steps, Idle, Call, Evicting
  <2>2. \A u \in Thread : Fit(call[u])'
    BY <2>1, FitStep
  <2> QED BY <1>0, <1>10, <2>1, <2>2 DEF ShortRead, Shape, TypeOK, file, pool, clients

<1>11. ASSUME NEW t \in Thread, Drop(t) PROVE Shape'
  <2>1. call' \in [Thread -> Call] /\ Fit(call'[t]) /\ \A u \in Thread \ {t} : call'[u] = call[u]
    <3>1. Go(t, "insert")
      BY <1>11 DEF Drop
    <3>2. call' \in [Thread -> Call] /\ \A u \in Thread \ {t} : call'[u] = call[u]
      BY <1>0, <3>1, OnGo DEF Steps
    <3>3. Fit(call'[t])
      BY <1>0, <1>11, <3>1, OnGo DEF Drop, Fit, Steps, Evicting
    <3> QED BY <3>2, <3>3
  <2>2. \A u \in Thread : Fit(call[u])'
    BY <2>1, FitStep
  <2> QED BY <1>0, <1>11, <2>1, <2>2, ConstantsAssumption DEF Drop, Shape, TypeOK, file, pool,
             clients

<1>12. ASSUME NEW t \in Thread, Insert(t) PROVE Shape'
  <2>1. call' \in [Thread -> Call] /\ Fit(call'[t]) /\ \A u \in Thread \ {t} : call'[u] = call[u]
    <3>1. Go(t, "count")
      BY <1>12 DEF Insert
    <3>2. call' \in [Thread -> Call] /\ \A u \in Thread \ {t} : call'[u] = call[u]
      BY <1>0, <3>1, OnGo DEF Steps
    <3>3. Fit(call'[t])
      BY <1>0, <1>12, <3>1, OnGo DEF Insert, Fit, Steps, Evicting
    <3> QED BY <3>2, <3>3
  <2>2. \A u \in Thread : Fit(call[u])'
    BY <2>1, FitStep
  <2> QED BY <1>0, <1>12, <2>1, <2>2, NewestType DEF Insert, Fit, Call, Shape, TypeOK, file, pool,
                                                     clients

<1>13. ASSUME NEW t \in Thread, CountPins(t) PROVE Shape'
  <2>a. pins[call[t].page] \in Nat
    BY <1>0, <1>13 DEF CountPins, Fit, TypeOK
  <2>b. [call[t] EXCEPT !.seen = pins[call[t].page], !.at = "store"] \in Call
    BY <1>0, <2>a DEF Call, Steps
  <2>c. call'[t] = [call[t] EXCEPT !.seen = pins[call[t].page], !.at = "store"]
    BY <1>0, <1>13 DEF CountPins, TypeOK
  <2>1. call' \in [Thread -> Call] /\ Fit(call'[t]) /\ \A u \in Thread \ {t} : call'[u] = call[u]
    BY <1>0, <1>13, <2>b, <2>c DEF CountPins, TypeOK, Fit, Steps, Idle, Call, Evicting
  <2>2. \A u \in Thread : Fit(call[u])'
    BY <2>1, FitStep
  <2> QED BY <1>0, <1>13, <2>1, <2>2 DEF CountPins, Shape, TypeOK, file, pool, clients

<1>14. ASSUME NEW t \in Thread, AddPin(t) PROVE Shape'
  <2>1. call' \in [Thread -> Call] /\ Fit(call'[t]) /\ \A u \in Thread \ {t} : call'[u] = call[u]
    BY <1>0, <1>14, OnReturn DEF AddPin, Fit, Steps, Idle, Call, Evicting
  <2>2. \A u \in Thread : Fit(call[u])'
    BY <2>1, FitStep
  <2> QED BY <1>0, <1>14, <2>1, <2>2 DEF AddPin, Fit, Call, Shape, TypeOK, file, pool, clients

<1>15. ASSUME NEW t \in Thread, NEW p \in Page, Flush(t, p) PROVE Shape'
  <2>1. call' \in [Thread -> Call] /\ Fit(call'[t]) /\ \A u \in Thread \ {t} : call'[u] = call[u]
    <3>1. Enter(t, "flush", NoPage, p)
      BY <1>15 DEF Flush
    <3>2. call' \in [Thread -> Call] /\ \A u \in Thread \ {t} : call'[u] = call[u]
      BY <1>0, <3>1, OnEnter DEF Steps
    <3>3. Fit(call'[t])
      BY <1>0, <1>15, <3>1, OnEnter DEF Flush, Fit, Steps, Evicting
    <3> QED BY <3>2, <3>3
  <2>2. \A u \in Thread : Fit(call[u])'
    BY <2>1, FitStep
  <2> QED BY <1>0, <1>15, <2>1, <2>2 DEF Flush, Enter, Meets, Shape, TypeOK, file, pool, clients

<1>16. ASSUME NEW t \in Thread, FlushClean(t) PROVE Shape'
  <2>1. call' \in [Thread -> Call] /\ Fit(call'[t]) /\ \A u \in Thread \ {t} : call'[u] = call[u]
    <3>1. CASE call[t].page = NoPage
      BY <1>0, <1>16, <3>1, OnReturn DEF FlushClean, Flushed, Fit, Steps, Idle, Call, Evicting
    <3>2. CASE call[t].page # NoPage
      <4>1. Go(t, "drop")
        BY <1>16, <3>2 DEF FlushClean, Flushed
      <4>2. call' \in [Thread -> Call] /\ \A u \in Thread \ {t} : call'[u] = call[u]
        BY <1>0, <4>1, OnGo DEF Steps
      <4>3. Fit(call'[t])
        BY <1>0, <1>16, <3>2, <4>1, OnGo DEF FlushClean, Fit, Steps, Evicting, Call
      <4> QED BY <4>2, <4>3
    <3> QED BY <3>1, <3>2
  <2>2. \A u \in Thread : Fit(call[u])'
    BY <2>1, FitStep
  <2> QED BY <1>0, <1>16, <2>1, <2>2 DEF FlushClean, Shape, TypeOK, file, pool, clients

<1>17. ASSUME NEW t \in Thread, Clean(t) PROVE Shape'
  <2>1. call' \in [Thread -> Call] /\ Fit(call'[t]) /\ \A u \in Thread \ {t} : call'[u] = call[u]
    <3>1. CASE call[t].page = NoPage
      BY <1>0, <1>17, <3>1, OnReturn DEF Clean, Flushed, Fit, Steps, Idle, Call, Evicting
    <3>2. CASE call[t].page # NoPage
      <4>1. Go(t, "drop")
        BY <1>17, <3>2 DEF Clean, Flushed
      <4>2. call' \in [Thread -> Call] /\ \A u \in Thread \ {t} : call'[u] = call[u]
        BY <1>0, <4>1, OnGo DEF Steps
      <4>3. Fit(call'[t])
        BY <1>0, <1>17, <3>2, <4>1, OnGo DEF Clean, Fit, Steps, Evicting, Call
      <4> QED BY <4>2, <4>3
    <3> QED BY <3>1, <3>2
  <2>2. \A u \in Thread : Fit(call[u])'
    BY <2>1, FitStep
  <2> QED BY <1>0, <1>17, <2>1, <2>2 DEF Clean, Shape, TypeOK, file, pool, clients

<1>18. ASSUME NEW t \in Thread, FlushDirty(t) PROVE Shape'
  <2>a. frame[call[t].victim] \in Data
    BY <1>0, <1>18 DEF FlushDirty, TypeOK
  <2>b. [call[t] EXCEPT !.out = frame[call[t].victim], !.at = "reseek"] \in Call
    BY <1>0, <2>a DEF Call, Steps
  <2>c. call'[t] = [call[t] EXCEPT !.out = frame[call[t].victim], !.at = "reseek"]
    BY <1>0, <1>18 DEF FlushDirty, TypeOK
  <2>1. call' \in [Thread -> Call] /\ Fit(call'[t]) /\ \A u \in Thread \ {t} : call'[u] = call[u]
    BY <1>0, <1>18, <2>b, <2>c DEF FlushDirty, TypeOK, Fit, Steps, Idle, Call, Evicting
  <2>2. \A u \in Thread : Fit(call[u])'
    BY <2>1, FitStep
  <2> QED BY <1>0, <1>18, <2>1, <2>2 DEF FlushDirty, Shape, TypeOK, file, pool, clients

<1>19. ASSUME NEW t \in Thread, VictimGone(t) PROVE Shape'
  <2>1. call' \in [Thread -> Call] /\ Fit(call'[t]) /\ \A u \in Thread \ {t} : call'[u] = call[u]
    BY <1>0, <1>19, OnReturn DEF VictimGone, Fit, Steps, Idle, Call, Evicting
  <2>2. \A u \in Thread : Fit(call[u])'
    BY <2>1, FitStep
  <2> QED BY <1>0, <1>19, <2>1, <2>2 DEF VictimGone, Shape, TypeOK, file, pool, clients

<1>20. ASSUME NEW t \in Thread, SeekVictim(t) PROVE Shape'
  <2>1. call' \in [Thread -> Call] /\ Fit(call'[t]) /\ \A u \in Thread \ {t} : call'[u] = call[u]
    <3>1. Go(t, "write")
      BY <1>20 DEF SeekVictim
    <3>2. call' \in [Thread -> Call] /\ \A u \in Thread \ {t} : call'[u] = call[u]
      BY <1>0, <3>1, OnGo DEF Steps
    <3>3. Fit(call'[t])
      BY <1>0, <1>20, <3>1, OnGo DEF SeekVictim, Fit, Steps, Evicting
    <3> QED BY <3>2, <3>3
  <2>2. \A u \in Thread : Fit(call[u])'
    BY <2>1, FitStep
  <2> QED BY <1>0, <1>20, <2>1, <2>2, SeekFits DEF SeekVictim, Seek, Fit, Evicting, Shape, TypeOK,
                                                   file, pool, clients

<1>21. ASSUME NEW t \in Thread, Write(t) PROVE Shape'
  <2>1. call' \in [Thread -> Call] /\ Fit(call'[t]) /\ \A u \in Thread \ {t} : call'[u] = call[u]
    <3>1. Go(t, "clean")
      BY <1>21 DEF Write
    <3>2. call' \in [Thread -> Call] /\ \A u \in Thread \ {t} : call'[u] = call[u]
      BY <1>0, <3>1, OnGo DEF Steps
    <3>3. Fit(call'[t])
      BY <1>0, <1>21, <3>1, OnGo DEF Write, Fit, Steps, Evicting
    <3> QED BY <3>2, <3>3
  <2>2. \A u \in Thread : Fit(call[u])'
    BY <2>1, FitStep
  <2>3. call[t].out \in Data /\ WriteNext(call[t].out)
    BY <1>0, <1>21, ConstantsAssumption DEF Write, Call
  <2>4. /\ disk' \in [Page -> Data] /\ length' \in 0 .. MaxPages /\ position' \in 0 .. MaxPages
        /\ \A p \in Page : p >= length' => disk'[p] = Zero
    BY <2>3, OnWriteNext
  <2>5. UNCHANGED <<count, pool, clients, overlapped>>
    BY <1>21 DEF Write, WriteNext
  <2> QED BY <1>0, <2>1, <2>2, <2>4, <2>5 DEF Shape, TypeOK, pool, clients

<1>22. ASSUME NEW t \in Thread, NEW p \in Page, NEW d \in Data, Edit(t, p, d) PROVE Shape'
  BY <1>0, <1>22 DEF Edit, Meets, Shape, TypeOK, file

<1>23. ASSUME NEW t \in Thread, NEW p \in Page, NEW changed \in BOOLEAN, Unpin(t, p, changed)
       PROVE Shape'
  <2>1. call' \in [Thread -> Call] /\ Fit(call'[t]) /\ \A u \in Thread \ {t} : call'[u] = call[u]
    <3>1. Enter(t, "lower", p, NoPage)
      BY <1>23 DEF Unpin
    <3>2. call' \in [Thread -> Call] /\ \A u \in Thread \ {t} : call'[u] = call[u]
      BY <1>0, <3>1, OnEnter DEF Steps
    <3>3. Fit(call'[t])
      BY <1>0, <1>23, <3>1, OnEnter DEF Unpin, Fit, Steps, Evicting
    <3> QED BY <3>2, <3>3
  <2>2. \A u \in Thread : Fit(call[u])'
    BY <2>1, FitStep
  <2> QED BY <1>0, <1>23, <2>1, <2>2 DEF Unpin, Flag, Enter, Meets, Shape, TypeOK, file, pool,
                                         clients

<1>24. ASSUME NEW t \in Thread, Lower(t) PROVE Shape'
  <2>1. call' \in [Thread -> Call] /\ Fit(call'[t]) /\ \A u \in Thread \ {t} : call'[u] = call[u]
    BY <1>0, <1>24, OnReturn DEF Lower, Fit, Steps, Idle, Call, Evicting
  <2>2. \A u \in Thread : Fit(call[u])'
    BY <2>1, FitStep
  <2>3. pins' \in [Page -> Nat]
    BY <1>0, <1>24 DEF Lower, Lowered, Fit, TypeOK
  <2> QED BY <1>0, <1>24, <2>1, <2>2, <2>3 DEF Lower, Shape, TypeOK, file

<1>25. ASSUME NEW t \in Thread, NEW p \in Page, UnpinRaises(t, p) PROVE Shape'
  BY <1>0, <1>25 DEF UnpinRaises, Shape, TypeOK, file, pool

<1>26. CASE Crash
  <2>1. call' \in [Thread -> Call] /\ \A t \in Thread : Fit(call'[t])
    BY <1>26, IdleType DEF Crash, Fit, Steps, Idle, Call, Evicting
  <2>2. count' \in Nat /\ position' \in 0 .. MaxPages
    BY <1>0, <1>26, ConstantsAssumption DEF Crash, TypeOK
  <2>3. /\ disk' \in [Page -> Data] /\ length' \in 0 .. MaxPages
        /\ \A p \in Page : p >= length' => disk'[p] = Zero
    BY <1>0, <1>26 DEF Crash, TypeOK, Shape
  <2> QED BY <1>26, <2>1, <2>2, <2>3, ConstantsAssumption DEF Crash, Shape, TypeOK

<1>27. CASE UNCHANGED vars
  BY <1>27 DEF vars, file, pool, clients, Shape, TypeOK

<1> QED BY <1>1, <1>2, <1>3, <1>4, <1>5, <1>6, <1>7, <1>8, <1>9, <1>10, <1>11, <1>12, <1>13,
           <1>14, <1>15, <1>16, <1>17, <1>18, <1>19, <1>20, <1>21, <1>22, <1>23, <1>24, <1>25, <1>26, <1>27 DEF Next, Work

-----------------------------------------------------------------------------
(* The size of the pool.                                                    *)

LEMMA RoomGrows == ASSUME TypeOK, TypeOK', overlapped => overlapped'
                   PROVE  Room \in Nat /\ Room' \in Nat /\ Room <= Room'
BY ThreadsFinite, ConstantsAssumption DEF Room, TypeOK

LEMMA BringingFinite == IsFiniteSet(Bringing) /\ Cardinality(Bringing) \in Nat
BY ThreadsFinite DEF Bringing

LEMMA BringingOthers ==
  ASSUME TypeOK, NEW t \in Thread, \A u \in Thread \ {t} : call'[u] = call[u]
  PROVE  Bringing' \ {t} = Bringing \ {t}
BY DEF Bringing, Brings, At

\* A step that brings nothing in, and nothing nearer, keeps within the bound.
LEMMA SameBound ==
  ASSUME Shape, Shape', Bound, NEW t \in Thread, \A u \in Thread \ {t} : call'[u] = call[u],
         Brings(t)' => Brings(t), resident' = resident, overlapped => overlapped'
  PROVE  Bound'
<1>1. TypeOK /\ TypeOK'
  BY DEF Shape
<1>2. Bringing' \subseteq Bringing
  BY <1>1, BringingOthers DEF Bringing
<1>3. /\ Cardinality(Bringing') <= Cardinality(Bringing)
      /\ Cardinality(Bringing) \in Nat /\ Cardinality(Bringing') \in Nat
  BY <1>2, BringingFinite, FS_Subset, FS_CardinalityType
<1>4. Cardinality(resident) \in Nat
  BY <1>1, PagesFinite DEF TypeOK
<1> QED BY <1>1, <1>3, <1>4, RoomGrows DEF Bound

\* One more page on its way.
LEMMA OneMore ==
  ASSUME TypeOK, TypeOK', NEW t \in Thread, \A u \in Thread \ {t} : call'[u] = call[u]
  PROVE  /\ Cardinality(Bringing') \in Nat /\ Cardinality(Bringing) \in Nat
         /\ Cardinality(Bringing') <= Cardinality(Bringing) + 1
<1>1. Bringing' \subseteq Bringing \cup {t}
  BY BringingOthers DEF Bringing
<1>2. IsFiniteSet(Bringing \cup {t}) /\ Cardinality(Bringing \cup {t}) <= Cardinality(Bringing) + 1
  BY BringingFinite, FS_AddElement
<1>3. IsFiniteSet(Bringing') /\ Cardinality(Bringing') <= Cardinality(Bringing \cup {t})
  BY <1>1, <1>2, FS_Subset
<1> QED BY <1>2, <1>3, BringingFinite, FS_CardinalityType

\* Every step of a call leaves the other calls alone.
LEMMA Frame ==
  ASSUME Shape, NEW t \in Thread, Work(t)
  PROVE  /\ \A u \in Thread \ {t} : call'[u] = call[u]
         /\ overlapped => overlapped'
<1>1. TypeOK
  BY DEF Shape
<1>2. overlapped => overlapped'
  BY DEF Work, Allocate, Extend, Allocated, FindRoom, NoVictim, SeekPage, Read, ShortRead, Drop,
         Insert, CountPins, AddPin, FlushClean, FlushDirty, VictimGone, SeekVictim, Write, Clean,
         Lower, Enter, Meets
<1>3. \A u \in Thread \ {t} : call'[u] = call[u]
  BY <1>1 DEF TypeOK, Work, Allocate, Extend, Allocated, FindRoom, NoVictim, SeekPage, Read,
              ShortRead, Drop, Insert, CountPins, AddPin, FlushClean, FlushDirty, VictimGone,
              SeekVictim, Write, Clean, Lower, Enter, Go, Return, Flushed
<1> QED BY <1>2, <1>3

LEMMA BoundStep == PoolInv /\ Shape' /\ [Next]_vars => Bound'
<1> SUFFICES ASSUME PoolInv, Shape', [Next]_vars PROVE Bound'
  OBVIOUS
<1>0. Shape /\ Bound /\ TypeOK /\ TypeOK'
  BY DEF PoolInv, Shape
<1> USE DEF At
<1>1. ASSUME NEW t \in Thread, FindRoom(t) PROVE Bound'
  <2>0. /\ \A u \in Thread \ {t} : call'[u] = call[u]
        /\ resident' = resident /\ overlapped' = overlapped
    BY <1>0, <1>1, Frame DEF FindRoom, pool, Work
  <2>1. CASE HasRoom
    <3>1. Cardinality(resident) \in Nat /\ Cardinality(resident) < Capacity
      BY <1>0, <2>1, PagesFinite DEF HasRoom, TypeOK
    <3>2. CASE overlapped
      <4>1. Cardinality(Bringing') \in Nat /\ Cardinality(Bringing') <= Cardinality(Thread)
        BY ThreadsFinite DEF Bringing
      <4>2. Cardinality(Thread) \in Nat
        BY ThreadsFinite
      <4>3. Cardinality(resident) + Cardinality(Bringing') <= Capacity + (Cardinality(Thread) - 1)
        BY <3>1, <4>1, <4>2, ConstantsAssumption
      <4> QED BY <2>0, <3>2, <4>3 DEF Bound, Room
    <3>3. CASE ~overlapped
      <4>1. \A u \in Thread \ {t} : ~Brings(u)
        BY <1>0, <1>1, <3>3 DEF PoolInv, Calm, Alone, Busy, Brings, FindRoom
      <4>2. Bringing \ {t} = {}
        BY <4>1 DEF Bringing
      <4>3. Bringing' \subseteq {t}
        BY <1>0, <2>0, <4>2, BringingOthers
      <4>4. Cardinality(Bringing') <= 1 /\ Cardinality(Bringing') \in Nat
        <5>1. IsFiniteSet({t}) /\ Cardinality({t}) = 1
          BY FS_Singleton
        <5>2. IsFiniteSet(Bringing') /\ Cardinality(Bringing') <= Cardinality({t})
          BY <4>3, <5>1, FS_Subset
        <5> QED BY <5>1, <5>2, FS_CardinalityType
      <4> QED BY <2>0, <3>1, <3>3, <4>4, ConstantsAssumption DEF Bound, Room
    <3> QED BY <3>2, <3>3
  <2>2. CASE ~HasRoom
    <3> PICK v \in Page : call' = [call EXCEPT ![t].at = "seek", ![t].victim = v]
      BY <1>1, <2>2 DEF FindRoom
    <3>1. call'[t].victim = v /\ call'[t].at = "seek"
      BY <1>0 DEF TypeOK, Call
    <3>2. ~Brings(t)'
      BY <3>1, ConstantsAssumption DEF Brings
    <3> QED BY <1>0, <2>0, <3>2, SameBound
  <2> QED BY <2>1, <2>2
<1>2. ASSUME NEW t \in Thread, Drop(t) PROVE Bound'
  <2>1. /\ \A u \in Thread \ {t} : call'[u] = call[u]
        /\ overlapped' = overlapped
    BY <1>0, <1>2, Frame DEF Drop, Work
  <2>2. call[t].victim \in resident /\ resident' = resident \ {call[t].victim}
    BY <1>2 DEF Drop
  <2>3. IsFiniteSet(resident) /\ Cardinality(resident) \in Nat
    BY <1>0, PagesFinite DEF TypeOK
  <2>4. Cardinality(resident') = Cardinality(resident) - 1
    BY <2>2, <2>3, FS_RemoveElement
  <2>5. Room' = Room /\ Room \in Nat
    BY <1>0, <2>1, RoomGrows DEF Room
  <2> QED BY <1>0, <2>1, <2>3, <2>4, <2>5, OneMore DEF Bound
<1>3. ASSUME NEW t \in Thread, Insert(t) PROVE Bound'
  <2>1. /\ \A u \in Thread \ {t} : call'[u] = call[u]
        /\ overlapped' = overlapped
    BY <1>0, <1>3, Frame DEF Insert, Work
  <2>2. resident' = resident \cup {call[t].page}
    BY <1>3 DEF Insert
  <2>3. IsFiniteSet(resident) /\ Cardinality(resident) \in Nat
    BY <1>0, PagesFinite DEF TypeOK
  <2>4. Cardinality(resident') \in Nat /\ Cardinality(resident') <= Cardinality(resident) + 1
    <3>1. /\ IsFiniteSet(resident \cup {call[t].page})
          /\ Cardinality(resident \cup {call[t].page}) <= Cardinality(resident) + 1
      BY <2>3, FS_AddElement
    <3> QED BY <2>2, <3>1, FS_CardinalityType
  <2>5. Go(t, "count") /\ "count" \in Steps /\ call[t].at = "insert"
    BY <1>3 DEF Insert, Steps
  <2>6. call'[t].at = "count"
    BY <1>0, <2>5, OnGo
  <2>7. t \in Bringing /\ t \notin Bringing'
    BY <2>5, <2>6 DEF Bringing, Brings
  <2>8. Bringing' = Bringing \ {t}
    BY <1>0, <2>1, <2>7, BringingOthers
  <2>9. Cardinality(Bringing') = Cardinality(Bringing) - 1 /\ Cardinality(Bringing) \in Nat
    BY <2>7, <2>8, BringingFinite, FS_RemoveElement
  <2>10. Room' = Room /\ Room \in Nat
    BY <1>0, <2>1, RoomGrows DEF Room
  <2> QED BY <1>0, <2>3, <2>4, <2>9, <2>10 DEF Bound

<1>4. ASSUME NEW t \in Thread, NoVictim(t) \/ ShortRead(t) \/ AddPin(t) \/ VictimGone(t) \/ Lower(t)
                               \/ Allocated(t)
      PROVE  Bound'
  <2>1. Return(t) /\ resident' = resident
    BY <1>4 DEF NoVictim, ShortRead, AddPin, VictimGone, Lower, Allocated, pool
  <2>2. ~Brings(t)'
    BY <1>0, <2>1, OnReturn DEF Brings
  <2> QED BY <1>0, <1>4, <2>1, <2>2, Frame, SameBound DEF Work
<1>5. ASSUME NEW t \in Thread, FlushClean(t) \/ Clean(t) PROVE Bound'
  <2>1. Flushed(t) /\ resident' = resident
    BY <1>5 DEF FlushClean, Clean, pool
  <2>2. ~Brings(t)'
    <3>1. CASE Return(t)
      BY <1>0, <3>1, OnReturn DEF Brings
    <3>2. CASE Go(t, "drop")
      BY <1>0, <3>2, OnGo DEF Brings, Steps
    <3> QED BY <2>1, <3>1, <3>2 DEF Flushed
  <2> QED BY <1>0, <1>5, <2>1, <2>2, Frame, SameBound DEF Work
<1>6. ASSUME NEW t \in Thread, SeekPage(t) PROVE Bound'
  <2>1. Go(t, "read") /\ "read" \in Steps /\ resident' = resident /\ call[t].at = "seek"
    BY <1>6 DEF SeekPage, pool, Steps
  <2>2. Brings(t)' => Brings(t)
    BY <1>0, <2>1, OnGo DEF Brings
  <2> QED BY <1>0, <1>6, <2>1, <2>2, Frame, SameBound DEF Work
<1>7. ASSUME NEW t \in Thread, Read(t) PROVE Bound'
  <2>1. /\ resident' = resident /\ call[t].at = "read"
        /\ call'[t].at = IF call[t].victim = NoPage THEN "insert" ELSE "flush"
    BY <1>0, <1>7 DEF Read, pool, TypeOK, Call
  <2>2. Brings(t)' => Brings(t)
    BY <2>1 DEF Brings
  <2> QED BY <1>0, <1>7, <2>1, <2>2, Frame, SameBound DEF Work
<1>8. ASSUME NEW t \in Thread, Extend(t) \/ SeekVictim(t) \/ Write(t) PROVE Bound'
  <2>1. resident' = resident
    BY <1>8 DEF Extend, SeekVictim, Write, pool
  <2>2. call'[t].at \in {"extended", "write", "clean"}
    BY <1>0, <1>8, OnGo DEF Extend, SeekVictim, Write, Steps
  <2>3. ~Brings(t)'
    BY <2>2 DEF Brings
  <2> QED BY <1>0, <1>8, <2>1, <2>3, Frame, SameBound DEF Work
<1>9. ASSUME NEW t \in Thread, CountPins(t) \/ FlushDirty(t) PROVE Bound'
  <2>1. resident' = resident
    BY <1>9 DEF CountPins, FlushDirty, pool
  <2>2. call'[t].at \in {"store", "reseek"}
    BY <1>0, <1>9 DEF CountPins, FlushDirty, TypeOK, Call
  <2>3. ~Brings(t)'
    BY <2>2 DEF Brings
  <2> QED BY <1>0, <1>9, <2>1, <2>3, Frame, SameBound DEF Work
<1>10. ASSUME NEW t \in Thread, NEW p \in Page \cup {NoPage}, NEW v \in Page \cup {NoPage},
              NEW step \in {"extend", "count", "room", "flush", "lower"}, Enter(t, step, p, v),
              resident' = resident
       PROVE  Bound'
  <2>1. step \in Steps
    BY DEF Steps
  <2>2. /\ call'[t].at = step /\ (\A u \in Thread \ {t} : call'[u] = call[u])
        /\ ~overlapped' => ~overlapped
    BY <1>0, <1>10, <2>1, OnEnter
  <2>3. ~Brings(t)'
    BY <2>2 DEF Brings
  <2> QED BY <1>0, <1>10, <2>2, <2>3, SameBound
<1>11. ASSUME NEW t \in Thread, Allocate(t) PROVE Bound'
  <2>1. Enter(t, "extend", NoPage, NoPage) /\ resident' = resident
    BY <1>11 DEF Allocate, pool
  <2> QED BY <1>10, <2>1
<1>12. ASSUME NEW t \in Thread, NEW p \in Page, PinHit(t, p) \/ PinMiss(t, p) \/ Flush(t, p)
       PROVE  Bound'
  <2>1. /\ resident' = resident
        /\ Enter(t, "count", p, NoPage) \/ Enter(t, "room", p, NoPage) \/ Enter(t, "flush", NoPage, p)
    BY <1>12 DEF PinHit, PinMiss, Flush, pool
  <2> QED BY <1>10, <2>1
<1>13. ASSUME NEW t \in Thread, NEW p \in Page, NEW changed \in BOOLEAN, Unpin(t, p, changed)
       PROVE  Bound'
  <2>1. Enter(t, "lower", p, NoPage) /\ resident' = resident
    BY <1>13 DEF Unpin
  <2> QED BY <1>10, <2>1
<1>14. ASSUME NEW t \in Thread, NEW p \in Page, (\E d \in Data : Edit(t, p, d)) \/ UnpinRaises(t, p)
       PROVE  Bound'
  <2>1. call' = call /\ resident' = resident /\ (overlapped => overlapped')
    <3>1. CASE \E d \in Data : Edit(t, p, d)
      BY <3>1 DEF Edit, Meets
    <3>2. CASE UnpinRaises(t, p)
      BY <3>2 DEF UnpinRaises, pool
    <3> QED BY <1>14, <3>1, <3>2
  <2> QED BY <1>0, <2>1, SameBound DEF Brings
<1>15. CASE Crash
  <2>1. Bringing' = {} /\ resident' = {} /\ ~overlapped'
    BY <1>15 DEF Crash, Bringing, Brings, Idle
  <2> QED BY <2>1, FS_EmptySet, ConstantsAssumption DEF Bound, Room
<1>16. CASE UNCHANGED vars
  <2>1. Bringing' = Bringing /\ resident' = resident /\ Room' = Room
    BY <1>16 DEF vars, pool, Bringing, Brings, Room
  <2> QED BY <1>0, <2>1 DEF Bound
<1> QED BY <1>1, <1>2, <1>3, <1>4, <1>5, <1>6, <1>7, <1>8, <1>9, <1>11, <1>12, <1>13, <1>14, <1>15,
           <1>16 DEF Next, Work

-----------------------------------------------------------------------------
(* What calls rely on while no other meets them.                            *)

LEMMA CalmFrom ==
  ASSUME NEW t \in Thread, \A u \in Thread \ {t} : call'[u].at = "idle",
         Counted', Saved', Known(t)'
  PROVE  Calm'
<1>1. Alone'
  BY DEF Alone, Busy, At
<1>2. ASSUME NEW u \in Thread PROVE Known(u)'
  <2>1. CASE u # t
    BY <2>1 DEF Known, PageKnown, VictimKnown, CopiesKnown, Pinning, Fetching, Evicting
  <2> QED BY <2>1
<1> QED BY <1>1, <1>2 DEF Calm

\* A thread that is in a call is the only one.
LEMMA OnlyOne ==
  ASSUME Shape, Calm, NEW t \in Thread, call[t].at # "idle", ~overlapped,
         \A u \in Thread \ {t} : call'[u] = call[u]
  PROVE  /\ \A u \in Thread \ {t} : call'[u].at = "idle"
         /\ Counted /\ Saved /\ Known(t)
BY DEF Calm, Alone, Busy, At

\* So is one that enters, if it meets nobody.
LEMMA EntersAlone ==
  ASSUME Shape, Calm, NEW t \in Thread, NEW step \in Steps,
         NEW p \in Page \cup {NoPage}, NEW v \in Page \cup {NoPage}, Enter(t, step, p, v), ~overlapped'
  PROVE  /\ \A u \in Thread \ {t} : call'[u].at = "idle"
         /\ Counted /\ Saved
         /\ call'[t].at = step /\ call'[t].page = p /\ call'[t].victim = v
<1>1. TypeOK
  BY DEF Shape
<1>2. /\ ~overlapped /\ (\A u \in Thread \ {t} : call[u].at = "idle" /\ call'[u] = call[u])
      /\ call'[t].at = step /\ call'[t].page = p /\ call'[t].victim = v
  BY <1>1, OnEnter
<1> QED BY <1>2 DEF Calm

LEMMA SameCounted ==
  ASSUME Counted, UNCHANGED <<pins, holds, live>>, \A p \in resident : pins[p] > 0 => p \in resident'
  PROVE  Counted'
<1>1. \A p : Holders(p)' = Holders(p)
  BY DEF Holders
<1> QED BY <1>1 DEF Counted

LEMMA SameSaved ==
  ASSUME Saved, UNCHANGED <<resident, frame, dirty, edited, disk>>
  PROVE  Saved'
BY DEF Saved

\* A page without pins has no holders.
LEMMA NoHolders ==
  ASSUME TypeOK, Counted, NEW p \in Page, pins[p] = 0
  PROVE  \A e \in holds : e[2] # p
<1>1. IsFiniteSet(Holders(p)) /\ Cardinality(Holders(p)) = 0
  BY ThreadsFinite DEF Holders, Counted
<1>2. Holders(p) = {}
  BY <1>1, FS_EmptySet
<1> QED BY <1>2 DEF Holders, TypeOK

\* The counts when t takes a page it does not hold, and when it gives one back.
LEMMA OneMoreHolder ==
  ASSUME TypeOK, Counted, NEW t \in Thread, NEW p \in Page, p \in resident, <<t, p>> \notin holds,
         pins' = [pins EXCEPT ![p] = pins[p] + 1], resident' = resident,
         holds' = holds \cup {<<t, p>>}, live' = live \cup {<<t, p>>}
  PROVE  Counted'
<1>1. IsFiniteSet(Holders(p))
  BY ThreadsFinite DEF Holders
<1>2. Holders(p)' = Holders(p) \cup {t} /\ t \notin Holders(p)
  BY DEF Holders
<1>3. Cardinality(Holders(p)') = Cardinality(Holders(p)) + 1
  BY <1>1, <1>2, FS_AddElement
<1>4. \A q \in Page \ {p} : Holders(q)' = Holders(q)
  BY DEF Holders
<1> QED BY <1>3, <1>4 DEF Counted, TypeOK

LEMMA OneHolderLess ==
  ASSUME TypeOK, Counted, NEW t \in Thread, NEW p \in Page, <<t, p>> \in holds,
         pins' = IF pins[p] > 0 THEN [pins EXCEPT ![p] = Lowered(@)] ELSE pins,
         resident' = resident, holds' = holds \ {<<t, p>>}, live' = live \ {<<t, p>>}
  PROVE  Counted'
<1>1. IsFiniteSet(Holders(p)) /\ t \in Holders(p)
  BY ThreadsFinite DEF Holders
<1>2. Holders(p)' = Holders(p) \ {t}
  BY DEF Holders
<1>3. Cardinality(Holders(p)') = Cardinality(Holders(p)) - 1
  BY <1>1, <1>2, FS_RemoveElement
<1>4. pins[p] > 0
  BY NoHolders DEF TypeOK
<1>5. \A q \in Page \ {p} : Holders(q)' = Holders(q)
  BY DEF Holders
<1>6. \A q \in Page : pins'[q] = Cardinality(Holders(q)')
  BY <1>3, <1>4, <1>5 DEF Counted, TypeOK, Lowered
<1>7. \A q \in Page : pins'[q] > 0 => q \in resident'
  BY <1>4 DEF Counted, TypeOK, Lowered
<1> QED BY <1>6, <1>7 DEF Counted

LEMMA CalmStep == PoolInv /\ Shape' /\ [Next]_vars => Calm'
<1> SUFFICES ASSUME PoolInv, Shape', [Next]_vars, ~overlapped' PROVE Calm'
  BY DEF Calm
<1>0. Shape /\ Calm /\ TypeOK /\ TypeOK'
  BY DEF PoolInv, Shape
<1>a. \A t \in Thread : Fit(call[t]) /\ call[t] \in Call
  BY <1>0 DEF Shape, TypeOK
<1> USE DEF At

<1>1. ASSUME NEW t \in Thread, Allocate(t) PROVE Calm'
  <2>1. Enter(t, "extend", NoPage, NoPage) /\ "extend" \in Steps
    BY <1>1 DEF Allocate, Steps
  <2>2. /\ \A u \in Thread \ {t} : call'[u].at = "idle"
        /\ Counted /\ Saved
        /\ call'[t].at = "extend" /\ call'[t].page = NoPage /\ call'[t].victim = NoPage
    BY <1>0, <2>1, EntersAlone
  <2>3. Counted'
    BY <1>1, <2>2, SameCounted DEF Allocate, pool, clients, Seek
  <2>4. Saved'
    BY <1>1, <2>2, SameSaved DEF Allocate, pool, clients, Seek
  <2>5. Known(t)'
    BY <1>0, <1>1, <2>2 DEF Allocate, Seek, Known, PageKnown, VictimKnown, CopiesKnown, Pinning,
                            Fetching, Evicting
  <2> QED BY <2>2, <2>3, <2>4, <2>5, CalmFrom

<1>2. ASSUME NEW t \in Thread, NEW p \in Page, PinHit(t, p) PROVE Calm'
  <2>1. Enter(t, "count", p, NoPage) /\ "count" \in Steps
    BY <1>2 DEF PinHit, Steps
  <2>2. /\ \A u \in Thread \ {t} : call'[u].at = "idle"
        /\ Counted /\ Saved
        /\ call'[t].at = "count" /\ call'[t].page = p /\ call'[t].victim = NoPage
    BY <1>0, <2>1, EntersAlone
  <2>3. Counted'
    BY <1>2, <2>2, SameCounted DEF PinHit, file, clients
  <2>4. Saved'
    BY <1>2, <2>2, SameSaved DEF PinHit, file, clients
  <2>5. Known(t)'
    BY <1>0, <1>2, <2>2, ConstantsAssumption DEF PinHit, MayPin, clients, Known, PageKnown,
                                                 VictimKnown, CopiesKnown, Pinning, Fetching, Evicting
  <2> QED BY <2>2, <2>3, <2>4, <2>5, CalmFrom

<1>3. ASSUME NEW t \in Thread, NEW p \in Page, PinMiss(t, p) PROVE Calm'
  <2>1. Enter(t, "room", p, NoPage) /\ "room" \in Steps
    BY <1>3 DEF PinMiss, Steps
  <2>2. /\ \A u \in Thread \ {t} : call'[u].at = "idle"
        /\ Counted /\ Saved
        /\ call'[t].at = "room" /\ call'[t].page = p /\ call'[t].victim = NoPage
    BY <1>0, <2>1, EntersAlone
  <2>3. Counted'
    BY <1>3, <2>2, SameCounted DEF PinMiss, file, pool, clients
  <2>4. Saved'
    BY <1>3, <2>2, SameSaved DEF PinMiss, file, pool, clients
  <2>5. Known(t)'
    BY <1>0, <1>3, <2>2, ConstantsAssumption DEF PinMiss, MayPin, pool, clients, Known, PageKnown,
                                                 VictimKnown, CopiesKnown, Pinning, Fetching, Evicting
  <2> QED BY <2>2, <2>3, <2>4, <2>5, CalmFrom

<1>4. ASSUME NEW t \in Thread, NEW p \in Page, Flush(t, p) PROVE Calm'
  <2>1. Enter(t, "flush", NoPage, p) /\ "flush" \in Steps
    BY <1>4 DEF Flush, Steps
  <2>2. /\ \A u \in Thread \ {t} : call'[u].at = "idle"
        /\ Counted /\ Saved
        /\ call'[t].at = "flush" /\ call'[t].page = NoPage /\ call'[t].victim = p
    BY <1>0, <2>1, EntersAlone
  <2>3. Counted'
    BY <1>4, <2>2, SameCounted DEF Flush, file, pool, clients
  <2>4. Saved'
    BY <1>4, <2>2, SameSaved DEF Flush, file, pool, clients
  <2>5. Known(t)'
    BY <1>0, <1>4, <2>2, ConstantsAssumption DEF Flush, pool, Saved, Known, PageKnown,
                                                 VictimKnown, CopiesKnown, Pinning, Fetching, Evicting
  <2> QED BY <2>2, <2>3, <2>4, <2>5, CalmFrom

<1>5. ASSUME NEW t \in Thread, NEW p \in Page, NEW changed \in BOOLEAN, Unpin(t, p, changed)
      PROVE Calm'
  <2>1. Enter(t, "lower", p, NoPage) /\ "lower" \in Steps
    BY <1>5 DEF Unpin, Steps
  <2>2. /\ \A u \in Thread \ {t} : call'[u].at = "idle"
        /\ Counted /\ Saved
        /\ call'[t].at = "lower" /\ call'[t].page = p /\ call'[t].victim = NoPage
    BY <1>0, <2>1, EntersAlone
  <2>3. Counted'
    BY <1>5, <2>2, SameCounted DEF Unpin, clients
  <2>a. p \in resident
    BY <1>5, <2>2 DEF Unpin, Counted
  <2>4. Saved'
    BY <1>5, <2>2, <2>a DEF Unpin, Flag, Saved, file, clients
  <2>5. Known(t)'
    BY <1>0, <1>5, <2>2, ConstantsAssumption DEF Unpin, Flag, clients, Known, PageKnown,
                                                 VictimKnown, CopiesKnown, Pinning, Fetching, Evicting
  <2> QED BY <2>2, <2>3, <2>4, <2>5, CalmFrom

<1>6. ASSUME NEW t \in Thread, Extend(t) PROVE Calm'
  <2>1. /\ \A u \in Thread \ {t} : call'[u].at = "idle"
        /\ Counted /\ Saved /\ Known(t) /\ Fit(call[t]) /\ ~overlapped
    BY <1>0, <1>a, <1>6, Frame, OnlyOne DEF Extend, Work
  <2>a. Go(t, "extended") /\ "extended" \in Steps
    BY <1>6 DEF Extend, Steps
  <2>2. /\ call'[t].at = "extended"
        /\ call'[t].page = call[t].page /\ call'[t].victim = call[t].victim
        /\ call'[t].data = call[t].data /\ call'[t].out = call[t].out
        /\ call'[t].seen = call[t].seen
    BY <1>0, <2>a, OnGo
  <2>3. Counted'
    BY <1>6, <2>1, SameCounted DEF Extend, pool, clients
  <2>b. position = length /\ position \in Page
    BY <1>0, <1>6, <2>1 DEF Extend, WriteNext, Known, CopiesKnown
  <2>c. disk[position] = Zero
    BY <1>0, <2>b DEF Shape, Page
  <2>d. disk' = disk
    BY <1>0, <1>6, <2>b, <2>c DEF Extend, WriteNext, TypeOK
  <2>4. Saved'
    BY <1>6, <2>1, <2>d, SameSaved DEF Extend, pool, clients
  <2>5. Known(t)'
    BY <2>2 DEF Known, PageKnown, VictimKnown, CopiesKnown, Pinning, Fetching, Evicting
  <2> QED BY <2>1, <2>3, <2>4, <2>5, CalmFrom

<1>7. ASSUME NEW t \in Thread, Allocated(t) PROVE Calm'
  <2>1. /\ \A u \in Thread \ {t} : call'[u].at = "idle"
        /\ Counted /\ Saved /\ Known(t) /\ Fit(call[t]) /\ ~overlapped
    BY <1>0, <1>a, <1>7, Frame, OnlyOne DEF Allocated, Work
  <2>2. Return(t)
    BY <1>7 DEF Allocated
  <2>b. call'[t].at = "idle"
    BY <1>0, <2>2, OnReturn
  <2>3. Counted'
    BY <1>7, <2>1, SameCounted DEF Allocated, pool, clients
  <2>4. Saved'
    BY <1>7, <2>1, SameSaved DEF Allocated, pool, clients
  <2>5. Known(t)'
    BY <2>b DEF Known, PageKnown, VictimKnown, CopiesKnown, Pinning, Fetching, Evicting
  <2> QED BY <2>1, <2>3, <2>4, <2>5, CalmFrom

<1>8. ASSUME NEW t \in Thread, FindRoom(t) PROVE Calm'
  <2>1. /\ \A u \in Thread \ {t} : call'[u].at = "idle"
        /\ Counted /\ Saved /\ Known(t) /\ Fit(call[t]) /\ ~overlapped
    BY <1>0, <1>a, <1>8, Frame, OnlyOne DEF FindRoom, Work
  <2>2. /\ call'[t].at = "seek" /\ call'[t].page = call[t].page
        /\ call'[t].victim # NoPage => call'[t].victim \in Unpinned
    <3>1. CASE Go(t, "seek")
      <4>1. "seek" \in Steps /\ call[t].victim = NoPage
        BY <1>8, <2>1 DEF FindRoom, Fit, Steps
      <4> QED BY <1>0, <3>1, <4>1, OnGo
    <3>2. ASSUME NEW v \in Page, Victim(v), call' = [call EXCEPT ![t].at = "seek", ![t].victim = v]
         
         
         
         
         
         
         
         
         
         
         
         
         
         
         
         
         
         
         
         
          PROVE  call'[t].at = "seek" /\ call'[t].page = call[t].page /\ call'[t].victim \in Unpinned
      BY <1>0, <1>a, <3>2 DEF Victim, TypeOK, Call
    <3> QED BY <1>8, <3>1, <3>2 DEF FindRoom
  <2>3. Counted'
    BY <1>8, <2>1, SameCounted DEF FindRoom, pool, clients
  <2>4. Saved'
    BY <1>8, <2>1, SameSaved DEF FindRoom, file, pool, clients
  <2>5. Known(t)'
    BY <1>8, <2>1, <2>2 DEF FindRoom, Unpinned, file, pool, clients, Known, PageKnown,
                            VictimKnown, CopiesKnown, Pinning, Fetching, Evicting
  <2> QED BY <2>1, <2>3, <2>4, <2>5, CalmFrom

<1>9. ASSUME NEW t \in Thread, NoVictim(t) PROVE Calm'
  <2>1. /\ \A u \in Thread \ {t} : call'[u].at = "idle"
        /\ Counted /\ Saved /\ Known(t) /\ Fit(call[t]) /\ ~overlapped
    BY <1>0, <1>a, <1>9, Frame, OnlyOne DEF NoVictim, Work
  <2>2. Return(t)
    BY <1>9 DEF NoVictim
  <2>b. call'[t].at = "idle"
    BY <1>0, <2>2, OnReturn
  <2>3. Counted'
    BY <1>9, <2>1, SameCounted DEF NoVictim, file, pool, clients
  <2>4. Saved'
    BY <1>9, <2>1, SameSaved DEF NoVictim, file, pool, clients
  <2>5. Known(t)'
    BY <2>b DEF Known, PageKnown, VictimKnown, CopiesKnown, Pinning, Fetching, Evicting
  <2> QED BY <2>1, <2>3, <2>4, <2>5, CalmFrom

<1>10. ASSUME NEW t \in Thread, SeekPage(t) PROVE Calm'
  <2>1. /\ \A u \in Thread \ {t} : call'[u].at = "idle"
        /\ Counted /\ Saved /\ Known(t) /\ Fit(call[t]) /\ ~overlapped
    BY <1>0, <1>a, <1>10, Frame, OnlyOne DEF SeekPage, Work
  <2>a. Go(t, "read") /\ "read" \in Steps
    BY <1>10 DEF SeekPage, Steps
  <2>2. /\ call'[t].at = "read"
        /\ call'[t].page = call[t].page /\ call'[t].victim = call[t].victim
        /\ call'[t].data = call[t].data /\ call'[t].out = call[t].out
        /\ call'[t].seen = call[t].seen
    BY <1>0, <2>a, OnGo
  <2>3. Counted'
    BY <1>10, <2>1, SameCounted DEF SeekPage, pool, clients
  <2>4. Saved'
    BY <1>10, <2>1, SameSaved DEF SeekPage, Seek, pool, clients
  <2>5. Known(t)'
    BY <1>10, <2>1, <2>2 DEF SeekPage, Seek, pool, clients, Known, PageKnown, VictimKnown,
                             CopiesKnown, Pinning, Fetching, Evicting
  <2> QED BY <2>1, <2>3, <2>4, <2>5, CalmFrom

<1>11. ASSUME NEW t \in Thread, Read(t) PROVE Calm'
  <2>1. /\ \A u \in Thread \ {t} : call'[u].at = "idle"
        /\ Counted /\ Saved /\ Known(t) /\ Fit(call[t]) /\ ~overlapped
    BY <1>0, <1>a, <1>11, Frame, OnlyOne DEF Read, Work
  <2>2. /\ call'[t].at = IF call[t].victim = NoPage THEN "insert" ELSE "flush"
        /\ call'[t].page = call[t].page /\ call'[t].victim = call[t].victim
        /\ call'[t].data = disk[position]
    BY <1>0, <1>a, <1>11 DEF Read, TypeOK, Call
  <2>a. position = call[t].page
    BY <1>11, <2>1 DEF Read, Known, CopiesKnown
  <2>3. Counted'
    BY <1>11, <2>1, SameCounted DEF Read, pool, clients
  <2>4. Saved'
    BY <1>11, <2>1, SameSaved DEF Read, pool, clients
  <2>c. /\ call[t].at = "read"
        /\ UNCHANGED <<resident, frame, pins, dirty, holds, edited, disk, length>>
    BY <1>11 DEF Read, pool, clients
  <2>5. Known(t)'
    BY <2>1, <2>2, <2>a, <2>c DEF Known, PageKnown, VictimKnown, CopiesKnown, Pinning, Fetching,
                                  Evicting
  <2> QED BY <2>1, <2>3, <2>4, <2>5, CalmFrom

<1>12. ASSUME NEW t \in Thread, ShortRead(t) PROVE Calm'
  <2>1. /\ \A u \in Thread \ {t} : call'[u].at = "idle"
        /\ Counted /\ Saved /\ Known(t) /\ Fit(call[t]) /\ ~overlapped
    BY <1>0, <1>a, <1>12, Frame, OnlyOne DEF ShortRead, Work
  <2>2. Return(t)
    BY <1>12 DEF ShortRead
  <2>b. call'[t].at = "idle"
    BY <1>0, <2>2, OnReturn
  <2>3. Counted'
    BY <1>12, <2>1, SameCounted DEF ShortRead, file, pool, clients
  <2>4. Saved'
    BY <1>12, <2>1, SameSaved DEF ShortRead, file, pool, clients
  <2>5. Known(t)'
    BY <2>b DEF Known, PageKnown, VictimKnown, CopiesKnown, Pinning, Fetching, Evicting
  <2> QED BY <2>1, <2>3, <2>4, <2>5, CalmFrom

<1>13. ASSUME NEW t \in Thread, Drop(t) PROVE Calm'
  <2>1. /\ \A u \in Thread \ {t} : call'[u].at = "idle"
        /\ Counted /\ Saved /\ Known(t) /\ Fit(call[t]) /\ ~overlapped
    BY <1>0, <1>a, <1>13, Frame, OnlyOne DEF Drop, Work
  <2>a. Go(t, "insert") /\ "insert" \in Steps
    BY <1>13 DEF Drop, Steps
  <2>2. /\ call'[t].at = "insert"
        /\ call'[t].page = call[t].page /\ call'[t].victim = call[t].victim
        /\ call'[t].data = call[t].data /\ call'[t].out = call[t].out
        /\ call'[t].seen = call[t].seen
    BY <1>0, <2>a, OnGo
  <2>b. call[t].victim \in Page /\ pins[call[t].victim] = 0 /\ call[t].page # NoPage
        /\ call[t].victim \notin dirty
    BY <1>13, <2>1, ConstantsAssumption DEF Drop, Fit, Known, VictimKnown, Evicting
  <2>c. \A e \in holds : e[2] # call[t].victim
    BY <1>0, <2>1, <2>b, NoHolders
  <2>d. live' = live
    BY <1>0, <1>13, <2>1, <2>c DEF Drop, TypeOK, Counted
  <2>3. Counted'
    BY <1>13, <2>1, <2>b, <2>d, SameCounted DEF Drop
  <2>4. Saved'
    BY <1>0, <1>13, <2>1, <2>b DEF Drop, Saved, TypeOK, file
  <2>5. Known(t)'
    BY <1>13, <2>1, <2>2, <2>b DEF Drop, file, Known, PageKnown, VictimKnown, CopiesKnown,
                                   Pinning, Fetching, Evicting
  <2> QED BY <2>1, <2>3, <2>4, <2>5, CalmFrom

<1>14. ASSUME NEW t \in Thread, Insert(t) PROVE Calm'
  <2>1. /\ \A u \in Thread \ {t} : call'[u].at = "idle"
        /\ Counted /\ Saved /\ Known(t) /\ Fit(call[t]) /\ ~overlapped
    BY <1>0, <1>a, <1>14, Frame, OnlyOne DEF Insert, Work
  <2>a. Go(t, "count") /\ "count" \in Steps
    BY <1>14 DEF Insert, Steps
  <2>2. /\ call'[t].at = "count"
        /\ call'[t].page = call[t].page /\ call'[t].victim = call[t].victim
        /\ call'[t].data = call[t].data /\ call'[t].out = call[t].out
        /\ call'[t].seen = call[t].seen
    BY <1>0, <2>a, OnGo
  <2>b. call[t].page \in Page /\ call[t].page \notin resident /\ call[t].page # NoPage
        /\ call[t].data = disk[call[t].page]
    BY <1>14, <2>1, ConstantsAssumption DEF Insert, Fit, Known, PageKnown, CopiesKnown, Fetching
  <2>c. pins[call[t].page] = 0
    BY <1>0, <2>1, <2>b DEF Counted, TypeOK
  <2>d. \A e \in holds : e[2] # call[t].page
    BY <1>0, <2>1, <2>b, <2>c, NoHolders
  <2>e. live' = live
    BY <1>0, <1>14, <2>1, <2>d DEF Insert, TypeOK, Counted
  <2>3. Counted'
    BY <1>14, <2>1, <2>e, SameCounted DEF Insert
  <2>4. Saved'
    BY <1>0, <1>14, <2>1, <2>b DEF Insert, Saved, TypeOK, file
  <2>5. Known(t)'
    BY <1>14, <2>1, <2>2, <2>b DEF Insert, Known, PageKnown, VictimKnown, CopiesKnown, Pinning,
                                   Fetching, Evicting
  <2> QED BY <2>1, <2>3, <2>4, <2>5, CalmFrom

<1>15. ASSUME NEW t \in Thread, CountPins(t) PROVE Calm'
  <2>1. /\ \A u \in Thread \ {t} : call'[u].at = "idle"
        /\ Counted /\ Saved /\ Known(t) /\ Fit(call[t]) /\ ~overlapped
    BY <1>0, <1>a, <1>15, Frame, OnlyOne DEF CountPins, Work
  <2>2. /\ call'[t].at = "store" /\ call'[t].page = call[t].page
        /\ call'[t].seen = pins[call[t].page]
    BY <1>0, <1>a, <1>15 DEF CountPins, TypeOK, Call
  <2>3. Counted'
    BY <1>15, <2>1, SameCounted DEF CountPins, pool, clients
  <2>4. Saved'
    BY <1>15, <2>1, SameSaved DEF CountPins, file, pool, clients
  <2>c. /\ call[t].at = "count" /\ UNCHANGED <<resident, frame, pins, dirty, holds, edited>>
    BY <1>15 DEF CountPins, file, pool, clients
  <2>5. Known(t)'
    BY <2>1, <2>2, <2>c DEF Known, PageKnown, VictimKnown, CopiesKnown, Pinning, Fetching, Evicting
  <2> QED BY <2>1, <2>3, <2>4, <2>5, CalmFrom

<1>16. ASSUME NEW t \in Thread, AddPin(t) PROVE Calm'
  <2>1. /\ \A u \in Thread \ {t} : call'[u].at = "idle"
        /\ Counted /\ Saved /\ Known(t) /\ Fit(call[t]) /\ ~overlapped
    BY <1>0, <1>a, <1>16, Frame, OnlyOne DEF AddPin, Work
  <2>2. Return(t)
    BY <1>16 DEF AddPin
  <2>b. call'[t].at = "idle"
    BY <1>0, <2>2, OnReturn
  <2>c. call[t].page \in Page
    BY <1>16, <2>1 DEF AddPin, Fit
  <2>d. /\ call[t].page \in resident /\ call[t].seen = pins[call[t].page]
        /\ <<t, call[t].page>> \notin holds
    BY <1>16, <2>1, <2>c, ConstantsAssumption DEF AddPin, Known, PageKnown, Pinning
  <2>3. Counted'
    BY <1>0, <1>16, <2>1, <2>c, <2>d, OneMoreHolder DEF AddPin
  <2>4. Saved'
    BY <1>16, <2>1, SameSaved DEF AddPin, file
  <2>5. Known(t)'
    BY <2>b DEF Known, PageKnown, VictimKnown, CopiesKnown, Pinning, Fetching, Evicting
  <2> QED BY <2>1, <2>3, <2>4, <2>5, CalmFrom

<1>17. ASSUME NEW t \in Thread, FlushClean(t) PROVE Calm'
  <2>1. /\ \A u \in Thread \ {t} : call'[u].at = "idle"
        /\ Counted /\ Saved /\ Known(t) /\ Fit(call[t]) /\ ~overlapped
    BY <1>0, <1>a, <1>17, Frame, OnlyOne DEF FlushClean, Work
  <2>2. \/ call'[t].at = "idle"
        \/ /\ call[t].page # NoPage /\ call'[t].at = "drop"
           /\ call'[t].page = call[t].page /\ call'[t].victim = call[t].victim
           /\ call'[t].data = call[t].data /\ call'[t].out = call[t].out
           /\ call'[t].seen = call[t].seen
    <3>1. CASE call[t].page = NoPage
      BY <1>0, <1>17, <3>1, OnReturn DEF FlushClean, Flushed
    <3>2. CASE call[t].page # NoPage
      <4>1. Go(t, "drop") /\ "drop" \in Steps
        BY <1>17, <3>2 DEF FlushClean, Flushed, Steps
      <4> QED BY <1>0, <3>2, <4>1, OnGo
    <3> QED BY <3>1, <3>2
  <2>3. Counted'
    BY <1>17, <2>1, SameCounted DEF FlushClean, pool, clients
  <2>4. Saved'
    BY <1>17, <2>1, SameSaved DEF FlushClean, file, pool, clients
  <2>5. Known(t)'
    BY <1>17, <2>1, <2>2 DEF FlushClean, file, pool, clients, Fit, Known, PageKnown, VictimKnown,
                             CopiesKnown, Pinning, Fetching, Evicting
  <2> QED BY <2>1, <2>3, <2>4, <2>5, CalmFrom

<1>18. ASSUME NEW t \in Thread, Clean(t) PROVE Calm'
  <2>1. /\ \A u \in Thread \ {t} : call'[u].at = "idle"
        /\ Counted /\ Saved /\ Known(t) /\ Fit(call[t]) /\ ~overlapped
    BY <1>0, <1>a, <1>18, Frame, OnlyOne DEF Clean, Work
  <2>2. \/ call'[t].at = "idle"
        \/ /\ call[t].page # NoPage /\ call'[t].at = "drop"
           /\ call'[t].page = call[t].page /\ call'[t].victim = call[t].victim
           /\ call'[t].data = call[t].data /\ call'[t].out = call[t].out
           /\ call'[t].seen = call[t].seen
    <3>1. CASE call[t].page = NoPage
      BY <1>0, <1>18, <3>1, OnReturn DEF Clean, Flushed
    <3>2. CASE call[t].page # NoPage
      <4>1. Go(t, "drop") /\ "drop" \in Steps
        BY <1>18, <3>2 DEF Clean, Flushed, Steps
      <4> QED BY <1>0, <3>2, <4>1, OnGo
    <3> QED BY <3>1, <3>2
  <2>c. call[t].victim \in resident => frame[call[t].victim] = disk[call[t].victim]
    BY <1>18, <2>1 DEF Clean, Known, CopiesKnown
  <2>3. Counted'
    BY <1>18, <2>1, SameCounted DEF Clean, pool, clients
  <2>4. Saved'
    BY <1>0, <1>18, <2>1, <2>c DEF Clean, Saved, file, clients
  <2>5. Known(t)'
    BY <1>18, <2>1, <2>2 DEF Clean, file, pool, clients, Fit, Known, PageKnown, VictimKnown,
                             CopiesKnown, Pinning, Fetching, Evicting
  <2> QED BY <2>1, <2>3, <2>4, <2>5, CalmFrom

<1>19. ASSUME NEW t \in Thread, FlushDirty(t) PROVE Calm'
  <2>1. /\ \A u \in Thread \ {t} : call'[u].at = "idle"
        /\ Counted /\ Saved /\ Known(t) /\ Fit(call[t]) /\ ~overlapped
    BY <1>0, <1>a, <1>19, Frame, OnlyOne DEF FlushDirty, Work
  <2>2. /\ call'[t].at = "reseek" /\ call'[t].page = call[t].page
        /\ call'[t].victim = call[t].victim /\ call'[t].data = call[t].data
        /\ call'[t].out = frame[call[t].victim]
    BY <1>0, <1>a, <1>19 DEF FlushDirty, TypeOK, Call
  <2>3. Counted'
    BY <1>19, <2>1, SameCounted DEF FlushDirty, pool, clients
  <2>4. Saved'
    BY <1>19, <2>1, SameSaved DEF FlushDirty, file, pool, clients
  <2>c. /\ call[t].at = "flush"
        /\ UNCHANGED <<resident, frame, pins, dirty, holds, edited, disk, position, length>>
        /\ call[t].victim \in dirty /\ call[t].victim \in resident
    BY <1>19 DEF FlushDirty, file, pool, clients
  <2>5. Known(t)'
    BY <2>1, <2>2, <2>c DEF Known, PageKnown, VictimKnown, CopiesKnown, Pinning, Fetching, Evicting
  <2> QED BY <2>1, <2>3, <2>4, <2>5, CalmFrom

<1>20. ASSUME NEW t \in Thread, VictimGone(t) PROVE Calm'
  <2>1. /\ \A u \in Thread \ {t} : call'[u].at = "idle"
        /\ Counted /\ Saved /\ Known(t) /\ Fit(call[t]) /\ ~overlapped
    BY <1>0, <1>a, <1>20, Frame, OnlyOne DEF VictimGone, Work
  <2>2. Return(t)
    BY <1>20 DEF VictimGone
  <2>b. call'[t].at = "idle"
    BY <1>0, <2>2, OnReturn
  <2>3. Counted'
    BY <1>20, <2>1, SameCounted DEF VictimGone, file, pool, clients
  <2>4. Saved'
    BY <1>20, <2>1, SameSaved DEF VictimGone, file, pool, clients
  <2>5. Known(t)'
    BY <2>b DEF Known, PageKnown, VictimKnown, CopiesKnown, Pinning, Fetching, Evicting
  <2> QED BY <2>1, <2>3, <2>4, <2>5, CalmFrom

<1>21. ASSUME NEW t \in Thread, SeekVictim(t) PROVE Calm'
  <2>1. /\ \A u \in Thread \ {t} : call'[u].at = "idle"
        /\ Counted /\ Saved /\ Known(t) /\ Fit(call[t]) /\ ~overlapped
    BY <1>0, <1>a, <1>21, Frame, OnlyOne DEF SeekVictim, Work
  <2>a. Go(t, "write") /\ "write" \in Steps
    BY <1>21 DEF SeekVictim, Steps
  <2>2. /\ call'[t].at = "write"
        /\ call'[t].page = call[t].page /\ call'[t].victim = call[t].victim
        /\ call'[t].data = call[t].data /\ call'[t].out = call[t].out
        /\ call'[t].seen = call[t].seen
    BY <1>0, <2>a, OnGo
  <2>3. Counted'
    BY <1>21, <2>1, SameCounted DEF SeekVictim, pool, clients
  <2>4. Saved'
    BY <1>21, <2>1, SameSaved DEF SeekVictim, Seek, pool, clients
  <2>5. Known(t)'
    BY <1>21, <2>1, <2>2 DEF SeekVictim, Seek, pool, clients, Known, PageKnown, VictimKnown,
                             CopiesKnown, Pinning, Fetching, Evicting
  <2> QED BY <2>1, <2>3, <2>4, <2>5, CalmFrom

<1>22. ASSUME NEW t \in Thread, Write(t) PROVE Calm'
  <2>1. /\ \A u \in Thread \ {t} : call'[u].at = "idle"
        /\ Counted /\ Saved /\ Known(t) /\ Fit(call[t]) /\ ~overlapped
    BY <1>0, <1>a, <1>22, Frame, OnlyOne DEF Write, Work
  <2>a. Go(t, "clean") /\ "clean" \in Steps
    BY <1>22 DEF Write, Steps
  <2>2. /\ call'[t].at = "clean"
        /\ call'[t].page = call[t].page /\ call'[t].victim = call[t].victim
        /\ call'[t].data = call[t].data /\ call'[t].out = call[t].out
        /\ call'[t].seen = call[t].seen
    BY <1>0, <2>a, OnGo
  <2>3. Counted'
    BY <1>22, <2>1, SameCounted DEF Write, pool, clients
  <2>b. /\ position = call[t].victim /\ call[t].victim \in dirty /\ call[t].victim \in resident
        /\ call[t].out = frame[call[t].victim] /\ call[t].victim \in Page
    BY <1>22, <2>1 DEF Write, Fit, Evicting, Known, VictimKnown, CopiesKnown, Saved
  <2>c. disk' = [disk EXCEPT ![call[t].victim] = frame[call[t].victim]]
    BY <1>22, <2>b DEF Write, WriteNext
  <2>4. Saved'
    BY <1>0, <1>22, <2>1, <2>b, <2>c DEF Write, Saved, TypeOK, pool, clients
  <2>5. Known(t)'
    BY <1>0, <1>22, <2>1, <2>2, <2>b, <2>c DEF Write, TypeOK, pool, clients, Known, PageKnown,
                                               VictimKnown, CopiesKnown, Pinning, Fetching, Evicting
  <2> QED BY <2>1, <2>3, <2>4, <2>5, CalmFrom

<1>23. ASSUME NEW t \in Thread, NEW p \in Page, NEW d \in Data, Edit(t, p, d) PROVE Calm'
  <2>1. /\ ~overlapped /\ call' = call /\ \A u \in Thread : call[u].at = "idle"
    BY <1>0, <1>23 DEF Edit, Meets, Busy, TypeOK
  <2>2. Counted /\ Saved
    BY <1>0, <2>1 DEF Calm
  <2>3. Counted'
    BY <1>23, <2>2, SameCounted DEF Edit
  <2>4. Saved'
    BY <1>0, <1>23, <2>2 DEF Edit, Saved, TypeOK, file
  <2>5. Known(t)'
    BY <2>1 DEF Known, PageKnown, VictimKnown, CopiesKnown, Pinning, Fetching, Evicting
  <2> QED BY <2>1, <2>3, <2>4, <2>5, CalmFrom

<1>24. ASSUME NEW t \in Thread, Lower(t) PROVE Calm'
  <2>1. /\ \A u \in Thread \ {t} : call'[u].at = "idle"
        /\ Counted /\ Saved /\ Known(t) /\ Fit(call[t]) /\ ~overlapped
    BY <1>0, <1>a, <1>24, Frame, OnlyOne DEF Lower, Work
  <2>2. Return(t)
    BY <1>24 DEF Lower
  <2>b. call'[t].at = "idle"
    BY <1>0, <2>2, OnReturn
  <2>c. call[t].page \in Page
    BY <1>24, <2>1 DEF Lower, Fit
  <2>d. /\ <<t, call[t].page>> \in holds
        /\ <<t, call[t].page>> \in edited => call[t].page \in dirty
    BY <1>24, <2>1 DEF Lower, Known, PageKnown
  <2>3. Counted'
    BY <1>0, <1>24, <2>1, <2>c, <2>d, OneHolderLess DEF Lower
  <2>4. Saved'
    BY <1>0, <1>24, <2>1, <2>d DEF Lower, Saved, TypeOK, file
  <2>5. Known(t)'
    BY <2>b DEF Known, PageKnown, VictimKnown, CopiesKnown, Pinning, Fetching, Evicting
  <2> QED BY <2>1, <2>3, <2>4, <2>5, CalmFrom

<1>25. ASSUME NEW t \in Thread, NEW p \in Page, UnpinRaises(t, p) PROVE Calm'
  <2>1. ~overlapped /\ <<t, p>> \in holds /\ pins[p] = 0
    BY <1>25 DEF UnpinRaises
  <2>2. Counted
    BY <1>0, <2>1 DEF Calm
  <2> QED BY <1>0, <2>1, <2>2, NoHolders

<1>26. CASE Crash
  <2>1. \A u \in Thread : call'[u].at = "idle"
    BY <1>26 DEF Crash, Idle
  <2>2. Counted'
    <3>1. \A p : Holders(p)' = {}
      BY <1>26 DEF Crash, Holders
    <3> QED BY <1>26, <3>1, FS_EmptySet DEF Crash, Counted
  <2>3. Saved'
    BY <1>26 DEF Crash, Saved
  <2>4. Alone'
    BY <2>1 DEF Alone, Busy
  <2>5. \A t \in Thread : Known(t)'
    BY <2>1 DEF Known, PageKnown, VictimKnown, CopiesKnown, Pinning, Fetching, Evicting
  <2> QED BY <2>2, <2>3, <2>4, <2>5 DEF Calm

<1>27. CASE UNCHANGED vars
  BY <1>0, <1>27 DEF vars, file, pool, clients, Calm, Alone, Busy, Counted, Holders, Saved, Known,
                 PageKnown, VictimKnown, CopiesKnown

<1> QED BY <1>1, <1>2, <1>3, <1>4, <1>5, <1>6, <1>7, <1>8, <1>9, <1>10, <1>11, <1>12, <1>13,
           <1>14, <1>15, <1>16, <1>17, <1>18, <1>19, <1>20, <1>21, <1>22, <1>23, <1>24, <1>25, <1>26, <1>27 DEF Next, Work

LEMMA PoolInvariant == Spec => []PoolInv
<1>1. PoolInv /\ [Next]_vars => PoolInv'
  BY ShapeStep, BoundStep, CalmStep DEF PoolInv
<1> QED BY <1>1, PoolInit, PTL DEF Spec

-----------------------------------------------------------------------------
\* The state of the pool, and of the calls in it, is well typed.
THEOREM TypeCorrect == Spec => []TypeOK
<1>1. PoolInv => TypeOK
  BY DEF PoolInv, Shape
<1> QED BY <1>1, PoolInvariant, PTL

\* BufferManager.pin lets the pool grow beyond its capacity only when calls
\* overlap, and then by a frame for each other thread.
THEOREM Bounded == Spec => []PoolBounded
<1>1. PoolInv => PoolBounded
  <2>1. ASSUME PoolInv PROVE PoolBounded
    <3>1. TypeOK /\ Bound
      BY <2>1 DEF PoolInv, Shape
    <3>2. Cardinality(resident) \in Nat /\ Cardinality(Bringing) \in Nat /\ Room \in Nat
      BY <3>1, PagesFinite, BringingFinite, ThreadsFinite, ConstantsAssumption DEF TypeOK, Room
    <3> QED BY <3>1, <3>2 DEF Bound, Room, PoolBounded
  <2> QED BY <2>1
<1> QED BY <1>1, PoolInvariant, PTL

\* While calls do not overlap, BufferManager.pin evicts no page a client has
\* pinned, and gives nobody a frame that is not the page's.
THEOREM PinsHold == Spec => []PinnedResident
<1>1. PoolInv => PinnedResident
  BY DEF PoolInv, Calm, Counted, PinnedResident
<1> QED BY <1>1, PoolInvariant, PTL

\* While calls do not overlap, a page that is not flagged dirty can be dropped
\* from the pool.
THEOREM CleanIsSaved == Spec => []CleanMatchesDisk
<1>1. PoolInv => CleanMatchesDisk
  <2>1. ASSUME PoolInv, ~overlapped PROVE \A e \in edited : pins[e[2]] > 0
    <3>1. TypeOK /\ Counted
      BY <2>1 DEF PoolInv, Shape, Calm
    <3> SUFFICES ASSUME NEW e \in edited PROVE pins[e[2]] > 0
      OBVIOUS
    <3>2. e \in holds /\ e[2] \in Page
      BY <3>1 DEF TypeOK
    <3>3. pins[e[2]] # 0
      BY <3>1, <3>2, NoHolders
    <3> QED BY <3>1, <3>2, <3>3 DEF TypeOK
  <2> QED BY <2>1 DEF PoolInv, Calm, Saved, CleanMatchesDisk
<1> QED BY <1>1, PoolInvariant, PTL

-----------------------------------------------------------------------------
(* The refinement: while calls do not overlap, each step is one of the      *)
(* store, or leaves it alone.                                               *)
Content == [p \in Page |-> IF p \in resident THEN frame[p] ELSE disk[p]]
Pinned  == {p \in Page : pins[p] > 0}

LEMMA StoreInitial == Init => Store!StoreInit
BY DEF Init, Store!StoreInit

LEMMA StoreStep ==
  PoolInv /\ PoolInv' /\ [Next]_vars => [~overlapped' => Store!StoreNext]_(Store!pageVars)
<1> SUFFICES ASSUME PoolInv, PoolInv', [Next]_vars, ~overlapped'
             PROVE  Store!StoreNext \/ UNCHANGED Store!pageVars
  OBVIOUS
<1>0. Shape /\ Calm /\ TypeOK /\ TypeOK'
  BY DEF PoolInv, Shape
<1>a. \A t \in Thread : Fit(call[t]) /\ call[t] \in Call
  BY <1>0 DEF Shape, TypeOK
<1>b. UNCHANGED <<resident, frame, disk, pins>> => UNCHANGED Store!pageVars
  BY DEF Store!pageVars
<1>c. ASSUME NEW t \in Thread, Work(t), ~At(t, "idle")
      PROVE  Counted /\ Saved /\ Known(t) /\ Fit(call[t])
  <2>1. ~overlapped
    BY <1>0, <1>c, Frame
  <2> QED BY <1>0, <1>a, <1>c, <2>1, Frame, OnlyOne DEF At
<1> USE DEF At
<1>1. ASSUME NEW t \in Thread,
             \/ Allocate(t) \/ Allocated(t) \/ FindRoom(t) \/ NoVictim(t) \/ SeekPage(t) \/ Read(t)
             \/ ShortRead(t) \/ CountPins(t) \/ FlushClean(t) \/ FlushDirty(t) \/ VictimGone(t)
             \/ SeekVictim(t) \/ Clean(t)
      PROVE  UNCHANGED <<resident, frame, disk, pins>>
  BY <1>1 DEF Allocate, Allocated, FindRoom, NoVictim, SeekPage, Read, ShortRead, CountPins,
              FlushClean, FlushDirty, VictimGone, SeekVictim, Clean, Seek, file, pool
<1>2. ASSUME NEW t \in Thread, NEW p \in Page,
             \/ PinHit(t, p) \/ PinMiss(t, p) \/ Flush(t, p) \/ UnpinRaises(t, p)
             \/ \E changed \in BOOLEAN : Unpin(t, p, changed)
      PROVE  UNCHANGED <<resident, frame, disk, pins>>
  BY <1>2 DEF PinHit, PinMiss, Flush, UnpinRaises, Unpin, file, pool
<1>3. ASSUME NEW t \in Thread, Extend(t) PROVE UNCHANGED <<resident, frame, disk, pins>>
  <2>1. position = length /\ position \in Page
    BY <1>3, <1>c DEF Extend, WriteNext, Known, CopiesKnown, Work
  <2>2. disk[position] = Zero
    BY <1>0, <2>1 DEF Shape, Page
  <2>3. disk' = disk
    BY <1>0, <1>3, <2>1, <2>2 DEF Extend, WriteNext, TypeOK
  <2> QED BY <1>3, <2>3 DEF Extend, pool
<1>4. ASSUME NEW t \in Thread, Drop(t) PROVE UNCHANGED Store!pageVars
  <2>1. /\ Counted /\ Saved /\ call[t].victim \in Page /\ call[t].victim \in resident
        /\ pins[call[t].victim] = 0 /\ call[t].victim \notin dirty
    BY <1>4, <1>c, <1>a, ConstantsAssumption DEF Drop, Work, Fit, Known, VictimKnown, Evicting
  <2>2. \A e \in edited : e[2] # call[t].victim
    BY <1>0, <2>1, NoHolders DEF TypeOK
  <2>3. frame[call[t].victim] = disk[call[t].victim]
    BY <2>1, <2>2 DEF Saved
  <2>4. Content' = Content
    BY <1>0, <1>4, <2>1, <2>3 DEF Drop, Content, TypeOK, file
  <2> QED BY <1>4, <2>4 DEF Drop, file, Store!pageVars, Content
<1>5. ASSUME NEW t \in Thread, Insert(t) PROVE UNCHANGED Store!pageVars
  <2>1. /\ call[t].page \in Page /\ call[t].page \notin resident
        /\ call[t].data = disk[call[t].page]
    BY <1>5, <1>c, <1>a, ConstantsAssumption DEF Insert, Work, Fit, Known, PageKnown, CopiesKnown,
                                                Fetching
  <2>2. Content' = Content
    BY <1>0, <1>5, <2>1 DEF Insert, Content, TypeOK, file
  <2> QED BY <1>5, <2>2 DEF Insert, file, Store!pageVars, Content
<1>6. ASSUME NEW t \in Thread, AddPin(t) PROVE Store!StoreNext
  <2> PICK p \in Page : p = call[t].page
    BY <1>6, <1>a DEF AddPin, Fit
  <2>1. UNCHANGED <<resident, frame, disk>>
    BY <1>6 DEF AddPin, file
  <2>2. pins' = [pins EXCEPT ![p] = call[t].seen + 1] /\ call[t].seen \in Nat
    BY <1>6, <1>a DEF AddPin, Call
  <2>3. Pinned' = Pinned \cup {p}
    BY <1>0, <2>2 DEF Pinned, TypeOK
  <2>4. Store!Open(p)
    BY <2>1, <2>3 DEF Store!Open, Pinned
  <2> QED BY <2>4 DEF Store!StoreNext
<1>7. ASSUME NEW t \in Thread, Lower(t) PROVE Store!StoreNext \/ UNCHANGED Store!pageVars
  <2> PICK p \in Page : p = call[t].page
    BY <1>7, <1>a DEF Lower, Fit
  <2>1. UNCHANGED <<resident, frame, disk>>
    BY <1>7 DEF Lower, file
  <2>2. Pinned' = Pinned \/ Pinned' = Pinned \ {p}
    BY <1>0, <1>7 DEF Lower, Lowered, Pinned, TypeOK
  <2>3. CASE Pinned' = Pinned
    BY <2>1, <2>3 DEF Store!pageVars, Pinned
  <2>4. CASE Pinned' = Pinned \ {p}
    <3>1. Store!Close(p)
      BY <2>1, <2>4 DEF Store!Close, Pinned
    <3> QED BY <3>1 DEF Store!StoreNext
  <2> QED BY <2>2, <2>3, <2>4
<1>8. ASSUME NEW t \in Thread, Write(t) PROVE Store!StoreNext
  <2>1. /\ position = call[t].victim /\ call[t].victim \in resident
        /\ call[t].out = frame[call[t].victim] /\ call[t].victim \in Page
    BY <1>8, <1>c, <1>a DEF Write, Work, Fit, Evicting, Known, VictimKnown, CopiesKnown, Saved
  <2>2. disk' = [disk EXCEPT ![call[t].victim] = frame[call[t].victim]]
    BY <1>8, <2>1 DEF Write, WriteNext
  <2>3. UNCHANGED <<resident, frame, pins>>
    BY <1>8 DEF Write, pool
  <2>4. Content' = Content
    BY <1>0, <2>1, <2>2, <2>3 DEF Content, TypeOK
  <2>5. Store!Flush(call[t].victim)
    BY <2>1, <2>2, <2>3, <2>4 DEF Store!Flush, Content
  <2> QED BY <2>1, <2>5 DEF Store!StoreNext
<1>9. ASSUME NEW t \in Thread, NEW p \in Page, NEW d \in Data, Edit(t, p, d) PROVE Store!StoreNext
  <2>1. ~overlapped
    BY <1>0, <1>9 DEF Edit, Meets
  <2>2. Counted
    BY <1>0, <2>1 DEF Calm
  <2>3. <<t, p>> \in live /\ pins[p] # 0
    BY <1>0, <1>9, <2>2, NoHolders DEF Edit, Counted
  <2>4. p \in Pinned /\ p \in resident
    BY <1>0, <2>2, <2>3 DEF Pinned, Counted, TypeOK
  <2>5. Content' = [Content EXCEPT ![p] = d]
    BY <1>0, <1>9, <2>3, <2>4 DEF Edit, Content, TypeOK, file
  <2>6. Store!Write(p, d)
    BY <1>9, <2>4, <2>5 DEF Edit, Store!Write, Pinned, Content, file
  <2> QED BY <2>6 DEF Store!StoreNext
<1>10. CASE Crash
  <2>1. Content' = disk
    BY <1>0, <1>10 DEF Crash, Content, TypeOK
  <2>2. Pinned' = {}
    BY <1>10 DEF Crash, Pinned
  <2>3. Store!Crash
    BY <1>10, <2>1, <2>2 DEF Crash, Store!Crash, Pinned, Content
  <2> QED BY <2>3 DEF Store!StoreNext
<1>11. CASE UNCHANGED vars
  BY <1>11, <1>b DEF vars, file, pool
<1> QED BY <1>b, <1>1, <1>2, <1>3, <1>4, <1>5, <1>6, <1>7, <1>8, <1>9, <1>10, <1>11 DEF Next, Work

\* While calls do not overlap, the buffer pool implements a plain store of pages:
\* through pin, unpin, eviction, flush and crash no write is lost, except those a
\* crash takes back.
THEOREM Refinement == Spec => StoreRefined
<1>1. Init => Store!StoreInit
  BY StoreInitial
<1>2. PoolInv /\ PoolInv' /\ [Next]_vars => [~overlapped' => Store!StoreNext]_(Store!pageVars)
  BY StoreStep
<1> QED BY <1>1, <1>2, PoolInvariant, PTL DEF Spec, StoreRefined
=============================================================================
