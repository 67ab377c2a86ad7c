----------------------------- MODULE BufferPool -----------------------------
(***************************************************************************)
(* The page cache of one file: BufferManager over DiskManager              *)
(* (engine/storage/buffer_manager.py, disk_manager.py).  Its clients pin a *)
(* page, read or change its frame in place, and unpin it, with dirty=True  *)
(* when they changed it.                                                   *)
(*                                                                         *)
(* Nothing here takes a lock, and connections that share a table lock are  *)
(* in the pool of one file at once.  A call is therefore cut wherever the  *)
(* interpreter may change threads: at each call it makes.  overlapped      *)
(* records that two calls of this process have met, after which little is  *)
(* left of what the pool promises.                                         *)
(***************************************************************************)
EXTENDS Integers, FiniteSets

CONSTANTS MaxPages,  \* bound on the pages of the file
          Data,      \* page contents
          Zero,      \* a page as allocate_page leaves it
          Capacity,  \* frames of the pool
          Thread,    \* the clients: threads, or scans one thread has open
          MaxPins,   \* bound on the pins of one page
          NoPage

Page == 0 .. MaxPages - 1

ASSUME ConstantsAssumption ==
  /\ MaxPages \in Nat /\ MaxPins \in Nat
  /\ Capacity \in Nat \ {0}
  /\ Zero \in Data
  /\ IsFiniteSet(Thread) /\ Thread # {}
  /\ NoPage \notin Page

VARIABLES count,      \* _next_page_id
          length,     \* the pages the file has
          position,   \* where its next read or write is
          disk,       \* the file
          resident,   \* the keys of _frames
          frame,      \* its values; Zero for a page that is not resident
          older,      \* its order: <<p, q>> when p comes before q
          pins,       \* _pin_counts
          dirty,      \* _dirty
          call,       \* what each thread does in the pool: step and local variables
          holds,      \* <<t, p>>: t has a frame of p that it has not unpinned,
          live,       \* and that frame is the one in the pool,
          edited,     \* and t has changed it
          overlapped  \* two calls have overlapped since the process began

file == <<count, length, position, disk>>
pool == <<resident, frame, older, pins, dirty>>
clients == <<holds, live, edited>>
vars == <<file, pool, call, clients, overlapped>>

Steps == {"idle", "room", "seek", "read", "flush", "reseek", "write", "clean", "drop", "insert",
          "count", "store", "lower", "extend", "extended"}
Call == [at : Steps, page : Page \cup {NoPage}, victim : Page \cup {NoPage},
         data : Data, out : Data, seen : Nat]
Idle == [at |-> "idle", page |-> NoPage, victim |-> NoPage, data |-> Zero, out |-> Zero, seen |-> 0]

TypeOK ==
  /\ count \in Nat /\ length \in 0 .. MaxPages /\ position \in 0 .. MaxPages
  /\ disk \in [Page -> Data] /\ frame \in [Page -> Data]
  /\ resident \subseteq Page /\ dirty \subseteq Page
  /\ older \subseteq Page \X Page
  /\ pins \in [Page -> Nat]
  /\ call \in [Thread -> Call]
  /\ holds \subseteq Thread \X Page /\ live \subseteq holds /\ edited \subseteq holds
  /\ overlapped \in BOOLEAN

Init ==
  /\ count = 0 /\ length = 0 /\ position = 0
  /\ disk = [p \in Page |-> Zero] /\ frame = [p \in Page |-> Zero]
  /\ resident = {} /\ older = {} /\ dirty = {}
  /\ pins = [p \in Page |-> 0]
  /\ call = [t \in Thread |-> Idle]
  /\ holds = {} /\ live = {} /\ edited = {}
  /\ overlapped = FALSE

-----------------------------------------------------------------------------
At(t, step) == call[t].at = step
Busy(t) == ~At(t, "idle")

Go(t, step) == call' = [call EXCEPT ![t].at = step]
Return(t) == call' = [call EXCEPT ![t] = Idle]

\* t enters the pool, or writes into a frame, while others may be in a call.
Meets(t) == overlapped' = (overlapped \/ \E u \in Thread \ {t} : Busy(u))
Enter(t, step, p, v) ==
  /\ At(t, "idle")
  /\ call' = [call EXCEPT ![t] = [Idle EXCEPT !.at = step, !.page = p, !.victim = v]]
  /\ Meets(t)

-----------------------------------------------------------------------------
(* The file has one position, which seek sets and the next access uses.     *)

Seek(x) == position' = x /\ UNCHANGED <<count, length, disk>>
WriteNext(d) ==
  /\ position \in Page
  /\ disk' = [disk EXCEPT ![position] = d]
  /\ length' = IF position < length THEN length ELSE position + 1
  /\ position' = position + 1
  /\ UNCHANGED count

\* allocate_page extends the file by a page of zeros.
Allocate(t) ==
  /\ count < MaxPages /\ length < MaxPages
  /\ Enter(t, "extend", NoPage, NoPage)
  /\ Seek(length)
  /\ UNCHANGED <<pool, clients>>

Extend(t) ==
  /\ At(t, "extend")
  /\ WriteNext(Zero)
  /\ Go(t, "extended")
  /\ UNCHANGED <<pool, clients, overlapped>>

Allocated(t) ==
  /\ At(t, "extended")
  /\ count' = count + 1
  /\ Return(t)
  /\ UNCHANGED <<length, position, disk, pool, clients, overlapped>>

-----------------------------------------------------------------------------
(* pin.                                                                     *)

\* move_to_end, and the insertion of a new key: p becomes the newest of the keys R.
Newest(R, p) == {e \in older : e[1] # p /\ e[2] # p /\ e[1] \in R /\ e[2] \in R}
                  \cup ((R \ {p}) \X {p})

MayPin(t, p) == p < count /\ <<t, p>> \notin holds /\ pins[p] < MaxPins

PinHit(t, p) ==
  /\ MayPin(t, p) /\ p \in resident
  /\ Enter(t, "count", p, NoPage)
  /\ older' = Newest(resident, p)
  /\ UNCHANGED <<file, resident, frame, pins, dirty, clients>>

PinMiss(t, p) ==
  /\ MayPin(t, p) /\ p \notin resident
  /\ Enter(t, "room", p, NoPage)
  /\ UNCHANGED <<file, pool, clients>>

\* Mutant of HasRoom: one page too many is let in.
HasRoomForOneMore == Cardinality(resident) <= Capacity
HasRoom == Cardinality(resident) < Capacity

\* Mutant of Unpinned: the pins are not looked at.
Evictable == resident

\* _select_victim: the least recently used page that is not pinned.
Unpinned  == {p \in resident : pins[p] = 0}
Victim(v) == v \in Unpinned /\ \A q \in Unpinned \ {v} : <<v, q>> \in older

FindRoom(t) ==
  /\ At(t, "room")
  /\ \/ HasRoom /\ Go(t, "seek")
     \/ /\ ~HasRoom
        /\ \E v \in Page : Victim(v) /\ call' = [call EXCEPT ![t].at = "seek", ![t].victim = v]
  /\ UNCHANGED <<file, pool, clients, overlapped>>

\* Every page is pinned, or another thread changes _frames under the loop.
NoVictim(t) ==
  /\ At(t, "room") /\ ~HasRoom
  /\ Unpinned = {} \/ \E u \in Thread \ {t} : Busy(u)
  /\ Return(t)
  /\ UNCHANGED <<file, pool, clients, overlapped>>

\* The page is read before the victim is flushed and dropped.
SeekPage(t) ==
  /\ At(t, "seek")
  /\ Seek(call[t].page)
  /\ Go(t, "read")
  /\ UNCHANGED <<pool, clients, overlapped>>

Read(t) ==
  /\ At(t, "read") /\ position < length
  /\ position' = position + 1
  /\ call' = [call EXCEPT ![t].data = disk[position],
                          ![t].at = IF call[t].victim = NoPage THEN "insert" ELSE "flush"]
  /\ UNCHANGED <<count, length, disk, pool, clients, overlapped>>

ShortRead(t) ==
  /\ At(t, "read") /\ position >= length
  /\ Return(t)
  /\ UNCHANGED <<file, pool, clients, overlapped>>

Drop(t) ==
  LET v == call[t].victim IN
  /\ At(t, "drop") /\ v \in resident
  /\ resident' = resident \ {v}
  /\ frame' = [frame EXCEPT ![v] = Zero]
  /\ older' = {e \in older : e[1] # v /\ e[2] # v}
  /\ live' = live \ (Thread \X {v})
  /\ Go(t, "insert")
  /\ UNCHANGED <<file, pins, dirty, holds, edited, overlapped>>

\* A page that another thread has loaded meanwhile keeps its place, but not its frame.
Insert(t) ==
  LET p == call[t].page IN
  /\ At(t, "insert")
  /\ resident' = resident \cup {p}
  /\ frame' = [frame EXCEPT ![p] = call[t].data]
  /\ older' = IF p \in resident THEN older ELSE Newest(resident, p)
  /\ live' = live \ (Thread \X {p})
  /\ Go(t, "count")
  /\ UNCHANGED <<file, pins, dirty, holds, edited, overlapped>>

CountPins(t) ==
  /\ At(t, "count")
  /\ call' = [call EXCEPT ![t].seen = pins[call[t].page], ![t].at = "store"]
  /\ UNCHANGED <<file, pool, clients, overlapped>>

\* The frame is looked up again: it may be gone, and then the count has gone up for nobody.
AddPin(t) ==
  LET p == call[t].page
      held == IF p \in resident THEN {<<t, p>>} ELSE {} IN
  /\ At(t, "store")
  /\ pins' = [pins EXCEPT ![p] = call[t].seen + 1]
  /\ holds' = holds \cup held /\ live' = live \cup held
  /\ Return(t)
  /\ UNCHANGED <<file, resident, frame, older, dirty, edited, overlapped>>

-----------------------------------------------------------------------------
(* flush_page, of the victim or of a page that flush_all has found dirty;   *)
(* flush_all is one such call after another.                                *)

Flush(t, p) ==
  /\ p \in dirty
  /\ Enter(t, "flush", NoPage, p)
  /\ UNCHANGED <<file, pool, clients>>

Flushed(t) == IF call[t].page = NoPage THEN Return(t) ELSE Go(t, "drop")

\* Mutant of FlushClean: the victim is dropped without being flushed.
FlushAsClean(t) ==
  /\ At(t, "flush")
  /\ Flushed(t)
  /\ UNCHANGED <<file, pool, clients, overlapped>>
FlushClean(t) ==
  /\ At(t, "flush") /\ call[t].victim \notin dirty
  /\ Flushed(t)
  /\ UNCHANGED <<file, pool, clients, overlapped>>

FlushDirty(t) ==
  LET v == call[t].victim IN
  /\ At(t, "flush") /\ v \in dirty /\ v \in resident
  /\ call' = [call EXCEPT ![t].out = frame[v], ![t].at = "reseek"]
  /\ UNCHANGED <<file, pool, clients, overlapped>>

\* The victim's frame has been dropped by another thread.
VictimGone(t) ==
  /\ \/ At(t, "flush") /\ call[t].victim \in dirty
     \/ At(t, "drop")
  /\ call[t].victim \notin resident
  /\ Return(t)
  /\ UNCHANGED <<file, pool, clients, overlapped>>

SeekVictim(t) ==
  /\ At(t, "reseek")
  /\ Seek(call[t].victim)
  /\ Go(t, "write")
  /\ UNCHANGED <<pool, clients, overlapped>>

Write(t) ==
  /\ At(t, "write")
  /\ WriteNext(call[t].out)
  /\ Go(t, "clean")
  /\ UNCHANGED <<pool, clients, overlapped>>

Clean(t) ==
  /\ At(t, "clean")
  /\ dirty' = dirty \ {call[t].victim}
  /\ Flushed(t)
  /\ UNCHANGED <<file, resident, frame, older, pins, clients, overlapped>>

-----------------------------------------------------------------------------
(* The clients.                                                             *)

\* A client writes into the frame it has pinned.
Edit(t, p, d) ==
  /\ At(t, "idle") /\ <<t, p>> \in holds
  /\ frame' = IF <<t, p>> \in live THEN [frame EXCEPT ![p] = d] ELSE frame
  /\ edited' = edited \cup {<<t, p>>}
  /\ Meets(t)
  /\ UNCHANGED <<file, resident, older, pins, dirty, call, holds, live>>

\* Mutant of Flag: the flag of the last client overwrites that of the others.
FlagOverwriting(p, changed) == IF changed THEN dirty \cup {p} ELSE dirty \ {p}
Flag(p, changed) == IF changed THEN dirty \cup {p} ELSE dirty

\* unpin: the client that changed the page is the one that says so.
Unpin(t, p, changed) ==
  /\ <<t, p>> \in holds /\ pins[p] > 0
  /\ <<t, p>> \in edited => changed
  /\ Enter(t, "lower", p, NoPage)
  /\ dirty' = Flag(p, changed)
  /\ UNCHANGED <<file, resident, frame, older, pins, clients>>

\* Mutant of Lowered: a page is unpinned twice.
LoweredTwice(n) == n - 2
Lowered(n) == n - 1

Lower(t) ==
  LET p == call[t].page IN
  /\ At(t, "lower")
  /\ pins' = IF pins[p] > 0 THEN [pins EXCEPT ![p] = Lowered(@)] ELSE pins
  /\ holds' = holds \ {<<t, p>>} /\ live' = live \ {<<t, p>>} /\ edited' = edited \ {<<t, p>>}
  /\ Return(t)
  /\ UNCHANGED <<file, resident, frame, older, dirty, overlapped>>

\* The count of the page has been lost, and unpin raises.
UnpinRaises(t, p) ==
  /\ At(t, "idle") /\ <<t, p>> \in holds /\ pins[p] = 0
  /\ holds' = holds \ {<<t, p>>} /\ live' = live \ {<<t, p>>} /\ edited' = edited \ {<<t, p>>}
  /\ UNCHANGED <<file, pool, call, overlapped>>

-----------------------------------------------------------------------------
\* The process dies, perhaps in the middle of a call, and the file is opened
\* again: its size gives the number of pages.
Crash ==
  /\ count' = length /\ position' = 0
  /\ resident' = {} /\ older' = {} /\ dirty' = {}
  /\ frame' = [p \in Page |-> Zero]
  /\ pins' = [p \in Page |-> 0]
  /\ call' = [t \in Thread |-> Idle]
  /\ holds' = {} /\ live' = {} /\ edited' = {}
  /\ overlapped' = FALSE
  /\ UNCHANGED <<length, disk>>

Work(t) ==
  \/ Allocate(t) \/ Extend(t) \/ Allocated(t)
  \/ FindRoom(t) \/ NoVictim(t) \/ SeekPage(t) \/ Read(t) \/ ShortRead(t)
  \/ Drop(t) \/ Insert(t) \/ CountPins(t) \/ AddPin(t)
  \/ FlushClean(t) \/ FlushDirty(t) \/ VictimGone(t) \/ SeekVictim(t) \/ Write(t) \/ Clean(t)
  \/ Lower(t)

Next ==
  \/ \E t \in Thread : Work(t)
  \/ \E t \in Thread, p \in Page : PinHit(t, p) \/ PinMiss(t, p) \/ Flush(t, p) \/ UnpinRaises(t, p)
  \/ \E t \in Thread, p \in Page, d \in Data : Edit(t, p, d)
  \/ \E t \in Thread, p \in Page, changed \in BOOLEAN : Unpin(t, p, changed)
  \/ Crash

Spec == Init /\ [][Next]_vars

-----------------------------------------------------------------------------
\* The pool has no more frames than its capacity, and when calls overlap one
\* more for each other thread at most: a thread that has found room, or has
\* dropped its victim, brings one page in.
PoolBounded ==
  Cardinality(resident) <= Capacity + (IF overlapped THEN Cardinality(Thread) - 1 ELSE 0)

\* While calls do not overlap, a pinned page stays in the pool, and the frame a
\* client holds is the page.
PinnedResident ==
  ~overlapped => /\ \A p \in Page : pins[p] > 0 => p \in resident
                 /\ holds = live

\* While calls do not overlap, a change nobody has flagged is under a pin, and a
\* page that is neither dirty nor being changed is what the file has: dropping
\* its frame loses nothing.
CleanMatchesDisk ==
  ~overlapped => /\ \A e \in edited : pins[e[2]] > 0
                 /\ dirty \subseteq resident
                 /\ \A p \in resident : p \notin dirty /\ (\A t \in Thread : <<t, p>> \notin edited)
                                          => frame[p] = disk[p]

Store == INSTANCE PageStore
           WITH content <- [p \in Page |-> IF p \in resident THEN frame[p] ELSE disk[p]],
                durable <- disk,
                open    <- {p \in Page : pins[p] > 0}

\* While calls do not overlap, pins, evictions and flushes in any order implement
\* a plain store of pages: no write is lost and none is seen twice, except that a
\* crash, in the middle of a call too, takes back what was not flushed.
StoreRefined == Store!StoreInit /\ [][~overlapped' => Store!StoreNext]_(Store!pageVars)
=============================================================================
