-------------------------- MODULE TableFile_proofs --------------------------
(***************************************************************************)
(* Proofs about the files of tables, for any records, lengths, page size   *)
(* and bounds on the pages: first the heap files, then the sequential      *)
(* files, then both as implementations of RowFile.                         *)
(***************************************************************************)
EXTENDS TableFile, SlottedPage_proofs

-----------------------------------------------------------------------------
\* Heap and sequential files use the same pages.

LEMMA HeapCardinality == \A T : H!Cardinality(T) = Cardinality(T)
BY DEF H!Cardinality, Cardinality, H!IsFiniteSet, IsFiniteSet

LEMMA HeapBytes == \A pg, T : H!Bytes(pg, T) = Bytes(pg, T)
BY DEF H!Bytes, Bytes, H!MapThenSumSet, MapThenSumSet, H!MapThenFoldSet, MapThenFoldSet

LEMMA HeapPageOf ==
  /\ H!Page = Page /\ H!NewPage = NewPage /\ H!ZeroPage = ZeroPage
  /\ \A pg, i : H!WithoutRecord(pg, i) = WithoutRecord(pg, i)
  /\ \A pg, v : H!WithRecord(pg, v) = WithRecord(pg, v)
BY DEF H!Page, Page, H!NewPage, NewPage, H!ZeroPage, ZeroPage, H!WithoutRecord,
       WithoutRecord, H!Tombstone, Tombstone, H!WithRecord, WithRecord

LEMMA HeapRoomOf ==
  /\ \A pg : H!LiveSlots(pg) = LiveSlots(pg) /\ H!FreeSpace(pg) = FreeSpace(pg)
             /\ H!Reclaimable(pg) = Reclaimable(pg)
  /\ \A pg, v : H!Fits(pg, v) <=> Fits(pg, v)
BY HeapBytes DEF H!LiveSlots, LiveSlots, H!FreeSpace, FreeSpace, H!DirectoryEnd,
   DirectoryEnd, H!Reclaimable, Reclaimable, H!Fits, Fits

LEMMA HeapPrepared == \A pg, v : H!Prepared(pg, v) = Prepared(pg, v)
<1>1. \A pg : H!Compacted(pg) = Compacted(pg)
  BY HeapBytes, HeapRoomOf DEF H!Compacted, Compacted
<1> QED BY <1>1, HeapRoomOf DEF H!Prepared, Prepared

-----------------------------------------------------------------------------
\* The entries of the heap of capacities.

LEMMA EntriesAreSum ==
  ASSUME NEW h, IsFiniteSet(DOMAIN h)
  PROVE  \E g : SumsBy(g, h, DOMAIN h) /\ H!Entries(h) = g[DOMAIN h]
<1> DEFINE Summed(g) == [s \in SUBSET DOMAIN h |-> IF s = {} THEN 0
                          ELSE LET x == CHOOSE x \in s : TRUE IN h[x] + g[s \ {x}]]
<1>1. PICK f : SumsBy(f, h, DOMAIN h)
  BY SumExists
<1>2. ASSUME NEW g PROVE (g = Summed(g)) <=> SumsBy(g, h, DOMAIN h)
  BY DEF SumsBy, Chosen
<1>3. H!Entries(h) = (CHOOSE g : g = Summed(g))[DOMAIN h]
  BY DEF H!Entries, H!BagToSet, H!MapThenSumSet, H!MapThenFoldSet
<1> HIDE DEF Summed
<1>4. f = Summed(f)
  BY <1>1, <1>2
<1>5. PICK g : g = (CHOOSE k : k = Summed(k)) /\ g = Summed(g)
  BY <1>4
<1> QED BY <1>2, <1>3, <1>5

LEMMA EntriesOfSet ==
  ASSUME NEW T, IsFiniteSet(T)
  PROVE  H!Entries(H!SetToBag(T)) = Cardinality(T)
<1> DEFINE h == [e \in T |-> 1]
<1>1. H!SetToBag(T) = h /\ DOMAIN h = T /\ \A e \in T : h[e] = 1
  BY DEF H!SetToBag
<1> HIDE DEF h
<1>2. PICK g : SumsBy(g, h, T) /\ H!Entries(h) = g[T]
  BY <1>1, EntriesAreSum
<1> QED BY <1>1, <1>2, SumOnes

LEMMA FewerEntries ==
  ASSUME NEW h, NEW k, IsFiniteSet(DOMAIN h), DOMAIN k \subseteq DOMAIN h,
         \A e \in DOMAIN h : h[e] \in Nat,
         \A e \in DOMAIN k : k[e] \in Nat /\ k[e] <= h[e]
  PROVE  H!Entries(k) \in Nat /\ H!Entries(h) \in Nat /\ H!Entries(k) <= H!Entries(h)
<1>1. IsFiniteSet(DOMAIN k)
  BY FS_Subset
<1>2. PICK f : SumsBy(f, h, DOMAIN h) /\ H!Entries(h) = f[DOMAIN h]
  BY EntriesAreSum
<1>3. PICK g : SumsBy(g, k, DOMAIN k) /\ H!Entries(k) = g[DOMAIN k]
  BY <1>1, EntriesAreSum
<1> QED BY <1>1, <1>2, <1>3, SumLess

\* What the heap holds: an entry for each capacity that is known, and others.
BagInv ==
  /\ IsFiniteSet(DOMAIN heap)
  /\ \A e \in DOMAIN heap : heap[e] \in Nat \ {0}
  /\ DOMAIN heap \subseteq (0 .. PageSize) \X DOMAIN pages
  /\ \A p \in DOMAIN capacity : <<capacity[p], p>> \in DOMAIN heap
  /\ H!Entries(heap) <= 2 * Cardinality(DOMAIN capacity)

\* The entries that stand for known capacities.
LEMMA KnownEntries ==
  ASSUME NEW c, IsFiniteSet(DOMAIN c)
  PROVE  LET known == {<<c[q], q>> : q \in DOMAIN c}
         IN IsFiniteSet(known) /\ Cardinality(known) <= Cardinality(DOMAIN c)
<1> DEFINE known == {<<c[q], q>> : q \in DOMAIN c}
           f == [q \in DOMAIN c |-> <<c[q], q>>]
<1>1. f \in Surjection(DOMAIN c, known)
  BY DEF Surjection
<1> QED BY <1>1, FS_Surjection

LEMMA SetCapacityKeeps ==
  ASSUME IsFiniteSet(DOMAIN heap), \A e \in DOMAIN heap : heap[e] \in Nat \ {0},
         DOMAIN heap \subseteq (0 .. PageSize) \X DOMAIN pages',
         IsFiniteSet(DOMAIN capacity),
         \A q \in DOMAIN capacity : capacity[q] \in 0 .. PageSize /\ q \in DOMAIN pages',
         NEW p \in DOMAIN pages', NEW room \in 0 .. PageSize,
         \A q \in DOMAIN capacity \ {p} : <<capacity[q], q>> \in DOMAIN heap,
         H!SetCapacity(p, room)
  PROVE  /\ unmeasured' = unmeasured \ {p}
         /\ DOMAIN capacity' = DOMAIN capacity \cup {p} /\ capacity'[p] = room
         /\ \A q \in DOMAIN capacity : q # p => capacity'[q] = capacity[q]
         /\ BagInv'
<1> DEFINE one    == H!SetToBag({<<room, p>>})
           pushed == H!(+)(heap, one)
           known  == {<<capacity'[q], q>> : q \in DOMAIN capacity'}
<1>1. /\ unmeasured' = unmeasured \ {p}
      /\ DOMAIN capacity' = DOMAIN capacity \cup {p} /\ capacity'[p] = room
      /\ \A q \in DOMAIN capacity : q # p => capacity'[q] = capacity[q]
  BY DEF H!SetCapacity, H!Fill
<1>2. IsFiniteSet(DOMAIN capacity')
  BY <1>1, FS_AddElement
<1>3. PICK c : c = capacity'
  OBVIOUS
<1>4. IsFiniteSet(known) /\ Cardinality(known) <= Cardinality(DOMAIN capacity')
      /\ Cardinality(DOMAIN capacity') \in Nat /\ Cardinality(known) \in Nat
  BY <1>2, <1>3, KnownEntries, FS_CardinalityType
<1>5. heap' = IF H!Entries(pushed) > 2 * Cardinality(DOMAIN capacity')
                THEN H!SetToBag(known) ELSE pushed
  BY HeapCardinality DEF H!SetCapacity
<1>6. /\ DOMAIN one = {<<room, p>>} /\ one[<<room, p>>] = 1
      /\ DOMAIN pushed = DOMAIN heap \cup {<<room, p>>}
      /\ \A e \in DOMAIN pushed : pushed[e] \in Nat \ {0}
  BY DEF H!SetToBag, H!(+)
<1>7. DOMAIN H!SetToBag(known) = known /\ \A e \in known : H!SetToBag(known)[e] = 1
  BY DEF H!SetToBag
<1> HIDE DEF one, pushed
<1>8. \A q \in DOMAIN capacity' :
        <<capacity'[q], q>> \in (0 .. PageSize) \X DOMAIN pages'
  BY <1>1
<1>9. CASE heap' = pushed /\ ~ H!Entries(pushed) > 2 * Cardinality(DOMAIN capacity')
  <2>1. IsFiniteSet(DOMAIN heap')
    <3>1. IsFiniteSet(DOMAIN heap \cup {<<room, p>>})
      BY FS_AddElement
    <3> QED BY <1>6, <1>9, <3>1
  <2>2. DOMAIN heap' \subseteq (0 .. PageSize) \X DOMAIN pages'
    BY <1>6, <1>9
  <2>3. \A q \in DOMAIN capacity' : <<capacity'[q], q>> \in DOMAIN heap'
    BY <1>1, <1>6, <1>9
  <2>4. H!Entries(pushed) \in Nat
    BY <1>6, <1>9, <2>1, FewerEntries
  <2>5. H!Entries(heap') <= 2 * Cardinality(DOMAIN capacity')
    BY <1>4, <1>9, <2>4
  <2> QED BY <1>1, <1>6, <1>9, <2>1, <2>2, <2>3, <2>5 DEF BagInv
<1>10. CASE heap' = H!SetToBag(known)
  <2>1. IsFiniteSet(DOMAIN heap') /\ DOMAIN heap' = known
    BY <1>4, <1>7, <1>10
  <2>2. DOMAIN heap' \subseteq (0 .. PageSize) \X DOMAIN pages'
    BY <1>8, <2>1
  <2>3. \A q \in DOMAIN capacity' : <<capacity'[q], q>> \in DOMAIN heap'
    BY <2>1
  <2>4. \A e \in DOMAIN heap' : heap'[e] \in Nat \ {0}
    BY <1>7, <1>10, <2>1
  <2>5. H!Entries(heap') = Cardinality(known)
    BY <1>4, <1>10, EntriesOfSet
  <2>6. H!Entries(heap') <= 2 * Cardinality(DOMAIN capacity')
    BY <1>4, <2>5
  <2> QED BY <1>1, <2>1, <2>2, <2>3, <2>4, <2>6 DEF BagInv
<1> QED BY <1>1, <1>5, <1>9, <1>10

-----------------------------------------------------------------------------
\* Heap files.

Room(pg) == FreeSpace(pg) + Reclaimable(pg)

LEMMA RoomOf ==
  /\ \A pg : H!FrameCapacity(pg) = Room(pg)
  /\ \A pg : WellLaid(pg) => Room(pg) \in 0 .. PageSize
  /\ \A v : H!Required(v) = Size[v] + SlotSize
<1>1. \A pg : H!FrameCapacity(pg) = Room(pg)
  BY HeapRoomOf DEF H!FrameCapacity, Room
<1>2. ASSUME NEW pg, WellLaid(pg) PROVE Room(pg) \in 0 .. PageSize
  <2> DEFINE b == Bytes(pg, LiveSlots(pg))
             d == DirectoryEnd(pg)
  <2>1. pg \in Page /\ d + b <= PageSize
    BY <1>2 DEF WellLaid
  <2>2. b \in Nat /\ d \in Nat /\ pg.free \in Int /\ PageSize \in Nat
    BY <2>1, LiveBytes, SlotType, SizesAssumption
  <2>3. Room(pg) = PageSize - d - b
    BY <2>2 DEF Room, FreeSpace, Reclaimable
  <2> HIDE DEF b, d
  <2> QED BY <2>1, <2>2, <2>3
<1> QED BY <1>1, <1>2 DEF H!Required

\* The pages, and what the file has of them: no more slots than they have now.
PageInv ==
  /\ H!Count \in 1 .. HeapPages
  /\ DOMAIN pages = 0 .. H!Count - 1 /\ DOMAIN saved = DOMAIN pages
  /\ \A p \in DOMAIN pages : /\ WellLaid(pages[p]) /\ WellLaid(saved[p])
                             /\ Len(saved[p].slots) <= Len(pages[p].slots)

\* What is known of the room of a page is true.
RoomInv ==
  /\ active \in DOMAIN pages /\ unmeasured \subseteq DOMAIN pages
  /\ DOMAIN capacity = DOMAIN pages \ unmeasured
  /\ \A p \in DOMAIN capacity : capacity[p] = Room(pages[p])

\* insert looks at the unmeasured pages when no known page has room, and stores
\* the record where there is.
SearchInv ==
  /\ pc \in {"idle", "find", "measure", "store"} /\ wanted \in Val
  /\ pc = "measure" => \A p \in DOMAIN capacity : capacity[p] < Size[wanted] + SlotSize
  /\ pc = "store" => active \in DOMAIN capacity /\ Size[wanted] + SlotSize <= capacity[active]

HeapInv == PageInv /\ RoomInv /\ BagInv /\ SearchInv

LEMMA PagesFinite ==
  ASSUME PageInv, RoomInv
  PROVE  /\ H!Count \in Nat /\ H!Count # 0 /\ IsFiniteSet(DOMAIN pages)
         /\ Cardinality(DOMAIN pages) = H!Count
         /\ IsFiniteSet(DOMAIN capacity) /\ DOMAIN capacity \subseteq DOMAIN pages
         /\ \A p \in DOMAIN capacity : capacity[p] \in 0 .. PageSize
<1>1. H!Count \in Nat /\ H!Count # 0
  BY ConstantsAssumption DEF PageInv
<1>2. PICK n \in Nat : n = H!Count
  BY <1>1
<1>3. IsFiniteSet(0 .. n - 1) /\ DOMAIN pages = 0 .. n - 1
  BY <1>2, FS_Interval DEF PageInv
<1>4. DOMAIN capacity \subseteq DOMAIN pages
  BY DEF RoomInv
<1>5. IsFiniteSet(DOMAIN pages) /\ IsFiniteSet(DOMAIN capacity)
  BY <1>3, <1>4, FS_Subset
<1>6. Cardinality(DOMAIN pages) = H!Count
  BY HeapCardinality DEF H!Count
<1>7. \A p \in DOMAIN capacity : capacity[p] \in 0 .. PageSize
  BY <1>4, RoomOf DEF RoomInv, PageInv
<1> QED BY <1>1, <1>4, <1>5, <1>6, <1>7

LEMMA HeapTyped ==
  ASSUME HeapInv
  PROVE  H!HeapTypeOK
<1>1. \A p \in DOMAIN pages : pages[p] \in H!Page /\ saved[p] \in H!Page
  BY HeapPageOf DEF HeapInv, PageInv, WellLaid
<1>2. \A p \in DOMAIN capacity : capacity[p] \in 0 .. PageSize
  BY PagesFinite DEF HeapInv
<1>3. H!Entries(heap) <= 2 * H!Cardinality(DOMAIN capacity)
  BY HeapCardinality DEF HeapInv, BagInv
<1>4. H!BagToSet(heap) \subseteq (0 .. PageSize) \X DOMAIN pages
  BY DEF HeapInv, BagInv, H!BagToSet
<1> QED BY <1>1, <1>2, <1>3, <1>4 DEF H!HeapTypeOK, HeapInv, PageInv, RoomInv, SearchInv

-----------------------------------------------------------------------------
\* A set of numbers has a least one.
LEMMA LeastNat ==
  ASSUME NEW T \in SUBSET Nat, T # {}
  PROVE  \E m \in T : \A n \in T : m <= n
<1>1. PICK t \in T : TRUE
  OBVIOUS
<1> DEFINE B == {0 .. n : n \in {k \in T : k <= t}}
<1>2. IsFiniteSet(0 .. t)
  BY FS_Interval
<1>3. B \in SUBSET SUBSET (0 .. t) /\ B # {}
  <2>1. \A n \in Nat : n <= t => 0 .. n \subseteq 0 .. t
    OBVIOUS
  <2>2. \A s \in B : s \subseteq 0 .. t
    BY <2>1
  <2>3. 0 .. t \in B
    BY <1>1
  <2> HIDE DEF B
  <2> QED BY <2>2, <2>3
<1> HIDE DEF B
<1>4. PICK s \in B : \A u \in B : u \subseteq s => u = s
  <2> DEFINE A == 0 .. t
  <2>1. IsFiniteSet(A) /\ B \in SUBSET SUBSET A /\ B # {}
    BY <1>2, <1>3
  <2> HIDE DEF A
  <2> QED BY <2>1, LeastSubset
<1>5. PICK m \in T : m <= t /\ s = 0 .. m
  BY <1>4 DEF B
<1>6. ASSUME NEW n \in T PROVE m <= n
  <2>1. SUFFICES ASSUME n < m PROVE FALSE
    OBVIOUS
  <2>2. 0 .. n \in B /\ 0 .. n \subseteq 0 .. m
    BY <1>5, <2>1 DEF B
  <2>3. 0 .. n = 0 .. m
    BY <1>4, <1>5, <2>2
  <2>4. m \in 0 .. m /\ m \notin 0 .. n
    BY <2>1
  <2> QED BY <2>3, <2>4
<1> QED BY <1>6

\* A heap that is not empty has a top, which has the most room.
LEMMA TopIsMost ==
  ASSUME BagInv, DOMAIN heap # {}, DOMAIN pages \subseteq Nat
  PROVE  H!Top \in DOMAIN heap /\ \A e \in DOMAIN heap : e[1] <= H!Top[1]
<1>1. \A e \in DOMAIN heap : e[1] \in 0 .. PageSize /\ e[2] \in Nat
  BY DEF BagInv
<1>2. PageSize \in Nat
  BY SizesAssumption
<1> DEFINE spares == {PageSize - e[1] : e \in DOMAIN heap}
<1>3. spares \in SUBSET Nat /\ spares # {}
  BY <1>1, <1>2
<1>4. PICK m \in spares : \A n \in spares : m <= n
  BY <1>3, LeastNat
<1>5. PICK a \in DOMAIN heap : m = PageSize - a[1]
  BY <1>4
<1>6. \A e \in DOMAIN heap : e[1] <= a[1]
  <2>1. ASSUME NEW e \in DOMAIN heap PROVE e[1] <= a[1]
    <3>1. PageSize - a[1] <= PageSize - e[1]
      BY <1>4, <1>5
    <3> QED BY <1>1, <1>2, <1>5, <3>1
  <2> QED BY <2>1
<1> DEFINE numbers == {n \in Nat : \E e \in DOMAIN heap : e[1] = a[1] /\ e[2] = n}
<1>7. numbers \in SUBSET Nat /\ numbers # {}
  BY <1>1, <1>5
<1>8. PICK k \in numbers : \A n \in numbers : k <= n
  BY <1>7, LeastNat
<1>9. PICK b \in DOMAIN heap : b[1] = a[1] /\ b[2] = k
  BY <1>8
<1>10. \A f \in DOMAIN heap : b[1] > f[1] \/ (b[1] = f[1] /\ b[2] <= f[2])
  <2>1. ASSUME NEW f \in DOMAIN heap PROVE b[1] > f[1] \/ (b[1] = f[1] /\ b[2] <= f[2])
    <3>1. CASE f[1] = a[1]
      BY <1>1, <1>8, <1>9, <3>1
    <3>2. CASE f[1] # a[1]
      BY <1>1, <1>2, <1>6, <1>9, <3>2
    <3> QED BY <3>1, <3>2
  <2> QED BY <2>1
<1>11. H!BagToSet(heap) = DOMAIN heap
  BY DEF H!BagToSet
<1>12. /\ H!Top \in DOMAIN heap
       /\ \A f \in DOMAIN heap : H!Top[1] > f[1] \/ (H!Top[1] = f[1] /\ H!Top[2] <= f[2])
  BY <1>9, <1>10, <1>11 DEF H!Top
<1> QED BY <1>1, <1>2, <1>12

-----------------------------------------------------------------------------
\* The invariant of a heap file holds at first, and every step keeps it.

LEMMA HeapStarts ==
  ASSUME H!HeapInit
  PROVE  HeapInv
<1> DEFINE e == <<Room(NewPage), 0>>
<1>1. /\ pages = [p \in {0} |-> NewPage] /\ saved = [p \in {0} |-> ZeroPage]
      /\ active = 0 /\ unmeasured = {} /\ pc = "idle" /\ wanted = (CHOOSE v \in Val : TRUE)
      /\ capacity = [p \in {0} |-> Room(NewPage)] /\ heap = H!SetToBag({e})
  BY HeapPageOf, RoomOf DEF H!HeapInit, H!NoRecord
<1>2. DOMAIN pages = {0} /\ DOMAIN saved = {0} /\ DOMAIN capacity = {0}
      /\ pages[0] = NewPage /\ saved[0] = ZeroPage /\ capacity[0] = Room(NewPage)
  BY <1>1
<1>3. H!Count = 1
  BY <1>2, HeapCardinality, FS_Singleton DEF H!Count
<1>4. PageInv
  <2>1. 0 .. H!Count - 1 = {0}
    BY <1>3
  <2>2. H!Count \in 1 .. HeapPages
    BY <1>3, ConstantsAssumption
  <2>3. Len(saved[0].slots) <= Len(pages[0].slots)
    BY <1>2, FirstPages
  <2> QED BY <1>2, <2>1, <2>2, <2>3, FirstPages DEF PageInv
<1>5. RoomInv
  BY <1>1, <1>2 DEF RoomInv
<1>6. BagInv
  <2>1. IsFiniteSet({e}) /\ Cardinality({e}) = 1 /\ Cardinality({0}) = 1
    BY FS_Singleton
  <2>2. DOMAIN heap = {e} /\ heap[e] = 1
    BY <1>1 DEF H!SetToBag
  <2>3. H!Entries(heap) = 1
    BY <1>1, <2>1, EntriesOfSet
  <2>4. Room(NewPage) \in 0 .. PageSize
    BY FirstPages, RoomOf
  <2> QED BY <1>2, <2>1, <2>2, <2>3, <2>4 DEF BagInv
<1>7. SearchInv
  BY <1>1, SizesAssumption DEF SearchInv
<1> QED BY <1>4, <1>5, <1>6, <1>7 DEF HeapInv

LEMMA InsertKeeps ==
  ASSUME HeapInv, NEW v \in Val, H!Insert(v)
  PROVE  HeapInv'
<1>1. /\ wanted' = v /\ pc' \in {"store", "find"}
      /\ pc' = "store" => active \in DOMAIN capacity /\ capacity[active] >= Size[v] + SlotSize
      /\ UNCHANGED <<pages, saved, active, capacity, heap, unmeasured>>
  BY RoomOf DEF H!Insert, H!space
<1>2. PageInv' /\ RoomInv' /\ BagInv'
  BY <1>1 DEF HeapInv, PageInv, RoomInv, BagInv, H!Count
<1>3. SearchInv'
  <2>1. active \in DOMAIN capacity => capacity[active] \in Int
    BY PagesFinite DEF HeapInv
  <2>2. Size[v] + SlotSize \in Int
    BY SizeType
  <2> QED BY <1>1, <2>1, <2>2 DEF SearchInv
<1> QED BY <1>2, <1>3 DEF HeapInv

\* An entry that is out of date stands for no capacity that is known.
LEMMA PopStaleKeeps ==
  ASSUME HeapInv, H!PopStale
  PROVE  HeapInv'
<1> DEFINE top  == H!Top
           one  == H!SetToBag({top})
           left == H!(-)(heap, one)
<1>1. /\ heap' = left /\ DOMAIN heap # {} /\ ~ H!Current(top)
      /\ UNCHANGED <<pages, saved, active, capacity, unmeasured, pc, wanted>>
  BY DEF H!PopStale, H!BagToSet
<1>2. PageInv' /\ RoomInv' /\ SearchInv'
  BY <1>1 DEF HeapInv, PageInv, RoomInv, SearchInv, H!Count
<1>3. BagInv'
  <2>1. DOMAIN one = {top} /\ one[top] = 1
    BY DEF H!SetToBag
  <2>2. \A e \in DOMAIN heap : heap[e] \in Nat \ {0}
    BY DEF HeapInv, BagInv
  <2>3. /\ DOMAIN left \subseteq DOMAIN heap
        /\ \A e \in DOMAIN left : left[e] \in Nat \ {0} /\ left[e] <= heap[e]
        /\ \A e \in DOMAIN heap : e # top => e \in DOMAIN left
    BY <2>1, <2>2 DEF H!(-)
  <2> HIDE DEF one, left
  <2>4. \A p \in DOMAIN capacity : <<capacity[p], p>> # top
    BY <1>1 DEF H!Current
  <2>5. H!Entries(left) \in Nat /\ H!Entries(heap) \in Nat /\ H!Entries(left) <= H!Entries(heap)
    BY <2>2, <2>3, FewerEntries DEF HeapInv, BagInv
  <2>6. IsFiniteSet(DOMAIN left)
    BY <2>3, FS_Subset DEF HeapInv, BagInv
  <2>7. /\ DOMAIN heap \subseteq (0 .. PageSize) \X DOMAIN pages
        /\ \A p \in DOMAIN capacity : <<capacity[p], p>> \in DOMAIN heap
        /\ H!Entries(heap) <= 2 * Cardinality(DOMAIN capacity)
    BY DEF HeapInv, BagInv
  <2>8. H!Entries(left) <= 2 * Cardinality(DOMAIN capacity)
    <3>1. Cardinality(DOMAIN capacity) \in Nat
      BY PagesFinite, FS_CardinalityType DEF HeapInv
    <3> QED BY <2>5, <2>7, <3>1
  <2> QED BY <1>1, <2>3, <2>4, <2>6, <2>7, <2>8 DEF BagInv
<1> QED BY <1>2, <1>3 DEF HeapInv

LEMMA TakeTopKeeps ==
  ASSUME HeapInv, H!TakeTop
  PROVE  HeapInv'
<1>1. /\ H!Top[2] \in DOMAIN capacity /\ capacity[H!Top[2]] >= Size[wanted] + SlotSize
      /\ active' = H!Top[2] /\ pc' = "store"
      /\ UNCHANGED <<pages, saved, capacity, heap, unmeasured, wanted>>
  BY RoomOf DEF H!TakeTop, H!space, H!Current
<1>2. PageInv' /\ RoomInv' /\ BagInv'
  BY <1>1, PagesFinite DEF HeapInv, PageInv, RoomInv, BagInv, H!Count
<1>3. SearchInv'
  <2>1. capacity[H!Top[2]] \in Int /\ wanted \in Val
    BY <1>1, PagesFinite DEF HeapInv, SearchInv
  <2>2. Size[wanted] + SlotSize \in Int
    BY <2>1, SizeType
  <2> QED BY <1>1, <2>1, <2>2 DEF SearchInv
<1> QED BY <1>2, <1>3 DEF HeapInv

\* The top of the heap is up to date and too small: so is every page that is
\* known, since the heap has an entry for each.
LEMMA NoneKnownKeeps ==
  ASSUME HeapInv, H!NoneKnown
  PROVE  HeapInv'
<1>1. /\ DOMAIN heap # {} => H!Top[1] < Size[wanted] + SlotSize
      /\ pc' = "measure"
      /\ UNCHANGED <<pages, saved, active, capacity, heap, unmeasured, wanted>>
  BY RoomOf DEF H!NoneKnown, H!space, H!BagToSet
<1>2. PageInv' /\ RoomInv' /\ BagInv'
  BY <1>1 DEF HeapInv, PageInv, RoomInv, BagInv, H!Count
<1>3. \A p \in DOMAIN capacity : capacity[p] < Size[wanted] + SlotSize
  <2>1. ASSUME NEW p \in DOMAIN capacity PROVE capacity[p] < Size[wanted] + SlotSize
    <3>1. <<capacity[p], p>> \in DOMAIN heap
      BY DEF HeapInv, BagInv
    <3>2. DOMAIN pages \subseteq Nat
      BY DEF HeapInv, PageInv
    <3>3. capacity[p] <= H!Top[1] /\ H!Top \in DOMAIN heap
      BY <3>1, <3>2, TopIsMost DEF HeapInv
    <3>4. H!Top[1] \in Int /\ capacity[p] \in Int
      BY <3>1, <3>3 DEF HeapInv, BagInv
    <3>5. Size[wanted] + SlotSize \in Int
      BY SizeType DEF HeapInv, SearchInv
    <3> QED BY <1>1, <3>1, <3>3, <3>4, <3>5
  <2> QED BY <2>1
<1>4. SearchInv'
  BY <1>1, <1>3 DEF HeapInv, SearchInv
<1> QED BY <1>2, <1>4 DEF HeapInv

\* The room of the page that changes is recorded.
LEMMA RecordsRoom ==
  ASSUME HeapInv, PageInv', NEW p, H!SetCapacity(p, Room(pages'[p])),
         DOMAIN pages' = DOMAIN pages \cup {p}, active' \in DOMAIN pages',
         \A q \in DOMAIN pages : q # p => pages'[q] = pages[q]
  PROVE  /\ RoomInv' /\ BagInv'
         /\ DOMAIN capacity' = DOMAIN capacity \cup {p} /\ capacity'[p] = Room(pages'[p])
         /\ \A q \in DOMAIN capacity : q # p => capacity'[q] = capacity[q]
<1>1. /\ IsFiniteSet(DOMAIN capacity) /\ DOMAIN capacity \subseteq DOMAIN pages
      /\ \A q \in DOMAIN capacity : capacity[q] \in 0 .. PageSize
  BY PagesFinite DEF HeapInv
<1>2. PICK room : room = Room(pages'[p])
  OBVIOUS
<1>3. room \in 0 .. PageSize
  BY <1>2, RoomOf DEF PageInv
<1>4. /\ IsFiniteSet(DOMAIN heap) /\ \A e \in DOMAIN heap : heap[e] \in Nat \ {0}
      /\ DOMAIN heap \subseteq (0 .. PageSize) \X DOMAIN pages'
      /\ \A q \in DOMAIN capacity : <<capacity[q], q>> \in DOMAIN heap
  BY DEF HeapInv, BagInv
<1>5. /\ unmeasured' = unmeasured \ {p}
      /\ DOMAIN capacity' = DOMAIN capacity \cup {p} /\ capacity'[p] = room
      /\ \A q \in DOMAIN capacity : q # p => capacity'[q] = capacity[q]
      /\ BagInv'
  BY <1>1, <1>2, <1>3, <1>4, SetCapacityKeeps
<1>6. RoomInv'
  BY <1>2, <1>5 DEF HeapInv, RoomInv
<1> QED BY <1>2, <1>5, <1>6

LEMMA MeasureKeeps ==
  ASSUME HeapInv, NEW p \in unmeasured, H!Measure(p)
  PROVE  HeapInv'
<1>1. /\ pc = "measure" /\ H!SetCapacity(p, Room(pages'[p]))
      /\ \/ Room(pages[p]) >= Size[wanted] + SlotSize /\ active' = p /\ pc' = "store"
         \/ /\ ~ (Room(pages[p]) >= Size[wanted] + SlotSize)
            /\ UNCHANGED <<active, pc>>
      /\ UNCHANGED <<pages, saved, wanted>>
  BY RoomOf DEF H!Measure
<1>2. PageInv'
  BY <1>1 DEF HeapInv, PageInv, H!Count
<1>3. p \in DOMAIN pages /\ active' \in DOMAIN pages'
  BY <1>1 DEF HeapInv, RoomInv
<1>4. /\ RoomInv' /\ BagInv'
      /\ DOMAIN capacity' = DOMAIN capacity \cup {p} /\ capacity'[p] = Room(pages[p])
      /\ \A q \in DOMAIN capacity : q # p => capacity'[q] = capacity[q]
  BY <1>1, <1>2, <1>3, RecordsRoom
<1>5. Room(pages[p]) \in Int
  BY <1>3, RoomOf DEF HeapInv, PageInv
<1>6. Size[wanted] + SlotSize \in Int /\ wanted \in Val
  BY SizeType DEF HeapInv, SearchInv
<1>7. SearchInv'
  BY <1>1, <1>4, <1>5, <1>6 DEF HeapInv, SearchInv
<1> QED BY <1>2, <1>4, <1>7 DEF HeapInv

LEMMA NewActivePageKeeps ==
  ASSUME HeapInv, H!NewActivePage
  PROVE  HeapInv'
<1>1. PICK n \in Nat : n = H!Count
  BY PagesFinite DEF HeapInv
<1>2. /\ pages' = H!Fill(n, NewPage, pages) /\ saved' = H!Fill(n, ZeroPage, saved)
      /\ n < HeapPages /\ H!SetCapacity(n, Room(NewPage))
      /\ active' = n /\ pc' = "store" /\ wanted' = wanted
  BY <1>1, HeapPageOf, RoomOf DEF H!NewActivePage
<1>3. DOMAIN pages = 0 .. n - 1 /\ DOMAIN saved = 0 .. n - 1 /\ n # 0
  BY <1>1, PagesFinite DEF HeapInv, PageInv
<1>4. /\ DOMAIN pages' = DOMAIN pages \cup {n} /\ DOMAIN saved' = DOMAIN saved \cup {n}
      /\ pages'[n] = NewPage /\ saved'[n] = ZeroPage
      /\ \A q \in DOMAIN pages : q # n => pages'[q] = pages[q] /\ saved'[q] = saved[q]
  BY <1>2, <1>3 DEF H!Fill
<1>5. DOMAIN pages' = 0 .. n /\ DOMAIN saved' = 0 .. n /\ \A q \in DOMAIN pages : q # n
  BY <1>3, <1>4
<1>6. H!Count' = n + 1
  BY <1>1, <1>5, HeapCardinality, FS_Interval DEF H!Count
<1>7. PageInv'
  <2>1. 0 .. H!Count' - 1 = 0 .. n /\ H!Count' \in 1 .. HeapPages
    BY <1>2, <1>6, ConstantsAssumption
  <2>2. ASSUME NEW q \in DOMAIN pages'
        PROVE  /\ WellLaid(pages'[q]) /\ WellLaid(saved'[q])
               /\ Len(saved'[q].slots) <= Len(pages'[q].slots)
    <3>1. CASE q = n
      BY <1>4, <3>1, FirstPages
    <3>2. CASE q # n
      BY <1>4, <3>2 DEF HeapInv, PageInv
    <3> QED BY <3>1, <3>2
  <2> QED BY <1>5, <2>1, <2>2 DEF PageInv
<1>8. /\ RoomInv' /\ BagInv'
      /\ DOMAIN capacity' = DOMAIN capacity \cup {n} /\ capacity'[n] = Room(NewPage)
  BY <1>2, <1>4, <1>7, RecordsRoom
<1>9. SearchInv'
  <2>1. wanted \in Val
    BY DEF HeapInv, SearchInv
  <2>2. Size[wanted] + SlotSize <= Room(NewPage)
    <3>1. NewPage \in Page /\ WellLaid(NewPage) /\ LiveSlots(NewPage) = {}
          /\ Fits(NewPage, wanted)
      BY <2>1, FirstPages DEF WellLaid
    <3>2. Bytes(NewPage, LiveSlots(NewPage)) = 0 /\ NewPage.free = PageSize
      BY <3>1, BytesNone DEF NewPage
    <3>3. FreeSpace(NewPage) \in Int /\ PageSize \in Int
      BY <3>1, SlotType, SizesAssumption
    <3>4. Room(NewPage) = FreeSpace(NewPage)
      BY <3>2, <3>3 DEF Room, Reclaimable
    <3> QED BY <3>1, <3>4 DEF Fits
  <2> QED BY <1>2, <1>8, <2>1, <2>2 DEF SearchInv
<1> QED BY <1>7, <1>8, <1>9 DEF HeapInv

\* A record is stored where there is room for it, and what room is left is known.
LEMMA StoreKeeps ==
  ASSUME HeapInv, H!Store
  PROVE  HeapInv'
<1> DEFINE old == pages[active]
           new == WithRecord(Prepared(old, wanted), wanted)
<1>1. /\ pc = "store" /\ pages' = [pages EXCEPT ![active] = new]
      /\ H!SetCapacity(active, Room(new)) /\ pc' = "idle"
      /\ wanted' = (CHOOSE v \in Val : TRUE) /\ UNCHANGED <<saved, active>>
  BY HeapPageOf, HeapPrepared, RoomOf DEF H!Store, H!NoRecord
<1>2. /\ active \in DOMAIN pages /\ WellLaid(old) /\ wanted \in Val
      /\ Size[wanted] + SlotSize <= Room(old)
  BY <1>1 DEF HeapInv, PageInv, RoomInv, SearchInv
<1>3. /\ WellLaid(Prepared(old, wanted)) /\ Fits(Prepared(old, wanted), wanted)
      /\ DOMAIN Prepared(old, wanted).slots = DOMAIN old.slots
  BY <1>2, PreparePage DEF Room
<1>4. /\ WellLaid(new)
      /\ DOMAIN new.slots = DOMAIN Prepared(old, wanted).slots
                              \cup {Len(Prepared(old, wanted).slots) + 1}
  BY <1>2, <1>3, StoreRecord
<1> HIDE DEF new, old
<1>5. DOMAIN pages' = DOMAIN pages /\ pages'[active] = new
      /\ \A q \in DOMAIN pages : q # active => pages'[q] = pages[q]
  BY <1>1, <1>2
<1>6. Len(old.slots) <= Len(new.slots)
  <2>1. /\ DOMAIN old.slots = 1 .. Len(old.slots) /\ Len(old.slots) \in Nat
        /\ DOMAIN new.slots = 1 .. Len(new.slots) /\ Len(new.slots) \in Nat
    BY <1>2, <1>4, SlotType DEF WellLaid
  <2>2. DOMAIN old.slots \subseteq DOMAIN new.slots
    BY <1>3, <1>4
  <2>3. PICK a, b \in Nat : a = Len(old.slots) /\ b = Len(new.slots)
    BY <2>1
  <2>4. 1 .. a \subseteq 1 .. b
    BY <2>1, <2>2, <2>3
  <2>5. a <= b
    <3>1. a # 0 => a \in 1 .. a
      OBVIOUS
    <3> QED BY <2>4, <3>1
  <2> QED BY <2>3, <2>5
<1>7. PageInv'
  <2>1. H!Count' = H!Count
    BY <1>5 DEF H!Count
  <2>2. ASSUME NEW q \in DOMAIN pages'
        PROVE  /\ WellLaid(pages'[q]) /\ WellLaid(saved'[q])
               /\ Len(saved'[q].slots) <= Len(pages'[q].slots)
    <3>1. WellLaid(pages[q]) /\ WellLaid(saved[q])
          /\ Len(saved[q].slots) <= Len(pages[q].slots)
      BY <1>5 DEF HeapInv, PageInv
    <3>2. CASE q = active
      <4>1. /\ Len(saved[q].slots) \in Nat /\ Len(old.slots) \in Nat /\ Len(new.slots) \in Nat
        BY <1>2, <1>4, <3>1, SlotType DEF WellLaid
      <4>2. Len(saved[q].slots) <= Len(old.slots)
        BY <3>1, <3>2 DEF old
      <4>3. Len(saved[q].slots) <= Len(new.slots)
        BY <1>6, <4>1, <4>2
      <4> QED BY <1>1, <1>4, <1>5, <3>1, <3>2, <4>3
    <3>3. CASE q # active
      BY <1>1, <1>5, <3>1, <3>3
    <3> QED BY <3>2, <3>3
  <2> QED BY <1>1, <1>5, <2>1, <2>2 DEF HeapInv, PageInv
<1>8. RoomInv' /\ BagInv'
  <2>1. H!SetCapacity(active, Room(pages'[active])) /\ active' \in DOMAIN pages'
        /\ DOMAIN pages' = DOMAIN pages \cup {active}
    BY <1>1, <1>2, <1>5
  <2> QED BY <1>5, <1>7, <2>1, RecordsRoom
<1>9. SearchInv'
  BY <1>1, SizesAssumption DEF SearchInv
<1> QED BY <1>7, <1>8, <1>9 DEF HeapInv

LEMMA RemoveKeeps ==
  ASSUME HeapInv, NEW p \in DOMAIN pages, NEW i, H!Remove(p, i)
  PROVE  HeapInv'
<1> DEFINE new == WithoutRecord(pages[p], i)
<1>1. /\ pc = "idle" /\ i \in LiveSlots(pages[p]) /\ pages' = [pages EXCEPT ![p] = new]
      /\ H!SetCapacity(p, Room(new)) /\ UNCHANGED <<saved, active, pc, wanted>>
  BY HeapPageOf, HeapRoomOf, RoomOf DEF H!Remove
<1>2. WellLaid(pages[p]) /\ WellLaid(saved[p]) /\ Len(saved[p].slots) <= Len(pages[p].slots)
  BY DEF HeapInv, PageInv
<1>3. WellLaid(new) /\ DOMAIN new.slots = DOMAIN pages[p].slots
  BY <1>1, <1>2, RemoveRecord
<1> HIDE DEF new
<1>4. DOMAIN pages' = DOMAIN pages /\ pages'[p] = new
      /\ \A q \in DOMAIN pages : q # p => pages'[q] = pages[q]
  BY <1>1
<1>5. Len(new.slots) = Len(pages[p].slots)
  <2>1. PICK a, b \in Nat : /\ a = Len(new.slots) /\ b = Len(pages[p].slots)
                            /\ DOMAIN new.slots = 1 .. a /\ DOMAIN pages[p].slots = 1 .. b
    BY <1>2, <1>3, SlotType DEF WellLaid
  <2>2. 1 .. a = 1 .. b
    BY <1>3, <2>1
  <2>3. a = b
    <3>1. (a # 0 => a \in 1 .. a) /\ (b # 0 => b \in 1 .. b)
      OBVIOUS
    <3>2. (a # 0 => a <= b) /\ (b # 0 => b <= a)
      BY <2>2, <3>1
    <3> QED BY <3>2
  <2> QED BY <2>1, <2>3
<1>6. PageInv'
  <2>1. H!Count' = H!Count
    BY <1>4 DEF H!Count
  <2>2. ASSUME NEW q \in DOMAIN pages'
        PROVE  /\ WellLaid(pages'[q]) /\ WellLaid(saved'[q])
               /\ Len(saved'[q].slots) <= Len(pages'[q].slots)
    BY <1>1, <1>2, <1>3, <1>4, <1>5 DEF HeapInv, PageInv
  <2> QED BY <1>1, <1>4, <2>1, <2>2 DEF HeapInv, PageInv
<1>7. RoomInv' /\ BagInv'
  <2>1. H!SetCapacity(p, Room(pages'[p])) /\ active' \in DOMAIN pages'
        /\ DOMAIN pages' = DOMAIN pages \cup {p}
    BY <1>1, <1>4 DEF HeapInv, RoomInv
  <2> QED BY <1>4, <1>6, <2>1, RecordsRoom
<1>8. SearchInv'
  BY <1>1 DEF HeapInv, SearchInv
<1> QED BY <1>6, <1>7, <1>8 DEF HeapInv

LEMMA SaveKeeps ==
  ASSUME HeapInv, NEW p \in DOMAIN pages, H!Save(p)
  PROVE  HeapInv'
<1>1. /\ saved' = [saved EXCEPT ![p] = pages[p]]
      /\ UNCHANGED <<pages, active, capacity, heap, unmeasured, pc, wanted>>
  BY DEF H!Save, H!space
<1>2. PageInv'
  <2>1. DOMAIN saved' = DOMAIN saved /\ H!Count' = H!Count
    BY <1>1 DEF H!Count
  <2>2. ASSUME NEW q \in DOMAIN pages
        PROVE  WellLaid(saved'[q]) /\ Len(saved'[q].slots) <= Len(pages[q].slots)
    <3>1. saved'[q] = pages[q] \/ saved'[q] = saved[q]
      BY <1>1 DEF HeapInv, PageInv
    <3>2. Len(pages[q].slots) \in Nat
      BY SlotType DEF HeapInv, PageInv, WellLaid
    <3> QED BY <3>1, <3>2 DEF HeapInv, PageInv
  <2> QED BY <1>1, <2>1, <2>2 DEF HeapInv, PageInv
<1>3. RoomInv' /\ BagInv' /\ SearchInv'
  BY <1>1 DEF HeapInv, RoomInv, BagInv, SearchInv
<1> QED BY <1>2, <1>3 DEF HeapInv

\* The file that is opened after a crash knows the room of no page.
LEMMA CrashKeeps ==
  ASSUME HeapInv, H!Crash
  PROVE  HeapInv'
<1>1. /\ pages' = saved /\ saved' = saved /\ active' = H!Count - 1
      /\ capacity' = [p \in {} |-> 0] /\ heap' = H!SetToBag({}) /\ unmeasured' = DOMAIN pages
      /\ pc' = "idle" /\ wanted' = (CHOOSE v \in Val : TRUE)
  BY DEF H!Crash, H!NoRecord
<1>2. DOMAIN pages' = DOMAIN pages /\ H!Count' = H!Count
  BY <1>1 DEF HeapInv, PageInv, H!Count
<1>3. PageInv'
  <2>1. \A p \in DOMAIN saved : Len(saved[p].slots) \in Nat /\ WellLaid(saved[p])
    BY SlotType DEF HeapInv, PageInv, WellLaid
  <2>2. \A p \in DOMAIN saved : Len(saved[p].slots) <= Len(saved[p].slots)
    BY <2>1
  <2> QED BY <1>1, <1>2, <2>1, <2>2 DEF HeapInv, PageInv
<1>4. RoomInv'
  <2>1. H!Count - 1 \in DOMAIN pages
    BY PagesFinite DEF HeapInv, PageInv
  <2> QED BY <1>1, <1>2, <2>1 DEF RoomInv
<1>5. BagInv'
  <2>1. DOMAIN heap' = {} /\ DOMAIN capacity' = {}
    BY <1>1 DEF H!SetToBag
  <2>2. IsFiniteSet({}) /\ Cardinality({}) = 0
    BY FS_EmptySet
  <2>3. H!Entries(heap') = 0
    BY <1>1, <2>2, EntriesOfSet
  <2> QED BY <2>1, <2>2, <2>3 DEF BagInv
<1>6. SearchInv'
  BY <1>1, SizesAssumption DEF SearchInv
<1> QED BY <1>3, <1>4, <1>5, <1>6 DEF HeapInv

LEMMA HeapStepKeeps ==
  ASSUME HeapInv, H!HeapNext
  PROVE  HeapInv'
BY InsertKeeps, PopStaleKeeps, TakeTopKeeps, NoneKnownKeeps, MeasureKeeps,
   NewActivePageKeeps, StoreKeeps, RemoveKeeps, SaveKeeps, CrashKeeps DEF H!HeapNext

-----------------------------------------------------------------------------
HeapFileInv == kind = "HEAP" => HeapInv

\* The heap file of a table knows the room of its pages: an out-of-date entry of
\* the heap hides no capacity, and a page that is not known is measured before
\* the file grows (heap_file.py, _capacity_heap and _unmeasured_pages).
THEOREM HeapInvariant == Spec => []HeapFileInv
<1>1. Init => HeapFileInv
  BY HeapStarts DEF Init, HeapFileInv
<1>2. HeapFileInv /\ [Next]_vars => HeapFileInv'
  <2> SUFFICES ASSUME HeapFileInv, [Next]_vars PROVE HeapFileInv'
    OBVIOUS
  <2>1. CASE kind = "HEAP" /\ H!HeapNext /\ UNCHANGED <<kind, seqOnly>>
    BY <2>1, HeapStepKeeps DEF HeapFileInv
  <2>2. CASE kind = "SEQUENTIAL" /\ S!SeqNext /\ UNCHANGED <<kind, heapOnly>>
    BY <2>2 DEF HeapFileInv
  <2>3. CASE UNCHANGED vars
    BY <2>3 DEF vars, HeapFileInv, HeapInv, PageInv, RoomInv, BagInv, SearchInv, H!Count
  <2> QED BY <2>1, <2>2, <2>3 DEF Next
<1> QED BY <1>1, <1>2, PTL DEF Spec

\* A heap file grows only when no page has room for the record, whatever was
\* deleted and whatever a crash made it forget (heap_file.py, insert).
THEOREM GrowsWhenFull == Spec => ExtendsWhenFull
<1>1. ASSUME HeapInv, H!HeapNext, DOMAIN pages' # DOMAIN pages
      PROVE  \A p \in DOMAIN pages : H!FrameCapacity(pages[p]) < H!Required(wanted)
  <2>1. H!NewActivePage
    <3>1. H!HeapNext => \/ H!NewActivePage \/ H!Store \/ pages' = pages \/ H!Crash
                        \/ \E p \in DOMAIN pages : \E i : H!Remove(p, i)
      BY DEF H!HeapNext, H!Insert, H!PopStale, H!TakeTop, H!NoneKnown, H!Measure, H!Save
    <3>2. H!Store \/ (\E p \in DOMAIN pages : \E i : H!Remove(p, i)) => DOMAIN pages' = DOMAIN pages
      BY DEF H!Store, H!Remove
    <3>3. H!Crash => DOMAIN pages' = DOMAIN pages
      BY <1>1 DEF H!Crash, HeapInv, PageInv
    <3> QED BY <1>1, <3>1, <3>2, <3>3
  <2>2. pc = "measure" /\ unmeasured = {}
    BY <2>1 DEF H!NewActivePage
  <2>3. DOMAIN capacity = DOMAIN pages
    BY <1>1, <2>2 DEF HeapInv, RoomInv
  <2> QED BY <1>1, <2>2, <2>3, RoomOf DEF HeapInv, RoomInv, SearchInv
<1>2. HeapFileInv /\ [Next]_vars =>
        [kind = "HEAP" /\ DOMAIN pages' # DOMAIN pages =>
           \A p \in DOMAIN pages : H!FrameCapacity(pages[p]) < H!Required(wanted)]_vars
  BY <1>1 DEF HeapFileInv, Next
<1> QED BY <1>2, HeapInvariant, PTL DEF Spec, ExtendsWhenFull

-----------------------------------------------------------------------------
\* Chains of pages.

NoPage == -1

\* q is the chain of pages that follows next from its first page.
Chained(q, next) ==
  /\ q \in Seq(DOMAIN next) /\ Len(q) # 0
  /\ \A i, j \in 1 .. Len(q) : q[i] = q[j] => i = j
  /\ \A i \in 1 .. Len(q) : next[q[i]] = IF i = Len(q) THEN NoPage ELSE q[i + 1]

LEMMA ChainType ==
  ASSUME NEW q, NEW next, Chained(q, next)
  PROVE  /\ Len(q) \in Nat /\ 1 <= Len(q) /\ DOMAIN q = 1 .. Len(q)
         /\ \A i \in 1 .. Len(q) : q[i] \in DOMAIN next
         /\ q \in [1 .. Len(q) -> DOMAIN next]
<1>1. q \in Seq(DOMAIN next) /\ Len(q) # 0
  BY DEF Chained
<1>2. Len(q) \in Nat /\ q \in [1 .. Len(q) -> DOMAIN next]
  BY <1>1, LenProperties
<1> QED BY <1>1, <1>2

\* The beginnings of a sequence.
LEMMA Beginnings ==
  ASSUME NEW T, NEW q \in Seq(T), Len(q) # 0
  PROVE  /\ SubSeq(q, 1, 1) = <<q[1]>> /\ SubSeq(q, 1, Len(q)) = q
         /\ \A n \in 1 .. Len(q) : /\ Len(SubSeq(q, 1, n)) = n
                                   /\ SubSeq(q, 1, n)[n] = q[n]
         /\ \A n \in 2 .. Len(q) : SubSeq(q, 1, n) = Append(SubSeq(q, 1, n - 1), q[n])
<1>1. /\ Len(q) \in Nat /\ 1 \in 1 .. Len(q) /\ q \in [1 .. Len(q) -> T]
      /\ \A i \in 1 .. Len(q) : q[i] \in T
  BY LenProperties
<1>2. \A n \in 1 .. Len(q) : /\ SubSeq(q, 1, n) \in Seq(T) /\ Len(SubSeq(q, 1, n)) = n
                             /\ SubSeq(q, 1, n)[n] = q[n]
  <2> TAKE n \in 1 .. Len(q)
  <2>1. \A i \in 1 .. n : q[i] \in T
    BY <1>1
  <2>2. /\ SubSeq(q, 1, n) \in Seq(T) /\ Len(SubSeq(q, 1, n)) = n - 1 + 1
        /\ \A i \in 1 .. n - 1 + 1 : SubSeq(q, 1, n)[i] = q[1 + i - 1]
    BY <1>1, <2>1, SubSeqProperties
  <2> QED BY <1>1, <2>2
<1>3. \A n \in 1 .. Len(q) : SubSeq(q, 1, n) = SubSeq(q, 1, n - 1) \o <<q[n]>>
  BY <1>1, SubSeqRecursiveSecond
<1>4. SubSeq(q, 1, 1) = <<q[1]>>
  <2>1. SubSeq(q, 1, 0) = <<>>
    BY SubSeqEmpty
  <2>2. <<q[1]>> \in Seq(T)
    BY <1>1
  <2>3. <<>> \o <<q[1]>> = <<q[1]>>
    BY <2>2, ConcatEmptySeq
  <2>4. 1 - 1 = 0
    OBVIOUS
  <2> QED BY <1>1, <1>3, <2>1, <2>3, <2>4
<1>5. ASSUME NEW n \in 2 .. Len(q)
      PROVE  SubSeq(q, 1, n) = Append(SubSeq(q, 1, n - 1), q[n])
  <2>1. n \in 1 .. Len(q) /\ n - 1 \in 1 .. Len(q)
    BY <1>1
  <2>2. SubSeq(q, 1, n - 1) \in Seq(T) /\ q[n] \in T
    BY <1>1, <1>2, <2>1
  <2>3. Append(SubSeq(q, 1, n - 1), q[n]) = SubSeq(q, 1, n - 1) \o <<q[n]>>
    BY <2>2, AppendIsConcat
  <2> QED BY <1>3, <2>1, <2>3
<1> QED BY <1>2, <1>4, <1>5, SubSeqFull

\* Following next from the first page of a chain yields the chain.
LEMMA PathIs ==
  ASSUME NEW q, NEW next, Chained(q, next), Len(q) <= SeqPages, NoPage \notin DOMAIN next
  PROVE  S!Path(q[1], next) = q
<1> DEFINE M == SeqPages
           Follow(w) == IF next[w[Len(w)]] = NoPage THEN w ELSE Append(w, next[w[Len(w)]])
           Walk(g) == [n \in 1 .. M |-> IF n = 1 THEN <<q[1]>> ELSE Follow(g[n - 1])]
           Begin(n) == SubSeq(q, 1, IF n <= Len(q) THEN n ELSE Len(q))
           c == [n \in 1 .. M |-> Begin(n)]
<1>1. S!Path(q[1], next) = (CHOOSE g : g = Walk(g))[M]
  BY DEF S!Path, S!NoPage, NoPage
<1>2. /\ Len(q) \in Nat /\ 1 <= Len(q) /\ q \in Seq(DOMAIN next) /\ M \in Nat
      /\ \A i \in 1 .. Len(q) : q[i] \in DOMAIN next
  BY ChainType, ConstantsAssumption DEF Chained
<1>3. /\ Begin(1) = <<q[1]>> /\ Begin(M) = q
      /\ \A n \in 2 .. M : Begin(n) = Follow(Begin(n - 1))
  <2>1. Begin(1) = <<q[1]>>
    BY <1>2, Beginnings
  <2>2. Begin(M) = q
    <3>1. Begin(M) = SubSeq(q, 1, Len(q))
      BY <1>2
    <3> QED BY <1>2, <3>1, Beginnings
  <2>3. ASSUME NEW n \in 2 .. M PROVE Begin(n) = Follow(Begin(n - 1))
    <3>1. CASE n <= Len(q)
      <4>1. Begin(n - 1) = SubSeq(q, 1, n - 1) /\ Begin(n) = SubSeq(q, 1, n)
        BY <1>2, <3>1
      <4>2. n - 1 \in 1 .. Len(q) /\ n \in 2 .. Len(q) /\ n - 1 # Len(q)
        BY <1>2, <3>1
      <4>3. Len(Begin(n - 1)) = n - 1 /\ Begin(n - 1)[n - 1] = q[n - 1]
        BY <1>2, <4>1, <4>2, Beginnings
      <4>4. next[q[n - 1]] = q[n] /\ q[n] # NoPage
        BY <1>2, <4>2 DEF Chained
      <4>5. Begin(n) = Append(Begin(n - 1), q[n])
        BY <1>2, <4>1, <4>2, Beginnings
      <4> HIDE DEF Begin
      <4> QED BY <4>3, <4>4, <4>5
    <3>2. CASE ~ (n <= Len(q))
      <4>1. Begin(n - 1) = SubSeq(q, 1, Len(q)) /\ Begin(n) = SubSeq(q, 1, Len(q))
        BY <1>2, <3>2
      <4>2. Begin(n - 1) = q /\ Begin(n) = q
        BY <1>2, <4>1, Beginnings
      <4>3. next[q[Len(q)]] = NoPage
        BY <1>2 DEF Chained
      <4> HIDE DEF Begin
      <4> QED BY <4>2, <4>3
    <3> QED BY <3>1, <3>2
  <2> QED BY <2>1, <2>2, <2>3
<1>4. c = Walk(c)
  <2>1. ASSUME NEW n \in 1 .. M PROVE c[n] = Walk(c)[n]
    <3>1. CASE n = 1
      <4> HIDE DEF Begin
      <4> QED BY <1>3, <3>1
    <3>2. CASE n # 1
      <4>1. n \in 2 .. M /\ n - 1 \in 1 .. M
        BY <1>2, <3>2
      <4> HIDE DEF Begin, Follow
      <4>2. c[n] = Follow(c[n - 1])
        BY <1>3, <4>1
      <4> QED BY <3>2, <4>2
    <3> QED BY <3>1, <3>2
  <2> QED BY <2>1
<1>5. PICK f : f = (CHOOSE g : g = Walk(g)) /\ f = Walk(f)
  <2>1. \E g : g = Walk(g)
    <3> HIDE DEF Walk, c
    <3> QED BY <1>4
  <2> HIDE DEF Walk
  <2> QED BY <2>1
<1>6. \A n \in 1 .. M : f[n] = c[n]
  <2> DEFINE D == {n \in 1 .. M : f[n] # c[n]}
  <2>1. SUFFICES ASSUME D # {} PROVE FALSE
    OBVIOUS
  <2>2. PICK m \in D : \A n \in D : m <= n
    <3>1. D \in SUBSET Nat
      OBVIOUS
    <3> HIDE DEF D
    <3> QED BY <2>1, <3>1, LeastNat
  <2>3. m \in 1 .. M /\ f[m] # c[m]
    BY <2>2
  <2> HIDE DEF Follow, Begin
  <2>4. m # 1
    <3> SUFFICES ASSUME m = 1 PROVE FALSE
      OBVIOUS
    <3>1. c[1] = Begin(1)
      BY <2>3
    <3>2. f[1] = <<q[1]>>
      <4> HIDE DEF c
      <4> QED BY <1>5, <2>3
    <3> HIDE DEF c
    <3> QED BY <1>3, <2>3, <3>1, <3>2
  <2>5. m - 1 \in 1 .. M /\ m \in 2 .. M
    BY <1>2, <2>3, <2>4
  <2>6. m - 1 \notin D
    <3> HIDE DEF D, c
    <3> QED BY <2>2, <2>5
  <2>7. f[m - 1] = c[m - 1]
    BY <2>5, <2>6
  <2>8. f[m] = Follow(f[m - 1])
    BY <1>5, <2>3, <2>4
  <2>9. c[m] = Follow(c[m - 1])
    BY <1>3, <2>3, <2>5
  <2> QED BY <2>3, <2>7, <2>8, <2>9
<1>7. M \in 1 .. M
  BY <1>2
<1>8. f[M] = q
  <2> HIDE DEF Begin
  <2> QED BY <1>3, <1>6, <1>7
<1> HIDE DEF Walk
<1> QED BY <1>1, <1>5, <1>8

\* A chain repeats no page.
LEMMA ChainShort ==
  ASSUME NEW q, NEW next, Chained(q, next), IsFiniteSet(DOMAIN next)
  PROVE  Len(q) <= Cardinality(DOMAIN next)
<1>1. /\ Len(q) \in Nat /\ q \in [1 .. Len(q) -> DOMAIN next]
      /\ \A i, j \in 1 .. Len(q) : q[i] = q[j] => i = j
  BY ChainType DEF Chained
<1>2. q \in Injection(1 .. Len(q), DOMAIN next)
  BY <1>1 DEF Injection, IsInjective
<1>3. Cardinality(1 .. Len(q)) = Len(q)
  <2>1. \A n \in Nat : Cardinality(1 .. n) = n
    BY FS_Interval
  <2> QED BY <1>1, <2>1
<1> QED BY <1>2, <1>3, FS_Injection

\* Pointers of other pages do not matter to a chain.
LEMMA ChainSame ==
  ASSUME NEW q, NEW next, NEW new, Chained(q, next), DOMAIN next \subseteq DOMAIN new,
         \A i \in 1 .. Len(q) : new[q[i]] = next[q[i]]
  PROVE  Chained(q, new)
<1>1. q \in Seq(DOMAIN next)
  BY DEF Chained
<1>2. q \in Seq(DOMAIN new)
  BY <1>1, SeqMonotonic
<1> QED BY <1>2 DEF Chained

LEMMA ChainOfOne ==
  ASSUME NEW next, NEW x \in DOMAIN next, next[x] = NoPage
  PROVE  Chained(<<x>>, next)
<1>1. <<x>> \in Seq(DOMAIN next) /\ Len(<<x>>) = 1 /\ <<x>>[1] = x
  OBVIOUS
<1> QED BY <1>1 DEF Chained

\* A page is linked to the end of a chain.
Grows(q, next, new, x) ==
  /\ Chained(q, next) /\ x \notin DOMAIN next
  /\ DOMAIN new = DOMAIN next \cup {x} /\ new[x] = NoPage /\ new[q[Len(q)]] = x
  /\ \A i \in 1 .. Len(q) - 1 : new[q[i]] = next[q[i]]

LEMMA ChainGrows ==
  ASSUME NEW q, NEW next, NEW new, NEW x, Grows(q, next, new, x)
  PROVE  /\ Chained(Append(q, x), new)
         /\ Len(Append(q, x)) = Len(q) + 1 /\ Append(q, x)[Len(q) + 1] = x
         /\ \A i \in 1 .. Len(q) : Append(q, x)[i] = q[i]
<1> DEFINE r == Append(q, x)
<1>1. /\ Len(q) \in Nat /\ 1 <= Len(q) /\ q \in Seq(DOMAIN next)
      /\ \A i \in 1 .. Len(q) : q[i] \in DOMAIN next
      /\ \A i, j \in 1 .. Len(q) : q[i] = q[j] => i = j
      /\ \A i \in 1 .. Len(q) : next[q[i]] = IF i = Len(q) THEN NoPage ELSE q[i + 1]
      /\ x \notin DOMAIN next /\ DOMAIN new = DOMAIN next \cup {x} /\ new[x] = NoPage
      /\ new[q[Len(q)]] = x /\ \A i \in 1 .. Len(q) - 1 : new[q[i]] = next[q[i]]
  BY ChainType DEF Chained, Grows
<1>2. q \in Seq(DOMAIN new) /\ x \in DOMAIN new
  BY <1>1, SeqMonotonic
<1>3. /\ r \in Seq(DOMAIN new) /\ Len(r) = Len(q) + 1 /\ r[Len(q) + 1] = x
      /\ \A i \in 1 .. Len(q) : r[i] = q[i]
  BY <1>2, AppendProperties
<1> HIDE DEF r
<1>4. \A i, j \in 1 .. Len(r) : r[i] = r[j] => i = j
  BY <1>1, <1>3
<1>5. ASSUME NEW i \in 1 .. Len(r)
      PROVE  new[r[i]] = IF i = Len(r) THEN NoPage ELSE r[i + 1]
  <2>1. CASE i = Len(q) + 1
    BY <1>1, <1>3, <2>1
  <2>2. CASE i = Len(q)
    BY <1>1, <1>3, <2>2
  <2>3. CASE i < Len(q)
    <3>1. i \in 1 .. Len(q) - 1 /\ i \in 1 .. Len(q) /\ i + 1 \in 1 .. Len(q)
          /\ i # Len(r) /\ i # Len(q)
      BY <1>1, <1>3, <2>3
    <3>2. new[q[i]] = q[i + 1]
      BY <1>1, <3>1
    <3> QED BY <1>3, <3>1, <3>2
  <2> QED BY <1>1, <1>3, <2>1, <2>2, <2>3
<1>6. Chained(r, new)
  BY <1>1, <1>3, <1>4, <1>5 DEF Chained
<1> QED BY <1>3, <1>6 DEF r

-----------------------------------------------------------------------------
\* The chains of a sequential file.

\* The pointers that link the bucket of m: its main page points to its first
\* overflow page, and an overflow page to the next.
BucketLinks(ps, m) == [p \in DOMAIN ps |-> IF p = m THEN ps[p].over ELSE ps[p].next]

LEMMA BucketIs ==
  ASSUME NEW ps, NEW b, Chained(b, BucketLinks(ps, b[1])), Len(b) <= SeqPages,
         NoPage \notin DOMAIN ps
  PROVE  S!Bucket(ps, b[1]) = b
<1> DEFINE m == b[1]
           links == BucketLinks(ps, m)
           after == S!Next(ps)
           n == Len(b)
<1>1. DOMAIN links = DOMAIN ps /\ DOMAIN after = DOMAIN ps
  BY DEF BucketLinks, S!Next
<1>2. /\ n \in Nat /\ 1 <= n /\ b \in Seq(DOMAIN ps) /\ b # <<>>
      /\ \A i \in 1 .. n : b[i] \in DOMAIN ps
      /\ \A i, j \in 1 .. n : b[i] = b[j] => i = j
      /\ \A i \in 1 .. n : links[b[i]] = IF i = n THEN NoPage ELSE b[i + 1]
  BY <1>1, ChainType DEF Chained
<1>3. /\ links[m] = ps[m].over
      /\ \A i \in 2 .. n : links[b[i]] = after[b[i]]
  BY <1>2 DEF BucketLinks, S!Next
<1> HIDE DEF links, after
<1>4. CASE n = 1
  <2>1. ps[m].over = NoPage
    BY <1>2, <1>3, <1>4
  <2>2. S!Bucket(ps, m) = <<m>>
    BY <2>1 DEF S!Bucket, S!NoPage, NoPage
  <2>3. <<m>> = b
    <3>1. <<m>> \in Seq(DOMAIN ps) /\ Len(<<m>>) = 1 /\ <<m>>[1] = m
      BY <1>2
    <3>2. \A i \in 1 .. Len(b) : b[i] = <<m>>[i]
      BY <1>4, <3>1
    <3> HIDE DEF m
    <3> QED BY <1>2, <1>4, <3>1, <3>2, SeqEqual
  <2> QED BY <2>2, <2>3
<1>5. CASE n # 1
  <2> DEFINE t == Tail(b)
  <2>1. /\ t \in Seq(DOMAIN ps) /\ Len(t) = n - 1
        /\ \A i \in 1 .. n - 1 : t[i] = b[i + 1]
    BY <1>2, HeadTailProperties
  <2> HIDE DEF t
  <2>2. \A i, j \in 1 .. Len(t) : t[i] = t[j] => i = j
    BY <1>2, <2>1
  <2>3. \A i \in 1 .. Len(t) : after[t[i]] = IF i = Len(t) THEN NoPage ELSE t[i + 1]
    <3> TAKE i \in 1 .. Len(t)
    <3>1. i + 1 \in 2 .. n /\ i + 1 \in 1 .. n /\ t[i] = b[i + 1]
      BY <1>2, <2>1
    <3>2. after[t[i]] = IF i + 1 = n THEN NoPage ELSE b[i + 1 + 1]
      BY <1>2, <1>3, <3>1
    <3>3. i + 1 # n => i + 1 \in 1 .. n - 1
      BY <1>2, <2>1
    <3>4. i + 1 # n => t[i + 1] = b[i + 1 + 1]
      BY <2>1, <3>3
    <3> QED BY <1>2, <2>1, <3>2, <3>4
  <2>4. Chained(t, after)
    BY <1>1, <1>2, <1>5, <2>1, <2>2, <2>3 DEF Chained
  <2>5. 1 \in 1 .. n - 1 /\ 2 \in 1 .. n /\ 1 \in 1 .. n
    <3> HIDE DEF n
    <3> QED BY <1>2, <1>5
  <2>6. ps[m].over = b[2] /\ t[1] = b[2] /\ b[2] # NoPage
    <3>1. 1 + 1 = 2 /\ 1 # n
      BY <1>5
    <3>2. links[b[1]] = b[2]
      BY <1>2, <2>5, <3>1
    <3> QED BY <1>2, <1>3, <2>1, <2>5, <3>1, <3>2
  <2>7. Len(t) <= SeqPages
    BY <1>2, <2>1, ConstantsAssumption
  <2>8. S!Path(b[2], after) = t
    BY <1>1, <2>4, <2>6, <2>7, PathIs
  <2>9. S!Bucket(ps, m) = <<m>> \o t
    BY <2>6, <2>8 DEF S!Bucket, S!NoPage, NoPage, after
  <2>10. <<m>> \o t = b
    <3>1. <<m>> \in Seq(DOMAIN ps) /\ Len(<<m>>) = 1 /\ <<m>>[1] = m
      BY <1>2, <2>5
    <3> DEFINE w == <<m>> \o t
    <3>2. /\ w \in Seq(DOMAIN ps) /\ Len(w) = 1 + (n - 1)
          /\ \A i \in 1 .. 1 + (n - 1) : w[i] = IF i <= 1 THEN <<m>>[i] ELSE t[i - 1]
      BY <2>1, <3>1, ConcatProperties
    <3> HIDE DEF w
    <3>3. Len(w) = n
      BY <1>2, <3>2
    <3>4. ASSUME NEW i \in 1 .. n PROVE w[i] = b[i]
      <4>1. CASE i = 1
        BY <1>2, <3>1, <3>2, <4>1
      <4>2. CASE i # 1
        <5>1. i - 1 \in 1 .. n - 1 /\ i - 1 + 1 = i /\ ~ (i <= 1)
          BY <1>2, <4>2
        <5>2. w[i] = t[i - 1]
          BY <1>2, <3>2, <5>1
        <5> QED BY <2>1, <5>1, <5>2
      <4> QED BY <4>1, <4>2
    <3> HIDE DEF m
    <3>5. w = b
      BY <1>2, <3>2, <3>3, <3>4, SeqEqual
    <3> QED BY <3>5 DEF w
  <2> QED BY <2>9, <2>10
<1> QED BY <1>4, <1>5

-----------------------------------------------------------------------------
\* Sequential files.

\* The keys on a page.
KeysOf(pg) == {Key[Held(pg).rows[i]] : i \in DOMAIN Held(pg).rows}

Elements(q) == {q[i] : i \in 1 .. Len(q)}

\* The pages: n of them, each with pointers and a sound body.
Sheet(sh) ==
  /\ sh \in [next : {NoPage} \cup Nat, over : {NoPage} \cup Nat, body : Page]
  /\ WellLaid(sh.body)
Sheets(ps, n) ==
  n \in 1 .. SeqPages /\ DOMAIN ps = 0 .. n - 1 /\ \A p \in DOMAIN ps : Sheet(ps[p])

\* q are the main pages, and ow is the bucket each page belongs to: b is the
\* bucket of main page m.
BucketOf(ps, ow, m, b) ==
  /\ Chained(b, BucketLinks(ps, m)) /\ b[1] = m
  /\ \A p \in DOMAIN ps : ow[p] = m <=> p \in Elements(b)
Linked(ps, ow, q) ==
  /\ Chained(q, S!Next(ps)) /\ q[1] = 0
  /\ ow \in [DOMAIN ps -> Elements(q)]
  /\ \A m \in Elements(q) : BucketOf(ps, ow, m, S!Bucket(ps, m))

\* The keys of the bucket of m, and the largest one.
KeysIn(ps, ow, m) == UNION {KeysOf(ps[p].body) : p \in {x \in DOMAIN ps : ow[x] = m}}
IsMax(k, K) == k \in K \cup {NoPage} /\ \A l \in K : l <= k

\* What is in memory is what the pages say.
Remembered(ps, mk, mn, ow, q) ==
  /\ mk \in [Elements(q) -> Nat \cup {NoPage}]
  /\ \A m \in Elements(q) : IsMax(mk[m], KeysIn(ps, ow, m))
  /\ mn = [m \in Elements(q) |-> ps[m].next]

InOrder(ps, ow, q) ==
  \A i, j \in 1 .. Len(q) : i < j =>
    \A k \in KeysIn(ps, ow, q[i]), l \in KeysIn(ps, ow, q[j]) : k < l

SeqInv ==
  /\ Sheets(pages, S!Count)
  /\ Linked(pages, owner, S!Mains(pages))
  /\ Remembered(pages, maxKey, mainNext, owner, S!Mains(pages))
  /\ InOrder(pages, owner, S!Mains(pages))

LEMMA SeqBytes == \A pg, T : S!Bytes(pg, T) = Bytes(pg, T)
BY DEF S!Bytes, Bytes, S!MapThenSumSet, MapThenSumSet, S!MapThenFoldSet, MapThenFoldSet

LEMMA SeqPageOf ==
  /\ S!Page = Page /\ S!NewPage = NewPage
  /\ \A pg, i : S!WithoutRecord(pg, i) = WithoutRecord(pg, i)
  /\ \A pg, v : S!WithRecord(pg, v) = WithRecord(pg, v)
BY DEF S!Page, Page, S!NewPage, NewPage, S!WithoutRecord, WithoutRecord, S!Tombstone,
       Tombstone, S!WithRecord, WithRecord

LEMMA SeqRoomOf ==
  /\ \A pg : S!LiveSlots(pg) = LiveSlots(pg)
  /\ \A pg, v : S!Fits(pg, v) <=> Fits(pg, v)
  /\ \A pg : S!Compacted(pg) = Compacted(pg)
  /\ \A pg, v : S!Prepared(pg, v) = Prepared(pg, v)
<1>1. /\ \A pg : S!LiveSlots(pg) = LiveSlots(pg) /\ S!FreeSpace(pg) = FreeSpace(pg)
                 /\ S!Reclaimable(pg) = Reclaimable(pg)
      /\ \A pg, v : S!Fits(pg, v) <=> Fits(pg, v)
  BY SeqBytes DEF S!LiveSlots, LiveSlots, S!FreeSpace, FreeSpace, S!DirectoryEnd,
     DirectoryEnd, S!Reclaimable, Reclaimable, S!Fits, Fits
<1>2. \A pg : S!Compacted(pg) = Compacted(pg)
  BY <1>1, SeqBytes DEF S!Compacted, Compacted
<1> QED BY <1>1, <1>2 DEF S!Prepared, Prepared

LEMMA SeqRange == \A q, T : q \in Seq(T) => S!Range(q) = Elements(q)
<1> SUFFICES ASSUME NEW T, NEW q \in Seq(T) PROVE S!Range(q) = Elements(q)
  OBVIOUS
<1>1. DOMAIN q = 1 .. Len(q)
  BY LenProperties
<1> QED BY <1>1 DEF S!Range, Elements

-----------------------------------------------------------------------------
LEMMA SheetsFinite ==
  ASSUME NEW ps, NEW n, Sheets(ps, n)
  PROVE  /\ n \in Nat /\ n # 0 /\ n <= SeqPages /\ SeqPages \in Nat
         /\ IsFiniteSet(DOMAIN ps) /\ Cardinality(DOMAIN ps) = n
         /\ NoPage \notin DOMAIN ps /\ DOMAIN ps \subseteq Nat
<1>1. n \in Nat /\ n # 0 /\ n <= SeqPages /\ SeqPages \in Nat
  BY ConstantsAssumption DEF Sheets
<1>2. \A k \in Nat : IsFiniteSet(0 .. k - 1) /\ Cardinality(0 .. k - 1) = k
  BY FS_Interval
<1>3. DOMAIN ps = 0 .. n - 1
  BY DEF Sheets
<1>4. IsFiniteSet(DOMAIN ps) /\ Cardinality(DOMAIN ps) = n
  BY <1>1, <1>2, <1>3
<1> QED BY <1>1, <1>3, <1>4 DEF NoPage

LEMMA ElementOf ==
  ASSUME NEW q, NEW next, Chained(q, next)
  PROVE  /\ Elements(q) \subseteq DOMAIN next /\ q[1] \in Elements(q)
         /\ q[Len(q)] \in Elements(q)
         /\ \A x : x \in Elements(q) <=> \E i \in 1 .. Len(q) : q[i] = x
         /\ DOMAIN q = 1 .. Len(q) /\ S!Range(q) = Elements(q)
<1>1. /\ Len(q) \in Nat /\ 1 <= Len(q) /\ DOMAIN q = 1 .. Len(q)
      /\ \A i \in 1 .. Len(q) : q[i] \in DOMAIN next
  BY ChainType
<1>2. S!Range(q) = Elements(q)
  BY SeqRange DEF Chained
<1> QED BY <1>1, <1>2 DEF Elements

\* The chains found are those the file has.
Links(ps, ow, q) ==
  /\ Chained(q, S!Next(ps)) /\ q[1] = 0 /\ ow \in [DOMAIN ps -> Elements(q)]
  /\ \A m \in Elements(q) : \E b : BucketOf(ps, ow, m, b)

LEMMA LinkedBy ==
  ASSUME NEW ps, NEW n, Sheets(ps, n), NEW ow, NEW q, Links(ps, ow, q)
  PROVE  Linked(ps, ow, q) /\ S!Mains(ps) = q
<1>1. /\ n <= SeqPages /\ n \in Nat /\ SeqPages \in Nat /\ IsFiniteSet(DOMAIN ps)
      /\ Cardinality(DOMAIN ps) = n /\ NoPage \notin DOMAIN ps
  BY SheetsFinite
<1>2. DOMAIN S!Next(ps) = DOMAIN ps /\ \A m : DOMAIN BucketLinks(ps, m) = DOMAIN ps
  BY DEF S!Next, BucketLinks
<1>3. \A w, next : Chained(w, next) /\ DOMAIN next = DOMAIN ps => Len(w) <= SeqPages
  <2> SUFFICES ASSUME NEW w, NEW next, Chained(w, next), DOMAIN next = DOMAIN ps
               PROVE  Len(w) <= SeqPages
    OBVIOUS
  <2>1. Len(w) <= n /\ Len(w) \in Nat
    BY <1>1, ChainShort, ChainType
  <2> QED BY <1>1, <2>1
<1>4. S!Mains(ps) = q
  <2>1. Len(q) <= SeqPages
    BY <1>2, <1>3 DEF Links
  <2>2. S!Path(q[1], S!Next(ps)) = q
    BY <1>1, <1>2, <2>1, PathIs DEF Links
  <2> QED BY <2>2 DEF S!Mains, Links
<1>5. ASSUME NEW m \in Elements(q)
      PROVE  BucketOf(ps, ow, m, S!Bucket(ps, m))
  <2>1. PICK b : BucketOf(ps, ow, m, b)
    BY DEF Links
  <2>2. Chained(b, BucketLinks(ps, m)) /\ b[1] = m
    BY <2>1 DEF BucketOf
  <2>3. Len(b) <= SeqPages
    BY <1>2, <1>3, <2>2
  <2>4. S!Bucket(ps, m) = b
    BY <1>1, <2>2, <2>3, BucketIs
  <2> QED BY <2>1, <2>4
<1> QED BY <1>4, <1>5 DEF Linked, Links

LEMMA LinkedFacts ==
  ASSUME NEW ps, NEW ow, NEW q, Linked(ps, ow, q)
  PROVE  /\ Elements(q) \subseteq DOMAIN ps /\ DOMAIN ow = DOMAIN ps
         /\ q[Len(q)] \in Elements(q) /\ Len(q) \in Nat /\ 1 <= Len(q)
         /\ \A p \in DOMAIN ps : ow[p] \in Elements(q)
         /\ \A i, j \in 1 .. Len(q) : q[i] = q[j] => i = j
         /\ \A x : x \in Elements(q) <=> \E i \in 1 .. Len(q) : q[i] = x
         /\ \A m \in Elements(q) :
              /\ ow[m] = m /\ Elements(S!Bucket(ps, m)) \subseteq DOMAIN ps
              /\ S!Range(S!Bucket(ps, m)) = Elements(S!Bucket(ps, m))
              /\ Elements(S!Bucket(ps, m)) = {p \in DOMAIN ps : ow[p] = m}
<1>1. DOMAIN S!Next(ps) = DOMAIN ps /\ \A m : DOMAIN BucketLinks(ps, m) = DOMAIN ps
  BY DEF S!Next, BucketLinks
<1>2. /\ Chained(q, S!Next(ps)) /\ ow \in [DOMAIN ps -> Elements(q)]
      /\ \A i, j \in 1 .. Len(q) : q[i] = q[j] => i = j
  BY DEF Linked, Chained
<1>3. /\ Elements(q) \subseteq DOMAIN ps /\ q[Len(q)] \in Elements(q)
      /\ Len(q) \in Nat /\ 1 <= Len(q)
      /\ \A x : x \in Elements(q) <=> \E i \in 1 .. Len(q) : q[i] = x
  BY <1>1, <1>2, ElementOf, ChainType
<1>4. ASSUME NEW m \in Elements(q)
      PROVE  /\ ow[m] = m /\ Elements(S!Bucket(ps, m)) \subseteq DOMAIN ps
             /\ S!Range(S!Bucket(ps, m)) = Elements(S!Bucket(ps, m))
             /\ Elements(S!Bucket(ps, m)) = {p \in DOMAIN ps : ow[p] = m}
  <2> DEFINE b == S!Bucket(ps, m)
             links == BucketLinks(ps, m)
  <2>1. /\ Chained(b, links) /\ b[1] = m
        /\ \A p \in DOMAIN ps : ow[p] = m <=> p \in Elements(b)
    BY DEF Linked, BucketOf
  <2>2. DOMAIN links = DOMAIN ps
    BY <1>1
  <2> HIDE DEF b, links
  <2>3. Elements(b) \subseteq DOMAIN ps /\ m \in Elements(b) /\ S!Range(b) = Elements(b)
    BY <2>1, <2>2, ElementOf
  <2>4. ow[m] = m /\ Elements(b) = {p \in DOMAIN ps : ow[p] = m}
    BY <2>1, <2>3
  <2> QED BY <2>3, <2>4 DEF b
<1> QED BY <1>2, <1>3, <1>4

\* The keys the code collects in a bucket are those of the pages that belong to it.
LEMMA BucketKeysAre ==
  ASSUME NEW ps, NEW ow, NEW q, Linked(ps, ow, q), NEW m \in Elements(q)
  PROVE  S!BucketKeys(ps, m) = KeysIn(ps, ow, m)
<1>1. S!Range(S!Bucket(ps, m)) = {p \in DOMAIN ps : ow[p] = m}
  BY LinkedFacts
<1>2. \A p : {Key[ps[p].body.slots[i].val] : i \in S!LiveSlots(ps[p].body)} = KeysOf(ps[p].body)
  <2> TAKE p
  <2> DEFINE pg == ps[p].body
  <2>1. S!LiveSlots(pg) = DOMAIN Held(pg).rows
        /\ \A i \in DOMAIN Held(pg).rows : Held(pg).rows[i] = pg.slots[i].val
    BY SeqRoomOf, HeldParts
  <2> HIDE DEF pg
  <2> QED BY <2>1 DEF KeysOf, pg
<1>3. S!BucketKeys(ps, m) = UNION {KeysOf(ps[p].body) : p \in S!Range(S!Bucket(ps, m))}
  <2> DEFINE A(p) == {Key[ps[p].body.slots[i].val] : i \in S!LiveSlots(ps[p].body)}
             Z == S!Range(S!Bucket(ps, m))
  <2>1. S!BucketKeys(ps, m) = UNION {A(p) : p \in Z}
    BY DEF S!BucketKeys
  <2>2. \A p : A(p) = KeysOf(ps[p].body)
    BY <1>2
  <2> HIDE DEF A, Z
  <2>3. UNION {A(p) : p \in Z} = UNION {KeysOf(ps[p].body) : p \in Z}
    BY <2>2
  <2> QED BY <2>1, <2>3 DEF Z
<1> QED BY <1>1, <1>3 DEF KeysIn

\* The largest key.
LEMMA MaxIs ==
  ASSUME NEW K \in SUBSET Nat, NEW k, IsMax(k, K)
  PROVE  S!Max(K \cup {S!NoKey}) = k
<1>1. k \in K \cup {-1} /\ (\A l \in K : l <= k) /\ k \in Int
  BY DEF IsMax, NoPage
<1>2. \A x \in K \cup {-1} : k >= x
  BY <1>1
<1>3. \A x \in K \cup {-1} : (\A y \in K \cup {-1} : x >= y) => x = k
  BY <1>1, <1>2
<1> DEFINE U == K \cup {-1}
<1>4. \E x \in U : \A y \in U : x >= y
  BY <1>1, <1>2
<1> HIDE DEF U
<1>5. S!Max(U) \in U /\ \A y \in U : S!Max(U) >= y
  BY <1>4 DEF S!Max
<1> QED BY <1>3, <1>5 DEF U, S!NoKey

LEMMA LargestIs ==
  ASSUME NEW K \in SUBSET Nat, IsFiniteSet(K)
  PROVE  \E k : IsMax(k, K)
<1>1. CASE K = {}
  BY <1>1 DEF IsMax
<1>2. CASE K # {}
  <2> DEFINE B == {{l \in K : l > n} : n \in K}
  <2>1. IsFiniteSet(K) /\ B \in SUBSET SUBSET K /\ B # {}
    BY <1>2
  <2> HIDE DEF B
  <2>2. PICK s \in B : \A u \in B : u \subseteq s => u = s
    <3> DEFINE A == K
    <3>1. IsFiniteSet(A) /\ B \in SUBSET SUBSET A /\ B # {}
      BY <2>1
    <3> HIDE DEF A
    <3> QED BY <3>1, LeastSubset
  <2>3. PICK n \in K : s = {l \in K : l > n}
    BY <2>2 DEF B
  <2>4. ASSUME NEW l \in K PROVE l <= n
    <3>1. SUFFICES ASSUME l > n PROVE FALSE
      OBVIOUS
    <3> DEFINE u == {x \in K : x > l}
    <3>2. u \in B
      BY DEF B
    <3>5. u \subseteq s
      <4>1. l \in Nat /\ n \in Nat /\ \A x \in K : x \in Nat
        BY <2>3
      <4>2. \A x \in K : x > l => x > n
        BY <3>1, <4>1
      <4> QED BY <2>3, <4>2
    <3>3. u = s
      BY <2>2, <3>2, <3>5
    <3>4. l \in s /\ l \notin u
      BY <2>3, <3>1
    <3> QED BY <3>3, <3>4
  <2> QED BY <2>4 DEF IsMax
<1> QED BY <1>1, <1>2

-----------------------------------------------------------------------------
LEMMA KeysOfPage ==
  ASSUME NEW pg, WellLaid(pg)
  PROVE  KeysOf(pg) \in SUBSET Nat /\ IsFiniteSet(KeysOf(pg))
<1> DEFINE live == LiveSlots(pg)
           f == [i \in live |-> Key[Held(pg).rows[i]]]
<1>1. /\ live \subseteq 1 .. Len(pg.slots) /\ Len(pg.slots) \in Nat
      /\ \A i \in live : pg.slots[i].val \in Val
  BY SlotType DEF WellLaid
<1>2. DOMAIN Held(pg).rows = live /\ \A i \in live : Held(pg).rows[i] \in Val
  BY <1>1, HeldParts
<1> HIDE DEF live
<1>3. \A i \in live : Key[Held(pg).rows[i]] \in Nat
  BY <1>2, ConstantsAssumption
<1>4. IsFiniteSet(live)
  <2>1. IsFiniteSet(1 .. Len(pg.slots))
    BY <1>1, FS_Interval
  <2> QED BY <1>1, <2>1, FS_Subset
<1>5. f \in Surjection(live, KeysOf(pg))
  BY <1>2 DEF Surjection, KeysOf
<1> HIDE DEF f
<1>6. IsFiniteSet(KeysOf(pg))
  BY <1>4, <1>5, FS_Surjection
<1> QED BY <1>2, <1>3, <1>6 DEF KeysOf

LEMMA KeysInBucket ==
  ASSUME NEW ps, NEW n, Sheets(ps, n), NEW ow, NEW m
  PROVE  KeysIn(ps, ow, m) \in SUBSET Nat /\ IsFiniteSet(KeysIn(ps, ow, m))
<1> DEFINE Z == {x \in DOMAIN ps : ow[x] = m}
           F == {KeysOf(ps[p].body) : p \in Z}
           f == [p \in Z |-> KeysOf(ps[p].body)]
<1>1. IsFiniteSet(Z)
  BY SheetsFinite, FS_Subset
<1>2. \A p \in Z : KeysOf(ps[p].body) \in SUBSET Nat /\ IsFiniteSet(KeysOf(ps[p].body))
  BY KeysOfPage DEF Sheets, Sheet
<1> HIDE DEF Z
<1>3. f \in Surjection(Z, F)
  BY DEF Surjection
<1>4. IsFiniteSet(F) /\ \A T \in F : IsFiniteSet(T) /\ T \in SUBSET Nat
  <2>1. IsFiniteSet(F)
    <3> HIDE DEF f, F
    <3> QED BY <1>1, <1>3, FS_Surjection
  <2> QED BY <1>2, <2>1
<1>5. KeysIn(ps, ow, m) = UNION F
  BY DEF KeysIn, Z
<1> HIDE DEF F
<1> QED BY <1>4, <1>5, FS_UNION

\* The keys of a bucket are those of its pages.
LEMMA KeyIn ==
  ASSUME NEW ps, NEW ow, NEW m, NEW k
  PROVE  k \in KeysIn(ps, ow, m) <=>
           \E p \in DOMAIN ps : ow[p] = m /\ k \in KeysOf(ps[p].body)
BY DEF KeysIn

\* A record more: old and new are what a page holds.
Stored(old, new, v) ==
  \E i \in Nat : /\ i \notin old.ids
                 /\ new = [ids  |-> old.ids \cup {i},
                           rows |-> [j \in DOMAIN old.rows \cup {i} |->
                                       IF j = i THEN v ELSE old.rows[j]]]

LEMMA KeysStored ==
  ASSUME NEW pg, NEW new, NEW v, Stored(Held(pg), Held(new), v)
  PROVE  KeysOf(new) = KeysOf(pg) \cup {Key[v]}
<1> DEFINE old == Held(pg).rows
           now == Held(new).rows
<1>1. PICK i \in Nat : /\ i \notin Held(pg).ids
                       /\ now = [j \in DOMAIN old \cup {i} |-> IF j = i THEN v ELSE old[j]]
  BY DEF Stored
<1>2. i \notin DOMAIN old
  BY <1>1, HeldParts DEF LiveSlots
<1> HIDE DEF now, old
<1>3. {Key[now[j]] : j \in DOMAIN now} = {Key[old[j]] : j \in DOMAIN old} \cup {Key[v]}
  BY <1>1, <1>2
<1> QED BY <1>3 DEF KeysOf, now, old

LEMMA KeysRemoved ==
  ASSUME NEW pg, WellLaid(pg), NEW i \in LiveSlots(pg)
  PROVE  KeysOf(WithoutRecord(pg, i)) \subseteq KeysOf(pg)
<1> DEFINE old == Held(pg).rows
           new == Held(WithoutRecord(pg, i)).rows
<1>1. new = [j \in DOMAIN old \ {i} |-> old[j]]
  BY RemoveHolds
<1> HIDE DEF new, old
<1>2. {Key[new[j]] : j \in DOMAIN new} \subseteq {Key[old[j]] : j \in DOMAIN old}
  BY <1>1
<1> QED BY <1>2 DEF KeysOf, new, old

LEMMA NoKeys == KeysOf(NewPage) = {}
BY FirstHold DEF KeysOf

LEMMA MaxGrows ==
  ASSUME NEW K \in SUBSET Nat, NEW a, IsMax(a, K), NEW k \in Nat
  PROVE  IsMax(IF a > k THEN a ELSE k, K \cup {k})
<1>1. a \in Int
  BY DEF IsMax, NoPage
<1> QED BY <1>1 DEF IsMax

-----------------------------------------------------------------------------
\* The bucket of a key.

LEMMA SetMin ==
  ASSUME NEW T \in SUBSET Nat, T # {}
  PROVE  S!Min(T) \in T /\ \A n \in T : S!Min(T) <= n
<1>1. \E m \in T : \A n \in T : m <= n
  BY LeastNat
<1> QED BY <1>1 DEF S!Min

LEMMA TargetIs ==
  ASSUME NEW n, NEW q, Sheets(pages, n), Linked(pages, owner, q),
         Remembered(pages, maxKey, mainNext, owner, q), NEW k \in Nat
  PROVE  \E t \in 1 .. Len(q) :
           /\ S!Target(k).main = q[t]
           /\ \A i \in 1 .. Len(q) : i < t => maxKey[q[i]] < k
           /\ S!Target(k).inRange <=> maxKey[q[t]] >= k
           /\ ~ S!Target(k).inRange => t = Len(q)
<1>1. /\ Chained(q, S!Next(pages)) /\ q[1] = 0
      /\ mainNext = [m \in Elements(q) |-> pages[m].next]
      /\ \A i \in 1 .. Len(q) : q[i] \in Elements(q) /\ maxKey[q[i]] \in Int
  BY DEF Linked, Remembered, Elements, NoPage
<1>2. /\ Elements(q) \subseteq DOMAIN pages /\ Len(q) \in Nat /\ 1 <= Len(q)
      /\ DOMAIN q = 1 .. Len(q) /\ q \in [1 .. Len(q) -> Elements(q)]
  <2>1. q \in [1 .. Len(q) -> DOMAIN S!Next(pages)]
    BY <1>1, ChainType
  <2> QED BY <1>1, <2>1, LinkedFacts, ChainType
<1>3. Chained(q, mainNext)
  <2>1. q \in Seq(Elements(q))
    BY <1>2, SeqDef
  <2>2. \A i \in 1 .. Len(q) : mainNext[q[i]] = S!Next(pages)[q[i]]
    BY <1>1, <1>2 DEF S!Next
  <2>3. DOMAIN mainNext = Elements(q)
    BY <1>1
  <2> QED BY <1>1, <2>1, <2>2, <2>3 DEF Chained
<1>4. S!Path(0, mainNext) = q
  <2>1. Len(q) <= Cardinality(DOMAIN pages)
    <3>1. DOMAIN S!Next(pages) = DOMAIN pages
      BY DEF S!Next
    <3> QED BY <1>1, <3>1, SheetsFinite, ChainShort
  <2>2. Len(q) <= SeqPages /\ NoPage \notin DOMAIN mainNext
    BY <1>1, <1>2, <2>1, SheetsFinite
  <2> QED BY <1>1, <1>3, <2>2, PathIs
<1> DEFINE above == {i \in 1 .. Len(q) : maxKey[q[i]] >= k}
<1>5. S!Target(k) = IF above = {} THEN [main |-> q[Len(q)], inRange |-> FALSE]
                    ELSE [main |-> q[S!Min(above)], inRange |-> TRUE]
  BY <1>2, <1>4 DEF S!Target
<1>6. CASE above = {}
  <2>1. \A i \in 1 .. Len(q) : maxKey[q[i]] < k
    BY <1>1, <1>6
  <2>2. Len(q) \in 1 .. Len(q)
    BY <1>2
  <2>3. S!Target(k).main = q[Len(q)] /\ S!Target(k).inRange = FALSE
    BY <1>5, <1>6
  <2>4. ~ (maxKey[q[Len(q)]] >= k)
    BY <1>1, <2>1, <2>2
  <2> QED BY <2>1, <2>2, <2>3, <2>4
<1>7. CASE above # {}
  <2>1. S!Min(above) \in above /\ \A i \in above : S!Min(above) <= i
    <3>1. above \in SUBSET Nat
      OBVIOUS
    <3> HIDE DEF above
    <3> QED BY <1>7, <3>1, SetMin
  <2>2. PICK t \in 1 .. Len(q) : t = S!Min(above) /\ maxKey[q[t]] >= k
    BY <2>1
  <2>3. S!Target(k).main = q[t] /\ S!Target(k).inRange = TRUE
    BY <1>5, <1>7, <2>2
  <2>4. \A i \in 1 .. Len(q) : i < t => maxKey[q[i]] < k
    <3> SUFFICES ASSUME NEW i \in 1 .. Len(q), i < t PROVE maxKey[q[i]] < k
      OBVIOUS
    <3>1. i \notin above
      <4> HIDE DEF above
      <4> QED BY <2>1, <2>2
    <3> QED BY <1>1, <3>1
  <2> QED BY <2>2, <2>3, <2>4
<1> QED BY <1>6, <1>7

-----------------------------------------------------------------------------
\* A key that goes to its bucket keeps the buckets in order.
LEMMA OrderKept ==
  ASSUME NEW ps, NEW n, NEW ow, NEW mk, NEW mn, NEW q, Sheets(ps, n), Linked(ps, ow, q),
         Remembered(ps, mk, mn, ow, q), InOrder(ps, ow, q),
         NEW new, NEW own, NEW k \in Nat, NEW t \in 1 .. Len(q),
         \A i \in 1 .. Len(q) : i < t => mk[q[i]] < k,
         mk[q[t]] >= k \/ t = Len(q),
         \A i \in 1 .. Len(q) : i # t => KeysIn(new, own, q[i]) \subseteq KeysIn(ps, ow, q[i]),
         KeysIn(new, own, q[t]) \subseteq KeysIn(ps, ow, q[t]) \cup {k}
  PROVE  InOrder(new, own, q)
<1> SUFFICES ASSUME NEW i \in 1 .. Len(q), NEW j \in 1 .. Len(q), i < j,
                    NEW a \in KeysIn(new, own, q[i]), NEW b \in KeysIn(new, own, q[j])
             PROVE  a < b
  BY DEF InOrder
<1>1. /\ \A h \in 1 .. Len(q) : IsMax(mk[q[h]], KeysIn(ps, ow, q[h]))
                                /\ KeysIn(ps, ow, q[h]) \in SUBSET Nat /\ mk[q[h]] \in Int
      /\ Len(q) \in Nat
  <2>1. \A h \in 1 .. Len(q) : q[h] \in Elements(q)
    BY DEF Elements
  <2>2. \A h \in 1 .. Len(q) : KeysIn(ps, ow, q[h]) \in SUBSET Nat
    BY KeysInBucket
  <2> QED BY <2>1, <2>2, LinkedFacts DEF Remembered, NoPage
<1>2. CASE i # t /\ j # t
  BY <1>2 DEF InOrder
<1>3. CASE i = t
  <2>1. b \in KeysIn(ps, ow, q[j]) /\ j # t
    BY <1>3
  <2>2. CASE a \in KeysIn(ps, ow, q[i])
    BY <2>1, <2>2 DEF InOrder
  <2>3. CASE a = k
    <3>1. mk[q[t]] >= k
      BY <1>1, <1>3
    <3>2. mk[q[t]] \in KeysIn(ps, ow, q[t])
      BY <1>1, <3>1 DEF IsMax, NoPage
    <3>3. mk[q[t]] < b
      BY <1>3, <2>1, <3>2 DEF InOrder
    <3>4. b \in Int
      BY <1>1, <2>1
    <3> QED BY <1>1, <2>3, <3>1, <3>3, <3>4
  <2> QED BY <1>3, <2>2, <2>3
<1>4. CASE j = t
  <2>1. a \in KeysIn(ps, ow, q[i]) /\ i < t /\ i # t
    BY <1>4
  <2>2. CASE b \in KeysIn(ps, ow, q[j])
    BY <2>1, <2>2 DEF InOrder
  <2>3. CASE b = k
    <3>1. a <= mk[q[i]] /\ mk[q[i]] < k /\ a \in Int /\ mk[q[i]] \in Int
      BY <1>1, <2>1 DEF IsMax
    <3> QED BY <2>3, <3>1
  <2> QED BY <1>4, <2>2, <2>3
<1> QED BY <1>2, <1>3, <1>4

-----------------------------------------------------------------------------
\* Pages that change.

LEMMA SheetWith ==
  ASSUME NEW sh, Sheet(sh), NEW pg, WellLaid(pg)
  PROVE  /\ Sheet([sh EXCEPT !.body = pg]) /\ [sh EXCEPT !.body = pg].body = pg
         /\ [sh EXCEPT !.body = pg].next = sh.next /\ [sh EXCEPT !.body = pg].over = sh.over
<1>1. sh = [next |-> sh.next, over |-> sh.over, body |-> sh.body]
      /\ sh.next \in {NoPage} \cup Nat /\ sh.over \in {NoPage} \cup Nat
  BY DEF Sheet
<1>2. [sh EXCEPT !.body = pg] = [next |-> sh.next, over |-> sh.over, body |-> pg]
  BY <1>1
<1>3. pg \in Page
  BY DEF WellLaid
<1> QED BY <1>1, <1>2, <1>3 DEF Sheet

LEMMA FirstSheet ==
  ASSUME NEW pg, WellLaid(pg)
  PROVE  /\ Sheet(S!Fresh(pg)) /\ S!Fresh(pg).body = pg
         /\ S!Fresh(pg).next = NoPage /\ S!Fresh(pg).over = NoPage
BY DEF S!Fresh, S!NoPage, NoPage, Sheet, WellLaid

LEMMA PreparedPagesAre ==
  ASSUME NEW n, Sheets(pages, n), NEW Z, NEW v \in Val
  PROVE  LET new == S!PreparedPages(Z, v)
         IN /\ Sheets(new, n) /\ DOMAIN new = DOMAIN pages
            /\ \A p \in DOMAIN pages :
                 /\ new[p].next = pages[p].next /\ new[p].over = pages[p].over
                 /\ Held(new[p].body) = Held(pages[p].body)
                 /\ p \in Z => new[p].body = Prepared(pages[p].body, v)
<1> DEFINE new == S!PreparedPages(Z, v)
<1>1. /\ DOMAIN new = DOMAIN pages
      /\ \A p \in DOMAIN pages :
           new[p] = IF p \in Z THEN [pages[p] EXCEPT !.body = Prepared(pages[p].body, v)]
                    ELSE pages[p]
  BY SeqRoomOf DEF S!PreparedPages
<1> HIDE DEF new
<1>2. ASSUME NEW p \in DOMAIN pages
      PROVE  /\ Sheet(new[p])
             /\ new[p].next = pages[p].next /\ new[p].over = pages[p].over
             /\ Held(new[p].body) = Held(pages[p].body)
             /\ p \in Z => new[p].body = Prepared(pages[p].body, v)
  <2>1. Sheet(pages[p]) /\ WellLaid(pages[p].body)
    BY DEF Sheets, Sheet
  <2>2. WellLaid(Prepared(pages[p].body, v))
        /\ Held(Prepared(pages[p].body, v)) = Held(pages[p].body)
    BY <2>1, PreparePage, PrepareHolds
  <2> DEFINE w == [pages[p] EXCEPT !.body = Prepared(pages[p].body, v)]
  <2>3. /\ Sheet(w) /\ w.body = Prepared(pages[p].body, v)
        /\ w.next = pages[p].next /\ w.over = pages[p].over
    BY <2>1, <2>2, SheetWith
  <2>4. new[p] = IF p \in Z THEN w ELSE pages[p]
    BY <1>1
  <2> HIDE DEF w
  <2> QED BY <2>1, <2>2, <2>3, <2>4
<1>3. Sheets(new, n)
  BY <1>1, <1>2 DEF Sheets
<1> QED BY <1>1, <1>2, <1>3 DEF new

LEMMA LinksSame ==
  ASSUME NEW ps, NEW n, NEW ow, NEW q, Sheets(ps, n), Linked(ps, ow, q),
         NEW new, Sheets(new, n), DOMAIN new = DOMAIN ps,
         \A p \in DOMAIN ps : new[p].next = ps[p].next /\ new[p].over = ps[p].over
  PROVE  /\ Linked(new, ow, q) /\ S!Mains(new) = q
         /\ \A m \in Elements(q) : S!Bucket(new, m) = S!Bucket(ps, m)
<1>1. S!Next(new) = S!Next(ps)
  BY DEF S!Next
<1>2. \A m : BucketLinks(new, m) = BucketLinks(ps, m)
  BY DEF BucketLinks
<1>3. ASSUME NEW m \in Elements(q)
      PROVE  BucketOf(new, ow, m, S!Bucket(ps, m)) /\ S!Bucket(new, m) = S!Bucket(ps, m)
  <2>1. BucketOf(ps, ow, m, S!Bucket(ps, m))
    BY DEF Linked
  <2>2. BucketOf(new, ow, m, S!Bucket(ps, m))
    BY <1>2, <2>1 DEF BucketOf
  <2>3. m \in DOMAIN ps
    BY LinkedFacts
  <2> QED BY <1>1, <2>2, <2>3 DEF S!Bucket
<1>4. Chained(q, S!Next(new)) /\ q[1] = 0 /\ ow \in [DOMAIN new -> Elements(q)]
  BY <1>1 DEF Linked
<1>5. Links(new, ow, q)
  BY <1>3, <1>4 DEF Links
<1> QED BY <1>3, <1>5, LinkedBy

\* A file whose chains and keys are known satisfies the invariant.
LEMMA SeqInvBy ==
  ASSUME NEW n, NEW q, Sheets(pages', n), Linked(pages', owner', q), S!Mains(pages') = q,
         Remembered(pages', maxKey', mainNext', owner', q), InOrder(pages', owner', q)
  PROVE  SeqInv'
<1>1. n \in Nat /\ DOMAIN pages' = 0 .. n - 1
  BY SheetsFinite DEF Sheets
<1>2. \A T : S!Cardinality(T) = Cardinality(T)
  BY DEF S!Cardinality, Cardinality, S!IsFiniteSet, IsFiniteSet
<1>3. S!Count' = n
  <2>1. Cardinality(DOMAIN pages') = n
    BY SheetsFinite
  <2> QED BY <1>2, <2>1 DEF S!Count
<1> QED BY <1>3 DEF SeqInv

\* The pages an insertion tries.
LEMMA TriedAre ==
  ASSUME NEW q, Linked(pages, owner, q), NEW m \in Elements(q), NEW k,
         S!Target(k).main = m
  PROVE  LET tr == S!Tried(k)
         IN /\ Len(tr) \in Nat /\ 1 <= Len(tr) /\ DOMAIN tr = 1 .. Len(tr)
            /\ \A i \in 1 .. Len(tr) : tr[i] \in DOMAIN pages /\ owner[tr[i]] = m
            /\ S!Range(tr) = Elements(tr) /\ tr[1] = m
            /\ S!Target(k).inRange => tr = S!Bucket(pages, m)
            /\ ~ S!Target(k).inRange => tr = <<m>>
<1> DEFINE b == S!Bucket(pages, m)
           links == BucketLinks(pages, m)
<1>1. /\ Chained(b, links) /\ b[1] = m
      /\ \A p \in DOMAIN pages : owner[p] = m <=> p \in Elements(b)
  BY DEF Linked, BucketOf
<1>2. DOMAIN links = DOMAIN pages
  BY DEF BucketLinks
<1>3. S!Tried(k) = IF S!Target(k).inRange THEN b ELSE <<m>>
  BY DEF S!Tried
<1> HIDE DEF b, links
<1>4. /\ Len(b) \in Nat /\ 1 <= Len(b) /\ DOMAIN b = 1 .. Len(b)
      /\ \A i \in 1 .. Len(b) : b[i] \in DOMAIN pages /\ b[i] \in Elements(b)
      /\ S!Range(b) = Elements(b)
  BY <1>1, <1>2, ChainType, ElementOf
<1>5. m \in DOMAIN pages /\ owner[m] = m
  BY LinkedFacts
<1>6. /\ Len(<<m>>) = 1 /\ DOMAIN <<m>> = 1 .. 1 /\ <<m>>[1] = m
      /\ S!Range(<<m>>) = Elements(<<m>>)
  <2>1. <<m>> \in Seq({m})
    OBVIOUS
  <2>2. S!Range(<<m>>) = Elements(<<m>>)
    BY <2>1, SeqRange
  <2>3. Len(<<m>>) = 1 /\ DOMAIN <<m>> = 1 .. 1 /\ <<m>>[1] = m
    OBVIOUS
  <2> QED BY <2>2, <2>3
<1>7. CASE S!Target(k).inRange
  BY <1>1, <1>3, <1>4, <1>7 DEF b
<1>8. CASE ~ S!Target(k).inRange
  <2>1. S!Tried(k) = <<m>>
    BY <1>3, <1>8
  <2>2. \A i \in 1 .. 1 : <<m>>[i] = m
    OBVIOUS
  <2> QED BY <1>5, <1>6, <1>8, <2>1, <2>2
<1> QED BY <1>7, <1>8

-----------------------------------------------------------------------------
\* An insertion in a page of the bucket.

LEMMA SameKeys ==
  ASSUME NEW a, NEW b, Held(a) = Held(b)
  PROVE  KeysOf(a) = KeysOf(b)
BY DEF KeysOf

\* One page gets a key, and no other page changes its own.
Arrives(ps, ow, new, own, x, k) ==
  /\ DOMAIN new = DOMAIN ps \cup {x} /\ \A p \in DOMAIN ps : own[p] = ow[p]
  /\ \A p \in DOMAIN ps : p # x => KeysOf(new[p].body) = KeysOf(ps[p].body)
  /\ KeysOf(new[x].body) = IF x \in DOMAIN ps THEN KeysOf(ps[x].body) \cup {k} ELSE {k}

LEMMA KeyArrives ==
  ASSUME NEW ps, NEW ow, NEW new, NEW own, NEW x, NEW k, Arrives(ps, ow, new, own, x, k)
  PROVE  \A m : KeysIn(new, own, m) = KeysIn(ps, ow, m) \cup (IF m = own[x] THEN {k} ELSE {})
<1> TAKE m
<1>1. ASSUME NEW l
      PROVE  l \in KeysIn(new, own, m)
               <=> l \in KeysIn(ps, ow, m) \cup (IF m = own[x] THEN {k} ELSE {})
  <2>1. l \in KeysIn(new, own, m) <=>
          \E p \in DOMAIN ps \cup {x} : own[p] = m /\ l \in KeysOf(new[p].body)
    BY KeyIn DEF Arrives
  <2>2. l \in KeysIn(ps, ow, m) <=>
          \E p \in DOMAIN ps : ow[p] = m /\ l \in KeysOf(ps[p].body)
    BY KeyIn
  <2>3. CASE x \in DOMAIN ps
    BY <2>1, <2>2, <2>3 DEF Arrives
  <2>4. CASE x \notin DOMAIN ps
    BY <2>1, <2>2, <2>4 DEF Arrives
  <2> QED BY <2>3, <2>4
<1> QED BY <1>1

\* The largest key of the bucket that gets one is kept.
LEMMA MaxRecorded ==
  ASSUME NEW n, NEW q, Sheets(pages, n), Linked(pages, owner, q),
         Remembered(pages, maxKey, mainNext, owner, q),
         NEW m \in Elements(q), NEW k \in Nat, S!BumpMax(m, k), mainNext' = mainNext,
         \A l \in Elements(q) : pages'[l].next = pages[l].next,
         \A l : KeysIn(pages', owner', l)
                  = KeysIn(pages, owner, l) \cup (IF l = m THEN {k} ELSE {})
  PROVE  Remembered(pages', maxKey', mainNext', owner', q)
<1> DEFINE k2 == IF maxKey[m] > k THEN maxKey[m] ELSE k
<1>1. /\ maxKey \in [Elements(q) -> Nat \cup {NoPage}]
      /\ \A l \in Elements(q) : IsMax(maxKey[l], KeysIn(pages, owner, l))
      /\ mainNext = [l \in Elements(q) |-> pages[l].next]
  BY DEF Remembered
<1>2. DOMAIN maxKey' = Elements(q)
      /\ \A l \in Elements(q) : maxKey'[l] = IF l = m THEN k2 ELSE maxKey[l]
  BY <1>1 DEF S!BumpMax, S!With
<1>3. k2 \in Nat \cup {NoPage}
  BY <1>1
<1>4. IsMax(k2, KeysIn(pages, owner, m) \cup {k})
  BY <1>1, KeysInBucket, MaxGrows
<1> HIDE DEF k2
<1>5. maxKey' \in [Elements(q) -> Nat \cup {NoPage}]
  <2>1. maxKey' = [l \in Elements(q) |-> maxKey'[l]]
    BY <1>1 DEF S!BumpMax, S!With
  <2> QED BY <1>1, <1>2, <1>3, <2>1
<1>6. \A l \in Elements(q) : IsMax(maxKey'[l], KeysIn(pages', owner', l))
  BY <1>1, <1>2, <1>4
<1>7. mainNext' = [l \in Elements(q) |-> pages'[l].next]
  BY <1>1
<1> QED BY <1>5, <1>6, <1>7 DEF Remembered

LEMMA StoredIn ==
  ASSUME NEW pg, WellLaid(pg), NEW v \in Val, Fits(pg, v)
  PROVE  WellLaid(WithRecord(pg, v)) /\ Stored(Held(pg), Held(WithRecord(pg, v)), v)
<1> DEFINE n == Len(pg.slots) + 1
<1>1. /\ n \notin Held(pg).ids /\ n \in Nat
      /\ Held(WithRecord(pg, v)) =
           [ids  |-> Held(pg).ids \cup {n},
            rows |-> [j \in DOMAIN Held(pg).rows \cup {n} |->
                        IF j = n THEN v ELSE Held(pg).rows[j]]]
  BY StoreHolds
<1> HIDE DEF n
<1> QED BY <1>1, StoreRecord DEF Stored

LEMMA InsertInBucketIs ==
  ASSUME NEW n, NEW q, Sheets(pages, n), Linked(pages, owner, q), NEW m \in Elements(q),
         NEW v \in Val, S!Target(Key[v]).main = m, S!InsertInBucket(v)
  PROVE  \E x \in DOMAIN pages :
           /\ owner[x] = m /\ Sheets(pages', n) /\ DOMAIN pages' = DOMAIN pages
           /\ \A p \in DOMAIN pages : /\ pages'[p].next = pages[p].next
                                      /\ pages'[p].over = pages[p].over
           /\ \A p \in DOMAIN pages : p # x => Held(pages'[p].body) = Held(pages[p].body)
           /\ Stored(Held(pages[x].body), Held(pages'[x].body), v)
<1> DEFINE tr   == S!Tried(Key[v])
           last == S!Min(S!Roomy(v))
           x    == tr[last]
           Z    == {tr[i] : i \in 1 .. last}
           old  == S!PreparedPages(Z, v)
<1>1. S!Roomy(v) # {} /\ pages' = [old EXCEPT ![x].body = WithRecord(@, v)]
  BY SeqPageOf DEF S!InsertInBucket
<1>2. /\ Len(tr) \in Nat /\ DOMAIN tr = 1 .. Len(tr)
      /\ \A i \in 1 .. Len(tr) : tr[i] \in DOMAIN pages /\ owner[tr[i]] = m
  BY TriedAre
<1>3. S!Roomy(v) = {i \in 1 .. Len(tr) : Fits(Prepared(pages[tr[i]].body, v), v)}
  BY <1>2, SeqRoomOf DEF S!Roomy
<1> HIDE DEF tr
<1>4. last \in 1 .. Len(tr) /\ Fits(Prepared(pages[tr[last]].body, v), v)
  <2>1. S!Roomy(v) \in SUBSET Nat
    BY <1>2, <1>3
  <2>2. last \in S!Roomy(v)
    BY <1>1, <2>1, SetMin
  <2> QED BY <1>3, <2>2
<1> HIDE DEF last
<1>5. x \in Z /\ x \in DOMAIN pages /\ owner[x] = m
  BY <1>2, <1>4
<1>6. /\ Sheets(old, n) /\ DOMAIN old = DOMAIN pages
      /\ \A p \in DOMAIN pages :
           /\ old[p].next = pages[p].next /\ old[p].over = pages[p].over
           /\ Held(old[p].body) = Held(pages[p].body)
      /\ old[x].body = Prepared(pages[x].body, v)
  BY <1>5, PreparedPagesAre
<1>7. Fits(old[x].body, v)
  BY <1>4, <1>6
<1> HIDE DEF x, Z, old
<1> DEFINE pg == WithRecord(old[x].body, v)
           w  == [old[x] EXCEPT !.body = pg]
<1>8. Sheet(old[x]) /\ WellLaid(old[x].body)
  BY <1>5, <1>6 DEF Sheets, Sheet
<1>9. WellLaid(pg) /\ Stored(Held(old[x].body), Held(pg), v)
  BY <1>7, <1>8, StoredIn
<1> HIDE DEF pg
<1>10. Sheet(w) /\ w.body = pg /\ w.next = old[x].next /\ w.over = old[x].over
  BY <1>8, <1>9, SheetWith
<1>11. /\ DOMAIN pages' = DOMAIN pages /\ pages'[x] = w
       /\ \A p \in DOMAIN pages : p # x => pages'[p] = old[p]
  BY <1>1, <1>5, <1>6 DEF pg
<1> HIDE DEF w
<1>12. Sheets(pages', n)
  BY <1>6, <1>10, <1>11 DEF Sheets
<1>13. \A p \in DOMAIN pages : /\ pages'[p].next = pages[p].next
                               /\ pages'[p].over = pages[p].over
  BY <1>6, <1>10, <1>11
<1>14. \A p \in DOMAIN pages : p # x => Held(pages'[p].body) = Held(pages[p].body)
  BY <1>6, <1>11
<1>15. Stored(Held(pages[x].body), Held(pages'[x].body), v)
  BY <1>5, <1>6, <1>9, <1>10, <1>11
<1> QED BY <1>5, <1>11, <1>12, <1>13, <1>14, <1>15

LEMMA InsertInBucketKeeps ==
  ASSUME SeqInv, NEW v \in Val, S!InsertInBucket(v)
  PROVE  SeqInv'
<1> DEFINE k == Key[v]
<1>1. PICK n, q : /\ n = S!Count /\ q = S!Mains(pages)
  OBVIOUS
<1>2. /\ Sheets(pages, n) /\ Linked(pages, owner, q)
      /\ Remembered(pages, maxKey, mainNext, owner, q) /\ InOrder(pages, owner, q)
  BY <1>1 DEF SeqInv
<1>3. k \in Nat
  BY ConstantsAssumption
<1> HIDE DEF k
<1>4. PICK t \in 1 .. Len(q) :
        /\ S!Target(k).main = q[t]
        /\ \A i \in 1 .. Len(q) : i < t => maxKey[q[i]] < k
        /\ S!Target(k).inRange <=> maxKey[q[t]] >= k
        /\ ~ S!Target(k).inRange => t = Len(q)
  BY <1>2, <1>3, TargetIs
<1>5. q[t] \in Elements(q)
  BY DEF Elements
<1>6. PICK x \in DOMAIN pages :
        /\ owner[x] = q[t] /\ Sheets(pages', n) /\ DOMAIN pages' = DOMAIN pages
        /\ \A p \in DOMAIN pages : /\ pages'[p].next = pages[p].next
                                   /\ pages'[p].over = pages[p].over
        /\ \A p \in DOMAIN pages : p # x => Held(pages'[p].body) = Held(pages[p].body)
        /\ Stored(Held(pages[x].body), Held(pages'[x].body), v)
  BY <1>2, <1>4, <1>5, InsertInBucketIs DEF k
<1>7. mainNext' = mainNext /\ owner' = owner /\ S!BumpMax(q[t], k)
  BY <1>4 DEF S!InsertInBucket, k
<1>8. Linked(pages', owner', q) /\ S!Mains(pages') = q
  BY <1>2, <1>6, <1>7, LinksSame
<1>9. \A m : KeysIn(pages', owner', m)
               = KeysIn(pages, owner, m) \cup (IF m = q[t] THEN {k} ELSE {})
  <2>1. \A p \in DOMAIN pages : p # x => KeysOf(pages'[p].body) = KeysOf(pages[p].body)
    BY <1>6, SameKeys
  <2>2. KeysOf(pages'[x].body) = KeysOf(pages[x].body) \cup {k}
    BY <1>6, KeysStored DEF k
  <2>3. Arrives(pages, owner, pages', owner', x, k)
    BY <1>6, <1>7, <2>1, <2>2 DEF Arrives
  <2> QED BY <1>6, <1>7, <2>3, KeyArrives
<1>10. Remembered(pages', maxKey', mainNext', owner', q)
  <2>1. \A l \in Elements(q) : pages'[l].next = pages[l].next
    BY <1>2, <1>6, LinkedFacts
  <2> QED BY <1>2, <1>3, <1>5, <1>7, <1>9, <2>1, MaxRecorded
<1>11. InOrder(pages', owner', q)
  <2>1. \A i \in 1 .. Len(q) : i # t => q[i] # q[t]
    BY <1>2, LinkedFacts
  <2>2. PICK new, own : new = pages' /\ own = owner'
    OBVIOUS
  <2>3. \A i \in 1 .. Len(q) : i # t => KeysIn(new, own, q[i]) \subseteq KeysIn(pages, owner, q[i])
    BY <1>9, <2>1, <2>2
  <2>4. KeysIn(new, own, q[t]) \subseteq KeysIn(pages, owner, q[t]) \cup {k}
    BY <1>9, <2>2
  <2>5. maxKey[q[t]] >= k \/ t = Len(q)
    BY <1>4
  <2>6. \A i \in 1 .. Len(q) : i < t => maxKey[q[i]] < k
    BY <1>4
  <2>7. InOrder(new, own, q)
    BY <1>2, <1>3, <2>3, <2>4, <2>5, <2>6, OrderKept
  <2> QED BY <2>2, <2>7
<1> QED BY <1>6, <1>8, <1>10, <1>11, SeqInvBy

-----------------------------------------------------------------------------
\* A file that grows.

LEMMA GrownElements ==
  ASSUME NEW q, NEW r, Len(q) \in Nat, Len(r) = Len(q) + 1,
         \A i \in 1 .. Len(q) : r[i] = q[i]
  PROVE  Elements(r) = Elements(q) \cup {r[Len(q) + 1]}
<1>1. ASSUME NEW x \in Elements(r) PROVE x \in Elements(q) \cup {r[Len(q) + 1]}
  <2>1. PICK i \in 1 .. Len(q) + 1 : x = r[i]
    BY DEF Elements
  <2>2. CASE i = Len(q) + 1
    BY <2>1, <2>2
  <2>3. CASE i # Len(q) + 1
    <3>1. i \in 1 .. Len(q)
      BY <2>3
    <3> QED BY <2>1, <3>1 DEF Elements
  <2> QED BY <2>2, <2>3
<1>2. \A i \in 1 .. Len(q) : i \in 1 .. Len(r)
  OBVIOUS
<1>3. Len(q) + 1 \in 1 .. Len(r)
  OBVIOUS
<1>4. Elements(q) \cup {r[Len(q) + 1]} \subseteq Elements(r)
  BY <1>2, <1>3 DEF Elements
<1> QED BY <1>1, <1>4

\* A file of n pages gets the page n, at the end of its chain and of its bucket.
Extended(ps, n, new) ==
  /\ Sheets(ps, n) /\ Sheets(new, n + 1)
  /\ new[n].next = NoPage /\ new[n].over = NoPage

Wider(ps, n, new) ==
  /\ n \in Nat /\ n \notin DOMAIN ps /\ DOMAIN new = DOMAIN ps \cup {n}
  /\ NoPage \notin DOMAIN new

LEMMA ExtendedBy ==
  ASSUME NEW ps, NEW n, NEW new, Extended(ps, n, new)
  PROVE  Wider(ps, n, new)
<1>1. Sheets(ps, n) /\ Sheets(new, n + 1)
  BY DEF Extended
<1>2. n \in Nat /\ DOMAIN ps = 0 .. n - 1 /\ DOMAIN new = 0 .. n + 1 - 1
  BY <1>1, SheetsFinite DEF Sheets
<1> QED BY <1>1, <1>2 DEF NoPage, Wider

\* A bucket gets an overflow page.
LEMMA OverflowLinks ==
  ASSUME NEW ps, NEW n, NEW new, Extended(ps, n, new), NEW ow, NEW q, Linked(ps, ow, q),
         NEW m \in Elements(q), NEW b, b = S!Bucket(ps, m), NEW tail, tail = b[Len(b)],
         NEW own \in [DOMAIN new -> Elements(q)], own[n] = m,
         \A p \in DOMAIN ps : /\ own[p] = ow[p]
                              /\ new[p].next = IF p = tail /\ tail # m THEN n ELSE ps[p].next
                              /\ new[p].over = IF p = tail /\ tail = m THEN n ELSE ps[p].over
  PROVE  Linked(new, own, q) /\ S!Mains(new) = q
<1>1. /\ n \in Nat /\ n \notin DOMAIN ps /\ DOMAIN new = DOMAIN ps \cup {n}
      /\ new[n].next = NoPage /\ new[n].over = NoPage /\ Sheets(new, n + 1)
  <2>1. Wider(ps, n, new)
    BY ExtendedBy
  <2>2. n \in Nat /\ n \notin DOMAIN ps /\ DOMAIN new = DOMAIN ps \cup {n}
    BY <2>1 DEF Wider
  <2>3. new[n].next = NoPage /\ new[n].over = NoPage /\ Sheets(new, n + 1)
    BY DEF Extended
  <2> QED BY <2>2, <2>3
<1>2. /\ Elements(q) \subseteq DOMAIN ps /\ \A l \in Elements(q) : ow[l] = l
      /\ \A i \in 1 .. Len(q) : q[i] \in Elements(q)
      /\ \A l \in Elements(q) : Elements(S!Bucket(ps, l)) = {p \in DOMAIN ps : ow[p] = l}
      /\ \A l \in Elements(q) : BucketOf(ps, ow, l, S!Bucket(ps, l))
  <2>1. \A i \in 1 .. Len(q) : q[i] \in Elements(q)
    BY DEF Elements
  <2>2. \A l \in Elements(q) : BucketOf(ps, ow, l, S!Bucket(ps, l))
    BY DEF Linked
  <2> QED BY <2>1, <2>2, LinkedFacts
<1>3. \A l : DOMAIN BucketLinks(ps, l) = DOMAIN ps /\ DOMAIN BucketLinks(new, l) = DOMAIN new
  BY DEF BucketLinks
<1>4. /\ Chained(b, BucketLinks(ps, m)) /\ b[1] = m
      /\ \A p \in DOMAIN ps : ow[p] = m <=> p \in Elements(b)
  BY <1>2 DEF BucketOf
<1>5. /\ Len(b) \in Nat /\ 1 <= Len(b) /\ tail \in Elements(b) /\ Elements(b) \subseteq DOMAIN ps
      /\ \A i \in 1 .. Len(b) : b[i] \in Elements(b)
      /\ \A i \in 1 .. Len(b) - 1 : b[i] # tail
  <2>1. /\ Len(b) \in Nat /\ 1 <= Len(b) /\ tail \in Elements(b) /\ Elements(b) \subseteq DOMAIN ps
        /\ \A i, j \in 1 .. Len(b) : b[i] = b[j] => i = j
    BY <1>3, <1>4, ChainType, ElementOf DEF Chained
  <2>2. Len(b) \in 1 .. Len(b)
    BY <2>1
  <2>3. \A i \in 1 .. Len(b) - 1 : i \in 1 .. Len(b) /\ i # Len(b)
    BY <2>1
  <2> QED BY <2>1, <2>2, <2>3 DEF Elements
<1>6. ow[tail] = m
  BY <1>4, <1>5
<1>7. Chained(q, S!Next(new)) /\ q[1] = 0
  <2>1. \A i \in 1 .. Len(q) : S!Next(new)[q[i]] = S!Next(ps)[q[i]]
    <3> TAKE i \in 1 .. Len(q)
    <3>1. q[i] \in DOMAIN ps /\ ow[q[i]] = q[i] /\ q[i] \in DOMAIN new
      BY <1>1, <1>2
    <3>2. new[q[i]].next = ps[q[i]].next
      BY <1>6, <3>1
    <3> QED BY <3>1, <3>2 DEF S!Next
  <2>2. DOMAIN S!Next(ps) \subseteq DOMAIN S!Next(new)
    BY <1>1 DEF S!Next
  <2> QED BY <2>1, <2>2, ChainSame DEF Linked
<1>8. ASSUME NEW l \in Elements(q), l # m
      PROVE  BucketOf(new, own, l, S!Bucket(ps, l))
  <2> DEFINE c == S!Bucket(ps, l)
  <2>1. /\ Chained(c, BucketLinks(ps, l)) /\ c[1] = l /\ Elements(c) \subseteq DOMAIN ps
        /\ \A p \in DOMAIN ps : ow[p] = l <=> p \in Elements(c)
    BY <1>2 DEF BucketOf
  <2> HIDE DEF c
  <2>2. \A i \in 1 .. Len(c) : BucketLinks(new, l)[c[i]] = BucketLinks(ps, l)[c[i]]
    <3> TAKE i \in 1 .. Len(c)
    <3>1. c[i] \in DOMAIN ps /\ ow[c[i]] = l
      BY <2>1 DEF Elements
    <3>2. new[c[i]].next = ps[c[i]].next /\ new[c[i]].over = ps[c[i]].over
      BY <1>6, <1>8, <3>1
    <3> QED BY <1>1, <3>1, <3>2 DEF BucketLinks
  <2>3. Chained(c, BucketLinks(new, l))
    BY <1>1, <1>3, <2>1, <2>2, ChainSame
  <2>4. \A p \in DOMAIN new : own[p] = l <=> p \in Elements(c)
    BY <1>1, <1>8, <2>1
  <2> QED BY <2>1, <2>3, <2>4 DEF BucketOf, c
<1>9. \E d : BucketOf(new, own, m, d)
  <2> DEFINE d == Append(b, n)
  <2>1. BucketLinks(new, m)[n] = NoPage /\ BucketLinks(new, m)[tail] = n
    <3>1. n # m /\ tail \in DOMAIN ps
      BY <1>1, <1>2, <1>5
    <3> QED BY <1>1, <3>1 DEF BucketLinks
  <2>2. \A i \in 1 .. Len(b) - 1 : BucketLinks(new, m)[b[i]] = BucketLinks(ps, m)[b[i]]
    <3> TAKE i \in 1 .. Len(b) - 1
    <3>1. b[i] \in DOMAIN ps /\ b[i] # tail
      BY <1>5
    <3>2. new[b[i]].next = ps[b[i]].next /\ new[b[i]].over = ps[b[i]].over
      BY <3>1
    <3> QED BY <1>1, <3>1, <3>2 DEF BucketLinks
  <2>3. /\ Chained(d, BucketLinks(new, m)) /\ Len(d) = Len(b) + 1 /\ d[Len(b) + 1] = n
        /\ \A i \in 1 .. Len(b) : d[i] = b[i]
    <3>1. Grows(b, BucketLinks(ps, m), BucketLinks(new, m), n)
      BY <1>1, <1>3, <1>4, <2>1, <2>2 DEF Grows
    <3> QED BY <3>1, ChainGrows
  <2> HIDE DEF d
  <2>4. Elements(d) = Elements(b) \cup {n}
    BY <1>5, <2>3, GrownElements
  <2>5. d[1] = m
    BY <1>4, <1>5, <2>3
  <2>6. \A p \in DOMAIN new : own[p] = m <=> p \in Elements(d)
    BY <1>1, <1>4, <2>4
  <2> QED BY <2>3, <2>5, <2>6 DEF BucketOf
<1>10. Links(new, own, q)
  BY <1>7, <1>8, <1>9 DEF Links
<1> QED BY <1>1, <1>10, LinkedBy

\* The last bucket is followed by a new one.
LEMMA NewMainLinks ==
  ASSUME NEW ps, NEW n, NEW new, Extended(ps, n, new), NEW ow, NEW q, Linked(ps, ow, q),
         NEW m, m = q[Len(q)], NEW own, DOMAIN own = DOMAIN new, own[n] = n,
         own = [p \in DOMAIN new |-> own[p]],
         \A p \in DOMAIN ps : /\ own[p] = ow[p] /\ new[p].over = ps[p].over
                              /\ new[p].next = IF p = m THEN n ELSE ps[p].next
  PROVE  LET r == Append(q, n)
         IN /\ Linked(new, own, r) /\ S!Mains(new) = r /\ Elements(r) = Elements(q) \cup {n}
            /\ Len(r) = Len(q) + 1 /\ r[Len(q) + 1] = n /\ \A i \in 1 .. Len(q) : r[i] = q[i]
<1>1. /\ n \in Nat /\ n \notin DOMAIN ps /\ DOMAIN new = DOMAIN ps \cup {n}
      /\ new[n].next = NoPage /\ new[n].over = NoPage /\ Sheets(new, n + 1)
  <2>1. Wider(ps, n, new)
    BY ExtendedBy
  <2>2. n \in Nat /\ n \notin DOMAIN ps /\ DOMAIN new = DOMAIN ps \cup {n}
    BY <2>1 DEF Wider
  <2>3. new[n].next = NoPage /\ new[n].over = NoPage /\ Sheets(new, n + 1)
    BY DEF Extended
  <2> QED BY <2>2, <2>3
<1>2. /\ Elements(q) \subseteq DOMAIN ps /\ \A l \in Elements(q) : ow[l] = l
      /\ \A p \in DOMAIN ps : ow[p] \in Elements(q)
      /\ Len(q) \in Nat /\ 1 <= Len(q) /\ m \in Elements(q)
      /\ \A i \in 1 .. Len(q) : q[i] \in Elements(q)
      /\ \A i, j \in 1 .. Len(q) : q[i] = q[j] => i = j
      /\ \A l \in Elements(q) : Elements(S!Bucket(ps, l)) = {p \in DOMAIN ps : ow[p] = l}
      /\ \A l \in Elements(q) : BucketOf(ps, ow, l, S!Bucket(ps, l))
  <2>1. \A i \in 1 .. Len(q) : q[i] \in Elements(q)
    BY DEF Elements
  <2>2. \A l \in Elements(q) : BucketOf(ps, ow, l, S!Bucket(ps, l))
    BY DEF Linked
  <2> QED BY <2>1, <2>2, LinkedFacts
<1>3. \A l : DOMAIN BucketLinks(ps, l) = DOMAIN ps /\ DOMAIN BucketLinks(new, l) = DOMAIN new
  BY DEF BucketLinks
<1>4. DOMAIN S!Next(ps) = DOMAIN ps /\ DOMAIN S!Next(new) = DOMAIN new
  BY DEF S!Next
<1> DEFINE r == Append(q, n)
<1>5. /\ Chained(r, S!Next(new)) /\ Len(r) = Len(q) + 1 /\ r[Len(q) + 1] = n
      /\ \A i \in 1 .. Len(q) : r[i] = q[i]
  <2>1. S!Next(new)[n] = NoPage /\ S!Next(new)[m] = n
    BY <1>1, <1>2 DEF S!Next
  <2>2. \A i \in 1 .. Len(q) - 1 : S!Next(new)[q[i]] = S!Next(ps)[q[i]]
    <3> TAKE i \in 1 .. Len(q) - 1
    <3>1. i \in 1 .. Len(q) /\ Len(q) \in 1 .. Len(q) /\ i # Len(q)
      BY <1>2
    <3>2. q[i] \in DOMAIN ps /\ q[i] # m
      BY <1>2, <3>1
    <3> QED BY <1>1, <3>2 DEF S!Next
  <2>3. Chained(q, S!Next(ps))
    BY DEF Linked
  <2>4. Grows(q, S!Next(ps), S!Next(new), n)
    BY <1>1, <1>4, <2>1, <2>2, <2>3 DEF Grows
  <2> QED BY <2>4, ChainGrows
<1> HIDE DEF r
<1>6. Elements(r) = Elements(q) \cup {n}
  BY <1>2, <1>5, GrownElements
<1>7. own \in [DOMAIN new -> Elements(r)]
  BY <1>1, <1>2, <1>6
<1>8. ASSUME NEW l \in Elements(q)
      PROVE  BucketOf(new, own, l, S!Bucket(ps, l))
  <2> DEFINE c == S!Bucket(ps, l)
  <2>1. /\ Chained(c, BucketLinks(ps, l)) /\ c[1] = l /\ Elements(c) \subseteq DOMAIN ps
        /\ \A p \in DOMAIN ps : ow[p] = l <=> p \in Elements(c)
    BY <1>2 DEF BucketOf
  <2> HIDE DEF c
  <2>2. \A i \in 1 .. Len(c) : BucketLinks(new, l)[c[i]] = BucketLinks(ps, l)[c[i]]
    <3> TAKE i \in 1 .. Len(c)
    <3>1. c[i] \in DOMAIN ps /\ ow[c[i]] = l
      BY <2>1 DEF Elements
    <3>2. c[i] # l => new[c[i]].next = ps[c[i]].next
      BY <1>2, <3>1
    <3> QED BY <1>1, <3>1, <3>2 DEF BucketLinks
  <2>3. Chained(c, BucketLinks(new, l))
    BY <1>1, <1>3, <2>1, <2>2, ChainSame
  <2>4. \A p \in DOMAIN new : own[p] = l <=> p \in Elements(c)
    BY <1>1, <1>2, <2>1
  <2> QED BY <2>1, <2>3, <2>4 DEF BucketOf, c
<1>9. BucketOf(new, own, n, <<n>>)
  <2>1. BucketLinks(new, n)[n] = NoPage /\ n \in DOMAIN BucketLinks(new, n)
    BY <1>1 DEF BucketLinks
  <2>2. Chained(<<n>>, BucketLinks(new, n))
    BY <2>1, ChainOfOne
  <2>3. Elements(<<n>>) = {n} /\ <<n>>[1] = n
    BY DEF Elements
  <2>4. \A p \in DOMAIN new : own[p] = n <=> p = n
    BY <1>1, <1>2
  <2> QED BY <2>2, <2>3, <2>4 DEF BucketOf
<1>10. r[1] = 0
  <2>1. 1 \in 1 .. Len(q)
    BY <1>2
  <2> QED BY <1>5, <2>1 DEF Linked
<1>11. \A l \in Elements(r) : \E d : BucketOf(new, own, l, d)
  BY <1>6, <1>8, <1>9
<1>12. Linked(new, own, r) /\ S!Mains(new) = r
  <2>1. Links(new, own, r)
    BY <1>5, <1>7, <1>10, <1>11 DEF Links
  <2> QED BY <1>1, <2>1, LinkedBy
<1> QED BY <1>5, <1>6, <1>12 DEF r

LEMMA SheetPointing ==
  ASSUME NEW sh, Sheet(sh), NEW x \in Nat
  PROVE  /\ Sheet([sh EXCEPT !.next = x]) /\ [sh EXCEPT !.next = x].next = x
         /\ [sh EXCEPT !.next = x].over = sh.over /\ [sh EXCEPT !.next = x].body = sh.body
         /\ Sheet([sh EXCEPT !.over = x]) /\ [sh EXCEPT !.over = x].over = x
         /\ [sh EXCEPT !.over = x].next = sh.next /\ [sh EXCEPT !.over = x].body = sh.body
<1>1. /\ sh = [next |-> sh.next, over |-> sh.over, body |-> sh.body]
      /\ sh.next \in {NoPage} \cup Nat /\ sh.over \in {NoPage} \cup Nat /\ sh.body \in Page
      /\ WellLaid(sh.body)
  BY DEF Sheet
<1>2. [sh EXCEPT !.next = x] = [next |-> x, over |-> sh.over, body |-> sh.body]
  BY <1>1
<1>3. [sh EXCEPT !.over = x] = [next |-> sh.next, over |-> x, body |-> sh.body]
  BY <1>1
<1> QED BY <1>1, <1>2, <1>3 DEF Sheet

\* A page more, with the record that did not fit elsewhere.
NoRecords == [ids |-> {}, rows |-> [i \in {} |-> i]]

LEMMA NewSheet ==
  ASSUME NEW v \in Val
  PROVE  LET sh == S!Fresh(WithRecord(NewPage, v))
         IN /\ Sheet(sh) /\ sh.next = NoPage /\ sh.over = NoPage
            /\ Stored(NoRecords, Held(sh.body), v) /\ KeysOf(sh.body) = {Key[v]}
<1> DEFINE pg == WithRecord(NewPage, v)
<1>1. WellLaid(NewPage) /\ Fits(NewPage, v) /\ Held(NewPage) = NoRecords /\ KeysOf(NewPage) = {}
  BY FirstPages, FirstHold, NoKeys DEF NoRecords
<1>2. WellLaid(pg) /\ Stored(Held(NewPage), Held(pg), v)
  BY <1>1, StoredIn
<1>3. KeysOf(pg) = {Key[v]}
  BY <1>1, <1>2, KeysStored
<1> HIDE DEF pg
<1> QED BY <1>1, <1>2, <1>3, FirstSheet DEF pg

\* What holds for the pages when an insertion has extended the file.
Grown(n, v, own) ==
  /\ n < SeqPages /\ Extended(pages, n, pages')
  /\ \A p \in DOMAIN pages : Held(pages'[p].body) = Held(pages[p].body)
  /\ Stored(NoRecords, Held(pages'[n].body), v) /\ KeysOf(pages'[n].body) = {Key[v]}
  /\ owner' = [p \in DOMAIN pages \cup {n} |-> IF p = n THEN own ELSE owner[p]]

LEMMA GrownBy ==
  ASSUME NEW n, Sheets(pages, n), n < SeqPages, NEW v \in Val, NEW linked, Sheets(linked, n),
         \A p \in DOMAIN pages : Held(linked[p].body) = Held(pages[p].body),
         pages' = S!With(linked, n, S!Fresh(WithRecord(NewPage, v))),
         NEW own, DOMAIN owner = DOMAIN pages, owner' = S!With(owner, n, own)
  PROVE  Grown(n, v, own) /\ \A p \in DOMAIN pages : pages'[p] = linked[p]
<1> DEFINE sh == S!Fresh(WithRecord(NewPage, v))
<1>1. /\ Sheet(sh) /\ sh.next = NoPage /\ sh.over = NoPage
      /\ Stored(NoRecords, Held(sh.body), v) /\ KeysOf(sh.body) = {Key[v]}
  BY NewSheet
<1>2. n \in Nat /\ DOMAIN pages = 0 .. n - 1 /\ DOMAIN linked = 0 .. n - 1
      /\ SeqPages \in Nat /\ \A p \in DOMAIN linked : Sheet(linked[p])
  BY SheetsFinite DEF Sheets
<1> HIDE DEF sh
<1>3. /\ DOMAIN pages' = DOMAIN pages \cup {n} /\ pages'[n] = sh
      /\ \A p \in DOMAIN pages : pages'[p] = linked[p]
  BY <1>2 DEF S!With, sh
<1>4. Sheets(pages', n + 1)
  <2>1. 0 .. n + 1 - 1 = (0 .. n - 1) \cup {n} /\ n + 1 \in 1 .. SeqPages
    BY <1>2
  <2>2. \A p \in DOMAIN pages' : Sheet(pages'[p])
    BY <1>1, <1>2, <1>3
  <2> QED BY <1>2, <1>3, <2>1, <2>2 DEF Sheets
<1>5. Extended(pages, n, pages')
  BY <1>1, <1>3, <1>4 DEF Extended
<1>6. owner' = [p \in DOMAIN pages \cup {n} |-> IF p = n THEN own ELSE owner[p]]
  BY DEF S!With
<1> QED BY <1>1, <1>3, <1>5, <1>6 DEF Grown

LEMMA GrownKeys ==
  ASSUME NEW n, NEW v, NEW own, Grown(n, v, own), DOMAIN owner = DOMAIN pages
  PROVE  \A m : KeysIn(pages', owner', m)
                  = KeysIn(pages, owner, m) \cup (IF m = own THEN {Key[v]} ELSE {})
<1>1. n \notin DOMAIN pages /\ DOMAIN pages' = DOMAIN pages \cup {n}
  BY ExtendedBy DEF Grown, Wider
<1>2. owner'[n] = own /\ \A p \in DOMAIN pages : owner'[p] = owner[p]
  BY <1>1 DEF Grown
<1>3. \A p \in DOMAIN pages : KeysOf(pages'[p].body) = KeysOf(pages[p].body)
  BY SameKeys DEF Grown
<1>4. Arrives(pages, owner, pages', owner', n, Key[v])
  BY <1>1, <1>2, <1>3 DEF Arrives, Grown
<1> QED BY <1>2, <1>4, KeyArrives

LEMMA InsertInOverflowKeeps ==
  ASSUME SeqInv, NEW v \in Val, S!InsertInOverflow(v)
  PROVE  SeqInv' /\ Grown(S!Count, v, S!Target(Key[v]).main)
<1> DEFINE k == Key[v]
<1>1. PICK n, q : /\ n = S!Count /\ q = S!Mains(pages)
  OBVIOUS
<1>2. /\ Sheets(pages, n) /\ Linked(pages, owner, q)
      /\ Remembered(pages, maxKey, mainNext, owner, q) /\ InOrder(pages, owner, q)
  BY <1>1 DEF SeqInv
<1>3. k \in Nat
  BY ConstantsAssumption
<1> HIDE DEF k
<1>4. PICK t \in 1 .. Len(q) :
        /\ S!Target(k).main = q[t]
        /\ \A i \in 1 .. Len(q) : i < t => maxKey[q[i]] < k
        /\ S!Target(k).inRange <=> maxKey[q[t]] >= k
        /\ ~ S!Target(k).inRange => t = Len(q)
  BY <1>2, <1>3, TargetIs
<1>5. PICK m \in Elements(q) : m = q[t]
  BY DEF Elements
<1> DEFINE b      == S!Bucket(pages, m)
           tail   == b[Len(b)]
           old    == S!PreparedPages(S!Range(b), v)
           linked == IF tail = m THEN [old EXCEPT ![tail].over = n]
                                 ELSE [old EXCEPT ![tail].next = n]
<1>6. S!Tried(k) = b /\ Len(b) \in 1 .. Len(b) /\ b[Len(b)] \in DOMAIN pages
  <2>1. S!Target(k).inRange
    BY DEF S!InsertInOverflow, k
  <2>2. /\ Len(S!Tried(k)) \in Nat /\ 1 <= Len(S!Tried(k)) /\ S!Tried(k) = b
        /\ \A i \in 1 .. Len(S!Tried(k)) : S!Tried(k)[i] \in DOMAIN pages
    BY <1>2, <1>4, <1>5, <2>1, TriedAre
  <2> HIDE DEF b
  <2> QED BY <2>2
<1>7. /\ n < SeqPages /\ S!BumpMax(m, k) /\ mainNext' = mainNext
      /\ pages' = S!With(linked, n, S!Fresh(WithRecord(NewPage, v)))
      /\ owner' = S!With(owner, n, m)
  BY <1>1, <1>4, <1>5, <1>6, SeqPageOf DEF S!InsertInOverflow, k
<1> HIDE DEF b
<1>8. n \in Nat /\ n \notin DOMAIN pages /\ DOMAIN owner = DOMAIN pages
  <2>1. DOMAIN pages = 0 .. n - 1 /\ n \in Nat
    BY <1>2, SheetsFinite DEF Sheets
  <2> QED BY <1>2, <2>1, LinkedFacts
<1>9. /\ Sheets(old, n) /\ DOMAIN old = DOMAIN pages
      /\ \A p \in DOMAIN pages : /\ old[p].next = pages[p].next /\ old[p].over = pages[p].over
                                 /\ Held(old[p].body) = Held(pages[p].body)
  BY <1>2, PreparedPagesAre
<1> HIDE DEF old
<1>10. tail \in DOMAIN pages /\ Sheet(old[tail])
  BY <1>6, <1>9 DEF Sheets
<1> HIDE DEF tail
<1>11. /\ Sheets(linked, n) /\ DOMAIN linked = DOMAIN pages
       /\ \A p \in DOMAIN pages :
            /\ linked[p].next = IF p = tail /\ tail # m THEN n ELSE pages[p].next
            /\ linked[p].over = IF p = tail /\ tail = m THEN n ELSE pages[p].over
            /\ Held(linked[p].body) = Held(pages[p].body)
  <2>1. CASE tail = m
    <3> DEFINE w == [old[tail] EXCEPT !.over = n]
    <3>1. Sheet(w) /\ w.over = n /\ w.next = old[tail].next /\ w.body = old[tail].body
      BY <1>8, <1>10, SheetPointing
    <3>2. DOMAIN linked = DOMAIN pages /\ linked[tail] = w
          /\ \A p \in DOMAIN pages : p # tail => linked[p] = old[p]
      BY <1>9, <1>10, <2>1
    <3> HIDE DEF w, linked
    <3>3. \A p \in DOMAIN linked : Sheet(linked[p])
      BY <1>9, <3>1, <3>2 DEF Sheets
    <3>4. Sheets(linked, n)
      BY <1>2, <3>2, <3>3 DEF Sheets
    <3> QED BY <1>9, <1>10, <2>1, <3>1, <3>2, <3>4
  <2>2. CASE tail # m
    <3> DEFINE w == [old[tail] EXCEPT !.next = n]
    <3>1. Sheet(w) /\ w.next = n /\ w.over = old[tail].over /\ w.body = old[tail].body
      BY <1>8, <1>10, SheetPointing
    <3>2. DOMAIN linked = DOMAIN pages /\ linked[tail] = w
          /\ \A p \in DOMAIN pages : p # tail => linked[p] = old[p]
      BY <1>9, <1>10, <2>2
    <3> HIDE DEF w, linked
    <3>3. \A p \in DOMAIN linked : Sheet(linked[p])
      BY <1>9, <3>1, <3>2 DEF Sheets
    <3>4. Sheets(linked, n)
      BY <1>2, <3>2, <3>3 DEF Sheets
    <3> QED BY <1>9, <1>10, <2>2, <3>1, <3>2, <3>4
  <2> QED BY <2>1, <2>2
<1> HIDE DEF linked
<1>12. Grown(n, v, m) /\ \A p \in DOMAIN pages : pages'[p] = linked[p]
  BY <1>2, <1>7, <1>8, <1>11, GrownBy
<1>13. /\ Extended(pages, n, pages') /\ DOMAIN pages' = DOMAIN pages \cup {n}
       /\ owner' \in [DOMAIN pages' -> Elements(q)] /\ owner'[n] = m
       /\ \A p \in DOMAIN pages : owner'[p] = owner[p]
  <2>1. Extended(pages, n, pages') /\ DOMAIN pages' = DOMAIN pages \cup {n}
    BY <1>12, ExtendedBy DEF Grown, Wider
  <2>2. owner' = [p \in DOMAIN pages \cup {n} |-> IF p = n THEN m ELSE owner[p]]
    BY <1>12 DEF Grown
  <2>3. \A p \in DOMAIN pages : owner[p] \in Elements(q)
    BY <1>2, LinkedFacts
  <2> QED BY <1>8, <2>1, <2>2, <2>3
<1>14. Linked(pages', owner', q) /\ S!Mains(pages') = q
  <2>1. \A p \in DOMAIN pages :
          /\ owner'[p] = owner[p]
          /\ pages'[p].next = IF p = tail /\ tail # m THEN n ELSE pages[p].next
          /\ pages'[p].over = IF p = tail /\ tail = m THEN n ELSE pages[p].over
    BY <1>11, <1>12, <1>13
  <2>2. tail = b[Len(b)] /\ b = S!Bucket(pages, m)
    BY DEF tail, b
  <2> QED BY <1>2, <1>13, <2>1, <2>2, OverflowLinks
<1>15. \A l : KeysIn(pages', owner', l)
                = KeysIn(pages, owner, l) \cup (IF l = m THEN {k} ELSE {})
  BY <1>8, <1>12, GrownKeys DEF k
<1>16. Remembered(pages', maxKey', mainNext', owner', q)
  <2>1. \A l \in Elements(q) : pages'[l].next = pages[l].next
    <3> TAKE l \in Elements(q)
    <3>1. l \in DOMAIN pages /\ owner[l] = l
      BY <1>2, LinkedFacts
    <3>2. owner[tail] = m
      <4>1. tail \in Elements(b) /\ tail \in DOMAIN pages
        BY <1>6, <1>10 DEF tail, Elements
      <4> QED BY <1>2, <4>1 DEF Linked, BucketOf, b
    <3> QED BY <1>11, <1>12, <3>1, <3>2
  <2> QED BY <1>2, <1>3, <1>7, <1>15, <2>1, MaxRecorded
<1>17. InOrder(pages', owner', q)
  <2>1. \A i \in 1 .. Len(q) : i # t => q[i] # q[t]
    BY <1>2, LinkedFacts
  <2>2. PICK new, own : new = pages' /\ own = owner'
    OBVIOUS
  <2>3. \A i \in 1 .. Len(q) : i # t => KeysIn(new, own, q[i]) \subseteq KeysIn(pages, owner, q[i])
    BY <1>5, <1>15, <2>1, <2>2
  <2>4. KeysIn(new, own, q[t]) \subseteq KeysIn(pages, owner, q[t]) \cup {k}
    BY <1>5, <1>15, <2>2
  <2>5. maxKey[q[t]] >= k \/ t = Len(q)
    BY <1>4
  <2>6. \A i \in 1 .. Len(q) : i < t => maxKey[q[i]] < k
    BY <1>4
  <2>7. InOrder(new, own, q)
    BY <1>2, <1>3, <2>3, <2>4, <2>5, <2>6, OrderKept
  <2> QED BY <2>2, <2>7
<1>18. SeqInv'
  <2>1. Sheets(pages', n + 1)
    BY <1>13 DEF Extended
  <2> QED BY <1>14, <1>16, <1>17, <2>1, SeqInvBy
<1> QED BY <1>1, <1>4, <1>5, <1>12, <1>18 DEF k

\* A key beyond all the others opens a bucket of its own.
LEMMA InsertInNewMainKeeps ==
  ASSUME SeqInv, NEW v \in Val, S!InsertInNewMain(v)
  PROVE  SeqInv' /\ Grown(S!Count, v, S!Count)
<1> DEFINE k == Key[v]
<1>1. PICK n, q : /\ n = S!Count /\ q = S!Mains(pages)
  OBVIOUS
<1>2. /\ Sheets(pages, n) /\ Linked(pages, owner, q)
      /\ Remembered(pages, maxKey, mainNext, owner, q) /\ InOrder(pages, owner, q)
  BY <1>1 DEF SeqInv
<1>3. k \in Nat
  BY ConstantsAssumption
<1> HIDE DEF k
<1>4. PICK t \in 1 .. Len(q) :
        /\ S!Target(k).main = q[t]
        /\ \A i \in 1 .. Len(q) : i < t => maxKey[q[i]] < k
        /\ S!Target(k).inRange <=> maxKey[q[t]] >= k
        /\ ~ S!Target(k).inRange => t = Len(q)
  BY <1>2, <1>3, TargetIs
<1>5. PICK m \in Elements(q) : m = q[Len(q)]
  BY <1>2, LinkedFacts
<1> DEFINE old    == S!PreparedPages({m}, v)
           linked == [old EXCEPT ![m].next = n]
<1>6. ~ S!Target(k).inRange /\ S!Target(k).main = m /\ t = Len(q)
  BY <1>4, <1>5 DEF S!InsertInNewMain, k
<1>7. /\ n < SeqPages /\ S!BumpMax(n, k)
      /\ mainNext' = S!With(S!With(mainNext, n, NoPage), m, n)
      /\ pages' = S!With(linked, n, S!Fresh(WithRecord(NewPage, v)))
      /\ owner' = S!With(owner, n, n)
  BY <1>1, <1>6, SeqPageOf DEF S!InsertInNewMain, k, S!NoPage, NoPage
<1>8. /\ n \in Nat /\ n \notin DOMAIN pages /\ DOMAIN owner = DOMAIN pages
      /\ m \in DOMAIN pages /\ Elements(q) \subseteq DOMAIN pages
      /\ \A p \in DOMAIN pages : owner[p] \in Elements(q)
      /\ Len(q) \in Nat /\ 1 <= Len(q)
      /\ \A i, j \in 1 .. Len(q) : q[i] = q[j] => i = j
      /\ \A i \in 1 .. Len(q) : q[i] \in Elements(q)
  <2>1. DOMAIN pages = 0 .. n - 1 /\ n \in Nat
    BY <1>2, SheetsFinite DEF Sheets
  <2>2. \A i \in 1 .. Len(q) : q[i] \in Elements(q)
    BY DEF Elements
  <2> QED BY <1>2, <2>1, <2>2, LinkedFacts
<1>9. /\ Sheets(old, n) /\ DOMAIN old = DOMAIN pages
      /\ \A p \in DOMAIN pages : /\ old[p].next = pages[p].next /\ old[p].over = pages[p].over
                                 /\ Held(old[p].body) = Held(pages[p].body)
  BY <1>2, PreparedPagesAre
<1> HIDE DEF old
<1>10. /\ Sheets(linked, n) /\ DOMAIN linked = DOMAIN pages
       /\ \A p \in DOMAIN pages :
            /\ linked[p].next = IF p = m THEN n ELSE pages[p].next
            /\ linked[p].over = pages[p].over
            /\ Held(linked[p].body) = Held(pages[p].body)
  <2> DEFINE w == [old[m] EXCEPT !.next = n]
  <2>1. Sheet(old[m])
    BY <1>8, <1>9 DEF Sheets
  <2>2. Sheet(w) /\ w.next = n /\ w.over = old[m].over /\ w.body = old[m].body
    <3>1. n \in Nat
      BY <1>8
    <3>2. PICK o : o = old[m]
      OBVIOUS
    <3>3. w = [o EXCEPT !.next = n] /\ Sheet(o)
      BY <2>1, <3>2
    <3> HIDE DEF w, linked
    <3>4. Sheet(w) /\ w.next = n /\ w.over = o.over /\ w.body = o.body
      BY <3>1, <3>3, SheetPointing
    <3> QED BY <3>2, <3>4
  <2>3. DOMAIN linked = DOMAIN pages /\ linked[m] = w
        /\ \A p \in DOMAIN pages : p # m => linked[p] = old[p]
    BY <1>8, <1>9
  <2> HIDE DEF w, linked
  <2>4. \A p \in DOMAIN linked : Sheet(linked[p])
    BY <1>9, <2>2, <2>3 DEF Sheets
  <2>5. Sheets(linked, n)
    BY <1>2, <2>3, <2>4 DEF Sheets
  <2> QED BY <1>8, <1>9, <2>2, <2>3, <2>5
<1> HIDE DEF linked
<1>11. Grown(n, v, n) /\ \A p \in DOMAIN pages : pages'[p] = linked[p]
  BY <1>2, <1>7, <1>8, <1>10, GrownBy
<1> DEFINE r == Append(q, n)
<1>12. /\ Linked(pages', owner', r) /\ S!Mains(pages') = r /\ Elements(r) = Elements(q) \cup {n}
       /\ Len(r) = Len(q) + 1 /\ r[Len(q) + 1] = n /\ \A i \in 1 .. Len(q) : r[i] = q[i]
  <2>1. PICK new, own : new = pages' /\ own = owner'
    OBVIOUS
  <2>2. Extended(pages, n, new) /\ DOMAIN new = DOMAIN pages \cup {n}
    BY <1>11, <2>1, ExtendedBy DEF Grown, Wider
  <2>3. own = [p \in DOMAIN pages \cup {n} |-> IF p = n THEN n ELSE owner[p]]
    BY <1>11, <2>1 DEF Grown
  <2>4. /\ DOMAIN own = DOMAIN new /\ own[n] = n /\ own = [p \in DOMAIN new |-> own[p]]
        /\ \A p \in DOMAIN pages : own[p] = owner[p]
    BY <1>8, <2>2, <2>3
  <2>5. \A p \in DOMAIN pages : /\ own[p] = owner[p] /\ new[p].over = pages[p].over
                                /\ new[p].next = IF p = m THEN n ELSE pages[p].next
    BY <1>10, <1>11, <2>1, <2>4
  <2>6. /\ Linked(new, own, r) /\ S!Mains(new) = r /\ Elements(r) = Elements(q) \cup {n}
        /\ Len(r) = Len(q) + 1 /\ r[Len(q) + 1] = n /\ \A i \in 1 .. Len(q) : r[i] = q[i]
    BY <1>2, <1>5, <2>2, <2>4, <2>5, NewMainLinks
  <2> QED BY <2>1, <2>6
<1> HIDE DEF r
<1>13. /\ \A l \in Elements(q) : KeysIn(pages', owner', l) = KeysIn(pages, owner, l)
       /\ KeysIn(pages', owner', n) = {k}
  <2>1. \A l : KeysIn(pages', owner', l)
                 = KeysIn(pages, owner, l) \cup (IF l = n THEN {k} ELSE {})
    BY <1>8, <1>11, GrownKeys DEF k
  <2>2. KeysIn(pages, owner, n) = {}
    BY <1>8 DEF KeysIn
  <2> QED BY <1>8, <2>1, <2>2
<1>14. Remembered(pages', maxKey', mainNext', owner', r)
  <2>1. /\ maxKey \in [Elements(q) -> Nat \cup {NoPage}]
        /\ \A l \in Elements(q) : IsMax(maxKey[l], KeysIn(pages, owner, l))
        /\ mainNext = [l \in Elements(q) |-> pages[l].next]
    BY <1>2 DEF Remembered
  <2>2. n \notin Elements(q)
    BY <1>8
  <2>3. maxKey' = [l \in Elements(r) |-> IF l = n THEN k ELSE maxKey[l]]
    BY <1>7, <1>12, <2>1, <2>2 DEF S!BumpMax, S!With
  <2>4. maxKey' \in [Elements(r) -> Nat \cup {NoPage}]
    BY <1>3, <1>12, <2>1, <2>3
  <2>5. ASSUME NEW l \in Elements(r) PROVE IsMax(maxKey'[l], KeysIn(pages', owner', l))
    <3>1. CASE l = n
      <4>1. maxKey'[l] = k /\ KeysIn(pages', owner', l) = {k}
        BY <1>12, <1>13, <2>3, <3>1
      <4> QED BY <1>3, <4>1 DEF IsMax
    <3>2. CASE l # n
      <4>1. l \in Elements(q) /\ maxKey'[l] = maxKey[l]
        BY <1>12, <2>3, <3>2
      <4> QED BY <1>13, <2>1, <4>1
    <3> QED BY <3>1, <3>2
  <2>6. mainNext' = [l \in Elements(r) |-> pages'[l].next]
    <3>1. mainNext' = [l \in Elements(r) |-> IF l = m THEN n ELSE IF l = n THEN NoPage
                                             ELSE pages[l].next]
      BY <1>7, <1>12, <2>1, <2>2 DEF S!With
    <3>2. pages'[n].next = NoPage
      BY <1>11 DEF Grown, Extended
    <3>3. \A l \in Elements(q) : pages'[l].next = IF l = m THEN n ELSE pages[l].next
      BY <1>8, <1>10, <1>11
    <3>4. m # n
      BY <1>8
    <3> QED BY <1>12, <3>1, <3>2, <3>3, <3>4
  <2> QED BY <2>4, <2>5, <2>6 DEF Remembered
<1>15. InOrder(pages', owner', r)
  <2> SUFFICES ASSUME NEW i \in 1 .. Len(r), NEW j \in 1 .. Len(r), i < j,
                      NEW a \in KeysIn(pages', owner', r[i]),
                      NEW b \in KeysIn(pages', owner', r[j])
               PROVE  a < b
    BY DEF InOrder
  <2>1. i \in 1 .. Len(q) /\ r[i] = q[i] /\ q[i] \in Elements(q)
    BY <1>8, <1>12
  <2>2. a \in KeysIn(pages, owner, q[i])
    BY <1>13, <2>1
  <2>3. CASE j = Len(q) + 1
    <3>1. b = k
      BY <1>12, <1>13, <2>3
    <3>2. maxKey[q[i]] < k /\ maxKey[q[i]] \in Int
      <4>1. maxKey[q[i]] \in Nat \cup {NoPage}
        BY <1>2, <2>1 DEF Remembered
      <4>2. CASE i = t
        <5>1. ~ (maxKey[q[i]] >= k)
          BY <1>4, <1>6, <4>2
        <5> QED BY <1>3, <4>1, <5>1 DEF NoPage
      <4>3. CASE i # t
        <5>1. i < t
          BY <1>6, <1>8, <2>1, <4>3
        <5> QED BY <1>4, <2>1, <4>1, <5>1 DEF NoPage
      <4> QED BY <4>2, <4>3
    <3>3. a <= maxKey[q[i]] /\ a \in Nat
      <4>1. IsMax(maxKey[q[i]], KeysIn(pages, owner, q[i]))
        BY <1>2, <2>1 DEF Remembered
      <4>2. KeysIn(pages, owner, q[i]) \in SUBSET Nat
        BY <1>2, KeysInBucket
      <4> QED BY <2>2, <4>1, <4>2 DEF IsMax
    <3> QED BY <1>3, <3>1, <3>2, <3>3
  <2>4. CASE j # Len(q) + 1
    <3>1. j \in 1 .. Len(q) /\ r[j] = q[j] /\ q[j] \in Elements(q)
      BY <1>8, <1>12, <2>4
    <3>2. b \in KeysIn(pages, owner, q[j])
      BY <1>13, <3>1
    <3> QED BY <1>2, <2>1, <2>2, <3>1, <3>2 DEF InOrder
  <2> QED BY <2>3, <2>4
<1>16. SeqInv'
  <2>1. Sheets(pages', n + 1)
    BY <1>11 DEF Grown, Extended
  <2> QED BY <1>12, <1>14, <1>15, <2>1, SeqInvBy
<1> QED BY <1>1, <1>11, <1>16

-----------------------------------------------------------------------------
\* A removal.

\* The pages that hold a record less: those that are left when slot i of page p
\* is emptied, compacted or not.
Emptied(ps, n, p, i, new) ==
  /\ Sheets(new, n) /\ DOMAIN new = DOMAIN ps
  /\ \A x \in DOMAIN ps : /\ new[x].next = ps[x].next /\ new[x].over = ps[x].over
                          /\ x # p => Held(new[x].body) = Held(ps[x].body)
  /\ Held(new[p].body) = Held(WithoutRecord(ps[p].body, i))

LEMMA EmptiedPage ==
  ASSUME NEW ps, NEW n, Sheets(ps, n), NEW p \in DOMAIN ps,
         NEW i \in LiveSlots(ps[p].body)
  PROVE  Emptied(ps, n, p, i, [ps EXCEPT ![p].body = WithoutRecord(@, i)])
<1> DEFINE pg  == WithoutRecord(ps[p].body, i)
           w   == [ps[p] EXCEPT !.body = pg]
           new == [ps EXCEPT ![p].body = WithoutRecord(@, i)]
<1>1. Sheet(ps[p]) /\ WellLaid(ps[p].body)
  BY DEF Sheets, Sheet
<1>2. WellLaid(pg)
  BY <1>1, RemoveRecord
<1>3. /\ Sheet(w) /\ w.body = pg /\ w.next = ps[p].next /\ w.over = ps[p].over
  <2> HIDE DEF pg
  <2> QED BY <1>1, <1>2, SheetWith
<1>4. DOMAIN new = DOMAIN ps /\ new[p] = w /\ \A x \in DOMAIN ps : x # p => new[x] = ps[x]
  OBVIOUS
<1> HIDE DEF w, new
<1>5. Sheets(new, n)
  BY <1>3, <1>4 DEF Sheets
<1>6. Emptied(ps, n, p, i, new)
  BY <1>3, <1>4, <1>5 DEF Emptied
<1> QED BY <1>6 DEF new

LEMMA EmptiedReorganized ==
  ASSUME NEW ps, NEW n, NEW p \in DOMAIN ps, NEW i, NEW rest, Emptied(ps, n, p, i, rest)
  PROVE  Emptied(ps, n, p, i, S!Reorganized(rest))
<1> DEFINE new == S!Reorganized(rest)
<1>1. /\ Sheets(rest, n) /\ DOMAIN rest = DOMAIN ps
      /\ \A x \in DOMAIN ps : /\ rest[x].next = ps[x].next /\ rest[x].over = ps[x].over
                              /\ x # p => Held(rest[x].body) = Held(ps[x].body)
      /\ Held(rest[p].body) = Held(WithoutRecord(ps[p].body, i))
  BY DEF Emptied
<1>2. /\ DOMAIN new = DOMAIN rest
      /\ \A x \in DOMAIN rest :
           new[x] = IF x \in S!Reached(rest)
                    THEN [rest[x] EXCEPT !.body = Compacted(rest[x].body)] ELSE rest[x]
  BY SeqRoomOf DEF S!Reorganized
<1> HIDE DEF new
<1>3. ASSUME NEW x \in DOMAIN rest
      PROVE  /\ Sheet(new[x]) /\ Held(new[x].body) = Held(rest[x].body)
             /\ new[x].next = rest[x].next /\ new[x].over = rest[x].over
  <2>1. Sheet(rest[x]) /\ WellLaid(rest[x].body)
    BY <1>1 DEF Sheets, Sheet
  <2>2. WellLaid(Compacted(rest[x].body))
        /\ Held(Compacted(rest[x].body)) = Held(rest[x].body)
    BY <2>1, CompactHolds
  <2> DEFINE w == [rest[x] EXCEPT !.body = Compacted(rest[x].body)]
  <2>3. /\ Sheet(w) /\ w.body = Compacted(rest[x].body)
        /\ w.next = rest[x].next /\ w.over = rest[x].over
    BY <2>1, <2>2, SheetWith
  <2>4. new[x] = IF x \in S!Reached(rest) THEN w ELSE rest[x]
    BY <1>2
  <2> HIDE DEF w
  <2> QED BY <2>1, <2>2, <2>3, <2>4
<1>4. Sheets(new, n)
  BY <1>1, <1>2, <1>3 DEF Sheets
<1>5. Emptied(ps, n, p, i, new)
  BY <1>1, <1>2, <1>3, <1>4 DEF Emptied
<1> QED BY <1>5 DEF new

LEMMA KeysMatch ==
  ASSUME NEW a, NEW b, NEW ow, NEW m,
         \A k : k \in KeysIn(a, ow, m) <=> k \in KeysIn(b, ow, m)
  PROVE  KeysIn(a, ow, m) = KeysIn(b, ow, m)
<1> DEFINE A == KeysIn(a, ow, m) \cap KeysIn(b, ow, m)
<1>1. KeysIn(a, ow, m) = A
  BY DEF KeysIn
<1>2. KeysIn(b, ow, m) = A
  BY DEF KeysIn
<1> QED BY <1>1, <1>2

\* The keys that are left.
LEMMA EmptiedKeys ==
  ASSUME NEW ps, NEW n, Sheets(ps, n), NEW p \in DOMAIN ps, NEW i \in LiveSlots(ps[p].body),
         NEW new, Emptied(ps, n, p, i, new), NEW ow
  PROVE  /\ \A m : KeysIn(new, ow, m) \subseteq KeysIn(ps, ow, m)
         /\ \A m : m # ow[p] => KeysIn(new, ow, m) = KeysIn(ps, ow, m)
<1>1. KeysOf(new[p].body) \subseteq KeysOf(ps[p].body)
  <2>1. WellLaid(ps[p].body)
    BY DEF Sheets, Sheet
  <2>2. KeysOf(new[p].body) = KeysOf(WithoutRecord(ps[p].body, i))
    BY SameKeys DEF Emptied
  <2> QED BY <2>1, <2>2, KeysRemoved
<1>2. \A x \in DOMAIN ps : x # p => KeysOf(new[x].body) = KeysOf(ps[x].body)
  BY SameKeys DEF Emptied
<1>3. DOMAIN new = DOMAIN ps
  BY DEF Emptied
<1>4. ASSUME NEW m, NEW k PROVE k \in KeysIn(new, ow, m) => k \in KeysIn(ps, ow, m)
  BY <1>1, <1>2, <1>3, KeyIn
<1>5. ASSUME NEW m, m # ow[p], NEW k PROVE k \in KeysIn(ps, ow, m) => k \in KeysIn(new, ow, m)
  BY <1>2, <1>3, <1>5, KeyIn
<1>6. \A m : m # ow[p] => KeysIn(new, ow, m) = KeysIn(ps, ow, m)
  BY <1>4, <1>5, KeysMatch
<1> QED BY <1>4, <1>6

\* What is left on the pages decides their keys.
LEMMA EmptiedSame ==
  ASSUME NEW ps, NEW n, NEW p \in DOMAIN ps, NEW i, NEW a, NEW b, Emptied(ps, n, p, i, a),
         Emptied(ps, n, p, i, b), NEW ow
  PROVE  \A m : KeysIn(a, ow, m) = KeysIn(b, ow, m)
<1>1. DOMAIN a = DOMAIN b /\ \A x \in DOMAIN a : Held(a[x].body) = Held(b[x].body)
  BY DEF Emptied
<1>2. ASSUME NEW x \in DOMAIN a PROVE KeysOf(a[x].body) = KeysOf(b[x].body)
  <2>1. Held(a[x].body) = Held(b[x].body)
    BY <1>1
  <2> QED BY <2>1, SameKeys
<1>3. ASSUME NEW m, NEW k PROVE k \in KeysIn(a, ow, m) <=> k \in KeysIn(b, ow, m)
  BY <1>1, <1>2, KeyIn
<1> QED BY <1>3, KeysMatch

LEMMA SeqRemoveIs ==
  ASSUME NEW n, Sheets(pages, n), NEW p \in DOMAIN pages, NEW i, S!Remove(p, i)
  PROVE  /\ i \in LiveSlots(pages[p].body) /\ Emptied(pages, n, p, i, pages')
         /\ \E rest : /\ Emptied(pages, n, p, i, rest)
                      /\ maxKey' = [maxKey EXCEPT ![owner[p]] = S!BucketMax(rest, owner[p])]
         /\ mainNext' = mainNext /\ owner' = owner
<1> DEFINE rest == [pages EXCEPT ![p].body = WithoutRecord(@, i)]
<1>1. /\ i \in LiveSlots(pages[p].body) /\ mainNext' = mainNext /\ owner' = owner
      /\ maxKey' = [maxKey EXCEPT ![owner[p]] = S!BucketMax(rest, owner[p])]
      /\ pages' = IF S!Wasteful(rest) THEN S!Reorganized(rest) ELSE rest
  BY SeqPageOf, SeqRoomOf DEF S!Remove, S!Deleted
<1>2. Emptied(pages, n, p, i, rest)
  BY <1>1, EmptiedPage
<1> HIDE DEF rest
<1>3. Emptied(pages, n, p, i, S!Reorganized(rest))
  BY <1>2, EmptiedReorganized
<1> QED BY <1>1, <1>2, <1>3

LEMMA SeqRemoveKeeps ==
  ASSUME SeqInv, NEW p \in DOMAIN pages, NEW i, S!Remove(p, i)
  PROVE  SeqInv'
<1>1. PICK n, q : /\ n = S!Count /\ q = S!Mains(pages)
  OBVIOUS
<1>2. /\ Sheets(pages, n) /\ Linked(pages, owner, q)
      /\ Remembered(pages, maxKey, mainNext, owner, q) /\ InOrder(pages, owner, q)
  BY <1>1 DEF SeqInv
<1>3. PICK rest :
        /\ i \in LiveSlots(pages[p].body) /\ Emptied(pages, n, p, i, pages')
        /\ Emptied(pages, n, p, i, rest)
        /\ maxKey' = [maxKey EXCEPT ![owner[p]] = S!BucketMax(rest, owner[p])]
        /\ mainNext' = mainNext /\ owner' = owner
  BY <1>2, SeqRemoveIs
<1>4. PICK m \in Elements(q) : m = owner[p]
  BY <1>2, LinkedFacts
<1>5. Linked(rest, owner, q) /\ Sheets(rest, n)
  <2>1. /\ Sheets(rest, n) /\ DOMAIN rest = DOMAIN pages
        /\ \A x \in DOMAIN pages : rest[x].next = pages[x].next /\ rest[x].over = pages[x].over
    BY <1>3 DEF Emptied
  <2> QED BY <1>2, <2>1, LinksSame
<1>6. PICK new : new = pages' /\ Emptied(pages, n, p, i, new)
  BY <1>3
<1>7. /\ Linked(new, owner, q) /\ S!Mains(new) = q /\ Sheets(new, n)
      /\ \A x \in DOMAIN pages : new[x].next = pages[x].next
  <2>1. /\ Sheets(new, n) /\ DOMAIN new = DOMAIN pages
        /\ \A x \in DOMAIN pages : new[x].next = pages[x].next /\ new[x].over = pages[x].over
    BY <1>6 DEF Emptied
  <2>2. Linked(new, owner, q) /\ S!Mains(new) = q
    BY <1>2, <2>1, LinksSame
  <2> QED BY <2>1, <2>2
<1>8. /\ KeysIn(rest, owner, m) = KeysIn(new, owner, m)
      /\ \A l : KeysIn(new, owner, l) \subseteq KeysIn(pages, owner, l)
      /\ \A l : l # m => KeysIn(new, owner, l) = KeysIn(pages, owner, l)
  <2>1. KeysIn(rest, owner, m) = KeysIn(new, owner, m)
    BY <1>3, <1>6, EmptiedSame
  <2>2. /\ \A l : KeysIn(new, owner, l) \subseteq KeysIn(pages, owner, l)
        /\ \A l : l # owner[p] => KeysIn(new, owner, l) = KeysIn(pages, owner, l)
    BY <1>2, <1>3, <1>6, EmptiedKeys
  <2> QED BY <1>4, <2>1, <2>2
<1>9. PICK k : IsMax(k, KeysIn(new, owner, m)) /\ S!BucketMax(rest, m) = k
               /\ k \in Nat \cup {NoPage}
  <2>1. KeysIn(new, owner, m) \in SUBSET Nat /\ IsFiniteSet(KeysIn(new, owner, m))
    BY <1>7, KeysInBucket
  <2>2. PICK k : IsMax(k, KeysIn(new, owner, m))
    BY <2>1, LargestIs
  <2>3. S!BucketKeys(rest, m) = KeysIn(new, owner, m)
    BY <1>5, <1>8, BucketKeysAre
  <2>4. S!BucketMax(rest, m) = k
    BY <2>1, <2>2, <2>3, MaxIs DEF S!BucketMax
  <2> QED BY <2>1, <2>2, <2>4 DEF IsMax
<1>10. Remembered(new, maxKey', mainNext', owner, q)
  <2>1. /\ maxKey \in [Elements(q) -> Nat \cup {NoPage}]
        /\ \A l \in Elements(q) : IsMax(maxKey[l], KeysIn(pages, owner, l))
        /\ mainNext = [l \in Elements(q) |-> pages[l].next]
    BY <1>2 DEF Remembered
  <2>2. maxKey' = [maxKey EXCEPT ![m] = k]
    BY <1>3, <1>4, <1>9
  <2>3. maxKey' \in [Elements(q) -> Nat \cup {NoPage}]
    BY <1>9, <2>1, <2>2
  <2>4. \A l \in Elements(q) : IsMax(maxKey'[l], KeysIn(new, owner, l))
    BY <1>8, <1>9, <2>1, <2>2
  <2>5. mainNext' = [l \in Elements(q) |-> new[l].next]
    BY <1>2, <1>3, <1>7, <2>1, LinkedFacts
  <2> QED BY <2>3, <2>4, <2>5 DEF Remembered
<1>11. InOrder(new, owner, q)
  BY <1>2, <1>8 DEF InOrder
<1>12. /\ Sheets(pages', n) /\ Linked(pages', owner', q) /\ S!Mains(pages') = q
       /\ Remembered(pages', maxKey', mainNext', owner', q) /\ InOrder(pages', owner', q)
  BY <1>3, <1>6, <1>7, <1>10, <1>11
<1> QED BY <1>12, SeqInvBy

-----------------------------------------------------------------------------
\* What opening the file finds.

LEMMA AllReached ==
  ASSUME NEW ps, NEW ow, NEW q, Linked(ps, ow, q), S!Mains(ps) = q
  PROVE  S!Range(S!Mains(ps)) = Elements(q) /\ S!Reached(ps) = DOMAIN ps
<1>1. S!Range(q) = Elements(q)
  BY ElementOf DEF Linked
<1>2. /\ \A p \in DOMAIN ps : ow[p] \in Elements(q)
      /\ \A m \in Elements(q) : S!Range(S!Bucket(ps, m)) = {p \in DOMAIN ps : ow[p] = m}
  BY LinkedFacts
<1>3. S!Reached(ps) = UNION {S!Range(S!Bucket(ps, m)) : m \in Elements(q)}
  BY <1>1 DEF S!Reached
<1> QED BY <1>1, <1>2, <1>3

LEMMA RebuiltIs ==
  ASSUME SeqInv
  PROVE  /\ maxKey = S!RebuiltMax /\ mainNext = S!RebuiltNext /\ owner = S!RebuiltOwner
         /\ S!Reached(pages) = DOMAIN pages
<1>1. PICK n, q : /\ n = S!Count /\ q = S!Mains(pages)
  OBVIOUS
<1>2. /\ Sheets(pages, n) /\ Linked(pages, owner, q)
      /\ Remembered(pages, maxKey, mainNext, owner, q)
  BY <1>1 DEF SeqInv
<1>3. S!Range(S!Mains(pages)) = Elements(q) /\ S!Reached(pages) = DOMAIN pages
  BY <1>1, <1>2, AllReached
<1>4. maxKey = S!RebuiltMax
  <2>1. maxKey = [m \in Elements(q) |-> maxKey[m]]
    BY <1>2 DEF Remembered
  <2>2. ASSUME NEW m \in Elements(q) PROVE S!BucketMax(pages, m) = maxKey[m]
    <3>1. S!BucketKeys(pages, m) = KeysIn(pages, owner, m)
      BY <1>2, BucketKeysAre
    <3>2. KeysIn(pages, owner, m) \in SUBSET Nat
      BY <1>2, KeysInBucket
    <3>3. IsMax(maxKey[m], KeysIn(pages, owner, m))
      BY <1>2 DEF Remembered
    <3> QED BY <3>1, <3>2, <3>3, MaxIs DEF S!BucketMax
  <2>3. S!RebuiltMax = [m \in Elements(q) |-> S!BucketMax(pages, m)]
    BY <1>3 DEF S!RebuiltMax
  <2> QED BY <2>1, <2>2, <2>3
<1>5. mainNext = S!RebuiltNext
  BY <1>2, <1>3 DEF Remembered, S!RebuiltNext
<1>6. owner = S!RebuiltOwner
  <2> DEFINE bucket == [m \in Elements(q) |-> S!Range(S!Bucket(pages, m))]
  <2>1. S!RebuiltOwner = [p \in DOMAIN pages |-> CHOOSE m \in DOMAIN bucket : p \in bucket[m]]
    BY <1>3 DEF S!RebuiltOwner
  <2>2. /\ \A p \in DOMAIN pages : owner[p] \in Elements(q)
        /\ \A m \in Elements(q) : bucket[m] = {p \in DOMAIN pages : owner[p] = m}
        /\ DOMAIN owner = DOMAIN pages
    BY <1>2, LinkedFacts
  <2>3. DOMAIN bucket = Elements(q)
    OBVIOUS
  <2> HIDE DEF bucket
  <2>4. ASSUME NEW p \in DOMAIN pages
        PROVE  (CHOOSE m \in DOMAIN bucket : p \in bucket[m]) = owner[p]
    <3>1. owner[p] \in DOMAIN bucket /\ p \in bucket[owner[p]]
      BY <2>2, <2>3
    <3>2. \A m \in DOMAIN bucket : p \in bucket[m] => m = owner[p]
      BY <2>2, <2>3
    <3> QED BY <3>1, <3>2
  <2>5. owner = [p \in DOMAIN pages |-> owner[p]]
    BY <1>2 DEF Linked
  <2> QED BY <2>1, <2>4, <2>5
<1> QED BY <1>3, <1>4, <1>5, <1>6

LEMMA ReopenKeeps ==
  ASSUME SeqInv, S!Reopen
  PROVE  SeqInv' /\ UNCHANGED <<pages, maxKey, mainNext, owner>>
<1>1. pages' = pages /\ maxKey' = maxKey /\ mainNext' = mainNext /\ owner' = owner
  BY RebuiltIs DEF S!Reopen
<1>2. PICK n, q : /\ n = S!Count /\ q = S!Mains(pages)
  OBVIOUS
<1>3. /\ Sheets(pages', n) /\ Linked(pages', owner', q) /\ S!Mains(pages') = q
      /\ Remembered(pages', maxKey', mainNext', owner', q) /\ InOrder(pages', owner', q)
  BY <1>1, <1>2 DEF SeqInv
<1> QED BY <1>1, <1>3, SeqInvBy

-----------------------------------------------------------------------------
LEMMA SeqStarts ==
  ASSUME S!SeqInit
  PROVE  SeqInv
<1> DEFINE q  == <<0>>
           sh == S!Fresh(NewPage)
<1>1. /\ pages = [p \in {0} |-> sh] /\ maxKey = [p \in {0} |-> NoPage]
      /\ mainNext = [p \in {0} |-> NoPage] /\ owner = [p \in {0} |-> 0]
  BY SeqPageOf DEF S!SeqInit, S!NoKey, S!NoPage, NoPage
<1>2. Sheet(sh) /\ sh.body = NewPage /\ sh.next = NoPage /\ sh.over = NoPage
  BY FirstPages, FirstSheet
<1> HIDE DEF sh
<1>3. Sheets(pages, 1)
  <2>1. SeqPages \in Nat /\ SeqPages # 0
    BY ConstantsAssumption
  <2>2. {0} = 0 .. 1 - 1 /\ 1 \in 1 .. SeqPages
    BY <2>1
  <2> QED BY <1>1, <1>2, <2>2 DEF Sheets
<1>4. /\ Len(q) = 1 /\ q[1] = 0 /\ \A i \in 1 .. 1 : q[i] = 0
  OBVIOUS
<1>5. Elements(q) = {0}
  BY <1>4 DEF Elements
<1>6. Chained(q, S!Next(pages)) /\ Chained(q, BucketLinks(pages, 0))
  <2>1. /\ DOMAIN S!Next(pages) = {0} /\ S!Next(pages)[0] = NoPage
        /\ DOMAIN BucketLinks(pages, 0) = {0} /\ BucketLinks(pages, 0)[0] = NoPage
    BY <1>1, <1>2 DEF S!Next, BucketLinks
  <2> HIDE DEF q
  <2>2. Chained(<<0>>, S!Next(pages)) /\ Chained(<<0>>, BucketLinks(pages, 0))
    BY <2>1, ChainOfOne
  <2> QED BY <2>2 DEF q
<1> HIDE DEF q
<1>7. Linked(pages, owner, q) /\ S!Mains(pages) = q
  <2>1. BucketOf(pages, owner, 0, q)
    BY <1>1, <1>4, <1>5, <1>6 DEF BucketOf
  <2>2. Links(pages, owner, q)
    BY <1>1, <1>4, <1>5, <1>6, <2>1 DEF Links
  <2> QED BY <1>3, <2>2, LinkedBy
<1>8. \A m : KeysIn(pages, owner, m) = {}
  BY <1>1, <1>2, NoKeys DEF KeysIn
<1>9. Remembered(pages, maxKey, mainNext, owner, q)
  BY <1>1, <1>2, <1>5, <1>8 DEF Remembered, IsMax
<1>10. InOrder(pages, owner, q)
  BY <1>8 DEF InOrder
<1>11. S!Count = 1
  <2>1. \A T : S!Cardinality(T) = Cardinality(T)
    BY DEF S!Cardinality, Cardinality, S!IsFiniteSet, IsFiniteSet
  <2>2. Cardinality(DOMAIN pages) = 1
    BY <1>3, SheetsFinite
  <2> QED BY <2>1, <2>2 DEF S!Count
<1> QED BY <1>3, <1>7, <1>9, <1>10, <1>11 DEF SeqInv

LEMMA SeqStepKeeps ==
  ASSUME SeqInv, S!SeqNext
  PROVE  SeqInv'
BY InsertInBucketKeeps, InsertInOverflowKeeps, InsertInNewMainKeeps, SeqRemoveKeeps,
   ReopenKeeps DEF S!SeqNext

SeqFileInv == kind = "SEQUENTIAL" => SeqInv

\* The buckets of a sequential file are chains that share no page, each page of
\* them sound, and what is in memory is what they say (sequential_file.py).
THEOREM SeqInvariant == Spec => []SeqFileInv
<1>1. Init => SeqFileInv
  BY SeqStarts DEF Init, SeqFileInv
<1>2. SeqFileInv /\ [Next]_vars => SeqFileInv'
  <2> SUFFICES ASSUME SeqFileInv, [Next]_vars, kind' = "SEQUENTIAL" PROVE SeqInv'
    BY DEF SeqFileInv
  <2>1. CASE UNCHANGED vars
    <3>1. /\ pages' = pages /\ maxKey' = maxKey /\ mainNext' = mainNext /\ owner' = owner
          /\ kind' = kind
      BY <2>1 DEF vars
    <3>2. SeqInv
      BY <3>1 DEF SeqFileInv
    <3>3. PICK n, q : /\ n = S!Count /\ q = S!Mains(pages)
      OBVIOUS
    <3>4. /\ Sheets(pages', n) /\ Linked(pages', owner', q) /\ S!Mains(pages') = q
          /\ Remembered(pages', maxKey', mainNext', owner', q) /\ InOrder(pages', owner', q)
      BY <3>1, <3>2, <3>3 DEF SeqInv
    <3> QED BY <3>4, SeqInvBy
  <2>2. CASE kind = "SEQUENTIAL" /\ S!SeqNext /\ UNCHANGED <<kind, heapOnly>>
    BY <2>2, SeqStepKeeps DEF SeqFileInv
  <2>3. CASE kind = "HEAP" /\ H!HeapNext /\ UNCHANGED <<kind, seqOnly>>
    BY <2>3
  <2> QED BY <2>1, <2>2, <2>3 DEF Next
<1> QED BY <1>1, <1>2, PTL DEF Spec

-----------------------------------------------------------------------------
\* The buckets of a sequential file are in key order, at every moment: the order
\* that scan relies on (sequential_file.py).
THEOREM ScansInOrder == Spec => []InKeyOrder
<1>1. SeqFileInv => InKeyOrder
  <2> SUFFICES ASSUME SeqInv PROVE InKeyOrder
    BY DEF SeqFileInv, InKeyOrder
  <2>1. PICK n, q : /\ n = S!Count /\ q = S!Mains(pages)
    OBVIOUS
  <2>2. Linked(pages, owner, q) /\ InOrder(pages, owner, q)
    BY <2>1 DEF SeqInv
  <2>3. DOMAIN q = 1 .. Len(q) /\ \A i \in 1 .. Len(q) : q[i] \in Elements(q)
    BY <2>2, ElementOf DEF Linked, Elements
  <2>4. \A i \in DOMAIN q : S!BucketKeys(pages, q[i]) = KeysIn(pages, owner, q[i])
    BY <2>2, <2>3, BucketKeysAre
  <2>5. \A i, j \in DOMAIN q : i < j =>
          \A k \in S!BucketKeys(pages, q[i]), l \in S!BucketKeys(pages, q[j]) : k < l
    BY <2>2, <2>3, <2>4 DEF InOrder
  <2> QED BY <2>1, <2>5 DEF InKeyOrder
<1> QED BY <1>1, SeqInvariant, PTL

\* What a sequential file has in memory is what _rebuild_chain_metadata would
\* find, and its chains lead to all of its pages (sequential_file.py).
THEOREM MemoryIsRebuilt == Spec => []MetadataExact
<1>1. SeqFileInv => MetadataExact
  BY RebuiltIs DEF SeqFileInv, MetadataExact
<1> QED BY <1>1, SeqInvariant, PTL

-----------------------------------------------------------------------------
LEMMA SeqTyped ==
  ASSUME SeqInv
  PROVE  S!SeqTypeOK /\ \A p \in DOMAIN pages : WellLaid(pages[p].body)
<1>1. PICK n, q : /\ n = S!Count /\ q = S!Mains(pages)
  OBVIOUS
<1>2. /\ Sheets(pages, n) /\ Linked(pages, owner, q)
      /\ Remembered(pages, maxKey, mainNext, owner, q)
  BY <1>1 DEF SeqInv
<1>3. \A p \in DOMAIN pages : Sheet(pages[p])
  BY <1>2 DEF Sheets
<1>4. DOMAIN pages = 0 .. S!Count - 1
  BY <1>1, <1>2 DEF Sheets
<1>5. \A p \in DOMAIN pages : pages[p] \in S!SeqPage
  BY <1>3, SeqPageOf DEF Sheet, S!SeqPage, S!NoPage, NoPage
<1>6. /\ DOMAIN maxKey = Elements(q) /\ DOMAIN mainNext = Elements(q)
      /\ DOMAIN owner = DOMAIN pages /\ \A p \in DOMAIN owner : owner[p] \in DOMAIN maxKey
  BY <1>2, LinkedFacts DEF Remembered
<1>7. \A m \in DOMAIN maxKey : maxKey[m] \in {S!NoKey} \cup Nat
  BY <1>2 DEF Remembered, S!NoKey, NoPage
<1>8. ASSUME NEW m \in DOMAIN maxKey
      PROVE  mainNext[m] \in {S!NoPage} \cup DOMAIN maxKey
  <2>1. /\ Chained(q, S!Next(pages)) /\ Len(q) \in Nat
        /\ DOMAIN S!Next(pages) = DOMAIN pages
        /\ \A i \in 1 .. Len(q) : q[i] \in Elements(q) /\ q[i] \in DOMAIN pages
    BY <1>2, LinkedFacts DEF Linked, Elements, S!Next
  <2>2. PICK i \in 1 .. Len(q) : m = q[i]
    BY <1>6 DEF Elements
  <2>3. mainNext[m] = S!Next(pages)[m]
    BY <1>2, <1>6, <2>1, <2>2 DEF Remembered, S!Next
  <2>4. mainNext[m] = IF i = Len(q) THEN NoPage ELSE q[i + 1]
    BY <2>1, <2>2, <2>3 DEF Chained
  <2>5. i # Len(q) => i + 1 \in 1 .. Len(q)
    BY <2>1
  <2> QED BY <1>6, <2>1, <2>4, <2>5 DEF S!NoPage, NoPage
<1> QED BY <1>3, <1>4, <1>5, <1>6, <1>7, <1>8 DEF S!SeqTypeOK, Sheet

\* The file has its type, and the records of a page overlap neither one another
\* nor the directory, whatever is compacted and however a file is reopened
\* (_slotted_page.py).
THEOREM RecordsApart == Spec => []PagesSound
<1> DEFINE IsKind == kind \in {"HEAP", "SEQUENTIAL"}
<1>1. Init => IsKind
  BY DEF Init
<1>2. IsKind /\ [Next]_vars => IsKind'
  BY DEF Next, vars
<1>3. IsKind /\ HeapFileInv /\ SeqFileInv => PagesSound
  <2>1. CASE kind = "HEAP"
    <3> SUFFICES ASSUME HeapInv PROVE PagesSound
      BY <2>1 DEF HeapFileInv
    <3>1. \A p \in DOMAIN pages : Body(p) = pages[p] /\ Sound(pages[p])
      BY <2>1 DEF Body, HeapInv, PageInv, WellLaid
    <3> QED BY <2>1, <3>1, HeapTyped DEF PagesSound, TypeOK
  <2>2. CASE kind = "SEQUENTIAL"
    <3> SUFFICES ASSUME SeqInv PROVE PagesSound
      BY <2>2 DEF SeqFileInv
    <3>1. \A p \in DOMAIN pages : Body(p) = pages[p].body /\ Sound(pages[p].body)
      BY <2>2, SeqTyped DEF Body, WellLaid
    <3> QED BY <2>2, <3>1, SeqTyped DEF PagesSound, TypeOK
  <2> QED BY <2>1, <2>2
<1> QED BY <1>1, <1>2, <1>3, HeapInvariant, SeqInvariant, PTL DEF Spec

-----------------------------------------------------------------------------
\* The rows of a file, as RowFile sees them: bs is the body of each page.

Ids(bs) == UNION {{p} \X DOMAIN bs[p].slots : p \in DOMAIN bs}

\* A record id, its page and its slot.
IsRid(r)  == r = <<r[1], r[2]>>
PageOf(r) == r[1]
SlotOf(r) == r[2]

LEMMA RidParts ==
  ASSUME NEW p, NEW i
  PROVE  IsRid(<<p, i>>) /\ PageOf(<<p, i>>) = p /\ SlotOf(<<p, i>>) = i
BY DEF IsRid, PageOf, SlotOf

LEMMA IsRidOf ==
  ASSUME NEW r, IsRid(r), NEW p, NEW i, PageOf(r) = p, SlotOf(r) = i
  PROVE  r = <<p, i>>
BY DEF IsRid, PageOf, SlotOf

\* The ids and the rows of bs, page by page.
RowsAt(bs, ids, rows) ==
  /\ \A r : r \in ids <=>
              IsRid(r) /\ PageOf(r) \in DOMAIN bs /\ SlotOf(r) \in Held(bs[PageOf(r)]).ids
  /\ \A r : r \in DOMAIN rows <=>
              IsRid(r) /\ PageOf(r) \in DOMAIN bs /\ SlotOf(r) \in DOMAIN Held(bs[PageOf(r)]).rows
  /\ \A r \in DOMAIN rows : rows[r] = Held(bs[PageOf(r)]).rows[SlotOf(r)]
  /\ rows = [r \in DOMAIN rows |-> rows[r]]

LEMMA RowsAre ==
  ASSUME NEW bs
  PROVE  RowsAt(bs, Ids(bs), RowsOf(bs))
<1> DEFINE live == UNION {{p} \X LiveSlots(bs[p]) : p \in DOMAIN bs}
<1>1. RowsOf(bs) = [r \in live |-> bs[r[1]].slots[r[2]].val]
  BY DEF RowsOf
<1>2. \A r : r \in live <=> IsRid(r) /\ PageOf(r) \in DOMAIN bs /\ SlotOf(r) \in LiveSlots(bs[PageOf(r)])
  BY DEF IsRid, PageOf, SlotOf
<1>3. \A r : r \in Ids(bs) <=>
               IsRid(r) /\ PageOf(r) \in DOMAIN bs /\ SlotOf(r) \in DOMAIN bs[PageOf(r)].slots
  BY DEF Ids, IsRid, PageOf, SlotOf
<1> HIDE DEF live
<1>4. \A r \in live : RowsOf(bs)[r] = bs[PageOf(r)].slots[SlotOf(r)].val
  BY <1>1 DEF PageOf, SlotOf
<1>5. \A p : /\ Held(bs[p]).ids = DOMAIN bs[p].slots /\ DOMAIN Held(bs[p]).rows = LiveSlots(bs[p])
             /\ \A i \in LiveSlots(bs[p]) : Held(bs[p]).rows[i] = bs[p].slots[i].val
  BY HeldParts
<1>6. DOMAIN RowsOf(bs) = live /\ RowsOf(bs) = [r \in DOMAIN RowsOf(bs) |-> RowsOf(bs)[r]]
  BY <1>1
<1>7. \A r : r \in Ids(bs) <=>
               IsRid(r) /\ PageOf(r) \in DOMAIN bs /\ SlotOf(r) \in Held(bs[PageOf(r)]).ids
  BY <1>3, <1>5
<1>8. \A r : r \in DOMAIN RowsOf(bs) <=>
               IsRid(r) /\ PageOf(r) \in DOMAIN bs /\ SlotOf(r) \in DOMAIN Held(bs[PageOf(r)]).rows
  BY <1>2, <1>5, <1>6
<1>9. \A r \in DOMAIN RowsOf(bs) : RowsOf(bs)[r] = Held(bs[PageOf(r)]).rows[SlotOf(r)]
  BY <1>2, <1>4, <1>5, <1>6
<1> QED BY <1>6, <1>7, <1>8, <1>9 DEF RowsAt

LEMMA NothingHeld == NoRecords.ids = {} /\ DOMAIN NoRecords.rows = {}
BY DEF NoRecords

\* Files with the same rows.
LEMMA SameRows ==
  ASSUME NEW as, NEW bs, DOMAIN as \subseteq DOMAIN bs,
         \A p \in DOMAIN as : Held(bs[p]) = Held(as[p]),
         \A p \in DOMAIN bs \ DOMAIN as : Held(bs[p]) = NoRecords
  PROVE  Ids(bs) = Ids(as) /\ RowsOf(bs) = RowsOf(as)
<1> DEFINE ia == Ids(as)
           ib == Ids(bs)
           ra == RowsOf(as)
           rb == RowsOf(bs)
<1>1. RowsAt(as, ia, ra) /\ RowsAt(bs, ib, rb)
  BY RowsAre
<1> HIDE DEF ia, ib, ra, rb
<1>2. \A p \in DOMAIN bs \ DOMAIN as : Held(bs[p]).ids = {} /\ DOMAIN Held(bs[p]).rows = {}
  BY NothingHeld
<1>3. ASSUME NEW r PROVE r \in ib <=> r \in ia
  BY <1>1, <1>2 DEF RowsAt
<1>4. ASSUME NEW r PROVE r \in DOMAIN rb <=> r \in DOMAIN ra
  BY <1>1, <1>2 DEF RowsAt
<1>5. ASSUME NEW r \in DOMAIN ra PROVE rb[r] = ra[r]
  <2>1. r \in DOMAIN rb /\ PageOf(r) \in DOMAIN as
    BY <1>1, <1>4 DEF RowsAt
  <2>2. ra[r] = Held(as[PageOf(r)]).rows[SlotOf(r)]
    BY <1>1 DEF RowsAt
  <2>3. rb[r] = Held(bs[PageOf(r)]).rows[SlotOf(r)]
    BY <1>1, <2>1 DEF RowsAt
  <2> QED BY <2>1, <2>2, <2>3
<1>6. ib = ia
  BY <1>3 DEF Ids, ia, ib
<1>7. rb = ra
  <2>1. DOMAIN rb = DOMAIN ra
    BY <1>4
  <2> QED BY <1>1, <1>5, <2>1 DEF RowsAt
<1> QED BY <1>6, <1>7 DEF ia, ib, ra, rb

\* Only page x, which may be new, holds something else.
OneChanges(as, bs, x) ==
  /\ DOMAIN bs = DOMAIN as \cup {x}
  /\ \A p \in DOMAIN as : p # x => Held(bs[p]) = Held(as[p])

\* One row more, and one row less.
RowAdded(as, bs, v) ==
  \E r : /\ r \notin Ids(as) /\ Ids(bs) = Ids(as) \cup {r}
         /\ RowsOf(bs) = [q \in DOMAIN RowsOf(as) \cup {r} |->
                            IF q = r THEN v ELSE RowsOf(as)[q]]
RowTaken(as, bs) ==
  /\ Ids(bs) = Ids(as)
  /\ \E r \in DOMAIN RowsOf(as) :
       RowsOf(bs) = [q \in DOMAIN RowsOf(as) \ {r} |-> RowsOf(as)[q]]

\* A page holds a record more, or a page more holds it.
LEMMA RowStored ==
  ASSUME NEW as, NEW bs, NEW x, NEW v, OneChanges(as, bs, x),
         x \in DOMAIN as => Stored(Held(as[x]), Held(bs[x]), v),
         x \notin DOMAIN as => Stored(NoRecords, Held(bs[x]), v)
  PROVE  RowAdded(as, bs, v)
<1> DEFINE old == IF x \in DOMAIN as THEN Held(as[x]) ELSE NoRecords
           now == Held(bs[x])
           ia  == Ids(as)
           ib  == Ids(bs)
           ra  == RowsOf(as)
           rb  == RowsOf(bs)
<1>0. /\ DOMAIN bs = DOMAIN as \cup {x}
      /\ \A p \in DOMAIN as : p # x => Held(bs[p]) = Held(as[p])
  BY DEF OneChanges
<1>1. PICK i \in Nat : /\ i \notin old.ids
                       /\ now = [ids  |-> old.ids \cup {i},
                                 rows |-> [j \in DOMAIN old.rows \cup {i} |->
                                             IF j = i THEN v ELSE old.rows[j]]]
  BY DEF Stored
<1>2. /\ x \notin DOMAIN as => old.ids = {} /\ DOMAIN old.rows = {}
      /\ x \in DOMAIN as => old = Held(as[x])
  BY NothingHeld
<1> HIDE DEF old
<1>3. /\ now.ids = old.ids \cup {i} /\ DOMAIN now.rows = DOMAIN old.rows \cup {i}
      /\ now.rows[i] = v
      /\ \A j \in DOMAIN old.rows : j # i => now.rows[j] = old.rows[j]
  <2> HIDE DEF now
  <2> QED BY <1>1
<1>4. RowsAt(as, ia, ra) /\ RowsAt(bs, ib, rb)
  BY RowsAre
<1> HIDE DEF now, ia, ib, ra, rb
<1>5. PICK r : r = <<x, i>>
  OBVIOUS
<1>6. /\ IsRid(r) /\ PageOf(r) = x /\ SlotOf(r) = i
      /\ \A q : IsRid(q) /\ PageOf(q) = x /\ SlotOf(q) = i => q = r
  BY <1>5, RidParts, IsRidOf
<1>7. r \notin ia
  BY <1>1, <1>2, <1>4, <1>6 DEF RowsAt
<1>8. ASSUME NEW q PROVE q \in ib <=> q \in ia \cup {r}
  <2>1. CASE PageOf(q) = x
    <3>1. q \in ib <=> IsRid(q) /\ SlotOf(q) \in old.ids \cup {i}
      BY <1>0, <1>3, <1>4, <2>1 DEF RowsAt, now
    <3>2. q \in ia <=> IsRid(q) /\ SlotOf(q) \in old.ids
      BY <1>2, <1>4, <2>1 DEF RowsAt
    <3> QED BY <1>6, <2>1, <3>1, <3>2
  <2>2. CASE PageOf(q) # x
    BY <1>0, <1>4, <1>6, <2>2 DEF RowsAt
  <2> QED BY <2>1, <2>2
<1>9. ASSUME NEW q PROVE q \in DOMAIN rb <=> q \in DOMAIN ra \cup {r}
  <2>1. CASE PageOf(q) = x
    <3>1. q \in DOMAIN rb <=> IsRid(q) /\ SlotOf(q) \in DOMAIN old.rows \cup {i}
      BY <1>0, <1>3, <1>4, <2>1 DEF RowsAt, now
    <3>2. q \in DOMAIN ra <=> IsRid(q) /\ SlotOf(q) \in DOMAIN old.rows
      BY <1>2, <1>4, <2>1 DEF RowsAt
    <3> QED BY <1>6, <2>1, <3>1, <3>2
  <2>2. CASE PageOf(q) # x
    BY <1>0, <1>4, <1>6, <2>2 DEF RowsAt
  <2> QED BY <2>1, <2>2
<1>10. rb[r] = v
  <2>1. r \in DOMAIN rb
    BY <1>9
  <2>2. rb[r] = Held(bs[PageOf(r)]).rows[SlotOf(r)]
    BY <1>4, <2>1 DEF RowsAt
  <2> QED BY <1>0, <1>3, <1>6, <2>2 DEF now
<1>11. ASSUME NEW q \in DOMAIN ra, q # r PROVE rb[q] = ra[q]
  <2>1. q \in DOMAIN rb
    BY <1>9
  <2>2. rb[q] = Held(bs[PageOf(q)]).rows[SlotOf(q)]
    BY <1>4, <2>1 DEF RowsAt
  <2>3. /\ ra[q] = Held(as[PageOf(q)]).rows[SlotOf(q)] /\ PageOf(q) \in DOMAIN as
        /\ SlotOf(q) \in DOMAIN Held(as[PageOf(q)]).rows /\ IsRid(q)
    BY <1>4 DEF RowsAt
  <2>4. CASE PageOf(q) = x
    <3>1. SlotOf(q) # i
      BY <1>6, <1>11, <2>3, <2>4
    <3>2. old = Held(as[x])
      BY <1>2, <2>3, <2>4
    <3> QED BY <1>3, <2>2, <2>3, <2>4, <3>1, <3>2 DEF now
  <2>5. CASE PageOf(q) # x
    <3>1. Held(bs[PageOf(q)]) = Held(as[PageOf(q)])
      BY <1>0, <2>3, <2>5
    <3> QED BY <2>2, <2>3, <3>1
  <2> QED BY <2>4, <2>5
<1>12. ib = ia \cup {r}
  BY <1>8 DEF Ids, ia, ib
<1>13. rb = [q \in DOMAIN ra \cup {r} |-> IF q = r THEN v ELSE ra[q]]
  <2>1. DOMAIN rb = DOMAIN ra \cup {r}
    BY <1>9
  <2> QED BY <1>4, <1>10, <1>11, <2>1 DEF RowsAt
<1> QED BY <1>7, <1>12, <1>13 DEF RowAdded, ia, ib, ra, rb

\* A page holds a record less.
LEMMA RowRemoved ==
  ASSUME NEW as, NEW bs, NEW x \in DOMAIN as, WellLaid(as[x]), NEW i \in LiveSlots(as[x]),
         OneChanges(as, bs, x), Held(bs[x]) = Held(WithoutRecord(as[x], i))
  PROVE  RowTaken(as, bs)
<1> DEFINE old == Held(as[x])
           now == Held(bs[x])
           ia  == Ids(as)
           ib  == Ids(bs)
           ra  == RowsOf(as)
           rb  == RowsOf(bs)
<1>0. DOMAIN bs = DOMAIN as /\ \A p \in DOMAIN as : p # x => Held(bs[p]) = Held(as[p])
  BY DEF OneChanges
<1>1. now = [ids |-> old.ids, rows |-> [j \in DOMAIN old.rows \ {i} |-> old.rows[j]]]
  BY RemoveHolds
<1>2. i \in DOMAIN old.rows
  BY HeldParts
<1>3. RowsAt(as, ia, ra) /\ RowsAt(bs, ib, rb)
  BY RowsAre
<1> HIDE DEF old, now, ia, ib, ra, rb
<1>4. /\ now.ids = old.ids /\ DOMAIN now.rows = DOMAIN old.rows \ {i}
      /\ \A j \in DOMAIN old.rows : j # i => now.rows[j] = old.rows[j]
  BY <1>1
<1>5. PICK r : r = <<x, i>>
  OBVIOUS
<1>6. /\ IsRid(r) /\ PageOf(r) = x /\ SlotOf(r) = i
      /\ \A q : IsRid(q) /\ PageOf(q) = x /\ SlotOf(q) = i => q = r
  BY <1>5, RidParts, IsRidOf
<1>7. r \in DOMAIN ra
  BY <1>2, <1>3, <1>6 DEF RowsAt, old
<1>8. ASSUME NEW q PROVE q \in ib <=> q \in ia
  <2>1. CASE PageOf(q) = x
    BY <1>0, <1>3, <1>4, <2>1 DEF RowsAt, now, old
  <2>2. CASE PageOf(q) # x
    BY <1>0, <1>3, <2>2 DEF RowsAt
  <2> QED BY <2>1, <2>2
<1>9. ASSUME NEW q PROVE q \in DOMAIN rb <=> q \in DOMAIN ra \ {r}
  <2>1. CASE PageOf(q) = x
    <3>1. q \in DOMAIN rb <=> IsRid(q) /\ SlotOf(q) \in DOMAIN old.rows \ {i}
      BY <1>0, <1>3, <1>4, <2>1 DEF RowsAt, now
    <3>2. q \in DOMAIN ra <=> IsRid(q) /\ SlotOf(q) \in DOMAIN old.rows
      BY <1>3, <2>1 DEF RowsAt, old
    <3> QED BY <1>6, <2>1, <3>1, <3>2
  <2>2. CASE PageOf(q) # x
    BY <1>0, <1>3, <1>6, <2>2 DEF RowsAt
  <2> QED BY <2>1, <2>2
<1>10. ASSUME NEW q \in DOMAIN rb PROVE rb[q] = ra[q]
  <2>1. q \in DOMAIN ra /\ q # r
    BY <1>9
  <2>2. rb[q] = Held(bs[PageOf(q)]).rows[SlotOf(q)]
    BY <1>3 DEF RowsAt
  <2>3. /\ ra[q] = Held(as[PageOf(q)]).rows[SlotOf(q)] /\ PageOf(q) \in DOMAIN as
        /\ SlotOf(q) \in DOMAIN Held(as[PageOf(q)]).rows /\ IsRid(q)
    BY <1>3, <2>1 DEF RowsAt
  <2>4. CASE PageOf(q) = x
    <3>1. SlotOf(q) # i
      BY <1>6, <2>1, <2>3, <2>4
    <3> QED BY <1>4, <2>2, <2>3, <2>4, <3>1 DEF now, old
  <2>5. CASE PageOf(q) # x
    <3>1. Held(bs[PageOf(q)]) = Held(as[PageOf(q)])
      BY <1>0, <2>3, <2>5
    <3> QED BY <2>2, <2>3, <3>1
  <2> QED BY <2>4, <2>5
<1>11. ib = ia
  BY <1>8 DEF Ids, ia, ib
<1>12. rb = [q \in DOMAIN ra \ {r} |-> ra[q]]
  <2>1. DOMAIN rb = DOMAIN ra \ {r}
    BY <1>9
  <2> QED BY <1>3, <1>10, <2>1 DEF RowsAt
<1> QED BY <1>7, <1>11, <1>12 DEF RowTaken, ia, ib, ra, rb

\* The rows of page x of ps replace those of sv.
RowsCopied(rp, rs, rn, x) ==
  rn = [r \in {q \in DOMAIN rp : q[1] = x} \cup {q \in DOMAIN rs : q[1] # x} |->
          IF r[1] = x THEN rp[r] ELSE rs[r]]

\* A page is written to the file.
LEMMA RowsSaved ==
  ASSUME NEW ps, NEW sv, NEW new, NEW x \in DOMAIN ps, DOMAIN sv = DOMAIN ps,
         new = [sv EXCEPT ![x] = ps[x]]
  PROVE  RowsCopied(RowsOf(ps), RowsOf(sv), RowsOf(new), x)
<1> DEFINE rp  == RowsOf(ps)
           rs  == RowsOf(sv)
           rn  == RowsOf(new)
<1>1. RowsAt(ps, Ids(ps), rp) /\ RowsAt(sv, Ids(sv), rs) /\ RowsAt(new, Ids(new), rn)
  BY RowsAre
<1>2. DOMAIN new = DOMAIN ps /\ new[x] = ps[x] /\ \A p \in DOMAIN ps : p # x => new[p] = sv[p]
  OBVIOUS
<1> HIDE DEF rp, rs, rn
<1>3. ASSUME NEW r
      PROVE  r \in DOMAIN rn <=> IF PageOf(r) = x THEN r \in DOMAIN rp ELSE r \in DOMAIN rs
  <2>1. CASE PageOf(r) = x
    BY <1>1, <1>2, <2>1 DEF RowsAt
  <2>2. CASE PageOf(r) # x
    BY <1>1, <1>2, <2>2 DEF RowsAt
  <2> QED BY <2>1, <2>2
<1>4. ASSUME NEW r \in DOMAIN rn
      PROVE  rn[r] = IF PageOf(r) = x THEN rp[r] ELSE rs[r]
  <2>1. rn[r] = Held(new[PageOf(r)]).rows[SlotOf(r)] /\ PageOf(r) \in DOMAIN ps
    BY <1>1, <1>2 DEF RowsAt
  <2>2. CASE PageOf(r) = x
    <3>1. r \in DOMAIN rp
      BY <1>3, <2>2
    <3>2. rp[r] = Held(ps[PageOf(r)]).rows[SlotOf(r)]
      BY <1>1, <3>1 DEF RowsAt
    <3> QED BY <1>2, <2>1, <2>2, <3>2
  <2>3. CASE PageOf(r) # x
    <3>1. r \in DOMAIN rs
      BY <1>3, <2>3
    <3>2. rs[r] = Held(sv[PageOf(r)]).rows[SlotOf(r)]
      BY <1>1, <3>1 DEF RowsAt
    <3> QED BY <1>2, <2>1, <2>3, <3>2
  <2> QED BY <2>2, <2>3
<1>5. DOMAIN rn = {q \in DOMAIN rp : q[1] = x} \cup {q \in DOMAIN rs : q[1] # x}
  BY <1>3 DEF PageOf
<1>6. rn = [r \in DOMAIN rn |-> rn[r]]
  BY <1>1 DEF RowsAt
<1>7. rn = [r \in {q \in DOMAIN rp : q[1] = x} \cup {q \in DOMAIN rs : q[1] # x} |->
              IF r[1] = x THEN rp[r] ELSE rs[r]]
  BY <1>4, <1>5, <1>6 DEF PageOf
<1> QED BY <1>7 DEF RowsCopied, rp, rs, rn

\* The rows of a file have its ids, and a file of shorter pages has fewer.
LEMMA FewerIds ==
  ASSUME NEW as, NEW bs, DOMAIN as = DOMAIN bs,
         \A p \in DOMAIN as : Held(as[p]).ids \subseteq Held(bs[p]).ids
  PROVE  DOMAIN RowsOf(as) \subseteq Ids(as) /\ Ids(as) \subseteq Ids(bs)
<1>1. RowsAt(as, Ids(as), RowsOf(as)) /\ RowsAt(bs, Ids(bs), RowsOf(bs))
  BY RowsAre
<1>2. \A p : DOMAIN Held(as[p]).rows \subseteq Held(as[p]).ids
  BY HeldParts DEF LiveSlots
<1>3. DOMAIN RowsOf(as) \subseteq Ids(as)
  BY <1>1, <1>2 DEF RowsAt
<1>4. Ids(as) \subseteq Ids(bs)
  BY <1>1 DEF RowsAt
<1> QED BY <1>3, <1>4

LEMMA NoRows ==
  ASSUME NEW bs, \A p \in DOMAIN bs : Held(bs[p]) = NoRecords
  PROVE  Ids(bs) = {} /\ RowsOf(bs) = [r \in {} |-> r]
<1> DEFINE ids  == Ids(bs)
           rows == RowsOf(bs)
<1>1. RowsAt(bs, ids, rows)
  BY RowsAre
<1> HIDE DEF ids, rows
<1>2. \A p \in DOMAIN bs : Held(bs[p]).ids = {} /\ DOMAIN Held(bs[p]).rows = {}
  BY NothingHeld
<1>3. \A r : r \notin ids /\ r \notin DOMAIN rows
  BY <1>1, <1>2 DEF RowsAt
<1>4. ids = {}
  BY <1>3
<1>5. rows = [r \in {} |-> r]
  <2>1. DOMAIN rows = {}
    BY <1>3
  <2> QED BY <1>1, <2>1 DEF RowsAt
<1> QED BY <1>4, <1>5 DEF ids, rows

\* What RowFile's variables stand for.
Bodies    == [p \in DOMAIN pages |-> Body(p)]
SavedRows == IF kind = "HEAP" THEN RowsOf(saved) ELSE [r \in {} |-> r]

\* bs are the bodies of the pages ps.
BodiesOf(bs, k, ps) ==
  /\ DOMAIN bs = DOMAIN ps
  /\ k = "HEAP" => \A p \in DOMAIN ps : bs[p] = ps[p]
  /\ k = "SEQUENTIAL" => \A p \in DOMAIN ps : bs[p] = ps[p].body

LEMMA BodiesAre ==
  /\ BodiesOf(Bodies, kind, pages) /\ Rids = Ids(Bodies)
  /\ BodiesOf(Bodies', kind', pages') /\ Rids' = Ids(Bodies')
<1>1. DOMAIN Bodies = DOMAIN pages /\ \A p \in DOMAIN pages : Bodies[p] = Body(p)
  BY DEF Bodies
<1>2. Rids = Ids(Bodies)
  BY <1>1 DEF Rids, Ids
<1>3. "HEAP" # "SEQUENTIAL"
  OBVIOUS
<1>4. BodiesOf(Bodies, kind, pages)
  <2>1. \A p : Body(p) = IF kind = "HEAP" THEN pages[p] ELSE pages[p].body
    BY DEF Body
  <2> QED BY <1>1, <1>3, <2>1 DEF BodiesOf
<1>5. DOMAIN Bodies' = DOMAIN pages' /\ \A p \in DOMAIN pages' : Bodies'[p] = Body(p)'
  BY DEF Bodies
<1>6. Rids' = Ids(Bodies')
  BY <1>5 DEF Rids, Ids
<1>7. BodiesOf(Bodies', kind', pages')
  <2>1. \A p : Body(p)' = IF kind' = "HEAP" THEN pages'[p] ELSE pages'[p].body
    BY DEF Body
  <2> QED BY <1>3, <1>5, <2>1 DEF BodiesOf
<1> QED BY <1>2, <1>4, <1>6, <1>7

LEMMA MapsToStutter ==
  ASSUME Ids(Bodies') = Ids(Bodies), RowsOf(Bodies') = RowsOf(Bodies), SavedRows' = SavedRows
  PROVE  UNCHANGED File!fileVars
BY BodiesAre DEF File!fileVars, Bodies, SavedRows

LEMMA MapsToInsert ==
  ASSUME NEW v \in Val, SavedRows' = SavedRows, RowAdded(Bodies, Bodies', v)
  PROVE  File!FileNext
<1>1. PICK r : /\ r \notin Ids(Bodies) /\ Ids(Bodies') = Ids(Bodies) \cup {r}
               /\ RowsOf(Bodies') = [q \in DOMAIN RowsOf(Bodies) \cup {r} |->
                                       IF q = r THEN v ELSE RowsOf(Bodies)[q]]
  BY DEF RowAdded
<1>2. r \notin Rids /\ Rids' = Rids \cup {r}
  BY <1>1, BodiesAre
<1>3. File!Insert(r, v)
  BY <1>1, <1>2 DEF File!Insert, Bodies, SavedRows
<1>4. r \in Rids' \ Rids
  BY <1>2
<1> QED BY <1>3, <1>4 DEF File!FileNext

LEMMA MapsToRemove ==
  ASSUME SavedRows' = SavedRows, RowTaken(Bodies, Bodies')
  PROVE  File!FileNext
<1>1. PICK r \in DOMAIN RowsOf(Bodies) :
        RowsOf(Bodies') = [q \in DOMAIN RowsOf(Bodies) \ {r} |-> RowsOf(Bodies)[q]]
  BY DEF RowTaken
<1>2. Rids' = Rids
  BY BodiesAre DEF RowTaken
<1>3. File!Remove(r)
  BY <1>1, <1>2 DEF File!Remove, Bodies, SavedRows
<1>4. r \in DOMAIN RowsOf([p \in DOMAIN pages |-> Body(p)])
  BY <1>1 DEF Bodies
<1> QED BY <1>3, <1>4 DEF File!FileNext

-----------------------------------------------------------------------------
\* The steps of a heap file.
LEMMA HeapMaps ==
  ASSUME HeapInv, kind = "HEAP", kind' = kind, H!HeapNext
  PROVE  File!FileNext \/ UNCHANGED File!fileVars
<1>1. PICK as, bs : as = Bodies /\ bs = Bodies'
  OBVIOUS
<1>2. /\ DOMAIN as = DOMAIN pages /\ \A p \in DOMAIN pages : as[p] = pages[p]
      /\ DOMAIN bs = DOMAIN pages' /\ \A p \in DOMAIN pages' : bs[p] = pages'[p]
  <2>1. BodiesOf(as, kind, pages) /\ BodiesOf(bs, kind', pages')
    BY <1>1, BodiesAre
  <2> QED BY <2>1 DEF BodiesOf
<1>3. SavedRows = RowsOf(saved) /\ SavedRows' = RowsOf(saved')
  BY DEF SavedRows
<1>4. /\ \A p \in DOMAIN pages : WellLaid(pages[p]) /\ WellLaid(saved[p])
      /\ DOMAIN saved = DOMAIN pages
  BY DEF HeapInv, PageInv
<1>5. CASE UNCHANGED <<pages, saved>>
  <2>1. Ids(bs) = Ids(as) /\ RowsOf(bs) = RowsOf(as)
    BY <1>2, <1>5, SameRows
  <2> QED BY <1>1, <1>3, <1>5, <2>1, MapsToStutter
<1>6. CASE H!NewActivePage
  <2>1. PICK n \in Nat : n = H!Count
    BY PagesFinite DEF HeapInv
  <2>2. pages' = H!Fill(n, NewPage, pages) /\ saved' = H!Fill(n, ZeroPage, saved)
    BY <1>6, <2>1, HeapPageOf DEF H!NewActivePage
  <2>3. n \notin DOMAIN pages
    BY <2>1 DEF HeapInv, PageInv
  <2>4. /\ DOMAIN pages' = DOMAIN pages \cup {n} /\ DOMAIN saved' = DOMAIN saved \cup {n}
        /\ pages'[n] = NewPage /\ saved'[n] = ZeroPage
        /\ \A p \in DOMAIN pages : pages'[p] = pages[p] /\ saved'[p] = saved[p]
    BY <1>4, <2>2, <2>3 DEF H!Fill
  <2>5. Held(NewPage) = NoRecords /\ Held(ZeroPage) = NoRecords
    BY FirstHold DEF NoRecords
  <2>6. Ids(bs) = Ids(as) /\ RowsOf(bs) = RowsOf(as)
    <3>1. /\ DOMAIN as \subseteq DOMAIN bs
          /\ \A p \in DOMAIN as : bs[p] = as[p]
          /\ \A p \in DOMAIN bs \ DOMAIN as : bs[p] = NewPage
      BY <1>2, <2>4
    <3>2. /\ \A p \in DOMAIN as : Held(bs[p]) = Held(as[p])
          /\ \A p \in DOMAIN bs \ DOMAIN as : Held(bs[p]) = NoRecords
      BY <2>5, <3>1
    <3> QED BY <3>1, <3>2, SameRows
  <2>7. RowsOf(saved') = RowsOf(saved)
    <3>1. PICK old, new : old = saved /\ new = saved'
      OBVIOUS
    <3>2. /\ DOMAIN old \subseteq DOMAIN new
          /\ \A p \in DOMAIN old : Held(new[p]) = Held(old[p])
          /\ \A p \in DOMAIN new \ DOMAIN old : Held(new[p]) = NoRecords
      BY <1>4, <2>4, <2>5, <3>1
    <3>3. RowsOf(new) = RowsOf(old)
      BY <3>2, SameRows
    <3> QED BY <3>1, <3>3
  <2> QED BY <1>1, <1>3, <2>6, <2>7, MapsToStutter
<1>7. CASE H!Store
  <2> DEFINE old == pages[active]
             new == WithRecord(Prepared(old, wanted), wanted)
  <2>1. /\ pc = "store" /\ pages' = [pages EXCEPT ![active] = new] /\ saved' = saved
    BY <1>7, HeapPageOf, HeapPrepared DEF H!Store
  <2>2. /\ active \in DOMAIN pages /\ WellLaid(old) /\ wanted \in Val
        /\ Size[wanted] + SlotSize <= Room(old)
    BY <2>1 DEF HeapInv, PageInv, RoomInv, SearchInv
  <2>3. WellLaid(Prepared(old, wanted)) /\ Fits(Prepared(old, wanted), wanted)
    BY <2>2, PreparePage DEF Room
  <2>4. Stored(Held(old), Held(new), wanted)
    BY <2>2, <2>3, PrepareHolds, StoredIn
  <2> HIDE DEF new
  <2>5. DOMAIN pages' = DOMAIN pages /\ pages'[active] = new
        /\ \A p \in DOMAIN pages : p # active => pages'[p] = pages[p]
    BY <2>1, <2>2
  <2>6. PICK x, v : x = active /\ v = wanted /\ v \in Val
    BY <2>2
  <2>7. OneChanges(as, bs, x) /\ x \in DOMAIN as /\ Stored(Held(as[x]), Held(bs[x]), v)
    BY <1>2, <2>2, <2>4, <2>5, <2>6 DEF OneChanges
  <2>8. RowAdded(as, bs, v)
    BY <2>7, RowStored
  <2>9. SavedRows' = SavedRows
    BY <1>3, <2>1
  <2> QED BY <1>1, <2>6, <2>8, <2>9, MapsToInsert
<1>8. ASSUME NEW x \in DOMAIN pages, NEW i, H!Remove(x, i)
      PROVE  File!FileNext
  <2> DEFINE new == WithoutRecord(pages[x], i)
  <2>1. /\ i \in LiveSlots(pages[x]) /\ pages' = [pages EXCEPT ![x] = new] /\ saved' = saved
    BY <1>8, HeapPageOf, HeapRoomOf DEF H!Remove
  <2>2. DOMAIN pages' = DOMAIN pages /\ pages'[x] = new
        /\ \A p \in DOMAIN pages : p # x => pages'[p] = pages[p]
    BY <2>1
  <2>3. /\ x \in DOMAIN as /\ WellLaid(as[x]) /\ i \in LiveSlots(as[x])
        /\ OneChanges(as, bs, x) /\ Held(bs[x]) = Held(WithoutRecord(as[x], i))
    BY <1>2, <1>4, <2>1, <2>2 DEF OneChanges
  <2>4. RowTaken(as, bs)
    BY <2>3, RowRemoved
  <2>5. SavedRows' = SavedRows
    BY <1>3, <2>1
  <2> QED BY <1>1, <2>4, <2>5, MapsToRemove
<1>9. ASSUME NEW x \in DOMAIN pages, H!Save(x)
      PROVE  File!FileNext
  <2>1. saved' = [saved EXCEPT ![x] = pages[x]] /\ pages' = pages
    BY <1>9 DEF H!Save
  <2>2. Ids(bs) = Ids(as) /\ RowsOf(bs) = RowsOf(as)
    BY <1>2, <2>1, SameRows
  <2>3. x \in 0 .. HeapPages - 1
    BY ConstantsAssumption DEF HeapInv, PageInv
  <2>4. saved' = [saved EXCEPT ![x] = as[x]]
    BY <1>2, <2>1
  <2>5. PICK sv, sn : sv = saved /\ sn = saved'
    OBVIOUS
  <2>6. RowsCopied(RowsOf(as), RowsOf(sv), RowsOf(sn), x)
    <3>1. x \in DOMAIN as /\ DOMAIN sv = DOMAIN as /\ sn = [sv EXCEPT ![x] = as[x]]
      BY <1>2, <1>4, <2>4, <2>5
    <3> QED BY <3>1, RowsSaved
  <2>7. RowsCopied(RowsOf(Bodies), SavedRows, SavedRows', x)
    BY <1>1, <1>3, <2>5, <2>6
  <2>8. Rids' = Rids /\ RowsOf(Bodies') = RowsOf(Bodies)
    <3>1. Rids = Ids(as) /\ Rids' = Ids(bs)
      BY <1>1, BodiesAre
    <3> QED BY <1>1, <2>2, <3>1
  <2>9. File!Save(x)
    BY <2>7, <2>8 DEF File!Save, RowsCopied, Bodies, SavedRows
  <2> QED BY <2>3, <2>9 DEF File!FileNext
<1>10. CASE H!Crash
  <2>1. pages' = saved /\ saved' = saved
    BY <1>10 DEF H!Crash
  <2>2. PICK sv : sv = saved
    OBVIOUS
  <2>3. Ids(bs) = Ids(sv) /\ RowsOf(bs) = RowsOf(sv)
    BY <1>2, <2>1, <2>2, SameRows
  <2>4. ASSUME NEW p \in DOMAIN sv PROVE Held(sv[p]).ids \subseteq Held(as[p]).ids
    <3>1. /\ Held(sv[p]).ids = DOMAIN saved[p].slots /\ Held(as[p]).ids = DOMAIN pages[p].slots
          /\ p \in DOMAIN pages
      BY <1>2, <1>4, <2>2, <2>4, HeldParts
    <3>2. /\ DOMAIN saved[p].slots = 1 .. Len(saved[p].slots) /\ Len(saved[p].slots) \in Nat
          /\ DOMAIN pages[p].slots = 1 .. Len(pages[p].slots) /\ Len(pages[p].slots) \in Nat
      BY <1>4, <3>1, SlotType DEF WellLaid
    <3>3. Len(saved[p].slots) <= Len(pages[p].slots)
      BY <3>1 DEF HeapInv, PageInv
    <3>4. PICK m, n \in Nat : m = Len(saved[p].slots) /\ n = Len(pages[p].slots) /\ m <= n
      BY <3>2, <3>3
    <3>5. 1 .. m \subseteq 1 .. n
      BY <3>4
    <3> QED BY <3>1, <3>2, <3>4, <3>5
  <2>5. DOMAIN RowsOf(sv) \subseteq Ids(sv) /\ Ids(sv) \subseteq Ids(as)
    BY <1>2, <1>4, <2>2, <2>4, FewerIds
  <2>6. /\ RowsOf(Bodies') = SavedRows /\ SavedRows' = SavedRows
        /\ DOMAIN SavedRows \subseteq Rids' /\ Rids' \subseteq Rids
    <3>1. Rids = Ids(as) /\ Rids' = Ids(bs)
      BY <1>1, BodiesAre
    <3> QED BY <1>1, <1>3, <2>1, <2>2, <2>3, <2>5, <3>1
  <2>7. File!Crash
    BY <2>6 DEF File!Crash, Bodies, SavedRows
  <2> QED BY <2>7 DEF File!FileNext
<1>11. H!HeapNext => \/ UNCHANGED <<pages, saved>> \/ H!NewActivePage \/ H!Store \/ H!Crash
                     \/ \E x \in DOMAIN pages : H!Save(x) \/ \E i : H!Remove(x, i)
  BY DEF H!HeapNext, H!Insert, H!PopStale, H!TakeTop, H!NoneKnown, H!Measure
<1> QED BY <1>5, <1>6, <1>7, <1>8, <1>9, <1>10, <1>11

\* The steps of a sequential file.
LEMMA SeqMaps ==
  ASSUME SeqInv, kind = "SEQUENTIAL", kind' = kind, S!SeqNext
  PROVE  File!FileNext \/ UNCHANGED File!fileVars
<1>1. PICK as, bs : as = Bodies /\ bs = Bodies'
  OBVIOUS
<1>2. /\ DOMAIN as = DOMAIN pages /\ \A p \in DOMAIN pages : as[p] = pages[p].body
      /\ DOMAIN bs = DOMAIN pages' /\ \A p \in DOMAIN pages' : bs[p] = pages'[p].body
  <2>1. BodiesOf(as, kind, pages) /\ BodiesOf(bs, kind', pages')
    BY <1>1, BodiesAre
  <2> QED BY <2>1 DEF BodiesOf
<1>3. SavedRows' = SavedRows
  BY DEF SavedRows
<1>4. PICK n, q : n = S!Count /\ q = S!Mains(pages)
  OBVIOUS
<1>5. /\ Sheets(pages, n) /\ Linked(pages, owner, q)
      /\ Remembered(pages, maxKey, mainNext, owner, q)
  BY <1>4 DEF SeqInv
<1>6. ASSUME NEW v \in Val, S!InsertInBucket(v)
      PROVE  File!FileNext
  <2> DEFINE k == Key[v]
  <2>1. k \in Nat
    BY ConstantsAssumption
  <2> HIDE DEF k
  <2>2. PICK m \in Elements(q) : S!Target(k).main = m
    <3>1. PICK t \in 1 .. Len(q) :
            /\ S!Target(k).main = q[t]
            /\ \A i \in 1 .. Len(q) : i < t => maxKey[q[i]] < k
            /\ S!Target(k).inRange <=> maxKey[q[t]] >= k
            /\ ~ S!Target(k).inRange => t = Len(q)
      BY <1>5, <2>1, TargetIs
    <3> QED BY <3>1 DEF Elements
  <2> USE DEF k
  <2>3. PICK x \in DOMAIN pages :
          /\ DOMAIN pages' = DOMAIN pages
          /\ \A p \in DOMAIN pages : p # x => Held(pages'[p].body) = Held(pages[p].body)
          /\ Stored(Held(pages[x].body), Held(pages'[x].body), v)
    BY <1>5, <1>6, <2>2, InsertInBucketIs
  <2>4. OneChanges(as, bs, x) /\ x \in DOMAIN as /\ Stored(Held(as[x]), Held(bs[x]), v)
    BY <1>2, <2>3 DEF OneChanges
  <2>5. RowAdded(as, bs, v)
    BY <2>4, RowStored
  <2> QED BY <1>1, <1>3, <2>5, MapsToInsert
<1>7. ASSUME NEW v \in Val, NEW own, Grown(n, v, own)
      PROVE  File!FileNext
  <2>1. /\ n \notin DOMAIN pages /\ DOMAIN pages' = DOMAIN pages \cup {n}
        /\ \A p \in DOMAIN pages : Held(pages'[p].body) = Held(pages[p].body)
        /\ Stored(NoRecords, Held(pages'[n].body), v)
    BY <1>7, ExtendedBy DEF Grown, Wider
  <2>2. OneChanges(as, bs, n) /\ n \notin DOMAIN as /\ Stored(NoRecords, Held(bs[n]), v)
    BY <1>2, <2>1 DEF OneChanges
  <2>3. RowAdded(as, bs, v)
    BY <2>2, RowStored
  <2> QED BY <1>1, <1>3, <2>3, MapsToInsert
<1>8. ASSUME NEW x \in DOMAIN pages, NEW i, S!Remove(x, i)
      PROVE  File!FileNext
  <2>1. i \in LiveSlots(pages[x].body) /\ Emptied(pages, n, x, i, pages')
    BY <1>5, <1>8, SeqRemoveIs
  <2>2. WellLaid(pages[x].body)
    BY <1>5 DEF Sheets, Sheet
  <2>3. /\ x \in DOMAIN as /\ WellLaid(as[x]) /\ i \in LiveSlots(as[x])
        /\ OneChanges(as, bs, x) /\ Held(bs[x]) = Held(WithoutRecord(as[x], i))
    BY <1>2, <2>1, <2>2 DEF OneChanges, Emptied
  <2>4. RowTaken(as, bs)
    BY <2>3, RowRemoved
  <2> QED BY <1>1, <1>3, <2>4, MapsToRemove
<1>9. CASE S!Reopen
  <2>1. Ids(bs) = Ids(as) /\ RowsOf(bs) = RowsOf(as)
    <3>1. pages' = pages
      BY <1>9 DEF S!Reopen
    <3> QED BY <1>2, <3>1, SameRows
  <2> QED BY <1>1, <1>3, <2>1, MapsToStutter
<1>10. ASSUME NEW v \in Val, S!InsertInOverflow(v) \/ S!InsertInNewMain(v)
       PROVE  File!FileNext
  <2>1. \E own : Grown(S!Count, v, own)
    BY <1>10, InsertInOverflowKeeps, InsertInNewMainKeeps
  <2> QED BY <1>4, <1>7, <2>1
<1> QED BY <1>6, <1>8, <1>9, <1>10 DEF S!SeqNext

LEMMA FileStarts ==
  ASSUME Init
  PROVE  File!FileInit
<1>1. PICK bs : bs = Bodies /\ BodiesOf(bs, kind, pages)
  BY BodiesAre
<1>2. Held(NewPage) = NoRecords /\ Held(ZeroPage) = NoRecords
  BY FirstHold DEF NoRecords
<1>3. SavedRows = [r \in {} |-> r] /\ \A p \in DOMAIN bs : Held(bs[p]) = NoRecords
  <2>1. CASE kind = "HEAP" /\ H!HeapInit
    <3>1. pages = [p \in {0} |-> NewPage] /\ saved = [p \in {0} |-> ZeroPage]
      BY <2>1, HeapPageOf DEF H!HeapInit
    <3>2. \A p \in DOMAIN bs : bs[p] = NewPage
      BY <1>1, <2>1, <3>1 DEF BodiesOf
    <3>3. PICK sv : sv = saved
      OBVIOUS
    <3>4. \A p \in DOMAIN sv : Held(sv[p]) = NoRecords
      BY <1>2, <3>1, <3>3
    <3>5. RowsOf(sv) = [r \in {} |-> r]
      BY <3>4, NoRows
    <3> QED BY <1>2, <2>1, <3>2, <3>3, <3>5 DEF SavedRows
  <2>2. CASE kind = "SEQUENTIAL" /\ S!SeqInit
    <3>1. pages = [p \in {0} |-> S!Fresh(NewPage)]
      BY <2>2, SeqPageOf DEF S!SeqInit
    <3>2. S!Fresh(NewPage).body = NewPage
      BY FirstPages, FirstSheet
    <3>3. \A p \in DOMAIN bs : bs[p] = NewPage
      BY <1>1, <2>2, <3>1, <3>2 DEF BodiesOf
    <3> QED BY <1>2, <2>2, <3>3 DEF SavedRows
  <2> QED BY <2>1, <2>2 DEF Init
<1>4. Ids(bs) = {} /\ RowsOf(bs) = [r \in {} |-> r]
  BY <1>3, NoRows
<1>5. Rids = {}
  BY <1>1, <1>4, BodiesAre
<1>6. RowsOf(Bodies) = [r \in {} |-> r]
  BY <1>1, <1>4
<1> QED BY <1>3, <1>5, <1>6 DEF File!FileInit, File!Nothing, Bodies, SavedRows

\* A file keeps every row under the id it was given, gives no id twice, and a
\* crash takes it back to what was saved, whatever its organization compacts,
\* extends or reorganizes (base.py, FileOrganization).
THEOREM RowsKept == Spec => FileRefined
<1>1. Init => File!FileInit
  BY FileStarts
<1>2. HeapFileInv /\ SeqFileInv /\ [Next]_vars => [File!FileNext]_(File!fileVars)
  <2> SUFFICES ASSUME HeapFileInv, SeqFileInv, [Next]_vars
               PROVE  File!FileNext \/ UNCHANGED File!fileVars
    OBVIOUS
  <2>1. CASE kind = "HEAP" /\ H!HeapNext /\ UNCHANGED <<kind, seqOnly>>
    BY <2>1, HeapMaps DEF HeapFileInv
  <2>2. CASE kind = "SEQUENTIAL" /\ S!SeqNext /\ UNCHANGED <<kind, heapOnly>>
    BY <2>2, SeqMaps DEF SeqFileInv
  <2>3. CASE UNCHANGED vars
    BY <2>3 DEF vars, File!fileVars, Rids, RowsOf, Body
  <2> QED BY <2>1, <2>2, <2>3 DEF Next
<1> QED BY <1>1, <1>2, HeapInvariant, SeqInvariant, PTL DEF Spec, FileRefined, File!FileSpec

=============================================================================
