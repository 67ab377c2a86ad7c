------------------------------ MODULE HeapFile ------------------------------
(***************************************************************************)
(* HeapFile (engine/storage/heap_file.py): rows on slotted pages, with a   *)
(* map of the room each page is known to have, a heap that orders it and   *)
(* may hold out-of-date entries, and the pages whose room has not been     *)
(* looked at since the file was opened.                                    *)
(*                                                                         *)
(* pc is where insert is: "find" looks at the heap, "measure" at the       *)
(* unmeasured pages, and "store" has an active page with room.             *)
(***************************************************************************)
EXTENDS SlottedPage, Bags

CONSTANT MaxPages  \* bound on the pages of the file

VARIABLES pages,      \* the pages, as the page cache has them
          saved,      \* the pages, as the file has them
          active,     \* _active_page_id
          capacity,   \* _page_capacity
          heap,       \* _capacity_heap, as a bag: capacity, page
          unmeasured, \* _unmeasured_pages
          pc,         \* see above
          wanted      \* the record insert is to store

heapVars == <<pages, saved, active, capacity, heap, unmeasured, pc, wanted>>
space    == <<capacity, heap, unmeasured>>

Count     == Cardinality(DOMAIN pages)
NoRecord  == CHOOSE v \in Val : TRUE
Fill(p, pg, f) == [q \in DOMAIN f \cup {p} |-> IF q = p THEN pg ELSE f[q]]

\* The entries of a bag, each as often as it is in there.
Entries(bag) == MapThenSumSet(LAMBDA e : bag[e], BagToSet(bag))

FrameCapacity(pg) == FreeSpace(pg) + Reclaimable(pg)
Required(v) == Size[v] + SlotSize

HeapTypeOK ==
  /\ DOMAIN pages = 0 .. Count - 1 /\ DOMAIN saved = DOMAIN pages
  /\ \A p \in DOMAIN pages : pages[p] \in Page /\ saved[p] \in Page
  /\ active \in DOMAIN pages
  /\ DOMAIN capacity = DOMAIN pages \ unmeasured
  /\ \A p \in DOMAIN capacity : capacity[p] \in 0 .. PageSize
  /\ BagToSet(heap) \subseteq (0 .. PageSize) \X DOMAIN pages
  /\ Entries(heap) <= 2 * Cardinality(DOMAIN capacity)
  /\ unmeasured \subseteq DOMAIN pages
  /\ pc \in {"idle", "find", "measure", "store"}
  /\ wanted \in Val

\* A file just created: __init__ gives it a page.
HeapInit ==
  /\ pages = [p \in {0} |-> NewPage] /\ saved = [p \in {0} |-> ZeroPage]
  /\ active = 0
  /\ capacity = [p \in {0} |-> FrameCapacity(NewPage)]
  /\ heap = SetToBag({<<FrameCapacity(NewPage), 0>>})
  /\ unmeasured = {}
  /\ pc = "idle" /\ wanted = NoRecord

-----------------------------------------------------------------------------
\* _set_capacity: a new entry is pushed, and the old ones are dropped when
\* there are too many of them.
SetCapacity(p, room) ==
  /\ unmeasured' = unmeasured \ {p}
  /\ capacity' = Fill(p, room, capacity)
  /\ LET pushed == heap (+) SetToBag({<<room, p>>})
     IN heap' = IF Entries(pushed) > 2 * Cardinality(DOMAIN capacity')
                  THEN SetToBag({<<capacity'[q], q>> : q \in DOMAIN capacity'})
                  ELSE pushed

Top == CHOOSE e \in BagToSet(heap) :
         \A f \in BagToSet(heap) : e[1] > f[1] \/ (e[1] = f[1] /\ e[2] <= f[2])
Current(e) == e[2] \in DOMAIN capacity /\ capacity[e[2]] = e[1]

\* insert starts with the active page.  The record is one the file may still
\* grow for, or that some page has room for: a bound of the model.
Insert(v) ==
  /\ pc = "idle"
  /\ Count < MaxPages \/ \E p \in DOMAIN pages : FrameCapacity(pages[p]) >= Required(v)
  /\ wanted' = v
  /\ pc' = IF active \in DOMAIN capacity /\ capacity[active] >= Required(v)
             THEN "store" ELSE "find"
  /\ UNCHANGED <<pages, saved, active, space>>

PopStale ==
  /\ pc = "find" /\ BagToSet(heap) # {}
  /\ ~ Current(Top)
  /\ heap' = heap (-) SetToBag({Top})
  /\ UNCHANGED <<pages, saved, active, capacity, unmeasured, pc, wanted>>

TakeTop ==
  /\ pc = "find" /\ BagToSet(heap) # {}
  /\ Current(Top) /\ Top[1] >= Required(wanted)
  /\ active' = Top[2] /\ pc' = "store"
  /\ UNCHANGED <<pages, saved, space, wanted>>

NoneKnown ==
  /\ pc = "find"
  /\ BagToSet(heap) # {} => Current(Top) /\ Top[1] < Required(wanted)
  /\ pc' = "measure"
  /\ UNCHANGED <<pages, saved, active, space, wanted>>

\* The active page is measured first, the others in any order (set.pop).
Measure(p) ==
  /\ pc = "measure" /\ p \in unmeasured
  /\ active \in unmeasured => p = active
  /\ SetCapacity(p, FrameCapacity(pages[p]))
  /\ IF FrameCapacity(pages[p]) >= Required(wanted)
       THEN active' = p /\ pc' = "store"
       ELSE UNCHANGED <<active, pc>>
  /\ UNCHANGED <<pages, saved, wanted>>

\* _new_page: the file grows by a page of zeros, which is formatted in the cache.
NewActivePage ==
  /\ pc = "measure" /\ unmeasured = {} /\ Count < MaxPages
  /\ pages' = Fill(Count, NewPage, pages)
  /\ saved' = Fill(Count, ZeroPage, saved)
  /\ SetCapacity(Count, FrameCapacity(NewPage))
  /\ active' = Count /\ pc' = "store"
  /\ UNCHANGED wanted

Store ==
  /\ pc = "store"
  /\ LET pg == WithRecord(Prepared(pages[active], wanted), wanted)
     IN pages' = [pages EXCEPT ![active] = pg] /\ SetCapacity(active, FrameCapacity(pg))
  /\ pc' = "idle" /\ wanted' = NoRecord
  /\ UNCHANGED <<saved, active>>

\* Mutant of Remove: the room that is left is not recorded.
RemoveSilently(p, i) ==
  /\ pc = "idle" /\ i \in LiveSlots(pages[p])
  /\ pages' = [pages EXCEPT ![p] = WithoutRecord(@, i)]
  /\ UNCHANGED <<saved, active, space, pc, wanted>>

Remove(p, i) ==
  /\ pc = "idle" /\ i \in LiveSlots(pages[p])
  /\ LET pg == WithoutRecord(pages[p], i)
     IN pages' = [pages EXCEPT ![p] = pg] /\ SetCapacity(p, FrameCapacity(pg))
  /\ UNCHANGED <<saved, active, pc, wanted>>

\* The page cache writes a page, to make room or at a flush.
Save(p) ==
  /\ saved[p] # pages[p]
  /\ saved' = [saved EXCEPT ![p] = pages[p]]
  /\ UNCHANGED <<pages, active, space, pc, wanted>>

\* The process dies, and __init__ opens the file it left.
Crash ==
  /\ pages' = saved
  /\ active' = Count - 1
  /\ capacity' = [p \in {} |-> 0] /\ heap' = SetToBag({})
  /\ unmeasured' = DOMAIN pages
  /\ pc' = "idle" /\ wanted' = NoRecord
  /\ UNCHANGED saved

HeapNext ==
  \/ \E v \in Val : Insert(v)
  \/ PopStale \/ TakeTop \/ NoneKnown
  \/ \E p \in unmeasured : Measure(p)
  \/ NewActivePage \/ Store
  \/ \E p \in DOMAIN pages : Save(p) \/ \E i \in DOMAIN pages[p].slots : Remove(p, i)
  \/ Crash
=============================================================================
