----------------------------- MODULE SlottedPage ----------------------------
(***************************************************************************)
(* The layout of a page of records (engine/storage/_slotted_page.py).      *)
(* A page is a header, a directory of slots that grows upwards, and record *)
(* data that grows downwards from the end; free is free_space_offset.  A   *)
(* slot says where its record is, and stands for the record as well: the   *)
(* bytes it points to are those of val as long as no other record is put   *)
(* there, which is what Sound states.                                      *)
(***************************************************************************)
EXTENDS Integers, Sequences, FiniteSetsExt

CONSTANTS Val,        \* records
          Size,       \* their length
          PageSize,   \* length of a page (of its body, in a sequential file)
          HeaderSize, \* HEADER_SIZE
          SlotSize    \* SLOT_SIZE

ASSUME SizesAssumption ==
  /\ Val # {}
  /\ PageSize \in Nat /\ HeaderSize \in Nat \ {0} /\ SlotSize \in Nat
  /\ Size \in [Val -> 1 .. PageSize - HeaderSize - SlotSize]

\* offset 0 marks the slot of a deleted record.
Tombstone == [at |-> 0, val |-> CHOOSE v \in Val : TRUE]
Page == [slots : Seq([at : 0 .. PageSize, val : Val]), free : 0 .. PageSize]

\* A page as new_page formats it, and as allocate_page leaves it in the file.
NewPage  == [slots |-> <<>>, free |-> PageSize]
ZeroPage == [slots |-> <<>>, free |-> 0]

LiveSlots(pg) == {i \in DOMAIN pg.slots : pg.slots[i].at # 0}

\* The length of the records in the slots of S.
Bytes(pg, S) == MapThenSumSet(LAMBDA i : Size[pg.slots[i].val], S)

DirectoryEnd(pg) == HeaderSize + Len(pg.slots) * SlotSize
FreeSpace(pg)    == pg.free - DirectoryEnd(pg)
Reclaimable(pg)  == PageSize - pg.free - Bytes(pg, LiveSlots(pg))

\* Mutant of Fits: the directory entry is forgotten.
FitsWithoutSlot(pg, v) == Size[v] <= FreeSpace(pg)
Fits(pg, v) == Size[v] + SlotSize <= FreeSpace(pg)

\* insert_record, when the record fits: a slot is given out once.
WithRecord(pg, v) ==
  [slots |-> Append(pg.slots, [at |-> pg.free - Size[v], val |-> v]),
   free  |-> pg.free - Size[v]]

WithoutRecord(pg, i) == [pg EXCEPT !.slots[i] = Tombstone]

\* Mutant of Compacted: the slots are renumbered.
CompactedRenumbering(pg) ==
  [slots |-> SelectSeq(pg.slots, LAMBDA s : s.at # 0),
   free  |-> PageSize - Bytes(pg, LiveSlots(pg))]

\* compact: the live records are moved to the end of the page, in the order
\* they have there; the slots keep their numbers.
Compacted(pg) ==
  [slots |-> [i \in DOMAIN pg.slots |->
                IF i \notin LiveSlots(pg) THEN pg.slots[i]
                ELSE [pg.slots[i] EXCEPT !.at =
                        PageSize - Bytes(pg, {j \in LiveSlots(pg) :
                                                pg.slots[j].at >= pg.slots[i].at})]],
   free  |-> PageSize - Bytes(pg, LiveSlots(pg))]

\* What a page that may have been compacted for v looks like.
Prepared(pg, v) == IF Fits(pg, v) \/ Reclaimable(pg) = 0 THEN pg ELSE Compacted(pg)

Extent(pg, i) == pg.slots[i].at .. pg.slots[i].at + Size[pg.slots[i].val] - 1

\* The records do not overlap one another, the directory or the free space.
Sound(pg) ==
  /\ pg = ZeroPage \/ DirectoryEnd(pg) <= pg.free
  /\ \A i \in LiveSlots(pg) :
       /\ Extent(pg, i) \subseteq pg.free .. PageSize - 1
       /\ \A j \in LiveSlots(pg) \ {i} : Extent(pg, i) \cap Extent(pg, j) = {}
=============================================================================
