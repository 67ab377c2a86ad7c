------------------------------ MODULE TableFile -----------------------------
(***************************************************************************)
(* The file of a table (engine/storage/base.py, FileOrganization): a heap  *)
(* file or a sequential file, as the catalog records it when the table is  *)
(* created.  Either one implements RowFile.                                *)
(***************************************************************************)
EXTENDS SlottedPage, Bags

CONSTANTS Key,        \* the key of a record
          HeapPages,  \* bound on the pages of a heap file
          SeqPages    \* bound on those of a sequential file

ASSUME ConstantsAssumption ==
  /\ Key \in [Val -> Nat]
  /\ HeapPages \in Nat \ {0} /\ SeqPages \in Nat \ {0}

VARIABLES kind,  \* the organization
          pages, saved,
          active, capacity, heap, unmeasured, pc, wanted,  \* of a heap file
          maxKey, mainNext, owner                          \* of a sequential file

H == INSTANCE HeapFile WITH MaxPages <- HeapPages
S == INSTANCE SequentialFile WITH MaxPages <- SeqPages

vars == <<kind, pages, saved, active, capacity, heap, unmeasured, pc, wanted,
          maxKey, mainNext, owner>>
heapOnly == <<saved, active, capacity, heap, unmeasured, pc, wanted>>
seqOnly  == <<maxKey, mainNext, owner>>

Unused == "none"

Init ==
  \/ /\ kind = "HEAP" /\ H!HeapInit
     /\ maxKey = Unused /\ mainNext = Unused /\ owner = Unused
  \/ /\ kind = "SEQUENTIAL" /\ S!SeqInit
     /\ saved = Unused /\ active = Unused /\ capacity = Unused /\ heap = Unused
     /\ unmeasured = Unused /\ pc = Unused /\ wanted = Unused

Next ==
  \/ kind = "HEAP" /\ H!HeapNext /\ UNCHANGED <<kind, seqOnly>>
  \/ kind = "SEQUENTIAL" /\ S!SeqNext /\ UNCHANGED <<kind, heapOnly>>

Spec == Init /\ [][Next]_vars

-----------------------------------------------------------------------------
TypeOK ==
  \/ kind = "HEAP" /\ H!HeapTypeOK
  \/ kind = "SEQUENTIAL" /\ S!SeqTypeOK

\* The slotted part of a page.
Body(p) == IF kind = "HEAP" THEN pages[p] ELSE pages[p].body

Rids == UNION {{p} \X DOMAIN Body(p).slots : p \in DOMAIN pages}
RowsOf(bodies) ==
  LET live == UNION {{p} \X LiveSlots(bodies[p]) : p \in DOMAIN bodies}
  IN [r \in live |-> bodies[r[1]].slots[r[2]].val]

\* The file keeps every row under the id it was given, gives no id twice, and
\* a crash takes it back to the pages that were saved: insertions that compact
\* or extend the file, removals and reorganizations move records, never rows.
File == INSTANCE RowFile WITH
  PageId <- 0 .. HeapPages - 1,
  rows   <- RowsOf([p \in DOMAIN pages |-> Body(p)]),
  used   <- Rids,
  saved  <- IF kind = "HEAP" THEN RowsOf(saved) ELSE [r \in {} |-> r]
FileRefined == File!FileSpec

\* The file is of its type, no two records of a page overlap, and none runs into
\* the directory: the room that insert and compact count is really there
\* (_slotted_page.py).
PagesSound == TypeOK /\ \A p \in DOMAIN pages : Sound(Body(p))

\* A heap file grows only when no page has room for the record, whatever was
\* deleted and whatever a crash made it forget (heap_file.py, "free-space reuse").
ExtendsWhenFull ==
  [][kind = "HEAP" /\ DOMAIN pages' # DOMAIN pages =>
       \A p \in DOMAIN pages : H!FrameCapacity(pages[p]) < H!Required(wanted)]_vars

\* The buckets of a sequential file are in key order, so that a scan, which
\* sorts each bucket, yields the rows in key order (sequential_file.py).
InKeyOrder ==
  kind = "SEQUENTIAL" =>
    LET mains == S!Mains(pages)
        keys  == [i \in DOMAIN mains |-> S!BucketKeys(pages, mains[i])]
    IN \A i, j \in DOMAIN mains : i < j => \A k \in keys[i], l \in keys[j] : k < l

\* What a sequential file keeps in memory is what it would rebuild from its
\* pages if it were opened now, and its chains reach every page.
MetadataExact ==
  kind = "SEQUENTIAL" =>
    maxKey = S!RebuiltMax /\ mainNext = S!RebuiltNext /\ owner = S!RebuiltOwner
      /\ S!Reached(pages) = DOMAIN pages
=============================================================================
