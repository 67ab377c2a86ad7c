--------------------------- MODULE MutableInverted ---------------------------
(***************************************************************************)
(* The inverted index of a table that takes INSERT and DELETE              *)
(* (plugins/soupdb-inverted, mutable.py over index.py): an index built     *)
(* once, and beside it the documents added since and the record ids        *)
(* removed, which every change writes to a sidecar file.  A text is a key  *)
(* and scores are given: those of the built index, and those of the delta, *)
(* which are computed by other formulas.                                   *)
(***************************************************************************)
EXTENDS Integers, FiniteSets

CONSTANTS Key, Documents,  \* texts; record ids, as numbers in their order
          NoMatch,         \* the score of a text without a term of the query
          BuiltScore,      \* text -> score in the built index, or NoMatch
          DeltaScore       \* text -> score in the delta, 0 without a term

VARIABLES built,    \* record id -> text, as scanned by CREATE INDEX
          added, removed,
          sidecar,  \* the delta in the file
          refused   \* the database cannot be opened any more

invertedVars == <<built, added, removed, sidecar, refused>>

-----------------------------------------------------------------------------
(* What is in the index, and what a search makes of it.                     *)

Kept == [r \in DOMAIN built \ removed |-> built[r]]
TextsOf(a, d) == {<<a[r], r>> : r \in DOMAIN a} \cup {<<built[r], r>> : r \in DOMAIN built \ d}
Texts == TextsOf(added, removed)
SavedTexts == TextsOf(sidecar[1], sidecar[2])

\* __len__
Size(a, d) == Cardinality(DOMAIN built) + Cardinality(DOMAIN a) - Cardinality(d)

\* A hit is <<score, record id>>; the better one has the higher score, or the
\* smaller id.
Better(h, g) == h[1] > g[1] \/ (h[1] = g[1] /\ h[2] < g[2])
First(hits, n) == {h \in hits : Cardinality({g \in hits : Better(g, h)}) < n}

BuiltHits == {<<BuiltScore[built[r]], r>> : r \in {x \in DOMAIN built : BuiltScore[built[x]] # NoMatch}}
DeltaHits == {<<DeltaScore[added[r]], r>> : r \in {x \in DOMAIN added : DeltaScore[added[x]] > 0}}

\* Mutant of Needed: nothing is asked for in place of the removed.
NeededAtMost(n) == n
Needed(n) == n + Cardinality(removed) + Cardinality(DOMAIN added)

\* match_top_k: the built index is asked for enough to spare the removed ones.
MatchTopK(n) ==
  First({h \in First(BuiltHits, Needed(n)) : h[2] \notin removed} \cup DeltaHits, n)

-----------------------------------------------------------------------------
InvertedInit ==
  /\ \E docs \in SUBSET Documents : built \in [docs -> Key]
  /\ added = <<>> /\ removed = {} /\ sidecar = <<added, removed>> /\ refused = FALSE

\* _persist replaces the file at once or raises; what is in memory stays
\* changed, and the caller undoes it, which may fail to be written as well:
\* on a full disk the file stays as it is through any number of changes.
Persist == sidecar' = <<added', removed'>> \/ UNCHANGED sidecar

\* insert_document.  The files of tables give no record id twice but after a
\* crash, which the sidecar outlives: a row of the same id may then be in the
\* delta, though not in the built index, which is of an earlier close.
InsertDocument(k, r) ==
  /\ ~refused /\ r \notin DOMAIN built
  /\ added' = [x \in DOMAIN added \cup {r} |-> IF x = r THEN k ELSE added[x]]
  /\ removed' = removed \ {r}
  /\ Persist
  /\ UNCHANGED <<built, refused>>

AddedWithout(r) == [x \in DOMAIN added \ {r} |-> added[x]]

\* remove_document, which undoes an insertion as well; a missing id is noted.
RemoveDocument(r) ==
  /\ ~refused
  /\ added' = AddedWithout(r)
  /\ removed' = removed \cup {r}
  /\ Persist
  /\ UNCHANGED <<built, refused>>

\* The database is closed, or crashes, and is opened: len() of a negative
\* number raises, and the catalog with it.
ReopenInverted ==
  /\ ~refused
  /\ added' = sidecar[1] /\ removed' = sidecar[2]
  /\ refused' = (Size(added', removed') < 0)
  /\ UNCHANGED <<built, sidecar>>

InvertedNext ==
  \/ \E r \in Documents : RemoveDocument(r) \/ \E k \in Key : InsertDocument(k, r)
  \/ ReopenInverted

-----------------------------------------------------------------------------
\* A document is in one part of the index, in memory and in the file, however
\* far apart failed writes have left them.
DeltaSound ==
  /\ DOMAIN added \cap (removed \cup DOMAIN built) = {}
  /\ DOMAIN sidecar[1] \cap (sidecar[2] \cup DOMAIN built) = {}

\* The hits of a search among the documents of the index, each scored where
\* it is.
Relevant ==
  {<<BuiltScore[Kept[r]], r>> : r \in {x \in DOMAIN Kept : BuiltScore[Kept[x]] # NoMatch}} \cup DeltaHits
=============================================================================
