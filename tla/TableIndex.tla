------------------------------ MODULE TableIndex -----------------------------
(***************************************************************************)
(* An index of a table (engine/indexes/base.py): a B+ tree, an extendible  *)
(* hash, an R-tree or an inverted index, as CREATE INDEX says.  Each       *)
(* implements IndexEntries and answers its searches from the entries it    *)
(* holds.                                                                  *)
(***************************************************************************)
EXTENDS Integers, Sequences, SequencesExt, FiniteSets

CONSTANTS Key, Rid,
          KeySize, Payload, TreePages,                      \* of the B+ tree
          Digest, EntrySize, BucketSize, MaxDepth, HashPages,  \* of the hash
          Point, Order, RTreeBound,                         \* of the R-tree
          Documents, NoMatch, BuiltScore, DeltaScore,       \* of the inverted index
          Queries  \* the boxes, centres, radii, counts and polygons asked for

ASSUME ConstantsAssumption ==
  /\ Key \subseteq Nat /\ Rid \subseteq Nat
  /\ KeySize \in [Key -> Nat] /\ EntrySize \in [Key -> Nat] /\ Digest \in [Key -> Nat]
  /\ MaxDepth \in Nat
  /\ Order \in Nat \ {0, 1}
  /\ \A k, l \in Key : Point[k] = Point[l] => k = l
  /\ Documents \subseteq Nat /\ IsFiniteSet(Documents)
  /\ \A k \in Key : BuiltScore[k] \in Int \cup {NoMatch} /\ DeltaScore[k] \in Int

VARIABLES kind,
          pages, root, pending, failed,                 \* of the B+ tree
          directory, globalDepth, buckets, inserting,   \* of the hash
          tree,                                         \* of the R-tree
          built, added, removed, sidecar, refused       \* of the inverted index

B == INSTANCE BPlusTree
H == INSTANCE ExtendibleHash
R == INSTANCE RTree
I == INSTANCE MutableInverted

treeOnly == <<pages, root, pending, failed>>
hashOnly == <<directory, globalDepth, buckets, inserting>>
textOnly == <<built, added, removed, sidecar, refused>>
vars == <<kind, treeOnly, hashOnly, tree, textOnly>>

Unused == "none"
NoTree  == pages = Unused /\ root = Unused /\ pending = Unused /\ failed = Unused
NoHash  == directory = Unused /\ globalDepth = Unused /\ buckets = Unused /\ inserting = Unused

NoText  == built = Unused /\ added = Unused /\ removed = Unused /\ sidecar = Unused /\ refused = Unused

Init ==
  \/ kind = "BTREE" /\ B!TreeInit /\ NoHash /\ tree = Unused /\ NoText
  \/ kind = "HASH" /\ H!HashInit /\ NoTree /\ tree = Unused /\ NoText
  \/ kind = "RTREE" /\ R!RTreeInit /\ NoTree /\ NoHash /\ NoText
  \/ kind = "INVERTED" /\ I!InvertedInit /\ NoTree /\ NoHash /\ tree = Unused

Next ==
  \/ kind = "BTREE" /\ B!TreeNext /\ UNCHANGED <<kind, hashOnly, tree, textOnly>>
  \/ kind = "HASH" /\ H!HashNext /\ UNCHANGED <<kind, treeOnly, tree, textOnly>>
  \/ kind = "RTREE" /\ R!RTreeNext /\ UNCHANGED <<kind, treeOnly, hashOnly, textOnly>>
  \/ kind = "INVERTED" /\ I!InvertedNext /\ UNCHANGED <<kind, treeOnly, hashOnly, tree>>

Spec == Init /\ [][Next]_vars

-----------------------------------------------------------------------------
Stored == CASE kind = "BTREE" -> B!Stored
            [] kind = "HASH" -> H!Kept
            [] kind = "RTREE" -> R!Under(tree)
            [] kind = "INVERTED" -> I!Texts

\* What the file of an inverted index holds; the others are saved as they change.
OnDisk == IF kind = "INVERTED" THEN I!SavedTexts ELSE Stored

\* What a finished insertion has to have done: in a B+ tree, with every entry
\* left where searches come unless it raises.
InsertAdds ==
  CASE kind = "BTREE" ->
         /\ \A k \in Key, r \in Rid :
              B!InsertInLeaf(k, r) \/ B!SplitRootLeaf(k, r) \/ B!SplitLeaf(k, r) => <<k, r>> \in Stored'
         /\ B!SplitImpossible \/ B!Lost' \subseteq B!Lost
    [] kind = "HASH" -> inserting # H!NoEntry /\ inserting' = H!NoEntry => inserting \in Stored'
    [] kind = "RTREE" -> TRUE
    [] kind = "INVERTED" -> \A k \in Key, r \in Documents : I!InsertDocument(k, r) => <<k, r>> \in Stored'

\* Splitting and doubling move entries, removing prunes and never loses one:
\* each index is the set of the entries inserted and not removed, an insertion
\* that returns has stored its entry, and so has one that gives up on the way;
\* a reopened inverted index is that of the last change that was written,
\* though any number of writes have failed since.
Entries == INSTANCE IndexEntries WITH entries <- Stored, saved <- OnDisk, Rid <- Rid \cup Documents
EntriesRefined == Entries!IndexSpec /\ [][InsertAdds]_vars

\* The structure a search relies on: order, separators, parents and leaf chain
\* of the tree, after failed insertions as well; depths and suffixes of the
\* hash; rectangles of the R-tree; the parts of an inverted index.
StructureSound == CASE kind = "BTREE" -> B!TreeSound
                    [] kind = "HASH" -> H!DirectorySound
                    [] kind = "RTREE" -> R!RTreeSound
                    [] kind = "INVERTED" -> I!DeltaSound

\* A list of entries is the set S, with no entry twice.
Lists(es, S) == Range(es) = S /\ Len(es) = Cardinality(S)

\* A list of entries of S with all of those of T, and with no entry twice.
ListsAtLeast(es, T, S) == T \subseteq Range(es) /\ Range(es) \subseteq S /\ Len(es) = Cardinality(Range(es))

\* search and range_search return every entry asked for, once, and a B+ tree
\* in key order: with empty leaves, with keys over several leaves, with buckets
\* that overflow.  After an insertion has failed in an inner node of a B+ tree,
\* a search misses no entry but those of leaves that it left out of the tree.
SearchExact ==
  CASE kind = "BTREE" ->
         pending = B!Idle => \A lo, hi \in Key :
           LET found == B!Walk(lo, hi)
               Asked(S) == {e \in S : lo <= e[1] /\ e[1] <= hi} IN
           /\ ListsAtLeast(found, Asked(B!Reachable), Asked(Stored))
           /\ ~failed => /\ Lists(found, Asked(Stored))
                         /\ \A i \in 1 .. Len(found) - 1 : found[i][1] <= found[i + 1][1]
    [] kind = "HASH" -> \A k \in Key : Lists(H!Found(k), {e \in Stored : e[1] = k})
    [] kind = "RTREE" ->
         /\ \A k \in Key : Lists(R!Gather(R!PointQuery(k), tree), {e \in Stored : e[1] = k})
         /\ \A b \in Queries.boxes : Lists(R!Gather(R!RangeQuery(b), tree),
                                           {e \in Stored : R!Covers(b, Point[e[1]])})
    [] OTHER -> TRUE

\* remove takes every entry asked for out of the index, and no other: over the
\* leaves, pages and nodes the entries of a key are on.  In a B+ tree with
\* leaves left out of it, it may miss entries there.
RemovalExact ==
  \A k \in Key, rids \in {Rid} \cup {{r} : r \in Rid} :
    CASE kind = "BTREE" ->
           pending = B!Idle =>
             LET left == B!EntriesOf(B!Without(k, rids)) IN
             /\ Stored \ ({k} \X rids) \subseteq left /\ left \subseteq Stored
             /\ left \cap ({k} \X rids) \cap B!Reachable = {}
             /\ ~failed => left \cap ({k} \X rids) = {}
      [] kind = "HASH" ->
           inserting = H!NoEntry => H!EntriesOf(H!Without(k, rids)) = Stored \ ({k} \X rids)
      [] kind = "RTREE" -> R!Under(R!RemoveFrom(tree, k, rids)) = Stored \ ({k} \X rids)
      [] kind = "INVERTED" ->
           \A r \in Documents : I!TextsOf(I!AddedWithout(r), removed \cup {r}) = Stored \ (Key \X {r})

\* Inside a convex polygon given counter-clockwise: left of every edge.
LeftOf(p, s) == (s[2][1] - s[1][1]) * (p[2] - s[1][2]) >= (s[2][2] - s[1][2]) * (p[1] - s[1][1])

\* radius_search, knn and polygon_search prune by rectangles and skip no hit:
\* knn returns the k entries of least rank though it stops early; match_top_k
\* the k best documents, though removed ones were among the best of the built.
NearestExact ==
  /\ kind = "INVERTED" => \A n \in 0 .. Cardinality(Documents) : I!MatchTopK(n) = I!First(I!Relevant, n)
  /\ kind = "RTREE" =>
    /\ \A c \in Queries.centres :
         /\ \A r2 \in Queries.radii : Lists(R!Gather(R!RadiusQuery(c, r2), tree),
                                            {e \in Stored : R!DistanceTo(c, Point[e[1]]) <= r2})
         /\ \A n \in 1 .. Queries.most : R!Nearest(c, n) = R!Smallest({R!Rank(c, e) : e \in Stored}, n)
    /\ \A poly \in Queries.polygons :
         Lists(R!PolygonEntries(poly),
               {e \in Stored : \A s \in R!Edges(poly) : LeftOf(Point[e[1]], s)})

\* The changes of the sidecar "survive reopening the database"
\* (soupdb_inverted/mutable.py): it opens again.
SurvivesReopening == kind = "INVERTED" => ~refused
=============================================================================
