-------------------------------- MODULE RTree --------------------------------
(***************************************************************************)
(* The R-tree (engine/indexes/rtree) and the searches over it              *)
(* (engine/algorithms/spatial).  A node is a record with its rectangle;    *)
(* the empty tree is an empty leaf.  Distances are squared, which orders   *)
(* them as math.hypot does.                                                *)
(***************************************************************************)
EXTENDS Integers, Sequences, SequencesExt, FiniteSets

CONSTANTS Key, Rid,
          Point,       \* Point.from_key: the coordinates of a key
          Order,       \* the entries a node may have
          RTreeBound   \* bound on the entries of the tree

VARIABLE tree  \* the root

-----------------------------------------------------------------------------
(* Rectangles (mbr.py): <<min x, min y, max x, max y>>.                     *)

Box(p) == <<p[1], p[2], p[1], p[2]>>
Low(a, b) == IF a < b THEN a ELSE b
High(a, b) == IF a < b THEN b ELSE a
Joined(a, b) == <<Low(a[1], b[1]), Low(a[2], b[2]), High(a[3], b[3]), High(a[4], b[4])>>
Area(b) == (b[3] - b[1]) * (b[4] - b[2])
Enlargement(a, b) == Area(Joined(a, b)) - Area(a)
Covers(b, p) == b[1] <= p[1] /\ p[1] <= b[3] /\ b[2] <= p[2] /\ p[2] <= b[4]
Intersects(a, b) == ~(b[3] < a[1] \/ b[1] > a[3] \/ b[4] < a[2] \/ b[2] > a[4])

\* euclidean_distance and euclidean_min_distance
DistanceTo(c, p) == (c[1] - p[1]) ^ 2 + (c[2] - p[2]) ^ 2
\* Mutant of LowerBound: the distance to a corner of the rectangle.
LowerBoundCorner(c, b) == DistanceTo(c, <<b[1], b[2]>>)
LowerBound(c, b) == High(High(b[1] - c[1], 0), c[1] - b[3]) ^ 2
                  + High(High(b[2] - c[2], 0), c[2] - b[4]) ^ 2

-----------------------------------------------------------------------------
(* Nodes (node.py): a leaf holds <<key, rid>> entries, an inner node nodes. *)

EntryBox(leaf, e) == IF leaf THEN Box(Point[e[1]]) ELSE e.mbr
BoxOf(leaf, es) ==
  IF es = <<>> THEN <<>>
  ELSE FoldLeft(LAMBDA b, e : Joined(b, EntryBox(leaf, e)), EntryBox(leaf, es[1]), es)
Node(leaf, es) == [leaf |-> leaf, entries |-> es, mbr |-> BoxOf(leaf, es)]
Empty == Node(TRUE, <<>>)

\* The node at the end of a path of child numbers, and the paths of a node,
\* which are shorter than a tree has entries.
At(node, path) == FoldLeft(LAMBDA n, i : n.entries[i], node, path)
Paths(node) ==
  LET Level[d \in 0 .. RTreeBound] ==
        IF d = 0 THEN {<<>>}
        ELSE UNION {{Append(p, i) : i \in DOMAIN At(node, p).entries} :
                      p \in {q \in Level[d - 1] : ~At(node, q).leaf}}
  IN UNION {Level[d] : d \in 0 .. RTreeBound}

\* The child whose rectangle grows least, then the smallest, then the first.
ChooseChild(node, p) ==
  LET Grows(i) == Enlargement(node.entries[i].mbr, Box(p))
      Size(i) == Area(node.entries[i].mbr)
      Better(i, j) == \/ Grows(i) < Grows(j)
                      \/ Grows(i) = Grows(j) /\ Size(i) < Size(j)
                      \/ Grows(i) = Grows(j) /\ Size(i) = Size(j) /\ i <= j
  IN CHOOSE i \in DOMAIN node.entries : \A j \in DOMAIN node.entries : Better(i, j)

\* The pair of entries whose union wastes most; the first such pair.
Wasted(a, b) == Area(Joined(a, b)) - Area(a) - Area(b)
Earlier(s, t) == s[1] < t[1] \/ (s[1] = t[1] /\ s[2] <= t[2])
FirstMost(waste) ==
  CHOOSE s \in DOMAIN waste : \A t \in DOMAIN waste :
    waste[s] > waste[t] \/ (waste[s] = waste[t] /\ Earlier(s, t))
PickSeeds(leaf, es) ==
  FirstMost([s \in {t \in (1 .. Len(es)) \X (1 .. Len(es)) : t[1] < t[2]} |->
               Wasted(EntryBox(leaf, es[s[1]]), EntryBox(leaf, es[s[2]]))])

MinEntries == High(1, Order \div 2)

\* The quadratic split: the entry that prefers one side most goes first, and
\* a side that needs all the rest to reach the minimum takes it.  An entry's
\* excess is by how much more it enlarges the left side than the right.
Excess(leaf, s) ==
  [i \in DOMAIN s.rest |-> Enlargement(BoxOf(leaf, s.left), EntryBox(leaf, s.rest[i]))
                           - Enlargement(BoxOf(leaf, s.right), EntryBox(leaf, s.rest[i]))]
Preferring(excess) ==
  LET Preference(i) == High(excess[i], -excess[i])
  IN CHOOSE i \in DOMAIN excess : \A j \in DOMAIN excess :
       Preference(i) > Preference(j) \/ (Preference(i) = Preference(j) /\ i <= j)
GoesLeft(leaf, s, x) ==
  x < 0 \/ (x = 0 /\ Area(BoxOf(leaf, s.left)) <= Area(BoxOf(leaf, s.right)))
Place(leaf, s, excess, i) ==
  IF GoesLeft(leaf, s, excess[i])
  THEN [s EXCEPT !.left = Append(@, s.rest[i]), !.rest = RemoveAt(@, i)]
  ELSE [s EXCEPT !.right = Append(@, s.rest[i]), !.rest = RemoveAt(@, i)]
PlacePreferring(leaf, s, excess) == Place(leaf, s, excess, Preferring(excess))

Distribute(leaf, start) ==
  LET Step(s, e) ==
        IF s.rest = <<>> THEN s
        ELSE IF Len(s.left) + Len(s.rest) = MinEntries
          THEN [s EXCEPT !.left = @ \o s.rest, !.rest = <<>>]
        ELSE IF Len(s.right) + Len(s.rest) = MinEntries
          THEN [s EXCEPT !.right = @ \o s.rest, !.rest = <<>>]
        ELSE PlacePreferring(leaf, s, Excess(leaf, s))
  IN FoldLeft(Step, start, start.rest)

Seeded(es, s) ==
  [left |-> <<es[s[1]]>>, right |-> <<es[s[2]]>>, rest |-> RemoveAt(RemoveAt(es, s[2]), s[1])]
Sides(leaf, s) == <<Node(leaf, s.left), Node(leaf, s.right)>>
Split(leaf, es) == Sides(leaf, Distribute(leaf, Seeded(es, PickSeeds(leaf, es))))

\* _insert_into: the node, and the one its split promotes, if any.
Fitted(leaf, es) == IF Len(es) > Order THEN Split(leaf, es) ELSE <<Node(leaf, es)>>
InsertInto(node, e) ==
  LET Into[p \in Paths(node)] ==
        LET n == At(node, p)
            i == ChooseChild(n, Point[e[1]])
            parts == Into[Append(p, i)]
        IN Fitted(n.leaf, IF n.leaf THEN Append(n.entries, e)
                          ELSE ReplaceAt(n.entries, i, parts[1]) \o Tail(parts))
  IN Into[<<>>]

\* _remove: empty nodes are pruned on the way up, and nothing is merged.
RemoveFrom(node, k, rids) ==
  LET Left[p \in Paths(node)] ==
        LET n == At(node, p)
            child(i) == IF Covers(n.entries[i].mbr, Point[k]) THEN Left[Append(p, i)] ELSE n.entries[i]
        IN IF n.leaf
           THEN Node(TRUE, SelectSeq(n.entries, LAMBDA e : ~(e[1] = k /\ e[2] \in rids)))
           ELSE Node(FALSE, SelectSeq([i \in DOMAIN n.entries |-> child(i)], LAMBDA c : c.entries # <<>>))
  IN Left[<<>>]

-----------------------------------------------------------------------------
(* Searches.                                                               *)

\* What a query visits, and what it takes of a leaf: the point of a key, the
\* points of a rectangle (iter_range_entries), those within a distance.
PointQuery(k) == [by |-> "point", at |-> Point[k]]
RangeQuery(box) == [by |-> "range", at |-> box]
RadiusQuery(c, r2) == [by |-> "radius", at |-> c, r2 |-> r2]
Visits(q, b) == CASE q.by = "point" -> Covers(b, q.at)
                  [] q.by = "range" -> Intersects(b, q.at)
                  [] q.by = "radius" -> LowerBound(q.at, b) <= q.r2
Takes(q, p) == CASE q.by = "point" -> p = q.at
                 [] q.by = "range" -> Covers(q.at, p)
                 [] q.by = "radius" -> DistanceTo(q.at, p) <= q.r2

Gather(q, node) ==
  LET Hits[p \in Paths(node)] ==
        LET n == At(node, p) IN
        IF n.leaf THEN SelectSeq(n.entries, LAMBDA e : Takes(q, Point[e[1]]))
        ELSE FlattenSeq([i \in DOMAIN n.entries |->
               IF Visits(q, n.entries[i].mbr) THEN Hits[Append(p, i)] ELSE <<>>])
  IN Hits[<<>>]

\* knn_hits: nodes are visited nearest bound first; with k hits in hand, a node
\* farther than the worst of them ends the search.  A rank orders the hits.
Rank(c, e) == <<DistanceTo(c, Point[e[1]]), Point[e[1]][1], Point[e[1]][2], e[2]>>
Less(a, b) == \E i \in DOMAIN a : a[i] < b[i] /\ \A j \in 1 .. i - 1 : a[j] = b[j]
Smallest(hits, k) == {h \in hits : Cardinality({g \in hits : Less(g, h)}) < k}
Worst(hits) == CHOOSE h \in hits : \A g \in hits : g = h \/ Less(g, h)

\* A node of the frontier is taken at every step, while there are any.
Nearest(c, k) ==
  LET Step(s, n) ==
        LET at == CHOOSE i \in DOMAIN s.frontier : \A j \in DOMAIN s.frontier :
                    LET a == LowerBound(c, s.frontier[i].mbr)
                        b == LowerBound(c, s.frontier[j].mbr) IN a < b \/ (a = b /\ i <= j)
            node == s.frontier[at]
            rest == RemoveAt(s.frontier, at)
            Near(b) == Cardinality(s.best) < k \/ LowerBound(c, b) <= Worst(s.best)[1]
        IN IF s.frontier = <<>> THEN s
           ELSE IF ~Near(node.mbr) THEN [s EXCEPT !.frontier = <<>>]
           ELSE IF node.leaf
             THEN [frontier |-> rest,
                   best |-> Smallest(s.best \cup {Rank(c, e) : e \in Range(node.entries)}, k)]
             ELSE [s EXCEPT !.frontier = rest \o SelectSeq(node.entries, LAMBDA m : Near(m.mbr))]
  IN IF tree = Empty THEN {}
     ELSE FoldLeft(Step, [frontier |-> <<tree>>, best |-> {}], SetToSeq(Paths(tree))).best

\* point_in_polygon: on an edge, or an odd number of edges to the right.
OnSegment(p, a, b) ==
  /\ (b[1] - a[1]) * (p[2] - a[2]) = (b[2] - a[2]) * (p[1] - a[1])
  /\ Covers(Joined(Box(a), Box(b)), p)
CrossesRay(p, a, b) ==
  /\ (a[2] > p[2]) # (b[2] > p[2])
  /\ LET left == (p[1] - a[1]) * (b[2] - a[2])
         right == (p[2] - a[2]) * (b[1] - a[1])
     IN IF b[2] > a[2] THEN left < right ELSE left > right
Edges(poly) == {<<poly[i], poly[(i % Len(poly)) + 1]>> : i \in DOMAIN poly}
InPolygon(p, poly) ==
  \/ \E s \in Edges(poly) : OnSegment(p, s[1], s[2])
  \/ Cardinality({s \in Edges(poly) : CrossesRay(p, s[1], s[2])}) % 2 = 1
Bounds(poly) == FoldLeft(LAMBDA b, v : Joined(b, Box(v)), Box(poly[1]), poly)
PolygonEntries(poly) ==
  SelectSeq(Gather(RangeQuery(Bounds(poly)), tree), LAMBDA e : InPolygon(Point[e[1]], poly))

-----------------------------------------------------------------------------
Under(node) == UNION {Range(At(node, p).entries) : p \in {q \in Paths(node) : At(node, q).leaf}}

\* RTreePageStore: the page of an inner node holds, with each child, the
\* rectangle the child has now, and loading refuses a page that disagrees.
Image(node) ==
  [p \in Paths(node) |->
     LET n == At(node, p)
     IN [leaf |-> n.leaf, entries |-> IF n.leaf THEN n.entries
                                      ELSE [i \in DOMAIN n.entries |-> n.entries[i].mbr]]]
LoadedAt(image) ==
  LET From[p \in DOMAIN image] ==
        Node(image[p].leaf, IF image[p].leaf THEN image[p].entries
                            ELSE [i \in DOMAIN image[p].entries |-> From[Append(p, i)]])
  IN From
Loaded(image) == LoadedAt(image)[<<>>]
Loadable(image) ==
  \A p \in DOMAIN image : ~image[p].leaf => \A i \in DOMAIN image[p].entries :
    LET child == LoadedAt(image)[Append(p, i)]
    IN child.entries # <<>> /\ child.mbr = image[p].entries[i]

RTreeInit == tree = Empty

Rooted(parts) == IF Len(parts) = 1 THEN parts[1] ELSE Node(FALSE, parts)
Inserted(k, r) == Rooted(InsertInto(tree, <<k, r>>))
InsertPoint(k, r) == tree' = Inserted(k, r)

RemovePoint(k, rids) ==
  LET left == RemoveFrom(tree, k, rids)
  IN tree' = IF left.entries = <<>> THEN Empty ELSE left

\* save and load
Reopen == Loadable(Image(tree)) /\ tree' = Loaded(Image(tree))

RTreeNext ==
  \/ \E k \in Key, r \in Rid : /\ <<k, r>> \notin Under(tree)
                               /\ Cardinality(Under(tree)) < RTreeBound
                               /\ InsertPoint(k, r)
  \/ \E k \in Key : RemovePoint(k, Rid) \/ \E r \in Rid : RemovePoint(k, {r})
  \/ Reopen

-----------------------------------------------------------------------------
\* Every rectangle is the least one around what is under it, no node but the
\* root is empty or overfull, and what is on disk can be loaded.
Tight(node) ==
  /\ Len(node.entries) <= Order
  /\ node.mbr = BoxOf(node.leaf, node.entries)
  /\ ~node.leaf => \A c \in Range(node.entries) : c.entries # <<>>

RTreeSound ==
  /\ \A p \in Paths(tree) : Tight(At(tree, p))
  /\ Loadable(Image(tree)) /\ Loaded(Image(tree)) = tree
  /\ \A k \in Key, r \in Rid : <<k, r>> \in Under(Inserted(k, r))
=============================================================================
