------------------------------ MODULE BPlusTree ------------------------------
(***************************************************************************)
(* The B+ tree index (engine/indexes/bplus_tree.py, _bplus_page.py) over   *)
(* pages of a fixed size and keys of different lengths.  An insertion      *)
(* writes a leaf, perhaps splits it, and climbs: pending is the separator  *)
(* its caller has still to put in a parent.  A removal never merges nodes. *)
(***************************************************************************)
EXTENDS Naturals, Sequences, SequencesExt

CONSTANTS Key,       \* keys, as numbers in their order
          Rid,       \* record ids, as numbers in theirs
          KeySize,   \* the bytes of an encoded key
          Payload,   \* the bytes of a page after its header
          TreePages  \* bound on the pages of the file

VARIABLES pages,    \* the nodes, by page id (page 0 is the metadata)
          root,
          pending,  \* the separator to be inserted, if any
          failed    \* an insertion has given up after it had stored its entry

\* Page 0 holds the metadata, so it stands for _NONE_PAGE_ID and for no page.
None == 0
Idle == [parent |-> None, left |-> None, sep |-> None, right |-> None]

FirstLeaf == 1
LeafNode(parent, next, es) == [leaf |-> TRUE, parent |-> parent, next |-> next, entries |-> es]
InnerNode(parent, ks, cs)  == [leaf |-> FALSE, parent |-> parent, keys |-> ks, children |-> cs]

LeafFits(es) == FoldLeft(LAMBDA n, e : n + 12 + KeySize[e[1]], 0, es) <= Payload
InnerFits(ks) == FoldLeft(LAMBDA n, k : n + 8 + KeySize[k], 4, ks) <= Payload

Before(d, e) == d[1] < e[1] \/ (d[1] = e[1] /\ d[2] < e[2])

\* Mutant of ChildIndex: the search starts right of the separators that equal the key.
ChildIndexRight(ks, k, leftBias) == 1 + Len(SelectSeq(ks, LAMBDA s : s <= k))

\* The child a search descends into: bisect_left or bisect_right of the key.
ChildIndex(ks, k, leftBias) ==
  1 + Len(SelectSeq(ks, LAMBDA s : s < k \/ (s = k /\ ~leftBias)))

FindLeaf(k, leftBias) ==
  LET Down[p \in DOMAIN pages] ==
        IF pages[p].leaf THEN p
        ELSE Down[pages[p].children[ChildIndex(pages[p].keys, k, leftBias)]]
  IN Down[root]

\* The leaves from p on, and their entries.
Chain(p) ==
  LET From[q \in DOMAIN pages] ==
        IF pages[q].next = None THEN <<q>> ELSE <<q>> \o From[pages[q].next]
  IN From[p]
EntriesFrom(p) == LET chain == Chain(p) IN FlattenSeq([i \in DOMAIN chain |-> pages[chain[i]].entries])

\* search (lo = hi) and range_search: walk on until a larger key is met.
Walk(lo, hi) ==
  LET es == EntriesFrom(FindLeaf(lo, TRUE))
      beyond == {i \in DOMAIN es : es[i][1] > hi}
      seen == IF beyond = {} THEN es
              ELSE SubSeq(es, 1, (CHOOSE i \in beyond : \A j \in beyond : i <= j) - 1)
  IN IF lo > hi THEN <<>> ELSE SelectSeq(seen, LAMBDA e : e[1] >= lo)

\* The first valid cut, trying those nearest to the middle first.
Distance(n, c) == IF 2 * c > n THEN 2 * c - n ELSE n - 2 * c
Nearest(cuts, n) ==
  CHOOSE c \in cuts : \A d \in cuts :
    Distance(n, c) < Distance(n, d) \/ (Distance(n, c) = Distance(n, d) /\ c <= d)

LeafCuts(es) ==
  {c \in 1 .. Len(es) - 1 : LeafFits(SubSeq(es, 1, c)) /\ LeafFits(SubSeq(es, c + 1, Len(es)))}
\* Cut c leaves c keys on the left and promotes the next one.
InnerCuts(ks) ==
  {c \in 1 .. Len(ks) - 2 : InnerFits(SubSeq(ks, 1, c)) /\ InnerFits(SubSeq(ks, c + 2, Len(ks)))}

SplitAt(s, c) == <<SubSeq(s, 1, c), SubSeq(s, c + 1, Len(s))>>
NewPage == Len(pages) + 1

\* Mutant of Adopt: the children of a split node keep their old parent.
AdoptNone(ps, children, p) == ps

\* _update_children_parent
Adopt(ps, children, p) ==
  [q \in DOMAIN ps |-> IF q \in Range(children) THEN [ps[q] EXCEPT !.parent = p] ELSE ps[q]]

-----------------------------------------------------------------------------
TreeInit ==
  /\ pages = <<LeafNode(None, None, <<>>)>>
  /\ root = FirstLeaf
  /\ pending = Idle
  /\ failed = FALSE

Ready == pending = Idle
Sorted(es, e) == SortSeq(Append(es, e), Before)

InsertInLeaf(k, r) ==
  LET p == FindLeaf(k, FALSE)
      es == Sorted(pages[p].entries, <<k, r>>)
  IN /\ Ready
     /\ LeafFits(es)
     /\ pages' = [pages EXCEPT ![p].entries = es]
     /\ UNCHANGED <<root, pending, failed>>

SplitRootLeaf(k, r) ==
  LET es == Sorted(pages[root].entries, <<k, r>>)
      half == SplitAt(es, Nearest(LeafCuts(es), Len(es)))
  IN /\ Ready
     /\ pages[root].leaf /\ ~LeafFits(es) /\ LeafCuts(es) # {}
     /\ pages' = [pages EXCEPT ![root] = LeafNode(NewPage + 1, NewPage, half[1])] \o
                   <<LeafNode(NewPage + 1, pages[root].next, half[2]),
                     InnerNode(None, <<half[2][1][1]>>, <<root, NewPage>>)>>
     /\ root' = NewPage + 1
     /\ UNCHANGED <<pending, failed>>

SplitLeaf(k, r) ==
  LET p == FindLeaf(k, FALSE)
      old == pages[p]
      es == Sorted(old.entries, <<k, r>>)
      half == SplitAt(es, Nearest(LeafCuts(es), Len(es)))
  IN /\ Ready
     /\ p # root /\ ~LeafFits(es) /\ LeafCuts(es) # {}
     /\ pages' = Append([pages EXCEPT ![p] = LeafNode(old.parent, NewPage, half[1])],
                        LeafNode(old.parent, old.next, half[2]))
     /\ pending' = [parent |-> old.parent, left |-> p, sep |-> half[2][1][1], right |-> NewPage]
     /\ UNCHANGED <<root, failed>>

\* The parent of pending with the separator and the new child put in it.
Widened ==
  LET node == pages[pending.parent]
      at == CHOOSE i \in DOMAIN node.children : node.children[i] = pending.left
  IN [node EXCEPT !.keys = InsertAt(@, at, pending.sep),
                  !.children = InsertAt(@, at + 1, pending.right)]

InsertInParent ==
  /\ pending # Idle
  /\ InnerFits(Widened.keys)
  /\ pages' = [pages EXCEPT ![pending.parent] = Widened]
  /\ pending' = Idle
  /\ UNCHANGED <<root, failed>>

\* _split_internal and _split_root_internal: the two halves of the widened
\* node under parent up, the right one at page NewPage.
Halves(up) ==
  LET ks == Widened.keys
      cs == Widened.children
      c == Nearest(InnerCuts(ks), Len(ks) - 1)
      left == InnerNode(up, SubSeq(ks, 1, c), SubSeq(cs, 1, c + 1))
      right == InnerNode(up, SubSeq(ks, c + 2, Len(ks)), SubSeq(cs, c + 2, Len(cs)))
  IN [sep |-> ks[c + 1],
      pages |-> Adopt(Adopt(Append([pages EXCEPT ![pending.parent] = left], right),
                            left.children, pending.parent),
                      right.children, NewPage)]

Overfull == pending # Idle /\ ~InnerFits(Widened.keys)

SplitInternal ==
  /\ Overfull /\ InnerCuts(Widened.keys) # {}
  /\ pending.parent # root
  /\ LET up == Widened.parent
         halves == Halves(up)
     IN /\ pages' = halves.pages
        /\ pending' = [parent |-> up, left |-> pending.parent,
                       sep |-> halves.sep, right |-> NewPage]
  /\ UNCHANGED <<root, failed>>

SplitRootInternal ==
  /\ Overfull /\ InnerCuts(Widened.keys) # {}
  /\ pending.parent = root
  /\ LET halves == Halves(NewPage + 1)
     IN pages' = Append(halves.pages, InnerNode(None, <<halves.sep>>, <<root, NewPage>>))
  /\ root' = NewPage + 1
  /\ pending' = Idle
  /\ UNCHANGED failed

\* "B+ internal node cannot be split into valid pages": the insertion raises
\* with the leaf already split, and its right half, or the right half of an
\* inner node above it, left out of the tree; the leaves there are in the chain
\* only, and later insertions and removals work on what is left.
SplitImpossible ==
  /\ Overfull /\ InnerCuts(Widened.keys) = {}
  /\ pending' = Idle
  /\ failed' = TRUE
  /\ UNCHANGED <<pages, root>>

\* Mutant of StopsAt: a leaf without the key ends the removal.
StopsAtMissing(p, k, rids) ==
  (\E e \in Range(pages[p].entries) : e[1] > k) \/ {e \in Range(pages[p].entries) : e[1] = k} = {}
StopsAt(p, k, rids) ==
  \E e \in Range(pages[p].entries) : e[1] > k \/ (rids # Rid /\ e[1] = k /\ e[2] \in rids)

\* The pages after remove(key) or remove(key, rid): the leaves visited are those
\* up to the first that holds a larger key or, with a rid, the entry itself.
Without(k, rids) ==
  LET chain == Chain(FindLeaf(k, TRUE))
      stops == {i \in DOMAIN chain : StopsAt(chain[i], k, rids)}
      visited == {chain[i] : i \in {j \in DOMAIN chain : \A h \in stops : j <= h}}
  IN [p \in DOMAIN pages |->
        IF p \in visited
          THEN [pages[p] EXCEPT !.entries =
                  SelectSeq(@, LAMBDA e : ~(e[1] = k /\ e[2] \in rids))]
          ELSE pages[p]]

RemoveEntries(k, rids) ==
  /\ Ready
  /\ pages' = Without(k, rids)
  /\ UNCHANGED <<root, pending, failed>>

EntriesOf(ps) == UNION {Range(ps[p].entries) : p \in {q \in DOMAIN ps : ps[q].leaf}}
Stored == EntriesOf(pages)

TreeNext ==
  \/ \E k \in Key, r \in Rid :
       /\ <<k, r>> \notin Stored
       /\ Len(pages) + 4 <= TreePages
       /\ InsertInLeaf(k, r) \/ SplitRootLeaf(k, r) \/ SplitLeaf(k, r)
  \/ InsertInParent \/ SplitInternal \/ SplitRootInternal \/ SplitImpossible
  \/ \E k \in Key : \/ RemoveEntries(k, Rid)
                    \/ \E r \in Rid : RemoveEntries(k, {r})

-----------------------------------------------------------------------------
\* The keys of the leaves under p, which must lie between its separators.
KeysUnder ==
  LET Under[p \in DOMAIN pages] ==
        IF pages[p].leaf THEN {e[1] : e \in Range(pages[p].entries)}
        ELSE UNION {Under[c] : c \in Range(pages[p].children)}
  IN Under

LeavesUnder ==
  LET Under[p \in DOMAIN pages] ==
        IF pages[p].leaf THEN <<p>>
        ELSE FlattenSeq([i \in DOMAIN pages[p].children |-> Under[pages[p].children[i]]])
  IN Under

\* The entries of the leaves a descent from the root can lead to, and those
\* that neither it nor the insertion under way will find a place for.
EntriesUnder(p) == UNION {Range(pages[q].entries) : q \in Range(LeavesUnder[p])}
Reachable == EntriesUnder(root)
Lost == Stored \ (Reachable \cup IF pending = Idle THEN {} ELSE EntriesUnder(pending.right))

\* Every child knows its parent, and separators bound the keys on both sides.
NodesLinked ==
  /\ pages[root].parent = None
  /\ \A p \in DOMAIN pages : ~pages[p].leaf =>
       \A i \in DOMAIN pages[p].children :
         LET c == pages[p].children[i] IN
         /\ pages[c].parent = p
         /\ \A k \in KeysUnder[c] : /\ i > 1 => pages[p].keys[i - 1] <= k
                                    /\ i <= Len(pages[p].keys) => k <= pages[p].keys[i]

\* The chain passes every leaf once, those of the tree in the order of the tree;
\* until an insertion has failed, no others.
ChainSound ==
  LET chain == Chain(FirstLeaf)
      inTree == LeavesUnder[root]
  IN /\ Range(chain) = {p \in DOMAIN pages : pages[p].leaf} /\ IsInjective(chain)
     /\ SelectSeq(chain, LAMBDA p : p \in Range(inTree)) = inTree
     /\ ~failed => chain = inTree

\* Entries are in (key, rid) order in a leaf and every node fits its page.
\* Between two insertions nodes and chain are sound; until an insertion has
\* failed the chain is in key order.
TreeSound ==
  /\ \A p \in DOMAIN pages :
       IF pages[p].leaf
       THEN /\ LeafFits(pages[p].entries)
            /\ \A i \in 1 .. Len(pages[p].entries) - 1 : Before(pages[p].entries[i], pages[p].entries[i + 1])
       ELSE InnerFits(pages[p].keys)
  /\ Ready => NodesLinked /\ ChainSound
  /\ ~failed => LET es == EntriesFrom(FirstLeaf) IN \A i \in 1 .. Len(es) - 1 : es[i][1] <= es[i + 1][1]
=============================================================================
