------------------------------ MODULE Operators ------------------------------
(***************************************************************************)
(* The operators of a plan (engine/query/operators.py).  What an operator  *)
(* gives is a stream: whether open returns, the rows that next returns one *)
(* after the other, and whether it raises after the last of them.  The     *)
(* operator above pulls: what a Limit does not ask for is never evaluated. *)
(***************************************************************************)
EXTENDS Planner

Stream(rows, fails) == [opened |-> TRUE, rows |-> rows, fails |-> fails]
NotOpened == [opened |-> FALSE, rows |-> <<>>, fails |-> TRUE]

\* The rows before the first bad one; a bad row raises when it is reached.
Reached(s, Bad(_)) ==
  LET bad == {i \in DOMAIN s.rows : Bad(s.rows[i])}
  IN IF bad = {} THEN s
     ELSE [s EXCEPT !.rows = SubSeq(@, 1, (CHOOSE i \in bad : \A j \in bad : i <= j) - 1), !.fails = TRUE]

-----------------------------------------------------------------------------
(* The leaves.  A table is the sequence of its rows in scan order, an index *)
(* knows them by position; `order' is any order of the positions, the one   *)
(* in which the index meets its entries.                                    *)

\* Python orders numbers and booleans with one another and refuses the rest.
Comparable(l, r) == {Type(l), Type(r)} \subseteq {"int", "float", "bool"} \/ Type(l) = Type(r)
AsNumber(v) == IF Type(v) = "bool" THEN (IF v[2] THEN 1 ELSE 0) ELSE v[2]
KeyLess(l, r) == IF Type(l) = "point" THEN Less(l, r) ELSE AsNumber(l) < AsNumber(r)

\* ExtendibleHash.search: a key that is no INT or TEXT is refused, and one of
\* another type than the entries has another encoding.
HashSearch(keys, key, order) ==
  IF Type(key) \notin {"int", "text"} THEN NotOpened
  ELSE Stream(SelectSeq(order, LAMBDA i : keys[i] = key), FALSE)

\* BPlusTree.search and range_search: the entries in key order; a key that does
\* not compare with them raises, once there is one.
TreeRange(keys, lo, hi, order) ==
  IF ~Comparable(lo, hi) \/ lo = Null THEN NotOpened
  ELSE IF KeyLess(hi, lo) THEN Stream(<<>>, FALSE)
  ELSE IF \E i \in DOMAIN keys : ~Comparable(keys[i], lo) THEN NotOpened
  ELSE Stream(SortSeq(SelectSeq(order, LAMBDA i : ~KeyLess(keys[i], lo) /\ ~KeyLess(hi, keys[i])),
                      LAMBDA i, j : KeyLess(keys[i], keys[j])), FALSE)
TreeSearch(keys, key, order) ==
  IF keys = <<>> THEN Stream(<<>>, FALSE) ELSE TreeRange(keys, key, key, order)

\* SpatialKnnScan: the k nearest rows, if the index tells them apart: k of them,
\* none as near as the last one besides them, no two at one distance.  If not,
\* the scan.
KnnHits(keys, centre, k) ==
  LET D(i) == Distance(keys[i], centre, "euclidean")
      located == {i \in DOMAIN keys : keys[i] # Null}
  IN {i \in located : Cardinality({j \in located : D(j) < D(i)}) < k}
\* Mutant of KnnRows: ties of distance are not looked at.
KnnRowsTied(keys, centre, k, order) ==
  LET hits == KnnHits(keys, centre, k)
  IN IF Cardinality(hits) < k THEN [i \in DOMAIN keys |-> i]
     ELSE SubSeq(SelectSeq(order, LAMBDA i : i \in hits), 1, k)
KnnRows(keys, centre, k, order) ==
  LET hits == KnnHits(keys, centre, k)
      apart == \A i, j \in hits : i # j => Distance(keys[i], centre, "euclidean")
                                           # Distance(keys[j], centre, "euclidean")
  IN IF Cardinality(hits) # k \/ ~apart THEN [i \in DOMAIN keys |-> i]
     ELSE SelectSeq(order, LAMBDA i : i \in hits)

InBox(p, c, r) == p # Null /\ p[2] \in c[2] - r .. c[2] + r /\ p[3] \in c[3] - r .. c[3] + r

\* The positions a leaf reads; every leaf locks the table when it is opened.
Located(leaf, table, schema, order) ==
  LET keys == [i \in DOMAIN table |->
                 ColumnValue(IF leaf[1] \in {"IndexLookup", "IndexRangeScan"} THEN leaf[2][2] ELSE leaf[2],
                             table[i], schema)]
  IN CASE leaf[1] = "TableScan" -> Stream([i \in DOMAIN table |-> i], FALSE)
       [] leaf[1] = "IndexLookup" /\ leaf[2][1] = "HASH" -> HashSearch(keys, leaf[3], order)
       [] leaf[1] = "IndexLookup" /\ leaf[2][1] # "HASH" -> TreeSearch(keys, leaf[3], order)
       [] leaf[1] = "IndexRangeScan" -> TreeRange(keys, leaf[3], leaf[4], order)
       [] leaf[1] = "SpatialIndexScan" ->
            Stream(SelectSeq(order, LAMBDA i : InBox(keys[i], leaf[3], leaf[4])), FALSE)
       [] leaf[1] = "SpatialPolygonScan" ->
            Stream(SelectSeq(order, LAMBDA i : keys[i] # Null /\ <<keys[i], leaf[3]>> \in Inside), FALSE)
       [] leaf[1] = "SpatialKnnScan" -> Stream(KnnRows(keys, leaf[3], leaf[4], order), FALSE)

ReadLeaf(leaf, table, schema, order) ==
  LET found == Located(leaf, table, schema, SelectSeq(order, LAMBDA i : i \in DOMAIN table))
  IN [found EXCEPT !.rows = [i \in DOMAIN @ |-> table[@[i]]]]

-----------------------------------------------------------------------------
(* Operators over the stream of their child.                                *)

Filter(s, predicate, schema) ==
  LET good == Reached(s, LAMBDA row : Eval(predicate, row, schema) = Raised)
  IN [good EXCEPT !.rows = SelectSeq(@, LAMBDA row : Truthy(Eval(predicate, row, schema)))]

\* Values of one key are equal as Python's are.
SameKey(k, l) == \A i \in DOMAIN k : Same(k[i], l[i])

KeyOf(exprs, row, schema) == [i \in DOMAIN exprs |-> Eval(exprs[i], row, schema)]

\* The groups of rows in the order their keys are met; without GROUP BY there
\* is one, be it empty.
Grouped(rows, group, schema) ==
  LET Enter(groups, row) ==
        LET key == KeyOf(group, row, schema)
            at  == {i \in DOMAIN groups : SameKey(groups[i].key, key)}
        IN IF at = {} THEN Append(groups, [key |-> key, rows |-> <<row>>])
           ELSE [i \in DOMAIN groups |-> IF i \in at THEN [groups[i] EXCEPT !.rows = Append(@, row)]
                                         ELSE groups[i]]
  IN FoldLeft(Enter, IF group = <<>> THEN <<[key |-> <<>>, rows |-> <<>>]>> ELSE <<>>, rows)

\* _RunningAggregate: an aggregate built row by row, when groups are spilled.
Step(f, state, v) ==
  CASE v = Null -> state
    [] v = Raised \/ (f[2] \in {"SUM", "AVG"} /\ ~Numeric(v)) -> [state EXCEPT !.failed = TRUE]
    [] f[2] \in {"MIN", "MAX"} /\ state.count > 0 /\ Type(state.best) # Type(v) ->
         [state EXCEPT !.failed = TRUE]
    [] OTHER ->
         [state EXCEPT
            !.count = @ + 1,
            !.total = IF f[2] \in {"SUM", "AVG"}
                      THEN <<IF Type(v) = "float" THEN "float" ELSE @[1], @[2] + v[2]>> ELSE @,
            !.best = IF \/ state.count = 0
                        \/ f[2] = "MIN" /\ Less(v, @)
                        \/ f[2] = "MAX" /\ Less(@, v)
                     THEN v ELSE @]

Stepped(f, rows, schema) ==
  LET start == [count |-> 0, total |-> <<"int", 0>>, best |-> Null, failed |-> FALSE]
      V(row) == IF f[3] = Absent THEN (IF f[2] = "COUNT" THEN <<"int", 1>> ELSE Null)
                ELSE Eval(f[3], row, schema)
      end == FoldLeft(LAMBDA state, row : Step(f, state, V(row)), start, rows)
  IN CASE end.failed -> Raised
       [] f[2] = "COUNT" -> <<"int", end.count>>
       [] f[2] = "SUM" -> end.total
       [] end.count = 0 -> Raised
       [] f[2] = "AVG" -> <<"float", end.total[2] \div end.count>>
       [] OTHER -> end.best

Spillable(group, aggregates) == group # <<>> /\ \A i \in DOMAIN aggregates : ~aggregates[i][4]

\* The items of a sequence in another order of their positions.
Placed(items, order) ==
  LET there == SelectSeq(order, LAMBDA i : i \in DOMAIN items)
  IN [i \in DOMAIN there |-> items[there[i]]]

\* Aggregate: open drains the child.  With a memory limit the groups come from
\* external_hash_group_by when they are asked for, in an order of its own, and
\* their keys have to be INT or TEXT.
Aggregate(s, group, aggregates, schema, spill, order) ==
  LET spilled == spill /\ Spillable(group, aggregates)
      groups  == Grouped(s.rows, group, schema)
      Row(g)  == g.key \o [i \in DOMAIN aggregates |->
                   IF spilled THEN Stepped(aggregates[i], g.rows, schema)
                   ELSE Aggregated(aggregates[i], g.rows, schema)]
      rows    == [i \in DOMAIN groups |-> Row(groups[i])]
      keyless == \E i \in DOMAIN s.rows : Raised \in Range(KeyOf(group, s.rows[i], schema))
      unkeyed == \E i \in DOMAIN groups, n \in DOMAIN group :
                   Type(groups[i].key[n]) \notin {"int", "text"}
      output  == AggregateSchema(group, aggregates, schema)
  IN CASE ~s.opened -> NotOpened
       [] spilled -> IF s.fails \/ keyless \/ unkeyed THEN Stream(<<>>, TRUE)
                     ELSE Reached(Stream(Placed(rows, order), FALSE),
                                  LAMBDA row : Raised \in Range(row) \/ ~Encodes(row, output))
       [] OTHER -> IF s.fails \/ keyless \/ \E i \in DOMAIN rows : Raised \in Range(rows[i])
                   THEN NotOpened
                   ELSE Reached(Stream(rows, FALSE), LAMBDA row : ~Encodes(row, output))

\* Sort._compare_keys: the first sort key that differs decides.
Differing(order, k, l) == {i \in DOMAIN order : ~Same(k[i], l[i])}
Deciding(order, k, l) == CHOOSE i \in Differing(order, k, l) : \A j \in Differing(order, k, l) : i <= j
Before(order, k, l) ==
  /\ Differing(order, k, l) # {}
  /\ LET i == Deciding(order, k, l) IN IF order[i][2] THEN Less(k[i], l[i]) ELSE Less(l[i], k[i])
Incompatible(order, k, l) ==
  /\ Differing(order, k, l) # {}
  /\ LET i == Deciding(order, k, l) IN ~Mixes(k[i], l[i])

\* Mutant of SortRows: sort keys compared as if all were ascending.
SortRowsAscending(rows, order, schema) ==
  LET key(i) == KeyOf([j \in DOMAIN order |-> order[j][1]], rows[i], schema)
      up == [j \in DOMAIN order |-> <<order[j][1], TRUE>>]
      Rank(i) == 1 + Cardinality({j \in DOMAIN rows : \/ Before(up, key(j), key(i))
                                                      \/ j < i /\ ~Before(up, key(i), key(j))})
  IN [n \in DOMAIN rows |-> rows[CHOOSE i \in DOMAIN rows : Rank(i) = n]]
\* A stable sort: each row goes where those before it leave it.
SortRows(rows, order, schema) ==
  LET key(i) == KeyOf([j \in DOMAIN order |-> order[j][1]], rows[i], schema)
      Rank(i) == 1 + Cardinality({j \in DOMAIN rows : \/ Before(order, key(j), key(i))
                                                      \/ j < i /\ ~Before(order, key(i), key(j))})
  IN [n \in DOMAIN rows |-> rows[CHOOSE i \in DOMAIN rows : Rank(i) = n]]

\* Sort: open drains the child and sorts.  With a memory limit external_sort
\* does when the first row is asked for, and rows that tie have no order.
Sort(s, order, schema, spill, places) ==
  LET key(i) == KeyOf([j \in DOMAIN order |-> order[j][1]], s.rows[i], schema)
      failed == \/ s.fails
                \/ \E i \in DOMAIN s.rows : Raised \in Range(key(i))
                \/ \E i, j \in DOMAIN s.rows : Incompatible(order, key(i), key(j))
  IN CASE ~s.opened \/ (failed /\ ~spill) -> NotOpened
       [] failed /\ spill -> Stream(<<>>, TRUE)
       [] OTHER -> Stream(SortRows(IF spill THEN Placed(s.rows, places) ELSE s.rows, order, schema), FALSE)

Project(s, columns, schema) ==
  LET Row(row) == KeyOf([i \in DOMAIN columns |-> columns[i][1]], row, schema)
      good == Reached(s, LAMBDA row : Raised \in Range(Row(row))
                                      \/ ~Encodes(Row(row), ProjectSchema(columns, schema)))
  IN [good EXCEPT !.rows = [i \in DOMAIN good.rows |-> Row(good.rows[i])]]

Distinct(s) ==
  [s EXCEPT !.rows = FoldLeft(LAMBDA seen, row : IF row \in Range(seen) THEN seen ELSE Append(seen, row),
                              <<>>, @)]

\* Mutant of Limit: OFFSET counts against LIMIT.
LimitCountingOffset(s, limit) ==
  LET end == limit[1][2]
  IN [s EXCEPT !.rows = SubSeq(@, limit[2][2] + 1, IF end < Len(@) THEN end ELSE Len(@)),
               !.fails = @ /\ Len(s.rows) < end]
\* Limit skips OFFSET rows, gives LIMIT and stops pulling.
Limit(s, limit) ==
  LET end == limit[2][2] + limit[1][2]
  IN [s EXCEPT !.rows = SubSeq(@, limit[2][2] + 1, IF end < Len(@) THEN end ELSE Len(@)),
               !.fails = @ /\ Len(s.rows) < end]

\* The stream of an operator over that of its child.
Over(s, op, spill, order) ==
  CASE op[1] = "Filter" -> Filter(s, op[2], op[3])
    [] op[1] = "Aggregate" -> Aggregate(s, op[2], op[3], op[4], spill, order)
    [] op[1] = "Sort" -> Sort(s, op[2], op[3], spill, order)
    [] op[1] = "Project" -> Project(s, op[2], op[3])
    [] op[1] = "Distinct" -> Distinct(s)
    [] op[1] = "Limit" -> Limit(s, op[2])

Outcome(s) == LET good == s.opened /\ ~s.fails IN [raised |-> ~good, rows |-> IF good THEN s.rows ELSE <<>>]

\* _execute_select: the rows, or the error that open or next raises.
Execute(plan, table, schema, spill, order) ==
  Outcome(FoldLeft(LAMBDA s, op : Over(s, op, spill, order), ReadLeaf(plan[1], table, schema, order), Tail(plan)))
=============================================================================
