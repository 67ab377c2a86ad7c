------------------------------- MODULE Planner -------------------------------
(***************************************************************************)
(* The plan of a SELECT (engine/query/planner.py): the leaf that reads the *)
(* table, by an index when the clauses allow it, and the operators above   *)
(* it, in order.  A statement is a record                                  *)
(*   [columns, where, group, order, distinct, limit]                       *)
(* where a column is <<expression, alias>> and no columns ask for all, a   *)
(* sort key is <<expression, ascending>>, and a limit is <<LIMIT, OFFSET>> *)
(* or <<>>.  The indexes of the table are a sequence of <<type, column>>.  *)
(* A name is a tuple: <<"a">>, <<"COUNT", 1>> for the first aggregate of a *)
(* group, <<>> for no alias.                                               *)
(***************************************************************************)
EXTENDS Expressions

Refused == <<"refused">>   \* the planner raises

Literal(e) == e[1] = "lit"
NumberLiteral(e) == Literal(e) /\ Numeric(e[2])
Column(e) == e[1] = "col"
Names(schema) == {schema[i][1] : i \in DOMAIN schema}
ColumnType(schema, name) == schema[CHOOSE i \in DOMAIN schema : schema[i][1] = name][2]

RECURSIVE KnownColumns(_, _)
KnownColumns(e, schema) ==
  /\ Column(e) => e[2] \in Names(schema)
  /\ \A i \in DOMAIN Children(e) : KnownColumns(Children(e)[i], schema)

RECURSIVE Walk(_)
Walk(e) == (IF e[1] = "agg" THEN <<e>> ELSE <<>>)
           \o FlattenSeq([i \in DOMAIN Children(e) |-> Walk(Children(e)[i])])

\* The aggregates of the columns and the sort keys, each once.
CollectAggregates(stmt) ==
  LET found == FlattenSeq([i \in DOMAIN stmt.columns |-> Walk(stmt.columns[i][1])])
               \o FlattenSeq([i \in DOMAIN stmt.order |-> Walk(stmt.order[i][1])])
  IN FoldLeft(LAMBDA seen, f : IF f \in Range(seen) THEN seen ELSE Append(seen, f), <<>>, found)

\* An alias of the columns names its expression, the last one of that name,
\* and shadows a column of the table.
ResolveAlias(e, columns) ==
  LET named == {i \in DOMAIN columns : columns[i][2] # <<>> /\ e = <<"col", columns[i][2]>>}
  IN IF named = {} THEN e ELSE columns[CHOOSE i \in named : \A j \in named : j <= i][1]

\* An aggregate at the top of an expression is the column of Aggregate that
\* holds it; columns of Aggregate are named by position.
ResolveAggregate(e, aggregates) ==
  IF e \in Range(aggregates)
  THEN <<"col", <<e[2], CHOOSE i \in DOMAIN aggregates : aggregates[i] = e>> >>
  ELSE e

OrderBy(stmt, aggregates) ==
  [i \in DOMAIN stmt.order |->
     <<ResolveAggregate(ResolveAlias(stmt.order[i][1], stmt.columns), aggregates), stmt.order[i][2]>>]

-----------------------------------------------------------------------------
(* The leaf.                                                                *)

IsSpatial(index) == index[1] = "RTREE"
SupportsRange(index) == index[1] # "HASH"

On(indexes, column) == SelectSeq(indexes, LAMBDA i : i[2] = column)
FirstWith(indexes, Test(_)) == LET good == SelectSeq(indexes, Test) IN IF good = <<>> THEN <<>> ELSE good[1]

\* _index_for_column: a hash index for one key if there is one, else the
\* first; one that has an order for a range; never a spatial one.
IndexForColumn(indexes, column, point) ==
  LET scalar == SelectSeq(On(indexes, column), LAMBDA i : ~IsSpatial(i))
      hash   == FirstWith(scalar, LAMBDA i : ~SupportsRange(i))
  IN IF ~point THEN FirstWith(scalar, SupportsRange)
     ELSE IF hash # <<>> \/ scalar = <<>> THEN hash ELSE scalar[1]

HasSpatial(indexes, column) == FirstWith(On(indexes, column), IsSpatial) # <<>>

\* distance(<POINT column with an R-tree>, POINT(<numbers>)) in the plane.
PlanarDistance(e, schema, indexes) ==
  /\ e[1] = "distance" /\ e[4] = "euclidean"
  /\ Column(e[2]) /\ e[3][1] = "point" /\ NumberLiteral(e[3][2]) /\ NumberLiteral(e[3][3])
  /\ e[2][2] \in Names(schema) /\ ColumnType(schema, e[2][2]) = "point"
  /\ HasSpatial(indexes, e[2][2])

Centre(e) == <<"point", e[3][2][2][2], e[3][3][2][2]>>

LimitValue(stmt, i) == stmt.limit[i][2]

\* Mutant of KnnServes: rows that a WHERE would leave out are counted in k.
KnnServesFiltered(stmt, schema, indexes, order, grouped) ==
  /\ ~grouped /\ ~stmt.distinct
  /\ stmt.limit # <<>> /\ Len(order) = 1 /\ LimitValue(stmt, 1) > 0
  /\ LimitValue(stmt, 1) + LimitValue(stmt, 2) > 0
  /\ order[1][2] /\ PlanarDistance(order[1][1], schema, indexes)
\* _spatial_knn_scan: the k nearest rows answer the statement only if every
\* row of the table counts, each for itself, in that order alone.
KnnServes(stmt, schema, indexes, order, grouped) ==
  /\ stmt.where = Absent /\ ~grouped /\ ~stmt.distinct
  /\ stmt.limit # <<>> /\ Len(order) = 1 /\ LimitValue(stmt, 1) > 0
  /\ LimitValue(stmt, 1) + LimitValue(stmt, 2) > 0
  /\ order[1][2] /\ PlanarDistance(order[1][1], schema, indexes)

ScanOrKnn(stmt, schema, indexes, order, grouped) ==
  IF KnnServes(stmt, schema, indexes, order, grouped)
  THEN <<"SpatialKnnScan", order[1][1][2][2], Centre(order[1][1]), LimitValue(stmt, 1) + LimitValue(stmt, 2)>>
  ELSE <<"TableScan">>

\* _spatial_radius_scan: the circle is inside the box centre +- radius.
RadiusServes(w, schema, indexes) ==
  /\ w[1] = "cmp" /\ w[2] \in {"<", "<="} /\ PlanarDistance(w[3], schema, indexes)
  /\ NumberLiteral(w[4]) /\ w[4][2][2] >= 0

\* _spatial_polygon_scan: intersects(<POINT column>, POLYGON(...)), either way round.
PointColumn(e, schema) == Column(e) /\ e[2] \in Names(schema) /\ ColumnType(schema, e[2]) = "point"
PolygonServes(c, p, schema, indexes) == PointColumn(c, schema) /\ p[1] = "polygon" /\ HasSpatial(indexes, c[2])

\* _scan_or_index
Leaf(stmt, schema, indexes, order, grouped) ==
  LET w == stmt.where
      lookup == w[1] = "cmp" /\ w[2] = "=" /\ Column(w[3]) /\ Literal(w[4])
      range  == w[1] = "between" /\ Column(w[2]) /\ Literal(w[3]) /\ Literal(w[4])
      Index(e, point) == IndexForColumn(indexes, e[2], point)
  IN CASE lookup /\ Index(w[3], TRUE) # <<>> -> <<"IndexLookup", Index(w[3], TRUE), w[4][2]>>
       [] range /\ Index(w[2], FALSE) # <<>> -> <<"IndexRangeScan", Index(w[2], FALSE), w[3][2], w[4][2]>>
       [] RadiusServes(w, schema, indexes) ->
            <<"SpatialIndexScan", w[3][2][2], Centre(w[3]), w[4][2][2]>>
       [] w[1] = "intersects" /\ PolygonServes(w[2], w[3], schema, indexes) ->
            <<"SpatialPolygonScan", w[2][2], w[3]>>
       [] w[1] = "intersects" /\ PolygonServes(w[3], w[2], schema, indexes) ->
            <<"SpatialPolygonScan", w[3][2], w[2]>>
       [] OTHER -> ScanOrKnn(stmt, schema, indexes, order, grouped)

-----------------------------------------------------------------------------
(* Schemas: <<name, type>> of each column of an operator's output.          *)

\* _infer_type
TypeOf(e, schema) ==
  CASE Column(e) -> ColumnType(schema, e[2])
    [] Literal(e) -> IF Type(e[2]) \in {"bool", "int", "float"} THEN Type(e[2]) ELSE "text"
    [] e[1] \in {"cmp", "and", "or", "not", "between", "in", "like"} -> "bool"
    [] e[1] \in {"agg", "distance"} -> "float"
    [] e[1] = "point" -> "point"
    [] OTHER -> "text"

NameOf(e, other) == IF Column(e) THEN e[2] ELSE other

\* _aggregate_output_type
AggregateType(f, schema) ==
  CASE f[2] = "COUNT" -> "int"
    [] f[2] = "AVG" -> "float"
    [] f[3] # Absent /\ f[2] \in {"MIN", "MAX"} -> TypeOf(f[3], schema)
    [] f[3] # Absent /\ f[2] = "SUM" /\ TypeOf(f[3], schema) = "float" -> "float"
    [] OTHER -> "int"

AggregateSchema(group, aggregates, schema) ==
  [i \in DOMAIN group |-> <<NameOf(group[i], <<"group", i>>), TypeOf(group[i], schema)>>]
  \o [i \in DOMAIN aggregates |-> << <<aggregates[i][2], i>>, AggregateType(aggregates[i], schema)>>]

ProjectSchema(columns, schema) ==
  [i \in DOMAIN columns |->
     <<IF columns[i][2] # <<>> THEN columns[i][2] ELSE NameOf(columns[i][1], <<"column", i>>), TypeOf(columns[i][1], schema)>>]

\* _infer_type and _find_column know the columns they are asked for.
Typable(e, schema) == Column(e) => e[2] \in Names(schema)

-----------------------------------------------------------------------------
NotNull(e) == <<"cmp", ">=", e, <<"lit", <<"float", 0>> >> >>

Part(test, op) == IF test THEN <<op>> ELSE <<>>

\* _plan_select: the operators from the leaf up, each with its input schema
\* last.  A row without a distance is filtered before it is sorted by it.
PlanSelect(stmt, schema, indexes) ==
  LET aggregates == CollectAggregates(stmt)
      grouped    == stmt.group # <<>> \/ aggregates # <<>>
      order      == OrderBy(stmt, aggregates)
      distances  == SetToSeq({order[i][1] : i \in {j \in DOMAIN order : order[j][1][1] = "distance"}})
      inner      == IF grouped THEN AggregateSchema(stmt.group, aggregates, schema) ELSE schema
      columns    == [i \in DOMAIN stmt.columns |->
                       <<ResolveAggregate(stmt.columns[i][1], aggregates), stmt.columns[i][2]>>]
      outer      == IF columns = <<>> THEN inner ELSE ProjectSchema(columns, inner)
  IN IF \/ grouped /\ stmt.columns = <<>>
        \/ \E i \in DOMAIN stmt.limit : stmt.limit[i][1] # "int" \/ LimitValue(stmt, i) < 0
        \/ stmt.where # Absent /\ ~KnownColumns(stmt.where, schema)
        \/ grouped /\ \/ \E i \in DOMAIN stmt.group : ~Typable(stmt.group[i], schema)
                      \/ \E i \in DOMAIN aggregates : aggregates[i][3] # Absent /\ aggregates[i][2] \in {"MIN", "MAX", "SUM"}
                                                      /\ ~Typable(aggregates[i][3], schema)
        \/ \E i \in DOMAIN order : ~KnownColumns(order[i][1], inner)
        \/ \E i \in DOMAIN columns : ~Typable(columns[i][1], inner)
     THEN Refused
     ELSE << Leaf(stmt, schema, indexes, order, grouped) >>
          \o Part(stmt.where # Absent, <<"Filter", stmt.where, schema>>)
          \o [i \in DOMAIN distances |-> <<"Filter", NotNull(distances[i]), schema>>]
          \o Part(grouped, <<"Aggregate", stmt.group, aggregates, schema>>)
          \o Part(order # <<>>, <<"Sort", order, inner>>)
          \o Part(columns # <<>>, <<"Project", columns, inner>>)
          \o Part(stmt.distinct, <<"Distinct", outer>>)
          \o Part(stmt.limit # <<>>, <<"Limit", stmt.limit>>)
=============================================================================
