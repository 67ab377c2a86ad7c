-------------------------------- MODULE Query --------------------------------
(***************************************************************************)
(* Statements over one table: INSERT and DELETE, CREATE and DROP INDEX,    *)
(* and SELECT, planned and then executed (engine/query/planner.py, plan,   *)
(* and engine/query/executor.py, execute).  A statement runs alone: it has *)
(* the locks it needs, and one that fails is undone (see TxSession).       *)
(***************************************************************************)
EXTENDS Operators

CONSTANTS Columns,     \* the schema of the table
          Inserts,     \* the <<column names, values>> that INSERT is given
          Deletes,     \* the predicates that DELETE is given
          Selects,     \* the SELECT statements
          IndexTypes,  \* the <<type, column>> of CREATE INDEX
          Orders,      \* the orders in which an index or a spill meets the rows
          MaxRows, MaxIndexes  \* bounds; and no two indexes of one type on a column

VARIABLES table, indexes,
          select,   \* <<the SELECT at work, whether its operators spill>> or <<>>
          plan, result

NoResult == [raised |-> FALSE, rows |-> <<>>]
queryVars == <<table, indexes, select, plan, result>>

idle == select = <<>>
ended == select # <<>> /\ plan = <<>>

\* _indexes_for_column, _skip_index_key: every index of a column takes the
\* key, an R-tree but for NULL; a scalar index refuses what it cannot encode.
TakesKey(index, row) ==
  \/ IsSpatial(index)
  \/ Type(ColumnValue(index[2], row, Columns)) \in {"int", "text"}

\* _plan_insert and _execute_insert.  The file puts the row where it likes.
Insert ==
  \E given \in Inserts, at \in 1 .. Len(table) + 1 :
    LET names  == IF given[1] = <<>> THEN [i \in DOMAIN Columns |-> Columns[i][1]] ELSE given[1]
        row    == [i \in DOMAIN Columns |->
                     given[2][CHOOSE j \in DOMAIN names : names[j] = Columns[i][1]]]
    IN /\ idle /\ Len(table) < MaxRows
       /\ Len(names) = Len(Columns) /\ Range(names) = Names(Columns) /\ Len(given[2]) = Len(names)
       /\ Encodes(row, Columns)
       /\ \A i \in DOMAIN indexes : TakesKey(indexes[i], row)
       /\ table' = InsertAt(table, at, row)
       /\ UNCHANGED <<indexes, select, plan, result>>

\* _execute_delete: the rows are chosen before the first is removed.
Delete ==
  \E where \in Deletes :
    LET V(row) == IF where = Absent THEN Bool(TRUE) ELSE Eval(where, row, Columns)
    IN /\ idle /\ table # <<>> /\ (where # Absent => KnownColumns(where, Columns))
       /\ \A i \in DOMAIN table : V(table[i]) # Raised
       /\ table' = SelectSeq(table, LAMBDA row : ~Truthy(V(row)))
       /\ UNCHANGED <<indexes, select, plan, result>>

\* _plan_create_index, and the filling of the index with the rows there are.
CreateIndex ==
  \E index \in IndexTypes :
    /\ idle /\ Len(indexes) < MaxIndexes /\ index \notin Range(indexes)
    /\ index[2] \in Names(Columns) /\ (IsSpatial(index) => ColumnType(Columns, index[2]) = "point")
    /\ \A i \in DOMAIN table : TakesKey(index, table[i])
    /\ indexes' = Append(indexes, index)
    /\ UNCHANGED <<table, select, plan, result>>

DropIndex ==
  \E i \in DOMAIN indexes :
    /\ idle
    /\ indexes' = RemoveAt(indexes, i)
    /\ UNCHANGED <<table, select, plan, result>>

\* plan: a statement that is refused changes nothing.
PlanStatement ==
  \E stmt \in Selects, spill \in BOOLEAN :
    LET operators == PlanSelect(stmt, Columns, indexes)
    IN /\ idle
       /\ select' = <<stmt, spill /\ (stmt.group # <<>> \/ stmt.order # <<>>)>>
       /\ IF operators = Refused THEN plan' = <<>> /\ result' = [raised |-> TRUE, rows |-> <<>>]
          ELSE plan' = operators /\ result' = NoResult
       /\ UNCHANGED <<table, indexes>>

InOrder == [i \in 1 .. MaxRows |-> i]

\* execute: the index and the spilled rows or groups come in any order.
ExecutePlan ==
  \E order \in IF plan # <<>> /\ (plan[1][1] # "TableScan" \/ select[2]) THEN Orders ELSE {InOrder} :
    /\ plan # <<>>
    /\ result' = Execute(plan, table, Columns, select[2], order)
    /\ plan' = <<>>
    /\ UNCHANGED <<table, indexes, select>>

Answered ==
  /\ ended
  /\ select' = <<>> /\ result' = NoResult
  /\ UNCHANGED <<table, indexes, plan>>

QueryInit == table = <<>> /\ indexes = <<>> /\ select = <<>> /\ plan = <<>> /\ result = NoResult

QueryNext == \/ Insert \/ Delete \/ CreateIndex \/ DropIndex
             \/ PlanStatement \/ ExecutePlan \/ Answered

-----------------------------------------------------------------------------
(* What a SELECT means, without a plan.                                     *)

V(e, i) == Eval(e, table[i], Columns)
SumOver(f, S) == FoldSet(LAMBDA i, sum : sum + f[i], 0, S)

\* An aggregate over the rows at the positions S.
AggregateOf(f, S) ==
  LET known  == {i \in S : V(f[3], i) # Null}
      picked == IF f[4] THEN {i \in known : \A j \in known : V(f[3], j) = V(f[3], i) => i <= j} ELSE known
      sum    == SumOver([i \in picked |-> V(f[3], i)[2]], picked)
  IN CASE f[3] = Absent -> <<"int", Cardinality(S)>>
       [] f[2] = "COUNT" -> <<"int", Cardinality(picked)>>
       [] f[2] = "SUM" -> <<IF \E i \in picked : Type(V(f[3], i)) = "float" THEN "float" ELSE "int", sum>>
       [] f[2] = "AVG" -> <<"float", sum \div Cardinality(picked)>>
       [] f[2] = "MIN" -> CHOOSE v \in {V(f[3], i) : i \in picked} : \A i \in picked : ~Less(V(f[3], i), v)
       [] f[2] = "MAX" -> CHOOSE v \in {V(f[3], i) : i \in picked} : \A i \in picked : ~Less(v, V(f[3], i))

\* An output row stands for a set of rows: one row, or a group of them.
OfUnit(e, S) ==
  IF e[1] = "agg" THEN AggregateOf(e, S)
  ELSE Eval(e, IF S = {} THEN <<>> ELSE table[CHOOSE i \in S : TRUE], IF S = {} THEN <<>> ELSE Columns)

SortKey(stmt, S) == [n \in DOMAIN stmt.order |-> OfUnit(ResolveAlias(stmt.order[n][1], stmt.columns), S)]

Units(stmt) ==
  LET kept == {i \in DOMAIN table :
                 /\ stmt.where # Absent => Truthy(V(stmt.where, i))
                 /\ \A n \in DOMAIN stmt.order :
                      LET e == ResolveAlias(stmt.order[n][1], stmt.columns)
                      IN e[1] = "distance" => V(e, i) # Null}
      Key(i) == [n \in DOMAIN stmt.group |-> V(stmt.group[n], i)]
  IN IF stmt.group # <<>> THEN {{j \in kept : Key(j) = Key(i)} : i \in kept}
     ELSE IF CollectAggregates(stmt) # <<>> THEN {kept}
     ELSE {{i} : i \in kept}

OutputOf(stmt, S) ==
  IF stmt.columns = <<>> THEN table[CHOOSE i \in S : TRUE]
  ELSE [n \in DOMAIN stmt.columns |-> OfUnit(stmt.columns[n][1], S)]

Slice(rows, limit) ==
  IF limit = <<>> THEN rows
  ELSE LET from == limit[2][2]
           left == IF Len(rows) < from THEN 0 ELSE Len(rows) - from
       IN [i \in 1 .. (IF limit[1][2] < left THEN limit[1][2] ELSE left) |-> rows[from + i]]

\* Whatever plan, index and memory limit a SELECT runs with, what it answers is
\* what its clauses say: the rows that satisfy WHERE, or their groups, in an
\* order that ORDER BY allows, projected, each once if DISTINCT, from OFFSET on
\* and at most LIMIT of them.
AnswerMeant ==
  ended /\ ~result.raised =>
    LET stmt == select[1]
        Once(rows) == IF stmt.distinct
                      THEN FoldLeft(LAMBDA seen, r : IF r \in Range(seen) THEN seen ELSE Append(seen, r), <<>>, rows)
                      ELSE rows
        Sorted(units) == \A i, j \in DOMAIN units :
                           i < j => ~Before(stmt.order, SortKey(stmt, units[j]), SortKey(stmt, units[i]))
    IN \E units \in SetToSeqs(Units(stmt)) :
         /\ Sorted(units)
         /\ result.rows = Slice(Once([i \in DOMAIN units |-> OutputOf(stmt, units[i])]), stmt.limit)

\* The same statement by a scan of the table.
ScanResult ==
  LET scan == PlanSelect(select[1], Columns, <<>>)
  IN IF scan = Refused THEN [raised |-> TRUE, rows |-> <<>>]
     ELSE Execute(scan, table, Columns, select[2], InOrder)

\* An index never makes a statement fail that a scan would answer, and the
\* nearest rows by the index are those, in that order, of the sorted scan: also
\* with rows at one distance and rows without coordinates.
IndexNeutral ==
  ended =>
    /\ result.raised => ScanResult.raised
    /\ ~result.raised /\ ~select[2]
       /\ PlanSelect(select[1], Columns, indexes)[1][1] = "SpatialKnnScan" => result = ScanResult
=============================================================================
