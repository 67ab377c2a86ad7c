----------------------------- MODULE Expressions -----------------------------
(***************************************************************************)
(* The values of a row and the evaluation of an expression over it         *)
(* (engine/query/evaluator.py), with the encoding of a value in a column   *)
(* (engine/common/record.py).  A value is <<type, content>>, an expression *)
(* is <<kind, parts...>>.  Evaluation is strict: a part that raises makes  *)
(* the whole raise.                                                        *)
(***************************************************************************)
EXTENDS Integers, Sequences, SequencesExt, FiniteSets

CONSTANTS IntLimit,         \* INT columns hold -IntLimit .. IntLimit - 1 (2^31)
          Distance(_, _, _), \* of two points in a metric
          Matches,          \* the <<text, pattern>> pairs that LIKE matches
          Inside            \* the <<point, polygon>> pairs of point_in_polygon

Null   == <<"null">>
Raised == <<"raised">>   \* the outcome of an evaluation that raises
Absent == <<"absent">>   \* no expression: COUNT(*), a SELECT without WHERE

Bool(b) == <<"bool", b>>
Type(v) == v[1]
Numeric(v) == Type(v) \in {"int", "float"}

\* _require_same_type: an INT and a FLOAT mix, nothing else does.
Mixes(l, r) == Type(l) = Type(r) \/ (Numeric(l) /\ Numeric(r))

Less(l, r) == CASE Type(l) = "bool" -> ~l[2] /\ r[2]
                [] Type(l) = "point" -> l[2] < r[2] \/ (l[2] = r[2] /\ l[3] < r[3])
                [] OTHER -> l[2] < r[2]
Same(l, r) == IF Numeric(l) /\ Numeric(r) THEN l[2] = r[2] ELSE l = r

\* A comparison with NULL is FALSE, not unknown: NOT turns it into TRUE.
Compare(l, op, r) ==
  IF l = Null \/ r = Null THEN Bool(FALSE)
  ELSE IF ~Mixes(l, r) THEN Raised
  ELSE Bool(CASE op = "=" -> Same(l, r)
              [] op = "<>" -> ~Same(l, r)
              [] op = "<" -> Less(l, r)
              [] op = "<=" -> ~Less(r, l)
              [] op = ">" -> Less(r, l)
              [] op = ">=" -> ~Less(l, r))

\* The value of the first column of that name.
ColumnValue(name, row, schema) ==
  LET at == {i \in DOMAIN schema : schema[i][1] = name}
  IN IF at = {} THEN Raised ELSE row[CHOOSE i \in at : \A j \in at : i <= j]

\* The expressions an expression is made of (_expr_children).
Children(e) ==
  CASE e[1] = "cmp" -> <<e[3], e[4]>>
    [] e[1] \in {"and", "or", "distance", "intersects", "point", "like"} -> <<e[2], e[3]>>
    [] e[1] = "not" -> <<e[2]>>
    [] e[1] = "between" -> <<e[2], e[3], e[4]>>
    [] e[1] = "in" -> <<e[2]>> \o e[3]
    [] e[1] = "agg" -> IF e[3] = Absent THEN <<>> ELSE <<e[3]>>
    [] OTHER -> <<>>

\* An operation on the values v of its parts, all of which are evaluated first.
\* BETWEEN and IN refuse to mix NULL with a value.
Apply(e, v) ==
  CASE e[1] = "cmp" -> Compare(v[1], e[2], v[2])
    [] e[1] \in {"and", "or", "not"} ->
         IF \E i \in DOMAIN v : Type(v[i]) # "bool" THEN Raised
         ELSE Bool(CASE e[1] = "and" -> v[1][2] /\ v[2][2]
                     [] e[1] = "or" -> v[1][2] \/ v[2][2]
                     [] e[1] = "not" -> ~v[1][2])
    [] e[1] = "between" ->
         IF v[1] = Null \/ ~Mixes(v[1], v[2]) \/ ~Mixes(v[1], v[3]) THEN Raised
         ELSE Bool(~Less(v[1], v[2]) /\ ~Less(v[3], v[1]))
    [] e[1] = "in" -> IF \E i \in 2 .. Len(v) : ~Mixes(v[1], v[i]) THEN Raised
                      ELSE Bool(\E i \in 2 .. Len(v) : Same(v[1], v[i]))
    [] e[1] = "like" -> IF Type(v[1]) # "text" \/ Type(v[2]) # "text" THEN Raised
                        ELSE Bool(<<v[1][2], v[2][2]>> \in Matches)
    [] e[1] = "point" -> IF ~Numeric(v[1]) \/ ~Numeric(v[2]) THEN Raised
                         ELSE <<"point", v[1][2], v[2][2]>>
    [] e[1] = "distance" ->
         IF v[1] = Null \/ v[2] = Null THEN Null
         ELSE IF Type(v[1]) # "point" \/ Type(v[2]) # "point" THEN Raised
         ELSE <<"float", Distance(v[1], v[2], e[4])>>
    [] e[1] = "intersects" ->
         IF {Type(v[1]), Type(v[2])} # {"point", "polygon"} THEN Raised
         ELSE Bool(IF Type(v[1]) = "point" THEN <<v[1], v[2]>> \in Inside ELSE <<v[2], v[1]>> \in Inside)
    [] OTHER -> Raised   \* an aggregate is no scalar expression

Strict(e, v) == IF Raised \in Range(v) THEN Raised ELSE Apply(e, v)

RECURSIVE Eval(_, _, _)
Eval(e, row, schema) ==
  CASE e[1] = "lit" -> e[2]
    [] e[1] = "polygon" -> e
    [] e[1] = "col" -> ColumnValue(e[2], row, schema)
    [] OTHER -> Strict(e, [i \in DOMAIN Children(e) |-> Eval(Children(e)[i], row, schema)])

\* What Filter and DELETE take as true.
Truthy(v) == v \notin {Null, Raised, Bool(FALSE), <<"int", 0>>, <<"float", 0>>}

-----------------------------------------------------------------------------
(* Aggregates: <<"agg", name, argument, distinct>>.                         *)

Total(vs) == FoldLeft(LAMBDA sum, v : sum + v[2], 0, vs)
SumOf(vs) == <<IF \E i \in DOMAIN vs : Type(vs[i]) = "float" THEN "float" ELSE "int", Total(vs)>>
\* The mean, as its whole part.
Mean(vs) == <<"float", Total(vs) \div Len(vs)>>
Extreme(name, vs) ==
  vs[CHOOSE i \in DOMAIN vs : \A j \in DOMAIN vs :
       IF name = "MIN" THEN ~Less(vs[j], vs[i]) ELSE ~Less(vs[i], vs[j])]

\* An aggregate of the values that are not NULL.
Folded(f, vs) ==
  LET numbers == \A i \in DOMAIN vs : Numeric(vs[i])
  IN CASE f[2] = "COUNT" -> <<"int", Len(vs)>>
       [] f[2] = "SUM" -> IF numbers THEN SumOf(vs) ELSE Raised
       [] f[2] = "AVG" -> IF numbers /\ vs # <<>> THEN Mean(vs) ELSE Raised
       [] OTHER -> IF vs = <<>> \/ \E i \in DOMAIN vs : ~Mixes(vs[1], vs[i]) THEN Raised
                   ELSE Extreme(f[2], vs)

Known(f, values) ==
  LET known == SelectSeq(values, LAMBDA v : v # Null)
  IN IF f[4] THEN SetToSeq(Range(known)) ELSE known

OfValues(f, values) == IF Raised \in Range(values) THEN Raised ELSE Folded(f, Known(f, values))

\* evaluate_aggregate: NULLs are left out, DISTINCT leaves duplicates out.
Aggregated(f, rows, schema) ==
  IF f[3] = Absent THEN (IF f[2] = "COUNT" THEN <<"int", Len(rows)>> ELSE Raised)
  ELSE OfValues(f, [i \in DOMAIN rows |-> Eval(f[3], rows[i], schema)])

-----------------------------------------------------------------------------
(* encode_row: whether the columns of a schema hold the values of a row.    *)

Encodes(row, schema) ==
  \A i \in DOMAIN schema :
    \/ row[i] = Null
    \/ Type(row[i]) = schema[i][2] /\ (Type(row[i]) = "int" => row[i][2] \in -IntLimit .. IntLimit - 1)
=============================================================================
