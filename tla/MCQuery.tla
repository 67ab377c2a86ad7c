------------------------------- MODULE MCQuery -------------------------------
(***************************************************************************)
(* Model-checking instances of Query: a table of an INT, a FLOAT, a TEXT   *)
(* and a POINT column, up to three rows, one or two indexes, and SELECTs   *)
(* of every clause and leaf.  Points are at whole distances of the origin; *)
(* two of them at one distance, and one in the box of radius 4 though at   *)
(* distance 5.  The haversine metric is any other one.  Beside them, the   *)
(* external sort and hash that Sort and Aggregate spill to, on records of  *)
(* their own: a behaviour does one of the three jobs.                      *)
(***************************************************************************)
EXTENDS Query, ExternalSort, ExternalHash

VARIABLE job

IntV(n) == <<"int", n>>
FloatV(n) == <<"float", n>>
TextV(n) == <<"text", n>>
Pt(x, y) == <<"point", x, y>>

Schema == << <<<<"a">>, "int">>, <<<<"f">>, "float">>, <<<<"t">>, "text">>, <<<<"p">>, "point">> >>

PlaneDistance(p, q, metric) ==
  LET dx == p[2] - q[2]
      dy == p[3] - q[3]
      Abs(n) == IF n < 0 THEN 0 - n ELSE n
  IN IF metric = "euclidean" THEN CHOOSE d \in 0 .. 20 : d * d = dx * dx + dy * dy ELSE Abs(dx) + Abs(dy)

Rows == { <<IntV(1), FloatV(1), TextV(1), Pt(0, 0)>>, <<IntV(2), FloatV(2), TextV(1), Pt(4, 3)>>,
          <<IntV(2), Null, TextV(2), Pt(3, 4)>>, <<Null, FloatV(1), TextV(2), Null>> }
Given == {<< <<>>, r>> : r \in Rows}

Col(name) == <<"col", <<name>> >>
Lit(v) == <<"lit", v>>
Cmp(l, op, r) == <<"cmp", op, l, r>>
Origin == <<"point", Lit(IntV(0)), Lit(IntV(0))>>
Far(metric) == <<"distance", Col("p"), Origin, metric>>
Square == <<"polygon", "square">>
InSquare == {<<Pt(0, 0), Square>>, <<Pt(3, 4), Square>>}
Like == {<<1, 1>>, <<1, 3>>, <<2, 2>>, <<2, 3>>}
Agg(name, arg) == <<"agg", name, arg, FALSE>>

All == <<>>
Plain(e) == <<e, <<>> >>
As(e, name) == <<e, <<name>> >>
Up(e) == <<e, TRUE>>
Down(e) == <<e, FALSE>>
Sel(columns, where, group, order, distinct, limit) ==
  [columns |-> columns, where |-> where, group |-> group, order |-> order,
   distinct |-> distinct, limit |-> limit]
Page(limit, offset) == <<IntV(limit), IntV(offset)>>

Filters == {Absent, Cmp(Col("a"), "=", Lit(IntV(2))), <<"between", Col("a"), Lit(IntV(1)), Lit(IntV(2))>>,
            <<"between", Col("a"), Lit(IntV(2)), Lit(IntV(1))>>,
            Cmp(Far("euclidean"), "<", Lit(IntV(5))), Cmp(Far("euclidean"), "<=", Lit(IntV(5))),
            Cmp(Far("euclidean"), "<", Lit(IntV(4))), Cmp(Far("haversine"), "<", Lit(IntV(8))),
            Cmp(Far("euclidean"), ">", Lit(IntV(4))), <<"intersects", Col("p"), Square>>,
            <<"not", Cmp(Col("a"), "=", Lit(IntV(1)))>>,
            <<"or", Cmp(Col("f"), "=", Lit(IntV(2))), <<"like", Col("t"), Lit(TextV(2))>> >>,
            <<"and", <<"in", Col("t"), <<Lit(TextV(1)), Lit(TextV(2))>> >>, Cmp(Col("f"), ">=", Lit(Null))>>}
Served == {Sel(All, w, <<>>, <<>>, FALSE, <<>>) : w \in Filters}
Near(columns, e, distinct, limit) == Sel(columns, Absent, <<>>, <<e>>, distinct, limit)
Nearest == {Near(All, Up(Far("euclidean")), FALSE, l) : l \in {<<>>, Page(1, 0), Page(1, 1), Page(2, 0), Page(0, 1)}}
           \cup {Near(<<As(Far("euclidean"), "d"), Plain(Col("t"))>>, e, FALSE, Page(1, 0)) :
                   e \in {Up(Col("d")), Down(Col("d")), Up(Far("haversine"))}}
           \cup {Near(<<Plain(Col("t"))>>, Up(Far("euclidean")), TRUE, Page(2, 0)),
                 Sel(All, Cmp(Col("a"), "<>", Lit(IntV(1))), <<>>, <<Up(Far("euclidean"))>>, FALSE, Page(1, 0)),
                 Near(<<As(Far("euclidean"), "a")>>, Up(Col("a")), FALSE, Page(2, 0))}
Ordered == {Sel(All, Absent, <<>>, <<Down(Col("f")), Up(Col("a"))>>, FALSE, <<>>),
            Sel(<<Plain(Col("t"))>>, Absent, <<>>, <<Up(Col("t")), Down(Col("a"))>>, TRUE, Page(1, 1)),
            Sel(<<Plain(Col("f"))>>, Cmp(Col("a"), "=", Lit(IntV(2))), <<>>, <<Up(Col("t"))>>, FALSE, Page(0, 0)),
            Sel(<<As(Col("t"), "a")>>, Absent, <<>>, <<Up(Col("a"))>>, FALSE, <<>>),
            Sel(<<Plain(<<"intersects", Col("p"), Square>>)>>, Absent, <<>>, <<>>, FALSE, Page(0, 0)),
            Sel(All, Absent, <<>>, <<Up(Col("none"))>>, FALSE, <<>>), Sel(All, Absent, <<>>, <<>>, FALSE, Page(-1, 0))}
Counts == {Agg("COUNT", Absent), Agg("COUNT", Col("f")), <<"agg", "COUNT", Col("t"), TRUE>>, Agg("SUM", Col("a")),
           Agg("SUM", Col("f")), Agg("AVG", Col("f")), Agg("MIN", Col("t")), Agg("MAX", Col("a"))}
Groups == {Sel(<<Plain(f)>>, Absent, <<>>, <<>>, FALSE, <<>>) : f \in Counts}
          \cup {Sel(<<Plain(Col("t")), Plain(f)>>, Absent, <<Col("t")>>, <<Down(f), Up(Col("t"))>>, FALSE, <<>>) : f \in Counts}
          \cup {Sel(<<Plain(Agg("SUM", Col("a")))>>, Cmp(Col("a"), "=", Lit(IntV(2))), <<Col("t")>>, <<>>, FALSE, <<>>),
                Sel(<<Plain(Agg("COUNT", Absent))>>, Absent, <<Col("a"), Col("t")>>, <<>>, FALSE, <<>>),
                Sel(All, Absent, <<Col("t")>>, <<>>, FALSE, <<>>)}
Statements == Served \cup Nearest \cup Ordered \cup Groups
Removed == {Absent, Cmp(Far("euclidean"), "<", Lit(IntV(5))), <<"not", Cmp(Col("t"), "=", Lit(TextV(1)))>>}
\* Every two positions in either order.
Meetings == {<<1, 2, 3>>, <<3, 2, 1>>, <<2, 3, 1>>}
Indexed == {<<"HASH", <<"a">> >>, <<"BTREE", <<"a">> >>, <<"RTREE", <<"p">> >>, <<"RTREE", <<"a">> >>}

-----------------------------------------------------------------------------
\* Records of one unit, or three; memory for two; up to seven records, and
\* sorted runs of which some are empty: of six runs, the third merged one is
\* passed on to the next pass.
Records(keys) == [i \in DOMAIN keys |-> <<keys[i], IF keys[i] = 3 THEN 3 ELSE 1, i>>]
Keys == UNION {[1 .. n -> {1, 2}] : n \in 0 .. 4}
Unsorted == {Records(k) : k \in Keys \cup {<<2, 3, 1, 1, 2>>, <<3, 2, 3>>, <<2, 1, 2, 1, 2, 1, 2>>}}
SortedRuns == {<< <<>>, Records(<<1, 2>>) >>,
               << << <<1, 1, 1>> >>, << <<2, 1, 2>> >>, << <<1, 1, 3>>, <<1, 1, 4>> >>, <<>>, << <<0, 1, 5>> >> >>,
               [n \in 1 .. 6 |-> << <<7 - n, 1, n>> >>]}

\* Sides share keys 1 and 2, whose hashes agree at every level.
Offset(records, n) == [i \in DOMAIN records |-> <<records[i][1], records[i][2], records[i][3] + n>>]
Both == {<<Records(l), Offset(Records(r), 10)>> :
           l \in Keys \cup {<<2, 3, 0, 1>>}, r \in {<<>>, <<1>>, <<0, 1, 1>>, <<2, 2, 1, 2>>, <<3, 1, 0>>}}
Hashed == [level \in 0 .. 3 |-> [k \in 0 .. 3 |-> IF k \in {1, 2} THEN 0 ELSE (k \div (level + 1)) % 2]]

NoWork == /\ table = <<>> /\ indexes = <<>> /\ select = <<>> /\ plan = <<>> /\ result = NoResult
NoSort == /\ given = <<>> /\ rest = <<>> /\ chunk = <<>> /\ disk = <<>> /\ runs = <<>>
          /\ pass = 0 /\ outputs = <<>> /\ merging = NoMerge
NoHash == /\ joining = FALSE /\ sides = <<>> /\ tasks = <<>> /\ block = <<>> /\ groups = <<>> /\ pairs = <<>>

MCInit == \/ job = "query" /\ QueryInit /\ NoSort /\ NoHash
          \/ job = "sort" /\ NoWork /\ SortInit /\ NoHash
          \/ job = "hash" /\ NoWork /\ NoSort /\ HashInit
QueryStep == QueryNext /\ UNCHANGED <<job, sortVars, hashVars>>
SortStep  == SortNext /\ UNCHANGED <<job, queryVars, hashVars>>
HashStep  == HashNext /\ UNCHANGED <<job, queryVars, sortVars>>
MCNext == \/ job = "query" /\ QueryStep
          \/ job = "sort" /\ SortStep
          \/ job = "hash" /\ HashStep
QuerySpec == MCInit /\ [][MCNext]_<<job, queryVars, sortVars, hashVars>>

SpillExact == (job = "sort" => SortExact) /\ (job = "hash" => HashExact)
=============================================================================
