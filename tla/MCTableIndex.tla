---------------------------- MODULE MCTableIndex ----------------------------
(***************************************************************************)
(* A model-checking instance of TableIndex.  In the tree 1 and 5 are short *)
(* keys and 2 a long one between them: with 48 bytes of payload a leaf     *)
(* holds two short entries or a long one, an inner node two short keys or  *)
(* a long one, so that splits of inner nodes fail on two levels.  In the   *)
(* hash 5 is the long key; the digests of 1 and 5 agree in their two low   *)
(* bits.  The points of 1 and 2 lie on one side of that of 5.  As a text,  *)
(* 1 matches, 2 matches with the score 0 in the built index, and 5 has no  *)
(* term of the query.                                                      *)
(***************************************************************************)
EXTENDS TableIndex

Size    == [k \in Key |-> IF k = 2 THEN 20 ELSE 9]
Bytes   == [k \in Key |-> IF k = 5 THEN 28 ELSE 17]
Itself  == [k \in Key |-> k]
Place   == [k \in Key |-> CASE k = 1 -> <<0, 0>> [] k = 2 -> <<2, 1>> [] k = 5 -> <<5, 4>>]
Built   == [k \in Key |-> CASE k = 1 -> 2 [] k = 2 -> 0 [] k = 5 -> NoMatch]
Delta   == [k \in Key |-> CASE k = 1 -> 3 [] k = 2 -> 1 [] k = 5 -> 0]
Asked   == [boxes |-> {<<0, 0, 2, 2>>, <<2, 1, 5, 4>>, <<3, 0, 4, 4>>},
            centres |-> {<<0, 0>>, <<3, 2>>, <<6, 5>>}, radii |-> {0, 5, 8}, most |-> 3,
            polygons |-> {<< <<0, 0>>, <<4, 0>>, <<2, 2>> >>, << <<1, 0>>, <<6, 4>>, <<0, 4>> >>}]
=============================================================================
