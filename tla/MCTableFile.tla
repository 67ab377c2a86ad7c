---------------------------- MODULE MCTableFile -----------------------------
(***************************************************************************)
(* A model-checking instance of TableFile: pages of five units, one for    *)
(* the header and one for each slot, and records of one or two units.      *)
(***************************************************************************)
EXTENDS TableFile

KeyOf  == [v \in Val |-> v]
SizeOf == [v \in Val |-> IF v = 2 THEN 1 ELSE 2]
=============================================================================
