---------------------------- MODULE MCTxSession -----------------------------
(***************************************************************************)
(* Model-checking instances of TxSession.                                  *)
(***************************************************************************)
EXTENDS TxSession, TLC

OneRow == 2 :> (CHOOSE v \in Val : TRUE)
Rids   == 1..5
NoRows == <<>>
Few    == 1..3

\* Sessions are interchangeable.
Symmetric == Permutations(Session)
=============================================================================
