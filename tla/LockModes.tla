----------------------------- MODULE LockModes ------------------------------
(***************************************************************************)
(* The lock modes of SoupDB and their compatibility matrix                 *)
(* (engine/transactions/strategies/strict_2pl.py).                         *)
(***************************************************************************)
EXTENDS Naturals

\* LockMode: SHARED, UPDATE, EXCLUSIVE.
Mode == {"S", "U", "X"}

\* _LOCK_PRIORITY
Priority == [m \in Mode |-> CASE m = "S" -> 0 [] m = "U" -> 1 [] m = "X" -> 2]

\* _COMPAT: the (held, requested) pairs the matrix marks True.
Compat(held, requested) ==
  <<held, requested>> \in {<<"S", "S">>, <<"S", "U">>, <<"U", "S">>}

\* _stronger
Stronger(held, requested) ==
  IF Priority[requested] > Priority[held] THEN requested ELSE held
=============================================================================
