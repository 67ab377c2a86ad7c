----------------------------- MODULE AtomicTable ----------------------------
(***************************************************************************)
(* What transactions promise about the rows of a table: the committed      *)
(* rows change only when a transaction commits, and then by exactly the    *)
(* net effect of that transaction; one that is being aborted never         *)
(* commits, and is over only when nothing of it is left.  Rows are counted *)
(* per value.                                                              *)
(***************************************************************************)
EXTENDS Integers

CONSTANTS Session, Val

VARIABLES committed, \* how many committed rows hold each value
          delta,     \* the net effect of each open transaction, per value
          aborting   \* whether it is being rolled back

tableVars == <<committed, delta, aborting>>

NoChange == [v \in Val |-> 0]

TableInit ==
  /\ committed \in [Val -> Nat]
  /\ delta = [s \in Session |-> NoChange]
  /\ aborting = [s \in Session |-> FALSE]

\* A transaction inserts or deletes a row, or takes such a change back.
Write(s, v, by) ==
  /\ delta' = [delta EXCEPT ![s][v] = delta[s][v] + by]
  /\ UNCHANGED <<committed, aborting>>

Commit(s) ==
  /\ ~ aborting[s]
  /\ committed' = [v \in Val |-> committed[v] + delta[s][v]]
  /\ delta' = [delta EXCEPT ![s] = NoChange]
  /\ UNCHANGED aborting

Abort(s) ==
  /\ ~ aborting[s]
  /\ aborting' = [aborting EXCEPT ![s] = TRUE]
  /\ UNCHANGED <<committed, delta>>

Aborted(s) ==
  /\ aborting[s] /\ delta[s] = NoChange
  /\ aborting' = [aborting EXCEPT ![s] = FALSE]
  /\ UNCHANGED <<committed, delta>>

TableNext ==
  \E s \in Session : \/ \E v \in Val, by \in {-1, 1} : Write(s, v, by)
                     \/ Commit(s) \/ Abort(s) \/ Aborted(s)

TableSpec == TableInit /\ [][TableNext]_tableVars
=============================================================================
