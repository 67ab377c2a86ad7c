---------------------------- MODULE MCStrict2PL -----------------------------
(***************************************************************************)
(* Model-checking instances of Strict2PL, and the properties of its        *)
(* deadlock detection and of the end of acquire.                           *)
(***************************************************************************)
EXTENDS Strict2PL, TLC

Symmetric == Permutations(Tx) \cup Permutations(Resource)

\* t is on a cycle of edges: every set that contains the targets of t's edges
\* and is closed under edges contains t.
OnCycle(edges, t) ==
  \A S \in SUBSET Tx :
    (\A a \in S \cup {t}, b \in Tx : <<a, b>> \in edges => b \in S) => t \in S

\* The transactions inside acquire that another one keeps from its resource.
Blocks ==
  {e \in Tx \X Tx :
     LET t == e[1]  h == e[2]  r == req[t].res
     IN /\ t # h
        /\ pc[t] # "idle"
        /\ h \in Holders(r)
        /\ ~ Compat(grants[r][h].mode, Granted(t, r, req[t].mode).mode)}

\* An acquire ends once its deadline is reached, whatever the others do.
AcquireEnds == \A t \in Tx : due[t] ~> pc[t] = "idle"

\* A deadlock does not last, however far the deadlines are: one of the
\* transactions that block each other finds the cycle (or fails) and leaves.
DeadlockBroken == \A t \in Tx : OnCycle(Blocks, t) ~> ~ OnCycle(Blocks, t)
=============================================================================
