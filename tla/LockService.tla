---------------------------- MODULE LockService -----------------------------
(***************************************************************************)
(* What the lock manager promises, without its threads: a table of the     *)
(* mode each transaction holds on each resource.  A transaction obtains a  *)
(* mode in one step, only next to compatible holders, and never loses or   *)
(* weakens it except by its own release or by the reset of the service.    *)
(***************************************************************************)
EXTENDS LockModes

CONSTANTS Tx,       \* transactions
          Resource, \* lockable resources
          None      \* no lock is held: not a member of Mode

VARIABLE held       \* the mode each transaction holds on each resource

\* The mode t has after it is granted m on r.
Raised(t, r, m) == IF held[r][t] = None THEN m ELSE Stronger(held[r][t], m)

CanHold(t, r, m) ==
  \A other \in Tx \ {t} : \/ held[r][other] = None
                          \/ Compat(held[r][other], Raised(t, r, m))

ServiceInit == held = [r \in Resource |-> [t \in Tx |-> None]]

Obtain(t, r, m) ==
  /\ CanHold(t, r, m)
  /\ held' = [held EXCEPT ![r][t] = Raised(t, r, m)]

Drop(t, r) == held' = [held EXCEPT ![r][t] = None]

DropAll(t) == held' = [r \in Resource |-> [held[r] EXCEPT ![t] = None]]

Reset == held' = [r \in Resource |-> [t \in Tx |-> None]]

ServiceNext ==
  \/ \E t \in Tx, r \in Resource : (\E m \in Mode : Obtain(t, r, m)) \/ Drop(t, r)
  \/ \E t \in Tx : DropAll(t)
  \/ Reset

ServiceSpec == ServiceInit /\ [][ServiceNext]_held
=============================================================================
