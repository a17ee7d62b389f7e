----------------------------- MODULE NestedIrq -----------------------------
(***************************************************************************)
(* What the VIC promises about interrupt nesting: the priority levels in   *)
(* service form a stack.  A request enters service only at a level more    *)
(* urgent (a smaller number) than every level in service, only the most    *)
(* urgent level is ever released, and while a level is in service the      *)
(* request recorded for it does not change.                                *)
(***************************************************************************)
EXTENDS Integers

CONSTANTS Irqs, NPrio

VARIABLE active        \* the request in service at each level in service

NPrios == 0 .. NPrio - 1

NInit == active = [p \in {} |-> 0]

Innermost(D, p) == p \in D /\ \A r \in D : p <= r

\* active without the levels outside D, with q at level p.
Pushed(D, p, q) == [r \in D \cup {p} |-> IF r = p THEN q ELSE active[r]]

Enter(p, q) ==
  /\ \A r \in DOMAIN active : p < r
  /\ active' = Pushed(DOMAIN active, p, q)

Leave(x) ==
  /\ Innermost(DOMAIN active, x)
  /\ active' = [r \in DOMAIN active \ {x} |-> active[r]]

\* The innermost level is released and another request enters at once.
LeaveEnter(x, p, q) ==
  /\ Innermost(DOMAIN active, x)
  /\ \A r \in DOMAIN active \ {x} : p < r
  /\ active' = Pushed(DOMAIN active \ {x}, p, q)

NNext == \/ \E p \in NPrios, q \in Irqs : Enter(p, q)
         \/ \E x \in NPrios : Leave(x)
         \/ \E x, p \in NPrios, q \in Irqs : LeaveEnter(x, p, q)

NSpec == NInit /\ [][NNext]_active
=============================================================================
