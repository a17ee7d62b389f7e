------------------------------ MODULE MCVicAny ------------------------------
(* A two-request, two-level instance of VicAny: one request more urgent than  *)
(* the other, the same level for both, or one below every level; either may  *)
(* be routed to FIQ, and request 0 may be raised by software.                 *)
EXTENDS VicAny

MCIrqs       == {0, 1}
MCSelectData == {{}, {1}}
MCSoftData   == {{0}}
MCMaskData   == {Prios, Prios \ {0}}
MCPrioData   == 0 .. 2
=============================================================================
