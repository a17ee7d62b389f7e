----------------------------- MODULE MCArmMode ------------------------------
(* Every mode and every vector, with r8 standing for r8 to r12 and programs   *)
(* of at most MaxSteps steps.                                                 *)
EXTENDS ArmMode, TLC

CONSTANT MaxSteps          \* bound: steps of a run

VARIABLE steps

Psr(m, i, f) == [mode |-> m, I |-> i, F |-> f, cc |-> i]

MCPsrData  == {Psr("usr", FALSE, FALSE), Psr("sys", FALSE, FALSE), Psr("fiq", TRUE, TRUE),
               Psr("irq", TRUE, FALSE), Psr("svc", FALSE, TRUE)}
MCLoadData == {(8 :> 1) @@ (13 :> 2), (14 :> 2)}

MCInit == Init /\ steps = 0
MCNext == steps < MaxSteps /\ steps' = steps + 1 /\ Next
MCSpec == MCInit /\ [][MCNext]_<<cpu, steps>>
=============================================================================
