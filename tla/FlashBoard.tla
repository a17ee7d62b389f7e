----------------------------- MODULE FlashBoard -----------------------------
(***************************************************************************)
(* A board with the flash its configuration file chose: the Intel NOR      *)
(* flash or the small-block NAND flash.                                    *)
(***************************************************************************)
EXTENDS IntelFlash, NandFlash

VARIABLE board               \* the flash of this board

vars == <<intel, nand, board>>

TypeOK == IntelType /\ NandType /\ board \in {"intel", "nand"}

Init == IntelInit /\ NandInit /\ board \in {"intel", "nand"}

Next == \/ board = "intel" /\ IntelNext /\ UNCHANGED <<nand, board>>
        \/ board = "nand" /\ NandNext /\ UNCHANGED <<intel, board>>

\* A guest in the middle of a command of the Intel flash goes on writing.
Spec == Init /\ [][Next]_vars /\ WF_vars(wsm_mode # READY /\ Next)
=============================================================================
