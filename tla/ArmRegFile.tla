----------------------------- MODULE ArmRegFile -----------------------------
(***************************************************************************)
(* The programmer's view of the ARM registers that depend on the mode:     *)
(* every banked register is one location of its own, a program status      *)
(* register holds the mode, and nothing is ever copied when the mode       *)
(* changes.  Module ArmMode, the emulator's scheme of one live register    *)
(* array and a bank matrix, is shown to implement this.                    *)
(***************************************************************************)
EXTENDS Integers

CONSTANTS Values,       \* contents of a register
          FiqRegs       \* registers banked for FIQ only (r8 to r12)

\* "usr26", the 26-bit user mode, is what a zeroed SPSR holds.
Modes == {"usr", "fiq", "irq", "svc", "abt", "und", "sys", "usr26"}
Banks == Modes \ {"sys", "usr26"}
Regs  == FiqRegs \cup {13, 14}

BankOf(m) == IF m \in {"sys", "usr26"} THEN "usr" ELSE m

\* The bank whose copy of register r a program in mode m sees.
Home(m, r) == IF r \in {13, 14} \/ m = "fiq" THEN BankOf(m) ELSE "usr"

\* The locations that exist.
Cells == {c \in Banks \X Regs : c[2] \in {13, 14} \/ c[1] \in {"usr", "fiq"}}

PSRs == [mode : Modes, I : BOOLEAN, F : BOOLEAN, cc : BOOLEAN]

VARIABLES file,         \* the contents of every cell
          psr,          \* CPSR
          spsr          \* SPSR of every bank but "usr"

ArchInit == /\ file = [c \in Cells |-> 0]
            /\ psr = [mode |-> "svc", I |-> TRUE, F |-> TRUE, cc |-> FALSE]
            /\ spsr = [b \in Banks \ {"usr"} |->
                         [mode |-> "usr26", I |-> FALSE, F |-> FALSE, cc |-> FALSE]]

\* Only registers as mode m sees them change.
Writes(m) == /\ file' \in [Cells -> Values]
             /\ \A c \in Cells : file'[c] # file[c] => c[1] = Home(m, c[2])

\* An instruction: it writes registers of its own mode or of the user bank, and
\* may change CPSR (MSR, return from an exception).  No other cell changes.
Execute == /\ psr' \in PSRs
           /\ UNCHANGED spsr
           /\ Writes(psr.mode) \/ Writes("usr")

SetSpsr(b) == /\ spsr'[b] \in PSRs
              /\ spsr' = [spsr EXCEPT ![b] = spsr'[b]]
              /\ UNCHANGED <<file, psr>>

\* Exception entry to mode m: the return address goes to m's own r14 and the
\* interrupted program's CPSR to m's SPSR.
Enter(m, fiqOff, ret) ==
  /\ psr' = [psr EXCEPT !.mode = m, !.I = TRUE, !.F = @ \/ fiqOff]
  /\ spsr' = [spsr EXCEPT ![m] = psr]
  /\ file' = [file EXCEPT ![<<m, 14>>] = ret]

ArchNext == \/ Execute
            \/ \E b \in Banks \ {"usr"} : SetSpsr(b)
            \/ \E m \in Banks \ {"usr"}, f \in BOOLEAN, v \in Values : Enter(m, f, v)

ArchSpec == ArchInit /\ [][ArchNext]_<<file, psr, spsr>>
=============================================================================
