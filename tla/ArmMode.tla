------------------------------- MODULE ArmMode ------------------------------
(***************************************************************************)
(* Processor modes of the ARM core: the live registers state->Reg, the     *)
(* bank matrix state->RegBank, Spsr, Mode, Bank and the flags, and the     *)
(* operations that change mode (src/src/arch/arm/common/armsupp.c,         *)
(* ARMul_Abort of arminit.c, WriteSR15, LoadSMult and StoreSMult of        *)
(* armemu.c) in the MODE32 build.  Of the 26-bit modes only USER26 is      *)
(* here: it is what a zeroed SPSR holds.  Left out are the unassigned mode *)
(* numbers, r0 to r7, which no mode banks, and r15.  state->Cpsr is always *)
(* rewritten from GetCPSR before it is used, so the PSR of the model is    *)
(* what ARMul_GetCPSR returns.                                             *)
(***************************************************************************)
EXTENDS Integers

CONSTANTS Values,       \* contents of a register
          FiqRegs,      \* registers banked for FIQ only (code: r8 to r12)
          MayAbort,     \* may a memory access of LDM or STM with ^ abort?
          PsrData,      \* values a program writes to CPSR and SPSR
          LoadData,     \* what an instruction writes: values of some registers
          RetData       \* return addresses

VARIABLE cpu

Modes == {"usr", "fiq", "irq", "svc", "abt", "und", "sys", "usr26"}
Banks == Modes \ {"sys", "usr26"}
Regs  == FiqRegs \cup {13, 14}
PSRs  == [mode : Modes, I : BOOLEAN, F : BOOLEAN, cc : BOOLEAN]

ASSUME ArmAssumption ==
  /\ 0 \in Values
  /\ FiqRegs \subseteq 8 .. 12
  /\ MayAbort \subseteq BOOLEAN
  /\ PsrData \subseteq PSRs
  /\ LoadData \subseteq UNION {[D -> Values] : D \in SUBSET Regs}
  /\ RetData \subseteq Values

CpuType == [Reg : [Regs -> Values], RegBank : [Banks -> [Regs -> Values]],
            Spsr : [Banks -> PSRs], Mode : Modes, Bank : Banks,
            I : BOOLEAN, F : BOOLEAN, cc : BOOLEAN]

\* A status register of zero bits: mode 0 is USER26MODE.
ZeroPsr == [mode |-> "usr26", I |-> FALSE, F |-> FALSE, cc |-> FALSE]

\* ARMul_Reset on the zeroed state of ARMul_NewState.
Init == cpu = [Reg |-> [r \in Regs |-> 0],
               RegBank |-> [b \in Banks |-> [r \in Regs |-> 0]],
               Spsr |-> [b \in Banks |-> ZeroPsr],
               Mode |-> "svc", Bank |-> "svc", I |-> TRUE, F |-> TRUE, cc |-> FALSE]

-----------------------------------------------------------------------------
(* Mode switching: armsupp.c *)

ModeToBank(m) == IF m \in {"sys", "usr26"} THEN "usr" ELSE m

UserMode(m) == m \in {"usr", "usr26"}

HasSpsr(b) == b # "usr"         \* BANK_CAN_ACCESS_SPSR

GetCPSR(s) == [mode |-> s.Mode, I |-> s.I, F |-> s.F, cc |-> s.cc]

GetSPSR(s, m) == IF HasSpsr(ModeToBank(m)) THEN s.Spsr[ModeToBank(m)] ELSE GetCPSR(s)

\* Seeded fault: entering FIQ does not save r8 to r12 for the other modes.
SavesOldBankOnly(b, r, old, new) == b = old /\ (r \in {13, 14} \/ old = "fiq")

\* "Save away the old registers": r13 and r14 to the old bank, with r8 to r12
\* when the old bank is FIQ, or r8 to r12 to the user bank when FIQ is next.
Saves(b, r, old, new) == \/ b = old /\ (r \in {13, 14} \/ old = "fiq")
                         \/ b = "usr" /\ old # "fiq" /\ new = "fiq" /\ r \notin {13, 14}

Saved(s, old, new) ==
  [b \in Banks |-> [r \in Regs |->
     IF Saves(b, r, old, new) THEN s.Reg[r] ELSE s.RegBank[b][r]]]

\* "Restore the new registers".
Restored(s, matrix, old, new) ==
  [r \in Regs |-> IF r \in {13, 14} \/ new = "fiq" THEN matrix[new][r]
                  ELSE IF old = "fiq" THEN matrix["usr"][r]
                  ELSE s.Reg[r]]

\* state->Bank changes; state->Mode is the caller's business.
SwitchMode(s, oldmode, newmode) ==
  LET old == ModeToBank(oldmode)
      new == ModeToBank(newmode)
  IN  IF old = new THEN [s EXCEPT !.Bank = new]
      ELSE [s EXCEPT !.Bank = new, !.RegBank = Saved(s, old, new),
                     !.Reg = Restored(s, Saved(s, old, new), old, new)]

\* ARMul_SetCPSR and ARMul_CPSRAltered.
SetCPSR(s, p) ==
  LET t == IF s.Mode # p.mode THEN SwitchMode(s, s.Mode, p.mode) ELSE s
  IN  [t EXCEPT !.Mode = p.mode, !.I = p.I, !.F = p.F, !.cc = p.cc]

-----------------------------------------------------------------------------
(* Exceptions: ARMul_Abort *)

Vectors == {"reset", "und", "swi", "pabt", "dabt", "irq", "fiq"}

VectorMode(x) == CASE x \in {"reset", "swi"} -> "svc"
                   [] x \in {"pabt", "dabt"} -> "abt"
                   [] OTHER                  -> x

\* Seeded fault: the return address is written while the old bank is live.
AbortLrFirst(s, x, ret) ==
  LET m == VectorMode(x)
      old == GetCPSR(s)
      t == [s EXCEPT !.Spsr[m] = old, !.Reg[14] = ret]
  IN  SetCPSR(t, [old EXCEPT !.mode = m, !.I = TRUE, !.F = @ \/ x \in {"reset", "fiq"}])

\* SETABORT: the return address goes to r14 after the bank has changed.
Abort(s, x, ret) ==
  LET m == VectorMode(x)
      old == GetCPSR(s)
      t == [s EXCEPT !.Spsr[m] = old]
      u == SetCPSR(t, [old EXCEPT !.mode = m, !.I = TRUE, !.F = @ \/ x \in {"reset", "fiq"}])
  IN  [u EXCEPT !.Reg[14] = ret]

\* The exceptions the emulator samples before an instruction are masked by I, F.
Accepts(s, x) == /\ x = "irq" => ~s.I
                 /\ x = "fiq" => ~s.F

-----------------------------------------------------------------------------
(* Instructions *)

\* Values loaded into some of the live registers.
Load(s, f) == [s EXCEPT !.Reg = [r \in Regs |-> IF r \in DOMAIN f THEN f[r] ELSE @[r]]]

\* Seeded fault: user mode may write the control field.
FixCPSRAnyMode(s, p, c, f) ==
  LET old == GetCPSR(s)
      ctl == IF c THEN p ELSE old
      flg == IF f THEN p ELSE old
  IN  SetCPSR(s, [ctl EXCEPT !.cc = flg.cc])

\* ARMul_FixCPSR: fields c (control) and f (flags) of p; user mode only flags.
FixCPSR(s, p, c, f) ==
  LET old == GetCPSR(s)
      ctl == IF c /\ ~UserMode(s.Mode) THEN p ELSE old
      flg == IF f THEN p ELSE old
  IN  SetCPSR(s, [ctl EXCEPT !.cc = flg.cc])

\* ARMul_FixSPSR.
FixSPSR(s, p, c, f) ==
  LET old == s.Spsr[s.Bank]
      ctl == IF c THEN p ELSE old
      flg == IF f THEN p ELSE old
  IN  IF HasSpsr(s.Bank) THEN [s EXCEPT !.Spsr[s.Bank] = [ctl EXCEPT !.cc = flg.cc]] ELSE s

\* WriteSR15: a data-processing instruction with the S bit and r15 as result.
WriteSR15(s) == IF s.Bank # "usr" THEN SetCPSR(s, s.Spsr[s.Bank]) ELSE s

\* LoadSMult with r15 in the list: the live registers are loaded and CPSR is
\* restored.  TAKEABORT resets state->Aborted, so the restoration also follows
\* an abort.
LoadSMultPC(s, f, abort, ret) ==
  LET t == IF abort THEN Abort(Load(s, f), "dabt", ret) ELSE Load(s, f)
  IN  IF ~UserMode(t.Mode) THEN SetCPSR(t, GetSPSR(t, t.Mode)) ELSE t

\* Seeded fault: the bank of the mode is not made live again.
LoadSMultUserNoRestore(s, f, abort, ret) ==
  LET t == IF s.Bank # "usr" THEN SwitchMode(s, s.Mode, "usr26") ELSE s
  IN  IF abort THEN Abort(Load(t, f), "dabt", ret) ELSE Load(t, f)

\* LoadSMult without r15: the user bank is made live, loaded, and the bank of
\* the mode at the end is made live again.
LoadSMultUser(s, f, abort, ret) ==
  LET t == IF s.Bank # "usr" THEN SwitchMode(s, s.Mode, "usr26") ELSE s
      u == IF abort THEN Abort(Load(t, f), "dabt", ret) ELSE Load(t, f)
  IN  IF ~UserMode(u.Mode) THEN SwitchMode(u, "usr26", u.Mode) ELSE u

\* StoreSMult: the user bank is made live while it is stored; an abort leaves
\* before the bank is restored.
StoreSMult(s, abort, ret) ==
  LET t == IF s.Bank # "usr" THEN SwitchMode(s, s.Mode, "usr26") ELSE s
  IN  IF abort THEN Abort(t, "dabt", ret)
      ELSE IF ~UserMode(s.Mode) THEN SwitchMode(t, "usr26", s.Mode) ELSE t

-----------------------------------------------------------------------------
(* The core runs any sequence of these *)

Exception(x, ret) == Accepts(cpu, x) /\ cpu' = Abort(cpu, x, ret)

DataProcessing(f) == cpu' = Load(cpu, f)

MsrCpsr(p, c, f) == cpu' = FixCPSR(cpu, p, c, f)
MsrSpsr(p, c, f) == cpu' = FixSPSR(cpu, p, c, f)

Return == cpu' = WriteSR15(cpu)

LdmPc(f, abort, ret)   == cpu' = LoadSMultPC(cpu, f, abort, ret)
LdmUser(f, abort, ret) == cpu' = LoadSMultUser(cpu, f, abort, ret)
StmUser(abort, ret)    == cpu' = StoreSMult(cpu, abort, ret)

Next ==
  \/ \E x \in Vectors, ret \in RetData : Exception(x, ret)
  \/ \E f \in LoadData :
       \/ DataProcessing(f)
       \/ \E abort \in MayAbort, ret \in RetData : LdmPc(f, abort, ret) \/ LdmUser(f, abort, ret)
  \/ \E p \in PsrData, c, f \in BOOLEAN : MsrCpsr(p, c, f) \/ MsrSpsr(p, c, f)
  \/ Return
  \/ \E abort \in MayAbort, ret \in RetData : StmUser(abort, ret)

Spec == Init /\ [][Next]_cpu

-----------------------------------------------------------------------------
(* Properties *)

\* The registers keep their types, and between instructions the live bank is
\* that of the mode, although LDM and STM with ^ switch banks under it.
TypeOK == cpu \in CpuType /\ cpu.Bank = ModeToBank(cpu.Mode)

\* Where register r of bank b lives: the live array if the mode sees that bank.
Visible(s, b, r) == b = (IF r \in {13, 14} \/ s.Mode = "fiq" THEN ModeToBank(s.Mode) ELSE "usr")

CellOf(s, b, r) == IF Visible(s, b, r) THEN s.Reg[r] ELSE s.RegBank[b][r]

Cells == {c \in Banks \X Regs : c[2] \in {13, 14} \/ c[1] \in {"usr", "fiq"}}

FileOf(s) == [c \in Cells |-> CellOf(s, c[1], c[2])]

Arch == INSTANCE ArmRegFile WITH
          file <- FileOf(cpu), psr <- GetCPSR(cpu),
          spsr <- [b \in Banks \ {"usr"} |-> cpu.Spsr[b]]

\* The copying between live registers and bank matrix is invisible: the core
\* implements the register file in which every banked register is a cell of its
\* own and mode changes, exceptions and returns move nothing (ArmRegFile).
BanksAreInvisible == Arch!ArchSpec

\* User mode is left only through an exception that masks IRQ and saves CPSR in
\* the SPSR of its mode; no MSR, MOVS pc or LDM ^ changes mode or masks there.
UserModeIsConfined ==
  [][UserMode(cpu.Mode) =>
       \/ cpu'.Mode = cpu.Mode /\ cpu'.I = cpu.I /\ cpu'.F = cpu.F
       \/ ~UserMode(cpu'.Mode) /\ cpu'.I /\ cpu'.Spsr[ModeToBank(cpu'.Mode)] = GetCPSR(cpu)]_cpu

\* From every state, taking an exception and returning from it at once restores
\* CPSR and every banked register but the handler's own r14, whatever the modes
\* involved (the README suspects USR -> IRQ -> SVC).
RoundTrip ==
  \A x \in Vectors, ret \in RetData :
    LET back == WriteSR15(Abort(cpu, x, ret))
    IN  /\ GetCPSR(back) = GetCPSR(cpu)
        /\ \A c \in Cells : c # <<VectorMode(x), 14>> => FileOf(back)[c] = FileOf(cpu)[c]

\* LDM and STM with ^ put back the bank they found ("Restore the correct bank"):
\* apart from r14 of abort mode, no register of a privileged mode changes.
UserTransferKeepsBanks ==
  [][(\E abort \in MayAbort, ret \in RetData :
        StmUser(abort, ret) \/ \E f \in LoadData : LdmUser(f, abort, ret)) =>
       \A c \in Cells : c[1] # "usr" /\ c # <<"abt", 14>> =>
         FileOf(cpu)'[c] = FileOf(cpu)[c]]_cpu
=============================================================================
