--------------------------- MODULE ArmModeProofs ----------------------------
(***************************************************************************)
(* Proofs about the banked registers (modules ArmMode and ArmRegFile), for *)
(* any register values, any set of registers banked for FIQ and any        *)
(* program.                                                                *)
(***************************************************************************)
EXTENDS ArmMode, TLAPS

\* The register file as a core sees it whose live registers are those of mode m.
FileAt(s, m) ==
  [c \in Cells |-> IF c[1] = Arch!Home(m, c[2]) THEN s.Reg[c[2]] ELSE s.RegBank[c[1]][c[2]]]

\* Every mode has a bank, and every bank is a mode.
LEMMA ModeFacts ==
  /\ \A m \in Modes : ModeToBank(m) \in Banks /\ Arch!BankOf(m) = ModeToBank(m)
  /\ \A m \in Modes : HasSpsr(ModeToBank(m)) <=> ModeToBank(m) # "usr"
  /\ \A m \in Modes : UserMode(m) => ModeToBank(m) = "usr"
  /\ Banks \subseteq Modes
  /\ 13 \in Regs /\ 14 \in Regs
  /\ \A x \in Vectors : /\ VectorMode(x) \in Banks \ {"usr"}
                        /\ VectorMode(x) \in Modes
                        /\ ModeToBank(VectorMode(x)) = VectorMode(x)
                        /\ ~UserMode(VectorMode(x))
BY DEF Modes, Banks, ModeToBank, Arch!BankOf, HasSpsr, UserMode, Regs, Vectors, VectorMode

\* The file of a core is the one its mode sees.
LEMMA FileOfMode == ASSUME NEW s PROVE FileOf(s) = FileAt(s, s.Mode)
BY DEF FileOf, FileAt, CellOf, Visible, Arch!Home, Arch!BankOf, ModeToBank

\* ARMul_SwitchMode: the fields it leaves alone, their types, and the file.
LEMMA SwitchFacts ==
  ASSUME NEW s \in CpuType, NEW m \in Modes, NEW n \in Modes
  PROVE  /\ SwitchMode(s, m, n) \in CpuType
         /\ SwitchMode(s, m, n).Bank = ModeToBank(n)
         /\ SwitchMode(s, m, n).Spsr = s.Spsr
         /\ SwitchMode(s, m, n).Mode = s.Mode
         /\ SwitchMode(s, m, n).I = s.I
         /\ SwitchMode(s, m, n).F = s.F
         /\ SwitchMode(s, m, n).cc = s.cc
         /\ FileAt(SwitchMode(s, m, n), n) = FileAt(s, m)
<1> DEFINE old == ModeToBank(m)
           new == ModeToBank(n)
           t == SwitchMode(s, m, n)
<1>1. old \in Banks /\ new \in Banks
  BY ModeFacts
<1>2. Arch!BankOf(m) = old /\ Arch!BankOf(n) = new
  BY ModeFacts
<1>3. (m = "fiq" <=> old = "fiq") /\ (n = "fiq" <=> new = "fiq")
  BY DEF ModeToBank
<1>4. "usr" \in Banks /\ Cells \subseteq Banks \X Regs
  BY DEF Banks, Modes, Cells
<1>5. CASE old = new
  <2>1. t = [s EXCEPT !.Bank = new]
    BY <1>5 DEF SwitchMode
  <2> HIDE DEF t, old, new
  <2>2. /\ t \in CpuType /\ t.Bank = new /\ t.Spsr = s.Spsr /\ t.Mode = s.Mode
        /\ t.I = s.I /\ t.F = s.F /\ t.cc = s.cc /\ t.Reg = s.Reg /\ t.RegBank = s.RegBank
    BY <1>1, <2>1 DEF CpuType
  <2>3. \A r : Arch!Home(m, r) = Arch!Home(n, r)
    BY <1>2, <1>3, <1>5 DEF Arch!Home
  <2>4. FileAt(t, n) = FileAt(s, m)
    BY <2>2, <2>3 DEF FileAt
  <2> QED BY <2>2, <2>4 DEF t, new
<1>6. CASE old # new
  <2> DEFINE matrix == Saved(s, old, new)
             live == Restored(s, matrix, old, new)
  <2>1. t = [s EXCEPT !.Bank = new, !.RegBank = matrix, !.Reg = live]
    BY <1>6 DEF SwitchMode
  <2> HIDE DEF t, old, new
  <2>2. s.Reg \in [Regs -> Values] /\ s.RegBank \in [Banks -> [Regs -> Values]]
    BY DEF CpuType
  <2>3. /\ matrix \in [Banks -> [Regs -> Values]]
        /\ \A b \in Banks, r \in Regs :
             matrix[b][r] = IF Saves(b, r, old, new) THEN s.Reg[r] ELSE s.RegBank[b][r]
    BY <2>2 DEF Saved
  <2> HIDE DEF matrix
  <2>4. /\ live \in [Regs -> Values]
        /\ \A r \in Regs : live[r] = IF r \in {13, 14} \/ new = "fiq" THEN matrix[new][r]
                                     ELSE IF old = "fiq" THEN matrix["usr"][r] ELSE s.Reg[r]
    BY <1>1, <1>4, <2>2, <2>3 DEF Restored
  <2> HIDE DEF live
  <2>5. /\ t \in CpuType /\ t.Bank = new /\ t.Spsr = s.Spsr /\ t.Mode = s.Mode
        /\ t.I = s.I /\ t.F = s.F /\ t.cc = s.cc /\ t.Reg = live /\ t.RegBank = matrix
    BY <1>1, <2>1, <2>3, <2>4 DEF CpuType
  <2>6. ASSUME NEW c \in Cells
        PROVE  (IF c[1] = Arch!Home(n, c[2]) THEN live[c[2]] ELSE matrix[c[1]][c[2]])
               = IF c[1] = Arch!Home(m, c[2]) THEN s.Reg[c[2]] ELSE s.RegBank[c[1]][c[2]]
    <3>1. c[1] \in Banks /\ c[2] \in Regs /\ (c[2] \in {13, 14} \/ c[1] \in {"usr", "fiq"})
      BY DEF Cells
    <3>2. Arch!Home(n, c[2]) = IF c[2] \in {13, 14} \/ new = "fiq" THEN new ELSE "usr"
      BY <1>2, <1>3 DEF Arch!Home
    <3>3. Arch!Home(m, c[2]) = IF c[2] \in {13, 14} \/ old = "fiq" THEN old ELSE "usr"
      BY <1>2, <1>3 DEF Arch!Home
    <3>4. CASE c[2] \in {13, 14}
      BY <1>1, <1>6, <2>3, <2>4, <3>1, <3>2, <3>3, <3>4 DEF Saves
    <3>5. CASE c[2] \notin {13, 14}
      BY <1>1, <1>4, <1>6, <2>3, <2>4, <3>1, <3>2, <3>3, <3>5 DEF Saves
    <3> QED BY <3>4, <3>5
  <2>7. FileAt(t, n) = FileAt(s, m)
    BY <2>5, <2>6 DEF FileAt
  <2> QED BY <2>5, <2>7 DEF t, new
<1> QED BY <1>5, <1>6

\* ARMul_SetCPSR with ARMul_CPSRAltered: the PSR is the one given, and no
\* register of the file changes.
LEMMA SetCPSRFacts ==
  ASSUME NEW s \in CpuType, NEW p \in PSRs
  PROVE  /\ SetCPSR(s, p) \in CpuType
         /\ GetCPSR(SetCPSR(s, p)) = p
         /\ SetCPSR(s, p).Mode = p.mode
         /\ SetCPSR(s, p).I = p.I
         /\ SetCPSR(s, p).F = p.F
         /\ SetCPSR(s, p).Bank = IF s.Mode # p.mode THEN ModeToBank(p.mode) ELSE s.Bank
         /\ SetCPSR(s, p).Spsr = s.Spsr
         /\ FileOf(SetCPSR(s, p)) = FileOf(s)
<1> DEFINE t == IF s.Mode # p.mode THEN SwitchMode(s, s.Mode, p.mode) ELSE s
           u == SetCPSR(s, p)
<1>1. s.Mode \in Modes /\ p.mode \in Modes
  BY DEF CpuType, PSRs
<1>2. /\ t \in CpuType /\ t.Spsr = s.Spsr
      /\ t.Bank = IF s.Mode # p.mode THEN ModeToBank(p.mode) ELSE s.Bank
      /\ FileAt(t, p.mode) = FileAt(s, s.Mode)
  BY <1>1, SwitchFacts
<1>3. u = [t EXCEPT !.Mode = p.mode, !.I = p.I, !.F = p.F, !.cc = p.cc]
  BY DEF SetCPSR
<1> HIDE DEF t, u
<1>4. /\ u \in CpuType /\ u.Mode = p.mode /\ u.I = p.I /\ u.F = p.F /\ u.cc = p.cc
      /\ u.Bank = t.Bank /\ u.Spsr = t.Spsr /\ u.Reg = t.Reg /\ u.RegBank = t.RegBank
  BY <1>2, <1>3 DEF CpuType, PSRs
<1>5. GetCPSR(u) = p
  BY <1>4 DEF GetCPSR, PSRs
<1>6. FileOf(u) = FileAt(t, p.mode)
  BY <1>4, FileOfMode DEF FileAt
<1> QED BY <1>2, <1>4, <1>5, <1>6, FileOfMode DEF u

\* Registers loaded by an instruction: the cells of the mode in force, in the
\* list, get the values; no other field changes.
LEMMA LoadFacts ==
  ASSUME NEW s \in CpuType, NEW f \in LoadData
  PROVE  /\ Load(s, f) \in CpuType
         /\ GetCPSR(Load(s, f)) = GetCPSR(s)
         /\ Load(s, f).Mode = s.Mode
         /\ Load(s, f).I = s.I
         /\ Load(s, f).F = s.F
         /\ Load(s, f).Bank = s.Bank
         /\ Load(s, f).Spsr = s.Spsr
         /\ \A m \in Modes, c \in Cells :
              FileAt(Load(s, f), m)[c] # FileAt(s, m)[c] => c[1] = Arch!Home(m, c[2])
<1> DEFINE t == Load(s, f)
           regs == [r \in Regs |-> IF r \in DOMAIN f THEN f[r] ELSE s.Reg[r]]
<1>1. PICK D \in SUBSET Regs : f \in [D -> Values]
  BY ArmAssumption
<1>2. regs \in [Regs -> Values]
  BY <1>1 DEF CpuType
<1>3. t = [s EXCEPT !.Reg = regs]
  BY DEF Load, CpuType
<1> HIDE DEF t, regs
<1>4. /\ t \in CpuType /\ t.Mode = s.Mode /\ t.I = s.I /\ t.F = s.F /\ t.cc = s.cc
      /\ t.Bank = s.Bank /\ t.Spsr = s.Spsr /\ t.RegBank = s.RegBank
  BY <1>2, <1>3 DEF CpuType
<1>5. GetCPSR(t) = GetCPSR(s)
  BY <1>4 DEF GetCPSR
<1>6. ASSUME NEW m \in Modes, NEW c \in Cells, c[1] # Arch!Home(m, c[2])
      PROVE  FileAt(t, m)[c] = FileAt(s, m)[c]
  BY <1>4, <1>6 DEF FileAt
<1> QED BY <1>4, <1>5, <1>6 DEF t

\* The PSR an exception starts its handler with.
HandlerPsr(s, x) == [GetCPSR(s) EXCEPT !.mode = VectorMode(x), !.I = TRUE,
                                       !.F = @ \/ x \in {"reset", "fiq"}]

\* ARMul_Abort up to the write of the return address.
Entered(s, x) == SetCPSR([s EXCEPT !.Spsr[VectorMode(x)] = GetCPSR(s)], HandlerPsr(s, x))

\* It leaves the file as it was, and saves CPSR in the bank of the vector's mode.
LEMMA EnteredFacts ==
  ASSUME NEW s \in CpuType, NEW x \in Vectors
  PROVE  /\ Entered(s, x) \in CpuType
         /\ GetCPSR(Entered(s, x)) = HandlerPsr(s, x)
         /\ Entered(s, x).Mode = VectorMode(x)
         /\ Entered(s, x).I = TRUE
         /\ Entered(s, x).Bank = IF s.Mode # VectorMode(x) THEN VectorMode(x) ELSE s.Bank
         /\ Entered(s, x).Spsr = [s.Spsr EXCEPT ![VectorMode(x)] = GetCPSR(s)]
         /\ FileOf(Entered(s, x)) = FileOf(s)
<1> DEFINE m == VectorMode(x)
           old == GetCPSR(s)
           p == HandlerPsr(s, x)
           t == [s EXCEPT !.Spsr[m] = old]
           u == Entered(s, x)
<1>1. m \in Banks /\ m \in Modes /\ ModeToBank(m) = m
  BY ModeFacts
<1>2. old \in PSRs
  BY DEF GetCPSR, PSRs, CpuType
<1>3. p \in PSRs /\ p.mode = m /\ p.I = TRUE
  BY <1>1, <1>2 DEF PSRs, HandlerPsr
<1>4. u = SetCPSR(t, p)
  BY DEF Entered
<1> HIDE DEF m, old, p, u
<1>5. /\ t \in CpuType /\ t.Mode = s.Mode /\ t.Bank = s.Bank /\ t.Reg = s.Reg
      /\ t.RegBank = s.RegBank /\ t.Spsr = [s.Spsr EXCEPT ![m] = old]
  BY <1>1, <1>2 DEF CpuType
<1> HIDE DEF t
<1>6. /\ u \in CpuType /\ GetCPSR(u) = p /\ u.Mode = m /\ u.I = TRUE
      /\ u.Bank = (IF s.Mode # m THEN m ELSE s.Bank) /\ u.Spsr = t.Spsr
      /\ FileOf(u) = FileOf(t)
  BY <1>1, <1>3, <1>4, <1>5, SetCPSRFacts
<1>7. FileOf(t) = FileOf(s)
  BY <1>5, FileOfMode DEF FileAt
<1> QED BY <1>5, <1>6, <1>7 DEF m, old, p, u

\* ARMul_Abort: the PSR is saved where the handler's mode finds it.
LEMMA AbortFacts ==
  ASSUME NEW s \in CpuType, NEW x \in Vectors, NEW ret \in RetData
  PROVE  /\ Abort(s, x, ret) \in CpuType
         /\ GetCPSR(Abort(s, x, ret)) = HandlerPsr(s, x)
         /\ Abort(s, x, ret).Mode = VectorMode(x)
         /\ Abort(s, x, ret).I = TRUE
         /\ Abort(s, x, ret).Bank = IF s.Mode # VectorMode(x) THEN VectorMode(x) ELSE s.Bank
         /\ Abort(s, x, ret).Spsr = [s.Spsr EXCEPT ![VectorMode(x)] = GetCPSR(s)]
<1> DEFINE a == Abort(s, x, ret)
           u == Entered(s, x)
<1>1. a = [u EXCEPT !.Reg[14] = ret]
  BY DEF Abort, Entered, HandlerPsr
<1>2. u \in CpuType
  BY EnteredFacts
<1>3. ret \in Values /\ 14 \in Regs
  BY ArmAssumption, ModeFacts
<1> HIDE DEF a, u
<1>4. /\ a \in CpuType /\ a.Mode = u.Mode /\ a.I = u.I /\ a.F = u.F /\ a.cc = u.cc
      /\ a.Bank = u.Bank /\ a.Spsr = u.Spsr
  BY <1>1, <1>2, <1>3 DEF CpuType
<1>5. GetCPSR(a) = GetCPSR(u)
  BY <1>4 DEF GetCPSR
<1> QED BY <1>4, <1>5, EnteredFacts DEF a, u

\* The SPSR the handler returns through is the interrupted program's PSR.
LEMMA AbortSpsr ==
  ASSUME NEW s \in CpuType, NEW x \in Vectors, NEW ret \in RetData
  PROVE  Abort(s, x, ret).Spsr[VectorMode(x)] = GetCPSR(s)
<1>1. s.Spsr \in [Banks -> PSRs] /\ VectorMode(x) \in Banks
  BY ModeFacts DEF CpuType
<1>2. Abort(s, x, ret).Spsr = [s.Spsr EXCEPT ![VectorMode(x)] = GetCPSR(s)]
  BY AbortFacts
<1> QED BY <1>1, <1>2

\* Of the registers only the handler's r14 changes.
LEMMA AbortFile ==
  ASSUME NEW s \in CpuType, NEW x \in Vectors, NEW ret \in RetData
  PROVE  FileOf(Abort(s, x, ret)) = [FileOf(s) EXCEPT ![<<VectorMode(x), 14>>] = ret]
<1> DEFINE a == Abort(s, x, ret)
           u == Entered(s, x)
           m == VectorMode(x)
<1>1. a = [u EXCEPT !.Reg[14] = ret]
  BY DEF Abort, Entered, HandlerPsr
<1>2. u \in CpuType /\ u.Mode = m /\ FileOf(u) = FileOf(s)
  BY EnteredFacts
<1>3. ret \in Values /\ 14 \in Regs /\ m \in Banks /\ Arch!Home(m, 14) = m
  BY ArmAssumption, ModeFacts DEF Arch!Home
<1> HIDE DEF a, u, m
<1>4. /\ a.Mode = m /\ a.RegBank = u.RegBank /\ u.Reg \in [Regs -> Values]
      /\ a.Reg = [u.Reg EXCEPT ![14] = ret]
  BY <1>1, <1>2, <1>3 DEF CpuType
<1>5. FileOf(a) = FileAt(a, m) /\ FileOf(u) = FileAt(u, m)
  BY <1>2, <1>4, FileOfMode
<1>6. <<m, 14>> \in Cells
  BY <1>3 DEF Cells
<1>7. ASSUME NEW c \in Cells
      PROVE  FileAt(a, m)[c] = IF c = <<m, 14>> THEN ret ELSE FileAt(u, m)[c]
  <2>1. c[1] \in Banks /\ c[2] \in Regs /\ c = <<c[1], c[2]>>
    BY DEF Cells
  <2>2. FileAt(a, m)[c] = IF c[1] = Arch!Home(m, c[2]) THEN a.Reg[c[2]] ELSE a.RegBank[c[1]][c[2]]
    BY DEF FileAt
  <2>3. FileAt(u, m)[c] = IF c[1] = Arch!Home(m, c[2]) THEN u.Reg[c[2]] ELSE u.RegBank[c[1]][c[2]]
    BY DEF FileAt
  <2>4. CASE c[2] = 14
    BY <1>3, <1>4, <2>1, <2>2, <2>3, <2>4
  <2>5. CASE c[2] # 14
    BY <1>3, <1>4, <2>1, <2>2, <2>3, <2>5
  <2> QED BY <2>4, <2>5
<1>8. FileAt(a, m) = [FileAt(u, m) EXCEPT ![<<m, 14>>] = ret]
  <2> DEFINE fa == FileAt(a, m)
             fu == FileAt(u, m)
  <2>1. fa = [c \in Cells |-> fa[c]] /\ fu = [c \in Cells |-> fu[c]]
    BY DEF FileAt
  <2> HIDE DEF fa, fu
  <2> QED BY <1>6, <1>7, <2>1 DEF fa, fu
<1> QED BY <1>2, <1>5, <1>8 DEF a, m, u

-----------------------------------------------------------------------------
(* Instructions *)

\* ARMul_FixCPSR sets a PSR, in user mode one of the same mode and masks.
LEMMA FixCPSRFacts ==
  ASSUME NEW s \in CpuType, NEW p \in PsrData, NEW c \in BOOLEAN, NEW f \in BOOLEAN
  PROVE  \E q \in PSRs : /\ FixCPSR(s, p, c, f) = SetCPSR(s, q)
                         /\ UserMode(s.Mode) => q.mode = s.Mode /\ q.I = s.I /\ q.F = s.F
<1> DEFINE old == GetCPSR(s)
           ctl == IF c /\ ~UserMode(s.Mode) THEN p ELSE old
           flg == IF f THEN p ELSE old
           q == [ctl EXCEPT !.cc = flg.cc]
<1>1. old \in PSRs /\ p \in PSRs
  BY ArmAssumption DEF GetCPSR, PSRs, CpuType
<1>2. ctl \in PSRs /\ flg \in PSRs
  BY <1>1
<1>3. q \in PSRs /\ q.mode = ctl.mode /\ q.I = ctl.I /\ q.F = ctl.F
  BY <1>2 DEF PSRs
<1>4. UserMode(s.Mode) => ctl.mode = s.Mode /\ ctl.I = s.I /\ ctl.F = s.F
  BY DEF GetCPSR
<1>5. FixCPSR(s, p, c, f) = SetCPSR(s, q)
  BY DEF FixCPSR
<1> HIDE DEF q, ctl, flg, old
<1> QED BY <1>3, <1>4, <1>5

\* ARMul_FixSPSR changes nothing but the SPSR of the live bank.
LEMMA FixSPSRFacts ==
  ASSUME NEW s \in CpuType, NEW p \in PsrData, NEW c \in BOOLEAN, NEW f \in BOOLEAN
  PROVE  \/ FixSPSR(s, p, c, f) = s
         \/ \E q \in PSRs : s.Bank # "usr" /\ FixSPSR(s, p, c, f) = [s EXCEPT !.Spsr[s.Bank] = q]
<1> DEFINE old == s.Spsr[s.Bank]
           ctl == IF c THEN p ELSE old
           flg == IF f THEN p ELSE old
           q == [ctl EXCEPT !.cc = flg.cc]
<1>1. old \in PSRs /\ p \in PSRs
  BY ArmAssumption DEF CpuType
<1>2. ctl \in PSRs /\ flg \in PSRs
  BY <1>1
<1>3. q \in PSRs
  BY <1>2 DEF PSRs
<1>4. FixSPSR(s, p, c, f) = IF s.Bank # "usr" THEN [s EXCEPT !.Spsr[s.Bank] = q] ELSE s
  BY DEF FixSPSR, HasSpsr
<1> HIDE DEF q, ctl, flg, old
<1> QED BY <1>3, <1>4

\* A write to the SPSR of the live bank.
LEMMA SpsrFacts ==
  ASSUME NEW s \in CpuType, NEW q \in PSRs
  PROVE  LET t == [s EXCEPT !.Spsr[s.Bank] = q]
         IN  /\ t \in CpuType /\ GetCPSR(t) = GetCPSR(s) /\ FileOf(t) = FileOf(s)
             /\ t.Mode = s.Mode /\ t.I = s.I /\ t.F = s.F /\ t.Bank = s.Bank
             /\ t.Spsr = [s.Spsr EXCEPT ![s.Bank] = q]
<1> DEFINE t == [s EXCEPT !.Spsr[s.Bank] = q]
<1>1. /\ t \in CpuType /\ t.Mode = s.Mode /\ t.I = s.I /\ t.F = s.F /\ t.cc = s.cc
      /\ t.Bank = s.Bank /\ t.Reg = s.Reg /\ t.RegBank = s.RegBank
      /\ t.Spsr = [s.Spsr EXCEPT ![s.Bank] = q]
  BY DEF CpuType
<1> HIDE DEF t
<1>2. GetCPSR(t) = GetCPSR(s)
  BY <1>1 DEF GetCPSR
<1>3. FileOf(t) = FileOf(s)
  BY <1>1, FileOfMode DEF FileAt
<1> QED BY <1>1, <1>2, <1>3 DEF t

\* The SPSR read for a mode is a PSR.
LEMMA GetSPSRType == ASSUME NEW s \in CpuType, NEW m \in Modes PROVE GetSPSR(s, m) \in PSRs
<1>1. GetCPSR(s) \in PSRs
  BY DEF GetCPSR, PSRs, CpuType
<1>2. s.Spsr[ModeToBank(m)] \in PSRs
  BY ModeFacts DEF CpuType
<1> QED BY <1>1, <1>2 DEF GetSPSR

\* The bank an LDM or STM with ^ works on: the user bank is live, and the file is
\* what the user mode sees.
Lent(s) == IF s.Bank # "usr" THEN SwitchMode(s, s.Mode, "usr26") ELSE s

\* Lending the user bank keeps SPSRs and modes, and the file as the mode saw it.
LEMMA LentFacts ==
  ASSUME NEW s \in CpuType
  PROVE  /\ Lent(s) \in CpuType /\ Lent(s).Bank = "usr" /\ Lent(s).Spsr = s.Spsr
         /\ Lent(s).Mode = s.Mode /\ Lent(s).I = s.I /\ Lent(s).F = s.F
         /\ GetCPSR(Lent(s)) = GetCPSR(s)
         /\ s.Bank = ModeToBank(s.Mode) => FileAt(Lent(s), "usr26") = FileOf(s)
<1>1. s.Mode \in Modes /\ "usr26" \in Modes /\ ModeToBank("usr26") = "usr"
  BY DEF CpuType, Modes, ModeToBank
<1>2. CASE s.Bank # "usr"
  <2>1. Lent(s) = SwitchMode(s, s.Mode, "usr26")
    BY <1>2 DEF Lent
  <2>2. FileAt(Lent(s), "usr26") = FileAt(s, s.Mode)
    BY <1>1, <2>1, SwitchFacts
  <2> QED BY <1>1, <2>1, <2>2, SwitchFacts, FileOfMode DEF GetCPSR
<1>3. CASE s.Bank = "usr"
  <2>1. Lent(s) = s
    BY <1>3 DEF Lent
  <2>2. s.Bank = ModeToBank(s.Mode) => \A r : Arch!Home(s.Mode, r) = Arch!Home("usr26", r)
    BY <1>1, <1>3 DEF Arch!Home, Arch!BankOf, ModeToBank
  <2>3. s.Bank = ModeToBank(s.Mode) => FileAt(s, "usr26") = FileAt(s, s.Mode)
    BY <2>2 DEF FileAt
  <2> QED BY <1>3, <2>1, <2>3, FileOfMode
<1> QED BY <1>2, <1>3

\* The bank of the mode is made live again, unless it is the user bank.
Restitute(u) == IF ~UserMode(u.Mode) THEN SwitchMode(u, "usr26", u.Mode) ELSE u

\* Taking it back makes the bank of the mode live and keeps the file.
LEMMA RestituteFacts ==
  ASSUME NEW u \in CpuType, UserMode(u.Mode) => u.Bank = "usr"
  PROVE  /\ Restitute(u) \in CpuType /\ Restitute(u).Bank = ModeToBank(u.Mode)
         /\ Restitute(u).Spsr = u.Spsr
         /\ Restitute(u).Mode = u.Mode /\ Restitute(u).I = u.I /\ Restitute(u).F = u.F
         /\ GetCPSR(Restitute(u)) = GetCPSR(u)
         /\ FileOf(Restitute(u)) = FileAt(u, "usr26")
<1>1. u.Mode \in Modes /\ "usr26" \in Modes
  BY DEF CpuType, Modes
<1>2. CASE ~UserMode(u.Mode)
  <2>1. Restitute(u) = SwitchMode(u, "usr26", u.Mode)
    BY <1>2 DEF Restitute
  <2>2. FileAt(Restitute(u), u.Mode) = FileAt(u, "usr26")
    BY <1>1, <2>1, SwitchFacts
  <2> QED BY <1>1, <2>1, <2>2, SwitchFacts, FileOfMode DEF GetCPSR
<1>3. CASE UserMode(u.Mode)
  <2>1. Restitute(u) = u
    BY <1>3 DEF Restitute
  <2>2. \A r : Arch!Home(u.Mode, r) = Arch!Home("usr26", r)
    BY <1>3 DEF Arch!Home, Arch!BankOf, UserMode
  <2>3. FileAt(u, u.Mode) = FileAt(u, "usr26")
    BY <2>2 DEF FileAt
  <2>4. ModeToBank(u.Mode) = "usr"
    BY <1>1, <1>3, ModeFacts
  <2> QED BY <1>3, <2>1, <2>3, <2>4, FileOfMode
<1> QED BY <1>2, <1>3

-----------------------------------------------------------------------------
(* The types of the registers and the live bank *)

\* The live bank is that of the mode, except after a store multiple with ^ that
\* aborted in abort mode, which leaves the user bank live.  User mode always has
\* its own bank.
Sound(s) == /\ s \in CpuType
            /\ s.Bank = ModeToBank(s.Mode) \/ (s.Mode = "abt" /\ s.Bank = "usr")

Exact(s) == s \in CpuType /\ s.Bank = ModeToBank(s.Mode)

\* Setting CPSR, loading registers, an exception and a write of SPSR keep the
\* agreement of mode and bank.
LEMMA SoundFacts ==
  ASSUME NEW s, Sound(s)
  PROVE  /\ s \in CpuType /\ s.Mode \in Modes
         /\ UserMode(s.Mode) => s.Bank = "usr"
         /\ Exact(s) => s.Bank = ModeToBank(s.Mode)
         /\ \A p \in PSRs : Sound(SetCPSR(s, p)) /\ (Exact(s) => Exact(SetCPSR(s, p)))
         /\ \A f \in LoadData : Sound(Load(s, f)) /\ (Exact(s) => Exact(Load(s, f)))
         /\ \A x \in Vectors, ret \in RetData :
              Sound(Abort(s, x, ret)) /\ (Exact(s) => Exact(Abort(s, x, ret)))
         /\ \A q \in PSRs : LET t == [s EXCEPT !.Spsr[s.Bank] = q]
                            IN  Sound(t) /\ (Exact(s) => Exact(t))
<1>1. s \in CpuType /\ s.Mode \in Modes
  BY DEF Sound, CpuType
<1>2. UserMode(s.Mode) => s.Bank = "usr"
  BY <1>1, ModeFacts DEF Sound, UserMode
<1>3. ASSUME NEW p \in PSRs
      PROVE  Sound(SetCPSR(s, p)) /\ (Exact(s) => Exact(SetCPSR(s, p)))
  <2> DEFINE t == SetCPSR(s, p)
  <2>1. /\ t \in CpuType /\ t.Mode = p.mode
        /\ t.Bank = IF s.Mode # p.mode THEN ModeToBank(p.mode) ELSE s.Bank
    BY <1>1, SetCPSRFacts
  <2> HIDE DEF t
  <2>2. Sound(t) /\ (Exact(s) => Exact(t))
    BY <2>1 DEF Sound, Exact
  <2> QED BY <2>2 DEF t
<1>4. ASSUME NEW f \in LoadData
      PROVE  Sound(Load(s, f)) /\ (Exact(s) => Exact(Load(s, f)))
  <2> DEFINE t == Load(s, f)
  <2>1. t \in CpuType /\ t.Mode = s.Mode /\ t.Bank = s.Bank
    BY <1>1, LoadFacts
  <2> HIDE DEF t
  <2>2. Sound(t) /\ (Exact(s) => Exact(t))
    BY <2>1 DEF Sound, Exact
  <2> QED BY <2>2 DEF t
<1>5. ASSUME NEW x \in Vectors, NEW ret \in RetData
      PROVE  Sound(Abort(s, x, ret)) /\ (Exact(s) => Exact(Abort(s, x, ret)))
  <2> DEFINE t == Abort(s, x, ret)
             m == VectorMode(x)
  <2>1. /\ t \in CpuType /\ t.Mode = m
        /\ t.Bank = IF s.Mode # m THEN m ELSE s.Bank
    BY <1>1, AbortFacts
  <2>2. ModeToBank(m) = m
    BY ModeFacts
  <2> HIDE DEF t, m
  <2>3. Sound(t) /\ (Exact(s) => Exact(t))
    BY <2>1, <2>2 DEF Sound, Exact
  <2> QED BY <2>3 DEF t
<1>6. ASSUME NEW q \in PSRs
      PROVE  LET t == [s EXCEPT !.Spsr[s.Bank] = q] IN Sound(t) /\ (Exact(s) => Exact(t))
  <2> DEFINE t == [s EXCEPT !.Spsr[s.Bank] = q]
  <2>1. t \in CpuType /\ t.Mode = s.Mode /\ t.Bank = s.Bank
    BY <1>1, SpsrFacts
  <2> HIDE DEF t
  <2>2. Sound(t) /\ (Exact(s) => Exact(t))
    BY <2>1 DEF Sound, Exact
  <2> QED BY <2>2 DEF t
<1> QED BY <1>1, <1>2, <1>3, <1>4, <1>5, <1>6 DEF Exact

\* A return from an exception, and the LDM that is one, set a PSR or do not.
LEMMA ReturnFacts ==
  ASSUME NEW s, Sound(s)
  PROVE  /\ \/ WriteSR15(s) = s
            \/ s.Bank # "usr" /\ \E q \in PSRs : WriteSR15(s) = SetCPSR(s, q)
         /\ \A f \in LoadData, ret \in RetData :
              \/ UserMode(s.Mode) /\ LoadSMultPC(s, f, FALSE, ret) = Load(s, f)
              \/ ~UserMode(s.Mode) /\ \E q \in PSRs : LoadSMultPC(s, f, FALSE, ret) = SetCPSR(Load(s, f), q)
<1>1. s \in CpuType
  BY DEF Sound
<1>2. s.Spsr[s.Bank] \in PSRs
  BY <1>1 DEF CpuType
<1>3. \/ WriteSR15(s) = s
      \/ s.Bank # "usr" /\ \E q \in PSRs : WriteSR15(s) = SetCPSR(s, q)
  BY <1>2 DEF WriteSR15
<1>4. ASSUME NEW f \in LoadData, NEW ret \in RetData
      PROVE  \/ UserMode(s.Mode) /\ LoadSMultPC(s, f, FALSE, ret) = Load(s, f)
             \/ ~UserMode(s.Mode) /\ \E q \in PSRs : LoadSMultPC(s, f, FALSE, ret) = SetCPSR(Load(s, f), q)
  <2> DEFINE t == Load(s, f)
  <2>1. t \in CpuType /\ t.Mode = s.Mode /\ t.Mode \in Modes
    BY <1>1, LoadFacts DEF CpuType
  <2>2. GetSPSR(t, t.Mode) \in PSRs
    BY <2>1, GetSPSRType
  <2>3. LoadSMultPC(s, f, FALSE, ret) = IF ~UserMode(t.Mode) THEN SetCPSR(t, GetSPSR(t, t.Mode)) ELSE t
    BY DEF LoadSMultPC
  <2> HIDE DEF t
  <2>4. CASE UserMode(s.Mode)
    BY <2>1, <2>3, <2>4 DEF t
  <2>5. CASE ~UserMode(s.Mode)
    BY <2>1, <2>2, <2>3, <2>5 DEF t
  <2> QED BY <2>4, <2>5
<1> QED BY <1>3, <1>4

\* LDM and STM with ^ that do not abort: they end with the bank of the mode and
\* the same PSRs, and change cells of the user bank only, a store none.
LEMMA UserTransferFacts ==
  ASSUME NEW s, Sound(s), NEW ret \in RetData
  PROVE  /\ \A f \in LoadData :
              LET r == LoadSMultUser(s, f, FALSE, ret)
              IN  /\ Exact(r) /\ GetCPSR(r) = GetCPSR(s) /\ r.Spsr = s.Spsr
                  /\ r.Mode = s.Mode /\ r.I = s.I /\ r.F = s.F
                  /\ Exact(s) => \A c \in Cells : FileOf(r)[c] # FileOf(s)[c] => c[1] = "usr"
         /\ LET r == StoreSMult(s, FALSE, ret)
            IN  /\ Exact(r) /\ GetCPSR(r) = GetCPSR(s) /\ r.Spsr = s.Spsr
                /\ r.Mode = s.Mode /\ r.I = s.I /\ r.F = s.F
                /\ Exact(s) => FileOf(r) = FileOf(s)
<1>1. s \in CpuType
  BY DEF Sound
<1> DEFINE t == Lent(s)
<1>2. /\ t \in CpuType /\ t.Bank = "usr" /\ t.Spsr = s.Spsr
      /\ t.Mode = s.Mode /\ t.I = s.I /\ t.F = s.F /\ GetCPSR(t) = GetCPSR(s)
      /\ Exact(s) => FileAt(t, "usr26") = FileOf(s)
  BY <1>1, LentFacts DEF Exact
<1>3. ASSUME NEW f \in LoadData
      PROVE  LET r == LoadSMultUser(s, f, FALSE, ret)
             IN  /\ Exact(r) /\ GetCPSR(r) = GetCPSR(s) /\ r.Spsr = s.Spsr
                 /\ r.Mode = s.Mode /\ r.I = s.I /\ r.F = s.F
                 /\ Exact(s) => \A c \in Cells : FileOf(r)[c] # FileOf(s)[c] => c[1] = "usr"
  <2> DEFINE u == Load(t, f)
             r == Restitute(u)
  <2>1. LoadSMultUser(s, f, FALSE, ret) = r
    BY DEF LoadSMultUser, Restitute, Lent
  <2>2. /\ u \in CpuType /\ GetCPSR(u) = GetCPSR(t) /\ u.Mode = t.Mode /\ u.I = t.I /\ u.F = t.F
        /\ u.Bank = t.Bank /\ u.Spsr = t.Spsr
        /\ \A c \in Cells : FileAt(u, "usr26")[c] # FileAt(t, "usr26")[c]
                              => c[1] = Arch!Home("usr26", c[2])
    BY <1>2, LoadFacts DEF Modes
  <2> HIDE DEF u, t
  <2>3. /\ r \in CpuType /\ r.Bank = ModeToBank(u.Mode) /\ r.Spsr = u.Spsr
        /\ r.Mode = u.Mode /\ r.I = u.I /\ r.F = u.F /\ GetCPSR(r) = GetCPSR(u)
        /\ FileOf(r) = FileAt(u, "usr26")
    BY <1>2, <2>2, RestituteFacts
  <2>4. \A k : Arch!Home("usr26", k) = "usr"
    BY DEF Arch!Home, Arch!BankOf
  <2> HIDE DEF r
  <2>5. Exact(r)
    BY <2>3 DEF Exact
  <2>6. Exact(s) => \A c \in Cells : FileOf(r)[c] # FileOf(s)[c] => c[1] = "usr"
    BY <1>2, <2>2, <2>3, <2>4
  <2> QED BY <1>2, <2>1, <2>2, <2>3, <2>5, <2>6
<1>4. LET r == StoreSMult(s, FALSE, ret)
      IN  /\ Exact(r) /\ GetCPSR(r) = GetCPSR(s) /\ r.Spsr = s.Spsr
          /\ r.Mode = s.Mode /\ r.I = s.I /\ r.F = s.F
          /\ Exact(s) => FileOf(r) = FileOf(s)
  <2> DEFINE r == Restitute(t)
  <2>1. StoreSMult(s, FALSE, ret) = r
    BY <1>2 DEF StoreSMult, Restitute, Lent
  <2> HIDE DEF t
  <2>2. /\ r \in CpuType /\ r.Bank = ModeToBank(t.Mode) /\ r.Spsr = t.Spsr
        /\ r.Mode = t.Mode /\ r.I = t.I /\ r.F = t.F /\ GetCPSR(r) = GetCPSR(t)
        /\ FileOf(r) = FileAt(t, "usr26")
    BY <1>2, RestituteFacts
  <2> HIDE DEF r
  <2>3. Exact(r)
    BY <1>2, <2>2 DEF Exact
  <2> QED BY <1>2, <2>1, <2>2, <2>3
<1> QED BY <1>3, <1>4

\* An abort inside LDM or STM with ^: the emulator's answer, whatever was loaded.
LEMMA AbortedTransferFacts ==
  ASSUME NEW s, Sound(s), NEW ret \in RetData
  PROVE  /\ \A f \in LoadData : Sound(LoadSMultUser(s, f, TRUE, ret))
         /\ \A f \in LoadData : Sound(LoadSMultPC(s, f, TRUE, ret))
         /\ Sound(StoreSMult(s, TRUE, ret))
         /\ \A f \in LoadData : LET r == LoadSMultUser(s, f, TRUE, ret)
                                IN  r.Mode = "abt" /\ r.I = TRUE /\ r.Spsr["abt"] = GetCPSR(s)
         /\ \A f \in LoadData : GetCPSR(LoadSMultPC(s, f, TRUE, ret)) = GetCPSR(s)
         /\ LET r == StoreSMult(s, TRUE, ret)
            IN  r.Mode = "abt" /\ r.I = TRUE /\ r.Spsr["abt"] = GetCPSR(s)
<1>1. s \in CpuType
  BY DEF Sound
<1>2. /\ "dabt" \in Vectors /\ VectorMode("dabt") = "abt" /\ ModeToBank("abt") = "abt"
      /\ ~UserMode("abt") /\ "abt" \in Banks /\ "abt" \in Modes
  BY DEF Vectors, VectorMode, ModeToBank, UserMode, Banks, Modes
<1>3. ASSUME NEW x \in CpuType
      PROVE  LET a == Abort(x, "dabt", ret)
             IN  /\ a \in CpuType /\ a.Mode = "abt" /\ a.I = TRUE
                 /\ a.Bank = (IF x.Mode # "abt" THEN "abt" ELSE x.Bank)
                 /\ a.Spsr["abt"] = GetCPSR(x)
  <2> DEFINE a == Abort(x, "dabt", ret)
  <2>1. a \in CpuType /\ a.I = TRUE
    BY <1>2, AbortFacts
  <2>2. a.Mode = "abt" /\ a.Bank = (IF x.Mode # "abt" THEN "abt" ELSE x.Bank)
    BY <1>2, AbortFacts
  <2>3. a.Spsr["abt"] = GetCPSR(x)
    BY <1>2, AbortSpsr
  <2> QED BY <2>1, <2>2, <2>3
<1> DEFINE t == Lent(s)
<1>4. t \in CpuType /\ t.Bank = "usr" /\ GetCPSR(t) = GetCPSR(s)
  BY <1>1, LentFacts
<1>5. ASSUME NEW f \in LoadData
      PROVE  LET r == LoadSMultUser(s, f, TRUE, ret)
             IN  Sound(r) /\ r.Mode = "abt" /\ r.I = TRUE /\ r.Spsr["abt"] = GetCPSR(s)
  <2> DEFINE x == Load(t, f)
             a == Abort(x, "dabt", ret)
             r == Restitute(a)
  <2>1. LoadSMultUser(s, f, TRUE, ret) = r
    BY DEF LoadSMultUser, Restitute, Lent
  <2> HIDE DEF t
  <2>2. x \in CpuType /\ GetCPSR(x) = GetCPSR(s)
    BY <1>4, LoadFacts
  <2> HIDE DEF x
  <2>3. a \in CpuType /\ a.Mode = "abt" /\ a.I = TRUE /\ a.Spsr["abt"] = GetCPSR(s)
    BY <1>3, <2>2
  <2> HIDE DEF a
  <2>4. r \in CpuType /\ r.Bank = "abt" /\ r.Spsr = a.Spsr /\ r.Mode = "abt" /\ r.I = a.I
    BY <1>2, <2>3, RestituteFacts
  <2> HIDE DEF r
  <2>5. Sound(r)
    BY <1>2, <2>4 DEF Sound
  <2> QED BY <2>1, <2>3, <2>4, <2>5
<1>6. ASSUME NEW f \in LoadData
      PROVE  LET r == LoadSMultPC(s, f, TRUE, ret)
             IN  Sound(r) /\ GetCPSR(r) = GetCPSR(s)
  <2> DEFINE x == Load(s, f)
             a == Abort(x, "dabt", ret)
  <2>1. Sound(x) /\ x \in CpuType /\ GetCPSR(x) = GetCPSR(s)
    BY <1>1, LoadFacts, SoundFacts
  <2>2. Sound(a)
    <3> HIDE DEF x
    <3> QED BY <1>2, <2>1, SoundFacts
  <2>3. LoadSMultPC(s, f, TRUE, ret) = IF ~UserMode(a.Mode) THEN SetCPSR(a, GetSPSR(a, a.Mode)) ELSE a
    BY DEF LoadSMultPC
  <2> HIDE DEF x
  <2>4. a \in CpuType /\ a.Mode = "abt" /\ a.Spsr["abt"] = GetCPSR(s)
    BY <1>3, <2>1
  <2> HIDE DEF a
  <2>5. GetSPSR(a, a.Mode) = GetCPSR(s)
    BY <1>2, <2>4 DEF GetSPSR, HasSpsr
  <2>6. GetCPSR(s) \in PSRs
    BY <1>1 DEF GetCPSR, PSRs, CpuType
  <2>7. LoadSMultPC(s, f, TRUE, ret) = SetCPSR(a, GetCPSR(s))
    BY <1>2, <2>3, <2>4, <2>5
  <2>8. Sound(SetCPSR(a, GetCPSR(s)))
    BY <2>2, <2>6, SoundFacts
  <2>9. GetCPSR(SetCPSR(a, GetCPSR(s))) = GetCPSR(s)
    BY <2>4, <2>6, SetCPSRFacts
  <2> QED BY <2>7, <2>8, <2>9
<1>7. LET r == StoreSMult(s, TRUE, ret)
      IN  Sound(r) /\ r.Mode = "abt" /\ r.I = TRUE /\ r.Spsr["abt"] = GetCPSR(s)
  <2> DEFINE r == Abort(t, "dabt", ret)
  <2>1. StoreSMult(s, TRUE, ret) = r
    BY DEF StoreSMult, Lent
  <2> HIDE DEF t
  <2>2. /\ r \in CpuType /\ r.Mode = "abt" /\ r.I = TRUE /\ r.Bank \in {"abt", "usr"}
        /\ r.Spsr["abt"] = GetCPSR(s)
    BY <1>3, <1>4
  <2> HIDE DEF r
  <2>3. Sound(r)
    BY <1>2, <2>2 DEF Sound
  <2> QED BY <2>1, <2>2, <2>3
<1> QED BY <1>5, <1>6, <1>7

-----------------------------------------------------------------------------
(* Invariants *)

\* No memory access of an LDM or STM with ^ aborts.
NoAbort == MayAbort \subseteq {FALSE}

\* The reset state agrees with itself.
LEMMA InitExact == Init => Exact(cpu) /\ Sound(cpu)
<1> SUFFICES ASSUME Init PROVE Exact(cpu) /\ Sound(cpu)
  OBVIOUS
<1>1. ZeroPsr \in PSRs /\ "svc" \in Banks /\ "svc" \in Modes /\ ModeToBank("svc") = "svc"
  BY DEF ZeroPsr, PSRs, Modes, Banks, ModeToBank
<1>2. cpu \in CpuType /\ cpu.Bank = "svc" /\ cpu.Mode = "svc"
  BY <1>1, ArmAssumption DEF Init, CpuType
<1> QED BY <1>1, <1>2 DEF Exact, Sound

\* Every step of the core keeps mode and bank in agreement, exactly so as long as
\* no transfer aborts.
LEMMA StepSound ==
  ASSUME Sound(cpu), Next
  PROVE  Sound(cpu') /\ (NoAbort /\ Exact(cpu) => Exact(cpu'))
<1> DEFINE Good(t) == Sound(t) /\ (NoAbort /\ Exact(cpu) => Exact(t))
<1> USE SoundFacts
<1>0. cpu \in CpuType
  BY DEF Sound
<1>1. ASSUME NEW x \in Vectors, NEW ret \in RetData, Exception(x, ret) PROVE Good(cpu')
  BY <1>1 DEF Exception
<1>2. ASSUME NEW f \in LoadData, DataProcessing(f) PROVE Good(cpu')
  BY <1>2 DEF DataProcessing
<1>3. ASSUME NEW f \in LoadData, NEW abort \in MayAbort, NEW ret \in RetData,
             LdmPc(f, abort, ret)
      PROVE  Good(cpu')
  <2>1. CASE abort = FALSE
    <3>1. cpu' = LoadSMultPC(cpu, f, FALSE, ret)
      BY <1>3, <2>1 DEF LdmPc
    <3>2. cpu' = Load(cpu, f) \/ \E q \in PSRs : cpu' = SetCPSR(Load(cpu, f), q)
      BY <3>1, ReturnFacts
    <3>3. Good(Load(cpu, f))
      OBVIOUS
    <3>4. ASSUME NEW q \in PSRs, cpu' = SetCPSR(Load(cpu, f), q) PROVE Good(cpu')
      BY <3>3, <3>4
    <3> QED BY <3>2, <3>3, <3>4
  <2>2. CASE abort = TRUE
    <3>1. cpu' = LoadSMultPC(cpu, f, TRUE, ret)
      BY <1>3, <2>2 DEF LdmPc
    <3> QED BY <2>2, <3>1, AbortedTransferFacts DEF NoAbort
  <2> QED BY <2>1, <2>2, ArmAssumption
<1>4. ASSUME NEW f \in LoadData, NEW abort \in MayAbort, NEW ret \in RetData,
             LdmUser(f, abort, ret)
      PROVE  Good(cpu')
  <2>1. CASE abort = FALSE
    <3>1. cpu' = LoadSMultUser(cpu, f, FALSE, ret)
      BY <1>4, <2>1 DEF LdmUser
    <3>2. Exact(cpu')
      BY <3>1, UserTransferFacts
    <3> QED BY <3>2 DEF Exact, Sound
  <2>2. CASE abort = TRUE
    <3>1. cpu' = LoadSMultUser(cpu, f, TRUE, ret)
      BY <1>4, <2>2 DEF LdmUser
    <3> QED BY <2>2, <3>1, AbortedTransferFacts DEF NoAbort
  <2> QED BY <2>1, <2>2, ArmAssumption
<1>5. ASSUME NEW abort \in MayAbort, NEW ret \in RetData, StmUser(abort, ret) PROVE Good(cpu')
  <2>1. CASE abort = FALSE
    <3>1. cpu' = StoreSMult(cpu, FALSE, ret)
      BY <1>5, <2>1 DEF StmUser
    <3>2. Exact(cpu')
      BY <3>1, UserTransferFacts
    <3> QED BY <3>2 DEF Exact, Sound
  <2>2. CASE abort = TRUE
    <3>1. cpu' = StoreSMult(cpu, TRUE, ret)
      BY <1>5, <2>2 DEF StmUser
    <3> QED BY <2>2, <3>1, AbortedTransferFacts DEF NoAbort
  <2> QED BY <2>1, <2>2, ArmAssumption
<1>6. ASSUME NEW p \in PsrData, NEW c \in BOOLEAN, NEW f \in BOOLEAN, MsrCpsr(p, c, f)
      PROVE  Good(cpu')
  <2>1. \E q \in PSRs : cpu' = SetCPSR(cpu, q)
    BY <1>0, <1>6, FixCPSRFacts DEF MsrCpsr
  <2> QED BY <2>1
<1>7. ASSUME NEW p \in PsrData, NEW c \in BOOLEAN, NEW f \in BOOLEAN, MsrSpsr(p, c, f)
      PROVE  Good(cpu')
  <2>1. cpu' = cpu \/ \E q \in PSRs : cpu' = [cpu EXCEPT !.Spsr[cpu.Bank] = q]
    BY <1>0, <1>7, FixSPSRFacts DEF MsrSpsr
  <2> QED BY <2>1
<1>8. CASE Return
  <2>1. cpu' = cpu \/ \E q \in PSRs : cpu' = SetCPSR(cpu, q)
    BY <1>8, ReturnFacts DEF Return
  <2> QED BY <2>1
<1> QED BY <1>1, <1>2, <1>3, <1>4, <1>5, <1>6, <1>7, <1>8 DEF Next

\* The agreement is an invariant of every program, aborting transfers included.
LEMMA AlwaysSound == Spec => []Sound(cpu)
<1>1. Sound(cpu) /\ [Next]_cpu => Sound(cpu)'
  BY StepSound
<1> QED BY <1>1, InitExact, PTL DEF Spec

\* If no LDM or STM with ^ aborts, the registers keep their types and the live
\* bank is always that of the mode.
THEOREM TypeCorrect == ASSUME NoAbort PROVE Spec => []TypeOK
<1>1. Exact(cpu) /\ Sound(cpu) /\ [Next]_cpu => (Exact(cpu) /\ Sound(cpu))'
  <2> SUFFICES ASSUME Exact(cpu), Sound(cpu), [Next]_cpu PROVE Exact(cpu') /\ Sound(cpu')
    OBVIOUS
  <2> QED BY StepSound
<1>2. Exact(cpu) => TypeOK
  BY DEF Exact, TypeOK
<1> QED BY <1>1, <1>2, InitExact, PTL DEF Spec

\* From a state whose live bank is that of its mode, an exception and the return
\* from it restore PSR and registers.
LEMMA RoundTripExact == Exact(cpu) => RoundTrip
<1> SUFFICES ASSUME Exact(cpu), NEW x \in Vectors, NEW ret \in RetData
             PROVE  LET back == WriteSR15(Abort(cpu, x, ret))
                    IN  /\ GetCPSR(back) = GetCPSR(cpu)
                        /\ \A c \in Cells : c # <<VectorMode(x), 14>> =>
                                              FileOf(back)[c] = FileOf(cpu)[c]
  BY DEF RoundTrip
<1> DEFINE a == Abort(cpu, x, ret)
           m == VectorMode(x)
           old == GetCPSR(cpu)
<1>1. cpu \in CpuType /\ cpu.Bank = ModeToBank(cpu.Mode)
  BY DEF Exact
<1>2. m # "usr" /\ ModeToBank(m) = m
  BY ModeFacts
<1>3. old \in PSRs
  BY <1>1 DEF GetCPSR, PSRs, CpuType
<1>4. a \in CpuType
  BY <1>1, AbortFacts
<1>5. a.Bank = m
  BY <1>1, <1>2, AbortFacts
<1>6. a.Spsr[m] = old
  BY <1>1, AbortSpsr
<1>7. FileOf(a) = [FileOf(cpu) EXCEPT ![<<m, 14>>] = ret]
  BY <1>1, AbortFile
<1>8. DOMAIN FileOf(cpu) = Cells
  BY DEF FileOf
<1> HIDE DEF a, m, old
<1>9. WriteSR15(a) = SetCPSR(a, old)
  BY <1>2, <1>5, <1>6 DEF WriteSR15
<1>10. GetCPSR(SetCPSR(a, old)) = old /\ FileOf(SetCPSR(a, old)) = FileOf(a)
  BY <1>3, <1>4, SetCPSRFacts
<1>11. ASSUME NEW c \in Cells, c # <<m, 14>> PROVE FileOf(a)[c] = FileOf(cpu)[c]
  <2> DEFINE g == FileOf(cpu)
  <2> HIDE DEF g
  <2>1. [g EXCEPT ![<<m, 14>>] = ret][c] = g[c]
    BY <1>8, <1>11 DEF g
  <2> QED BY <1>7, <2>1 DEF g
<1> QED BY <1>9, <1>10, <1>11 DEF a, m, old

\* Taking an exception and returning at once restores CPSR and every banked
\* register but the handler's own r14, from every state a program can reach
\* without an aborting user-bank transfer (USR -> IRQ -> SVC included).
THEOREM RoundTripCorrect == ASSUME NoAbort PROVE Spec => []RoundTrip
<1>1. TypeOK => RoundTrip
  BY RoundTripExact DEF TypeOK, Exact
<1> QED BY <1>1, TypeCorrect, PTL

-----------------------------------------------------------------------------
(* User mode *)

\* What a step may do to a user program.
Confined(s, t) ==
  UserMode(s.Mode) =>
    \/ t.Mode = s.Mode /\ t.I = s.I /\ t.F = s.F
    \/ ~UserMode(t.Mode) /\ t.I /\ t.Spsr[ModeToBank(t.Mode)] = GetCPSR(s)

\* A state with the same PSR confines.
LEMMA SamePsrConfines == ASSUME NEW s, NEW t, GetCPSR(t) = GetCPSR(s) PROVE Confined(s, t)
BY DEF GetCPSR, Confined

\* A data abort confines.
LEMMA AbortConfines ==
  ASSUME NEW s, NEW t, t.Mode = "abt", t.I = TRUE, t.Spsr["abt"] = GetCPSR(s)
  PROVE  Confined(s, t)
<1>1. ~UserMode("abt") /\ ModeToBank("abt") = "abt"
  BY DEF UserMode, ModeToBank
<1> QED BY <1>1 DEF Confined

\* Every step confines a user program.
LEMMA StepConfines == ASSUME Sound(cpu), Next PROVE Confined(cpu, cpu')
<1>0. cpu \in CpuType /\ (UserMode(cpu.Mode) => cpu.Bank = "usr")
  BY SoundFacts
<1>1. ASSUME NEW x \in Vectors, NEW ret \in RetData, Exception(x, ret)
      PROVE  Confined(cpu, cpu')
  <2>1. cpu' = Abort(cpu, x, ret)
    BY <1>1 DEF Exception
  <2>2. cpu'.Mode = VectorMode(x)
    BY <1>0, <2>1, AbortFacts
  <2>3. cpu'.I = TRUE
    BY <1>0, <2>1, AbortFacts
  <2>4. cpu'.Spsr[VectorMode(x)] = GetCPSR(cpu)
    BY <1>0, <2>1, AbortSpsr
  <2>5. ~UserMode(VectorMode(x)) /\ ModeToBank(VectorMode(x)) = VectorMode(x)
    BY ModeFacts
  <2> QED BY <2>2, <2>3, <2>4, <2>5 DEF Confined
<1>2. ASSUME NEW f \in LoadData, DataProcessing(f) PROVE Confined(cpu, cpu')
  BY <1>0, <1>2, LoadFacts, SamePsrConfines DEF DataProcessing
<1>3. ASSUME NEW f \in LoadData, NEW abort \in MayAbort, NEW ret \in RetData,
             LdmPc(f, abort, ret)
      PROVE  Confined(cpu, cpu')
  <2>1. CASE abort = FALSE
    <3>1. cpu' = LoadSMultPC(cpu, f, FALSE, ret)
      BY <1>3, <2>1 DEF LdmPc
    <3>2. UserMode(cpu.Mode) => cpu' = Load(cpu, f)
      BY <3>1, ReturnFacts
    <3>3. UserMode(cpu.Mode) => GetCPSR(cpu') = GetCPSR(cpu)
      BY <1>0, <3>2, LoadFacts
    <3> QED BY <3>3, SamePsrConfines DEF Confined
  <2>2. CASE abort = TRUE
    <3>1. GetCPSR(cpu') = GetCPSR(cpu)
      BY <1>3, <2>2, AbortedTransferFacts DEF LdmPc
    <3> QED BY <3>1, SamePsrConfines
  <2> QED BY <2>1, <2>2, ArmAssumption
<1>4. ASSUME NEW f \in LoadData, NEW abort \in MayAbort, NEW ret \in RetData,
             LdmUser(f, abort, ret)
      PROVE  Confined(cpu, cpu')
  <2>1. CASE abort = FALSE
    <3>1. GetCPSR(cpu') = GetCPSR(cpu)
      BY <1>4, <2>1, UserTransferFacts DEF LdmUser
    <3> QED BY <3>1, SamePsrConfines
  <2>2. CASE abort = TRUE
    <3>1. cpu'.Mode = "abt" /\ cpu'.I = TRUE /\ cpu'.Spsr["abt"] = GetCPSR(cpu)
      BY <1>4, <2>2, AbortedTransferFacts DEF LdmUser
    <3> QED BY <3>1, AbortConfines
  <2> QED BY <2>1, <2>2, ArmAssumption
<1>5. ASSUME NEW abort \in MayAbort, NEW ret \in RetData, StmUser(abort, ret)
      PROVE  Confined(cpu, cpu')
  <2>1. CASE abort = FALSE
    <3>1. GetCPSR(cpu') = GetCPSR(cpu)
      BY <1>5, <2>1, UserTransferFacts DEF StmUser
    <3> QED BY <3>1, SamePsrConfines
  <2>2. CASE abort = TRUE
    <3>1. cpu'.Mode = "abt" /\ cpu'.I = TRUE /\ cpu'.Spsr["abt"] = GetCPSR(cpu)
      BY <1>5, <2>2, AbortedTransferFacts DEF StmUser
    <3> QED BY <3>1, AbortConfines
  <2> QED BY <2>1, <2>2, ArmAssumption
<1>6. ASSUME NEW p \in PsrData, NEW c \in BOOLEAN, NEW f \in BOOLEAN, MsrCpsr(p, c, f)
      PROVE  Confined(cpu, cpu')
  <2>1. PICK q \in PSRs :
           /\ cpu' = SetCPSR(cpu, q)
           /\ UserMode(cpu.Mode) => q.mode = cpu.Mode /\ q.I = cpu.I /\ q.F = cpu.F
    BY <1>0, <1>6, FixCPSRFacts DEF MsrCpsr
  <2>2. cpu'.Mode = q.mode /\ cpu'.I = q.I /\ cpu'.F = q.F
    BY <1>0, <2>1, SetCPSRFacts
  <2> QED BY <2>1, <2>2 DEF Confined
<1>7. ASSUME NEW p \in PsrData, NEW c \in BOOLEAN, NEW f \in BOOLEAN, MsrSpsr(p, c, f)
      PROVE  Confined(cpu, cpu')
  <2>1. cpu' = cpu \/ cpu.Bank # "usr"
    BY <1>0, <1>7, FixSPSRFacts DEF MsrSpsr
  <2> QED BY <1>0, <2>1 DEF Confined
<1>8. CASE Return
  <2>1. cpu' = cpu \/ cpu.Bank # "usr"
    BY <1>8, ReturnFacts DEF Return
  <2> QED BY <1>0, <2>1 DEF Confined
<1> QED BY <1>1, <1>2, <1>3, <1>4, <1>5, <1>6, <1>7, <1>8 DEF Next

\* No program in user mode changes mode or interrupt masks but through an
\* exception that masks IRQ and saves its CPSR; this holds with aborting
\* transfers too.
THEOREM ConfinementCorrect == Spec => UserModeIsConfined
<1>1. Sound(cpu) /\ [Next]_cpu =>
        [UserMode(cpu.Mode) =>
           \/ cpu'.Mode = cpu.Mode /\ cpu'.I = cpu.I /\ cpu'.F = cpu.F
           \/ ~UserMode(cpu'.Mode) /\ cpu'.I
              /\ cpu'.Spsr[ModeToBank(cpu'.Mode)] = GetCPSR(cpu)]_cpu
  BY StepConfines DEF Confined
<1> QED BY <1>1, AlwaysSound, PTL DEF Spec, UserModeIsConfined

-----------------------------------------------------------------------------
(* ArmMode without aborting transfers implements ArmRegFile *)

SpsrOf(s) == [b \in Banks \ {"usr"} |-> s.Spsr[b]]

\* The two modules mean the same sets.
LEMMA ArchSets ==
  /\ Arch!Banks = Banks /\ Arch!Cells = Cells /\ Arch!PSRs = PSRs
  /\ \A k : Arch!Home("usr", k) = "usr"
BY DEF Arch!Banks, Arch!Modes, Arch!Regs, Arch!Cells, Arch!PSRs, Arch!Home, Arch!BankOf,
       Banks, Modes, Regs, Cells, PSRs

\* The file holds register values, and a PSR is one.
LEMMA FileType ==
  ASSUME NEW s \in CpuType
  PROVE  FileOf(s) \in [Cells -> Values] /\ GetCPSR(s) \in PSRs
<1>1. GetCPSR(s) \in PSRs
  BY DEF GetCPSR, PSRs, CpuType
<1>2. ASSUME NEW c \in Cells PROVE CellOf(s, c[1], c[2]) \in Values
  <2>1. c[1] \in Banks /\ c[2] \in Regs
    BY DEF Cells
  <2>2. s.Reg[c[2]] \in Values /\ s.RegBank[c[1]][c[2]] \in Values
    BY <2>1 DEF CpuType
  <2> QED BY <2>2 DEF CellOf
<1> QED BY <1>1, <1>2 DEF FileOf

\* An instruction that changes registers of its own mode or of the user bank.
LEMMA ExecuteStep ==
  ASSUME cpu' \in CpuType, cpu'.Spsr = cpu.Spsr,
         \/ \A c \in Cells : FileOf(cpu')[c] # FileOf(cpu)[c] => c[1] = Arch!Home(cpu.Mode, c[2])
         \/ \A c \in Cells : FileOf(cpu')[c] # FileOf(cpu)[c] => c[1] = "usr"
  PROVE  Arch!ArchNext
<1>1. FileOf(cpu)' = FileOf(cpu') /\ GetCPSR(cpu)' = GetCPSR(cpu')
  BY DEF FileOf, CellOf, Visible, GetCPSR
<1>2. FileOf(cpu)' \in [Arch!Cells -> Values] /\ GetCPSR(cpu)' \in Arch!PSRs
  BY <1>1, FileType, ArchSets
<1>3. GetCPSR(cpu).mode = cpu.Mode
  BY DEF GetCPSR
<1>4. Arch!Writes(GetCPSR(cpu).mode) \/ Arch!Writes("usr")
  BY <1>1, <1>2, <1>3, ArchSets DEF Arch!Writes
<1>5. [b \in Banks \ {"usr"} |-> cpu.Spsr[b]]' = [b \in Banks \ {"usr"} |-> cpu.Spsr[b]]
  OBVIOUS
<1> QED BY <1>2, <1>4, <1>5 DEF Arch!ArchNext, Arch!Execute

\* An instruction that changes no register.
LEMMA PsrStep ==
  ASSUME cpu' \in CpuType, cpu'.Spsr = cpu.Spsr, FileOf(cpu') = FileOf(cpu)
  PROVE  Arch!ArchNext
BY ExecuteStep

\* The step of an exception.
LEMMA ExceptionStep ==
  ASSUME Exact(cpu), NEW x \in Vectors, NEW ret \in RetData, cpu' = Abort(cpu, x, ret)
  PROVE  Arch!ArchNext
<1> DEFINE m == VectorMode(x)
           off == x \in {"reset", "fiq"}
<1>1. cpu \in CpuType
  BY DEF Exact
<1>2. m \in Banks \ {"usr"} /\ m \in Arch!Banks \ {"usr"} /\ ret \in Values /\ off \in BOOLEAN
  BY ModeFacts, ArchSets, ArmAssumption
<1>3. FileOf(cpu)' = [FileOf(cpu) EXCEPT ![<<m, 14>>] = ret]
  <2>1. FileOf(cpu)' = FileOf(cpu')
    BY DEF FileOf, CellOf, Visible
  <2> QED BY <1>1, <2>1, AbortFile
<1>4. GetCPSR(cpu)' = [GetCPSR(cpu) EXCEPT !.mode = m, !.I = TRUE, !.F = @ \/ off]
  <2>1. GetCPSR(cpu)' = GetCPSR(cpu')
    BY DEF GetCPSR
  <2>2. GetCPSR(cpu') = HandlerPsr(cpu, x)
    BY <1>1, AbortFacts
  <2>3. HandlerPsr(cpu, x) = [GetCPSR(cpu) EXCEPT !.mode = m, !.I = TRUE, !.F = @ \/ off]
    BY DEF HandlerPsr
  <2> HIDE DEF m, off
  <2> QED BY <2>1, <2>2, <2>3
<1>5. SpsrOf(cpu)' = [SpsrOf(cpu) EXCEPT ![m] = GetCPSR(cpu)]
  <2>1. cpu'.Spsr = [cpu.Spsr EXCEPT ![m] = GetCPSR(cpu)]
    BY <1>1, AbortFacts
  <2>2. cpu.Spsr \in [Banks -> PSRs]
    BY <1>1 DEF CpuType
  <2> HIDE DEF m
  <2> QED BY <1>2, <2>1, <2>2 DEF SpsrOf
<1>6. Arch!Enter(m, off, ret)
  <2> HIDE DEF m, off
  <2> QED BY <1>3, <1>4, <1>5 DEF Arch!Enter, SpsrOf
<1> HIDE DEF m, off
<1> QED BY <1>2, <1>6 DEF Arch!ArchNext

\* The step of a write to an SPSR.
LEMMA SpsrStep ==
  ASSUME cpu \in CpuType, NEW q \in PSRs, NEW b \in Banks \ {"usr"}, cpu.Bank = b,
         cpu' = [cpu EXCEPT !.Spsr[b] = q]
  PROVE  Arch!ArchNext
<1>1. b \in Arch!Banks \ {"usr"}
  BY ArchSets
<1>2. /\ GetCPSR(cpu') = GetCPSR(cpu) /\ FileOf(cpu') = FileOf(cpu)
      /\ cpu'.Spsr = [cpu.Spsr EXCEPT ![b] = q]
  BY SpsrFacts
<1>3. cpu.Spsr \in [Banks -> PSRs]
  BY DEF CpuType
<1>4. GetCPSR(cpu)' = GetCPSR(cpu) /\ FileOf(cpu)' = FileOf(cpu)
  BY <1>2 DEF FileOf, CellOf, Visible, GetCPSR
<1>5. SpsrOf(cpu)' = [SpsrOf(cpu) EXCEPT ![b] = q] /\ SpsrOf(cpu)'[b] = q
  BY <1>2, <1>3 DEF SpsrOf
<1>6. SpsrOf(cpu)'[b] \in Arch!PSRs /\ SpsrOf(cpu)' = [SpsrOf(cpu) EXCEPT ![b] = SpsrOf(cpu)'[b]]
  BY <1>5, ArchSets
<1>7. Arch!SetSpsr(b)
  <2> USE DEF SpsrOf
  <2> QED BY ONLY <1>4, <1>6 DEF Arch!SetSpsr
<1> QED BY <1>1, <1>7 DEF Arch!ArchNext

\* Every step of the core without an aborting transfer is a step of ArmRegFile.
LEMMA ArchStep ==
  ASSUME NoAbort, Exact(cpu), Next
  PROVE  Arch!ArchNext \/ UNCHANGED cpu
<1>0. cpu \in CpuType /\ Sound(cpu)
  BY DEF Exact, Sound
<1>1. ASSUME NEW x \in Vectors, NEW ret \in RetData, Exception(x, ret) PROVE Arch!ArchNext
  BY <1>1, ExceptionStep DEF Exception
<1>2. ASSUME NEW f \in LoadData
      PROVE  /\ Load(cpu, f) \in CpuType /\ Load(cpu, f).Spsr = cpu.Spsr
             /\ \A c \in Cells : FileOf(Load(cpu, f))[c] # FileOf(cpu)[c]
                                   => c[1] = Arch!Home(cpu.Mode, c[2])
  <2>1. /\ Load(cpu, f) \in CpuType /\ Load(cpu, f).Spsr = cpu.Spsr
        /\ Load(cpu, f).Mode = cpu.Mode /\ cpu.Mode \in Modes
    BY <1>0, LoadFacts DEF CpuType
  <2>2. \A c \in Cells : FileAt(Load(cpu, f), cpu.Mode)[c] # FileAt(cpu, cpu.Mode)[c]
                            => c[1] = Arch!Home(cpu.Mode, c[2])
    BY <1>0, <2>1, LoadFacts
  <2>3. FileOf(Load(cpu, f)) = FileAt(Load(cpu, f), cpu.Mode) /\ FileOf(cpu) = FileAt(cpu, cpu.Mode)
    BY <2>1, FileOfMode
  <2> QED BY <2>1, <2>2, <2>3
<1>3. ASSUME NEW f \in LoadData, DataProcessing(f) PROVE Arch!ArchNext
  BY <1>2, <1>3, ExecuteStep DEF DataProcessing
<1>4. ASSUME NEW f \in LoadData, NEW abort \in MayAbort, NEW ret \in RetData,
             LdmPc(f, abort, ret)
      PROVE  Arch!ArchNext
  <2>1. cpu' = LoadSMultPC(cpu, f, FALSE, ret)
    BY <1>4 DEF LdmPc, NoAbort
  <2>2. cpu' = Load(cpu, f) \/ \E q \in PSRs : cpu' = SetCPSR(Load(cpu, f), q)
    BY <1>0, <2>1, ReturnFacts
  <2>3. cpu' \in CpuType /\ cpu'.Spsr = cpu.Spsr /\ FileOf(cpu') = FileOf(Load(cpu, f))
    BY <1>2, <2>2, SetCPSRFacts
  <2> QED BY <1>2, <2>3, ExecuteStep
<1>5. ASSUME NEW f \in LoadData, NEW abort \in MayAbort, NEW ret \in RetData,
             LdmUser(f, abort, ret)
      PROVE  Arch!ArchNext
  <2>1. cpu' = LoadSMultUser(cpu, f, FALSE, ret)
    BY <1>5 DEF LdmUser, NoAbort
  <2>2. /\ Exact(cpu') /\ cpu'.Spsr = cpu.Spsr
        /\ \A c \in Cells : FileOf(cpu')[c] # FileOf(cpu)[c] => c[1] = "usr"
    BY <1>0, <2>1, UserTransferFacts
  <2>3. cpu' \in CpuType
    BY <2>2 DEF Exact
  <2> QED BY <2>2, <2>3, ExecuteStep
<1>6. ASSUME NEW abort \in MayAbort, NEW ret \in RetData, StmUser(abort, ret)
      PROVE  Arch!ArchNext
  <2>1. cpu' = StoreSMult(cpu, FALSE, ret)
    BY <1>6 DEF StmUser, NoAbort
  <2>2. Exact(cpu') /\ cpu'.Spsr = cpu.Spsr /\ FileOf(cpu') = FileOf(cpu)
    BY <1>0, <2>1, UserTransferFacts
  <2>3. cpu' \in CpuType
    BY <2>2 DEF Exact
  <2> QED BY <2>2, <2>3, PsrStep
<1>7. ASSUME NEW q \in PSRs, cpu' = SetCPSR(cpu, q) PROVE Arch!ArchNext
  BY <1>0, <1>7, SetCPSRFacts, PsrStep
<1>8. ASSUME NEW p \in PsrData, NEW c \in BOOLEAN, NEW f \in BOOLEAN, MsrCpsr(p, c, f)
      PROVE  Arch!ArchNext
  <2>1. \E q \in PSRs : cpu' = SetCPSR(cpu, q)
    BY <1>0, <1>8, FixCPSRFacts DEF MsrCpsr
  <2> QED BY <1>7, <2>1
<1>9. ASSUME NEW p \in PsrData, NEW c \in BOOLEAN, NEW f \in BOOLEAN, MsrSpsr(p, c, f)
      PROVE  Arch!ArchNext \/ UNCHANGED cpu
  <2>1. \/ cpu' = cpu
        \/ \E q \in PSRs : cpu.Bank # "usr" /\ cpu' = [cpu EXCEPT !.Spsr[cpu.Bank] = q]
    BY <1>0, <1>9, FixSPSRFacts DEF MsrSpsr
  <2>2. ASSUME NEW q \in PSRs, cpu.Bank # "usr", cpu' = [cpu EXCEPT !.Spsr[cpu.Bank] = q]
        PROVE  Arch!ArchNext
    <3>1. PICK b \in Banks \ {"usr"} : cpu.Bank = b
      BY <1>0, <2>2 DEF CpuType
    <3> QED BY <1>0, <2>2, <3>1, SpsrStep
  <2> QED BY <2>1, <2>2
<1>10. CASE Return
  <2>1. cpu' = cpu \/ \E q \in PSRs : cpu' = SetCPSR(cpu, q)
    BY <1>0, <1>10, ReturnFacts DEF Return
  <2> QED BY <1>7, <2>1
<1> QED BY <1>1, <1>3, <1>4, <1>5, <1>6, <1>8, <1>9, <1>10 DEF Next

\* The initial state of the core is the initial state of ArmRegFile.
LEMMA ArchInitial == Init => Arch!ArchInit
<1> SUFFICES ASSUME Init PROVE Arch!ArchInit
  OBVIOUS
<1>1. FileOf(cpu) = [c \in Arch!Cells |-> 0]
  <2>1. ASSUME NEW c \in Cells PROVE CellOf(cpu, c[1], c[2]) = 0
    <3>1. c[1] \in Banks /\ c[2] \in Regs
      BY DEF Cells
    <3> QED BY <3>1 DEF Init, CellOf
  <2> QED BY <2>1, ArchSets DEF FileOf
<1>2. GetCPSR(cpu) = [mode |-> "svc", I |-> TRUE, F |-> TRUE, cc |-> FALSE]
  BY DEF Init, GetCPSR
<1>3. [b \in Banks \ {"usr"} |-> cpu.Spsr[b]] =
        [b \in Arch!Banks \ {"usr"} |->
           [mode |-> "usr26", I |-> FALSE, F |-> FALSE, cc |-> FALSE]]
  BY ArchSets DEF Init, ZeroPsr
<1> QED BY <1>1, <1>2, <1>3 DEF Arch!ArchInit

\* The copying between live registers and bank matrix is invisible: for every
\* program without aborting user-bank transfers, the core implements the register
\* file in which every banked register is a cell of its own.
THEOREM BanksCorrect == ASSUME NoAbort PROVE Spec => BanksAreInvisible
<1>1. TypeOK /\ [Next]_cpu =>
        [Arch!ArchNext]_<<FileOf(cpu), GetCPSR(cpu), [b \in Banks \ {"usr"} |-> cpu.Spsr[b]]>>
  <2> SUFFICES ASSUME TypeOK, [Next]_cpu
               PROVE  \/ Arch!ArchNext
                      \/ UNCHANGED <<FileOf(cpu), GetCPSR(cpu),
                                     [b \in Banks \ {"usr"} |-> cpu.Spsr[b]]>>
    OBVIOUS
  <2>1. CASE UNCHANGED cpu
    BY <2>1 DEF FileOf, CellOf, Visible, GetCPSR
  <2>2. CASE Next
    <3>1. Exact(cpu)
      BY DEF TypeOK, Exact
    <3> QED BY <2>1, <2>2, <3>1, ArchStep
  <2> QED BY <2>1, <2>2
<1>2. Spec => Arch!ArchInit /\
        [][Arch!ArchNext]_<<FileOf(cpu), GetCPSR(cpu), [b \in Banks \ {"usr"} |-> cpu.Spsr[b]]>>
  BY <1>1, ArchInitial, TypeCorrect, PTL DEF Spec
<1> QED BY <1>2, PTL DEF BanksAreInvisible, Arch!ArchSpec

\* LDM and STM with ^ that do not abort put back the bank they found: no register
\* of a privileged mode changes.  (With an abort they do not: see run
\* MCArmAbort.)
THEOREM UserTransferCorrect == ASSUME NoAbort PROVE Spec => UserTransferKeepsBanks
<1> DEFINE Transfer == \E abort \in MayAbort, ret \in RetData :
                         StmUser(abort, ret) \/ \E f \in LoadData : LdmUser(f, abort, ret)
           Kept == \A c \in Cells : c[1] # "usr" /\ c # <<"abt", 14>> =>
                     FileOf(cpu)'[c] = FileOf(cpu)[c]
<1>1. TypeOK /\ [Next]_cpu => [Transfer => Kept]_cpu
  <2> SUFFICES ASSUME TypeOK, Transfer PROVE Kept
    OBVIOUS
  <2>0. Exact(cpu) /\ Sound(cpu)
    BY DEF TypeOK, Exact, Sound
  <2>1. FileOf(cpu)' = FileOf(cpu')
    BY DEF FileOf, CellOf, Visible
  <2>2. ASSUME NEW abort \in MayAbort, NEW ret \in RetData, StmUser(abort, ret)
        PROVE  Kept
    <3>1. cpu' = StoreSMult(cpu, FALSE, ret)
      BY <2>2 DEF StmUser, NoAbort
    <3>2. FileOf(cpu') = FileOf(cpu)
      BY <2>0, <3>1, UserTransferFacts
    <3> QED BY <2>1, <3>2
  <2>3. ASSUME NEW abort \in MayAbort, NEW ret \in RetData, NEW f \in LoadData,
               LdmUser(f, abort, ret)
        PROVE  Kept
    <3>1. cpu' = LoadSMultUser(cpu, f, FALSE, ret)
      BY <2>3 DEF LdmUser, NoAbort
    <3>2. \A c \in Cells : FileOf(cpu')[c] # FileOf(cpu)[c] => c[1] = "usr"
      BY <2>0, <3>1, UserTransferFacts
    <3> QED BY <2>1, <3>2
  <2> QED BY <2>2, <2>3
<1> QED BY <1>1, TypeCorrect, PTL DEF Spec, UserTransferKeepsBanks
=============================================================================
