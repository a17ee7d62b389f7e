-------------------------------- MODULE Vic --------------------------------
(***************************************************************************)
(* The vectored interrupt controller of the LPC2300 machine                *)
(* (src/src/arch/arm/mach/skyeye_mach_lpc2300.c): the registers of         *)
(* lpc2300_vic_t, the recomputation lpc2300_update_int that every device   *)
(* handler ends with, and the guest's accesses to the VIC registers.       *)
(*                                                                         *)
(* A bit register is the set of its bits that are 1.  The two interrupt    *)
(* inputs of the CPU, state->NirqSig and state->NfiqSig, are kept with the *)
(* registers: both are active LOW and lpc2300_update_int alone drives them.*)
(***************************************************************************)
EXTENDS Integers, FiniteSets

CONSTANTS Irqs,      \* interrupt request numbers of the instance (code: 0..31)
          NPrio,     \* number of priority levels                 (code: 16)
          Addrs,     \* handler addresses a guest may store
          NoAddr     \* the reset value 0 of the address registers

ASSUME VicAssumption == /\ Irqs \subseteq Nat
                        /\ NPrio \in Nat \ {0}
                        /\ NoAddr \in Addrs

Prios == 0 .. NPrio - 1

LOW  == "LOW"
HIGH == "HIGH"

\* The least element of a nonempty set of naturals.
Least(S) == CHOOSE x \in S : \A y \in S : x <= y

-----------------------------------------------------------------------------
(* State *)

VicType ==
  [IRQStatus : SUBSET Irqs, FIQStatus : SUBSET Irqs, RawIntr : SUBSET Irqs,
   IntSelect : SUBSET Irqs, IntEnable : SUBSET Irqs, SoftInt : SUBSET Irqs,
   INTSOURCE : SUBSET Irqs,
   SWPrioMask : SUBSET Prios, HWPrioMask : SUBSET Prios,
   VectPrio : [Irqs -> Nat], VectAddr : [Irqs -> Addrs], Vect_Addr : Addrs,
   IRQNumber : [Prios -> Irqs \cup {0}],
   NirqSig : {LOW, HIGH}, NfiqSig : {LOW, HIGH}]

\* lpc2300_io_reset, the part about the VIC.
VicReset ==
  [IRQStatus |-> {}, FIQStatus |-> {}, RawIntr |-> {},
   IntSelect |-> {}, IntEnable |-> {}, SoftInt |-> {}, INTSOURCE |-> {},
   SWPrioMask |-> Prios, HWPrioMask |-> Prios,
   VectPrio |-> [q \in Irqs |-> NPrio - 1],
   VectAddr |-> [q \in Irqs |-> NoAddr], Vect_Addr |-> NoAddr,
   IRQNumber |-> [p \in Prios |-> 0],
   NirqSig |-> HIGH, NfiqSig |-> HIGH]

-----------------------------------------------------------------------------
(* lpc2300_update_int *)

\* A 0 bit of HWPrioMask is a level in service.
InService(v) == Prios \ v.HWPrioMask

\* "Search the highest IRQ priority being in service": NPrio when none is.
ServicingPrio(v) == IF InService(v) = {} THEN NPrio ELSE Least(InService(v))

RawOf(v) == v.INTSOURCE \cup v.SoftInt
IrqsOf(v) == (RawOf(v) \cap v.IntEnable) \ v.IntSelect
FiqsOf(v) == RawOf(v) \cap v.IntEnable \cap v.IntSelect

\* Seeded fault: the comparison with the level in service is forgotten.
EligibleAnyLevel(v) == {q \in IrqsOf(v) : v.VectPrio[q] \in v.SWPrioMask \cap v.HWPrioMask}

\* The requests the loop over irq_no may select.  A VectPrio of NPrio or more
\* is below every level and is never selected.
Eligible(v) == {q \in IrqsOf(v) : /\ v.VectPrio[q] < ServicingPrio(v)
                                  /\ v.VectPrio[q] \in v.SWPrioMask \cap v.HWPrioMask}

EligiblePrios(v) == {v.VectPrio[q] : q \in Eligible(v)}

\* Seeded fault: the loop keeps the last candidate instead of the most urgent.
NextPrioLast(v) == CHOOSE p \in EligiblePrios(v) : \A r \in EligiblePrios(v) : r <= p

\* The level the loop ends with, and the lowest-numbered request of that level.
NextPrio(v) == Least(EligiblePrios(v))
NextIRQ(v)  == Least({q \in Eligible(v) : v.VectPrio[q] = NextPrio(v)})

\* Seeded fault: the IRQ line ignores a pending FIQ (before 04/20/2018).
LatchIrqFirst(v) ==
  [v EXCEPT !.RawIntr = RawOf(v), !.IRQStatus = IrqsOf(v), !.FIQStatus = FiqsOf(v),
            !.NfiqSig = IF FiqsOf(v) # {} THEN LOW ELSE HIGH,
            !.NirqSig = IF IrqsOf(v) # {} THEN LOW ELSE HIGH]

\* The status registers and the two signals, recomputed from the sources.
Latch(v) ==
  [v EXCEPT !.RawIntr = RawOf(v), !.IRQStatus = IrqsOf(v), !.FIQStatus = FiqsOf(v),
            !.NfiqSig = IF FiqsOf(v) # {} THEN LOW ELSE HIGH,
            !.NirqSig = IF IrqsOf(v) # {} /\ FiqsOf(v) = {} THEN LOW ELSE HIGH]

\* Seeded fault: IRQNumber records the level instead of the request.
AcceptLevelNumber(v, p, q) ==
  [v EXCEPT !.HWPrioMask = @ \ {p}, !.IRQNumber[p] = p, !.Vect_Addr = v.VectAddr[q]]

\* Request q goes into service at level p.
Accept(v, p, q) ==
  [v EXCEPT !.HWPrioMask = @ \ {p}, !.IRQNumber[p] = q, !.Vect_Addr = v.VectAddr[q]]

UpdateInt(v) ==
  IF FiqsOf(v) = {} /\ Eligible(v) # {}
    THEN Accept(Latch(v), NextPrio(v), NextIRQ(v))
    ELSE Latch(v)

-----------------------------------------------------------------------------
(* Interrupt lines, as the device handlers drive them *)

\* INTSOURCE |= bit, followed by lpc2300_update_int.
Raise(v, q) == UpdateInt([v EXCEPT !.INTSOURCE = @ \cup {q}])

\* INTSOURCE &= ~bit, with no lpc2300_update_int.
Drop(v, q) == [v EXCEPT !.INTSOURCE = @ \ {q}]

-----------------------------------------------------------------------------
(* Guest writes to the VIC registers: lpc2300_io_write_word *)

IntSelectWrite(v, d)    == [v EXCEPT !.IntSelect = d]
IntEnableWrite(v, d)    == UpdateInt([v EXCEPT !.IntEnable = @ \cup d])
IntEnClrWrite(v, d)     == [v EXCEPT !.IntEnable = @ \ d]
SoftIntWrite(v, d)      == UpdateInt([v EXCEPT !.SoftInt = @ \cup d])
SoftIntClearWrite(v, d) == UpdateInt([v EXCEPT !.SoftInt = @ \ d])
SWPrioMaskWrite(v, d)   == [v EXCEPT !.SWPrioMask = d]
VectPrioWrite(v, q, p)  == [v EXCEPT !.VectPrio[q] = p]
VectAddrSlotWrite(v, q, a) == [v EXCEPT !.VectAddr[q] = a]

\* Does a write of VICVectAddr retire a level?  With a FIQ latched it only
\* clears FIQStatus; with nothing in service it does nothing.
Retires(v) == v.FIQStatus = {} /\ InService(v) # {}

\* The request that such a write retires.
Retired(v) == v.IRQNumber[ServicingPrio(v)]

\* Seeded fault: the bit after the one of the level is set.
ReleaseOffByOne(v) == [v EXCEPT !.HWPrioMask = @ \cup {ServicingPrio(v) + 1},
                                !.INTSOURCE = @ \ {Retired(v)}]

\* The level is released and its request line cleared, before lpc2300_update_int.
Release(v) == [v EXCEPT !.HWPrioMask = @ \cup {ServicingPrio(v)},
                        !.INTSOURCE = @ \ {Retired(v)}]

VectAddrWrite(v) ==
  CASE v.FIQStatus # {} -> [v EXCEPT !.FIQStatus = {}]
    [] Retires(v)       -> UpdateInt(Release(v))
    [] OTHER            -> v

=============================================================================
