------------------------------- MODULE VicAny -------------------------------
(***************************************************************************)
(* The VIC alone, between devices that raise and drop their request lines  *)
(* at any time and a guest that writes the VIC registers in any order.     *)
(***************************************************************************)
EXTENDS Vic

CONSTANTS SelectData,   \* sets of requests a guest writes to VICIntSelect
          SoftData,     \* sets of requests a guest writes to VICSoftInt(Clear)
          MaskData,     \* sets of levels a guest writes to VICSWPrioMask
          PrioData      \* levels a guest writes to VICVectCntl

ASSUME VicAnyAssumption == /\ SelectData \subseteq SUBSET Irqs
                           /\ SoftData \subseteq SUBSET Irqs
                           /\ MaskData \subseteq SUBSET Prios
                           /\ PrioData \subseteq Nat

VARIABLES vic,
          stale    \* history: SWPrioMask or VectPrio written since the last
                   \* lpc2300_update_int (the code does not call it there)

vars == <<vic, stale>>

Init == vic = VicReset /\ stale = FALSE

-----------------------------------------------------------------------------
(* Device handlers *)

DeviceRaise(q) == vic' = Raise(vic, q) /\ stale' = FALSE

\* A register read that clears the line without lpc2300_update_int.
DeviceDrop(q) == vic' = Drop(vic, q) /\ UNCHANGED stale

\* A register access that clears the line and recomputes.
DeviceAck(q) == vic' = UpdateInt(Drop(vic, q)) /\ stale' = FALSE

\* Reading VICIntEnClear, or a receive poll that finds no byte.
Recompute == vic' = UpdateInt(vic) /\ stale' = FALSE

-----------------------------------------------------------------------------
(* Guest writes *)

GuestSelect(d)  == vic' = IntSelectWrite(vic, d) /\ UNCHANGED stale
GuestEnable(q)  == vic' = IntEnableWrite(vic, {q}) /\ stale' = FALSE
GuestDisable(q) == vic' = IntEnClrWrite(vic, {q}) /\ UNCHANGED stale
GuestSoft(d)    == vic' = SoftIntWrite(vic, d) /\ stale' = FALSE
GuestSoftClr(d) == vic' = SoftIntClearWrite(vic, d) /\ stale' = FALSE
GuestMask(d)    == vic' = SWPrioMaskWrite(vic, d) /\ stale' = TRUE
GuestPrio(q, p) == vic' = VectPrioWrite(vic, q, p) /\ stale' = TRUE
GuestVector(q, a) == vic' = VectAddrSlotWrite(vic, q, a) /\ UNCHANGED stale

\* End of interrupt.
GuestEoi == /\ vic' = VectAddrWrite(vic)
            /\ stale' = (stale /\ ~Retires(vic))

Next ==
  \/ \E q \in Irqs : DeviceRaise(q) \/ DeviceDrop(q) \/ DeviceAck(q)
                     \/ GuestEnable(q) \/ GuestDisable(q)
  \/ Recompute
  \/ \E d \in SelectData : GuestSelect(d)
  \/ \E d \in SoftData : GuestSoft(d) \/ GuestSoftClr(d)
  \/ \E d \in MaskData : GuestMask(d)
  \/ \E q \in Irqs, p \in PrioData : GuestPrio(q, p)
  \/ \E q \in Irqs, a \in Addrs : GuestVector(q, a)
  \/ GuestEoi

Spec == Init /\ [][Next]_vars

-----------------------------------------------------------------------------
(* Properties *)

\* The registers of lpc2300_vic_t keep their ranges, and each level in service
\* names a request of the instance.
TypeOK == /\ vic \in VicType
          /\ stale \in BOOLEAN
          /\ \A p \in InService(vic) : vic.IRQNumber[p] \in Irqs

\* FIQ has priority over IRQ (change of 04/20/2018): the two CPU inputs are
\* never asserted together, and the IRQ input is asserted exactly while a
\* latched IRQ exists and the FIQ input is not - across every register write
\* that does not recompute the signals.
SignalsFollowStatus ==
  /\ vic.FIQStatus # {} => vic.NfiqSig = LOW
  /\ vic.NirqSig = LOW <=> (vic.IRQStatus # {} /\ vic.NfiqSig = HIGH)

\* No priority inversion: unless the mask or a priority was rewritten since the
\* last recomputation, every latched IRQ whose level is not masked by software
\* is at or below a level in service, so nothing more urgent than what the CPU
\* is told to serve is waiting.
NoOverlookedIrq ==
  ~stale /\ vic.NfiqSig = HIGH =>
    \A q \in vic.IRQStatus :
      vic.VectPrio[q] \in vic.SWPrioMask =>
        \E p \in InService(vic) : p <= vic.VectPrio[q]

\* The requests in service, level by level.
Active == [p \in InService(vic) |-> vic.IRQNumber[p]]

Nested == INSTANCE NestedIrq WITH active <- Active

\* The levels in service behave as a stack (module NestedIrq): pre-emption only
\* by a more urgent level, end of interrupt only for the innermost one, and the
\* request recorded for a pre-empted level survives until it is retired.
NestingDiscipline == Nested!NSpec
=============================================================================
