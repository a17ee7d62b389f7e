----------------------------- MODULE VicProofs ------------------------------
(***************************************************************************)
(* Proofs about the interrupt controller, for any set of requests, any     *)
(* number of priority levels and any guest (modules Vic and VicAny).       *)
(***************************************************************************)
EXTENDS VicAny, DeviceLemmas

USE DEF Prios, LOW, HIGH

-----------------------------------------------------------------------------
(* The invariant *)

\* The inductive invariant.
Inv == TypeOK /\ SignalsFollowStatus /\ NoOverlookedIrq

\* The invariant and its primed form as predicates of one VIC record, so that what
\* holds of the record lpc2300_update_int returns can be used for vic'.
LEMMA InvParts ==
  /\ Inv <=> /\ vic \in VicType /\ stale \in BOOLEAN
             /\ Named(vic) /\ Signals(vic) /\ (stale \/ Served(vic))
  /\ Inv' <=> /\ vic' \in VicType /\ stale' \in BOOLEAN
              /\ Named(vic') /\ Signals(vic') /\ (stale' \/ Served(vic'))
BY DEF Inv, TypeOK, SignalsFollowStatus, NoOverlookedIrq, Named, Signals, Served, InService

\* A handler that ends with lpc2300_update_int establishes the invariant.
LEMMA Recomputed ==
  ASSUME NEW x \in VicType, Named(x), vic' = UpdateInt(x), stale' = FALSE
  PROVE  Inv'
BY UpdateFields, UpdateEstablishes, InvParts

\* A write that changes none of the registers the invariant relates keeps it.
LEMMA Untouched ==
  ASSUME Inv, vic' \in VicType, stale' \in BOOLEAN,
         vic'.HWPrioMask = vic.HWPrioMask, vic'.IRQNumber = vic.IRQNumber,
         vic'.IRQStatus = vic.IRQStatus,
         vic'.FIQStatus = vic.FIQStatus \/ vic'.FIQStatus = {},
         vic'.NirqSig = vic.NirqSig, vic'.NfiqSig = vic.NfiqSig,
         \/ stale'
         \/ /\ stale' = stale
            /\ vic'.VectPrio = vic.VectPrio /\ vic'.SWPrioMask = vic.SWPrioMask
  PROVE  Inv'
<1>1. /\ Named(vic) /\ Signals(vic) /\ (stale \/ Served(vic))
  BY InvParts
<1>2. Named(vic') /\ Signals(vic')
  BY <1>1 DEF Named, Signals, InService
<1>3. stale' \/ Served(vic')
  BY <1>1 DEF Served, InService
<1> QED BY <1>2, <1>3, InvParts

\* lpc2300_io_reset establishes the inductive invariant.
LEMMA InvInit == Init => Inv
<1> SUFFICES ASSUME Init PROVE Inv
  OBVIOUS
<1>1. VicReset \in VicType
  BY VicAssumption DEF VicReset, VicType
<1>2. InService(VicReset) = {} /\ VicReset.IRQStatus = {} /\ VicReset.FIQStatus = {}
      /\ VicReset.NirqSig = HIGH
  BY DEF InService, VicReset
<1>3. Named(VicReset) /\ Signals(VicReset) /\ Served(VicReset)
  BY <1>2 DEF Named, Signals, Served
<1> QED BY <1>1, <1>3, InvParts DEF Init

\* The record an end of interrupt hands to lpc2300_update_int.
LEMMA ReleaseFacts ==
  ASSUME NEW v \in VicType, Named(v), Retires(v)
  PROVE  /\ Release(v) \in VicType
         /\ Release(v).HWPrioMask = v.HWPrioMask \cup {ServicingPrio(v)}
         /\ Release(v).IRQNumber = v.IRQNumber
         /\ Named(Release(v))
<1>1. ServicingPrio(v) \in Prios
  BY ServicingFacts DEF Retires
<1>2. /\ Release(v) \in VicType
      /\ Release(v).HWPrioMask = v.HWPrioMask \cup {ServicingPrio(v)}
      /\ Release(v).IRQNumber = v.IRQNumber
  BY <1>1 DEF Release, VicType
<1> QED BY <1>2 DEF Named, InService

\* Every device and guest access preserves the inductive invariant.
LEMMA InvNext == Inv /\ [Next]_vars => Inv'
<1> SUFFICES ASSUME Inv, [Next]_vars PROVE Inv'
  OBVIOUS
<1> USE VicAnyAssumption
<1>0. vic \in VicType /\ stale \in BOOLEAN /\ Named(vic)
  BY InvParts
<1>1. ASSUME NEW q \in Irqs, DeviceRaise(q) PROVE Inv'
  <2> DEFINE x == [vic EXCEPT !.INTSOURCE = @ \cup {q}]
  <2>1. x \in VicType /\ Named(x)
    BY <1>0 DEF VicType, Named, InService
  <2> QED BY <1>1, <2>1, Recomputed DEF DeviceRaise, Raise
<1>2. ASSUME NEW q \in Irqs, DeviceDrop(q) PROVE Inv'
  BY <1>0, <1>2, Untouched DEF DeviceDrop, Drop, VicType
<1>3. ASSUME NEW q \in Irqs, DeviceAck(q) PROVE Inv'
  <2>1. Drop(vic, q) \in VicType /\ Named(Drop(vic, q))
    BY <1>0 DEF Drop, VicType, Named, InService
  <2> QED BY <1>3, <2>1, Recomputed DEF DeviceAck
<1>4. ASSUME NEW q \in Irqs, GuestEnable(q) PROVE Inv'
  <2> DEFINE x == [vic EXCEPT !.IntEnable = @ \cup {q}]
  <2>1. x \in VicType /\ Named(x)
    BY <1>0 DEF VicType, Named, InService
  <2> QED BY <1>4, <2>1, Recomputed DEF GuestEnable, IntEnableWrite
<1>5. ASSUME NEW q \in Irqs, GuestDisable(q) PROVE Inv'
  BY <1>0, <1>5, Untouched DEF GuestDisable, IntEnClrWrite, VicType
<1>6. CASE Recompute
  BY <1>0, <1>6, Recomputed DEF Recompute
<1>7. ASSUME NEW d \in SelectData, GuestSelect(d) PROVE Inv'
  BY <1>0, <1>7, Untouched DEF GuestSelect, IntSelectWrite, VicType
<1>8. ASSUME NEW d \in SoftData, GuestSoft(d) PROVE Inv'
  <2> DEFINE x == [vic EXCEPT !.SoftInt = @ \cup d]
  <2>1. x \in VicType /\ Named(x)
    BY <1>0 DEF VicType, Named, InService
  <2> QED BY <1>8, <2>1, Recomputed DEF GuestSoft, SoftIntWrite
<1>9. ASSUME NEW d \in SoftData, GuestSoftClr(d) PROVE Inv'
  <2> DEFINE x == [vic EXCEPT !.SoftInt = @ \ d]
  <2>1. x \in VicType /\ Named(x)
    BY <1>0 DEF VicType, Named, InService
  <2> QED BY <1>9, <2>1, Recomputed DEF GuestSoftClr, SoftIntClearWrite
<1>10. ASSUME NEW d \in MaskData, GuestMask(d) PROVE Inv'
  BY <1>0, <1>10, Untouched DEF GuestMask, SWPrioMaskWrite, VicType
<1>11. ASSUME NEW q \in Irqs, NEW p \in PrioData, GuestPrio(q, p) PROVE Inv'
  BY <1>0, <1>11, Untouched DEF GuestPrio, VectPrioWrite, VicType
<1>12. ASSUME NEW q \in Irqs, NEW a \in Addrs, GuestVector(q, a) PROVE Inv'
  BY <1>0, <1>12, Untouched DEF GuestVector, VectAddrSlotWrite, VicType
<1>13. CASE GuestEoi
  <2>1. CASE Retires(vic)
    <3>1. vic' = UpdateInt(Release(vic)) /\ stale' = FALSE
      BY <1>13, <2>1 DEF GuestEoi, VectAddrWrite, Retires
    <3> QED BY <1>0, <2>1, <3>1, ReleaseFacts, Recomputed
  <2>2. CASE ~Retires(vic) /\ vic.FIQStatus # {}
    <3>1. vic' = [vic EXCEPT !.FIQStatus = {}] /\ stale' = stale
      BY <1>0, <1>13, <2>2 DEF GuestEoi, VectAddrWrite
    <3> QED BY <1>0, <3>1, Untouched DEF VicType
  <2>3. CASE ~Retires(vic) /\ vic.FIQStatus = {}
    <3>1. vic' = vic /\ stale' = stale
      BY <1>0, <1>13, <2>3 DEF GuestEoi, VectAddrWrite
    <3> QED BY <1>0, <3>1, Untouched
  <2> QED BY <2>1, <2>2, <2>3
<1>14. CASE UNCHANGED vars
  BY <1>0, <1>14, Untouched DEF vars
<1> QED
  BY <1>1, <1>2, <1>3, <1>4, <1>5, <1>6, <1>7, <1>8, <1>9, <1>10, <1>11, <1>12, <1>13,
     <1>14 DEF Next

\* The invariant holds throughout every behaviour of the interrupt controller.
THEOREM Invariance == Spec => []Inv
BY InvInit, InvNext, PTL DEF Spec

\* The VIC registers keep their types and every level in service names a request.
THEOREM TypeCorrect == Spec => []TypeOK
<1>1. Inv => TypeOK
  BY DEF Inv
<1> QED BY <1>1, Invariance, PTL

\* The two CPU inputs agree with the status registers, and FIQ has priority.
THEOREM SignalsCorrect == Spec => []SignalsFollowStatus
<1>1. Inv => SignalsFollowStatus
  BY DEF Inv
<1> QED BY <1>1, Invariance, PTL

\* No request that the VIC may deliver is left behind a less urgent one.
THEOREM NoPriorityInversion == Spec => []NoOverlookedIrq
<1>1. Inv => NoOverlookedIrq
  BY DEF Inv
<1> QED BY <1>1, Invariance, PTL

-----------------------------------------------------------------------------
(* Nesting *)

ActiveOf(v) == [p \in InService(v) |-> v.IRQNumber[p]]

\* f with request q at level p, as an entry into service leaves it.
Push(f, p, q) == [r \in (DOMAIN f) \cup {p} |-> IF r = p THEN q ELSE f[r]]

\* lpc2300_update_int changes nothing in service, or puts one request into service
\* at a level more urgent than all others.
LEMMA UpdateNests ==
  ASSUME NEW v \in VicType
  PROVE  \/ ActiveOf(UpdateInt(v)) = ActiveOf(v)
         \/ \E p \in Prios, q \in Irqs :
              /\ \A r \in InService(v) : p < r
              /\ ActiveOf(UpdateInt(v)) = Push(ActiveOf(v), p, q)
<1> DEFINE w == UpdateInt(v)
<1>1. CASE ~Accepting(v)
  BY <1>1, UpdateFields DEF ActiveOf, InService
<1>2. CASE Accepting(v)
  <2> DEFINE p == NextPrio(v)
             q == NextIRQ(v)
  <2>1. p \in Prios /\ q \in Irqs /\ p < ServicingPrio(v) /\ p \in v.HWPrioMask
    BY <1>2, NextFacts DEF Accepting
  <2>2. \A r \in InService(v) : p < r
    BY <2>1, ServicingFacts, VicAssumption
  <2>3. /\ w.HWPrioMask = v.HWPrioMask \ {p}
        /\ w.IRQNumber = [v.IRQNumber EXCEPT ![p] = q]
    BY <1>2, UpdateFields
  <2>4. v.IRQNumber \in [Prios -> Irqs \cup {0}] /\ v.HWPrioMask \subseteq Prios
    BY DEF VicType
  <2> HIDE DEF p, q, w
  <2>5. InService(w) = InService(v) \cup {p}
    BY <2>1, <2>3, <2>4 DEF InService
  <2>6. \A r \in InService(w) : w.IRQNumber[r] = IF r = p THEN q ELSE v.IRQNumber[r]
    BY <2>1, <2>3, <2>4 DEF InService
  <2>7. ActiveOf(w) = Push(ActiveOf(v), p, q)
    BY <2>5, <2>6 DEF ActiveOf, Push
  <2> QED BY <2>1, <2>2, <2>7 DEF w
<1> QED BY <1>1, <1>2

\* The initial state of the VIC is the initial state of NestedIrq.
LEMMA NestInit == Init => Nested!NInit
<1> SUFFICES ASSUME Init PROVE Nested!NInit
  OBVIOUS
<1>1. InService(vic) = {}
  BY DEF Init, InService, VicReset
<1> QED BY <1>1 DEF Nested!NInit, Active

\* A step that hands a record with vic's own levels to lpc2300_update_int.
LEMMA NestRecomputed ==
  ASSUME NEW x \in VicType, x.HWPrioMask = vic.HWPrioMask, x.IRQNumber = vic.IRQNumber,
         vic' = UpdateInt(x)
  PROVE  [Nested!NNext]_Active
<1>1. ActiveOf(x) = Active /\ InService(x) = DOMAIN Active
  BY DEF ActiveOf, Active, InService
<1>2. ActiveOf(UpdateInt(x)) = Active'
  BY DEF ActiveOf, Active, InService
<1>3. CASE ActiveOf(UpdateInt(x)) = ActiveOf(x)
  BY <1>1, <1>2, <1>3
<1>4. CASE \E p \in Prios, q \in Irqs :
             /\ \A r \in InService(x) : p < r
             /\ ActiveOf(UpdateInt(x)) = Push(ActiveOf(x), p, q)
  <2>1. PICK p \in Prios, q \in Irqs :
             /\ \A r \in InService(x) : p < r
             /\ ActiveOf(UpdateInt(x)) = Push(ActiveOf(x), p, q)
    BY <1>4
  <2>2. Nested!Enter(p, q)
    BY <1>1, <1>2, <2>1 DEF Nested!Enter, Nested!Pushed, Push
  <2> QED BY <2>2 DEF Nested!NNext, Nested!NPrios
<1> QED BY <1>3, <1>4, UpdateNests

\* A step that leaves the levels in service alone.
LEMMA NestUntouched ==
  ASSUME vic'.HWPrioMask = vic.HWPrioMask, vic'.IRQNumber = vic.IRQNumber
  PROVE  [Nested!NNext]_Active
BY DEF Active, InService

\* An end of interrupt that retires a level.
LEMMA NestRetired ==
  ASSUME Inv, Retires(vic), vic' = UpdateInt(Release(vic))
  PROVE  [Nested!NNext]_Active
<1> DEFINE x == Release(vic)
           s == ServicingPrio(vic)
<1>1. vic \in VicType /\ Named(vic)
  BY InvParts
<1>2. /\ x \in VicType
      /\ x.HWPrioMask = vic.HWPrioMask \cup {s}
      /\ x.IRQNumber = vic.IRQNumber
  BY <1>1, ReleaseFacts
<1>3. s \in InService(vic) /\ s \in Prios /\ \A r \in InService(vic) : s <= r
  BY <1>1, ServicingFacts DEF Retires
<1> HIDE DEF x, s
<1>4. DOMAIN Active = InService(vic)
  BY DEF Active
<1>5. InService(x) = DOMAIN Active \ {s}
  BY <1>2, <1>4 DEF InService
<1>6. ActiveOf(x) = [r \in DOMAIN Active \ {s} |-> Active[r]]
  BY <1>2, <1>4, <1>5 DEF ActiveOf, Active
<1>7. ActiveOf(UpdateInt(x)) = Active'
  BY DEF ActiveOf, Active, InService, x
<1>8. Nested!Innermost(DOMAIN Active, s)
  BY <1>3, <1>4 DEF Nested!Innermost
<1>9. CASE ActiveOf(UpdateInt(x)) = ActiveOf(x)
  <2>1. Nested!Leave(s)
    BY <1>6, <1>7, <1>8, <1>9 DEF Nested!Leave
  <2> QED BY <1>3, <2>1 DEF Nested!NNext, Nested!NPrios
<1>10. CASE \E p \in Prios, q \in Irqs :
             /\ \A r \in InService(x) : p < r
             /\ ActiveOf(UpdateInt(x)) = Push(ActiveOf(x), p, q)
  <2>1. PICK p \in Prios, q \in Irqs :
             /\ \A r \in InService(x) : p < r
             /\ ActiveOf(UpdateInt(x)) = Push(ActiveOf(x), p, q)
    BY <1>10
  <2>2. DOMAIN ActiveOf(x) = DOMAIN Active \ {s}
    BY <1>6
  <2>3. Push(ActiveOf(x), p, q) = Nested!Pushed(DOMAIN Active \ {s}, p, q)
    BY <1>6, <2>2 DEF Push, Nested!Pushed
  <2>4. Nested!LeaveEnter(s, p, q)
    BY <1>5, <1>7, <1>8, <2>1, <2>3 DEF Nested!LeaveEnter
  <2> QED BY <1>3, <2>1, <2>4 DEF Nested!NNext, Nested!NPrios
<1> QED BY <1>2, <1>9, <1>10, UpdateNests

\* Every device and guest access is a step of NestedIrq or leaves the levels in
\* service as they are.
LEMMA NestNext == Inv /\ [Next]_vars => [Nested!NNext]_Active
<1> DEFINE Goal == [Nested!NNext]_Active
<1> SUFFICES ASSUME Inv, [Next]_vars PROVE Goal
  OBVIOUS
<1> USE VicAnyAssumption
<1>0. vic \in VicType
  BY InvParts
<1>1. ASSUME NEW x \in VicType, x.HWPrioMask = vic.HWPrioMask, x.IRQNumber = vic.IRQNumber,
             vic' = UpdateInt(x)
      PROVE  Goal
  BY <1>1, NestRecomputed
<1>2. ASSUME vic'.HWPrioMask = vic.HWPrioMask, vic'.IRQNumber = vic.IRQNumber
      PROVE  Goal
  BY <1>2, NestUntouched
<1> HIDE DEF Goal
<1>3. ASSUME NEW q \in Irqs, DeviceRaise(q) \/ DeviceAck(q) \/ GuestEnable(q) PROVE Goal
  <2>1. CASE DeviceRaise(q)
    BY <1>0, <1>1, <2>1 DEF DeviceRaise, Raise, VicType
  <2>2. CASE DeviceAck(q)
    BY <1>0, <1>1, <2>2 DEF DeviceAck, Drop, VicType
  <2>3. CASE GuestEnable(q)
    BY <1>0, <1>1, <2>3 DEF GuestEnable, IntEnableWrite, VicType
  <2> QED BY <1>3, <2>1, <2>2, <2>3
<1>4. ASSUME NEW q \in Irqs, DeviceDrop(q) \/ GuestDisable(q) PROVE Goal
  BY <1>0, <1>2, <1>4 DEF DeviceDrop, Drop, GuestDisable, IntEnClrWrite, VicType
<1>5. CASE Recompute
  BY <1>0, <1>1, <1>5 DEF Recompute
<1>6. ASSUME NEW d \in SelectData, GuestSelect(d) PROVE Goal
  BY <1>0, <1>2, <1>6 DEF GuestSelect, IntSelectWrite, VicType
<1>7. ASSUME NEW d \in SoftData, GuestSoft(d) \/ GuestSoftClr(d) PROVE Goal
  <2>1. CASE GuestSoft(d)
    BY <1>0, <1>1, <2>1 DEF GuestSoft, SoftIntWrite, VicType
  <2>2. CASE GuestSoftClr(d)
    BY <1>0, <1>1, <2>2 DEF GuestSoftClr, SoftIntClearWrite, VicType
  <2> QED BY <1>7, <2>1, <2>2
<1>8. ASSUME NEW d \in MaskData, GuestMask(d) PROVE Goal
  BY <1>0, <1>2, <1>8 DEF GuestMask, SWPrioMaskWrite, VicType
<1>9. ASSUME NEW q \in Irqs, NEW p \in PrioData, GuestPrio(q, p) PROVE Goal
  BY <1>0, <1>2, <1>9 DEF GuestPrio, VectPrioWrite, VicType
<1>10. ASSUME NEW q \in Irqs, NEW a \in Addrs, GuestVector(q, a) PROVE Goal
  BY <1>0, <1>2, <1>10 DEF GuestVector, VectAddrSlotWrite, VicType
<1>11. CASE GuestEoi
  <2>1. CASE Retires(vic)
    <3>1. vic' = UpdateInt(Release(vic))
      BY <1>11, <2>1 DEF GuestEoi, VectAddrWrite, Retires
    <3> QED BY <2>1, <3>1, NestRetired DEF Goal
  <2>2. CASE ~Retires(vic)
    <3>1. vic' = [vic EXCEPT !.FIQStatus = {}] \/ vic' = vic
      BY <1>11, <2>2 DEF GuestEoi, VectAddrWrite
    <3> QED BY <1>0, <1>2, <3>1 DEF VicType
  <2> QED BY <2>1, <2>2
<1>12. CASE UNCHANGED vars
  BY <1>2, <1>12 DEF vars
<1> QED
  BY <1>3, <1>4, <1>5, <1>6, <1>7, <1>8, <1>9, <1>10, <1>11, <1>12 DEF Next

\* The VIC implements NestedIrq: levels in service are entered and left as a
\* stack, whatever devices and guest do.
THEOREM NestingCorrect == Spec => NestingDiscipline
<1>1. Spec => Nested!NInit /\ [][Nested!NNext]_Active
  BY NestInit, NestNext, Invariance, PTL DEF Spec
<1> QED BY <1>1 DEF NestingDiscipline, Nested!NSpec
=============================================================================
