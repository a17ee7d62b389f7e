---------------------------- MODULE DeviceLemmas ----------------------------
(***************************************************************************)
(* Lemmas about the operators of modules Vic, TxFifo, Uart and Timer, for  *)
(* any requests, priority levels, FIFO and word size: what the searches of *)
(* lpc2300_update_int find and what it does to every register, the ring of *)
(* the transmit FIFO, and what each handler of a UART or timer does to its *)
(* device and to the request lines.                                        *)
(***************************************************************************)
EXTENDS Uart, Timer, TLAPS, WellFoundedInduction, SequenceTheorems

USE DEF Prios, LOW, HIGH

-----------------------------------------------------------------------------
(* Least *)

\* Every nonempty set of naturals has a least element, so that the two search
\* loops of lpc2300_update_int find what Least names.
LEMMA LeastProperty ==
  ASSUME NEW S \in SUBSET Nat, S # {}
  PROVE  Least(S) \in S /\ \A y \in S : Least(S) <= y
<1> DEFINE R == OpToRel(<, Nat)
<1>1. IsWellFoundedOn(R, Nat)
  BY NatLessThanWellFounded
<1>2. \E x \in S : \A y \in S : ~(<<y, x>> \in R)
  <2> HIDE DEF R
  <2> QED BY <1>1, WFMin, Zenon
<1>3. \E x \in S : \A y \in S : x <= y
  <2>1. PICK x \in S : \A y \in S : ~(<<y, x>> \in R)
    BY <1>2
  <2>2. ASSUME NEW y \in S PROVE x <= y
    <3>1. x \in Nat /\ y \in Nat
      OBVIOUS
    <3>2. y < x => <<y, x>> \in R
      BY <3>1 DEF OpToRel
    <3> HIDE DEF R
    <3> QED BY <2>1, <3>1, <3>2
  <2> QED BY <2>2
<1> QED
  BY <1>3 DEF Least

-----------------------------------------------------------------------------
(* The two searches of lpc2300_update_int *)

\* The first search yields the most urgent level in service, NPrio if none.
LEMMA ServicingFacts ==
  ASSUME NEW v \in VicType
  PROVE  /\ InService(v) \subseteq Prios
         /\ ServicingPrio(v) \in 0 .. NPrio
         /\ InService(v) = {} => ServicingPrio(v) = NPrio
         /\ InService(v) # {} => ServicingPrio(v) \in InService(v)
         /\ \A p \in InService(v) : ServicingPrio(v) <= p
<1>1. InService(v) \in SUBSET Nat /\ InService(v) \subseteq Prios
  BY VicAssumption DEF InService
<1>2. CASE InService(v) = {}
  BY <1>1, <1>2, VicAssumption DEF ServicingPrio
<1>3. CASE InService(v) # {}
  <2>1. /\ Least(InService(v)) \in InService(v)
        /\ \A y \in InService(v) : Least(InService(v)) <= y
    BY <1>1, <1>3, LeastProperty
  <2> QED BY <1>1, <1>3, <2>1, VicAssumption DEF ServicingPrio
<1> QED BY <1>2, <1>3

\* The second search yields an eligible request of the most urgent eligible level.
LEMMA NextFacts ==
  ASSUME NEW v \in VicType, Eligible(v) # {}
  PROVE  /\ NextPrio(v) \in Prios
         /\ NextPrio(v) < ServicingPrio(v)
         /\ NextPrio(v) \in v.HWPrioMask
         /\ NextPrio(v) \in v.SWPrioMask
         /\ NextIRQ(v) \in Irqs
         /\ \A q \in Eligible(v) : NextPrio(v) <= v.VectPrio[q]
         /\ \E q \in Eligible(v) : NextPrio(v) = v.VectPrio[q]
<1>1. Eligible(v) \subseteq Irqs
  BY DEF Eligible, IrqsOf, RawOf, VicType
<1>2. v.VectPrio \in [Irqs -> Nat]
  BY DEF VicType
<1>3. EligiblePrios(v) \in SUBSET Nat /\ EligiblePrios(v) # {}
  BY <1>1, <1>2 DEF EligiblePrios
<1>4. /\ NextPrio(v) \in EligiblePrios(v)
      /\ \A y \in EligiblePrios(v) : NextPrio(v) <= y
  BY <1>3, LeastProperty DEF NextPrio
<1>5. PICK q \in Eligible(v) : NextPrio(v) = v.VectPrio[q]
  BY <1>4 DEF EligiblePrios
<1>6. /\ v.VectPrio[q] < ServicingPrio(v)
      /\ v.VectPrio[q] \in v.SWPrioMask
      /\ v.VectPrio[q] \in v.HWPrioMask
  BY DEF Eligible
<1>7. v.HWPrioMask \subseteq Prios
  BY DEF VicType
<1>8. NextIRQ(v) \in Irqs
  <2> DEFINE S == {r \in Eligible(v) : v.VectPrio[r] = NextPrio(v)}
  <2>1. S \in SUBSET Nat /\ S \subseteq Irqs
    BY <1>1, VicAssumption
  <2>2. S # {}
    BY <1>5
  <2> HIDE DEF S
  <2>3. Least(S) \in S
    BY <2>1, <2>2, LeastProperty
  <2>4. NextIRQ(v) = Least(S)
    BY DEF NextIRQ, S
  <2> QED BY <2>1, <2>3, <2>4
<1> QED
  BY <1>4, <1>5, <1>6, <1>7, <1>8 DEF EligiblePrios

-----------------------------------------------------------------------------
(* lpc2300_update_int *)

\* Does lpc2300_update_int put a request into service?
Accepting(v) == FiqsOf(v) = {} /\ Eligible(v) # {}

\* The fields of the VIC after lpc2300_update_int.
LEMMA UpdateFields ==
  ASSUME NEW v \in VicType
  PROVE  /\ UpdateInt(v) \in VicType
         /\ UpdateInt(v).INTSOURCE = v.INTSOURCE
         /\ UpdateInt(v).SoftInt = v.SoftInt
         /\ UpdateInt(v).IntEnable = v.IntEnable
         /\ UpdateInt(v).IntSelect = v.IntSelect
         /\ UpdateInt(v).VectPrio = v.VectPrio
         /\ UpdateInt(v).VectAddr = v.VectAddr
         /\ UpdateInt(v).SWPrioMask = v.SWPrioMask
         /\ UpdateInt(v).RawIntr = RawOf(v)
         /\ UpdateInt(v).IRQStatus = IrqsOf(v)
         /\ UpdateInt(v).FIQStatus = FiqsOf(v)
         /\ UpdateInt(v).NfiqSig = (IF FiqsOf(v) # {} THEN LOW ELSE HIGH)
         /\ UpdateInt(v).NirqSig = (IF IrqsOf(v) # {} /\ FiqsOf(v) = {} THEN LOW ELSE HIGH)
         /\ UpdateInt(v).HWPrioMask = (IF Accepting(v) THEN v.HWPrioMask \ {NextPrio(v)}
                                       ELSE v.HWPrioMask)
         /\ UpdateInt(v).IRQNumber =
              (IF Accepting(v) THEN [v.IRQNumber EXCEPT ![NextPrio(v)] = NextIRQ(v)]
               ELSE v.IRQNumber)
         /\ UpdateInt(v).Vect_Addr = (IF Accepting(v) THEN v.VectAddr[NextIRQ(v)]
                                      ELSE v.Vect_Addr)
<1>1. /\ RawOf(v) \subseteq Irqs /\ IrqsOf(v) \subseteq Irqs /\ FiqsOf(v) \subseteq Irqs
  BY SMTT(40) DEF RawOf, IrqsOf, FiqsOf, VicType
<1>2. Latch(v) \in VicType
  BY <1>1 DEF Latch, VicType
<1>3. /\ Latch(v).INTSOURCE = v.INTSOURCE /\ Latch(v).SoftInt = v.SoftInt
      /\ Latch(v).IntEnable = v.IntEnable /\ Latch(v).IntSelect = v.IntSelect
      /\ Latch(v).VectPrio = v.VectPrio /\ Latch(v).VectAddr = v.VectAddr
      /\ Latch(v).SWPrioMask = v.SWPrioMask /\ Latch(v).HWPrioMask = v.HWPrioMask
      /\ Latch(v).IRQNumber = v.IRQNumber /\ Latch(v).Vect_Addr = v.Vect_Addr
  BY DEF Latch, VicType
<1>4. /\ Latch(v).RawIntr = RawOf(v)
      /\ Latch(v).IRQStatus = IrqsOf(v) /\ Latch(v).FIQStatus = FiqsOf(v)
      /\ Latch(v).NfiqSig = (IF FiqsOf(v) # {} THEN LOW ELSE HIGH)
      /\ Latch(v).NirqSig = (IF IrqsOf(v) # {} /\ FiqsOf(v) = {} THEN LOW ELSE HIGH)
  BY DEF Latch, VicType
<1>5. CASE Accepting(v)
  <2>1. NextPrio(v) \in Prios /\ NextIRQ(v) \in Irqs
    BY <1>5, NextFacts DEF Accepting
  <2>2. UpdateInt(v) = Accept(Latch(v), NextPrio(v), NextIRQ(v))
    BY <1>5 DEF UpdateInt, Accepting
  <2> DEFINE a == Accept(Latch(v), NextPrio(v), NextIRQ(v))
             l == Latch(v)
  <2>3. a \in VicType
    BY <1>2, <2>1 DEF Accept, VicType
  <2>6. a.Vect_Addr = l.VectAddr[NextIRQ(v)]
    BY <1>2 DEF Accept, VicType
  <2>4. /\ a.INTSOURCE = l.INTSOURCE /\ a.SoftInt = l.SoftInt
        /\ a.IntEnable = l.IntEnable /\ a.IntSelect = l.IntSelect
        /\ a.VectPrio = l.VectPrio /\ a.VectAddr = l.VectAddr
        /\ a.SWPrioMask = l.SWPrioMask /\ a.RawIntr = l.RawIntr
        /\ a.IRQStatus = l.IRQStatus /\ a.FIQStatus = l.FIQStatus
        /\ a.NfiqSig = l.NfiqSig /\ a.NirqSig = l.NirqSig
    BY <1>2 DEF Accept, VicType
  <2>5. /\ a.HWPrioMask = l.HWPrioMask \ {NextPrio(v)}
        /\ a.IRQNumber = [l.IRQNumber EXCEPT ![NextPrio(v)] = NextIRQ(v)]
    BY <1>2 DEF Accept, VicType
  <2> HIDE DEF a, l
  <2> QED BY <1>3, <1>4, <1>5, <2>2, <2>3, <2>4, <2>5, <2>6 DEF a, l
<1>6. CASE ~Accepting(v)
  <2>1. UpdateInt(v) = Latch(v)
    BY <1>6 DEF UpdateInt, Accepting
  <2> QED BY <1>2, <1>3, <1>4, <1>6, <2>1
<1> QED BY <1>5, <1>6

\* After lpc2300_update_int nothing is left to accept.
LEMMA UpdateSettles ==
  ASSUME NEW v \in VicType, FiqsOf(v) = {}
  PROVE  Eligible(UpdateInt(v)) = {}
<1> DEFINE w == UpdateInt(v)
<1>1. w \in VicType
  BY UpdateFields
<1>2. IrqsOf(w) = IrqsOf(v) /\ w.VectPrio = v.VectPrio /\ w.SWPrioMask = v.SWPrioMask
  BY UpdateFields DEF IrqsOf, RawOf
<1>3. CASE Eligible(v) = {}
  <2>1. w.HWPrioMask = v.HWPrioMask
    BY <1>3, UpdateFields DEF Accepting
  <2>2. Eligible(w) = Eligible(v)
    BY <1>2, <2>1 DEF Eligible, ServicingPrio, InService
  <2> QED BY <1>3, <2>2
<1>4. CASE Eligible(v) # {}
  <2>1. w.HWPrioMask = v.HWPrioMask \ {NextPrio(v)}
    BY <1>4, UpdateFields DEF Accepting
  <2>2. NextPrio(v) \in InService(w)
    BY <1>4, <2>1, NextFacts DEF InService
  <2>3. ServicingPrio(w) <= NextPrio(v)
    BY <1>1, <2>2, ServicingFacts
  <2>4. SUFFICES ASSUME NEW q \in Eligible(w) PROVE FALSE
    OBVIOUS
  <2>5. /\ q \in IrqsOf(v)
        /\ v.VectPrio[q] < ServicingPrio(w)
        /\ v.VectPrio[q] \in v.SWPrioMask
        /\ v.VectPrio[q] \in v.HWPrioMask
    BY <1>2, <2>1 DEF Eligible
  <2>6. v.VectPrio[q] \in Nat
    BY <2>5 DEF VicType, IrqsOf, RawOf
  <2>7. /\ NextPrio(v) \in Prios
        /\ NextPrio(v) < ServicingPrio(v)
    BY <1>4, NextFacts
  <2>8. ServicingPrio(w) \in 0 .. NPrio /\ ServicingPrio(v) \in 0 .. NPrio
    BY <1>1, ServicingFacts
  <2>9. v.VectPrio[q] < NextPrio(v)
    BY <2>3, <2>5, <2>6, <2>7, <2>8, VicAssumption
  <2>10. v.VectPrio[q] < ServicingPrio(v)
    BY <2>6, <2>7, <2>8, <2>9, VicAssumption
  <2>11. q \in Eligible(v)
    BY <2>5, <2>10 DEF Eligible
  <2> QED BY <1>4, <2>6, <2>7, <2>9, <2>11, NextFacts, VicAssumption
<1> QED BY <1>3, <1>4

\* lpc2300_update_int is idempotent: running it again without a change of the
\* sources or of the registers changes no register and no signal.  So the calls
\* it gets for each further match register in lpc2300_io_do_cycle do nothing.
THEOREM UpdateIdempotent ==
  ASSUME NEW v \in VicType
  PROVE  UpdateInt(UpdateInt(v)) = UpdateInt(v)
<1> DEFINE w == UpdateInt(v)
<1>1. w \in VicType
  BY UpdateFields
<1>2. RawOf(w) = RawOf(v) /\ IrqsOf(w) = IrqsOf(v) /\ FiqsOf(w) = FiqsOf(v)
  BY UpdateFields DEF IrqsOf, FiqsOf, RawOf
<1>3. Latch(w) = w
  <2>1. /\ w.RawIntr = RawOf(w) /\ w.IRQStatus = IrqsOf(w) /\ w.FIQStatus = FiqsOf(w)
        /\ w.NfiqSig = (IF FiqsOf(w) # {} THEN LOW ELSE HIGH)
        /\ w.NirqSig = (IF IrqsOf(w) # {} /\ FiqsOf(w) = {} THEN LOW ELSE HIGH)
    BY <1>2, UpdateFields
  <2> HIDE DEF w
  <2> QED BY <1>1, <2>1 DEF Latch, VicType
<1>4. UpdateInt(w) = Latch(w)
  <2>1. FiqsOf(w) = {} => Eligible(w) = {}
    BY <1>2, UpdateSettles
  <2> QED BY <2>1 DEF UpdateInt
<1> QED BY <1>3, <1>4

-----------------------------------------------------------------------------
(* The parts of the invariant, as predicates of a VIC record *)

Named(v)   == \A p \in InService(v) : v.IRQNumber[p] \in Irqs
Signals(v) == /\ v.FIQStatus # {} => v.NfiqSig = LOW
              /\ v.NirqSig = LOW <=> (v.IRQStatus # {} /\ v.NfiqSig = HIGH)
Served(v)  == v.NfiqSig = HIGH =>
                \A q \in v.IRQStatus : v.VectPrio[q] \in v.SWPrioMask =>
                  \E p \in InService(v) : p <= v.VectPrio[q]

\* Whatever the registers held before, after lpc2300_update_int the signals agree
\* with the status registers and no deliverable request is overlooked.
LEMMA UpdateEstablishes ==
  ASSUME NEW v \in VicType, Named(v)
  PROVE  Named(UpdateInt(v)) /\ Signals(UpdateInt(v)) /\ Served(UpdateInt(v))
<1> DEFINE w == UpdateInt(v)
<1>1. w \in VicType /\ w.VectPrio = v.VectPrio /\ w.SWPrioMask = v.SWPrioMask
      /\ w.IRQStatus = IrqsOf(v)
  BY UpdateFields
<1>2. Signals(w)
  BY UpdateFields DEF Signals
<1>3. Named(w)
  <2>1. CASE Accepting(v)
    <3>1. NextPrio(v) \in Prios /\ NextIRQ(v) \in Irqs
      BY <2>1, NextFacts DEF Accepting
    <3>2. /\ w.HWPrioMask = v.HWPrioMask \ {NextPrio(v)}
          /\ w.IRQNumber = [v.IRQNumber EXCEPT ![NextPrio(v)] = NextIRQ(v)]
      BY <2>1, UpdateFields
    <3>3. v.IRQNumber \in [Prios -> Irqs \cup {0}]
      BY DEF VicType
    <3> QED BY <3>1, <3>2, <3>3 DEF Named, InService
  <2>2. CASE ~Accepting(v)
    BY <2>2, UpdateFields DEF Named, InService
  <2> QED BY <2>1, <2>2
<1>4. Served(w)
  <2>1. SUFFICES ASSUME w.NfiqSig = HIGH, NEW q \in IrqsOf(v),
                        v.VectPrio[q] \in v.SWPrioMask
                 PROVE  \E p \in InService(w) : p <= v.VectPrio[q]
    BY <1>1 DEF Served
  <2>2. FiqsOf(v) = {}
    BY <2>1, UpdateFields
  <2>3. q \notin Eligible(w)
    BY <2>2, UpdateSettles
  <2>4. q \in IrqsOf(w)
    BY UpdateFields DEF IrqsOf, RawOf
  <2>5. v.VectPrio[q] \in Prios
    BY <2>1 DEF VicType
  <2>6. CASE v.VectPrio[q] \notin w.HWPrioMask
    BY <2>5, <2>6, VicAssumption DEF InService
  <2>7. CASE v.VectPrio[q] \in w.HWPrioMask
    <3>1. ~(v.VectPrio[q] < ServicingPrio(w))
      BY <1>1, <2>1, <2>3, <2>4, <2>7 DEF Eligible
    <3>2. ServicingPrio(w) \in 0 .. NPrio
      BY <1>1, ServicingFacts
    <3>3. ServicingPrio(w) <= v.VectPrio[q] /\ ServicingPrio(w) # NPrio
      BY <2>5, <3>1, <3>2, VicAssumption
    <3>4. ServicingPrio(w) \in InService(w)
      BY <1>1, <3>3, ServicingFacts
    <3> QED BY <3>3, <3>4
  <2> QED BY <2>6, <2>7
<1> QED BY <1>2, <1>3, <1>4

-----------------------------------------------------------------------------
(* Request lines *)

\* A device that raises its line raises no other, and disables nothing.
LEMMA RaiseFacts ==
  ASSUME NEW v \in VicType, NEW q \in Irqs
  PROVE  /\ Raise(v, q) \in VicType
         /\ Raise(v, q).INTSOURCE = v.INTSOURCE \cup {q}
         /\ Raise(v, q).IntEnable = v.IntEnable
<1> DEFINE x == [v EXCEPT !.INTSOURCE = @ \cup {q}]
<1>1. x \in VicType /\ x.INTSOURCE = v.INTSOURCE \cup {q} /\ x.IntEnable = v.IntEnable
  BY DEF VicType
<1> HIDE DEF x
<1>2. UpdateInt(x) \in VicType /\ UpdateInt(x).INTSOURCE = x.INTSOURCE
      /\ UpdateInt(x).IntEnable = x.IntEnable
  BY <1>1, UpdateFields
<1> QED BY <1>1, <1>2 DEF Raise, x

\* A device that drops its line drops no other.
LEMMA DropFacts ==
  ASSUME NEW v \in VicType, NEW q
  PROVE  /\ Drop(v, q) \in VicType
         /\ Drop(v, q).INTSOURCE = v.INTSOURCE \ {q}
         /\ Drop(v, q).IntEnable = v.IntEnable
BY DEF Drop, VicType

\* An end of interrupt raises no line, drops that of the retired request, and
\* disables nothing.
LEMMA EoiFacts ==
  ASSUME NEW v \in VicType
  PROVE  /\ VectAddrWrite(v) \in VicType
         /\ VectAddrWrite(v).INTSOURCE \subseteq v.INTSOURCE
         /\ VectAddrWrite(v).IntEnable = v.IntEnable
         /\ Retires(v) => Retired(v) \notin VectAddrWrite(v).INTSOURCE
<1>1. CASE v.FIQStatus # {}
  <2>1. VectAddrWrite(v) = [v EXCEPT !.FIQStatus = {}] /\ ~Retires(v)
    BY <1>1 DEF VectAddrWrite, Retires
  <2> QED BY <2>1 DEF VicType
<1>2. CASE v.FIQStatus = {} /\ ~Retires(v)
  <2>1. VectAddrWrite(v) = v
    BY <1>2 DEF VectAddrWrite
  <2> QED BY <1>2, <2>1
<1>3. CASE v.FIQStatus = {} /\ Retires(v)
  <2>1. VectAddrWrite(v) = UpdateInt(Release(v))
    BY <1>3 DEF VectAddrWrite
  <2>2. ServicingPrio(v) \in Prios
    BY <1>3, ServicingFacts DEF Retires
  <2>3. /\ Release(v) \in VicType /\ Release(v).INTSOURCE = v.INTSOURCE \ {Retired(v)}
        /\ Release(v).IntEnable = v.IntEnable
    BY <2>2 DEF Release, VicType
  <2>4. UpdateInt(Release(v)) \in VicType
        /\ UpdateInt(Release(v)).INTSOURCE = Release(v).INTSOURCE
        /\ UpdateInt(Release(v)).IntEnable = Release(v).IntEnable
    BY <2>3, UpdateFields
  <2> QED BY <2>1, <2>3, <2>4
<1> QED BY <1>1, <1>2, <1>3

-----------------------------------------------------------------------------
(* The ring arithmetic of the transmit FIFO *)

\* A remainder is determined by a quotient.
LEMMA ModUnique ==
  ASSUME NEW n \in Nat \ {0}, NEW q \in Int, NEW r \in 0 .. n - 1
  PROVE  (q * n + r) % n = r
OBVIOUS

\* Whole turns do not count.
LEMMA ModTurns ==
  ASSUME NEW n \in Nat \ {0}, NEW q \in Int, NEW a \in Int
  PROVE  (q * n + a) % n = a % n
<1> DEFINE p == a \div n
           r == a % n
<1>1. p \in Int /\ r \in 0 .. n - 1 /\ a = p * n + r
  OBVIOUS
<1> HIDE DEF p, r
<1>2. q * n + a = (q + p) * n + r
  BY <1>1
<1>3. ((q + p) * n + r) % n = r
  BY <1>1, ModUnique
<1> QED BY <1>1, <1>2, <1>3 DEF r

\* Reducing the top index before moving on reaches the same slot.
LEMMA ModStep ==
  ASSUME NEW n \in Nat \ {0}, NEW a \in Int, NEW k \in Int
  PROVE  ((a % n) + k) % n = (a + k) % n
<1> DEFINE p == a \div n
           r == a % n
<1>1. p \in Int /\ r \in 0 .. n - 1 /\ a = p * n + r
  OBVIOUS
<1> HIDE DEF p, r
<1>2. a + k = p * n + (r + k) /\ r + k \in Int
  BY <1>1
<1>3. (p * n + (r + k)) % n = (r + k) % n
  BY <1>1, <1>2, ModTurns
<1> QED BY <1>2, <1>3 DEF r

\* Numbers less than a turn apart have different remainders.
LEMMA ModApart ==
  ASSUME NEW n \in Nat \ {0}, NEW a \in Nat, NEW b \in Nat,
         a < b, b < a + n
  PROVE  a % n # b % n
<1> DEFINE p == a \div n
           q == b \div n
           r == a % n
           s == b % n
<1>1. /\ p \in Int /\ r \in 0 .. n - 1 /\ a = p * n + r
      /\ q \in Int /\ s \in 0 .. n - 1 /\ b = q * n + s
  OBVIOUS
<1> HIDE DEF p, q, r, s
<1>2. SUFFICES ASSUME r = s PROVE FALSE
  BY DEF r, s
<1>3. (q - p) * n = b - a
  BY <1>1, <1>2
<1>4. 0 < (q - p) * n /\ (q - p) * n < n
  BY <1>3
<1>5. 0 < q - p /\ q - p < 1
  BY <1>1, <1>4
<1> QED BY <1>1, <1>5

-----------------------------------------------------------------------------
(* The transmit FIFO *)

\* A sequence given by its length and its elements.
LEMMA SeqGiven ==
  ASSUME NEW n \in Nat, NEW S, NEW f \in [1 .. n -> S]
  PROVE  f \in Seq(S) /\ Len(f) = n
<1>1. f \in Seq(S)
  BY SeqDef
<1> QED BY <1>1, LenProperties

\* The FIFO's contents are a sequence of t_fifolen bytes.
LEMMA ContentsSeq ==
  ASSUME NEW u \in UartType
  PROVE  /\ Contents(u) \in Seq(Bytes \cup {0})
         /\ Len(Contents(u)) = u.t_fifolen
         /\ \A k \in 1 .. u.t_fifolen :
              /\ SlotAfter(u, k - 1) \in Slots
              /\ Contents(u)[k] = u.t_fifo[SlotAfter(u, k - 1)]
<1>1. /\ u.t_fifolen \in 0 .. FifoSize /\ u.t_fifotop \in Slots
      /\ u.t_fifo \in [Slots -> Bytes \cup {0}] /\ FifoSize \in Nat \ {0}
  BY FifoAssumption DEF UartType
<1>2. ASSUME NEW k \in 1 .. u.t_fifolen PROVE SlotAfter(u, k - 1) \in Slots
  BY <1>1 DEF SlotAfter, Slots
<1>3. Contents(u) \in [1 .. u.t_fifolen -> Bytes \cup {0}]
  BY <1>1, <1>2 DEF Contents
<1>4. u.t_fifolen \in Nat
  BY <1>1
<1> QED BY <1>2, <1>3, <1>4, SeqGiven DEF Contents

\* TxFIFO_enq adds a byte behind the ones that are there.
LEMMA EnqContents ==
  ASSUME NEW u \in UartType, NEW c \in Bytes, u.t_fifolen < FifoSize
  PROVE  /\ TxFIFO_enq(u, c) \in UartType
         /\ TxFIFO_enq(u, c).t_fifolen = u.t_fifolen + 1
         /\ TxFIFO_enq(u, c).sent = u.sent /\ TxFIFO_enq(u, c).lsr = u.lsr
         /\ TxFIFO_enq(u, c).ier = u.ier /\ TxFIFO_enq(u, c).iir = u.iir
         /\ Contents(TxFIFO_enq(u, c)) = Contents(u) \o <<c>>
<1> DEFINE w == TxFIFO_enq(u, c)
           s == SlotAfter(u, u.t_fifolen)
           B == Bytes \cup {0}
<1>1. /\ u.t_fifolen \in 0 .. FifoSize - 1 /\ u.t_fifotop \in Slots
      /\ u.t_fifo \in [Slots -> B] /\ FifoSize \in Nat \ {0}
  BY FifoAssumption DEF UartType
<1>2. s \in Slots
  BY <1>1 DEF SlotAfter, Slots
<1>3. w = [u EXCEPT !.t_fifo = [u.t_fifo EXCEPT ![s] = c], !.t_fifolen = u.t_fifolen + 1]
  BY <1>1 DEF TxFIFO_enq
<1> HIDE DEF w, s
<1>4. /\ w \in UartType
      /\ w.t_fifolen = u.t_fifolen + 1 /\ w.t_fifotop = u.t_fifotop
      /\ w.t_fifo = [u.t_fifo EXCEPT ![s] = c]
  <2> DEFINE f == [u.t_fifo EXCEPT ![s] = c]
             n == u.t_fifolen + 1
  <2>1. f \in [Slots -> B] /\ n \in 0 .. FifoSize
    BY <1>1, <1>2
  <2> HIDE DEF f, n
  <2>2. w = [u EXCEPT !.t_fifo = f, !.t_fifolen = n]
    BY <1>3 DEF f, n
  <2> QED BY <2>1, <2>2 DEF UartType, f, n
<1>5. /\ Contents(u) \in Seq(B) /\ Len(Contents(u)) = u.t_fifolen
      /\ \A k \in 1 .. u.t_fifolen :
           /\ SlotAfter(u, k - 1) \in Slots
           /\ Contents(u)[k] = u.t_fifo[SlotAfter(u, k - 1)]
  BY ContentsSeq
<1>6. /\ Contents(w) \in Seq(B) /\ Len(Contents(w)) = u.t_fifolen + 1
      /\ \A k \in 1 .. u.t_fifolen + 1 :
           Contents(w)[k] = w.t_fifo[SlotAfter(w, k - 1)]
  BY <1>4, ContentsSeq
<1>7. \A k : SlotAfter(w, k) = SlotAfter(u, k)
  BY <1>4 DEF SlotAfter
<1>8. <<c>> \in Seq(B) /\ Len(<<c>>) = 1 /\ <<c>>[1] = c
  OBVIOUS
<1>0. w.sent = u.sent /\ w.lsr = u.lsr /\ w.ier = u.ier /\ w.iir = u.iir
  BY <1>3 DEF UartType
<1> DEFINE t == Contents(u) \o <<c>>
<1>9. /\ t \in Seq(B) /\ Len(t) = u.t_fifolen + 1
      /\ \A k \in 1 .. u.t_fifolen + 1 :
           t[k] = IF k <= u.t_fifolen THEN Contents(u)[k] ELSE <<c>>[k - u.t_fifolen]
  BY <1>5, <1>8, ConcatProperties, SMTT(40)
<1> HIDE DEF t, B
<1>10. ASSUME NEW k \in 1 .. u.t_fifolen + 1 PROVE Contents(w)[k] = t[k]
  <2>1. CASE k <= u.t_fifolen
    <3>1. k \in 1 .. u.t_fifolen
      BY <1>1, <2>1
    <3>2. SlotAfter(u, k - 1) # s
      <4>1. (u.t_fifotop + (k - 1)) % FifoSize # (u.t_fifotop + u.t_fifolen) % FifoSize
        <5>1. /\ u.t_fifotop + (k - 1) \in Nat /\ u.t_fifotop + u.t_fifolen \in Nat
              /\ u.t_fifotop + (k - 1) < u.t_fifotop + u.t_fifolen
              /\ u.t_fifotop + u.t_fifolen < u.t_fifotop + (k - 1) + FifoSize
          BY <1>1, <3>1 DEF Slots
        <5> QED BY <1>1, <5>1, ModApart
      <4> QED BY <4>1 DEF SlotAfter, s
    <3>3. Contents(w)[k] = u.t_fifo[SlotAfter(u, k - 1)]
      BY <1>1, <1>4, <1>5, <1>6, <1>7, <3>1, <3>2
    <3> QED BY <1>5, <1>9, <2>1, <3>1, <3>3
  <2>2. CASE k = u.t_fifolen + 1
    <3>1. SlotAfter(w, k - 1) = s /\ k - u.t_fifolen = 1
      BY <1>1, <1>7, <2>2 DEF s
    <3>2. Contents(w)[k] = c
      BY <1>1, <1>2, <1>4, <1>6, <3>1
    <3>3. t[k] = c
      <4>1. ~(k <= u.t_fifolen)
        BY <1>1, <2>2
      <4>2. t[k] = <<c>>[k - u.t_fifolen]
        BY <1>9, <4>1
      <4> QED BY <1>8, <3>1, <4>2
    <3> QED BY <3>2, <3>3
  <2> QED BY <1>1, <2>1, <2>2
<1>11. Contents(w) = t
  BY <1>6, <1>9, <1>10, SeqEqual
<1> QED BY <1>0, <1>4, <1>11 DEF w, t

\* TxFIFO_deq takes the oldest byte, the one TxFIFO_head shows.
LEMMA DeqContents ==
  ASSUME NEW u \in UartType, u.t_fifolen > 0
  PROVE  /\ TxFIFO_deq(u) \in UartType
         /\ TxFIFO_deq(u).t_fifolen = u.t_fifolen - 1
         /\ TxFIFO_deq(u).sent = u.sent /\ TxFIFO_deq(u).lsr = u.lsr
         /\ TxFIFO_deq(u).thr = u.thr
         /\ TxFIFO_deq(u).ier = u.ier /\ TxFIFO_deq(u).iir = u.iir
         /\ Contents(u) = <<TxFIFO_head(u)>> \o Contents(TxFIFO_deq(u))
         /\ Contents(u) \in Seq(Bytes) => /\ TxFIFO_head(u) \in Bytes
                                          /\ Contents(TxFIFO_deq(u)) \in Seq(Bytes)
<1> DEFINE w == TxFIFO_deq(u)
           h == TxFIFO_head(u)
           B == Bytes \cup {0}
<1>1. /\ u.t_fifolen \in 1 .. FifoSize /\ u.t_fifotop \in Slots
      /\ u.t_fifo \in [Slots -> B] /\ FifoSize \in Nat \ {0}
  BY FifoAssumption DEF UartType
<1>2. SlotAfter(u, 1) \in Slots
  BY <1>1 DEF SlotAfter, Slots
<1>3. w = [u EXCEPT !.t_fifolen = u.t_fifolen - 1, !.t_fifotop = SlotAfter(u, 1)]
  BY <1>1 DEF TxFIFO_deq
<1> HIDE DEF w
<1>4. /\ w \in UartType
      /\ w.t_fifolen = u.t_fifolen - 1 /\ w.t_fifotop = SlotAfter(u, 1)
      /\ w.t_fifo = u.t_fifo
  <2> DEFINE p == SlotAfter(u, 1)
             n == u.t_fifolen - 1
  <2>1. p \in Slots /\ n \in 0 .. FifoSize
    BY <1>1, <1>2
  <2> HIDE DEF p, n
  <2>2. w = [u EXCEPT !.t_fifolen = n, !.t_fifotop = p]
    BY <1>3 DEF p, n
  <2> QED BY <2>1, <2>2 DEF UartType, p, n
<1>5. /\ Contents(u) \in Seq(B) /\ Len(Contents(u)) = u.t_fifolen
      /\ \A k \in 1 .. u.t_fifolen :
           /\ SlotAfter(u, k - 1) \in Slots
           /\ Contents(u)[k] = u.t_fifo[SlotAfter(u, k - 1)]
  BY ContentsSeq
<1>6. /\ Contents(w) \in Seq(B) /\ Len(Contents(w)) = u.t_fifolen - 1
      /\ \A k \in 1 .. u.t_fifolen - 1 :
           Contents(w)[k] = u.t_fifo[SlotAfter(w, k - 1)]
  BY <1>4, ContentsSeq
<1>7. SlotAfter(u, 0) = u.t_fifotop
  <2>1. u.t_fifotop \in 0 .. FifoSize - 1 /\ u.t_fifotop + 0 = 0 * FifoSize + u.t_fifotop
    BY <1>1 DEF Slots
  <2>2. (0 * FifoSize + u.t_fifotop) % FifoSize = u.t_fifotop
    BY <1>1, <2>1, ModUnique
  <2> QED BY <2>1, <2>2 DEF SlotAfter
<1>8. h = Contents(u)[1] /\ h \in B
  BY <1>1, <1>5, <1>7 DEF TxFIFO_head
<1> HIDE DEF h
<1>9. <<h>> \in Seq(B) /\ Len(<<h>>) = 1 /\ <<h>>[1] = h
  BY <1>8
<1>0. /\ w.sent = u.sent /\ w.lsr = u.lsr /\ w.thr = u.thr
      /\ w.ier = u.ier /\ w.iir = u.iir
  BY <1>3 DEF UartType
<1> DEFINE t == <<h>> \o Contents(w)
<1>10. /\ t \in Seq(B) /\ Len(t) = u.t_fifolen
       /\ \A k \in 1 .. u.t_fifolen :
            t[k] = IF k <= 1 THEN <<h>>[k] ELSE Contents(w)[k - 1]
  <2>1. 1 + (u.t_fifolen - 1) = u.t_fifolen
    BY <1>1
  <2> QED BY <1>6, <1>9, <2>1, ConcatProperties
<1> HIDE DEF t, B
<1>11. ASSUME NEW k \in 1 .. u.t_fifolen PROVE Contents(u)[k] = t[k]
  <2>1. CASE k = 1
    BY <1>8, <1>9, <1>10, <2>1
  <2>2. CASE k > 1
    <3>1. k - 1 \in 1 .. u.t_fifolen - 1 /\ ~(k <= 1)
      BY <1>1, <2>2
    <3>2. SlotAfter(w, (k - 1) - 1) = SlotAfter(u, k - 1)
      <4>1. u.t_fifotop + 1 \in Int /\ k - 2 \in Int /\ u.t_fifotop \in Int
        BY <1>1 DEF Slots
      <4>2. (((u.t_fifotop + 1) % FifoSize) + (k - 2)) % FifoSize
              = ((u.t_fifotop + 1) + (k - 2)) % FifoSize
        BY <1>1, <4>1, ModStep
      <4>3. (k - 1) - 1 = k - 2 /\ (u.t_fifotop + 1) + (k - 2) = u.t_fifotop + (k - 1)
        BY <4>1
      <4> QED BY <1>4, <4>2, <4>3 DEF SlotAfter
    <3>3. Contents(w)[k - 1] = u.t_fifo[SlotAfter(w, (k - 1) - 1)]
      BY <1>6, <3>1
    <3> QED BY <1>5, <1>10, <3>1, <3>2, <3>3
  <2> QED BY <2>1, <2>2
<1>12. Contents(u) = t
  BY <1>5, <1>10, <1>11, SeqEqual
<1>13. ASSUME Contents(u) \in Seq(Bytes) PROVE h \in Bytes /\ Contents(w) \in Seq(Bytes)
  <2>1. \A k \in 1 .. u.t_fifolen : t[k] \in Bytes
    BY <1>5, <1>12, <1>13, ElementOfSeq
  <2>2. \A k \in 1 .. u.t_fifolen - 1 : Contents(w)[k] \in Bytes
    <3>1. ASSUME NEW k \in 1 .. u.t_fifolen - 1 PROVE Contents(w)[k] \in Bytes
      <4>1. k + 1 \in 1 .. u.t_fifolen /\ ~(k + 1 <= 1) /\ (k + 1) - 1 = k
        BY <1>1
      <4> QED BY <1>10, <2>1, <4>1
    <3> QED BY <3>1
  <2>3. Contents(w) \in [1 .. u.t_fifolen - 1 -> B] /\ u.t_fifolen - 1 \in Nat
    BY <1>1, <1>6, LenProperties
  <2>4. Contents(w) \in [1 .. u.t_fifolen - 1 -> Bytes]
    BY <2>2, <2>3
  <2>5. h \in Bytes
    BY <1>1, <1>8, <1>12, <2>1
  <2> QED BY <2>3, <2>4, <2>5, SeqGiven
<1> QED BY <1>0, <1>4, <1>12, <1>13 DEF w, h, t

-----------------------------------------------------------------------------
(* The UARTs *)

\* The byte THR still holds, as TxConservation counts it.
Held(u) == IF THRE \in u.lsr THEN <<>> ELSE <<u.thr>>

\* Everything the transmitter was given: sent, queued and held.
Handed(u) == u.sent \o Contents(u) \o Held(u)

\* A UART whose queued and held bytes are bytes a guest wrote.
UartFine(u) == /\ u \in UartType
               /\ Contents(u) \in Seq(Bytes)
               /\ THRE \notin u.lsr => u.thr \in Bytes

\* Nothing queued and nothing held.
Idle(u) == u.t_fifolen = 0 /\ THRE \in u.lsr

\* w is u with the bytes in the transmitter possibly moved on.
Steady(u, w) == UartFine(w) /\ Handed(w) = Handed(u) /\ (Idle(u) => Idle(w))

\* The registers of the transmitter are the same in both.
SameTx(u, w) == /\ w.thr = u.thr /\ w.sent = u.sent /\ w.t_fifo = u.t_fifo
                /\ w.t_fifolen = u.t_fifolen /\ w.t_fifotop = u.t_fifotop
                /\ THRE \in w.lsr <=> THRE \in u.lsr

\* A handler that leaves the transmitter's registers alone moves no byte.
LEMMA SameTxSteady ==
  ASSUME NEW u, UartFine(u), NEW w \in UartType, SameTx(u, w)
  PROVE  Steady(u, w)
<1>1. Contents(w) = Contents(u)
  BY DEF SameTx, Contents, SlotAfter
<1>2. Held(w) = Held(u)
  BY DEF SameTx, Held
<1>3. Handed(w) = Handed(u)
  BY <1>1, <1>2 DEF SameTx, Handed
<1> QED BY <1>1, <1>3 DEF SameTx, Steady, UartFine, Idle

\* "Enqueue THR if valid data is available" moves a byte, and no other.
LEMMA LoadSteady ==
  ASSUME NEW u, UartFine(u)
  PROVE  /\ Steady(u, LoadFifo(u))
         /\ LoadFifo(u).ier = u.ier /\ LoadFifo(u).iir = u.iir
<1>1. CASE u.t_fifolen < FifoSize /\ THRE \notin u.lsr
  <2> DEFINE e == TxFIFO_enq(u, u.thr)
             w == [e EXCEPT !.lsr = @ \cup {THRE}]
  <2>1. LoadFifo(u) = w
    BY <1>1 DEF LoadFifo
  <2>2. /\ e \in UartType /\ Contents(e) = Contents(u) \o <<u.thr>>
        /\ e.sent = u.sent /\ e.ier = u.ier /\ e.iir = u.iir
    BY <1>1, EnqContents DEF UartFine
  <2> HIDE DEF e
  <2>3. w \in UartType /\ w.sent = e.sent /\ w.ier = e.ier /\ w.iir = e.iir
    BY <2>2 DEF UartType, THRE
  <2>4. w.t_fifo = e.t_fifo /\ w.t_fifolen = e.t_fifolen /\ w.t_fifotop = e.t_fifotop
        /\ THRE \in w.lsr
    BY <2>2 DEF UartType
  <2> HIDE DEF w
  <2>5. Contents(w) = Contents(e)
    BY <2>4 DEF Contents, SlotAfter
  <2>6. /\ u.sent \in Seq(Bytes) /\ Contents(u) \in Seq(Bytes) /\ u.thr \in Bytes
    BY <1>1 DEF UartFine, UartType
  <2>7. <<u.thr>> \in Seq(Bytes)
    BY <2>6
  <2>8. Contents(w) \in Seq(Bytes)
    BY <2>2, <2>5, <2>6, <2>7, ConcatProperties
  <2>9. Handed(u) = (u.sent \o Contents(u)) \o <<u.thr>>
    BY <1>1 DEF Handed, Held
  <2>10. Handed(w) = (u.sent \o (Contents(u) \o <<u.thr>>)) \o <<>>
    BY <2>2, <2>3, <2>4, <2>5 DEF Handed, Held
  <2> DEFINE a == u.sent
             b == Contents(u)
             c == <<u.thr>>
  <2>11. (a \o (b \o c)) \o <<>> = (a \o b) \o c
    <3> HIDE DEF a, b, c
    <3>1. a \in Seq(Bytes) /\ b \in Seq(Bytes) /\ c \in Seq(Bytes)
      BY <2>6, <2>7 DEF a, b, c
    <3>2. b \o c \in Seq(Bytes)
      BY <3>1, ConcatProperties
    <3>3. a \o (b \o c) \in Seq(Bytes)
      BY <3>1, <3>2, ConcatProperties
    <3>4. (a \o (b \o c)) \o <<>> = a \o (b \o c)
      BY <3>3, ConcatEmptySeq
    <3> QED BY <3>1, <3>4, ConcatAssociative, SMTT(40)
  <2>12. Handed(w) = Handed(u)
    BY <2>9, <2>10, <2>11
  <2> QED BY <1>1, <2>1, <2>2, <2>3, <2>4, <2>8, <2>12 DEF Steady, UartFine, Idle
<1>2. CASE ~(u.t_fifolen < FifoSize /\ THRE \notin u.lsr)
  BY <1>2 DEF LoadFifo, Steady
<1> QED BY <1>1, <1>2

\* "Send a fifo data to uart" hands the oldest byte to the host, and only if
\* the host takes it.
LEMMA SendSteady ==
  ASSUME NEW u, UartFine(u), NEW ok \in BOOLEAN
  PROVE  /\ Steady(u, SendHead(u, ok))
         /\ SendHead(u, ok).ier = u.ier /\ SendHead(u, ok).iir = u.iir
<1>1. CASE u.t_fifolen > 0 /\ ok
  <2> DEFINE h == TxFIFO_head(u)
             x == [u EXCEPT !.sent = Append(@, h)]
             d == TxFIFO_deq(x)
             w == IF d.t_fifolen = 0 /\ THRE \in d.lsr THEN [d EXCEPT !.lsr = @ \cup {TEMT}]
                                                       ELSE d
  <2>0. u \in UartType /\ u.sent \in Seq(Bytes) /\ Contents(u) \in Seq(Bytes)
    BY DEF UartFine, UartType
  <2>1. SendHead(u, ok) = w
    BY <1>1 DEF SendHead, HostWrite
  <2>2. h \in Bytes
    BY <1>1, <2>0, DeqContents
  <2> HIDE DEF h
  <2> DEFINE a == Append(u.sent, h)
  <2>3. x \in UartType /\ x.sent = a
    <3>1. a \in Seq(Bytes)
      BY <2>0, <2>2, AppendProperties
    <3>2. x = [u EXCEPT !.sent = a]
      OBVIOUS
    <3> HIDE DEF a, x
    <3> QED BY <2>0, <3>1, <3>2 DEF UartType
  <2>4. /\ x.t_fifo = u.t_fifo /\ x.t_fifolen = u.t_fifolen /\ x.t_fifotop = u.t_fifotop
        /\ x.thr = u.thr /\ x.lsr = u.lsr /\ x.ier = u.ier /\ x.iir = u.iir
    <3> HIDE DEF a
    <3>1. x = [u EXCEPT !.sent = a]
      BY DEF a
    <3> HIDE DEF x
    <3> QED BY <2>0, <3>1 DEF UartType
  <2> HIDE DEF x
  <2>5. Contents(x) = Contents(u) /\ TxFIFO_head(x) = h
    BY <2>4 DEF Contents, SlotAfter, TxFIFO_head, h
  <2>6. /\ d \in UartType /\ d.t_fifolen = u.t_fifolen - 1
        /\ d.sent = x.sent /\ d.lsr = u.lsr /\ d.thr = u.thr
        /\ d.ier = u.ier /\ d.iir = u.iir
        /\ Contents(u) = <<h>> \o Contents(d)
        /\ Contents(d) \in Seq(Bytes)
    BY <1>1, <2>0, <2>3, <2>4, <2>5, DeqContents
  <2> HIDE DEF d
  <2>7. /\ w \in UartType /\ w.t_fifo = d.t_fifo /\ w.t_fifolen = d.t_fifolen
        /\ w.t_fifotop = d.t_fifotop /\ w.sent = d.sent /\ w.thr = d.thr
        /\ w.ier = d.ier /\ w.iir = d.iir
    BY <2>6 DEF UartType, TEMT
  <2>8. THRE \in w.lsr <=> THRE \in u.lsr
    BY <2>6 DEF UartType, TEMT, THRE
  <2> HIDE DEF w
  <2>9. Contents(w) = Contents(d)
    BY <2>7 DEF Contents, SlotAfter
  <2>10. Handed(w) = (Append(u.sent, h) \o Contents(d)) \o Held(u)
    BY <2>3, <2>6, <2>7, <2>8, <2>9 DEF Handed, Held
  <2>11. Append(u.sent, h) \o Contents(d) = u.sent \o Contents(u)
    <3>1. Append(u.sent, h) = u.sent \o <<h>>
      BY <2>0, <2>2, AppendIsConcat
    <3>2. <<h>> \in Seq(Bytes)
      BY <2>2
    <3> DEFINE b == u.sent
               c == <<h>>
               e == Contents(d)
    <3>3. b \in Seq(Bytes) /\ c \in Seq(Bytes) /\ e \in Seq(Bytes)
      BY <2>0, <2>6, <3>2
    <3>4. (b \o c) \o e = b \o (c \o e)
      <4> HIDE DEF b, c, e
      <4> QED BY <3>3, ConcatAssociative
    <3> QED BY <2>6, <3>1, <3>4
  <2>12. Handed(w) = Handed(u)
    BY <2>10, <2>11 DEF Handed
  <2>13. ~Idle(u)
    BY <1>1, <2>0 DEF Idle, UartType
  <2>14. THRE \notin w.lsr => w.thr \in Bytes
    BY <2>6, <2>7, <2>8 DEF UartFine
  <2>15. UartFine(w)
    BY <2>6, <2>7, <2>9, <2>14 DEF UartFine
  <2> QED BY <2>1, <2>6, <2>7, <2>12, <2>13, <2>15 DEF Steady
<1>2. CASE ~(u.t_fifolen > 0 /\ ok)
  BY <1>2 DEF SendHead, Steady
<1> QED BY <1>1, <1>2

\* lpc2300_uart_transmit keeps every byte, in order.
LEMMA TransmitSteady ==
  ASSUME NEW u, UartFine(u), NEW ok \in BOOLEAN
  PROVE  /\ Steady(u, Transmit(u, ok))
         /\ Transmit(u, ok).ier = u.ier /\ Transmit(u, ok).iir = u.iir
<1> DEFINE l == LoadFifo(u)
<1>1. Steady(u, l) /\ l.ier = u.ier /\ l.iir = u.iir
  BY LoadSteady
<1> HIDE DEF l
<1>2. UartFine(l)
  BY <1>1 DEF Steady
<1>3. Steady(l, SendHead(l, ok)) /\ SendHead(l, ok).ier = l.ier /\ SendHead(l, ok).iir = l.iir
  BY <1>2, SendSteady
<1> QED BY <1>1, <1>3 DEF Steady, Transmit, l

\* The edits of IIR, DR and RBR, none of which is the transmitter's.
LEMMA SetIir ==
  ASSUME NEW u, UartFine(u), NEW c \in {NONE, THRI, RDA}
  PROVE  /\ Steady(u, [u EXCEPT !.iir = c])
         /\ [u EXCEPT !.iir = c].iir = c /\ [u EXCEPT !.iir = c].ier = u.ier
<1> DEFINE w == [u EXCEPT !.iir = c]
<1>1. u \in UartType
  BY DEF UartFine
<1>2. w \in UartType /\ SameTx(u, w) /\ w.iir = c /\ w.ier = u.ier
  BY <1>1 DEF UartType, SameTx
<1> HIDE DEF w
<1> QED BY <1>2, SameTxSteady DEF w

\* The byte the guest reads leaves RBR.
LEMMA ClearDr ==
  ASSUME NEW u, UartFine(u)
  PROVE  /\ Steady(u, [u EXCEPT !.lsr = @ \ {DR}])
         /\ [u EXCEPT !.lsr = @ \ {DR}].iir = u.iir
         /\ [u EXCEPT !.lsr = @ \ {DR}].ier = u.ier
<1> DEFINE w == [u EXCEPT !.lsr = @ \ {DR}]
<1>1. u \in UartType
  BY DEF UartFine
<1>2. w \in UartType /\ w.iir = u.iir /\ w.ier = u.ier
  BY <1>1 DEF UartType
<1>3. SameTx(u, w)
  BY <1>1 DEF UartType, SameTx, DR, THRE
<1> HIDE DEF w
<1> QED BY <1>2, <1>3, SameTxSteady DEF w

\* A byte of the host arrives.
LEMMA HostReadSteady ==
  ASSUME NEW u, UartFine(u)
  PROVE  Steady(u, HostRead(u)) /\ HostRead(u).iir = u.iir /\ HostRead(u).ier = u.ier
<1> DEFINE w == HostRead(u)
           g == u.given + 1
           l == u.lsr \cup {DR}
<1>1. u \in UartType
  BY DEF UartFine
<1>2. w = [u EXCEPT !.given = g, !.rbr = g, !.lsr = l]
  BY DEF HostRead
<1>3. g \in Nat /\ l \subseteq {DR, THRE, TEMT} /\ (THRE \in l <=> THRE \in u.lsr)
  BY <1>1 DEF UartType, DR, THRE
<1> HIDE DEF w, g, l
<1>4. w \in UartType /\ w.iir = u.iir /\ w.ier = u.ier
  BY <1>1, <1>2, <1>3 DEF UartType
<1>5. SameTx(u, w)
  BY <1>1, <1>2, <1>3 DEF UartType, SameTx
<1> QED BY <1>4, <1>5, SameTxSteady DEF w

\* Of the request lines of v, only that of q may differ in w.
Quiet(v, w, q) == w \in VicType /\ w.INTSOURCE \ {q} = v.INTSOURCE \ {q}

\* What every handler of a UART keeps, but for a write of THR or IER: the bytes
\* of the transmitter, the lines of other devices, and the cause of its own.
UartEffect(u, v, q, r) == /\ Steady(u, r.u) /\ r.u.ier = u.ier
                          /\ Quiet(v, r.v, q)
                          /\ q \in r.v.INTSOURCE => r.u.iir # NONE

\* The common tail of the handlers lowers the line.
LEMMA ClearCauseEffect ==
  ASSUME NEW u, UartFine(u), NEW v \in VicType, NEW q \in Irqs, NEW c
  PROVE  UartEffect(u, v, q, ClearCause(u, v, q, c))
<1> DEFINE d == Drop(v, q)
           w == [u EXCEPT !.iir = NONE]
<1>1. d \in VicType /\ d.INTSOURCE = v.INTSOURCE \ {q}
  BY DropFacts
<1>2. Steady(u, w) /\ w.ier = u.ier
  BY SetIir
<1>3. Steady(u, u)
  BY DEF Steady
<1> HIDE DEF d, w
<1>4. UpdateInt(d) \in VicType /\ UpdateInt(d).INTSOURCE = d.INTSOURCE
  BY <1>1, UpdateFields
<1>5. CASE q \in v.IntEnable /\ u.iir = c
  <2>1. ClearCause(u, v, q, c) = [u |-> w, v |-> UpdateInt(d)]
    BY <1>5 DEF ClearCause, Ports, w, d
  <2> QED BY <1>1, <1>2, <1>4, <2>1 DEF UartEffect, Quiet
<1>6. CASE ~(q \in v.IntEnable /\ u.iir = c)
  <2>1. ClearCause(u, v, q, c) = [u |-> u, v |-> d]
    BY <1>6 DEF ClearCause, Ports, d
  <2> QED BY <1>1, <1>3, <2>1 DEF UartEffect, Quiet
<1> QED BY <1>5, <1>6

\* Nothing happens to either.
LEMMA NoEffect ==
  ASSUME NEW u, UartFine(u), NEW v \in VicType, NEW q,
         q \in v.INTSOURCE => u.iir # NONE
  PROVE  UartEffect(u, v, q, Ports(u, v))
BY DEF UartEffect, Steady, Quiet, Ports

\* The four registers a guest reads.
LEMMA ReadEffect ==
  ASSUME NEW u, UartFine(u), NEW v \in VicType, NEW q \in Irqs, NEW ok \in BOOLEAN,
         q \in v.INTSOURCE => u.iir # NONE
  PROVE  /\ UartEffect(u, v, q, ReadRbr(u, v, q))
         /\ UartEffect(u, v, q, ReadIir(u, v, q))
         /\ UartEffect(u, v, q, ReadLsr(u, v, q, ok))
         /\ UartEffect(u, v, q, ReadMsr(u, v, q))
<1>1. UartEffect(u, v, q, ReadRbr(u, v, q))
  <2>1. CASE u.dlab
    BY <2>1, NoEffect DEF ReadRbr
  <2>2. CASE ~u.dlab
    <3> DEFINE w == [u EXCEPT !.lsr = @ \ {DR}]
               r == ClearCause(w, v, q, RDA)
    <3>1. Steady(u, w) /\ w.ier = u.ier
      BY ClearDr
    <3> HIDE DEF w
    <3>2. UartEffect(w, v, q, r)
      BY <3>1, ClearCauseEffect DEF Steady
    <3>3. ReadRbr(u, v, q) = r
      BY <2>2 DEF ReadRbr, w
    <3> HIDE DEF r
    <3> QED BY <3>1, <3>2, <3>3 DEF UartEffect, Steady
  <2> QED BY <2>1, <2>2
<1>2. UartEffect(u, v, q, ReadIir(u, v, q))
  BY ClearCauseEffect DEF ReadIir
<1> DEFINE d == Drop(v, q)
<1>3. d \in VicType /\ d.INTSOURCE = v.INTSOURCE \ {q}
  BY DropFacts
<1> HIDE DEF d
<1>4. ASSUME NEW w, Steady(u, w), w.ier = u.ier
      PROVE  UartEffect(u, v, q, Ports(w, d))
  BY <1>3, <1>4 DEF UartEffect, Quiet, Ports
<1>5. Steady(u, u) /\ Steady(u, HostRead(u)) /\ HostRead(u).ier = u.ier
  BY HostReadSteady DEF Steady
<1> QED BY <1>1, <1>2, <1>4, <1>5 DEF ReadLsr, ReadMsr, d

\* The UART's part of a cycle, wherever uartcnt stands.
LEMMA UartCycleEffect ==
  ASSUME NEW u, UartFine(u), NEW v \in VicType, NEW q \in Irqs,
         NEW rxSlot \in BOOLEAN, NEW txSlot \in BOOLEAN, NEW ok \in BOOLEAN,
         q \in v.INTSOURCE => u.iir # NONE
  PROVE  UartEffect(u, v, q, UartCycle(u, v, q, rxSlot, txSlot, ok))
<1> DEFINE w == Raise(v, q)
<1>1. w \in VicType /\ w.INTSOURCE = v.INTSOURCE \cup {q}
  BY RaiseFacts
<1> HIDE DEF w
<1>2. UartEffect(u, v, q, CycleReceive(u, v, q, ok))
  <2>1. CASE ok
    <3> DEFINE h == HostRead(u)
               x == [h EXCEPT !.iir = RDA]
    <3>1. Steady(u, h) /\ h.ier = u.ier
      BY HostReadSteady
    <3> HIDE DEF h
    <3>2. Steady(h, x) /\ x.ier = h.ier /\ x.iir = RDA
      BY <3>1, SetIir DEF Steady
    <3>3. CycleReceive(u, v, q, ok) = [u |-> x, v |-> w]
      BY <2>1 DEF CycleReceive, Ports, w, h
    <3> HIDE DEF x
    <3>4. Steady(u, x) /\ x.ier = u.ier /\ x.iir # NONE
      BY <3>1, <3>2 DEF Steady, RDA, NONE
    <3> QED BY <1>1, <3>3, <3>4 DEF UartEffect, Quiet
  <2>2. CASE ~ok
    <3>1. CycleReceive(u, v, q, ok) = [u |-> u, v |-> UpdateInt(v)]
      BY <2>2 DEF CycleReceive, Ports
    <3>2. UpdateInt(v) \in VicType /\ UpdateInt(v).INTSOURCE = v.INTSOURCE
      BY UpdateFields
    <3> QED BY <3>1, <3>2 DEF UartEffect, Quiet, Steady
  <2> QED BY <2>1, <2>2
<1>3. UartEffect(u, v, q, CycleTransmit(u, v, q, ok))
  <2> DEFINE t == Transmit(u, ok)
             x == [t EXCEPT !.iir = THRI]
  <2>1. Steady(u, t) /\ t.ier = u.ier /\ t.iir = u.iir
    BY TransmitSteady
  <2> HIDE DEF t
  <2>2. Steady(t, x) /\ x.ier = t.ier /\ x.iir = THRI
    BY <2>1, SetIir DEF Steady
  <2>3. \/ CycleTransmit(u, v, q, ok) = [u |-> x, v |-> w]
        \/ CycleTransmit(u, v, q, ok) = [u |-> t, v |-> v]
    BY DEF CycleTransmit, Ports, w, t
  <2> HIDE DEF x
  <2>4. CASE CycleTransmit(u, v, q, ok) = [u |-> x, v |-> w]
    <3>1. Steady(u, x) /\ x.ier = u.ier /\ x.iir # NONE
      BY <2>1, <2>2 DEF Steady, THRI, NONE
    <3> QED BY <1>1, <2>4, <3>1 DEF UartEffect, Quiet
  <2>5. CASE CycleTransmit(u, v, q, ok) = [u |-> t, v |-> v]
    BY <2>1, <2>5 DEF UartEffect, Quiet
  <2> QED BY <2>3, <2>4, <2>5
<1>4. UartEffect(u, v, q, Ports(u, v))
  BY NoEffect
<1>5. \/ UartCycle(u, v, q, rxSlot, txSlot, ok) = CycleReceive(u, v, q, ok)
      \/ UartCycle(u, v, q, rxSlot, txSlot, ok) = CycleTransmit(u, v, q, ok)
      \/ UartCycle(u, v, q, rxSlot, txSlot, ok) = Ports(u, v)
  BY DEF UartCycle
<1> QED BY <1>2, <1>3, <1>4, <1>5

\* What the transmitter was given is a sequence of bytes, and all of it is sent
\* when the transmitter is idle.
LEMMA HandedSeq ==
  ASSUME NEW u, UartFine(u)
  PROVE  /\ u.sent \o Contents(u) \in Seq(Bytes)
         /\ Handed(u) \in Seq(Bytes)
         /\ THRE \in u.lsr => Handed(u) = u.sent \o Contents(u)
         /\ Idle(u) => Handed(u) = u.sent
<1>1. u \in UartType /\ u.sent \in Seq(Bytes) /\ Contents(u) \in Seq(Bytes)
  BY DEF UartFine, UartType
<1>2. u.sent \o Contents(u) \in Seq(Bytes)
  BY <1>1, ConcatProperties
<1>3. Held(u) \in Seq(Bytes)
  <2>1. CASE THRE \in u.lsr
    BY <2>1, EmptySeq DEF Held
  <2>2. CASE THRE \notin u.lsr
    <3>1. u.thr \in Bytes
      BY <2>2 DEF UartFine
    <3> QED BY <2>2, <3>1 DEF Held
  <2> QED BY <2>1, <2>2
<1>4. THRE \in u.lsr => Handed(u) = u.sent \o Contents(u)
  BY <1>2, ConcatEmptySeq DEF Handed, Held
<1>5. ASSUME Idle(u) PROVE Handed(u) = u.sent
  <2>1. Len(Contents(u)) = 0
    BY <1>1, <1>5, ContentsSeq DEF Idle
  <2>2. Contents(u) = <<>>
    BY <1>1, <2>1, EmptySeq
  <2> QED BY <1>1, <1>4, <1>5, <2>2, ConcatEmptySeq DEF Idle
<1> QED BY <1>2, <1>3, <1>4, <1>5, ConcatProperties DEF Handed

\* Replacing the last byte of a sequence.
LEMMA ReplaceLast ==
  ASSUME NEW s \in Seq(Bytes), NEW b \in Bytes, NEW c \in Bytes
  PROVE  [s \o <<b>> EXCEPT ![Len(s \o <<b>>)] = c] = s \o <<c>>
<1> DEFINE x == s \o <<b>>
           y == s \o <<c>>
           n == Len(s)
           z == [x EXCEPT ![n + 1] = c]
<1>1. n \in Nat
  BY LenProperties
<1>2. /\ <<b>> \in Seq(Bytes) /\ Len(<<b>>) = 1
      /\ <<c>> \in Seq(Bytes) /\ Len(<<c>>) = 1 /\ <<c>>[1] = c
  OBVIOUS
<1>3. /\ x \in Seq(Bytes) /\ Len(x) = n + 1
      /\ \A i \in 1 .. n + 1 : x[i] = IF i <= n THEN s[i] ELSE <<b>>[i - n]
  BY <1>2, ConcatProperties
<1>4. /\ y \in Seq(Bytes) /\ Len(y) = n + 1
      /\ \A i \in 1 .. n + 1 : y[i] = IF i <= n THEN s[i] ELSE <<c>>[i - n]
  BY <1>2, ConcatProperties
<1> HIDE DEF x, y, n
<1>5. n + 1 \in 1 .. Len(x)
  BY <1>1, <1>3
<1>6. /\ z \in Seq(Bytes) /\ Len(z) = n + 1
      /\ \A i \in 1 .. n + 1 : z[i] = IF i = n + 1 THEN c ELSE x[i]
  BY <1>3, <1>5, ExceptSeq
<1> HIDE DEF z
<1>7. ASSUME NEW i \in 1 .. n + 1 PROVE z[i] = y[i]
  <2>1. CASE i = n + 1
    <3>1. i - n = 1 /\ ~(i <= n)
      BY <1>1, <2>1
    <3>2. y[i] = <<c>>[i - n]
      BY <1>4, <3>1
    <3> QED BY <1>2, <1>6, <2>1, <3>1, <3>2
  <2>2. CASE i # n + 1
    <3>1. i <= n
      BY <1>1, <2>2
    <3> QED BY <1>3, <1>4, <1>6, <2>2, <3>1
  <2> QED BY <2>1, <2>2
<1>8. z = y
  BY <1>4, <1>6, <1>7, SeqEqual
<1>9. z = [x EXCEPT ![Len(x)] = c]
  BY <1>3 DEF z
<1> QED BY <1>8, <1>9 DEF x, y

\* What a write of THR does: the byte goes directly to the host with the transmit
\* interrupt off, else to the holding register, over the byte that is still there.
ThrEffect(u, v, q, c, ok, r) ==
  /\ UartFine(r.u) /\ r.u.ier = u.ier
  /\ Quiet(v, r.v, q)
  /\ (q \in v.INTSOURCE => u.iir # NONE) => (q \in r.v.INTSOURCE => r.u.iir # NONE)
  /\ u.dlab => r.u = u
  /\ ~u.dlab /\ TXIE \notin u.ier /\ Idle(u) =>
       Idle(r.u) /\ Handed(r.u) = IF ok THEN Append(Handed(u), c) ELSE Handed(u)
  /\ ~u.dlab /\ TXIE \in u.ier /\ THRE \in u.lsr => Handed(r.u) = Append(Handed(u), c)
  /\ ~u.dlab /\ TXIE \in u.ier /\ THRE \notin u.lsr =>
       Handed(r.u) = [Handed(u) EXCEPT ![Len(Handed(u))] = c]

\* A write of THR, in each of the three cases of the code.
LEMMA WriteThrEffect ==
  ASSUME NEW u, UartFine(u), NEW v \in VicType, NEW q \in Irqs, NEW c \in Bytes,
         NEW ok \in BOOLEAN, NEW r, r = WriteThr(u, v, q, c, ok)
  PROVE  ThrEffect(u, v, q, c, ok, r)
<1> USE DEF ThrEffect
<1>1. u \in UartType /\ u.sent \in Seq(Bytes) /\ Contents(u) \in Seq(Bytes)
  BY DEF UartFine, UartType
<1>2. CASE u.dlab
  <2>1. r = [u |-> u, v |-> v]
    BY <1>2 DEF WriteThr, Ports
  <2> QED BY <1>2, <2>1 DEF Quiet
<1>3. CASE ~u.dlab /\ TXIE \notin u.ier
  <2> DEFINE a == IF ok THEN Append(u.sent, c) ELSE u.sent
             x == [u EXCEPT !.sent = a, !.thr = c, !.lsr = u.lsr \cup {THRE}]
  <2>1. a \in Seq(Bytes)
    BY <1>1, AppendProperties
  <2>2. r = [u |-> [HostWrite(u, c, ok) EXCEPT !.thr = c, !.lsr = @ \cup {THRE}], v |-> v]
    BY <1>3 DEF WriteThr, Ports
  <2>3. r = [u |-> x, v |-> v]
    <3>1. CASE ok
      BY <2>2, <3>1 DEF HostWrite
    <3>2. CASE ~ok
      <4>1. x = [u EXCEPT !.thr = c, !.lsr = @ \cup {THRE}]
        BY <1>1, <3>2 DEF UartType
      <4> QED BY <2>2, <3>2, <4>1 DEF HostWrite
    <3> QED BY <3>1, <3>2
  <2> HIDE DEF a
  <2>4. x \in UartType /\ x.sent = a /\ THRE \in x.lsr /\ x.ier = u.ier /\ x.iir = u.iir
    BY <1>1, <2>1 DEF UartType
  <2>5. x.t_fifo = u.t_fifo /\ x.t_fifolen = u.t_fifolen /\ x.t_fifotop = u.t_fifotop
    BY <1>1 DEF UartType
  <2> HIDE DEF x
  <2>6. Contents(x) = Contents(u)
    BY <2>5 DEF Contents, SlotAfter
  <2>7. UartFine(x)
    BY <1>1, <2>4, <2>6 DEF UartFine
  <2>8. ASSUME Idle(u) PROVE Idle(x) /\ Handed(x) = a /\ Handed(u) = u.sent
    BY <2>4, <2>5, <2>7, <2>8, HandedSeq DEF Idle
  <2> QED BY <1>3, <2>3, <2>4, <2>7, <2>8 DEF Quiet, a
<1>4. CASE ~u.dlab /\ TXIE \in u.ier
  <2> DEFINE x == [u EXCEPT !.thr = c, !.lsr = @ \ {THRE}]
  <2>1. r = ClearCause(x, v, q, THRI)
    BY <1>4 DEF WriteThr
  <2>2. /\ x \in UartType /\ x.sent = u.sent /\ x.ier = u.ier
        /\ x.thr = c /\ THRE \notin x.lsr
    BY <1>1 DEF UartType
  <2>3. x.t_fifo = u.t_fifo /\ x.t_fifolen = u.t_fifolen /\ x.t_fifotop = u.t_fifotop
    BY <1>1 DEF UartType
  <2> HIDE DEF x
  <2>4. Contents(x) = Contents(u)
    BY <2>3 DEF Contents, SlotAfter
  <2>5. UartFine(x)
    BY <1>1, <2>2, <2>4 DEF UartFine
  <2>6. UartEffect(x, v, q, r)
    BY <2>1, <2>5, ClearCauseEffect
  <2> DEFINE p == u.sent \o Contents(u)
  <2>7. Handed(r.u) = p \o <<c>>
    BY <2>2, <2>4, <2>6 DEF UartEffect, Steady, Handed, Held
  <2>8. p \in Seq(Bytes)
    BY HandedSeq
  <2>9. THRE \in u.lsr => Handed(u) = p
    BY HandedSeq
  <2>10. THRE \notin u.lsr => Handed(u) = p \o <<u.thr>> /\ u.thr \in Bytes
    BY DEF Handed, Held, UartFine
  <2> HIDE DEF p
  <2>11. Append(p, c) = p \o <<c>>
    BY <2>8, AppendIsConcat
  <2>12. THRE \notin u.lsr => Handed(r.u) = [Handed(u) EXCEPT ![Len(Handed(u))] = c]
    BY <2>7, <2>8, <2>10, ReplaceLast
  <2> QED BY <1>4, <2>2, <2>6, <2>7, <2>9, <2>11, <2>12 DEF UartEffect, Steady
<1> QED BY <1>1, <1>2, <1>3, <1>4

\* Writes of IER and LCR.
LEMMA WriteControl ==
  ASSUME NEW u, UartFine(u)
  PROVE  /\ \A d \in SUBSET {RXIE, TXIE} :
              /\ Steady(u, WriteIer(u, d)) /\ WriteIer(u, d).iir = u.iir
              /\ WriteIer(u, d).ier \in {d, u.ier}
         /\ \A d \in BOOLEAN :
              /\ Steady(u, WriteLcr(u, d)) /\ WriteLcr(u, d).iir = u.iir
              /\ WriteLcr(u, d).ier = u.ier
<1>1. u \in UartType
  BY DEF UartFine
<1>2. ASSUME NEW d \in SUBSET {RXIE, TXIE}
      PROVE  /\ Steady(u, WriteIer(u, d)) /\ WriteIer(u, d).iir = u.iir
             /\ WriteIer(u, d).ier \in {d, u.ier}
  <2> DEFINE w == [u EXCEPT !.ier = d]
  <2>1. w \in UartType /\ SameTx(u, w) /\ w.iir = u.iir /\ w.ier = d
    BY <1>1 DEF UartType, SameTx
  <2> HIDE DEF w
  <2>2. Steady(u, w) /\ Steady(u, u)
    BY <2>1, SameTxSteady DEF Steady
  <2> QED BY <2>1, <2>2 DEF WriteIer, w
<1>3. ASSUME NEW d \in BOOLEAN
      PROVE  /\ Steady(u, WriteLcr(u, d)) /\ WriteLcr(u, d).iir = u.iir
             /\ WriteLcr(u, d).ier = u.ier
  <2> DEFINE w == WriteLcr(u, d)
  <2>1. w \in UartType /\ SameTx(u, w) /\ w.iir = u.iir /\ w.ier = u.ier
    BY <1>1 DEF UartType, SameTx, WriteLcr
  <2> HIDE DEF w
  <2> QED BY <2>1, SameTxSteady DEF w
<1> QED BY <1>2, <1>3

-----------------------------------------------------------------------------
(* The timers *)

\* What every handler of a timer keeps: the ranges of its registers, the lines
\* of other devices, and the cause of its own.
TimerEffect(v, q, r) == /\ r.m \in TimerType
                        /\ Quiet(v, r.v, q)
                        /\ q \in r.v.INTSOURCE => r.m.ir # {}

\* The counters count within a word.
LEMMA WordFacts ==
  /\ Word \in Nat \ {0} /\ 0 \in Words /\ Words \subseteq Nat
  /\ \A a \in Int : a % Word \in Words
BY TimerAssumption DEF Words

\* A count that reaches match registers flags each that asks for an interrupt.
LEMMA AdvanceEffect ==
  ASSUME NEW m \in TimerType, NEW v \in VicType, NEW q \in Irqs, NEW t \in Nat,
         q \in v.INTSOURCE => m.ir # {}
  PROVE  TimerEffect(v, q, Advance(m, v, q, t))
<1> DEFINE ntc  == (m.tc + t) % Word
           hits == {n \in MRs : m.mr[n] = ntc}
           does == UNION {m.mcr[n] : n \in hits}
           flags == IF q \in v.IntEnable THEN {n \in hits : INTR \in m.mcr[n]} ELSE {}
           ntc2 == IF RESET \in does THEN 0 ELSE ntc
           tcr2 == IF STOP \in does THEN m.tcr \ {ENABLE} ELSE m.tcr
           ir2  == m.ir \cup flags
           x == [m EXCEPT !.pc = 0, !.tc = ntc2, !.tcr = tcr2, !.ir = ir2]
           w == IF flags # {} THEN Raise(v, q) ELSE v
<1>1. Advance(m, v, q, t) = [m |-> x, v |-> w]
  BY DEF Advance, Tick
<1>2. flags \subseteq MRs
  OBVIOUS
<1>3. ntc \in Words
  <2>1. m.tc \in Nat
    BY WordFacts DEF TimerType
  <2>2. m.tc + t \in Int
    BY <2>1
  <2> QED BY <2>2, WordFacts
<1> HIDE DEF ntc, does, flags
<1>4. ntc2 \in Words /\ 0 \in Words
  BY <1>3, WordFacts
<1>5. tcr2 \subseteq {ENABLE, RESET} /\ ir2 \subseteq MRs
  BY <1>2 DEF TimerType
<1>6. /\ w \in VicType
      /\ w.INTSOURCE = IF flags # {} THEN v.INTSOURCE \cup {q} ELSE v.INTSOURCE
  BY RaiseFacts
<1>7. q \in w.INTSOURCE => ir2 # {}
  BY <1>6
<1> HIDE DEF ntc2, tcr2, ir2, w
<1>8. x \in TimerType /\ x.ir = ir2
  BY <1>4, <1>5 DEF TimerType
<1> HIDE DEF x
<1> QED BY <1>1, <1>6, <1>7, <1>8 DEF TimerEffect, Quiet

\* The timer's part of a cycle.
LEMMA TimerCycleEffect ==
  ASSUME NEW m \in TimerType, NEW v \in VicType, NEW q \in Irqs, NEW t \in Nat,
         q \in v.INTSOURCE => m.ir # {}
  PROVE  TimerEffect(v, q, TimerCycle(m, v, q, t))
<1>1. ASSUME NEW x \in TimerType, x.ir = m.ir PROVE TimerEffect(v, q, Tick(x, v))
  BY <1>1 DEF TimerEffect, Quiet, Tick
<1>2. Prescaled(m) \in TimerType /\ Prescaled(m).ir = m.ir
  <2> DEFINE c == (m.pc + 1) % Word
             x == [m EXCEPT !.pc = c]
  <2>1. c \in Words
    <3>1. m.pc \in Nat
      BY WordFacts DEF TimerType
    <3>2. m.pc + 1 \in Int
      BY <3>1
    <3> QED BY <3>2, WordFacts
  <2>2. Prescaled(m) = IF m.ctcr THEN m ELSE x
    BY DEF Prescaled
  <2> HIDE DEF c
  <2>3. x \in TimerType /\ x.ir = m.ir
    BY <2>1 DEF TimerType
  <2> QED BY <2>2, <2>3
<1>3. CASE RESET \in m.tcr
  <2> DEFINE x == [m EXCEPT !.pc = 0, !.pr = 0]
  <2>1. x \in TimerType /\ x.ir = m.ir
    BY WordFacts DEF TimerType
  <2>2. TimerCycle(m, v, q, t) = Tick(x, v)
    BY <1>3 DEF TimerCycle
  <2> HIDE DEF x
  <2> QED BY <1>1, <2>1, <2>2
<1>4. CASE RESET \notin m.tcr /\ ENABLE \in m.tcr
  <2>1. \/ TimerCycle(m, v, q, t) = Advance(Prescaled(m), v, q, t)
        \/ TimerCycle(m, v, q, t) = Tick(Prescaled(m), v)
    BY <1>4 DEF TimerCycle
  <2> QED BY <1>1, <1>2, <2>1, AdvanceEffect
<1>5. CASE RESET \notin m.tcr /\ ENABLE \notin m.tcr
  <2>1. TimerCycle(m, v, q, t) = Tick(m, v)
    BY <1>5 DEF TimerCycle
  <2> QED BY <1>1, <2>1
<1> QED BY <1>3, <1>4, <1>5

\* A write of IR clears flags and line together, or neither.
LEMMA WriteIrEffect ==
  ASSUME NEW m \in TimerType, NEW v \in VicType, NEW q \in Irqs, NEW d,
         q \in v.INTSOURCE => m.ir # {}
  PROVE  TimerEffect(v, q, WriteIr(m, v, q, d))
<1> DEFINE w == IF d \cap m.ir # {} THEN Drop(v, q) ELSE v
           e == IF d \cap m.ir # {} THEN [m EXCEPT !.ir = {}] ELSE m
           z == IF q \in v.IntEnable THEN UpdateInt(w) ELSE w
<1>1. WriteIr(m, v, q, d) = [m |-> e, v |-> z]
  BY DEF WriteIr, Tick
<1>2. e \in TimerType /\ e.ir = IF d \cap m.ir # {} THEN {} ELSE m.ir
  BY DEF TimerType
<1>3. /\ w \in VicType
      /\ w.INTSOURCE = IF d \cap m.ir # {} THEN v.INTSOURCE \ {q} ELSE v.INTSOURCE
  BY DropFacts
<1> HIDE DEF w, e
<1>4. z \in VicType /\ z.INTSOURCE = w.INTSOURCE
  BY <1>3, UpdateFields
<1> HIDE DEF z
<1> QED BY <1>1, <1>2, <1>3, <1>4 DEF TimerEffect, Quiet

\* The registers with plain stores keep the flags of IR.
LEMMA StoreTyped ==
  ASSUME NEW m \in TimerType
  PROVE  /\ \A d \in SUBSET {ENABLE, RESET} :
              WriteTcr(m, d) \in TimerType /\ WriteTcr(m, d).ir = m.ir
         /\ \A d \in Words :
              /\ WriteTc(m, d) \in TimerType /\ WriteTc(m, d).ir = m.ir
              /\ WritePr(m, d) \in TimerType /\ WritePr(m, d).ir = m.ir
              /\ WritePc(m, d) \in TimerType /\ WritePc(m, d).ir = m.ir
         /\ \A d \in [MRs -> SUBSET {INTR, RESET, STOP}] :
              WriteMcr(m, d) \in TimerType /\ WriteMcr(m, d).ir = m.ir
         /\ \A n \in MRs, d \in Words :
              WriteMr(m, n, d) \in TimerType /\ WriteMr(m, n, d).ir = m.ir
         /\ \A d \in BOOLEAN :
              WriteCtcr(m, d) \in TimerType /\ WriteCtcr(m, d).ir = m.ir
<1>1. ASSUME NEW d \in SUBSET {ENABLE, RESET}
      PROVE  WriteTcr(m, d) \in TimerType /\ WriteTcr(m, d).ir = m.ir
  <2>1. CASE RESET \in d
    BY <2>1, WordFacts DEF WriteTcr, TimerType
  <2>2. CASE RESET \notin d
    BY <2>2 DEF WriteTcr, TimerType
  <2> QED BY <2>1, <2>2
<1>2. ASSUME NEW d \in Words
      PROVE  /\ WriteTc(m, d) \in TimerType /\ WriteTc(m, d).ir = m.ir
             /\ WritePr(m, d) \in TimerType /\ WritePr(m, d).ir = m.ir
             /\ WritePc(m, d) \in TimerType /\ WritePc(m, d).ir = m.ir
  BY DEF WriteTc, WritePr, WritePc, TimerType
<1>3. ASSUME NEW d \in [MRs -> SUBSET {INTR, RESET, STOP}]
      PROVE  WriteMcr(m, d) \in TimerType /\ WriteMcr(m, d).ir = m.ir
  BY DEF WriteMcr, TimerType
<1>4. ASSUME NEW n \in MRs, NEW d \in Words
      PROVE  WriteMr(m, n, d) \in TimerType /\ WriteMr(m, n, d).ir = m.ir
  <2> DEFINE f == [m.mr EXCEPT ![n] = d]
             x == [m EXCEPT !.mr = f]
  <2>1. f \in [MRs -> Words]
    BY DEF TimerType
  <2>2. WriteMr(m, n, d) = x
    BY DEF WriteMr
  <2> HIDE DEF f
  <2> QED BY <2>1, <2>2 DEF TimerType
<1>5. ASSUME NEW d \in BOOLEAN
      PROVE  WriteCtcr(m, d) \in TimerType /\ WriteCtcr(m, d).ir = m.ir
  BY DEF WriteCtcr, TimerType
<1> QED BY <1>1, <1>2, <1>3, <1>4, <1>5

-----------------------------------------------------------------------------
(* Reset *)

\* lpc2300_io_reset leaves every device in range and the transmitters idle.
LEMMA ResetTyped ==
  /\ VicReset \in VicType /\ VicReset.INTSOURCE = {}
  /\ UartFine(UartReset) /\ Idle(UartReset) /\ UartReset \in UartType
  /\ TimerReset \in TimerType
<1>1. VicReset \in VicType /\ VicReset.INTSOURCE = {}
  <2>1. NPrio - 1 \in Nat /\ NoAddr \in Addrs
    BY VicAssumption
  <2> QED BY <2>1 DEF VicReset, VicType
<1>2. UartReset \in UartType
  <2>1. /\ [k \in Slots |-> 0] \in [Slots -> Bytes \cup {0}]
        /\ 0 \in 0 .. FifoSize /\ 0 \in Slots /\ <<>> \in Seq(Bytes)
    BY FifoAssumption, EmptySeq DEF Slots
  <2> QED BY <2>1 DEF UartReset, UartType
<1>3. UartReset.t_fifolen = 0 /\ THRE \in UartReset.lsr
  BY DEF UartReset
<1>4. UartFine(UartReset)
  <2>1. Len(Contents(UartReset)) = 0 /\ Contents(UartReset) \in Seq(Bytes \cup {0})
    BY <1>2, <1>3, ContentsSeq
  <2>2. Contents(UartReset) = <<>>
    BY <2>1, EmptySeq
  <2> QED BY <1>2, <1>3, <2>2, EmptySeq DEF UartFine
<1>5. TimerReset \in TimerType
  BY WordFacts DEF TimerReset, TimerType
<1> QED BY <1>1, <1>2, <1>3, <1>4, <1>5 DEF Idle
=============================================================================
