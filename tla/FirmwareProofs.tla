--------------------------- MODULE FirmwareProofs ---------------------------
(***************************************************************************)
(* Proofs about interrupt-driven firmware on the LPC2300 machine: bytes go *)
(* out in order on every UART, they come in in order on UART2 and UART3,   *)
(* and with all requests at one level an end of interrupt retires the      *)
(* request it is meant for.  Each holds wherever handlers write            *)
(* VICVectAddr, for any timers, FIFO size and number of bytes.             *)
(***************************************************************************)
EXTENDS Firmware, DeviceLemmas

USE DEF Prios, LOW, HIGH

-----------------------------------------------------------------------------
(* The inductive invariant *)

\* The handler of UART i has read c from IIR and not acted on it yet.
Reported(i, c) == cpu = "data" /\ isr = IRQUART(i) /\ cause = c

\* A UART as the boot code leaves it.
SetUp(u) == UartFine(u) /\ TXIE \in u.ier /\ u.dlab = FALSE

Typed ==
  /\ vic \in VicType /\ vic.IntEnable = Irqs
  /\ uart \in [Uarts -> UartType] /\ \A i \in Uarts : SetUp(uart[i])
  /\ boot \in Boots
  /\ got \in [Uarts -> Seq(Nat)]
  /\ next \in [Uarts -> Nat \ {0}]
  /\ busy \in [Uarts -> BOOLEAN]

\* Transmission on UART u, whose next byte is n: the bytes below n were handed
\* over, and while no byte is on its way (b) or the handler is about to act on
\* an empty transmitter (t), THR is free for the next.
SendFine(u, n, b, t) ==
  /\ Handed(u) = UpTo(n - 1)
  /\ u.iir = THRI \/ t => b
  /\ u.iir = THRI \/ t \/ ~b => Idle(u)
  /\ t => u.iir # THRI

\* Reception on UART u: the bytes g were read, and there is one more, in RBR,
\* exactly while IIR says so; nothing but the read of RBR resets that (t: the
\* handler is about to read).
RecvFine(u, g, t) ==
  /\ g = UpTo(Len(g))
  /\ u.given = Len(g) + (IF u.iir = RDA THEN 1 ELSE 0)
  /\ u.iir = RDA => u.rbr = u.given
  /\ t => u.iir = RDA

Sends == \A i \in Uarts : SendFine(uart[i], next[i], busy[i], Reported(i, THRI))

\* UART0 and UART1 are left out: an end of interrupt resets their IIR.
Receives == \A i \in Uarts : i >= 2 => RecvFine(uart[i], got[i], Reported(i, RDA))

BytesInv == Typed /\ Sends /\ Receives

-----------------------------------------------------------------------------
(* Sequences *)

\* UpTo(k) is a sequence of naturals, the empty one for 0; the next number makes it
\* one longer, and it begins with every shorter one.
LEMMA UpToFacts ==
  ASSUME NEW k \in Nat
  PROVE  /\ UpTo(k) \in Seq(Nat) /\ Len(UpTo(k)) = k
         /\ UpTo(0) = <<>>
         /\ Append(UpTo(k), k + 1) = UpTo(k + 1)
<1>1. UpTo(k) \in Seq(Nat) /\ Len(UpTo(k)) = k
  BY SeqGiven DEF UpTo
<1>2. UpTo(0) = <<>>
  <2>1. UpTo(0) \in Seq(Nat) /\ Len(UpTo(0)) = 0
    BY SeqGiven DEF UpTo
  <2> QED BY <2>1, EmptySeq
<1>3. Append(UpTo(k), k + 1) = UpTo(k + 1)
  <2> DEFINE s == Append(UpTo(k), k + 1)
             t == UpTo(k + 1)
  <2>1. /\ s \in Seq(Nat) /\ Len(s) = k + 1
        /\ \A j \in 1 .. k : s[j] = UpTo(k)[j]
        /\ s[k + 1] = k + 1
    BY <1>1, AppendProperties
  <2>2. t \in Seq(Nat) /\ Len(t) = k + 1
    BY SeqGiven DEF UpTo
  <2>3. ASSUME NEW j \in 1 .. k + 1 PROVE s[j] = t[j]
    <3>1. CASE j = k + 1
      BY <2>1, <3>1 DEF UpTo
    <3>2. CASE j \in 1 .. k
      <4>1. s[j] = UpTo(k)[j]
        BY <2>1, <3>2
      <4> QED BY <3>2, <4>1 DEF UpTo
    <3>3. j = k + 1 \/ j \in 1 .. k
      OBVIOUS
    <3> QED BY <3>1, <3>2, <3>3, Zenon
  <2>4. s = t
    <3> HIDE DEF s, t
    <3> QED BY <2>1, <2>2, <2>3, SeqEqual
  <2> QED BY <2>4
<1> QED BY <1>1, <1>2, <1>3

\* What was sent of the bytes handed over is a beginning of them.
LEMMA SentIsFirst ==
  ASSUME NEW u, UartFine(u), NEW k \in Nat, Handed(u) = UpTo(k)
  PROVE  u.sent = UpTo(Len(u.sent))
<1> DEFINE s == u.sent
           c == Contents(u) \o Held(u)
           n == Len(s)
<1>1. s \in Seq(Bytes) /\ n \in Nat
  BY LenProperties DEF UartFine, UartType
<1>2. PICK x \in Seq(Bytes) : Handed(u) = s \o x
  <2>1. /\ Contents(u) \in Seq(Bytes) /\ Held(u) \in Seq(Bytes)
    <3>1. THRE \in u.lsr => Held(u) = <<>>
      BY DEF Held
    <3>2. THRE \notin u.lsr => Held(u) = <<u.thr>> /\ u.thr \in Bytes
      BY DEF Held, UartFine
    <3>3. THRE \notin u.lsr => <<u.thr>> \in Seq(Bytes)
      BY <3>2
    <3>4. Held(u) \in Seq(Bytes)
      <4>1. <<>> \in Seq(Bytes)
        BY EmptySeq
      <4> QED BY <3>1, <3>2, <3>3, <4>1, Zenon
    <3> QED BY <3>4 DEF UartFine
  <2>2. c \in Seq(Bytes)
    BY <2>1, ConcatProperties
  <2> DEFINE a == Contents(u)
             b == Held(u)
  <2>3. (s \o a) \o b = s \o (a \o b)
    <3>1. s \in Seq(Bytes) /\ a \in Seq(Bytes) /\ b \in Seq(Bytes)
      BY <1>1, <2>1
    <3> HIDE DEF s, a, b
    <3> QED BY <3>1, ConcatAssociative
  <2> QED BY <2>2, <2>3 DEF Handed
<1>3. /\ Len(s \o x) = n + Len(x) /\ Len(x) \in Nat
      /\ \A j \in 1 .. n : (s \o x)[j] = s[j]
  BY <1>1, ConcatProperties, LenProperties
<1>4. n <= k
  <2>1. Len(UpTo(k)) = k
    BY UpToFacts
  <2> HIDE DEF s, n
  <2>2. n + Len(x) = k
    BY <1>2, <1>3, <2>1
  <2> QED BY <1>1, <1>3, <2>2
<1>5. UpTo(n) \in Seq(Nat) /\ Len(UpTo(n)) = n
  BY <1>1, UpToFacts
<1>6. ASSUME NEW j \in 1 .. n PROVE s[j] = UpTo(n)[j]
  <2>1. s[j] = UpTo(k)[j]
    BY <1>2, <1>3
  <2>2. j \in 1 .. k
    BY <1>1, <1>4
  <2> QED BY <2>1, <2>2 DEF UpTo
<1>7. s \in Seq(Nat)
  <2>1. s \in [1 .. n -> Bytes]
    BY <1>1, LenProperties
  <2>2. s \in [1 .. n -> Nat]
    BY <2>1, ByteAssumption
  <2> QED BY <1>1, <2>2, SeqGiven
<1> HIDE DEF s, n
<1>8. Len(s) = n
  BY DEF n
<1>9. s = UpTo(n)
  BY <1>5, <1>6, <1>7, <1>8, SeqEqual
<1> QED BY <1>9 DEF s, n

-----------------------------------------------------------------------------
(* What the machine does to a UART *)

\* The registers of the receiver are the same in both.
SameRx(u, w) == w.given = u.given /\ w.rbr = u.rbr /\ w.dlab = u.dlab

\* lpc2300_uart_transmit leaves the receiver alone.
LEMMA TransmitRx ==
  ASSUME NEW u, UartFine(u), NEW ok \in BOOLEAN
  PROVE  SameRx(u, Transmit(u, ok))
<1> DEFINE l == LoadFifo(u)
<1>1. u \in UartType
  BY DEF UartFine
<1>2. SameRx(u, l)
  <2> DEFINE e == TxFIFO_enq(u, u.thr)
             w == [e EXCEPT !.lsr = @ \cup {THRE}]
  <2>1. l = IF u.t_fifolen < FifoSize /\ THRE \notin u.lsr THEN w ELSE u
    BY DEF LoadFifo
  <2>2. CASE u.t_fifolen < FifoSize /\ THRE \notin u.lsr
    <3>1. e \in UartType /\ SameRx(u, e)
      BY <1>1, <2>2, EnqContents DEF UartFine, SameRx, TxFIFO_enq, UartType
    <3> HIDE DEF e
    <3>2. SameRx(e, w)
      BY <3>1 DEF SameRx, UartType
    <3> QED BY <2>1, <2>2, <3>1, <3>2 DEF SameRx
  <2> QED BY <2>1, <2>2 DEF SameRx
<1>3. UartFine(l) /\ l \in UartType
  BY LoadSteady DEF Steady, UartFine
<1> HIDE DEF l
<1>4. SameRx(l, SendHead(l, ok))
  <2>1. CASE l.t_fifolen > 0 /\ ok
    <3> DEFINE h == TxFIFO_head(l)
               x == [l EXCEPT !.sent = Append(@, h)]
               d == TxFIFO_deq(x)
               w == IF d.t_fifolen = 0 /\ THRE \in d.lsr
                      THEN [d EXCEPT !.lsr = @ \cup {TEMT}] ELSE d
    <3>1. SendHead(l, ok) = w
      BY <2>1 DEF SendHead, HostWrite
    <3>2. DOMAIN x = DOMAIN l /\ SameRx(l, x)
      BY <1>3 DEF SameRx, UartType
    <3>3. {"given", "rbr", "dlab"} \subseteq DOMAIN l
      BY <1>3 DEF UartType
    <3> HIDE DEF x
    <3>4. DOMAIN d = DOMAIN x /\ SameRx(x, d)
      BY <3>2, <3>3 DEF SameRx, TxFIFO_deq
    <3> HIDE DEF d
    <3>5. SameRx(d, w)
      BY <3>2, <3>3, <3>4 DEF SameRx
    <3> QED BY <3>1, <3>2, <3>4, <3>5 DEF SameRx
  <2>2. CASE ~(l.t_fifolen > 0 /\ ok)
    BY <2>2 DEF SendHead, SameRx
  <2> QED BY <2>1, <2>2
<1> QED BY <1>2, <1>4 DEF SameRx, Transmit, l

\* What cycles do to a UART: bytes move on in the transmitter and, where IIR was
\* clear, a byte came in or the last one went out, and IIR says which.
Turned(u, w) ==
  /\ Steady(u, w) /\ w.ier = u.ier /\ w.dlab = u.dlab
  /\ \/ w.iir = u.iir /\ w.given = u.given /\ w.rbr = u.rbr
     \/ u.iir = NONE /\ w.iir = RDA /\ w.given = u.given + 1 /\ w.rbr = w.given
     \/ /\ u.iir = NONE /\ w.iir = THRI /\ w.given = u.given /\ w.rbr = u.rbr
        /\ Idle(w) /\ ~Idle(u)

\* Two turns are one, because IIR is only set where it was clear.
LEMMA TurnedTwice ==
  ASSUME NEW u, NEW w, NEW x, Turned(u, w), Turned(w, x)
  PROVE  Turned(u, x)
<1>1. Steady(u, x) /\ x.ier = u.ier /\ x.dlab = u.dlab
  BY DEF Turned, Steady
<1>2. Idle(u) => Idle(w)
  BY DEF Turned, Steady
<1>3. Idle(w) => Idle(x)
  BY DEF Turned, Steady
<1> QED BY <1>1, <1>2, <1>3 DEF Turned, NONE, RDA, THRI

\* The UART's part of one cycle.
LEMMA UartCycleTurns ==
  ASSUME NEW u, UartFine(u), NEW v, NEW q,
         NEW rxSlot \in BOOLEAN, NEW txSlot \in BOOLEAN, NEW ok \in BOOLEAN
  PROVE  Turned(u, UartCycle(u, v, q, rxSlot, txSlot, ok).u)
<1> DEFINE r == UartCycle(u, v, q, rxSlot, txSlot, ok)
<1>0. u \in UartType /\ Turned(u, u)
  BY DEF Turned, Steady, UartFine
<1>1. CASE r = Ports(u, v)
  BY <1>0, <1>1 DEF Ports
<1>2. CASE u.iir = NONE /\ r = CycleReceive(u, v, q, ok)
  <2>1. CASE ok
    <3> DEFINE h == HostRead(u)
               x == [h EXCEPT !.iir = RDA]
    <3>1. Steady(u, h) /\ h.ier = u.ier
      BY HostReadSteady
    <3>2. h.given = u.given + 1 /\ h.rbr = h.given /\ h.dlab = u.dlab
      BY <1>0 DEF HostRead, UartType
    <3> HIDE DEF h
    <3>3. h \in UartType
      BY <3>1 DEF Steady, UartFine
    <3>4. Steady(h, x) /\ x.ier = h.ier /\ x.iir = RDA
      BY <3>1, SetIir DEF Steady
    <3>5. x.given = h.given /\ x.rbr = h.rbr /\ x.dlab = h.dlab
      BY <3>3 DEF UartType
    <3>6. r.u = x
      BY <1>2, <2>1 DEF CycleReceive, Ports, h
    <3> HIDE DEF x, r
    <3>7. Steady(u, x)
      BY <3>1, <3>4 DEF Steady
    <3>8. Turned(u, x)
      BY <1>2, <3>1, <3>2, <3>4, <3>5, <3>7 DEF Turned
    <3> QED BY <3>6, <3>8 DEF r
  <2>2. CASE ~ok
    <3>1. r.u = u
      BY <1>2, <2>2 DEF CycleReceive, Ports
    <3> QED BY <1>0, <3>1
  <2> QED BY <2>1, <2>2
<1>3. CASE u.iir = NONE /\ r = CycleTransmit(u, v, q, ok)
  <2> DEFINE t == Transmit(u, ok)
             x == [t EXCEPT !.iir = THRI]
  <2>1. Steady(u, t) /\ t.ier = u.ier /\ t.iir = u.iir /\ SameRx(u, t)
    BY TransmitSteady, TransmitRx
  <2>2. CASE TransmitDone(u, ok) /\ TXIE \in u.ier
    <3>1. ~Idle(u)
      BY <1>0, <2>2 DEF TransmitDone, LoadFifo, Idle
    <3>2. Idle(t)
      BY <2>2 DEF TransmitDone, Idle
    <3>3. r.u = x
      BY <1>3, <2>2 DEF CycleTransmit, Ports
    <3> HIDE DEF t, r
    <3>4. t \in UartType
      BY <2>1 DEF Steady, UartFine
    <3>5. Steady(t, x) /\ x.ier = t.ier /\ x.iir = THRI
      BY <2>1, SetIir DEF Steady
    <3>6. SameRx(t, x)
      BY <3>4 DEF SameRx, UartType
    <3> HIDE DEF x
    <3>7. Steady(u, x) /\ Idle(x)
      BY <2>1, <3>2, <3>5 DEF Steady
    <3>8. Turned(u, x)
      BY <1>3, <2>1, <3>1, <3>5, <3>6, <3>7 DEF Turned, SameRx
    <3> QED BY <3>3, <3>8 DEF r
  <2>3. CASE ~(TransmitDone(u, ok) /\ TXIE \in u.ier)
    <3>1. r.u = t
      BY <1>3, <2>3 DEF CycleTransmit, Ports
    <3>2. Turned(u, t)
      BY <2>1 DEF Turned, SameRx
    <3> QED BY <3>1, <3>2
  <2> QED BY <2>2, <2>3
<1>4. \/ r = Ports(u, v)
      \/ u.iir = NONE /\ r = CycleReceive(u, v, q, ok)
      \/ u.iir = NONE /\ r = CycleTransmit(u, v, q, ok)
  BY DEF UartCycle, CanInterrupt
<1> QED BY <1>1, <1>2, <1>3, <1>4

\* The invariants about one UART survive a turn.
LEMMA TurnedFine ==
  ASSUME NEW u, NEW w, Turned(u, w)
  PROVE  /\ SetUp(u) => SetUp(w)
         /\ \A n, b, t : SendFine(u, n, b, t) => SendFine(w, n, b, t)
         /\ \A g, t : Len(g) \in Nat /\ RecvFine(u, g, t) => RecvFine(w, g, t)
<1>1. SetUp(u) => SetUp(w)
  BY DEF Turned, Steady, SetUp
<1>2. ASSUME NEW n, NEW b, NEW t, SendFine(u, n, b, t)
      PROVE  SendFine(w, n, b, t)
  <2>1. Handed(w) = Handed(u) /\ (Idle(u) => Idle(w))
    BY DEF Turned, Steady
  <2>2. w.iir = THRI => u.iir = THRI \/ (u.iir = NONE /\ ~Idle(u) /\ Idle(w))
    BY DEF Turned, RDA, THRI
  <2> QED BY <1>2, <2>1, <2>2, Zenon DEF SendFine
<1>3. ASSUME NEW g, NEW t, Len(g) \in Nat, RecvFine(u, g, t)
      PROVE  RecvFine(w, g, t)
  <2>1. CASE w.iir = u.iir /\ w.given = u.given /\ w.rbr = u.rbr
    BY <1>3, <2>1 DEF RecvFine
  <2>2. CASE u.iir = NONE /\ w.iir = RDA /\ w.given = u.given + 1 /\ w.rbr = w.given
    BY <1>3, <2>2 DEF RecvFine, NONE, RDA
  <2>3. CASE u.iir = NONE /\ w.iir = THRI /\ w.given = u.given /\ w.rbr = u.rbr
    BY <1>3, <2>3 DEF RecvFine, NONE, RDA, THRI
  <2> QED BY <2>1, <2>2, <2>3 DEF Turned
<1> QED BY <1>1, <1>2, <1>3

-----------------------------------------------------------------------------
(* What the machine does to the VIC *)

\* The VIC with every request at level p and its number as its vector: at most
\* that level is in service, for the request whose vector VICVectAddr holds.
OneLevel(v, p) ==
  /\ v \in VicType
  /\ v.VectPrio = [q \in Irqs |-> p] /\ v.VectAddr = [q \in Irqs |-> q]
  /\ v.SWPrioMask = Prios /\ v.IntSelect = {} /\ v.FIQStatus = {}
  /\ InService(v) \subseteq {p}
  /\ p \in InService(v) => v.Vect_Addr = v.IRQNumber[p]

\* Then a raised IRQ line means that the level is in service.
Flat(v, p) == OneLevel(v, p) /\ (v.NirqSig = LOW => p \in InService(v))

\* A request in service in v is still in service in w.
Continued(v, w, p) ==
  Flat(w, p) /\ (p \in InService(v) => p \in InService(w) /\ w.Vect_Addr = v.Vect_Addr)

\* lpc2300_update_int takes nothing out of service and, with nothing in service,
\* accepts a request whenever it raises the IRQ line.
LEMMA UpdateFlat ==
  ASSUME NEW p \in Prios, NEW v, OneLevel(v, p)
  PROVE  Continued(v, UpdateInt(v), p)
<1> DEFINE w == UpdateInt(v)
<1> SUFFICES Continued(v, w, p)
  OBVIOUS
<1>0. v \in VicType
  BY DEF OneLevel
<1>1. FiqsOf(v) = {}
  BY DEF OneLevel, FiqsOf
<1>2. /\ w \in VicType /\ w.VectPrio = v.VectPrio /\ w.VectAddr = v.VectAddr
      /\ w.SWPrioMask = v.SWPrioMask /\ w.IntSelect = v.IntSelect /\ w.FIQStatus = {}
  BY <1>0, <1>1, UpdateFields
<1>3. CASE p \in InService(v)
  <2>1. ServicingPrio(v) = p
    BY <1>0, <1>3, ServicingFacts DEF OneLevel
  <2>2. Eligible(v) = {}
    <3>1. ASSUME NEW q \in Eligible(v) PROVE FALSE
      <4>1. q \in Irqs /\ v.VectPrio[q] < p
        BY <1>0, <2>1 DEF Eligible, IrqsOf, RawOf, VicType
      <4>2. v.VectPrio[q] = p /\ p \in Nat
        BY <4>1 DEF OneLevel
      <4> QED BY <4>1, <4>2
    <3> QED BY <3>1
  <2>3. ~Accepting(v)
    BY <2>2 DEF Accepting
  <2>4. /\ w.HWPrioMask = v.HWPrioMask /\ w.IRQNumber = v.IRQNumber
        /\ w.Vect_Addr = v.Vect_Addr
    BY <1>0, <2>3, UpdateFields
  <2>5. InService(w) = InService(v)
    BY <2>4 DEF InService
  <2> HIDE DEF w
  <2> QED BY <1>2, <1>3, <2>4, <2>5 DEF Continued, Flat, OneLevel
<1>4. CASE p \notin InService(v)
  <2>1. InService(v) = {} /\ ServicingPrio(v) = NPrio
    BY <1>0, <1>4, ServicingFacts DEF OneLevel
  <2>2. p \in v.HWPrioMask
    BY <1>4 DEF InService
  <2>3. CASE Accepting(v)
    <3>1. /\ NextIRQ(v) \in Irqs
          /\ \E q \in Eligible(v) : NextPrio(v) = v.VectPrio[q]
      BY <1>0, <2>3, NextFacts DEF Accepting
    <3>2. NextPrio(v) = p
      <4>1. Eligible(v) \subseteq Irqs
        BY <1>0 DEF Eligible, IrqsOf, RawOf, VicType
      <4> QED BY <3>1, <4>1 DEF OneLevel
    <3>3. /\ w.HWPrioMask = v.HWPrioMask \ {p}
          /\ w.IRQNumber = [v.IRQNumber EXCEPT ![p] = NextIRQ(v)]
          /\ w.Vect_Addr = v.VectAddr[NextIRQ(v)]
      BY <1>0, <2>3, <3>2, UpdateFields
    <3>4. InService(w) = {p}
      BY <2>1, <3>3 DEF InService
    <3>5. w.IRQNumber[p] = NextIRQ(v)
      BY <1>0, <3>3 DEF VicType
    <3>6. w.Vect_Addr = NextIRQ(v)
      BY <3>1, <3>3 DEF OneLevel
    <3> HIDE DEF w
    <3> QED BY <1>2, <1>4, <3>4, <3>5, <3>6 DEF Continued, Flat, OneLevel
  <2>4. CASE ~Accepting(v)
    <3>1. Eligible(v) = {}
      BY <1>1, <2>4 DEF Accepting
    <3>2. IrqsOf(v) = {}
      <4>1. ASSUME NEW q \in IrqsOf(v) PROVE FALSE
        <5>1. q \in Irqs
          BY <1>0 DEF IrqsOf, RawOf, VicType
        <5>2. v.VectPrio[q] = p /\ p < NPrio /\ p \in v.SWPrioMask
          BY <5>1, VicAssumption DEF OneLevel
        <5> QED BY <2>1, <2>2, <3>1, <5>2 DEF Eligible
      <4> QED BY <4>1
    <3>3. w.NirqSig # LOW /\ w.HWPrioMask = v.HWPrioMask
      BY <1>0, <2>4, <3>2, UpdateFields
    <3>4. InService(w) = {}
      BY <2>1, <3>3 DEF InService
    <3> HIDE DEF w
    <3> QED BY <1>2, <1>4, <3>3, <3>4 DEF Continued, Flat, OneLevel
  <2> QED BY <2>3, <2>4
<1> QED BY <1>3, <1>4

\* What the devices and the boot code's settings make of the VIC.
VicMoved(v, w) ==
  /\ w \in VicType /\ w.IntEnable = v.IntEnable
  /\ \A p \in Prios : Flat(v, p) => Continued(v, w, p)

\* Two moves are one.
LEMMA VicMovedTwice ==
  ASSUME NEW v, NEW w, NEW x, VicMoved(v, w), VicMoved(w, x)
  PROVE  VicMoved(v, x)
<1>1. x \in VicType /\ x.IntEnable = v.IntEnable
  BY DEF VicMoved
<1>2. ASSUME NEW p \in Prios, Flat(v, p) PROVE Continued(v, x, p)
  <2>1. Continued(v, w, p)
    BY <1>2 DEF VicMoved
  <2>2. Continued(w, x, p)
    BY <2>1 DEF VicMoved, Continued
  <2> QED BY <2>1, <2>2 DEF Continued
<1> QED BY <1>1, <1>2 DEF VicMoved

\* The ways in which a handler of the device with request q leaves the VIC.
Outcomes(v, q) == {v, Drop(v, q), UpdateInt(v), UpdateInt(Drop(v, q)), Raise(v, q)}

\* Lines rise and fall, which takes nothing out of service.
LEMMA OutcomeMoves ==
  ASSUME NEW v \in VicType, NEW q \in Irqs, NEW w \in Outcomes(v, q)
  PROVE  VicMoved(v, w)
<1> DEFINE d == Drop(v, q)
           x == [v EXCEPT !.INTSOURCE = @ \cup {q}]
<1>1. d \in VicType /\ d.IntEnable = v.IntEnable
  BY DropFacts
<1>2. x \in VicType /\ x.IntEnable = v.IntEnable
  BY DEF VicType
<1>3. /\ UpdateInt(v) \in VicType /\ UpdateInt(v).IntEnable = v.IntEnable
      /\ UpdateInt(d) \in VicType /\ UpdateInt(d).IntEnable = v.IntEnable
      /\ UpdateInt(x) \in VicType /\ UpdateInt(x).IntEnable = v.IntEnable
  <2> HIDE DEF d, x
  <2> QED BY <1>1, <1>2, UpdateFields
<1>4. Raise(v, q) = UpdateInt(x)
  BY DEF Raise
<1>5. /\ d.VectPrio = v.VectPrio /\ d.VectAddr = v.VectAddr /\ d.SWPrioMask = v.SWPrioMask
      /\ d.IntSelect = v.IntSelect /\ d.FIQStatus = v.FIQStatus
      /\ d.HWPrioMask = v.HWPrioMask /\ d.IRQNumber = v.IRQNumber
      /\ d.Vect_Addr = v.Vect_Addr /\ d.NirqSig = v.NirqSig
  BY DEF Drop, VicType
<1>6. /\ x.VectPrio = v.VectPrio /\ x.VectAddr = v.VectAddr /\ x.SWPrioMask = v.SWPrioMask
      /\ x.IntSelect = v.IntSelect /\ x.FIQStatus = v.FIQStatus
      /\ x.HWPrioMask = v.HWPrioMask /\ x.IRQNumber = v.IRQNumber
      /\ x.Vect_Addr = v.Vect_Addr
  BY DEF VicType
<1>7. InService(d) = InService(v) /\ InService(x) = InService(v)
  BY <1>5, <1>6 DEF InService
<1> HIDE DEF d, x
<1>8. ASSUME NEW p \in Prios, Flat(v, p) PROVE Continued(v, w, p)
  <2>1. OneLevel(v, p) /\ OneLevel(d, p) /\ OneLevel(x, p) /\ Flat(d, p)
    BY <1>1, <1>2, <1>5, <1>6, <1>7, <1>8 DEF OneLevel, Flat
  <2>2. Continued(v, v, p) /\ Continued(v, d, p)
    BY <1>5, <1>7, <1>8, <2>1 DEF Continued
  <2>3. /\ Continued(v, UpdateInt(v), p) /\ Continued(d, UpdateInt(d), p)
        /\ Continued(x, UpdateInt(x), p)
    BY <2>1, UpdateFlat
  <2>4. Continued(v, UpdateInt(d), p) /\ Continued(v, UpdateInt(x), p)
    BY <1>5, <1>6, <1>7, <2>3 DEF Continued
  <2> QED BY <1>4, <2>2, <2>3, <2>4 DEF Outcomes, d
<1>9. w \in VicType /\ w.IntEnable = v.IntEnable
  BY <1>1, <1>3, <1>4 DEF Outcomes, d
<1> QED BY <1>8, <1>9 DEF VicMoved

\* Every handler of a UART or a timer that runs under the firmware is such a one.
LEMMA HandlerOutcomes ==
  ASSUME NEW v, NEW q
  PROVE  /\ \A u, rxSlot, txSlot, ok :
              UartCycle(u, v, q, rxSlot, txSlot, ok).v \in Outcomes(v, q)
         /\ \A u : ReadRbr(u, v, q).v \in Outcomes(v, q)
         /\ \A u : ReadIir(u, v, q).v \in Outcomes(v, q)
         /\ \A u, c, ok : WriteThr(u, v, q, c, ok).v \in Outcomes(v, q)
         /\ \A m, t : TimerCycle(m, v, q, t).v \in Outcomes(v, q)
         /\ \A m, d : WriteIr(m, v, q, d).v \in Outcomes(v, q)
<1>1. ASSUME NEW u PROVE Ports(u, v).v \in Outcomes(v, q)
  BY DEF Ports, Outcomes
<1>2. ASSUME NEW u, NEW c PROVE ClearCause(u, v, q, c).v \in Outcomes(v, q)
  BY DEF ClearCause, Ports, Outcomes
<1>3. ASSUME NEW u, NEW rxSlot, NEW txSlot, NEW ok
      PROVE  UartCycle(u, v, q, rxSlot, txSlot, ok).v \in Outcomes(v, q)
  <2>1. CycleReceive(u, v, q, ok).v \in Outcomes(v, q)
    BY DEF CycleReceive, Ports, Outcomes
  <2>2. CycleTransmit(u, v, q, ok).v \in Outcomes(v, q)
    BY DEF CycleTransmit, Ports, Outcomes
  <2> QED BY <1>1, <2>1, <2>2 DEF UartCycle
<1>4. ASSUME NEW u PROVE ReadRbr(u, v, q).v \in Outcomes(v, q)
  BY <1>1, <1>2 DEF ReadRbr
<1>5. ASSUME NEW u PROVE ReadIir(u, v, q).v \in Outcomes(v, q)
  BY <1>2 DEF ReadIir
<1>6. ASSUME NEW u, NEW c, NEW ok PROVE WriteThr(u, v, q, c, ok).v \in Outcomes(v, q)
  BY <1>1, <1>2 DEF WriteThr
<1>7. ASSUME NEW m, NEW t PROVE TimerCycle(m, v, q, t).v \in Outcomes(v, q)
  <2>1. ASSUME NEW x PROVE Tick(x, v).v \in Outcomes(v, q)
    BY DEF Tick, Outcomes
  <2>2. ASSUME NEW x PROVE Advance(x, v, q, t).v \in Outcomes(v, q)
    BY DEF Advance, Tick, Outcomes
  <2> QED BY <2>1, <2>2 DEF TimerCycle
<1>8. ASSUME NEW m, NEW d PROVE WriteIr(m, v, q, d).v \in Outcomes(v, q)
  BY DEF WriteIr, Tick, Outcomes
<1> QED BY <1>3, <1>4, <1>5, <1>6, <1>7, <1>8

-----------------------------------------------------------------------------
(* A machine cycle *)

\* Every device has a request, and no two UARTs share one.
LEMMA Requests ==
  /\ \A i \in Uarts : IRQUART(i) \in Irqs
  /\ \A i \in Timers : IRQTIMER(i) \in Irqs
  /\ \A i \in Uarts, j \in Uarts : IRQUART(i) = IRQUART(j) => i = j
<1>1. \A i \in 0 .. 3, j \in 0 .. 3 : IRQUART(i) = IRQUART(j) => i = j
  BY DEF IRQUART
<1> QED BY <1>1, MachineAssumption

UartsFine(us) == us \in [Uarts -> UartType] /\ \A i \in Uarts : UartFine(us[i])

AllTurned(us, xs) == UartsFine(xs) /\ \A i \in Uarts : Turned(us[i], xs[i])

\* A pass of the loop over the timers.
LEMMA TimerPassMoves ==
  ASSUME NEW s, s.v \in VicType, NEW i, NEW t
  PROVE  VicMoved(s.v, TimerPass(s, i, t).v)
<1>1. CASE i \in Timers /\ PCTIM(i) \in pconp
  <2> DEFINE q == IRQTIMER(i)
             r == TimerCycle(s.timer[i], s.v, q, t)
  <2>1. TimerPass(s, i, t).v = r.v
    BY <1>1 DEF TimerPass
  <2>2. r.v \in Outcomes(s.v, q)
    BY HandlerOutcomes
  <2>3. q \in Irqs
    BY <1>1, Requests
  <2> HIDE DEF q, r
  <2> QED BY <2>1, <2>2, <2>3, OutcomeMoves
<1>2. CASE ~(i \in Timers /\ PCTIM(i) \in pconp)
  <2>1. TimerPass(s, i, t).v = s.v
    BY <1>2 DEF TimerPass
  <2> QED BY <2>1 DEF VicMoved, Continued
<1> QED BY <1>1, <1>2

\* A pass of the loop over the UARTs.
LEMMA UartPassMoves ==
  ASSUME NEW s, s.v \in VicType, UartsFine(s.uart), NEW i, NEW ok \in BOOLEAN
  PROVE  /\ VicMoved(s.v, UartPass(s, i, ok).v)
         /\ AllTurned(s.uart, UartPass(s, i, ok).uart)
<1>0. ASSUME NEW j \in Uarts PROVE Turned(s.uart[j], s.uart[j])
  BY DEF UartsFine, Turned, Steady
<1>1. CASE i \in Uarts /\ PCUART(i) \in pconp
  <2> DEFINE q == IRQUART(i)
             rx == (uartcnt = i)
             tx == (uartcnt = i + UART_INT_CYCLE \div 2)
             r == UartCycle(s.uart[i], s.v, q, rx, tx, ok)
             x == [s.uart EXCEPT ![i] = r.u]
  <2>1. UartPass(s, i, ok).v = r.v /\ UartPass(s, i, ok).uart = x
    BY <1>1 DEF UartPass
  <2>2. r.v \in Outcomes(s.v, q)
    BY HandlerOutcomes
  <2>3. q \in Irqs
    BY <1>1, Requests
  <2>4. UartFine(s.uart[i])
    BY <1>1 DEF UartsFine
  <2>5. rx \in BOOLEAN /\ tx \in BOOLEAN
    OBVIOUS
  <2> HIDE DEF q, rx, tx
  <2>6. Turned(s.uart[i], r.u)
    BY <2>4, <2>5, UartCycleTurns
  <2> HIDE DEF r
  <2>7. UartFine(r.u)
    BY <2>6 DEF Turned, Steady
  <2>8. /\ x \in [Uarts -> UartType] /\ x[i] = r.u
        /\ \A j \in Uarts : j # i => x[j] = s.uart[j]
    BY <1>1, <2>7 DEF UartsFine, UartFine
  <2> HIDE DEF x
  <2>9. UartsFine(x)
    BY <2>7, <2>8 DEF UartsFine
  <2>10. ASSUME NEW j \in Uarts PROVE Turned(s.uart[j], x[j])
    BY <1>0, <2>6, <2>8
  <2>11. VicMoved(s.v, r.v)
    BY <2>2, <2>3, OutcomeMoves
  <2> QED BY <2>1, <2>9, <2>10, <2>11 DEF AllTurned
<1>2. CASE ~(i \in Uarts /\ PCUART(i) \in pconp)
  <2>1. UartPass(s, i, ok) = s
    BY <1>2 DEF UartPass
  <2> QED BY <1>0, <2>1 DEF VicMoved, Continued, AllTurned
<1> QED BY <1>1, <1>2

\* Two passes are one.
LEMMA AllTurnedTwice ==
  ASSUME NEW us, NEW xs, NEW ys, AllTurned(us, xs), AllTurned(xs, ys)
  PROVE  AllTurned(us, ys)
BY TurnedTwice DEF AllTurned

\* One lpc2300_io_do_cycle: the passes over the timers, then over the UARTs.
LEMMA CycleMoves ==
  ASSUME vic \in VicType, UartsFine(uart), NEW tns, NEW ok \in BOOLEAN, DoCycle(tns, ok)
  PROVE  VicMoved(vic, vic') /\ AllTurned(uart, uart')
<1> DEFINE t == Step(tns)
           tim == TimersCycle(t)
           ser == UartsCycle(tim.v, ok)
<1>1. uart' = ser.uart /\ vic' = ser.v
  BY DEF DoCycle
<1> HIDE DEF t
<1>2. VicMoved(vic, tim.v)
  <2> DEFINE s == [timer |-> timer, v |-> vic]
             s0 == TimerPass(s, 0, t)
             s1 == TimerPass(s0, 1, t)
             s2 == TimerPass(s1, 2, t)
             s3 == TimerPass(s2, 3, t)
  <2>0. tim = s3 /\ s.v = vic
    BY DEF TimersCycle
  <2> HIDE DEF s, tim
  <2>1. VicMoved(vic, s0.v)
    BY <2>0, TimerPassMoves
  <2> HIDE DEF s0
  <2>2. VicMoved(s0.v, s1.v)
    BY <2>1, TimerPassMoves DEF VicMoved
  <2> HIDE DEF s1
  <2>3. VicMoved(s1.v, s2.v)
    BY <2>2, TimerPassMoves DEF VicMoved
  <2> HIDE DEF s2
  <2>4. VicMoved(s2.v, s3.v)
    BY <2>3, TimerPassMoves DEF VicMoved
  <2> HIDE DEF s3
  <2>5. VicMoved(vic, s1.v)
    BY <2>1, <2>2, VicMovedTwice
  <2>6. VicMoved(vic, s2.v)
    BY <2>3, <2>5, VicMovedTwice
  <2>7. VicMoved(vic, s3.v)
    BY <2>4, <2>6, VicMovedTwice
  <2> QED BY <2>0, <2>7
<1> HIDE DEF tim
<1>3. VicMoved(tim.v, ser.v) /\ AllTurned(uart, ser.uart)
  <2> DEFINE s == [uart |-> uart, v |-> tim.v]
             s0 == UartPass(s, 0, ok)
             s1 == UartPass(s0, 1, ok)
             s2 == UartPass(s1, 2, ok)
             s3 == UartPass(s2, 3, ok)
  <2>0. ser = s3 /\ s.uart = uart /\ s.v = tim.v
    BY DEF UartsCycle
  <2>1. s.v \in VicType /\ UartsFine(s.uart)
    BY <1>2 DEF VicMoved
  <2> HIDE DEF s, ser
  <2>2. VicMoved(s.v, s0.v) /\ AllTurned(s.uart, s0.uart)
    BY <2>1, UartPassMoves
  <2> HIDE DEF s0
  <2>3. VicMoved(s0.v, s1.v) /\ AllTurned(s0.uart, s1.uart)
    BY <2>2, UartPassMoves DEF VicMoved, AllTurned
  <2> HIDE DEF s1
  <2>4. VicMoved(s1.v, s2.v) /\ AllTurned(s1.uart, s2.uart)
    BY <2>3, UartPassMoves DEF VicMoved, AllTurned
  <2> HIDE DEF s2
  <2>5. VicMoved(s2.v, s3.v) /\ AllTurned(s2.uart, s3.uart)
    BY <2>4, UartPassMoves DEF VicMoved, AllTurned
  <2> HIDE DEF s3
  <2>6. VicMoved(s.v, s1.v) /\ AllTurned(s.uart, s1.uart)
    BY <2>2, <2>3, VicMovedTwice, AllTurnedTwice
  <2>7. VicMoved(s.v, s2.v) /\ AllTurned(s.uart, s2.uart)
    BY <2>4, <2>6, VicMovedTwice, AllTurnedTwice
  <2>8. VicMoved(s.v, s3.v) /\ AllTurned(s.uart, s3.uart)
    BY <2>5, <2>7, VicMovedTwice, AllTurnedTwice
  <2> QED BY <2>0, <2>8
<1> HIDE DEF ser
<1>4. VicMoved(vic, ser.v)
  BY <1>2, <1>3, VicMovedTwice
<1> QED BY <1>1, <1>3, <1>4

-----------------------------------------------------------------------------
(* The firmware's accesses to a UART *)

\* The common tail of the handlers resets the cause c, and no other.
LEMMA ClearCauseStep ==
  ASSUME NEW u, UartFine(u), NEW v, NEW q \in v.IntEnable, NEW c,
         NEW w, w = ClearCause(u, v, q, c).u
  PROVE  /\ Steady(u, w) /\ w.ier = u.ier /\ SameRx(u, w)
         /\ w.iir = IF u.iir = c THEN NONE ELSE u.iir
<1>1. CASE u.iir = c
  <2> DEFINE x == [u EXCEPT !.iir = NONE]
  <2>1. w = x
    BY <1>1 DEF ClearCause, Ports
  <2>2. SameRx(u, x)
    BY DEF SameRx, UartFine, UartType
  <2>3. Steady(u, x) /\ x.ier = u.ier /\ x.iir = NONE
    BY SetIir
  <2> HIDE DEF x
  <2> QED BY <1>1, <2>1, <2>2, <2>3
<1>2. CASE u.iir # c
  <2>1. w = u
    BY <1>2 DEF ClearCause, Ports
  <2> QED BY <1>2, <2>1 DEF Steady, SameRx
<1> QED BY <1>1, <1>2

\* A read of IIR resets THRI, one of RBR resets RDA.
LEMMA ReadStep ==
  ASSUME NEW u, SetUp(u), NEW v, NEW q \in v.IntEnable
  PROVE  /\ \A w : w = ReadIir(u, v, q).u =>
              /\ Steady(u, w) /\ SetUp(w) /\ SameRx(u, w)
              /\ w.iir = IF u.iir = THRI THEN NONE ELSE u.iir
         /\ \A w : w = ReadRbr(u, v, q).u =>
              /\ Steady(u, w) /\ SetUp(w) /\ SameRx(u, w)
              /\ w.iir = IF u.iir = RDA THEN NONE ELSE u.iir
<1>1. UartFine(u) /\ u \in UartType
  BY DEF SetUp, UartFine
<1>2. ASSUME NEW w, w = ReadIir(u, v, q).u
      PROVE  /\ Steady(u, w) /\ SetUp(w) /\ SameRx(u, w)
             /\ w.iir = IF u.iir = THRI THEN NONE ELSE u.iir
  <2>1. w = ClearCause(u, v, q, THRI).u
    BY <1>2 DEF ReadIir
  <2>2. /\ Steady(u, w) /\ w.ier = u.ier /\ SameRx(u, w)
        /\ w.iir = IF u.iir = THRI THEN NONE ELSE u.iir
    BY <1>1, <2>1, ClearCauseStep
  <2> QED BY <2>2 DEF SetUp, SameRx, Steady
<1>3. ASSUME NEW w, w = ReadRbr(u, v, q).u
      PROVE  /\ Steady(u, w) /\ SetUp(w) /\ SameRx(u, w)
             /\ w.iir = IF u.iir = RDA THEN NONE ELSE u.iir
  <2> DEFINE x == [u EXCEPT !.lsr = @ \ {DR}]
  <2>1. w = ClearCause(x, v, q, RDA).u
    BY <1>3 DEF ReadRbr, SetUp
  <2>2. Steady(u, x) /\ x.iir = u.iir /\ x.ier = u.ier
    BY <1>1, ClearDr
  <2>3. SameRx(u, x)
    BY <1>1 DEF SameRx, UartType
  <2> HIDE DEF x
  <2>4. /\ Steady(x, w) /\ w.ier = x.ier /\ SameRx(x, w)
        /\ w.iir = IF x.iir = RDA THEN NONE ELSE x.iir
    BY <2>1, <2>2, ClearCauseStep DEF Steady
  <2>5. Steady(u, w) /\ SameRx(u, w)
    BY <2>2, <2>3, <2>4 DEF Steady, SameRx
  <2> QED BY <2>2, <2>4, <2>5 DEF SetUp, SameRx, Steady
<1> QED BY <1>2, <1>3

\* A byte written to an idle transmitter is handed over after all others.
LEMMA WriteStep ==
  ASSUME NEW u, SetUp(u), Idle(u), NEW v \in VicType, NEW q \in Irqs, q \in v.IntEnable,
         NEW c \in Bytes, NEW ok \in BOOLEAN, NEW w, w = WriteThr(u, v, q, c, ok).u
  PROVE  /\ Handed(w) = Append(Handed(u), c) /\ SetUp(w) /\ SameRx(u, w)
         /\ w.iir = IF u.iir = THRI THEN NONE ELSE u.iir
<1> DEFINE r == WriteThr(u, v, q, c, ok)
           x == [u EXCEPT !.thr = c, !.lsr = @ \ {THRE}]
<1>1. UartFine(u) /\ u \in UartType /\ TXIE \in u.ier /\ u.dlab = FALSE /\ THRE \in u.lsr
  BY DEF SetUp, UartFine, Idle
<1>2. UartFine(r.u) /\ r.u.ier = u.ier /\ Handed(r.u) = Append(Handed(u), c)
  <2>1. UartFine(u)
    BY <1>1
  <2>2. r = WriteThr(u, v, q, c, ok)
    OBVIOUS
  <2> HIDE DEF r
  <2>3. ThrEffect(u, v, q, c, ok, r)
    BY <2>1, <2>2, WriteThrEffect
  <2> QED BY <1>1, <2>3 DEF ThrEffect
<1>3. w = ClearCause(x, v, q, THRI).u
  BY <1>1 DEF WriteThr
<1>4. SameRx(u, x) /\ x.iir = u.iir /\ x \in UartType /\ x.thr = c
  BY <1>1 DEF SameRx, UartType
<1>5. SameRx(x, w) /\ w.iir = IF x.iir = THRI THEN NONE ELSE x.iir
  <2>1. CASE x.iir = THRI
    <3>1. w = [x EXCEPT !.iir = NONE]
      BY <1>3, <2>1 DEF ClearCause, Ports
    <3> HIDE DEF x
    <3> QED BY <1>4, <2>1, <3>1 DEF SameRx, UartType
  <2>2. CASE x.iir # THRI
    <3>1. w = x
      BY <1>3, <2>2 DEF ClearCause, Ports
    <3> QED BY <2>2, <3>1 DEF SameRx
  <2> QED BY <2>1, <2>2
<1> HIDE DEF x
<1>6. SameRx(u, w)
  BY <1>4, <1>5 DEF SameRx
<1> QED BY <1>1, <1>2, <1>4, <1>5, <1>6 DEF SetUp, SameRx

\* A write of VICVectAddr resets the IIR of UART0 and UART1 at most.
LEMMA EoiStep ==
  ASSUME UartsFine(uart), PutVectAddr
  PROVE  /\ UartsFine(uart')
         /\ \A i \in Uarts : /\ Steady(uart[i], uart'[i]) /\ SameRx(uart[i], uart'[i])
                             /\ uart'[i].ier = uart[i].ier
                             /\ uart'[i].iir = NONE \/ uart'[i].iir = uart[i].iir
                             /\ i >= 2 => uart'[i] = uart[i]
<1> DEFINE G(i) == Retires(vic) /\ i < 2 /\ Retired(vic) = IRQUART(i)
           x == [i \in Uarts |-> IF G(i) THEN [uart[i] EXCEPT !.iir = NONE] ELSE uart[i]]
<1>1. uart' = x
  BY DEF PutVectAddr
<1>2. ASSUME NEW i \in Uarts
      PROVE  /\ Steady(uart[i], x[i]) /\ SameRx(uart[i], x[i]) /\ x[i].ier = uart[i].ier
             /\ x[i].iir = NONE \/ x[i].iir = uart[i].iir
             /\ i >= 2 => x[i] = uart[i]
  <2> DEFINE y == [uart[i] EXCEPT !.iir = NONE]
  <2>1. UartFine(uart[i]) /\ uart[i] \in UartType
    BY DEF UartsFine
  <2>2. Steady(uart[i], y) /\ y.ier = uart[i].ier /\ y.iir = NONE
    BY <2>1, SetIir
  <2>3. SameRx(uart[i], y)
    BY <2>1 DEF SameRx, UartType
  <2>4. x[i] = IF G(i) THEN y ELSE uart[i]
    OBVIOUS
  <2>5. Steady(uart[i], uart[i]) /\ SameRx(uart[i], uart[i])
    BY <2>1 DEF Steady, SameRx
  <2>6. i >= 2 => ~G(i)
    BY MachineAssumption
  <2> HIDE DEF x, y, G
  <2> QED BY <2>2, <2>3, <2>4, <2>5, <2>6
<1>3. x = [i \in Uarts |-> x[i]]
  OBVIOUS
<1> HIDE DEF x
<1>4. \A i \in Uarts : UartFine(x[i]) /\ x[i] \in UartType
  BY <1>2 DEF Steady, UartFine
<1>5. UartsFine(x)
  BY <1>3, <1>4 DEF UartsFine
<1> QED BY <1>1, <1>2, <1>5

-----------------------------------------------------------------------------
(* The bytes *)

\* The UARTs after the boot code.
LEMMA BootUart ==
  LET u == WriteIer(UartReset, {RXIE, TXIE})
  IN  /\ u \in UartType /\ SetUp(u) /\ Idle(u) /\ Handed(u) = <<>>
      /\ u.iir = NONE /\ u.given = 0
<1> DEFINE r == UartReset
           u == WriteIer(r, {RXIE, TXIE})
<1>1. UartFine(r) /\ Idle(r) /\ r \in UartType
  BY ResetTyped
<1>2. r.dlab = FALSE /\ r.iir = NONE /\ r.given = 0 /\ r.sent = <<>>
  BY DEF UartReset
<1> HIDE DEF r
<1>3. u = [r EXCEPT !.ier = {RXIE, TXIE}]
  BY <1>2 DEF WriteIer
<1>4. Steady(r, u) /\ u.iir = r.iir
  BY <1>1, WriteControl
<1>5. u.dlab = r.dlab /\ u.given = r.given /\ u.ier = {RXIE, TXIE}
  BY <1>1, <1>3 DEF UartType
<1>6. Handed(r) = <<>>
  BY <1>1, <1>2, HandedSeq
<1> HIDE DEF u
<1>7. u \in UartType /\ SetUp(u) /\ Idle(u) /\ Handed(u) = <<>>
      /\ u.iir = NONE /\ u.given = 0
  BY <1>1, <1>2, <1>4, <1>5, <1>6 DEF Steady, SetUp, UartFine
<1> QED BY <1>7 DEF u, r

\* The VIC after the boot code.
LEMMA BootVic ==
  LET x == [VicReset EXCEPT !.VectPrio = Level, !.VectAddr = [q \in Irqs |-> q]]
      v == IntEnableWrite(x, Irqs)
  IN  /\ v \in VicType /\ v.IntEnable = Irqs
      /\ \A p \in Prios : Level = [q \in Irqs |-> p] => Flat(v, p)
<1> DEFINE x == [VicReset EXCEPT !.VectPrio = Level, !.VectAddr = [q \in Irqs |-> q]]
           y == [x EXCEPT !.IntEnable = @ \cup Irqs]
           v == IntEnableWrite(x, Irqs)
<1>1. VicReset \in VicType
  BY ResetTyped
<1>2. Level \in [Irqs -> Nat] /\ [q \in Irqs |-> q] \in [Irqs -> Addrs]
  BY FirmwareAssumption
<1>3. x \in VicType /\ x.IntEnable = {} /\ x.VectPrio = Level
      /\ x.VectAddr = [q \in Irqs |-> q]
      /\ x.SWPrioMask = Prios /\ x.HWPrioMask = Prios /\ x.IntSelect = {} /\ x.FIQStatus = {}
  <2>1. x \in VicType
    BY <1>1, <1>2 DEF VicType
  <2> QED BY <2>1 DEF VicReset
<1> HIDE DEF x
<1>4. y \in VicType /\ y.IntEnable = Irqs /\ y.VectPrio = Level
      /\ y.VectAddr = [q \in Irqs |-> q]
      /\ y.SWPrioMask = Prios /\ y.HWPrioMask = Prios /\ y.IntSelect = {} /\ y.FIQStatus = {}
  BY <1>3 DEF VicType
<1>5. v = UpdateInt(y)
  BY DEF IntEnableWrite
<1> HIDE DEF y, v
<1>6. v \in VicType /\ v.IntEnable = Irqs
  BY <1>4, <1>5, UpdateFields
<1>7. ASSUME NEW p \in Prios, Level = [q \in Irqs |-> p] PROVE Flat(v, p)
  <2>1. InService(y) = {}
    BY <1>4 DEF InService
  <2>2. OneLevel(y, p)
    BY <1>4, <1>7, <2>1 DEF OneLevel
  <2> QED BY <1>5, <2>2, UpdateFlat DEF Continued
<1>8. v \in VicType /\ v.IntEnable = Irqs
      /\ \A p \in Prios : Level = [q \in Irqs |-> p] => Flat(v, p)
  BY <1>6, <1>7
<1> QED BY <1>8 DEF v, x

\* After the boot code nothing was sent or received.
LEMMA BytesInit ==
  ASSUME Init
  PROVE  BytesInv
<1> DEFINE u == WriteIer(UartReset, {RXIE, TXIE})
<1>1. /\ u \in UartType /\ SetUp(u) /\ Idle(u) /\ Handed(u) = <<>>
      /\ u.iir = NONE /\ u.given = 0
  BY BootUart
<1>2. /\ uart = [i \in Uarts |-> u] /\ cpu = "main"
      /\ got = [i \in Uarts |-> <<>>] /\ next = [i \in Uarts |-> 1]
      /\ busy = [i \in Uarts |-> FALSE] /\ boot \in Boots
  BY DEF Init
<1>3. vic \in VicType /\ vic.IntEnable = Irqs
  BY BootVic DEF Init
<1> HIDE DEF u
<1>4. UpTo(0) = <<>> /\ Len(<<>>) = 0
  BY UpToFacts, EmptySeq
<1>5. Typed
  <2>1. uart \in [Uarts -> UartType] /\ \A i \in Uarts : SetUp(uart[i])
    BY <1>1, <1>2
  <2>2. /\ got \in [Uarts -> Seq(Nat)] /\ next \in [Uarts -> Nat \ {0}]
        /\ busy \in [Uarts -> BOOLEAN]
    BY <1>2, EmptySeq
  <2> QED BY <1>2, <1>3, <2>1, <2>2 DEF Typed
<1>6. \A i \in Uarts, c \in {THRI, RDA} : ~Reported(i, c)
  BY <1>2 DEF Reported
<1>7. ASSUME NEW i \in Uarts
      PROVE  /\ SendFine(uart[i], next[i], busy[i], Reported(i, THRI))
             /\ RecvFine(uart[i], got[i], Reported(i, RDA))
  <2>1. uart[i] = u /\ next[i] = 1 /\ busy[i] = FALSE /\ got[i] = <<>>
    BY <1>2
  <2>2. Handed(u) = UpTo(1 - 1)
    BY <1>1, <1>4
  <2>3. u.iir # THRI /\ u.iir # RDA
    BY <1>1 DEF NONE, THRI, RDA
  <2> QED BY <1>1, <1>4, <1>6, <2>1, <2>2, <2>3 DEF SendFine, RecvFine
<1> QED BY <1>5, <1>7 DEF BytesInv, Sends, Receives

\* A handler that acts on what it read, or never did, leaves less to guard.
LEMMA FineLess ==
  ASSUME NEW u, NEW t1 \in BOOLEAN, NEW t2 \in BOOLEAN, t2 => t1
  PROVE  /\ \A n, b : SendFine(u, n, b, t1) => SendFine(u, n, b, t2)
         /\ \A g : RecvFine(u, g, t1) => RecvFine(u, g, t2)
<1>1. ASSUME NEW n, NEW b, SendFine(u, n, b, t1) PROVE SendFine(u, n, b, t2)
  BY <1>1, Zenon DEF SendFine
<1>2. ASSUME NEW g, RecvFine(u, g, t1) PROVE RecvFine(u, g, t2)
  BY <1>2 DEF RecvFine
<1> QED BY <1>1, <1>2

\* A handler that resets causes at most, other than the one of a byte in RBR.
LEMMA FineSame ==
  ASSUME NEW u, NEW w, Steady(u, w), SameRx(u, w), NEW t \in BOOLEAN
  PROVE  /\ w.iir \in {NONE, u.iir} =>
              \A n, b : SendFine(u, n, b, t) => SendFine(w, n, b, t)
         /\ (w.iir = RDA <=> u.iir = RDA) =>
              \A g : RecvFine(u, g, t) => RecvFine(w, g, t)
<1>1. ASSUME w.iir \in {NONE, u.iir}, NEW n, NEW b, SendFine(u, n, b, t)
      PROVE  SendFine(w, n, b, t)
  <2>1. Handed(w) = Handed(u) /\ (Idle(u) => Idle(w))
    BY DEF Steady
  <2>2. w.iir = THRI => u.iir = THRI
    BY <1>1 DEF NONE, THRI
  <2> QED BY <1>1, <2>1, <2>2, Zenon DEF SendFine
<1>2. ASSUME w.iir = RDA <=> u.iir = RDA, NEW g, RecvFine(u, g, t)
      PROVE  RecvFine(w, g, t)
  BY <1>2 DEF RecvFine, SameRx
<1> QED BY <1>1, <1>2

\* The parts of the invariant after a step that leaves the firmware's records alone.
LEMMA BytesKept ==
  ASSUME BytesInv, vic' \in VicType, vic'.IntEnable = Irqs, UartsFine(uart'),
         boot' = boot, got' = got, next' = next, busy' = busy,
         \A i \in Uarts : SetUp(uart'[i]),
         \A i \in Uarts : SendFine(uart'[i], next[i], busy[i], Reported(i, THRI)'),
         \A i \in Uarts : i >= 2 => RecvFine(uart'[i], got[i], Reported(i, RDA)')
  PROVE  BytesInv'
<1>1. Typed'
  BY DEF BytesInv, Typed, UartsFine
<1>2. Sends'
  BY DEF Sends
<1>3. Receives'
  BY DEF Receives
<1> QED BY <1>1, <1>2, <1>3 DEF BytesInv

\* A machine cycle keeps the invariant about the bytes.
LEMMA BytesCycle ==
  ASSUME BytesInv, NEW ok \in BOOLEAN, Cycle(ok)
  PROVE  BytesInv'
<1>1. PICK tns \in Tns : DoCycle(tns, ok)
  BY DEF Cycle
<1>2. boot' = boot /\ cpu' = cpu /\ isr' = isr /\ cause' = cause /\ got' = got
      /\ next' = next /\ busy' = busy
  BY DEF Cycle, firmware
<1>3. vic \in VicType /\ vic.IntEnable = Irqs /\ UartsFine(uart)
      /\ (\A i \in Uarts : SetUp(uart[i])) /\ got \in [Uarts -> Seq(Nat)]
  BY DEF BytesInv, Typed, UartsFine, SetUp
<1>4. VicMoved(vic, vic') /\ AllTurned(uart, uart')
  BY <1>1, <1>3, CycleMoves
<1>5. vic' \in VicType /\ vic'.IntEnable = Irqs /\ UartsFine(uart')
  BY <1>3, <1>4 DEF VicMoved, AllTurned
<1>6. ASSUME NEW i \in Uarts, NEW c PROVE Reported(i, c)' = Reported(i, c)
  BY <1>2 DEF Reported
<1>7. ASSUME NEW i \in Uarts
      PROVE  /\ SetUp(uart'[i])
             /\ SendFine(uart'[i], next[i], busy[i], Reported(i, THRI)')
             /\ i >= 2 => RecvFine(uart'[i], got[i], Reported(i, RDA)')
  <2>1. Turned(uart[i], uart'[i])
    BY <1>4 DEF AllTurned
  <2>2. /\ SendFine(uart[i], next[i], busy[i], Reported(i, THRI))
        /\ i >= 2 => RecvFine(uart[i], got[i], Reported(i, RDA))
    BY DEF BytesInv, Sends, Receives
  <2>3. Len(got[i]) \in Nat
    BY <1>3, LenProperties
  <2>4. Reported(i, THRI)' = Reported(i, THRI) /\ Reported(i, RDA)' = Reported(i, RDA)
    BY <1>6
  <2>5. SetUp(uart'[i])
    BY <1>3, <2>1, TurnedFine
  <2>6. SendFine(uart'[i], next[i], busy[i], Reported(i, THRI))
    BY <2>1, <2>2, TurnedFine
  <2>7. i >= 2 => RecvFine(uart'[i], got[i], Reported(i, RDA))
    BY <2>1, <2>2, <2>3, TurnedFine
  <2> QED BY <2>4, <2>5, <2>6, <2>7
<1> QED BY <1>2, <1>5, <1>7, BytesKept

\* Taking the exception, reading the vector and serving a timer touch no UART.
LEMMA BytesOutside ==
  ASSUME BytesInv, TakeIrq \/ ReadVector \/ \E i \in Timers : ServeTimer(i)
  PROVE  BytesInv'
<1>1. /\ boot' = boot /\ cause' = cause /\ got' = got /\ next' = next /\ busy' = busy
      /\ uart' = uart
  BY DEF TakeIrq, ReadVector, ServeTimer, machine, PutIR, TimerAccess
<1>2. cpu' # "data"
  BY DEF TakeIrq, ReadVector, ServeTimer, Work, Finish
<1>3. vic \in VicType /\ vic.IntEnable = Irqs /\ UartsFine(uart)
      /\ \A i \in Uarts : SetUp(uart[i])
  BY DEF BytesInv, Typed, UartsFine, SetUp
<1>4. vic' \in VicType /\ vic'.IntEnable = Irqs
  <2>1. CASE TakeIrq \/ ReadVector
    BY <1>3, <2>1 DEF TakeIrq, ReadVector, machine
  <2>2. ASSUME NEW i \in Timers, ServeTimer(i) PROVE vic' \in VicType /\ vic'.IntEnable = Irqs
    <3> DEFINE q == IRQTIMER(i)
               w == WriteIr(timer[i], vic, q, {0}).v
    <3>1. vic' = w
      BY <2>2 DEF ServeTimer, PutIR, TimerAccess
    <3>2. w \in Outcomes(vic, q) /\ q \in Irqs
      BY HandlerOutcomes, Requests
    <3> HIDE DEF q, w
    <3>3. VicMoved(vic, w)
      BY <1>3, <3>2, OutcomeMoves
    <3> QED BY <1>3, <3>1, <3>3 DEF VicMoved
  <2> QED BY <2>1, <2>2
<1>5. ASSUME NEW i \in Uarts
      PROVE  /\ SendFine(uart[i], next[i], busy[i], Reported(i, THRI)')
             /\ i >= 2 => RecvFine(uart[i], got[i], Reported(i, RDA)')
  <2>1. /\ SendFine(uart[i], next[i], busy[i], Reported(i, THRI))
        /\ i >= 2 => RecvFine(uart[i], got[i], Reported(i, RDA))
    BY DEF BytesInv, Sends, Receives
  <2>2. ~Reported(i, THRI)' /\ ~Reported(i, RDA)'
    BY <1>2 DEF Reported
  <2> QED BY <2>1, <2>2 DEF SendFine, RecvFine
<1> QED BY <1>1, <1>3, <1>4, <1>5, BytesKept

\* An end of interrupt resets no cause of a byte that UART2 or UART3 received, and
\* one that it resets elsewhere leaves less to act on.
LEMMA BytesEoi ==
  ASSUME BytesInv, Eoi
  PROVE  BytesInv'
<1>1. boot' = boot /\ got' = got /\ next' = next /\ busy' = busy /\ PutVectAddr
  BY DEF Eoi
<1>2. cpu' # "data"
  BY DEF Eoi, Work
<1>3. vic \in VicType /\ vic.IntEnable = Irqs /\ UartsFine(uart)
      /\ \A i \in Uarts : SetUp(uart[i])
  BY DEF BytesInv, Typed, UartsFine, SetUp
<1>4. vic' \in VicType /\ vic'.IntEnable = Irqs
  <2>1. vic' = VectAddrWrite(vic)
    BY <1>1 DEF PutVectAddr
  <2> QED BY <1>3, <2>1, EoiFacts
<1>5. UartsFine(uart')
  BY <1>1, <1>3, EoiStep
<1>6. ASSUME NEW i \in Uarts
      PROVE  /\ SetUp(uart'[i])
             /\ SendFine(uart'[i], next[i], busy[i], Reported(i, THRI)')
             /\ i >= 2 => RecvFine(uart'[i], got[i], Reported(i, RDA)')
  <2>1. /\ Steady(uart[i], uart'[i]) /\ SameRx(uart[i], uart'[i])
        /\ uart'[i].ier = uart[i].ier
        /\ uart'[i].iir = NONE \/ uart'[i].iir = uart[i].iir
        /\ i >= 2 => uart'[i] = uart[i]
    BY <1>1, <1>3, EoiStep
  <2>2. /\ SendFine(uart[i], next[i], busy[i], Reported(i, THRI))
        /\ i >= 2 => RecvFine(uart[i], got[i], Reported(i, RDA))
    BY DEF BytesInv, Sends, Receives
  <2>3. ~Reported(i, THRI)' /\ ~Reported(i, RDA)'
    BY <1>2 DEF Reported
  <2>4. SetUp(uart'[i])
    BY <1>3, <2>1 DEF SetUp, Steady, SameRx
  <2>5. SendFine(uart'[i], next[i], busy[i], Reported(i, THRI))
    <3>1. uart'[i].iir \in {NONE, uart[i].iir} /\ Reported(i, THRI) \in BOOLEAN
      BY <2>1 DEF Reported
    <3> QED BY <2>1, <2>2, <3>1, FineSame
  <2>6. SendFine(uart'[i], next[i], busy[i], Reported(i, THRI)')
    BY <2>3, <2>5 DEF SendFine
  <2>7. i >= 2 => RecvFine(uart'[i], got[i], Reported(i, RDA)')
    BY <2>1, <2>2, <2>3 DEF RecvFine
  <2> QED BY <2>4, <2>6, <2>7
<1> QED BY <1>1, <1>4, <1>5, <1>6, BytesKept

\* What has to hold after an access of the firmware to UART i: the others, and the
\* records about them, are left alone.
LEMMA BytesAccess ==
  ASSUME BytesInv, NEW i \in Uarts, NEW r, UartAccess(i, r),
         r.v \in Outcomes(vic, IRQUART(i)), SetUp(r.u),
         cpu' # "data" \/ isr' = IRQUART(i), cpu # "data" \/ isr = IRQUART(i),
         boot' = boot,
         got'[i] \in Seq(Nat), got' = [got EXCEPT ![i] = got'[i]],
         next'[i] \in Nat \ {0}, next' = [next EXCEPT ![i] = next'[i]],
         busy'[i] \in BOOLEAN, busy' = [busy EXCEPT ![i] = busy'[i]],
         SendFine(r.u, next'[i], busy'[i], Reported(i, THRI)'),
         i >= 2 => RecvFine(r.u, got'[i], Reported(i, RDA)')
  PROVE  BytesInv'
<1>1. uart' = [uart EXCEPT ![i] = r.u] /\ vic' = r.v
  BY DEF UartAccess
<1>2. vic \in VicType /\ vic.IntEnable = Irqs /\ uart \in [Uarts -> UartType]
      /\ (\A j \in Uarts : SetUp(uart[j])) /\ got \in [Uarts -> Seq(Nat)]
      /\ next \in [Uarts -> Nat \ {0}] /\ busy \in [Uarts -> BOOLEAN] /\ boot \in Boots
  BY DEF BytesInv, Typed
<1>3. vic' \in VicType /\ vic'.IntEnable = Irqs
  <2>1. IRQUART(i) \in Irqs
    BY Requests
  <2>2. VicMoved(vic, r.v)
    BY <1>2, <2>1, OutcomeMoves
  <2> QED BY <1>1, <1>2, <2>2 DEF VicMoved
<1>4. r.u \in UartType
  BY DEF SetUp, UartFine
<1>5. /\ uart' \in [Uarts -> UartType] /\ got' \in [Uarts -> Seq(Nat)]
      /\ next' \in [Uarts -> Nat \ {0}] /\ busy' \in [Uarts -> BOOLEAN]
  BY <1>1, <1>2, <1>4
<1>6. uart'[i] = r.u
  BY <1>1, <1>2
<1>7. ASSUME NEW j \in Uarts, j # i
      PROVE  uart'[j] = uart[j] /\ got'[j] = got[j] /\ next'[j] = next[j] /\ busy'[j] = busy[j]
  BY <1>1, <1>2, <1>7
<1>8. Typed'
  <2>1. ASSUME NEW j \in Uarts PROVE SetUp(uart'[j])
    BY <1>2, <1>6, <1>7
  <2> QED BY <1>2, <1>3, <1>5, <2>1 DEF Typed
<1>9. ASSUME NEW j \in Uarts
      PROVE  /\ SendFine(uart'[j], next'[j], busy'[j], Reported(j, THRI)')
             /\ j >= 2 => RecvFine(uart'[j], got'[j], Reported(j, RDA)')
  <2>1. CASE j = i
    BY <1>6, <2>1
  <2>2. CASE j # i
    <3>1. /\ SendFine(uart[j], next[j], busy[j], Reported(j, THRI))
          /\ j >= 2 => RecvFine(uart[j], got[j], Reported(j, RDA))
      BY DEF BytesInv, Sends, Receives
    <3>2. IRQUART(j) # IRQUART(i)
      BY <2>2, Requests
    <3>3. ~Reported(j, THRI)' /\ ~Reported(j, RDA)' /\ ~Reported(j, THRI) /\ ~Reported(j, RDA)
      BY <3>2 DEF Reported
    <3>4. Reported(j, THRI)' = Reported(j, THRI) /\ Reported(j, RDA)' = Reported(j, RDA)
      BY <3>3 DEF Reported
    <3> QED BY <1>7, <2>2, <3>1, <3>4
  <2> QED BY <2>1, <2>2
<1>10. Sends' /\ Receives'
  BY <1>9 DEF Sends, Receives
<1> QED BY <1>8, <1>10 DEF BytesInv

\* The read of IIR takes THRI out of it and keeps it in mind; RDA stays.
LEMMA BytesIdentify ==
  ASSUME BytesInv, NEW i \in Uarts, IdentifyUart(i)
  PROVE  BytesInv'
<1> DEFINE u == uart[i]
           q == IRQUART(i)
           r == ReadIir(u, vic, q)
           w == r.u
<1>1. /\ UartAccess(i, r) /\ cpu = "iir" /\ isr = q /\ isr' = isr /\ cause' = u.iir
      /\ boot' = boot /\ got' = got /\ next' = next /\ busy' = busy
  BY DEF IdentifyUart, GetIIR
<1>2. /\ vic \in VicType /\ vic.IntEnable = Irqs /\ SetUp(u) /\ got \in [Uarts -> Seq(Nat)]
      /\ next \in [Uarts -> Nat \ {0}] /\ busy \in [Uarts -> BOOLEAN]
  BY DEF BytesInv, Typed
<1>3. q \in vic.IntEnable
  BY <1>2, Requests
<1>4. r.v \in Outcomes(vic, q)
  BY HandlerOutcomes
<1>5. /\ Steady(u, w) /\ SetUp(w) /\ SameRx(u, w)
      /\ w.iir = IF u.iir = THRI THEN NONE ELSE u.iir
  BY <1>2, <1>3, ReadStep
<1>6. /\ SendFine(u, next[i], busy[i], Reported(i, THRI))
      /\ i >= 2 => RecvFine(u, got[i], Reported(i, RDA))
  BY DEF BytesInv, Sends, Receives
<1>7. ~Reported(i, THRI) /\ ~Reported(i, RDA)
  BY <1>1 DEF Reported
<1>8. (Reported(i, THRI)' => u.iir = THRI) /\ (Reported(i, RDA)' => u.iir = RDA)
  BY <1>1 DEF Reported
<1> HIDE DEF u, q, r
<1>9. SendFine(w, next[i], busy[i], Reported(i, THRI)')
  <2>1. Handed(w) = Handed(u) /\ (Idle(u) => Idle(w))
    BY <1>5 DEF Steady
  <2>2. w.iir # THRI
    BY <1>5 DEF NONE, THRI
  <2> QED BY <1>6, <1>8, <2>1, <2>2, Zenon DEF SendFine
<1>10. i >= 2 => RecvFine(w, got[i], Reported(i, RDA)')
  <2>1. w.iir = RDA <=> u.iir = RDA
    BY <1>5 DEF NONE, THRI, RDA
  <2> QED BY <1>5, <1>6, <1>8, <2>1 DEF RecvFine, SameRx
<1>11. /\ got' = [got EXCEPT ![i] = got'[i]] /\ next' = [next EXCEPT ![i] = next'[i]]
       /\ busy' = [busy EXCEPT ![i] = busy'[i]]
  BY <1>1, <1>2
<1>12. got'[i] \in Seq(Nat) /\ next'[i] \in Nat \ {0} /\ busy'[i] \in BOOLEAN
  BY <1>1, <1>2
<1>13. cpu # "data" /\ isr' = IRQUART(i) /\ r.v \in Outcomes(vic, IRQUART(i))
  BY <1>1, <1>4 DEF q
<1> QED BY <1>1, <1>5, <1>9, <1>10, <1>11, <1>12, <1>13, BytesAccess

\* The read of RBR takes the byte that IIR reported, and only it resets RDA.
LEMMA BytesReceive ==
  ASSUME BytesInv, NEW i \in Uarts, ReceiveByte(i)
  PROVE  BytesInv'
<1> DEFINE u == uart[i]
           q == IRQUART(i)
           r == ReadRbr(u, vic, q)
           w == r.u
           g == got[i]
           h == Append(g, u.rbr)
<1>1. /\ UartAccess(i, r) /\ cpu = "data" /\ isr = q /\ isr' = isr /\ cause = RDA
      /\ boot' = boot /\ got' = [got EXCEPT ![i] = h] /\ next' = next /\ busy' = busy
  BY DEF ReceiveByte, GetRBR
<1>2. cpu' # "data"
  BY DEF ReceiveByte, Finish
<1>3. /\ vic \in VicType /\ vic.IntEnable = Irqs /\ SetUp(u) /\ got \in [Uarts -> Seq(Nat)]
      /\ next \in [Uarts -> Nat \ {0}] /\ busy \in [Uarts -> BOOLEAN]
  BY DEF BytesInv, Typed
<1>4. q \in vic.IntEnable
  BY <1>3, Requests
<1>5. r.v \in Outcomes(vic, q)
  BY HandlerOutcomes
<1>6. /\ Steady(u, w) /\ SetUp(w) /\ SameRx(u, w)
      /\ w.iir = IF u.iir = RDA THEN NONE ELSE u.iir
  BY <1>3, <1>4, ReadStep
<1>7. /\ SendFine(u, next[i], busy[i], Reported(i, THRI))
      /\ i >= 2 => RecvFine(u, g, Reported(i, RDA))
  BY DEF BytesInv, Sends, Receives
<1>8. Reported(i, RDA) /\ ~Reported(i, RDA)' /\ ~Reported(i, THRI)'
  BY <1>1, <1>2 DEF Reported
<1>9. g \in Seq(Nat) /\ h \in Seq(Nat) /\ Len(g) \in Nat /\ Len(h) = Len(g) + 1
      /\ got'[i] = h
  <2>1. u.rbr \in Nat /\ g \in Seq(Nat)
    BY <1>3, ByteAssumption DEF SetUp, UartFine, UartType
  <2>2. got'[i] = h
    BY <1>1, <1>3
  <2> QED BY <2>1, <2>2, AppendProperties, LenProperties
<1>10. i >= 2 => h = UpTo(Len(h)) /\ u.given = Len(h)
  <2>1. i >= 2 => g = UpTo(Len(g)) /\ u.rbr = Len(g) + 1 /\ u.given = Len(g) + 1
    BY <1>7, <1>8 DEF RecvFine
  <2>2. Append(UpTo(Len(g)), Len(g) + 1) = UpTo(Len(g) + 1)
    BY <1>9, UpToFacts
  <2>3. i >= 2 => h = UpTo(Len(g) + 1)
    BY <2>1, <2>2
  <2> HIDE DEF h
  <2> QED BY <1>9, <2>1, <2>3
<1> HIDE DEF u, q, r, g, h
<1>11. SendFine(w, next[i], busy[i], Reported(i, THRI)')
  <2>1. w.iir \in {NONE, u.iir} /\ Reported(i, THRI) \in BOOLEAN
    BY <1>6 DEF Reported
  <2>2. SendFine(w, next[i], busy[i], Reported(i, THRI))
    BY <1>6, <1>7, <2>1, FineSame
  <2> QED BY <1>8, <2>2 DEF SendFine
<1>12. i >= 2 => RecvFine(w, h, Reported(i, RDA)')
  <2>1. w.iir # RDA
    BY <1>6 DEF NONE, RDA
  <2> QED BY <1>6, <1>8, <1>9, <1>10, <2>1 DEF RecvFine, SameRx
<1>13. /\ got' = [got EXCEPT ![i] = got'[i]] /\ next' = [next EXCEPT ![i] = next'[i]]
       /\ busy' = [busy EXCEPT ![i] = busy'[i]]
  BY <1>1, <1>3, <1>9
<1>14. next'[i] \in Nat \ {0} /\ busy'[i] \in BOOLEAN /\ next'[i] = next[i] /\ busy'[i] = busy[i]
  BY <1>1, <1>3
<1>15. isr = IRQUART(i) /\ r.v \in Outcomes(vic, IRQUART(i))
  BY <1>1, <1>5 DEF q
<1> QED BY <1>1, <1>2, <1>6, <1>9, <1>11, <1>12, <1>13, <1>14, <1>15, BytesAccess

\* The next byte goes to an idle transmitter: the one before it has left.
LEMMA BytesPut ==
  ASSUME BytesInv, NEW i \in Uarts, SendByte(i), next[i] \in Out,
         cpu' # "data", cpu # "data" \/ isr = IRQUART(i),
         ~busy[i] \/ Reported(i, THRI),
         boot' = boot, got' = got, busy' = [busy EXCEPT ![i] = TRUE]
  PROVE  BytesInv'
<1> DEFINE u == uart[i]
           q == IRQUART(i)
           c == next[i]
           ok == FALSE
           r == WriteThr(u, vic, q, c, ok)
           w == r.u
<1>1. UartAccess(i, r) /\ next' = [next EXCEPT ![i] = c + 1]
  BY DEF SendByte, PutTHR
<1>2. /\ vic \in VicType /\ vic.IntEnable = Irqs /\ SetUp(u) /\ got \in [Uarts -> Seq(Nat)]
      /\ next \in [Uarts -> Nat \ {0}] /\ busy \in [Uarts -> BOOLEAN] /\ boot \in Boots
  BY DEF BytesInv, Typed
<1>3. q \in Irqs /\ q \in vic.IntEnable
  BY <1>2, Requests
<1>4. c \in Bytes /\ c \in Nat \ {0}
  BY <1>2, FirmwareAssumption DEF Out
<1>5. r.v \in Outcomes(vic, q)
  <2> HIDE DEF ok
  <2> QED BY HandlerOutcomes
<1>6. /\ SendFine(u, c, busy[i], Reported(i, THRI))
      /\ i >= 2 => RecvFine(u, got[i], Reported(i, RDA))
  BY DEF BytesInv, Sends, Receives
<1>7. Idle(u) /\ Handed(u) = UpTo(c - 1)
  BY <1>6 DEF SendFine
<1>8. /\ Handed(w) = Append(Handed(u), c) /\ SetUp(w) /\ SameRx(u, w)
      /\ w.iir = IF u.iir = THRI THEN NONE ELSE u.iir
  <2>1. w = WriteThr(u, vic, q, c, ok).u /\ ok \in BOOLEAN
    OBVIOUS
  <2> HIDE DEF u, q, c, ok, r, w
  <2> QED BY <1>2, <1>3, <1>4, <1>7, <2>1, WriteStep
<1>9. ~Reported(i, RDA)' /\ ~Reported(i, THRI)'
  BY DEF Reported
<1>10. next'[i] = c + 1 /\ busy'[i] = TRUE /\ got'[i] = got[i]
  BY <1>1, <1>2
<1> HIDE DEF u, q, c, ok, r
<1>11. SendFine(w, c + 1, busy'[i], Reported(i, THRI)')
  <2>1. c - 1 \in Nat /\ (c - 1) + 1 = c /\ (c + 1) - 1 = c
    BY <1>4
  <2>2. Append(UpTo(c - 1), (c - 1) + 1) = UpTo((c - 1) + 1)
    BY <2>1, UpToFacts
  <2>3. Handed(w) = UpTo((c + 1) - 1)
    BY <1>7, <1>8, <2>1, <2>2
  <2>4. w.iir # THRI
    BY <1>8 DEF NONE, THRI
  <2> QED BY <1>9, <1>10, <2>3, <2>4 DEF SendFine
<1>12. i >= 2 => RecvFine(w, got'[i], Reported(i, RDA)')
  <2>1. w.iir = RDA <=> u.iir = RDA
    BY <1>8 DEF NONE, THRI, RDA
  <2> QED BY <1>6, <1>8, <1>9, <1>10, <2>1 DEF RecvFine, SameRx
<1>13. /\ got' = [got EXCEPT ![i] = got'[i]] /\ next' = [next EXCEPT ![i] = next'[i]]
       /\ busy' = [busy EXCEPT ![i] = busy'[i]]
  BY <1>1, <1>2, <1>10
<1>14. got'[i] \in Seq(Nat) /\ next'[i] \in Nat \ {0} /\ busy'[i] \in BOOLEAN
  BY <1>2, <1>4, <1>10
<1>15. r.v \in Outcomes(vic, IRQUART(i))
  BY <1>5 DEF q
<1>16. SendFine(w, next'[i], busy'[i], Reported(i, THRI)')
  BY <1>10, <1>11
<1> QED BY <1>1, <1>8, <1>12, <1>13, <1>14, <1>15, <1>16, BytesAccess

\* The main program starts a transmission, a handler continues or ends it.
LEMMA BytesSend ==
  ASSUME BytesInv, NEW i \in Uarts, StartSend(i) \/ ContinueSend(i)
  PROVE  BytesInv'
<1>1. /\ vic \in VicType /\ vic.IntEnable = Irqs /\ SetUp(uart[i])
      /\ uart \in [Uarts -> UartType] /\ got \in [Uarts -> Seq(Nat)]
      /\ next \in [Uarts -> Nat \ {0}] /\ busy \in [Uarts -> BOOLEAN]
  BY DEF BytesInv, Typed
<1>2. CASE StartSend(i)
  <2>1. /\ SendByte(i) /\ next[i] \in Out /\ cpu = "main" /\ cpu' = cpu /\ ~busy[i]
        /\ boot' = boot /\ got' = got /\ busy' = [busy EXCEPT ![i] = TRUE]
    BY <1>2 DEF StartSend
  <2> QED BY <2>1, BytesPut
<1>3. CASE ContinueSend(i)
  <2>1. /\ cpu = "data" /\ isr = IRQUART(i) /\ cause = THRI /\ cpu' # "data"
        /\ isr' = isr /\ boot' = boot /\ got' = got
    BY <1>3 DEF ContinueSend, Finish
  <2>2. Reported(i, THRI) /\ ~Reported(i, RDA)
    BY <2>1 DEF Reported, THRI, RDA
  <2>3. /\ SendFine(uart[i], next[i], busy[i], Reported(i, THRI))
        /\ i >= 2 => RecvFine(uart[i], got[i], Reported(i, RDA))
    BY DEF BytesInv, Sends, Receives
  <2>4. CASE next[i] \in Out
    <3>1. SendByte(i) /\ busy' = busy
      BY <1>3, <2>4 DEF ContinueSend
    <3>2. busy[i] = TRUE
      BY <1>1, <2>2, <2>3 DEF SendFine
    <3>3. busy' = [busy EXCEPT ![i] = TRUE]
      BY <1>1, <3>1, <3>2
    <3> QED BY <2>1, <2>2, <2>4, <3>1, <3>3, BytesPut
  <2>5. CASE next[i] \notin Out
    <3> DEFINE r == Ports(uart[i], vic)
    <3>1. busy' = [busy EXCEPT ![i] = FALSE] /\ UNCHANGED <<machine, next>>
      BY <1>3, <2>5 DEF ContinueSend
    <3>2. r.u = uart[i] /\ r.v = vic
      BY DEF Ports
    <3> HIDE DEF r
    <3>3. UartAccess(i, r)
      BY <1>1, <3>1, <3>2 DEF UartAccess, machine
    <3>4. r.v \in Outcomes(vic, IRQUART(i)) /\ SetUp(r.u)
      BY <1>1, <3>2 DEF Outcomes
    <3>5. /\ got'[i] = got[i] /\ next'[i] = next[i] /\ busy'[i] = FALSE
          /\ got' = [got EXCEPT ![i] = got'[i]] /\ next' = [next EXCEPT ![i] = next'[i]]
          /\ busy' = [busy EXCEPT ![i] = busy'[i]]
      BY <1>1, <2>1, <3>1
    <3>6. got'[i] \in Seq(Nat) /\ next'[i] \in Nat \ {0} /\ busy'[i] \in BOOLEAN
      BY <1>1, <3>5
    <3>7. ~Reported(i, RDA)' /\ ~Reported(i, THRI)'
      BY <2>1 DEF Reported
    <3>8. SendFine(r.u, next'[i], busy'[i], Reported(i, THRI)')
      <4>1. Idle(uart[i]) /\ uart[i].iir # THRI /\ Handed(uart[i]) = UpTo(next[i] - 1)
        BY <2>2, <2>3 DEF SendFine
      <4> QED BY <3>2, <3>5, <3>7, <4>1 DEF SendFine
    <3>9. i >= 2 => RecvFine(r.u, got'[i], Reported(i, RDA)')
      BY <2>3, <3>2, <3>5, <3>7 DEF RecvFine
    <3> QED BY <2>1, <3>3, <3>4, <3>5, <3>6, <3>8, <3>9, BytesAccess
  <2> QED BY <2>4, <2>5
<1> QED BY <1>2, <1>3

\* Every step of the firmware and the machine keeps the bytes in order.
LEMMA BytesNext ==
  ASSUME BytesInv, [Next]_vars
  PROVE  BytesInv'
<1>1. CASE UNCHANGED vars
  BY <1>1 DEF vars, machine, firmware, BytesInv, Typed, Sends, Receives, Reported
<1>2. CASE Guest
  <2>1. CASE TakeIrq \/ ReadVector \/ \E i \in Timers : ServeTimer(i)
    BY <2>1, BytesOutside
  <2>2. CASE Eoi
    BY <2>2, BytesEoi
  <2>3. ASSUME NEW i \in Uarts, IdentifyUart(i) PROVE BytesInv'
    BY <2>3, BytesIdentify
  <2>4. ASSUME NEW i \in Uarts, ReceiveByte(i) PROVE BytesInv'
    BY <2>4, BytesReceive
  <2>5. ASSUME NEW i \in Uarts, StartSend(i) \/ ContinueSend(i) PROVE BytesInv'
    BY <2>5, BytesSend
  <2> QED BY <1>2, <2>1, <2>2, <2>3, <2>4, <2>5 DEF Guest
<1>3. ASSUME NEW ok \in BOOLEAN, Cycle(ok) PROVE BytesInv'
  BY <1>3, BytesCycle
<1> QED BY <1>1, <1>2, <1>3 DEF Next

\* The invariant about the bytes holds throughout.
LEMMA BytesInvariant == Spec => []BytesInv
<1>1. Init => BytesInv
  BY BytesInit
<1>2. BytesInv /\ [Next]_vars => BytesInv'
  BY BytesNext
<1> QED BY <1>1, <1>2, PTL DEF Spec

\* lpc2300_uart_transmit and the transmit interrupt: whatever the machine and
\* the firmware do and in whatever order, what the host accepted is what the
\* firmware sent, each byte once and in order.  The handler may write
\* VICVectAddr first or last, and the requests may have any levels.
THEOREM TxCorrect == Spec => []TxInOrder
<1>1. ASSUME BytesInv PROVE TxInOrder
  <2>1. ASSUME NEW i \in Uarts PROVE uart[i].sent = UpTo(Len(uart[i].sent))
    <3>1. UartFine(uart[i]) /\ next[i] \in Nat \ {0} /\ Handed(uart[i]) = UpTo(next[i] - 1)
      BY <1>1 DEF BytesInv, Typed, SetUp, Sends, SendFine
    <3>2. next[i] - 1 \in Nat
      BY <3>1
    <3> QED BY <3>1, <3>2, SentIsFirst
  <2> QED BY <2>1 DEF TxInOrder
<1>2. BytesInv => TxInOrder
  BY <1>1
<1> QED BY <1>2, BytesInvariant, PTL

\* The receive interrupt of UART2 and UART3, whose IIR no end of interrupt resets:
\* what the firmware reads from RBR is what the host sent, each byte once and in
\* order.  On UART0 and UART1 bytes are lost wherever the handler writes
\* VICVectAddr, because the write resets IIR.
THEOREM RxCorrect ==
  ASSUME Uarts \subseteq 2 .. 3
  PROVE  Spec => []RxInOrder
<1>1. ASSUME BytesInv PROVE RxInOrder
  <2>1. ASSUME NEW i \in Uarts PROVE got[i] = UpTo(Len(got[i]))
    <3>1. i >= 2
      OBVIOUS
    <3> QED BY <1>1, <3>1 DEF BytesInv, Receives, RecvFine
  <2> QED BY <2>1 DEF RxInOrder
<1>2. BytesInv => RxInOrder
  BY <1>1
<1> QED BY <1>2, BytesInvariant, PTL

-----------------------------------------------------------------------------
(* The end of an interrupt *)

\* The handler has read its vector and has not ended the interrupt yet.
Entered == IF EoiFirst THEN cpu = "eoi" ELSE cpu \in {"iir", "ir", "data", "eoi"}

\* All requests are at level p.  From the exception to the end of the interrupt
\* that level is in service, and a handler runs for the request that is.
EoiInv(p) ==
  /\ Flat(vic, p)
  /\ cpu = "irq" \/ Entered => p \in InService(vic)
  /\ Entered => isr = vic.Vect_Addr

\* The write of VICVectAddr takes the level out of service and accepts the next
\* request at it, if there is one.
LEMMA EoiFlat ==
  ASSUME NEW p \in Prios, NEW v, Flat(v, p)
  PROVE  Flat(VectAddrWrite(v), p)
<1>1. v \in VicType /\ v.FIQStatus = {} /\ OneLevel(v, p)
  BY DEF Flat, OneLevel
<1>2. CASE ~Retires(v)
  BY <1>1, <1>2 DEF VectAddrWrite
<1>3. CASE Retires(v)
  <2> DEFINE r == Release(v)
  <2>1. VectAddrWrite(v) = UpdateInt(r)
    BY <1>1, <1>3 DEF VectAddrWrite
  <2>2. p \in InService(v) /\ ServicingPrio(v) = p
    BY <1>1, <1>3, ServicingFacts DEF Retires, OneLevel
  <2>3. /\ r \in VicType /\ r.VectPrio = v.VectPrio /\ r.VectAddr = v.VectAddr
        /\ r.SWPrioMask = v.SWPrioMask /\ r.IntSelect = v.IntSelect
        /\ r.FIQStatus = v.FIQStatus /\ r.HWPrioMask = v.HWPrioMask \cup {p}
    BY <1>1, <2>2 DEF Release, VicType
  <2> HIDE DEF r
  <2>4. InService(r) = {}
    BY <1>1, <2>3 DEF InService, OneLevel
  <2>5. OneLevel(r, p)
    BY <1>1, <2>3, <2>4 DEF OneLevel
  <2> QED BY <2>1, <2>5, UpdateFlat DEF Continued
<1> QED BY <1>2, <1>3

\* A step that leaves the request in service, and the handler before its end of
\* interrupt.
LEMMA EoiKept ==
  ASSUME NEW p \in Prios, EoiInv(p), Continued(vic, vic', p), isr' = isr,
         cpu' = "irq" => cpu = "irq", Entered' => Entered
  PROVE  EoiInv(p)'
BY DEF EoiInv, Continued

\* Every step keeps the level in service as long as the handler needs it.
LEMMA EoiNext ==
  ASSUME NEW p \in Prios, BytesInv, EoiInv(p), [Next]_vars
  PROVE  EoiInv(p)'
<1>1. vic \in VicType /\ UartsFine(uart) /\ Flat(vic, p)
  BY DEF BytesInv, Typed, SetUp, UartsFine, EoiInv
<1>2. Continued(vic, vic, p)
  BY <1>1 DEF Continued
<1>3. ASSUME NEW q \in Irqs, vic' \in Outcomes(vic, q) PROVE Continued(vic, vic', p)
  BY <1>1, <1>3, OutcomeMoves DEF VicMoved
<1>4. CASE UNCHANGED vars
  BY <1>2, <1>4, EoiKept DEF vars, machine, firmware, Entered
<1>5. CASE TakeIrq
  BY <1>1, <1>5 DEF TakeIrq, machine, EoiInv, Flat, Entered
<1>6. CASE ReadVector
  BY <1>1, <1>6 DEF ReadVector, machine, EoiInv, Entered, Work
<1>7. CASE Eoi
  <2>1. vic' = VectAddrWrite(vic) /\ cpu' # "irq" /\ ~Entered'
    BY <1>7 DEF Eoi, PutVectAddr, Entered, Work
  <2>2. Flat(vic', p)
    BY <1>1, <2>1, EoiFlat
  <2> QED BY <2>1, <2>2 DEF EoiInv
<1>8. ASSUME NEW i \in Timers, ServeTimer(i) PROVE EoiInv(p)'
  <2>1. vic' = WriteIr(timer[i], vic, IRQTIMER(i), {0}).v
    BY <1>8 DEF ServeTimer, PutIR, TimerAccess
  <2>2. Continued(vic, vic', p)
    BY <1>3, <2>1, HandlerOutcomes, Requests
  <2>3. isr' = isr /\ cpu' # "irq" /\ (Entered' => Entered)
    BY <1>8 DEF ServeTimer, Finish, Entered
  <2> QED BY <2>2, <2>3, EoiKept
<1>9. ASSUME NEW i \in Uarts,
             StartSend(i) \/ IdentifyUart(i) \/ ReceiveByte(i) \/ ContinueSend(i)
      PROVE  EoiInv(p)'
  <2>1. isr' = isr /\ (cpu' = "irq" => cpu = "irq") /\ (Entered' => Entered)
    BY <1>9 DEF StartSend, IdentifyUart, ReceiveByte, ContinueSend, Finish, Entered
  <2>2. IRQUART(i) \in Irqs
    BY Requests
  <2>3. vic' \in Outcomes(vic, IRQUART(i))
    <3>1. CASE IdentifyUart(i)
      BY <3>1, HandlerOutcomes DEF IdentifyUart, GetIIR, UartAccess
    <3>2. CASE ReceiveByte(i)
      BY <3>2, HandlerOutcomes DEF ReceiveByte, GetRBR, UartAccess
    <3>3. CASE SendByte(i)
      <4> DEFINE ok == FALSE
      <4>1. vic' = WriteThr(uart[i], vic, IRQUART(i), next[i], ok).v
        BY <3>3 DEF SendByte, PutTHR, UartAccess
      <4> HIDE DEF ok
      <4> QED BY <4>1, HandlerOutcomes
    <3>4. CASE vic' = vic
      BY <3>4 DEF Outcomes
    <3>5. StartSend(i) \/ ContinueSend(i) => SendByte(i) \/ vic' = vic
      BY DEF StartSend, ContinueSend, machine
    <3> QED BY <1>9, <3>1, <3>2, <3>3, <3>4, <3>5
  <2> QED BY <1>3, <2>1, <2>2, <2>3, EoiKept
<1>10. ASSUME NEW ok \in BOOLEAN, Cycle(ok) PROVE EoiInv(p)'
  <2>1. PICK tns \in Tns : DoCycle(tns, ok)
    BY <1>10 DEF Cycle
  <2>2. isr' = isr /\ cpu' = cpu /\ (Entered' => Entered)
    BY <1>10 DEF Cycle, firmware, Entered
  <2>3. VicMoved(vic, vic')
    BY <1>1, <2>1, CycleMoves
  <2> QED BY <1>1, <2>2, <2>3, EoiKept DEF VicMoved
<1> QED BY <1>4, <1>5, <1>6, <1>7, <1>8, <1>9, <1>10 DEF Next, Guest

\* With all requests at one level, a write of VICVectAddr ("Clear the
\* corresponding IRQ") retires the request its handler was entered for, however
\* many cycles pass between the exception, the read of the vector and the write.
\* With several levels a request can overtake in between.
THEOREM EoiCorrect ==
  ASSUME NEW p \in Prios, Level = [q \in Irqs |-> p]
  PROVE  Spec => []EoiRetiresOwnRequest
<1>1. Init => EoiInv(p)
  <2>1. ASSUME Init PROVE EoiInv(p)
    <3>1. Flat(vic, p)
      BY <2>1, BootVic DEF Init
    <3>2. cpu # "irq" /\ ~Entered
      BY <2>1 DEF Init, Entered
    <3> QED BY <3>1, <3>2 DEF EoiInv
  <2> QED BY <2>1
<1>2. BytesInv /\ EoiInv(p) /\ [Next]_vars => EoiInv(p)'
  BY EoiNext
<1>3. EoiInv(p) => EoiRetiresOwnRequest
  <2>1. ASSUME EoiInv(p), cpu = "eoi", Retires(vic) PROVE Retired(vic) = isr
    <3>1. Entered /\ OneLevel(vic, p)
      BY <2>1 DEF Entered, EoiInv, Flat
    <3>2. ServicingPrio(vic) = p /\ p \in InService(vic)
      BY <2>1, <3>1, ServicingFacts DEF EoiInv, OneLevel
    <3> QED BY <2>1, <3>1, <3>2 DEF Retired, EoiInv, OneLevel
  <2> QED BY <2>1 DEF EoiRetiresOwnRequest
<1> QED BY <1>1, <1>2, <1>3, BytesInvariant, PTL DEF Spec
=============================================================================
