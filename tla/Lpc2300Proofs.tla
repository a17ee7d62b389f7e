---------------------------- MODULE Lpc2300Proofs ---------------------------
(***************************************************************************)
(* Proofs about the LPC2300 machine under any guest: its types, the cause  *)
(* behind every raised request line, the order of the bytes through the    *)
(* transmitters, and the common step of the accelerated timers, for every  *)
(* FIFO size, word size, set of devices and choice of the guest's data.    *)
(***************************************************************************)
EXTENDS Lpc2300Any, DeviceLemmas

-----------------------------------------------------------------------------
(* The machine *)

\* Every device has request numbers of its own.
LEMMA OwnLines ==
  /\ \A i \in Uarts : IRQUART(i) \in Irqs
  /\ \A i \in Timers : IRQTIMER(i) \in Irqs
  /\ \A i \in Uarts, j \in Uarts : IRQUART(i) = IRQUART(j) => i = j
  /\ \A i \in Timers, j \in Timers : IRQTIMER(i) = IRQTIMER(j) => i = j
  /\ \A i \in Uarts, j \in Timers : IRQUART(i) # IRQTIMER(j)
<1>1. Uarts \subseteq 0 .. 3 /\ Timers \subseteq 0 .. 3
  BY MachineAssumption
<1>2. /\ \A i \in Uarts : IRQUART(i) \in Irqs
      /\ \A i \in Timers : IRQTIMER(i) \in Irqs
  BY MachineAssumption
<1>3. \A i \in 0 .. 3, j \in 0 .. 3 : IRQUART(i) = IRQUART(j) => i = j
  BY DEF IRQUART
<1>4. \A i \in 0 .. 3, j \in 0 .. 3 : IRQTIMER(i) = IRQTIMER(j) => i = j
  BY DEF IRQTIMER
<1>5. \A i \in 0 .. 3, j \in 0 .. 3 : IRQUART(i) # IRQTIMER(j)
  BY DEF IRQTIMER, IRQUART
<1> QED BY <1>1, <1>2, <1>3, <1>4, <1>5

\* The devices us and ts with the VIC v: registers in range, written bytes in
\* the transmitters, and a cause for every raised line.
Sound(us, ts, v) ==
  /\ v \in VicType
  /\ us \in [Uarts -> UartType] /\ \A i \in Uarts : UartFine(us[i])
  /\ ts \in [Timers -> TimerType]
  /\ \A i \in Uarts : IRQUART(i) \in v.INTSOURCE => us[i].iir # NONE
  /\ \A i \in Timers : IRQTIMER(i) \in v.INTSOURCE => ts[i].ir # {}

\* A handler of one UART keeps the machine sound.
LEMMA UartReplace ==
  ASSUME NEW us, NEW ts, NEW v, Sound(us, ts, v), NEW i \in Uarts,
         NEW u, NEW w, UartFine(u), Quiet(v, w, IRQUART(i)),
         IRQUART(i) \in w.INTSOURCE => u.iir # NONE
  PROVE  Sound([us EXCEPT ![i] = u], ts, w)
<1> DEFINE x == [us EXCEPT ![i] = u]
<1>1. us \in [Uarts -> UartType] /\ u \in UartType
  BY DEF Sound, UartFine
<1>2. x \in [Uarts -> UartType] /\ x[i] = u /\ \A j \in Uarts : j # i => x[j] = us[j]
  BY <1>1
<1> HIDE DEF x
<1>3. \A j \in Uarts : UartFine(x[j])
  BY <1>2 DEF Sound
<1>4. \A q : q # IRQUART(i) => (q \in w.INTSOURCE <=> q \in v.INTSOURCE)
  BY DEF Quiet
<1>5. ASSUME NEW j \in Uarts PROVE IRQUART(j) \in w.INTSOURCE => x[j].iir # NONE
  BY <1>2, <1>4, OwnLines DEF Sound
<1>6. ASSUME NEW j \in Timers PROVE IRQTIMER(j) \in w.INTSOURCE => ts[j].ir # {}
  BY <1>4, OwnLines DEF Sound
<1>7. w \in VicType /\ ts \in [Timers -> TimerType]
  BY DEF Quiet, Sound
<1> QED BY <1>2, <1>3, <1>5, <1>6, <1>7 DEF Sound, x

\* A handler of one timer keeps the machine sound.
LEMMA TimerReplace ==
  ASSUME NEW us, NEW ts, NEW v, Sound(us, ts, v), NEW i \in Timers,
         NEW m \in TimerType, NEW w, Quiet(v, w, IRQTIMER(i)),
         IRQTIMER(i) \in w.INTSOURCE => m.ir # {}
  PROVE  Sound(us, [ts EXCEPT ![i] = m], w)
<1> DEFINE x == [ts EXCEPT ![i] = m]
<1>1. ts \in [Timers -> TimerType]
  BY DEF Sound
<1>2. x \in [Timers -> TimerType] /\ x[i] = m /\ \A j \in Timers : j # i => x[j] = ts[j]
  BY <1>1
<1> HIDE DEF x
<1>4. \A q : q # IRQTIMER(i) => (q \in w.INTSOURCE <=> q \in v.INTSOURCE)
  BY DEF Quiet
<1>5. ASSUME NEW j \in Uarts PROVE IRQUART(j) \in w.INTSOURCE => us[j].iir # NONE
  BY <1>4, OwnLines DEF Sound
<1>6. ASSUME NEW j \in Timers PROVE IRQTIMER(j) \in w.INTSOURCE => x[j].ir # {}
  BY <1>2, <1>4, OwnLines DEF Sound
<1>7. /\ w \in VicType
      /\ us \in [Uarts -> UartType] /\ \A j \in Uarts : UartFine(us[j])
  BY DEF Quiet, Sound
<1> QED BY <1>2, <1>5, <1>6, <1>7 DEF Sound, x

\* The UARTs xs are us with bytes moved on in the transmitters at most.
AllSteady(us, xs) == \A j \in Uarts : Steady(us[j], xs[j]) /\ xs[j].ier = us[j].ier

\* A pass of the loop over the timers.
LEMMA TimerPassSound ==
  ASSUME NEW us, NEW s, Sound(us, s.timer, s.v), NEW i, NEW t \in Nat
  PROVE  Sound(us, TimerPass(s, i, t).timer, TimerPass(s, i, t).v)
<1>1. CASE i \in Timers /\ PCTIM(i) \in pconp
  <2> DEFINE q == IRQTIMER(i)
             r == TimerCycle(s.timer[i], s.v, q, t)
  <2>1. /\ TimerPass(s, i, t).timer = [s.timer EXCEPT ![i] = r.m]
        /\ TimerPass(s, i, t).v = r.v
    BY <1>1 DEF TimerPass
  <2>2. /\ s.timer[i] \in TimerType /\ s.v \in VicType /\ q \in Irqs
        /\ q \in s.v.INTSOURCE => s.timer[i].ir # {}
    BY <1>1, OwnLines DEF Sound
  <2>3. TimerEffect(s.v, q, r)
    BY <2>2, TimerCycleEffect
  <2> HIDE DEF r
  <2> QED BY <1>1, <2>1, <2>3, TimerReplace DEF TimerEffect
<1>2. CASE ~(i \in Timers /\ PCTIM(i) \in pconp)
  BY <1>2 DEF TimerPass
<1> QED BY <1>1, <1>2

\* A pass of the loop over the UARTs.
LEMMA UartPassSound ==
  ASSUME NEW ts, NEW s, Sound(s.uart, ts, s.v), NEW i, NEW ok \in BOOLEAN
  PROVE  /\ Sound(UartPass(s, i, ok).uart, ts, UartPass(s, i, ok).v)
         /\ AllSteady(s.uart, UartPass(s, i, ok).uart)
<1>0. AllSteady(s.uart, s.uart)
  BY DEF AllSteady, Steady, Sound
<1>1. CASE i \in Uarts /\ PCUART(i) \in pconp
  <2> DEFINE q == IRQUART(i)
             r == UartCycle(s.uart[i], s.v, q, uartcnt = i,
                            uartcnt = i + UART_INT_CYCLE \div 2, ok)
             x == [s.uart EXCEPT ![i] = r.u]
  <2>1. UartPass(s, i, ok).uart = x /\ UartPass(s, i, ok).v = r.v
    BY <1>1 DEF UartPass
  <2>2. /\ UartFine(s.uart[i]) /\ s.v \in VicType /\ q \in Irqs
        /\ q \in s.v.INTSOURCE => s.uart[i].iir # NONE
        /\ s.uart \in [Uarts -> UartType]
    BY <1>1, OwnLines DEF Sound
  <2>3. (uartcnt = i) \in BOOLEAN /\ (uartcnt = i + UART_INT_CYCLE \div 2) \in BOOLEAN
    OBVIOUS
  <2>4. UartEffect(s.uart[i], s.v, q, r)
    BY <2>2, <2>3, UartCycleEffect
  <2> HIDE DEF r
  <2>5. Sound(x, ts, r.v)
    BY <1>1, <2>4, UartReplace DEF UartEffect, Steady
  <2>6. x[i] = r.u /\ \A j \in Uarts : j # i => x[j] = s.uart[j]
    BY <1>1, <2>2
  <2> HIDE DEF x
  <2>7. AllSteady(s.uart, x)
    BY <1>0, <2>4, <2>6 DEF AllSteady, UartEffect
  <2> QED BY <2>1, <2>5, <2>7
<1>2. CASE ~(i \in Uarts /\ PCUART(i) \in pconp)
  BY <1>0, <1>2 DEF UartPass
<1> QED BY <1>1, <1>2

\* The four passes over the timers.
LEMMA TimersCycleSound ==
  ASSUME Sound(uart, timer, vic), NEW t \in Nat
  PROVE  Sound(uart, TimersCycle(t).timer, TimersCycle(t).v)
<1> DEFINE s == [timer |-> timer, v |-> vic]
           s0 == TimerPass(s, 0, t)
           s1 == TimerPass(s0, 1, t)
           s2 == TimerPass(s1, 2, t)
           s3 == TimerPass(s2, 3, t)
<1>0. TimersCycle(t) = s3
  BY DEF TimersCycle
<1>1. Sound(uart, s.timer, s.v)
  OBVIOUS
<1> HIDE DEF s
<1>2. Sound(uart, s0.timer, s0.v)
  BY <1>1, TimerPassSound
<1> HIDE DEF s0
<1>3. Sound(uart, s1.timer, s1.v)
  BY <1>2, TimerPassSound
<1> HIDE DEF s1
<1>4. Sound(uart, s2.timer, s2.v)
  BY <1>3, TimerPassSound
<1> HIDE DEF s2
<1>5. Sound(uart, s3.timer, s3.v)
  BY <1>4, TimerPassSound
<1> HIDE DEF s3
<1> QED BY <1>0, <1>5

\* The four passes over the UARTs.
LEMMA UartsCycleSound ==
  ASSUME NEW ts, NEW w, Sound(uart, ts, w), NEW ok \in BOOLEAN
  PROVE  /\ Sound(UartsCycle(w, ok).uart, ts, UartsCycle(w, ok).v)
         /\ AllSteady(uart, UartsCycle(w, ok).uart)
<1> DEFINE s == [uart |-> uart, v |-> w]
           s0 == UartPass(s, 0, ok)
           s1 == UartPass(s0, 1, ok)
           s2 == UartPass(s1, 2, ok)
           s3 == UartPass(s2, 3, ok)
<1>0. UartsCycle(w, ok) = s3 /\ s.uart = uart
  BY DEF UartsCycle
<1>1. Sound(s.uart, ts, s.v)
  OBVIOUS
<1> HIDE DEF s
<1>2. Sound(s0.uart, ts, s0.v) /\ AllSteady(s.uart, s0.uart)
  BY <1>1, UartPassSound
<1> HIDE DEF s0
<1>3. Sound(s1.uart, ts, s1.v) /\ AllSteady(s0.uart, s1.uart)
  BY <1>2, UartPassSound
<1> HIDE DEF s1
<1>4. Sound(s2.uart, ts, s2.v) /\ AllSteady(s1.uart, s2.uart)
  BY <1>3, UartPassSound
<1> HIDE DEF s2
<1>5. Sound(s3.uart, ts, s3.v) /\ AllSteady(s2.uart, s3.uart)
  BY <1>4, UartPassSound
<1> HIDE DEF s3
<1>6. AllSteady(s.uart, s3.uart)
  BY <1>2, <1>3, <1>4, <1>5 DEF AllSteady, Steady
<1> QED BY <1>0, <1>5, <1>6

-----------------------------------------------------------------------------
(* The common step of the timers *)

\* How far ahead of the count of m its match register n lies.
Ahead(m, n) == (m.mr[n] - m.tc) % Word

\* t does not pass over register n of timer i, if that is powered and enabled.
Spares(t, i, n) == i \in Timers /\ n \in MRs /\ PCTIM(i) \in pconp
                     /\ timer[i].mcr[n] # {} /\ Ahead(timer[i], n) > 0
                       => t <= Ahead(timer[i], n)

\* One pass of "adjust TC step in order to match MRn".
LEMMA ClipMatchFacts ==
  ASSUME timer \in [Timers -> TimerType], NEW i, NEW n, NEW t \in Nat
  PROVE  /\ ClipMatch(i, n, t) \in Nat /\ ClipMatch(i, n, t) <= t
         /\ Spares(ClipMatch(i, n, t), i, n)
<1>1. CASE i \in Timers /\ n \in MRs /\ PCTIM(i) \in pconp
  <2> DEFINE m == timer[i]
             a == Ahead(m, n)
             c == ClipMatch(i, n, t)
             E == m.mcr[n] # {}
  <2>1. a \in Nat
    <3>1. m \in TimerType
      BY <1>1
    <3>2. m.mr[n] \in Nat /\ m.tc \in Nat
      BY <1>1, <3>1, WordFacts DEF TimerType
    <3>3. m.mr[n] - m.tc \in Int
      BY <3>2
    <3> QED BY <3>3, WordFacts DEF Ahead
  <2>2. c = IF t > 1 /\ E /\ t > a THEN a ELSE t
    BY <1>1 DEF ClipMatch, ClipStep, Ahead
  <2> HIDE DEF a, c, E
  <2>3. c \in Nat /\ c <= t /\ (E /\ a > 0 => c <= a)
    BY <2>1, <2>2
  <2> QED BY <1>1, <2>3 DEF Spares, a, c, E
<1>2. CASE ~(i \in Timers /\ n \in MRs /\ PCTIM(i) \in pconp)
  BY <1>2 DEF ClipMatch, Spares
<1> QED BY <1>1, <1>2

\* A shorter step passes over no more.
LEMMA SparesShorter ==
  ASSUME timer \in [Timers -> TimerType], NEW t \in Nat, NEW r \in Nat, r <= t,
         NEW i, NEW n, Spares(t, i, n)
  PROVE  Spares(r, i, n)
<1>1. SUFFICES ASSUME i \in Timers, n \in MRs, Spares(t, i, n)
               PROVE  Ahead(timer[i], n) > 0 /\ t <= Ahead(timer[i], n)
                        => r <= Ahead(timer[i], n)
  BY DEF Spares
<1> DEFINE a == Ahead(timer[i], n)
<1>2. a \in Nat
  <2>1. timer[i].mr[n] \in Nat /\ timer[i].tc \in Nat
    BY <1>1, WordFacts DEF TimerType
  <2>2. timer[i].mr[n] - timer[i].tc \in Int
    BY <2>1
  <2> QED BY <2>2, WordFacts DEF Ahead
<1> HIDE DEF a
<1>3. t <= a => r <= a
  BY <1>2
<1> QED BY <1>3 DEF a

\* The passes over the registers of one timer.
LEMMA ClipTimerFacts ==
  ASSUME timer \in [Timers -> TimerType], NEW i, NEW t \in Nat
  PROVE  /\ ClipTimer(i, t) \in Nat /\ ClipTimer(i, t) <= t
         /\ \A n \in MRs : Spares(ClipTimer(i, t), i, n)
<1> DEFINE t0 == ClipMatch(i, 0, t)
           t1 == ClipMatch(i, 1, t0)
           t2 == ClipMatch(i, 2, t1)
           t3 == ClipMatch(i, 3, t2)
<1>0. ClipTimer(i, t) = t3
  BY DEF ClipTimer
<1>1. t0 \in Nat /\ t0 <= t /\ Spares(t0, i, 0)
  BY ClipMatchFacts
<1> HIDE DEF t0
<1>2. t1 \in Nat /\ t1 <= t0 /\ Spares(t1, i, 1)
  BY <1>1, ClipMatchFacts
<1> HIDE DEF t1
<1>3. t2 \in Nat /\ t2 <= t1 /\ Spares(t2, i, 2)
  BY <1>2, ClipMatchFacts
<1> HIDE DEF t2
<1>4. t3 \in Nat /\ t3 <= t2 /\ Spares(t3, i, 3)
  BY <1>3, ClipMatchFacts
<1> HIDE DEF t3
<1>5. t3 <= t /\ t3 <= t0 /\ t3 <= t1
  BY <1>1, <1>2, <1>3, <1>4
<1>6. Spares(t3, i, 0) /\ Spares(t3, i, 1) /\ Spares(t3, i, 2) /\ Spares(t3, i, 3)
  BY <1>1, <1>2, <1>3, <1>4, <1>5, SparesShorter
<1>7. \A n \in MRs : n = 0 \/ n = 1 \/ n = 2 \/ n = 3
  BY TimerAssumption
<1> QED BY <1>0, <1>4, <1>5, <1>6, <1>7

\* The passes over all timers.
LEMMA StepFacts ==
  ASSUME timer \in [Timers -> TimerType], NEW tns \in Nat
  PROVE  /\ Step(tns) \in Nat /\ Step(tns) <= 1 + tns
         /\ \A i \in Timers, n \in MRs : Spares(Step(tns), i, n)
<1> DEFINE t == 1 + tns
           t0 == ClipTimer(0, t)
           t1 == ClipTimer(1, t0)
           t2 == ClipTimer(2, t1)
           t3 == ClipTimer(3, t2)
<1>0. Step(tns) = t3 /\ t \in Nat
  BY DEF Step
<1> HIDE DEF t
<1>1. t0 \in Nat /\ t0 <= t /\ \A n \in MRs : Spares(t0, 0, n)
  BY <1>0, ClipTimerFacts
<1> HIDE DEF t0
<1>2. t1 \in Nat /\ t1 <= t0 /\ \A n \in MRs : Spares(t1, 1, n)
  BY <1>1, ClipTimerFacts
<1> HIDE DEF t1
<1>3. t2 \in Nat /\ t2 <= t1 /\ \A n \in MRs : Spares(t2, 2, n)
  BY <1>2, ClipTimerFacts
<1> HIDE DEF t2
<1>4. t3 \in Nat /\ t3 <= t2 /\ \A n \in MRs : Spares(t3, 3, n)
  BY <1>3, ClipTimerFacts
<1> HIDE DEF t3
<1>5. t3 <= t /\ t3 <= t0 /\ t3 <= t1
  BY <1>0, <1>1, <1>2, <1>3, <1>4
<1>6. \A n \in MRs : Spares(t3, 0, n) /\ Spares(t3, 1, n) /\ Spares(t3, 2, n) /\ Spares(t3, 3, n)
  BY <1>1, <1>2, <1>3, <1>4, <1>5, SparesShorter
<1>7. \A i \in Timers : i = 0 \/ i = 1 \/ i = 2 \/ i = 3
  BY MachineAssumption
<1> QED BY <1>0, <1>4, <1>5, <1>6, <1>7 DEF t

-----------------------------------------------------------------------------
(* The inductive invariant *)

\* The written bytes are one sequence of bytes for each UART.
History == written \in [Uarts -> Seq(Bytes)]

Inv == /\ Sound(uart, timer, vic)
       /\ pconp \subseteq PowerBits
       /\ uartcnt \in 0 .. UART_INT_CYCLE
       /\ guest \in Guests
       /\ History

\* The machine after reset.
LEMMA InitInv ==
  ASSUME Init
  PROVE  Inv
<1> USE DEF Init, MachineInit
<1>1. Sound(uart, timer, vic)
  <2> HIDE DEF Init, MachineInit
  <2>1. vic = VicReset /\ uart = [i \in Uarts |-> UartReset]
        /\ timer = [i \in Timers |-> TimerReset]
    BY DEF Init, MachineInit
  <2> QED BY <2>1, ResetTyped DEF Sound
<1>2. History
  BY EmptySeq DEF History
<1>3. uartcnt \in 0 .. UART_INT_CYCLE /\ pconp \subseteq PowerBits /\ guest \in Guests
  BY MachineAssumption
<1> QED BY <1>1, <1>2, <1>3 DEF Inv

-----------------------------------------------------------------------------
(* The steps *)

\* A step that writes no THR: the bytes in the transmitters stay in order, and
\* IER changes only to what a guest writes.
Moved(us, xs) == \A j \in Uarts : /\ Steady(us[j], xs[j])
                                  /\ xs[j].ier = us[j].ier \/ xs[j].ier \in IerData

\* A machine cycle.
LEMMA CycleStep ==
  ASSUME Inv, Cycle
  PROVE  /\ Sound(uart', timer', vic') /\ Moved(uart, uart')
         /\ uartcnt' \in 0 .. UART_INT_CYCLE /\ pconp' = pconp /\ written' = written
<1>1. PICK tns \in Tns, ok \in BOOLEAN : DoCycle(tns, ok) /\ written' = written
  BY DEF Cycle
<1> DEFINE t == Step(tns)
           tim == TimersCycle(t)
           ser == UartsCycle(tim.v, ok)
<1>2. /\ timer' = tim.timer /\ uart' = ser.uart /\ vic' = ser.v
      /\ uartcnt' = (IF uartcnt = 0 THEN UART_INT_CYCLE ELSE uartcnt - 1)
      /\ pconp' = pconp
  BY <1>1 DEF DoCycle
<1>3. Sound(uart, timer, vic) /\ uartcnt \in 0 .. UART_INT_CYCLE
  BY DEF Inv
<1>4. t \in Nat
  BY <1>3, StepFacts, MachineAssumption DEF Sound
<1> HIDE DEF t
<1>5. Sound(uart, tim.timer, tim.v)
  BY <1>3, <1>4, TimersCycleSound
<1> HIDE DEF tim
<1>6. Sound(ser.uart, tim.timer, ser.v) /\ AllSteady(uart, ser.uart)
  BY <1>5, UartsCycleSound
<1> HIDE DEF ser
<1>7. uartcnt' \in 0 .. UART_INT_CYCLE
  BY <1>2, <1>3, MachineAssumption
<1> QED BY <1>1, <1>2, <1>6, <1>7 DEF AllSteady, Moved

\* An access to UART i, given what it does to that UART.
LEMMA UartAccessStep ==
  ASSUME Sound(uart, timer, vic), NEW i \in Uarts, NEW r, UartAccess(i, r),
         Steady(uart[i], r.u), r.u.ier = uart[i].ier \/ r.u.ier \in IerData,
         Quiet(vic, r.v, IRQUART(i)), IRQUART(i) \in r.v.INTSOURCE => r.u.iir # NONE
  PROVE  /\ Sound(uart', timer', vic') /\ Moved(uart, uart')
         /\ uartcnt' = uartcnt /\ pconp' = pconp
<1>1. /\ uart' = [uart EXCEPT ![i] = r.u] /\ vic' = r.v /\ timer' = timer
      /\ uartcnt' = uartcnt /\ pconp' = pconp
  BY DEF UartAccess
<1>2. Sound([uart EXCEPT ![i] = r.u], timer, r.v)
  BY UartReplace DEF Steady
<1>3. uart'[i] = r.u /\ \A j \in Uarts : j # i => uart'[j] = uart[j]
  BY <1>1 DEF Sound
<1>4. \A j \in Uarts : Steady(uart[j], uart[j])
  BY DEF Steady, Sound
<1> QED BY <1>1, <1>2, <1>3, <1>4 DEF Moved

\* Every access to a UART but a write of THR.
LEMMA UartStep ==
  ASSUME Inv, NEW i \in Uarts,
         \/ GetRBR(i) \/ GetIIR(i) \/ GetMSR(i)
         \/ \E ok \in BOOLEAN : GetLSR(i, ok)
         \/ \E d \in IerData : PutIER(i, d)
         \/ \E d \in LcrData : PutLCR(i, d)
  PROVE  /\ Sound(uart', timer', vic') /\ Moved(uart, uart')
         /\ uartcnt' = uartcnt /\ pconp' = pconp
<1> DEFINE u == uart[i]
           q == IRQUART(i)
<1>1. /\ Sound(uart, timer, vic) /\ UartFine(u) /\ vic \in VicType /\ q \in Irqs
      /\ q \in vic.INTSOURCE => u.iir # NONE
  BY OwnLines DEF Inv, Sound
<1>2. ASSUME NEW r, UartAccess(i, r), UartEffect(u, vic, q, r)
      PROVE  /\ Sound(uart', timer', vic') /\ Moved(uart, uart')
             /\ uartcnt' = uartcnt /\ pconp' = pconp
  BY <1>1, <1>2, UartAccessStep DEF UartEffect
<1>3. CASE GetRBR(i) \/ GetIIR(i) \/ GetMSR(i)
  <2>1. /\ UartEffect(u, vic, q, ReadRbr(u, vic, q))
        /\ UartEffect(u, vic, q, ReadIir(u, vic, q))
        /\ UartEffect(u, vic, q, ReadMsr(u, vic, q))
    BY <1>1, ReadEffect
  <2> QED BY <1>2, <1>3, <2>1 DEF GetRBR, GetIIR, GetMSR
<1>4. CASE \E ok \in BOOLEAN : GetLSR(i, ok)
  <2>1. PICK ok \in BOOLEAN : GetLSR(i, ok)
    BY <1>4
  <2>2. UartEffect(u, vic, q, ReadLsr(u, vic, q, ok))
    BY <1>1, ReadEffect
  <2> QED BY <1>2, <2>1, <2>2 DEF GetLSR
<1>5. CASE \E d \in IerData : PutIER(i, d)
  <2>1. PICK d \in IerData : PutIER(i, d)
    BY <1>5
  <2> DEFINE w == WriteIer(u, d)
             r == Ports(w, vic)
  <2>2. Steady(u, w) /\ w.iir = u.iir /\ w.ier \in {d, u.ier}
    BY <1>1, WriteControl, AnyAssumption
  <2>3. UartAccess(i, r)
    BY <2>1 DEF PutIER
  <2> HIDE DEF w
  <2>4. r.u = w /\ r.v = vic
    BY DEF Ports
  <2> HIDE DEF r
  <2>5. /\ Steady(u, r.u) /\ (r.u.ier = u.ier \/ r.u.ier \in IerData)
        /\ Quiet(vic, r.v, q) /\ (q \in r.v.INTSOURCE => r.u.iir # NONE)
    BY <1>1, <2>2, <2>4 DEF Quiet
  <2> QED BY <1>1, <2>3, <2>5, UartAccessStep
<1>6. CASE \E d \in LcrData : PutLCR(i, d)
  <2>1. PICK d \in LcrData : PutLCR(i, d)
    BY <1>6
  <2> DEFINE w == WriteLcr(u, d)
             r == Ports(w, vic)
  <2>2. Steady(u, w) /\ w.iir = u.iir /\ w.ier = u.ier
    BY <1>1, WriteControl, AnyAssumption
  <2>3. UartAccess(i, r)
    BY <2>1 DEF PutLCR
  <2> HIDE DEF w
  <2>4. r.u = w /\ r.v = vic
    BY DEF Ports
  <2> HIDE DEF r
  <2>5. UartEffect(u, vic, q, r)
    BY <1>1, <2>2, <2>4 DEF UartEffect, Quiet
  <2> QED BY <1>2, <2>3, <2>5
<1> QED BY <1>3, <1>4, <1>5, <1>6

\* What TxConservation says of one UART, and what makes it inductive: with the
\* transmit interrupt off the transmitter is idle.
Carried(u, w) == Handed(u) = w /\ (TXIE \in u.ier \/ Idle(u))

\* A write of THR, in the machine and in the history.
LEMMA WriteTHRStep ==
  ASSUME Inv, NEW i \in Uarts, WriteTHR(i)
  PROVE  /\ Sound(uart', timer', vic')
         /\ uartcnt' = uartcnt /\ pconp' = pconp
         /\ History'
         /\ Carried(uart[i], written[i]) => Carried(uart'[i], written'[i])
         /\ \A j \in Uarts : j # i => uart'[j] = uart[j] /\ written'[j] = written[j]
<1> DEFINE u == uart[i]
           q == IRQUART(i)
           n == Len(written[i])
<1>1. /\ Sound(uart, timer, vic) /\ UartFine(u) /\ vic \in VicType /\ q \in Irqs
      /\ q \in vic.INTSOURCE => u.iir # NONE
      /\ uart \in [Uarts -> UartType] /\ written \in [Uarts -> Seq(Bytes)]
  BY OwnLines DEF Inv, Sound, History
<1>2. PICK ok \in BOOLEAN, c \in Bytes :
        /\ PutTHR(i, c, ok)
        /\ written' =
             CASE uart[i].dlab -> written
               [] ~uart[i].dlab /\ TXIE \notin uart[i].ier
                    -> IF ok THEN [written EXCEPT ![i] = Append(@, c)] ELSE written
               [] ~uart[i].dlab /\ TXIE \in uart[i].ier /\ THRE \in uart[i].lsr
                    -> [written EXCEPT ![i] = Append(@, c)]
               [] OTHER -> [written EXCEPT ![i][Len(written[i])] = c]
  BY DEF WriteTHR
<1> DEFINE r == WriteThr(u, vic, q, c, ok)
<1>3. UartAccess(i, r)
  BY <1>2 DEF PutTHR
<1>4. ThrEffect(u, vic, q, c, ok, r)
  BY <1>1, WriteThrEffect
<1> HIDE DEF r
<1>5. /\ uart' = [uart EXCEPT ![i] = r.u] /\ vic' = r.v /\ timer' = timer
      /\ uartcnt' = uartcnt /\ pconp' = pconp
  BY <1>3 DEF UartAccess
<1>6. Sound(uart', timer', vic')
  BY <1>1, <1>4, <1>5, UartReplace DEF ThrEffect
<1>7. uart'[i] = r.u /\ \A j \in Uarts : j # i => uart'[j] = uart[j]
  BY <1>1, <1>5
<1> DEFINE a == Append(written[i], c)
           e == [written[i] EXCEPT ![n] = c]
<1>8. written[i] \in Seq(Bytes) /\ a \in Seq(Bytes)
  BY <1>1, AppendProperties
<1>9. e \in Seq(Bytes)
  <2>1. n \in Nat /\ written[i] \in [1 .. n -> Bytes]
    BY <1>8, LenProperties
  <2>2. e \in [1 .. n -> Bytes]
    BY <2>1
  <2> QED BY <2>1, <2>2, SeqGiven
<1>10. CASE u.dlab
  <2>1. written' = written
    BY <1>2, <1>10
  <2> QED BY <1>1, <1>4, <1>5, <1>6, <1>7, <1>10, <2>1 DEF ThrEffect, History
<1>11. CASE ~u.dlab /\ TXIE \notin u.ier
  <2>1. written' = IF ok THEN [written EXCEPT ![i] = a] ELSE written
    BY <1>2, <1>11
  <2>2. /\ written' \in [Uarts -> Seq(Bytes)]
        /\ written'[i] = IF ok THEN a ELSE written[i]
        /\ \A j \in Uarts : j # i => written'[j] = written[j]
    BY <1>1, <1>8, <2>1
  <2>3. Carried(uart[i], written[i]) => Carried(uart'[i], written'[i])
    BY <1>4, <1>7, <1>11, <2>2 DEF ThrEffect, Carried
  <2> QED BY <1>5, <1>6, <1>7, <2>2, <2>3 DEF History
<1>12. CASE ~u.dlab /\ TXIE \in u.ier /\ THRE \in u.lsr
  <2>1. written' = [written EXCEPT ![i] = a]
    BY <1>2, <1>12
  <2>2. /\ written' \in [Uarts -> Seq(Bytes)] /\ written'[i] = a
        /\ \A j \in Uarts : j # i => written'[j] = written[j]
    BY <1>1, <1>8, <2>1
  <2>3. Carried(uart[i], written[i]) => Carried(uart'[i], written'[i])
    BY <1>4, <1>7, <1>12, <2>2 DEF ThrEffect, Carried
  <2> QED BY <1>5, <1>6, <1>7, <2>2, <2>3 DEF History
<1>13. CASE ~u.dlab /\ TXIE \in u.ier /\ THRE \notin u.lsr
  <2>1. written' = [written EXCEPT ![i] = e]
    BY <1>2, <1>13
  <2>2. /\ written' \in [Uarts -> Seq(Bytes)] /\ written'[i] = e
        /\ \A j \in Uarts : j # i => written'[j] = written[j]
    BY <1>1, <1>9, <2>1
  <2>3. Carried(uart[i], written[i]) => Carried(uart'[i], written'[i])
    BY <1>4, <1>7, <1>13, <2>2 DEF ThrEffect, Carried
  <2> QED BY <1>5, <1>6, <1>7, <2>2, <2>3 DEF History
<1> QED BY <1>1, <1>10, <1>11, <1>12, <1>13

\* Every access to a timer.
LEMMA TimerStep ==
  ASSUME Inv, NEW i \in Timers, TimerGuest(i)
  PROVE  /\ Sound(uart', timer', vic') /\ uart' = uart
         /\ uartcnt' = uartcnt /\ pconp' = pconp /\ written' = written
<1> DEFINE m == timer[i]
           q == IRQTIMER(i)
<1>1. /\ Sound(uart, timer, vic) /\ m \in TimerType /\ vic \in VicType /\ q \in Irqs
      /\ q \in vic.INTSOURCE => m.ir # {}
  BY OwnLines DEF Inv, Sound
<1>2. ASSUME NEW r, TimerAccess(i, r), TimerEffect(vic, q, r)
      PROVE  /\ Sound(uart', timer', vic') /\ uart' = uart
             /\ uartcnt' = uartcnt /\ pconp' = pconp
  <2>1. /\ timer' = [timer EXCEPT ![i] = r.m] /\ vic' = r.v /\ uart' = uart
        /\ uartcnt' = uartcnt /\ pconp' = pconp
    BY <1>2 DEF TimerAccess
  <2>2. Sound(uart, [timer EXCEPT ![i] = r.m], r.v)
    BY <1>1, <1>2, TimerReplace DEF TimerEffect
  <2> QED BY <2>1, <2>2
<1>3. ASSUME NEW x \in TimerType, x.ir = m.ir, PutTimer(i, x)
      PROVE  /\ Sound(uart', timer', vic') /\ uart' = uart
             /\ uartcnt' = uartcnt /\ pconp' = pconp
  <2>1. TimerAccess(i, Tick(x, vic))
    BY <1>3 DEF PutTimer
  <2>2. TimerEffect(vic, q, Tick(x, vic))
    BY <1>1, <1>3 DEF TimerEffect, Tick, Quiet
  <2> QED BY <1>2, <2>1, <2>2
<1>4. ASSUME NEW d, PutIR(i, d)
      PROVE  /\ Sound(uart', timer', vic') /\ uart' = uart
             /\ uartcnt' = uartcnt /\ pconp' = pconp
  BY <1>1, <1>2, <1>4, WriteIrEffect DEF PutIR
<1>5. /\ TcrData \subseteq SUBSET {ENABLE, RESET} /\ CountData \subseteq Words
      /\ McrData[i] \subseteq [MRs -> SUBSET {INTR, RESET, STOP}]
      /\ PreData[i] \subseteq Words /\ CtcrData[i] \subseteq BOOLEAN
  BY AnyAssumption
<1>6. \/ \E d : PutIR(i, d)
      \/ \E x \in TimerType : x.ir = m.ir /\ PutTimer(i, x)
  BY <1>1, <1>5, StoreTyped DEF TimerGuest
<1>7. written' = written
  BY DEF TimerGuest
<1> QED BY <1>3, <1>4, <1>6, <1>7

\* A change of the VIC that leaves the request lines alone or lowers some.
LEMMA SoundLower ==
  ASSUME NEW us, NEW ts, NEW v, Sound(us, ts, v), NEW w \in VicType,
         w.INTSOURCE \subseteq v.INTSOURCE
  PROVE  Sound(us, ts, w)
BY DEF Sound

\* A write of VICVectAddr, which may reset the IIR of UART0 or UART1 but then
\* lowers the line of that UART as well.
LEMMA PutVectAddrStep ==
  ASSUME Inv, PutVectAddr
  PROVE  /\ Sound(uart', timer', vic') /\ Moved(uart, uart')
         /\ uartcnt' = uartcnt /\ pconp' = pconp
<1> DEFINE w == VectAddrWrite(vic)
           G(i) == Retires(vic) /\ i < 2 /\ Retired(vic) = IRQUART(i)
           x == [i \in Uarts |-> IF G(i) THEN [uart[i] EXCEPT !.iir = NONE] ELSE uart[i]]
<1>1. vic' = w /\ uart' = x /\ timer' = timer /\ uartcnt' = uartcnt /\ pconp' = pconp
  BY DEF PutVectAddr
<1>2. Sound(uart, timer, vic) /\ vic \in VicType
  BY DEF Inv, Sound
<1>3. /\ w \in VicType /\ w.INTSOURCE \subseteq vic.INTSOURCE
      /\ Retires(vic) => Retired(vic) \notin w.INTSOURCE
  BY <1>2, EoiFacts
<1> HIDE DEF w
<1>4. Sound(uart, timer, w)
  BY <1>2, <1>3, SoundLower
<1>5. ASSUME NEW i \in Uarts
      PROVE  /\ Steady(uart[i], x[i]) /\ x[i].ier = uart[i].ier
             /\ IRQUART(i) \in w.INTSOURCE => x[i].iir # NONE
  <2> DEFINE y == [uart[i] EXCEPT !.iir = NONE]
  <2>1. UartFine(uart[i]) /\ (IRQUART(i) \in w.INTSOURCE => uart[i].iir # NONE)
    BY <1>4 DEF Sound
  <2>2. Steady(uart[i], y) /\ y.ier = uart[i].ier
    BY <2>1, SetIir
  <2>3. x[i] = IF G(i) THEN y ELSE uart[i]
    OBVIOUS
  <2>4. Steady(uart[i], uart[i])
    BY <2>1 DEF Steady
  <2> HIDE DEF y, x
  <2> QED BY <1>3, <2>1, <2>2, <2>3, <2>4
<1>6. DOMAIN x = Uarts
  OBVIOUS
<1> HIDE DEF x
<1>7. x \in [Uarts -> UartType]
  <2>1. \A i \in Uarts : x[i] \in UartType
    BY <1>5 DEF Steady, UartFine
  <2>2. x = [i \in Uarts |-> x[i]]
    BY DEF x
  <2> QED BY <2>1, <2>2
<1>8. Sound(x, timer, w)
  BY <1>4, <1>5, <1>7 DEF Sound, Steady
<1>9. Moved(uart, x)
  BY <1>5 DEF Moved
<1> QED BY <1>1, <1>8, <1>9

\* Every access to the VIC and to the power control.
LEMMA VicStep ==
  ASSUME Inv, VicGuest
  PROVE  /\ Sound(uart', timer', vic') /\ Moved(uart, uart')
         /\ uartcnt' = uartcnt /\ pconp' \subseteq PowerBits /\ written' = written
<1>1. /\ Sound(uart, timer, vic) /\ vic \in VicType /\ pconp \subseteq PowerBits
      /\ guest.enable \subseteq SUBSET Irqs /\ guest.power \subseteq SUBSET PowerBits
  BY AnyAssumption DEF Inv, Sound
<1>2. written' = written
  BY DEF VicGuest
<1>3. Moved(uart, uart)
  BY <1>1 DEF Moved, Steady, Sound
<1>4. ASSUME NEW w \in VicType, w.INTSOURCE = vic.INTSOURCE, VicAccess(w)
      PROVE  /\ Sound(uart', timer', vic') /\ Moved(uart, uart')
             /\ uartcnt' = uartcnt /\ pconp' \subseteq PowerBits
  <2>1. vic' = w /\ uart' = uart /\ timer' = timer /\ pconp' = pconp /\ uartcnt' = uartcnt
    BY <1>4 DEF VicAccess
  <2>2. Sound(uart, timer, w)
    BY <1>1, <1>4, SoundLower
  <2> QED BY <1>1, <1>3, <2>1, <2>2
<1>5. ASSUME NEW d \in SUBSET Irqs
      PROVE  /\ IntEnableWrite(vic, d) \in VicType
             /\ IntEnableWrite(vic, d).INTSOURCE = vic.INTSOURCE
             /\ IntEnClrWrite(vic, d) \in VicType
             /\ IntEnClrWrite(vic, d).INTSOURCE = vic.INTSOURCE
  <2> DEFINE x == [vic EXCEPT !.IntEnable = @ \cup d]
  <2>1. x \in VicType /\ x.INTSOURCE = vic.INTSOURCE
    BY <1>1 DEF VicType
  <2> HIDE DEF x
  <2>2. UpdateInt(x) \in VicType /\ UpdateInt(x).INTSOURCE = x.INTSOURCE
    BY <2>1, UpdateFields
  <2>3. IntEnClrWrite(vic, d) \in VicType /\ IntEnClrWrite(vic, d).INTSOURCE = vic.INTSOURCE
    BY <1>1 DEF IntEnClrWrite, VicType
  <2> QED BY <2>1, <2>2, <2>3 DEF IntEnableWrite, x
<1>6. UpdateInt(vic) \in VicType /\ UpdateInt(vic).INTSOURCE = vic.INTSOURCE
  BY <1>1, UpdateFields
<1>7. CASE \E d \in guest.enable : \/ VicAccess(IntEnableWrite(vic, d))
                                  \/ VicAccess(IntEnClrWrite(vic, d))
  <2>1. PICK d \in guest.enable : \/ VicAccess(IntEnableWrite(vic, d))
                                 \/ VicAccess(IntEnClrWrite(vic, d))
    BY <1>7
  <2>2. d \in SUBSET Irqs
    BY <1>1
  <2> QED BY <1>2, <1>4, <1>5, <2>1, <2>2
<1>8. CASE VicAccess(UpdateInt(vic))
  BY <1>2, <1>4, <1>6, <1>8
<1>9. CASE PutVectAddr
  BY <1>1, <1>2, <1>9, PutVectAddrStep
<1>10. CASE \E d \in guest.power : PutPCONP(d)
  BY <1>1, <1>2, <1>3, <1>10 DEF PutPCONP
<1> QED BY <1>7, <1>8, <1>9, <1>10 DEF VicGuest

\* Every step: it writes the THR of one UART, or it moves no byte out of order.
LEMMA AnyStep ==
  ASSUME Inv, [Next]_vars
  PROVE  /\ Inv'
         /\ \/ Moved(uart, uart') /\ written' = written
            \/ \E i \in Uarts : WriteTHR(i)
<1>1. CASE Next
  <2>1. guest' = guest /\ guest \in Guests /\ guest.uarts \subseteq Uarts
        /\ guest.timers \subseteq Timers /\ pconp \subseteq PowerBits
        /\ uartcnt \in 0 .. UART_INT_CYCLE /\ History
    BY <1>1, AnyAssumption DEF Inv, Next
  <2>2. \/ Cycle
        \/ \E i \in Uarts : UartGuest(i)
        \/ \E i \in Timers : TimerGuest(i)
        \/ VicGuest
    BY <1>1, <2>1 DEF Next
  <2>3. CASE Cycle
    BY <2>1, <2>3, CycleStep DEF Inv, History
  <2>4. CASE \E i \in Uarts : UartGuest(i)
    <3>1. PICK i \in Uarts : UartGuest(i)
      BY <2>4
    <3>2. CASE WriteTHR(i)
      BY <2>1, <3>2, WriteTHRStep DEF Inv
    <3>3. CASE ~WriteTHR(i)
      <4>1. /\ \/ GetRBR(i) \/ GetIIR(i) \/ GetMSR(i)
               \/ \E ok \in BOOLEAN : GetLSR(i, ok)
               \/ \E d \in IerData : PutIER(i, d)
               \/ \E d \in LcrData : PutLCR(i, d)
            /\ written' = written
        BY <3>1, <3>3 DEF UartGuest
      <4>2. /\ Sound(uart', timer', vic') /\ Moved(uart, uart')
            /\ uartcnt' = uartcnt /\ pconp' = pconp
        BY <4>1, UartStep
      <4> QED BY <2>1, <4>1, <4>2 DEF Inv, History
    <3> QED BY <3>2, <3>3
  <2>5. CASE \E i \in Timers : TimerGuest(i)
    <3>1. PICK i \in Timers : TimerGuest(i)
      BY <2>5
    <3>2. /\ Sound(uart', timer', vic') /\ uart' = uart
          /\ uartcnt' = uartcnt /\ pconp' = pconp /\ written' = written
      BY <3>1, TimerStep
    <3>3. Moved(uart, uart)
      BY DEF Inv, Sound, Moved, Steady
    <3> QED BY <2>1, <3>2, <3>3 DEF Inv, History
  <2>6. CASE VicGuest
    BY <2>1, <2>6, VicStep DEF Inv, History
  <2> QED BY <2>2, <2>3, <2>4, <2>5, <2>6
<1>2. CASE UNCHANGED vars
  <2>1. /\ uart' = uart /\ timer' = timer /\ vic' = vic /\ pconp' = pconp
        /\ uartcnt' = uartcnt /\ guest' = guest /\ written' = written
    BY <1>2 DEF vars, machine
  <2>2. Moved(uart, uart)
    BY DEF Inv, Sound, Moved, Steady
  <2> QED BY <2>1, <2>2 DEF Inv, History
<1> QED BY <1>1, <1>2

-----------------------------------------------------------------------------
(* The theorems *)

\* The inductive invariant holds in every reachable state.
LEMMA InvHolds ==
  Spec => []Inv
<1>1. Init => Inv
  BY InitInv
<1>2. Inv /\ [Next]_vars => Inv'
  BY AnyStep
<1> QED BY <1>1, <1>2, PTL DEF Spec

\* Every register of lpc2300_io_t keeps its range, whatever the guest writes and
\* whenever the machine cycles.
THEOREM TypeCorrect ==
  Spec => []TypeOK
<1>1. Inv => TypeOK
  BY DEF Inv, Sound, TypeOK, MachineType, History
<1> QED BY <1>1, InvHolds, PTL

\* A request line of a device is raised only while IIR or IR of that device
\* says why: every handler of lpc2300_uart_* and lpc2300_timer_*, and the switch
\* of VICVectAddr, clears the two in an order that keeps this.
THEOREM LineHasCauseCorrect ==
  Spec => []LineHasCause
<1>1. Inv => LineHasCause
  BY DEF Inv, Sound, LineHasCause
<1> QED BY <1>1, InvHolds, PTL

\* A guest that turns the transmit interrupt on before it first writes THR and
\* keeps it on loses no byte, and every byte reaches the host in the order
\* written, for every FIFO size and any host.
THEOREM TxConservationCorrect ==
  ASSUME \A d \in IerData : TXIE \in d
  PROVE  Spec => []TxConservation
<1> DEFINE Carry == \A i \in Uarts : Carried(uart[i], written[i])
<1>1. Init => Carry
  <2> SUFFICES ASSUME Init PROVE Carry
    OBVIOUS
  <2>1. uart = [i \in Uarts |-> UartReset] /\ written = [i \in Uarts |-> <<>>]
    BY DEF Init, MachineInit
  <2>2. \A i \in Uarts : UartFine(uart[i])
    BY InitInv DEF Inv, Sound
  <2>3. Idle(UartReset) /\ UartReset.sent = <<>>
    BY DEF UartReset, Idle
  <2> QED BY <2>1, <2>2, <2>3, HandedSeq DEF Carried
<1>2. Inv /\ Carry /\ [Next]_vars => Carry'
  <2> SUFFICES ASSUME Inv, Carry, [Next]_vars, NEW j \in Uarts
               PROVE  Carried(uart'[j], written'[j])
    OBVIOUS
  <2>1. CASE Moved(uart, uart') /\ written' = written
    <3>1. /\ Steady(uart[j], uart'[j]) /\ Carried(uart[j], written[j])
          /\ uart'[j].ier = uart[j].ier \/ uart'[j].ier \in IerData
      BY <2>1 DEF Moved
    <3> QED BY <2>1, <3>1 DEF Carried, Steady
  <2>2. CASE \E i \in Uarts : WriteTHR(i)
    <3>1. PICK i \in Uarts : WriteTHR(i)
      BY <2>2
    <3> QED BY <3>1, WriteTHRStep
  <2> QED BY <2>1, <2>2, AnyStep
<1>3. Carry => TxConservation
  BY DEF Carried, TxConservation, Handed, Held
<1> QED BY <1>1, <1>2, <1>3, InvHolds, PTL DEF Spec

\* Timer acceleration passes over no match: the common step of the timers never
\* exceeds the distance of an enabled match register ahead, for every word size
\* and any host time.
THEOREM StepStopsCorrect ==
  Spec => []StepStopsAtMatch
<1>1. Inv => StepStopsAtMatch
  <2> SUFFICES ASSUME Inv, NEW tns \in Tns, NEW i \in Timers, NEW n \in MRs,
                      PCTIM(i) \in pconp, timer[i].mcr[n] # {}, Ahead(timer[i], n) > 0
               PROVE  Step(tns) <= Ahead(timer[i], n)
    BY DEF StepStopsAtMatch, Ahead
  <2>1. timer \in [Timers -> TimerType] /\ tns \in Nat
    BY MachineAssumption DEF Inv, Sound
  <2> QED BY <2>1, StepFacts DEF Spares
<1> QED BY <1>1, InvHolds, PTL
=============================================================================
