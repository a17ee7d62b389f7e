------------------------------- MODULE Lpc2300 ------------------------------
(***************************************************************************)
(* The LPC2300 machine: VIC, UARTs, timers and peripheral power control    *)
(* composed by lpc2300_io_do_cycle, and the register accesses a guest can  *)
(* make through lpc2300_io_read_word and lpc2300_io_write_word.  The       *)
(* simulator is one thread: io_do_cycle runs between two instructions, so  *)
(* a cycle and a register access are each one step.  Which steps happen is *)
(* left to the modules that extend this one.                               *)
(***************************************************************************)
EXTENDS Uart, Timer

CONSTANTS Uarts, Timers,     \* devices of the instance (code: 0..3 each)
          UART_INT_CYCLE,    \* length of the UART schedule (code: 128)
          Tns                \* host time per cycle in units of 64 ns: {0} is
                             \* the build without timer acceleration

VARIABLES vic, uart, timer, pconp, uartcnt

machine == <<vic, uart, timer, pconp, uartcnt>>

IRQTIMER(i) == IF i < 2 THEN i + 4 ELSE i + 24
IRQUART(i)  == IF i < 2 THEN i + 6 ELSE i + 26

\* PCONP bits of the devices.
PCTIM(i)  == IF i < 2 THEN i + 1 ELSE i + 20
PCUART(i) == IF i < 2 THEN i + 3 ELSE i + 22

PowerBits == {PCTIM(i) : i \in Timers} \cup {PCUART(i) : i \in Uarts}

ASSUME MachineAssumption ==
  /\ Uarts \subseteq 0 .. 3 /\ Timers \subseteq 0 .. 3
  /\ {IRQUART(i) : i \in Uarts} \cup {IRQTIMER(i) : i \in Timers} \subseteq Irqs
  /\ UART_INT_CYCLE \in Nat /\ \A i \in Uarts : i < UART_INT_CYCLE \div 2
  /\ Tns \subseteq Nat

\* lpc2300_io_reset; 0x850ffe powers every UART and timer but TIMER2, UART2/3.
MachineInit ==
  /\ vic = VicReset
  /\ uart = [i \in Uarts |-> UartReset]
  /\ timer = [i \in Timers |-> TimerReset]
  /\ pconp = PowerBits \cap ((1 .. 11) \cup {16, 18, 23})
  /\ uartcnt = UART_INT_CYCLE

MachineType ==
  /\ vic \in VicType
  /\ uart \in [Uarts -> UartType]
  /\ timer \in [Timers -> TimerType]
  /\ pconp \subseteq PowerBits
  /\ uartcnt \in 0 .. UART_INT_CYCLE

-----------------------------------------------------------------------------
(* lpc2300_io_do_cycle *)

\* Seeded fault: only the first match register of the first timer is examined.
StepFirstOnly(tns) ==
  IF 0 \in Timers /\ 0 \in MRs THEN ClipStep(timer[0], 0, 1 + tns) ELSE 1 + tns

\* The passes of the two loops over match registers and timers; only powered
\* timers take part.
ClipMatch(i, n, t) ==
  IF i \in Timers /\ n \in MRs /\ PCTIM(i) \in pconp THEN ClipStep(timer[i], n, t) ELSE t

ClipTimer(i, t) == ClipMatch(i, 3, ClipMatch(i, 2, ClipMatch(i, 1, ClipMatch(i, 0, t))))

\* The step t of every TC: 1 + tns, clipped by the powered timers in order.
Step(tns) == ClipTimer(3, ClipTimer(2, ClipTimer(1, ClipTimer(0, 1 + tns))))

\* The pass of the loop over the timers for timer i: timer records and VIC.
TimerPass(s, i, t) ==
  IF i \in Timers /\ PCTIM(i) \in pconp
    THEN LET r == TimerCycle(s.timer[i], s.v, IRQTIMER(i), t)
         IN  [timer |-> [s.timer EXCEPT ![i] = r.m], v |-> r.v]
    ELSE s

TimersCycle(t) ==
  LET s0 == TimerPass([timer |-> timer, v |-> vic], 0, t)
      s1 == TimerPass(s0, 1, t)
      s2 == TimerPass(s1, 2, t)
  IN  TimerPass(s2, 3, t)

\* The pass for UART i.  At most one of them stands at one of its positions
\* (MachineAssumption), so one answer ok of the host is all a cycle can need.
UartPass(s, i, ok) ==
  IF i \in Uarts /\ PCUART(i) \in pconp
    THEN LET r == UartCycle(s.uart[i], s.v, IRQUART(i), uartcnt = i,
                            uartcnt = i + UART_INT_CYCLE \div 2, ok)
         IN  [uart |-> [s.uart EXCEPT ![i] = r.u], v |-> r.v]
    ELSE s

UartsCycle(v0, ok) ==
  LET s0 == UartPass([uart |-> uart, v |-> v0], 0, ok)
      s1 == UartPass(s0, 1, ok)
      s2 == UartPass(s1, 2, ok)
  IN  UartPass(s2, 3, ok)

DoCycle(tns, ok) ==
  /\ \E tim \in {TimersCycle(Step(tns))} :
       \E ser \in {UartsCycle(tim.v, ok)} :
         timer' = tim.timer /\ uart' = ser.uart /\ vic' = ser.v
  /\ uartcnt' = IF uartcnt = 0 THEN UART_INT_CYCLE ELSE uartcnt - 1
  /\ UNCHANGED pconp

-----------------------------------------------------------------------------
(* Register accesses of the guest *)

VicAccess(v) == vic' = v /\ UNCHANGED <<uart, timer, pconp, uartcnt>>

\* The effect r of an access to UART i.
UartAccess(i, r) ==
  /\ uart' = [uart EXCEPT ![i] = r.u]
  /\ vic' = r.v
  /\ UNCHANGED <<timer, pconp, uartcnt>>

GetRBR(i)     == UartAccess(i, ReadRbr(uart[i], vic, IRQUART(i)))
GetIIR(i)     == UartAccess(i, ReadIir(uart[i], vic, IRQUART(i)))
GetLSR(i, ok) == UartAccess(i, ReadLsr(uart[i], vic, IRQUART(i), ok))
GetMSR(i)     == UartAccess(i, ReadMsr(uart[i], vic, IRQUART(i)))
PutTHR(i, c, ok) == UartAccess(i, WriteThr(uart[i], vic, IRQUART(i), c, ok))
PutIER(i, d)  == UartAccess(i, Ports(WriteIer(uart[i], d), vic))
PutLCR(i, d)  == UartAccess(i, Ports(WriteLcr(uart[i], d), vic))

TimerAccess(i, r) ==
  /\ timer' = [timer EXCEPT ![i] = r.m]
  /\ vic' = r.v
  /\ UNCHANGED <<uart, pconp, uartcnt>>

PutIR(i, d)   == TimerAccess(i, WriteIr(timer[i], vic, IRQTIMER(i), d))
PutTimer(i, m) == TimerAccess(i, Tick(m, vic))    \* the registers with plain stores

PutPCONP(d) == pconp' = d /\ UNCHANGED <<vic, uart, timer, uartcnt>>

\* Write of VICVectAddr: retiring the request of UART0 or UART1 also resets its
\* IIR; UART2 and UART3 are not in that switch.
PutVectAddr ==
  /\ vic' = VectAddrWrite(vic)
  /\ uart' = [i \in Uarts |->
               IF Retires(vic) /\ i < 2 /\ Retired(vic) = IRQUART(i)
                 THEN [uart[i] EXCEPT !.iir = NONE] ELSE uart[i]]
  /\ UNCHANGED <<timer, pconp, uartcnt>>
=============================================================================
