------------------------------ MODULE Firmware ------------------------------
(***************************************************************************)
(* Interrupt-driven guest firmware on the LPC2300 machine: a UART driver   *)
(* and a periodic timer, dispatched through the VIC vector register.  The  *)
(* firmware is external to the simulator; it has the structure of the      *)
(* interrupt-driven UART sample that the repository's README names.        *)
(*                                                                         *)
(* Each register access of the firmware is one step, and machine cycles    *)
(* may happen between any two of them.  Handlers run with IRQs disabled in *)
(* the CPU, so they do not nest.                                           *)
(***************************************************************************)
EXTENDS Lpc2300

CONSTANTS EoiFirst,   \* TRUE: a handler writes VICVectAddr before it serves its
                      \* device; FALSE: as its last access
          Level,      \* VectPrio of each request
          Period,     \* MR0 of each timer
          MaxIn,      \* bound: bytes the host sends to each UART
          Boots       \* the set-ups the boot code may choose from: the timers it
                      \* starts and the bytes it has to send on each UART

ASSUME FirmwareAssumption ==
  /\ EoiFirst \in BOOLEAN
  /\ Level \in [Irqs -> Prios]
  /\ Period \in Words \ {0} /\ 0 \in MRs
  /\ MaxIn \in Nat
  /\ Boots \subseteq [timers : SUBSET Timers, out : {0} \cup Bytes]
  /\ \A b \in Boots : 1 .. b.out \subseteq Bytes
  /\ Irqs \subseteq Addrs

VARIABLES boot,     \* the set-up chosen at boot
          cpu,      \* what the firmware does next
          isr,      \* the vector its current handler was entered through
          cause,    \* the IIR value a UART handler has read
          got,      \* bytes read from each UART's RBR
          next,     \* the next byte to send on each UART
          busy      \* a byte is on its way out of each UART

firmware == <<boot, cpu, isr, cause, got, next, busy>>

vars == <<machine, firmware>>

\* The state after the boot code: power on, priorities and vectors written,
\* device interrupts on, the chosen timers running.  Nothing happens in the machine's
\* cycles before the last write, so any position of uartcnt is possible.
Init ==
  /\ boot \in Boots
  /\ vic = IntEnableWrite([VicReset EXCEPT !.VectPrio = Level,
                                           !.VectAddr = [q \in Irqs |-> q]], Irqs)
  /\ uart = [i \in Uarts |-> WriteIer(UartReset, {RXIE, TXIE})]
  /\ timer = [i \in Timers |->
               WriteTcr([TimerReset EXCEPT !.mr[0] = Period,
                                           !.mcr[0] = {INTR, RESET}],
                        IF i \in boot.timers THEN {ENABLE} ELSE {})]
  /\ pconp = PowerBits
  /\ uartcnt \in 0 .. UART_INT_CYCLE
  /\ cpu = "main" /\ isr = NoAddr /\ cause = NONE
  /\ got = [i \in Uarts |-> <<>>]
  /\ next = [i \in Uarts |-> 1]
  /\ busy = [i \in Uarts |-> FALSE]

HostHas(i) == uart[i].given < MaxIn

\* The CPU samples its interrupt inputs before each io_do_cycle: with IRQs
\* enabled, a raised request is taken before the next cycle.
Cycle(ok) == \E tns \in Tns :
  /\ cpu = "main" => vic.NirqSig = HIGH
  /\ ok => \A i \in Uarts : uartcnt = i => HostHas(i)
  /\ DoCycle(tns, ok)
  /\ UNCHANGED firmware

-----------------------------------------------------------------------------
(* The firmware *)

\* First access of the handler's own work, and what follows its last one.
Work(q) == IF \E i \in Uarts : q = IRQUART(i) THEN "iir" ELSE "ir"
Finish  == IF EoiFirst THEN "main" ELSE "eoi"

\* The bytes the firmware has to send.
Out == 1 .. boot.out

SendByte(i) ==
  /\ PutTHR(i, next[i], FALSE)
  /\ next' = [next EXCEPT ![i] = @ + 1]

\* The main program starts a transmission.
StartSend(i) ==
  /\ cpu = "main" /\ ~busy[i] /\ next[i] \in Out
  /\ SendByte(i)
  /\ busy' = [busy EXCEPT ![i] = TRUE]
  /\ UNCHANGED <<boot, cpu, isr, cause, got>>

\* The CPU takes an IRQ exception, and then reads VICVectAddr.
TakeIrq ==
  /\ cpu = "main" /\ vic.NirqSig = LOW
  /\ cpu' = "irq"
  /\ UNCHANGED <<machine, boot, isr, cause, got, next, busy>>

ReadVector ==
  /\ cpu = "irq"
  /\ isr' = vic.Vect_Addr
  /\ cpu' = IF EoiFirst THEN "eoi" ELSE Work(vic.Vect_Addr)
  /\ UNCHANGED <<machine, boot, cause, got, next, busy>>

Eoi ==
  /\ cpu = "eoi"
  /\ PutVectAddr
  /\ cpu' = IF EoiFirst THEN Work(isr) ELSE "main"
  /\ UNCHANGED <<boot, isr, cause, got, next, busy>>

ServeTimer(i) ==
  /\ cpu = "ir" /\ isr = IRQTIMER(i)
  /\ PutIR(i, {0})
  /\ cpu' = Finish
  /\ UNCHANGED <<boot, isr, cause, got, next, busy>>

IdentifyUart(i) ==
  /\ cpu = "iir" /\ isr = IRQUART(i)
  /\ GetIIR(i)
  /\ cause' = uart[i].iir
  /\ cpu' = IF uart[i].iir = NONE THEN Finish ELSE "data"
  /\ UNCHANGED <<boot, isr, got, next, busy>>

ReceiveByte(i) ==
  /\ cpu = "data" /\ isr = IRQUART(i) /\ cause = RDA
  /\ GetRBR(i)
  /\ got' = [got EXCEPT ![i] = Append(@, uart[i].rbr)]
  /\ cpu' = Finish
  /\ UNCHANGED <<boot, isr, cause, next, busy>>

\* The last byte has left: send the next one or stop.
ContinueSend(i) ==
  /\ cpu = "data" /\ isr = IRQUART(i) /\ cause = THRI
  /\ IF next[i] \in Out
       THEN SendByte(i) /\ UNCHANGED busy
       ELSE /\ busy' = [busy EXCEPT ![i] = FALSE]
            /\ UNCHANGED <<machine, next>>
  /\ cpu' = Finish
  /\ UNCHANGED <<boot, isr, cause, got>>

Guest == \/ TakeIrq \/ ReadVector \/ Eoi
         \/ \E i \in Timers : ServeTimer(i)
         \/ \E i \in Uarts : StartSend(i) \/ IdentifyUart(i) \/ ReceiveByte(i)
                             \/ ContinueSend(i)

Next == Guest \/ \E ok \in BOOLEAN : Cycle(ok)

\* The CPU and the machine both keep running, and the host keeps accepting and
\* delivering: a UART that comes to its position again and again is not
\* refused every time.
Fairness ==
  /\ WF_vars(Guest)
  /\ WF_vars(\E ok \in BOOLEAN : Cycle(ok))
  /\ \A i \in Uarts : /\ SF_vars(uartcnt = i /\ Cycle(TRUE))
                      /\ SF_vars(uartcnt = i + UART_INT_CYCLE \div 2 /\ Cycle(TRUE))

Spec == Init /\ [][Next]_vars /\ Fairness

-----------------------------------------------------------------------------
(* Properties *)

UpTo(k) == [j \in 1 .. k |-> j]

\* What the firmware has read from RBR is exactly what the host sent, in order:
\* no received byte is overwritten before it is read and none is read twice.
RxInOrder == \A i \in Uarts : got[i] = UpTo(Len(got[i]))

\* What the host accepted is exactly what the firmware sent, in order.
TxInOrder == \A i \in Uarts : uart[i].sent = UpTo(Len(uart[i].sent))

\* When a handler writes VICVectAddr, the request the VIC retires ("Clear the
\* corresponding IRQ") is the one the handler was entered for.
EoiRetiresOwnRequest ==
  cpu = "eoi" /\ Retires(vic) => Retired(vic) = isr

\* Every byte the host sends reaches the firmware: no interleaving of cycles and
\* handlers leaves the receive interrupt blocked.
AllReceived == <>(\A i \in Uarts : got[i] = UpTo(MaxIn))

\* Every byte the firmware has to send reaches the host: no transmit interrupt
\* is lost for good.
AllSent == <>(\A i \in Uarts : uart[i].sent = UpTo(boot.out))

\* A timer's match interrupt is always served: the flag set in IR is cleared by
\* the timer's handler sooner or later.
TimerServed == \A i \in Timers : timer[i].ir # {} ~> timer[i].ir = {}
=============================================================================
