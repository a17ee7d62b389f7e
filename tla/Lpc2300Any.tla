----------------------------- MODULE Lpc2300Any -----------------------------
(***************************************************************************)
(* The LPC2300 machine under a guest that accesses the device registers in *)
(* any order, interleaved with machine cycles in any way.                  *)
(***************************************************************************)
EXTENDS Lpc2300

CONSTANTS IerData,          \* values a guest writes to IER
          LcrData,          \* values of the DLAB bit a guest writes
          TcrData,          \* values a guest writes to TCR
          McrData,          \* values a guest writes to MCR of each timer
          CountData,        \* values a guest writes to MR and TC
          PreData,          \* values a guest writes to PR and PC of each timer
          CtcrData,         \* values a guest writes to CTCR of each timer: TRUE is
                            \* counter mode
          MaxIn,            \* bound: bytes the host sends to a UART
          Guests            \* the guests: the devices each of them uses, and what it
                            \* writes to VICIntEnable(Clear) and to PCONP

ASSUME AnyAssumption == /\ IerData \subseteq SUBSET {RXIE, TXIE}
                        /\ LcrData \subseteq BOOLEAN
                        /\ TcrData \subseteq SUBSET {ENABLE, RESET}
                        /\ McrData \in [Timers -> SUBSET [MRs -> SUBSET {INTR, RESET, STOP}]]
                        /\ CountData \subseteq Words
                        /\ PreData \in [Timers -> SUBSET Words]
                        /\ CtcrData \in [Timers -> SUBSET BOOLEAN]
                        /\ MaxIn \in Nat
                        /\ Guests \subseteq [uarts : SUBSET Uarts, timers : SUBSET Timers,
                                            enable : SUBSET SUBSET Irqs,
                                            power : SUBSET SUBSET PowerBits]

VARIABLES
  guest,             \* the guest that runs, one of Guests
  written            \* history: bytes handed to each UART's transmitter, less
                     \* those a later THR write replaced before they moved on

vars == <<machine, guest, written>>

Init == MachineInit /\ guest \in Guests /\ written = [i \in Uarts |-> <<>>]

-----------------------------------------------------------------------------
(* The environment and the guest *)

HostHas(i) == uart[i].given < MaxIn

\* ok may be TRUE only if the host still has a byte wherever one may be read.
Cycle == \E tns \in Tns, ok \in BOOLEAN :
           /\ ok => \A i \in Uarts : uartcnt = i => HostHas(i)
           /\ DoCycle(tns, ok)
           /\ UNCHANGED written

\* Bytes are numbered in the order the guest writes them.
WriteTHR(i) == \E ok \in BOOLEAN, c \in Bytes :
  /\ c = (IF written[i] = <<>> THEN 1 ELSE written[i][Len(written[i])] + 1)
  /\ PutTHR(i, c, ok)
  /\ written' =
       CASE uart[i].dlab -> written
         [] ~uart[i].dlab /\ TXIE \notin uart[i].ier
              -> IF ok THEN [written EXCEPT ![i] = Append(@, c)] ELSE written
         [] ~uart[i].dlab /\ TXIE \in uart[i].ier /\ THRE \in uart[i].lsr
              -> [written EXCEPT ![i] = Append(@, c)]
         [] OTHER -> [written EXCEPT ![i][Len(written[i])] = c]

UartGuest(i) ==
  \/ WriteTHR(i)
  \/ /\ \/ GetRBR(i) \/ GetIIR(i) \/ GetMSR(i)
        \/ \E ok \in BOOLEAN : (ok => HostHas(i)) /\ GetLSR(i, ok)
        \/ \E d \in IerData : PutIER(i, d)
        \/ \E d \in LcrData : PutLCR(i, d)
     /\ UNCHANGED written

TimerGuest(i) ==
  /\ \/ \E d \in SUBSET MRs : PutIR(i, d)
     \/ \E d \in TcrData : PutTimer(i, WriteTcr(timer[i], d))
     \/ \E d \in McrData[i] : PutTimer(i, WriteMcr(timer[i], d))
     \/ \E d \in CtcrData[i] : PutTimer(i, WriteCtcr(timer[i], d))
     \/ \E d \in CountData :
          \/ PutTimer(i, WriteTc(timer[i], d))
          \/ \E n \in MRs : PutTimer(i, WriteMr(timer[i], n, d))
     \/ \E d \in PreData[i] :
          \/ PutTimer(i, WritePr(timer[i], d))
          \/ PutTimer(i, WritePc(timer[i], d))
  /\ UNCHANGED written

VicGuest ==
  /\ \/ \E d \in guest.enable : \/ VicAccess(IntEnableWrite(vic, d))
                                \/ VicAccess(IntEnClrWrite(vic, d))
     \/ VicAccess(UpdateInt(vic))
     \/ PutVectAddr
     \/ \E d \in guest.power : PutPCONP(d)
  /\ UNCHANGED written

Next == /\ \/ Cycle
           \/ \E i \in guest.uarts : UartGuest(i)
           \/ \E i \in guest.timers : TimerGuest(i)
           \/ VicGuest
        /\ UNCHANGED guest

Spec == Init /\ [][Next]_vars

-----------------------------------------------------------------------------
(* Properties *)

\* Every register of lpc2300_io_t keeps its range.
TypeOK == MachineType /\ written \in [Uarts -> Seq(Bytes)]

\* A request line of a device is raised only while the device's own cause
\* register still says why: IIR of a UART, IR of a timer.  No access order and
\* no end of interrupt leaves a line up that no device access can clear.
LineHasCause ==
  /\ \A i \in Uarts : IRQUART(i) \in vic.INTSOURCE => uart[i].iir # NONE
  /\ \A i \in Timers : IRQTIMER(i) \in vic.INTSOURCE => timer[i].ir # {}

\* While the guest keeps the transmit interrupt on, the bytes the host took,
\* then the FIFO's, then THR's, are exactly the bytes written, in order: no
\* byte is lost, repeated or reordered by the ring arithmetic, by a host that
\* refuses bytes, or by the interrupt handshake.
TxConservation ==
  \A i \in Uarts :
    uart[i].sent \o Contents(uart[i])
       \o (IF THRE \in uart[i].lsr THEN <<>> ELSE <<uart[i].thr>>) = written[i]

\* Timer acceleration passes over no match ("adjust TC step in order to match
\* MRn"): whatever the host time, the common TC step never exceeds the distance
\* of an enabled match register that lies ahead on any powered timer.
StepStopsAtMatch ==
  \A tns \in Tns, i \in Timers, n \in MRs :
    LET ahead == (timer[i].mr[n] - timer[i].tc) % Word
    IN  PCTIM(i) \in pconp /\ timer[i].mcr[n] # {} /\ ahead > 0 => Step(tns) <= ahead

\* The acceleration only speeds the timers up ("speed up TC step"): a cycle
\* never has a TC step of less than 1.
StepAdvances == \A tns \in Tns : Step(tns) >= 1
=============================================================================
