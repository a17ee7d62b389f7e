-------------------------------- MODULE Uart --------------------------------
(***************************************************************************)
(* One UART of the LPC2300 machine: lpc2300_uart_t, its part of            *)
(* lpc2300_io_do_cycle, lpc2300_uart_transmit, lpc2300_uart_read and       *)
(* lpc2300_uart_write.  An operator takes the UART's record u, the VIC's   *)
(* record v and the UART's request number q, and returns both records.     *)
(*                                                                         *)
(* Bytes received are numbered in the order the host sends them.  The      *)
(* fields given and sent are the host's side of the port (skyeye_uart_read *)
(* and skyeye_uart_write): how many bytes the host has handed over, and    *)
(* what it has accepted.  Whether a call succeeds is the host's choice ok. *)
(***************************************************************************)
EXTENDS Vic, TxFifo

CONSTANT Bytes             \* what a guest may write to THR

ASSUME ByteAssumption == Bytes \subseteq Nat

\* IIR[3:0]: 0001 no interrupt, 0010 THR empty, 0100 receive data available.
NONE == "none"
THRI == "thr"
RDA  == "rda"

DR   == "DR"               \* LSR bit 0: receiver data ready
THRE == "THRE"             \* LSR bit 5: THR empty
TEMT == "TEMT"             \* LSR bit 6: transmitter empty

RXIE == "RXIE"             \* IER bit 0
TXIE == "TXIE"             \* IER bit 1

UartType ==
  [rbr : Nat, thr : Bytes \cup {0}, ier : SUBSET {RXIE, TXIE}, iir : {NONE, THRI, RDA},
   lsr : SUBSET {DR, THRE, TEMT}, dlab : BOOLEAN,
   t_fifo : [Slots -> Bytes \cup {0}], t_fifolen : 0 .. FifoSize, t_fifotop : Slots,
   given : Nat, sent : Seq(Bytes)]

\* lpc2300_io_reset, the part about a UART; rbr, thr and t_fifo are static data.
UartReset ==
  [rbr |-> 0, thr |-> 0, ier |-> {}, iir |-> NONE, lsr |-> {THRE, TEMT}, dlab |-> FALSE,
   t_fifo |-> [k \in Slots |-> 0], t_fifolen |-> 0, t_fifotop |-> 0,
   given |-> 0, sent |-> <<>>]

Ports(u, v) == [u |-> u, v |-> v]

-----------------------------------------------------------------------------
(* The host side *)

\* skyeye_uart_read delivers the next byte: rbr = buf, lsr |= DR.
HostRead(u) == [u EXCEPT !.given = @ + 1, !.rbr = u.given + 1, !.lsr = @ \cup {DR}]

\* skyeye_uart_write of one byte.
HostWrite(u, c, ok) == IF ok THEN [u EXCEPT !.sent = Append(@, c)] ELSE u

-----------------------------------------------------------------------------
(* lpc2300_uart_transmit *)

\* Seeded fault: THRE is not set when the byte moves to the FIFO.
LoadFifoNoThre(u) ==
  IF u.t_fifolen < FifoSize /\ THRE \notin u.lsr THEN TxFIFO_enq(u, u.thr) ELSE u

\* "Enqueue THR if valid data is available".
LoadFifo(u) ==
  IF u.t_fifolen < FifoSize /\ THRE \notin u.lsr
    THEN [TxFIFO_enq(u, u.thr) EXCEPT !.lsr = @ \cup {THRE}]
    ELSE u

\* "Send a fifo data to uart": the head leaves the FIFO once the host took it.
SendHead(u, ok) ==
  IF u.t_fifolen > 0 /\ ok
    THEN LET w == TxFIFO_deq(HostWrite(u, TxFIFO_head(u), ok))
         IN  IF w.t_fifolen = 0 /\ THRE \in w.lsr THEN [w EXCEPT !.lsr = @ \cup {TEMT}]
                                                  ELSE w
    ELSE u

Transmit(u, ok) == SendHead(LoadFifo(u), ok)

\* The result: the host took a byte and both FIFO and THR are empty now.
TransmitDone(u, ok) == /\ LoadFifo(u).t_fifolen > 0 /\ ok
                       /\ Transmit(u, ok).t_fifolen = 0
                       /\ THRE \in Transmit(u, ok).lsr

-----------------------------------------------------------------------------
(* The UART's part of lpc2300_io_do_cycle *)

\* Seeded fault: a cause that IIR still holds is not waited for.
CanInterruptAnyIir(u, v, q) == q \in v.IntEnable /\ q \notin v.RawIntr

CanInterrupt(u, v, q) == q \in v.IntEnable /\ q \notin v.RawIntr /\ u.iir = NONE

CycleReceive(u, v, q, ok) ==
  IF ok THEN Ports([HostRead(u) EXCEPT !.iir = RDA], Raise(v, q))
        ELSE Ports(u, UpdateInt(v))

\* Seeded fault: the transmit interrupt is not raised.
CycleTransmitSilent(u, v, q, ok) == Ports(Transmit(u, ok), v)

CycleTransmit(u, v, q, ok) ==
  IF TransmitDone(u, ok) /\ TXIE \in u.ier
    THEN Ports([Transmit(u, ok) EXCEPT !.iir = THRI], Raise(v, q))
    ELSE Ports(Transmit(u, ok), v)

\* rxSlot and txSlot tell whether uartcnt stands at the UART's receive and
\* transmit positions.
UartCycle(u, v, q, rxSlot, txSlot, ok) ==
  CASE CanInterrupt(u, v, q) /\ rxSlot /\ RXIE \in u.ier -> CycleReceive(u, v, q, ok)
    [] CanInterrupt(u, v, q) /\ ~(rxSlot /\ RXIE \in u.ier) /\ txSlot
         -> CycleTransmit(u, v, q, ok)
    [] OTHER -> Ports(u, v)

-----------------------------------------------------------------------------
(* lpc2300_uart_read *)

\* Seeded fault: IIR is reset, but the request line stays raised.
ClearCauseKeepLine(u, v, q, c) ==
  IF q \in v.IntEnable /\ u.iir = c
    THEN Ports([u EXCEPT !.iir = NONE], UpdateInt(v)) ELSE Ports(u, Drop(v, q))

\* Common tail of the handlers: the request line is cleared, and if the guest
\* has the interrupt enabled and the cause is c, IIR is reset and
\* lpc2300_update_int runs.
ClearCause(u, v, q, c) ==
  IF q \in v.IntEnable /\ u.iir = c
    THEN Ports([u EXCEPT !.iir = NONE], UpdateInt(Drop(v, q)))
    ELSE Ports(u, Drop(v, q))

\* Seeded fault: reading the byte does not reset IIR.
ReadRbrKeepCause(u, v, q) ==
  IF u.dlab THEN Ports(u, v) ELSE Ports([u EXCEPT !.lsr = @ \ {DR}], Drop(v, q))

ReadRbr(u, v, q) ==
  IF u.dlab THEN Ports(u, v)
            ELSE ClearCause([u EXCEPT !.lsr = @ \ {DR}], v, q, RDA)

ReadIir(u, v, q) == ClearCause(u, v, q, THRI)

\* IIR never holds 0110 or 0000, the causes LSR and MSR reads would reset.
ReadLsr(u, v, q, ok) ==
  Ports(IF RXIE \notin u.ier /\ DR \notin u.lsr /\ ok THEN HostRead(u) ELSE u, Drop(v, q))

ReadMsr(u, v, q) == Ports(u, Drop(v, q))

-----------------------------------------------------------------------------
(* lpc2300_uart_write *)

\* With DLAB set the access goes to DLL or DLM, which nothing else reads.
WriteThr(u, v, q, c, ok) ==
  CASE u.dlab -> Ports(u, v)
    [] ~u.dlab /\ TXIE \notin u.ier
         -> Ports([HostWrite(u, c, ok) EXCEPT !.thr = c, !.lsr = @ \cup {THRE}], v)
    [] OTHER -> ClearCause([u EXCEPT !.thr = c, !.lsr = @ \ {THRE}], v, q, THRI)

WriteIer(u, d) == IF u.dlab THEN u ELSE [u EXCEPT !.ier = d]
WriteLcr(u, d) == [u EXCEPT !.dlab = d]
=============================================================================
