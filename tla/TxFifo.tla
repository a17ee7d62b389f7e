------------------------------- MODULE TxFifo -------------------------------
(***************************************************************************)
(* The transmit FIFO of one UART: t_fifo, t_fifolen and t_fifotop of       *)
(* lpc2300_uart_t with TxFIFO_enq and TxFIFO_deq.  The operators take and   *)
(* return a record u that has (at least) these three fields.               *)
(***************************************************************************)
EXTENDS Integers, Sequences

CONSTANT FifoSize          \* slots of t_fifo (code: 16)

ASSUME FifoAssumption == FifoSize \in Nat \ {0}

Slots == 0 .. FifoSize - 1

\* The slot k places after top (code: "& 0xf").
SlotAfter(u, k) == (u.t_fifotop + k) % FifoSize

\* Seeded fault: the byte is stored one slot too far.
EnqOffByOne(u, c) ==
  IF u.t_fifolen >= FifoSize THEN u
  ELSE [u EXCEPT !.t_fifo[SlotAfter(u, u.t_fifolen + 1)] = c, !.t_fifolen = @ + 1]

TxFIFO_enq(u, c) ==
  IF u.t_fifolen >= FifoSize THEN u
  ELSE [u EXCEPT !.t_fifo[SlotAfter(u, u.t_fifolen)] = c, !.t_fifolen = @ + 1]

TxFIFO_head(u) == u.t_fifo[u.t_fifotop]

\* Seeded fault: the top index is not wrapped.
DeqNoWrap(u) ==
  IF u.t_fifolen > 0
    THEN [u EXCEPT !.t_fifolen = @ - 1, !.t_fifotop = @ + 1]
    ELSE u

TxFIFO_deq(u) ==
  IF u.t_fifolen > 0
    THEN [u EXCEPT !.t_fifolen = @ - 1, !.t_fifotop = SlotAfter(u, 1)]
    ELSE u

\* The queue the three fields stand for, oldest byte first.
Contents(u) == [k \in 1 .. u.t_fifolen |-> u.t_fifo[SlotAfter(u, k - 1)]]
=============================================================================
