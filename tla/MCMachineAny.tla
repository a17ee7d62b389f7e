---------------------------- MODULE MCMachineAny ----------------------------
(***************************************************************************)
(* One guest drives UART0 with a FIFO of two slots, four bytes out and two *)
(* in: it turns the transmit interrupt on and keeps it on; the receive     *)
(* interrupt, DLAB, the UART's power and its VIC enable bit change freely. *)
(* The other one drives TIMER0 and TIMER1, counting modulo 3, with one     *)
(* match register each that interrupts and resets or (TIMER0) stops the    *)
(* counter; the host may be slow, and the guest may turn TIMER0 off, by    *)
(* PCONP or in the VIC, and pre-scale it.                                  *)
(***************************************************************************)
EXTENDS Lpc2300Any

MCIrqs      == {IRQUART(0), IRQTIMER(0), IRQTIMER(1)}
MCBytes     == 1 .. 4
MCIerData   == {{TXIE}, {RXIE, TXIE}}
MCTcrData   == {{ENABLE}, {RESET}}
MCMcrData   == [i \in Timers |-> [MRs -> IF i = 0 THEN {{INTR, RESET}, {INTR, STOP}}
                                            ELSE {{INTR, RESET}}]]
MCPreData   == [i \in Timers |-> IF i = 0 THEN {1} ELSE {}]
MCCtcrData  == [i \in Timers |-> IF i = 0 THEN {TRUE} ELSE {}]
MCUartGuest == [uarts |-> {0}, timers |-> {}, enable |-> {{IRQUART(0)}},
                power |-> {{}, {PCUART(0)}}]
MCTimerGuest == [uarts |-> {}, timers |-> {0, 1}, enable |-> {{IRQTIMER(0)}},
                 power |-> {{PCTIM(1)}}]
MCGuests    == {MCUartGuest, MCTimerGuest}
MCTimerOnly == {MCTimerGuest}
=============================================================================
