-------------------------------- MODULE Timer -------------------------------
(***************************************************************************)
(* One timer of the LPC2300 machine: lpc2300_timer_t, its part of          *)
(* lpc2300_io_do_cycle and lpc2300_timer_write.  As in module Uart, an     *)
(* operator takes the timer's record m, the VIC's record v and the timer's *)
(* request number q.                                                       *)
(***************************************************************************)
EXTENDS Vic

CONSTANTS MRs,             \* match registers of the instance (code: 0..3)
          Word             \* the counters count modulo Word  (code: 2^32)

ASSUME TimerAssumption == MRs \subseteq 0 .. 3 /\ Word \in Nat \ {0}

Words == 0 .. Word - 1

\* The bits of one match register's field in MCR, and of TCR.
INTR   == "interrupt"
RESET  == "reset"
STOP   == "stop"
ENABLE == "enable"

TimerType ==
  [ir : SUBSET MRs, tcr : SUBSET {ENABLE, RESET}, tc : Words, pr : Words, pc : Words,
   mcr : [MRs -> SUBSET {INTR, RESET, STOP}], mr : [MRs -> Words], ctcr : BOOLEAN]

\* lpc2300_io_reset, the part about a timer.
TimerReset ==
  [ir |-> {}, tcr |-> {}, tc |-> 0, pr |-> 0, pc |-> 0,
   mcr |-> [n \in MRs |-> {}], mr |-> [n \in MRs |-> 0], ctcr |-> FALSE]

Tick(m, v) == [m |-> m, v |-> v]

-----------------------------------------------------------------------------
(* The timer's part of lpc2300_io_do_cycle *)

\* TC advances by t; every match register equal to the new count acts.  The
\* code runs lpc2300_update_int once per matching register; the runs after
\* the first change nothing (theorem UpdateIdempotent of module DeviceLemmas).
Advance(m, v, q, t) ==
  LET ntc  == (m.tc + t) % Word
      hits == {n \in MRs : m.mr[n] = ntc}
      does == UNION {m.mcr[n] : n \in hits}
      flags == IF q \in v.IntEnable THEN {n \in hits : INTR \in m.mcr[n]} ELSE {}
  IN Tick([m EXCEPT !.pc = 0,
                    !.tc = IF RESET \in does THEN 0 ELSE ntc,
                    !.tcr = IF STOP \in does THEN @ \ {ENABLE} ELSE @,
                    !.ir = @ \cup flags],
          IF flags # {} THEN Raise(v, q) ELSE v)

\* The prescale counter, which stands still in counter mode (ctcr).
Prescaled(m) == IF m.ctcr THEN m ELSE [m EXCEPT !.pc = (@ + 1) % Word]

\* TC stands still while the timer's own interrupt is latched in RawIntr.
Elapsed(m, v, q) == q \notin v.RawIntr /\ m.pc >= (m.pr + 1) % Word

\* "pr" is cleared too while TCR holds the timer in reset.
TimerCycle(m, v, q, t) ==
  CASE RESET \in m.tcr -> Tick([m EXCEPT !.pc = 0, !.pr = 0], v)
    [] RESET \notin m.tcr /\ ENABLE \in m.tcr
         -> IF Elapsed(Prescaled(m), v, q) THEN Advance(Prescaled(m), v, q, t)
                                           ELSE Tick(Prescaled(m), v)
    [] OTHER -> Tick(m, v)

\* "adjust TC step in order to match MRn": the step shrinks to the distance of
\* an enabled match register ahead, as long as it is more than 1.
ClipStep(m, n, t) ==
  LET dist == (m.mr[n] - m.tc) % Word
  IN  IF t > 1 /\ m.mcr[n] # {} /\ t > dist THEN dist ELSE t

-----------------------------------------------------------------------------
(* lpc2300_timer_write *)

\* Seeded fault: the request line of the timer is left raised.
WriteIrKeepLine(m, v, q, d) ==
  LET w == v
      e == IF d \cap m.ir # {} THEN [m EXCEPT !.ir = {}] ELSE m
  IN  Tick(e, IF q \in v.IntEnable THEN UpdateInt(w) ELSE w)

\* Seeded fault: the request line is cleared, the flags in IR are not.
WriteIrKeepFlags(m, v, q, d) ==
  LET w == IF d \cap m.ir # {} THEN Drop(v, q) ELSE v
  IN  Tick(m, IF q \in v.IntEnable THEN UpdateInt(w) ELSE w)

\* Writing a flag that is set clears every flag and the request line.
WriteIr(m, v, q, d) ==
  LET w == IF d \cap m.ir # {} THEN Drop(v, q) ELSE v
      e == IF d \cap m.ir # {} THEN [m EXCEPT !.ir = {}] ELSE m
  IN  Tick(e, IF q \in v.IntEnable THEN UpdateInt(w) ELSE w)

WriteTcr(m, d) ==
  IF RESET \in d THEN [m EXCEPT !.tcr = d, !.tc = 0, !.pc = 0] ELSE [m EXCEPT !.tcr = d]

WriteTc(m, d)     == [m EXCEPT !.tc = d]
WritePr(m, d)     == [m EXCEPT !.pr = d]
WritePc(m, d)     == [m EXCEPT !.pc = d]
WriteMcr(m, d)    == [m EXCEPT !.mcr = d]
WriteMr(m, n, d)  == [m EXCEPT !.mr[n] = d]
WriteCtcr(m, d)   == [m EXCEPT !.ctcr = d]
=============================================================================
