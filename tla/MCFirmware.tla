----------------------------- MODULE MCFirmware -----------------------------
EXTENDS Firmware

MCIrqs  == {IRQUART(i) : i \in Uarts} \cup {IRQTIMER(i) : i \in Timers}
MCBytes == 1 .. 3
MCAddrs == MCIrqs \cup {NoAddr}
\* A firmware that only transmits and receives, and one that also runs the timers.
MCBoots == {[timers |-> {}, out |-> 3], [timers |-> Timers, out |-> 0]}
MCRx    == {[timers |-> Timers, out |-> 0]}
\* Every request at the same level, and the UARTs above the timers.
MCFlat  == [q \in Irqs |-> 0]
MCAbove == [q \in Irqs |-> IF \E i \in Uarts : q = IRQUART(i) THEN 0 ELSE 1]
=============================================================================
