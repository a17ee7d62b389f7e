----------------------------- MODULE EventList ------------------------------
(***************************************************************************)
(* The event list of the ARM core: ARMul_ScheduleEvent, ARMul_EnvokeEvent  *)
(* and EnvokeList of armsupp.c, on the wheel of EVENTLISTSIZE slots that   *)
(* ARMul_NewState clears, and the two places of the emulation loop that    *)
(* use it.  The callbacks are DoAFIQ and DoAIRQ of the interrupt           *)
(* coprocessor; they lower an interrupt line and never schedule, so a      *)
(* callback is only the fact that it ran.                                  *)
(*                                                                         *)
(* One instruction: the fetch counts cycles, due events are run, and the   *)
(* execution counts cycles and may schedule an event.                      *)
(***************************************************************************)
EXTENDS Naturals, FiniteSets

CONSTANTS EVENTLISTSIZE,   \* slots of the wheel                   (code: 1024)
          TimeWord,        \* ARMul_Time counts modulo TimeWord    (code: 2^32)
          Events,          \* the calls of ARMul_ScheduleEvent in one behaviour
          Delays,          \* delays asked for
          Cycles           \* cycles a fetch or an execution may take

ASSUME EventAssumption ==
  /\ EVENTLISTSIZE \in Nat \ {0, 1}
  /\ TimeWord \in Nat \ {0} /\ TimeWord % EVENTLISTSIZE = 0
  /\ IsFiniteSet(Events)
  /\ Delays \subseteq 1 .. EVENTLISTSIZE - 1
  /\ Cycles \subseteq Nat /\ \A c, d \in Cycles : c + d < EVENTLISTSIZE

VARIABLES time,        \* ARMul_Time
          Now,         \* state->Now
          EventSet,    \* state->EventSet
          slot,        \* the slot of each queued event
          phase,       \* the instruction's next part
          due,         \* history: cycles of the event clock until each queued
                       \* event is due
          early,       \* history: events run before they were due
          done,        \* events that have run
          raw          \* history: Now has held an unreduced time

queue == DOMAIN slot
wheel == <<Now, EventSet, slot>>
hist  == <<due, early, done, raw>>
vars  == <<time, wheel, phase, hist>>

Slots == 0 .. EVENTLISTSIZE - 1

TypeOK ==
  /\ time \in 0 .. TimeWord - 1 /\ Now \in 0 .. TimeWord - 1
  /\ EventSet \in Nat
  /\ queue \subseteq Events /\ slot \in [queue -> Slots]
  /\ phase \in {"fetch", "execute"}
  /\ due \in [queue -> Nat]
  /\ early \subseteq done /\ done \subseteq Events \ queue
  /\ raw \in BOOLEAN

Init ==
  /\ time \in 0 .. TimeWord - 1     \* any number of cycles since the reset
  /\ Now = 0 /\ EventSet = 0 /\ slot = [e \in {} |-> 0]
  /\ phase = "fetch"
  /\ due = [e \in {} |-> 0] /\ early = {} /\ done = {} /\ raw = FALSE

-----------------------------------------------------------------------------

\* EnvokeList(from, to): the slots it empties.
EnvokeList(from, to) == {s \in Slots : from <= s /\ s <= to}

\* Seeded fault: the part of the list before the wrap is forgotten.
EnvokedNoWrap(then, now) == EnvokeList(IF then < now THEN then ELSE 0, now)

\* Seeded fault: nothing is run when the time has wrapped.
EnvokedNothing(then, now) == IF then < now THEN EnvokeList(then, now) ELSE {}

\* The slots ARMul_EnvokeEvent empties when the clock goes from then to now.
Envoked(then, now) ==
  CASE then < now -> EnvokeList(then, now)
    [] then > now -> EnvokeList(then, EVENTLISTSIZE - 1) \cup EnvokeList(0, now)
    [] OTHER -> {}

\* The cycles between two values of the event clock.
Elapsed(then, now) == (now + TimeWord - then) % EVENTLISTSIZE

\* The fetch, and ARMul_EnvokeEvent if an event is queued.
Fetch(c) ==
  LET t     == (time + c) % TimeWord
      now   == t % EVENTLISTSIZE
      runs  == {e \in queue : slot[e] \in Envoked(Now, now)}
      stays == queue \ runs
      left(e) == IF due[e] > Elapsed(Now, now) THEN due[e] - Elapsed(Now, now) ELSE 0
  IN /\ phase = "fetch"
     /\ time' = t
     /\ phase' = "execute"
     /\ IF EventSet # 0
          THEN /\ Now' = now
               /\ EventSet' = EventSet - Cardinality(runs)
               /\ slot' = [e \in stays |-> slot[e]]
               /\ due' = [e \in stays |-> left(e)]
               /\ done' = done \cup runs
               /\ early' = early \cup {e \in runs : left(e) > 0}
               /\ UNCHANGED raw
          ELSE UNCHANGED <<wheel, hist>>

\* The event clock of a new event: "if (state->EventSet++ == 0)
\* state->Now = ARMul_Time (state)".
Clock == IF EventSet = 0 THEN time ELSE Now

\* Seeded fault: the slot is not reduced.
WhenUnreduced(delay) == Clock + delay

When(delay) == (Clock + delay) % EVENTLISTSIZE

\* ARMul_ScheduleEvent, called by IntCDP with a delay other than 0.
ScheduleEvent(e, delay) ==
  /\ e \notin queue \cup done
  /\ EventSet' = EventSet + 1
  /\ Now' = Clock
  /\ slot' = [x \in queue \cup {e} |-> IF x = e THEN When(delay) ELSE slot[x]]
  /\ due' = [x \in queue \cup {e} |-> IF x = e THEN delay ELSE due[x]]
  /\ raw' = (raw \/ Clock >= EVENTLISTSIZE)
  /\ UNCHANGED <<early, done>>

\* The execution of an instruction, which may be such a coprocessor operation.
Execute(c) ==
  /\ phase = "execute" /\ phase' = "fetch"
  /\ \/ \E e \in Events, delay \in Delays : ScheduleEvent(e, delay)
     \/ UNCHANGED <<wheel, hist>>
  /\ time' = (time + c) % TimeWord

\* A fetch counts at least one cycle (ARMul_LoadInstrS, ARMul_LoadInstrN).
Next == \E c \in Cycles : (c > 0 /\ Fetch(c)) \/ Execute(c)

\* The emulation loop goes on.
Spec == Init /\ [][Next]_vars /\ WF_vars(Next)

-----------------------------------------------------------------------------
(* Properties *)

\* No event is run before its delay has passed, and none that is due is still
\* in the list after ARMul_EnvokeEvent.
Punctual == /\ early = {}
            /\ phase = "execute" => \A e \in queue : due[e] > 0

\* "This routine is used to call another routine after a certain number of
\* cycles have been executed": every event is punctual.
OnTime == Punctual

\* As long as the list was never restarted more than EVENTLISTSIZE cycles after
\* the reset, every event is punctual, whatever the lengths of the instructions
\* and whenever the wheel wraps around.
OnTimeWhenReduced == ~raw => Punctual

\* Every scheduled event runs sooner or later: EventSet keeps the emulation loop
\* calling ARMul_EnvokeEvent as long as an event is queued, and no slot is
\* passed over for ever, even when the clock was restarted unreduced.
EveryEventRuns == \A e \in Events : e \in queue ~> e \in done
=============================================================================
