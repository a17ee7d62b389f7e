-------------------------- MODULE EventListProofs ---------------------------
(***************************************************************************)
(* Proofs about the event list: its types, the agreement of EventSet with  *)
(* the list, and the punctuality of every event as long as Now has never   *)
(* held an unreduced time, for every size of the wheel, any number of      *)
(* events and any lengths of the instructions.                             *)
(***************************************************************************)
EXTENDS EventList, FiniteSetTheorems, TLAPS

-----------------------------------------------------------------------------
(* Arithmetic of the wheel *)

\* A remainder is determined by a quotient.
LEMMA ModUnique ==
  ASSUME NEW n \in Nat \ {0}, NEW q \in Int, NEW r \in 0 .. n - 1
  PROVE  (q * n + r) % n = r
OBVIOUS

\* Below two turns of the wheel, the remainder is found by one subtraction.
LEMMA ModTurn ==
  ASSUME NEW n \in Nat \ {0}, NEW a \in Nat, a < 2 * n
  PROVE  a % n = IF a < n THEN a ELSE a - n
<1>1. CASE a < n
  <2>1. a = 0 * n + a
    OBVIOUS
  <2> QED BY <1>1, <2>1, ModUnique
<1>2. CASE a >= n
  <2>1. a = 1 * n + (a - n) /\ a - n \in 0 .. n - 1
    BY <1>2
  <2> QED BY <1>2, <2>1, ModUnique
<1> QED BY <1>1, <1>2

\* Whole turns do not count.
LEMMA ModWhole ==
  ASSUME NEW n \in Nat \ {0}, NEW w \in Nat, w % n = 0, NEW r \in 0 .. n - 1
  PROVE  (w + r) % n = r /\ (w - n + r) % n = r
<1>1. w = (w \div n) * n /\ w \div n \in Int
  OBVIOUS
<1>2. w + r = (w \div n) * n + r
  BY <1>1
<1>3. w - n + r = ((w \div n) - 1) * n + r
  BY <1>1
<1>4. (w \div n) - 1 \in Int
  BY <1>1
<1>5. ((w \div n) * n + r) % n = r
  BY <1>1, ModUnique
<1>6. (((w \div n) - 1) * n + r) % n = r
  BY <1>4, ModUnique
<1> QED BY <1>2, <1>3, <1>5, <1>6

\* What the model's Elapsed is on reduced clocks: the way round the wheel.
LEMMA ElapsedReduced ==
  ASSUME NEW then \in Slots, NEW now \in Slots
  PROVE  Elapsed(then, now) = IF then <= now THEN now - then
                              ELSE now - then + EVENTLISTSIZE
<1> DEFINE E == EVENTLISTSIZE
<1>1. E \in Nat \ {0} /\ TimeWord \in Nat \ {0} /\ TimeWord % E = 0
  BY EventAssumption
<1>2. CASE then <= now
  <2>1. now - then \in 0 .. E - 1
    BY <1>1, <1>2 DEF Slots
  <2>2. (TimeWord + (now - then)) % E = now - then
    BY <1>1, <2>1, ModWhole
  <2>3. now + TimeWord - then = TimeWord + (now - then)
    BY <1>1, <1>2 DEF Slots
  <2> QED BY <1>2, <2>2, <2>3 DEF Elapsed
<1>3. CASE then > now
  <2>1. now - then + E \in 0 .. E - 1
    BY <1>1, <1>3 DEF Slots
  <2> DEFINE r == now - then + E
  <2> HIDE DEF r
  <2>4. r \in 0 .. E - 1
    BY <2>1 DEF r
  <2>5. (TimeWord - E + r) % E = r
    BY <1>1, <2>4, ModWhole
  <2>2. (TimeWord - E + (now - then + E)) % E = now - then + E
    BY <2>5 DEF r
  <2>3. now + TimeWord - then = TimeWord - E + (now - then + E)
    BY <1>1, <1>3 DEF Slots
  <2> QED BY <1>3, <2>2, <2>3 DEF Elapsed, Slots
<1> QED BY <1>2, <1>3 DEF Slots

-----------------------------------------------------------------------------
(* The inductive invariant *)

\* EventSet counts the events in the list.
Counted == EventSet = Cardinality(queue)

\* Event e is less than a turn ahead of Now, in the slot it will be due at.
Ahead(e) == /\ due[e] \in 1 .. EVENTLISTSIZE - 1
            /\ slot[e] = IF Now + due[e] < EVENTLISTSIZE THEN Now + due[e]
                         ELSE Now + due[e] - EVENTLISTSIZE

\* The list as long as Now was never restarted unreduced.
Reduced == ~raw => /\ early = {}
                   /\ queue # {} => Now \in Slots
                   /\ \A e \in queue : Ahead(e)

Inv == TypeOK /\ Counted /\ Reduced

\* The slots that ARMul_EnvokeEvent empties are those of the events that come due
\* while the clock goes from then to now, with and without a wrap.
LEMMA EnvokedIsDue ==
  ASSUME NEW then \in Slots, NEW now \in Slots, NEW d \in 1 .. EVENTLISTSIZE - 1,
         NEW s \in Slots,
         s = IF then + d < EVENTLISTSIZE THEN then + d ELSE then + d - EVENTLISTSIZE
  PROVE  /\ s \in Envoked(then, now) <=> d <= Elapsed(then, now)
         /\ d > Elapsed(then, now) =>
              LET left == d - Elapsed(then, now)
              IN  /\ left \in 1 .. EVENTLISTSIZE - 1
                  /\ s = IF now + left < EVENTLISTSIZE THEN now + left
                         ELSE now + left - EVENTLISTSIZE
<1>1. EVENTLISTSIZE \in Nat \ {0, 1}
  BY EventAssumption
<1>2. CASE then < now
  BY <1>1, <1>2, ElapsedReduced DEF Envoked, EnvokeList, Slots
<1>3. CASE then > now
  BY <1>1, <1>3, ElapsedReduced DEF Envoked, EnvokeList, Slots
<1>4. CASE then = now
  <2>1. Envoked(then, now) = {} /\ Elapsed(then, now) = 0
    BY <1>1, <1>4, ElapsedReduced DEF Envoked, Slots
  <2> QED BY <1>1, <1>4, <2>1 DEF Slots
<1> QED BY <1>1, <1>2, <1>3, <1>4 DEF Slots

-----------------------------------------------------------------------------
(* The steps *)

\* The initial list is empty.
LEMMA InitInv == Init => Inv
<1> SUFFICES ASSUME Init PROVE Inv
  OBVIOUS
<1>1. queue = {}
  BY DEF Init, queue
<1>2. TypeOK
  <2>1. time \in 0 .. TimeWord - 1 /\ Now \in 0 .. TimeWord - 1 /\ EventSet \in Nat
    BY EventAssumption DEF Init
  <2>2. slot \in [queue -> Slots] /\ due \in [queue -> Nat]
    BY <1>1 DEF Init
  <2> QED BY <1>1, <2>1, <2>2 DEF Init, TypeOK
<1>3. Counted
  BY <1>1, FS_EmptySet DEF Init, Counted
<1>4. Reduced
  BY <1>1 DEF Init, Reduced
<1> QED BY <1>2, <1>3, <1>4 DEF Inv

\* The list is finite, and EventSet is 0 exactly when it is empty.
LEMMA QueueFinite ==
  ASSUME Inv
  PROVE  /\ IsFiniteSet(queue) /\ EventSet = Cardinality(queue) /\ EventSet \in Nat
         /\ EventSet = 0 <=> queue = {}
<1>1. queue \in SUBSET Events
  BY DEF Inv, TypeOK
<1>2. IsFiniteSet(queue)
  BY <1>1, FS_Subset, EventAssumption
<1> QED BY <1>2, FS_CardinalityType, FS_EmptySet DEF Inv, Counted

\* A fetch with events in the list: those that came due have run.
LEMMA FetchInv ==
  ASSUME Inv, NEW c \in Cycles, Fetch(c), EventSet # 0
  PROVE  Inv'
<1> DEFINE t     == (time + c) % TimeWord
           now   == t % EVENTLISTSIZE
           gone  == Elapsed(Now, now)
           runs  == {e \in queue : slot[e] \in Envoked(Now, now)}
           stays == queue \ runs
           left(e) == IF due[e] > gone THEN due[e] - gone ELSE 0
<1>1. /\ EVENTLISTSIZE \in Nat \ {0, 1} /\ TimeWord \in Nat \ {0} /\ c \in Nat
  BY EventAssumption
<1>2. t \in 0 .. TimeWord - 1 /\ now \in Slots /\ gone \in Nat
  BY <1>1 DEF Inv, TypeOK, Slots, Elapsed
<1>12. now \in 0 .. TimeWord - 1
  BY <1>1, <1>2
<1>3. /\ time' = t /\ phase' = "execute" /\ Now' = now
      /\ EventSet' = EventSet - Cardinality(runs)
      /\ slot' = [e \in stays |-> slot[e]]
      /\ due' = [e \in stays |-> left(e)]
      /\ done' = done \cup runs
      /\ early' = early \cup {e \in runs : left(e) > 0}
      /\ raw' = raw
  BY DEF Fetch
<1>4. queue' = stays /\ runs \subseteq queue /\ stays \subseteq queue
  BY <1>3 DEF queue
<1>5. \A e \in queue : due[e] \in Nat /\ slot[e] \in Slots /\ left(e) \in Nat
  BY <1>2 DEF Inv, TypeOK
<1> HIDE DEF t, now, gone, runs, stays, left
<1>6. Counted'
  <2>1. Cardinality(queue \ runs) = Cardinality(queue) - Cardinality(queue \cap runs)
    BY QueueFinite, FS_Difference
  <2>2. queue \cap runs = runs
    BY <1>4
  <2> QED BY <1>3, <1>4, <2>1, <2>2, QueueFinite DEF Counted, stays
<1>7. TypeOK'
  <2>1. queue' \subseteq Events /\ done' \subseteq Events \ queue'
    BY <1>3, <1>4 DEF Inv, TypeOK, stays
  <2>2. early' \subseteq done'
    BY <1>3 DEF Inv, TypeOK
  <2>3. slot' \in [queue' -> Slots] /\ due' \in [queue' -> Nat]
    BY <1>3, <1>4, <1>5
  <2>4. EventSet' \in Nat
    <3>1. IsFiniteSet(queue')
      BY <1>4, QueueFinite, FS_Subset
    <3> QED BY <1>6, <3>1, FS_CardinalityType DEF Counted
  <2>5. phase' = "execute" /\ raw' \in BOOLEAN
    BY <1>3 DEF Inv, TypeOK
  <2> QED BY <1>2, <1>12, <1>3, <2>1, <2>2, <2>3, <2>4, <2>5 DEF TypeOK
<1>8. Reduced'
  <2> SUFFICES ASSUME ~raw
               PROVE  /\ early' = {} /\ Now' \in Slots /\ \A e \in queue' : Ahead(e)'
    BY <1>3 DEF Reduced
  <2>1. early = {} /\ Now \in Slots /\ \A e \in queue : Ahead(e)
    BY QueueFinite DEF Inv, Reduced
  <2>2. ASSUME NEW e \in queue
        PROVE  /\ e \in runs <=> due[e] <= gone
               /\ due[e] > gone =>
                    /\ due[e] - gone \in 1 .. EVENTLISTSIZE - 1
                    /\ slot[e] = IF now + (due[e] - gone) < EVENTLISTSIZE THEN now + (due[e] - gone)
                                 ELSE now + (due[e] - gone) - EVENTLISTSIZE
    BY <1>2, <1>5, <2>1, EnvokedIsDue DEF Ahead, runs, gone
  <2>3. \A e \in queue : due[e] \in Nat /\ gone \in Nat
    BY <1>2, <1>5
  <2>4. early' = {}
    BY <1>3, <1>4, <2>1, <2>2, <2>3 DEF left
  <2>5. ASSUME NEW e \in queue' PROVE Ahead(e)'
    <3>1. e \in queue /\ e \notin runs /\ due[e] > gone
      BY <1>4, <2>2, <2>3 DEF stays
    <3>2. due'[e] = due[e] - gone /\ slot'[e] = slot[e]
      BY <1>3, <1>4, <3>1, <2>5 DEF left
    <3> QED BY <1>3, <2>2, <3>1, <3>2 DEF Ahead
  <2> QED BY <1>2, <1>3, <2>4, <2>5
<1> QED BY <1>6, <1>7, <1>8 DEF Inv

\* An execution that schedules an event: it is queued a delay ahead of the clock.
LEMMA ScheduleInv ==
  ASSUME Inv, NEW c \in Cycles, NEW e \in Events, NEW delay \in Delays,
         ScheduleEvent(e, delay), phase' = "fetch", time' = (time + c) % TimeWord
  PROVE  Inv'
<1>1. /\ EVENTLISTSIZE \in Nat \ {0, 1} /\ TimeWord \in Nat \ {0} /\ c \in Nat
      /\ delay \in 1 .. EVENTLISTSIZE - 1
  BY EventAssumption
<1>2. Clock \in 0 .. TimeWord - 1 /\ When(delay) \in Slots
  BY <1>1 DEF Inv, TypeOK, Clock, When, Slots
<1>3. /\ e \notin queue \cup done
      /\ EventSet' = EventSet + 1 /\ Now' = Clock
      /\ slot' = [x \in queue \cup {e} |-> IF x = e THEN When(delay) ELSE slot[x]]
      /\ due' = [x \in queue \cup {e} |-> IF x = e THEN delay ELSE due[x]]
      /\ raw' = (raw \/ Clock >= EVENTLISTSIZE)
      /\ early' = early /\ done' = done
  BY DEF ScheduleEvent
<1>4. queue' = queue \cup {e}
  BY <1>3 DEF queue
<1>5. Counted'
  <2>1. Cardinality(queue \cup {e}) = Cardinality(queue) + 1
    BY <1>3, QueueFinite, FS_AddElement
  <2> QED BY <1>3, <1>4, <2>1, QueueFinite DEF Counted
<1>6. TypeOK'
  <2>1. queue' \subseteq Events /\ done' \subseteq Events \ queue' /\ early' \subseteq done'
    BY <1>3, <1>4 DEF Inv, TypeOK
  <2>2. slot' \in [queue' -> Slots] /\ due' \in [queue' -> Nat]
    BY <1>1, <1>2, <1>3, <1>4 DEF Inv, TypeOK
  <2>3. time' \in 0 .. TimeWord - 1 /\ EventSet' \in Nat
    BY <1>1, <1>3, QueueFinite DEF Inv, TypeOK
  <2>4. raw' \in BOOLEAN
    BY <1>3
  <2> QED BY <1>2, <1>3, <2>1, <2>2, <2>3, <2>4 DEF TypeOK
<1>7. Reduced'
  <2> SUFFICES ASSUME ~raw'
               PROVE  /\ early' = {} /\ Now' \in Slots /\ \A x \in queue' : Ahead(x)'
    BY DEF Reduced
  <2>1. ~raw /\ Clock < EVENTLISTSIZE
    <3>1. ~raw /\ ~(Clock >= EVENTLISTSIZE)
      <4>1. raw' = (raw \/ Clock >= EVENTLISTSIZE)
        BY <1>3
      <4> QED BY <4>1, Zenon
    <3> QED BY <1>1, <1>2, <3>1
  <2>2. early = {} /\ \A x \in queue : Ahead(x)
    BY <2>1 DEF Inv, Reduced
  <2>3. Clock \in Slots
    BY <1>1, <1>2, <2>1 DEF Slots
  <2>4. When(delay) = IF Clock + delay < EVENTLISTSIZE THEN Clock + delay
                      ELSE Clock + delay - EVENTLISTSIZE
    <3>1. Clock + delay \in Nat /\ Clock + delay < 2 * EVENTLISTSIZE
      BY <1>1, <2>3 DEF Slots
    <3> DEFINE a == Clock + delay
    <3> HIDE DEF a
    <3>2. a \in Nat /\ a < 2 * EVENTLISTSIZE
      BY <3>1 DEF a
    <3>3. a % EVENTLISTSIZE = IF a < EVENTLISTSIZE THEN a ELSE a - EVENTLISTSIZE
      BY <1>1, <3>2, ModTurn
    <3>4. When(delay) = a % EVENTLISTSIZE
      BY DEF When, a
    <3>5. When(delay) = IF a < EVENTLISTSIZE THEN a ELSE a - EVENTLISTSIZE
      BY <3>3, <3>4
    <3> QED BY <1>1, <2>3, <3>1, <3>5 DEF a, Slots
  <2>5. ASSUME NEW x \in queue' PROVE Ahead(x)'
    <3>1. CASE x = e
      BY <1>1, <1>3, <1>4, <2>4, <3>1 DEF Ahead
    <3>2. CASE x # e
      <4>1. x \in queue /\ due'[x] = due[x] /\ slot'[x] = slot[x]
        BY <1>3, <1>4, <2>5, <3>2
      <4>2. Clock = Now
        BY <4>1, QueueFinite DEF Clock
      <4> QED BY <1>3, <2>2, <4>1, <4>2 DEF Ahead
    <3> QED BY <3>1, <3>2
  <2> QED BY <1>3, <2>2, <2>3, <2>5
<1> QED BY <1>5, <1>6, <1>7 DEF Inv

\* Only time and phase change.
LEMMA QuietInv ==
  ASSUME Inv, UNCHANGED <<wheel, hist>>, phase' \in {"fetch", "execute"},
         time' \in 0 .. TimeWord - 1
  PROVE  Inv'
<1>1. queue' = queue
  BY DEF wheel, queue
<1>2. TypeOK'
  BY <1>1 DEF Inv, TypeOK, wheel, hist
<1>3. Counted'
  BY <1>1 DEF Inv, Counted, wheel
<1>4. Reduced'
  BY <1>1 DEF Inv, Reduced, Ahead, wheel, hist
<1> QED BY <1>2, <1>3, <1>4 DEF Inv

\* Every step of the emulation loop keeps the invariant.
LEMMA NextInv == Inv /\ [Next]_vars => Inv'
<1> SUFFICES ASSUME Inv, [Next]_vars PROVE Inv'
  OBVIOUS
<1>1. ASSUME NEW c \in Cycles PROVE (time + c) % TimeWord \in 0 .. TimeWord - 1
  <2>1. TimeWord \in Nat \ {0} /\ c \in Nat /\ time \in Nat
    BY EventAssumption DEF Inv, TypeOK
  <2> QED BY <2>1
<1>2. ASSUME NEW c \in Cycles, Fetch(c) PROVE Inv'
  <2>1. CASE EventSet # 0
    BY <1>2, <2>1, FetchInv
  <2>2. CASE EventSet = 0
    BY <1>1, <1>2, <2>2, QuietInv DEF Fetch
  <2> QED BY <2>1, <2>2
<1>3. ASSUME NEW c \in Cycles, Execute(c) PROVE Inv'
  <2>1. phase' = "fetch" /\ time' = (time + c) % TimeWord
    BY <1>3 DEF Execute
  <2>2. ASSUME NEW e \in Events, NEW delay \in Delays, ScheduleEvent(e, delay) PROVE Inv'
    BY <2>1, <2>2, ScheduleInv
  <2>3. CASE UNCHANGED <<wheel, hist>>
    BY <1>1, <2>1, <2>3, QuietInv
  <2> QED BY <1>3, <2>2, <2>3 DEF Execute
<1>4. CASE UNCHANGED vars
  BY <1>4, QuietInv DEF vars, Inv, TypeOK
<1> QED BY <1>2, <1>3, <1>4 DEF Next

-----------------------------------------------------------------------------
(* Results *)

\* The invariant holds in every reachable state.
LEMMA Invariance == Spec => []Inv
BY InitInv, NextInv, PTL DEF Spec

\* Times, slots and counters keep their types, an event that has run has left the
\* list, and EventSet, on which the emulation loop decides whether to call
\* ARMul_EnvokeEvent, never goes below zero.
THEOREM TypeCorrect == Spec => []TypeOK
<1>1. Inv => TypeOK
  BY DEF Inv
<1> QED BY <1>1, Invariance, PTL

\* EventSet is the number of events in the list.
THEOREM EventSetCorrect == Spec => [](EventSet = Cardinality(queue))
<1>1. Inv => EventSet = Cardinality(queue)
  BY DEF Inv, Counted
<1> QED BY <1>1, Invariance, PTL

\* As long as the list was never restarted with an unreduced time, no event runs
\* before it is due and none is left behind, for a wheel of any size.
THEOREM PunctualCorrect == Spec => []OnTimeWhenReduced
<1>1. Inv => OnTimeWhenReduced
  <2> SUFFICES ASSUME Inv, ~raw PROVE Punctual
    BY DEF OnTimeWhenReduced
  <2>1. early = {} /\ \A e \in queue : due[e] \in 1 .. EVENTLISTSIZE - 1
    BY DEF Inv, Reduced, Ahead
  <2> QED BY <2>1, EventAssumption DEF Punctual
<1> QED BY <1>1, Invariance, PTL
=============================================================================
