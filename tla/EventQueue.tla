----------------------------- MODULE EventQueue ------------------------------
(***************************************************************************)
(* One simulator driving the event queue of src/core/scp.c: the CPU counts *)
(* sim_interval down, instructions and unit actions call the scheduling    *)
(* routines, and sim_process_event runs the actions of the units that are  *)
(* due.  The body of sim_process_event is cut where it calls               *)
(* uptr->action: the calls that action makes are steps of their own.       *)
(* Units are scheduled by instruction counts (usecs_remaining is 0).       *)
(***************************************************************************)
EXTENDS ClockQueue, Functions

CONSTANTS NoUnit,
          Delay,      \* the waits units ask for
          Reach,      \* how far around the present not-before times lie
          Cost,       \* what an instruction may subtract from sim_interval
          MaxTime,    \* bound: instruction time that passes
          MaxStops    \* bound: stop requests

ASSUME NoUnitAssumption == NoUnit \notin Unit
ASSUME DelayAssumption == Delay \subseteq Int /\ Reach \subseteq Int
ASSUME CostAssumption == Cost \subseteq Nat \ {0}
ASSUME BoundAssumption == MaxTime \in Nat /\ MaxStops \in Nat

VARIABLES clock,      \* the event queue
          pc,         \* "run", in a unit's "action", or "fault"
          firing,     \* the unit whose action is running
          catchup,    \* sim_interval_catchup
          stop_cpu,   \* 0 or 1
          stops,      \* stop requests so far
          elapsed,    \* history: time the CPU has counted down
          promise,    \* history: when the latest call said a unit is due
          lateness    \* history: simulated time of the latest dispatch, less
                      \* the time that was promised

vars == <<clock, pc, firing, catchup, stop_cpu, stops, elapsed, promise, lateness>>

Init ==
  /\ clock = ResetClock
  /\ pc = "run" /\ firing = NoUnit /\ catchup = 0
  /\ stop_cpu = 0 /\ stops = 0
  /\ elapsed = 0 /\ lateness = 0
  /\ promise = [u \in Unit |-> 0]

-----------------------------------------------------------------------------
(* Calls made by instructions and by unit actions.                         *)

Promise(u, t) == promise' = [promise EXCEPT ![u] = t]

Call ==
  /\ pc # "fault"
  /\ UNCHANGED <<pc, firing, catchup, stop_cpu, stops, elapsed, lateness>>

CallActivate(u, t) ==
  /\ Call
  /\ clock' = Activate(clock, u, t)
  /\ IF Queued(clock, u) THEN UNCHANGED promise
                         ELSE Promise(u, SimGtime(clock) + t)

CallActivateAbs(u, t) ==
  /\ Call
  /\ clock' = ActivateAbs(clock, u, t)
  /\ Promise(u, SimGtime(clock) + t)

\* The caller means the absolute time SimGtime + ahead and passes its low bits.
CallActivateNotBefore(u, ahead) ==
  LET t == SimGtime(clock) + ahead IN
  /\ Call
  /\ clock' = ActivateNotBefore(clock, u, t % Word)
  /\ Promise(u, IF ahead < 0 THEN SimGtime(clock) ELSE t)

CallCancel(u) == Call /\ clock' = Cancel(clock, u) /\ Promise(u, 0)

-----------------------------------------------------------------------------
\* The instruction loop: instructions run while sim_interval is positive.
Execute(n) ==
  /\ pc = "run" /\ clock.interval > 0 /\ elapsed + n <= MaxTime
  /\ clock' = [clock EXCEPT !.interval = @ - n]
  /\ elapsed' = elapsed + n
  /\ UNCHANGED <<pc, firing, catchup, stop_cpu, stops, promise, lateness>>

\* The console's interrupt character.
RequestStop ==
  /\ pc # "fault" /\ stops < MaxStops
  /\ stops' = stops + 1 /\ stop_cpu' = 1
  /\ UNCHANGED <<clock, pc, firing, catchup, elapsed, promise, lateness>>

\* One iteration of the dispatch loop, up to the call of uptr->action.
Dispatch(c, k) ==
  LET u == c.queue[1]
      s == TakeFirst(c, k)
  IN /\ clock' = s
     /\ pc' = "action" /\ firing' = u /\ catchup' = k
     /\ lateness' = SimGtime(s) - promise[u] /\ Promise(u, 0)

Return(c) ==
  /\ clock' = c /\ pc' = "run" /\ firing' = NoUnit
  /\ UNCHANGED lateness

\* sim_process_event, called by the instruction loop.
ProcessStopped ==
  /\ pc = "run" /\ stop_cpu = 1
  /\ stop_cpu' = 0
  /\ UNCHANGED <<clock, pc, firing, catchup, stops, elapsed, promise, lateness>>

ProcessNothingDue ==
  /\ pc = "run" /\ stop_cpu = 0
  /\ clock.interval > 0 \/ clock.queue = <<>>
  /\ LET s == UpdateSimTime(clock)
     IN Return(IF s.interval > 0 THEN s ELSE ReloadInterval(s))
  /\ UNCHANGED <<catchup, stop_cpu, stops, elapsed, promise>>

ProcessDue ==
  /\ pc = "run" /\ stop_cpu = 0
  /\ clock.interval <= 0 /\ clock.queue # <<>>
  /\ Dispatch(BackUp(UpdateSimTime(clock)), FirstCatchup(clock))
  /\ UNCHANGED <<stop_cpu, stops, elapsed>>

MoreDue ==
  /\ StillDue(AfterAction(clock, catchup), NextCatchup(clock, catchup))
  /\ stop_cpu = 0

\* The action returned SCPE_OK and another entry is due.
ActionReturnsMoreDue ==
  /\ pc = "action" /\ MoreDue
  /\ Dispatch(AfterAction(clock, catchup), NextCatchup(clock, catchup))
  /\ UNCHANGED <<stop_cpu, stops, elapsed>>

\* The loop ends: nothing else is due, a stop was requested, or the action
\* returned a reason to stop.
ActionReturnsLoopEnds ==
  /\ pc = "action" /\ (Behind(catchup) => clock.queue # <<>>)
  /\ \E reason \in {"SCPE_OK", "SCPE_STOP"} :
       /\ reason = "SCPE_OK" => ~MoreDue
       /\ stop_cpu' = IF reason = "SCPE_OK" THEN 0 ELSE stop_cpu
  /\ Return(IF clock.queue = <<>> THEN ReloadInterval(clock) ELSE AfterAction(clock, catchup))
  /\ catchup' = 0
  /\ UNCHANGED <<stops, elapsed, promise>>

\* While behind, the time of the first entry is read even if there is none.
ActionReturnsQueueEnd ==
  /\ pc = "action" /\ Behind(catchup) /\ clock.queue = <<>>
  /\ pc' = "fault"
  /\ UNCHANGED <<clock, firing, catchup, stop_cpu, stops, elapsed, promise, lateness>>

Calls ==
  \E u \in Unit :
    \/ \E t \in Delay : CallActivate(u, t) \/ CallActivateAbs(u, t)
    \/ \E ahead \in Reach : CallActivateNotBefore(u, ahead)
    \/ CallCancel(u)

Process ==
  \/ ProcessStopped \/ ProcessNothingDue \/ ProcessDue
  \/ ActionReturnsMoreDue \/ ActionReturnsLoopEnds \/ ActionReturnsQueueEnd

Next == Calls \/ Process \/ RequestStop \/ \E n \in Cost : Execute(n)

Spec == Init /\ [][Next]_vars

\* The CPU keeps running, and the actions it calls return.
FairSpec == Spec /\ WF_vars(Process) /\ WF_vars(\E n \in Cost : Execute(n))

-----------------------------------------------------------------------------
(* Properties.                                                             *)

\* The types of the variables; no unit is on the queue twice, and a unit off
\* the queue has time 0 (the "hygiene" assignments).
TypeOK ==
  /\ clock \in Clock
  /\ IsInjective(clock.queue)
  /\ \A u \in Unit : Queued(clock, u) \/ clock.time[u] = 0
  /\ pc \in {"run", "action", "fault"} /\ firing \in Unit \cup {NoUnit}
  /\ catchup \in Int /\ lateness \in Int
  /\ stop_cpu \in {0, 1} /\ stops \in 0 .. MaxStops
  /\ elapsed \in 0 .. MaxTime /\ promise \in [Unit -> Int]

\* sim_gtime is the time the CPU has counted down, whatever was scheduled,
\* cancelled and dispatched in between.
ClockIsElapsed == SimGtime(clock) = elapsed

\* An action runs exactly when the call that scheduled its unit promised,
\* whatever was inserted before it and removed before it, and whether sim_rtime
\* has wrapped around or not.
OnTime == lateness = 0

\* No action runs before the simulated time its unit was promised, even if
\* instructions overrun the end of the interval.
NeverEarly == lateness >= 0

\* "we backup time to when the first event was supposed to fire and advance it
\* from there until things have caught up": when sim_process_event has returned,
\* sim_gtime is again the time the CPU has counted down.
\* The code does not satisfy this; README.md has the behaviour.
CaughtUp == pc = "run" => SimGtime(clock) = elapsed

\* "The event queue is maintained in clock order": only the first entry can be
\* overdue, the waits of the others are never negative.
ClockOrder == \A i \in 2 .. Len(clock.queue) : clock.time[clock.queue[i]] >= 0

\* After the action of an overrun event the queue may be empty; the loop must
\* not follow sim_clock_queue then, since QUEUE_LIST_END is "not ... a valid/possible pointer".
\* The code does not satisfy this; README.md has the behaviour.
QueueEndNotFollowed == pc # "fault"

\* "negative waits cause an error": such a call queues nothing.
\* The code does not satisfy this; README.md has the behaviour.
NegativeWaitRejected ==
  [][\A u \in Unit : (\E t \in Delay : t < 0 /\ CallActivate(u, t))
       => Queued(clock', u) = Queued(clock, u)]_vars

\* The delta queue behaves like a list of absolute due times.
Agenda == INSTANCE EventAgenda WITH
  Wait <- 0 .. Word,
  now <- SimGtime(clock),
  agenda <- [i \in DOMAIN clock.queue |->
              [unit |-> clock.queue[i], due |-> clock.vm_time + Accum(clock, i)]]

ImplementsAgenda == Agenda!Spec

Due(u) == \E i \in DOMAIN clock.queue :
            clock.queue[i] = u /\ clock.vm_time + Accum(clock, i) <= SimGtime(clock)

Rescheduled(u) ==
  \/ \E t \in Delay : CallActivateAbs(u, t)
  \/ \E ahead \in Reach : CallActivateNotBefore(u, ahead)
  \/ CallCancel(u)

\* A unit whose time has come is served unless calls keep moving it, even if
\* the units served before it keep asking for a wait of 0.
\* Holds for the bounds that README.md gives; no configuration checks it.
DueIsServed ==
  \A u \in Unit : (Due(u) ~> ~Due(u)) \/ []<><<Rescheduled(u)>>_vars
=============================================================================
