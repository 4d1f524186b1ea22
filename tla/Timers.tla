-------------------------------- MODULE Timers --------------------------------
(***************************************************************************)
(* Waits in real time: sim_timer.c with SET TIMER ASYNCH.  A wait goes on  *)
(* one of three lists: the wall clock queue, which the timer thread serves *)
(* and the simulator's thread fills; a clock's coscheduled units, served   *)
(* by its tick; or the event queue of scp.c.  STOP takes the first two     *)
(* apart, CONTINUE starts the thread again.                                *)
(*                                                                         *)
(* Time is counted in halves of the host's minimal sleep.  It goes on      *)
(* while instructions run, and a due event is served before it does: the   *)
(* clock is taken to be calibrated, and the host's time spent within a     *)
(* call or at the prompt is left out.                                      *)
(* Device units are Dev; Clock is a registered clock unit and Tick the     *)
(* timer unit that stands for it while the simulator runs.                 *)
(***************************************************************************)
EXTENDS CoschedQueue

CONSTANTS Dev, Clock, Tick,
          NULL, QUEUE_LIST_END,
          Period,        \* the length of a clock tick
          Hz,            \* ticks from one calibration to the next
          Delay,         \* the delays devices ask for
          TickCount,     \* the tick counts devices coschedule for
          Reactivate,    \* whether a device activates a unit that is pending
          MaxTime, MaxCalls,
          MaxBreaks      \* cancels and stops together

Half == 1     \* "1/2 a minimal sleep interval"
Sleep == 2    \* sim_idle_rate_ms
Never == -1   \* the event time of a unit that is not on the event queue
Skewed == -1  \* in left: a unit behind a first unit that was cancelled

ASSUME TimersAssumption ==
  /\ Period \in Nat /\ Period > Sleep /\ Hz \in Nat \ {0}
  /\ Delay \subseteq Nat \ {0} /\ TickCount \subseteq Nat /\ Reactivate \in BOOLEAN
  /\ {MaxTime, MaxCalls, MaxBreaks} \subseteq Nat

Timed == Dev \union {Tick}          \* the units a_next links
Unit == Timed \union {Clock}

\* The units, NULL and QUEUE_LIST_END are different from one another.
ASSUME UnitsAssumption ==
  /\ IsFiniteSet(Dev) /\ Tick \notin Dev /\ Clock \notin Timed
  /\ NULL \notin Unit /\ QUEUE_LIST_END \notin Unit \union {NULL}

VARIABLES
  now,               \* the time
  a_next,            \* one link per unit, for the lists of both threads
  sim_wallclock_queue, sim_wallclock_entry, sim_asynch_queue,
  a_due_time,
  thread,            \* the timer thread: where it is, the unit it holds, its wait
  event,             \* the time of each unit on the event queue
  co,                \* the coscheduled units of the clock
  ticks,             \* ticks since the latest calibration
  usecs_remaining,
  main,              \* the simulator's thread: where it is, its call, what follows
  sim_is_running,
  calls, cancels, stops,
  wanted,            \* history: the device units asked for, not served or cancelled
  left,              \* history: the ticks each coscheduled unit still has to see
  overwritten        \* history: units dropped from sim_wallclock_entry

wall == <<a_next, sim_wallclock_queue, sim_wallclock_entry, sim_asynch_queue>>
counts == <<calls, cancels, stops>>
vars == <<now, wall, a_due_time, thread, event, co, ticks, usecs_remaining, main,
          sim_is_running, counts, wanted, left, overwritten>>

\* The units linked from a pointer, in order.
Chain(next, first) ==
  LET p[n \in 0 .. Cardinality(Timed)] ==
        IF n = 0 THEN first
        ELSE IF p[n - 1] \in Timed THEN next[p[n - 1]] ELSE QUEUE_LIST_END
  IN SelectSeq([n \in 1 .. Cardinality(Timed) + 1 |-> p[n - 1]], LAMBDA u : u \in Timed)

WallClock == Range(Chain(a_next, sim_wallclock_queue))
Posted == Range(Chain(a_next, sim_asynch_queue))
Cosched == Range(co.queue)

LockFree == thread.at # "post"       \* sim_timer_lock
ThreadRunning == thread.at \notin {"none", "start"}

Idle == [at |-> "run", unit |-> NULL, wait |-> 0, todo |-> <<>>]
NoThread == [at |-> "none", hand |-> NULL, until |-> 0]

Init ==
  /\ now = 0
  /\ a_next = [u \in Timed |-> NULL]
  /\ sim_wallclock_queue = QUEUE_LIST_END /\ sim_wallclock_entry = NULL
  /\ sim_asynch_queue = QUEUE_LIST_END
  /\ a_due_time = [u \in Timed |-> 0]
  /\ thread = NoThread
  /\ event = [u \in Unit |-> IF u = Clock THEN 0 ELSE Never]
  /\ co = EmptyCosched(Dev)
  /\ ticks = 0
  /\ usecs_remaining = [u \in Dev |-> 0]
  /\ main = [Idle EXCEPT !.at = "stopped"]
  /\ sim_is_running = FALSE
  /\ calls = 0 /\ cancels = 0 /\ stops = 0
  /\ wanted = {} /\ left = [u \in Dev |-> 0] /\ overwritten = {}

-----------------------------------------------------------------------------
\* AIO_UPDATE_QUEUE: what the timer thread posted goes to the event queue, due now.
Updated(ev) == [u \in Unit |-> IF u \in Posted /\ ev[u] = Never THEN now ELSE ev[u]]
UpdatedNext == [u \in Timed |-> IF u \in Posted THEN NULL ELSE a_next[u]]

UpdateQueue(ev) ==
  /\ event' = Updated(ev)
  /\ a_next' = UpdatedNext
  /\ sim_asynch_queue' = QUEUE_LIST_END

\* sim_is_active after the update
IsActive(ev, u) == Updated(ev)[u] # Never \/ UpdatedNext[u] # NULL \/ u \in Cosched

BadSignal(t) == t

\* sim_cond_signal of sim_timer_wake
Signal(t) == IF t.at = "wait" THEN [t EXCEPT !.at = "woken"] ELSE t

\* The simulator's thread is done with a call and goes on with the tick service.
Return(m) == [Idle EXCEPT !.at = IF m.todo = <<>> THEN "run" ELSE "todo", !.todo = m.todo]

-----------------------------------------------------------------------------
(* sim_timer_activate_after *)

\* The call's first half: nothing is done for a unit that is active already.
StartWait(ev, u, d, todo) ==
  LET m == [at |-> "place", unit |-> u, wait |-> d, todo |-> todo] IN
  /\ UpdateQueue(ev)
  /\ main' = IF IsActive(ev, u) THEN Return(m) ELSE m

ActivateAfter(u, d) ==
  /\ main.at = "run" /\ calls < MaxCalls
  /\ Reactivate \/ u \notin wanted
  /\ calls' = calls + 1
  /\ wanted' = wanted \union {u}
  /\ StartWait(event, u, d, <<>>)
  /\ UNCHANGED <<now, sim_wallclock_queue, sim_wallclock_entry, a_due_time, thread, co,
                 ticks, usecs_remaining, sim_is_running, cancels, stops, left, overwritten>>

\* sim_activate_time of the timer unit, less one
TilTick ==
  IF Tick \in WallClock \union {sim_wallclock_entry} THEN Max({a_due_time[Tick] - now, 0})
  ELSE IF a_next[Tick] # NULL \/ event[Tick] = Never THEN 0
  ELSE Max({event[Tick] - now, 0})

TilCalib == TilTick + (Hz - ticks - 1) * Period

\* Waits that outlast the calibration, or two ticks, are coscheduled first.
PastCalib(u, d) == u # Tick /\ TilTick > 0 /\ d > TilCalib
PastTicks(u, d) == u # Tick /\ TilTick > 0 /\ d <= TilCalib /\ d > 2 * Period /\ Hz - ticks > 1

PlaceCosched ==
  LET u == main.unit  d == main.wait IN
  /\ main.at = "place" /\ LockFree
  /\ \/ /\ PastCalib(u, d)
        /\ co' = Coschedule(co, u, Hz - ticks - 1)
        /\ usecs_remaining' = [usecs_remaining EXCEPT ![u] = d - TilCalib]
        /\ left' = [left EXCEPT ![u] = Max({Hz - ticks - 1, 1})]
     \/ /\ PastTicks(u, d)
        /\ co' = Coschedule(co, u, 0)
        /\ usecs_remaining' = [usecs_remaining EXCEPT ![u] = d - TilTick]
        /\ left' = [left EXCEPT ![u] = 1]
  /\ main' = Return(main)
  /\ UNCHANGED <<now, wall, a_due_time, thread, event, ticks, sim_is_running, counts,
                 wanted, overwritten>>

Short(u, d) == ~PastCalib(u, d) /\ ~PastTicks(u, d)

ClearRemaining(u) == IF u \in Dev THEN [usecs_remaining EXCEPT ![u] = 0] ELSE usecs_remaining

PlaceEvent ==
  LET u == main.unit  d == main.wait IN
  /\ main.at = "place" /\ Short(u, d) /\ d <= Sleep
  /\ event' = [event EXCEPT ![u] = now + d]
  /\ usecs_remaining' = ClearRemaining(u)
  /\ main' = Return(main)
  /\ UNCHANGED <<now, wall, a_due_time, thread, co, ticks, sim_is_running, counts, wanted,
                 left, overwritten>>

\* The entries of the wall clock queue a unit due at t comes after.
Earlier(next, queue, due, t) == SelectSeq(Chain(next, queue), LAMBDA v : due[v] <= t)

\* The first unit to become due is left in sim_wallclock_entry for the thread to link.
PlaceWallClock ==
  LET u == main.unit
      due == [a_due_time EXCEPT ![u] = now + main.wait]
      before == Earlier(a_next, sim_wallclock_queue, due, due[u])
  IN
  /\ main.at = "place" /\ LockFree
  /\ Short(u, main.wait) /\ main.wait > Sleep
  /\ a_due_time' = due
  /\ usecs_remaining' = ClearRemaining(u)
  /\ \/ /\ before = <<>>
        /\ a_next' = [a_next EXCEPT ![u] = QUEUE_LIST_END]
        /\ \/ /\ sim_wallclock_entry = NULL
              /\ sim_wallclock_entry' = u
              /\ thread' = Signal(thread)
              /\ main' = Return(main)
           \/ /\ sim_wallclock_entry # NULL
              /\ main' = [main EXCEPT !.at = "busy"]
              /\ UNCHANGED <<sim_wallclock_entry, thread>>
     \/ /\ before # <<>>
        /\ a_next' = [a_next EXCEPT ![u] = a_next[before[Len(before)]], ![before[Len(before)]] = u]
        /\ main' = Return(main)
        /\ UNCHANGED <<sim_wallclock_entry, thread>>
  /\ UNCHANGED <<now, sim_wallclock_queue, sim_asynch_queue, event, co, ticks,
                 sim_is_running, counts, wanted, left, overwritten>>

\* "wait for any prior entry has been digested"
PlaceEntry ==
  /\ main.at = "busy" /\ LockFree
  /\ sim_wallclock_entry = NULL
  /\ sim_wallclock_entry' = main.unit
  /\ thread' = Signal(thread)
  /\ main' = Return(main)
  /\ UNCHANGED <<now, a_next, sim_wallclock_queue, sim_asynch_queue, a_due_time, event, co,
                 ticks, usecs_remaining, sim_is_running, counts, wanted, left, overwritten>>
-----------------------------------------------------------------------------
(* sim_clock_coschedule_tmr and sim_cancel *)

CoscheduleTicks(u, n) ==
  /\ main.at = "run" /\ calls < MaxCalls
  /\ Reactivate \/ u \notin wanted
  /\ calls' = calls + 1
  /\ wanted' = wanted \union {u}
  /\ UpdateQueue(event)
  /\ IF IsActive(event, u) THEN UNCHANGED <<co, left>>
     ELSE co' = Coschedule(co, u, n) /\ left' = [left EXCEPT ![u] = Max({n, 1})]
  /\ UNCHANGED <<now, sim_wallclock_queue, sim_wallclock_entry, a_due_time, thread, ticks,
                 usecs_remaining, main, sim_is_running, cancels, stops, overwritten>>

\* Up to the lock of _sim_wallclock_cancel
CancelUnit(u) ==
  /\ main.at = "run" /\ cancels + stops < MaxBreaks /\ u \in wanted
  /\ cancels' = cancels + 1
  /\ wanted' = wanted \ {u}
  /\ UpdateQueue(event)
  /\ \/ /\ u \in Cosched
        /\ co' = CoschedCancel(co, u)
        /\ left' = [v \in Dev |-> CASE v = u -> 0
                                [] v \in Cosched \ {u} /\ u = Head(co.queue) -> Skewed
                                [] OTHER -> left[v]]
        /\ usecs_remaining' = [usecs_remaining EXCEPT ![u] = 0]
        /\ UNCHANGED main
     \/ /\ u \notin Cosched
        /\ main' = [main EXCEPT !.at = "cancel", !.unit = u]
        /\ UNCHANGED <<co, usecs_remaining, left>>
  /\ UNCHANGED <<now, sim_wallclock_queue, sim_wallclock_entry, a_due_time, thread, ticks,
                 sim_is_running, calls, stops, overwritten>>

\* The unit before u on the wall clock queue
Before(u) == CHOOSE v \in WallClock : a_next[v] = u

\* The rest: from the lists of the wall clock, or else from the event queue.
Dequeue(u) ==
  \/ /\ u = sim_wallclock_entry
     /\ sim_wallclock_entry' = NULL
     /\ a_next' = [a_next EXCEPT ![u] = NULL]
     /\ UNCHANGED <<sim_wallclock_queue, sim_asynch_queue, thread, event>>
  \/ /\ u = sim_wallclock_queue
     /\ sim_wallclock_queue' = a_next[u]
     /\ a_next' = [a_next EXCEPT ![u] = NULL]
     /\ thread' = Signal(thread)
     /\ UNCHANGED <<sim_wallclock_entry, sim_asynch_queue, event>>
  \/ /\ u \in WallClock \ {sim_wallclock_queue}
     /\ a_next' = [a_next EXCEPT ![Before(u)] = a_next[u], ![u] = NULL]
     /\ UNCHANGED <<sim_wallclock_queue, sim_wallclock_entry, sim_asynch_queue, thread, event>>
  \/ /\ u \notin WallClock \union {sim_wallclock_entry}
     /\ event' = [Updated(event) EXCEPT ![u] = Never]
     /\ a_next' = UpdatedNext
     /\ sim_asynch_queue' = QUEUE_LIST_END
     /\ UNCHANGED <<sim_wallclock_queue, sim_wallclock_entry, thread>>

CancelLocked ==
  /\ main.at = "cancel" /\ LockFree
  /\ Dequeue(main.unit)
  /\ a_due_time' = [a_due_time EXCEPT ![main.unit] = 0]
  /\ usecs_remaining' = [usecs_remaining EXCEPT ![main.unit] = 0]
  /\ main' = Idle
  /\ UNCHANGED <<now, co, ticks, sim_is_running, counts, wanted, left, overwritten>>
-----------------------------------------------------------------------------
(* sim_process_event, and the services it calls *)

Due(u) == event[u] # Never /\ event[u] <= now /\ \A v \in Unit : event[v] # Never => event[u] <= event[v]

\* The clock's own service counts the tick for sim_rtcn_calb and asks for the next one.
ClockTicked == ticks' = (ticks + 1) % Hz

\* A clock unit is on the event queue itself only after a stop: then no
\* coscheduled unit is counted down.
DispatchClock(u) ==
  /\ main.at = "run" /\ Due(u) /\ u \in {Clock, Tick}
  /\ ClockTicked
  /\ StartWait([event EXCEPT ![u] = Never], Tick, Period, IF u = Tick THEN <<Tick>> ELSE <<>>)
  /\ UNCHANGED <<now, sim_wallclock_queue, sim_wallclock_entry, a_due_time, thread, co,
                 usecs_remaining, sim_is_running, counts, wanted, left, overwritten>>

\* A unit with usecs_remaining waits again; any other is served.
DispatchDevice(u) ==
  LET served == [event EXCEPT ![u] = Never] IN
  /\ main.at = "run" /\ Due(u) /\ u \in Dev
  /\ \/ /\ usecs_remaining[u] # 0
        /\ StartWait(served, u, usecs_remaining[u], <<>>)
        /\ UNCHANGED wanted
     \/ /\ usecs_remaining[u] = 0
        /\ event' = served
        /\ wanted' = wanted \ {u}
        /\ UNCHANGED <<a_next, sim_asynch_queue, main>>
  /\ UNCHANGED <<now, sim_wallclock_queue, sim_wallclock_entry, a_due_time, thread, co, ticks,
                 usecs_remaining, sim_is_running, counts, left, overwritten>>

\* The rest of sim_timer_tick_svc: count down and gather the coscheduled units.
TickGather ==
  LET g == Gather(co) IN
  /\ main.at = "todo" /\ Head(main.todo) = Tick
  /\ co' = g.cosched
  /\ left' = [u \in Dev |-> IF u \in Cosched /\ left[u] # Skewed THEN left[u] - 1 ELSE left[u]]
  /\ main' = Return([main EXCEPT !.todo = g.due])
  /\ UNCHANGED <<now, wall, a_due_time, thread, event, ticks, usecs_remaining,
                 sim_is_running, counts, wanted, overwritten>>

\* "Now dispatch that list (in order)."
TickDispatch ==
  LET u == Head(main.todo) IN
  /\ main.at = "todo" /\ u # Tick
  /\ IF usecs_remaining[u] # 0
     THEN StartWait(event, u, usecs_remaining[u], Tail(main.todo))
     ELSE /\ UpdateQueue([event EXCEPT ![u] = now])
          /\ main' = Return([main EXCEPT !.todo = Tail(@)])
  /\ left' = [left EXCEPT ![u] = 0]
  /\ UNCHANGED <<now, sim_wallclock_queue, sim_wallclock_entry, a_due_time, thread, co,
                 ticks, usecs_remaining, sim_is_running, counts, wanted, overwritten>>

\* AIO_CHECK_EVENT in the instruction loop
Poll ==
  /\ main.at = "run" /\ sim_asynch_queue # QUEUE_LIST_END
  /\ UpdateQueue(event)
  /\ UNCHANGED <<now, sim_wallclock_queue, sim_wallclock_entry, a_due_time, thread, co, ticks,
                 usecs_remaining, main, sim_is_running, counts, wanted, left, overwritten>>

Pass ==
  /\ main.at = "run" /\ now < MaxTime
  /\ \A u \in Unit : ~Due(u)
  /\ now' = now + 1
  /\ UNCHANGED <<wall, a_due_time, thread, event, co, ticks, usecs_remaining, main,
                 sim_is_running, counts, wanted, left, overwritten>>
-----------------------------------------------------------------------------
(* _timer_thread *)

\* Link sim_wallclock_entry into the queue: the links and the queue's first unit.
Digested(next) ==
  LET u == sim_wallclock_entry
      before == Earlier(next, sim_wallclock_queue, a_due_time, a_due_time[u])
  IN IF u = NULL THEN [next |-> next, first |-> sim_wallclock_queue]
     ELSE IF before = <<>>
     THEN [next |-> [next EXCEPT ![u] = sim_wallclock_queue], first |-> u]
     ELSE [next |-> [next EXCEPT ![u] = next[before[Len(before)]], ![before[Len(before)]] = u],
           first |-> sim_wallclock_queue]

\* The thread takes the first unit off the queue; sim_activate is yet to come.
PopFirst(next, u) ==
  /\ sim_wallclock_queue' = next[u]
  /\ a_next' = [next EXCEPT ![u] = NULL]
  /\ thread' = [at |-> "post", hand |-> u, until |-> 0]

\* One pass of the loop, up to the wait or the unit that is due.
Iterate(next) ==
  LET d == Digested(next) IN
  \/ /\ ~sim_is_running
     /\ thread' = NoThread
     /\ a_next' = next
     /\ UNCHANGED <<sim_wallclock_queue, sim_wallclock_entry>>
  \/ /\ sim_is_running
     /\ sim_wallclock_entry' = NULL
     /\ IF d.first # QUEUE_LIST_END /\ a_due_time[d.first] - Half <= now
        THEN PopFirst(d.next, d.first)
        ELSE /\ thread' = [at |-> "wait", hand |-> NULL,
                           until |-> IF d.first = QUEUE_LIST_END THEN MaxTime + 1
                                     ELSE a_due_time[d.first] - Half]
             /\ sim_wallclock_queue' = d.first /\ a_next' = d.next

ThreadUnchanged == UNCHANGED <<now, event, co, ticks, usecs_remaining, main, sim_is_running,
                               counts, wanted, left, overwritten>>

ThreadLoop ==
  /\ thread.at \in {"start", "woken"}
  /\ Iterate(a_next)
  /\ UNCHANGED <<sim_asynch_queue, a_due_time>> /\ ThreadUnchanged

ThreadTimeout ==
  /\ thread.at = "wait" /\ now >= thread.until
  /\ thread' = [thread EXCEPT !.at = "expired"]
  /\ UNCHANGED <<wall, a_due_time>> /\ ThreadUnchanged

BadThreadSpurious ==
  /\ thread.at = "wait"
  /\ thread' = [thread EXCEPT !.at = "expired"]
  /\ UNCHANGED <<wall, a_due_time>> /\ ThreadUnchanged

\* sim_cond_timedwait may return without a signal.
ThreadSpurious ==
  /\ thread.at = "wait"
  /\ thread' = Signal(thread)
  /\ UNCHANGED <<wall, a_due_time>> /\ ThreadUnchanged

\* After a timeout the first unit is taken, whichever it is by now.
ThreadExpired ==
  /\ thread.at = "expired"
  /\ \/ /\ sim_wallclock_queue = QUEUE_LIST_END
        /\ thread' = [thread EXCEPT !.at = "woken"]
        /\ UNCHANGED <<a_next, sim_wallclock_queue>>
     \/ /\ sim_wallclock_queue # QUEUE_LIST_END
        /\ PopFirst(a_next, sim_wallclock_queue)
  /\ UNCHANGED <<sim_wallclock_entry, sim_asynch_queue, a_due_time>> /\ ThreadUnchanged

\* sim_activate from the thread: sim_aio_activate links the unit, which a_next shows to be
\* on no list since it was taken.  Its due time is not looked at again.
ThreadPost ==
  LET u == thread.hand IN
  /\ thread.at = "post"
  /\ sim_asynch_queue' = u
  /\ a_due_time' = [a_due_time EXCEPT ![u] = 0]
  /\ Iterate([a_next EXCEPT ![u] = sim_asynch_queue])
  /\ ThreadUnchanged
-----------------------------------------------------------------------------
(* sim_stop_timer_services and sim_start_timer_services, from run_cmd *)

StopRun ==
  /\ main.at = "run" /\ cancels + stops < MaxBreaks
  /\ stops' = stops + 1
  /\ sim_is_running' = FALSE
  /\ main' = [Idle EXCEPT !.at = "stop"]
  /\ UNCHANGED <<now, wall, a_due_time, thread, event, co, ticks, usecs_remaining, calls,
                 cancels, wanted, left, overwritten>>

\* clock_time: what _sim_activate_time finds on the event queue, else no wait at all
StopCheck ==
  /\ main.at = "stop"
  /\ UpdateQueue(event)
  /\ main' = [main EXCEPT !.at = IF IsActive(event, Tick) THEN "stop tick" ELSE "stop cosched",
                          !.wait = IF event[Tick] = Never THEN now ELSE event[Tick]]
  /\ UNCHANGED <<now, sim_wallclock_queue, sim_wallclock_entry, a_due_time, thread, co, ticks,
                 usecs_remaining, sim_is_running, counts, wanted, left, overwritten>>

BadStopTick ==
  /\ main.at = "stop tick" /\ LockFree
  /\ main' = [main EXCEPT !.at = "stop cosched", !.unit = Clock]
  /\ UNCHANGED <<now, wall, a_due_time, thread, event, co, ticks, usecs_remaining,
                 sim_is_running, counts, wanted, left, overwritten>>

StopTick ==
  /\ main.at = "stop tick" /\ LockFree
  /\ Dequeue(Tick)
  /\ a_due_time' = [a_due_time EXCEPT ![Tick] = 0]
  /\ main' = [main EXCEPT !.at = "stop cosched", !.unit = Clock]
  /\ UNCHANGED <<now, co, ticks, usecs_remaining, sim_is_running, counts, wanted,
                 left, overwritten>>

\* The ticks a coscheduled unit is taken to wait for: the first unit's count twice.
StopAccum(u) == co.interval + Accum(co, CHOOSE i \in DOMAIN co.queue : co.queue[i] = u)

\* The clock unit takes its timer unit's place; coscheduled units are due with it.
StopCosched ==
  /\ main.at = "stop cosched"
  /\ event' = [u \in Unit |-> IF u \in Cosched \/ u = main.unit THEN main.wait ELSE event[u]]
  /\ usecs_remaining' = [u \in Dev |->
       IF u \in Cosched THEN usecs_remaining[u] + Max({StopAccum(u) - 1, 0}) * Period
       ELSE usecs_remaining[u]]
  /\ co' = EmptyCosched(Dev)
  /\ left' = [u \in Dev |-> 0]
  /\ main' = [Idle EXCEPT !.at = "stop thread"]
  /\ UNCHANGED <<now, wall, a_due_time, thread, ticks, sim_is_running, counts, wanted,
                 overwritten>>

Stopped == [Idle EXCEPT !.at = "stopped"]

BadStopThread ==
  /\ main.at = "stop thread" /\ LockFree
  /\ main' = IF ThreadRunning THEN [main EXCEPT !.at = "join"] ELSE Stopped
  /\ UNCHANGED <<now, wall, a_due_time, thread, event, co, ticks, usecs_remaining,
                 sim_is_running, counts, wanted, left, overwritten>>

\* A thread that has left already is not joined, and its queue is left alone.
StopThread ==
  /\ main.at = "stop thread" /\ LockFree
  /\ \/ /\ ThreadRunning
        /\ thread' = Signal(thread)
        /\ main' = [main EXCEPT !.at = "join"]
        /\ UNCHANGED <<event, a_next, sim_asynch_queue>>
     \/ /\ ~ThreadRunning
        /\ UpdateQueue(event)
        /\ main' = Stopped
        /\ UNCHANGED thread
  /\ UNCHANGED <<now, sim_wallclock_queue, sim_wallclock_entry, a_due_time, co, ticks,
                 usecs_remaining, sim_is_running, counts, wanted, left, overwritten>>

BadStopJoin ==
  /\ main.at = "join" /\ ~ThreadRunning
  /\ UpdateQueue(event)
  /\ sim_wallclock_queue' = QUEUE_LIST_END
  /\ main' = Stopped
  /\ UNCHANGED <<now, sim_wallclock_entry, a_due_time, thread, co, ticks, usecs_remaining,
                 sim_is_running, counts, wanted, left, overwritten>>

\* "Any wallclock queued events are now migrated to the normal event queue"
StopJoin ==
  /\ main.at = "join" /\ ~ThreadRunning
  /\ event' = [u \in Unit |-> IF u \in WallClock THEN Max({a_due_time[u], now})
                              ELSE Updated(event)[u]]
  /\ a_next' = [u \in Timed |-> IF u \in WallClock THEN NULL ELSE UpdatedNext[u]]
  /\ sim_wallclock_queue' = QUEUE_LIST_END /\ sim_asynch_queue' = QUEUE_LIST_END
  /\ a_due_time' = [u \in Timed |-> IF u \in WallClock THEN 0 ELSE a_due_time[u]]
  /\ main' = Stopped
  /\ UNCHANGED <<now, sim_wallclock_entry, thread, co, ticks, usecs_remaining,
                 sim_is_running, counts, wanted, left, overwritten>>

\* RUN or BOOT: sim_run_boot_prep empties the event queue, and the clock's reset
\* starts the timer unit, which no thread makes wait for sim_wallclock_entry.
Boot ==
  LET due == [a_due_time EXCEPT ![Tick] = now + Period]
      before == Earlier(a_next, sim_wallclock_queue, due, due[Tick])
  IN
  /\ main.at = "stopped" /\ a_next[Tick] = NULL
  /\ event' = [u \in Unit |-> Never]
  /\ wanted' = {u \in wanted : event[u] = Never}
  /\ usecs_remaining' = [u \in Dev |-> IF event[u] = Never THEN usecs_remaining[u] ELSE 0]
  /\ ticks' = 0
  /\ a_due_time' = due
  /\ \/ /\ before = <<>>
        /\ a_next' = [a_next EXCEPT ![Tick] = QUEUE_LIST_END]
        /\ sim_wallclock_entry' = Tick
        /\ overwritten' = overwritten \union ({sim_wallclock_entry} \ {NULL})
     \/ /\ before # <<>>
        /\ a_next' = [a_next EXCEPT ![Tick] = a_next[before[Len(before)]], ![before[Len(before)]] = Tick]
        /\ UNCHANGED <<sim_wallclock_entry, overwritten>>
  /\ UNCHANGED <<now, sim_wallclock_queue, sim_asynch_queue, thread, co, main,
                 sim_is_running, counts, left>>

Continue ==
  /\ main.at = "stopped"
  /\ sim_is_running' = TRUE
  /\ thread' = [NoThread EXCEPT !.at = "start"]
  /\ main' = [Idle EXCEPT !.at = "starting"]
  /\ UNCHANGED <<now, wall, a_due_time, event, co, ticks, usecs_remaining, counts, wanted,
                 left, overwritten>>

\* "Wait for thread to stabilize"
Started ==
  /\ main.at = "starting" /\ ThreadRunning /\ LockFree
  /\ main' = Idle
  /\ UNCHANGED <<now, wall, a_due_time, thread, event, co, ticks, usecs_remaining,
                 sim_is_running, counts, wanted, left, overwritten>>
-----------------------------------------------------------------------------
Service == \E u \in Unit : DispatchClock(u) \/ DispatchDevice(u)
InCall ==
  \/ PlaceCosched \/ PlaceEvent \/ PlaceWallClock \/ PlaceEntry \/ CancelLocked
  \/ TickGather \/ TickDispatch
  \/ StopCheck \/ StopTick \/ StopCosched \/ StopThread \/ StopJoin \/ Started
TimerThread == ThreadLoop \/ ThreadTimeout \/ ThreadExpired \/ ThreadPost

Next ==
  \/ \E u \in Dev : \/ \E d \in Delay : ActivateAfter(u, d)
                    \/ \E n \in TickCount : CoscheduleTicks(u, n)
                    \/ CancelUnit(u)
  \/ Service \/ InCall \/ Poll \/ Pass \/ StopRun \/ Boot \/ Continue
  \/ TimerThread \/ ThreadSpurious

Spec == Init /\ [][Next]_vars

\* Threads are scheduled, time goes on, and a stopped simulator is continued.
FairSpec ==
  /\ Spec
  /\ WF_vars(Service) /\ WF_vars(InCall) /\ WF_vars(Poll) /\ WF_vars(Pass)
  /\ WF_vars(TimerThread) /\ WF_vars(Continue)
-----------------------------------------------------------------------------
\* Type correctness of the timers' state.
TypeOK ==
  /\ now \in 0 .. MaxTime
  /\ a_next \in [Timed -> Timed \union {NULL, QUEUE_LIST_END}]
  /\ {sim_wallclock_queue, sim_asynch_queue} \subseteq Timed \union {QUEUE_LIST_END}
  /\ sim_wallclock_entry \in Timed \union {NULL}
  /\ a_due_time \in [Timed -> Nat]
  /\ thread.at \in {"none", "start", "wait", "woken", "expired", "post"}
  /\ thread.hand \in Timed \union {NULL} /\ thread.until \in Nat
  /\ event \in [Unit -> Nat \union {Never}]
  /\ co.queue \in Seq(Dev) /\ co.time \in [Dev -> Nat] /\ co.interval \in Nat
  /\ ticks \in 0 .. Hz - 1
  /\ usecs_remaining \in [Dev -> Nat]
  /\ main.unit \in Unit \union {NULL} /\ main.wait \in Nat /\ main.todo \in Seq(Timed)
  /\ sim_is_running \in BOOLEAN
  /\ wanted \subseteq Dev /\ overwritten \subseteq Timed
  /\ left \in [Dev -> Nat \union {Skewed}]

\* The lists and hands a unit may be in.
Places(u) == {p \in 1 .. 8 : \/ p = 1 /\ event[u] # Never
                             \/ p = 2 /\ u \in WallClock
                             \/ p = 3 /\ u = sim_wallclock_entry
                             \/ p = 4 /\ u \in Posted
                             \/ p = 5 /\ u \in Cosched
                             \/ p = 6 /\ thread.at = "post" /\ u = thread.hand
                             \/ p = 7 /\ main.at # "cancel" /\ u = main.unit
                             \/ p = 8 /\ u \in Range(main.todo) \ {Tick}}

\* Every wait a device asked for is in exactly one list or hand, whatever the timer
\* thread, the tick service, a stop or a continue is doing to it, and a wait that was
\* served or cancelled is in none.  Units overwritten in sim_wallclock_entry are left out.
OnePlace ==
  \A u \in Dev \ overwritten :
    \/ main.at = "cancel" /\ u = main.unit
    \/ Cardinality(Places(u)) = IF u \in wanted THEN 1 ELSE 0

\* A clock never stops and never runs twice: of the clock unit and the timer unit that
\* stands for it exactly one is pending, also while sim_stop_timer_services exchanges
\* them and the timer thread posts the tick.
ClockIsPending == Cardinality(Places(Clock)) + Cardinality(Places(Tick)) = 1

\* A unit coscheduled for n ticks is gathered by the n-th tick service, by the next one
\* for 0 or 1, and by no other, also when units are inserted before it or cancelled
\* behind the first.
CoschedOnTick ==
  \A u \in Dev : /\ u \in Cosched => left[u] # 0
                 /\ u \in Range(main.todo) => left[u] \in {0, Skewed}

\* The timer thread takes a unit off the wall clock queue at most half a minimal sleep
\* before it is due, if nothing was cancelled while it slept.
TakenWhenDue ==
  cancels = 0 /\ stops = 0 /\ thread.at = "post" => a_due_time[thread.hand] - Half <= now

\* Every call of the simulator's thread returns: the wait for sim_wallclock_entry to be
\* digested ends, and so does joining the timer thread at a stop.
CallsReturn == []<>(main.at = "run")

OnWallClock(u) == u \in WallClock \union {sim_wallclock_entry}

\* Every unit on the wall clock queue whose time comes leaves it: within the model's time
\* there comes a point from which on no unit that is due waits there.
WallClockServes == <>[](\A u \in Timed : OnWallClock(u) => a_due_time[u] > MaxTime)
=============================================================================
