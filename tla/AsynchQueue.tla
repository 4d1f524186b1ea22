----------------------------- MODULE AsynchQueue -----------------------------
(***************************************************************************)
(* How I/O threads put units on the event queue (SIM_ASYNCH_IO).  A thread *)
(* links the unit to sim_asynch_queue under sim_asynch_lock; the main      *)
(* thread detaches that list in sim_aio_update_queue and makes the         *)
(* requested call for each unit, releasing the lock meanwhile.  Those      *)
(* calls start with AIO_UPDATE_QUEUE themselves, so migrations nest: the   *)
(* main thread is a stack of activation records.  The instruction loop     *)
(* polls with AIO_CHECK_EVENT, and may sleep in sim_idle_ms_sleep.         *)
(***************************************************************************)
EXTENDS ClockQueue, Functions

CONSTANTS Delay,         \* the waits that are asked for
          NoUnit,        \* in place of a unit, in the calls of the instruction loop
          Latency,       \* sim_asynch_inst_latency
          CallbackCalls, \* the calls completion callbacks make for their unit: a
                         \* subset of {"activate", "abs"}
          MaxPosts,      \* bound: calls made by I/O threads
          MaxCalls,      \* bound: calls made by device code
          MaxIdle,       \* bound: instructions' worth of time in one sleep
          MaxTime        \* bound: instructions executed or slept away

ASSUME LatencyAssumption == Latency \in Nat \ {0}
ASSUME AsynchBoundAssumption == {MaxPosts, MaxCalls, MaxIdle, MaxTime} \subseteq Nat
ASSUME AsynchDelayAssumption == Delay \subseteq Nat
ASSUME NoUnitAssumption == NoUnit \notin Unit
ASSUME CallbackAssumption == CallbackCalls \subseteq {"activate", "abs"}

VARIABLES clock,            \* the event queue, touched by the main thread only
          sim_asynch_queue, \* linked units, latest first
          a_event_time, a_activate_call, \* what the thread asked for
          sim_asynch_check, \* instructions until the next poll
          sim_idle_wait,    \* "no", "waiting", or "signalled"
          stack,            \* the main thread's calls, innermost first
          loop,             \* where the main thread is in the instruction loop
          seen,             \* the value of sim_asynch_check it has loaded
          slept,            \* how long it has been asleep
          posts, calls, elapsed,
          a_due,            \* history: when the request that is linked falls due
          promise,          \* history: the same for the unit on the event queue
          last,             \* history: when the latest call falls due, if it was
                            \* a thread's sim_activate_abs, else -1
          wanted,           \* history: units asked for and not yet served
          early             \* history: how early the latest dispatch came

shared == <<sim_asynch_queue, a_event_time, a_activate_call, a_due>>
vars == <<clock, shared, sim_asynch_check, sim_idle_wait, stack, loop, seen, slept,
          posts, calls, elapsed, promise, last, wanted, early>>

-----------------------------------------------------------------------------
(* Activation records.  A migration holds the rest of its detached list; a *)
(* call holds the steps it still has to do.                                *)

Migration(list) == [kind |-> "migrate", rest |-> list]
CallOf(u, t, due, todo) ==
  [kind |-> "call", unit |-> u, wait |-> t, due |-> due, todo |-> todo]

\* _sim_activate, sim_cancel, sim_activate_abs and sim_process_event, cut at
\* their uses of AIO_UPDATE_QUEUE.
ActivateSteps == <<"update", "insert">>
CancelSteps == <<"update", "update unless empty", "cancel">>
AbsSteps == CancelSteps \o ActivateSteps
ProcessSteps == <<"update", "dispatch">>

\* The units on a part of the asynchronous queue that has been detached.
Detached == UNION {Range(stack[i].rest) :
              i \in {j \in DOMAIN stack : stack[j].kind = "migrate"}}

\* a_next # NULL
Linked(u) == u \in Range(sim_asynch_queue) \cup Detached

Init ==
  /\ clock = ReloadInterval(ResetClock)
  /\ sim_asynch_queue = <<>>
  /\ a_event_time = [u \in Unit |-> 0]
  /\ a_activate_call = [u \in Unit |-> "activate"]
  /\ sim_asynch_check = 0 /\ sim_idle_wait = "no"
  /\ stack = <<>> /\ loop = "check" /\ seen = 0 /\ slept = 0
  /\ posts = 0 /\ calls = 0 /\ elapsed = 0 /\ early = 0
  /\ a_due = [u \in Unit |-> 0] /\ promise = [u \in Unit |-> 0]
  /\ last = [u \in Unit |-> -1] /\ wanted = {}

-----------------------------------------------------------------------------
(* I/O threads.                                                            *)

BadLink(u, call, t) ==
  /\ a_event_time' = [a_event_time EXCEPT ![u] = t]
  /\ a_due' = [a_due EXCEPT ![u] = elapsed + t]
  /\ a_activate_call' = [a_activate_call EXCEPT ![u] = call]
  /\ sim_asynch_queue' = <<u>> \o sim_asynch_queue

Link(u, call, t) ==
  IF Linked(u)
  THEN /\ a_activate_call' = [a_activate_call EXCEPT ![u] = "abs"]
       /\ UNCHANGED <<sim_asynch_queue, a_event_time, a_due>>
  ELSE /\ a_event_time' = [a_event_time EXCEPT ![u] = t]
       /\ a_due' = [a_due EXCEPT ![u] = elapsed + t]
       /\ a_activate_call' = [a_activate_call EXCEPT ![u] = call]
       /\ sim_asynch_queue' = <<u>> \o sim_asynch_queue

\* sim_aio_activate, all of it under sim_asynch_lock.
Post(u, call, t) ==
  /\ posts < MaxPosts
  /\ posts' = posts + 1
  /\ Link(u, call, t)
  /\ sim_asynch_check' = 0
  /\ sim_idle_wait' = IF sim_idle_wait = "waiting" THEN "signalled" ELSE sim_idle_wait
  /\ last' = [last EXCEPT ![u] = IF call = "abs" THEN elapsed + t ELSE -1]
  /\ wanted' = wanted \cup {u}
  /\ UNCHANGED <<clock, stack, loop, seen, slept, calls, elapsed, promise, early>>

-----------------------------------------------------------------------------
(* The main thread inside a call.                                          *)

Top == stack[1]
Below == Tail(stack)
Doing(step) == stack # <<>> /\ Top.kind = "call" /\ Top.todo # <<>> /\ Head(Top.todo) = step
Rest == <<[Top EXCEPT !.todo = Tail(@)]>> \o Below

Inside == UNCHANGED <<sim_asynch_check, sim_idle_wait, loop, seen, slept, posts, calls, elapsed>>
Quiet == Inside /\ UNCHANGED <<clock, promise, wanted, early>>

\* sim_aio_update_queue takes the whole list, if there is one.
Detach(s) ==
  IF sim_asynch_queue = <<>> THEN stack' = s /\ UNCHANGED shared
  ELSE /\ stack' = <<Migration(sim_asynch_queue)>> \o s
       /\ sim_asynch_queue' = <<>>
       /\ UNCHANGED <<a_event_time, a_activate_call, a_due>>

Update ==
  /\ Doing("update")
  /\ Detach(Rest)
  /\ UNCHANGED last /\ Quiet

\* sim_cancel returns early if the event queue is empty.
UpdateUnlessEmpty ==
  /\ Doing("update unless empty")
  /\ IF clock.queue = <<>>
     THEN stack' = <<[Top EXCEPT !.todo = Tail(Tail(@))]>> \o Below /\ UNCHANGED shared
     ELSE Detach(Rest)
  /\ UNCHANGED last /\ Quiet

BadShortened(t) == 0

\* The wait of a migrated unit makes up for the polling interval.
Half == (Latency + 1) \div 2
Shortened(t) == IF t < Half THEN 0 ELSE t - Half

BadMigrateNext ==
  /\ stack # <<>> /\ Top.kind = "migrate" /\ Top.rest # <<>>
  /\ LET u == Head(Top.rest)
         call == CallOf(u, Shortened(a_event_time[u]), a_due[u], <<"request", "completion">>)
     IN stack' = <<call>> \o Below
  /\ UNCHANGED <<shared, last>> /\ Quiet

BadUnlink ==
  /\ stack # <<>> /\ Top.kind = "migrate" /\ Top.rest # <<>>
  /\ LET u == Head(Top.rest)
         call == CallOf(u, Shortened(a_event_time[u]), a_due[u], <<"request", "completion">>)
     IN stack' = <<call, Migration(Top.rest)>> \o Below
  /\ UNCHANGED <<shared, last>> /\ Quiet

\* Unlink the next unit of the detached list; the lock is released for its call.
MigrateNext ==
  /\ stack # <<>> /\ Top.kind = "migrate" /\ Top.rest # <<>>
  /\ LET u == Head(Top.rest)
         call == CallOf(u, Shortened(a_event_time[u]), a_due[u], <<"request", "completion">>)
     IN stack' = <<call, Migration(Tail(Top.rest))>> \o Below
  /\ UNCHANGED <<shared, last>> /\ Quiet

MigrateDone ==
  /\ stack # <<>> /\ Top.kind = "migrate" /\ Top.rest = <<>>
  /\ stack' = Below
  /\ UNCHANGED <<shared, last>> /\ Quiet

\* a_activate_call is read again, now without the lock.
Request ==
  /\ Doing("request")
  /\ LET steps == IF a_activate_call[Top.unit] = "abs" THEN AbsSteps ELSE ActivateSteps
     IN stack' = <<[Top EXCEPT !.todo = steps \o Tail(@)]>> \o Below
  /\ UNCHANGED <<shared, last>> /\ Quiet

\* The rest of _sim_activate: sim_is_active counts a linked unit as active.
DoInsert ==
  /\ Doing("insert")
  /\ IF Linked(Top.unit) \/ Queued(clock, Top.unit)
     THEN UNCHANGED <<clock, promise>>
     ELSE /\ clock' = Activate(clock, Top.unit, Top.wait)
          /\ promise' = [promise EXCEPT ![Top.unit] = Top.due]
  /\ stack' = Rest
  /\ UNCHANGED <<shared, last, wanted, early>> /\ Inside

DoCancel ==
  /\ Doing("cancel")
  /\ clock' = Cancel(clock, Top.unit)
  /\ wanted' = wanted \ {Top.unit}
  /\ stack' = Rest
  /\ UNCHANGED <<shared, promise, last, early>> /\ Inside

\* Device code, on the main thread, calls the event queue.
DeviceCall(u, call, t, s) ==
  /\ stack' = <<CallOf(u, t, elapsed + t,
                  CASE call = "abs" -> AbsSteps
                    [] call = "cancel" -> CancelSteps
                    [] OTHER -> ActivateSteps)>> \o s
  /\ last' = [last EXCEPT ![u] = -1]

\* a_check_completion: the device's callback may reschedule its unit.
Completion ==
  /\ Doing("completion")
  /\ \/ stack' = Rest /\ UNCHANGED last
     \/ \E call \in CallbackCalls, t \in Delay : DeviceCall(Top.unit, call, t, Rest)
  /\ UNCHANGED shared /\ Quiet

CallDone ==
  /\ stack # <<>> /\ Top.kind = "call" /\ Top.todo = <<>>
  /\ stack' = Below
  /\ UNCHANGED <<shared, last>> /\ Quiet

\* Take the first entry off the event queue and run its action, which makes no
\* calls here; AIO_EVENT_COMPLETE then updates the queue.  The activation record
\* keeps sim_interval_catchup in wait.
Serve(c, k) ==
  LET u == c.queue[1] IN
  /\ clock' = TakeFirst(c, k)
  /\ stack' = <<[Top EXCEPT !.todo = <<"update", "loop test">>, !.wait = k]>> \o Below
  /\ early' = promise[u] - elapsed
  /\ wanted' = wanted \ {u}

Served(c) ==
  /\ clock' = IF c.queue = <<>> THEN ReloadInterval(c) ELSE c
  /\ stack' = Rest
  /\ UNCHANGED <<early, wanted>>

DispatchFirst ==
  /\ Doing("dispatch")
  /\ LET c == UpdateSimTime(clock)
     IN IF c.interval > 0 THEN clock' = c /\ stack' = Rest /\ UNCHANGED <<early, wanted>>
        ELSE IF c.queue = <<>> THEN Served(c)
        ELSE Serve(BackUp(c), FirstCatchup(c))
  /\ UNCHANGED <<shared, promise, last>> /\ Inside

\* EventQueue says what happens when time is behind and the queue is empty.
DispatchMore ==
  /\ Doing("loop test")
  /\ Behind(Top.wait) => clock.queue # <<>>
  /\ LET c == AfterAction(clock, Top.wait)
         k == NextCatchup(clock, Top.wait)
     IN IF StillDue(c, k) THEN Serve(c, k) ELSE Served(c)
  /\ UNCHANGED <<shared, promise, last>> /\ Inside

-----------------------------------------------------------------------------
(* The instruction loop.                                                   *)

At(where) == stack = <<>> /\ loop = where
Kept == UNCHANGED <<shared, posts, promise, last, wanted, early>>
ProcessCall == CallOf(NoUnit, 0, 0, ProcessSteps)
UpdateCall == CallOf(NoUnit, 0, 0, <<"update">>)

\* AIO_CHECK_EVENT: load, decrement and store are not atomic.
CheckLoad ==
  /\ At("check")
  /\ seen' = sim_asynch_check /\ loop' = "store"
  /\ UNCHANGED <<clock, sim_asynch_check, sim_idle_wait, stack, slept, calls, elapsed>> /\ Kept

BadCheckStore ==
  /\ At("store")
  /\ sim_asynch_check' = seen - 1 /\ seen' = 0
  /\ stack' = stack
  /\ loop' = IF seen - 1 < 0 THEN "rearm" ELSE "process"
  /\ UNCHANGED <<clock, sim_idle_wait, slept, calls, elapsed>> /\ Kept

CheckStore ==
  /\ At("store")
  /\ sim_asynch_check' = seen - 1 /\ seen' = 0
  /\ IF seen - 1 < 0
     THEN stack' = <<UpdateCall>> /\ loop' = "rearm"
     ELSE stack' = stack /\ loop' = "process"
  /\ UNCHANGED <<clock, sim_idle_wait, slept, calls, elapsed>> /\ Kept

CheckRearm ==
  /\ At("rearm")
  /\ sim_asynch_check' = Latency /\ loop' = "process"
  /\ UNCHANGED <<clock, sim_idle_wait, stack, seen, slept, calls, elapsed>> /\ Kept

ProcessEvents ==
  /\ At("process")
  /\ stack' = IF clock.interval <= 0 THEN <<ProcessCall>> ELSE stack
  /\ loop' = "execute"
  /\ UNCHANGED <<clock, sim_asynch_check, sim_idle_wait, seen, slept, calls, elapsed>> /\ Kept

Execute ==
  /\ At("execute") /\ elapsed < MaxTime
  /\ elapsed' = elapsed + 1
  /\ clock' = [clock EXCEPT !.interval = @ - 1]
  /\ loop' = "device"
  /\ UNCHANGED <<sim_asynch_check, sim_idle_wait, stack, seen, slept, calls>> /\ Kept

\* What the instruction does to devices.
ExecuteCall(u, call, t) ==
  /\ At("device") /\ calls < MaxCalls
  /\ calls' = calls + 1
  /\ DeviceCall(u, call, t, <<>>)
  /\ UNCHANGED <<clock, shared, sim_asynch_check, sim_idle_wait, loop, seen, slept, posts,
                 elapsed, promise, wanted, early>>

ExecuteDone ==
  /\ At("device") /\ loop' = "check"
  /\ UNCHANGED <<clock, sim_asynch_check, sim_idle_wait, stack, seen, slept, calls, elapsed>> /\ Kept

\* sim_idle calls sim_idle_ms_sleep: wait for sim_asynch_wake, but not longer
\* than until the first entry is due.
IdleSleep ==
  /\ At("device") /\ clock.queue # <<>> /\ clock.interval > 0
  /\ clock' = UpdateSimTime(clock)
  /\ sim_idle_wait' = "waiting" /\ loop' = "sleep"
  /\ UNCHANGED <<sim_asynch_check, stack, seen, slept, calls, elapsed>> /\ Kept

IdlePass ==
  /\ At("sleep") /\ slept < MaxIdle /\ slept < clock.interval /\ elapsed < MaxTime
  /\ slept' = slept + 1 /\ elapsed' = elapsed + 1
  /\ UNCHANGED <<clock, sim_asynch_check, sim_idle_wait, stack, loop, seen, calls>> /\ Kept

\* The wait ends without a timeout, and AIO_UPDATE_QUEUE follows.
IdleWoken ==
  /\ At("sleep") /\ sim_idle_wait = "signalled"
  /\ sim_idle_wait' = "no" /\ sim_asynch_check' = 0
  /\ stack' = <<UpdateCall>> /\ loop' = "idled"
  /\ UNCHANGED <<clock, seen, slept, calls, elapsed>> /\ Kept

IdleTimeout ==
  /\ At("sleep")
  /\ sim_idle_wait' = "no" /\ loop' = "idled"
  /\ UNCHANGED <<clock, sim_asynch_check, stack, seen, slept, calls, elapsed>> /\ Kept

\* Back in sim_idle: the time asleep is counted down.  slept is act_cyc, with the
\* correction for instructions executed since the previous sleep.
IdleDone ==
  /\ At("idled")
  /\ clock' = UpdateSimTime([clock EXCEPT !.interval = @ - slept])
  /\ slept' = 0 /\ loop' = "check"
  /\ UNCHANGED <<sim_asynch_check, sim_idle_wait, stack, seen, calls, elapsed>> /\ Kept

\* The bound, not the program, ends the run.
OutOfTime == At("execute") /\ elapsed = MaxTime /\ UNCHANGED vars

-----------------------------------------------------------------------------
Main ==
  \/ Update \/ UpdateUnlessEmpty \/ MigrateNext \/ MigrateDone \/ Request
  \/ DoInsert \/ DoCancel \/ Completion \/ CallDone \/ DispatchFirst \/ DispatchMore
  \/ CheckLoad \/ CheckStore \/ CheckRearm \/ ProcessEvents \/ Execute \/ ExecuteDone \/ IdleDone

Devices ==
  \E u \in Unit, t \in Delay, call \in {"activate", "abs", "cancel"} : ExecuteCall(u, call, t)

Threads == \E u \in Unit, t \in Delay, call \in {"activate", "abs"} : Post(u, call, t)

Next == Main \/ Devices \/ Threads \/ IdleSleep \/ IdlePass \/ IdleWoken \/ IdleTimeout \/ OutOfTime

Spec == Init /\ [][Next]_vars

-----------------------------------------------------------------------------
(* Properties.                                                             *)

Frames == {stack[i] : i \in DOMAIN stack}
CallsFor(u) == {f \in Frames : f.kind = "call" /\ f.unit = u}

TypeOK ==
  /\ clock \in Clock
  /\ sim_asynch_queue \in Seq(Unit)
  /\ a_event_time \in [Unit -> Delay \cup {0}]
  /\ a_activate_call \in [Unit -> {"activate", "abs"}]
  /\ sim_asynch_check \in -1 .. Latency
  /\ sim_idle_wait \in {"no", "waiting", "signalled"}
  /\ (sim_idle_wait = "no") <=> (loop # "sleep")
  /\ wanted \subseteq Unit

\* A unit is linked to the asynchronous queue at most once, counting the parts
\* that were detached: a_next is one pointer.
LinkedOnce ==
  LET lists == <<sim_asynch_queue>> \o
        [i \in DOMAIN stack |-> IF stack[i].kind = "migrate" THEN stack[i].rest ELSE <<>>]
  IN \A i, j \in DOMAIN lists :
       IF i = j THEN IsInjective(lists[i]) ELSE Range(lists[i]) \cap Range(lists[j]) = {}

\* What a thread asked for is not lost while lists are detached, migrations
\* nest and requests are repeated: until it is served or cancelled the unit is
\* linked, on its way, or on the event queue.
NothingLost ==
  \A u \in wanted : Linked(u) \/ CallsFor(u) # {} \/ Queued(clock, u)

\* An event comes at most half the polling interval before the number of
\* instructions that was asked for has been executed.
EarlyByHalfAtMost == early <= Half

\* "any operation which would have been scheduled to occur in 'n' instructions
\* will still occur ... at least 'n' instructions after it was initiated".
\* The code does not satisfy this; README.md has the behaviour.
AtLeastN == early <= 0

\* sim_activate_abs: "If the unit is already active, the specified waiting
\* period overrides the currently pending waiting period."
\* The code does not satisfy this; README.md has the behaviour.
AbsOverrides ==
  \A u \in Unit :
    Queued(clock, u) /\ ~Linked(u) /\ CallsFor(u) = {} /\ last[u] # -1
      => promise[u] = last[u]

\* sim_cancel "removes the specified unit from the active queue": when it
\* looks for the unit, every request made earlier is on the event queue.
CancelFindsAll == Doing("cancel") => Top.unit \notin Detached

\* A thread's request is picked up after Latency + 1 instructions at the latest,
\* each with the sleep that may follow it, although the main thread may overwrite
\* the 0 that sim_aio_activate stores in sim_asynch_check.
PollBound == (Latency + 1) * (1 + MaxIdle)
MigratedInTime ==
  \A u \in Unit : Linked(u) => elapsed - (a_due[u] - a_event_time[u]) <= PollBound
=============================================================================
