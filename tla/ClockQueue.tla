----------------------------- MODULE ClockQueue ------------------------------
(***************************************************************************)
(* The event queue of src/core/scp.c as operators on its state.  A clock   *)
(* is a record                                                             *)
(*   queue         units linked from sim_clock_queue, first to be served   *)
(*                 first; <<>> is QUEUE_LIST_END                           *)
(*   time          uptr->time: the wait RELATIVE to the previous entry, 0  *)
(*                 for a unit that is not queued                           *)
(*   interval      sim_interval, counted down by the CPU                   *)
(*   noqueue_time  stands in for the first entry's time while none exists  *)
(*   vm_time       sim_vm_time: simulated time up to the latest update     *)
(*   rtime         sim_rtime: the same, modulo the width of uint32_t       *)
(* The queue is shared with no other thread: threads go through the        *)
(* asynchronous queue (module AsynchQueue).                                *)
(***************************************************************************)
EXTENDS DeltaQueue

CONSTANTS Unit,
          NOQUEUE_WAIT,   \* the interval counted down while nothing is queued
          Word            \* 2^32, the number of values of sim_rtime

ASSUME NoQueueWaitAssumption == NOQUEUE_WAIT \in Nat \ {0}
ASSUME ClockWordAssumption == Word \in Nat /\ Word >= 2 /\ Word % 2 = 0

Clock == [queue : Seq(Unit), time : [Unit -> Int], interval : Int,
          noqueue_time : Int, vm_time : Int, rtime : 0 .. Word - 1]

\* The clock as SCP leaves it before RUN or BOOT.
ResetClock ==
  [queue |-> <<>>, time |-> [u \in Unit |-> 0], interval |-> 0,
   noqueue_time |-> 0, vm_time |-> 0, rtime |-> 0]

Queued(c, u) == \E i \in DOMAIN c.queue : c.queue[i] = u

HeadTime(c) == IF c.queue = <<>> THEN c.noqueue_time ELSE c.time[c.queue[1]]

Advance(c, d) == [c EXCEPT !.vm_time = @ + d, !.rtime = (@ + d) % Word]

\* UPDATE_SIM_TIME: account for what the CPU has counted down.
UpdateSimTime(c) ==
  LET a == Advance(c, HeadTime(c) - c.interval) IN
  IF c.queue = <<>>
  THEN [a EXCEPT !.noqueue_time = c.interval]
  ELSE [a EXCEPT !.time[c.queue[1]] = c.interval]

\* sim_gtime
SimGtime(c) == UpdateSimTime(c).vm_time

\* "sim_interval = noqueue_time = NOQUEUE_WAIT", or the first entry's time.
ReloadInterval(c) ==
  IF c.queue = <<>>
  THEN [c EXCEPT !.interval = NOQUEUE_WAIT, !.noqueue_time = NOQUEUE_WAIT]
  ELSE [c EXCEPT !.interval = c.time[c.queue[1]]]

BadInsert(c, u, t) ==
  LET n == Ahead(c, t)
      wait == t - Accum(c, n)
      placed == [c EXCEPT !.queue = LinkAfter(c.queue, n, u), !.time[u] = wait]
  IN ReloadInterval(IF n < Len(c.queue)
                    THEN [placed EXCEPT !.time[c.queue[n + 1]] = @ - wait]
                    ELSE placed)

\* Put u where it belongs; the entry behind it waits that much less.
Insert(c, u, t) ==
  LET s == UpdateSimTime(c)
      n == Ahead(s, t)
      wait == t - Accum(s, n)
      q == LinkAfter(s.queue, n, u)
      placed == [s EXCEPT !.queue = q, !.time[u] = wait]
  IN ReloadInterval(IF n < Len(s.queue)
                    THEN [placed EXCEPT !.time[s.queue[n + 1]] = @ - wait]
                    ELSE placed)

\* _sim_activate: a unit that is active already is left alone.
Activate(c, u, t) == IF Queued(c, u) THEN c ELSE Insert(c, u, t)

BadCancel(c, u) ==
  IF ~Queued(c, u) THEN c
  ELSE LET s == UpdateSimTime(c)
           n == CHOOSE i \in DOMAIN s.queue : s.queue[i] = u
       IN ReloadInterval([s EXCEPT !.queue = Unlink(s.queue, n), !.time[u] = 0])

\* sim_cancel: the successor takes over the wait of the removed entry.
Cancel(c, u) ==
  IF ~Queued(c, u) THEN c
  ELSE LET s == UpdateSimTime(c)
           n == CHOOSE i \in DOMAIN s.queue : s.queue[i] = u
           inherited == IF n < Len(s.queue)
                        THEN [s EXCEPT !.time[s.queue[n + 1]] = @ + s.time[u]]
                        ELSE s
       IN ReloadInterval([inherited EXCEPT !.queue = Unlink(s.queue, n),
                                           !.time[u] = 0])

\* sim_activate_abs
ActivateAbs(c, u, t) == Activate(Cancel(c, u), u, t)

BadActivateNotBefore(c, u, r) ==
  LET s == UpdateSimTime(Cancel(c, u))
  IN IF r < s.rtime THEN Activate(s, u, 0) ELSE Activate(s, u, r - s.rtime)

\* sim_activate_notbefore: r is a time of sim_grtime, compared modulo Word.
ActivateNotBefore(c, u, r) ==
  LET s == UpdateSimTime(Cancel(c, u))
      ahead == (r - s.rtime) % Word
  IN IF ahead >= Word \div 2 THEN Activate(s, u, 0) ELSE Activate(s, u, ahead)

-----------------------------------------------------------------------------
(* The parts of sim_process_event.                                         *)

\* Set time back to when the first entry was due, if that has passed.
BackUp(c) ==
  IF c.interval >= 0 THEN c
  ELSE LET s == UpdateSimTime([c EXCEPT !.interval = 0])
       IN Advance(s, -HeadTime(s))

\* How far behind the loop starts.
FirstCatchup(c) == IF c.interval < 0 THEN c.interval ELSE 0

\* Take the first entry off and set the interval for the second.
TakeFirst(c, k) ==
  LET s == [c EXCEPT !.queue = Tail(@), !.time[c.queue[1]] = 0] IN
  IF s.queue = <<>> THEN ReloadInterval(s)
  ELSE [s EXCEPT !.interval = (IF k < 0 THEN -k ELSE @) + k + HeadTime(s)]

\* What follows the action: while behind, time moves on to the next entry.
Behind(k) == k < -1
NextCatchup(c, k) == IF Behind(k) THEN k + HeadTime(c) ELSE 0
AfterAction(c, k) == IF Behind(k) THEN Advance(c, HeadTime(c)) ELSE c

\* The loop goes on, unless the action or the user stops it.
StillDue(c, k) == c.interval + k <= 0 /\ c.queue # <<>>
=============================================================================
