----------------------------- MODULE CoschedQueue -----------------------------
(***************************************************************************)
(* A clock's list of coscheduled units, clock_cosched_queue, as operators  *)
(* on a record: the units in order, each one's ticks after its predecessor *)
(* (UNIT.time), and cosched_interval, the ticks left for the first.        *)
(***************************************************************************)
EXTENDS DeltaQueue, Functions, FiniteSetsExt

EmptyCosched(units) == [queue |-> <<>>, time |-> [u \in units |-> 0], interval |-> 0]

\* The first entry's time lags behind cosched_interval between ticks.
Refreshed(c) == IF c.queue = <<>> THEN c ELSE [c EXCEPT !.time[Head(c.queue)] = c.interval]

BadCoschedule(c0, u, ticks) ==
  LET c == Refreshed(c0)
      before == Ahead(c, ticks)
  IN [c EXCEPT !.queue = LinkAfter(c.queue, before, u),
               !.time = [@ EXCEPT ![u] = ticks - Accum(c, before)],
               !.interval = IF before = 0 THEN ticks ELSE @]

\* sim_clock_coschedule_tmr for a unit that is not active
Coschedule(c0, u, ticks) ==
  LET c == Refreshed(c0)
      before == Ahead(c, ticks)
      wait == ticks - Accum(c, before)
  IN [c EXCEPT !.queue = LinkAfter(c.queue, before, u),
               !.time = [v \in DOMAIN c.time |->
                           IF v = u THEN wait
                           ELSE IF before < Len(c.queue) /\ v = c.queue[before + 1]
                           THEN c.time[v] - wait ELSE c.time[v]],
               !.interval = IF before = 0 THEN wait ELSE @]

\* _sim_coschedule_cancel leaves cosched_interval as it is.
CoschedCancel(c, u) ==
  LET i == CHOOSE j \in DOMAIN c.queue : c.queue[j] = u
  IN [c EXCEPT !.queue = Unlink(c.queue, i),
               !.time = [v \in DOMAIN c.time |->
                           IF v = u THEN 0
                           ELSE IF i < Len(c.queue) /\ v = c.queue[i + 1]
                           THEN c.time[v] + c.time[u] ELSE c.time[v]]]

\* sim_timer_tick_svc: count the tick, and gather the entries that are due.
\* cosched_interval means nothing, and is left alone here, while no unit is queued.
Gather(c0) ==
  LET c == Refreshed([c0 EXCEPT !.interval = @ - 1])
      size == Len(c.queue)
      n == Ahead(c, 0)
      due == SubSeq(c.queue, 1, n)
      wait == IF n = size THEN 0 ELSE Accum(c, n + 1)
  IN CASE c0.queue = <<>> -> [cosched |-> c0, due |-> <<>>]
       [] c0.queue # <<>> /\ c.interval > 0 -> [cosched |-> c, due |-> <<>>]
       [] OTHER ->
            [due |-> due,
             cosched |-> Refreshed([queue |-> SubSeq(c.queue, n + 1, size),
                                    time |-> [u \in DOMAIN c.time |->
                                                IF u \in Range(due) THEN 0 ELSE c.time[u]],
                                    interval |-> wait])]
=============================================================================
