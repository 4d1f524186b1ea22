----------------------------- MODULE DeltaQueue ------------------------------
(***************************************************************************)
(* What sim_clock_queue of scp.c and clock_cosched_queue of sim_timer.c    *)
(* have in common: a linked list of units, first to be served first, where *)
(* UNIT.time counts from the entry before.                                 *)
(***************************************************************************)
EXTENDS Integers, Sequences

\* The list with u linked behind its first n units, and without its n-th unit.
LinkAfter(q, n, u) ==
  [i \in 1 .. Len(q) + 1 |-> IF i <= n THEN q[i] ELSE IF i = n + 1 THEN u ELSE q[i - 1]]
Unlink(q, n) == [i \in 1 .. Len(q) - 1 |-> IF i < n THEN q[i] ELSE q[i + 1]]

\* The wait of the i-th entry from now: the accum of the queue walks.
Accum(c, i) ==
  LET sum[k \in 0 .. Len(c.queue)] ==
        IF k = 0 THEN 0 ELSE sum[k - 1] + c.time[c.queue[k]]
  IN sum[i]

BadAheadAll(c, t) == Len(c.queue)
BadAhead(c, t) ==
  CHOOSE n \in 0 .. Len(c.queue) : /\ \A i \in 1 .. n : t > Accum(c, i)
                                   /\ n < Len(c.queue) => t <= Accum(c, n + 1)

\* How many entries the insertion walk passes: a wait of t comes after equal waits.
Ahead(c, t) ==
  CHOOSE n \in 0 .. Len(c.queue) : /\ \A i \in 1 .. n : t >= Accum(c, i)
                                   /\ n < Len(c.queue) => t < Accum(c, n + 1)
=============================================================================
