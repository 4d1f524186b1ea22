----------------------------- MODULE TimersProofs -----------------------------
(***************************************************************************)
(* A coscheduled unit is gathered by the tick it was coscheduled for       *)
(* (CoschedOnTick).  What the wall clock queue and the timer thread do has *)
(* no part in it: the list of coscheduled units belongs to the simulator's *)
(* thread.  Its sums are those of the event queue, so that their lemmas    *)
(* are taken from ClockQueueProofs.                                        *)
(***************************************************************************)
EXTENDS Timers, TLAPS

Sums == INSTANCE ClockQueueProofs WITH Unit <- Dev, NOQUEUE_WAIT <- 1, Word <- 2

-----------------------------------------------------------------------------
(* The list of coscheduled units.                                          *)

\* The walks are the same ones.
LEMMA SameWalks ==
  /\ \A c, i : Sums!Accum(c, i) = Accum(c, i)
  /\ \A c, t : Sums!Ahead(c, t) = Ahead(c, t)
  /\ \A q, n, u : Sums!LinkAfter(q, n, u) = LinkAfter(q, n, u)
  /\ \A q, n : Sums!Unlink(q, n) = Unlink(q, n)
<1>1. \A c, i : Sums!Accum(c, i) = Accum(c, i)
  BY DEF Accum, Sums!Accum
<1>2. \A c, t : Sums!Ahead(c, t) = Ahead(c, t)
  BY <1>1, Zenon DEF Ahead, Sums!Ahead
<1>3. \A q, n, u : Sums!LinkAfter(q, n, u) = LinkAfter(q, n, u)
  BY DEF LinkAfter, Sums!LinkAfter
<1>4. \A q, n : Sums!Unlink(q, n) = Unlink(q, n)
  BY DEF Unlink, Sums!Unlink
<1> QED BY <1>1, <1>2, <1>3, <1>4, Zenon

\* Induction up to a bound.
LEMMA BoundedInduction ==
  ASSUME NEW N \in Nat, NEW S \in SUBSET (0 .. N), 0 \in S, \A n \in S : n < N => n + 1 \in S
  PROVE  S = 0 .. N
BY Sums!BoundedInduction

\* The walk of an insertion.
LEMMA AheadFacts ==
  ASSUME NEW c, c.queue \in Seq(Dev), c.time \in [Dev -> Int], NEW t \in Int
  PROVE  LET n == Ahead(c, t) IN
         /\ n \in 0 .. Len(c.queue)
         /\ \A i \in 1 .. n : Accum(c, i) <= t
         /\ n < Len(c.queue) => t < Accum(c, n + 1)
<1>1. LET m == Sums!Ahead(c, t) IN
      /\ m \in 0 .. Len(c.queue)
      /\ \A i \in 1 .. m : Sums!Accum(c, i) <= t
      /\ m < Len(c.queue) => t < Sums!Accum(c, m + 1)
  BY Sums!AheadFacts
<1> QED BY <1>1, SameWalks, Zenon

\* Unlinking one.
LEMMA UnlinkFacts ==
  ASSUME NEW s, NEW p, NEW u \in Dev, NEW n, Sums!UnlinkedAt(s, p, u, n)
  PROVE  LET N == Len(s.queue) IN
         /\ Sums!Delta(p) /\ Len(p.queue) = N - 1
         /\ \A i \in 1 .. n - 1 : p.queue[i] = s.queue[i] /\ Accum(p, i) = Accum(s, i)
         /\ \A i \in n .. N - 1 : p.queue[i] = s.queue[i + 1] /\ Accum(p, i) = Accum(s, i + 1)
<1>1. Sums!UnlinkKeeps(s, p, n)
  BY Sums!UnlinkFacts
<1> QED BY <1>1, SameWalks, Zenon DEF Sums!UnlinkKeeps

CoschedRecord == [queue : Seq(Dev), time : [Dev -> Int], interval : Int]

\* No unit is coscheduled twice, and only the first relative time can be negative.
Sorted(c) == c \in CoschedRecord /\ Sums!Delta(c)

\* The ticks the i-th unit still has to wait for, by cosched_interval and the relative times.
TicksTo(c, i) == c.interval + Accum(c, i) - c.time[c.queue[1]]

\* The fields of the record.
LEMMA SortedFields ==
  ASSUME NEW c, Sorted(c)
  PROVE  /\ c.queue \in Seq(Dev) /\ c.time \in [Dev -> Int] /\ c.interval \in Int
         /\ Len(c.queue) \in Nat /\ DOMAIN c.queue = 1 .. Len(c.queue)
         /\ \A i \in 1 .. Len(c.queue) : c.queue[i] \in Dev /\ c.time[c.queue[i]] \in Int
         /\ \A i, j \in 1 .. Len(c.queue) : c.queue[i] = c.queue[j] => i = j
         /\ \A i \in 2 .. Len(c.queue) : c.time[c.queue[i]] >= 0
         /\ c.queue # <<>> <=> Len(c.queue) >= 1
<1>1. c.queue \in Seq(Dev) /\ c.time \in [Dev -> Int] /\ c.interval \in Int
  BY DEF Sorted, CoschedRecord
<1>2. Len(c.queue) \in Nat /\ DOMAIN c.queue = 1 .. Len(c.queue) /\ (c.queue # <<>> <=> Len(c.queue) >= 1)
  BY <1>1
<1>3. \A i \in 1 .. Len(c.queue) : c.queue[i] \in Dev
  BY <1>1
<1>4. /\ \A i, j \in 1 .. Len(c.queue) : c.queue[i] = c.queue[j] => i = j
      /\ \A i \in 2 .. Len(c.queue) : c.time[c.queue[i]] >= 0
  BY Zenon DEF Sorted, Sums!Delta
<1> QED BY <1>1, <1>2, <1>3, <1>4

\* The ticks add up from cosched_interval.
LEMMA TicksStep ==
  ASSUME NEW c, Sorted(c)
  PROVE  /\ \A k \in 1 .. Len(c.queue) : TicksTo(c, k) \in Int /\ Accum(c, k) \in Int
         /\ c.queue # <<>> => TicksTo(c, 1) = c.interval /\ Accum(c, 1) = c.time[c.queue[1]]
         /\ \A k \in 2 .. Len(c.queue) : TicksTo(c, k) = TicksTo(c, k - 1) + c.time[c.queue[k]]
<1> DEFINE N == Len(c.queue)
<1>1. /\ c.queue \in Seq(Dev) /\ c.time \in [Dev -> Int] /\ c.interval \in Int /\ N \in Nat
      /\ \A i \in 1 .. N : c.time[c.queue[i]] \in Int
      /\ c.queue # <<>> <=> N >= 1
  BY SortedFields
<1>2. \A k \in 0 .. N : Accum(c, k) \in Int
  BY <1>1, Sums!SumType, SameWalks
<1>3. /\ Accum(c, 0) = 0
      /\ \A k \in 1 .. N : Accum(c, k) = Accum(c, k - 1) + c.time[c.queue[k]]
  BY <1>1, Sums!AccumStep, SameWalks
<1>4. ASSUME NEW k \in 1 .. N PROVE TicksTo(c, k) \in Int /\ Accum(c, k) \in Int
  <2>1. 1 \in 1 .. N /\ k \in 0 .. N
    BY <1>1
  <2>2. Accum(c, k) \in Int /\ c.time[c.queue[1]] \in Int
    BY <1>1, <1>2, <2>1
  <2> QED BY <1>1, <2>2 DEF TicksTo
<1>5. ASSUME N >= 1 PROVE TicksTo(c, 1) = c.interval /\ Accum(c, 1) = c.time[c.queue[1]]
  <2>1. 1 \in 1 .. N /\ 1 - 1 = 0
    BY <1>1, <1>5
  <2>2. Accum(c, 1) = 0 + c.time[c.queue[1]] /\ c.time[c.queue[1]] \in Int
    BY <1>1, <1>3, <2>1
  <2> QED BY <1>1, <2>2 DEF TicksTo
<1>6. ASSUME NEW k \in 2 .. N PROVE TicksTo(c, k) = TicksTo(c, k - 1) + c.time[c.queue[k]]
  <2>1. 1 \in 1 .. N /\ k \in 1 .. N /\ k - 1 \in 1 .. N /\ k - 1 \in 0 .. N
    BY <1>1
  <2>2. /\ Accum(c, k) = Accum(c, k - 1) + c.time[c.queue[k]] /\ Accum(c, k - 1) \in Int
        /\ c.time[c.queue[k]] \in Int /\ c.time[c.queue[1]] \in Int
    BY <1>1, <1>2, <1>3, <2>1
  <2>3. c.interval \in Int
    BY <1>1
  <2> QED BY <2>2, <2>3 DEF TicksTo
<1> QED BY <1>1, <1>4, <1>5, <1>6

\* Later entries wait for as many ticks, or more.
LEMMA TicksOrder ==
  ASSUME NEW c, Sorted(c)
  PROVE  \A i \in 1 .. Len(c.queue) : TicksTo(c, i) >= c.interval
<1> DEFINE N == Len(c.queue)
           S == {k \in 0 .. N : k >= 1 => TicksTo(c, k) >= c.interval}
<1>1. /\ N \in Nat /\ c.interval \in Int
      /\ \A k \in 1 .. N : TicksTo(c, k) \in Int /\ c.time[c.queue[k]] \in Int
      /\ \A k \in 2 .. N : c.time[c.queue[k]] >= 0
      /\ N >= 1 => TicksTo(c, 1) = c.interval
      /\ \A k \in 2 .. N : TicksTo(c, k) = TicksTo(c, k - 1) + c.time[c.queue[k]]
  BY SortedFields, TicksStep
<1>2. 0 \in S /\ S \in SUBSET (0 .. N)
  BY <1>1
<1>3. ASSUME NEW k \in S, k < N PROVE k + 1 \in S
  <2>1. CASE k = 0
    BY <1>1, <1>3, <2>1
  <2>2. CASE k # 0
    <3>1. k + 1 \in 2 .. N /\ (k + 1) - 1 = k /\ k \in 1 .. N /\ k + 1 \in 0 .. N /\ k + 1 \in 1 .. N
      BY <1>1, <1>3, <2>2
    <3>2. TicksTo(c, k + 1) = TicksTo(c, k) + c.time[c.queue[k + 1]] /\ TicksTo(c, k) >= c.interval
      BY <1>1, <3>1
    <3>3. TicksTo(c, k + 1) >= c.interval
      BY <1>1, <3>1, <3>2
    <3> QED BY <3>1, <3>3
  <2> QED BY <2>1, <2>2
<1> HIDE DEF S
<1>4. S = 0 .. N
  BY <1>1, <1>2, <1>3, BoundedInduction, Zenon
<1>5. \A i \in 1 .. N : i \in S /\ i >= 1
  BY <1>1, <1>4
<1> QED BY <1>5, Zenon DEF S

\* Whatever adds up the same way is TicksTo.
LEMMA TicksAre ==
  ASSUME NEW c, Sorted(c), NEW f, c.queue # <<>> => f[1] = c.interval,
         \A k \in 2 .. Len(c.queue) : f[k] = f[k - 1] + c.time[c.queue[k]]
  PROVE  \A k \in 1 .. Len(c.queue) : TicksTo(c, k) = f[k]
<1> DEFINE N == Len(c.queue)
           S == {k \in 0 .. N : k >= 1 => TicksTo(c, k) = f[k]}
<1>1. /\ N \in Nat /\ (c.queue # <<>> <=> N >= 1)
      /\ N >= 1 => TicksTo(c, 1) = c.interval
      /\ \A k \in 2 .. N : TicksTo(c, k) = TicksTo(c, k - 1) + c.time[c.queue[k]]
  BY SortedFields, TicksStep
<1>2. 0 \in S /\ S \in SUBSET (0 .. N)
  BY <1>1
<1>3. ASSUME NEW k \in S, k < N PROVE k + 1 \in S
  <2>1. CASE k = 0
    BY <1>1, <1>3, <2>1
  <2>2. CASE k # 0
    <3>1. k + 1 \in 2 .. N /\ (k + 1) - 1 = k /\ k \in 1 .. N /\ k + 1 \in 0 .. N
      BY <1>1, <1>3, <2>2
    <3>2. TicksTo(c, k + 1) = TicksTo(c, k) + c.time[c.queue[k + 1]] /\ TicksTo(c, k) = f[k]
      BY <1>1, <3>1
    <3>3. f[k + 1] = f[k] + c.time[c.queue[k + 1]]
      BY <3>1
    <3> QED BY <3>1, <3>2, <3>3
  <2> QED BY <2>1, <2>2
<1> HIDE DEF S
<1>4. S = 0 .. N
  BY <1>1, <1>2, <1>3, BoundedInduction, Zenon
<1>5. \A i \in 1 .. N : i \in S /\ i >= 1
  BY <1>1, <1>4
<1> QED BY <1>5, Zenon DEF S

\* An empty list.
LEMMA EmptyFacts == Sorted(EmptyCosched(Dev)) /\ Len(EmptyCosched(Dev).queue) = 0
<1>1. EmptyCosched(Dev) \in CoschedRecord
  BY DEF EmptyCosched, CoschedRecord
<1>2. EmptyCosched(Dev).queue = <<>> /\ EmptyCosched(Dev).time = [u \in Dev |-> 0]
  BY DEF EmptyCosched
<1>3. Sums!Delta(EmptyCosched(Dev))
  BY <1>2 DEF Sums!Delta
<1> QED BY <1>1, <1>2, <1>3 DEF Sorted

\* Bringing the first entry's time up to date changes no unit's ticks.
LEMMA RefreshedFacts ==
  ASSUME NEW c, Sorted(c)
  PROVE  LET s == Refreshed(c) IN
         /\ Sorted(s) /\ s.queue = c.queue /\ s.interval = c.interval
         /\ \A i \in 1 .. Len(c.queue) : Accum(s, i) = TicksTo(c, i) /\ TicksTo(s, i) = TicksTo(c, i)
<1> DEFINE s == Refreshed(c)
           N == Len(c.queue)
<1>1. /\ c.queue \in Seq(Dev) /\ c.time \in [Dev -> Int] /\ c.interval \in Int /\ N \in Nat
      /\ c \in CoschedRecord
      /\ \A i \in 1 .. N : c.queue[i] \in Dev
      /\ \A i, j \in 1 .. N : c.queue[i] = c.queue[j] => i = j
      /\ \A i \in 2 .. N : c.time[c.queue[i]] >= 0
      /\ c.queue # <<>> <=> N >= 1
  BY SortedFields DEF Sorted
<1>2. CASE c.queue = <<>>
  <2>1. s = c /\ N = 0
    BY <1>1, <1>2 DEF Refreshed
  <2> QED BY <1>1, <2>1
<1>3. CASE c.queue # <<>>
  <2> DEFINE t == [c.time EXCEPT ![c.queue[1]] = c.interval]
  <2>1. s = [c EXCEPT !.time = t] /\ N >= 1 /\ c.queue[1] \in Dev
    <3>1. N >= 1 /\ Head(c.queue) = c.queue[1] /\ c.queue[1] \in Dev
      BY <1>1, <1>3
    <3>2. s = [c EXCEPT !.time[Head(c.queue)] = c.interval]
      BY <1>3 DEF Refreshed
    <3> QED BY <3>1, <3>2
  <2>2. t \in [Dev -> Int] /\ t[c.queue[1]] = c.interval
    BY <1>1, <2>1
  <2>3. ASSUME NEW i \in 2 .. N PROVE t[c.queue[i]] = c.time[c.queue[i]]
    <3>1. i \in 1 .. N /\ 1 \in 1 .. N /\ i # 1
      BY <1>1
    <3> QED BY <1>1, <3>1
  <2> HIDE DEF t, s
  <2>4. s \in CoschedRecord /\ s.queue = c.queue /\ s.time = t /\ s.interval = c.interval
    BY <1>1, <2>1, <2>2, Zenon DEF CoschedRecord
  <2>5. Sorted(s)
    <3>1. \A i \in 2 .. N : t[c.queue[i]] >= 0
      BY <1>1, <2>3
    <3> QED BY <1>1, <2>2, <2>4, <3>1, Zenon DEF Sorted, Sums!Delta
  <2>6. \A i \in 1 .. N : TicksTo(s, i) = Accum(s, i) /\ Accum(s, i) \in Int
    <3>1. s.time[s.queue[1]] = s.interval /\ s.interval \in Int
      BY <1>1, <2>2, <2>4
    <3>2. \A i \in 1 .. N : Accum(s, i) \in Int
      BY <2>4, <2>5, TicksStep
    <3> QED BY <3>1, <3>2 DEF TicksTo
  <2>7. \A i \in 1 .. N : TicksTo(c, i) = TicksTo(s, i)
    <3> DEFINE f == [k \in 1 .. N |-> TicksTo(s, k)]
    <3>1. f[1] = c.interval
      <4>1. TicksTo(s, 1) = c.interval
        BY <1>3, <2>4, <2>5, TicksStep
      <4>2. 1 \in 1 .. N
        BY <1>1, <2>1
      <4> QED BY <4>1, <4>2
    <3>2. ASSUME NEW k \in 2 .. N PROVE f[k] = f[k - 1] + c.time[c.queue[k]]
      <4>1. k \in 1 .. N /\ k - 1 \in 1 .. N
        BY <1>1
      <4>2. TicksTo(s, k) = TicksTo(s, k - 1) + t[c.queue[k]]
        BY <2>4, <2>5, TicksStep
      <4> QED BY <2>3, <4>1, <4>2
    <3> HIDE DEF f
    <3>3. \A k \in 1 .. N : TicksTo(c, k) = f[k]
      BY <3>1, <3>2, TicksAre
    <3> QED BY <3>3, Zenon DEF f
  <2> QED BY <2>4, <2>5, <2>6, <2>7 DEF s
<1> QED BY <1>2, <1>3

\* Every unit of d was one of c already, with by ticks more to wait for, or is u, to wait for t.
Shifted(c, d, by, u, t) ==
  \A i \in 1 .. Len(d.queue) :
    \/ d.queue[i] = u /\ TicksTo(d, i) = t
    \/ \E j \in 1 .. Len(c.queue) :
         d.queue[i] = c.queue[j] /\ d.queue[i] # u /\ TicksTo(d, i) = TicksTo(c, j) - by

\* sim_clock_coschedule_tmr gives the unit its ticks and leaves those of all others as they are.
LEMMA CoscheduleFacts ==
  ASSUME NEW c0, Sorted(c0), c0.queue # <<>> => c0.interval >= 0,
         NEW u \in Dev, \A i \in 1 .. Len(c0.queue) : c0.queue[i] # u, NEW t \in Nat
  PROVE  LET d == Coschedule(c0, u, t) IN
         Sorted(d) /\ d.interval >= 0 /\ d.queue # <<>> /\ Shifted(c0, d, 0, u, t)
<1> DEFINE c == Refreshed(c0)
           n == Ahead(c, t)
           wait == t - Accum(c, n)
           q == LinkAfter(c.queue, n, u)
           time == [v \in Dev |-> IF v = u THEN t - Accum(c, n)
                                  ELSE IF n < Len(c.queue) /\ v = c.queue[n + 1]
                                  THEN c.time[v] - (t - Accum(c, n)) ELSE c.time[v]]
           interval == IF n = 0 THEN wait ELSE c.interval
           d == Coschedule(c0, u, t)
           N == Len(c0.queue)
<1>1. /\ Sorted(c) /\ c.queue = c0.queue /\ c.interval = c0.interval
      /\ \A i \in 1 .. N : Accum(c, i) = TicksTo(c0, i)
  BY RefreshedFacts
<1>2. d = [c EXCEPT !.queue = q, !.time = time, !.interval = interval]
  <2>1. DOMAIN c.time = Dev
    BY <1>1, SortedFields
  <2> QED BY <2>1 DEF Coschedule
<1> HIDE DEF c
<1>3. /\ c.queue \in Seq(Dev) /\ c.time \in [Dev -> Int] /\ c.interval \in Int /\ N \in Nat
      /\ c \in CoschedRecord
      /\ c.queue # <<>> <=> N >= 1
  BY <1>1, SortedFields DEF Sorted
<1>4. n \in 0 .. N /\ (\A i \in 1 .. n : Accum(c, i) <= t) /\ (n < N => t < Accum(c, n + 1))
  <2>1. t \in Int
    OBVIOUS
  <2> QED BY <1>1, <1>3, <2>1, AheadFacts, Zenon
<1> HIDE DEF n
<1>5. \A k \in 0 .. N : Accum(c, k) \in Int
  BY <1>1, <1>3, Sums!SumType, SameWalks
<1>6. wait \in Int /\ interval \in Int /\ time \in [Dev -> Int]
  BY <1>3, <1>4, <1>5
<1> HIDE DEF d, interval, time
<1>7. d.queue = q /\ d.time = time /\ d.interval = interval
  BY <1>2, <1>3 DEF CoschedRecord
<1>8. Sums!LinkedAt(c, d, u, t, n)
  <2>1. Sums!Delta(c)
    BY <1>1 DEF Sorted
  <2>2. d.time = [v \in Dev |-> IF v = u THEN t - Sums!Accum(c, n)
                                ELSE IF n < Len(c.queue) /\ v = c.queue[n + 1]
                                THEN c.time[v] - (t - Sums!Accum(c, n)) ELSE c.time[v]]
    BY <1>7, SameWalks, Zenon DEF time
  <2>3. d.queue = Sums!LinkAfter(c.queue, n, u)
    BY <1>7, SameWalks, Zenon
  <2>4. /\ \A i \in 1 .. Len(c.queue) : c.queue[i] # u
        /\ n \in 0 .. Len(c.queue)
        /\ \A i \in 1 .. n : Sums!Accum(c, i) <= t
        /\ n < Len(c.queue) => t < Sums!Accum(c, n + 1)
    BY <1>1, <1>4, SameWalks, Zenon
  <2> QED BY <2>1, <2>2, <2>3, <2>4, Zenon DEF Sums!LinkedAt
<1>9. /\ Sums!Delta(d) /\ Len(d.queue) = N + 1 /\ d.queue[n + 1] = u
      /\ \A i \in 1 .. n : d.queue[i] = c0.queue[i] /\ Accum(d, i) = Accum(c, i)
      /\ \A i \in n + 1 .. N : d.queue[i + 1] = c0.queue[i] /\ Accum(d, i + 1) = Accum(c, i)
      /\ Accum(d, n + 1) = t
  <2>1. t \in Int
    OBVIOUS
  <2>2. Sums!LinkKeeps(c, d, u, t, n)
    BY <1>8, <2>1, Sums!LinkFacts
  <2>3. LET M == Len(c.queue) IN
        /\ Sums!Delta(d) /\ Len(d.queue) = M + 1 /\ d.queue[n + 1] = u /\ Accum(d, n + 1) = t
        /\ \A i \in 1 .. n : d.queue[i] = c.queue[i] /\ Accum(d, i) = Accum(c, i)
        /\ \A i \in n + 1 .. M : d.queue[i + 1] = c.queue[i] /\ Accum(d, i + 1) = Accum(c, i)
    BY <2>2, SameWalks, Zenon DEF Sums!LinkKeeps
  <2> QED BY <1>1, <2>3, Zenon
<1>10. Sorted(d)
  <2>1. d.queue \in Seq(Dev)
    BY <1>9, Zenon DEF Sums!Delta
  <2>2. d \in CoschedRecord
    BY <1>2, <1>3, <1>6, <1>7, <2>1, Zenon DEF CoschedRecord
  <2> QED BY <1>9, <2>2 DEF Sorted
<1>11. d.time[d.queue[1]] = d.interval /\ d.interval \in Nat
  <2>1. d.time[d.queue[1]] = Accum(d, 1)
    <3>1. d.queue # <<>>
      BY <1>3, <1>9, <1>10, SortedFields
    <3> QED BY <1>10, <3>1, TicksStep
  <2>2. CASE n = 0
    <3>1. Accum(c, 0) = 0
      BY <1>1, <1>3, Sums!AccumStep, SameWalks
    <3>2. interval = t
      BY <2>2, <3>1 DEF interval
    <3> QED BY <1>7, <1>9, <2>1, <2>2, <3>2
  <2>3. CASE n # 0
    <3>1. 1 \in 1 .. n /\ 1 \in 1 .. N /\ N >= 1
      BY <1>3, <1>4, <2>3
    <3>2. c.queue # <<>> /\ interval = c.interval
      BY <1>3, <2>3, <3>1 DEF interval
    <3>3. Accum(c, 1) = c0.interval /\ c0.interval >= 0
      <4>1. TicksTo(c0, 1) = c0.interval /\ c0.interval >= 0
        BY <1>1, <3>2, TicksStep
      <4> QED BY <1>1, <3>1, <4>1
    <3> QED BY <1>1, <1>3, <1>7, <1>9, <2>1, <3>1, <3>2, <3>3
  <2> QED BY <2>2, <2>3
<1>12. \A i \in 1 .. N + 1 : TicksTo(d, i) = Accum(d, i)
  <2>1. \A i \in 1 .. N + 1 : Accum(d, i) \in Int
    BY <1>9, <1>10, TicksStep
  <2>2. \A i \in 1 .. N + 1 : d.interval + Accum(d, i) - d.interval = Accum(d, i)
    BY <1>11, <2>1
  <2> QED BY <1>11, <2>2, Zenon DEF TicksTo
<1>13. ASSUME NEW i \in 1 .. N + 1
       PROVE  \/ d.queue[i] = u /\ TicksTo(d, i) = t
              \/ \E j \in 1 .. N : d.queue[i] = c0.queue[j] /\ d.queue[i] # u /\ TicksTo(d, i) = TicksTo(c0, j) - 0
  <2>0. \A j \in 1 .. N : TicksTo(c0, j) - 0 = TicksTo(c0, j)
    BY TicksStep
  <2>1. CASE i \in 1 .. n
    <3>1. i \in 1 .. N
      BY <1>3, <1>4, <2>1
    <3>2. d.queue[i] = c0.queue[i] /\ TicksTo(d, i) = TicksTo(c0, i)
      BY <1>1, <1>9, <1>12, <2>1, <3>1
    <3> QED BY <2>0, <3>1, <3>2
  <2>2. CASE i = n + 1
    BY <1>9, <1>12, <2>2
  <2>3. CASE i - 1 \in n + 1 .. N
    <3>1. i - 1 \in 1 .. N /\ (i - 1) + 1 = i
      BY <1>3, <1>4, <2>3
    <3>2. d.queue[(i - 1) + 1] = c0.queue[i - 1] /\ Accum(d, (i - 1) + 1) = Accum(c, i - 1)
      BY <1>9, <2>3
    <3>3. d.queue[i] = c0.queue[i - 1] /\ TicksTo(d, i) = TicksTo(c0, i - 1)
      BY <1>1, <1>12, <3>1, <3>2
    <3> QED BY <2>0, <3>1, <3>3
  <2> QED BY <1>3, <1>4, <2>1, <2>2, <2>3
<1>14. d.queue # <<>> /\ Shifted(c0, d, 0, u, t)
  <2>1. d.queue # <<>>
    BY <1>3, <1>9, <1>10, SortedFields
  <2> QED BY <1>9, <1>13, <2>1, Zenon DEF Shifted
<1> QED BY <1>10, <1>11, <1>14 DEF d

\* _sim_coschedule_cancel takes the unit off the list.  The other units keep their ticks, except
\* when it was the first one: cosched_interval then counts for its successor.
LEMMA CancelFacts ==
  ASSUME NEW c, Sorted(c), NEW u \in Dev, \E i \in 1 .. Len(c.queue) : c.queue[i] = u
  PROVE  LET d == CoschedCancel(c, u) IN
         /\ Sorted(d) /\ d.interval = c.interval
         /\ \A i \in 1 .. Len(d.queue) : \E j \in 1 .. Len(c.queue) :
              /\ d.queue[i] = c.queue[j] /\ d.queue[i] # u
              /\ c.queue[1] # u => TicksTo(d, i) = TicksTo(c, j)
<1> DEFINE n == CHOOSE j \in DOMAIN c.queue : c.queue[j] = u
           d == CoschedCancel(c, u)
           N == Len(c.queue)
           time == [v \in Dev |-> IF v = u THEN 0
                                  ELSE IF n < Len(c.queue) /\ v = c.queue[n + 1]
                                  THEN c.time[v] + c.time[u] ELSE c.time[v]]
<1>1. /\ c \in CoschedRecord /\ c.queue \in Seq(Dev) /\ c.time \in [Dev -> Int] /\ c.interval \in Int
      /\ N \in Nat /\ DOMAIN c.queue = 1 .. N
      /\ \A i, j \in 1 .. N : c.queue[i] = c.queue[j] => i = j
  BY SortedFields DEF Sorted
<1>2. n \in 1 .. N /\ c.queue[n] = u
  BY <1>1
<1>3. d = [c EXCEPT !.queue = Unlink(c.queue, n), !.time = time]
  <2>1. DOMAIN c.time = Dev
    BY <1>1
  <2> QED BY <2>1 DEF CoschedCancel
<1> HIDE DEF n
<1>4. time \in [Dev -> Int]
  BY <1>1
<1> HIDE DEF d, time
<1>5. d.queue = Unlink(c.queue, n) /\ d.time = time /\ d.interval = c.interval
  BY <1>1, <1>3 DEF CoschedRecord
<1>6. Sums!UnlinkedAt(c, d, u, n)
  <2>1. Sums!Delta(c)
    BY DEF Sorted
  <2>2. d.queue = Sums!Unlink(c.queue, n)
    BY <1>5, SameWalks, Zenon
  <2> QED BY <1>2, <1>5, <2>1, <2>2, Zenon DEF Sums!UnlinkedAt, time
<1>7. /\ Sums!Delta(d) /\ Len(d.queue) = N - 1
      /\ \A i \in 1 .. n - 1 : d.queue[i] = c.queue[i] /\ Accum(d, i) = Accum(c, i)
      /\ \A i \in n .. N - 1 : d.queue[i] = c.queue[i + 1] /\ Accum(d, i) = Accum(c, i + 1)
  BY <1>6, UnlinkFacts, Zenon
<1>8. Sorted(d)
  <2>1. d.queue \in Seq(Dev)
    BY <1>7, Zenon DEF Sums!Delta
  <2>2. d \in CoschedRecord
    BY <1>1, <1>3, <1>4, <1>5, <2>1, Zenon DEF CoschedRecord
  <2> QED BY <1>7, <2>2 DEF Sorted
<1>9. ASSUME c.queue[1] # u, N - 1 >= 1 PROVE d.time[d.queue[1]] = c.time[c.queue[1]]
  <2>1. 1 \in 1 .. n - 1 /\ N >= 1
    BY <1>1, <1>2, <1>9
  <2>2. d.queue # <<>> /\ c.queue # <<>>
    BY <1>7, <1>8, <1>9, <2>1, SortedFields
  <2>3. Accum(d, 1) = d.time[d.queue[1]] /\ Accum(c, 1) = c.time[c.queue[1]]
    BY <1>8, <2>2, TicksStep
  <2> QED BY <1>7, <2>1, <2>3
<1>10. ASSUME NEW i \in 1 .. N - 1
       PROVE  \E j \in 1 .. N : /\ d.queue[i] = c.queue[j] /\ d.queue[i] # u
                                /\ c.queue[1] # u => TicksTo(d, i) = TicksTo(c, j)
  <2>0. N - 1 >= 1
    BY <1>1
  <2>1. CASE i \in 1 .. n - 1
    <3>1. i \in 1 .. N /\ i # n
      BY <1>1, <1>2, <2>1
    <3>2. d.queue[i] = c.queue[i] /\ Accum(d, i) = Accum(c, i) /\ c.queue[i] # u
      BY <1>1, <1>2, <1>7, <2>1, <3>1
    <3>3. c.queue[1] # u => TicksTo(d, i) = TicksTo(c, i)
      BY <1>5, <1>9, <2>0, <3>2 DEF TicksTo
    <3> QED BY <3>1, <3>2, <3>3
  <2>2. CASE i \in n .. N - 1
    <3>1. i + 1 \in 1 .. N /\ i + 1 # n
      BY <1>1, <1>2, <2>2
    <3>2. d.queue[i] = c.queue[i + 1] /\ Accum(d, i) = Accum(c, i + 1) /\ c.queue[i + 1] # u
      BY <1>1, <1>2, <1>7, <2>2, <3>1, Zenon
    <3>3. c.queue[1] # u => TicksTo(d, i) = TicksTo(c, i + 1)
      BY <1>5, <1>9, <2>0, <3>2 DEF TicksTo
    <3> QED BY <3>1, <3>2, <3>3
  <2> QED BY <1>1, <1>2, <2>1, <2>2
<1> QED BY <1>5, <1>7, <1>8, <1>10 DEF d

\* The two parts of a list.
LEMMA SplitFacts ==
  ASSUME NEW q \in Seq(Dev), NEW n \in 0 .. Len(q)
  PROVE  /\ SubSeq(q, 1, n) \in Seq(Dev) /\ Len(SubSeq(q, 1, n)) = n
         /\ \A i \in 1 .. n : SubSeq(q, 1, n)[i] = q[i]
         /\ SubSeq(q, n + 1, Len(q)) \in Seq(Dev) /\ Len(SubSeq(q, n + 1, Len(q))) = Len(q) - n
         /\ \A i \in 1 .. Len(q) - n : SubSeq(q, n + 1, Len(q))[i] = q[n + i]
<1>1. SubSeq(q, 1, n) \in Seq(Dev) /\ Len(SubSeq(q, 1, n)) = n
  OBVIOUS
<1>2. \A i \in 1 .. n : SubSeq(q, 1, n)[i] = q[i]
  OBVIOUS
<1>3. SubSeq(q, n + 1, Len(q)) \in Seq(Dev) /\ Len(SubSeq(q, n + 1, Len(q))) = Len(q) - n
  OBVIOUS
<1>4. \A i \in 1 .. Len(q) - n : SubSeq(q, n + 1, Len(q))[i] = q[n + i]
  OBVIOUS
<1> QED BY <1>1, <1>2, <1>3, <1>4

\* What a tick service does to the list: every unit waits one tick less, those with no more
\* than one tick to wait for are gathered, in order, and no other.
Gathered(c, d, due) ==
  /\ Sorted(d) /\ (d.queue # <<>> => d.interval >= 0)
  /\ due \in Seq(Dev) /\ \A i, j \in 1 .. Len(due) : due[i] = due[j] => i = j
  /\ \A i \in 1 .. Len(due) : \E j \in 1 .. Len(c.queue) : due[i] = c.queue[j] /\ TicksTo(c, j) <= 1
  /\ \A i \in 1 .. Len(d.queue) : \E j \in 1 .. Len(c.queue) :
       d.queue[i] = c.queue[j] /\ TicksTo(d, i) = TicksTo(c, j) - 1 /\ TicksTo(d, i) >= 1
  /\ \A i \in 1 .. Len(d.queue), j \in 1 .. Len(due) : d.queue[i] # due[j]

\* Counting down alone.
LEMMA CountDown ==
  ASSUME NEW c, Sorted(c)
  PROVE  LET e == [c EXCEPT !.interval = @ - 1] IN
         /\ Sorted(e) /\ e.queue = c.queue /\ e.interval = c.interval - 1
         /\ \A i \in 1 .. Len(c.queue) : TicksTo(e, i) = TicksTo(c, i) - 1
<1> DEFINE e == [c EXCEPT !.interval = @ - 1]
<1>1. c \in CoschedRecord /\ c.interval \in Int /\ Sums!Delta(c)
  BY SortedFields DEF Sorted
<1>2. c.interval - 1 \in Int
  BY <1>1
<1>3. e \in CoschedRecord /\ e.queue = c.queue /\ e.time = c.time /\ e.interval = c.interval - 1
  BY <1>1, <1>2, Zenon DEF CoschedRecord
<1> HIDE DEF e
<1>4. Sorted(e)
  BY <1>1, <1>3, Zenon DEF Sorted, Sums!Delta
<1>5. ASSUME NEW i \in 1 .. Len(c.queue) PROVE TicksTo(e, i) = TicksTo(c, i) - 1
  <2>1. Accum(e, i) = Accum(c, i)
    BY <1>3 DEF Accum
  <2>2. Accum(c, i) \in Int
    BY TicksStep
  <2>3. c.time[c.queue[1]] \in Int
    <3>1. 1 \in 1 .. Len(c.queue)
      BY SortedFields
    <3> QED BY <3>1, SortedFields
  <2>4. \A a, b, t \in Int : (a - 1) + b - t = (a + b - t) - 1
    OBVIOUS
  <2>5. (c.interval - 1) + Accum(c, i) - c.time[c.queue[1]] = (c.interval + Accum(c, i) - c.time[c.queue[1]]) - 1
    BY <1>1, <2>2, <2>3, <2>4, Zenon
  <2> QED BY <1>3, <2>1, <2>5, Zenon DEF TicksTo
<1> QED BY <1>3, <1>4, <1>5 DEF e

\* sim_timer_tick_svc gathers the units whose last tick this is.
LEMMA GatherFacts ==
  ASSUME NEW c0, Sorted(c0), c0.queue # <<>> => c0.interval >= 0
  PROVE  Gathered(c0, Gather(c0).cosched, Gather(c0).due)
<1> DEFINE e == [c0 EXCEPT !.interval = @ - 1]
           c == Refreshed(e)
           N == Len(c0.queue)
           n == Ahead(c, 0)
           due == SubSeq(c.queue, 1, n)
           wait == IF n = Len(c.queue) THEN 0 ELSE Accum(c, n + 1)
           time == [u \in DOMAIN c.time |-> IF u \in Range(due) THEN 0 ELSE c.time[u]]
           r == [queue |-> SubSeq(c.queue, n + 1, Len(c.queue)), time |-> time, interval |-> wait]
<1>0. /\ c0.queue \in Seq(Dev) /\ N \in Nat /\ c0.interval \in Int
      /\ \A i \in 1 .. N : c0.queue[i] \in Dev /\ TicksTo(c0, i) \in Int
      /\ c0.queue # <<>> <=> N >= 1
  BY SortedFields, TicksStep
<1>1. /\ Sorted(e) /\ e.queue = c0.queue /\ e.interval = c0.interval - 1
      /\ \A i \in 1 .. N : TicksTo(e, i) = TicksTo(c0, i) - 1
  BY CountDown
<1>2. /\ Sorted(c) /\ c.queue = c0.queue /\ c.interval = c0.interval - 1
      /\ \A i \in 1 .. N : Accum(c, i) = TicksTo(c0, i) - 1 /\ TicksTo(c, i) = TicksTo(c0, i) - 1
  <2> HIDE DEF e
  <2>1. /\ Sorted(c) /\ c.queue = e.queue /\ c.interval = e.interval
        /\ \A i \in 1 .. Len(e.queue) : Accum(c, i) = TicksTo(e, i) /\ TicksTo(c, i) = TicksTo(e, i)
    BY <1>1, RefreshedFacts
  <2> QED BY <1>1, <2>1
<1>3. CASE c0.queue = <<>>
  <2>1. Gather(c0) = [cosched |-> c0, due |-> <<>>]
    BY <1>3 DEF Gather
  <2>2. Gather(c0).cosched = c0 /\ Gather(c0).due = <<>>
    BY <2>1
  <2>3. <<>> \in Seq(Dev) /\ 1 .. Len(<<>>) = {} /\ 1 .. N = {}
    BY <1>0, <1>3
  <2> QED BY <1>3, <2>2, <2>3 DEF Gathered
<1>4. CASE c0.queue # <<>> /\ c.interval > 0
  <2>1. Gather(c0) = [cosched |-> c, due |-> <<>>]
    BY <1>4 DEF Gather
  <2> HIDE DEF c
  <2>2. Gather(c0).cosched = c /\ Gather(c0).due = <<>>
    BY <2>1
  <2>3. <<>> \in Seq(Dev) /\ 1 .. Len(<<>>) = {}
    OBVIOUS
  <2>4. c.interval >= 0 /\ \A i \in 1 .. N : TicksTo(c, i) >= 1
    <3>1. \A i \in 1 .. N : TicksTo(c, i) >= c.interval
      BY <1>2, TicksOrder
    <3>2. c.interval \in Int /\ \A i \in 1 .. N : TicksTo(c, i) \in Int
      BY <1>0, <1>2
    <3> QED BY <1>4, <3>1, <3>2
  <2> QED BY <1>2, <2>2, <2>3, <2>4, Zenon DEF Gathered
<1>5. CASE c0.queue # <<>> /\ ~(c.interval > 0)
  <2>1. Gather(c0) = [due |-> due, cosched |-> Refreshed(r)]
    BY <1>5 DEF Gather
  <2> HIDE DEF c
  <2>2. /\ c.queue \in Seq(Dev) /\ c.time \in [Dev -> Int] /\ DOMAIN c.time = Dev /\ Len(c.queue) = N
        /\ \A i \in 1 .. N : c.queue[i] \in Dev /\ c.time[c.queue[i]] \in Int
        /\ \A i, j \in 1 .. N : c.queue[i] = c.queue[j] => i = j
        /\ \A i \in 2 .. N : c.time[c.queue[i]] >= 0
    BY <1>2, SortedFields
  <2>3. n \in 0 .. N /\ (\A i \in 1 .. n : Accum(c, i) <= 0) /\ (n < N => 0 < Accum(c, n + 1))
    <3>1. 0 \in Int
      OBVIOUS
    <3> QED BY <2>2, <3>1, AheadFacts
  <2> HIDE DEF n
  <2>4. /\ due \in Seq(Dev) /\ Len(due) = n /\ \A i \in 1 .. n : due[i] = c.queue[i]
        /\ r.queue \in Seq(Dev) /\ Len(r.queue) = N - n
        /\ \A i \in 1 .. N - n : r.queue[i] = c.queue[n + i]
    <3>1. n \in 0 .. Len(c.queue)
      BY <2>2, <2>3
    <3>2. /\ due \in Seq(Dev) /\ Len(due) = n
          /\ \A i \in 1 .. n : due[i] = c.queue[i]
          /\ SubSeq(c.queue, n + 1, Len(c.queue)) \in Seq(Dev)
          /\ Len(SubSeq(c.queue, n + 1, Len(c.queue))) = Len(c.queue) - n
          /\ \A i \in 1 .. Len(c.queue) - n : SubSeq(c.queue, n + 1, Len(c.queue))[i] = c.queue[n + i]
      BY <2>2, <3>1, SplitFacts, Zenon
    <3> QED BY <2>2, <3>2, Zenon
  <2>5. wait \in Int /\ wait >= 0 /\ (n < N => wait = Accum(c, n + 1) /\ wait >= 1)
    <3>1. n < N => n + 1 \in 1 .. N
      BY <1>0, <2>3
    <3>2. n < N => Accum(c, n + 1) \in Int
      BY <1>0, <1>2, <3>1
    <3> QED BY <1>0, <2>2, <2>3, <3>2
  <2>6. time \in [Dev -> Int]
    BY <2>2
  <2> HIDE DEF due
  <2>7. ASSUME NEW i \in 1 .. N - n PROVE time[r.queue[i]] = c.time[c.queue[n + i]] /\ n + i \in 1 .. N
    <3>1. n + i \in 1 .. N /\ \A j \in 1 .. n : j \in 1 .. N /\ j # n + i
      BY <1>0, <2>3
    <3>2. \A j \in 1 .. n : due[j] # c.queue[n + i]
      BY <2>2, <2>4, <3>1, Zenon
    <3>3. c.queue[n + i] \notin Range(due)
      BY <2>4, <3>2 DEF Range
    <3> QED BY <2>2, <2>4, <3>1, <3>3, Zenon
  <2> HIDE DEF time, wait
  <2>8. r.time = time /\ r.interval = wait /\ r \in CoschedRecord
    BY <2>4, <2>5, <2>6 DEF CoschedRecord
  <2> HIDE DEF r
  <2>9. Sorted(r)
    <3>1. ASSUME NEW i \in 1 .. N - n, NEW j \in 1 .. N - n, r.queue[i] = r.queue[j] PROVE i = j
      <4>1. n + i \in 1 .. N /\ n + j \in 1 .. N
        BY <2>7
      <4>2. n + i = n + j
        BY <2>2, <2>4, <3>1, <4>1, Zenon
      <4> QED BY <1>0, <2>3, <4>2
    <3>2. ASSUME NEW i \in 2 .. N - n PROVE r.time[r.queue[i]] >= 0
      <4>1. i \in 1 .. N - n /\ n + i \in 2 .. N
        BY <1>0, <2>3
      <4> QED BY <2>2, <2>7, <2>8, <4>1
    <3>3. Sums!Delta(r)
      BY <2>4, <2>6, <2>8, <3>1, <3>2, Zenon DEF Sums!Delta
    <3> QED BY <2>8, <3>3 DEF Sorted
  <2>10. \A i \in 1 .. N - n : TicksTo(r, i) = Accum(c, n + i)
    <3> DEFINE f == [i \in 1 .. N - n |-> Accum(c, n + i)]
    <3>1. r.queue # <<>> => f[1] = r.interval
      <4> SUFFICES ASSUME r.queue # <<>> PROVE f[1] = r.interval
        OBVIOUS
      <4>1. N - n >= 1
        BY <2>4, <2>9, SortedFields
      <4>2. n < N /\ 1 \in 1 .. N - n
        BY <1>0, <2>3, <4>1
      <4> QED BY <2>5, <2>8, <4>2
    <3>2. ASSUME NEW k \in 2 .. N - n PROVE f[k] = f[k - 1] + r.time[r.queue[k]]
      <4>1. /\ k \in 1 .. N - n /\ k - 1 \in 1 .. N - n /\ n + k \in 2 .. N /\ n + k \in 1 .. N
            /\ n + (k - 1) = (n + k) - 1 /\ (n + k) - 1 \in 1 .. N
        BY <1>0, <2>3
      <4>2. TicksTo(c, n + k) = TicksTo(c, (n + k) - 1) + c.time[c.queue[n + k]]
        BY <1>2, <2>2, <4>1, TicksStep, Zenon
      <4>3. Accum(c, n + k) = Accum(c, n + (k - 1)) + c.time[c.queue[n + k]]
        BY <1>2, <4>1, <4>2
      <4>4. r.time[r.queue[k]] = c.time[c.queue[n + k]]
        BY <2>7, <2>8, <4>1, Zenon
      <4>5. f[k] = Accum(c, n + k) /\ f[k - 1] = Accum(c, n + (k - 1))
        BY <4>1, Zenon
      <4> QED BY <4>3, <4>4, <4>5, Zenon
    <3> HIDE DEF f
    <3>3. \A k \in 1 .. N - n : TicksTo(r, k) = f[k]
      <4>1. \A k \in 2 .. Len(r.queue) : f[k] = f[k - 1] + r.time[r.queue[k]]
        BY <2>4, <3>2, Zenon
      <4>2. \A k \in 1 .. Len(r.queue) : TicksTo(r, k) = f[k]
        BY <2>9, <3>1, <4>1, TicksAre, Zenon
      <4> QED BY <2>4, <4>2, Zenon
    <3> QED BY <3>3, Zenon DEF f
  <2> DEFINE d == Refreshed(r)
  <2>11. /\ Sorted(d) /\ d.queue = r.queue /\ d.interval = wait
         /\ \A i \in 1 .. N - n : TicksTo(d, i) = Accum(c, n + i)
    BY <2>4, <2>8, <2>9, <2>10, RefreshedFacts
  <2> HIDE DEF d
  <2>12. Gather(c0).cosched = d /\ Gather(c0).due = due
    BY <2>1 DEF d
  <2>13. ASSUME NEW i \in 1 .. n
         PROVE  \E j \in 1 .. N : due[i] = c0.queue[j] /\ TicksTo(c0, j) <= 1
    <3>1. i \in 1 .. N
      BY <1>0, <2>3
    <3>2. TicksTo(c0, i) - 1 <= 0 /\ TicksTo(c0, i) \in Int
      BY <1>0, <1>2, <2>3, <3>1
    <3>3. TicksTo(c0, i) <= 1
      BY <3>2
    <3> QED BY <1>2, <2>4, <3>1, <3>3
  <2>14. ASSUME NEW i \in 1 .. N - n
         PROVE  \E j \in 1 .. N : d.queue[i] = c0.queue[j] /\ TicksTo(d, i) = TicksTo(c0, j) - 1 /\ TicksTo(d, i) >= 1
    <3>1. n + i \in 1 .. N /\ n < N /\ N - n >= 1
      BY <1>0, <2>3
    <3>2. TicksTo(d, i) = TicksTo(c0, n + i) - 1 /\ d.queue[i] = c0.queue[n + i]
      BY <1>2, <2>4, <2>11, <3>1
    <3>3. TicksTo(d, i) >= d.interval
      BY <2>4, <2>11, TicksOrder
    <3>4. TicksTo(d, i) >= 1
      <4>1. TicksTo(d, i) \in Int /\ d.interval \in Int
        BY <1>0, <2>5, <2>11, <3>1, <3>2
      <4> QED BY <2>5, <2>11, <3>1, <3>3, <4>1
    <3> QED BY <3>1, <3>2, <3>4
  <2>15. ASSUME NEW i \in 1 .. N - n, NEW j \in 1 .. n PROVE d.queue[i] # due[j]
    <3>1. n + i \in 1 .. N /\ j \in 1 .. N /\ j # n + i
      BY <1>0, <2>3
    <3> QED BY <2>2, <2>4, <2>11, <3>1, Zenon
  <2>16. ASSUME NEW i \in 1 .. n, NEW j \in 1 .. n, due[i] = due[j] PROVE i = j
    <3>1. i \in 1 .. N /\ j \in 1 .. N
      BY <1>0, <2>3
    <3>2. c.queue[i] = c.queue[j]
      BY <2>4, <2>16, Zenon
    <3> QED BY <2>2, <3>1, <3>2, Zenon
  <2>17. Len(d.queue) = N - n /\ Len(due) = n /\ d.interval >= 0
    BY <2>4, <2>5, <2>11
  <2>18. Gathered(c0, d, due)
    BY <2>4, <2>11, <2>13, <2>14, <2>15, <2>16, <2>17, Zenon DEF Gathered
  <2> QED BY <2>12, <2>18, Zenon
<1> QED BY <1>3, <1>4, <1>5

-----------------------------------------------------------------------------
(* Coscheduled units are gathered by the tick they asked for *)

\* The ticks a unit has to see: one at least.
AtLeastOne(n) == IF n >= 1 THEN n ELSE 1

\* The list is in order, and each unit's ticks are those counted for it, unless the first
\* unit was cancelled before it.
Counted(c, ahead) ==
  /\ Sorted(c) /\ (c.queue # <<>> => c.interval >= 0)
  /\ ahead \in [Dev -> Int]
  /\ \A i \in 1 .. Len(c.queue) :
       ahead[c.queue[i]] = Skewed \/ ahead[c.queue[i]] = AtLeastOne(TicksTo(c, i))

\* What the simulator's thread has still to do after a call: the rest of the tick service,
\* or the units that the tick gathered.
Gathering(todo, c, ahead) ==
  \/ todo = <<Tick>>
  \/ /\ todo \in Seq(Dev) /\ \A i, j \in 1 .. Len(todo) : todo[i] = todo[j] => i = j
     /\ \A i \in 1 .. Len(todo) : ahead[todo[i]] \in {0, Skewed} /\ todo[i] \notin Range(c.queue)

\* The unit of a call is not among those that are still to be dispatched.
Apart(u, todo) == u \in Timed /\ (u \in Dev => \A i \in 1 .. Len(todo) : todo[i] # u)

\* The call the thread is in: a unit that is to be placed is neither coscheduled nor gathered.
Calling(m, c, ahead) ==
  /\ m = [at |-> m.at, unit |-> m.unit, wait |-> m.wait, todo |-> m.todo]
  /\ Gathering(m.todo, c, ahead)
  /\ m.at \notin {"place", "busy", "todo"} => m.todo = <<>>
  /\ m.at = "todo" => m.todo # <<>>
  /\ m.at \in {"place", "busy"} => Apart(m.unit, m.todo)
  /\ m.at = "place" => m.unit \notin Range(c.queue)

TickInv ==
  /\ ticks \in 0 .. Hz - 1
  /\ Counted(co, left)
  /\ Calling(main, co, left)

\* The larger of two.
LEMMA MaxFacts == \A n \in Int : Max({n, 1}) = AtLeastOne(n)
<1> TAKE n \in Int
<1> DEFINE m == AtLeastOne(n)
<1>1. m \in {n, 1} /\ \A y \in {n, 1} : m >= y
  BY DEF AtLeastOne
<1>2. \A x \in {n, 1} : (\A y \in {n, 1} : x >= y) => x = m
  BY DEF AtLeastOne
<1> HIDE DEF m
<1>3. (CHOOSE x \in {n, 1} : \A y \in {n, 1} : x >= y) = m
  BY <1>1, <1>2, Zenon
<1> QED BY <1>3, Zenon DEF Max, m

\* Done with a call, the thread goes on with the tick service.
LEMMA ReturnFacts ==
  ASSUME NEW m
  PROVE  /\ Return(m) = [at |-> IF m.todo = <<>> THEN "run" ELSE "todo", unit |-> NULL,
                         wait |-> 0, todo |-> m.todo]
         /\ \A c, ahead : Gathering(m.todo, c, ahead) => Calling(Return(m), c, ahead)
<1> DEFINE a == IF m.todo = <<>> THEN "run" ELSE "todo"
           r == [at |-> a, unit |-> NULL, wait |-> 0, todo |-> m.todo]
<1>0. Return(m) \in [at : {a}, unit : {NULL}, wait : {0}, todo : {m.todo}]
  BY Zenon DEF Return, Idle
<1>1. Return(m) = r
  BY <1>0
<1>2. r.at = a /\ r.unit = NULL /\ r.wait = 0 /\ r.todo = m.todo
  OBVIOUS
<1>3. r = [at |-> r.at, unit |-> r.unit, wait |-> r.wait, todo |-> r.todo]
  BY <1>2
<1> HIDE DEF r
<1>4. /\ m.todo = <<>> => r.at = "run"
      /\ m.todo # <<>> => r.at = "todo"
  BY <1>2
<1>5. ASSUME NEW c, NEW ahead, Gathering(m.todo, c, ahead) PROVE Calling(r, c, ahead)
  <2>1. r.at \notin {"place", "busy"} /\ r.at # "place"
    BY <1>4
  <2>2. r.at \notin {"place", "busy", "todo"} => m.todo = <<>>
    BY <1>4
  <2>3. r.at = "todo" => m.todo # <<>>
    BY <1>4
  <2> QED BY <1>2, <1>3, <1>5, <2>1, <2>2, <2>3, Zenon DEF Calling
<1> QED BY <1>1, <1>5, Zenon DEF r

\* With nothing to do the thread is in no call that places a unit.
LEMMA NothingToDo ==
  ASSUME NEW c, NEW ahead
  PROVE  /\ Gathering(<<>>, c, ahead)
         /\ \A m : /\ m = [at |-> m.at, unit |-> m.unit, wait |-> m.wait, todo |-> m.todo]
                   /\ m.todo = <<>> /\ m.at \notin {"place", "busy", "todo"}
                   => Calling(m, c, ahead)
<1>1. <<>> \in Seq(Dev) /\ 1 .. Len(<<>>) = {}
  OBVIOUS
<1>2. Gathering(<<>>, c, ahead)
  BY <1>1 DEF Gathering
<1>3. ASSUME NEW m, m = [at |-> m.at, unit |-> m.unit, wait |-> m.wait, todo |-> m.todo],
             m.todo = <<>>, m.at \notin {"place", "busy", "todo"}
      PROVE  Calling(m, c, ahead)
  <2>1. m.at # "place" /\ m.at # "todo" /\ m.at \notin {"place", "busy"}
    BY <1>3
  <2> QED BY <1>2, <1>3, <2>1, Zenon DEF Calling
<1> QED BY <1>2, <1>3, Zenon

\* The first half of sim_timer_activate_after.
LEMMA StartFacts ==
  ASSUME NEW ev, NEW u \in Timed, NEW d, NEW todo, NEW ahead, StartWait(ev, u, d, todo),
         Gathering(todo, co, ahead), Apart(u, todo)
  PROVE  Calling(main', co, ahead)
<1> DEFINE m == [at |-> "place", unit |-> u, wait |-> d, todo |-> todo]
<1>1. m.at = "place" /\ m.unit = u /\ m.wait = d /\ m.todo = todo
  OBVIOUS
<1>2. m = [at |-> m.at, unit |-> m.unit, wait |-> m.wait, todo |-> m.todo]
  OBVIOUS
<1>3. main' = IF IsActive(ev, u) THEN Return(m) ELSE m
  BY DEF StartWait
<1> HIDE DEF m
<1>4. CASE IsActive(ev, u)
  BY <1>1, <1>3, <1>4, ReturnFacts, Zenon
<1>5. CASE ~IsActive(ev, u)
  <2>1. u \notin Range(co.queue)
    BY <1>5, Zenon DEF IsActive, Cosched
  <2>2. m.at # "todo" /\ m.at \in {"place", "busy", "todo"}
    BY <1>1
  <2> QED BY <1>1, <1>2, <1>3, <1>5, <2>1, <2>2, Zenon DEF Calling
<1> QED BY <1>4, <1>5, Zenon

\* The units of a list.
LEMMA RangeFacts ==
  ASSUME NEW q \in Seq(Dev)
  PROVE  /\ \A x : x \in Range(q) <=> \E i \in 1 .. Len(q) : q[i] = x
         /\ Len(q) \in Nat /\ \A i \in 1 .. Len(q) : q[i] \in Dev
<1>1. DOMAIN q = 1 .. Len(q) /\ Len(q) \in Nat /\ \A i \in 1 .. Len(q) : q[i] \in Dev
  OBVIOUS
<1> QED BY <1>1, Zenon DEF Range

\* Coscheduling a unit counts its ticks.
LEMMA CoscheduleCounted ==
  ASSUME NEW c, NEW ahead, Counted(c, ahead), NEW u \in Dev, u \notin Range(c.queue), NEW t \in Nat
  PROVE  LET d == Coschedule(c, u, t)
             b == [ahead EXCEPT ![u] = AtLeastOne(t)]
         IN /\ Counted(d, b)
            /\ \A todo : Gathering(todo, c, ahead) /\ Apart(u, todo) => Gathering(todo, d, b)
<1> DEFINE d == Coschedule(c, u, t)
           b == [ahead EXCEPT ![u] = AtLeastOne(t)]
<1>1. Sorted(c) /\ (c.queue # <<>> => c.interval >= 0) /\ ahead \in [Dev -> Int] /\ c.queue \in Seq(Dev)
  BY SortedFields DEF Counted
<1>2. \A i \in 1 .. Len(c.queue) : c.queue[i] # u /\ c.queue[i] \in Dev
  BY <1>1, RangeFacts
<1>3. Sorted(d) /\ d.interval >= 0 /\ d.queue # <<>> /\ Shifted(c, d, 0, u, t)
  BY <1>1, <1>2, CoscheduleFacts
<1>4. d.queue \in Seq(Dev)
  BY <1>3, SortedFields
<1>5. AtLeastOne(t) \in Int
  BY DEF AtLeastOne
<1>6. b \in [Dev -> Int] /\ b[u] = AtLeastOne(t) /\ \A v \in Dev : v # u => b[v] = ahead[v]
  BY <1>1, <1>5
<1> HIDE DEF d, b
<1>7. \A j \in 1 .. Len(c.queue) : TicksTo(c, j) - 0 = TicksTo(c, j)
  <2>1. \A j \in 1 .. Len(c.queue) : TicksTo(c, j) \in Int
    BY <1>1, TicksStep
  <2> QED BY <2>1
<1>8. ASSUME NEW i \in 1 .. Len(d.queue)
      PROVE  /\ b[d.queue[i]] = Skewed \/ b[d.queue[i]] = AtLeastOne(TicksTo(d, i))
             /\ d.queue[i] = u \/ d.queue[i] \in Range(c.queue)
  <2>1. CASE d.queue[i] = u /\ TicksTo(d, i) = t
    BY <1>6, <2>1, Zenon
  <2>2. CASE \E j \in 1 .. Len(c.queue) :
               d.queue[i] = c.queue[j] /\ d.queue[i] # u /\ TicksTo(d, i) = TicksTo(c, j) - 0
    <3>1. PICK j \in 1 .. Len(c.queue) :
                 d.queue[i] = c.queue[j] /\ d.queue[i] # u /\ TicksTo(d, i) = TicksTo(c, j) - 0
      BY <2>2
    <3>2. b[d.queue[i]] = ahead[c.queue[j]]
      BY <1>2, <1>6, <3>1, Zenon
    <3>3. ahead[c.queue[j]] = Skewed \/ ahead[c.queue[j]] = AtLeastOne(TicksTo(c, j))
      BY Zenon DEF Counted
    <3>4. d.queue[i] \in Range(c.queue)
      BY <1>1, <3>1, RangeFacts
    <3> QED BY <1>7, <3>1, <3>2, <3>3, <3>4, Zenon
  <2> QED BY <1>3, <2>1, <2>2, Zenon DEF Shifted
<1>9. Counted(d, b)
  BY <1>3, <1>6, <1>8, Zenon DEF Counted
<1>10. ASSUME NEW todo, Gathering(todo, c, ahead), Apart(u, todo) PROVE Gathering(todo, d, b)
  <2>1. CASE todo = <<Tick>>
    BY <2>1, Zenon DEF Gathering
  <2>2. CASE todo # <<Tick>>
    <3>1. /\ todo \in Seq(Dev) /\ \A i, j \in 1 .. Len(todo) : todo[i] = todo[j] => i = j
          /\ \A i \in 1 .. Len(todo) : ahead[todo[i]] \in {0, Skewed} /\ todo[i] \notin Range(c.queue)
      BY <1>10, <2>2, Zenon DEF Gathering
    <3>2. \A i \in 1 .. Len(todo) : todo[i] # u
      BY <1>10, Zenon DEF Apart
    <3>3. \A i \in 1 .. Len(todo) : todo[i] \in Dev
      BY <3>1
    <3>4. \A i \in 1 .. Len(todo) : b[todo[i]] \in {0, Skewed}
      BY <1>6, <3>1, <3>2, <3>3, Zenon
    <3>5. \A x : x \in Range(d.queue) => x = u \/ x \in Range(c.queue)
      BY <1>4, <1>8, RangeFacts
    <3> QED BY <3>1, <3>2, <3>4, <3>5, Zenon DEF Gathering
  <2> QED BY <2>1, <2>2
<1> QED BY <1>9, <1>10, Zenon DEF d, b

\* Cancelling one changes no other unit's count, except behind the first unit.
LEMMA CancelCounted ==
  ASSUME NEW c, NEW ahead, Counted(c, ahead), NEW u \in Dev, u \in Range(c.queue),
         NEW b \in [Dev -> Int],
         \A v \in Dev : v # u /\ v \in Range(c.queue) =>
           b[v] = IF u = c.queue[1] THEN Skewed ELSE ahead[v]
  PROVE  Counted(CoschedCancel(c, u), b)
<1> DEFINE d == CoschedCancel(c, u)
<1>1. Sorted(c) /\ (c.queue # <<>> => c.interval >= 0) /\ c.queue \in Seq(Dev)
  BY SortedFields DEF Counted
<1>2. \E i \in 1 .. Len(c.queue) : c.queue[i] = u
  BY <1>1, RangeFacts
<1>3. /\ Sorted(d) /\ d.interval = c.interval
      /\ \A i \in 1 .. Len(d.queue) : \E j \in 1 .. Len(c.queue) :
           /\ d.queue[i] = c.queue[j] /\ d.queue[i] # u
           /\ c.queue[1] # u => TicksTo(d, i) = TicksTo(c, j)
  BY <1>1, <1>2, CancelFacts
<1> HIDE DEF d
<1>4. d.interval >= 0
  <2>1. c.queue # <<>>
    BY <1>1, <1>2, SortedFields
  <2> QED BY <1>1, <1>3, <2>1
<1>5. ASSUME NEW i \in 1 .. Len(d.queue)
      PROVE  b[d.queue[i]] = Skewed \/ b[d.queue[i]] = AtLeastOne(TicksTo(d, i))
  <2>1. PICK j \in 1 .. Len(c.queue) :
               /\ d.queue[i] = c.queue[j] /\ d.queue[i] # u
               /\ c.queue[1] # u => TicksTo(d, i) = TicksTo(c, j)
    BY <1>3
  <2>2. c.queue[j] \in Dev /\ c.queue[j] \in Range(c.queue)
    BY <1>1, RangeFacts
  <2>3. ahead[c.queue[j]] = Skewed \/ ahead[c.queue[j]] = AtLeastOne(TicksTo(c, j))
    BY Zenon DEF Counted
  <2>4. b[d.queue[i]] = IF u = c.queue[1] THEN Skewed ELSE ahead[c.queue[j]]
    BY <2>1, <2>2
  <2> QED BY <2>1, <2>3, <2>4
<1> QED BY <1>3, <1>4, <1>5, Zenon DEF Counted, d

\* A tick counts for every coscheduled unit, and gathers those that have seen theirs.
LEMMA GatherCounted ==
  ASSUME NEW c, NEW ahead, Counted(c, ahead), NEW b \in [Dev -> Int],
         \A v \in Dev : v \in Range(c.queue) =>
           b[v] = IF ahead[v] # Skewed THEN ahead[v] - 1 ELSE ahead[v]
  PROVE  LET g == Gather(c) IN Counted(g.cosched, b) /\ Gathering(g.due, g.cosched, b)
<1> DEFINE d == Gather(c).cosched
           due == Gather(c).due
<1>1. Sorted(c) /\ (c.queue # <<>> => c.interval >= 0) /\ c.queue \in Seq(Dev)
  BY SortedFields DEF Counted
<1>2. Gathered(c, d, due)
  BY <1>1, GatherFacts
<1> HIDE DEF d, due
<1>3. /\ Sorted(d) /\ (d.queue # <<>> => d.interval >= 0)
      /\ due \in Seq(Dev) /\ \A i, j \in 1 .. Len(due) : due[i] = due[j] => i = j
      /\ \A i \in 1 .. Len(due) : \E j \in 1 .. Len(c.queue) : due[i] = c.queue[j] /\ TicksTo(c, j) <= 1
      /\ \A i \in 1 .. Len(d.queue) : \E j \in 1 .. Len(c.queue) :
           d.queue[i] = c.queue[j] /\ TicksTo(d, i) = TicksTo(c, j) - 1 /\ TicksTo(d, i) >= 1
      /\ \A i \in 1 .. Len(d.queue), j \in 1 .. Len(due) : d.queue[i] # due[j]
  BY <1>2, Zenon DEF Gathered
<1>4. \A j \in 1 .. Len(c.queue) : c.queue[j] \in Dev /\ c.queue[j] \in Range(c.queue) /\ TicksTo(c, j) \in Int
  BY <1>1, RangeFacts, TicksStep
<1>5. \A j \in 1 .. Len(c.queue) :
        ahead[c.queue[j]] = Skewed \/ ahead[c.queue[j]] = AtLeastOne(TicksTo(c, j))
  BY Zenon DEF Counted
<1>6. \A a \in Int : /\ a <= 1 => AtLeastOne(a) - 1 = 0 /\ AtLeastOne(a) # Skewed
                     /\ a - 1 >= 1 => AtLeastOne(a) - 1 = AtLeastOne(a - 1) /\ AtLeastOne(a) # Skewed
  BY DEF AtLeastOne, Skewed
<1>7. ASSUME NEW i \in 1 .. Len(d.queue)
      PROVE  b[d.queue[i]] = Skewed \/ b[d.queue[i]] = AtLeastOne(TicksTo(d, i))
  <2>1. PICK j \in 1 .. Len(c.queue) :
               d.queue[i] = c.queue[j] /\ TicksTo(d, i) = TicksTo(c, j) - 1 /\ TicksTo(d, i) >= 1
    BY <1>3
  <2>2. CASE ahead[c.queue[j]] = Skewed
    BY <1>4, <2>1, <2>2
  <2>3. CASE ahead[c.queue[j]] = AtLeastOne(TicksTo(c, j))
    <3>1. /\ AtLeastOne(TicksTo(c, j)) - 1 = AtLeastOne(TicksTo(d, i))
          /\ AtLeastOne(TicksTo(c, j)) # Skewed
      BY <1>4, <1>6, <2>1
    <3>2. b[c.queue[j]] = IF ahead[c.queue[j]] # Skewed THEN ahead[c.queue[j]] - 1 ELSE ahead[c.queue[j]]
      BY <1>4, Zenon
    <3> QED BY <2>1, <2>3, <3>1, <3>2, Zenon
  <2> QED BY <1>5, <2>2, <2>3, Zenon
<1>8. ASSUME NEW i \in 1 .. Len(due)
      PROVE  b[due[i]] \in {0, Skewed} /\ due[i] \notin Range(d.queue)
  <2>1. PICK j \in 1 .. Len(c.queue) : due[i] = c.queue[j] /\ TicksTo(c, j) <= 1
    BY <1>3
  <2>2. b[c.queue[j]] = IF ahead[c.queue[j]] # Skewed THEN ahead[c.queue[j]] - 1 ELSE ahead[c.queue[j]]
    BY <1>4, Zenon
  <2>3. AtLeastOne(TicksTo(c, j)) - 1 = 0 /\ AtLeastOne(TicksTo(c, j)) # Skewed
    BY <1>4, <1>6, <2>1
  <2>4. b[due[i]] \in {0, Skewed}
    BY <1>5, <2>1, <2>2, <2>3, Zenon
  <2>5. d.queue \in Seq(Dev)
    BY <1>3, SortedFields
  <2>6. due[i] \notin Range(d.queue)
    BY <1>3, <2>5, RangeFacts, Zenon
  <2> QED BY <2>4, <2>6, Zenon
<1>9. Counted(d, b)
  BY <1>3, <1>7, Zenon DEF Counted
<1>10. Gathering(due, d, b)
  BY <1>3, <1>8, Zenon DEF Gathering
<1> QED BY <1>9, <1>10, Zenon DEF d, due

\* What the thread's record becomes when it is given another place, unit, wait or list.
LEMMA MainFields ==
  ASSUME NEW m, m = [at |-> m.at, unit |-> m.unit, wait |-> m.wait, todo |-> m.todo], NEW x, NEW y
  PROVE  /\ [m EXCEPT !.at = x] = [at |-> x, unit |-> m.unit, wait |-> m.wait, todo |-> m.todo]
         /\ [m EXCEPT !.todo = x].todo = x
         /\ [m EXCEPT !.at = x, !.unit = y] = [at |-> x, unit |-> y, wait |-> m.wait, todo |-> m.todo]
         /\ [m EXCEPT !.at = x, !.wait = y] = [at |-> x, unit |-> m.unit, wait |-> y, todo |-> m.todo]
         /\ [Idle EXCEPT !.at = x] = [at |-> x, unit |-> NULL, wait |-> 0, todo |-> <<>>]
<1>1. m \in [at : {m.at}, unit : {m.unit}, wait : {m.wait}, todo : {m.todo}]
  OBVIOUS
<1>2. /\ [m EXCEPT !.at = x] \in [at : {x}, unit : {m.unit}, wait : {m.wait}, todo : {m.todo}]
      /\ [m EXCEPT !.todo = x] \in [at : {m.at}, unit : {m.unit}, wait : {m.wait}, todo : {x}]
  BY <1>1
<1>3. /\ [m EXCEPT !.at = x, !.unit = y] \in [at : {x}, unit : {y}, wait : {m.wait}, todo : {m.todo}]
      /\ [m EXCEPT !.at = x, !.wait = y] \in [at : {x}, unit : {m.unit}, wait : {y}, todo : {m.todo}]
  BY <1>1, Zenon
<1>4. [Idle EXCEPT !.at = x] \in [at : {x}, unit : {NULL}, wait : {0}, todo : {<<>>}]
  BY DEF Idle
<1>6. [m EXCEPT !.at = x] = [at |-> x, unit |-> m.unit, wait |-> m.wait, todo |-> m.todo]
  BY <1>2
<1>7. [m EXCEPT !.todo = x].todo = x
  BY <1>2
<1>8. [m EXCEPT !.at = x, !.unit = y] = [at |-> x, unit |-> y, wait |-> m.wait, todo |-> m.todo]
  <2> DEFINE e == [m EXCEPT !.at = x, !.unit = y]
  <2>1. e \in [at : {x}, unit : {y}, wait : {m.wait}, todo : {m.todo}]
    BY <1>3
  <2> HIDE DEF e
  <2>2. e = [at |-> x, unit |-> y, wait |-> m.wait, todo |-> m.todo]
    BY <2>1
  <2> QED BY <2>2, Zenon DEF e
<1>9. [m EXCEPT !.at = x, !.wait = y] = [at |-> x, unit |-> m.unit, wait |-> y, todo |-> m.todo]
  <2> DEFINE e == [m EXCEPT !.at = x, !.wait = y]
  <2>1. e \in [at : {x}, unit : {m.unit}, wait : {y}, todo : {m.todo}]
    BY <1>3
  <2> HIDE DEF e
  <2>2. e = [at |-> x, unit |-> m.unit, wait |-> y, todo |-> m.todo]
    BY <2>1
  <2> QED BY <2>2, Zenon DEF e
<1>10. [Idle EXCEPT !.at = x] = [at |-> x, unit |-> NULL, wait |-> 0, todo |-> <<>>]
  BY <1>4
<1> QED BY <1>6, <1>7, <1>8, <1>9, <1>10, Zenon

\* What the invariant says of the thread's record.
LEMMA CallFacts ==
  ASSUME TickInv
  PROVE  /\ main = [at |-> main.at, unit |-> main.unit, wait |-> main.wait, todo |-> main.todo]
         /\ Gathering(main.todo, co, left)
         /\ main.at \notin {"place", "busy", "todo"} => main.todo = <<>>
         /\ main.at = "todo" => main.todo # <<>>
         /\ main.at \in {"place", "busy"} => Apart(main.unit, main.todo)
         /\ main.at = "place" => main.unit \notin Range(co.queue)
         /\ ticks \in 0 .. Hz - 1 /\ Counted(co, left)
BY Zenon DEF TickInv, Calling

\* A step that leaves the coscheduled units and their counts alone.
LEMMA OtherKeeps ==
  ASSUME TickInv, co' = co, left' = left, ticks' \in 0 .. Hz - 1, Calling(main', co, left)
  PROVE  TickInv'
<1>1. Counted(co', left') /\ Calling(main', co', left')
  BY Zenon DEF TickInv
<1> QED BY <1>1 DEF TickInv

\* The second half of sim_timer_activate_after.
LEMMA PlaceKeeps ==
  ASSUME TickInv, PlaceCosched \/ PlaceEvent \/ PlaceWallClock \/ PlaceEntry
  PROVE  TickInv'
<1>0. Calling(Return(main), co, left)
  BY CallFacts, ReturnFacts
<1>1. CASE PlaceCosched
  <2> DEFINE u == main.unit
  <2>1. /\ main.at = "place" /\ main' = Return(main) /\ ticks' = ticks
        /\ \/ u # Tick /\ co' = Coschedule(co, u, Hz - ticks - 1)
                       /\ left' = [left EXCEPT ![u] = Max({Hz - ticks - 1, 1})]
           \/ u # Tick /\ co' = Coschedule(co, u, 0) /\ left' = [left EXCEPT ![u] = 1]
    BY <1>1 DEF PlaceCosched, PastCalib, PastTicks
  <2>2. Apart(u, main.todo) /\ u \notin Range(co.queue) /\ u \in Dev
    <3>1. main.at \in {"place", "busy"}
      BY <2>1
    <3> QED BY <2>1, <3>1, CallFacts, Zenon DEF Apart, Timed
  <2>3. Hz - ticks - 1 \in Nat /\ ticks \in 0 .. Hz - 1
    BY CallFacts, TimersAssumption
  <2>4. PICK t \in Nat : co' = Coschedule(co, u, t) /\ left' = [left EXCEPT ![u] = AtLeastOne(t)]
    <3>1. Max({Hz - ticks - 1, 1}) = AtLeastOne(Hz - ticks - 1)
      BY <2>3, MaxFacts
    <3>2. 1 = AtLeastOne(0) /\ 0 \in Nat
      BY DEF AtLeastOne
    <3> HIDE DEF u
    <3> QED BY <2>1, <2>3, <3>1, <3>2, Zenon
  <2> HIDE DEF u
  <2>5. Counted(co', left') /\ Gathering(main.todo, co', left')
    BY <2>2, <2>4, CallFacts, CoscheduleCounted, Zenon
  <2>6. Calling(main', co', left')
    BY <2>1, <2>5, ReturnFacts, Zenon
  <2> QED BY <2>1, <2>3, <2>5, <2>6, Zenon DEF TickInv
<1>2. CASE PlaceEvent
  <2>1. main' = Return(main) /\ co' = co /\ left' = left /\ ticks' = ticks
    BY <1>2 DEF PlaceEvent
  <2> QED BY <1>0, <2>1, CallFacts, OtherKeeps
<1>3. CASE PlaceWallClock
  <2>1. /\ co' = co /\ left' = left /\ ticks' = ticks /\ main.at = "place"
        /\ main' = Return(main) \/ main' = [main EXCEPT !.at = "busy"]
    BY <1>3 DEF PlaceWallClock
  <2>2. Calling([main EXCEPT !.at = "busy"], co, left)
    <3> DEFINE m == [at |-> "busy", unit |-> main.unit, wait |-> main.wait, todo |-> main.todo]
    <3>1. [main EXCEPT !.at = "busy"] = m
      BY CallFacts, MainFields, Zenon
    <3>2. m.at = "busy" /\ m.unit = main.unit /\ m.wait = main.wait /\ m.todo = main.todo
      OBVIOUS
    <3> HIDE DEF m
    <3>3. m = [at |-> m.at, unit |-> m.unit, wait |-> m.wait, todo |-> m.todo]
      BY <3>2 DEF m
    <3>4. m.at \in {"place", "busy", "todo"} /\ m.at # "todo" /\ m.at # "place" /\ main.at \in {"place", "busy"}
      BY <2>1, <3>2
    <3> QED BY <3>1, <3>2, <3>3, <3>4, CallFacts, Zenon DEF Calling
  <2> QED BY <1>0, <2>1, <2>2, CallFacts, OtherKeeps, Zenon
<1>4. CASE PlaceEntry
  <2>1. main' = Return(main) /\ co' = co /\ left' = left /\ ticks' = ticks
    BY <1>4 DEF PlaceEntry
  <2> QED BY <1>0, <2>1, CallFacts, OtherKeeps
<1> QED BY <1>1, <1>2, <1>3, <1>4

\* The calls a device makes.
LEMMA AskKeeps ==
  ASSUME TickInv, NEW u \in Dev,
         \/ \E d \in Delay : ActivateAfter(u, d)
         \/ \E n \in TickCount : CoscheduleTicks(u, n)
         \/ CancelUnit(u)
  PROVE  TickInv'
<1>0. main.at = "run" /\ main.todo = <<>> /\ Gathering(<<>>, co, left)
  <2>1. main.at = "run"
    BY Zenon DEF ActivateAfter, CoscheduleTicks, CancelUnit
  <2>2. main.at \notin {"place", "busy", "todo"}
    BY <2>1
  <2> QED BY <2>1, <2>2, CallFacts, NothingToDo, Zenon
<1>1. ASSUME NEW d \in Delay, ActivateAfter(u, d) PROVE TickInv'
  <2>1. StartWait(event, u, d, <<>>) /\ co' = co /\ left' = left /\ ticks' = ticks
    BY <1>1 DEF ActivateAfter
  <2>2. Apart(u, <<>>) /\ u \in Timed
    BY DEF Apart, Timed
  <2>3. Calling(main', co, left)
    BY <1>0, <2>1, <2>2, StartFacts, Zenon
  <2> QED BY <2>1, <2>3, CallFacts, OtherKeeps
<1>2. ASSUME NEW n \in TickCount, CoscheduleTicks(u, n) PROVE TickInv'
  <2>1. /\ main' = main /\ ticks' = ticks
        /\ \/ co' = co /\ left' = left
           \/ /\ ~IsActive(event, u)
              /\ co' = Coschedule(co, u, n) /\ left' = [left EXCEPT ![u] = Max({n, 1})]
    BY <1>2 DEF CoscheduleTicks
  <2>2. CASE co' = co /\ left' = left
    BY <2>1, <2>2, CallFacts, OtherKeeps DEF TickInv
  <2>3. CASE /\ ~IsActive(event, u)
             /\ co' = Coschedule(co, u, n) /\ left' = [left EXCEPT ![u] = Max({n, 1})]
    <3>1. u \notin Range(co.queue)
      BY <2>3, Zenon DEF IsActive, Cosched
    <3>2. n \in Nat /\ n \in Int
      BY TimersAssumption
    <3>3. left' = [left EXCEPT ![u] = AtLeastOne(n)]
      BY <2>3, <3>2, MaxFacts, Zenon
    <3>4. Counted(co', left')
      <4>1. Counted(co, left)
        BY CallFacts, Zenon
      <4>2. Counted(Coschedule(co, u, n), [left EXCEPT ![u] = AtLeastOne(n)])
        BY <3>1, <3>2, <4>1, CoscheduleCounted
      <4> QED BY <2>3, <3>3, <4>2, Zenon
    <3>5. Calling(main, co', left')
      <4>1. main.at \notin {"place", "busy", "todo"}
        BY <1>0
      <4> QED BY <1>0, <4>1, CallFacts, NothingToDo, Zenon
    <3> QED BY <2>1, <3>4, <3>5, CallFacts, Zenon DEF TickInv
  <2> QED BY <2>1, <2>2, <2>3
<1>3. CASE CancelUnit(u)
  <2>1. /\ ticks' = ticks
        /\ \/ /\ u \in Range(co.queue) /\ co' = CoschedCancel(co, u) /\ main' = main
              /\ left' = [v \in Dev |-> CASE v = u -> 0
                                      [] v \in Cosched \ {u} /\ u = Head(co.queue) -> Skewed
                                      [] OTHER -> left[v]]
           \/ co' = co /\ left' = left /\ main' = [main EXCEPT !.at = "cancel", !.unit = u]
    BY <1>3 DEF CancelUnit, Cosched
  <2>2. CASE /\ u \in Range(co.queue) /\ co' = CoschedCancel(co, u) /\ main' = main
             /\ left' = [v \in Dev |-> CASE v = u -> 0
                                     [] v \in Cosched \ {u} /\ u = Head(co.queue) -> Skewed
                                     [] OTHER -> left[v]]
    <3>1. co.queue \in Seq(Dev) /\ left \in [Dev -> Int]
      BY CallFacts, SortedFields DEF Counted
    <3>2. Head(co.queue) = co.queue[1]
      BY <3>1
    <3>3. left' \in [Dev -> Int]
      BY <2>2, <3>1 DEF Skewed
    <3>4. \A v \in Dev : v # u /\ v \in Range(co.queue) =>
            left'[v] = IF u = co.queue[1] THEN Skewed ELSE left[v]
      BY <2>2, <3>2 DEF Cosched
    <3>5. Counted(co', left')
      BY <2>2, <3>3, <3>4, CallFacts, CancelCounted
    <3>6. Calling(main, co', left')
      <4>1. main.at \notin {"place", "busy", "todo"}
        BY <1>0
      <4> QED BY <1>0, <4>1, CallFacts, NothingToDo, Zenon
    <3> QED BY <2>1, <2>2, <3>5, <3>6, CallFacts, Zenon DEF TickInv
  <2>3. CASE co' = co /\ left' = left /\ main' = [main EXCEPT !.at = "cancel", !.unit = u]
    <3> DEFINE m == [at |-> "cancel", unit |-> u, wait |-> main.wait, todo |-> main.todo]
    <3>1. main' = m
      BY <2>3, CallFacts, MainFields, Zenon
    <3>2. m.at = "cancel" /\ m.unit = u /\ m.wait = main.wait /\ m.todo = <<>>
      BY <1>0
    <3>3. m = [at |-> m.at, unit |-> m.unit, wait |-> m.wait, todo |-> m.todo]
      OBVIOUS
    <3> HIDE DEF m
    <3>4. m.at \notin {"place", "busy", "todo"}
      BY <3>2
    <3>5. Calling(main', co, left)
      BY <3>1, <3>2, <3>3, <3>4, NothingToDo, Zenon
    <3> QED BY <2>1, <2>3, <3>5, CallFacts, OtherKeeps
  <2> QED BY <2>1, <2>2, <2>3
<1> QED BY <1>1, <1>2, <1>3

\* The service calls, and the rest of the tick service.
LEMMA ServiceKeeps ==
  ASSUME TickInv, Service \/ TickGather \/ TickDispatch
  PROVE  TickInv'
<1>0. /\ Gathering(<<>>, co, left) /\ Gathering(<<Tick>>, co, left)
      /\ Hz \in Nat \ {0} /\ ticks \in 0 .. Hz - 1 /\ Tick \in Timed /\ Tick \notin Dev
  BY CallFacts, NothingToDo, TimersAssumption, UnitsAssumption DEF Gathering, Timed
<1>1. ASSUME NEW u \in Unit, DispatchClock(u) PROVE TickInv'
  <2>1. PICK todo \in {<<>>, <<Tick>>} : StartWait([event EXCEPT ![u] = Never], Tick, Period, todo)
    BY <1>1 DEF DispatchClock
  <2>2. co' = co /\ left' = left /\ ticks' = (ticks + 1) % Hz
    BY <1>1 DEF DispatchClock, ClockTicked
  <2>3. ticks' \in 0 .. Hz - 1
    BY <1>0, <2>2
  <2>4. Gathering(todo, co, left) /\ Apart(Tick, todo)
    BY <1>0, Zenon DEF Apart
  <2>5. Calling(main', co, left)
    BY <1>0, <2>1, <2>4, StartFacts, Zenon
  <2> QED BY <2>2, <2>3, <2>5, OtherKeeps
<1>2. ASSUME NEW u \in Unit, DispatchDevice(u) PROVE TickInv'
  <2>1. /\ co' = co /\ left' = left /\ ticks' = ticks /\ u \in Dev
        /\ main' = main \/ StartWait([event EXCEPT ![u] = Never], u, usecs_remaining[u], <<>>)
    BY <1>2 DEF DispatchDevice
  <2>2. Apart(u, <<>>) /\ u \in Timed
    BY <2>1 DEF Apart, Timed
  <2>3. Calling(main', co, left)
    <3>1. CASE main' = main
      BY <3>1 DEF TickInv
    <3>2. CASE StartWait([event EXCEPT ![u] = Never], u, usecs_remaining[u], <<>>)
      BY <1>0, <2>2, <3>2, StartFacts, Zenon
    <3> QED BY <2>1, <3>1, <3>2
  <2> QED BY <1>0, <2>1, <2>3, OtherKeeps
<1>3. CASE TickGather
  <2> DEFINE g == Gather(co)
             m == [main EXCEPT !.todo = g.due]
  <2>1. /\ co' = g.cosched /\ ticks' = ticks /\ main' = Return(m)
        /\ left' = [u \in Dev |-> IF u \in Cosched /\ left[u] # Skewed THEN left[u] - 1 ELSE left[u]]
    BY <1>3 DEF TickGather
  <2>2. m.todo = g.due
    BY CallFacts, MainFields, Zenon
  <2> HIDE DEF m
  <2>3. Counted(co, left) /\ left \in [Dev -> Int]
    BY CallFacts, Zenon DEF Counted
  <2>4. left' \in [Dev -> Int]
    BY <2>1, <2>3
  <2>5. \A v \in Dev : v \in Range(co.queue) =>
          left'[v] = IF left[v] # Skewed THEN left[v] - 1 ELSE left[v]
    BY <2>1 DEF Cosched
  <2>6. Counted(g.cosched, left') /\ Gathering(g.due, g.cosched, left')
    BY <2>3, <2>4, <2>5, GatherCounted
  <2> HIDE DEF g
  <2>7. Calling(main', co', left')
    BY <2>1, <2>2, <2>6, ReturnFacts, Zenon
  <2> QED BY <1>0, <2>1, <2>6, <2>7, Zenon DEF TickInv
<1>4. CASE TickDispatch
  <2> DEFINE todo == main.todo
             u == Head(todo)
             m == [main EXCEPT !.todo = Tail(@)]
  <2>1. /\ main.at = "todo" /\ u # Tick /\ co' = co /\ ticks' = ticks
        /\ left' = [left EXCEPT ![u] = 0]
        /\ main' = Return(m) \/ StartWait(event, u, usecs_remaining[u], Tail(todo))
    BY <1>4 DEF TickDispatch
  <2>2. m.todo = Tail(todo)
    <3>1. m = [main EXCEPT !.todo = Tail(main.todo)]
      OBVIOUS
    <3>2. [main EXCEPT !.todo = Tail(main.todo)].todo = Tail(main.todo)
      BY CallFacts, MainFields, Zenon
    <3> QED BY <3>1, <3>2
  <2>3. todo # <<>> /\ Gathering(todo, co, left)
    BY <2>1, CallFacts
  <2> HIDE DEF m
  <2>4. /\ todo \in Seq(Dev) /\ \A i, j \in 1 .. Len(todo) : todo[i] = todo[j] => i = j
        /\ \A i \in 1 .. Len(todo) : left[todo[i]] \in {0, Skewed} /\ todo[i] \notin Range(co.queue)
    <3>1. todo # <<Tick>>
      BY <2>1
    <3> QED BY <2>3, <3>1, Zenon DEF Gathering
  <2>5. /\ u = todo[1] /\ u \in Dev /\ Tail(todo) \in Seq(Dev) /\ Len(Tail(todo)) = Len(todo) - 1
        /\ 1 \in 1 .. Len(todo)
        /\ \A i \in 1 .. Len(Tail(todo)) : Tail(todo)[i] = todo[i + 1] /\ i + 1 \in 1 .. Len(todo)
    BY <2>3, <2>4
  <2>6. u \in Timed
    BY <2>5 DEF Timed
  <2> DEFINE rest == Tail(todo)
  <2> HIDE DEF todo, u, rest
  <2>7. left \in [Dev -> Int] /\ Counted(co, left) /\ co.queue \in Seq(Dev)
    BY CallFacts, SortedFields DEF Counted
  <2>8. left' \in [Dev -> Int] /\ left'[u] = 0 /\ \A v \in Dev : v # u => left'[v] = left[v]
    BY <2>1, <2>5, <2>7
  <2>9. Counted(co, left')
    <3>1. \A i \in 1 .. Len(co.queue) : co.queue[i] \in Dev /\ co.queue[i] # u
      BY <2>4, <2>5, <2>7, RangeFacts
    <3> QED BY <2>7, <2>8, <3>1, Zenon DEF Counted
  <2>10. \A i \in 1 .. Len(rest) : rest[i] = todo[i + 1] /\ i + 1 \in 1 .. Len(todo) /\ i + 1 # 1 /\ i \in Int
    BY <2>5 DEF rest
  <2>11. \A i \in 1 .. Len(rest) : rest[i] # u /\ rest[i] \in Dev
    BY <2>4, <2>5, <2>10
  <2>12. Apart(u, rest)
    BY <2>6, <2>11, Zenon DEF Apart
  <2>13. ASSUME NEW i \in 1 .. Len(rest), NEW j \in 1 .. Len(rest), rest[i] = rest[j] PROVE i = j
    <3>1. /\ todo[i + 1] = todo[j + 1] /\ i + 1 \in 1 .. Len(todo) /\ j + 1 \in 1 .. Len(todo)
          /\ i \in Int /\ j \in Int
      BY <2>10, <2>13, Zenon
    <3>2. i + 1 = j + 1
      BY <2>4, <3>1, Zenon
    <3> QED BY <3>1, <3>2
  <2>14. Gathering(rest, co, left')
    <3>1. ASSUME NEW i \in 1 .. Len(rest)
          PROVE  left'[rest[i]] \in {0, Skewed} /\ rest[i] \notin Range(co.queue)
      <4>1. rest[i] = todo[i + 1] /\ i + 1 \in 1 .. Len(todo)
        BY <2>10, Zenon
      <4>2. left[todo[i + 1]] \in {0, Skewed} /\ todo[i + 1] \notin Range(co.queue)
        BY <2>4, <4>1, Zenon
      <4>3. left'[rest[i]] = left[rest[i]]
        BY <2>8, <2>11, Zenon
      <4> QED BY <4>1, <4>2, <4>3, Zenon
    <3>2. rest \in Seq(Dev)
      BY <2>5 DEF rest
    <3> QED BY <2>13, <3>1, <3>2, Zenon DEF Gathering
  <2>15. Calling(main', co, left')
    <3>1. CASE main' = Return(m)
      BY <2>2, <2>14, <3>1, ReturnFacts, Zenon DEF rest
    <3>2. CASE StartWait(event, u, usecs_remaining[u], rest)
      BY <2>6, <2>12, <2>14, <3>2, StartFacts
    <3> QED BY <2>1, <3>1, <3>2, Zenon DEF rest
  <2> QED BY <1>0, <2>1, <2>9, <2>15, Zenon DEF TickInv
<1> QED BY <1>1, <1>2, <1>3, <1>4 DEF Service

\* Outside a call that places a unit, with nothing to do.
LEMMA QuietCall ==
  ASSUME NEW a, a \notin {"place", "busy", "todo"}
  PROVE  \A u, w, c, ahead : Calling([at |-> a, unit |-> u, wait |-> w, todo |-> <<>>], c, ahead)
<1> TAKE u, w, c, ahead
<1> DEFINE m == [at |-> a, unit |-> u, wait |-> w, todo |-> <<>>]
<1>1. m.at = a /\ m.todo = <<>> /\ m = [at |-> m.at, unit |-> m.unit, wait |-> m.wait, todo |-> m.todo]
  OBVIOUS
<1> HIDE DEF m
<1>2. Calling(m, c, ahead)
  BY <1>1, NothingToDo, Zenon
<1> QED BY <1>2, Zenon DEF m

\* A list without units has nothing to count.
LEMMA NothingCounted == Counted(EmptyCosched(Dev), [u \in Dev |-> 0])
<1> DEFINE c == EmptyCosched(Dev)
           b == [u \in Dev |-> 0]
<1>1. Sorted(c) /\ Len(c.queue) = 0 /\ b \in [Dev -> Int]
  BY EmptyFacts
<1>2. c.queue = <<>>
  BY DEF EmptyCosched
<1> HIDE DEF c, b
<1>3. 1 .. Len(c.queue) = {}
  BY <1>1
<1>4. Counted(c, b)
  BY <1>1, <1>2, <1>3, Zenon DEF Counted
<1> QED BY <1>4, Zenon DEF c, b

\* The steps of the thread that stay outside.
LEMMA QuietSteps ==
  ASSUME TickInv, NEW a, a \notin {"place", "busy", "todo"}, NEW x
  PROVE  /\ Calling(Idle, co, left) /\ Calling([Idle EXCEPT !.at = a], co, left)
         /\ main.todo = <<>> => /\ Calling([main EXCEPT !.at = a], co, left)
                                /\ Calling([main EXCEPT !.at = a, !.unit = x], co, left)
                                /\ Calling([main EXCEPT !.at = a, !.wait = x], co, left)
<1>1. main = [at |-> main.at, unit |-> main.unit, wait |-> main.wait, todo |-> main.todo]
  BY CallFacts, Zenon
<1>2. Calling(Idle, co, left)
  <2>1. "run" \notin {"place", "busy", "todo"}
    OBVIOUS
  <2> QED BY <2>1, QuietCall, Zenon DEF Idle
<1>3. Calling([Idle EXCEPT !.at = a], co, left)
  <2> DEFINE e == [Idle EXCEPT !.at = a]
  <2>1. e = [at |-> a, unit |-> NULL, wait |-> 0, todo |-> <<>>]
    BY <1>1, MainFields, Zenon
  <2> HIDE DEF e
  <2>2. Calling(e, co, left)
    BY <2>1, QuietCall, Zenon
  <2> QED BY <2>2, Zenon DEF e
<1>4. ASSUME main.todo = <<>> PROVE Calling([main EXCEPT !.at = a], co, left)
  <2> DEFINE e == [main EXCEPT !.at = a]
  <2>1. e = [at |-> a, unit |-> main.unit, wait |-> main.wait, todo |-> main.todo]
    BY <1>1, MainFields, Zenon
  <2> HIDE DEF e
  <2>2. Calling(e, co, left)
    BY <1>4, <2>1, QuietCall, Zenon
  <2> QED BY <2>2, Zenon DEF e
<1>5. ASSUME main.todo = <<>> PROVE Calling([main EXCEPT !.at = a, !.unit = x], co, left)
  <2> DEFINE e == [main EXCEPT !.at = a, !.unit = x]
  <2>0. e \in [at : {a}, unit : {x}, wait : {main.wait}, todo : {main.todo}]
    BY <1>1, Zenon
  <2> HIDE DEF e
  <2>1. e = [at |-> a, unit |-> x, wait |-> main.wait, todo |-> main.todo]
    BY <2>0
  <2>2. Calling(e, co, left)
    BY <1>5, <2>1, QuietCall, Zenon
  <2> QED BY <2>2, Zenon DEF e
<1>6. ASSUME main.todo = <<>> PROVE Calling([main EXCEPT !.at = a, !.wait = x], co, left)
  <2> DEFINE e == [main EXCEPT !.at = a, !.wait = x]
  <2>1. e = [at |-> a, unit |-> main.unit, wait |-> x, todo |-> main.todo]
    BY <1>1, MainFields, Zenon
  <2> HIDE DEF e
  <2>2. Calling(e, co, left)
    BY <1>6, <2>1, QuietCall, Zenon
  <2> QED BY <2>2, Zenon DEF e
<1> QED BY <1>2, <1>3, <1>4, <1>5, <1>6, Zenon

\* A stop, a continuation, the wait for the lock in sim_cancel, and time.
LEMMA StopKeeps ==
  ASSUME TickInv,
         \/ CancelLocked \/ StopCheck \/ StopTick \/ StopCosched \/ StopThread \/ StopJoin \/ Started
         \/ Poll \/ Pass \/ StopRun \/ Boot \/ Continue
  PROVE  TickInv'
<1> DEFINE Quiet(a) == \A m, x :
             \/ m = Idle \/ m = [Idle EXCEPT !.at = a]
             \/ main.todo = <<>> /\ \/ m = [main EXCEPT !.at = a] \/ m = [main EXCEPT !.at = a, !.unit = x]
                                    \/ m = [main EXCEPT !.at = a, !.wait = x]
             => Calling(m, co, left)
<1>1. \A a : a \notin {"place", "busy", "todo"} => Quiet(a)
  <2> SUFFICES ASSUME NEW a, a \notin {"place", "busy", "todo"}, NEW m, NEW x,
                      \/ m = Idle \/ m = [Idle EXCEPT !.at = a]
                      \/ main.todo = <<>> /\ \/ m = [main EXCEPT !.at = a] \/ m = [main EXCEPT !.at = a, !.unit = x]
                                             \/ m = [main EXCEPT !.at = a, !.wait = x]
               PROVE  Calling(m, co, left)
    BY Zenon
  <2>1. CASE m = Idle
    BY <2>1, QuietSteps, Zenon
  <2>2. CASE m = [Idle EXCEPT !.at = a]
    BY <2>2, QuietSteps, Zenon
  <2>3. CASE main.todo = <<>> /\ m = [main EXCEPT !.at = a]
    BY <2>3, QuietSteps, Zenon
  <2>4. CASE main.todo = <<>> /\ m = [main EXCEPT !.at = a, !.unit = x]
    BY <2>4, QuietSteps, Zenon
  <2>5. CASE main.todo = <<>> /\ m = [main EXCEPT !.at = a, !.wait = x]
    BY <2>5, QuietSteps, Zenon
  <2> QED BY <2>1, <2>2, <2>3, <2>4, <2>5, Zenon
<1>2. /\ Quiet("stop") /\ Quiet("stop tick") /\ Quiet("stop cosched") /\ Quiet("join")
      /\ Quiet("stopped") /\ Quiet("starting")
  <2> HIDE DEF Quiet
  <2> QED BY <1>1
<1>3. main.at \in {"stop", "stop tick", "stop thread"} => main.todo = <<>>
  BY CallFacts
<1>4. CASE StopCosched
  <2>1. /\ co' = EmptyCosched(Dev) /\ left' = [u \in Dev |-> 0] /\ ticks' = ticks
        /\ main' = [Idle EXCEPT !.at = "stop thread"]
    BY <1>4 DEF StopCosched
  <2>2. Calling(main', co', left')
    <3>1. main' = [at |-> "stop thread", unit |-> NULL, wait |-> 0, todo |-> <<>>]
      BY <2>1 DEF Idle
    <3>2. "stop thread" \notin {"place", "busy", "todo"}
      OBVIOUS
    <3> QED BY <3>1, <3>2, QuietCall, Zenon
  <2>3. Counted(co', left')
    BY <2>1, NothingCounted, Zenon
  <2> QED BY <2>1, <2>2, <2>3, CallFacts, Zenon DEF TickInv
<1>5. CASE \/ CancelLocked \/ StopCheck \/ StopTick \/ StopThread \/ StopJoin \/ Started
           \/ Poll \/ Pass \/ StopRun \/ Boot \/ Continue
  <2>1. co' = co /\ left' = left /\ (ticks' = ticks \/ ticks' = 0)
    BY <1>5 DEF CancelLocked, StopCheck, StopTick, StopThread, StopJoin, Started, Poll, Pass,
                StopRun, Boot, Continue
  <2>2. ticks' \in 0 .. Hz - 1
    BY <2>1, CallFacts, TimersAssumption
  <2>3. Calling(main', co, left)
    <3>1. CASE CancelLocked \/ Started
      <4>1. main' = Idle
        BY <3>1 DEF CancelLocked, Started
      <4> QED BY <1>2, <4>1, Zenon
    <3>2. CASE StopRun \/ Continue \/ StopJoin
      <4>1. \/ main' = [Idle EXCEPT !.at = "stop"] \/ main' = [Idle EXCEPT !.at = "starting"]
            \/ main' = [Idle EXCEPT !.at = "stopped"]
        BY <3>2, Zenon DEF StopRun, Continue, StopJoin, Stopped
      <4> QED BY <1>2, <4>1, Zenon
    <3>3. CASE StopCheck
      <4>1. main.todo = <<>>
        BY <1>3, <3>3 DEF StopCheck
      <4>2. \E a \in {"stop tick", "stop cosched"} : \E x : main' = [main EXCEPT !.at = a, !.wait = x]
        BY <3>3, Zenon DEF StopCheck
      <4> QED BY <1>2, <4>1, <4>2, Zenon
    <3>4. CASE StopTick
      <4>1. main.todo = <<>>
        BY <1>3, <3>4 DEF StopTick
      <4>2. main' = [main EXCEPT !.at = "stop cosched", !.unit = Clock]
        BY <3>4, Zenon DEF StopTick
      <4> QED BY <1>2, <4>1, <4>2, Zenon
    <3>5. CASE StopThread
      <4>1. main.todo = <<>>
        BY <1>3, <3>5 DEF StopThread
      <4>2. main' = [main EXCEPT !.at = "join"] \/ main' = [Idle EXCEPT !.at = "stopped"]
        BY <3>5, Zenon DEF StopThread, Stopped
      <4> QED BY <1>2, <4>1, <4>2, Zenon
    <3>6. CASE Poll \/ Pass \/ Boot
      <4>1. main' = main
        BY <3>6, Zenon DEF Poll, Pass, Boot
      <4> QED BY <4>1 DEF TickInv
    <3> QED BY <1>5, <3>1, <3>2, <3>3, <3>4, <3>5, <3>6, Zenon
  <2> QED BY <2>1, <2>2, <2>3, OtherKeeps
<1> QED BY <1>4, <1>5

\* The timer thread has no part in it.
LEMMA ThreadKeeps ==
  ASSUME TickInv, TimerThread \/ ThreadSpurious \/ UNCHANGED vars
  PROVE  TickInv'
<1>1. co' = co /\ left' = left /\ ticks' = ticks /\ main' = main
  BY DEF TimerThread, ThreadLoop, ThreadTimeout, ThreadExpired, ThreadPost, ThreadSpurious,
         ThreadUnchanged, vars
<1> QED BY <1>1, CallFacts, OtherKeeps DEF TickInv

\* The counts agree with the list in every reachable state.
THEOREM TickInvariant == Spec => []TickInv
<1>1. Init => TickInv
  <2> SUFFICES ASSUME Init PROVE TickInv
    OBVIOUS
  <2>1. /\ co = EmptyCosched(Dev) /\ left = [u \in Dev |-> 0] /\ ticks = 0
        /\ main = [Idle EXCEPT !.at = "stopped"]
    BY DEF Init
  <2>2. Counted(co, left)
    BY <2>1, NothingCounted, Zenon
  <2>3. Calling(main, co, left)
    <3>1. main = [at |-> "stopped", unit |-> NULL, wait |-> 0, todo |-> <<>>]
      BY <2>1 DEF Idle
    <3>2. "stopped" \notin {"place", "busy", "todo"}
      OBVIOUS
    <3> QED BY <3>1, <3>2, QuietCall, Zenon
  <2>4. ticks \in 0 .. Hz - 1
    BY <2>1, TimersAssumption
  <2> QED BY <2>2, <2>3, <2>4, Zenon DEF TickInv
<1>2. TickInv /\ [Next]_vars => TickInv'
  BY PlaceKeeps, AskKeeps, ServiceKeeps, StopKeeps, ThreadKeeps DEF Next, InCall
<1> QED BY <1>1, <1>2, PTL DEF Spec

\* sim_timer_tick_svc gathers a coscheduled unit by the tick it was coscheduled for, and by no
\* other, for any clock rate, delays, tick counts and units, whatever else is coscheduled,
\* cancelled behind the first unit, stopped or continued.
THEOREM UnitsAreGatheredOnTick == Spec => []CoschedOnTick
<1>1. TickInv => CoschedOnTick
  <2> SUFFICES ASSUME TickInv, NEW u \in Dev
               PROVE  /\ u \in Cosched => left[u] # 0
                      /\ u \in Range(main.todo) => left[u] \in {0, Skewed}
    BY DEF CoschedOnTick
  <2>1. ASSUME u \in Cosched PROVE left[u] # 0
    <3>1. co.queue \in Seq(Dev) /\ Sorted(co)
      BY CallFacts, SortedFields DEF Counted
    <3>2. PICK i \in 1 .. Len(co.queue) : co.queue[i] = u
      BY <2>1, <3>1, RangeFacts DEF Cosched
    <3>3. left[u] = Skewed \/ left[u] = AtLeastOne(TicksTo(co, i))
      BY <3>2, CallFacts, Zenon DEF Counted
    <3>4. TicksTo(co, i) \in Int
      BY <3>1, TicksStep
    <3> QED BY <3>3, <3>4 DEF AtLeastOne, Skewed
  <2>2. ASSUME u \in Range(main.todo) PROVE left[u] \in {0, Skewed}
    <3>1. CASE main.todo = <<Tick>>
      BY <2>2, <3>1, UnitsAssumption DEF Range
    <3>2. CASE main.todo # <<Tick>>
      <4>1. /\ main.todo \in Seq(Dev)
            /\ \A i \in 1 .. Len(main.todo) : left[main.todo[i]] \in {0, Skewed}
        BY <3>2, CallFacts, Zenon DEF Gathering
      <4> QED BY <2>2, <4>1, RangeFacts
    <3> QED BY <3>1, <3>2
  <2> QED BY <2>1, <2>2
<1> QED BY <1>1, TickInvariant, PTL
=============================================================================
