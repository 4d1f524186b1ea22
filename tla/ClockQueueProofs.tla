-------------------------- MODULE ClockQueueProofs ---------------------------
(***************************************************************************)
(* Lemmas about the operators of ClockQueue.  Times are relative in the    *)
(* code, so each lemma says what an operation does to the absolute time at *)
(* which every queued unit is due.                                         *)
(***************************************************************************)
EXTENDS ClockQueue, WellFoundedInduction, TLAPS

-----------------------------------------------------------------------------
(* Induction, and the sums of the queue walks.                             *)

\* A set of numbers with 0 that is closed under successor has every number.
LEMMA Induction ==
  ASSUME NEW S \in SUBSET Nat, 0 \in S, \A n \in S : n + 1 \in S
  PROVE  S = Nat
<1> SUFFICES ASSUME Nat \ S # {} PROVE FALSE
  BY Zenon
<1> DEFINE T == Nat \ S
           R == OpToRel(<, Nat)
<1>1. IsWellFoundedOn(R, Nat)
  BY NatLessThanWellFounded, Zenon
<1>2. \A x, y \in Nat : <<y, x>> \in R <=> y < x
  BY DEF OpToRel
<1> HIDE DEF R
<1>3. PICK x \in T : \A y \in T : ~ (<<y, x>> \in R)
  BY <1>1, WFMin, Zenon
<1>4. x \in Nat /\ x # 0 /\ x - 1 \in Nat /\ x - 1 < x /\ (x - 1) + 1 = x
  BY <1>3
<1>5. x - 1 \in S
  BY <1>2, <1>3, <1>4, Zenon
<1> QED BY <1>3, <1>4, <1>5

\* The same up to a bound.
LEMMA BoundedInduction ==
  ASSUME NEW N \in Nat, NEW S \in SUBSET (0 .. N), 0 \in S, \A n \in S : n < N => n + 1 \in S
  PROVE  S = 0 .. N
<1> DEFINE T == {n \in Nat : n <= N => n \in S}
<1>1. 0 \in T
  OBVIOUS
<1>2. ASSUME NEW n \in T PROVE n + 1 \in T
  OBVIOUS
<1>3. T \in SUBSET Nat
  OBVIOUS
<1> HIDE DEF T
<1>4. T = Nat
  BY <1>1, <1>2, <1>3, Induction
<1>5. \A n \in Nat : n <= N => n \in S
  BY <1>4 DEF T
<1>6. \A n \in 0 .. N : n \in S
  BY <1>5
<1> QED BY <1>6, Zenon

\* The function that the recursion of Accum defines exists.
LEMMA SumExists ==
  ASSUME NEW f, NEW N \in Nat
  PROVE  \E g : g = [k \in 0 .. N |-> IF k = 0 THEN 0 ELSE g[k - 1] + f[k]]
<1> DEFINE IsSum(g, n) == g = [k \in 0 .. n |-> IF k = 0 THEN 0 ELSE g[k - 1] + f[k]]
           S == {n \in Nat : \E g : IsSum(g, n)}
<1>1. 0 \in S
  <2> DEFINE g == [k \in 0 .. 0 |-> 0]
  <2>1. IsSum(g, 0)
    OBVIOUS
  <2> QED BY <2>1, Zenon
<1>2. ASSUME NEW n \in S PROVE n + 1 \in S
  <2>1. PICK g : IsSum(g, n)
    OBVIOUS
  <2> DEFINE h == [k \in 0 .. n + 1 |-> IF k = n + 1 THEN g[n] + f[n + 1] ELSE g[k]]
  <2>2. n \in Nat
    OBVIOUS
  <2>3. ASSUME NEW k \in 0 .. n + 1
        PROVE  h[k] = IF k = 0 THEN 0 ELSE h[k - 1] + f[k]
    <3>1. CASE k = n + 1
      <4>1. h[k] = g[n] + f[n + 1] /\ h[k - 1] = g[n] /\ k # 0
        BY <2>2, <3>1
      <4> QED BY <3>1, <4>1
    <3>2. CASE k \in 0 .. n
      <4>1. h[k] = g[k] /\ (k # 0 => h[k - 1] = g[k - 1])
        BY <2>2, <3>2
      <4>2. g[k] = IF k = 0 THEN 0 ELSE g[k - 1] + f[k]
        BY <2>1, <3>2
      <4> HIDE DEF h
      <4> QED BY <4>1, <4>2
    <3> QED BY <2>2, <3>1, <3>2
  <2>4. IsSum(h, n + 1)
    <3>1. h = [k \in 0 .. n + 1 |-> h[k]]
       OBVIOUS
    <3> HIDE DEF h
    <3> QED BY <2>3, <3>1, Zenon
  <2> HIDE DEF h
  <2> QED BY <2>2, <2>4
<1>3. S \in SUBSET Nat
  OBVIOUS
<1> HIDE DEF S
<1>4. S = Nat
  BY <1>1, <1>2, <1>3, Induction
<1> QED BY <1>4, Zenon DEF S

\* Accum adds the relative times of the entries, one after another.
LEMMA AccumStep ==
  ASSUME NEW c, Len(c.queue) \in Nat
  PROVE  /\ Accum(c, 0) = 0
         /\ \A k \in 1 .. Len(c.queue) : Accum(c, k) = Accum(c, k - 1) + c.time[c.queue[k]]
<1> DEFINE N == Len(c.queue)
           f == [k \in 1 .. N |-> c.time[c.queue[k]]]
           IsSum(g) == g = [k \in 0 .. N |-> IF k = 0 THEN 0 ELSE g[k - 1] + c.time[c.queue[k]]]
           sum == CHOOSE g : IsSum(g)
<1>1. PICK g : g = [k \in 0 .. N |-> IF k = 0 THEN 0 ELSE g[k - 1] + f[k]]
  BY SumExists, Zenon
<1>2. IsSum(g)
  <2>1. \A k \in 0 .. N : k # 0 => f[k] = c.time[c.queue[k]]
    OBVIOUS
  <2> HIDE DEF f
  <2>2. \A k \in 0 .. N : (IF k = 0 THEN 0 ELSE g[k - 1] + f[k])
                           = (IF k = 0 THEN 0 ELSE g[k - 1] + c.time[c.queue[k]])
    BY <2>1
  <2> QED BY <1>1, <2>2, Zenon
<1>3. IsSum(sum)
  BY <1>2, Zenon
<1>4. \A i : Accum(c, i) = sum[i]
  BY DEF Accum
<1> HIDE DEF sum
<1>5. \A k \in 0 .. N : sum[k] = IF k = 0 THEN 0 ELSE sum[k - 1] + c.time[c.queue[k]]
  BY <1>3, SMTT(30)
<1>6. sum[0] = 0 /\ \A k \in 1 .. N : sum[k] = sum[k - 1] + c.time[c.queue[k]]
  BY <1>5
<1> QED BY <1>4, <1>6

\* Whatever adds up the same way is Accum.
LEMMA AccumIs ==
  ASSUME NEW c, Len(c.queue) \in Nat, NEW f, f[0] = 0,
         \A k \in 1 .. Len(c.queue) : f[k] = f[k - 1] + c.time[c.queue[k]]
  PROVE  \A k \in 0 .. Len(c.queue) : Accum(c, k) = f[k]
<1> DEFINE N == Len(c.queue)
           S == {k \in 0 .. N : Accum(c, k) = f[k]}
<1>1. 0 \in S
  BY AccumStep
<1>2. ASSUME NEW n \in S, n < N PROVE n + 1 \in S
  <2>1. n + 1 \in 1 .. N /\ (n + 1) - 1 = n
    BY <1>2
  <2>2. Accum(c, n + 1) = Accum(c, n) + c.time[c.queue[n + 1]] /\ f[n + 1] = f[n] + c.time[c.queue[n + 1]]
    BY <2>1, AccumStep
  <2> QED BY <2>1, <2>2
<1>3. S \in SUBSET (0 .. N)
  OBVIOUS
<1> HIDE DEF S
<1>4. S = 0 .. N
  BY <1>1, <1>2, <1>3, BoundedInduction, Zenon
<1> QED BY <1>4 DEF S

\* The sums are integers.
LEMMA SumType ==
  ASSUME NEW c, c.queue \in Seq(Unit), c.time \in [Unit -> Int]
  PROVE  \A k \in 0 .. Len(c.queue) : Accum(c, k) \in Int
<1> DEFINE N == Len(c.queue)
           S == {k \in 0 .. N : Accum(c, k) \in Int}
<1>0. c.queue \in Seq(Unit) /\ c.time \in [Unit -> Int] /\ N \in Nat
  OBVIOUS
<1>1. 0 \in S
  BY <1>0, AccumStep
<1>2. ASSUME NEW n \in S, n < N PROVE n + 1 \in S
  <2>1. n + 1 \in 1 .. N /\ (n + 1) - 1 = n
    BY <1>0, <1>2
  <2>2. Accum(c, n + 1) = Accum(c, n) + c.time[c.queue[n + 1]]
    BY <1>0, <2>1, AccumStep, Zenon
  <2>3. c.time[c.queue[n + 1]] \in Int
    BY <1>0, <2>1
  <2> QED BY <2>1, <2>2, <2>3
<1>3. S \in SUBSET (0 .. N)
  OBVIOUS
<1> HIDE DEF S
<1>4. S = 0 .. N
  BY <1>0, <1>1, <1>2, <1>3, BoundedInduction, Zenon
<1> QED BY <1>4 DEF S

\* The same for a clock.
LEMMA AccumType ==
  ASSUME NEW c \in Clock
  PROVE  \A k \in 0 .. Len(c.queue) : Accum(c, k) \in Int
<1>1. c.queue \in Seq(Unit) /\ c.time \in [Unit -> Int]
  BY DEF Clock
<1> QED BY <1>1, SumType

-----------------------------------------------------------------------------
(* sim_rtime.                                                              *)

\* Adding to a remainder or to the number itself leaves the same remainder.
LEMMA ModAdd ==
  ASSUME NEW a \in Int, NEW d \in Int, NEW n \in Nat \ {0}
  PROVE  ((a % n) + d) % n = (a + d) % n /\ a % n \in 0 .. n - 1
<1> DEFINE x == a % n
           q == a \div n
           y == (x + d) % n
           p == (x + d) \div n
           z == (a + d) % n
           r == (a + d) \div n
<1>1. q \in Int /\ x \in 0 .. n - 1 /\ a = n * q + x
  OBVIOUS
<1>2. p \in Int /\ y \in 0 .. n - 1 /\ x + d = n * p + y
  BY <1>1
<1>3. r \in Int /\ z \in 0 .. n - 1 /\ a + d = n * r + z
  OBVIOUS
<1> HIDE DEF x, q, y, p, z, r
<1> DEFINE k == r - q - p
<1>4. k \in Int /\ y - z = n * k
  <2>1. y - z = n * r - n * q - n * p
    BY <1>1, <1>2, <1>3
  <2>2. n * r - n * q - n * p = n * (r - q - p)
    BY <1>1, <1>2, <1>3
  <2> QED BY <1>1, <1>2, <1>3, <2>1, <2>2
<1> HIDE DEF k
<1>5. k >= 1 => n * k >= n
  BY <1>4
<1>6. k <= -1 => n * k <= -n
  BY <1>4
<1>7. k = 0
  BY <1>2, <1>3, <1>4, <1>5, <1>6
<1>8. y = z
  BY <1>2, <1>3, <1>4, <1>7
<1> QED BY <1>1, <1>8 DEF x, y, z

-----------------------------------------------------------------------------
(* Well-formed clocks and absolute due times.                              *)

\* No unit is queued twice, only the first wait can be negative, and sim_rtime is
\* sim_vm_time modulo its width.
Good(c) ==
  /\ c \in Clock
  /\ \A i, j \in 1 .. Len(c.queue) : c.queue[i] = c.queue[j] => i = j
  /\ \A i \in 2 .. Len(c.queue) : c.time[c.queue[i]] >= 0
  /\ c.rtime = c.vm_time % Word

\* When the i-th entry is due.
DueAt(c, i) == c.vm_time + Accum(c, i)

\* The fields of a clock.
LEMMA ClockFields ==
  ASSUME NEW c \in Clock
  PROVE  /\ c.queue \in Seq(Unit) /\ Len(c.queue) \in Nat /\ DOMAIN c.queue = 1 .. Len(c.queue)
         /\ c.time \in [Unit -> Int] /\ c.interval \in Int /\ c.noqueue_time \in Int
         /\ c.vm_time \in Int /\ c.rtime \in 0 .. Word - 1
         /\ \A i \in 1 .. Len(c.queue) : c.queue[i] \in Unit /\ c.time[c.queue[i]] \in Int
         /\ c.queue # <<>> <=> Len(c.queue) >= 1
<1>1. /\ c.queue \in Seq(Unit) /\ c.time \in [Unit -> Int] /\ c.interval \in Int /\ c.noqueue_time \in Int
      /\ c.vm_time \in Int /\ c.rtime \in 0 .. Word - 1
  BY DEF Clock
<1>2. Len(c.queue) \in Nat /\ DOMAIN c.queue = 1 .. Len(c.queue)
  BY <1>1
<1>3. \A i \in 1 .. Len(c.queue) : c.queue[i] \in Unit
  BY <1>1
<1>4. c.queue # <<>> <=> Len(c.queue) >= 1
  BY <1>1
<1> QED BY <1>1, <1>2, <1>3, <1>4

\* The sums depend on the queue and the relative times only.
LEMMA AccumSame ==
  ASSUME NEW c, NEW d, c.queue = d.queue, c.time = d.time
  PROVE  \A i : Accum(c, i) = Accum(d, i)
BY DEF Accum

\* The first entry's wait.
LEMMA HeadDue ==
  ASSUME NEW c \in Clock
  PROVE  /\ HeadTime(c) \in Int /\ SimGtime(c) \in Int
         /\ SimGtime(c) = c.vm_time + HeadTime(c) - c.interval
         /\ c.queue # <<>> => HeadTime(c) = c.time[c.queue[1]] /\ DueAt(c, 1) = c.vm_time + HeadTime(c)
         /\ \A i \in 1 .. Len(c.queue) : DueAt(c, i) \in Int
<1>1. HeadTime(c) \in Int
  BY ClockFields DEF HeadTime
<1>2. SimGtime(c) = c.vm_time + HeadTime(c) - c.interval
  <2>1. UpdateSimTime(c).vm_time = Advance(c, HeadTime(c) - c.interval).vm_time
    BY DEF UpdateSimTime, Advance, Clock
  <2>2. Advance(c, HeadTime(c) - c.interval).vm_time = c.vm_time + (HeadTime(c) - c.interval)
    BY DEF Advance, Clock
  <2>3. c.vm_time + (HeadTime(c) - c.interval) = c.vm_time + HeadTime(c) - c.interval
    BY <1>1, ClockFields
  <2> QED BY <2>1, <2>2, <2>3 DEF SimGtime
<1>3. ASSUME c.queue # <<>>
      PROVE  HeadTime(c) = c.time[c.queue[1]] /\ DueAt(c, 1) = c.vm_time + HeadTime(c)
  <2>1. 1 \in 1 .. Len(c.queue) /\ 1 - 1 = 0
    BY <1>3, ClockFields
  <2>2. Accum(c, 1) = 0 + c.time[c.queue[1]]
    BY <2>1, ClockFields, AccumStep
  <2>3. HeadTime(c) = c.time[c.queue[1]]
    BY <1>3 DEF HeadTime
  <2> QED BY <1>1, <2>2, <2>3, ClockFields DEF DueAt
<1>4. \A i \in 1 .. Len(c.queue) : DueAt(c, i) \in Int
  BY AccumType, ClockFields DEF DueAt
<1> QED BY <1>1, <1>2, <1>3, <1>4, ClockFields

\* Time moves on; the entries become due that much later.
LEMMA AdvanceFacts ==
  ASSUME NEW c, Good(c), NEW d \in Int
  PROVE  LET a == Advance(c, d) IN
         /\ Good(a) /\ a.queue = c.queue /\ a.time = c.time /\ a.interval = c.interval
         /\ a.noqueue_time = c.noqueue_time /\ a.vm_time = c.vm_time + d
         /\ \A i \in 1 .. Len(c.queue) : DueAt(a, i) = DueAt(c, i) + d
<1> DEFINE a == Advance(c, d)
<1>1. c \in Clock /\ c.rtime = c.vm_time % Word
  BY DEF Good
<1>2. (c.rtime + d) % Word \in 0 .. Word - 1 /\ (c.rtime + d) % Word = (c.vm_time + d) % Word
  <2>1. Word \in Nat \ {0} /\ c.vm_time \in Int /\ c.rtime + d \in Int /\ c.vm_time + d \in Int
    BY <1>1, ClockFields, ClockWordAssumption
  <2>2. (c.rtime + d) % Word = (c.vm_time + d) % Word
    <3>1. ((c.vm_time % Word) + d) % Word = (c.vm_time + d) % Word
      BY <2>1, ModAdd
    <3> QED BY <1>1, <3>1
  <2> QED BY <2>1, <2>2, ModAdd, Zenon
<1>3. a = [c EXCEPT !.vm_time = c.vm_time + d, !.rtime = (c.rtime + d) % Word]
  BY DEF Advance
<1> HIDE DEF a
<1>4. a \in Clock
  <2>1. c.vm_time + d \in Int
    BY <1>1, ClockFields
  <2> QED BY <1>1, <1>2, <1>3, <2>1, Zenon DEF Clock
<1>5. /\ a.queue = c.queue /\ a.time = c.time /\ a.interval = c.interval
      /\ a.noqueue_time = c.noqueue_time /\ a.vm_time = c.vm_time + d /\ a.rtime = (c.rtime + d) % Word
  BY <1>1, <1>3 DEF Clock
<1>6. Good(a)
  BY <1>2, <1>4, <1>5 DEF Good
<1>7. ASSUME NEW i \in 1 .. Len(c.queue) PROVE DueAt(a, i) = DueAt(c, i) + d
  <2>1. Accum(a, i) = Accum(c, i) /\ Accum(c, i) \in Int
    BY <1>1, <1>5, AccumSame, AccumType, ClockFields
  <2> QED BY <1>1, <1>5, <2>1, ClockFields DEF DueAt
<1> QED BY <1>5, <1>6, <1>7 DEF a

\* UPDATE_SIM_TIME brings sim_vm_time up to date and moves no due time.
LEMMA UpdateFacts ==
  ASSUME NEW c, Good(c)
  PROVE  LET s == UpdateSimTime(c) IN
         /\ Good(s) /\ s.queue = c.queue /\ s.interval = c.interval
         /\ s.vm_time = SimGtime(c) /\ HeadTime(s) = c.interval
         /\ \A i \in 1 .. Len(c.queue) : DueAt(s, i) = DueAt(c, i)
         /\ \A i \in 2 .. Len(c.queue) : s.time[c.queue[i]] = c.time[c.queue[i]]
<1> DEFINE s == UpdateSimTime(c)
           d == HeadTime(c) - c.interval
           a == Advance(c, d)
           q == c.queue
<1>1. c \in Clock
  BY DEF Good
<1>2. d \in Int /\ c.interval \in Int
  BY <1>1, HeadDue, ClockFields
<1>3. s.vm_time = SimGtime(c)
  BY DEF SimGtime
<1>4. s = IF q = <<>> THEN [a EXCEPT !.noqueue_time = c.interval]
          ELSE [a EXCEPT !.time[q[1]] = c.interval]
  BY DEF UpdateSimTime
<1> HIDE DEF s, d
<1>5. /\ Good(a) /\ a.queue = c.queue /\ a.time = c.time /\ a.interval = c.interval
      /\ a.noqueue_time = c.noqueue_time /\ a.vm_time = c.vm_time + d
      /\ \A i \in 1 .. Len(c.queue) : DueAt(a, i) = DueAt(c, i) + d
  BY <1>2, AdvanceFacts
<1> HIDE DEF a
<1>6. a \in Clock /\ a.rtime = a.vm_time % Word
  BY <1>5 DEF Good
<1>7. CASE q = <<>>
  <2>1. s = [a EXCEPT !.noqueue_time = c.interval]
    BY <1>4, <1>7
  <2>2. s \in Clock
    BY <1>2, <1>6, <2>1, Zenon DEF Clock
  <2>3. /\ s.queue = q /\ s.interval = c.interval /\ s.noqueue_time = c.interval
        /\ s.vm_time = a.vm_time /\ s.rtime = a.rtime
    BY <1>5, <1>6, <2>1 DEF Clock
  <2>4. Len(q) = 0
    BY <1>7
  <2>5. Good(s)
    BY <1>6, <2>2, <2>3, <2>4 DEF Good
  <2>6. HeadTime(s) = c.interval
    BY <1>7, <2>3 DEF HeadTime
  <2> QED BY <1>3, <2>3, <2>4, <2>5, <2>6 DEF s
<1>8. CASE q # <<>>
  <2>1. s = [a EXCEPT !.time = [c.time EXCEPT ![q[1]] = c.interval]]
    BY <1>4, <1>5, <1>8
  <2>2. /\ q[1] \in Unit /\ c.time \in [Unit -> Int] /\ 1 \in 1 .. Len(q) /\ Len(q) \in Nat
        /\ \A i \in 1 .. Len(q) : q[i] \in Unit /\ c.time[q[i]] \in Int
    BY <1>1, <1>8, ClockFields
  <2>3. [c.time EXCEPT ![q[1]] = c.interval] \in [Unit -> Int]
    BY <1>2, <2>2
  <2>4. s \in Clock
    BY <1>6, <2>1, <2>3, Zenon DEF Clock
  <2>5. /\ s.queue = q /\ s.interval = c.interval /\ s.vm_time = a.vm_time /\ s.rtime = a.rtime
        /\ s.time = [c.time EXCEPT ![q[1]] = c.interval]
    BY <1>5, <1>6, <2>1 DEF Clock
  <2>6. \A i \in 1 .. Len(q) : q[i] = q[1] => i = 1
    BY <2>2 DEF Good
  <2>7. s.time[q[1]] = c.interval /\ \A i \in 2 .. Len(q) : s.time[q[i]] = c.time[q[i]]
    BY <2>2, <2>5, <2>6
  <2>8. Good(s)
    BY <1>6, <2>4, <2>5, <2>7 DEF Good
  <2>9. HeadTime(s) = c.interval
    BY <1>8, <2>5, <2>7 DEF HeadTime
  <2>10. c.time[q[1]] = HeadTime(c)
    BY <1>8 DEF HeadTime
  <2> DEFINE f == [k \in 0 .. Len(q) |-> IF k = 0 THEN 0 ELSE Accum(c, k) - d]
  <2>11. \A k \in 0 .. Len(q) : Accum(c, k) \in Int
    BY <1>1, AccumType
  <2>12. ASSUME NEW k \in 1 .. Len(q) PROVE f[k] = f[k - 1] + s.time[q[k]]
    <3>1. Accum(c, k) = Accum(c, k - 1) + c.time[q[k]] /\ Accum(c, 0) = 0
      BY <2>2, AccumStep
    <3>2. CASE k = 1
      BY <1>1, <1>2, <2>2, <2>7, <2>10, <2>11, <3>1, <3>2, HeadDue, SMTT(30) DEF d
    <3>3. CASE k # 1
      <4>1. k \in 2 .. Len(q) /\ k - 1 \in 1 .. Len(q) /\ k - 1 # 0
        BY <2>2, <3>3
      <4>2. f[k] = Accum(c, k) - d /\ f[k - 1] = Accum(c, k - 1) - d
        BY <4>1
      <4> HIDE DEF f
      <4>3. /\ Accum(c, k) \in Int /\ Accum(c, k - 1) \in Int /\ c.time[q[k]] \in Int
            /\ s.time[q[k]] = c.time[q[k]]
        BY <2>2, <2>7, <2>11, <4>1
      <4> QED BY <1>2, <3>1, <4>2, <4>3
    <3> QED BY <3>2, <3>3
  <2>13. \A k \in 0 .. Len(q) : Accum(s, k) = f[k]
    <3>1. f[0] = 0
      BY <2>2
    <3> HIDE DEF f
    <3>2. Len(s.queue) \in Nat /\ \A k \in 1 .. Len(s.queue) : f[k] = f[k - 1] + s.time[s.queue[k]]
      BY <2>2, <2>5, <2>12
    <3>3. \A k \in 0 .. Len(s.queue) : Accum(s, k) = f[k]
      BY <3>1, <3>2, AccumIs
    <3> QED BY <2>5, <3>3
  <2>14. ASSUME NEW i \in 1 .. Len(q) PROVE DueAt(s, i) = DueAt(c, i)
    <3>1. Accum(s, i) = Accum(c, i) - d
      <4>1. i \in 0 .. Len(q) /\ i # 0
        BY <2>2
      <4>2. f[i] = Accum(c, i) - d
        BY <4>1
      <4> HIDE DEF f
      <4> QED BY <2>13, <4>1, <4>2
    <3>2. s.vm_time = c.vm_time + d /\ c.vm_time \in Int
      BY <1>1, <1>5, <2>5, ClockFields
    <3> QED BY <1>2, <2>11, <3>1, <3>2 DEF DueAt
  <2> QED BY <1>3, <2>5, <2>7, <2>8, <2>9, <2>14 DEF s
<1> QED BY <1>7, <1>8

\* Setting sim_interval from the first entry moves nothing and leaves nothing uncounted.
LEMMA ReloadFacts ==
  ASSUME NEW c, Good(c)
  PROVE  LET r == ReloadInterval(c) IN
         /\ Good(r) /\ r.queue = c.queue /\ r.time = c.time /\ r.vm_time = c.vm_time
         /\ r.interval = HeadTime(r) /\ SimGtime(r) = c.vm_time
         /\ HeadTime(r) = IF c.queue = <<>> THEN NOQUEUE_WAIT ELSE HeadTime(c)
         /\ \A i \in 1 .. Len(c.queue) : DueAt(r, i) = DueAt(c, i)
<1> DEFINE r == ReloadInterval(c)
<1>1. c \in Clock
  BY DEF Good
<1>2. r = IF c.queue = <<>> THEN [c EXCEPT !.interval = NOQUEUE_WAIT, !.noqueue_time = NOQUEUE_WAIT]
          ELSE [c EXCEPT !.interval = HeadTime(c)]
  BY DEF ReloadInterval, HeadTime
<1>3. HeadTime(c) \in Int /\ NOQUEUE_WAIT \in Int
  BY <1>1, HeadDue, NoQueueWaitAssumption
<1> HIDE DEF r
<1>4. r \in Clock
  BY <1>1, <1>2, <1>3, Zenon DEF Clock
<1>5. /\ r.queue = c.queue /\ r.time = c.time /\ r.vm_time = c.vm_time /\ r.rtime = c.rtime
      /\ r.interval = IF c.queue = <<>> THEN NOQUEUE_WAIT ELSE HeadTime(c)
      /\ c.queue = <<>> => r.noqueue_time = NOQUEUE_WAIT
  BY <1>1, <1>2 DEF Clock
<1>6. Good(r)
  BY <1>4, <1>5 DEF Good
<1>7. HeadTime(r) = r.interval
  BY <1>5 DEF HeadTime
<1>8. SimGtime(r) = c.vm_time
  BY <1>4, <1>5, <1>7, HeadDue, ClockFields
<1>9. \A i \in 1 .. Len(c.queue) : DueAt(r, i) = DueAt(c, i)
  BY <1>5, AccumSame DEF DueAt
<1> QED BY <1>5, <1>6, <1>7, <1>8, <1>9 DEF r

-----------------------------------------------------------------------------
(* Insertion and removal.                                                  *)

\* The insertion walk stops at the first entry that is due later.
LEMMA AheadFacts ==
  ASSUME NEW c, c.queue \in Seq(Unit), c.time \in [Unit -> Int], NEW t \in Int
  PROVE  LET n == Ahead(c, t) IN
         /\ n \in 0 .. Len(c.queue)
         /\ \A i \in 1 .. n : Accum(c, i) <= t
         /\ n < Len(c.queue) => t < Accum(c, n + 1)
<1> DEFINE N == Len(c.queue)
           Stops(n) == (\A i \in 1 .. n : t >= Accum(c, i)) /\ (n < N => t < Accum(c, n + 1))
           S == {n \in 0 .. N : \A i \in 1 .. n : t >= Accum(c, i)}
<1>1. N \in Nat /\ \A k \in 0 .. N : Accum(c, k) \in Int
  BY SumType
<1>2. \E n \in 0 .. N : Stops(n)
  <2> SUFFICES ASSUME \A n \in 0 .. N : ~Stops(n) PROVE FALSE
    OBVIOUS
  <2>1. 0 \in S /\ S \in SUBSET (0 .. N)
    BY <1>1
  <2>2. ASSUME NEW n \in S, n < N PROVE n + 1 \in S
    <3>1. n \in 0 .. N /\ n + 1 \in 0 .. N /\ \A i \in 1 .. n + 1 : i \in 1 .. n \/ i = n + 1
      BY <1>1, <2>2
    <3>2. ~(t < Accum(c, n + 1))
      BY <2>2, <3>1
    <3>3. t >= Accum(c, n + 1)
      BY <1>1, <3>1, <3>2
    <3> QED BY <3>1, <3>3
  <2> HIDE DEF S
  <2>3. S = 0 .. N /\ N \in 0 .. N
    <3>1. \A n \in S : n < N => n + 1 \in S
      BY <2>2, Zenon
    <3>2. S = 0 .. N
      BY <1>1, <2>1, <3>1, BoundedInduction, Zenon
    <3>3. N \in 0 .. N
      BY <1>1
    <3> QED BY <3>2, <3>3
  <2>4. N \in S
    BY <2>3
  <2>5. Stops(N)
    BY <1>1, <2>4 DEF S
  <2> QED BY <2>3, <2>5
<1>3. Ahead(c, t) \in 0 .. N /\ Stops(Ahead(c, t))
  <2>1. Ahead(c, t) = CHOOSE n \in 0 .. N : Stops(n)
    BY DEF Ahead
  <2> HIDE DEF Stops
  <2> QED BY <1>2, <2>1, Zenon
<1> QED BY <1>1, <1>3

-----------------------------------------------------------------------------
(* Linking and unlinking.                                                  *)

\* A list of relative times: no unit is queued twice, and only the first wait can be negative.
Delta(c) ==
  /\ c.queue \in Seq(Unit) /\ c.time \in [Unit -> Int]
  /\ \A i, j \in 1 .. Len(c.queue) : c.queue[i] = c.queue[j] => i = j
  /\ \A i \in 2 .. Len(c.queue) : c.time[c.queue[i]] >= 0

\* p is s with u linked behind the first n entries, where the walk for a wait of t stops.
LinkedAt(s, p, u, t, n) ==
  /\ Delta(s) /\ \A i \in 1 .. Len(s.queue) : s.queue[i] # u
  /\ n \in 0 .. Len(s.queue)
  /\ \A i \in 1 .. n : Accum(s, i) <= t
  /\ n < Len(s.queue) => t < Accum(s, n + 1)
  /\ p.queue = LinkAfter(s.queue, n, u)
  /\ p.time = [v \in Unit |-> IF v = u THEN t - Accum(s, n)
                              ELSE IF n < Len(s.queue) /\ v = s.queue[n + 1]
                              THEN s.time[v] - (t - Accum(s, n)) ELSE s.time[v]]

\* u waits for t in p, and every other entry as long as in s.
LinkKeeps(s, p, u, t, n) ==
  LET N == Len(s.queue) IN
  /\ Delta(p) /\ Len(p.queue) = N + 1 /\ p.queue[n + 1] = u /\ Accum(p, n + 1) = t
  /\ \A i \in 1 .. n : p.queue[i] = s.queue[i] /\ Accum(p, i) = Accum(s, i)
  /\ \A i \in n + 1 .. N : p.queue[i + 1] = s.queue[i] /\ Accum(p, i + 1) = Accum(s, i)

\* A unit linked where the walk stopped, with the rest of its wait, waits as long as it asked for,
\* and no other unit's wait changes: the one behind it waits that much less after it.
LEMMA LinkFacts ==
  ASSUME NEW s, NEW p, NEW u \in Unit, NEW t \in Int, NEW n, LinkedAt(s, p, u, t, n)
  PROVE  LinkKeeps(s, p, u, t, n)
<1> DEFINE N == Len(s.queue)
           q == LinkAfter(s.queue, n, u)
           wait == t - Accum(s, n)
           time2 == [v \in Unit |-> IF v = u THEN wait
                                    ELSE IF n < N /\ v = s.queue[n + 1] THEN s.time[v] - wait
                                    ELSE s.time[v]]
<1>3. /\ N \in Nat /\ s.queue \in Seq(Unit) /\ s.time \in [Unit -> Int]
      /\ \A i \in 1 .. N : s.queue[i] \in Unit /\ s.queue[i] # u /\ s.time[s.queue[i]] \in Int
  BY DEF LinkedAt, Delta
<1>4. n \in 0 .. N /\ (\A i \in 1 .. n : Accum(s, i) <= t) /\ (n < N => t < Accum(s, n + 1))
  BY DEF LinkedAt
<1>5. \A k \in 0 .. N : Accum(s, k) \in Int
  BY <1>3, SumType
<1>6. wait \in Int /\ n \in Nat
  BY <1>3, <1>4, <1>5
<1>7. /\ q \in Seq(Unit) /\ Len(q) = N + 1 /\ q[n + 1] = u
      /\ \A i \in 1 .. n : q[i] = s.queue[i]
      /\ \A i \in n + 1 .. N : q[i + 1] = s.queue[i]
  <2>1. q = [i \in 1 .. N + 1 |-> IF i <= n THEN s.queue[i] ELSE IF i = n + 1 THEN u ELSE s.queue[i - 1]]
    BY DEF LinkAfter
  <2>2. ASSUME NEW i \in 1 .. N + 1 PROVE q[i] \in Unit
    BY <1>3, <1>4, <2>1
  <2> HIDE DEF q
  <2>3. q \in [1 .. N + 1 -> Unit]
    BY <2>1, <2>2, Zenon
  <2>4. q \in Seq(Unit) /\ Len(q) = N + 1
    <3>1. N + 1 \in Nat
      BY <1>3
    <3> QED BY <2>3, <3>1
  <2>5. /\ q[n + 1] = u
        /\ \A i \in 1 .. n : q[i] = s.queue[i]
    BY <1>3, <1>4, <2>1
  <2>6. ASSUME NEW i \in n + 1 .. N PROVE q[i + 1] = s.queue[i]
    <3>1. i + 1 \in 1 .. N + 1 /\ ~(i + 1 <= n) /\ i + 1 # n + 1 /\ (i + 1) - 1 = i
      BY <1>3, <1>4
    <3> QED BY <2>1, <3>1
  <2> QED BY <2>4, <2>5, <2>6
<1>9. time2 \in [Unit -> Int]
  BY <1>3, <1>6
<1>10. p.queue = q /\ p.time = time2
  BY DEF LinkedAt
<1> HIDE DEF q
<1>11. \A i, j \in 1 .. N : s.queue[i] = s.queue[j] => i = j
  BY DEF LinkedAt, Delta
<1>12. /\ time2[q[n + 1]] = wait
       /\ \A i \in 1 .. n : time2[q[i]] = s.time[s.queue[i]]
       /\ n < N => time2[q[n + 2]] = s.time[s.queue[n + 1]] - wait
       /\ \A i \in n + 2 .. N : time2[q[i + 1]] = s.time[s.queue[i]]
  <2>1. time2[q[n + 1]] = wait
    BY <1>7
  <2>2. ASSUME NEW i \in 1 .. n PROVE time2[q[i]] = s.time[s.queue[i]]
    <3>1. i \in 1 .. N /\ (n < N => n + 1 \in 1 .. N /\ i # n + 1)
      BY <1>3, <1>4
    <3>2. q[i] = s.queue[i]
      BY <1>7
    <3> QED BY <1>3, <1>11, <3>1, <3>2
  <2>3. ASSUME n < N PROVE time2[q[n + 2]] = s.time[s.queue[n + 1]] - wait
    <3>1. n + 1 \in n + 1 .. N /\ (n + 1) + 1 = n + 2 /\ n + 1 \in 1 .. N
      BY <1>3, <1>4, <2>3
    <3>2. q[n + 2] = s.queue[n + 1]
      BY <1>7, <3>1
    <3> QED BY <1>3, <2>3, <3>1, <3>2
  <2>4. ASSUME NEW i \in n + 2 .. N PROVE time2[q[i + 1]] = s.time[s.queue[i]]
    <3>0. N \in Nat /\ n \in Nat
      BY <1>3, <1>6
    <3>1. i \in n + 1 .. N /\ i \in 1 .. N /\ n + 1 \in 1 .. N /\ i # n + 1
      BY <3>0
    <3>2. q[i + 1] = s.queue[i]
      BY <1>7, <3>1
    <3> QED BY <1>3, <1>11, <3>1, <3>2
  <2> QED BY <2>1, <2>2, <2>3, <2>4
<1> HIDE DEF time2
<1> DEFINE f == [k \in 0 .. N + 1 |-> IF k <= n THEN Accum(s, k) ELSE IF k = n + 1 THEN t ELSE Accum(s, k - 1)]
<1>13. \A k \in 1 .. N : Accum(s, k) = Accum(s, k - 1) + s.time[s.queue[k]]
  BY <1>3, AccumStep
<1>14. ASSUME NEW k \in 1 .. N + 1 PROVE f[k] = f[k - 1] + time2[q[k]]
  <2>1. CASE k <= n
    <3>1. k \in 1 .. n /\ k \in 1 .. N /\ k - 1 \in 0 .. N /\ k - 1 <= n
      BY <1>3, <1>4, <2>1
    <3>2. f[k] = Accum(s, k) /\ f[k - 1] = Accum(s, k - 1)
      BY <1>3, <3>1
    <3> HIDE DEF f
    <3> QED BY <1>12, <1>13, <3>1, <3>2
  <2>2. CASE k = n + 1
    <3>1. f[k] = t /\ f[k - 1] = Accum(s, n) /\ Accum(s, n) \in Int
      BY <1>3, <1>4, <1>5, <2>2
    <3> HIDE DEF f
    <3> QED BY <1>12, <2>2, <3>1
  <2>3. CASE k = n + 2
    <3>1. n < N /\ n + 1 \in 1 .. N /\ (n + 1) - 1 = n /\ n + 1 \in 0 .. N /\ n \in 0 .. N
      BY <1>3, <1>4, <2>3
    <3>2. f[k] = Accum(s, n + 1) /\ f[k - 1] = t
      BY <1>3, <1>4, <2>3, <3>1
    <3>3. Accum(s, n + 1) = Accum(s, n) + s.time[s.queue[n + 1]] /\ s.time[s.queue[n + 1]] \in Int
      BY <1>3, <1>13, <3>1
    <3>4. time2[q[k]] = s.time[s.queue[n + 1]] - (t - Accum(s, n))
      BY <1>12, <2>3, <3>1
    <3> HIDE DEF f
    <3> QED BY <1>5, <3>1, <3>2, <3>3, <3>4
  <2>4. CASE k > n + 2
    <3>1. k - 1 \in n + 2 .. N /\ k - 1 \in 1 .. N /\ (k - 1) + 1 = k
      BY <1>3, <1>4, <2>4
    <3>2. f[k] = Accum(s, k - 1) /\ f[k - 1] = Accum(s, (k - 1) - 1)
      BY <1>3, <1>4, <2>4, <3>1
    <3>3. time2[q[k]] = s.time[s.queue[k - 1]]
      BY <1>12, <3>1
    <3> HIDE DEF f
    <3> QED BY <1>13, <3>1, <3>2, <3>3
  <2> QED BY <1>3, <1>4, <2>1, <2>2, <2>3, <2>4
<1>15. \A k \in 0 .. N + 1 : Accum(p, k) = f[k]
  <2>1. f[0] = 0
    BY <1>3, <1>4, AccumStep
  <2> HIDE DEF f
  <2>2. Len(p.queue) \in Nat /\ \A k \in 1 .. Len(p.queue) : f[k] = f[k - 1] + p.time[p.queue[k]]
    BY <1>3, <1>7, <1>10, <1>14
  <2>3. \A k \in 0 .. Len(p.queue) : Accum(p, k) = f[k]
    BY <2>1, <2>2, AccumIs
  <2> QED BY <1>7, <1>10, <2>3
<1>16. /\ Accum(p, n + 1) = t
       /\ \A i \in 1 .. n : Accum(p, i) = Accum(s, i)
       /\ \A i \in n + 1 .. N : Accum(p, i + 1) = Accum(s, i)
  <2>1. Accum(p, n + 1) = t
    <3>1. n + 1 \in 0 .. N + 1 /\ ~(n + 1 <= n)
      BY <1>3, <1>4
    <3> QED BY <1>15, <3>1, Zenon
  <2>3. ASSUME NEW i \in 1 .. n PROVE Accum(p, i) = Accum(s, i)
    <3>1. i \in 0 .. N + 1 /\ i <= n
      BY <1>3, <1>4
    <3> QED BY <1>15, <3>1, Zenon
  <2>2. ASSUME NEW i \in n + 1 .. N PROVE Accum(p, i + 1) = Accum(s, i)
    <3>1. i + 1 \in 0 .. N + 1 /\ ~(i + 1 <= n) /\ i + 1 # n + 1 /\ (i + 1) - 1 = i
      BY <1>3, <1>4
    <3> QED BY <1>15, <3>1, Zenon
  <2> QED BY <2>1, <2>2, <2>3
<1> HIDE DEF f
<1>17. Delta(p)
  <2>1. ASSUME NEW i \in 1 .. N + 1, NEW j \in 1 .. N + 1, q[i] = q[j] PROVE i = j
    <3>1. \A k \in 1 .. N + 1 : \/ k \in 1 .. n \/ k = n + 1 \/ (k - 1 \in n + 1 .. N /\ (k - 1) + 1 = k)
      BY <1>3, <1>4
    <3>2. \A k \in 1 .. N + 1 :
            \/ k \in 1 .. n /\ k \in 1 .. N /\ q[k] = s.queue[k]
            \/ k = n + 1 /\ q[k] = u
            \/ k - 1 \in n + 1 .. N /\ k - 1 \in 1 .. N /\ q[k] = s.queue[k - 1]
      <4> SUFFICES ASSUME NEW k \in 1 .. N + 1
                   PROVE  \/ k \in 1 .. n /\ k \in 1 .. N /\ q[k] = s.queue[k]
                          \/ k = n + 1 /\ q[k] = u
                          \/ k - 1 \in n + 1 .. N /\ k - 1 \in 1 .. N /\ q[k] = s.queue[k - 1]
        OBVIOUS
      <4>1. CASE k \in 1 .. n
        <5>1. k \in 1 .. N
          BY <1>3, <1>4, <4>1
        <5> QED BY <1>7, <4>1, <5>1
      <4>2. CASE k = n + 1
        BY <1>7, <4>2
      <4>3. CASE k - 1 \in n + 1 .. N /\ (k - 1) + 1 = k
        <5>1. k - 1 \in 1 .. N
          BY <1>3, <1>4, <4>3
        <5>2. q[(k - 1) + 1] = s.queue[k - 1]
          BY <1>7, <4>3
        <5> QED BY <4>3, <5>1, <5>2
      <4> QED BY <3>1, <4>1, <4>2, <4>3
    <3>3. i = n + 1 <=> j = n + 1
      <4>1. \A k \in 1 .. N : s.queue[k] # u
        BY <1>3
      <4>2. \A k \in 1 .. N + 1 : k = n + 1 <=> q[k] = u
        BY <3>2, <4>1, <1>7, Zenon
      <4> QED BY <2>1, <4>2
    <3>4. i \in Int /\ j \in Int /\ n \in Int
      BY <1>3, <1>4
    <3>5. CASE i \in 1 .. n /\ i \in 1 .. N /\ q[i] = s.queue[i]
      <4>1. CASE j \in 1 .. n /\ j \in 1 .. N /\ q[j] = s.queue[j]
        BY <1>11, <2>1, <3>5, <4>1, Zenon
      <4>2. CASE j - 1 \in n + 1 .. N /\ j - 1 \in 1 .. N /\ q[j] = s.queue[j - 1]
        <5>1. i = j - 1
          BY <1>11, <2>1, <3>5, <4>2, Zenon
        <5> QED BY <3>4, <3>5, <4>2, <5>1
      <4>3. CASE j = n + 1
        BY <3>3, <4>3
      <4> QED BY <3>2, <4>1, <4>2, <4>3
    <3>6. CASE i - 1 \in n + 1 .. N /\ i - 1 \in 1 .. N /\ q[i] = s.queue[i - 1]
      <4>1. CASE j \in 1 .. n /\ j \in 1 .. N /\ q[j] = s.queue[j]
        <5>1. i - 1 = j
          BY <1>11, <2>1, <3>6, <4>1, Zenon
        <5> QED BY <3>4, <3>6, <4>1, <5>1
      <4>2. CASE j - 1 \in n + 1 .. N /\ j - 1 \in 1 .. N /\ q[j] = s.queue[j - 1]
        <5>1. i - 1 = j - 1
          BY <1>11, <2>1, <3>6, <4>2, Zenon
        <5> QED BY <3>4, <5>1
      <4>3. CASE j = n + 1
        BY <3>3, <4>3
      <4> QED BY <3>2, <4>1, <4>2, <4>3
    <3> QED BY <3>2, <3>3, <3>5, <3>6
  <2>2. ASSUME NEW i \in 2 .. N + 1 PROVE time2[q[i]] >= 0
    <3>1. \A j \in 2 .. N : s.time[s.queue[j]] >= 0
      BY DEF LinkedAt, Delta
    <3>2. CASE i \in 1 .. n
      <4>1. i \in 2 .. N
        BY <1>3, <1>4, <3>2
      <4> QED BY <1>12, <3>1, <3>2, <4>1
    <3>3. CASE i = n + 1
      <4>1. n \in 1 .. n /\ n \in 0 .. N
        BY <1>3, <1>4, <3>3
      <4>2. t - Accum(s, n) >= 0
        BY <1>4, <1>5, <4>1
      <4> QED BY <1>12, <3>3, <4>2
    <3>4. CASE i = n + 2
      <4>1. n < N /\ n + 1 \in 1 .. N /\ (n + 1) - 1 = n /\ n + 1 \in 0 .. N /\ n \in 0 .. N
        BY <1>3, <1>4, <3>4
      <4>2. Accum(s, n + 1) = Accum(s, n) + s.time[s.queue[n + 1]] /\ s.time[s.queue[n + 1]] \in Int
        BY <1>3, <1>13, <4>1, Zenon
      <4>3. s.time[s.queue[n + 1]] - (t - Accum(s, n)) >= 0
        <5>1. t < Accum(s, n + 1) /\ Accum(s, n) \in Int
          BY <1>4, <1>5, <4>1
        <5> QED BY <4>2, <5>1
      <4> QED BY <1>12, <3>4, <4>1, <4>3
    <3>5. CASE i > n + 2
      <4>1. i - 1 \in n + 2 .. N /\ (i - 1) + 1 = i /\ i - 1 \in 2 .. N
        BY <1>3, <1>4, <3>5
      <4> QED BY <1>12, <3>1, <4>1
    <3> QED BY <1>3, <1>4, <3>2, <3>3, <3>4, <3>5, SMTT(30)
  <2> QED BY <1>7, <1>9, <1>10, <2>1, <2>2, Zenon DEF Delta
<1> QED BY <1>7, <1>10, <1>16, <1>17 DEF LinkKeeps

\* p is s without its n-th entry u, whose wait the next one takes over.
UnlinkedAt(s, p, u, n) ==
  /\ Delta(s) /\ n \in 1 .. Len(s.queue) /\ s.queue[n] = u
  /\ p.queue = Unlink(s.queue, n)
  /\ p.time = [v \in Unit |-> IF v = u THEN 0
                              ELSE IF n < Len(s.queue) /\ v = s.queue[n + 1]
                              THEN s.time[v] + s.time[u] ELSE s.time[v]]

\* The entries of p wait as long as in s.
UnlinkKeeps(s, p, n) ==
  LET N == Len(s.queue) IN
  /\ Delta(p) /\ Len(p.queue) = N - 1
  /\ \A i \in 1 .. n - 1 : p.queue[i] = s.queue[i] /\ Accum(p, i) = Accum(s, i)
  /\ \A i \in n .. N - 1 : p.queue[i] = s.queue[i + 1] /\ Accum(p, i) = Accum(s, i + 1)

\* Unlinking an entry changes no other unit's wait.
LEMMA UnlinkFacts ==
  ASSUME NEW s, NEW p, NEW u \in Unit, NEW n, UnlinkedAt(s, p, u, n)
  PROVE  UnlinkKeeps(s, p, n)
<1> DEFINE N == Len(s.queue)
           q == Unlink(s.queue, n)
           time2 == [v \in Unit |-> IF v = u THEN 0
                                    ELSE IF n < N /\ v = s.queue[n + 1] THEN s.time[v] + s.time[u]
                                    ELSE s.time[v]]
<1>3. /\ N \in Nat /\ s.queue \in Seq(Unit) /\ s.time \in [Unit -> Int] /\ s.time[u] \in Int
      /\ \A i \in 1 .. N : s.queue[i] \in Unit /\ s.time[s.queue[i]] \in Int
  BY DEF UnlinkedAt, Delta
<1>4. n \in 1 .. N /\ s.queue[n] = u
  BY DEF UnlinkedAt
<1>5. \A k \in 0 .. N : Accum(s, k) \in Int
  BY <1>3, SumType
<1>6. \A i, j \in 1 .. N : s.queue[i] = s.queue[j] => i = j
  BY DEF UnlinkedAt, Delta
<1>7. /\ q \in Seq(Unit) /\ Len(q) = N - 1
      /\ \A i \in 1 .. n - 1 : q[i] = s.queue[i]
      /\ \A i \in n .. N - 1 : q[i] = s.queue[i + 1]
  <2>1. q = [i \in 1 .. N - 1 |-> IF i < n THEN s.queue[i] ELSE s.queue[i + 1]]
    BY DEF Unlink
  <2>2. ASSUME NEW i \in 1 .. N - 1 PROVE q[i] \in Unit
    <3>1. i \in 1 .. N /\ i + 1 \in 1 .. N
      BY <1>3
    <3> QED BY <1>3, <2>1, <3>1
  <2> HIDE DEF q
  <2>3. q \in [1 .. N - 1 -> Unit] /\ N - 1 \in Nat
    BY <1>3, <1>4, <2>1, <2>2
  <2>4. q \in Seq(Unit) /\ Len(q) = N - 1
    BY <2>3
  <2>5. ASSUME NEW i \in 1 .. n - 1 PROVE q[i] = s.queue[i]
    <3>1. i \in 1 .. N - 1 /\ i < n
      BY <1>3, <1>4
    <3> QED BY <2>1, <3>1
  <2>6. ASSUME NEW i \in n .. N - 1 PROVE q[i] = s.queue[i + 1]
    <3>1. i \in 1 .. N - 1 /\ ~(i < n)
      BY <1>3, <1>4
    <3> QED BY <2>1, <3>1
  <2> QED BY <2>4, <2>5, <2>6
<1>8. ASSUME n < N PROVE n + 1 \in 1 .. N /\ s.queue[n + 1] \in Unit /\ s.queue[n + 1] # u
  <2>1. n + 1 \in 1 .. N /\ n + 1 # n
    BY <1>3, <1>4, <1>8
  <2> QED BY <1>3, <1>4, <1>6, <2>1
<1>9. time2 \in [Unit -> Int]
  BY <1>3
<1>11. p.queue = q /\ p.time = time2
  BY DEF UnlinkedAt
<1> HIDE DEF q
<1>12. /\ \A i \in 1 .. n - 1 : time2[q[i]] = s.time[s.queue[i]]
       /\ n < N => time2[q[n]] = s.time[s.queue[n + 1]] + s.time[u]
       /\ \A i \in n + 1 .. N - 1 : time2[q[i]] = s.time[s.queue[i + 1]]
  <2>1. ASSUME NEW i \in 1 .. n - 1 PROVE time2[q[i]] = s.time[s.queue[i]]
    <3>1. i \in 1 .. N /\ i # n /\ (n < N => i # n + 1)
      BY <1>3, <1>4
    <3>2. q[i] = s.queue[i]
      BY <1>7
    <3>3. s.queue[i] # u /\ (n < N => s.queue[i] # s.queue[n + 1])
      BY <1>4, <1>6, <1>8, <3>1
    <3> QED BY <1>3, <3>1, <3>2, <3>3
  <2>2. ASSUME n < N PROVE time2[q[n]] = s.time[s.queue[n + 1]] + s.time[u]
    <3>1. n \in n .. N - 1
      BY <1>3, <1>4, <2>2
    <3>2. q[n] = s.queue[n + 1]
      BY <1>7, <3>1
    <3> QED BY <1>8, <2>2, <3>2
  <2>3. ASSUME NEW i \in n + 1 .. N - 1 PROVE time2[q[i]] = s.time[s.queue[i + 1]]
    <3>1. i \in n .. N - 1 /\ i + 1 \in 1 .. N /\ i + 1 # n /\ i + 1 # n + 1
      BY <1>3, <1>4
    <3>2. q[i] = s.queue[i + 1]
      BY <1>7, <3>1
    <3>3. s.queue[i + 1] # u /\ (n < N => s.queue[i + 1] # s.queue[n + 1])
      BY <1>4, <1>6, <1>8, <3>1
    <3> QED BY <1>3, <3>1, <3>2, <3>3
  <2> QED BY <2>1, <2>2, <2>3
<1> HIDE DEF time2
<1> DEFINE f == [k \in 0 .. N - 1 |-> IF k < n THEN Accum(s, k) ELSE Accum(s, k + 1)]
<1>13. \A k \in 1 .. N : Accum(s, k) = Accum(s, k - 1) + s.time[s.queue[k]]
  BY <1>3, AccumStep
<1>14. ASSUME NEW k \in 1 .. N - 1 PROVE f[k] = f[k - 1] + time2[q[k]]
  <2>1. CASE k < n
    <3>1. k \in 1 .. n - 1 /\ k \in 1 .. N /\ k \in 0 .. N - 1 /\ k - 1 \in 0 .. N - 1 /\ k - 1 < n
      BY <1>3, <1>4, <2>1
    <3>2. f[k] = Accum(s, k) /\ f[k - 1] = Accum(s, k - 1)
      BY <2>1, <3>1
    <3> HIDE DEF f
    <3> QED BY <1>12, <1>13, <3>1, <3>2
  <2>2. CASE k = n
    <3>1. n \in Nat /\ N \in Nat /\ 1 <= n /\ n < N
      BY <1>3, <1>4, <2>2
    <3>5. n \in 1 .. N /\ n + 1 \in 1 .. N /\ n - 1 \in 0 .. N
      BY <3>1
    <3>6. n \in 0 .. N - 1 /\ n - 1 \in 0 .. N - 1 /\ n - 1 < n /\ (n + 1) - 1 = n
      BY <3>1
    <3>2. f[k] = Accum(s, n + 1) /\ f[k - 1] = Accum(s, n - 1)
      BY <2>2, <3>1, <3>6
    <3> HIDE DEF f
    <3>3. Accum(s, n + 1) = Accum(s, n) + s.time[s.queue[n + 1]] /\ Accum(s, n) = Accum(s, n - 1) + s.time[u]
      BY <1>4, <1>13, <3>5, <3>6
    <3>4. time2[q[k]] = s.time[s.queue[n + 1]] + s.time[u]
      BY <1>12, <2>2, <3>1
    <3>7. Accum(s, n - 1) \in Int /\ s.time[u] \in Int /\ s.time[s.queue[n + 1]] \in Int
      BY <1>3, <1>5, <3>5
    <3> QED BY <3>2, <3>3, <3>4, <3>7
  <2>3. CASE k > n
    <3>1. /\ k \in n + 1 .. N - 1 /\ k + 1 \in 1 .. N /\ k \in 0 .. N - 1 /\ k - 1 \in 0 .. N - 1
          /\ ~(k < n) /\ ~(k - 1 < n) /\ (k + 1) - 1 = k /\ (k - 1) + 1 = k
      <4>1. N \in Nat /\ n \in Nat /\ k \in Nat /\ n >= 1 /\ k <= N - 1
        BY <1>3, <1>4
      <4> QED BY <2>3, <4>1
    <3>2. f[k] = Accum(s, k + 1) /\ f[k - 1] = Accum(s, k)
      BY <3>1
    <3> HIDE DEF f
    <3>3. Accum(s, k + 1) = Accum(s, k) + s.time[s.queue[k + 1]]
      BY <1>13, <3>1
    <3> QED BY <1>12, <3>1, <3>2, <3>3
  <2> QED BY <1>3, <1>4, <2>1, <2>2, <2>3
<1>15. \A k \in 0 .. N - 1 : Accum(p, k) = f[k]
  <2>1. f[0] = 0
    BY <1>3, <1>4, AccumStep
  <2> HIDE DEF f
  <2>2. Len(p.queue) \in Nat /\ Len(p.queue) = N - 1
    BY <1>3, <1>4, <1>7, <1>11
  <2>3. \A k \in 1 .. Len(p.queue) : f[k] = f[k - 1] + p.time[p.queue[k]]
    BY <1>11, <1>14, <2>2
  <2>4. \A k \in 0 .. Len(p.queue) : Accum(p, k) = f[k]
    BY <2>1, <2>2, <2>3, AccumIs
  <2> QED BY <2>2, <2>4
<1>16. ASSUME NEW i \in 1 .. n - 1 PROVE Accum(p, i) = Accum(s, i)
  <2>1. i \in 0 .. N - 1 /\ i < n
    BY <1>3, <1>4
  <2> QED BY <1>15, <2>1, Zenon
<1>17. ASSUME NEW i \in n .. N - 1 PROVE Accum(p, i) = Accum(s, i + 1)
  <2>1. i \in 0 .. N - 1 /\ ~(i < n)
    BY <1>3, <1>4
  <2> QED BY <1>15, <2>1, Zenon
<1> HIDE DEF f
<1>18. Delta(p)
  <2>1. ASSUME NEW i \in 1 .. N - 1, NEW j \in 1 .. N - 1, q[i] = q[j] PROVE i = j
    <3> DEFINE at == [k \in 1 .. N - 1 |-> IF k < n THEN k ELSE k + 1]
    <3>1. ASSUME NEW k \in 1 .. N - 1 PROVE at[k] \in 1 .. N /\ q[k] = s.queue[at[k]]
      <4>1. CASE k < n
        <5>1. k \in 1 .. n - 1 /\ k \in 1 .. N /\ at[k] = k
          BY <1>3, <1>4, <4>1
        <5> HIDE DEF at
        <5> QED BY <1>7, <5>1
      <4>2. CASE ~(k < n)
        <5>1. k \in n .. N - 1 /\ k + 1 \in 1 .. N /\ at[k] = k + 1
          BY <1>3, <1>4, <4>2
        <5> HIDE DEF at
        <5> QED BY <1>7, <5>1
      <4> QED BY <4>1, <4>2
    <3>2. at[i] = at[j]
      <4> HIDE DEF at
      <4> QED BY <1>6, <2>1, <3>1
    <3> QED BY <1>4, <3>2
  <2>2. ASSUME NEW i \in 2 .. N - 1 PROVE time2[q[i]] >= 0
    <3>1. \A j \in 2 .. N : s.time[s.queue[j]] >= 0
      BY DEF UnlinkedAt, Delta
    <3>2. CASE i < n
      <4>1. i \in 1 .. n - 1 /\ i \in 2 .. N
        BY <1>3, <1>4, <3>2
      <4> QED BY <1>12, <3>1, <4>1
    <3>3. CASE i = n
      <4>1. n < N /\ n \in 2 .. N /\ n + 1 \in 2 .. N /\ n + 1 \in 1 .. N
        BY <1>3, <1>4, <3>3
      <4>2. s.time[u] >= 0 /\ s.time[s.queue[n + 1]] >= 0
        BY <1>4, <3>1, <4>1
      <4>3. s.time[s.queue[n + 1]] + s.time[u] >= 0
        BY <1>3, <4>1, <4>2, SMTT(30)
      <4> QED BY <1>12, <3>3, <4>1, <4>3
    <3>4. CASE i > n
      <4>1. i \in n + 1 .. N - 1 /\ i + 1 \in 2 .. N
        BY <1>3, <1>4, <3>4
      <4> QED BY <1>12, <3>1, <4>1
    <3> QED BY <1>4, <3>2, <3>3, <3>4
  <2> QED BY <1>7, <1>9, <1>11, <2>1, <2>2, Zenon DEF Delta
<1> QED BY <1>7, <1>11, <1>16, <1>17, <1>18 DEF UnlinkKeeps

\* Inserting a unit puts it behind the entries that are due no later and before those that are due
\* later, and moves none of them.
LEMMA InsertFacts ==
  ASSUME NEW c, Good(c), NEW u \in Unit, ~Queued(c, u), NEW t \in Int
  PROVE  LET r == Insert(c, u, t)
             N == Len(c.queue)
             due == SimGtime(c) + t IN
         /\ Good(r) /\ r.vm_time = SimGtime(c) /\ SimGtime(r) = SimGtime(c) /\ r.interval = HeadTime(r)
         /\ \E n \in 0 .. N :
              /\ r.queue = LinkAfter(c.queue, n, u) /\ DueAt(r, n + 1) = due
              /\ \A i \in 1 .. n : DueAt(r, i) = DueAt(c, i) /\ DueAt(c, i) <= due
              /\ \A i \in n + 1 .. N : DueAt(r, i + 1) = DueAt(c, i)
              /\ n < N => due < DueAt(c, n + 1)
<1> DEFINE s == UpdateSimTime(c)
           n == Ahead(s, t)
           wait == t - Accum(s, n)
           q == LinkAfter(s.queue, n, u)
           placed == [s EXCEPT !.queue = q, !.time[u] = wait]
           p == IF n < Len(s.queue) THEN [placed EXCEPT !.time[s.queue[n + 1]] = @ - wait] ELSE placed
           N == Len(s.queue)
           due == SimGtime(c) + t
<1>1. Insert(c, u, t) = ReloadInterval(p)
  BY DEF Insert
<1>2. /\ Good(s) /\ s.queue = c.queue /\ s.vm_time = SimGtime(c)
      /\ \A i \in 1 .. N : DueAt(s, i) = DueAt(c, i)
  BY UpdateFacts
<1> HIDE DEF s
<1>3. /\ s \in Clock /\ N \in Nat /\ s.queue \in Seq(Unit) /\ s.time \in [Unit -> Int]
      /\ DOMAIN s.queue = 1 .. N /\ s.vm_time \in Int
      /\ \A i \in 1 .. N : s.queue[i] \in Unit /\ s.queue[i] # u /\ s.time[s.queue[i]] \in Int
  BY <1>2, ClockFields DEF Good, Queued
<1>4. n \in 0 .. N /\ (\A i \in 1 .. n : Accum(s, i) <= t) /\ (n < N => t < Accum(s, n + 1))
  BY <1>3, AheadFacts, SMTT(30)
<1> HIDE DEF n
<1>5. \A k \in 0 .. N : Accum(s, k) \in Int
  BY <1>3, AccumType
<1>6. wait \in Int /\ n \in Nat
  BY <1>3, <1>4, <1>5
<1> DEFINE time2 == [v \in Unit |-> IF v = u THEN wait
                                    ELSE IF n < N /\ v = s.queue[n + 1] THEN s.time[v] - wait
                                    ELSE s.time[v]]
<1>7. /\ q \in Seq(Unit) /\ Len(q) = N + 1 /\ q[n + 1] = u
      /\ \A i \in 1 .. n : q[i] = s.queue[i]
      /\ \A i \in n + 1 .. N : q[i + 1] = s.queue[i]
  <2>1. q = [i \in 1 .. N + 1 |-> IF i <= n THEN s.queue[i] ELSE IF i = n + 1 THEN u ELSE s.queue[i - 1]]
    BY DEF LinkAfter
  <2>2. ASSUME NEW i \in 1 .. N + 1 PROVE q[i] \in Unit
    BY <1>3, <1>4, <2>1
  <2> HIDE DEF q
  <2>3. q \in [1 .. N + 1 -> Unit]
    BY <2>1, <2>2, Zenon
  <2>4. q \in Seq(Unit) /\ Len(q) = N + 1
    BY <1>3, <2>3, SMTT(30)
  <2>5. /\ q[n + 1] = u
        /\ \A i \in 1 .. n : q[i] = s.queue[i]
    BY <1>3, <1>4, <2>1
  <2>6. ASSUME NEW i \in n + 1 .. N PROVE q[i + 1] = s.queue[i]
    <3>1. i + 1 \in 1 .. N + 1 /\ ~(i + 1 <= n) /\ i + 1 # n + 1 /\ (i + 1) - 1 = i
      BY <1>3, <1>4
    <3> QED BY <2>1, <3>1
  <2> QED BY <2>4, <2>5, <2>6
<1>8. p = [s EXCEPT !.queue = q, !.time = time2]
  <2>1. time2 \in [Unit -> Int] /\ [s.time EXCEPT ![u] = wait] \in [Unit -> Int]
    BY <1>3, <1>6
  <2>2. placed = [s EXCEPT !.queue = q, !.time = [s.time EXCEPT ![u] = wait]]
    OBVIOUS
  <2> HIDE DEF q, wait, placed
  <2>3. CASE n < N
    <3>1. s.queue[n + 1] \in Unit /\ s.queue[n + 1] # u
      BY <1>3, <1>4, <2>3
    <3>2. [[s.time EXCEPT ![u] = wait] EXCEPT ![s.queue[n + 1]] = @ - wait] = time2
      BY <1>3, <2>3, <3>1, Zenon
    <3>3. p = [s EXCEPT !.queue = q,
                        !.time = [[s.time EXCEPT ![u] = wait] EXCEPT ![s.queue[n + 1]] = @ - wait]]
      BY <1>3, <2>2, <2>3, Zenon DEF Clock
    <3> QED BY <3>2, <3>3, Zenon
  <2>4. CASE ~(n < N)
    <3>1. [s.time EXCEPT ![u] = wait] = time2
      BY <1>3, <2>4
    <3> QED BY <2>2, <2>4, <3>1, Zenon
  <2> QED BY <2>3, <2>4
<1>9. time2 \in [Unit -> Int]
  BY <1>3, <1>6
<1> HIDE DEF p, q
<1>10. /\ p \in Clock /\ p.queue = q /\ p.time = time2 /\ p.vm_time = s.vm_time /\ p.rtime = s.rtime
  <2> HIDE DEF time2
  <2>1. p \in Clock
    BY <1>3, <1>7, <1>8, <1>9, Zenon DEF Clock
  <2>2. p.queue = q /\ p.time = time2 /\ p.vm_time = s.vm_time /\ p.rtime = s.rtime
    BY <1>3, <1>8 DEF Clock
  <2> QED BY <2>1, <2>2
<1>16. /\ Delta(p) /\ Accum(p, n + 1) = t
       /\ \A i \in 1 .. n : Accum(p, i) = Accum(s, i)
       /\ \A i \in n + 1 .. N : Accum(p, i + 1) = Accum(s, i)
  <2>1. Delta(s)
    BY <1>2, <1>3 DEF Good, Delta
  <2>2. \A i \in 1 .. N : s.queue[i] # u
    BY <1>3
  <2>3. p.queue = LinkAfter(s.queue, n, u) /\ p.time = time2
    BY <1>10 DEF q
  <2>4. LinkedAt(s, p, u, t, n)
    BY <1>4, <2>1, <2>2, <2>3 DEF LinkedAt
  <2> QED BY <2>4, LinkFacts DEF LinkKeeps
<1> HIDE DEF time2
<1>17. Good(p)
  <2>1. p.rtime = p.vm_time % Word
    BY <1>2, <1>10 DEF Good
  <2> QED BY <1>10, <1>16, <2>1 DEF Good, Delta
<1>18. DueAt(p, n + 1) = due
  BY <1>2, <1>10, <1>16 DEF DueAt
<1>19. ASSUME NEW i \in 1 .. n PROVE DueAt(p, i) = DueAt(c, i) /\ DueAt(c, i) <= due
  <2>1. i \in 1 .. N /\ i \in 0 .. N
    BY <1>3, <1>4
  <2>2. DueAt(s, i) = DueAt(c, i) /\ Accum(s, i) \in Int /\ Accum(s, i) <= t
    BY <1>2, <1>4, <1>5, <2>1
  <2> QED BY <1>2, <1>3, <1>10, <1>16, <2>2 DEF DueAt
<1>20. ASSUME NEW i \in n + 1 .. N PROVE DueAt(p, i + 1) = DueAt(c, i)
  <2>1. i \in 1 .. N
    BY <1>3, <1>4
  <2> QED BY <1>2, <1>10, <1>16, <2>1 DEF DueAt
<1>21. ASSUME n < N PROVE due < DueAt(c, n + 1)
  <2>1. n + 1 \in 1 .. N /\ n + 1 \in 0 .. N
    BY <1>3, <1>4, <1>21
  <2>2. DueAt(c, n + 1) = s.vm_time + Accum(s, n + 1) /\ Accum(s, n + 1) \in Int
    BY <1>2, <1>5, <2>1 DEF DueAt
  <2> QED BY <1>2, <1>3, <1>4, <1>21, <2>2
<1> DEFINE r == ReloadInterval(p)
<1>22. /\ Good(r) /\ r.queue = q /\ r.vm_time = SimGtime(c) /\ r.interval = HeadTime(r)
       /\ SimGtime(r) = SimGtime(c)
       /\ \A i \in 1 .. N + 1 : DueAt(r, i) = DueAt(p, i)
  BY <1>2, <1>7, <1>10, <1>17, ReloadFacts
<1> HIDE DEF r
<1>23. /\ DueAt(r, n + 1) = due /\ \A i \in 1 .. n : DueAt(r, i) = DueAt(c, i) /\ DueAt(c, i) <= due
       /\ \A i \in n + 1 .. N : DueAt(r, i + 1) = DueAt(c, i)
  <2>1. n + 1 \in 1 .. N + 1
    BY <1>3, <1>4
  <2>2. \A i \in 1 .. n : i \in 1 .. N + 1
    BY <1>3, <1>4
  <2>3. \A i \in n + 1 .. N : i + 1 \in 1 .. N + 1
    BY <1>3, <1>4
  <2> QED BY <1>18, <1>19, <1>20, <1>22, <2>1, <2>2, <2>3
<1>24. r.queue = LinkAfter(c.queue, n, u)
  BY <1>2, <1>22 DEF q
<1> QED BY <1>1, <1>2, <1>4, <1>21, <1>22, <1>23, <1>24 DEF r

\* Cancelling a unit takes it off the queue and moves no other entry.
LEMMA CancelFacts ==
  ASSUME NEW c, Good(c), NEW u \in Unit, Queued(c, u)
  PROVE  LET r == Cancel(c, u)
             N == Len(c.queue) IN
         /\ Good(r) /\ r.vm_time = SimGtime(c) /\ SimGtime(r) = SimGtime(c) /\ r.interval = HeadTime(r)
         /\ r.queue = <<>> => HeadTime(r) = NOQUEUE_WAIT
         /\ \E n \in 1 .. N :
              /\ c.queue[n] = u /\ r.queue = Unlink(c.queue, n)
              /\ \A i \in 1 .. n - 1 : DueAt(r, i) = DueAt(c, i)
              /\ \A i \in n .. N - 1 : DueAt(r, i) = DueAt(c, i + 1)
<1> DEFINE s == UpdateSimTime(c)
           n == CHOOSE i \in DOMAIN s.queue : s.queue[i] = u
           inherited == IF n < Len(s.queue) THEN [s EXCEPT !.time[s.queue[n + 1]] = @ + s.time[u]] ELSE s
           q == Unlink(s.queue, n)
           p == [inherited EXCEPT !.queue = q, !.time[u] = 0]
           N == Len(s.queue)
<1>1. Cancel(c, u) = ReloadInterval(p)
  BY DEF Cancel
<1>2. /\ Good(s) /\ s.queue = c.queue /\ s.vm_time = SimGtime(c)
      /\ \A i \in 1 .. N : DueAt(s, i) = DueAt(c, i)
  BY UpdateFacts
<1> HIDE DEF s
<1>3. /\ s \in Clock /\ N \in Nat /\ s.queue \in Seq(Unit) /\ s.time \in [Unit -> Int]
      /\ DOMAIN s.queue = 1 .. N /\ s.vm_time \in Int /\ s.time[u] \in Int
      /\ \A i \in 1 .. N : s.queue[i] \in Unit /\ s.time[s.queue[i]] \in Int
  BY <1>2, ClockFields DEF Good
<1>4. n \in 1 .. N /\ s.queue[n] = u
  BY <1>2, <1>3 DEF Queued
<1> HIDE DEF n
<1>5. \A k \in 0 .. N : Accum(s, k) \in Int
  BY <1>3, AccumType
<1>6. \A i, j \in 1 .. N : s.queue[i] = s.queue[j] => i = j
  BY <1>2 DEF Good
<1> DEFINE time2 == [v \in Unit |-> IF v = u THEN 0
                                    ELSE IF n < N /\ v = s.queue[n + 1] THEN s.time[v] + s.time[u]
                                    ELSE s.time[v]]
<1>7. /\ q \in Seq(Unit) /\ Len(q) = N - 1
      /\ \A i \in 1 .. n - 1 : q[i] = s.queue[i]
      /\ \A i \in n .. N - 1 : q[i] = s.queue[i + 1]
  <2>1. q = [i \in 1 .. N - 1 |-> IF i < n THEN s.queue[i] ELSE s.queue[i + 1]]
    BY DEF Unlink
  <2>2. ASSUME NEW i \in 1 .. N - 1 PROVE q[i] \in Unit
    <3>1. i \in 1 .. N /\ i + 1 \in 1 .. N
      BY <1>3
    <3> QED BY <1>3, <2>1, <3>1
  <2> HIDE DEF q
  <2>3. q \in [1 .. N - 1 -> Unit] /\ N - 1 \in Nat
    BY <1>3, <1>4, <2>1, <2>2
  <2>4. q \in Seq(Unit) /\ Len(q) = N - 1
    BY <2>3
  <2>5. ASSUME NEW i \in 1 .. n - 1 PROVE q[i] = s.queue[i]
    <3>1. i \in 1 .. N - 1 /\ i < n
      BY <1>3, <1>4
    <3> QED BY <2>1, <3>1
  <2>6. ASSUME NEW i \in n .. N - 1 PROVE q[i] = s.queue[i + 1]
    <3>1. i \in 1 .. N - 1 /\ ~(i < n)
      BY <1>3, <1>4
    <3> QED BY <2>1, <3>1
  <2> QED BY <2>4, <2>5, <2>6
<1>8. ASSUME n < N PROVE n + 1 \in 1 .. N /\ s.queue[n + 1] \in Unit /\ s.queue[n + 1] # u
  <2>1. n + 1 \in 1 .. N /\ n + 1 # n
    BY <1>3, <1>4, <1>8
  <2> QED BY <1>3, <1>4, <1>6, <2>1
<1>9. time2 \in [Unit -> Int]
  BY <1>3
<1>10. p = [s EXCEPT !.queue = q, !.time = time2]
  <2> HIDE DEF q
  <2>1. CASE n < N
    <3>1. [[s.time EXCEPT ![s.queue[n + 1]] = @ + s.time[u]] EXCEPT ![u] = 0] = time2
      BY <1>3, <1>8, <2>1, Zenon
    <3>2. p = [s EXCEPT !.queue = q,
                        !.time = [[s.time EXCEPT ![s.queue[n + 1]] = @ + s.time[u]] EXCEPT ![u] = 0]]
      BY <1>3, <2>1, Zenon DEF Clock
    <3> QED BY <3>1, <3>2, Zenon
  <2>2. CASE ~(n < N)
    <3>1. [s.time EXCEPT ![u] = 0] = time2
      BY <1>3, <2>2
    <3>2. p = [s EXCEPT !.queue = q, !.time = [s.time EXCEPT ![u] = 0]]
      BY <2>2
    <3> QED BY <3>1, <3>2, Zenon
  <2> QED BY <2>1, <2>2
<1> HIDE DEF p, q
<1>11. /\ p \in Clock /\ p.queue = q /\ p.time = time2 /\ p.vm_time = s.vm_time /\ p.rtime = s.rtime
  <2> HIDE DEF time2
  <2>1. p \in Clock
    BY <1>3, <1>7, <1>9, <1>10, Zenon DEF Clock
  <2>2. p.queue = q /\ p.time = time2 /\ p.vm_time = s.vm_time /\ p.rtime = s.rtime
    BY <1>3, <1>10 DEF Clock
  <2> QED BY <2>1, <2>2
<1>12. /\ Delta(p) /\ (\A i \in 1 .. n - 1 : Accum(p, i) = Accum(s, i))
       /\ \A i \in n .. N - 1 : Accum(p, i) = Accum(s, i + 1)
  <2>1. Delta(s)
    BY <1>2, <1>3 DEF Good, Delta
  <2>2. p.queue = Unlink(s.queue, n) /\ p.time = time2
    BY <1>11 DEF q
  <2>3. UnlinkedAt(s, p, u, n)
    BY <1>4, <2>1, <2>2 DEF UnlinkedAt
  <2> QED BY <2>3, UnlinkFacts DEF UnlinkKeeps
<1> HIDE DEF time2
<1>16. ASSUME NEW i \in 1 .. n - 1 PROVE DueAt(p, i) = DueAt(c, i)
  <2>1. i \in 1 .. N
    BY <1>3, <1>4
  <2> QED BY <1>2, <1>11, <1>12, <2>1 DEF DueAt
<1>17. ASSUME NEW i \in n .. N - 1 PROVE DueAt(p, i) = DueAt(c, i + 1)
  <2>1. i + 1 \in 1 .. N
    BY <1>3, <1>4
  <2> QED BY <1>2, <1>11, <1>12, <2>1 DEF DueAt
<1>18. Good(p)
  <2>1. p.rtime = p.vm_time % Word
    BY <1>2, <1>11 DEF Good
  <2> QED BY <1>11, <1>12, <2>1 DEF Good, Delta
<1> DEFINE r == ReloadInterval(p)
<1>19. /\ Good(r) /\ r.queue = q /\ r.vm_time = SimGtime(c) /\ r.interval = HeadTime(r)
       /\ SimGtime(r) = SimGtime(c) /\ (q = <<>> => HeadTime(r) = NOQUEUE_WAIT)
       /\ \A i \in 1 .. N - 1 : DueAt(r, i) = DueAt(p, i)
  BY <1>2, <1>7, <1>11, <1>18, ReloadFacts
<1> HIDE DEF r
<1>20. /\ \A i \in 1 .. n - 1 : DueAt(r, i) = DueAt(c, i)
       /\ \A i \in n .. N - 1 : DueAt(r, i) = DueAt(c, i + 1)
  <2>1. (\A i \in 1 .. n - 1 : i \in 1 .. N - 1) /\ (\A i \in n .. N - 1 : i \in 1 .. N - 1)
    BY <1>3, <1>4
  <2> QED BY <1>16, <1>17, <1>19, <2>1
<1>21. r.queue = Unlink(c.queue, n) /\ c.queue[n] = u /\ n \in 1 .. Len(c.queue) /\ N = Len(c.queue)
  BY <1>2, <1>4, <1>19 DEF q
<1> QED BY <1>1, <1>19, <1>20, <1>21 DEF r

-----------------------------------------------------------------------------
(* Dispatching.                                                            *)

\* An entry is due its own relative time after the one before it, and never before it.
LEMMA DueOrder ==
  ASSUME NEW c, Good(c)
  PROVE  /\ \A i \in 1 .. Len(c.queue) - 1 : DueAt(c, i + 1) = DueAt(c, i) + c.time[c.queue[i + 1]]
         /\ \A i \in 1 .. Len(c.queue) : \A j \in i .. Len(c.queue) : DueAt(c, i) <= DueAt(c, j)
<1> DEFINE N == Len(c.queue)
<1>1. /\ c \in Clock /\ N \in Nat /\ c.vm_time \in Int
      /\ \A i \in 1 .. N : c.time[c.queue[i]] \in Int /\ DueAt(c, i) \in Int
      /\ \A i \in 2 .. N : c.time[c.queue[i]] >= 0
  BY ClockFields, HeadDue DEF Good
<1>2. ASSUME NEW i \in 1 .. N - 1 PROVE DueAt(c, i + 1) = DueAt(c, i) + c.time[c.queue[i + 1]]
  <2>1. i + 1 \in 1 .. N /\ (i + 1) - 1 = i /\ i \in 0 .. N
    BY <1>1
  <2>2. Accum(c, i + 1) = Accum(c, i) + c.time[c.queue[i + 1]] /\ Accum(c, i) \in Int
    BY <1>1, <2>1, AccumStep, AccumType
  <2> QED BY <1>1, <2>1, <2>2, SMTT(20) DEF DueAt
<1>3. ASSUME NEW i \in 1 .. N PROVE \A j \in i .. N : DueAt(c, i) <= DueAt(c, j)
  <2> DEFINE M == N - i
             S == {d \in 0 .. M : DueAt(c, i) <= DueAt(c, i + d)}
  <2>1. M \in Nat /\ 0 \in S /\ S \in SUBSET (0 .. M)
    BY <1>1
  <2>2. ASSUME NEW d \in S, d < M PROVE d + 1 \in S
    <3>1. d \in 0 .. M /\ DueAt(c, i) <= DueAt(c, i + d)
      OBVIOUS
    <3>5. i \in Nat /\ N \in Nat /\ d \in Nat /\ 1 <= i /\ i + d < N
      BY <1>1, <2>2, <3>1
    <3>2. /\ i + d \in 1 .. N - 1 /\ i + d \in 1 .. N /\ (i + d) + 1 \in 2 .. N /\ (i + d) + 1 \in 1 .. N
          /\ i + (d + 1) = (i + d) + 1 /\ d + 1 \in 0 .. M
      BY <3>5
    <3>3. /\ DueAt(c, (i + d) + 1) = DueAt(c, i + d) + c.time[c.queue[(i + d) + 1]]
          /\ c.time[c.queue[(i + d) + 1]] >= 0 /\ c.time[c.queue[(i + d) + 1]] \in Int
          /\ DueAt(c, i + d) \in Int /\ DueAt(c, i) \in Int
      BY <1>1, <1>2, <3>2
    <3>4. DueAt(c, i) <= DueAt(c, i + (d + 1))
      <4> DEFINE w == c.time[c.queue[(i + d) + 1]]
      <4>1. DueAt(c, (i + d) + 1) = DueAt(c, i + d) + w /\ w >= 0 /\ w \in Int
        BY <3>3
      <4> HIDE DEF w
      <4>2. DueAt(c, i) <= DueAt(c, i + d) + w
        BY <3>1, <3>3, <4>1
      <4> QED BY <3>2, <4>1, <4>2, Zenon
    <3> QED BY <3>2, <3>4
  <2> HIDE DEF S
  <2>3. S = 0 .. M
    BY <2>1, <2>2, BoundedInduction, Zenon
  <2>4. ASSUME NEW j \in i .. N PROVE DueAt(c, i) <= DueAt(c, j)
    <3>1. j - i \in 0 .. M /\ i + (j - i) = j
      BY <1>1
    <3> QED BY <2>3, <3>1, Zenon DEF S
  <2> QED BY <2>4
<1> QED BY <1>2, <1>3

\* Taking the first entry off leaves the others due when they were, counted from its wait.
LEMMA TakeFirstFacts ==
  ASSUME NEW c, Good(c), c.queue # <<>>, NEW k \in Int
  PROVE  LET s == TakeFirst(c, k)
             N == Len(c.queue) IN
         /\ Good(s) /\ s.queue = Tail(c.queue) /\ Len(s.queue) = N - 1 /\ s.vm_time = c.vm_time
         /\ \A i \in 1 .. N - 1 : s.queue[i] = c.queue[i + 1] /\ DueAt(s, i) = DueAt(c, i + 1) - HeadTime(c)
         /\ k < 0 \/ c.interval + k = 0 =>
              s.interval = HeadTime(s) /\ HeadTime(s) >= 0 /\ SimGtime(s) = c.vm_time
<1> DEFINE q == Tail(c.queue)
           time2 == [c.time EXCEPT ![c.queue[1]] = 0]
           p == [c EXCEPT !.queue = Tail(@), !.time[c.queue[1]] = 0]
           s == TakeFirst(c, k)
           N == Len(c.queue)
<1>1. /\ c \in Clock /\ N \in Nat /\ N >= 1 /\ c.queue \in Seq(Unit) /\ c.time \in [Unit -> Int]
      /\ c.interval \in Int /\ c.vm_time \in Int
      /\ \A i \in 1 .. N : c.queue[i] \in Unit /\ c.time[c.queue[i]] \in Int
  BY ClockFields DEF Good
<1>2. q \in Seq(Unit) /\ Len(q) = N - 1 /\ \A i \in 1 .. N - 1 : q[i] = c.queue[i + 1]
  BY <1>1
<1>3. p = [c EXCEPT !.queue = q, !.time = time2]
  OBVIOUS
<1>4. time2 \in [Unit -> Int] /\ 1 \in 1 .. N
  BY <1>1
<1>5. \A i \in 1 .. N - 1 : i + 1 \in 2 .. N /\ i + 1 \in 1 .. N /\ i + 1 # 1
  BY <1>1
<1>6. \A i \in 1 .. N - 1 : time2[q[i]] = c.time[c.queue[i + 1]]
  <2> SUFFICES ASSUME NEW i \in 1 .. N - 1 PROVE time2[q[i]] = c.time[c.queue[i + 1]]
    OBVIOUS
  <2>1. c.queue[i + 1] # c.queue[1]
    BY <1>4, <1>5 DEF Good
  <2> QED BY <1>1, <1>2, <1>5, <2>1
<1>7. s = IF p.queue = <<>> THEN ReloadInterval(p)
          ELSE [p EXCEPT !.interval = (IF k < 0 THEN -k ELSE @) + k + HeadTime(p)]
  BY DEF TakeFirst
<1> HIDE DEF q, time2, p, s
<1>8. /\ p \in Clock /\ p.queue = q /\ p.time = time2 /\ p.interval = c.interval
      /\ p.vm_time = c.vm_time /\ p.rtime = c.rtime
  <2>1. p \in Clock
    BY <1>1, <1>2, <1>3, <1>4, Zenon DEF Clock
  <2> QED BY <1>1, <1>3, <2>1 DEF Clock
<1>9. Good(p)
  <2>1. ASSUME NEW i \in 1 .. N - 1, NEW j \in 1 .. N - 1, q[i] = q[j] PROVE i = j
    <3>1. i + 1 = j + 1
      BY <1>2, <1>5, <2>1 DEF Good
    <3> QED BY <3>1
  <2>2. ASSUME NEW i \in 2 .. N - 1 PROVE time2[q[i]] >= 0
    <3>1. i \in 1 .. N - 1
      BY <1>1
    <3> QED BY <1>5, <1>6, <3>1 DEF Good
  <2>3. p.rtime = p.vm_time % Word
    BY <1>8 DEF Good
  <2> QED BY <1>2, <1>8, <2>1, <2>2, <2>3 DEF Good
<1>10. HeadTime(c) = c.time[c.queue[1]] /\ HeadTime(c) \in Int
  BY <1>1, HeadDue
<1>11. ASSUME NEW i \in 1 .. N - 1 PROVE DueAt(p, i) = DueAt(c, i + 1) - HeadTime(c)
  <2> DEFINE f == [j \in 0 .. N - 1 |-> Accum(c, j + 1) - HeadTime(c)]
  <2>1. (\A j \in 0 .. N : Accum(c, j) \in Int) /\ Accum(c, 0) = 0
    BY <1>1, AccumType, AccumStep
  <2>2. f[0] = 0
    <3>1. Accum(c, 1) = Accum(c, 0) + c.time[c.queue[1]]
      <4>1. 1 \in 1 .. N /\ 1 - 1 = 0
        BY <1>1
      <4> QED BY <1>1, <4>1, AccumStep
    <3>2. 0 \in 0 .. N - 1 /\ 0 + 1 = 1
      BY <1>1
    <3>3. f[0] = Accum(c, 1) - HeadTime(c)
      BY <3>2
    <3> QED BY <1>10, <2>1, <3>1, <3>3
  <2>3. ASSUME NEW j \in 1 .. N - 1 PROVE f[j] = f[j - 1] + time2[q[j]]
    <3>1. j \in 0 .. N - 1 /\ j - 1 \in 0 .. N - 1 /\ (j - 1) + 1 = j /\ (j + 1) - 1 = j /\ j \in 0 .. N
      BY <1>1
    <3>2. f[j] = Accum(c, j + 1) - HeadTime(c) /\ f[j - 1] = Accum(c, j) - HeadTime(c)
      BY <3>1
    <3> HIDE DEF f
    <3>3. Accum(c, j + 1) = Accum(c, j) + c.time[c.queue[j + 1]]
      BY <1>1, <1>5, <3>1, AccumStep, SMTT(30)
    <3>4. Accum(c, j) \in Int /\ c.time[c.queue[j + 1]] \in Int
      BY <1>1, <1>5, <2>1, <3>1
    <3> QED BY <1>6, <1>10, <3>2, <3>3, <3>4, SMTT(30)
  <2>4. Accum(p, i) = Accum(c, i + 1) - HeadTime(c)
    <3>1. f[i] = Accum(c, i + 1) - HeadTime(c) /\ i \in 0 .. N - 1
      BY <1>1
    <3> HIDE DEF f
    <3>2. Len(p.queue) = N - 1 /\ N - 1 \in Nat
      BY <1>1, <1>2, <1>8
    <3>3. \A j \in 1 .. Len(p.queue) : f[j] = f[j - 1] + p.time[p.queue[j]]
      BY <1>8, <2>3, <3>2
    <3>4. \A j \in 0 .. Len(p.queue) : Accum(p, j) = f[j]
      BY <2>2, <3>2, <3>3, AccumIs, Zenon
    <3> QED BY <3>1, <3>2, <3>4
  <2>5. i + 1 \in 0 .. N
    BY <1>1
  <2> QED BY <1>1, <1>8, <1>10, <2>1, <2>4, <2>5, SMTT(30) DEF DueAt
<1>12. CASE q = <<>>
  <2>1. s = ReloadInterval(p)
    BY <1>7, <1>8, <1>12
  <2>2. /\ Good(s) /\ s.queue = q /\ s.vm_time = c.vm_time
        /\ s.interval = HeadTime(s) /\ SimGtime(s) = c.vm_time /\ HeadTime(s) = NOQUEUE_WAIT
        /\ \A i \in 1 .. N - 1 : DueAt(s, i) = DueAt(p, i)
    BY <1>2, <1>8, <1>9, <1>12, <2>1, ReloadFacts
  <2>3. NOQUEUE_WAIT >= 0
    BY NoQueueWaitAssumption
  <2> QED BY <1>2, <1>11, <2>2, <2>3 DEF s, q
<1>13. CASE q # <<>>
  <2> DEFINE v == (IF k < 0 THEN -k ELSE c.interval) + k + HeadTime(p)
  <2>1. HeadTime(p) \in Int /\ HeadTime(p) = time2[q[1]]
    BY <1>8, <1>13, HeadDue
  <2>2. v \in Int /\ (k < 0 \/ c.interval + k = 0 => v = HeadTime(p))
    BY <1>1, <2>1
  <2>3. s = [p EXCEPT !.interval = v]
    BY <1>7, <1>8, <1>13
  <2> HIDE DEF v
  <2>4. s \in Clock
    BY <1>8, <2>2, <2>3, Zenon DEF Clock
  <2>5. /\ s.queue = q /\ s.time = time2 /\ s.interval = v /\ s.vm_time = c.vm_time /\ s.rtime = c.rtime
    BY <1>8, <2>3 DEF Clock
  <2>6. Good(s)
    BY <1>8, <1>9, <2>4, <2>5 DEF Good
  <2>7. HeadTime(s) = HeadTime(p)
    BY <1>8, <1>13, <2>5 DEF HeadTime
  <2>8. HeadTime(p) >= 0
    <3>1. 1 \in 1 .. N - 1
      BY <1>1, <1>2, <1>13
    <3> QED BY <1>5, <1>6, <2>1, <3>1 DEF Good
  <2>9. \A i \in 1 .. N - 1 : DueAt(s, i) = DueAt(p, i)
    BY <1>8, <2>5, AccumSame DEF DueAt
  <2>10. SimGtime(s) = s.vm_time + HeadTime(s) - s.interval
    BY <2>4, HeadDue
  <2>11. k < 0 \/ c.interval + k = 0 => SimGtime(s) = c.vm_time
    BY <1>1, <2>1, <2>2, <2>5, <2>7, <2>10
  <2> QED BY <1>2, <1>11, <2>2, <2>5, <2>6, <2>7, <2>8, <2>9, <2>11 DEF s, q
<1> QED BY <1>12, <1>13

\* Time is set back to when the first entry was due; that entry has no wait left.
LEMMA BackUpFacts ==
  ASSUME NEW c, Good(c), c.queue # <<>>, c.interval <= 0, HeadTime(c) = c.interval
  PROVE  LET b == BackUp(c) IN
         /\ Good(b) /\ b.queue = c.queue /\ b.interval = 0 /\ HeadTime(b) = 0 /\ b.vm_time = DueAt(c, 1)
         /\ \A i \in 1 .. Len(c.queue) : DueAt(b, i) = DueAt(c, i)
<1>1. c \in Clock /\ c.interval \in Int /\ c.vm_time \in Int /\ DueAt(c, 1) = c.vm_time + c.interval
  BY HeadDue, ClockFields DEF Good
<1>2. CASE c.interval >= 0
  <2>1. BackUp(c) = c /\ c.interval = 0
    BY <1>1, <1>2 DEF BackUp
  <2> QED BY <1>1, <2>1
<1>3. CASE ~(c.interval >= 0)
  <2> DEFINE z == [c EXCEPT !.interval = 0]
             s == UpdateSimTime(z)
             b == Advance(s, -HeadTime(s))
  <2>1. BackUp(c) = b
    BY <1>3 DEF BackUp
  <2>2. z \in Clock /\ z.queue = c.queue /\ z.time = c.time /\ z.interval = 0 /\ z.vm_time = c.vm_time
        /\ z.rtime = c.rtime
    <3>1. z \in Clock
      BY <1>1, SMTT(30) DEF Clock
    <3> QED BY <1>1, <3>1, Zenon DEF Clock
  <2> HIDE DEF z
  <2>3. Good(z)
    BY <2>2 DEF Good
  <2>4. \A i \in 1 .. Len(c.queue) : DueAt(z, i) = DueAt(c, i)
    BY <2>2, AccumSame DEF DueAt
  <2>5. HeadTime(z) = HeadTime(c)
    BY <2>2 DEF HeadTime
  <2>6. /\ Good(s) /\ s.queue = c.queue /\ s.interval = 0 /\ s.vm_time = SimGtime(z) /\ HeadTime(s) = 0
        /\ \A i \in 1 .. Len(c.queue) : DueAt(s, i) = DueAt(z, i)
    BY <2>2, <2>3, UpdateFacts
  <2>7. SimGtime(z) = DueAt(c, 1)
    <3>1. SimGtime(z) = z.vm_time + HeadTime(z) - z.interval
      BY <2>2, HeadDue
    <3> QED BY <1>1, <2>2, <2>5, <3>1
  <2> HIDE DEF s
  <2>8. -HeadTime(s) = 0 /\ -HeadTime(s) \in Int
    <3>1. HeadTime(s) = 0
      BY <2>6
    <3>2. \A x \in Int : -x = 0 - x /\ -x \in Int
      OBVIOUS
    <3>3. 0 - HeadTime(s) = 0 /\ HeadTime(s) \in Int
      BY <3>1
    <3> QED BY <3>2, <3>3, Zenon
  <2>9. /\ Good(b) /\ b.queue = s.queue /\ b.time = s.time /\ b.interval = s.interval
        /\ b.noqueue_time = s.noqueue_time /\ b.vm_time = s.vm_time + (-HeadTime(s))
        /\ \A i \in 1 .. Len(s.queue) : DueAt(b, i) = DueAt(s, i) + (-HeadTime(s))
    BY <2>6, <2>8, AdvanceFacts
  <2> HIDE DEF b
  <2>10. s \in Clock /\ s.vm_time \in Int /\ \A i \in 1 .. Len(s.queue) : DueAt(s, i) \in Int
    BY <2>6, HeadDue, ClockFields DEF Good
  <2>11. HeadTime(b) = 0
    BY <2>6, <2>9 DEF HeadTime
  <2>12. b.vm_time = DueAt(c, 1)
    BY <2>6, <2>7, <2>8, <2>9, <2>10
  <2>13. \A i \in 1 .. Len(c.queue) : DueAt(b, i) = DueAt(c, i)
    BY <2>4, <2>6, <2>8, <2>9, <2>10
  <2> QED BY <2>1, <2>6, <2>9, <2>11, <2>12, <2>13
<1> QED BY <1>2, <1>3

-----------------------------------------------------------------------------
(* What the calls do to the entries of a clock.                            *)

\* Entry i of r is an entry of c that has not moved.
Unmoved(c, r, i) == \E j \in 1 .. Len(c.queue) : r.queue[i] = c.queue[j] /\ DueAt(r, i) = DueAt(c, j)

\* r is c with u, and nothing else, due at a new time.
Placed(c, r, u, due) ==
  /\ Good(r) /\ SimGtime(r) = SimGtime(c) /\ r.interval = HeadTime(r)
  /\ \A i \in 1 .. Len(r.queue) :
       IF r.queue[i] = u THEN DueAt(r, i) = due ELSE Unmoved(c, r, i)
  /\ due >= SimGtime(c) /\ c.interval >= 0 => r.interval >= 0

\* r is c without u.
Removed(c, r, u) ==
  /\ Good(r) /\ SimGtime(r) = SimGtime(c)
  /\ \A i \in 1 .. Len(r.queue) : r.queue[i] # u /\ Unmoved(c, r, i)
  /\ c.interval >= 0 => r.interval >= 0
  /\ c.interval = HeadTime(c) => r.interval = HeadTime(r)

\* Insertion places the unit.
LEMMA InsertPlaces ==
  ASSUME NEW c, Good(c), NEW u \in Unit, ~Queued(c, u), NEW t \in Int
  PROVE  Placed(c, Insert(c, u, t), u, SimGtime(c) + t)
<1> DEFINE r == Insert(c, u, t)
           N == Len(c.queue)
           due == SimGtime(c) + t
<1>1. c \in Clock /\ N \in Nat /\ DOMAIN c.queue = 1 .. N /\ c.interval \in Int /\ SimGtime(c) \in Int
      /\ c.vm_time \in Int /\ HeadTime(c) \in Int
  BY ClockFields, HeadDue DEF Good
<1>2. Good(r) /\ r.vm_time = SimGtime(c) /\ SimGtime(r) = SimGtime(c) /\ r.interval = HeadTime(r)
  BY InsertFacts
<1>3. PICK n \in 0 .. N :
              /\ r.queue = LinkAfter(c.queue, n, u) /\ DueAt(r, n + 1) = due
              /\ \A i \in 1 .. n : DueAt(r, i) = DueAt(c, i) /\ DueAt(c, i) <= due
              /\ \A i \in n + 1 .. N : DueAt(r, i + 1) = DueAt(c, i)
              /\ n < N => due < DueAt(c, n + 1)
  BY InsertFacts, Zenon
<1> HIDE DEF r
<1>4. r.queue = [i \in 1 .. N + 1 |-> IF i <= n THEN c.queue[i] ELSE IF i = n + 1 THEN u ELSE c.queue[i - 1]]
  BY <1>3 DEF LinkAfter
<1>5. r \in Clock /\ DOMAIN r.queue = 1 .. Len(r.queue) /\ Len(r.queue) \in Nat /\ HeadTime(r) \in Int
  BY <1>2, ClockFields, HeadDue DEF Good
<1>6. Len(r.queue) = N + 1 /\ r.queue # <<>>
  <2>1. 1 .. Len(r.queue) = 1 .. N + 1
    BY <1>4, <1>5, Zenon
  <2>2. Len(r.queue) = N + 1
    BY <1>1, <1>5, <2>1
  <2> QED BY <1>1, <1>5, <2>2, ClockFields
<1>7. \A i \in 1 .. N : c.queue[i] # u
  BY <1>1 DEF Queued
<1>8. ASSUME NEW i \in 1 .. N + 1
      PROVE  IF r.queue[i] = u THEN DueAt(r, i) = due ELSE Unmoved(c, r, i)
  <2>1. CASE i <= n
    <3>1. i \in 1 .. n /\ i \in 1 .. N /\ r.queue[i] = c.queue[i]
      BY <1>1, <1>3, <1>4, <2>1
    <3> QED BY <1>3, <1>7, <3>1 DEF Unmoved
  <2>2. CASE i = n + 1
    <3>1. r.queue[i] = u
      BY <1>1, <1>3, <1>4, <2>2
    <3> QED BY <1>3, <2>2, <3>1
  <2>3. CASE i > n + 1
    <3>1. i - 1 \in n + 1 .. N /\ i - 1 \in 1 .. N /\ (i - 1) + 1 = i
      BY <1>1, <1>3, <2>3
    <3>2. r.queue[i] = c.queue[i - 1]
      BY <1>1, <1>3, <1>4, <2>3
    <3>3. DueAt(r, i) = DueAt(c, i - 1)
      BY <1>3, <3>1
    <3> QED BY <1>7, <3>1, <3>2, <3>3 DEF Unmoved
  <2> QED BY <1>1, <1>3, <2>1, <2>2, <2>3
<1>9. ASSUME due >= SimGtime(c), c.interval >= 0 PROVE r.interval >= 0
  <2>1. DueAt(r, 1) = SimGtime(c) + HeadTime(r)
    BY <1>2, <1>5, <1>6, HeadDue
  <2>2. CASE n = 0
    BY <1>1, <1>2, <1>3, <1>5, <1>9, <2>1, <2>2
  <2>3. CASE n # 0
    <3>1. 1 \in 1 .. n /\ c.queue # <<>>
      BY <1>1, <1>3, <2>3, ClockFields
    <3>2. DueAt(r, 1) = c.vm_time + HeadTime(c) /\ SimGtime(c) = c.vm_time + HeadTime(c) - c.interval
      BY <1>1, <1>3, <3>1, HeadDue
    <3> QED BY <1>1, <1>2, <1>5, <1>9, <2>1, <3>1, <3>2
  <2> QED BY <2>2, <2>3
<1> QED BY <1>2, <1>6, <1>8, <1>9 DEF Placed, r

\* Cancelling removes the unit.
LEMMA CancelRemoves ==
  ASSUME NEW c, Good(c), NEW u \in Unit
  PROVE  LET r == Cancel(c, u) IN Removed(c, r, u) /\ ~Queued(r, u)
<1> DEFINE r == Cancel(c, u)
           N == Len(c.queue)
<1>1. c \in Clock /\ N \in Nat /\ DOMAIN c.queue = 1 .. N /\ c.interval \in Int /\ SimGtime(c) \in Int
      /\ c.vm_time \in Int /\ HeadTime(c) \in Int
      /\ \A i \in 1 .. N : DueAt(c, i) \in Int
  BY ClockFields, HeadDue DEF Good
<1>2. CASE ~Queued(c, u)
  <2>1. r = c
    BY <1>2 DEF Cancel
  <2>2. \A i \in 1 .. N : c.queue[i] # u /\ Unmoved(c, c, i)
    BY <1>1, <1>2 DEF Queued, Unmoved
  <2> QED BY <1>1, <1>2, <2>1, <2>2 DEF Removed
<1>3. CASE Queued(c, u)
  <2>1. /\ Good(r) /\ r.vm_time = SimGtime(c) /\ SimGtime(r) = SimGtime(c) /\ r.interval = HeadTime(r)
        /\ r.queue = <<>> => HeadTime(r) = NOQUEUE_WAIT
    BY <1>3, CancelFacts
  <2>2. PICK n \in 1 .. N :
              /\ c.queue[n] = u /\ r.queue = Unlink(c.queue, n)
              /\ \A i \in 1 .. n - 1 : DueAt(r, i) = DueAt(c, i)
              /\ \A i \in n .. N - 1 : DueAt(r, i) = DueAt(c, i + 1)
    BY <1>3, CancelFacts
  <2> HIDE DEF r
  <2>3. r.queue = [i \in 1 .. N - 1 |-> IF i < n THEN c.queue[i] ELSE c.queue[i + 1]]
    BY <2>2 DEF Unlink
  <2>4. r \in Clock /\ DOMAIN r.queue = 1 .. Len(r.queue) /\ Len(r.queue) \in Nat /\ HeadTime(r) \in Int
    BY <2>1, ClockFields, HeadDue DEF Good
  <2>5. Len(r.queue) = N - 1
    <3>1. 1 .. Len(r.queue) = 1 .. N - 1
      BY <2>3, <2>4, Zenon
    <3>2. N - 1 \in Nat
      BY <1>1, <2>2
    <3> QED BY <2>4, <3>1, <3>2
  <2>6. \A i \in 1 .. N : c.queue[i] = u => i = n
    BY <1>1, <2>2 DEF Good
  <2>7. ASSUME NEW i \in 1 .. N - 1 PROVE r.queue[i] # u /\ Unmoved(c, r, i)
    <3>1. CASE i < n
      <4>1. i \in 1 .. n - 1 /\ i \in 1 .. N /\ i # n
        BY <1>1, <2>2, <3>1
      <4>2. r.queue[i] = c.queue[i] /\ DueAt(r, i) = DueAt(c, i)
        BY <2>2, <2>3, <3>1, <4>1
      <4> QED BY <2>6, <4>1, <4>2 DEF Unmoved
    <3>2. CASE ~(i < n)
      <4>1. i \in n .. N - 1 /\ i + 1 \in 1 .. N /\ i + 1 # n
        BY <1>1, <2>2, <3>2
      <4>2. r.queue[i] = c.queue[i + 1] /\ DueAt(r, i) = DueAt(c, i + 1)
        BY <2>2, <2>3, <3>2, <4>1
      <4> QED BY <2>6, <4>1, <4>2 DEF Unmoved
    <3> QED BY <3>1, <3>2
  <2>8. ~Queued(r, u)
    BY <2>4, <2>5, <2>7 DEF Queued
  <2>9. ASSUME c.interval >= 0 PROVE r.interval >= 0
    <3>1. CASE r.queue = <<>>
      BY <2>1, <3>1, NoQueueWaitAssumption
    <3>2. CASE r.queue # <<>>
      <4>1. DueAt(r, 1) = SimGtime(c) + HeadTime(r)
        BY <2>1, <2>4, <3>2, HeadDue
      <4>2. N >= 2
        BY <1>1, <2>4, <2>5, <3>2, ClockFields
      <4>3. c.queue # <<>>
        BY <1>1, <4>2, ClockFields
      <4>4. DueAt(c, 1) = c.vm_time + HeadTime(c) /\ SimGtime(c) = c.vm_time + HeadTime(c) - c.interval
        BY <1>1, <4>3, HeadDue
      <4>5. DueAt(c, 1) <= DueAt(c, 2) /\ DueAt(c, 1) \in Int /\ DueAt(c, 2) \in Int
        <5>1. 1 \in 1 .. N /\ 2 \in 1 .. N /\ 2 \in 1 .. N
          BY <1>1, <4>2
        <5> QED BY <1>1, <5>1, DueOrder
      <4>6. DueAt(r, 1) = DueAt(c, 1) \/ DueAt(r, 1) = DueAt(c, 2)
        <5>1. CASE n = 1
          <6>1. 1 \in n .. N - 1 /\ 1 + 1 = 2
            BY <1>1, <4>2, <5>1
          <6> QED BY <2>2, <6>1
        <5>2. CASE n # 1
          <6>1. 1 \in 1 .. n - 1
            BY <1>1, <2>2, <5>2
          <6> QED BY <2>2, <6>1
        <5> QED BY <5>1, <5>2
      <4>7. HeadTime(r) >= 0
        BY <1>1, <1>3, <2>4, <2>9, <4>1, <4>4, <4>5, <4>6, SMTT(30)
      <4> QED BY <2>1, <4>7
    <3> QED BY <3>1, <3>2
  <2> QED BY <2>1, <2>5, <2>7, <2>8, <2>9 DEF r, Removed
<1> QED BY <1>2, <1>3

\* The clock before RUN.
LEMMA ResetFacts ==
  /\ Good(ResetClock) /\ Len(ResetClock.queue) = 0
  /\ ResetClock.interval = 0 /\ HeadTime(ResetClock) = 0 /\ SimGtime(ResetClock) = 0
<1> DEFINE c == ResetClock
<1>1. c.queue = <<>> /\ c.interval = 0 /\ c.noqueue_time = 0 /\ c.vm_time = 0 /\ c.rtime = 0
  BY DEF ResetClock
<1>2. c \in Clock
  BY ClockWordAssumption DEF ResetClock, Clock
<1>3. 0 % Word = 0
  BY ClockWordAssumption
<1> HIDE DEF c
<1>4. Len(c.queue) = 0 /\ HeadTime(c) = 0
  BY <1>1 DEF HeadTime
<1>5. Good(c)
  BY <1>1, <1>2, <1>3, <1>4 DEF Good
<1>6. SimGtime(c) = 0
  BY <1>1, <1>2, <1>4, HeadDue
<1> QED BY <1>1, <1>4, <1>5, <1>6 DEF c
=============================================================================
