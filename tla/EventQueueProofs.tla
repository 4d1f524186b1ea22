-------------------------- MODULE EventQueueProofs ---------------------------
(***************************************************************************)
(* Proofs about EventQueue, for any units, waits and costs: the queue is   *)
(* in clock order; no action runs early; and for a CPU that counts one     *)
(* time unit per instruction simulated time is exact, every action runs at *)
(* the promised time, and the queue implements an agenda of due times.     *)
(***************************************************************************)
EXTENDS EventQueue, ClockQueueProofs

-----------------------------------------------------------------------------
(* The calls that are made of others.                                      *)

\* What is kept by two changes in a row is kept by both together.
LEMMA UnmovedTwice ==
  ASSUME NEW c, NEW d, NEW r, NEW i, Unmoved(d, r, i), \A j \in 1 .. Len(d.queue) : Unmoved(c, d, j)
  PROVE  Unmoved(c, r, i)
<1>1. PICK j \in 1 .. Len(d.queue) : r.queue[i] = d.queue[j] /\ DueAt(r, i) = DueAt(d, j)
  BY DEF Unmoved
<1>2. PICK k \in 1 .. Len(c.queue) : d.queue[j] = c.queue[k] /\ DueAt(d, j) = DueAt(c, k)
  BY DEF Unmoved
<1> QED BY <1>1, <1>2 DEF Unmoved

\* Removing a unit and placing it again places it.
LEMMA RemovedPlaced ==
  ASSUME NEW c, NEW d, NEW r, NEW u, NEW due, Removed(c, d, u), Placed(d, r, u, due)
  PROVE  Placed(c, r, u, due)
<1>1. ASSUME NEW i \in 1 .. Len(r.queue)
      PROVE  IF r.queue[i] = u THEN DueAt(r, i) = due ELSE Unmoved(c, r, i)
  <2>1. IF r.queue[i] = u THEN DueAt(r, i) = due ELSE Unmoved(d, r, i)
    BY DEF Placed
  <2>2. \A j \in 1 .. Len(d.queue) : Unmoved(c, d, j)
    BY DEF Removed
  <2> QED BY <2>1, <2>2, UnmovedTwice
<1>2. SimGtime(d) = SimGtime(c) /\ (c.interval >= 0 => d.interval >= 0)
  BY DEF Removed
<1> QED BY <1>1, <1>2 DEF Placed

\* sim_activate_abs moves the unit, whether it was queued or not.
LEMMA AbsPlaces ==
  ASSUME NEW c, Good(c), NEW u \in Unit, NEW t \in Int
  PROVE  Placed(c, ActivateAbs(c, u, t), u, SimGtime(c) + t)
<1> DEFINE d == Cancel(c, u)
           r == Insert(d, u, t)
<1>1. Removed(c, d, u) /\ ~Queued(d, u)
  BY CancelRemoves
<1>2. ActivateAbs(c, u, t) = r
  BY <1>1 DEF ActivateAbs, Activate
<1> HIDE DEF d
<1>3. Good(d) /\ SimGtime(d) = SimGtime(c)
  BY <1>1 DEF Removed
<1>4. Placed(d, r, u, SimGtime(c) + t)
  BY <1>1, <1>3, InsertPlaces
<1> HIDE DEF r
<1>5. Placed(c, r, u, SimGtime(c) + t)
  BY <1>1, <1>4, RemovedPlaced
<1> QED BY <1>2, <1>5

\* The remainder of a small number is the number itself, or the number plus the width.
LEMMA ModSmall ==
  ASSUME NEW a \in Int, NEW n \in Nat \ {0}, -n <= a, a < n
  PROVE  a % n = IF a < 0 THEN a + n ELSE a
<1> DEFINE x == a % n
           q == a \div n
<1>1. q \in Int /\ x \in 0 .. n - 1 /\ a = n * q + x
  OBVIOUS
<1> HIDE DEF x, q
<1>2. q >= 1 => n * q >= n
  BY <1>1
<1>3. q <= -2 => n * q <= -2 * n
  BY <1>1
<1>4. q = 0 \/ q = -1
  BY <1>1, <1>2, <1>3
<1>5. x = IF a < 0 THEN a + n ELSE a
  <2>1. CASE q = 0
    BY <1>1, <2>1
  <2>2. CASE q = -1
    BY <1>1, <2>2
  <2> QED BY <1>4, <2>1, <2>2
<1> QED BY <1>5 DEF x

\* sim_activate_notbefore recovers the distance of a not-before time from its low bits, if that
\* distance is less than half the width of sim_rtime.
LEMMA NotBeforePlaces ==
  ASSUME NEW c, Good(c), NEW u \in Unit, NEW ahead \in -(Word \div 2) .. (Word \div 2) - 1
  PROVE  LET r == ActivateNotBefore(c, u, (SimGtime(c) + ahead) % Word) IN
         /\ r = Insert(UpdateSimTime(Cancel(c, u)), u, IF ahead < 0 THEN 0 ELSE ahead)
         /\ Placed(c, r, u, IF ahead < 0 THEN SimGtime(c) ELSE SimGtime(c) + ahead)
<1> DEFINE d == Cancel(c, u)
           s == UpdateSimTime(d)
           g == SimGtime(c)
           half == Word \div 2
           t == IF ahead < 0 THEN 0 ELSE ahead
           dist == (((g + ahead) % Word) - s.rtime) % Word
<1>1. Removed(c, d, u) /\ ~Queued(d, u)
  BY CancelRemoves
<1>2. ActivateNotBefore(c, u, (g + ahead) % Word)
        = IF dist >= half THEN Activate(s, u, 0) ELSE Activate(s, u, dist)
  BY DEF ActivateNotBefore
<1>3. Word \in Nat \ {0} /\ half \in Nat /\ Word = 2 * half
  BY ClockWordAssumption
<1> HIDE DEF d, half
<1>4. Good(d) /\ SimGtime(d) = g /\ g \in Int
  BY <1>1, HeadDue DEF Removed, Good
<1>5. /\ Good(s) /\ s.queue = d.queue /\ s.interval = d.interval /\ s.vm_time = g /\ HeadTime(s) = d.interval
      /\ \A i \in 1 .. Len(d.queue) : DueAt(s, i) = DueAt(d, i)
  BY <1>4, UpdateFacts
<1> HIDE DEF s
<1>6. Removed(c, s, u) /\ ~Queued(s, u)
  <2>1. s \in Clock /\ SimGtime(s) = g
    <3>1. s \in Clock /\ d \in Clock
      BY <1>4, <1>5 DEF Good
    <3>2. SimGtime(s) = s.vm_time + HeadTime(s) - s.interval /\ s.interval \in Int
      BY <3>1, HeadDue, ClockFields
    <3> QED BY <1>4, <1>5, <3>1, <3>2
  <2>2. ASSUME NEW i \in 1 .. Len(s.queue) PROVE s.queue[i] # u /\ Unmoved(c, s, i)
    <3>1. d.queue[i] # u /\ Unmoved(c, d, i)
      BY <1>1, <1>5 DEF Removed
    <3> QED BY <1>5, <3>1 DEF Unmoved
  <2>3. ~Queued(s, u)
    BY <1>1, <1>5 DEF Queued
  <2>4. c.interval >= 0 => s.interval >= 0
    BY <1>1, <1>5 DEF Removed
  <2> QED BY <1>5, <2>1, <2>2, <2>3, <2>4 DEF Removed
<1>7. dist = IF ahead < 0 THEN ahead + Word ELSE ahead
  <2>1. ahead \in Int /\ -half <= ahead /\ ahead < half
    BY <1>3 DEF half
  <2>2. s.rtime = g % Word /\ s.rtime \in Int
    <3>1. s.rtime = g % Word
      BY <1>5 DEF Good
    <3> QED BY <1>3, <1>4, <3>1
  <2> DEFINE x == g % Word
             z == (g + ahead) % Word
  <2>3. x \in Int /\ g + ahead \in Int /\ -x \in Int /\ ahead - x \in Int
    BY <1>3, <1>4, <2>1, <2>2
  <2>4. ((z + (-x)) % Word) = ((g + ahead) + (-x)) % Word
    BY <1>3, <2>3, ModAdd
  <2>5. ((x + (ahead - x)) % Word) = (g + (ahead - x)) % Word
    BY <1>3, <1>4, <2>3, ModAdd
  <2>6. z \in Int
    BY <1>3, <2>3
  <2> HIDE DEF x, z
  <2>7. z + (-x) = z - x /\ (g + ahead) + (-x) = g + (ahead - x) /\ x + (ahead - x) = ahead
    BY <1>4, <2>1, <2>3, <2>6
  <2>8. dist = (z - x) % Word
    BY <2>2 DEF x, z
  <2>9. dist = ahead % Word
    BY <2>4, <2>5, <2>7, <2>8, Zenon
  <2>10. -Word <= ahead /\ ahead < Word
    BY <1>3, <2>1
  <2> QED BY <1>3, <2>1, <2>9, <2>10, ModSmall
<1> HIDE DEF dist
<1>8. ahead \in Int /\ -half <= ahead /\ ahead < half /\ t \in Int
  BY <1>3 DEF half
<1>9. ActivateNotBefore(c, u, (g + ahead) % Word) = Insert(s, u, t)
  <2>1. CASE ahead < 0
    <3>1. dist >= half /\ t = 0
      BY <1>3, <1>7, <1>8, <2>1
    <3> QED BY <1>2, <1>6, <3>1 DEF Activate
  <2>2. CASE ~(ahead < 0)
    <3>1. ~(dist >= half) /\ t = dist
      BY <1>3, <1>7, <1>8, <2>2
    <3> QED BY <1>2, <1>6, <3>1 DEF Activate
  <2> QED BY <2>1, <2>2
<1> DEFINE due == IF ahead < 0 THEN g ELSE g + ahead
<1>10. SimGtime(s) + t = due
  BY <1>4, <1>6, <1>8 DEF Removed
<1>11. Placed(s, Insert(s, u, t), u, SimGtime(s) + t)
  BY <1>5, <1>6, <1>8, InsertPlaces
<1> HIDE DEF t, due
<1>12. Placed(c, Insert(s, u, t), u, due)
  BY <1>6, <1>10, <1>11, RemovedPlaced
<1> QED BY <1>9, <1>12 DEF due, t, s, d

\* For any not-before time the clock stays well formed.
LEMMA NotBeforeGood ==
  ASSUME NEW c, Good(c), NEW u \in Unit, NEW r \in Int
  PROVE  Good(ActivateNotBefore(c, u, r))
<1> DEFINE d == Cancel(c, u)
           s == UpdateSimTime(d)
           dist == (r - s.rtime) % Word
<1>1. Removed(c, d, u) /\ ~Queued(d, u)
  BY CancelRemoves
<1>2. ActivateNotBefore(c, u, r) = IF dist >= Word \div 2 THEN Activate(s, u, 0) ELSE Activate(s, u, dist)
  BY DEF ActivateNotBefore
<1> HIDE DEF d
<1>3. Good(s) /\ s.queue = d.queue
  BY <1>1, UpdateFacts DEF Removed
<1> HIDE DEF s
<1>4. dist \in Int /\ 0 \in Int
  BY <1>3, ClockFields, ClockWordAssumption DEF Good
<1>5. ~Queued(s, u)
  BY <1>1, <1>3 DEF Queued
<1> HIDE DEF dist
<1>6. \A t \in Int : Good(Insert(s, u, t))
  BY <1>3, <1>5, InsertPlaces DEF Placed
<1> QED BY <1>2, <1>4, <1>5, <1>6 DEF Activate

-----------------------------------------------------------------------------
(* The inductive invariants.                                               *)

\* The clock is well formed and the variables the proofs compute with are numbers.
GoodInv ==
  /\ Good(clock) /\ catchup \in Int /\ lateness \in Int
  /\ promise \in [Unit -> Int] /\ elapsed \in Int

\* No entry is due before its unit was promised to run; and while an action runs the interval is
\* that of the first entry, which is not overdue.
LateInv ==
  /\ GoodInv
  /\ catchup <= 0 /\ lateness >= 0
  /\ pc = "action" => clock.interval = HeadTime(clock) /\ clock.interval >= 0
  /\ \A i \in 1 .. Len(clock.queue) : promise[clock.queue[i]] <= DueAt(clock, i)

\* With instructions of cost 1 the interval is never overrun, and every entry is due exactly when
\* its unit was promised to run.
ExactInv ==
  /\ GoodInv
  /\ catchup = 0 /\ lateness = 0 /\ clock.interval >= 0 /\ SimGtime(clock) = elapsed
  /\ pc = "action" => clock.interval = HeadTime(clock)
  /\ \A i \in 1 .. Len(clock.queue) : promise[clock.queue[i]] = DueAt(clock, i)

-----------------------------------------------------------------------------
(* What the actions do to the clock.                                       *)

\* The waits the calls may ask for: none is negative, and a not-before time is within half the
\* width of sim_rtime, which is what sim_activate_notbefore can tell apart.
Waits == Delay \subseteq Nat /\ Reach \subseteq -(Word \div 2) .. (Word \div 2) - 1

\* An entry after a call: it is due when the call promised, or the call has left it alone.
Served(i) ==
  \/ promise'[clock'.queue[i]] = DueAt(clock', i)
  \/ \E j \in 1 .. Len(clock.queue) :
       /\ promise'[clock'.queue[i]] = promise[clock.queue[j]]
       /\ DueAt(clock', i) = DueAt(clock, j)

CallKeeps ==
  /\ Good(clock') /\ SimGtime(clock') = SimGtime(clock) /\ promise' \in [Unit -> Int]
  /\ \A i \in 1 .. Len(clock'.queue) : Served(i)
  /\ clock.interval = HeadTime(clock) => clock'.interval = HeadTime(clock')
  /\ clock.interval >= 0 => clock'.interval >= 0

\* A call that places a unit and promises the time at which it does so.
LEMMA PlacedKeeps ==
  ASSUME GoodInv, NEW u \in Unit, NEW due \in Int, due >= SimGtime(clock),
         Placed(clock, clock', u, due), Promise(u, due)
  PROVE  CallKeeps
<1>1. promise \in [Unit -> Int] /\ promise' = [promise EXCEPT ![u] = due] /\ Good(clock')
  BY DEF GoodInv, Promise, Placed
<1>2. clock' \in Clock /\ clock \in Clock
  BY <1>1 DEF Good, GoodInv
<1>3. ASSUME NEW i \in 1 .. Len(clock'.queue) PROVE Served(i)
  <2>1. clock'.queue[i] \in Unit
    BY <1>2, ClockFields
  <2>2. CASE clock'.queue[i] = u
    <3>1. DueAt(clock', i) = due
      BY <2>2 DEF Placed
    <3> QED BY <1>1, <2>2, <3>1 DEF Served
  <2>3. CASE clock'.queue[i] # u
    <3>1. Unmoved(clock, clock', i)
      BY <2>3 DEF Placed
    <3>2. PICK j \in 1 .. Len(clock.queue) : clock'.queue[i] = clock.queue[j] /\ DueAt(clock', i) = DueAt(clock, j)
      BY <3>1 DEF Unmoved
    <3>3. promise'[clock'.queue[i]] = promise[clock.queue[j]]
      BY <1>1, <2>1, <2>3, <3>2
    <3> QED BY <3>2, <3>3 DEF Served
  <2> QED BY <2>2, <2>3
<1>4. promise' \in [Unit -> Int]
  BY <1>1
<1> QED BY <1>3, <1>4 DEF Placed, CallKeeps

\* A call that removes a unit.
LEMMA RemovedKeeps ==
  ASSUME GoodInv, NEW u \in Unit, Removed(clock, clock', u), Promise(u, 0)
  PROVE  CallKeeps
<1>1. promise \in [Unit -> Int] /\ promise' = [promise EXCEPT ![u] = 0] /\ Good(clock')
  BY DEF GoodInv, Promise, Removed
<1>2. clock' \in Clock /\ clock \in Clock
  BY <1>1 DEF Good, GoodInv
<1>3. ASSUME NEW i \in 1 .. Len(clock'.queue) PROVE Served(i)
  <2>1. clock'.queue[i] \in Unit /\ clock'.queue[i] # u /\ Unmoved(clock, clock', i)
    BY <1>2, ClockFields DEF Removed
  <2>2. PICK j \in 1 .. Len(clock.queue) : clock'.queue[i] = clock.queue[j] /\ DueAt(clock', i) = DueAt(clock, j)
    BY <2>1 DEF Unmoved
  <2>3. promise'[clock'.queue[i]] = promise[clock.queue[j]]
    BY <1>1, <2>1, <2>2
  <2> QED BY <2>2, <2>3 DEF Served
<1>4. promise' \in [Unit -> Int]
  BY <1>1
<1> QED BY <1>3, <1>4 DEF Removed, CallKeeps

\* A call that leaves everything as it is.
LEMMA NothingKeeps ==
  ASSUME GoodInv, clock' = clock, promise' = promise
  PROVE  CallKeeps
<1>1. Good(clock') /\ SimGtime(clock') = SimGtime(clock) /\ promise' \in [Unit -> Int]
  BY DEF GoodInv
<1>2. ASSUME NEW i \in 1 .. Len(clock'.queue) PROVE Served(i)
  BY DEF Served
<1> QED BY <1>1, <1>2 DEF CallKeeps

\* Every scheduling call moves the unit it names and no other.
LEMMA CallsKeep ==
  ASSUME GoodInv, Waits, Calls
  PROVE  CallKeeps /\ UNCHANGED <<pc, catchup, elapsed, lateness>>
<1>1. PICK u \in Unit : \/ \E t \in Delay : CallActivate(u, t) \/ CallActivateAbs(u, t)
                        \/ \E ahead \in Reach : CallActivateNotBefore(u, ahead)
                        \/ CallCancel(u)
  BY DEF Calls
<1>2. Good(clock) /\ clock \in Clock /\ SimGtime(clock) \in Int
  BY HeadDue DEF GoodInv, Good
<1>3. ASSUME NEW t \in Delay, CallActivate(u, t) PROVE CallKeeps
  <2>1. CASE Queued(clock, u)
    <3>1. clock' = clock /\ promise' = promise
      BY <1>3, <2>1 DEF CallActivate, Activate
    <3> QED BY <3>1, NothingKeeps
  <2>2. CASE ~Queued(clock, u)
    <3>1. clock' = Insert(clock, u, t) /\ Promise(u, SimGtime(clock) + t)
      BY <1>3, <2>2 DEF CallActivate, Activate
    <3>2. t \in Int /\ SimGtime(clock) + t \in Int /\ SimGtime(clock) + t >= SimGtime(clock)
      BY <1>2 DEF Waits
    <3>3. Placed(clock, clock', u, SimGtime(clock) + t)
      BY <1>2, <2>2, <3>1, <3>2, InsertPlaces
    <3> QED BY <3>1, <3>2, <3>3, PlacedKeeps
  <2> QED BY <2>1, <2>2
<1>4. ASSUME NEW t \in Delay, CallActivateAbs(u, t) PROVE CallKeeps
  <2>1. clock' = ActivateAbs(clock, u, t) /\ Promise(u, SimGtime(clock) + t)
    BY <1>4 DEF CallActivateAbs
  <2>2. t \in Int /\ SimGtime(clock) + t \in Int /\ SimGtime(clock) + t >= SimGtime(clock)
    BY <1>2 DEF Waits
  <2>3. Placed(clock, clock', u, SimGtime(clock) + t)
    BY <1>2, <2>1, <2>2, AbsPlaces
  <2> QED BY <2>1, <2>2, <2>3, PlacedKeeps
<1>5. ASSUME NEW ahead \in Reach, CallActivateNotBefore(u, ahead) PROVE CallKeeps
  <2> DEFINE due == IF ahead < 0 THEN SimGtime(clock) ELSE SimGtime(clock) + ahead
  <2>1. clock' = ActivateNotBefore(clock, u, (SimGtime(clock) + ahead) % Word) /\ Promise(u, due)
    BY <1>5 DEF CallActivateNotBefore
  <2>2. ahead \in -(Word \div 2) .. (Word \div 2) - 1
    BY DEF Waits
  <2>3. ahead \in Int
    BY <2>2, ClockWordAssumption
  <2>4. due \in Int /\ due >= SimGtime(clock)
    BY <1>2, <2>3
  <2>5. Placed(clock, clock', u, due)
    BY <1>2, <2>1, <2>2, NotBeforePlaces
  <2> HIDE DEF due
  <2> QED BY <2>1, <2>4, <2>5, PlacedKeeps
<1>6. ASSUME CallCancel(u) PROVE CallKeeps
  <2>1. clock' = Cancel(clock, u) /\ Promise(u, 0)
    BY <1>6 DEF CallCancel
  <2>2. Removed(clock, clock', u)
    BY <1>2, <2>1, CancelRemoves
  <2> QED BY <2>1, <2>2, RemovedKeeps
<1>7. UNCHANGED <<pc, catchup, elapsed, lateness>>
  BY <1>1 DEF CallActivate, CallActivateAbs, CallActivateNotBefore, CallCancel, Call
<1> QED BY <1>1, <1>3, <1>4, <1>5, <1>6, <1>7

\* The instruction loop counts the interval down; no entry moves.
LEMMA ExecuteFacts ==
  ASSUME GoodInv, NEW n \in Cost, Execute(n)
  PROVE  /\ Good(clock') /\ clock'.queue = clock.queue /\ clock'.interval = clock.interval - n
         /\ SimGtime(clock') = SimGtime(clock) + n
         /\ \A i \in 1 .. Len(clock.queue) : DueAt(clock', i) = DueAt(clock, i)
<1>1. clock \in Clock /\ Good(clock) /\ n \in Int /\ clock.interval \in Int /\ clock.vm_time \in Int
      /\ HeadTime(clock) \in Int
  BY CostAssumption, ClockFields, HeadDue DEF GoodInv, Good
<1>2. clock' = [clock EXCEPT !.interval = clock.interval - n]
  BY DEF Execute
<1>3. clock.interval - n \in Int
  BY <1>1
<1>4. clock' \in Clock
  BY <1>1, <1>2, <1>3, Zenon DEF Clock
<1>5. /\ clock'.queue = clock.queue /\ clock'.time = clock.time /\ clock'.vm_time = clock.vm_time
      /\ clock'.rtime = clock.rtime /\ clock'.noqueue_time = clock.noqueue_time
      /\ clock'.interval = clock.interval - n
  BY <1>1, <1>2 DEF Clock
<1>6. Good(clock')
  BY <1>1, <1>4, <1>5 DEF Good
<1>7. \A i \in 1 .. Len(clock.queue) : DueAt(clock', i) = DueAt(clock, i)
  BY <1>5, AccumSame DEF DueAt
<1>8. HeadTime(clock') = HeadTime(clock)
  BY <1>5 DEF HeadTime
<1>9. SimGtime(clock') = SimGtime(clock) + n
  <2>1. /\ SimGtime(clock) = clock.vm_time + HeadTime(clock) - clock.interval
        /\ SimGtime(clock') = clock'.vm_time + HeadTime(clock') - clock'.interval
    BY <1>1, <1>4, HeadDue
  <2> QED BY <1>1, <1>5, <1>8, <2>1
<1> QED BY <1>5, <1>6, <1>7, <1>9

\* sim_process_event with nothing due updates the clock and moves no entry.
LEMMA NothingDueFacts ==
  ASSUME GoodInv, ProcessNothingDue
  PROVE  /\ Good(clock') /\ clock'.queue = clock.queue /\ SimGtime(clock') = SimGtime(clock)
         /\ \A i \in 1 .. Len(clock.queue) : DueAt(clock', i) = DueAt(clock, i)
         /\ clock'.interval >= 0
<1> DEFINE s == UpdateSimTime(clock)
<1>1. Good(clock) /\ clock \in Clock /\ SimGtime(clock) \in Int /\ clock.interval \in Int
  BY HeadDue, ClockFields DEF GoodInv, Good
<1>2. /\ Good(s) /\ s.queue = clock.queue /\ s.interval = clock.interval
      /\ s.vm_time = SimGtime(clock) /\ HeadTime(s) = clock.interval
      /\ \A i \in 1 .. Len(clock.queue) : DueAt(s, i) = DueAt(clock, i)
  BY <1>1, UpdateFacts
<1>3. clock' = (IF s.interval > 0 THEN s ELSE ReloadInterval(s)) /\ (clock.interval > 0 \/ clock.queue = <<>>)
  BY DEF ProcessNothingDue, Return
<1> HIDE DEF s
<1>4. s \in Clock /\ SimGtime(s) = s.vm_time + HeadTime(s) - s.interval
  BY <1>2, HeadDue DEF Good
<1>5. CASE s.interval > 0
  <2>1. clock' = s
    BY <1>3, <1>5
  <2> QED BY <1>1, <1>2, <1>4, <1>5, <2>1
<1>6. CASE ~(s.interval > 0)
  <2> DEFINE r == ReloadInterval(s)
  <2>1. clock' = r /\ s.queue = <<>>
    BY <1>2, <1>3, <1>6
  <2>2. /\ Good(r) /\ r.queue = s.queue /\ r.interval = HeadTime(r) /\ SimGtime(r) = s.vm_time
        /\ HeadTime(r) = NOQUEUE_WAIT
        /\ \A i \in 1 .. Len(s.queue) : DueAt(r, i) = DueAt(s, i)
    BY <1>2, <2>1, ReloadFacts
  <2>3. r.interval >= 0
    BY <2>2, NoQueueWaitAssumption
  <2> HIDE DEF r
  <2> QED BY <1>2, <2>1, <2>2, <2>3
<1> QED BY <1>5, <1>6

\* A dispatch takes the first entry and leaves the others due when they were, less its wait.
LEMMA DispatchFacts ==
  ASSUME GoodInv, NEW c, Good(c), c.queue # <<>>, NEW k \in Int, Dispatch(c, k)
  PROVE  /\ Good(clock') /\ promise' \in [Unit -> Int] /\ lateness' \in Int
         /\ pc' = "action" /\ catchup' = k /\ Len(clock'.queue) = Len(c.queue) - 1
         /\ c.queue[1] \in Unit /\ promise[c.queue[1]] \in Int
         /\ \A i \in 1 .. Len(c.queue) - 1 :
              /\ clock'.queue[i] = c.queue[i + 1]
              /\ promise'[clock'.queue[i]] = promise[c.queue[i + 1]]
              /\ DueAt(clock', i) = DueAt(c, i + 1) - HeadTime(c)
         /\ k < 0 \/ c.interval + k = 0 =>
              /\ clock'.interval = HeadTime(clock') /\ clock'.interval >= 0 /\ SimGtime(clock') = c.vm_time
              /\ lateness' = c.vm_time - promise[c.queue[1]]
<1> DEFINE s == TakeFirst(c, k)
           u == c.queue[1]
           N == Len(c.queue)
<1>1. /\ clock' = s /\ pc' = "action" /\ catchup' = k /\ lateness' = SimGtime(s) - promise[u]
      /\ promise' = [promise EXCEPT ![u] = 0] /\ promise \in [Unit -> Int]
  BY DEF Dispatch, Promise, GoodInv
<1>2. /\ Good(s) /\ Len(s.queue) = N - 1 /\ s.vm_time = c.vm_time
      /\ \A i \in 1 .. N - 1 : s.queue[i] = c.queue[i + 1] /\ DueAt(s, i) = DueAt(c, i + 1) - HeadTime(c)
      /\ k < 0 \/ c.interval + k = 0 => s.interval = HeadTime(s) /\ HeadTime(s) >= 0 /\ SimGtime(s) = c.vm_time
  BY TakeFirstFacts
<1> HIDE DEF s
<1>3. /\ c \in Clock /\ N \in Nat /\ N >= 1 /\ u \in Unit
      /\ \A i \in 1 .. N : c.queue[i] \in Unit
  BY ClockFields DEF Good
<1>4. ASSUME NEW i \in 1 .. N - 1 PROVE promise'[clock'.queue[i]] = promise[c.queue[i + 1]]
  <2>1. i + 1 \in 1 .. N /\ i + 1 # 1 /\ 1 \in 1 .. N
    BY <1>3
  <2>2. c.queue[i + 1] # u /\ c.queue[i + 1] \in Unit
    BY <1>3, <2>1 DEF Good
  <2> QED BY <1>1, <1>2, <2>2
<1>5. SimGtime(s) \in Int /\ promise[u] \in Int /\ promise' \in [Unit -> Int]
  BY <1>1, <1>2, <1>3, HeadDue DEF Good
<1>6. lateness' \in Int
  BY <1>1, <1>5
<1> QED BY <1>1, <1>2, <1>3, <1>4, <1>5, <1>6

\* What sim_process_event starts from: time is set back to when the first entry was due.
LEMMA BackedUpFacts ==
  ASSUME GoodInv, clock.queue # <<>>, clock.interval <= 0
  PROVE  LET b == BackUp(UpdateSimTime(clock)) IN
         /\ Good(b) /\ b.queue = clock.queue /\ b.interval = 0 /\ HeadTime(b) = 0 /\ b.vm_time = DueAt(clock, 1)
         /\ \A i \in 1 .. Len(clock.queue) : DueAt(b, i) = DueAt(clock, i)
<1> DEFINE s == UpdateSimTime(clock)
           b == BackUp(s)
<1>1. Good(clock) /\ clock \in Clock
  BY DEF GoodInv, Good
<1>2. /\ Good(s) /\ s.queue = clock.queue /\ s.interval = clock.interval /\ HeadTime(s) = s.interval
      /\ \A i \in 1 .. Len(clock.queue) : DueAt(s, i) = DueAt(clock, i)
  BY <1>1, UpdateFacts
<1> HIDE DEF s
<1>3. /\ Good(b) /\ b.queue = s.queue /\ b.interval = 0 /\ HeadTime(b) = 0 /\ b.vm_time = DueAt(s, 1)
      /\ \A i \in 1 .. Len(s.queue) : DueAt(b, i) = DueAt(s, i)
  BY <1>2, BackUpFacts
<1>4. 1 \in 1 .. Len(clock.queue)
  BY <1>1, ClockFields
<1> QED BY <1>2, <1>3, <1>4 DEF s

\* While behind, time moves on by the first entry's wait, and so do the entries.
LEMMA AfterActionFacts ==
  ASSUME GoodInv
  PROVE  LET a == AfterAction(clock, catchup)
             d == IF Behind(catchup) THEN HeadTime(clock) ELSE 0 IN
         /\ Good(a) /\ a.queue = clock.queue /\ a.interval = clock.interval /\ HeadTime(a) = HeadTime(clock)
         /\ a.vm_time = clock.vm_time + d /\ NextCatchup(clock, catchup) \in Int
         /\ \A i \in 1 .. Len(clock.queue) : DueAt(a, i) = DueAt(clock, i) + d
<1> DEFINE a == AfterAction(clock, catchup)
<1>1. /\ Good(clock) /\ clock \in Clock /\ HeadTime(clock) \in Int /\ clock.vm_time \in Int /\ catchup \in Int
      /\ \A i \in 1 .. Len(clock.queue) : DueAt(clock, i) \in Int
  BY HeadDue, ClockFields DEF GoodInv, Good
<1>2. NextCatchup(clock, catchup) \in Int
  BY <1>1 DEF NextCatchup
<1>3. CASE Behind(catchup)
  <2>1. a = Advance(clock, HeadTime(clock))
    BY <1>3 DEF AfterAction
  <2> HIDE DEF a
  <2>2. /\ Good(a) /\ a.queue = clock.queue /\ a.time = clock.time /\ a.interval = clock.interval
        /\ a.noqueue_time = clock.noqueue_time /\ a.vm_time = clock.vm_time + HeadTime(clock)
        /\ \A i \in 1 .. Len(clock.queue) : DueAt(a, i) = DueAt(clock, i) + HeadTime(clock)
    BY <1>1, <2>1, AdvanceFacts, Zenon
  <2>3. HeadTime(a) = HeadTime(clock)
    BY <2>2 DEF HeadTime
  <2> QED BY <1>2, <1>3, <2>2, <2>3 DEF a
<1>4. CASE ~Behind(catchup)
  <2>1. a = clock
    BY <1>4 DEF AfterAction
  <2>2. clock.vm_time = clock.vm_time + 0 /\ \A i \in 1 .. Len(clock.queue) : DueAt(clock, i) = DueAt(clock, i) + 0
    BY <1>1
  <2> QED BY <1>1, <1>2, <1>4, <2>1, <2>2
<1> QED BY <1>3, <1>4

\* The loop ends with the clock as the action left it, or with time moved on.
LEMMA LoopEndsFacts ==
  ASSUME GoodInv, ActionReturnsLoopEnds
  PROVE  LET d == IF Behind(catchup) THEN HeadTime(clock) ELSE 0 IN
         /\ Good(clock') /\ clock'.queue = clock.queue /\ pc' = "run" /\ catchup' = 0
         /\ UNCHANGED <<lateness, promise, elapsed>>
         /\ \A i \in 1 .. Len(clock.queue) : DueAt(clock', i) = DueAt(clock, i) + d
         /\ ~Behind(catchup) /\ clock.interval = HeadTime(clock) => SimGtime(clock') = SimGtime(clock)
         /\ clock.interval >= 0 => clock'.interval >= 0
<1> DEFINE d == IF Behind(catchup) THEN HeadTime(clock) ELSE 0
           a == AfterAction(clock, catchup)
           r == ReloadInterval(clock)
<1>1. /\ clock' = (IF clock.queue = <<>> THEN r ELSE a) /\ pc' = "run" /\ catchup' = 0
      /\ UNCHANGED <<lateness, promise, elapsed>>
  BY DEF ActionReturnsLoopEnds, Return
<1>2. /\ Good(clock) /\ clock \in Clock /\ SimGtime(clock) = clock.vm_time + HeadTime(clock) - clock.interval
      /\ clock.vm_time \in Int /\ HeadTime(clock) \in Int /\ clock.interval \in Int
  BY HeadDue, ClockFields DEF GoodInv, Good
<1>3. CASE clock.queue = <<>>
  <2>1. /\ Good(r) /\ r.queue = clock.queue /\ r.vm_time = clock.vm_time
        /\ r.interval = HeadTime(r) /\ SimGtime(r) = clock.vm_time /\ HeadTime(r) = NOQUEUE_WAIT
    BY <1>2, <1>3, ReloadFacts
  <2>2. r.interval >= 0
    BY <2>1, NoQueueWaitAssumption
  <2>3. Len(clock.queue) = 0 /\ 1 .. 0 = {}
    BY <1>3
  <2>4. clock.interval = HeadTime(clock) => SimGtime(r) = SimGtime(clock)
    BY <1>2, <2>1
  <2> HIDE DEF r
  <2> QED BY <1>1, <1>3, <2>1, <2>2, <2>3, <2>4
<1>4. CASE clock.queue # <<>>
  <2>1. /\ Good(a) /\ a.queue = clock.queue /\ a.interval = clock.interval /\ HeadTime(a) = HeadTime(clock)
        /\ a.vm_time = clock.vm_time + d
        /\ \A i \in 1 .. Len(clock.queue) : DueAt(a, i) = DueAt(clock, i) + d
    BY AfterActionFacts
  <2>2. SimGtime(a) = a.vm_time + HeadTime(a) - a.interval
    BY <2>1, HeadDue DEF Good
  <2>3. ~Behind(catchup) => SimGtime(a) = SimGtime(clock)
    BY <1>2, <2>1, <2>2
  <2> HIDE DEF a
  <2> QED BY <1>1, <1>4, <2>1, <2>3
<1> QED BY <1>3, <1>4

-----------------------------------------------------------------------------
(* Clock order, for any waits.                                             *)

\* The scheduling calls keep the clock well formed, whatever they ask for.
LEMMA CallsGood ==
  ASSUME GoodInv, Calls
  PROVE  GoodInv'
<1>1. PICK u \in Unit : \/ \E t \in Delay : CallActivate(u, t) \/ CallActivateAbs(u, t)
                        \/ \E ahead \in Reach : CallActivateNotBefore(u, ahead)
                        \/ CallCancel(u)
  BY DEF Calls
<1>2. Good(clock) /\ clock \in Clock /\ SimGtime(clock) \in Int /\ promise \in [Unit -> Int]
  BY HeadDue, Zenon DEF GoodInv, Good
<1>3. ASSUME NEW t \in Delay, CallActivate(u, t) PROVE Good(clock') /\ promise' \in [Unit -> Int]
  <2>1. t \in Int /\ SimGtime(clock) + t \in Int
    BY <1>2, DelayAssumption
  <2>2. CASE Queued(clock, u)
    BY <1>2, <1>3, <2>2 DEF CallActivate, Activate
  <2>3. CASE ~Queued(clock, u)
    <3>1. clock' = Insert(clock, u, t) /\ promise' = [promise EXCEPT ![u] = SimGtime(clock) + t]
      BY <1>3, <2>3 DEF CallActivate, Activate, Promise
    <3>2. Placed(clock, clock', u, SimGtime(clock) + t)
      BY <1>2, <2>1, <2>3, <3>1, InsertPlaces
    <3> QED BY <1>2, <2>1, <3>1, <3>2 DEF Placed
  <2> QED BY <2>2, <2>3
<1>4. ASSUME NEW t \in Delay, CallActivateAbs(u, t) PROVE Good(clock') /\ promise' \in [Unit -> Int]
  <2>1. t \in Int /\ SimGtime(clock) + t \in Int
    BY <1>2, DelayAssumption
  <2>2. clock' = ActivateAbs(clock, u, t) /\ promise' = [promise EXCEPT ![u] = SimGtime(clock) + t]
    BY <1>4 DEF CallActivateAbs, Promise
  <2>3. Placed(clock, clock', u, SimGtime(clock) + t)
    BY <1>2, <2>1, <2>2, AbsPlaces
  <2> QED BY <1>2, <2>1, <2>2, <2>3 DEF Placed
<1>5. ASSUME NEW ahead \in Reach, CallActivateNotBefore(u, ahead)
      PROVE  Good(clock') /\ promise' \in [Unit -> Int]
  <2> DEFINE due == IF ahead < 0 THEN SimGtime(clock) ELSE SimGtime(clock) + ahead
             r == (SimGtime(clock) + ahead) % Word
  <2>1. ahead \in Int /\ due \in Int /\ r \in Int
    BY <1>2, DelayAssumption, ClockWordAssumption
  <2>2. clock' = ActivateNotBefore(clock, u, r) /\ promise' = [promise EXCEPT ![u] = due]
    BY <1>5 DEF CallActivateNotBefore, Promise
  <2> HIDE DEF due, r
  <2>3. Good(clock')
    BY <1>2, <2>1, <2>2, NotBeforeGood
  <2> QED BY <1>2, <2>1, <2>2, <2>3
<1>6. ASSUME CallCancel(u) PROVE Good(clock') /\ promise' \in [Unit -> Int]
  <2>1. clock' = Cancel(clock, u) /\ promise' = [promise EXCEPT ![u] = 0]
    BY <1>6 DEF CallCancel, Promise
  <2>2. Removed(clock, clock', u)
    BY <1>2, <2>1, CancelRemoves
  <2> QED BY <1>2, <2>1, <2>2 DEF Removed
<1>7. UNCHANGED <<catchup, elapsed, lateness>>
  BY <1>1 DEF CallActivate, CallActivateAbs, CallActivateNotBefore, CallCancel, Call
<1>8. Good(clock') /\ promise' \in [Unit -> Int]
  BY <1>1, <1>3, <1>4, <1>5, <1>6
<1> QED BY <1>7, <1>8 DEF GoodInv

\* Every step keeps the clock well formed.
LEMMA GoodStep ==
  ASSUME GoodInv, [Next]_vars
  PROVE  GoodInv'
<1> USE DEF GoodInv
<1>1. CASE Calls
  BY <1>1, CallsGood
<1>2. ASSUME NEW n \in Cost, Execute(n) PROVE GoodInv'
  <2>1. elapsed' = elapsed + n /\ n \in Int /\ UNCHANGED <<catchup, promise, lateness>>
    BY <1>2, CostAssumption DEF Execute
  <2>2. Good(clock')
    BY <1>2, ExecuteFacts
  <2> QED BY <2>1, <2>2
<1>3. CASE RequestStop
  BY <1>3 DEF RequestStop
<1>4. CASE ProcessStopped
  BY <1>4 DEF ProcessStopped
<1>5. CASE ProcessNothingDue
  <2>1. Good(clock')
    BY <1>5, NothingDueFacts
  <2>2. UNCHANGED <<catchup, elapsed, promise, lateness>>
    BY <1>5 DEF ProcessNothingDue, Return
  <2> QED BY <2>1, <2>2
<1>6. CASE ProcessDue
  <2> DEFINE b == BackUp(UpdateSimTime(clock))
             k == FirstCatchup(clock)
  <2>1. clock.queue # <<>> /\ clock.interval <= 0 /\ Dispatch(b, k) /\ elapsed' = elapsed
    BY <1>6 DEF ProcessDue
  <2>2. Good(b) /\ b.queue = clock.queue
    BY <2>1, BackedUpFacts
  <2>3. k \in Int
    BY ClockFields DEF FirstCatchup, Good
  <2> HIDE DEF b, k
  <2>4. Good(clock') /\ promise' \in [Unit -> Int] /\ lateness' \in Int /\ catchup' = k
    BY <2>1, <2>2, <2>3, DispatchFacts
  <2> QED BY <2>1, <2>3, <2>4
<1>7. CASE ActionReturnsMoreDue
  <2> DEFINE a == AfterAction(clock, catchup)
             k == NextCatchup(clock, catchup)
  <2>1. a.queue # <<>> /\ Dispatch(a, k) /\ elapsed' = elapsed
    BY <1>7 DEF ActionReturnsMoreDue, MoreDue, StillDue
  <2>2. Good(a) /\ k \in Int
    BY AfterActionFacts
  <2> HIDE DEF a, k
  <2>3. Good(clock') /\ promise' \in [Unit -> Int] /\ lateness' \in Int /\ catchup' = k
    BY <2>1, <2>2, DispatchFacts
  <2> QED BY <2>1, <2>2, <2>3
<1>8. CASE ActionReturnsLoopEnds
  <2>1. Good(clock') /\ catchup' = 0 /\ UNCHANGED <<lateness, promise, elapsed>>
    BY <1>8, LoopEndsFacts
  <2> QED BY <2>1
<1>9. CASE ActionReturnsQueueEnd
  BY <1>9 DEF ActionReturnsQueueEnd
<1>10. CASE UNCHANGED vars
  BY <1>10 DEF vars
<1> QED BY <1>1, <1>2, <1>3, <1>4, <1>5, <1>6, <1>7, <1>8, <1>9, <1>10 DEF Next, Process

\* The event queue is always well formed.
THEOREM GoodInvariant == Spec => []GoodInv
<1>1. Init => GoodInv
  BY ResetFacts DEF Init, GoodInv
<1>2. GoodInv /\ [Next]_vars => GoodInv'
  BY GoodStep
<1> QED BY <1>1, <1>2, PTL DEF Spec

\* The event queue stays in clock order, whatever waits the units ask for and however far the
\* instructions overrun the interval: only the first entry can be overdue.
THEOREM QueueIsInClockOrder == Spec => []ClockOrder
<1>1. GoodInv => ClockOrder
  BY DEF GoodInv, Good, ClockOrder
<1> QED BY <1>1, GoodInvariant, PTL

-----------------------------------------------------------------------------
(* No action is early.                                                     *)

\* The first entry is dispatched at the time it was due; the others stay due when they were.
Dispatched ==
  /\ clock.queue # <<>> /\ Len(clock'.queue) = Len(clock.queue) - 1 /\ pc' = "action" /\ elapsed' = elapsed
  /\ clock'.interval = HeadTime(clock') /\ clock'.interval >= 0 /\ SimGtime(clock') = DueAt(clock, 1)
  /\ lateness' = DueAt(clock, 1) - promise[clock.queue[1]]
  /\ \A i \in 1 .. Len(clock.queue) - 1 :
       /\ clock'.queue[i] = clock.queue[i + 1] /\ DueAt(clock', i) = DueAt(clock, i + 1)
       /\ promise'[clock'.queue[i]] = promise[clock.queue[i + 1]]

\* sim_process_event finds the first entry due.
LEMMA ProcessDueDispatches ==
  ASSUME GoodInv, ProcessDue
  PROVE  Dispatched /\ catchup' <= 0 /\ (clock.interval >= 0 => catchup' = 0)
<1> DEFINE b == BackUp(UpdateSimTime(clock))
           k == FirstCatchup(clock)
           N == Len(clock.queue)
<1>1. clock.queue # <<>> /\ clock.interval <= 0 /\ Dispatch(b, k) /\ elapsed' = elapsed
  BY DEF ProcessDue
<1>2. /\ Good(b) /\ b.queue = clock.queue /\ b.interval = 0 /\ HeadTime(b) = 0 /\ b.vm_time = DueAt(clock, 1)
      /\ \A i \in 1 .. N : DueAt(b, i) = DueAt(clock, i)
  BY <1>1, BackedUpFacts
<1>3. clock.interval \in Int /\ N \in Nat /\ N >= 1 /\ \A i \in 1 .. N : DueAt(clock, i) \in Int
  BY <1>1, ClockFields, HeadDue DEF GoodInv, Good
<1>4. k \in Int /\ k <= 0 /\ (k < 0 \/ 0 + k = 0) /\ (clock.interval >= 0 => k = 0)
  BY <1>3 DEF FirstCatchup
<1> HIDE DEF b, k
<1>5. /\ pc' = "action" /\ catchup' = k /\ Len(clock'.queue) = N - 1
      /\ \A i \in 1 .. N - 1 :
              /\ clock'.queue[i] = clock.queue[i + 1]
              /\ promise'[clock'.queue[i]] = promise[clock.queue[i + 1]]
              /\ DueAt(clock', i) = DueAt(b, i + 1) - 0
      /\ clock'.interval = HeadTime(clock') /\ clock'.interval >= 0 /\ SimGtime(clock') = DueAt(clock, 1)
      /\ lateness' = DueAt(clock, 1) - promise[clock.queue[1]]
  BY <1>1, <1>2, <1>4, DispatchFacts
<1>6. ASSUME NEW i \in 1 .. N - 1 PROVE DueAt(clock', i) = DueAt(clock, i + 1)
  <2>1. i + 1 \in 1 .. N
    BY <1>3
  <2>2. DueAt(b, i + 1) = DueAt(clock, i + 1) /\ DueAt(clock, i + 1) \in Int
    BY <1>2, <1>3, <2>1
  <2> QED BY <1>5, <2>2
<1> QED BY <1>1, <1>4, <1>5, <1>6 DEF Dispatched

\* The loop finds another entry due.
LEMMA MoreDueDispatches ==
  ASSUME GoodInv, ActionReturnsMoreDue, catchup <= 0, clock.interval = HeadTime(clock), clock.interval >= 0
  PROVE  Dispatched /\ catchup' <= 0 /\ (~Behind(catchup) => catchup' = 0 /\ clock.interval = 0)
<1> DEFINE a == AfterAction(clock, catchup)
           k == NextCatchup(clock, catchup)
           d == IF Behind(catchup) THEN HeadTime(clock) ELSE 0
           N == Len(clock.queue)
<1>1. a.queue # <<>> /\ a.interval + k <= 0 /\ Dispatch(a, k) /\ elapsed' = elapsed
  BY DEF ActionReturnsMoreDue, MoreDue, StillDue
<1>2. /\ Good(a) /\ a.queue = clock.queue /\ a.interval = clock.interval /\ HeadTime(a) = HeadTime(clock)
      /\ a.vm_time = clock.vm_time + d /\ k \in Int
      /\ \A i \in 1 .. N : DueAt(a, i) = DueAt(clock, i) + d
  BY AfterActionFacts
<1>3. ~Behind(catchup) => k = 0
  BY DEF NextCatchup
<1> HIDE DEF a, k
<1>4. /\ clock \in Clock /\ clock.interval \in Int /\ N \in Nat /\ N >= 1
      /\ clock.vm_time \in Int /\ DueAt(clock, 1) = clock.vm_time + HeadTime(clock)
      /\ \A i \in 1 .. N : DueAt(clock, i) \in Int
  BY <1>1, <1>2, ClockFields, HeadDue DEF GoodInv, Good
<1>5. k <= 0 /\ (k < 0 \/ a.interval + k = 0) /\ (~Behind(catchup) => k = 0 /\ clock.interval = 0)
  BY <1>1, <1>2, <1>3, <1>4
<1>6. d = clock.interval
  BY <1>5
<1> HIDE DEF d
<1>7. /\ pc' = "action" /\ catchup' = k /\ Len(clock'.queue) = N - 1
      /\ \A i \in 1 .. N - 1 :
              /\ clock'.queue[i] = clock.queue[i + 1]
              /\ promise'[clock'.queue[i]] = promise[clock.queue[i + 1]]
              /\ DueAt(clock', i) = DueAt(a, i + 1) - HeadTime(clock)
      /\ clock'.interval = HeadTime(clock') /\ clock'.interval >= 0 /\ SimGtime(clock') = a.vm_time
      /\ lateness' = a.vm_time - promise[clock.queue[1]]
  BY <1>1, <1>2, <1>5, DispatchFacts
<1>8. a.vm_time = DueAt(clock, 1)
  BY <1>2, <1>4, <1>6
<1>9. ASSUME NEW i \in 1 .. N - 1 PROVE DueAt(clock', i) = DueAt(clock, i + 1)
  <2>1. i + 1 \in 1 .. N
    BY <1>4
  <2>2. DueAt(a, i + 1) = DueAt(clock, i + 1) + d /\ DueAt(clock, i + 1) \in Int
    BY <1>2, <1>4, <2>1
  <2>3. DueAt(clock', i) = DueAt(a, i + 1) - d
    BY <1>6, <1>7
  <2> QED BY <1>4, <1>6, <2>2, <2>3
<1> QED BY <1>1, <1>2, <1>5, <1>7, <1>8, <1>9 DEF Dispatched

\* What a dispatch leaves is promised no later than it is due.
LEMMA DispatchedLate ==
  ASSUME LateInv, Dispatched, GoodInv', catchup' <= 0
  PROVE  LateInv'
<1>1. /\ clock.queue # <<>> /\ clock \in Clock /\ clock' \in Clock /\ promise \in [Unit -> Int]
      /\ \A i \in 1 .. Len(clock.queue) : promise[clock.queue[i]] <= DueAt(clock, i)
  BY DEF LateInv, GoodInv, Good, Dispatched
<1>2. /\ Len(clock.queue) \in Nat /\ Len(clock.queue) >= 1
      /\ \A i \in 1 .. Len(clock.queue) : DueAt(clock, i) \in Int /\ promise[clock.queue[i]] \in Int
  BY <1>1, ClockFields, HeadDue
<1>3. lateness' >= 0
  <2>1. 1 \in 1 .. Len(clock.queue)
    BY <1>2
  <2>2. DueAt(clock, 1) \in Int /\ promise[clock.queue[1]] \in Int /\ promise[clock.queue[1]] <= DueAt(clock, 1)
    BY <1>1, <1>2, <2>1
  <2>3. lateness' = DueAt(clock, 1) - promise[clock.queue[1]]
    BY DEF Dispatched
  <2> QED BY <2>2, <2>3
<1>4. ASSUME NEW i \in 1 .. Len(clock'.queue) PROVE promise'[clock'.queue[i]] <= DueAt(clock', i)
  <2>1. i \in 1 .. Len(clock.queue) - 1 /\ i + 1 \in 1 .. Len(clock.queue)
    BY <1>2 DEF Dispatched
  <2>2. DueAt(clock', i) = DueAt(clock, i + 1) /\ promise'[clock'.queue[i]] = promise[clock.queue[i + 1]]
    BY <2>1 DEF Dispatched
  <2> QED BY <1>1, <2>1, <2>2
<1>5. pc' = "action" => clock'.interval = HeadTime(clock') /\ clock'.interval >= 0
  BY DEF Dispatched
<1> QED BY <1>3, <1>4, <1>5 DEF LateInv

\* Every step keeps the promises.
LEMMA LateStep ==
  ASSUME LateInv, Waits, [Next]_vars
  PROVE  LateInv'
<1>1. GoodInv /\ GoodInv'
  BY GoodStep DEF LateInv
<1>2. /\ clock \in Clock /\ clock.interval \in Int /\ promise \in [Unit -> Int] /\ Len(clock.queue) \in Nat
      /\ \A i \in 1 .. Len(clock.queue) : DueAt(clock, i) \in Int /\ promise[clock.queue[i]] \in Int
  BY <1>1, ClockFields, HeadDue DEF GoodInv, Good
<1>3. /\ catchup <= 0 /\ lateness >= 0 /\ catchup \in Int
      /\ pc = "action" => clock.interval = HeadTime(clock) /\ clock.interval >= 0
      /\ \A i \in 1 .. Len(clock.queue) : promise[clock.queue[i]] <= DueAt(clock, i)
  BY DEF LateInv, GoodInv
<1>4. CASE Calls
  <2>1. CallKeeps /\ UNCHANGED <<pc, catchup, elapsed, lateness>>
    BY <1>1, <1>4, CallsKeep
  <2>2. ASSUME NEW i \in 1 .. Len(clock'.queue) PROVE promise'[clock'.queue[i]] <= DueAt(clock', i)
    <3>1. DueAt(clock', i) \in Int
      BY <1>1, HeadDue DEF GoodInv, Good
    <3>2. Served(i)
      BY <2>1 DEF CallKeeps
    <3> QED BY <1>3, <3>1, <3>2 DEF Served
  <2>3. pc' = "action" => clock'.interval = HeadTime(clock') /\ clock'.interval >= 0
    BY <1>3, <2>1 DEF CallKeeps
  <2> QED BY <1>1, <1>3, <2>1, <2>2, <2>3 DEF LateInv
<1>5. ASSUME NEW n \in Cost, Execute(n) PROVE LateInv'
  <2>1. pc' = "run" /\ UNCHANGED <<catchup, promise, lateness>>
    BY <1>5 DEF Execute
  <2>2. clock'.queue = clock.queue /\ \A i \in 1 .. Len(clock.queue) : DueAt(clock', i) = DueAt(clock, i)
    BY <1>1, <1>5, ExecuteFacts
  <2> QED BY <1>1, <1>3, <2>1, <2>2 DEF LateInv
<1>6. CASE RequestStop \/ ProcessStopped \/ UNCHANGED vars
  <2>1. UNCHANGED <<clock, pc, catchup, promise, lateness, elapsed>>
    BY <1>6 DEF RequestStop, ProcessStopped, vars
  <2> QED BY <1>1, <1>3, <2>1 DEF LateInv
<1>7. CASE ProcessNothingDue
  <2>1. pc' = "run" /\ UNCHANGED <<catchup, promise, lateness>>
    BY <1>7 DEF ProcessNothingDue, Return
  <2>2. clock'.queue = clock.queue /\ \A i \in 1 .. Len(clock.queue) : DueAt(clock', i) = DueAt(clock, i)
    BY <1>1, <1>7, NothingDueFacts
  <2> QED BY <1>1, <1>3, <2>1, <2>2 DEF LateInv
<1>8. CASE ProcessDue
  BY <1>1, <1>8, ProcessDueDispatches, DispatchedLate
<1>9. CASE ActionReturnsMoreDue
  <2>1. pc = "action"
    BY <1>9 DEF ActionReturnsMoreDue
  <2> QED BY <1>1, <1>3, <1>9, <2>1, MoreDueDispatches, DispatchedLate
<1>10. CASE ActionReturnsLoopEnds
  <2> DEFINE d == IF Behind(catchup) THEN HeadTime(clock) ELSE 0
  <2>1. pc = "action"
    BY <1>10 DEF ActionReturnsLoopEnds
  <2>2. d \in Int /\ d >= 0
    BY <1>2, <1>3, <2>1
  <2>3. /\ clock'.queue = clock.queue /\ pc' = "run" /\ catchup' = 0 /\ UNCHANGED <<lateness, promise>>
        /\ \A i \in 1 .. Len(clock.queue) : DueAt(clock', i) = DueAt(clock, i) + d
    BY <1>1, <1>10, LoopEndsFacts
  <2> HIDE DEF d
  <2>4. ASSUME NEW i \in 1 .. Len(clock.queue) PROVE promise[clock.queue[i]] <= DueAt(clock', i)
    BY <1>2, <1>3, <2>2, <2>3
  <2> QED BY <1>1, <1>3, <2>3, <2>4 DEF LateInv
<1>11. CASE ActionReturnsQueueEnd
  <2>1. pc' = "fault" /\ UNCHANGED <<clock, catchup, promise, lateness>>
    BY <1>11 DEF ActionReturnsQueueEnd
  <2> QED BY <1>1, <1>3, <2>1 DEF LateInv
<1> QED BY <1>4, <1>5, <1>6, <1>7, <1>8, <1>9, <1>10, <1>11 DEF Next, Process

\* No action runs before the simulated time its unit was promised, however far the instructions
\* overrun the interval and however the units are inserted, cancelled and moved.
THEOREM ActionsAreNeverEarly == ASSUME Waits PROVE Spec => []NeverEarly
<1>1. Init => LateInv
  BY ResetFacts DEF Init, GoodInv, LateInv
<1>2. LateInv /\ [Next]_vars => LateInv'
  BY LateStep
<1>3. LateInv => NeverEarly
  BY DEF LateInv, NeverEarly
<1> QED BY <1>1, <1>2, <1>3, PTL DEF Spec

-----------------------------------------------------------------------------
(* Exact time, for instructions of cost 1.                                 *)

\* What a dispatch leaves is promised exactly when it is due.
LEMMA DispatchedExact ==
  ASSUME ExactInv, Dispatched, GoodInv', catchup' = 0, SimGtime(clock) = DueAt(clock, 1)
  PROVE  ExactInv'
<1>1. /\ clock.queue # <<>> /\ clock \in Clock /\ clock' \in Clock /\ promise \in [Unit -> Int]
      /\ \A i \in 1 .. Len(clock.queue) : promise[clock.queue[i]] = DueAt(clock, i)
  BY DEF ExactInv, GoodInv, Good, Dispatched
<1>2. /\ Len(clock.queue) \in Nat /\ Len(clock.queue) >= 1
      /\ \A i \in 1 .. Len(clock.queue) : DueAt(clock, i) \in Int /\ promise[clock.queue[i]] \in Int
  BY <1>1, ClockFields, HeadDue
<1>3. lateness' = 0
  <2>1. 1 \in 1 .. Len(clock.queue)
    BY <1>2
  <2>2. DueAt(clock, 1) \in Int /\ promise[clock.queue[1]] = DueAt(clock, 1)
    BY <1>1, <1>2, <2>1
  <2>3. lateness' = DueAt(clock, 1) - promise[clock.queue[1]]
    BY DEF Dispatched
  <2> QED BY <2>2, <2>3
<1>4. ASSUME NEW i \in 1 .. Len(clock'.queue) PROVE promise'[clock'.queue[i]] = DueAt(clock', i)
  <2>1. i \in 1 .. Len(clock.queue) - 1 /\ i + 1 \in 1 .. Len(clock.queue)
    BY <1>2 DEF Dispatched
  <2>2. DueAt(clock', i) = DueAt(clock, i + 1) /\ promise'[clock'.queue[i]] = promise[clock.queue[i + 1]]
    BY <2>1 DEF Dispatched
  <2> QED BY <1>1, <2>1, <2>2
<1>5. /\ clock'.interval = HeadTime(clock') /\ clock'.interval >= 0
      /\ SimGtime(clock') = SimGtime(clock) /\ elapsed' = elapsed
  BY DEF Dispatched
<1> QED BY <1>3, <1>4, <1>5, Zenon DEF ExactInv

\* The dispatches happen when the first entry is due, neither before nor after.
LEMMA DispatchesExact ==
  ASSUME ExactInv, ProcessDue \/ ActionReturnsMoreDue
  PROVE  Dispatched /\ catchup' = 0 /\ SimGtime(clock) = DueAt(clock, 1)
<1>1. /\ GoodInv /\ clock \in Clock /\ clock.interval \in Int /\ clock.interval >= 0 /\ catchup = 0
      /\ clock.vm_time \in Int /\ HeadTime(clock) \in Int
      /\ SimGtime(clock) = clock.vm_time + HeadTime(clock) - clock.interval
      /\ clock.queue # <<>> => DueAt(clock, 1) = clock.vm_time + HeadTime(clock)
  BY ClockFields, HeadDue DEF ExactInv, GoodInv, Good
<1>2. ~Behind(catchup)
  BY <1>1 DEF Behind
<1>3. Dispatched /\ catchup' = 0 /\ clock.interval = 0
  <2>1. CASE ProcessDue
    <3>1. clock.interval <= 0
      BY <2>1 DEF ProcessDue
    <3> QED BY <1>1, <2>1, <3>1, ProcessDueDispatches
  <2>2. CASE ActionReturnsMoreDue
    <3>1. clock.interval = HeadTime(clock) /\ catchup <= 0
      BY <1>1, <2>2 DEF ActionReturnsMoreDue, ExactInv
    <3> QED BY <1>1, <1>2, <2>2, <3>1, MoreDueDispatches
  <2> QED BY <2>1, <2>2
<1>4. clock.queue # <<>>
  BY <1>3 DEF Dispatched
<1> QED BY <1>1, <1>3, <1>4

\* Every step keeps simulated time and the promises exact.
LEMMA ExactStep ==
  ASSUME ExactInv, Waits, Cost = {1}, [Next]_vars
  PROVE  ExactInv'
<1>1. GoodInv /\ GoodInv'
  BY GoodStep DEF ExactInv
<1>2. /\ clock \in Clock /\ clock.interval \in Int /\ Len(clock.queue) \in Nat
      /\ \A i \in 1 .. Len(clock.queue) : DueAt(clock, i) \in Int
  BY <1>1, ClockFields, HeadDue DEF GoodInv, Good
<1>3. /\ catchup = 0 /\ lateness = 0 /\ clock.interval >= 0 /\ SimGtime(clock) = elapsed
      /\ pc = "action" => clock.interval = HeadTime(clock)
      /\ \A i \in 1 .. Len(clock.queue) : promise[clock.queue[i]] = DueAt(clock, i)
  BY DEF ExactInv
<1>4. CASE Calls
  <2>1. CallKeeps /\ UNCHANGED <<pc, catchup, elapsed, lateness>>
    BY <1>1, <1>4, CallsKeep
  <2>2. ASSUME NEW i \in 1 .. Len(clock'.queue) PROVE promise'[clock'.queue[i]] = DueAt(clock', i)
    <3>1. Served(i)
      BY <2>1 DEF CallKeeps
    <3> QED BY <1>3, <3>1 DEF Served
  <2>3. /\ clock'.interval >= 0 /\ SimGtime(clock') = SimGtime(clock)
        /\ pc' = "action" => clock'.interval = HeadTime(clock')
    BY <1>3, <2>1 DEF CallKeeps
  <2> QED BY <1>1, <1>3, <2>1, <2>2, <2>3 DEF ExactInv
<1>5. ASSUME NEW n \in Cost, Execute(n) PROVE ExactInv'
  <2>1. pc' = "run" /\ UNCHANGED <<catchup, promise, lateness>> /\ elapsed' = elapsed + 1 /\ clock.interval > 0
        /\ n = 1
    BY <1>5 DEF Execute
  <2>2. /\ clock'.queue = clock.queue /\ clock'.interval = clock.interval - 1
        /\ SimGtime(clock') = SimGtime(clock) + 1
        /\ \A i \in 1 .. Len(clock.queue) : DueAt(clock', i) = DueAt(clock, i)
    BY <1>1, <1>5, <2>1, ExecuteFacts
  <2>3. clock'.interval >= 0
    BY <1>2, <2>1, <2>2
  <2> QED BY <1>1, <1>3, <2>1, <2>2, <2>3 DEF ExactInv
<1>6. CASE RequestStop \/ ProcessStopped \/ UNCHANGED vars
  <2>1. UNCHANGED <<clock, pc, catchup, promise, lateness, elapsed>>
    BY <1>6 DEF RequestStop, ProcessStopped, vars
  <2> QED BY <1>1, <1>3, <2>1 DEF ExactInv
<1>7. CASE ProcessNothingDue
  <2>1. pc' = "run" /\ UNCHANGED <<catchup, promise, lateness, elapsed>>
    BY <1>7 DEF ProcessNothingDue, Return
  <2>2. /\ clock'.queue = clock.queue /\ clock'.interval >= 0 /\ SimGtime(clock') = SimGtime(clock)
        /\ \A i \in 1 .. Len(clock.queue) : DueAt(clock', i) = DueAt(clock, i)
    BY <1>1, <1>7, NothingDueFacts
  <2> QED BY <1>1, <1>3, <2>1, <2>2 DEF ExactInv
<1>8. CASE ProcessDue \/ ActionReturnsMoreDue
  BY <1>1, <1>8, DispatchesExact, DispatchedExact
<1>9. CASE ActionReturnsLoopEnds
  <2>1. pc = "action" /\ ~Behind(catchup)
    BY <1>3, <1>9 DEF ActionReturnsLoopEnds, Behind
  <2>2. /\ clock'.queue = clock.queue /\ pc' = "run" /\ catchup' = 0 /\ UNCHANGED <<lateness, promise, elapsed>>
        /\ \A i \in 1 .. Len(clock.queue) : DueAt(clock', i) = DueAt(clock, i) + 0
        /\ SimGtime(clock') = SimGtime(clock) /\ clock'.interval >= 0
    BY <1>1, <1>3, <1>9, <2>1, LoopEndsFacts
  <2>3. \A i \in 1 .. Len(clock.queue) : DueAt(clock', i) = DueAt(clock, i)
    BY <1>2, <2>2
  <2> QED BY <1>1, <1>3, <2>2, <2>3 DEF ExactInv
<1>10. CASE ActionReturnsQueueEnd
  <2>1. Behind(catchup)
    BY <1>10 DEF ActionReturnsQueueEnd
  <2> QED BY <1>3, <2>1 DEF Behind
<1> QED BY <1>4, <1>5, <1>6, <1>7, <1>8, <1>9, <1>10 DEF Next, Process

\* A CPU that counts 1 per instruction never overruns the interval, and time stays exact.
THEOREM ExactInvariant == ASSUME Waits, Cost = {1} PROVE Spec => []ExactInv
<1>1. Init => ExactInv
  BY ResetFacts DEF Init, GoodInv, ExactInv
<1>2. ExactInv /\ [Next]_vars => ExactInv'
  BY ExactStep
<1> QED BY <1>1, <1>2, PTL DEF Spec

\* sim_gtime is then the time the CPU has counted down, whatever was scheduled, cancelled and
\* dispatched in between.
THEOREM SimulatedTimeIsElapsed == ASSUME Waits, Cost = {1} PROVE Spec => []ClockIsElapsed
<1>1. ExactInv => ClockIsElapsed
  BY DEF ExactInv, ClockIsElapsed
<1> QED BY <1>1, ExactInvariant, PTL

\* Every action then runs exactly when the call that scheduled its unit promised, whether
\* sim_rtime has wrapped around or not.
THEOREM ActionsAreOnTime == ASSUME Waits, Cost = {1} PROVE Spec => []OnTime
<1>1. ExactInv => OnTime
  BY DEF ExactInv, OnTime
<1> QED BY <1>1, ExactInvariant, PTL

-----------------------------------------------------------------------------
(* The delta queue implements the agenda.                                  *)

\* The agenda a clock stands for.
Ag(c) == [i \in DOMAIN c.queue |-> [unit |-> c.queue[i], due |-> c.vm_time + Accum(c, i)]]

\* The entries of the agenda.
LEMMA AgFacts ==
  ASSUME NEW c, Good(c)
  PROVE  LET N == Len(c.queue) IN
         /\ N \in Nat /\ DOMAIN Ag(c) = 1 .. N /\ Len(Ag(c)) = N /\ Ag(c) \in Seq([unit : Unit, due : Int])
         /\ \A i \in 1 .. N : Ag(c)[i] = [unit |-> c.queue[i], due |-> DueAt(c, i)]
         /\ \A i \in 1 .. N : Ag(c)[i].unit = c.queue[i] /\ Ag(c)[i].due = DueAt(c, i)
         /\ \A i \in 1 .. N : c.queue[i] \in Unit /\ DueAt(c, i) \in Int
         /\ Ag(c) # <<>> <=> c.queue # <<>>
<1> DEFINE N == Len(c.queue)
<1>1. /\ c \in Clock /\ N \in Nat /\ DOMAIN c.queue = 1 .. N
      /\ \A i \in 1 .. N : c.queue[i] \in Unit /\ DueAt(c, i) \in Int
      /\ c.queue # <<>> <=> N >= 1
  BY ClockFields, HeadDue DEF Good
<1>2. Ag(c) = [i \in 1 .. N |-> [unit |-> c.queue[i], due |-> DueAt(c, i)]]
  BY <1>1 DEF Ag, DueAt
<1>3. \A i \in 1 .. N : [unit |-> c.queue[i], due |-> DueAt(c, i)] \in [unit : Unit, due : Int]
  BY <1>1
<1>4. Ag(c) \in [1 .. N -> [unit : Unit, due : Int]]
  BY <1>2, <1>3
<1>5. Ag(c) \in Seq([unit : Unit, due : Int]) /\ Len(Ag(c)) = N
  <2> DEFINE T == [unit : Unit, due : Int]
  <2>1. Ag(c) \in [1 .. N -> T]
    BY <1>4
  <2> HIDE DEF T
  <2>2. Ag(c) \in Seq(T) /\ Len(Ag(c)) = N
    BY <1>1, <2>1
  <2> QED BY <2>2 DEF T
<1>6. Ag(c) # <<>> <=> N >= 1
  BY <1>1, <1>5
<1>7. \A i \in 1 .. N : Ag(c)[i].unit = c.queue[i] /\ Ag(c)[i].due = DueAt(c, i)
  BY <1>2
<1> QED BY <1>1, <1>2, <1>5, <1>6, <1>7

\* Two clocks with the same entries stand for the same agenda.
LEMMA AgSame ==
  ASSUME NEW c, NEW d, Good(c), Good(d), d.queue = c.queue,
         \A i \in 1 .. Len(c.queue) : DueAt(d, i) = DueAt(c, i)
  PROVE  Ag(d) = Ag(c)
<1>1. /\ DOMAIN c.queue = 1 .. Len(c.queue)
      /\ \A i \in 1 .. Len(c.queue) : d.vm_time + Accum(d, i) = c.vm_time + Accum(c, i)
  BY ClockFields DEF Good, DueAt
<1> QED BY <1>1 DEF Ag

\* Insertion puts an entry on the agenda behind those that are due no later.
LEMMA AgInsert ==
  ASSUME NEW c, Good(c), NEW u \in Unit, ~Queued(c, u), NEW t \in Int
  PROVE  LET due == SimGtime(c) + t IN
         \E n \in 0 .. Len(Ag(c)) :
            /\ \A i \in 1 .. Len(Ag(c)) : Ag(c)[i].due <= due <=> i <= n
            /\ Ag(Insert(c, u, t)) = Agenda!With(Ag(c), n, [unit |-> u, due |-> due])
<1> DEFINE r == Insert(c, u, t)
           N == Len(c.queue)
           due == SimGtime(c) + t
           e == [unit |-> u, due |-> due]
<1>1. /\ N \in Nat /\ Len(Ag(c)) = N
      /\ \A i \in 1 .. N : Ag(c)[i] = [unit |-> c.queue[i], due |-> DueAt(c, i)]
      /\ \A i \in 1 .. N : DueAt(c, i) \in Int /\ Ag(c)[i].due = DueAt(c, i)
  BY AgFacts
<1>2. Good(r)
  BY InsertFacts
<1>3. PICK n \in 0 .. N :
              /\ r.queue = LinkAfter(c.queue, n, u) /\ DueAt(r, n + 1) = due
              /\ \A i \in 1 .. n : DueAt(r, i) = DueAt(c, i) /\ DueAt(c, i) <= due
              /\ \A i \in n + 1 .. N : DueAt(r, i + 1) = DueAt(c, i)
              /\ n < N => due < DueAt(c, n + 1)
  BY InsertFacts, Zenon
<1> HIDE DEF r
<1>4. r.queue = [i \in 1 .. N + 1 |-> IF i <= n THEN c.queue[i] ELSE IF i = n + 1 THEN u ELSE c.queue[i - 1]]
  BY <1>3 DEF LinkAfter
<1>5. due \in Int
  BY HeadDue DEF Good
<1>6. ASSUME NEW i \in 1 .. N PROVE Ag(c)[i].due <= due <=> i <= n
  <2>1. Ag(c)[i].due = DueAt(c, i) /\ DueAt(c, i) \in Int
    BY <1>1
  <2>2. CASE i <= n
    <3>1. i \in 1 .. n
      BY <2>2
    <3> QED BY <1>3, <2>1, <2>2, <3>1
  <2>3. CASE ~(i <= n)
    <3>1. n < N /\ n + 1 \in 1 .. N /\ i \in n + 1 .. N
      BY <1>1, <2>3
    <3>2. DueAt(c, n + 1) <= DueAt(c, i) /\ due < DueAt(c, n + 1) /\ DueAt(c, n + 1) \in Int
      BY <1>1, <1>3, <3>1, DueOrder
    <3>3. ~(DueAt(c, i) <= due)
      BY <1>5, <2>1, <3>2
    <3> QED BY <2>1, <2>3, <3>3
  <2> QED BY <2>2, <2>3
<1>7. Ag(r) = Agenda!With(Ag(c), n, e)
  <2>1. DOMAIN r.queue = 1 .. N + 1
    BY <1>4
  <2>2. Ag(r) = [i \in 1 .. N + 1 |-> [unit |-> r.queue[i], due |-> DueAt(r, i)]]
    BY <2>1 DEF Ag, DueAt
  <2>3. Agenda!With(Ag(c), n, e)
          = [i \in 1 .. N + 1 |-> IF i <= n THEN Ag(c)[i] ELSE IF i = n + 1 THEN e ELSE Ag(c)[i - 1]]
    BY <1>1, Zenon DEF Agenda!With
  <2>4. ASSUME NEW i \in 1 .. N + 1
        PROVE  [unit |-> r.queue[i], due |-> DueAt(r, i)]
                 = IF i <= n THEN Ag(c)[i] ELSE IF i = n + 1 THEN e ELSE Ag(c)[i - 1]
    <3>1. CASE i <= n
      <4>1. i \in 1 .. n /\ i \in 1 .. N
        BY <1>1, <3>1
      <4>2. r.queue[i] = c.queue[i] /\ DueAt(r, i) = DueAt(c, i)
        BY <1>3, <1>4, <3>1, <4>1
      <4> QED BY <1>1, <3>1, <4>1, <4>2
    <3>2. CASE i = n + 1
      <4>1. ~(i <= n)
        BY <3>2
      <4>2. r.queue[i] = u /\ DueAt(r, i) = due
        BY <1>3, <1>4, <3>2, <4>1
      <4> QED BY <3>2, <4>1, <4>2
    <3>3. CASE ~(i <= n) /\ i # n + 1
      <4>1. i - 1 \in n + 1 .. N /\ i - 1 \in 1 .. N /\ (i - 1) + 1 = i
        BY <1>1, <3>3
      <4>2. r.queue[i] = c.queue[i - 1]
        BY <1>4, <3>3
      <4>3. DueAt(r, i) = DueAt(c, i - 1)
        BY <1>3, <4>1
      <4> QED BY <1>1, <3>3, <4>1, <4>2, <4>3
    <3> QED BY <3>1, <3>2, <3>3, Zenon
  <2> QED BY <2>2, <2>3, <2>4, Zenon
<1> QED BY <1>1, <1>3, <1>6, <1>7 DEF r

\* Cancelling takes the unit's entry off the agenda.
LEMMA AgCancel ==
  ASSUME NEW c, Good(c), NEW u \in Unit
  PROVE  Ag(Cancel(c, u)) = Agenda!Without(Ag(c), u)
<1> DEFINE r == Cancel(c, u)
           N == Len(c.queue)
<1>1. /\ N \in Nat /\ Len(Ag(c)) = N /\ DOMAIN Ag(c) = 1 .. N
      /\ \A i \in 1 .. N : Ag(c)[i] = [unit |-> c.queue[i], due |-> DueAt(c, i)]
  BY AgFacts
<1>2. DOMAIN c.queue = 1 .. N
  BY ClockFields DEF Good
<1>3. \A i \in 1 .. N : Ag(c)[i].unit = c.queue[i]
  BY AgFacts
<1>4. CASE ~Queued(c, u)
  <2>1. ~\E i \in DOMAIN Ag(c) : Ag(c)[i].unit = u
    BY <1>1, <1>2, <1>3, <1>4 DEF Queued
  <2>2. r = c
    BY <1>4 DEF Cancel
  <2> QED BY <2>1, <2>2 DEF Agenda!Without
<1>5. CASE Queued(c, u)
  <2>1. Good(r)
    BY <1>5, CancelFacts
  <2>2. PICK n \in 1 .. N :
              /\ c.queue[n] = u /\ r.queue = Unlink(c.queue, n)
              /\ \A i \in 1 .. n - 1 : DueAt(r, i) = DueAt(c, i)
              /\ \A i \in n .. N - 1 : DueAt(r, i) = DueAt(c, i + 1)
    BY <1>5, CancelFacts
  <2> HIDE DEF r
  <2>3. r.queue = [i \in 1 .. N - 1 |-> IF i < n THEN c.queue[i] ELSE c.queue[i + 1]]
    BY <2>2 DEF Unlink
  <2> DEFINE m == CHOOSE i \in DOMAIN Ag(c) : Ag(c)[i].unit = u
  <2>4. (\E i \in DOMAIN Ag(c) : Ag(c)[i].unit = u) /\ m = n
    <3>1. n \in DOMAIN Ag(c) /\ Ag(c)[n].unit = u
      BY <1>1, <1>3, <2>2
    <3>2. m \in 1 .. N /\ Ag(c)[m].unit = u
      BY <1>1, <3>1
    <3> HIDE DEF m
    <3>3. m = n
      BY <1>3, <2>2, <3>2 DEF Good
    <3> QED BY <3>1, <3>3
  <2> HIDE DEF m
  <2>5. Agenda!Without(Ag(c), u) = [i \in 1 .. N - 1 |-> IF i < n THEN Ag(c)[i] ELSE Ag(c)[i + 1]]
    <3>1. Agenda!Without(Ag(c), u)
            = [i \in 1 .. Len(Ag(c)) - 1 |-> IF i < m THEN Ag(c)[i] ELSE Ag(c)[i + 1]]
      BY <2>4 DEF Agenda!Without, m
    <3> QED BY <1>1, <2>4, <3>1
  <2>6. Ag(r) = [i \in 1 .. N - 1 |-> [unit |-> r.queue[i], due |-> DueAt(r, i)]]
    <3>1. DOMAIN r.queue = 1 .. N - 1
      BY <2>3
    <3> QED BY <3>1 DEF Ag, DueAt
  <2>7. ASSUME NEW i \in 1 .. N - 1
        PROVE  [unit |-> r.queue[i], due |-> DueAt(r, i)] = IF i < n THEN Ag(c)[i] ELSE Ag(c)[i + 1]
    <3>1. CASE i < n
      <4>1. i \in 1 .. n - 1 /\ i \in 1 .. N
        BY <1>1, <3>1
      <4>2. r.queue[i] = c.queue[i] /\ DueAt(r, i) = DueAt(c, i)
        BY <2>2, <2>3, <3>1, <4>1
      <4> QED BY <1>1, <3>1, <4>1, <4>2
    <3>2. CASE ~(i < n)
      <4>1. i \in n .. N - 1 /\ i + 1 \in 1 .. N
        BY <1>1, <3>2
      <4>2. r.queue[i] = c.queue[i + 1] /\ DueAt(r, i) = DueAt(c, i + 1)
        BY <2>2, <2>3, <3>2, <4>1
      <4> QED BY <1>1, <3>2, <4>1, <4>2
    <3> QED BY <3>1, <3>2
  <2> QED BY <2>5, <2>6, <2>7 DEF r
<1> QED BY <1>4, <1>5

\* Inserting a unit into the clock without it schedules the unit.
LEMMA ScheduleStep ==
  ASSUME NEW u \in Unit, NEW t \in Int, NEW d, Good(d), ~Queued(d, u), SimGtime(d) = SimGtime(clock),
         Ag(d) = Agenda!Without(Ag(clock), u), clock' = Insert(d, u, t)
  PROVE  Agenda!Schedule(u, t)
<1>1. PICK n \in 0 .. Len(Ag(d)) :
            /\ \A i \in 1 .. Len(Ag(d)) : Ag(d)[i].due <= SimGtime(clock) + t <=> i <= n
            /\ Ag(clock') = Agenda!With(Ag(d), n, [unit |-> u, due |-> SimGtime(clock) + t])
  BY AgInsert
<1>2. SimGtime(clock') = SimGtime(clock)
  BY InsertFacts
<1>3. /\ \E m \in 0 .. Len(Agenda!Without(Ag(clock), u)) :
           /\ \A i \in 1 .. Len(Agenda!Without(Ag(clock), u)) :
                Agenda!Without(Ag(clock), u)[i].due <= SimGtime(clock) + t <=> i <= m
           /\ Ag(clock)' = Agenda!With(Agenda!Without(Ag(clock), u), m, [unit |-> u, due |-> SimGtime(clock) + t])
      /\ SimGtime(clock)' = SimGtime(clock)
  <2>1. Ag(clock)' = Ag(clock') /\ SimGtime(clock)' = SimGtime(clock')
    BY Zenon DEF Ag, Accum, SimGtime, UpdateSimTime, Advance, HeadTime
  <2> QED BY <1>1, <1>2, <2>1
<1> QED BY <1>3, Zenon DEF Agenda!Schedule, Ag

\* Every call is a step of the agenda, or changes nothing.
LEMMA CallsSimulate ==
  ASSUME GoodInv, Waits, Delay \subseteq 0 .. Word, Calls
  PROVE  Agenda!Next \/ UNCHANGED <<SimGtime(clock), Ag(clock)>>
<1>1. PICK u \in Unit : \/ \E t \in Delay : CallActivate(u, t) \/ CallActivateAbs(u, t)
                        \/ \E ahead \in Reach : CallActivateNotBefore(u, ahead)
                        \/ CallCancel(u)
  BY DEF Calls
<1> DEFINE d == Cancel(clock, u)
<1>2. /\ Good(clock) /\ Good(d) /\ SimGtime(d) = SimGtime(clock) /\ ~Queued(d, u)
      /\ Ag(d) = Agenda!Without(Ag(clock), u)
  BY CancelRemoves, AgCancel, Zenon DEF Removed, GoodInv
<1>3. SimGtime(clock)' = SimGtime(clock') /\ Ag(clock)' = Ag(clock')
  BY DEF Ag, Accum, SimGtime, UpdateSimTime, Advance, HeadTime
<1>4. \A t \in 0 .. Word : Agenda!Schedule(u, t) => Agenda!Next
  BY DEF Agenda!Next
<1>5. ASSUME NEW t \in Delay, CallActivate(u, t)
      PROVE  Agenda!Next \/ UNCHANGED <<SimGtime(clock), Ag(clock)>>
  <2>1. CASE Queued(clock, u)
    <3>1. clock' = clock
      BY <1>5, <2>1 DEF CallActivate, Activate
    <3> QED BY <1>3, <3>1
  <2>2. CASE ~Queued(clock, u)
    <3>1. clock' = Insert(clock, u, t) /\ t \in Int /\ t \in 0 .. Word
      BY <1>5, <2>2, DelayAssumption DEF CallActivate, Activate
    <3>2. d = clock
      BY <2>2 DEF Cancel
    <3>3. Agenda!Schedule(u, t)
      BY <1>2, <2>2, <3>1, <3>2, ScheduleStep
    <3> QED BY <1>4, <3>1, <3>3
  <2> QED BY <2>1, <2>2
<1>6. ASSUME NEW t \in Delay, CallActivateAbs(u, t) PROVE Agenda!Next
  <2>1. clock' = Insert(d, u, t) /\ t \in Int /\ t \in 0 .. Word
    BY <1>2, <1>6, DelayAssumption DEF CallActivateAbs, ActivateAbs, Activate
  <2> HIDE DEF d
  <2>2. Agenda!Schedule(u, t)
    BY <1>2, <2>1, ScheduleStep
  <2> QED BY <1>4, <2>1, <2>2
<1>7. ASSUME NEW ahead \in Reach, CallActivateNotBefore(u, ahead) PROVE Agenda!Next
  <2> DEFINE s == UpdateSimTime(d)
             t == IF ahead < 0 THEN 0 ELSE ahead
  <2>1. ahead \in -(Word \div 2) .. (Word \div 2) - 1
    BY DEF Waits
  <2>2. clock' = ActivateNotBefore(clock, u, (SimGtime(clock) + ahead) % Word)
    BY <1>7 DEF CallActivateNotBefore
  <2>3. clock' = Insert(s, u, t)
    BY <1>2, <2>1, <2>2, NotBeforePlaces
  <2>4. t \in Int /\ t \in 0 .. Word
    BY <2>1, ClockWordAssumption
  <2> HIDE DEF d
  <2>5. /\ Good(s) /\ s.queue = d.queue /\ s.vm_time = SimGtime(d) /\ HeadTime(s) = d.interval
        /\ s.interval = d.interval
        /\ \A i \in 1 .. Len(d.queue) : DueAt(s, i) = DueAt(d, i)
    BY <1>2, UpdateFacts, Zenon
  <2> HIDE DEF s, t
  <2>6. SimGtime(s) = SimGtime(clock)
    <3>1. s \in Clock /\ d \in Clock
      BY <1>2, <2>5, Zenon DEF Good
    <3>2. SimGtime(s) = s.vm_time + HeadTime(s) - s.interval /\ d.interval \in Int /\ SimGtime(d) \in Int
      BY <3>1, HeadDue, ClockFields
    <3> QED BY <1>2, <2>5, <3>2
  <2>7. Ag(s) = Agenda!Without(Ag(clock), u)
    BY <1>2, <2>5, AgSame
  <2>8. ~Queued(s, u)
    BY <1>2, <2>5 DEF Queued
  <2>9. Agenda!Schedule(u, t)
    BY <2>3, <2>4, <2>5, <2>6, <2>7, <2>8, ScheduleStep
  <2> QED BY <1>4, <2>4, <2>9
<1>8. ASSUME CallCancel(u) PROVE Agenda!Next
  <2>1. clock' = d
    BY <1>8 DEF CallCancel
  <2>2. Ag(clock)' = Agenda!Without(Ag(clock), u) /\ SimGtime(clock)' = SimGtime(clock)
    BY <1>2, <1>3, <2>1
  <2>3. Agenda!Unschedule(u)
    BY <2>2 DEF Agenda!Unschedule, Ag
  <2> QED BY <2>3 DEF Agenda!Next
<1> QED BY <1>1, <1>5, <1>6, <1>7, <1>8

\* A dispatch fires the first entry of the agenda.
LEMMA DispatchSimulates ==
  ASSUME GoodInv, GoodInv', Dispatched, SimGtime(clock) = DueAt(clock, 1)
  PROVE  Agenda!Next
<1> DEFINE N == Len(clock.queue)
           e == [i \in 1 .. N |-> [unit |-> clock.queue[i], due |-> DueAt(clock, i)]]
<1>1. SimGtime(clock)' = SimGtime(clock') /\ Ag(clock)' = Ag(clock')
  BY DEF Ag, Accum, SimGtime, UpdateSimTime, Advance, HeadTime
<1>2. /\ N \in Nat /\ N >= 1 /\ Len(Ag(clock)) = N /\ Ag(clock) \in Seq([unit : Unit, due : Int])
      /\ Ag(clock) # <<>> /\ Ag(clock)[1].due = DueAt(clock, 1)
      /\ \A i \in 1 .. N : Ag(clock)[i] = [unit |-> clock.queue[i], due |-> DueAt(clock, i)]
  <2>1. Good(clock) /\ clock.queue # <<>>
    BY DEF GoodInv, Dispatched
  <2>2. N \in Nat /\ N >= 1 /\ 1 \in 1 .. N
    BY <2>1, ClockFields DEF Good
  <2> QED BY <2>1, <2>2, AgFacts, Zenon
<1>3. /\ DOMAIN Ag(clock') = 1 .. N - 1
      /\ \A i \in 1 .. N - 1 : Ag(clock')[i] = [unit |-> clock'.queue[i], due |-> DueAt(clock', i)]
  <2>1. Good(clock') /\ Len(clock'.queue) = N - 1
    BY DEF GoodInv, Dispatched
  <2> QED BY <2>1, AgFacts
<1>4. Ag(clock') = Tail(Ag(clock))
  <2> DEFINE T == [unit : Unit, due : Int]
             a == Ag(clock)
  <2>1. a \in Seq(T) /\ Len(a) = N /\ N \in Nat /\ N >= 1
    BY <1>2
  <2> HIDE DEF T, a
  <2>2. Tail(a) = [i \in 1 .. N - 1 |-> a[i + 1]]
    <3>1. Tail(a) \in Seq(T) /\ Len(Tail(a)) = N - 1 /\ \A i \in 1 .. N - 1 : Tail(a)[i] = a[i + 1]
      BY <2>1
    <3> DEFINE b == [i \in 1 .. N - 1 |-> a[i + 1]]
    <3>2. b \in Seq(T) /\ Len(b) = N - 1
      BY <2>1
    <3>3. \A i \in 1 .. N - 1 : b[i] = a[i + 1]
      OBVIOUS
    <3> HIDE DEF b
    <3>4. Len(Tail(a)) = Len(b) /\ \A i \in 1 .. Len(b) : Tail(a)[i] = b[i]
      BY <3>1, <3>2, <3>3
    <3>5. Tail(a) = b
      BY <3>1, <3>2, <3>4
    <3> QED BY <3>5 DEF b
  <2>3. ASSUME NEW i \in 1 .. N - 1 PROVE Ag(clock')[i] = a[i + 1]
    <3>1. i + 1 \in 1 .. N
      BY <1>2
    <3>2. clock'.queue[i] = clock.queue[i + 1] /\ DueAt(clock', i) = DueAt(clock, i + 1)
      BY DEF Dispatched
    <3> QED BY <1>2, <1>3, <3>1, <3>2, Zenon DEF a
  <2>4. Ag(clock') = [i \in 1 .. N - 1 |-> Ag(clock')[i]]
    <3>1. Ag(clock') = [i \in DOMAIN Ag(clock') |-> Ag(clock')[i]]
      BY DEF Ag
    <3> QED BY <1>3, <3>1
  <2> QED BY <2>2, <2>3, <2>4 DEF a
<1>5. SimGtime(clock') = SimGtime(clock)
  BY DEF Dispatched
<1>6. Agenda!Fire
  <2>1. /\ Ag(clock) # <<>> /\ Ag(clock)[1].due = SimGtime(clock)
        /\ Ag(clock)' = Tail(Ag(clock)) /\ SimGtime(clock)' = SimGtime(clock)
    BY <1>1, <1>2, <1>4, <1>5
  <2> QED BY <2>1, Zenon DEF Agenda!Fire, Ag
<1> QED BY <1>6 DEF Agenda!Next

\* Every step of the simulator is a step of the agenda, or changes neither time nor the agenda.
LEMMA AgendaStep ==
  ASSUME ExactInv, Waits, Delay \subseteq 0 .. Word, Cost = {1}, [Next]_vars
  PROVE  Agenda!Next \/ UNCHANGED <<SimGtime(clock), Ag(clock)>>
<1>1. GoodInv /\ GoodInv' /\ Good(clock) /\ Good(clock')
  BY GoodStep DEF ExactInv, GoodInv
<1>2. SimGtime(clock)' = SimGtime(clock') /\ Ag(clock)' = Ag(clock')
  BY DEF Ag, Accum, SimGtime, UpdateSimTime, Advance, HeadTime
<1>3. CASE Calls
  BY <1>1, <1>3, CallsSimulate
<1>4. ASSUME NEW n \in Cost, Execute(n) PROVE Agenda!Next
  <2>1. clock.interval > 0 /\ n = 1
    BY <1>4 DEF Execute
  <2>2. /\ clock'.queue = clock.queue /\ SimGtime(clock') = SimGtime(clock) + 1
        /\ \A i \in 1 .. Len(clock.queue) : DueAt(clock', i) = DueAt(clock, i)
    BY <1>1, <1>4, <2>1, ExecuteFacts
  <2>3. Ag(clock') = Ag(clock)
    BY <1>1, <2>2, AgSame
  <2>4. ASSUME Ag(clock) # <<>> PROVE SimGtime(clock) < Ag(clock)[1].due
    <3>1. clock.queue # <<>> /\ 1 \in 1 .. Len(clock.queue) /\ clock \in Clock
      BY <1>1, <2>4, AgFacts, ClockFields DEF Good
    <3>2. Ag(clock)[1].due = DueAt(clock, 1)
      BY <1>1, <3>1, AgFacts, Zenon
    <3>3. /\ DueAt(clock, 1) = clock.vm_time + HeadTime(clock)
          /\ SimGtime(clock) = clock.vm_time + HeadTime(clock) - clock.interval
          /\ clock.vm_time \in Int /\ HeadTime(clock) \in Int /\ clock.interval \in Int
      BY <3>1, HeadDue, ClockFields, Zenon
    <3> QED BY <2>1, <3>2, <3>3
  <2>5. Agenda!Tick
    <3>1. /\ Ag(clock) # <<>> => SimGtime(clock) < Ag(clock)[1].due
          /\ SimGtime(clock)' = SimGtime(clock) + 1 /\ Ag(clock)' = Ag(clock)
      BY <1>2, <2>2, <2>3, <2>4
    <3> QED BY <3>1 DEF Agenda!Tick, Ag
  <2> QED BY <2>5 DEF Agenda!Next
<1>5. CASE RequestStop \/ ProcessStopped \/ ActionReturnsQueueEnd \/ UNCHANGED vars
  <2>1. clock' = clock
    BY <1>5 DEF RequestStop, ProcessStopped, ActionReturnsQueueEnd, vars
  <2> QED BY <1>2, <2>1
<1>6. CASE ProcessNothingDue
  <2>1. /\ clock'.queue = clock.queue /\ SimGtime(clock') = SimGtime(clock)
        /\ \A i \in 1 .. Len(clock.queue) : DueAt(clock', i) = DueAt(clock, i)
    BY <1>1, <1>6, NothingDueFacts
  <2>2. Ag(clock') = Ag(clock)
    BY <1>1, <2>1, AgSame
  <2> QED BY <1>2, <2>1, <2>2
<1>7. CASE ProcessDue \/ ActionReturnsMoreDue
  BY <1>1, <1>7, DispatchesExact, DispatchSimulates
<1>8. CASE ActionReturnsLoopEnds
  <2>1. pc = "action" /\ ~Behind(catchup) /\ clock.interval = HeadTime(clock)
    BY <1>8 DEF ActionReturnsLoopEnds, Behind, ExactInv
  <2>2. /\ clock'.queue = clock.queue /\ SimGtime(clock') = SimGtime(clock)
        /\ \A i \in 1 .. Len(clock.queue) : DueAt(clock', i) = DueAt(clock, i) + 0
    BY <1>1, <1>8, <2>1, LoopEndsFacts
  <2>3. \A i \in 1 .. Len(clock.queue) : DueAt(clock', i) = DueAt(clock, i)
    BY <1>1, <2>2, HeadDue DEF Good
  <2>4. Ag(clock') = Ag(clock)
    BY <1>1, <2>2, <2>3, AgSame
  <2> QED BY <1>2, <2>2, <2>4
<1> QED BY <1>3, <1>4, <1>5, <1>6, <1>7, <1>8 DEF Next, Process

\* For a CPU that counts 1 per instruction the queue of relative times, with the insertion walk,
\* the wait inherited on removal and the times modulo the width of sim_rtime, implements a plain
\* list of absolute due times: a unit fires at the time it is due, first come first served, time
\* never passes a due unit by, and no call moves a unit it does not name.
THEOREM QueueImplementsAgenda ==
  ASSUME Waits, Delay \subseteq 0 .. Word, Cost = {1}
  PROVE  Spec => ImplementsAgenda
<1>1. Init => Agenda!Init
  <2> SUFFICES ASSUME Init PROVE Agenda!Init
    OBVIOUS
  <2>1. clock = ResetClock
    BY DEF Init
  <2>2. Good(clock) /\ SimGtime(clock) = 0 /\ clock.queue = <<>>
    BY <2>1, ResetFacts DEF ResetClock
  <2>3. Ag(clock) = <<>>
    BY <2>2, AgFacts
  <2> QED BY <2>2, <2>3 DEF Agenda!Init, Ag
<1>2. ExactInv /\ [Next]_vars => [Agenda!Next]_<<SimGtime(clock), Ag(clock)>>
  BY AgendaStep
<1>3. [Agenda!Next]_<<SimGtime(clock), Ag(clock)>>
        <=> [Agenda!Next]_<<SimGtime(clock), [i \in DOMAIN clock.queue |->
              [unit |-> clock.queue[i], due |-> clock.vm_time + Accum(clock, i)]]>>
  BY DEF Ag
<1> QED BY <1>1, <1>2, <1>3, ExactInvariant, PTL DEF Spec, ImplementsAgenda, Agenda!Spec
=============================================================================
