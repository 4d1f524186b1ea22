--------------------------- MODULE AsynchPollProofs ---------------------------
(***************************************************************************)
(* A request waits no longer than sim_asynch_check allows for the poll     *)
(* that migrates it, for any latency, however long the simulator sleeps.   *)
(***************************************************************************)
EXTENDS AsynchQueueProofs

-----------------------------------------------------------------------------
(* A request waits for the poll that follows, and no longer.               *)

\* The time a number of instructions may take, with the sleep that may follow each.
LEMMA SpanFacts ==
  /\ \A a \in Int : Span(a) \in Int /\ Span(a + 1) = Span(a) + 1 + MaxIdle
  /\ \A a, b \in Int : a <= b => Span(a) <= Span(b)
  /\ Span(0) = 0 /\ PollBound = Span(Latency + 1) /\ PollBound \in Nat /\ MaxIdle \in Nat /\ Latency \in Nat
<1>1. MaxIdle \in Nat /\ Latency \in Nat
  BY AsynchBoundAssumption, LatencyAssumption
<1>2. \A a \in Int : Span(a) \in Int /\ Span(a + 1) = Span(a) + 1 + MaxIdle
  BY <1>1 DEF Span
<1>3. ASSUME NEW a \in Int, NEW b \in Int, a <= b PROVE Span(a) <= Span(b)
  <2>1. (b - a) * (1 + MaxIdle) >= 0
    BY <1>1, <1>3
  <2>2. b * (1 + MaxIdle) = a * (1 + MaxIdle) + (b - a) * (1 + MaxIdle)
    BY <1>1
  <2>3. a * (1 + MaxIdle) \in Int /\ b * (1 + MaxIdle) \in Int /\ (b - a) * (1 + MaxIdle) \in Int
    BY <1>1
  <2>4. \A x, y, z \in Int : z >= 0 /\ y = x + z => x <= y
    OBVIOUS
  <2>5. a * (1 + MaxIdle) <= b * (1 + MaxIdle)
    BY <2>1, <2>2, <2>3, <2>4, Zenon
  <2> QED BY <2>5, Zenon DEF Span
<1>4. Span(0) = 0 /\ PollBound = Span(Latency + 1)
  BY <1>1 DEF Span, PollBound
<1>5. Span(0) <= Span(Latency + 1) /\ Span(Latency + 1) \in Int
  <2>1. 0 \in Int /\ Latency + 1 \in Int /\ 0 <= Latency + 1
    BY <1>1
  <2> QED BY <1>2, <1>3, <2>1
<1>6. PollBound \in Nat
  BY <1>4, <1>5
<1> QED BY <1>1, <1>2, <1>3, <1>4, <1>6

\* The allowance at each place of the loop.
LEMMA AllowedIs ==
  ASSUME NEW check, NEW load, NEW asleep, NEW updating
  PROVE  /\ Allowed("check", check, load, asleep, updating) = Span(Latency + 1 - check)
         /\ Allowed("store", check, load, asleep, updating) = Span(Latency + 1 - load)
         /\ Allowed("process", check, load, asleep, updating) = Span(Latency - check)
         /\ Allowed("execute", check, load, asleep, updating) = Span(Latency - check)
         /\ Allowed("device", check, load, asleep, updating) = Span(Latency + 1 - check) - MaxIdle
         /\ Allowed("sleep", check, load, asleep, updating) = Span(Latency + 1 - check) - MaxIdle + asleep
         /\ Allowed("idled", check, load, asleep, updating) = Span(Latency + 1 - check) - MaxIdle + asleep
         /\ Allowed("rearm", check, load, asleep, updating) = IF updating THEN PollBound ELSE 0
BY DEF Allowed

\* It is a time, and never more than the bound.
LEMMA AllowanceBound ==
  ASSUME LoopInv
  PROVE  Allowance \in Int /\ Allowance <= PollBound /\ 0 <= Allowance
<1>1. sim_asynch_check \in Int /\ seen \in 0 .. Latency /\ slept \in 0 .. MaxIdle /\ sim_asynch_check <= Latency
  BY SpanFacts DEF LoopInv
<1> DEFINE c == sim_asynch_check
           A(x) == x \in Int /\ x <= PollBound /\ 0 <= x
<1>2. ASSUME NEW n \in Int, 1 <= n, n <= Latency + 1
      PROVE  A(Span(n)) /\ A(Span(n) - MaxIdle) /\ \A z \in 0 .. MaxIdle : A(Span(n) - MaxIdle + z)
  <2>1. Span(n) \in Int /\ Span(1) = Span(0) + 1 + MaxIdle /\ 0 + 1 = 1 /\ Span(0) = 0
    BY SpanFacts
  <2>2. Span(1) <= Span(n) /\ Span(n) <= PollBound
    <3>1. 1 \in Int /\ Latency + 1 \in Int
      BY SpanFacts
    <3>2. \A a, b \in Int : a <= b => Span(a) <= Span(b)
      BY SpanFacts
    <3>3. Span(1) <= Span(n) /\ Span(n) <= Span(Latency + 1)
      BY <1>2, <3>1, <3>2, Zenon
    <3> QED BY <3>3, SpanFacts
  <2>3. MaxIdle \in Nat /\ PollBound \in Nat
    BY SpanFacts
  <2>4. \A x \in Int : /\ 1 + MaxIdle <= x /\ x <= PollBound
                          => A(x) /\ A(x - MaxIdle) /\ \A z \in 0 .. MaxIdle : A(x - MaxIdle + z)
    BY <2>3
  <2>5. 1 + MaxIdle <= Span(n)
    BY <2>1, <2>2, <2>3
  <2> HIDE DEF A
  <2> QED BY <2>1, <2>2, <2>4, <2>5
<1>3. A(Span(0)) /\ A(PollBound) /\ A(0)
  BY SpanFacts
<1>4. CASE loop # "rearm"
  <2>1. c \in 0 .. Latency
    BY <1>1, <1>4 DEF LoopInv
  <2>2. /\ Latency + 1 - c \in Int /\ 1 <= Latency + 1 - c /\ Latency + 1 - c <= Latency + 1
        /\ Latency + 1 - seen \in Int /\ 1 <= Latency + 1 - seen /\ Latency + 1 - seen <= Latency + 1
        /\ Latency - c \in Int /\ (Latency - c = 0 \/ (1 <= Latency - c /\ Latency - c <= Latency + 1))
    BY <1>1, <2>1, SpanFacts
  <2>3. /\ A(Span(Latency + 1 - c)) /\ A(Span(Latency + 1 - seen)) /\ A(Span(Latency - c))
        /\ A(Span(Latency + 1 - c) - MaxIdle) /\ A(Span(Latency + 1 - c) - MaxIdle + slept)
    BY <1>1, <1>2, <1>3, <2>2
  <2>4. loop \in {"check", "store", "process", "execute", "device", "sleep", "idled"}
    BY <1>4 DEF LoopInv
  <2>5. \/ Allowance = Span(Latency + 1 - c) \/ Allowance = Span(Latency + 1 - seen) \/ Allowance = Span(Latency - c)
        \/ Allowance = Span(Latency + 1 - c) - MaxIdle \/ Allowance = Span(Latency + 1 - c) - MaxIdle + slept
    <3>1. CASE loop \in {"check", "store", "process"}
      BY <3>1, AllowedIs DEF Allowance
    <3>2. CASE loop \in {"execute", "device"}
      BY <3>2, AllowedIs DEF Allowance
    <3>3. CASE loop \in {"sleep", "idled"}
      BY <3>3, AllowedIs DEF Allowance
    <3> QED BY <2>4, <3>1, <3>2, <3>3
  <2> QED BY <2>3, <2>5
<1>5. CASE loop = "rearm"
  <2>1. Allowance = PollBound \/ Allowance = 0
    BY <1>5, AllowedIs DEF Allowance
  <2> QED BY <1>3, <2>1
<1> QED BY <1>4, <1>5

\* What the steps of the loop need: the allowance grows with the time that passes.
Grows == LoopInv' /\ Allowance' >= Allowance + (elapsed' - elapsed)

\* Polling: the counter is loaded, stored, and set again after the queue has been updated.
LEMMA PollGrows ==
  ASSUME TypeInv, LoopInv, CheckLoad \/ CheckStore \/ CheckRearm
  PROVE  Grows
<1> DEFINE c == sim_asynch_check
<1>1. c \in -1 .. Latency /\ seen \in 0 .. Latency /\ slept \in 0 .. MaxIdle /\ Latency \in Nat /\ elapsed \in Nat
  BY SpanFacts DEF LoopInv, TypeInv
<1>2. Allowance \in Int
  BY AllowanceBound
<1>3. CASE CheckLoad
  <2>1. /\ loop = "check" /\ loop' = "store" /\ seen' = c /\ sim_asynch_check' = c /\ slept' = slept
        /\ sim_idle_wait' = sim_idle_wait /\ elapsed' = elapsed
    BY <1>3 DEF CheckLoad, At
  <2>2. LoopInv'
    BY <1>1, <2>1 DEF LoopInv
  <2>3. Allowance = Span(Latency + 1 - c)
    BY <2>1, AllowedIs DEF Allowance
  <2>4. Allowance' = Span(Latency + 1 - c)
    BY <2>1, AllowedIs DEF Allowance
  <2>5. Allowance' = Allowance /\ elapsed' = elapsed
    BY <2>1, <2>3, <2>4
  <2> QED BY <1>1, <1>2, <2>2, <2>5 DEF Grows
<1>4. CASE CheckStore
  <2>1. /\ stack = <<>> /\ loop = "store" /\ seen' = 0 /\ sim_asynch_check' = seen - 1 /\ slept' = slept
        /\ sim_idle_wait' = sim_idle_wait /\ elapsed' = elapsed
        /\ IF seen - 1 < 0 THEN stack' = <<UpdateCall>> /\ loop' = "rearm" ELSE stack' = stack /\ loop' = "process"
    BY <1>4 DEF CheckStore, At
  <2>2. Allowance = Span(Latency + 1 - seen)
    BY <2>1, AllowedIs DEF Allowance
  <2>3. CASE seen = 0
    <3>1. stack' = <<UpdateCall>> /\ loop' = "rearm"
      BY <2>1, <2>3
    <3>2. stack' # <<>> /\ stack'[Len(stack')] = UpdateCall
      BY <3>1
    <3>3. Stage(<<"update">>)'
      <4>1. UpdateCall.kind = "call" /\ UpdateCall.todo = <<"update">>
        BY DEF UpdateCall, CallOf
      <4> QED BY <3>2, <4>1 DEF Stage, Bottom
    <3>4. LoopInv'
      <4>1. sim_asynch_check' \in -1 .. Latency /\ 0 \in 0 .. Latency
        <5>1. sim_asynch_check' = -1
          BY <2>1, <2>3
        <5> QED BY <1>1, <5>1
      <4>2. loop' \notin {"sleep", "idled"} /\ loop \notin {"sleep", "idled"} /\ loop' # "sleep" /\ loop # "sleep"
        BY <2>1, <3>1
      <4> QED BY <2>1, <3>1, <3>3, <4>1, <4>2 DEF LoopInv
    <3>5. Allowance' = PollBound
      BY <3>1, <3>3, Zenon DEF Allowance, Allowed
    <3>6. Allowance <= PollBound
      BY AllowanceBound
    <3>7. PollBound \in Nat /\ elapsed' = elapsed
      BY <2>1, SpanFacts
    <3> QED BY <1>1, <1>2, <3>4, <3>5, <3>6, <3>7 DEF Grows
  <2>4. CASE seen # 0
    <3>1. loop' = "process" /\ sim_asynch_check' >= 0 /\ sim_asynch_check' <= Latency /\ sim_asynch_check' \in Int
      BY <1>1, <2>1, <2>4
    <3>2. sim_asynch_check' \in -1 .. Latency /\ 0 \in 0 .. Latency
      BY <1>1, <3>1
    <3>3. LoopInv'
      BY <2>1, <3>1, <3>2 DEF LoopInv
    <3>4. Allowance' = Span(Latency - (seen - 1))
      BY <2>1, <3>1, AllowedIs DEF Allowance
    <3>5. Latency - (seen - 1) = Latency + 1 - seen
      BY <1>1
    <3>6. Allowance' = Allowance /\ elapsed' = elapsed
      BY <2>1, <2>2, <3>4, <3>5
    <3> QED BY <1>1, <1>2, <3>3, <3>6 DEF Grows
  <2> QED BY <2>3, <2>4
<1>5. CASE CheckRearm
  <2>1. /\ stack = <<>> /\ loop = "rearm" /\ loop' = "process" /\ seen' = seen /\ sim_asynch_check' = Latency
        /\ slept' = slept /\ sim_idle_wait' = sim_idle_wait /\ elapsed' = elapsed
    BY <1>5 DEF CheckRearm, At
  <2>2. LoopInv'
    BY <1>1, <2>1 DEF LoopInv
  <2>3. ~Stage(<<"update">>)
    BY <2>1 DEF Stage
  <2>4. Allowance = 0
    BY <2>1, <2>3, AllowedIs DEF Allowance
  <2>5. Allowance' = Span(Latency - Latency)
    BY <2>1, AllowedIs DEF Allowance
  <2>6. Latency - Latency = 0 /\ Span(0) = 0
    BY <1>1, SpanFacts
  <2>7. Allowance' = Allowance /\ elapsed' = elapsed
    BY <2>1, <2>4, <2>5, <2>6
  <2> QED BY <1>1, <1>2, <2>2, <2>7 DEF Grows
<1> QED BY <1>3, <1>4, <1>5

\* Executing: the instruction takes one unit of time.
LEMMA ExecuteGrows ==
  ASSUME TypeInv, LoopInv, ProcessEvents \/ Execute \/ Devices \/ ExecuteDone
  PROVE  Grows
<1> DEFINE c == sim_asynch_check
<1>1. c \in -1 .. Latency /\ seen \in 0 .. Latency /\ slept \in 0 .. MaxIdle /\ Latency \in Nat /\ elapsed \in Nat
  BY SpanFacts DEF LoopInv, TypeInv
<1>2. Allowance \in Int /\ MaxIdle \in Nat
  BY AllowanceBound, SpanFacts
<1>3. /\ stack = <<>> /\ loop \in {"process", "execute", "device"} /\ seen' = seen /\ sim_asynch_check' = c
      /\ slept' = slept /\ sim_idle_wait' = sim_idle_wait
      /\ \/ loop = "process" /\ loop' = "execute" /\ elapsed' = elapsed
         \/ loop = "execute" /\ loop' = "device" /\ elapsed' = elapsed + 1
         \/ loop = "device" /\ loop' \in {"device", "check"} /\ elapsed' = elapsed
  BY DEF ProcessEvents, Execute, Devices, ExecuteCall, ExecuteDone, At
<1>4. LoopInv'
  <2>1. loop' \in {"check", "execute", "device"} /\ loop # "rearm" /\ loop # "sleep" /\ loop \notin {"sleep", "idled"}
    BY <1>3
  <2> QED BY <1>3, <2>1 DEF LoopInv
<1>5. CASE loop = "process"
  <2>1. loop' = "execute" /\ elapsed' = elapsed
    BY <1>3, <1>5
  <2>2. Allowance = Span(Latency - c) /\ Allowance' = Span(Latency - c)
    BY <1>3, <1>5, <2>1, AllowedIs DEF Allowance
  <2>3. Allowance' = Allowance /\ elapsed' = elapsed
    BY <2>1, <2>2
  <2> QED BY <1>1, <1>2, <1>4, <2>3 DEF Grows
<1>6. CASE loop = "execute"
  <2>1. loop' = "device" /\ elapsed' = elapsed + 1
    BY <1>3, <1>6
  <2>2. Allowance = Span(Latency - c) /\ Allowance' = Span(Latency + 1 - c) - MaxIdle
    BY <1>3, <1>6, <2>1, AllowedIs DEF Allowance
  <2>3. Latency - c \in Int /\ (Latency - c) + 1 = Latency + 1 - c
    BY <1>1
  <2>4. Span(Latency + 1 - c) = Span(Latency - c) + 1 + MaxIdle
    BY <2>3, SpanFacts
  <2>5. Allowance' = Allowance + 1 /\ elapsed' = elapsed + 1
    BY <1>2, <2>1, <2>2, <2>4
  <2> QED BY <1>1, <1>2, <1>4, <2>5 DEF Grows
<1>7. CASE loop = "device"
  <2>1. loop' \in {"device", "check"} /\ elapsed' = elapsed
    BY <1>3, <1>7
  <2>2. Allowance = Span(Latency + 1 - c) - MaxIdle
    BY <1>7, AllowedIs DEF Allowance
  <2>3. Allowance' = Span(Latency + 1 - c) - MaxIdle \/ Allowance' = Span(Latency + 1 - c)
    BY <1>3, <2>1, AllowedIs DEF Allowance
  <2>4. Latency + 1 - c \in Int
    BY <1>1
  <2>5. Span(Latency + 1 - c) \in Int /\ elapsed' = elapsed
    BY <2>1, <2>4, SpanFacts
  <2>6. Allowance' >= Allowance + (elapsed' - elapsed)
    BY <1>1, <1>2, <2>2, <2>3, <2>5
  <2> QED BY <1>4, <2>6 DEF Grows
<1> QED BY <1>3, <1>5, <1>6, <1>7

\* Sleeping: the time asleep is counted in slept.
LEMMA SleepGrows ==
  ASSUME TypeInv, LoopInv, IdleSleep \/ IdlePass \/ IdleWoken \/ IdleTimeout \/ IdleDone
  PROVE  Grows
<1> DEFINE c == sim_asynch_check
           S(n) == Span(Latency + 1 - n)
<1>1. c \in -1 .. Latency /\ seen \in 0 .. Latency /\ slept \in 0 .. MaxIdle /\ Latency \in Nat /\ elapsed \in Nat
  BY SpanFacts DEF LoopInv, TypeInv
<1>2. Allowance \in Int /\ MaxIdle \in Nat
  BY AllowanceBound, SpanFacts
<1>3. S(c) \in Int /\ S(0) \in Int /\ (c >= 0 => S(c) <= S(0))
  <2>1. Latency + 1 - c \in Int /\ Latency + 1 - 0 \in Int /\ (c >= 0 => Latency + 1 - c <= Latency + 1 - 0)
    BY <1>1
  <2> QED BY <2>1, SpanFacts
<1> HIDE DEF S
<1>4. /\ loop = "device" => Allowance = S(c) - MaxIdle
      /\ loop \in {"sleep", "idled"} => Allowance = S(c) - MaxIdle + slept
  BY AllowedIs DEF Allowance, S
<1>5. CASE IdleSleep
  <2>1. /\ loop = "device" /\ loop' = "sleep" /\ sim_idle_wait' = "waiting" /\ seen' = seen /\ sim_asynch_check' = c
        /\ slept' = slept /\ elapsed' = elapsed
    BY <1>5 DEF IdleSleep, At
  <2>2. LoopInv'
    BY <2>1 DEF LoopInv
  <2>3. slept = 0
    BY <2>1 DEF LoopInv
  <2>4. Allowance' = S(c) - MaxIdle + slept
    BY <2>1, AllowedIs DEF Allowance, S
  <2>5. Allowance' = Allowance /\ elapsed' = elapsed
    BY <1>2, <1>3, <1>4, <2>1, <2>3, <2>4
  <2> QED BY <1>1, <1>2, <2>2, <2>5 DEF Grows
<1>6. CASE IdlePass
  <2>1. /\ loop = "sleep" /\ loop' = "sleep" /\ sim_idle_wait' = sim_idle_wait /\ seen' = seen /\ sim_asynch_check' = c
        /\ slept' = slept + 1 /\ elapsed' = elapsed + 1 /\ slept < MaxIdle
    BY <1>6 DEF IdlePass, At
  <2>2. slept' \in 0 .. MaxIdle
    BY <1>1, <1>2, <2>1
  <2>3. LoopInv'
    BY <2>1, <2>2 DEF LoopInv
  <2>4. Allowance' = S(c) - MaxIdle + (slept + 1)
    BY <2>1, AllowedIs DEF Allowance, S
  <2>5. Allowance' = Allowance + 1 /\ elapsed' = elapsed + 1
    BY <1>1, <1>2, <1>3, <1>4, <2>1, <2>4
  <2> QED BY <1>1, <1>2, <2>3, <2>5 DEF Grows
<1>7. CASE IdleWoken
  <2>1. /\ loop = "sleep" /\ loop' = "idled" /\ sim_idle_wait' = "no" /\ seen' = seen /\ sim_asynch_check' = 0
        /\ slept' = slept /\ elapsed' = elapsed
    BY <1>7 DEF IdleWoken, At
  <2>2. 0 \in -1 .. Latency /\ 0 >= 0
    BY <1>1
  <2>3. LoopInv'
    BY <2>1, <2>2 DEF LoopInv
  <2>4. Allowance' = S(0) - MaxIdle + slept
    BY <2>1, AllowedIs DEF Allowance, S
  <2>5. c >= 0 /\ Allowance = S(c) - MaxIdle + slept
    BY <1>4, <2>1 DEF LoopInv
  <2>6. Allowance' >= Allowance + (elapsed' - elapsed)
    <3>1. elapsed' = elapsed
      BY <2>1
    <3> QED BY <1>1, <1>2, <1>3, <2>4, <2>5, <3>1
  <2> QED BY <2>3, <2>6 DEF Grows
<1>8. CASE IdleTimeout
  <2>1. /\ loop = "sleep" /\ loop' = "idled" /\ sim_idle_wait' = "no" /\ seen' = seen /\ sim_asynch_check' = c
        /\ slept' = slept /\ elapsed' = elapsed
    BY <1>8 DEF IdleTimeout, At
  <2>2. LoopInv'
    BY <2>1 DEF LoopInv
  <2>3. Allowance' = S(c) - MaxIdle + slept
    BY <2>1, AllowedIs DEF Allowance, S
  <2>4. Allowance' = Allowance /\ elapsed' = elapsed
    BY <1>4, <2>1, <2>3
  <2> QED BY <1>1, <1>2, <2>2, <2>4 DEF Grows
<1>9. CASE IdleDone
  <2>1. /\ loop = "idled" /\ loop' = "check" /\ sim_idle_wait' = sim_idle_wait /\ seen' = seen /\ sim_asynch_check' = c
        /\ slept' = 0 /\ elapsed' = elapsed
    BY <1>9 DEF IdleDone, At
  <2>2. 0 \in 0 .. MaxIdle
    BY <1>2
  <2>3. LoopInv'
    BY <2>1, <2>2 DEF LoopInv
  <2>4. Allowance' = S(c)
    BY <2>1, AllowedIs DEF Allowance, S
  <2>5. Allowance = S(c) - MaxIdle + slept /\ elapsed' = elapsed
    BY <1>4, <2>1
  <2>6. Allowance' >= Allowance + (elapsed' - elapsed)
    BY <1>1, <1>2, <1>3, <2>4, <2>5
  <2> QED BY <2>3, <2>6 DEF Grows
<1> QED BY <1>5, <1>6, <1>7, <1>8, <1>9

\* The steps inside calls work on the innermost record only.
LEMMA CallShape ==
  ASSUME Inv, LostInv, CallAction
  PROVE  /\ stack # <<>> /\ Steady /\ Inside
         /\ a_event_time' = a_event_time /\ a_due' = a_due
         /\ \/ stack' = Below
            \/ \E f \in Frame : stack' = Push(f, Below)
            \/ \E f, g \in Frame : stack' = Push(g, Push(f, Below))
<1>1. Inside /\ a_event_time' = a_event_time /\ a_due' = a_due
  BY Zenon DEF CallAction, Update, UpdateUnlessEmpty, MigrateNext, MigrateDone, Request, DoInsert, DoCancel,
         Completion, CallDone, DispatchFirst, DispatchMore, Quiet, Detach, shared
<1>2. MigrationFrame \subseteq Frame /\ UnitFrame \subseteq Frame /\ LoopFrame \subseteq Frame
  BY DEF Frame
<1>3. CASE Update \/ UpdateUnlessEmpty
  <2>1. /\ Steady /\ stack # <<>>
        /\ \E f \in Frame : stack' = Push(f, Below) \/ stack' = Push(Migration(sim_asynch_queue), Push(f, Below))
    BY <1>3, UpdateKeeps, Zenon
  <2>2. Migration(sim_asynch_queue) \in Frame
    BY MigrationIs DEF Inv, TypeInv, ListInv
  <2> QED BY <1>1, <2>1, <2>2
<1>4. CASE MigrateNext
  <2>1. Steady /\ \E g \in UnitFrame, m \in MigrationFrame : stack' = Push(g, Push(m, Below))
    BY <1>4, MigrateSteady, Zenon
  <2>2. stack # <<>>
    BY <1>4, Zenon DEF MigrateNext
  <2> QED BY <1>1, <1>2, <2>1, <2>2
<1>5. CASE MigrateDone \/ CallDone
  BY <1>1, <1>5, ReturnKeeps
<1>6. CASE Request
  BY <1>1, <1>2, <1>6, RequestKeeps
<1>7. CASE DoInsert \/ DoCancel
  <2>1. /\ Steady /\ stack # <<>> /\ Top.kind = "call" /\ stack' = Push(Now(Tail(Top.todo)), Below)
    BY <1>7, InsertKeeps, CancelKeeps
  <2>2. \E step : Doing(step)
    BY <1>7 DEF DoInsert, DoCancel
  <2>3. Fits(Tail(Top.todo))
    BY <2>2, DoingFacts DEF Inv
  <2>4. Now(Tail(Top.todo)) \in Frame
    BY <2>1, <2>3, NowFacts DEF Inv
  <2> QED BY <1>1, <2>1, <2>4
<1>8. CASE Completion
  <2>1. /\ Steady /\ stack # <<>>
        /\ \E f \in UnitFrame : \/ stack' = Push(f, Below)
                                \/ \E g \in UnitFrame : stack' = Push(g, Push(f, Below))
    BY <1>8, CompletionSteady
  <2> QED BY <1>1, <1>2, <2>1
<1>9. CASE DispatchFirst \/ DispatchMore
  BY <1>1, <1>2, <1>9, DispatchKeeps
<1> QED BY <1>3, <1>4, <1>5, <1>6, <1>7, <1>8, <1>9 DEF CallAction

\* The same after a step inside calls.
LEMMA BottomStays ==
  ASSUME Inv, LostInv, CallAction, Below # <<>>
  PROVE  stack' # <<>> /\ Bottom' = Bottom
<1>1. /\ stack # <<>>
      /\ \/ stack' = Below
         \/ \E f \in Frame : stack' = Push(f, Below)
         \/ \E f, g \in Frame : stack' = Push(g, Push(f, Below))
  BY CallShape
<1>2. Below \in Seq(Frame) /\ Bottom = Below[Len(Below)]
  BY <1>1, BottomFacts DEF Inv
<1>3. ASSUME NEW f \in Frame
      PROVE  Push(f, Below) \in Seq(Frame) /\ Push(f, Below) # <<>> /\ Push(f, Below)[Len(Push(f, Below))] = Bottom
  BY <1>2, PushLast
<1>4. CASE stack' = Below
  BY <1>2, <1>4 DEF Bottom
<1>5. CASE \E f \in Frame : stack' = Push(f, Below)
  <2>1. PICK f \in Frame : stack' = Push(f, Below)
    BY <1>5
  <2>2. stack' # <<>> /\ stack'[Len(stack')] = Bottom
    BY <1>3, <2>1
  <2> QED BY <2>2 DEF Bottom
<1>6. CASE \E f, g \in Frame : stack' = Push(g, Push(f, Below))
  <2>1. PICK f \in Frame, g \in Frame : stack' = Push(g, Push(f, Below))
    BY <1>6
  <2> DEFINE s == Push(f, Below)
  <2>2. s \in Seq(Frame) /\ s # <<>> /\ s[Len(s)] = Bottom /\ stack' = Push(g, s)
    BY <1>3, <2>1
  <2> HIDE DEF s
  <2>3. stack' # <<>> /\ stack'[Len(stack')] = Bottom
    BY <2>2, PushLast, Zenon
  <2> QED BY <2>3 DEF Bottom
<1> QED BY <1>1, <1>4, <1>5, <1>6

\* The allowance after a step.
LEMMA AllowancePrimed == LoopInv' => (Allowance \in Int /\ Allowance <= PollBound /\ 0 <= Allowance)'
<1>1. LoopInv => Allowance \in Int /\ Allowance <= PollBound /\ 0 <= Allowance
  BY AllowanceBound
<1> QED BY <1>1, PTL

\* The update that AIO_CHECK_EVENT makes: when its own step is over the queue is empty, and only
\* then does the loop go on.
LEMMA RearmBottom ==
  ASSUME Inv, LostInv, LoopInv, CallAction, loop = "rearm"
  PROVE  /\ stack' # <<>> => (Stage(<<"update">>) \/ Stage(<<>>))'
         /\ Stage(<<"update">>) => Stage(<<"update">>)' \/ sim_asynch_queue' = <<>>
<1>1. stack # <<>>
  BY CallShape
<1>2. Bottom.kind = "call" /\ (Bottom.todo = <<"update">> \/ Bottom.todo = <<>>)
  BY <1>1 DEF LoopInv, Stage
<1>3. CASE Below # <<>>
  <2>1. stack' # <<>> /\ Bottom' = Bottom
    BY <1>3, BottomStays
  <2>2. Bottom'.kind = "call" /\ Bottom'.todo = Bottom.todo
    BY <1>2, <2>1
  <2> QED BY <1>2, <2>1, <2>2 DEF Stage
<1>4. CASE Below = <<>>
  <2>1. Bottom = Top /\ Top.kind = "call"
    BY <1>1, <1>2, <1>4, BottomFacts DEF Inv
  <2>2. CASE Top.todo = <<>>
    <3>1. ~Stage(<<"update">>)
      BY <2>1, <2>2 DEF Stage
    <3>2. CallDone
      BY <2>1, <2>2, Zenon DEF CallAction, Update, UpdateUnlessEmpty, MigrateNext, MigrateDone, Request, DoInsert,
         DoCancel, Completion, DispatchFirst, DispatchMore, Doing
    <3>3. stack' = <<>>
      BY <1>4, <3>2 DEF CallDone
    <3> QED BY <3>1, <3>3
  <2>3. CASE Top.todo = <<"update">>
    <3>1. Top.todo # <<>> /\ Head(Top.todo) = "update" /\ Tail(Top.todo) = <<>>
      BY <2>3
    <3>2. Update
      BY <2>1, <3>1, Zenon DEF CallAction, UpdateUnlessEmpty, MigrateNext, MigrateDone, Request, DoInsert,
         DoCancel, Completion, CallDone, DispatchFirst, DispatchMore, Doing
    <3>3. Doing("update")
      BY <3>2 DEF Update
    <3>4. /\ sim_asynch_queue' = <<>>
          /\ \E f \in Frame :
               /\ f.kind = "call" /\ f.todo = <<>>
               /\ stack' = Push(f, Below) \/ stack' = Push(Migration(sim_asynch_queue), Push(f, Below))
      BY <3>1, <3>2, <3>3, UpdateKeeps, Zenon
    <3>5. PICK f \in Frame : /\ f.kind = "call" /\ f.todo = <<>>
                             /\ stack' = Push(f, Below) \/ stack' = Push(Migration(sim_asynch_queue), Push(f, Below))
      BY <3>4
    <3>6. Migration(sim_asynch_queue) \in Frame /\ Below \in Seq(Frame)
      BY <1>1, MigrationIs, BottomFacts, Zenon DEF Inv, TypeInv, ListInv
    <3> DEFINE s == Push(f, Below)
    <3>7. s \in Seq(Frame) /\ s # <<>> /\ s[Len(s)] = f
      BY <1>4, <3>6, PushLast, Zenon
    <3>8. stack' = s \/ stack' = Push(Migration(sim_asynch_queue), s)
      BY <3>5
    <3> HIDE DEF s
    <3>9. stack'[Len(stack')] = f /\ stack' # <<>>
      <4>1. CASE stack' = s
        BY <3>7, <4>1
      <4>2. CASE stack' = Push(Migration(sim_asynch_queue), s)
        BY <3>6, <3>7, <4>2, PushLast, Zenon
      <4> QED BY <3>8, <4>1, <4>2
    <3>10. Stage(<<>>)'
      BY <3>5, <3>9 DEF Stage, Bottom
    <3> QED BY <3>4, <3>10
  <2> QED BY <1>2, <2>1, <2>2, <2>3
<1> QED BY <1>3, <1>4

\* Inside calls no time passes, and what is detached was waiting no longer than allowed.
LEMMA PollCalls ==
  ASSUME Inv, LostInv, LoopInv, PollInv, CallAction
  PROVE  LoopInv' /\ PollInv'
<1>1. /\ stack # <<>> /\ Steady /\ a_event_time' = a_event_time /\ a_due' = a_due
      /\ sim_asynch_check' = sim_asynch_check /\ sim_idle_wait' = sim_idle_wait /\ loop' = loop /\ seen' = seen
      /\ slept' = slept /\ elapsed' = elapsed
  BY CallShape DEF Inside
<1>2. LoopInv'
  <2>1. loop = "rearm" /\ stack' # <<>> => (Stage(<<"update">>) \/ Stage(<<>>))'
    BY RearmBottom
  <2> QED BY <1>1, <2>1 DEF LoopInv
<1>3. \A u : Age(u)' = Age(u)
  BY <1>1 DEF Age
<1>4. Allowance \in Int /\ Allowance <= PollBound /\ 0 <= Allowance
  BY AllowanceBound
<1>5. sim_asynch_queue' = <<>> \/ (sim_asynch_queue' = sim_asynch_queue /\ Allowance' >= Allowance)
  <2>1. CASE loop # "rearm"
    <3>1. \A b, d : Allowed(loop, sim_asynch_check, seen, slept, b) = Allowed(loop, sim_asynch_check, seen, slept, d)
      <4>1. loop \in {"check", "store", "process", "execute", "device", "sleep", "idled"}
        BY <2>1 DEF LoopInv
      <4>2. CASE loop \in {"check", "store", "process"}
        BY <4>2, AllowedIs
      <4>3. CASE loop \in {"execute", "device"}
        BY <4>3, AllowedIs
      <4>4. CASE loop \in {"sleep", "idled"}
        BY <4>4, AllowedIs
      <4> QED BY <4>1, <4>2, <4>3, <4>4
    <3>2. Allowance' = Allowance
      BY <1>1, <3>1 DEF Allowance
    <3> QED BY <1>1, <1>4, <3>2 DEF Steady
  <2>2. CASE loop = "rearm"
    <3>1. Stage(<<"update">>) => Stage(<<"update">>)' \/ sim_asynch_queue' = <<>>
      BY <2>2, RearmBottom
    <3>2. /\ Stage(<<"update">>)' => Allowance' = PollBound
          /\ ~Stage(<<"update">>)' => Allowance' = 0
          /\ Stage(<<"update">>) => Allowance = PollBound
          /\ ~Stage(<<"update">>) => Allowance = 0
      BY <1>1, <2>2, Zenon DEF Allowance, Allowed
    <3>3. PollBound >= PollBound /\ PollBound >= 0 /\ 0 >= 0
      BY SpanFacts
    <3> QED BY <1>1, <3>1, <3>2, <3>3 DEF Steady
  <2> QED BY <2>1, <2>2
<1>6. \A u \in Range(sim_asynch_queue) : Age(u) \in Int /\ Age(u) <= Allowance /\ u \in Unit
  <2>1. \A u \in Range(sim_asynch_queue) : u \in Unit
    BY RangeFacts DEF Inv, TypeInv
  <2>2. \A u \in Unit : Age(u) \in Int
    <3>1. elapsed \in Nat /\ a_due \in [Unit -> Int] /\ \A t \in Delay \cup {0} : t \in Nat
      BY AsynchDelayAssumption DEF Inv, TypeInv
    <3>2. \A u \in Unit : a_event_time[u] \in Delay \cup {0}
      BY DEF Inv, TypeInv
    <3>3. \A u \in Unit : a_event_time[u] \in Nat
      BY <3>1, <3>2, Zenon
    <3> QED BY <3>1, <3>3 DEF Age
  <2> QED BY <2>1, <2>2 DEF PollInv
<1>7. \A u \in Range(sim_asynch_queue') : Age(u)' <= Allowance'
  <2>1. CASE sim_asynch_queue' = <<>>
    <3>1. <<>> \in Seq(Unit)
      OBVIOUS
    <3>2. Range(<<>>) = {}
      BY <3>1, RangeFacts, Zenon
    <3> QED BY <2>1, <3>2
  <2>2. CASE sim_asynch_queue' = sim_asynch_queue /\ Allowance' >= Allowance
    <3>1. Allowance' \in Int
      BY <1>2, AllowancePrimed
    <3> QED BY <1>3, <1>4, <1>6, <2>2, <3>1
  <2> QED BY <1>5, <2>1, <2>2
<1>8. \A u \in Unit : Some(stack', Holding(u)) => Age(u)' <= PollBound
  <2>1. PollBound \in Int
    BY SpanFacts
  <2>2. \A u \in Range(sim_asynch_queue) : Age(u) <= PollBound
    BY <1>4, <1>6, <2>1
  <2> QED BY <1>1, <1>3, <2>2 DEF Steady, PollInv
<1> QED BY <1>2, <1>7, <1>8 DEF PollInv

\* The age of a request is a time.
LEMMA AgeType ==
  ASSUME TypeInv
  PROVE  \A u \in Unit : Age(u) \in Int
<1>1. elapsed \in Nat /\ a_due \in [Unit -> Int] /\ \A t \in Delay \cup {0} : t \in Nat
  BY AsynchDelayAssumption DEF TypeInv
<1>2. \A u \in Unit : a_event_time[u] \in Delay \cup {0}
  BY DEF TypeInv
<1>3. \A u \in Unit : a_event_time[u] \in Nat
  BY <1>1, <1>2, Zenon
<1> QED BY <1>1, <1>3 DEF Age

\* The loop: requests get older as the allowance grows.
LEMMA PollLoop ==
  ASSUME Inv, LostInv, LoopInv, PollInv, LoopAction
  PROVE  LoopInv' /\ PollInv'
<1>1. Grows
  <2>1. CASE OutOfTime
    <3>1. /\ sim_asynch_check' = sim_asynch_check /\ sim_idle_wait' = sim_idle_wait /\ loop' = loop /\ seen' = seen
          /\ slept' = slept /\ elapsed' = elapsed /\ stack' = stack
      BY <2>1 DEF OutOfTime, vars
    <3>2. LoopInv'
      BY <3>1 DEF LoopInv, Stage, Bottom
    <3>3. Allowance' = Allowance
      BY <3>1 DEF Allowance, Stage, Bottom
    <3>4. Allowance \in Int /\ elapsed \in Nat
      BY AllowanceBound DEF Inv, TypeInv
    <3> QED BY <3>1, <3>2, <3>3, <3>4 DEF Grows
  <2>2. CASE CheckLoad \/ CheckStore \/ CheckRearm
    BY <2>2, PollGrows DEF Inv
  <2>3. CASE ProcessEvents \/ Execute \/ Devices \/ ExecuteDone
    BY <2>3, ExecuteGrows DEF Inv
  <2>4. CASE IdleSleep \/ IdlePass \/ IdleWoken \/ IdleTimeout \/ IdleDone
    BY <2>4, SleepGrows DEF Inv
  <2> QED BY <2>1, <2>2, <2>3, <2>4 DEF LoopAction
<1>2. LoopInv' /\ Allowance' >= Allowance + (elapsed' - elapsed)
  BY <1>1 DEF Grows
<1>3. /\ sim_asynch_queue' = sim_asynch_queue /\ a_event_time' = a_event_time /\ a_due' = a_due
      /\ elapsed' = elapsed \/ elapsed' = elapsed + 1
  BY DEF LoopAction, CheckLoad, CheckStore, CheckRearm, ProcessEvents, Execute, Devices, ExecuteCall,
         ExecuteDone, IdleSleep, IdlePass, IdleWoken, IdleTimeout, IdleDone, OutOfTime, Kept, shared, vars
<1>4. elapsed \in Int /\ elapsed' \in Int /\ Allowance \in Int /\ Allowance' \in Int
  BY <1>2, <1>3, AllowanceBound, AllowancePrimed DEF Inv, TypeInv
<1>5. \A u \in Range(sim_asynch_queue) : u \in Unit /\ Age(u) \in Int /\ Age(u) <= Allowance
  BY AgeType, RangeFacts DEF Inv, TypeInv, PollInv
<1>6. \A u \in Unit : Age(u)' = Age(u) + (elapsed' - elapsed)
  <2>1. \A u \in Unit : a_due[u] - a_event_time[u] \in Int
    <3>1. a_due \in [Unit -> Int] /\ \A t \in Delay \cup {0} : t \in Nat
      BY AsynchDelayAssumption DEF Inv, TypeInv
    <3>2. \A u \in Unit : a_event_time[u] \in Delay \cup {0}
      BY DEF Inv, TypeInv
    <3>3. \A u \in Unit : a_event_time[u] \in Nat
      BY <3>1, <3>2, Zenon
    <3> QED BY <3>1, <3>3
  <2>2. \A d \in Int : elapsed' - d = (elapsed - d) + (elapsed' - elapsed)
    BY <1>4
  <2> QED BY <1>3, <2>1, <2>2 DEF Age
<1>7. \A a \in Int : a <= Allowance => a + (elapsed' - elapsed) <= Allowance'
  <2>1. \A x, y, m, n, a \in Int : y >= x + (n - m) /\ a <= x => a + (n - m) <= y
    OBVIOUS
  <2> QED BY <1>2, <1>4, <2>1, Zenon
<1>8. \A u \in Range(sim_asynch_queue') : Age(u)' <= Allowance'
  BY <1>3, <1>5, <1>6, <1>7
<1>9. \A u \in Unit : ~Some(stack', Holding(u))
  <2>1. CASE stack' = stack
    <3>1. Len(stack') = 0 /\ 1 .. Len(stack') = {}
      BY <2>1, LoopCalls DEF Inv
    <3> QED BY <3>1, Zenon DEF Some
  <2>2. CASE \E f \in Frame : f.kind = "call" /\ stack' = <<f>>
    <3>1. PICK f \in Frame : f.kind = "call" /\ stack' = <<f>>
      BY <2>2
    <3>2. \A u : f \notin Holding(u)
      BY <3>1, FrameCases
    <3>3. Len(stack') = 1 /\ \A i \in 1 .. Len(stack') : stack'[i] = f
      BY <3>1
    <3> QED BY <3>2, <3>3 DEF Some
  <2> QED BY <2>1, <2>2, LoopCalls DEF Inv
<1> QED BY <1>2, <1>8, <1>9 DEF PollInv

\* A thread stores 0 in sim_asynch_check; the main thread may overwrite it, but no request gets older.
LEMMA PollThreads ==
  ASSUME Inv, LostInv, LoopInv, PollInv, Threads
  PROVE  LoopInv' /\ PollInv'
<1>1. PICK u \in Unit, t \in Delay, call \in {"activate", "abs"} : Post(u, call, t)
  BY DEF Threads
<1>2. /\ sim_asynch_check' = 0 /\ seen' = seen /\ slept' = slept /\ loop' = loop /\ stack' = stack /\ elapsed' = elapsed
      /\ sim_idle_wait' = IF sim_idle_wait = "waiting" THEN "signalled" ELSE sim_idle_wait
  BY <1>1 DEF Post
<1>3. sim_asynch_check \in -1 .. Latency /\ Latency \in Nat
  BY SpanFacts DEF LoopInv
<1>4. LoopInv'
  <2>1. 0 \in -1 .. Latency /\ 0 >= 0
    BY <1>3
  <2>2. /\ sim_idle_wait' \in {"no", "waiting", "signalled"}
        /\ (sim_idle_wait' = "no") <=> (sim_idle_wait = "no")
    BY <1>2 DEF LoopInv
  <2>3. \A x : Stage(x)' <=> Stage(x)
    BY <1>2 DEF Stage, Bottom
  <2> QED BY <1>2, <2>1, <2>2, <2>3 DEF LoopInv
<1>5. Allowance' >= Allowance
  <2> DEFINE c == sim_asynch_check
  <2>0. sim_asynch_check' = 0 /\ seen' = seen /\ slept' = slept /\ loop' = loop
    BY <1>2
  <2>1. \A x, y \in Int : x <= y => Span(x) <= Span(y) /\ Span(x) \in Int /\ Span(y) \in Int
    BY SpanFacts, Zenon
  <2>2. MaxIdle \in Nat /\ slept \in Int /\ Allowance \in Int
    BY SpanFacts, AllowanceBound DEF Inv, TypeInv
  <2>3. /\ Latency + 1 - c \in Int /\ Latency + 1 - 0 \in Int /\ Latency - c \in Int /\ Latency - 0 \in Int
        /\ c >= 0 => Latency + 1 - c <= Latency + 1 - 0 /\ Latency - c <= Latency - 0
    BY <1>3
  <2> DEFINE S(n) == Span(Latency + 1 - n)
             P(n) == Span(Latency - n)
  <2>4. S(c) \in Int /\ S(0) \in Int /\ P(c) \in Int /\ P(0) \in Int
    BY <2>3, SpanFacts
  <2>5. c >= 0 => S(c) <= S(0) /\ P(c) <= P(0)
    BY <2>1, <2>3
  <2> HIDE DEF S, P
  <2>6. CASE loop \in {"rearm", "store"}
    <3>1. Allowance' = Allowance
      <4>1. Stage(<<"update">>)' <=> Stage(<<"update">>)
        BY <1>2 DEF Stage, Bottom
      <4>2. CASE loop = "store"
        <5>1. loop' = "store" /\ seen' = seen
          BY <1>2, <4>2
        <5> QED BY <4>2, <5>1, AllowedIs DEF Allowance
      <4>3. CASE loop = "rearm"
        <5>1. loop' = "rearm"
          BY <1>2, <4>3
        <5> QED BY <4>1, <4>3, <5>1, Zenon DEF Allowance, Allowed
      <4> QED BY <2>6, <4>2, <4>3
    <3> QED BY <2>2, <3>1
  <2>7. CASE loop = "check"
    <3>1. loop' = "check" /\ c >= 0
      BY <1>2, <2>7 DEF LoopInv
    <3>2. Allowance = S(c) /\ Allowance' = S(0)
      BY <2>0, <2>7, <3>1, AllowedIs DEF Allowance, S
    <3> QED BY <2>4, <2>5, <3>1, <3>2
  <2>8. CASE loop \in {"process", "execute"}
    <3>1. loop' = loop /\ c >= 0
      BY <1>2, <2>8 DEF LoopInv
    <3>2. Allowance = P(c) /\ Allowance' = P(0)
      <4>1. CASE loop = "process"
        BY <2>0, <4>1, AllowedIs DEF Allowance, P
      <4>2. CASE loop = "execute"
        BY <2>0, <4>2, AllowedIs DEF Allowance, P
      <4> QED BY <2>8, <4>1, <4>2
    <3> QED BY <2>4, <2>5, <3>1, <3>2
  <2>9. CASE loop = "device"
    <3>1. loop' = "device" /\ c >= 0
      BY <1>2, <2>9 DEF LoopInv
    <3>2. Allowance = S(c) - MaxIdle /\ Allowance' = S(0) - MaxIdle
      BY <2>0, <2>9, <3>1, AllowedIs DEF Allowance, S
    <3> QED BY <2>2, <2>4, <2>5, <3>1, <3>2
  <2>10. CASE loop \in {"sleep", "idled"}
    <3>1. loop' = loop /\ c >= 0
      BY <1>2, <2>10 DEF LoopInv
    <3>2. Allowance = S(c) - MaxIdle + slept /\ Allowance' = S(0) - MaxIdle + slept
      <4>1. CASE loop = "sleep"
        BY <2>0, <4>1, AllowedIs DEF Allowance, S
      <4>2. CASE loop = "idled"
        BY <2>0, <4>2, AllowedIs DEF Allowance, S
      <4> QED BY <2>10, <4>1, <4>2
    <3> QED BY <2>2, <2>4, <2>5, <3>1, <3>2
  <2> QED BY <2>6, <2>7, <2>8, <2>9, <2>10 DEF LoopInv
<1>6. /\ \A v : v \in Range(sim_asynch_queue') => v \in Range(sim_asynch_queue) \/ (v = u /\ ~Linked(u))
      /\ \/ Linked(u) /\ a_due' = a_due /\ a_event_time' = a_event_time
         \/ ~Linked(u) /\ a_due' = [a_due EXCEPT ![u] = elapsed + t] /\ a_event_time' = [a_event_time EXCEPT ![u] = t]
  BY <1>1, PostLists
<1>7. Allowance \in Int /\ Allowance' \in Int /\ 0 <= Allowance'
  BY <1>4, AllowanceBound, AllowancePrimed
<1>8. \A v \in Unit : v # u \/ Linked(u) => Age(v)' = Age(v)
  <2>1. a_due \in [Unit -> Int] /\ a_event_time \in [Unit -> Delay \cup {0}]
    BY DEF Inv, TypeInv
  <2>2. \A v \in Unit : v # u \/ Linked(u) => a_due'[v] = a_due[v] /\ a_event_time'[v] = a_event_time[v]
    BY <1>6, <2>1
  <2> QED BY <1>2, <2>2, Zenon DEF Age
<1>9. ~Linked(u) => Age(u)' = 0
  <2>1. elapsed \in Nat /\ t \in Nat /\ a_due \in [Unit -> Int] /\ a_event_time \in [Unit -> Delay \cup {0}]
    BY AsynchDelayAssumption DEF Inv, TypeInv
  <2>2. ~Linked(u) => a_due'[u] = elapsed + t /\ a_event_time'[u] = t
    BY <1>6, <2>1
  <2>3. \A x, y, z : x = elapsed /\ y = elapsed + t /\ z = t => x - (y - z) = 0
    BY <2>1
  <2>4. elapsed' = elapsed
    BY <1>2
  <2>5. ~Linked(u) => elapsed' - (a_due'[u] - a_event_time'[u]) = 0
    BY <2>2, <2>3, <2>4, Zenon
  <2> QED BY <2>5 DEF Age
<1>10. \A v \in Range(sim_asynch_queue) : v \in Unit /\ Age(v) \in Int /\ Age(v) <= Allowance
  BY AgeType, RangeFacts DEF Inv, TypeInv, PollInv
<1>11. \A a \in Int : a <= Allowance => a <= Allowance'
  BY <1>5, <1>7
<1>12. \A v \in Range(sim_asynch_queue') : Age(v)' <= Allowance'
  <2>1. ASSUME NEW v \in Range(sim_asynch_queue), v # u \/ Linked(u) PROVE Age(v)' <= Allowance'
    BY <1>8, <1>10, <1>11, <2>1
  <2>2. ~Linked(u) => Age(u)' <= Allowance'
    BY <1>7, <1>9
  <2> QED BY <1>6, <2>1, <2>2, Zenon
<1>13. \A v \in Unit : Some(stack', Holding(v)) => Age(v)' <= PollBound
  <2>1. \A v \in Unit : Some(stack, Holding(v)) => Linked(v)
    BY LinkedIs DEF Inv
  <2> QED BY <1>2, <1>8, <2>1 DEF PollInv
<1> QED BY <1>4, <1>12, <1>13 DEF PollInv

\* The three inductive invariants of the request's way, together.
RequestInv == Inv /\ LostInv /\ LoopInv /\ PollInv

\* They hold, for any latency and however long the simulator sleeps.
THEOREM RequestInvariant == Spec => []RequestInv
<1>1. Init => RequestInv
  <2> SUFFICES ASSUME Init PROVE RequestInv
    OBVIOUS
  <2>1. Inv /\ LostInv
    BY ListsInit
  <2>2. LoopInv
    <3>1. Latency \in Nat /\ MaxIdle \in Nat
      BY SpanFacts
    <3>2. 0 \in -1 .. Latency /\ 0 \in 0 .. Latency /\ 0 \in 0 .. MaxIdle /\ 0 >= 0
      BY <3>1
    <3> QED BY <3>2 DEF Init, LoopInv
  <2>3. PollInv
    <3>1. stack = <<>> /\ sim_asynch_queue = <<>> /\ sim_asynch_queue \in Seq(Unit)
      BY DEF Init
    <3>2. Range(sim_asynch_queue) = {}
      BY <3>1, RangeFacts, Zenon
    <3>3. 1 .. Len(stack) = {}
      BY <3>1
    <3>4. \A u : ~Some(stack, Holding(u))
      BY <3>3, Zenon DEF Some
    <3> QED BY <3>2, <3>4 DEF PollInv
  <2> QED BY <2>1, <2>2, <2>3 DEF RequestInv
<1>2. RequestInv /\ [Next]_vars => RequestInv'
  <2> SUFFICES ASSUME RequestInv, [Next]_vars PROVE RequestInv'
    OBVIOUS
  <2>1. Inv /\ LostInv /\ LoopInv /\ PollInv
    BY DEF RequestInv
  <2>2. Inv' /\ LostInv'
    BY <2>1, ListsStep
  <2>3. CASE CallAction
    BY <2>1, <2>2, <2>3, PollCalls DEF RequestInv
  <2>4. CASE LoopAction
    BY <2>1, <2>2, <2>4, PollLoop DEF RequestInv
  <2>5. CASE Threads
    BY <2>1, <2>2, <2>5, PollThreads DEF RequestInv
  <2>6. CASE UNCHANGED vars
    <3>1. LoopInv'
      BY <2>1, <2>6 DEF vars, LoopInv, Stage, Bottom
    <3>2. Allowance' = Allowance /\ \A u : Age(u)' = Age(u)
      BY <2>6, Zenon DEF vars, shared, Allowance, Stage, Bottom, Age
    <3>3. PollInv'
      BY <2>1, <2>6, <3>2 DEF vars, shared, PollInv
    <3> QED BY <2>2, <3>1, <3>3 DEF RequestInv
  <2> QED BY <2>3, <2>4, <2>5, <2>6 DEF Next, Main, CallAction, LoopAction
<1> QED BY <1>1, <1>2, PTL DEF Spec

\* A request waits no longer than Latency + 1 instructions, each with the sleep that may follow it,
\* before sim_aio_update_queue and the migration reach it, although the main thread's decrement of
\* sim_asynch_check may overwrite the 0 that the thread has stored.
THEOREM RequestsAreMigratedInTime == Spec => []MigratedInTime
<1>1. RequestInv => MigratedInTime
  <2> SUFFICES ASSUME RequestInv, NEW u \in Unit, Linked(u)
               PROVE  elapsed - (a_due[u] - a_event_time[u]) <= PollBound
    BY DEF MigratedInTime
  <2>1. u \in Range(sim_asynch_queue) \/ Some(stack, Holding(u))
    BY LinkedIs DEF RequestInv, Inv
  <2>2. Age(u) \in Int
    BY AgeType DEF RequestInv, Inv
  <2>3. Allowance \in Int /\ Allowance <= PollBound /\ PollBound \in Nat
    BY AllowanceBound, SpanFacts DEF RequestInv
  <2>4. Age(u) <= Allowance \/ Age(u) <= PollBound
    BY <2>1 DEF RequestInv, PollInv
  <2>5. Age(u) <= PollBound
    BY <2>2, <2>3, <2>4
  <2> QED BY <2>5 DEF Age
<1> QED BY <1>1, RequestInvariant, PTL

\* The variables keep their types: the poll counter stays between -1 and the latency, and a thread
\* finds the main thread waiting to be woken only while it sleeps.
THEOREM TypeCorrect == Spec => []TypeOK
<1>1. RequestInv => TypeOK
  BY DEF RequestInv, Inv, TypeInv, LoopInv, TypeOK, Good
<1> QED BY <1>1, RequestInvariant, PTL

=============================================================================
