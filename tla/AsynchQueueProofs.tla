-------------------------- MODULE AsynchQueueProofs --------------------------
(***************************************************************************)
(* Proofs about the asynchronous queue, for any units, waits, latency and  *)
(* bounds.  The invariants follow the stack of the main thread: ListInv    *)
(* says who holds a unit, LostInv where a request is.  PollInv, how long   *)
(* it may have been waiting, and TimeInv, which relates the event queue to *)
(* the instructions executed, are proved in AsynchPollProofs and           *)
(* AsynchTimeProofs.                                                       *)
(***************************************************************************)
EXTENDS AsynchQueue, ClockQueueProofs

-----------------------------------------------------------------------------
(* Activation records.                                                     *)

\* The steps of calls made for a unit; sim_cancel's early return skips no more
\* than the last step of sim_cancel.
UnitStep == {"update", "update unless empty", "cancel", "insert", "request", "completion"}
Orderly(todo) ==
  \A i \in 1 .. Len(todo) :
    todo[i] = "update unless empty" => i < Len(todo) /\ todo[i + 1] = "cancel"

\* The steps of calls made by the instruction loop.
LoopStep == {"update", "dispatch", "loop test"}

\* The call has still to put its unit on the event queue.
Inserts(todo) == \E i \in 1 .. Len(todo) : todo[i] \in {"insert", "request"}

MigrationFrame == {f \in [kind : {"migrate"}, rest : Seq(Unit)] : IsInjective(f.rest)}
UnitFrame ==
  {f \in [kind : {"call"}, unit : Unit, wait : Int, due : Int, todo : Seq(UnitStep)] : Orderly(f.todo)}
LoopFrame == [kind : {"call"}, unit : {NoUnit}, wait : Int, due : Int, todo : Seq(LoopStep)]
Frame == MigrationFrame \cup UnitFrame \cup LoopFrame

\* The records that hold u in a detached list, those that are calls for u, and
\* the calls that will insert it.
Holding(u) == {f \in MigrationFrame : u \in Range(f.rest)}
Calling(u) == {f \in UnitFrame : f.unit = u}
Inserting(u) == {f \in UnitFrame : f.unit = u /\ Inserts(f.todo)}

Some(s, A) == \E i \in 1 .. Len(s) : s[i] \in A

Push(f, s) == <<f>> \o s

\* No migration holds a unit that a record above it holds or is a call for.
Nested(s) ==
  \A i, j \in 1 .. Len(s), u \in Unit :
    i < j /\ s[i] \in Holding(u) \cup Calling(u) => s[j] \notin Holding(u)

-----------------------------------------------------------------------------
(* The inductive invariants.                                               *)

TypeInv ==
  /\ Good(clock) /\ sim_asynch_queue \in Seq(Unit) /\ stack \in Seq(Frame)
  /\ a_event_time \in [Unit -> Delay \cup {0}] /\ a_activate_call \in [Unit -> {"activate", "abs"}]
  /\ a_due \in [Unit -> Int] /\ promise \in [Unit -> Int]
  /\ elapsed \in Nat /\ slept \in Nat /\ early \in Int /\ wanted \subseteq Unit

ListInv ==
  /\ IsInjective(sim_asynch_queue)
  /\ \A u \in Range(sim_asynch_queue) : ~Some(stack, Holding(u))
  /\ Nested(stack)

LostInv ==
  \A u \in wanted :
    \/ u \in Range(sim_asynch_queue) \/ Some(stack, Holding(u))
    \/ Queued(clock, u) \/ Some(stack, Inserting(u))

\* The record of the call the instruction loop is in.
Bottom == stack[Len(stack)]
Stage(t) == stack # <<>> /\ Bottom.kind = "call" /\ Bottom.todo = t

\* How long ago the request for a unit that is still linked may have been made.
Age(u) == elapsed - (a_due[u] - a_event_time[u])
Span(n) == n * (1 + MaxIdle)
Allowed(where, check, load, asleep, updating) ==
  CASE where = "check" -> Span(Latency + 1 - check)
    [] where = "store" -> Span(Latency + 1 - load)
    [] where \in {"process", "execute"} -> Span(Latency - check)
    [] where = "device" -> Span(Latency + 1 - check) - MaxIdle
    [] where \in {"sleep", "idled"} -> Span(Latency + 1 - check) - MaxIdle + asleep
    [] OTHER -> IF updating THEN PollBound ELSE 0
Allowance == Allowed(loop, sim_asynch_check, seen, slept, Stage(<<"update">>))

LoopInv ==
  /\ loop \in {"check", "store", "rearm", "process", "execute", "device", "sleep", "idled"}
  /\ sim_asynch_check \in -1 .. Latency /\ seen \in 0 .. Latency /\ slept \in 0 .. MaxIdle
  /\ loop # "rearm" => sim_asynch_check >= 0
  /\ loop \notin {"sleep", "idled"} => slept = 0
  /\ sim_idle_wait \in {"no", "waiting", "signalled"}
  /\ (sim_idle_wait = "no") <=> (loop # "sleep")
  /\ loop = "rearm" /\ stack # <<>> => Stage(<<"update">>) \/ Stage(<<>>)

PollInv ==
  /\ \A u \in Range(sim_asynch_queue) : Age(u) <= Allowance
  /\ \A u \in Unit : Some(stack, Holding(u)) => Age(u) <= PollBound

\* The calls of the instruction loop: those that have served an event, those that
\* serve events, and the others.
Looping == {f \in LoopFrame : f.todo \in {<<"update", "loop test">>, <<"loop test">>}}
Serving == {f \in LoopFrame : f.todo \in {ProcessSteps, <<"dispatch">>}} \cup Looping
Polling == {f \in LoopFrame : f.todo \in {<<"update">>, <<>>}}

\* What a call knows about the time it asks for.
Timely(t) ==
  MigrationFrame \cup
  {f \in UnitFrame : f.wait >= 0 /\ f.due <= t + f.wait + Half} \cup
  {f \in Serving \cup Polling : f.wait = 0}
Sound(s, t) == \A i \in 1 .. Len(s) : s[i] \in Timely(t) /\ (s[i] \in LoopFrame => i = Len(s))

\* The event queue keeps the time, and its promises up to half the latency.
Punctual ==
  /\ SimGtime(clock) = elapsed /\ clock.interval >= 0 /\ early <= Half
  /\ \A i \in 1 .. Len(clock.queue) : promise[clock.queue[i]] <= DueAt(clock, i) + Half

\* An instruction is executed when nothing is due: the loop is serving events, or
\* has nothing left to serve.
Serves(s) == s # <<>> /\ s[Len(s)] \in Serving
Returns(s) == s # <<>> => Tail(s) = <<>> /\ s[1].kind = "call" /\ s[1].todo = <<>>
Ready == loop = "execute" => Serves(stack) \/ (Returns(stack) /\ clock.interval > 0)

TimeInv ==
  /\ slept = 0 /\ Punctual /\ Ready
  /\ \A u \in Unit : a_due[u] <= elapsed + a_event_time[u]
  /\ Sound(stack, elapsed)
  /\ Some(stack, Looping) => clock.interval = HeadTime(clock)

-----------------------------------------------------------------------------
(* The stack.                                                              *)

\* Calling pushes a record.
LEMMA PushFacts ==
  ASSUME NEW S, NEW s \in Seq(S), NEW f \in S
  PROVE  /\ Push(f, s) \in Seq(S) /\ Len(Push(f, s)) = Len(s) + 1 /\ Len(s) \in Nat
         /\ Push(f, s)[1] = f /\ \A i \in 1 .. Len(s) : Push(f, s)[i + 1] = s[i]
         /\ Push(f, s) # <<>>
BY DEF Push

\* Returning drops it.
LEMMA PopFacts ==
  ASSUME NEW S, NEW s \in Seq(S), s # <<>>
  PROVE  /\ s[1] \in S /\ Tail(s) \in Seq(S) /\ Len(Tail(s)) = Len(s) - 1
         /\ Len(s) \in Nat \ {0} /\ \A i \in 1 .. Len(s) - 1 : Tail(s)[i] = s[i + 1]
OBVIOUS

\* A record of a kind is on the stack after a call.
LEMMA SomePush ==
  ASSUME NEW S, NEW s \in Seq(S), NEW f \in S, NEW A
  PROVE  Some(Push(f, s), A) <=> f \in A \/ Some(s, A)
<1> DEFINE p == Push(f, s)
<1>1. /\ Len(p) = Len(s) + 1 /\ Len(s) \in Nat /\ p[1] = f
      /\ \A i \in 1 .. Len(s) : p[i + 1] = s[i]
  BY PushFacts
<1> HIDE DEF p
<1>2. ASSUME NEW i \in 1 .. Len(p), p[i] \in A PROVE f \in A \/ Some(s, A)
  <2>1. CASE i = 1
    BY <1>1, <1>2, <2>1
  <2>2. CASE i # 1
    <3>1. i - 1 \in 1 .. Len(s) /\ p[(i - 1) + 1] = s[i - 1] /\ (i - 1) + 1 = i
      BY <1>1, <2>2
    <3> QED BY <1>2, <3>1 DEF Some
  <2> QED BY <2>1, <2>2
<1>3. ASSUME f \in A PROVE Some(p, A)
  BY <1>1, <1>3 DEF Some
<1>4. ASSUME NEW i \in 1 .. Len(s), s[i] \in A PROVE Some(p, A)
  <2>1. i + 1 \in 1 .. Len(p) /\ p[i + 1] \in A
    BY <1>1, <1>4
  <2> QED BY <2>1 DEF Some
<1> QED BY <1>2, <1>3, <1>4 DEF Some, p

\* The same before a return.
LEMMA SomePop ==
  ASSUME NEW S, NEW s \in Seq(S), s # <<>>, NEW A
  PROVE  Some(s, A) <=> s[1] \in A \/ Some(Tail(s), A)
<1> DEFINE r == Tail(s)
<1>1. /\ Len(s) = Len(r) + 1 /\ Len(r) \in Nat /\ \A i \in 1 .. Len(r) : s[i + 1] = r[i]
  BY PopFacts
<1> HIDE DEF r
<1>2. ASSUME NEW i \in 1 .. Len(s), s[i] \in A PROVE s[1] \in A \/ Some(r, A)
  <2>1. CASE i = 1
    BY <1>1, <1>2, <2>1
  <2>2. CASE i # 1
    <3>1. i - 1 \in 1 .. Len(r) /\ s[(i - 1) + 1] = r[i - 1] /\ (i - 1) + 1 = i
      BY <1>1, <2>2
    <3> QED BY <1>2, <3>1 DEF Some
  <2> QED BY <2>1, <2>2
<1>3. ASSUME s[1] \in A PROVE Some(s, A)
  BY <1>1, <1>3 DEF Some
<1>4. ASSUME NEW i \in 1 .. Len(r), r[i] \in A PROVE Some(s, A)
  <2>1. i + 1 \in 1 .. Len(s) /\ s[i + 1] \in A
    BY <1>1, <1>4
  <2> QED BY <2>1 DEF Some
<1> QED BY <1>2, <1>3, <1>4 DEF Some, r

\* A call keeps the nesting if no migration holds what it holds or is for.
LEMMA NestedPush ==
  ASSUME NEW S, NEW s \in Seq(S), NEW f \in S, Nested(s),
         \A u \in Unit : f \in Holding(u) \cup Calling(u) => ~Some(s, Holding(u))
  PROVE  Nested(Push(f, s))
<1> DEFINE p == Push(f, s)
           Own(u) == Holding(u) \cup Calling(u)
<1>1. /\ Len(p) = Len(s) + 1 /\ Len(s) \in Nat /\ p[1] = f
      /\ \A i \in 1 .. Len(s) : p[i + 1] = s[i]
  BY PushFacts
<1>2. \A u \in Unit : f \in Own(u) => \A j \in 1 .. Len(s) : s[j] \notin Holding(u)
  BY DEF Some
<1>3. \A i, j \in 1 .. Len(s), u \in Unit : i < j /\ s[i] \in Own(u) => s[j] \notin Holding(u)
  BY DEF Nested
<1> HIDE DEF p, Own
<1>4. SUFFICES ASSUME NEW i \in 1 .. Len(p), NEW j \in 1 .. Len(p), NEW u \in Unit, i < j, p[i] \in Own(u)
               PROVE  p[j] \notin Holding(u)
  BY DEF Nested, p, Own
<1>5. j - 1 \in 1 .. Len(s) /\ p[j] = s[j - 1]
  <2>1. j - 1 \in 1 .. Len(s) /\ (j - 1) + 1 = j
    BY <1>1, <1>4
  <2>2. p[(j - 1) + 1] = s[j - 1]
    BY <1>1, <2>1
  <2> QED BY <2>1, <2>2
<1>6. CASE i = 1
  BY <1>1, <1>2, <1>4, <1>5, <1>6
<1>7. CASE i # 1
  <2>1. i - 1 \in 1 .. Len(s) /\ (i - 1) + 1 = i /\ i - 1 < j - 1
    BY <1>1, <1>4, <1>7
  <2>2. p[(i - 1) + 1] = s[i - 1]
    BY <1>1, <2>1
  <2> QED BY <1>3, <1>4, <1>5, <2>1, <2>2
<1> QED BY <1>6, <1>7

\* A return keeps it, and the migrations below held nothing the call was for.
LEMMA NestedPop ==
  ASSUME NEW S, NEW s \in Seq(S), s # <<>>, Nested(s)
  PROVE  /\ Nested(Tail(s))
         /\ \A u \in Unit : s[1] \in Holding(u) \cup Calling(u) => ~Some(Tail(s), Holding(u))
<1> DEFINE r == Tail(s)
           Own(u) == Holding(u) \cup Calling(u)
<1>1. /\ Len(s) = Len(r) + 1 /\ Len(r) \in Nat /\ \A i \in 1 .. Len(r) : r[i] = s[i + 1]
  BY PopFacts
<1>2. \A i, j \in 1 .. Len(s), u \in Unit : i < j /\ s[i] \in Own(u) => s[j] \notin Holding(u)
  BY DEF Nested
<1> HIDE DEF r, Own
<1>3. \A i \in 1 .. Len(r) : i + 1 \in 1 .. Len(s) /\ 1 < i + 1 /\ 1 \in 1 .. Len(s)
  BY <1>1
<1>4. \A i, j \in 1 .. Len(r) : i < j => i + 1 < j + 1
  BY <1>1
<1>5. \A i, j \in 1 .. Len(r), u \in Unit : i < j /\ r[i] \in Own(u) => r[j] \notin Holding(u)
  BY <1>1, <1>2, <1>3, <1>4
<1>6. \A u \in Unit : s[1] \in Own(u) => \A j \in 1 .. Len(r) : r[j] \notin Holding(u)
  BY <1>1, <1>2, <1>3
<1> QED BY <1>5, <1>6 DEF Nested, Some, r, Own

-----------------------------------------------------------------------------
(* The records.                                                            *)

\* A migration.
LEMMA MigrationIs ==
  ASSUME NEW list \in Seq(Unit), IsInjective(list)
  PROVE  LET f == Migration(list) IN
         /\ f \in MigrationFrame /\ f \in Frame /\ f \notin LoopFrame /\ f.kind = "migrate" /\ f.rest = list
         /\ \A u : (f \in Holding(u) <=> u \in Range(list)) /\ f \notin Calling(u) /\ f \notin Inserting(u)
<1> DEFINE f == Migration(list)
<1>1. f.kind = "migrate" /\ f.rest = list /\ f \in [kind : {"migrate"}, rest : Seq(Unit)]
  BY DEF Migration
<1> HIDE DEF f
<1>2. f \in MigrationFrame
  BY <1>1 DEF MigrationFrame
<1>3. f \notin UnitFrame /\ f \notin LoopFrame
  BY <1>1 DEF UnitFrame, LoopFrame
<1> QED BY <1>1, <1>2, <1>3 DEF Frame, Holding, Calling, Inserting, f

\* A call made for a unit.
LEMMA UnitCallIs ==
  ASSUME NEW u \in Unit, NEW t \in Int, NEW due \in Int, NEW todo \in Seq(UnitStep), Orderly(todo)
  PROVE  LET f == CallOf(u, t, due, todo) IN
         /\ f \in UnitFrame /\ f \in Frame /\ f \notin LoopFrame /\ f.kind = "call"
         /\ f.unit = u /\ f.wait = t /\ f.due = due /\ f.todo = todo
         /\ \A v : /\ f \notin Holding(v) /\ (f \in Calling(v) <=> v = u)
                   /\ (f \in Inserting(v) <=> v = u /\ Inserts(todo))
<1> DEFINE f == CallOf(u, t, due, todo)
<1>1. /\ f.kind = "call" /\ f.unit = u /\ f.wait = t /\ f.due = due /\ f.todo = todo
      /\ f \in [kind : {"call"}, unit : Unit, wait : Int, due : Int, todo : Seq(UnitStep)]
  BY DEF CallOf
<1> HIDE DEF f
<1>2. f \in UnitFrame
  BY <1>1 DEF UnitFrame
<1>3. f \notin MigrationFrame /\ f \notin LoopFrame
  BY <1>1, NoUnitAssumption DEF MigrationFrame, LoopFrame
<1> QED BY <1>1, <1>2, <1>3 DEF Frame, Holding, Calling, Inserting, f

\* A call made by the instruction loop.
LEMMA LoopCallIs ==
  ASSUME NEW t \in Int, NEW due \in Int, NEW todo \in Seq(LoopStep)
  PROVE  LET f == CallOf(NoUnit, t, due, todo) IN
         /\ f \in LoopFrame /\ f \in Frame /\ f \notin UnitFrame /\ f.kind = "call"
         /\ f.wait = t /\ f.todo = todo
         /\ \A v : f \notin Holding(v) /\ f \notin Calling(v) /\ f \notin Inserting(v)
<1> DEFINE f == CallOf(NoUnit, t, due, todo)
<1>1. /\ f.kind = "call" /\ f.unit = NoUnit /\ f.wait = t /\ f.todo = todo /\ f \in LoopFrame
  BY DEF CallOf, LoopFrame
<1> HIDE DEF f
<1>2. f \notin MigrationFrame /\ f \notin UnitFrame
  BY <1>1, NoUnitAssumption DEF MigrationFrame, UnitFrame
<1> QED BY <1>1, <1>2 DEF Frame, Holding, Calling, Inserting, f

\* Which record it is shows in its kind and its unit.
LEMMA FrameCases ==
  ASSUME NEW f \in Frame
  PROVE  /\ f.kind = "migrate" \/ f.kind = "call"
         /\ f.kind = "migrate" =>
              /\ f \in MigrationFrame /\ f \notin LoopFrame /\ f.rest \in Seq(Unit) /\ IsInjective(f.rest)
              /\ \A u : (f \in Holding(u) <=> u \in Range(f.rest)) /\ f \notin Calling(u) /\ f \notin Inserting(u)
         /\ f.kind = "call" =>
              /\ f \in UnitFrame \/ f \in LoopFrame
              /\ f.wait \in Int /\ f.due \in Int /\ f.unit \in Unit \cup {NoUnit}
              /\ \A u : f \notin Holding(u)
              /\ f.unit \in Unit => f \in UnitFrame /\ f \notin LoopFrame /\ f.todo \in Seq(UnitStep) /\ Orderly(f.todo)
              /\ f.unit = NoUnit => f \in LoopFrame /\ f \notin UnitFrame /\ f.todo \in Seq(LoopStep)
              /\ \A u \in Unit : /\ f \in Calling(u) <=> f.unit = u
                                 /\ f \in Inserting(u) <=> f.unit = u /\ Inserts(f.todo)
<1>1. CASE f \in MigrationFrame
  <2>1. f.kind = "migrate" /\ f.rest \in Seq(Unit) /\ IsInjective(f.rest)
    BY <1>1 DEF MigrationFrame
  <2>2. f \notin UnitFrame /\ f \notin LoopFrame
    BY <2>1 DEF UnitFrame, LoopFrame
  <2> QED BY <1>1, <2>1, <2>2 DEF Holding, Calling, Inserting
<1>2. CASE f \in UnitFrame
  <2>1. /\ f.kind = "call" /\ f.unit \in Unit /\ f.wait \in Int /\ f.due \in Int
        /\ f.todo \in Seq(UnitStep) /\ Orderly(f.todo)
    BY <1>2 DEF UnitFrame
  <2>2. f \notin MigrationFrame /\ f \notin LoopFrame /\ f.unit # NoUnit
    BY <2>1, NoUnitAssumption DEF MigrationFrame, LoopFrame
  <2> QED BY <1>2, <2>1, <2>2 DEF Holding, Calling, Inserting
<1>3. CASE f \in LoopFrame
  <2>1. /\ f.kind = "call" /\ f.unit = NoUnit /\ f.wait \in Int /\ f.due \in Int
        /\ f.todo \in Seq(LoopStep)
    BY <1>3 DEF LoopFrame
  <2>2. f \notin MigrationFrame /\ f \notin UnitFrame /\ f.unit \notin Unit
    BY <2>1, NoUnitAssumption DEF MigrationFrame, UnitFrame
  <2> QED BY <1>3, <2>1, <2>2 DEF Holding, Calling, Inserting
<1> QED BY <1>1, <1>2, <1>3 DEF Frame

\* Going on with a call.
LEMMA CallGoesOn ==
  ASSUME NEW f \in Frame, f.kind = "call", NEW todo, NEW k
  PROVE  /\ [f EXCEPT !.todo = todo] = CallOf(f.unit, f.wait, f.due, todo)
         /\ [f EXCEPT !.todo = todo, !.wait = k] = CallOf(f.unit, k, f.due, todo)
<1>1. f \in UnitFrame \/ f \in LoopFrame
  BY FrameCases
<1>2. f = CallOf(f.unit, f.wait, f.due, f.todo)
  <2>1. CASE f \in UnitFrame
    BY <2>1 DEF UnitFrame, CallOf
  <2>2. CASE f \in LoopFrame
    BY <2>2 DEF LoopFrame, CallOf
  <2> QED BY <1>1, <2>1, <2>2
<1> DEFINE g == CallOf(f.unit, f.wait, f.due, todo)
<1>3. [f EXCEPT !.todo = todo] = g
  <2>1. \A u, w, d, t0 : [CallOf(u, w, d, t0) EXCEPT !.todo = todo] = CallOf(u, w, d, todo)
    BY SMT DEF CallOf
  <2> QED BY <1>2, <2>1
<1>4. [g EXCEPT !.wait = k] = CallOf(f.unit, k, f.due, todo)
  <2>1. \A u, w, d, t0 : [CallOf(u, w, d, todo) EXCEPT !.wait = k] = CallOf(u, k, d, todo)
    BY SMT DEF CallOf
  <2> QED BY <2>1
<1>5. [f EXCEPT !.todo = todo, !.wait = k] = [[f EXCEPT !.todo = todo] EXCEPT !.wait = k]
  OBVIOUS
<1> QED BY <1>3, <1>4, <1>5, Zenon

\* The steps a call has left after one of them.
LEMMA TodoTail ==
  ASSUME NEW T, NEW todo \in Seq(T), todo # <<>>
  PROVE  /\ Tail(todo) \in Seq(T) /\ Head(todo) = todo[1] /\ todo[1] \in T
         /\ Orderly(todo) => Orderly(Tail(todo))
         /\ Inserts(todo) <=> todo[1] \in {"insert", "request"} \/ Inserts(Tail(todo))
<1> DEFINE r == Tail(todo)
<1>1. /\ r \in Seq(T) /\ Len(todo) = Len(r) + 1 /\ Len(r) \in Nat /\ todo[1] \in T /\ Head(todo) = todo[1]
      /\ \A i \in 1 .. Len(r) : r[i] = todo[i + 1]
  BY PopFacts
<1> HIDE DEF r
<1>2. ASSUME Orderly(todo), NEW i \in 1 .. Len(r), r[i] = "update unless empty"
      PROVE  i < Len(r) /\ r[i + 1] = "cancel"
  <2>1. i + 1 \in 1 .. Len(todo)
    BY <1>1
  <2>4. todo[i + 1] = "update unless empty"
    BY <1>1, <1>2, Zenon
  <2>2. i + 1 < Len(todo) /\ todo[(i + 1) + 1] = "cancel"
    BY <1>2, <2>1, <2>4, Zenon DEF Orderly
  <2>3. i < Len(r) /\ i + 1 \in 1 .. Len(r)
    BY <1>1, <2>2
  <2> QED BY <1>1, <2>2, <2>3
<1>3. Some(todo, {"insert", "request"}) <=> todo[1] \in {"insert", "request"} \/ Some(r, {"insert", "request"})
  BY SomePop DEF r
<1> QED BY <1>1, <1>2, <1>3, Zenon DEF Orderly, Inserts, Some, r

\* One sequence of steps after another.
LEMMA JoinFacts ==
  ASSUME NEW S, NEW a \in Seq(S), NEW b \in Seq(S)
  PROVE  /\ a \o b \in Seq(S) /\ Len(a \o b) = Len(a) + Len(b) /\ Len(a) \in Nat /\ Len(b) \in Nat
         /\ \A i \in 1 .. Len(a) : (a \o b)[i] = a[i]
         /\ \A i \in 1 .. Len(b) : (a \o b)[Len(a) + i] = b[i]
OBVIOUS

\* The steps of the calls.
LEMMA StepsFacts ==
  /\ \A steps \in {ActivateSteps, CancelSteps, AbsSteps} : steps \in Seq(UnitStep) /\ Orderly(steps)
  /\ Inserts(ActivateSteps) /\ Inserts(AbsSteps)
  /\ <<"request", "completion">> \in Seq(UnitStep) /\ Orderly(<<"request", "completion">>)
  /\ Inserts(<<"request", "completion">>)
  /\ ProcessSteps \in Seq(LoopStep) /\ <<"update">> \in Seq(LoopStep) /\ <<"update", "loop test">> \in Seq(LoopStep)
<1>1. /\ ActivateSteps \in Seq(UnitStep) /\ Len(ActivateSteps) = 2
      /\ ActivateSteps[1] = "update" /\ ActivateSteps[2] = "insert"
  BY DEF ActivateSteps, UnitStep
<1>2. /\ CancelSteps \in Seq(UnitStep) /\ Len(CancelSteps) = 3
      /\ CancelSteps[1] = "update" /\ CancelSteps[2] = "update unless empty" /\ CancelSteps[3] = "cancel"
  BY DEF CancelSteps, UnitStep
<1>3. /\ AbsSteps \in Seq(UnitStep) /\ Len(AbsSteps) = 5
      /\ AbsSteps[1] = "update" /\ AbsSteps[2] = "update unless empty" /\ AbsSteps[3] = "cancel"
      /\ AbsSteps[4] = "update" /\ AbsSteps[5] = "insert"
  <2>1. ASSUME NEW a \in Seq(UnitStep), NEW b \in Seq(UnitStep), Len(a) = 3, Len(b) = 2
        PROVE  /\ a \o b \in Seq(UnitStep) /\ Len(a \o b) = 5 /\ (a \o b)[1] = a[1] /\ (a \o b)[2] = a[2]
               /\ (a \o b)[3] = a[3] /\ (a \o b)[4] = b[1] /\ (a \o b)[5] = b[2]
    <3> DEFINE c == a \o b
    <3>1. /\ \A i \in 1 .. Len(a) : c[i] = a[i]
          /\ \A i \in 1 .. Len(b) : c[Len(a) + i] = b[i]
          /\ c \in Seq(UnitStep) /\ Len(c) = Len(a) + Len(b)
      BY JoinFacts
    <3> HIDE DEF c
    <3>2. 1 \in 1 .. 3 /\ 2 \in 1 .. 3 /\ 3 \in 1 .. 3 /\ 1 \in 1 .. 2 /\ 2 \in 1 .. 2 /\ 3 + 1 = 4 /\ 3 + 2 = 5
      OBVIOUS
    <3> QED BY <2>1, <3>1, <3>2, Zenon DEF c
  <2> QED BY <1>1, <1>2, <2>1, Zenon DEF AbsSteps
<1>9. /\ \A i \in 1 .. 2 : i = 1 \/ i = 2
      /\ \A i \in 1 .. 3 : i = 1 \/ i = 2 \/ i = 3
      /\ \A i \in 1 .. 5 : i = 1 \/ i = 2 \/ i = 3 \/ i = 4 \/ i = 5
      /\ 2 < 3 /\ 2 < 5 /\ 2 + 1 = 3 /\ 2 \in 1 .. 2 /\ 5 \in 1 .. 5 /\ 1 \in 1 .. 2
  OBVIOUS
<1>10. \A x \in {"update", "cancel", "insert", "request", "completion"} : x # "update unless empty"
  BY Zenon
<1>4. Orderly(ActivateSteps) /\ Inserts(ActivateSteps)
  BY <1>1, <1>9, <1>10, Zenon DEF Orderly, Inserts
<1>5. Orderly(CancelSteps)
  BY <1>2, <1>9, <1>10, Zenon DEF Orderly
<1>6. Orderly(AbsSteps) /\ Inserts(AbsSteps)
  BY <1>3, <1>9, <1>10, Zenon DEF Orderly, Inserts
<1>7. /\ <<"request", "completion">> \in Seq(UnitStep) /\ Orderly(<<"request", "completion">>)
      /\ Inserts(<<"request", "completion">>)
  <2> DEFINE r == <<"request", "completion">>
  <2>1. r \in Seq(UnitStep) /\ Len(r) = 2 /\ r[1] = "request" /\ r[2] = "completion"
    BY DEF UnitStep
  <2> HIDE DEF r
  <2>2. Orderly(r) /\ Inserts(r)
    BY <2>1, <1>9, <1>10, Zenon DEF Orderly, Inserts
  <2> QED BY <2>1, <2>2 DEF r
<1>8. ProcessSteps \in Seq(LoopStep) /\ <<"update">> \in Seq(LoopStep) /\ <<"update", "loop test">> \in Seq(LoopStep)
  BY DEF LoopStep, ProcessSteps
<1> QED BY <1>1, <1>2, <1>3, <1>4, <1>5, <1>6, <1>7, <1>8, Zenon

\* The steps of a request, followed by what was left to do.
LEMMA StepsJoin ==
  ASSUME NEW a \in {ActivateSteps, AbsSteps}, NEW b \in Seq(UnitStep), Orderly(b)
  PROVE  a \o b \in Seq(UnitStep) /\ Orderly(a \o b) /\ Inserts(a \o b)
<1> DEFINE c == a \o b
<1>1. a \in Seq(UnitStep) /\ Orderly(a) /\ Inserts(a)
  BY StepsFacts, Zenon
<1>2. /\ c \in Seq(UnitStep) /\ Len(c) = Len(a) + Len(b) /\ Len(a) \in Nat /\ Len(b) \in Nat
      /\ \A i \in 1 .. Len(a) : c[i] = a[i]
      /\ \A i \in 1 .. Len(b) : c[Len(a) + i] = b[i]
  BY <1>1, JoinFacts
<1> HIDE DEF c
<1>3. ASSUME NEW i \in 1 .. Len(c), c[i] = "update unless empty"
      PROVE  i < Len(c) /\ c[i + 1] = "cancel"
  <2>1. CASE i \in 1 .. Len(a)
    <3>1. i < Len(a) /\ a[i + 1] = "cancel"
      BY <1>1, <1>2, <1>3, <2>1, Zenon DEF Orderly
    <3>2. i + 1 \in 1 .. Len(a) /\ i < Len(c)
      BY <1>2, <2>1, <3>1
    <3> QED BY <1>2, <3>1, <3>2
  <2>2. CASE i \notin 1 .. Len(a)
    <3> DEFINE k == i - Len(a)
    <3>1. k \in 1 .. Len(b) /\ Len(a) + k = i
      BY <1>2, <2>2
    <3>2. b[k] = "update unless empty"
      BY <1>2, <1>3, <3>1, Zenon
    <3>3. k < Len(b) /\ b[k + 1] = "cancel"
      BY <3>1, <3>2, Zenon DEF Orderly
    <3>4. k + 1 \in 1 .. Len(b) /\ Len(a) + (k + 1) = i + 1 /\ i < Len(c)
      BY <1>2, <3>1, <3>3
    <3> QED BY <1>2, <3>3, <3>4
  <2> QED BY <2>1, <2>2
<1>4. Inserts(c)
  BY <1>1, <1>2 DEF Inserts
<1> QED BY <1>2, <1>3, <1>4, Zenon DEF Orderly, c

-----------------------------------------------------------------------------
(* What the actions do to the stack.                                       *)

\* The call in progress, with other steps left.
Now(todo) == CallOf(Top.unit, Top.wait, Top.due, todo)
Fits(todo) ==
  \/ Top.unit \in Unit /\ todo \in Seq(UnitStep) /\ Orderly(todo)
  \/ Top.unit = NoUnit /\ todo \in Seq(LoopStep)

Inv == TypeInv /\ ListInv

\* The record on top, and the rest.
LEMMA TopFacts ==
  ASSUME TypeInv, stack # <<>>
  PROVE  /\ Top \in Frame /\ Below \in Seq(Frame) /\ Len(Below) = Len(stack) - 1 /\ Len(stack) \in Nat \ {0}
         /\ \A A : Some(stack, A) <=> Top \in A \/ Some(Below, A)
<1>1. stack \in Seq(Frame)
  BY DEF TypeInv
<1>2. /\ Top \in Frame /\ Below \in Seq(Frame) /\ Len(Below) = Len(stack) - 1 /\ Len(stack) \in Nat \ {0}
  BY <1>1, PopFacts DEF Top, Below
<1>3. \A A : Some(stack, A) <=> Top \in A \/ Some(Below, A)
  BY <1>1, SomePop DEF Top, Below
<1> QED BY <1>2, <1>3

\* A call that goes on is a call for the same unit.
LEMMA NowFacts ==
  ASSUME TypeInv, stack # <<>>, Top.kind = "call", NEW todo, Fits(todo)
  PROVE  /\ [Top EXCEPT !.todo = todo] = Now(todo) /\ Now(todo) \in Frame
         /\ Now(todo).kind = "call" /\ Now(todo).todo = todo /\ Now(todo).unit = Top.unit
         /\ Now(todo) \in LoopFrame <=> Top.unit = NoUnit
         /\ Now(todo) \in LoopFrame <=> Top \in LoopFrame
         /\ \A u \in Unit : /\ Now(todo) \notin Holding(u) /\ Top \notin Holding(u)
                            /\ Now(todo) \in Calling(u) <=> Top.unit = u
                            /\ Top \in Calling(u) <=> Top.unit = u
                            /\ Now(todo) \in Inserting(u) <=> Top.unit = u /\ Inserts(todo)
<1>1. Top \in Frame
  BY TopFacts
<1>2. [Top EXCEPT !.todo = todo] = Now(todo)
  BY <1>1, CallGoesOn, Zenon DEF Now
<1>6. Now(todo).unit = Top.unit
  BY DEF Now, CallOf
<1>3. /\ Top.wait \in Int /\ Top.due \in Int /\ \A u \in Unit : Top \notin Holding(u) /\ (Top \in Calling(u) <=> Top.unit = u)
      /\ Top \in LoopFrame <=> Top.unit = NoUnit
  BY <1>1, FrameCases, NoUnitAssumption
<1>4. CASE Top.unit \in Unit /\ todo \in Seq(UnitStep) /\ Orderly(todo)
  <2>1. Top.unit # NoUnit
    BY <1>4, NoUnitAssumption
  <2> QED BY <1>2, <1>3, <1>4, <1>6, <2>1, UnitCallIs DEF Now
<1>5. CASE Top.unit = NoUnit /\ todo \in Seq(LoopStep)
  <2>1. \A u \in Unit : Top.unit # u
    BY <1>5, NoUnitAssumption
  <2> QED BY <1>2, <1>3, <1>5, <1>6, <2>1, LoopCallIs DEF Now
<1> QED BY <1>4, <1>5 DEF Fits

\* The step a call is at says what it is for, and the call goes on after it.
LEMMA DoingFacts ==
  ASSUME TypeInv, NEW step, Doing(step)
  PROVE  /\ stack # <<>> /\ Top.kind = "call" /\ Top.todo # <<>> /\ Top.todo[1] = step
         /\ Fits(Top.todo) /\ Fits(Tail(Top.todo)) /\ Rest = Push(Now(Tail(Top.todo)), Below)
         /\ step \in UnitStep \ LoopStep => Top.unit \in Unit
         /\ step \in LoopStep \ UnitStep => Top.unit = NoUnit
         /\ Inserts(Top.todo) <=> step \in {"insert", "request"} \/ Inserts(Tail(Top.todo))
<1>1. stack # <<>> /\ Top.kind = "call" /\ Top.todo # <<>> /\ Head(Top.todo) = step
  BY DEF Doing
<1>2. Top \in Frame
  BY <1>1, TopFacts
<1>3. /\ Top.unit \in Unit \cup {NoUnit}
      /\ Top.unit \in Unit => Top.todo \in Seq(UnitStep) /\ Orderly(Top.todo)
      /\ Top.unit = NoUnit => Top.todo \in Seq(LoopStep)
  BY <1>1, <1>2, FrameCases
<1>4. ASSUME Top.unit \in Unit
      PROVE  /\ Fits(Top.todo) /\ Fits(Tail(Top.todo)) /\ Top.todo[1] = step /\ step \in UnitStep
             /\ Inserts(Top.todo) <=> step \in {"insert", "request"} \/ Inserts(Tail(Top.todo))
  BY <1>1, <1>3, <1>4, TodoTail DEF Fits
<1>5. ASSUME Top.unit = NoUnit
      PROVE  /\ Fits(Top.todo) /\ Fits(Tail(Top.todo)) /\ Top.todo[1] = step /\ step \in LoopStep
             /\ Inserts(Top.todo) <=> step \in {"insert", "request"} \/ Inserts(Tail(Top.todo))
  BY <1>1, <1>3, <1>5, TodoTail DEF Fits
<1>6. Fits(Tail(Top.todo)) => Rest = Push(Now(Tail(Top.todo)), Below)
  BY <1>1, NowFacts, Zenon DEF Rest, Push
<1> QED BY <1>1, <1>3, <1>4, <1>5, <1>6

\* The stack when a call goes on: the lists are as they were.
LEMMA GoOn ==
  ASSUME Inv, stack # <<>>, Top.kind = "call", NEW f \in Frame, f.kind = "call", f.unit = Top.unit
  PROVE  LET s == Push(f, Below) IN
         /\ s \in Seq(Frame) /\ Nested(s) /\ s # <<>>
         /\ \A A : Some(s, A) <=> f \in A \/ Some(Below, A)
         /\ \A u \in Unit : Some(s, Holding(u)) <=> Some(stack, Holding(u))
         /\ \A u \in Unit : Top.unit = u => ~Some(s, Holding(u))
<1> DEFINE s == Push(f, Below)
<1>2. /\ Top \in Frame /\ Below \in Seq(Frame)
      /\ \A A : Some(stack, A) <=> Top \in A \/ Some(Below, A)
  BY TopFacts DEF Inv
<1>1. \A u \in Unit : /\ f \notin Holding(u) /\ Top \notin Holding(u)
                       /\ (f \in Calling(u) <=> Top.unit = u) /\ (Top \in Calling(u) <=> Top.unit = u)
  BY <1>2, FrameCases
<1>3. /\ Nested(Below)
      /\ \A u \in Unit : Top \in Holding(u) \cup Calling(u) => ~Some(Below, Holding(u))
  BY NestedPop DEF Inv, ListInv, TypeInv, Top, Below
<1>4. s \in Seq(Frame) /\ s # <<>>
  BY <1>2, PushFacts
<1>5. \A A : Some(s, A) <=> f \in A \/ Some(Below, A)
  BY <1>2, SomePush
<1>6. \A u \in Unit : f \in Holding(u) \cup Calling(u) => ~Some(Below, Holding(u))
  BY <1>1, <1>3
<1>7. Nested(s)
  BY <1>2, <1>3, <1>6, NestedPush
<1>8. \A u \in Unit : Some(s, Holding(u)) <=> Some(stack, Holding(u))
  BY <1>1, <1>2, <1>5
<1>9. \A u \in Unit : Top.unit = u => ~Some(s, Holding(u))
  BY <1>1, <1>3, <1>5
<1> QED BY <1>4, <1>5, <1>7, <1>8, <1>9

\* The stack when the queue is detached.
LEMMA DetachPush ==
  ASSUME NEW s \in Seq(Frame), Nested(s), NEW q \in Seq(Unit), IsInjective(q),
         \A u \in Range(q) : ~Some(s, Holding(u))
  PROVE  LET r == Push(Migration(q), s) IN
         /\ r \in Seq(Frame) /\ Nested(r) /\ r # <<>>
         /\ \A u \in Unit : Some(r, Holding(u)) <=> u \in Range(q) \/ Some(s, Holding(u))
         /\ \A u \in Unit : Some(r, Inserting(u)) <=> Some(s, Inserting(u))
<1> DEFINE m == Migration(q)
           r == Push(m, s)
<1>1. /\ m \in Frame
      /\ \A u : (m \in Holding(u) <=> u \in Range(q)) /\ m \notin Calling(u) /\ m \notin Inserting(u)
  BY MigrationIs
<1> HIDE DEF m
<1>2. r \in Seq(Frame) /\ r # <<>>
  BY <1>1, PushFacts
<1>3. \A A : Some(r, A) <=> m \in A \/ Some(s, A)
  BY <1>1, SomePush
<1>4. \A u \in Unit : m \in Holding(u) \cup Calling(u) => ~Some(s, Holding(u))
  BY <1>1
<1>5. Nested(r)
  BY <1>1, <1>4, NestedPush
<1>6. \A u \in Unit : Some(r, Holding(u)) <=> u \in Range(q) \/ Some(s, Holding(u))
  BY <1>1, <1>3
<1>7. \A u \in Unit : Some(r, Inserting(u)) <=> Some(s, Inserting(u))
  BY <1>1, <1>3
<1> QED BY <1>2, <1>5, <1>6, <1>7 DEF m

-----------------------------------------------------------------------------
(* Which units are on the event queue.                                     *)

\* Inserting a unit adds that unit.
LEMMA InsertQueues ==
  ASSUME NEW c, Good(c), NEW u \in Unit, ~Queued(c, u), NEW t \in Int
  PROVE  /\ Good(Insert(c, u, t))
         /\ \A v : Queued(Insert(c, u, t), v) <=> v = u \/ Queued(c, v)
<1> DEFINE r == Insert(c, u, t)
           N == Len(c.queue)
<1>1. Good(r) /\ \E n \in 0 .. N : r.queue = LinkAfter(c.queue, n, u)
  BY InsertFacts
<1>2. c.queue \in Seq(Unit) /\ N \in Nat /\ DOMAIN c.queue = 1 .. N /\ DOMAIN r.queue = 1 .. Len(r.queue)
  BY <1>1, ClockFields DEF Good
<1> HIDE DEF r, N
<1>3. PICK n \in 0 .. N : r.queue = LinkAfter(c.queue, n, u)
  BY <1>1
<1>4. /\ DOMAIN r.queue = 1 .. N + 1
      /\ \A i \in 1 .. N + 1 : r.queue[i] = IF i <= n THEN c.queue[i] ELSE IF i = n + 1 THEN u ELSE c.queue[i - 1]
  BY <1>3 DEF LinkAfter, N
<1>5. ASSUME NEW v, Queued(r, v) PROVE v = u \/ Queued(c, v)
  <2>1. PICK i \in 1 .. N + 1 : r.queue[i] = v
    BY <1>4, <1>5 DEF Queued
  <2>2. (i <= n => i \in 1 .. N) /\ (i > n + 1 => i - 1 \in 1 .. N) /\ (i <= n \/ i = n + 1 \/ (~(i <= n) /\ i # n + 1 /\ i > n + 1))
    BY <1>2, <2>1
  <2>3. CASE i <= n
    BY <1>2, <1>4, <2>1, <2>2, <2>3, Zenon DEF Queued
  <2>4. CASE i = n + 1
    BY <1>2, <1>3, <1>4, <2>1, <2>4
  <2>5. CASE ~(i <= n) /\ i # n + 1 /\ i > n + 1
    BY <1>2, <1>4, <2>1, <2>2, <2>5, Zenon DEF Queued
  <2> QED BY <2>2, <2>3, <2>4, <2>5
<1>6. Queued(r, u)
  <2>1. n + 1 \in 1 .. N + 1 /\ ~(n + 1 <= n)
    BY <1>2, <1>3
  <2> QED BY <1>4, <2>1 DEF Queued
<1>7. ASSUME NEW v, Queued(c, v) PROVE Queued(r, v)
  <2>1. PICK i \in 1 .. N : c.queue[i] = v
    BY <1>2, <1>7 DEF Queued
  <2>2. CASE i <= n
    <3>1. i \in 1 .. N + 1
      BY <1>2, <2>1
    <3> QED BY <1>4, <2>1, <2>2, <3>1 DEF Queued
  <2>3. CASE i > n
    <3>1. i + 1 \in 1 .. N + 1 /\ ~(i + 1 <= n) /\ i + 1 # n + 1 /\ (i + 1) - 1 = i
      BY <1>2, <1>3, <2>1, <2>3
    <3>2. r.queue[i + 1] = v
      BY <1>4, <2>1, <3>1
    <3> QED BY <1>4, <3>1, <3>2 DEF Queued
  <2> QED BY <1>2, <1>3, <2>1, <2>2, <2>3
<1> QED BY <1>1, <1>5, <1>6, <1>7 DEF r

\* Cancelling a unit removes that unit.
LEMMA CancelQueues ==
  ASSUME NEW c, Good(c), NEW u \in Unit
  PROVE  /\ Good(Cancel(c, u))
         /\ \A v : Queued(Cancel(c, u), v) <=> v # u /\ Queued(c, v)
<1> DEFINE r == Cancel(c, u)
           N == Len(c.queue)
<1>1. Removed(c, r, u) /\ ~Queued(r, u)
  BY CancelRemoves
<1>2. Good(r)
  BY <1>1 DEF Removed
<1>3. CASE ~Queued(c, u)
  <2>1. r = c
    BY <1>3 DEF Cancel
  <2> QED BY <1>1, <1>2, <2>1
<1>4. CASE Queued(c, u)
  <2>1. \E n \in 1 .. N : c.queue[n] = u /\ r.queue = Unlink(c.queue, n)
    BY <1>4, CancelFacts
  <2>2. /\ c.queue \in Seq(Unit) /\ N \in Nat /\ DOMAIN c.queue = 1 .. N /\ DOMAIN r.queue = 1 .. Len(r.queue)
    BY <1>2, ClockFields DEF Good
  <2> HIDE DEF r, N
  <2>3. PICK n \in 1 .. N : c.queue[n] = u /\ r.queue = Unlink(c.queue, n)
    BY <2>1
  <2>4. /\ DOMAIN r.queue = 1 .. N - 1
        /\ \A i \in 1 .. N - 1 : r.queue[i] = IF i < n THEN c.queue[i] ELSE c.queue[i + 1]
    BY <2>3 DEF Unlink, N
  <2>5. ASSUME NEW v, Queued(r, v) PROVE Queued(c, v)
    <3>1. PICK i \in 1 .. N - 1 : r.queue[i] = v
      BY <2>4, <2>5 DEF Queued
    <3>2. i \in 1 .. N /\ i + 1 \in 1 .. N
      BY <2>2
    <3> QED BY <2>2, <2>4, <3>1, <3>2, Zenon DEF Queued
  <2>6. ASSUME NEW v, v # u, Queued(c, v) PROVE Queued(r, v)
    <3>1. PICK i \in 1 .. N : c.queue[i] = v
      BY <2>2, <2>6 DEF Queued
    <3>2. i < n \/ i > n
      BY <2>2, <2>3, <2>6, <3>1
    <3>3. CASE i < n
      <4>1. i \in 1 .. N - 1
        BY <2>2, <2>3, <3>3
      <4> QED BY <2>4, <3>1, <3>3, <4>1 DEF Queued
    <3>4. CASE i > n
      <4>1. i - 1 \in 1 .. N - 1 /\ ~(i - 1 < n) /\ (i - 1) + 1 = i
        BY <2>2, <2>3, <3>4
      <4>2. r.queue[i - 1] = v
        BY <2>4, <3>1, <4>1
      <4> QED BY <2>4, <4>1, <4>2 DEF Queued
    <3> QED BY <3>2, <3>3, <3>4
  <2> QED BY <1>1, <1>2, <2>5, <2>6 DEF r
<1> QED BY <1>3, <1>4

\* Serving the first entry removes its unit.
LEMMA TakeQueues ==
  ASSUME NEW c, Good(c), c.queue # <<>>, NEW k \in Int
  PROVE  /\ Good(TakeFirst(c, k)) /\ c.queue[1] \in Unit
         /\ \A v : v # c.queue[1] => (Queued(TakeFirst(c, k), v) <=> Queued(c, v))
<1> DEFINE r == TakeFirst(c, k)
           N == Len(c.queue)
<1>1. Good(r) /\ Len(r.queue) = N - 1 /\ \A i \in 1 .. N - 1 : r.queue[i] = c.queue[i + 1]
  BY TakeFirstFacts
<1>2. /\ N \in Nat /\ N >= 1 /\ DOMAIN c.queue = 1 .. N /\ DOMAIN r.queue = 1 .. Len(r.queue)
      /\ \A i \in 1 .. N : c.queue[i] \in Unit
  BY <1>1, ClockFields DEF Good
<1> HIDE DEF r, N
<1>3. ASSUME NEW v, Queued(r, v) PROVE Queued(c, v)
  <2>1. PICK i \in 1 .. N - 1 : r.queue[i] = v
    BY <1>1, <1>2, <1>3 DEF Queued
  <2>2. i + 1 \in 1 .. N
    BY <1>2
  <2> QED BY <1>1, <1>2, <2>1, <2>2 DEF Queued
<1>4. ASSUME NEW v, v # c.queue[1], Queued(c, v) PROVE Queued(r, v)
  <2>1. PICK i \in 1 .. N : c.queue[i] = v
    BY <1>2, <1>4 DEF Queued
  <2>2. i # 1
    BY <1>4, <2>1
  <2>3. i - 1 \in 1 .. N - 1 /\ (i - 1) + 1 = i
    BY <1>2, <2>2
  <2>4. r.queue[i - 1] = v
    BY <1>1, <2>1, <2>3
  <2> QED BY <1>1, <1>2, <2>3, <2>4, Zenon DEF Queued
<1>5. 1 \in 1 .. N
  BY <1>2
<1> QED BY <1>1, <1>2, <1>3, <1>4, <1>5 DEF r

-----------------------------------------------------------------------------
(* What the actions do to the event queue.                                 *)

\* The interval is counted down; no entry moves.
LEMMA CountDown ==
  ASSUME NEW c, Good(c), NEW n \in Int
  PROVE  LET r == [c EXCEPT !.interval = @ - n] IN
         /\ Good(r) /\ r.queue = c.queue /\ r.interval = c.interval - n /\ HeadTime(r) = HeadTime(c)
         /\ SimGtime(r) = SimGtime(c) + n
         /\ \A i \in 1 .. Len(c.queue) : DueAt(r, i) = DueAt(c, i)
<1> DEFINE r == [c EXCEPT !.interval = @ - n]
<1>1. c \in Clock /\ c.interval \in Int /\ c.vm_time \in Int /\ HeadTime(c) \in Int
  BY ClockFields, HeadDue DEF Good
<1>2. r = [c EXCEPT !.interval = c.interval - n]
  OBVIOUS
<1>3. c.interval - n \in Int
  BY <1>1
<1> HIDE DEF r
<1>4. r \in Clock
  BY <1>1, <1>2, <1>3, Zenon DEF Clock
<1>5. /\ r.queue = c.queue /\ r.time = c.time /\ r.vm_time = c.vm_time
      /\ r.rtime = c.rtime /\ r.noqueue_time = c.noqueue_time /\ r.interval = c.interval - n
  BY <1>1, <1>2 DEF Clock
<1>6. Good(r)
  BY <1>4, <1>5 DEF Good
<1>7. \A i \in 1 .. Len(c.queue) : DueAt(r, i) = DueAt(c, i)
  BY <1>5, AccumSame DEF DueAt
<1>8. HeadTime(r) = HeadTime(c)
  BY <1>5 DEF HeadTime
<1>9. SimGtime(r) = SimGtime(c) + n
  <2>1. /\ SimGtime(c) = c.vm_time + HeadTime(c) - c.interval
        /\ SimGtime(r) = r.vm_time + HeadTime(r) - r.interval
    BY <1>1, <1>4, HeadDue
  <2> QED BY <1>1, <1>5, <1>8, <2>1
<1> QED BY <1>5, <1>6, <1>7, <1>8, <1>9 DEF r

\* _sim_activate inserts the unit unless it is active.
LEMMA InsertStep ==
  ASSUME TypeInv, DoInsert
  PROVE  /\ Good(clock') /\ promise' \in [Unit -> Int] /\ Top.unit \in Unit
         /\ \A v : Queued(clock, v) => Queued(clock', v)
         /\ Linked(Top.unit) \/ Queued(clock', Top.unit)
<1>1. Doing("insert")
  BY DEF DoInsert
<1>2. "insert" \in UnitStep \ LoopStep
  BY DEF UnitStep, LoopStep
<1>3. stack # <<>> /\ Top.kind = "call" /\ Top.unit \in Unit
  BY <1>1, <1>2, DoingFacts
<1>4. Top.wait \in Int /\ Top.due \in Int
  BY <1>3, TopFacts, FrameCases
<1>5. Good(clock) /\ promise \in [Unit -> Int]
  BY DEF TypeInv
<1>6. CASE Linked(Top.unit) \/ Queued(clock, Top.unit)
  <2>1. clock' = clock /\ promise' = promise
    BY <1>6 DEF DoInsert
  <2> QED BY <1>3, <1>5, <1>6, <2>1
<1>7. CASE ~(Linked(Top.unit) \/ Queued(clock, Top.unit))
  <2>1. clock' = Insert(clock, Top.unit, Top.wait) /\ promise' = [promise EXCEPT ![Top.unit] = Top.due]
    BY <1>7 DEF DoInsert, Activate
  <2>2. Good(clock') /\ \A v : Queued(clock', v) <=> v = Top.unit \/ Queued(clock, v)
    BY <1>3, <1>4, <1>5, <1>7, <2>1, InsertQueues
  <2> QED BY <1>3, <1>4, <1>5, <2>1, <2>2
<1> QED BY <1>6, <1>7

\* sim_cancel takes the unit off the event queue.
LEMMA CancelStep ==
  ASSUME TypeInv, DoCancel
  PROVE  /\ Good(clock') /\ Top.unit \in Unit /\ wanted' = wanted \ {Top.unit}
         /\ \A v \in wanted' : Queued(clock, v) => Queued(clock', v)
<1>1. Doing("cancel") /\ clock' = Cancel(clock, Top.unit) /\ wanted' = wanted \ {Top.unit}
  BY DEF DoCancel
<1>2. "cancel" \in UnitStep \ LoopStep
  BY DEF UnitStep, LoopStep
<1>3. Top.unit \in Unit
  BY <1>1, <1>2, DoingFacts
<1>4. Good(clock') /\ \A v : Queued(clock', v) <=> v # Top.unit /\ Queued(clock, v)
  BY <1>1, <1>3, CancelQueues DEF TypeInv
<1> QED BY <1>1, <1>3, <1>4

\* The call goes on after an event was served, and after the last one.
LEMMA ServeStep ==
  ASSUME TypeInv, stack # <<>>, Top.kind = "call", Top.unit = NoUnit, Fits(Tail(Top.todo)),
         NEW c, Good(c), c.queue = clock.queue, NEW k \in Int
  PROVE  /\ c.queue # <<>> /\ Serve(c, k) =>
              /\ Good(clock') /\ early' \in Int /\ wanted' \subseteq wanted
              /\ \A v \in wanted' : Queued(clock, v) => Queued(clock', v)
              /\ stack' = Push(CallOf(NoUnit, k, Top.due, <<"update", "loop test">>), Below)
         /\ Served(c) =>
              /\ Good(clock') /\ early' = early /\ wanted' = wanted
              /\ \A v : Queued(clock, v) => Queued(clock', v)
              /\ stack' = Push(Now(Tail(Top.todo)), Below)
<1>1. Top \in Frame /\ promise \in [Unit -> Int] /\ elapsed \in Int
  BY TopFacts DEF TypeInv
<1>2. \A v : Queued(clock, v) <=> Queued(c, v)
  BY Zenon DEF Queued
<1>3. ASSUME c.queue # <<>>, Serve(c, k)
      PROVE  /\ Good(clock') /\ early' \in Int /\ wanted' \subseteq wanted
             /\ \A v \in wanted' : Queued(clock, v) => Queued(clock', v)
             /\ stack' = Push(CallOf(NoUnit, k, Top.due, <<"update", "loop test">>), Below)
  <2>1. /\ clock' = TakeFirst(c, k) /\ early' = promise[c.queue[1]] - elapsed /\ wanted' = wanted \ {c.queue[1]}
        /\ stack' = <<[Top EXCEPT !.todo = <<"update", "loop test">>, !.wait = k]>> \o Below
    BY <1>3 DEF Serve
  <2>2. /\ Good(TakeFirst(c, k)) /\ c.queue[1] \in Unit
        /\ \A v : v # c.queue[1] => (Queued(TakeFirst(c, k), v) <=> Queued(c, v))
    BY <1>3, TakeQueues
  <2>3. stack' = Push(CallOf(NoUnit, k, Top.due, <<"update", "loop test">>), Below)
    <3>1. [Top EXCEPT !.todo = <<"update", "loop test">>, !.wait = k] = CallOf(Top.unit, k, Top.due, <<"update", "loop test">>)
      BY <1>1, CallGoesOn, Zenon
    <3> QED BY <2>1, <3>1, Zenon DEF Push
  <2>4. early' \in Int
    BY <1>1, <2>1, <2>2
  <2>5. wanted' \subseteq wanted /\ \A v \in wanted' : Queued(clock, v) => Queued(clock', v)
    BY <1>2, <2>1, <2>2
  <2> QED BY <2>1, <2>2, <2>3, <2>4, <2>5, Zenon
<1>4. ASSUME Served(c)
      PROVE  /\ Good(clock') /\ early' = early /\ wanted' = wanted
             /\ \A v : Queued(clock, v) => Queued(clock', v)
             /\ stack' = Push(Now(Tail(Top.todo)), Below)
  <2>1. /\ clock' = (IF c.queue = <<>> THEN ReloadInterval(c) ELSE c) /\ stack' = Rest
        /\ early' = early /\ wanted' = wanted
    BY <1>4 DEF Served
  <2>2. Good(clock') /\ clock'.queue = c.queue
    BY <2>1, ReloadFacts
  <2>3. stack' = Push(Now(Tail(Top.todo)), Below)
    BY <2>1, NowFacts, Zenon DEF Rest, Push
  <2> QED BY <1>2, <2>1, <2>2, <2>3 DEF Queued
<1> QED BY <1>3, <1>4, Zenon

\* sim_process_event serves an event or ends.
LEMMA DispatchStep ==
  ASSUME TypeInv, DispatchFirst \/ DispatchMore
  PROVE  /\ Good(clock') /\ early' \in Int /\ wanted' \subseteq wanted
         /\ \A v \in wanted' : Queued(clock, v) => Queued(clock', v)
         /\ stack # <<>> /\ Top.kind = "call" /\ Top.unit = NoUnit
         /\ \E f \in LoopFrame : stack' = Push(f, Below)
<1>1. Good(clock) /\ clock \in Clock /\ early \in Int
  BY DEF TypeInv, Good
<1>4. stack # <<>> /\ Top.kind = "call" /\ Top.unit = NoUnit /\ Fits(Tail(Top.todo)) /\ Rest = Push(Now(Tail(Top.todo)), Below)
  <2>1. PICK step \in {"dispatch", "loop test"} : Doing(step)
    BY Zenon DEF DispatchFirst, DispatchMore
  <2>2. step \in LoopStep \ UnitStep
    BY Zenon DEF UnitStep, LoopStep
  <2> QED BY <2>1, <2>2, DoingFacts, Zenon
<1>5. Top.due \in Int /\ Top.wait \in Int
  BY <1>4, TopFacts, FrameCases
<1>6. Now(Tail(Top.todo)) \in LoopFrame
  BY <1>4, NowFacts
<1>7. \A k \in Int : CallOf(NoUnit, k, Top.due, <<"update", "loop test">>) \in LoopFrame
  BY <1>5, LoopCallIs, StepsFacts, Zenon
<1>8. CASE DispatchFirst
  <2> DEFINE c == UpdateSimTime(clock)
  <2>1. /\ Good(c) /\ c.queue = clock.queue /\ c.interval = clock.interval /\ HeadTime(c) = c.interval /\ c.interval \in Int
    BY <1>1, UpdateFacts, ClockFields DEF Good
  <2>2. \/ c.interval > 0 /\ clock' = c /\ stack' = Rest /\ early' = early /\ wanted' = wanted
        \/ Served(c)
        \/ ~(c.interval > 0) /\ c.queue # <<>> /\ Serve(BackUp(c), FirstCatchup(c))
    BY <1>8, Zenon DEF DispatchFirst
  <2> HIDE DEF c
  <2>3. CASE c.interval > 0 /\ clock' = c /\ stack' = Rest /\ early' = early /\ wanted' = wanted
    BY <1>1, <1>4, <1>6, <2>1, <2>3 DEF Queued
  <2>4. CASE Served(c)
    BY <1>1, <1>4, <1>6, <2>1, <2>4, ServeStep, Zenon
  <2>5. CASE ~(c.interval > 0) /\ c.queue # <<>> /\ Serve(BackUp(c), FirstCatchup(c))
    <3> DEFINE b == BackUp(c)
               k == FirstCatchup(c)
    <3>1. c.interval <= 0
      BY <2>1, <2>5
    <3>2. Good(b) /\ b.queue = c.queue
      BY <2>1, <2>5, <3>1, BackUpFacts
    <3>3. k \in Int
      BY <2>1 DEF FirstCatchup
    <3>4. b.queue # <<>> /\ b.queue = clock.queue /\ Serve(b, k)
      BY <2>1, <2>5, <3>2
    <3> HIDE DEF b, k
    <3> QED BY <1>4, <1>7, <3>2, <3>3, <3>4, ServeStep, Zenon
  <2> QED BY <2>2, <2>3, <2>4, <2>5
<1>9. CASE DispatchMore
  <2> DEFINE c == AfterAction(clock, Top.wait)
             k == NextCatchup(clock, Top.wait)
  <2>1. HeadTime(clock) \in Int
    BY <1>1, HeadDue
  <2>2. Good(c) /\ c.queue = clock.queue
    BY <1>1, <2>1, AdvanceFacts DEF AfterAction
  <2>3. k \in Int
    BY <1>5, <2>1 DEF NextCatchup
  <2>4. (c.queue # <<>> /\ Serve(c, k)) \/ Served(c)
    BY <1>9, Zenon DEF DispatchMore, StillDue
  <2> HIDE DEF c, k
  <2> QED BY <1>1, <1>4, <1>6, <1>7, <2>2, <2>3, <2>4, ServeStep, Zenon
<1> QED BY <1>4, <1>8, <1>9

-----------------------------------------------------------------------------
(* Who holds a unit.                                                       *)

\* The request for u is linked, or a call will insert the unit.
OnWay(u) == u \in Range(sim_asynch_queue) \/ Some(stack, Holding(u)) \/ Some(stack, Inserting(u))

\* A step of the main thread keeps the lists apart and detaches all or nothing.
Steady ==
  /\ stack' \in Seq(Frame) /\ sim_asynch_queue' \in Seq(Unit) /\ ListInv'
  /\ sim_asynch_queue' = sim_asynch_queue \/ sim_asynch_queue' = <<>>
  /\ \A u \in Unit : Some(stack', Holding(u)) => Some(stack, Holding(u)) \/ u \in Range(sim_asynch_queue)

\* The units on a list.
LEMMA RangeFacts ==
  ASSUME NEW S, NEW q \in Seq(S)
  PROVE  /\ Range(q) \subseteq S /\ \A i \in 1 .. Len(q) : q[i] \in Range(q)
         /\ \A x \in Range(q) : \E i \in 1 .. Len(q) : q[i] = x
         /\ q = <<>> => Range(q) = {} /\ IsInjective(q)
<1>1. DOMAIN q = 1 .. Len(q) /\ \A i \in 1 .. Len(q) : q[i] \in S
  OBVIOUS
<1>2. q = <<>> => 1 .. Len(q) = {}
  OBVIOUS
<1> QED BY <1>1, <1>2, Zenon DEF Range, IsInjective

\* A unit is on a list at some place.
LEMMA RangeSome ==
  ASSUME NEW S, NEW q \in Seq(S), NEW x
  PROVE  x \in Range(q) <=> Some(q, {x})
<1>1. DOMAIN q = 1 .. Len(q)
  OBVIOUS
<1> QED BY <1>1, Zenon DEF Range, Some

\* Steps that leave the lists alone.
LEMMA SameSteady ==
  ASSUME Inv, stack' = stack, sim_asynch_queue' = sim_asynch_queue
  PROVE  Steady /\ \A u \in Unit : OnWay(u) => OnWay(u)'
BY DEF Inv, TypeInv, ListInv, Steady, OnWay

\* Steps inside a call.
LEMMA GoOnSteady ==
  ASSUME Inv, stack # <<>>, Top.kind = "call", NEW f \in Frame, f.kind = "call", f.unit = Top.unit,
         stack' = Push(f, Below), sim_asynch_queue' = sim_asynch_queue
  PROVE  /\ Steady
         /\ \A u \in Unit : OnWay(u) /\ (Top \in Inserting(u) => f \in Inserting(u)) => OnWay(u)'
<1>1. /\ stack' \in Seq(Frame) /\ Nested(stack')
      /\ \A A : Some(stack', A) <=> f \in A \/ Some(Below, A)
      /\ \A u \in Unit : Some(stack', Holding(u)) <=> Some(stack, Holding(u))
  BY GoOn
<1>2. \A A : Some(stack, A) <=> Top \in A \/ Some(Below, A)
  BY TopFacts DEF Inv
<1>3. Range(sim_asynch_queue) \subseteq Unit /\ sim_asynch_queue \in Seq(Unit)
  BY RangeFacts DEF Inv, TypeInv
<1>4. ListInv'
  BY <1>1, <1>3 DEF Inv, ListInv
<1> QED BY <1>1, <1>2, <1>3, <1>4 DEF Steady, OnWay

\* sim_aio_update_queue, called where the stack would be s.
LEMMA DetachSteady ==
  ASSUME Inv, stack # <<>>, Top.kind = "call", NEW f \in Frame, f.kind = "call", f.unit = Top.unit,
         Detach(Push(f, Below)), \A u \in Unit : Top \in Inserting(u) => f \in Inserting(u)
  PROVE  /\ Steady /\ \A u \in Unit : OnWay(u) => OnWay(u)'
         /\ sim_asynch_queue' = <<>>
         /\ stack' = Push(f, Below) \/ stack' = Push(Migration(sim_asynch_queue), Push(f, Below))
<1> DEFINE s == Push(f, Below)
           q == sim_asynch_queue
<1>1. /\ s \in Seq(Frame) /\ Nested(s)
      /\ \A A : Some(s, A) <=> f \in A \/ Some(Below, A)
      /\ \A u \in Unit : Some(s, Holding(u)) <=> Some(stack, Holding(u))
  BY GoOn
<1>2. \A A : Some(stack, A) <=> Top \in A \/ Some(Below, A)
  BY TopFacts DEF Inv
<1>3. Range(q) \subseteq Unit /\ q \in Seq(Unit) /\ IsInjective(q) /\ \A u \in Range(q) : ~Some(s, Holding(u))
  BY <1>1, RangeFacts DEF Inv, TypeInv, ListInv
<1>4. CASE q = <<>>
  <2>1. stack' = s /\ sim_asynch_queue' = q
    BY <1>4 DEF Detach, shared
  <2> QED BY <1>4, <2>1, GoOnSteady
<1>5. CASE q # <<>>
  <2>1. stack' = Push(Migration(q), s) /\ sim_asynch_queue' = <<>>
    BY <1>5 DEF Detach, Push
  <2> HIDE DEF s
  <2>2. /\ stack' \in Seq(Frame) /\ Nested(stack')
        /\ \A u \in Unit : Some(stack', Holding(u)) <=> u \in Range(q) \/ Some(s, Holding(u))
        /\ \A u \in Unit : Some(stack', Inserting(u)) <=> Some(s, Inserting(u))
    BY <1>1, <1>3, <2>1, DetachPush
  <2>3. sim_asynch_queue' \in Seq(Unit) /\ Range(sim_asynch_queue') = {} /\ IsInjective(sim_asynch_queue')
    <3>1. <<>> \in Seq(Unit)
      OBVIOUS
    <3>2. Range(<<>>) = {} /\ IsInjective(<<>>)
      BY <3>1, RangeFacts, Zenon
    <3> QED BY <2>1, <3>1, <3>2
  <2>4. ListInv'
    BY <2>2, <2>3 DEF ListInv
  <2>5. Steady
    BY <1>1, <2>1, <2>2, <2>3, <2>4 DEF Steady
  <2>6. \A u \in Unit : OnWay(u) => OnWay(u)'
    BY <1>1, <1>2, <2>2 DEF OnWay
  <2> QED BY <2>1, <2>5, <2>6 DEF s
<1> QED BY <1>4, <1>5

\* Returning from a call that has nothing left to do.
LEMMA PopSteady ==
  ASSUME Inv, stack # <<>>, stack' = Below, sim_asynch_queue' = sim_asynch_queue,
         \A u \in Unit : Top \notin Holding(u) /\ Top \notin Inserting(u)
  PROVE  Steady /\ \A u \in Unit : OnWay(u) => OnWay(u)'
<1>1. Below \in Seq(Frame) /\ \A A : Some(stack, A) <=> Top \in A \/ Some(Below, A)
  BY TopFacts DEF Inv
<1>2. Nested(Below)
  BY NestedPop DEF Inv, ListInv, TypeInv, Below
<1>3. Range(sim_asynch_queue) \subseteq Unit /\ sim_asynch_queue \in Seq(Unit)
  BY RangeFacts DEF Inv, TypeInv
<1>4. ListInv'
  BY <1>1, <1>2, <1>3 DEF Inv, ListInv
<1> QED BY <1>1, <1>3, <1>4 DEF Steady, OnWay

\* A call from the instruction loop.
LEMMA FirstSteady ==
  ASSUME Inv, stack = <<>>, NEW f \in Frame, f.kind = "call", stack' = <<f>>, sim_asynch_queue' = sim_asynch_queue
  PROVE  Steady /\ \A u \in Unit : OnWay(u) => OnWay(u)'
<1>1. stack' \in Seq(Frame) /\ stack' = Push(f, <<>>) /\ stack \in Seq(Frame) /\ stack' = Push(f, stack)
  BY DEF Push
<1>2. \A A : ~Some(<<>>, A)
  BY DEF Some
<1>3. \A A : Some(stack', A) <=> f \in A
  <2>1. \A A : Some(Push(f, stack), A) <=> f \in A \/ Some(stack, A)
    BY <1>1, SomePush, Zenon
  <2> QED BY <1>1, <1>2, <2>1
<1>4. \A u \in Unit : f \notin Holding(u)
  BY FrameCases
<1>5. Nested(stack')
  BY <1>1, <1>2, NestedPush, Zenon DEF Inv, ListInv
<1>6. Range(sim_asynch_queue) \subseteq Unit /\ sim_asynch_queue \in Seq(Unit)
  BY RangeFacts DEF Inv, TypeInv
<1>7. ListInv'
  BY <1>3, <1>4, <1>5, <1>6 DEF Inv, ListInv
<1> QED BY <1>1, <1>2, <1>3, <1>4, <1>6, <1>7 DEF Steady, OnWay

\* Two calls at once.
LEMMA TwoPush ==
  ASSUME NEW S, NEW s \in Seq(S), NEW f \in S, NEW g \in S
  PROVE  <<f, g>> \o s = Push(f, Push(g, s))
<1> DEFINE a == <<f, g>> \o s
           p == Push(g, s)
           b == Push(f, p)
<1>1. /\ p \in Seq(S) /\ Len(p) = Len(s) + 1 /\ Len(s) \in Nat
      /\ p[1] = g /\ \A i \in 1 .. Len(s) : p[i + 1] = s[i]
  BY PushFacts
<1> HIDE DEF p
<1>2. /\ b \in Seq(S) /\ Len(b) = Len(p) + 1
      /\ b[1] = f /\ \A i \in 1 .. Len(p) : b[i + 1] = p[i]
  <2>1. \A x \in Seq(S) : /\ Push(f, x) \in Seq(S) /\ Len(Push(f, x)) = Len(x) + 1 /\ Push(f, x)[1] = f
                          /\ \A i \in 1 .. Len(x) : Push(f, x)[i + 1] = x[i]
    BY PushFacts
  <2> QED BY <1>1, <2>1, Zenon
<1>3. /\ a \in Seq(S) /\ Len(a) = Len(s) + 2 /\ a[1] = f /\ a[2] = g /\ \A i \in 1 .. Len(s) : a[i + 2] = s[i]
  OBVIOUS
<1> HIDE DEF a, b
<1>4. Len(a) = Len(b)
  BY <1>1, <1>2, <1>3
<1>5. ASSUME NEW i \in 1 .. Len(a) PROVE a[i] = b[i]
  <2>1. CASE i = 1
    BY <1>2, <1>3, <2>1
  <2>2. CASE i = 2
    <3>1. 1 \in 1 .. Len(p) /\ 1 + 1 = 2
      BY <1>1
    <3> QED BY <1>1, <1>2, <1>3, <2>2, <3>1
  <2>3. CASE i > 2
    <3>1. /\ i - 2 \in 1 .. Len(s) /\ (i - 2) + 2 = i /\ (i - 2) + 1 = i - 1 /\ (i - 1) + 1 = i
          /\ i - 1 \in 1 .. Len(p)
      BY <1>1, <1>3, <2>3
    <3>2. a[i] = s[i - 2]
      BY <1>3, <3>1
    <3>3. b[i] = p[i - 1] /\ p[i - 1] = s[i - 2]
      BY <1>1, <1>2, <3>1, Zenon
    <3> QED BY <3>2, <3>3
  <2> QED BY <1>1, <1>3, <2>1, <2>2, <2>3
<1>6. a = [i \in 1 .. Len(a) |-> a[i]] /\ b = [i \in 1 .. Len(b) |-> b[i]]
  BY <1>2, <1>3
<1>7. [i \in 1 .. Len(a) |-> a[i]] = [i \in 1 .. Len(b) |-> b[i]]
  BY <1>4, <1>5, Zenon
<1>8. a = b
  BY <1>6, <1>7, Zenon
<1> QED BY <1>8 DEF a, b, p

\* A unit is linked if it is on the queue or in a detached part of it.
LEMMA LinkedIs ==
  ASSUME TypeInv, NEW u
  PROVE  /\ Linked(u) <=> u \in Range(sim_asynch_queue) \/ Some(stack, Holding(u))
         /\ u \in Detached <=> Some(stack, Holding(u))
<1>1. stack \in Seq(Frame) /\ DOMAIN stack = 1 .. Len(stack) /\ \A i \in 1 .. Len(stack) : stack[i] \in Frame
  BY DEF TypeInv
<1>2. \A i \in 1 .. Len(stack) : stack[i] \in Holding(u) <=> stack[i].kind = "migrate" /\ u \in Range(stack[i].rest)
  <2>1. "migrate" # "call"
    OBVIOUS
  <2> QED BY <1>1, <2>1, FrameCases
<1>3. u \in Detached <=> \E i \in 1 .. Len(stack) : stack[i].kind = "migrate" /\ u \in Range(stack[i].rest)
  BY <1>1, Zenon DEF Detached
<1> QED BY <1>2, <1>3, Zenon DEF Linked, Some

\* The call made for a migrated unit.
LEMMA MigratedCall ==
  ASSUME TypeInv, NEW u \in Unit
  PROVE  LET g == CallOf(u, Shortened(a_event_time[u]), a_due[u], <<"request", "completion">>) IN
         /\ g \in UnitFrame /\ g \in Frame /\ g.unit = u /\ g.wait = Shortened(a_event_time[u]) /\ g.due = a_due[u]
         /\ \A v \in Unit : g \notin Holding(v) /\ (g \in Calling(v) <=> v = u) /\ (g \in Inserting(v) <=> v = u)
<1>1. a_event_time \in [Unit -> Delay \cup {0}] /\ a_due \in [Unit -> Int]
  BY DEF TypeInv
<1>2. a_event_time[u] \in Nat /\ a_due[u] \in Int
  <2>1. \A x \in Delay \cup {0} : x \in Nat
    BY AsynchDelayAssumption
  <2> QED BY <1>1, <2>1, Zenon
<1>3. Half \in Int
  BY LatencyAssumption DEF Half
<1>4. Shortened(a_event_time[u]) \in Int
  BY <1>2, <1>3 DEF Shortened
<1>5. ASSUME NEW t \in Int, NEW due \in Int, NEW d \in Seq(UnitStep), Orderly(d), Inserts(d)
      PROVE  LET g == CallOf(u, t, due, d) IN
             /\ g \in UnitFrame /\ g \in Frame /\ g.unit = u /\ g.wait = t /\ g.due = due
             /\ \A v \in Unit : g \notin Holding(v) /\ (g \in Calling(v) <=> v = u) /\ (g \in Inserting(v) <=> v = u)
  BY <1>5, UnitCallIs
<1>6. /\ <<"request", "completion">> \in Seq(UnitStep) /\ Orderly(<<"request", "completion">>)
      /\ Inserts(<<"request", "completion">>)
  BY StepsFacts, Zenon
<1> QED BY <1>2, <1>4, <1>5, <1>6, Zenon

\* The next unit of a detached list becomes a call.
LEMMA MigrateSteady ==
  ASSUME Inv, MigrateNext
  PROVE  /\ Steady /\ \A u \in Unit : OnWay(u) => OnWay(u)'
         /\ \E u \in Unit : \E g \in UnitFrame, m \in MigrationFrame :
              /\ stack' = Push(g, Push(m, Below)) /\ Some(stack, Holding(u))
              /\ g.unit = u /\ g.wait = Shortened(a_event_time[u]) /\ g.due = a_due[u]
<1> DEFINE rest == Top.rest
           u == Head(rest)
           g == CallOf(u, Shortened(a_event_time[u]), a_due[u], <<"request", "completion">>)
           m == Migration(Tail(rest))
           s == Push(m, Below)
<1>1. /\ stack # <<>> /\ Top.kind = "migrate" /\ rest # <<>> /\ stack' = <<g, m>> \o Below
      /\ sim_asynch_queue' = sim_asynch_queue
  BY DEF MigrateNext, shared
<1>2. Top \in Frame /\ Below \in Seq(Frame) /\ \A A : Some(stack, A) <=> Top \in A \/ Some(Below, A)
  BY <1>1, TopFacts, Zenon DEF Inv
<1>3. /\ rest \in Seq(Unit) /\ IsInjective(rest)
      /\ \A v : (Top \in Holding(v) <=> v \in Range(rest)) /\ Top \notin Inserting(v)
  BY <1>1, <1>2, FrameCases
<1>4. /\ Nested(Below) /\ \A v \in Unit : Top \in Holding(v) => ~Some(Below, Holding(v))
  <2>1. \A v \in Unit : Top \in Holding(v) \cup Calling(v) => ~Some(Below, Holding(v))
    BY <1>1, NestedPop DEF Inv, ListInv, TypeInv, Top, Below
  <2>2. Nested(Below)
    BY <1>1, NestedPop DEF Inv, ListInv, TypeInv, Below
  <2> QED BY <2>1, <2>2
<1> HIDE DEF rest
<1>5. /\ u = rest[1] /\ u \in Unit /\ Tail(rest) \in Seq(Unit) /\ Len(rest) \in Nat \ {0} /\ Len(Tail(rest)) = Len(rest) - 1
      /\ \A i \in 1 .. Len(rest) - 1 : Tail(rest)[i] = rest[i + 1]
  BY <1>1, <1>3, PopFacts
<1>6. /\ \A i, j \in 1 .. Len(rest) : rest[i] = rest[j] => i = j
      /\ DOMAIN Tail(rest) = 1 .. Len(rest) - 1
  BY <1>3, <1>5 DEF IsInjective
<1>7. IsInjective(Tail(rest))
  <2>1. ASSUME NEW i \in 1 .. Len(rest) - 1, NEW j \in 1 .. Len(rest) - 1, Tail(rest)[i] = Tail(rest)[j] PROVE i = j
    <3>1. i + 1 \in 1 .. Len(rest) /\ j + 1 \in 1 .. Len(rest)
      BY <1>5
    <3>2. rest[i + 1] = rest[j + 1]
      BY <1>5, <2>1, Zenon
    <3>3. i + 1 = j + 1
      BY <1>6, <3>1, <3>2
    <3> QED BY <1>5, <3>3
  <2> QED BY <1>6, <2>1 DEF IsInjective
<1>8. \A v : v \in Range(rest) <=> v = u \/ v \in Range(Tail(rest))
  <2>1. \A v : v \in Range(rest) <=> Some(rest, {v})
    BY <1>3, RangeSome, Zenon
  <2>2. \A v : v \in Range(Tail(rest)) <=> Some(Tail(rest), {v})
    BY <1>5, RangeSome, Zenon
  <2>3. \A v : Some(rest, {v}) <=> rest[1] \in {v} \/ Some(Tail(rest), {v})
    BY <1>1, <1>3, SomePop
  <2> QED BY <1>5, <2>1, <2>2, <2>3, Zenon
<1>9. u \notin Range(Tail(rest))
  <2>1. SUFFICES ASSUME NEW i \in 1 .. Len(rest) - 1, Tail(rest)[i] = u PROVE FALSE
    BY <1>5, <1>6 DEF Range
  <2>2. i + 1 \in 1 .. Len(rest) /\ 1 \in 1 .. Len(rest) /\ i + 1 # 1
    BY <1>5
  <2> QED BY <1>5, <1>6, <2>1, <2>2
<1>10. Range(rest) \subseteq Unit
  BY <1>3, RangeFacts
<1>11. /\ s \in Seq(Frame) /\ Nested(s)
       /\ \A v \in Unit : Some(s, Holding(v)) <=> v \in Range(Tail(rest)) \/ Some(Below, Holding(v))
       /\ \A v \in Unit : Some(s, Inserting(v)) <=> Some(Below, Inserting(v))
  <2>1. \A v \in Range(Tail(rest)) : ~Some(Below, Holding(v))
    BY <1>3, <1>4, <1>8, <1>10
  <2> QED BY <1>2, <1>4, <1>5, <1>7, <2>1, DetachPush, Zenon
<1>12. /\ g \in UnitFrame /\ g \in Frame /\ g.unit = u /\ g.wait = Shortened(a_event_time[u]) /\ g.due = a_due[u]
       /\ \A v \in Unit : g \notin Holding(v) /\ (g \in Calling(v) <=> v = u) /\ (g \in Inserting(v) <=> v = u)
  <2>1. u \in Unit
    BY <1>5
  <2> HIDE DEF u
  <2> QED BY <2>1, MigratedCall, Zenon DEF Inv
<1>13. m \in MigrationFrame /\ m \in Frame
  BY <1>5, <1>7, MigrationIs, Zenon
<1> HIDE DEF u, g, m
<1>14. stack' = Push(g, s)
  BY <1>1, <1>2, <1>12, <1>13, TwoPush, Zenon
<1>15. ~Some(s, Holding(u))
  BY <1>3, <1>4, <1>5, <1>8, <1>9, <1>11, Zenon
<1>16. \A A : Some(stack', A) <=> g \in A \/ Some(s, A)
  BY <1>11, <1>12, <1>14, SomePush
<1>17. stack' \in Seq(Frame)
  BY <1>11, <1>12, <1>14, PushFacts, Zenon
<1>18. Nested(stack')
  <2>1. \A v \in Unit : g \in Holding(v) \cup Calling(v) => ~Some(s, Holding(v))
    BY <1>12, <1>15, Zenon
  <2> QED BY <1>11, <1>12, <1>14, <2>1, NestedPush, Zenon
<1>19. \A v \in Unit : Some(stack', Holding(v)) => Some(stack, Holding(v))
  BY <1>2, <1>3, <1>8, <1>11, <1>12, <1>16
<1>20. Range(sim_asynch_queue) \subseteq Unit /\ sim_asynch_queue \in Seq(Unit)
  BY RangeFacts DEF Inv, TypeInv
<1>21. ListInv'
  BY <1>1, <1>18, <1>19, <1>20, Zenon DEF Inv, ListInv
<1>22. Steady
  BY <1>1, <1>17, <1>19, <1>20, <1>21, Zenon DEF Steady
<1>23. \A v \in Unit : OnWay(v) => OnWay(v)'
  BY <1>1, <1>2, <1>3, <1>8, <1>11, <1>12, <1>16, Zenon DEF OnWay
<1>24. Some(stack, Holding(u))
  BY <1>2, <1>3, <1>8
<1> QED BY <1>5, <1>12, <1>13, <1>14, <1>22, <1>23, <1>24, Zenon

\* The record of a call that device code makes.
LEMMA DeviceCallIs ==
  ASSUME TypeInv, NEW u \in Unit, NEW t \in Delay, NEW todo \in {ActivateSteps, CancelSteps, AbsSteps}
  PROVE  LET g == CallOf(u, t, elapsed + t, todo) IN
         /\ g \in UnitFrame /\ g \in Frame /\ g.kind = "call" /\ g.unit = u /\ g.wait = t /\ g.due = elapsed + t
         /\ g.wait \in Nat /\ \A v \in Unit : g \notin Holding(v) /\ (g \in Calling(v) <=> v = u)
<1>1. t \in Nat /\ t \in Int /\ elapsed + t \in Int
  BY AsynchDelayAssumption DEF TypeInv
<1>2. todo \in Seq(UnitStep) /\ Orderly(todo)
  BY StepsFacts, Zenon
<1> QED BY <1>1, <1>2, UnitCallIs

\* The completion callback, and what it may call.
LEMMA CompletionSteady ==
  ASSUME Inv, Completion
  PROVE  /\ Steady /\ \A u \in Unit : OnWay(u) => OnWay(u)'
         /\ stack # <<>> /\ Top.kind = "call" /\ Top.unit \in Unit
         /\ \E f \in UnitFrame :
              /\ f = Now(Tail(Top.todo))
              /\ \/ stack' = Push(f, Below)
                 \/ \E g \in UnitFrame : /\ stack' = Push(g, Push(f, Below))
                                         /\ g.wait \in Nat /\ g.due = elapsed + g.wait
<1> DEFINE f == Now(Tail(Top.todo))
           s == Push(f, Below)
<1>1. Doing("completion") /\ "completion" \in UnitStep \ LoopStep /\ "completion" \notin {"insert", "request"}
  BY DEF Completion, UnitStep, LoopStep
<1>2. /\ stack # <<>> /\ Top.kind = "call" /\ Top.unit \in Unit /\ Fits(Tail(Top.todo)) /\ Fits(Top.todo) /\ Rest = s
      /\ Inserts(Top.todo) => Inserts(Tail(Top.todo))
  BY <1>1, DoingFacts DEF Inv
<1>3. /\ f \in Frame /\ f.kind = "call" /\ f.unit = Top.unit /\ f \notin LoopFrame
      /\ \A u \in Unit : f \in Inserting(u) <=> Top.unit = u /\ Inserts(Tail(Top.todo))
  BY <1>2, NowFacts, NoUnitAssumption, Zenon DEF Inv
<1>4. f \in UnitFrame
  BY <1>3, FrameCases, Zenon
<1>5. Top \in Frame /\ Below \in Seq(Frame) /\ \A A : Some(stack, A) <=> Top \in A \/ Some(Below, A)
  BY <1>2, TopFacts DEF Inv
<1>6. \A u \in Unit : Top \in Inserting(u) => f \in Inserting(u)
  BY <1>2, <1>3, <1>5, FrameCases, Zenon
<1>7. sim_asynch_queue' = sim_asynch_queue
  BY DEF Completion, shared
<1>8. /\ s \in Seq(Frame) /\ Nested(s)
      /\ \A A : Some(s, A) <=> f \in A \/ Some(Below, A)
      /\ \A u \in Unit : Some(s, Holding(u)) <=> Some(stack, Holding(u))
      /\ \A u \in Unit : Top.unit = u => ~Some(s, Holding(u))
  BY <1>2, <1>3, GoOn, Zenon
<1> HIDE DEF f
<1>9. CASE stack' = s
  BY <1>2, <1>3, <1>4, <1>6, <1>7, <1>9, GoOnSteady, Zenon DEF f
<1>10. CASE \E call \in CallbackCalls, t \in Delay : DeviceCall(Top.unit, call, t, s)
  <2> HIDE DEF s
  <2>1. PICK g \in UnitFrame :
           /\ stack' = Push(g, s) /\ g \in Frame /\ g.kind = "call" /\ g.unit = Top.unit
           /\ g.wait \in Nat /\ g.due = elapsed + g.wait
           /\ \A v \in Unit : g \notin Holding(v) /\ (g \in Calling(v) <=> v = Top.unit)
    <3>1. PICK t \in Delay, todo \in {ActivateSteps, CancelSteps, AbsSteps} :
             stack' = Push(CallOf(Top.unit, t, elapsed + t, todo), s)
      BY <1>10 DEF DeviceCall, Push
    <3> DEFINE g == CallOf(Top.unit, t, elapsed + t, todo)
    <3>2. /\ g \in UnitFrame /\ g \in Frame /\ g.kind = "call" /\ g.unit = Top.unit /\ g.wait = t /\ g.due = elapsed + t
          /\ g.wait \in Nat /\ \A v \in Unit : g \notin Holding(v) /\ (g \in Calling(v) <=> v = Top.unit)
      <4>1. TypeInv /\ Top.unit \in Unit
        BY <1>2, Zenon DEF Inv
      <4> QED BY <4>1, DeviceCallIs
    <3>3. stack' = Push(g, s)
      BY <3>1
    <3> HIDE DEF g
    <3> QED BY <3>2, <3>3, Zenon
  <2>2. /\ stack' \in Seq(Frame) /\ \A A : Some(stack', A) <=> g \in A \/ Some(s, A)
    BY <1>8, <2>1, PushFacts, SomePush, Zenon
  <2>3. \A v \in Unit : g \in Holding(v) \cup Calling(v) => ~Some(s, Holding(v))
    BY <1>8, <2>1, Zenon
  <2>4. Nested(stack')
    BY <1>8, <2>1, <2>3, NestedPush
  <2>5. \A v \in Unit : Some(stack', Holding(v)) <=> Some(stack, Holding(v))
    BY <1>8, <2>1, <2>2
  <2>6. Range(sim_asynch_queue) \subseteq Unit /\ sim_asynch_queue \in Seq(Unit)
    BY RangeFacts DEF Inv, TypeInv
  <2>7. ListInv'
    BY <1>7, <2>4, <2>5, <2>6 DEF Inv, ListInv
  <2>8. Steady
    BY <1>7, <2>2, <2>5, <2>6, <2>7 DEF Steady
  <2>9. \A u \in Unit : OnWay(u) => OnWay(u)'
    BY <1>5, <1>6, <1>7, <1>8, <2>2, <2>5 DEF OnWay
  <2> QED BY <1>2, <1>4, <2>1, <2>8, <2>9, Zenon DEF f, s
<1>11. stack' = s \/ \E call \in CallbackCalls, t \in Delay : DeviceCall(Top.unit, call, t, s)
  BY <1>2 DEF Completion
<1> QED BY <1>9, <1>10, <1>11

\* A thread links a unit that is not linked yet.
LEMMA PostLists ==
  ASSUME Inv, NEW u \in Unit, NEW call \in {"activate", "abs"}, NEW t \in Delay, Post(u, call, t)
  PROVE  /\ Inv' /\ stack' = stack
         /\ \A v : v \in Range(sim_asynch_queue') => v \in Range(sim_asynch_queue) \/ (v = u /\ ~Linked(u))
         /\ \A v \in Unit : v = u \/ OnWay(v) => OnWay(v)'
         /\ \/ Linked(u) /\ a_due' = a_due /\ a_event_time' = a_event_time
            \/ ~Linked(u) /\ a_due' = [a_due EXCEPT ![u] = elapsed + t] /\ a_event_time' = [a_event_time EXCEPT ![u] = t]
<1> DEFINE q == sim_asynch_queue
<1>1. /\ stack' = stack /\ clock' = clock /\ elapsed' = elapsed /\ promise' = promise /\ early' = early /\ slept' = slept
      /\ wanted' = wanted \cup {u} /\ Link(u, call, t)
  BY DEF Post
<1>2. /\ q \in Seq(Unit) /\ IsInjective(q) /\ Range(q) \subseteq Unit
      /\ a_event_time \in [Unit -> Delay \cup {0}] /\ a_activate_call \in [Unit -> {"activate", "abs"}]
      /\ a_due \in [Unit -> Int] /\ elapsed \in Nat /\ t \in Nat /\ wanted \subseteq Unit
  BY RangeFacts, AsynchDelayAssumption DEF Inv, TypeInv, ListInv
<1>3. Linked(u) <=> u \in Range(q) \/ Some(stack, Holding(u))
  BY LinkedIs DEF Inv
<1>4. CASE Linked(u)
  <2>1. /\ sim_asynch_queue' = q /\ a_event_time' = a_event_time /\ a_due' = a_due
        /\ a_activate_call' = [a_activate_call EXCEPT ![u] = "abs"]
    BY <1>1, <1>4 DEF Link
  <2>2. a_activate_call' \in [Unit -> {"activate", "abs"}]
    BY <1>2, <2>1
  <2>3. TypeInv'
    BY <1>1, <1>2, <2>1, <2>2 DEF Inv, TypeInv
  <2>4. ListInv'
    BY <1>1, <2>1 DEF Inv, ListInv
  <2>5. \A v \in Unit : v = u \/ OnWay(v) => OnWay(v)'
    BY <1>1, <1>3, <1>4, <2>1 DEF OnWay
  <2> QED BY <1>1, <1>4, <2>1, <2>3, <2>4, <2>5 DEF Inv
<1>5. CASE ~Linked(u)
  <2>1. /\ a_event_time' = [a_event_time EXCEPT ![u] = t] /\ a_due' = [a_due EXCEPT ![u] = elapsed + t]
        /\ a_activate_call' = [a_activate_call EXCEPT ![u] = call] /\ sim_asynch_queue' = Push(u, q)
    BY <1>1, <1>5 DEF Link, Push
  <2>2. /\ a_event_time' \in [Unit -> Delay \cup {0}] /\ a_due' \in [Unit -> Int]
        /\ a_activate_call' \in [Unit -> {"activate", "abs"}]
    BY <1>2, <2>1
  <2>3. /\ Push(u, q) \in Seq(Unit) /\ Len(Push(u, q)) = Len(q) + 1 /\ Len(q) \in Nat
        /\ Push(u, q)[1] = u /\ \A i \in 1 .. Len(q) : Push(u, q)[i + 1] = q[i]
    BY <1>2, PushFacts
  <2>4. \A v : v \in Range(Push(u, q)) <=> v = u \/ v \in Range(q)
    <3>1. \A v : v \in Range(Push(u, q)) <=> Some(Push(u, q), {v})
      BY <2>3, RangeSome, Zenon
    <3>2. \A v : v \in Range(q) <=> Some(q, {v})
      BY <1>2, RangeSome, Zenon
    <3>3. \A v : Some(Push(u, q), {v}) <=> u \in {v} \/ Some(q, {v})
      BY <1>2, SomePush
    <3> QED BY <3>1, <3>2, <3>3, Zenon
  <2>5. IsInjective(Push(u, q))
    <3> DEFINE p == Push(u, q)
    <3>1. /\ Len(p) = Len(q) + 1 /\ Len(q) \in Nat /\ p[1] = u /\ \A i \in 1 .. Len(q) : p[i + 1] = q[i]
          /\ DOMAIN p = 1 .. Len(q) + 1
      BY <2>3
    <3>2. /\ \A i \in 1 .. Len(q) : q[i] # u
          /\ \A i, j \in 1 .. Len(q) : q[i] = q[j] => i = j
      BY <1>2, <1>3, <1>5, RangeFacts DEF IsInjective
    <3> HIDE DEF p
    <3>3. SUFFICES ASSUME NEW i \in 1 .. Len(q) + 1, NEW j \in 1 .. Len(q) + 1, p[i] = p[j]
                   PROVE  i = j
      BY <3>1 DEF IsInjective, p
    <3>4. \A k \in 1 .. Len(q) + 1 : k # 1 => k - 1 \in 1 .. Len(q) /\ (k - 1) + 1 = k
      BY <3>1
    <3>5. \A k \in 1 .. Len(q) + 1 : k # 1 => p[k] = q[k - 1] /\ p[k] # u
      BY <3>1, <3>2, <3>4
    <3>6. CASE i = 1 \/ j = 1
      BY <3>1, <3>3, <3>5, <3>6
    <3>7. CASE i # 1 /\ j # 1
      <4>1. q[i - 1] = q[j - 1]
        BY <3>3, <3>5, <3>7
      <4>2. i - 1 = j - 1
        BY <3>2, <3>4, <3>7, <4>1
      <4> QED BY <3>1, <4>2
    <3> QED BY <3>6, <3>7
  <2>6. TypeInv'
    BY <1>1, <1>2, <2>1, <2>2, <2>3, Zenon DEF Inv, TypeInv
  <2>7. ListInv'
    BY <1>1, <1>3, <1>5, <2>1, <2>4, <2>5 DEF Inv, ListInv
  <2>8. \A v \in Unit : v = u \/ OnWay(v) => OnWay(v)'
    BY <1>1, <2>1, <2>4 DEF OnWay
  <2>9. \A v : v \in Range(sim_asynch_queue') => v \in Range(sim_asynch_queue) \/ (v = u /\ ~Linked(u))
    BY <1>5, <2>1, <2>4
  <2> QED BY <1>1, <1>5, <2>1, <2>6, <2>7, <2>8, <2>9 DEF Inv
<1> QED BY <1>4, <1>5

-----------------------------------------------------------------------------
(* The lists stay apart, and no request is lost.                           *)

\* A step that is over: what is left of the call.
LEMMA PassFacts ==
  ASSUME TypeInv, NEW step, Doing(step), step \notin {"insert", "request"}
  PROVE  LET f == Now(Tail(Top.todo)) IN
         /\ stack # <<>> /\ Top.kind = "call" /\ Rest = Push(f, Below)
         /\ f \in Frame /\ f.kind = "call" /\ f.unit = Top.unit
         /\ \A u \in Unit : Top \in Inserting(u) => f \in Inserting(u)
<1> DEFINE f == Now(Tail(Top.todo))
<1>1. /\ stack # <<>> /\ Top.kind = "call" /\ Fits(Tail(Top.todo)) /\ Rest = Push(f, Below)
      /\ Inserts(Top.todo) <=> Inserts(Tail(Top.todo))
  BY DoingFacts
<1>2. /\ f \in Frame /\ f.kind = "call" /\ f.unit = Top.unit
      /\ \A u \in Unit : f \in Inserting(u) <=> Top.unit = u /\ Inserts(Tail(Top.todo))
  BY <1>1, NowFacts
<1>3. \A u \in Unit : Top \in Inserting(u) <=> Top.unit = u /\ Inserts(Top.todo)
  BY <1>1, TopFacts, FrameCases, Zenon
<1> QED BY <1>1, <1>2, <1>3, Zenon

\* Whatever a step does to the clock and the times, the invariants need this of it.
LEMMA StepKeeps ==
  ASSUME Inv, LostInv, Steady, Good(clock'),
         a_event_time' = a_event_time, a_activate_call' = a_activate_call, a_due' = a_due,
         promise' \in [Unit -> Int], elapsed' \in Nat, slept' \in Nat, early' \in Int, wanted' \subseteq wanted,
         \A u \in wanted' : OnWay(u) \/ Queued(clock, u) => OnWay(u)' \/ Queued(clock', u)
  PROVE  Inv' /\ LostInv'
<1>1. wanted' \subseteq Unit
  BY DEF Inv, TypeInv
<1>2. TypeInv'
  BY <1>1 DEF Inv, TypeInv, Steady
<1>3. ListInv'
  BY DEF Steady
<1>4. \A u \in wanted' : OnWay(u) \/ Queued(clock, u)
  BY DEF LostInv, OnWay
<1>5. \A u \in wanted' : OnWay(u)' \/ Queued(clock', u)
  BY <1>4
<1>6. LostInv'
  BY <1>5 DEF LostInv, OnWay
<1> QED BY <1>2, <1>3, <1>6 DEF Inv

\* Steps that touch nothing but the lists.
LEMMA QuietKeeps ==
  ASSUME Inv, LostInv, Steady, Quiet, \A u \in Unit : OnWay(u) => OnWay(u)',
         a_event_time' = a_event_time, a_activate_call' = a_activate_call, a_due' = a_due
  PROVE  Inv' /\ LostInv'
<1>1. clock' = clock /\ promise' = promise /\ wanted' = wanted /\ early' = early /\ elapsed' = elapsed /\ slept' = slept
  BY DEF Quiet, Inside
<1>2. /\ Good(clock') /\ promise' \in [Unit -> Int] /\ elapsed' \in Nat /\ slept' \in Nat /\ early' \in Int
      /\ wanted' \subseteq wanted /\ wanted' \subseteq Unit
  BY <1>1 DEF Inv, TypeInv
<1>3. \A u \in wanted' : OnWay(u) \/ Queued(clock, u) => OnWay(u)' \/ Queued(clock', u)
  BY <1>1, <1>2
<1> QED BY <1>2, <1>3, StepKeeps

\* A call with more than one step left.
LEMMA SecondStep ==
  /\ \A n \in Nat \ {0} : 1 \in 1 .. n /\ (1 < n => 1 \in 1 .. n - 1)
  /\ \A T : \A r \in Seq(T), n \in Nat : Len(r) = n - 1 /\ 1 < n => r # <<>>
OBVIOUS

\* sim_cancel returns early: its last step is skipped.
LEMMA SkipFacts ==
  ASSUME NEW todo \in Seq(UnitStep), Orderly(todo), todo # <<>>, todo[1] = "update unless empty"
  PROVE  LET r == Tail(Tail(todo)) IN r \in Seq(UnitStep) /\ Orderly(r) /\ (Inserts(todo) => Inserts(r))
<1> DEFINE r == Tail(todo)
<1>1. /\ r \in Seq(UnitStep) /\ Len(r) = Len(todo) - 1 /\ Len(todo) \in Nat \ {0}
      /\ \A i \in 1 .. Len(todo) - 1 : r[i] = todo[i + 1]
  BY PopFacts, Zenon
<1>2. Orderly(r) /\ (Inserts(todo) <=> todo[1] \in {"insert", "request"} \/ Inserts(r))
  BY TodoTail, Zenon
<1> HIDE DEF r
<1>4. 1 < Len(todo) /\ todo[1 + 1] = "cancel"
  <2>1. 1 \in 1 .. Len(todo)
    BY <1>1, SecondStep, Zenon
  <2> QED BY <2>1, Zenon DEF Orderly
<1>6. r[1] = "cancel" /\ r # <<>>
  <2>1. 1 \in 1 .. Len(todo) - 1
    BY <1>1, <1>4, SecondStep, Zenon
  <2>2. r[1] = todo[1 + 1]
    BY <1>1, <2>1, Zenon
  <2>3. r # <<>>
    BY <1>1, <1>4, SecondStep, Zenon
  <2> QED BY <1>4, <2>2, <2>3, Zenon
<1>7. Tail(r) \in Seq(UnitStep) /\ Orderly(Tail(r)) /\ (Inserts(r) <=> r[1] \in {"insert", "request"} \/ Inserts(Tail(r)))
  BY <1>1, <1>2, <1>6, TodoTail, Zenon
<1>8. "cancel" \notin {"insert", "request"} /\ "update unless empty" \notin {"insert", "request"}
  BY Zenon
<1> QED BY <1>2, <1>6, <1>7, <1>8, Zenon DEF r

\* sim_aio_update_queue, where a call starts and in sim_cancel.
LEMMA UpdateKeeps ==
  ASSUME Inv, LostInv, Update \/ UpdateUnlessEmpty
  PROVE  /\ Inv' /\ LostInv' /\ Steady /\ stack # <<>> /\ Top.kind = "call"
         /\ \E f \in Frame :
              /\ f.kind = "call" /\ f.unit = Top.unit /\ f = Now(f.todo)
              /\ stack' = Push(f, Below) \/ stack' = Push(Migration(sim_asynch_queue), Push(f, Below))
              /\ Doing("update") => f.todo = Tail(Top.todo)
         /\ Doing("update") => sim_asynch_queue' = <<>>
<1> DEFINE f == Now(Tail(Top.todo))
<1>1. PICK step \in {"update", "update unless empty"} : Doing(step)
  BY Zenon DEF Update, UpdateUnlessEmpty
<1>2. /\ stack # <<>> /\ Top.kind = "call" /\ Rest = Push(f, Below)
      /\ f \in Frame /\ f.kind = "call" /\ f.unit = Top.unit
      /\ \A u \in Unit : Top \in Inserting(u) => f \in Inserting(u)
  <2>1. step \notin {"insert", "request"}
    BY Zenon
  <2> QED BY <1>1, <2>1, PassFacts, Zenon DEF Inv
<1>3. Quiet /\ a_event_time' = a_event_time /\ a_activate_call' = a_activate_call /\ a_due' = a_due
  BY Zenon DEF Update, UpdateUnlessEmpty, Detach, shared
<1>4. f.todo = Tail(Top.todo) /\ f = Now(f.todo)
  BY Zenon DEF Now, CallOf
<1>5. CASE Detach(Rest)
  <2> HIDE DEF f
  <2>1. Detach(Push(f, Below))
    BY <1>2, <1>5, Zenon
  <2>2. /\ Steady /\ \A u \in Unit : OnWay(u) => OnWay(u)'
        /\ sim_asynch_queue' = <<>>
        /\ stack' = Push(f, Below) \/ stack' = Push(Migration(sim_asynch_queue), Push(f, Below))
    BY <1>2, <2>1, DetachSteady, Zenon
  <2>3. Inv' /\ LostInv'
    BY <1>3, <2>2, QuietKeeps, Zenon
  <2> QED BY <1>2, <1>4, <2>2, <2>3, Zenon
<1>6. CASE UpdateUnlessEmpty /\ clock.queue = <<>>
  <2> DEFINE todo == Tail(Tail(Top.todo))
             g == Now(todo)
  <2>1. Doing("update unless empty") /\ stack' = <<[Top EXCEPT !.todo = todo]>> \o Below /\ sim_asynch_queue' = sim_asynch_queue
    BY <1>6, Zenon DEF UpdateUnlessEmpty, shared
  <2>2. "update unless empty" \in UnitStep \ LoopStep /\ "update unless empty" \notin {"insert", "request"}
    BY Zenon DEF UnitStep, LoopStep
  <2>3. /\ Top.unit \in Unit /\ Fits(Top.todo) /\ Top.todo # <<>> /\ Top.todo[1] = "update unless empty"
        /\ Inserts(Top.todo) <=> Inserts(Tail(Top.todo))
    BY <2>1, <2>2, DoingFacts, Zenon DEF Inv
  <2>4. Top.todo \in Seq(UnitStep) /\ Orderly(Top.todo)
    BY <2>3, NoUnitAssumption, Zenon DEF Fits
  <2>7. todo \in Seq(UnitStep) /\ Orderly(todo) /\ (Inserts(Top.todo) => Inserts(todo))
    BY <2>3, <2>4, SkipFacts, Zenon
  <2>8. Fits(todo)
    BY <2>3, <2>7, Zenon DEF Fits
  <2>9. /\ [Top EXCEPT !.todo = todo] = g /\ g \in Frame /\ g.kind = "call" /\ g.unit = Top.unit
        /\ \A u \in Unit : g \in Inserting(u) <=> Top.unit = u /\ Inserts(todo)
    BY <1>2, <2>8, NowFacts, Zenon DEF Inv
  <2>10. g.todo = todo /\ g = Now(g.todo)
    BY Zenon DEF Now, CallOf
  <2>11. \A u \in Unit : Top \in Inserting(u) => g \in Inserting(u)
    BY <1>2, <2>3, <2>7, <2>9, TopFacts, FrameCases, Zenon DEF Inv
  <2> HIDE DEF g
  <2>12. stack' = Push(g, Below)
    BY <2>1, <2>9, Zenon DEF Push
  <2>13. Steady /\ \A u \in Unit : OnWay(u) => OnWay(u)'
    BY <1>2, <2>1, <2>9, <2>11, <2>12, GoOnSteady, Zenon
  <2>14. Inv' /\ LostInv'
    BY <1>3, <2>13, QuietKeeps, Zenon
  <2>15. ~Doing("update")
    BY <2>1, Zenon DEF Doing
  <2> QED BY <1>2, <2>9, <2>10, <2>12, <2>13, <2>14, <2>15, Zenon
<1> QED BY <1>5, <1>6, Zenon DEF Update, UpdateUnlessEmpty

\* A migrated unit's call makes the call that was asked for.
LEMMA RequestKeeps ==
  ASSUME Inv, LostInv, Request
  PROVE  /\ Inv' /\ LostInv' /\ Steady /\ stack # <<>> /\ Top.kind = "call" /\ Top.unit \in Unit
         /\ \E f \in UnitFrame : f = Now(f.todo) /\ stack' = Push(f, Below)
<1> DEFINE steps == IF a_activate_call[Top.unit] = "abs" THEN AbsSteps ELSE ActivateSteps
           todo == steps \o Tail(Top.todo)
           f == Now(todo)
<1>1. Doing("request") /\ "request" \in UnitStep \ LoopStep
  BY Zenon DEF Request, UnitStep, LoopStep
<1>2. stack # <<>> /\ Top.kind = "call" /\ Top.unit \in Unit /\ Fits(Tail(Top.todo))
  BY <1>1, DoingFacts DEF Inv
<1>3. Tail(Top.todo) \in Seq(UnitStep) /\ Orderly(Tail(Top.todo))
  BY <1>2, NoUnitAssumption DEF Fits
<1>4. steps \in {ActivateSteps, AbsSteps}
  OBVIOUS
<1>5. stack' = <<[Top EXCEPT !.todo = todo]>> \o Below
  BY DEF Request
<1>6. Quiet /\ sim_asynch_queue' = sim_asynch_queue /\ a_event_time' = a_event_time
      /\ a_activate_call' = a_activate_call /\ a_due' = a_due
  BY DEF Request, shared
<1> HIDE DEF steps
<1>7. todo \in Seq(UnitStep) /\ Orderly(todo) /\ Inserts(todo)
  BY <1>3, <1>4, StepsJoin, Zenon
<1> HIDE DEF todo
<1>8. Fits(todo)
  BY <1>2, <1>7 DEF Fits
<1>9. /\ [Top EXCEPT !.todo = todo] = f /\ f \in Frame /\ f.kind = "call" /\ f.todo = todo /\ f.unit = Top.unit
      /\ \A u \in Unit : f \in Inserting(u) <=> Top.unit = u /\ Inserts(todo)
  BY <1>2, <1>8, NowFacts DEF Inv
<1>10. f \in UnitFrame
  BY <1>2, <1>9, FrameCases
<1>11. \A u \in Unit : Top \in Inserting(u) => f \in Inserting(u)
  BY <1>2, <1>7, <1>9, TopFacts, FrameCases DEF Inv
<1>12. f = Now(f.todo)
  BY <1>9
<1> HIDE DEF f
<1>13. stack' = Push(f, Below)
  BY <1>5, <1>9, Zenon DEF Push
<1>14. Steady /\ \A u \in Unit : OnWay(u) => OnWay(u)'
  BY <1>2, <1>6, <1>9, <1>11, <1>13, GoOnSteady
<1>15. Inv' /\ LostInv'
  BY <1>6, <1>14, QuietKeeps, Zenon
<1> QED BY <1>2, <1>10, <1>12, <1>13, <1>14, <1>15

\* The unit goes to the event queue, or is linked again and left to the next migration.
LEMMA InsertKeeps ==
  ASSUME Inv, LostInv, DoInsert
  PROVE  /\ Inv' /\ LostInv' /\ Steady /\ stack # <<>> /\ Top.kind = "call" /\ Top.unit \in Unit
         /\ stack' = Push(Now(Tail(Top.todo)), Below)
<1> DEFINE f == Now(Tail(Top.todo))
<1>1. Doing("insert") /\ "insert" \in UnitStep \ LoopStep
  BY DEF DoInsert, UnitStep, LoopStep
<1>2. /\ stack # <<>> /\ Top.kind = "call" /\ Top.unit \in Unit /\ Fits(Tail(Top.todo)) /\ Rest = Push(f, Below)
      /\ Inserts(Tail(Top.todo)) => Inserts(Top.todo)
  BY <1>1, DoingFacts DEF Inv
<1>3. f \in Frame /\ f.kind = "call" /\ f.unit = Top.unit
  BY <1>2, NowFacts DEF Inv
<1>4. stack' = Push(f, Below)
  BY <1>2 DEF DoInsert
<1>5. /\ sim_asynch_queue' = sim_asynch_queue /\ a_event_time' = a_event_time
      /\ a_activate_call' = a_activate_call /\ a_due' = a_due
      /\ wanted' = wanted /\ early' = early /\ elapsed' = elapsed /\ slept' = slept
  BY Zenon DEF DoInsert, Inside, shared
<1>6. \A u \in Unit : Top \in Inserting(u) => u = Top.unit
  BY <1>2, TopFacts, FrameCases DEF Inv
<1>7. /\ Good(clock') /\ promise' \in [Unit -> Int]
      /\ \A v : Queued(clock, v) => Queued(clock', v)
      /\ Linked(Top.unit) \/ Queued(clock', Top.unit)
  BY InsertStep DEF Inv
<1> HIDE DEF f
<1>8. Steady /\ \A u \in Unit : OnWay(u) /\ (Top \in Inserting(u) => f \in Inserting(u)) => OnWay(u)'
  BY <1>2, <1>3, <1>4, <1>5, GoOnSteady, Zenon
<1>9. \A u \in Unit : Some(stack', Holding(u)) <=> Some(stack, Holding(u))
  BY <1>2, <1>3, <1>4, GoOn
<1>10. \A u \in Unit : u \in Range(sim_asynch_queue) \/ Some(stack, Holding(u)) => OnWay(u)'
  BY <1>5, <1>9 DEF OnWay
<1>14. \A u : u = Top.unit => u \in Range(sim_asynch_queue) \/ Some(stack, Holding(u)) \/ Queued(clock', u)
  BY <1>7, LinkedIs DEF Inv
<1>11. /\ wanted \subseteq Unit /\ early' \in Int /\ elapsed' \in Nat /\ slept' \in Nat /\ wanted' \subseteq wanted
  BY <1>5 DEF Inv, TypeInv
<1>12. ASSUME NEW u \in wanted', OnWay(u) \/ Queued(clock, u) PROVE OnWay(u)' \/ Queued(clock', u)
  <2>1. u \in Unit
    BY <1>11
  <2>2. CASE u = Top.unit
    BY <1>10, <1>14, <2>1, <2>2, Zenon
  <2>3. CASE u # Top.unit
    BY <1>6, <1>7, <1>8, <1>12, <2>1, <2>3, Zenon
  <2> QED BY <2>2, <2>3
<1>13. Inv' /\ LostInv'
  BY <1>5, <1>7, <1>8, <1>11, <1>12, StepKeeps
<1> QED BY <1>2, <1>4, <1>8, <1>13 DEF f

\* The unit is taken off the event queue.
LEMMA CancelKeeps ==
  ASSUME Inv, LostInv, DoCancel
  PROVE  /\ Inv' /\ LostInv' /\ Steady /\ stack # <<>> /\ Top.kind = "call" /\ Top.unit \in Unit
         /\ stack' = Push(Now(Tail(Top.todo)), Below)
<1> DEFINE f == Now(Tail(Top.todo))
<1>1. Doing("cancel") /\ "cancel" \notin {"insert", "request"}
  BY DEF DoCancel
<1>2. /\ stack # <<>> /\ Top.kind = "call" /\ Rest = Push(f, Below)
      /\ f \in Frame /\ f.kind = "call" /\ f.unit = Top.unit
      /\ \A u \in Unit : Top \in Inserting(u) => f \in Inserting(u)
  BY <1>1, PassFacts DEF Inv
<1>4. stack' = Push(f, Below)
  BY <1>2 DEF DoCancel
<1>5. /\ sim_asynch_queue' = sim_asynch_queue /\ a_event_time' = a_event_time
      /\ a_activate_call' = a_activate_call /\ a_due' = a_due
      /\ promise' = promise /\ early' = early /\ elapsed' = elapsed /\ slept' = slept
  BY DEF DoCancel, Inside, shared
<1>6. /\ Good(clock') /\ Top.unit \in Unit /\ wanted' = wanted \ {Top.unit}
      /\ \A v \in wanted' : Queued(clock, v) => Queued(clock', v)
  BY CancelStep DEF Inv
<1> HIDE DEF f
<1>7. Steady /\ \A u \in Unit : OnWay(u) => OnWay(u)'
  BY <1>2, <1>4, <1>5, GoOnSteady
<1>8. /\ promise' \in [Unit -> Int] /\ early' \in Int /\ elapsed' \in Nat /\ slept' \in Nat
      /\ wanted' \subseteq wanted /\ wanted' \subseteq Unit
  BY <1>5, <1>6 DEF Inv, TypeInv
<1>9. \A u \in wanted' : OnWay(u) \/ Queued(clock, u) => OnWay(u)' \/ Queued(clock', u)
  BY <1>6, <1>7, <1>8
<1>10. Inv' /\ LostInv'
  BY <1>5, <1>6, <1>7, <1>8, <1>9, StepKeeps
<1> QED BY <1>2, <1>4, <1>6, <1>7, <1>10 DEF f

\* sim_process_event serves an entry or ends.
LEMMA DispatchKeeps ==
  ASSUME Inv, LostInv, DispatchFirst \/ DispatchMore
  PROVE  /\ Inv' /\ LostInv' /\ Steady /\ stack # <<>> /\ Top.kind = "call" /\ Top.unit = NoUnit
         /\ \E f \in LoopFrame : stack' = Push(f, Below)
<1>1. /\ Good(clock') /\ early' \in Int /\ wanted' \subseteq wanted
      /\ \A v \in wanted' : Queued(clock, v) => Queued(clock', v)
      /\ stack # <<>> /\ Top.kind = "call" /\ Top.unit = NoUnit
      /\ \E f \in LoopFrame : stack' = Push(f, Below)
  BY DispatchStep DEF Inv
<1>2. PICK f \in LoopFrame : stack' = Push(f, Below)
  BY <1>1, Zenon
<1>3. f \in Frame /\ f.kind = "call" /\ f.unit = Top.unit
  BY <1>1 DEF Frame, LoopFrame
<1>4. \A u \in Unit : Top \notin Inserting(u)
  BY <1>1, TopFacts, FrameCases, NoUnitAssumption DEF Inv
<1>5. /\ sim_asynch_queue' = sim_asynch_queue /\ a_event_time' = a_event_time
      /\ a_activate_call' = a_activate_call /\ a_due' = a_due
      /\ promise' = promise /\ elapsed' = elapsed /\ slept' = slept
  BY Zenon DEF DispatchFirst, DispatchMore, Inside, shared
<1>6. Steady /\ \A u \in Unit : OnWay(u) => OnWay(u)'
  BY <1>1, <1>2, <1>3, <1>4, <1>5, GoOnSteady
<1>7. promise' \in [Unit -> Int] /\ elapsed' \in Nat /\ slept' \in Nat /\ wanted' \subseteq Unit
  BY <1>1, <1>5 DEF Inv, TypeInv
<1>8. \A u \in wanted' : OnWay(u) \/ Queued(clock, u) => OnWay(u)' \/ Queued(clock', u)
  BY <1>1, <1>6, <1>7
<1>9. Inv' /\ LostInv'
  BY <1>1, <1>5, <1>6, <1>7, <1>8, StepKeeps
<1> QED BY <1>1, <1>6, <1>9

\* A migration or a call returns.
LEMMA ReturnKeeps ==
  ASSUME Inv, LostInv, MigrateDone \/ CallDone
  PROVE  Inv' /\ LostInv' /\ Steady /\ stack # <<>> /\ stack' = Below
<1>1. /\ stack # <<>> /\ stack' = Below /\ sim_asynch_queue' = sim_asynch_queue /\ Quiet
      /\ a_event_time' = a_event_time /\ a_activate_call' = a_activate_call /\ a_due' = a_due
      /\ \/ Top.kind = "migrate" /\ Top.rest = <<>>
         \/ Top.kind = "call" /\ Top.todo = <<>>
  BY DEF MigrateDone, CallDone, shared
<1>2. Top \in Frame
  BY <1>1, TopFacts DEF Inv
<1>3. Len(<<>>) = 0 /\ 1 .. Len(<<>>) = {} /\ <<>> \in Seq(Unit)
  OBVIOUS
<1>4. ~Inserts(<<>>) /\ Range(<<>>) = {}
  BY <1>3, RangeFacts, Zenon DEF Inserts
<1>5. \A u \in Unit : Top \notin Holding(u) /\ Top \notin Inserting(u)
  <2>1. CASE Top.kind = "migrate" /\ Top.rest = <<>>
    BY <1>2, <1>4, <2>1, FrameCases, Zenon
  <2>2. CASE Top.kind = "call" /\ Top.todo = <<>>
    BY <1>2, <1>4, <2>2, FrameCases, Zenon
  <2> QED BY <1>1, <2>1, <2>2, Zenon
<1>6. Steady /\ \A u \in Unit : OnWay(u) => OnWay(u)'
  BY <1>1, <1>5, PopSteady
<1>7. Inv' /\ LostInv'
  BY <1>1, <1>6, QuietKeeps
<1> QED BY <1>1, <1>6, <1>7

\* A unit is migrated; its callback runs.
LEMMA MigrateKeeps ==
  ASSUME Inv, LostInv, MigrateNext \/ Completion
  PROVE  Inv' /\ LostInv' /\ Steady
<1>1. Steady /\ \A u \in Unit : OnWay(u) => OnWay(u)'
  BY MigrateSteady, CompletionSteady, Zenon
<1>2. Quiet /\ a_event_time' = a_event_time /\ a_activate_call' = a_activate_call /\ a_due' = a_due
  BY DEF MigrateNext, Completion, shared
<1> QED BY <1>1, <1>2, QuietKeeps

\* The instruction loop, outside its calls.
LoopAction ==
  \/ CheckLoad \/ CheckStore \/ CheckRearm \/ ProcessEvents \/ Execute \/ Devices \/ ExecuteDone
  \/ IdleSleep \/ IdlePass \/ IdleWoken \/ IdleTimeout \/ IdleDone \/ OutOfTime

\* What it does to the stack.
LEMMA LoopCalls ==
  ASSUME TypeInv, LoopAction
  PROVE  /\ stack' = stack \/ \E f \in Frame : f.kind = "call" /\ stack' = <<f>>
         /\ stack = <<>>
<1>1. stack = <<>>
  BY DEF LoopAction, CheckLoad, CheckStore, CheckRearm, ProcessEvents, Execute, Devices, ExecuteCall,
         ExecuteDone, IdleSleep, IdlePass, IdleWoken, IdleTimeout, IdleDone, OutOfTime, At
<1>2. \A todo \in {ProcessSteps, <<"update">>} :
        CallOf(NoUnit, 0, 0, todo) \in Frame /\ CallOf(NoUnit, 0, 0, todo).kind = "call"
  <2>1. \A todo \in {ProcessSteps, <<"update">>} : todo \in Seq(LoopStep)
    BY StepsFacts, Zenon
  <2>2. 0 \in Int
    OBVIOUS
  <2>3. \A todo \in Seq(LoopStep) :
          CallOf(NoUnit, 0, 0, todo) \in Frame /\ CallOf(NoUnit, 0, 0, todo).kind = "call"
    BY <2>2, LoopCallIs
  <2> QED BY <2>1, <2>3, Zenon
<1>3. ProcessCall \in Frame /\ ProcessCall.kind = "call" /\ UpdateCall \in Frame /\ UpdateCall.kind = "call"
  BY <1>2 DEF ProcessCall, UpdateCall
<1>4. CASE Devices
  <2>1. PICK u \in Unit, t \in Delay, todo \in {ActivateSteps, CancelSteps, AbsSteps} :
           stack' = <<CallOf(u, t, elapsed + t, todo)>> \o <<>>
    BY <1>4, Zenon DEF Devices, ExecuteCall, DeviceCall
  <2> DEFINE g == CallOf(u, t, elapsed + t, todo)
  <2>2. g \in Frame /\ g.kind = "call"
    BY DeviceCallIs
  <2>3. stack' = <<g>> \o <<>>
    BY <2>1
  <2> HIDE DEF g
  <2>4. <<g>> \o <<>> = <<g>>
    OBVIOUS
  <2> QED BY <1>1, <2>2, <2>3, <2>4
<1>5. CASE ~Devices
  <2>1. stack' = stack \/ stack' = <<ProcessCall>> \/ stack' = <<UpdateCall>>
    BY <1>5 DEF LoopAction, CheckLoad, CheckStore, CheckRearm, ProcessEvents, Execute,
         ExecuteDone, IdleSleep, IdlePass, IdleWoken, IdleTimeout, IdleDone, OutOfTime, vars
  <2> QED BY <1>1, <1>3, <2>1
<1> QED BY <1>4, <1>5

\* Counting instructions down leaves the entries on the event queue.
LEMMA LoopClock ==
  ASSUME TypeInv, LoopAction
  PROVE  Good(clock') /\ \A u : Queued(clock, u) => Queued(clock', u)
<1> DEFINE Same(c) == Good(c) /\ c.queue = clock.queue
<1>1. Good(clock) /\ slept \in Int /\ 1 \in Int
  BY DEF TypeInv
<1>2. Same(UpdateSimTime(clock))
  BY <1>1, UpdateFacts
<1>3. \A n \in Int : Same([clock EXCEPT !.interval = @ - n])
  BY <1>1, CountDown
<1>4. Same(UpdateSimTime([clock EXCEPT !.interval = @ - slept]))
  <2> DEFINE c == [clock EXCEPT !.interval = @ - slept]
  <2>1. Same(c)
    BY <1>1, <1>3, Zenon
  <2> HIDE DEF c
  <2>2. Same(UpdateSimTime(c))
    BY <2>1, UpdateFacts
  <2> QED BY <2>2 DEF c
<1>5. Same([clock EXCEPT !.interval = @ - 1])
  BY <1>1, <1>3
<1>6. \/ clock' = clock \/ clock' = UpdateSimTime(clock) \/ clock' = [clock EXCEPT !.interval = @ - 1]
      \/ clock' = UpdateSimTime([clock EXCEPT !.interval = @ - slept])
  BY DEF LoopAction, CheckLoad, CheckStore, CheckRearm, ProcessEvents, Execute, Devices, ExecuteCall,
         ExecuteDone, IdleSleep, IdlePass, IdleWoken, IdleTimeout, IdleDone, OutOfTime, vars
<1>7. Same(clock')
  BY <1>1, <1>2, <1>4, <1>5, <1>6, Zenon
<1> QED BY <1>7 DEF Queued

\* The loop keeps the invariants.
LEMMA LoopKeeps ==
  ASSUME Inv, LostInv, LoopAction
  PROVE  Inv' /\ LostInv' /\ Steady
<1>1. /\ sim_asynch_queue' = sim_asynch_queue /\ a_event_time' = a_event_time
      /\ a_activate_call' = a_activate_call /\ a_due' = a_due
      /\ promise' = promise /\ wanted' = wanted /\ early' = early
      /\ elapsed' = elapsed \/ elapsed' = elapsed + 1
      /\ slept' = slept \/ slept' = slept + 1 \/ slept' = 0
  BY DEF LoopAction, CheckLoad, CheckStore, CheckRearm, ProcessEvents, Execute, Devices, ExecuteCall,
         ExecuteDone, IdleSleep, IdlePass, IdleWoken, IdleTimeout, IdleDone, OutOfTime, Kept, shared, vars
<1>2. /\ promise' \in [Unit -> Int] /\ elapsed' \in Nat /\ slept' \in Nat /\ early' \in Int
      /\ wanted' \subseteq wanted /\ wanted' \subseteq Unit
  BY <1>1 DEF Inv, TypeInv
<1>3. Steady /\ \A u \in Unit : OnWay(u) => OnWay(u)'
  BY <1>1, LoopCalls, SameSteady, FirstSteady DEF Inv
<1>4. Good(clock') /\ \A u : Queued(clock, u) => Queued(clock', u)
  BY LoopClock DEF Inv
<1>5. \A u \in wanted' : OnWay(u) \/ Queued(clock, u) => OnWay(u)' \/ Queued(clock', u)
  BY <1>2, <1>3, <1>4
<1> QED BY <1>1, <1>2, <1>3, <1>4, <1>5, StepKeeps

\* The stack has only records, a detached list has every unit once, and no unit is on two lists.
LEMMA ListsInit ==
  ASSUME Init
  PROVE  Inv /\ LostInv
<1>1. Good(clock)
  BY ResetFacts, ReloadFacts DEF Init
<1>2. /\ stack = <<>> /\ sim_asynch_queue = <<>> /\ wanted = {} /\ elapsed = 0 /\ slept = 0 /\ early = 0
      /\ a_event_time = [u \in Unit |-> 0] /\ a_activate_call = [u \in Unit |-> "activate"]
      /\ a_due = [u \in Unit |-> 0] /\ promise = [u \in Unit |-> 0]
  BY DEF Init
<1>3. stack \in Seq(Frame) /\ sim_asynch_queue \in Seq(Unit) /\ 1 .. Len(stack) = {}
  BY <1>2
<1>4. IsInjective(sim_asynch_queue) /\ Range(sim_asynch_queue) = {}
  BY <1>2, <1>3, RangeFacts, Zenon
<1>5. Nested(stack)
  BY <1>3, Zenon DEF Nested
<1>6. ListInv
  BY <1>4, <1>5 DEF ListInv
<1>7. TypeInv
  BY <1>1, <1>2, <1>3 DEF TypeInv
<1>8. LostInv
  BY <1>2 DEF LostInv
<1> QED BY <1>6, <1>7, <1>8, Zenon DEF Inv

\* A thread's call may come between any two steps of the main thread.
LEMMA ThreadsKeep ==
  ASSUME Inv, LostInv, Threads
  PROVE  Inv' /\ LostInv'
<1>1. PICK u \in Unit, t \in Delay, call \in {"activate", "abs"} : Post(u, call, t)
  BY DEF Threads
<1>2. wanted' = wanted \cup {u} /\ clock' = clock /\ wanted \subseteq Unit
  BY <1>1 DEF Post, Inv, TypeInv
<1>3. Inv' /\ \A v \in Unit : v = u \/ OnWay(v) => OnWay(v)'
  BY <1>1, PostLists
<1>4. \A v \in wanted : OnWay(v) \/ Queued(clock, v)
  BY DEF LostInv, OnWay
<1>5. \A v \in wanted' : OnWay(v)' \/ Queued(clock', v)
  BY <1>2, <1>3, <1>4
<1> QED BY <1>3, <1>5 DEF LostInv, OnWay

\* Every step keeps the lists apart and the requests known.
LEMMA ListsStep ==
  ASSUME Inv, LostInv, [Next]_vars
  PROVE  Inv' /\ LostInv'
<1>1. CASE Update \/ UpdateUnlessEmpty
  BY <1>1, UpdateKeeps, Zenon
<1>2. CASE MigrateNext \/ Completion
  BY <1>2, MigrateKeeps
<1>3. CASE MigrateDone \/ CallDone
  BY <1>3, ReturnKeeps
<1>4. CASE Request
  BY <1>4, RequestKeeps
<1>5. CASE DoInsert
  BY <1>5, InsertKeeps
<1>6. CASE DoCancel
  BY <1>6, CancelKeeps
<1>7. CASE DispatchFirst \/ DispatchMore
  BY <1>7, DispatchKeeps
<1>8. CASE LoopAction
  BY <1>8, LoopKeeps
<1>9. CASE Threads
  BY <1>9, ThreadsKeep
<1>10. CASE UNCHANGED vars
  <2>1. TypeInv'
    BY <1>10 DEF vars, shared, Inv, TypeInv
  <2>2. ListInv'
    BY <1>10 DEF vars, shared, Inv, ListInv
  <2>3. LostInv'
    BY <1>10 DEF vars, shared, LostInv
  <2> QED BY <2>1, <2>2, <2>3 DEF Inv
<1> QED BY <1>1, <1>2, <1>3, <1>4, <1>5, <1>6, <1>7, <1>8, <1>9, <1>10 DEF Next, Main, LoopAction

\* The two inductive invariants hold, for any units, waits, latency and bounds.
THEOREM ListsInvariant == Spec => [](Inv /\ LostInv)
<1>1. Init => Inv /\ LostInv
  BY ListsInit
<1>2. (Inv /\ LostInv) /\ [Next]_vars => (Inv /\ LostInv)'
  BY ListsStep
<1> QED BY <1>1, <1>2, PTL DEF Spec

\* A unit is on the asynchronous queue and its detached parts at most once in all: sim_aio_activate
\* links it only when a_next is NULL, and migrations may nest to any depth.
THEOREM UnitsAreLinkedOnce == Spec => []LinkedOnce
<1>1. Inv => LinkedOnce
  <2> SUFFICES ASSUME Inv PROVE LinkedOnce
    OBVIOUS
  <2> DEFINE F == [i \in DOMAIN stack |-> IF stack[i].kind = "migrate" THEN stack[i].rest ELSE <<>>]
             N == Len(stack)
             lists == Push(sim_asynch_queue, F)
  <2>1. /\ stack \in Seq(Frame) /\ N \in Nat /\ DOMAIN stack = 1 .. N /\ \A i \in 1 .. N : stack[i] \in Frame
        /\ sim_asynch_queue \in Seq(Unit) /\ IsInjective(sim_asynch_queue)
    BY DEF Inv, TypeInv, ListInv
  <2>2. Range(<<>>) = {} /\ IsInjective(<<>>) /\ <<>> \in Seq(Unit)
    <3>1. <<>> \in Seq(Unit)
      OBVIOUS
    <3> QED BY <3>1, RangeFacts, Zenon
  <2>3. \A i \in 1 .. N : /\ F[i] \in Seq(Unit) /\ IsInjective(F[i])
                          /\ \A u : u \in Range(F[i]) <=> stack[i] \in Holding(u)
    <3>1. ASSUME NEW i \in 1 .. N
          PROVE  /\ F[i] \in Seq(Unit) /\ IsInjective(F[i])
                 /\ \A u : u \in Range(F[i]) <=> stack[i] \in Holding(u)
      <4>1. stack[i] \in Frame /\ F[i] = IF stack[i].kind = "migrate" THEN stack[i].rest ELSE <<>>
        BY <2>1
      <4>2. CASE stack[i].kind = "migrate"
        BY <4>1, <4>2, FrameCases, Zenon
      <4>3. CASE stack[i].kind # "migrate"
        <5>1. F[i] = <<>> /\ stack[i].kind = "call"
          BY <4>1, <4>3, FrameCases, Zenon
        <5>2. \A u : stack[i] \notin Holding(u)
          BY <4>1, <5>1, FrameCases, Zenon
        <5> QED BY <2>2, <5>1, <5>2, Zenon
      <4> QED BY <4>2, <4>3, Zenon
    <3> QED BY <3>1, Zenon
  <2>4. F \in Seq(Seq(Unit)) /\ Len(F) = N
    <3>1. F \in [1 .. N -> Seq(Unit)]
      BY <2>1, <2>3
    <3> HIDE DEF F
    <3> QED BY <2>1, <3>1
  <2> HIDE DEF F
  <2>5. /\ DOMAIN lists = 1 .. N + 1 /\ lists[1] = sim_asynch_queue
        /\ \A i \in 1 .. N : lists[i + 1] = F[i]
    <3> HIDE DEF N
    <3>1. /\ lists \in Seq(Seq(Unit)) /\ Len(lists) = Len(F) + 1 /\ lists[1] = sim_asynch_queue
          /\ \A i \in 1 .. Len(F) : lists[i + 1] = F[i]
      <4>1. \A f \in Seq(Unit), s \in Seq(Seq(Unit)) :
              /\ Push(f, s) \in Seq(Seq(Unit)) /\ Len(Push(f, s)) = Len(s) + 1 /\ Push(f, s)[1] = f
              /\ \A i \in 1 .. Len(s) : Push(f, s)[i + 1] = s[i]
        <5> SUFFICES ASSUME NEW f \in Seq(Unit), NEW s \in Seq(Seq(Unit))
                     PROVE  /\ Push(f, s) \in Seq(Seq(Unit)) /\ Len(Push(f, s)) = Len(s) + 1 /\ Push(f, s)[1] = f
                            /\ \A i \in 1 .. Len(s) : Push(f, s)[i + 1] = s[i]
          BY Zenon
        <5> DEFINE S == Seq(Unit)
        <5>1. f \in S /\ s \in Seq(S)
          OBVIOUS
        <5> HIDE DEF S
        <5>2. /\ Push(f, s) \in Seq(S) /\ Len(Push(f, s)) = Len(s) + 1 /\ Push(f, s)[1] = f
              /\ \A i \in 1 .. Len(s) : Push(f, s)[i + 1] = s[i]
          BY <5>1, PushFacts
        <5> QED BY <5>2 DEF S
      <4> QED BY <2>1, <2>4, <4>1, Zenon
    <3>2. DOMAIN lists = 1 .. Len(lists)
      BY <3>1
    <3> QED BY <2>4, <3>1, <3>2, Zenon
  <2> HIDE DEF lists
  <2>6. \A i \in 1 .. N, u \in Unit : u \in Range(sim_asynch_queue) => u \notin Range(F[i])
    BY <2>3 DEF Inv, ListInv, Some
  <2>7. \A i, j \in 1 .. N, u \in Unit : i # j /\ u \in Range(F[i]) => u \notin Range(F[j])
    <3>1. \A i, j \in 1 .. N, u \in Unit : i < j /\ stack[i] \in Holding(u) => stack[j] \notin Holding(u)
      BY DEF Inv, ListInv, Nested
    <3>2. \A i, j \in 1 .. N : i # j => i < j \/ j < i
      BY <2>1
    <3> QED BY <2>3, <3>1, <3>2
  <2>8. Range(sim_asynch_queue) \subseteq Unit /\ \A i \in 1 .. N : Range(F[i]) \subseteq Unit
    BY <2>1, <2>3, RangeFacts, Zenon
  <2>9. \A k \in 1 .. N + 1 : k = 1 \/ (k - 1 \in 1 .. N /\ (k - 1) + 1 = k)
    BY <2>1
  <2>10. \A k \in 1 .. N + 1 : k # 1 => lists[k] = F[k - 1]
    BY <2>5, <2>9
  <2>11. ASSUME NEW i \in 1 .. N + 1, NEW j \in 1 .. N + 1
         PROVE  IF i = j THEN IsInjective(lists[i]) ELSE Range(lists[i]) \cap Range(lists[j]) = {}
    <3>1. CASE i = j
      BY <2>1, <2>3, <2>5, <2>9, <2>10, <3>1, Zenon
    <3>2. CASE i # j /\ i = 1
      <4>1. j - 1 \in 1 .. N /\ lists[j] = F[j - 1] /\ lists[i] = sim_asynch_queue
        BY <2>5, <2>9, <2>10, <3>2
      <4> QED BY <2>6, <2>8, <3>2, <4>1
    <3>3. CASE i # j /\ j = 1
      <4>1. i - 1 \in 1 .. N /\ lists[i] = F[i - 1] /\ lists[j] = sim_asynch_queue
        BY <2>5, <2>9, <2>10, <3>3
      <4> QED BY <2>6, <2>8, <3>3, <4>1
    <3>4. CASE i # j /\ i # 1 /\ j # 1
      <4>1. i - 1 \in 1 .. N /\ lists[i] = F[i - 1] /\ j - 1 \in 1 .. N /\ lists[j] = F[j - 1]
        BY <2>9, <2>10, <3>4
      <4>2. i - 1 # j - 1
        BY <2>1, <3>4
      <4> QED BY <2>7, <2>8, <3>4, <4>1, <4>2, Zenon
    <3> QED BY <3>1, <3>2, <3>3, <3>4
  <2>12. \A i, j \in DOMAIN lists :
           IF i = j THEN IsInjective(lists[i]) ELSE Range(lists[i]) \cap Range(lists[j]) = {}
    BY <2>5, <2>11
  <2>13. LinkedOnce <=> \A i, j \in DOMAIN lists :
           IF i = j THEN IsInjective(lists[i]) ELSE Range(lists[i]) \cap Range(lists[j]) = {}
    <3>1. lists = <<sim_asynch_queue>> \o
            [i \in DOMAIN stack |-> IF stack[i].kind = "migrate" THEN stack[i].rest ELSE <<>>]
      BY Zenon DEF lists, F, Push
    <3> QED BY <3>1, Zenon DEF LinkedOnce
  <2> QED BY <2>12, <2>13
<1> QED BY <1>1, ListsInvariant, PTL

\* When sim_cancel looks for its unit on the event queue, no detached list holds it: what was asked
\* for earlier has been migrated.
THEOREM CancelFindsTheUnit == Spec => []CancelFindsAll
<1>1. Inv => CancelFindsAll
  <2> SUFFICES ASSUME Inv, Doing("cancel") PROVE Top.unit \notin Detached
    BY DEF CancelFindsAll
  <2>1. "cancel" \in UnitStep \ LoopStep
    BY DEF UnitStep, LoopStep
  <2>2. stack # <<>> /\ Top.kind = "call" /\ Top.unit \in Unit
    BY <2>1, DoingFacts DEF Inv
  <2>3. Top \in Frame /\ \A A : Some(stack, A) <=> Top \in A \/ Some(Below, A)
    BY <2>2, TopFacts, Zenon DEF Inv
  <2>4. \A u \in Unit : Top \notin Holding(u) /\ (Top \in Calling(u) <=> Top.unit = u)
    BY <2>2, <2>3, FrameCases
  <2>5. \A u \in Unit : Top.unit = u => ~Some(stack, Holding(u))
    BY <2>2, <2>3, <2>4, NestedPop, Zenon DEF Inv, TypeInv, ListInv, Top, Below
  <2> QED BY <2>2, <2>5, LinkedIs DEF Inv
<1> QED BY <1>1, ListsInvariant, PTL

\* What a thread asked for is not lost: until it is served or cancelled the unit is linked, a call
\* for it is in progress, or it is on the event queue.
THEOREM RequestsAreNotLost == Spec => []NothingLost
<1>1. Inv /\ LostInv => NothingLost
  <2> SUFFICES ASSUME Inv, LostInv, NEW u \in wanted
               PROVE  Linked(u) \/ CallsFor(u) # {} \/ Queued(clock, u)
    BY DEF NothingLost
  <2>1. u \in Unit /\ stack \in Seq(Frame) /\ DOMAIN stack = 1 .. Len(stack)
    BY DEF Inv, TypeInv
  <2>2. Some(stack, Inserting(u)) => CallsFor(u) # {}
    <3> SUFFICES ASSUME NEW i \in 1 .. Len(stack), stack[i] \in Inserting(u) PROVE CallsFor(u) # {}
      BY Zenon DEF Some
    <3>1. stack[i].kind = "call" /\ stack[i].unit = u
      BY Zenon DEF Inserting, UnitFrame
    <3> QED BY <2>1, <3>1, Zenon DEF CallsFor, Frames
  <2> QED BY <2>2, LinkedIs DEF Inv, LostInv
<1> QED BY <1>1, ListsInvariant, PTL

-----------------------------------------------------------------------------
(* Calls, and the record at the bottom of the stack.                       *)

\* The steps of the main thread inside calls.
CallAction ==
  \/ Update \/ UpdateUnlessEmpty \/ MigrateNext \/ MigrateDone \/ Request \/ DoInsert \/ DoCancel
  \/ Completion \/ CallDone \/ DispatchFirst \/ DispatchMore

\* The record at the bottom after a call.
LEMMA PushLast ==
  ASSUME NEW S, NEW s \in Seq(S), NEW f \in S
  PROVE  LET p == Push(f, s) IN
         /\ p \in Seq(S) /\ p # <<>>
         /\ s = <<>> => p[Len(p)] = f
         /\ s # <<>> => p[Len(p)] = s[Len(s)]
<1> DEFINE p == Push(f, s)
<1>1. /\ p \in Seq(S) /\ p # <<>> /\ Len(p) = Len(s) + 1 /\ Len(s) \in Nat /\ p[1] = f
      /\ \A i \in 1 .. Len(s) : p[i + 1] = s[i]
  BY PushFacts
<1> HIDE DEF p
<1>2. s = <<>> => p[Len(p)] = f
  <2>1. s = <<>> => Len(s) = 0
    OBVIOUS
  <2>2. s = <<>> => Len(p) = 1
    BY <1>1, <2>1
  <2> QED BY <1>1, <2>2
<1>3. s # <<>> => p[Len(p)] = s[Len(s)]
  <2>1. s # <<>> => Len(s) # 0
    OBVIOUS
  <2>2. Len(s) # 0 => Len(s) \in 1 .. Len(s)
    BY <1>1
  <2> QED BY <1>1, <2>1, <2>2
<1> QED BY <1>1, <1>2, <1>3 DEF p

\* The record at the bottom of the stack is not touched while calls are above it.
LEMMA BottomFacts ==
  ASSUME TypeInv, stack # <<>>
  PROVE  /\ Below \in Seq(Frame) /\ Top \in Frame /\ Bottom \in Frame
         /\ Below = <<>> => Bottom = Top
         /\ Below # <<>> => Bottom = Below[Len(Below)]
<1>1. /\ Below \in Seq(Frame) /\ Len(Below) = Len(stack) - 1 /\ Len(stack) \in Nat \ {0}
      /\ Top \in Frame /\ \A i \in 1 .. Len(stack) - 1 : Below[i] = stack[i + 1]
  BY PopFacts DEF TypeInv, Top, Below
<1>2. Bottom \in Frame
  <2>1. Len(stack) \in 1 .. Len(stack) /\ stack \in Seq(Frame)
    BY <1>1 DEF TypeInv
  <2> QED BY <2>1 DEF Bottom
<1>3. Below = <<>> => Bottom = Top
  <2>1. Below = <<>> => Len(Below) = 0
    OBVIOUS
  <2>2. Below = <<>> => Len(stack) = 1
    BY <1>1, <2>1
  <2> QED BY <2>2, Zenon DEF Bottom, Top
<1>4. Below # <<>> => Bottom = Below[Len(Below)]
  <2>1. Below # <<>> => Len(Below) # 0 /\ Len(Below) \in Nat
    BY <1>1
  <2>2. Below # <<>> => Len(stack) - 1 \in 1 .. Len(stack) - 1 /\ (Len(stack) - 1) + 1 = Len(stack)
    BY <1>1, <2>1
  <2> QED BY <1>1, <2>2 DEF Bottom
<1> QED BY <1>1, <1>2, <1>3, <1>4

=============================================================================
