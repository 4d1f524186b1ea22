--------------------------- MODULE AsynchTimeProofs ---------------------------
(***************************************************************************)
(* How early an event comes, in a simulator that does not sleep.           *)
(***************************************************************************)
EXTENDS AsynchQueueProofs

\* The empty list.
LEMMA EmptyFacts ==
  ASSUME NEW S, NEW s \in Seq(S)
  PROVE  Len(s) \in Nat /\ (s = <<>> <=> Len(s) = 0)
<1>1. s = <<>> => Len(s) = 0
  OBVIOUS
<1>2. s # <<>> => Len(s) # 0
  OBVIOUS
<1>3. Len(s) \in Nat
  OBVIOUS
<1> QED BY <1>1, <1>2, <1>3, Zenon

\* The steps of sim_process_event and of AIO_UPDATE_QUEUE.
LEMMA LoopTodos ==
  /\ Tail(ProcessSteps) = <<"dispatch">> /\ Tail(<<"update", "loop test">>) = <<"loop test">>
  /\ Tail(<<"update">>) = <<>> /\ Tail(<<"dispatch">>) = <<>> /\ Tail(<<"loop test">>) = <<>>
  /\ ProcessSteps[1] = "update" /\ <<"update", "loop test">>[1] = "update" /\ <<"update">>[1] = "update"
  /\ <<"dispatch">>[1] = "dispatch" /\ <<"loop test">>[1] = "loop test"
  /\ <<>> \notin {ProcessSteps, <<"update", "loop test">>, <<"update">>, <<"dispatch">>, <<"loop test">>}
  /\ <<"dispatch">> \notin {<<"update", "loop test">>, <<"loop test">>}
  /\ ProcessSteps \notin {<<"update", "loop test">>, <<"loop test">>}
  /\ <<"update">> \notin {<<"update", "loop test">>, <<"loop test">>, ProcessSteps, <<"dispatch">>}
<1> USE DEF ProcessSteps
<1>1. /\ Tail(ProcessSteps) = <<"dispatch">> /\ Tail(<<"update", "loop test">>) = <<"loop test">>
      /\ Tail(<<"update">>) = <<>> /\ Tail(<<"dispatch">>) = <<>> /\ Tail(<<"loop test">>) = <<>>
  <2>1. ASSUME NEW T, NEW s \in Seq(T), Len(s) = 1
        PROVE  Tail(s) = <<>>
    <3>1. s # <<>>
      BY <2>1, EmptyFacts, 1 # 0, Zenon
    <3>2. Tail(s) \in Seq(T) /\ Len(Tail(s)) = 0
      BY <2>1, <3>1, PopFacts
    <3> QED BY <3>2, EmptyFacts, Zenon
  <2>2. ASSUME NEW T, NEW s \in Seq(T), Len(s) = 2
        PROVE  Tail(s) = <<s[2]>>
    <3> DEFINE r == Tail(s)
               q == <<s[2]>>
    <3>1. s # <<>> /\ 1 \in 1 .. Len(s) - 1 /\ s[2] \in T
      BY <2>2
    <3>2. r \in Seq(T) /\ Len(r) = 1 /\ r[1] = s[2]
      BY <2>2, <3>1, PopFacts
    <3>3. q \in Seq(T) /\ Len(q) = 1 /\ q[1] = s[2]
      BY <3>1
    <3> HIDE DEF r, q
    <3>4. r = q
      BY <3>2, <3>3
    <3> QED BY <3>4 DEF r, q
  <2>3. /\ <<"update">> \in Seq(LoopStep) /\ <<"dispatch">> \in Seq(LoopStep) /\ <<"loop test">> \in Seq(LoopStep)
        /\ ProcessSteps \in Seq(LoopStep) /\ <<"update", "loop test">> \in Seq(LoopStep)
    BY DEF LoopStep
  <2>4. /\ Len(ProcessSteps) = 2 /\ Len(<<"update", "loop test">>) = 2 /\ Len(<<"update">>) = 1
        /\ Len(<<"dispatch">>) = 1 /\ Len(<<"loop test">>) = 1
        /\ ProcessSteps[2] = "dispatch" /\ <<"update", "loop test">>[2] = "loop test"
    OBVIOUS
  <2> HIDE DEF ProcessSteps
  <2> QED BY <2>1, <2>2, <2>3, <2>4, Zenon
<1>2. /\ ProcessSteps[1] = "update" /\ <<"update", "loop test">>[1] = "update" /\ <<"update">>[1] = "update"
      /\ <<"dispatch">>[1] = "dispatch" /\ <<"loop test">>[1] = "loop test"
      /\ ProcessSteps[2] = "dispatch" /\ <<"update", "loop test">>[2] = "loop test"
  OBVIOUS
<1>3. /\ Len(ProcessSteps) = 2 /\ Len(<<"update", "loop test">>) = 2 /\ Len(<<"update">>) = 1
      /\ Len(<<"dispatch">>) = 1 /\ Len(<<"loop test">>) = 1
  OBVIOUS
<1> HIDE DEF ProcessSteps
<1>4. <<>> \notin {ProcessSteps, <<"update", "loop test">>, <<"update">>, <<"dispatch">>, <<"loop test">>}
  BY <1>3
<1>5. "update" # "dispatch" /\ "update" # "loop test" /\ "dispatch" # "loop test" /\ 1 # 2
  OBVIOUS
<1>6. /\ <<"dispatch">> \notin {<<"update", "loop test">>, <<"loop test">>}
      /\ ProcessSteps \notin {<<"update", "loop test">>, <<"loop test">>}
      /\ <<"update">> \notin {<<"update", "loop test">>, <<"loop test">>, ProcessSteps, <<"dispatch">>}
  BY <1>2, <1>3, <1>5, Zenon
<1> QED BY <1>1, <1>2, <1>4, <1>6, Zenon

\* A call of the instruction loop goes on with what it was doing.
LEMMA LoopGoesOn ==
  ASSUME NEW f \in Serving \cup Polling
  PROVE  /\ f \in LoopFrame /\ f \notin MigrationFrame
         /\ f.todo = <<>> => f \in Polling /\ f \notin Serving
         /\ f.todo # <<>> /\ f.todo[1] = "update" =>
              \A g \in LoopFrame : g.todo = Tail(f.todo) =>
                g \in Serving \cup Polling /\ (f \in Serving => g \in Serving) /\ (g \in Looping => f \in Looping)
         /\ f.todo # <<>> /\ f.todo[1] = "dispatch" => Tail(f.todo) = <<>> /\ f \in Serving
         /\ f.todo # <<>> /\ f.todo[1] = "loop test" => Tail(f.todo) = <<>> /\ f \in Looping
<1>1. f \in LoopFrame /\ f.todo \in {ProcessSteps, <<"dispatch">>, <<"update", "loop test">>, <<"loop test">>, <<"update">>, <<>>}
  BY Zenon DEF Serving, Looping, Polling
<1>2. f \notin MigrationFrame
  BY <1>1, FrameCases, Zenon DEF Frame, LoopFrame, MigrationFrame
<1>3. "update" # "dispatch" /\ "update" # "loop test" /\ "dispatch" # "loop test"
  OBVIOUS
<1>4. CASE f.todo = ProcessSteps
  BY <1>1, <1>2, <1>3, <1>4, LoopTodos, Zenon DEF Serving, Looping, Polling
<1>5. CASE f.todo = <<"dispatch">>
  BY <1>1, <1>2, <1>3, <1>5, LoopTodos, Zenon DEF Serving, Looping, Polling
<1>6. CASE f.todo = <<"update", "loop test">>
  BY <1>1, <1>2, <1>3, <1>6, LoopTodos, Zenon DEF Serving, Looping, Polling
<1>7. CASE f.todo = <<"loop test">>
  BY <1>1, <1>2, <1>3, <1>7, LoopTodos, Zenon DEF Serving, Looping, Polling
<1>8. CASE f.todo = <<"update">>
  BY <1>1, <1>2, <1>3, <1>8, LoopTodos, Zenon DEF Serving, Looping, Polling
<1>9. CASE f.todo = <<>>
  BY <1>1, <1>2, <1>3, <1>9, LoopTodos, Zenon DEF Serving, Looping, Polling
<1> QED BY <1>1, <1>4, <1>5, <1>6, <1>7, <1>8, <1>9, Zenon

\* A record that is pushed is timely, and the first one if the loop makes it.
LEMMA SoundPush ==
  ASSUME NEW S, NEW s \in Seq(S), NEW f \in S, NEW t, Sound(s, t), f \in Timely(t), f \in LoopFrame => s = <<>>
  PROVE  Sound(Push(f, s), t)
<1> DEFINE p == Push(f, s)
<1>1. /\ Len(p) = Len(s) + 1 /\ Len(s) \in Nat /\ p[1] = f /\ \A i \in 1 .. Len(s) : p[i + 1] = s[i]
  BY PushFacts
<1>2. s = <<>> => Len(s) = 0
  OBVIOUS
<1> HIDE DEF p
<1>3. ASSUME NEW i \in 1 .. Len(p)
      PROVE  p[i] \in Timely(t) /\ (p[i] \in LoopFrame => i = Len(p))
  <2>1. CASE i = 1
    BY <1>1, <1>2, <2>1
  <2>2. CASE i # 1
    <3>1. i - 1 \in 1 .. Len(s) /\ (i - 1) + 1 = i
      BY <1>1, <2>2
    <3>2. p[i] = s[i - 1]
      BY <1>1, <3>1
    <3>3. s[i - 1] \in Timely(t) /\ (s[i - 1] \in LoopFrame => i - 1 = Len(s))
      BY <3>1, Zenon DEF Sound
    <3> QED BY <1>1, <3>1, <3>2, <3>3
  <2> QED BY <2>1, <2>2
<1> QED BY <1>3 DEF Sound, p

\* What the records below the top one are.
LEMMA SoundPop ==
  ASSUME NEW S, NEW s \in Seq(S), s # <<>>, NEW t, Sound(s, t)
  PROVE  /\ Sound(Tail(s), t) /\ s[1] \in Timely(t) /\ (s[1] \in LoopFrame => Tail(s) = <<>>)
<1> DEFINE r == Tail(s)
<1>1. /\ Len(r) = Len(s) - 1 /\ Len(s) \in Nat \ {0} /\ r \in Seq(S) /\ \A i \in 1 .. Len(s) - 1 : r[i] = s[i + 1]
  BY PopFacts
<1> HIDE DEF r
<1>2. 1 \in 1 .. Len(s)
  BY <1>1
<1>3. s[1] \in Timely(t) /\ (s[1] \in LoopFrame => 1 = Len(s))
  BY <1>2, Zenon DEF Sound
<1>4. 1 = Len(s) => r = <<>>
  BY <1>1
<1>5. ASSUME NEW i \in 1 .. Len(r)
      PROVE  r[i] \in Timely(t) /\ (r[i] \in LoopFrame => i = Len(r))
  <2>1. i + 1 \in 1 .. Len(s) /\ i \in 1 .. Len(s) - 1
    BY <1>1
  <2>2. s[i + 1] \in Timely(t) /\ (s[i + 1] \in LoopFrame => i + 1 = Len(s)) /\ r[i] = s[i + 1]
    BY <1>1, <2>1, Zenon DEF Sound
  <2> QED BY <1>1, <2>2
<1> QED BY <1>3, <1>4, <1>5, Zenon DEF Sound, r

\* What the top record knows, and what stays known when it goes on.
LEMMA TopIsTimely ==
  ASSUME TypeInv, Sound(stack, elapsed), stack # <<>>
  PROVE  /\ Sound(Below, elapsed) /\ Top \in Timely(elapsed)
         /\ Top.kind = "call" /\ Top.unit \in Unit => Top.wait >= 0 /\ Top.due <= elapsed + Top.wait + Half
         /\ Top.kind = "call" /\ Top.unit = NoUnit => Below = <<>> /\ Top \in Serving \cup Polling /\ Top.wait = 0
<1>1. Sound(Below, elapsed) /\ Top \in Timely(elapsed) /\ (Top \in LoopFrame => Below = <<>>)
  BY SoundPop DEF TypeInv, Top, Below
<1>2. Top \in Frame
  BY TopFacts
<1>3. ASSUME Top.kind = "call", Top.unit \in Unit
      PROVE  Top.wait >= 0 /\ Top.due <= elapsed + Top.wait + Half
  <2>1. Top \in UnitFrame /\ Top \notin LoopFrame
    BY <1>2, <1>3, FrameCases
  <2>2. Top \notin MigrationFrame
    BY <1>3 DEF MigrationFrame
  <2>3. Top \notin Serving \cup Polling
    BY <2>1, LoopGoesOn, Zenon
  <2> QED BY <1>1, <2>2, <2>3, Zenon DEF Timely
<1>4. ASSUME Top.kind = "call", Top.unit = NoUnit
      PROVE  Top \in Serving \cup Polling /\ Top.wait = 0 /\ Top \in LoopFrame
  <2>1. Top \in LoopFrame /\ Top \notin UnitFrame
    BY <1>2, <1>4, FrameCases
  <2>2. Top \notin MigrationFrame
    BY <1>4 DEF MigrationFrame
  <2> QED BY <1>1, <2>1, <2>2, Zenon DEF Timely
<1> QED BY <1>1, <1>3, <1>4, Zenon

\* A call goes on to its next steps.
LEMMA NowIsTimely ==
  ASSUME TypeInv, Sound(stack, elapsed), stack # <<>>, Top.kind = "call", NEW todo, Fits(todo)
  PROVE  LET f == Now(todo) IN
         /\ Top.unit \in Unit => f \in Timely(elapsed) /\ f \notin LoopFrame /\ Top \notin LoopFrame
         /\ Top.unit = NoUnit => f \in LoopFrame /\ f.todo = todo /\ (f \in Serving \cup Polling => f \in Timely(elapsed))
<1> DEFINE f == Now(todo)
<1>1. f \in Frame /\ f.kind = "call" /\ f.todo = todo /\ f.unit = Top.unit
  BY NowFacts
<1>2. f.wait = Top.wait /\ f.due = Top.due
  BY DEF Now, CallOf
<1>3. Top \in Frame
  BY TopFacts
<1> HIDE DEF f
<1>4. ASSUME Top.unit \in Unit
      PROVE  f \in Timely(elapsed) /\ f \notin LoopFrame /\ Top \notin LoopFrame
  <2>1. f \in UnitFrame /\ f \notin LoopFrame /\ Top \notin LoopFrame
    BY <1>1, <1>3, <1>4, FrameCases
  <2>2. f.wait >= 0 /\ f.due <= elapsed + f.wait + Half
    BY <1>2, <1>4, TopIsTimely, Zenon
  <2> QED BY <2>1, <2>2, Zenon DEF Timely
<1>5. ASSUME Top.unit = NoUnit
      PROVE  f \in LoopFrame /\ f.todo = todo /\ (f \in Serving \cup Polling => f \in Timely(elapsed))
  <2>1. f \in LoopFrame
    BY <1>1, <1>5, FrameCases, Zenon
  <2>2. f.wait = 0
    BY <1>2, <1>5, TopIsTimely, Zenon
  <2> QED BY <1>1, <2>1, <2>2, Zenon DEF Timely
<1> QED BY <1>4, <1>5, Zenon DEF f

\* What a step leaves true of the stack, apart from what it does to the clock.
Carries(s) ==
  /\ s \in Seq(Frame) /\ Sound(s, elapsed)
  /\ Some(s, Looping) => Some(stack, Looping)
  /\ Serves(stack) => Serves(s)

\* The top record goes on.
LEMMA CarryOn ==
  ASSUME TypeInv, Sound(stack, elapsed), stack # <<>>, NEW f \in Frame, f \in Timely(elapsed),
         f \in LoopFrame => Top \in LoopFrame, f \in Looping => Top \in Looping, Top \in Serving => f \in Serving
  PROVE  Carries(Push(f, Below))
<1>1. Below \in Seq(Frame) /\ Top \in Frame /\ \A A : Some(stack, A) <=> Top \in A \/ Some(Below, A)
  BY TopFacts
<1>2. Sound(Below, elapsed) /\ (Top \in LoopFrame => Below = <<>>)
  BY SoundPop DEF TypeInv, Top, Below
<1> DEFINE p == Push(f, Below)
<1>3. p \in Seq(Frame) /\ Sound(p, elapsed)
  BY <1>1, <1>2, SoundPush, PushFacts
<1>4. Some(p, Looping) <=> f \in Looping \/ Some(Below, Looping)
  BY <1>1, SomePush
<1>5. /\ p # <<>> /\ (Below = <<>> => p[Len(p)] = f) /\ (Below # <<>> => p[Len(p)] = Below[Len(Below)])
  BY <1>1, PushLast
<1>6. /\ Below = <<>> => stack[Len(stack)] = Top
      /\ Below # <<>> => stack[Len(stack)] = Below[Len(Below)]
  BY BottomFacts, Zenon DEF Bottom
<1> HIDE DEF p
<1>7. Serves(stack) => Serves(p)
  BY <1>5, <1>6, Zenon DEF Serves
<1>8. Some(p, Looping) => Some(stack, Looping)
  BY <1>1, <1>4, Zenon
<1> QED BY <1>3, <1>7, <1>8, Zenon DEF Carries, p

\* A call is made above it.
LEMMA CarryUnder ==
  ASSUME NEW s, Carries(s), s # <<>>, NEW g \in Frame, g \in Timely(elapsed), g \notin LoopFrame
  PROVE  Carries(Push(g, s))
<1> DEFINE p == Push(g, s)
<1>1. s \in Seq(Frame) /\ Sound(s, elapsed)
  BY DEF Carries
<1>2. p \in Seq(Frame) /\ Sound(p, elapsed)
  BY <1>1, SoundPush, PushFacts
<1>3. Some(p, Looping) <=> g \in Looping \/ Some(s, Looping)
  BY <1>1, SomePush
<1>4. g \notin Looping
  BY Zenon DEF Looping
<1>5. p # <<>> /\ p[Len(p)] = s[Len(s)]
  BY <1>1, PushLast
<1> HIDE DEF p
<1>6. Serves(s) => Serves(p)
  BY <1>5, Zenon DEF Serves
<1> QED BY <1>2, <1>3, <1>4, <1>6, Zenon DEF Carries, p

\* The top record is left, with nothing more to do.
LEMMA CarryBack ==
  ASSUME TypeInv, Sound(stack, elapsed), stack # <<>>, Top \notin Serving
  PROVE  Carries(Below)
<1>1. Below \in Seq(Frame) /\ Top \in Frame /\ \A A : Some(stack, A) <=> Top \in A \/ Some(Below, A)
  BY TopFacts
<1>2. Sound(Below, elapsed)
  BY TopIsTimely
<1>3. Serves(stack) => Serves(Below)
  BY BottomFacts, Zenon DEF Bottom, Serves
<1> QED BY <1>1, <1>2, <1>3, Zenon DEF Carries

\* A migrated unit comes early by half the latency at most.
LEMMA ShortenedFacts ==
  /\ Half \in Nat
  /\ \A t \in Nat : Shortened(t) \in Nat /\ t <= Shortened(t) + Half
  /\ \A e, d, w, h, t \in Int : d <= e + t /\ t <= w + h => d <= e + w + h
  /\ \A e, w, h \in Int : h >= 0 => e + w <= e + w + h
  /\ \A n \in Nat : n >= 0 /\ n \in Int
<1>1. Half \in Nat
  BY LatencyAssumption DEF Half
<1>2. \A t \in Nat : Shortened(t) \in Nat /\ t <= Shortened(t) + Half
  <2> DEFINE h == Half
  <2>1. h \in Nat
    BY <1>1
  <2> HIDE DEF h
  <2>2. \A t \in Nat : LET s == IF t < h THEN 0 ELSE t - h IN s \in Nat /\ t <= s + h
    BY <2>1
  <2> QED BY <2>2 DEF Shortened, h
<1>3. \A e, d, w, h, t \in Int : d <= e + t /\ t <= w + h => d <= e + w + h
  OBVIOUS
<1>4. \A e, w, h \in Int : h >= 0 => e + w <= e + w + h
  OBVIOUS
<1>5. \A n \in Nat : n >= 0 /\ n \in Int
  OBVIOUS
<1> QED BY <1>1, <1>2, <1>3, <1>4, <1>5

\* The records of new calls.
LEMMA NewIsTimely ==
  /\ \A f \in MigrationFrame : f \in Timely(elapsed) /\ f \in Frame /\ f \notin LoopFrame /\ f \notin Serving
  /\ \A f \in UnitFrame : f \in Frame /\ f \notin LoopFrame /\ f \notin Serving
  /\ TypeInv => \A f \in UnitFrame : f.wait \in Nat /\ f.due = elapsed + f.wait => f \in Timely(elapsed)
<1>1. Serving \subseteq LoopFrame
  BY Zenon DEF Serving, Looping
<1>2. \A f \in MigrationFrame : f \in Frame /\ f \notin LoopFrame
  BY Zenon DEF Frame, MigrationFrame, LoopFrame
<1>3. \A f \in UnitFrame : f \in Frame /\ f \notin LoopFrame
  <2>1. \A f \in UnitFrame : f \in Frame /\ f.kind = "call" /\ f.unit \in Unit
    BY Zenon DEF Frame, UnitFrame
  <2> QED BY <2>1, FrameCases, Zenon
<1>4. ASSUME TypeInv, NEW f \in UnitFrame, f.wait \in Nat, f.due = elapsed + f.wait
      PROVE  f \in Timely(elapsed)
  <2>1. elapsed \in Int /\ f.wait \in Int /\ Half \in Int /\ Half >= 0 /\ f.wait >= 0
    BY <1>4, ShortenedFacts DEF TypeInv
  <2>2. f.due <= elapsed + f.wait + Half
    BY <1>4, <2>1, ShortenedFacts, Zenon
  <2> QED BY <2>1, <2>2, Zenon DEF Timely
<1> QED BY <1>1, <1>2, <1>3, <1>4, Zenon DEF Timely

\* AIO_UPDATE_QUEUE.
LEMMA UpdateCarries ==
  ASSUME Inv, LostInv, TimeInv, Update \/ UpdateUnlessEmpty
  PROVE  Carries(stack')
<1>1. /\ TypeInv /\ Sound(stack, elapsed) /\ sim_asynch_queue \in Seq(Unit) /\ IsInjective(sim_asynch_queue)
  BY DEF Inv, TimeInv, TypeInv, ListInv
<1>2. stack # <<>> /\ Top.kind = "call"
  BY UpdateKeeps, Zenon
<1>3. PICK f \in Frame :
        /\ f.kind = "call" /\ f.unit = Top.unit /\ f = Now(f.todo)
        /\ stack' = Push(f, Below) \/ stack' = Push(Migration(sim_asynch_queue), Push(f, Below))
        /\ Doing("update") => f.todo = Tail(Top.todo)
  BY UpdateKeeps
<1>4. Top \in Frame /\ Top.unit \in Unit \cup {NoUnit} /\ Below \in Seq(Frame)
  BY <1>1, <1>2, TopFacts, FrameCases
<1>5. Fits(f.todo)
  BY <1>3, <1>4, FrameCases DEF Fits
<1>6. /\ f \in Timely(elapsed) /\ (f \in LoopFrame => Top \in LoopFrame)
      /\ (f \in Looping => Top \in Looping) /\ (Top \in Serving => f \in Serving)
  <2>1. CASE Top.unit \in Unit
    <3>1. f \in Timely(elapsed) /\ f \notin LoopFrame /\ Top \notin LoopFrame
      BY <1>1, <1>2, <1>3, <1>5, <2>1, NowIsTimely
    <3> QED BY <3>1, Zenon DEF Looping, Serving
  <2>2. CASE Top.unit = NoUnit
    <3>1. Doing("update")
      <4>1. Doing("update unless empty") => Top.unit \in Unit
        <5>1. "update unless empty" \in UnitStep \ LoopStep
          BY DEF UnitStep, LoopStep
        <5> QED BY <1>1, <5>1, DoingFacts, Zenon
      <4> QED BY <2>2, <4>1, NoUnitAssumption, Zenon DEF Update, UpdateUnlessEmpty
    <3>2. f.todo = Tail(Top.todo) /\ Top.todo # <<>> /\ Top.todo[1] = "update"
      BY <1>1, <1>3, <3>1, DoingFacts
    <3>3. Top \in Serving \cup Polling /\ Top \in LoopFrame
      BY <1>1, <1>2, <2>2, TopIsTimely, LoopGoesOn, Zenon
    <3>4. f \in LoopFrame /\ (f \in Serving \cup Polling => f \in Timely(elapsed))
      BY <1>1, <1>2, <1>3, <1>5, <2>2, NowIsTimely
    <3> QED BY <3>2, <3>3, <3>4, LoopGoesOn, Zenon
  <2> QED BY <1>4, <2>1, <2>2
<1>7. Carries(Push(f, Below)) /\ Push(f, Below) # <<>>
  BY <1>1, <1>2, <1>4, <1>6, CarryOn, PushFacts, Zenon
<1>8. /\ Migration(sim_asynch_queue) \in Frame /\ Migration(sim_asynch_queue) \in Timely(elapsed)
      /\ Migration(sim_asynch_queue) \notin LoopFrame
  BY <1>1, MigrationIs, NewIsTimely
<1>9. Carries(Push(Migration(sim_asynch_queue), Push(f, Below)))
  BY <1>7, <1>8, CarryUnder
<1> QED BY <1>3, <1>7, <1>9

\* The steps of calls for a unit, and what they call.
LEMMA UnitCarries ==
  ASSUME Inv, LostInv, TimeInv, Request \/ DoInsert \/ DoCancel \/ Completion
  PROVE  Carries(stack')
<1>1. TypeInv /\ Sound(stack, elapsed)
  BY DEF Inv, TimeInv
<1>2. /\ stack # <<>> /\ Top.kind = "call" /\ Top.unit \in Unit
      /\ \E f \in UnitFrame :
           /\ f = Now(f.todo)
           /\ \/ stack' = Push(f, Below)
              \/ \E g \in UnitFrame : stack' = Push(g, Push(f, Below)) /\ g.wait \in Nat /\ g.due = elapsed + g.wait
  <2>1. CASE Request
    BY <2>1, RequestKeeps
  <2>2. CASE DoInsert \/ DoCancel
    <3>1. /\ stack # <<>> /\ Top.kind = "call" /\ Top.unit \in Unit /\ stack' = Push(Now(Tail(Top.todo)), Below)
      BY <2>2, InsertKeeps, CancelKeeps
    <3>2. Fits(Tail(Top.todo))
      BY <1>1, <2>2, DoingFacts, Zenon DEF DoInsert, DoCancel
    <3>3. /\ Now(Tail(Top.todo)) \in Frame /\ Now(Tail(Top.todo)).kind = "call" /\ Now(Tail(Top.todo)).unit = Top.unit
          /\ Now(Tail(Top.todo)).todo = Tail(Top.todo)
      BY <1>1, <3>1, <3>2, NowFacts
    <3>4. Now(Tail(Top.todo)) \in UnitFrame
      BY <3>1, <3>3, FrameCases, Zenon
    <3> QED BY <3>1, <3>3, <3>4, Zenon
  <2>3. CASE Completion
    <3>1. /\ stack # <<>> /\ Top.kind = "call" /\ Top.unit \in Unit
          /\ \E f \in UnitFrame :
               /\ f = Now(Tail(Top.todo))
               /\ \/ stack' = Push(f, Below)
                  \/ \E g \in UnitFrame : /\ stack' = Push(g, Push(f, Below))
                                          /\ g.wait \in Nat /\ g.due = elapsed + g.wait
      BY <2>3, CompletionSteady
    <3>2. Now(Tail(Top.todo)).todo = Tail(Top.todo)
      BY DEF Now, CallOf
    <3> QED BY <3>1, <3>2, Zenon
  <2> QED BY <2>1, <2>2, <2>3
<1>3. PICK f \in UnitFrame :
        /\ f = Now(f.todo)
        /\ \/ stack' = Push(f, Below)
           \/ \E g \in UnitFrame : stack' = Push(g, Push(f, Below)) /\ g.wait \in Nat /\ g.due = elapsed + g.wait
  BY <1>2
<1>4. f \in Frame /\ f \notin LoopFrame /\ Below \in Seq(Frame) /\ Top \in Frame
  BY <1>1, <1>2, NewIsTimely, TopFacts
<1>5. Fits(f.todo)
  <2>1. f.kind = "call" /\ f.unit = Top.unit
    BY <1>3 DEF Now, CallOf
  <2> QED BY <1>2, <1>4, <2>1, FrameCases DEF Fits
<1>6. f \in Timely(elapsed) /\ Top \notin LoopFrame
  BY <1>1, <1>2, <1>3, <1>5, NowIsTimely, Zenon
<1>7. Carries(Push(f, Below)) /\ Push(f, Below) # <<>>
  <2>1. f \notin Looping /\ Top \notin Serving
    BY <1>4, <1>6, Zenon DEF Looping, Serving
  <2> QED BY <1>1, <1>2, <1>4, <1>6, <2>1, CarryOn, PushFacts
<1>8. ASSUME NEW g \in UnitFrame, g.wait \in Nat, g.due = elapsed + g.wait
      PROVE  Carries(Push(g, Push(f, Below)))
  <2>1. g \in Frame /\ g \in Timely(elapsed) /\ g \notin LoopFrame
    BY <1>1, <1>8, NewIsTimely
  <2> QED BY <1>7, <2>1, CarryUnder
<1> QED BY <1>3, <1>7, <1>8, Zenon

\* The next unit of a detached list, and the end of the list or of a call.
LEMMA ReturnCarries ==
  ASSUME Inv, LostInv, TimeInv, MigrateNext \/ MigrateDone \/ CallDone
  PROVE  Carries(stack')
<1>1. /\ TypeInv /\ Sound(stack, elapsed) /\ \A u \in Unit : a_due[u] <= elapsed + a_event_time[u]
      /\ elapsed \in Int /\ a_due \in [Unit -> Int] /\ a_event_time \in [Unit -> Delay \cup {0}]
  BY DEF Inv, TimeInv, TypeInv
<1>2. ASSUME Top.kind = "migrate"
      PROVE  Top \notin LoopFrame /\ Top \notin Serving
  BY <1>2, Zenon DEF LoopFrame, Serving, Looping
<1>3. CASE MigrateNext
  <2>1. PICK u \in Unit, g \in UnitFrame, m \in MigrationFrame :
          /\ stack' = Push(g, Push(m, Below)) /\ Some(stack, Holding(u))
          /\ g.unit = u /\ g.wait = Shortened(a_event_time[u]) /\ g.due = a_due[u]
    BY <1>3, MigrateSteady, Zenon
  <2>2. stack # <<>> /\ Top.kind = "migrate"
    BY <1>3 DEF MigrateNext
  <2>3. /\ m \in Timely(elapsed) /\ m \in Frame /\ m \notin LoopFrame /\ m \notin Looping
        /\ g \in Frame /\ g \notin LoopFrame /\ Below \in Seq(Frame)
    BY <1>1, <2>2, NewIsTimely, TopFacts, Zenon DEF Looping
  <2>4. Carries(Push(m, Below)) /\ Push(m, Below) # <<>>
    BY <1>1, <1>2, <2>2, <2>3, CarryOn, PushFacts
  <2>5. g \in Timely(elapsed)
    <3>1. \A x \in Delay \cup {0} : x \in Nat
      BY AsynchDelayAssumption
    <3>2. a_event_time[u] \in Nat /\ a_due[u] \in Int /\ a_due[u] <= elapsed + a_event_time[u]
      BY <1>1, <3>1, Zenon
    <3>3. g.wait \in Nat /\ a_event_time[u] <= g.wait + Half /\ Half \in Int
      BY <2>1, <3>2, ShortenedFacts, Zenon
    <3>4. g.wait >= 0 /\ g.wait \in Int /\ a_event_time[u] \in Int
      BY <3>2, <3>3, ShortenedFacts, Zenon
    <3>5. g.due <= elapsed + g.wait + Half
      BY <1>1, <2>1, <3>2, <3>3, <3>4, ShortenedFacts, Zenon
    <3> QED BY <3>4, <3>5, Zenon DEF Timely
  <2> QED BY <2>1, <2>3, <2>4, <2>5, CarryUnder, Zenon
<1>4. CASE MigrateDone
  <2>1. stack # <<>> /\ Top.kind = "migrate" /\ stack' = Below
    BY <1>4 DEF MigrateDone
  <2> QED BY <1>1, <1>2, <2>1, CarryBack
<1>5. CASE CallDone
  <2>1. stack # <<>> /\ Top.todo = <<>> /\ stack' = Below
    BY <1>5 DEF CallDone
  <2>2. Top \notin Serving
    BY <2>1, LoopGoesOn, Zenon
  <2> QED BY <1>1, <2>1, <2>2, CarryBack
<1> QED BY <1>3, <1>4, <1>5

\* A step that carries the stack on and keeps the clock right.
LEMMA TimeCarries ==
  ASSUME TimeInv, Carries(stack'), Inside, a_event_time' = a_event_time, a_due' = a_due, Punctual',
         clock.interval = HeadTime(clock) => clock'.interval = HeadTime(clock'),
         Returns(stack) => Returns(stack') /\ clock' = clock
  PROVE  TimeInv'
<1>1. slept' = slept /\ elapsed' = elapsed /\ loop' = loop
  BY DEF Inside
<1>2. slept' = 0 /\ \A u \in Unit : a_due'[u] <= elapsed' + a_event_time'[u]
  BY <1>1 DEF TimeInv
<1>3. Sound(stack', elapsed') /\ (Some(stack', Looping) => clock'.interval = HeadTime(clock'))
  BY <1>1 DEF Carries, TimeInv
<1>4. loop' = "execute" => Serves(stack') \/ (Returns(stack') /\ clock'.interval > 0)
  BY <1>1 DEF TimeInv, Ready, Carries
<1> QED BY <1>2, <1>3, <1>4, Zenon DEF TimeInv, Ready

\* Only the return of a call happens when nothing is left to serve.
LEMMA ReturnsOnly ==
  ASSUME CallAction, Returns(stack)
  PROVE  CallDone /\ Returns(stack')
<1>1. stack # <<>>
  BY Zenon DEF CallAction, Update, UpdateUnlessEmpty, MigrateNext, MigrateDone, Request, DoInsert,
     DoCancel, Completion, CallDone, DispatchFirst, DispatchMore, Doing
<1>2. Top.kind = "call" /\ Top.todo = <<>> /\ Below = <<>>
  BY <1>1 DEF Returns, Top, Below
<1>3. CallDone
  BY <1>2, Zenon DEF CallAction, Update, UpdateUnlessEmpty, MigrateNext, MigrateDone, Request, DoInsert,
     DoCancel, Completion, DispatchFirst, DispatchMore, Doing
<1>4. stack' = <<>>
  BY <1>2, <1>3 DEF CallDone
<1> QED BY <1>3, <1>4 DEF Returns

\* The steps that leave the event queue alone.
LEMMA TimeQuiet ==
  ASSUME Inv, LostInv, TimeInv,
         Update \/ UpdateUnlessEmpty \/ MigrateNext \/ MigrateDone \/ Request \/ Completion \/ CallDone
  PROVE  TimeInv'
<1>1. Carries(stack')
  BY UpdateCarries, UnitCarries, ReturnCarries
<1>2. CallAction
  BY DEF CallAction
<1>3. Quiet /\ a_event_time' = a_event_time /\ a_due' = a_due
  <2>1. CASE Update \/ UpdateUnlessEmpty
    BY <2>1, Zenon DEF Update, UpdateUnlessEmpty, Detach, shared
  <2>2. CASE MigrateNext \/ MigrateDone \/ Request \/ Completion \/ CallDone
    BY <2>2, Zenon DEF MigrateNext, MigrateDone, Request, Completion, CallDone, shared
  <2> QED BY <2>1, <2>2
<1>4. Inside /\ clock' = clock /\ promise' = promise /\ early' = early /\ elapsed' = elapsed
  BY <1>3 DEF Quiet, Inside
<1>5. Punctual'
  BY <1>4, Zenon DEF TimeInv, Punctual
<1>6. HeadTime(clock') = HeadTime(clock)
  BY <1>4
<1> QED BY <1>1, <1>2, <1>3, <1>4, <1>5, <1>6, TimeCarries, ReturnsOnly

\* An entry that keeps its time keeps its promise.
LEMMA PromiseKept ==
  ASSUME Punctual, NEW r, NEW i, Unmoved(clock, r, i)
  PROVE  promise[r.queue[i]] <= DueAt(r, i) + Half
<1>1. PICK j \in 1 .. Len(clock.queue) : r.queue[i] = clock.queue[j] /\ DueAt(r, i) = DueAt(clock, j)
  BY DEF Unmoved
<1>2. promise[clock.queue[j]] <= DueAt(clock, j) + Half
  BY DEF Punctual
<1> QED BY <1>1, <1>2, Zenon

\* Sums of times.
LEMMA TimeSums ==
  /\ 0 \in Int
  /\ \A e \in Int, w \in Int : w >= 0 => e + w >= e
  /\ \A p, d, e, h \in Int : p <= d + h /\ d = e => p - e <= h
  /\ \A n \in Nat \ {0} : n >= 0 /\ n > 0
  /\ \A x \in Int : x >= 0 /\ ~(x > 0) => x = 0
  /\ \A x \in Int : x > 0 => x >= 0
  /\ \A x \in Int : x > 0 => x - 1 >= 0
<1>1. \A e \in Int, w \in Int : w >= 0 => e + w >= e
  OBVIOUS
<1>2. \A p, d, e, h \in Int : p <= d + h /\ d = e => p - e <= h
  OBVIOUS
<1>3. /\ \A n \in Nat \ {0} : n >= 0 /\ n > 0
      /\ \A x \in Int : x >= 0 /\ ~(x > 0) => x = 0
      /\ \A x \in Int : x > 0 => x >= 0
      /\ \A x \in Int : x > 0 => x - 1 >= 0
  OBVIOUS
<1> QED BY <1>1, <1>2, <1>3

\* A unit that is put on the event queue falls due when it was promised, or half the
\* latency earlier.
LEMMA TimeInsert ==
  ASSUME Inv, LostInv, TimeInv, DoInsert
  PROVE  TimeInv'
<1>1. Carries(stack') /\ CallAction /\ ~CallDone
  <2>1. ~CallDone
    BY Zenon DEF DoInsert, Doing, CallDone
  <2> QED BY <2>1, UnitCarries DEF CallAction
<1>2. Inside /\ a_event_time' = a_event_time /\ a_due' = a_due /\ early' = early /\ elapsed' = elapsed
  BY DEF DoInsert, shared, Inside
<1>3. /\ TypeInv /\ Good(clock) /\ Punctual /\ elapsed \in Int /\ Half \in Int
  BY ShortenedFacts, Zenon DEF Inv, TypeInv, TimeInv
<1>4. stack # <<>> /\ Top.kind = "call" /\ Top.unit \in Unit
  BY InsertKeeps
<1>5. Punctual' /\ (clock.interval = HeadTime(clock) => clock'.interval = HeadTime(clock'))
  <2>1. CASE clock' = clock /\ promise' = promise
    BY <1>2, <1>3, <2>1, Zenon DEF Punctual
  <2>2. CASE /\ ~Queued(clock, Top.unit) /\ clock' = Activate(clock, Top.unit, Top.wait)
             /\ promise' = [promise EXCEPT ![Top.unit] = Top.due]
    <3> DEFINE u == Top.unit
               w == Top.wait
    <3>1. Top \in Frame
      BY <1>3, <1>4, TopFacts
    <3>2. w \in Int /\ Top.due \in Int
      BY <1>4, <3>1, FrameCases
    <3>3. w >= 0 /\ Top.due <= elapsed + w + Half
      BY <1>3, <1>4, TopIsTimely DEF TimeInv
    <3>4. clock' = Insert(clock, u, w)
      BY <2>2 DEF Activate
    <3>5. Placed(clock, clock', u, SimGtime(clock) + w)
      BY <1>3, <1>4, <2>2, <3>2, <3>4, InsertPlaces
    <3>6. SimGtime(clock) = elapsed /\ clock.interval >= 0
      BY <1>3 DEF Punctual
    <3> HIDE DEF u, w
    <3>7. /\ SimGtime(clock') = elapsed /\ clock'.interval = HeadTime(clock')
          /\ elapsed + w >= elapsed /\ clock'.interval >= 0
          /\ \A i \in 1 .. Len(clock'.queue) :
               IF clock'.queue[i] = u THEN DueAt(clock', i) = elapsed + w ELSE Unmoved(clock, clock', i)
      <4>1. elapsed + w >= elapsed
        BY <1>3, <3>2, <3>3, TimeSums
      <4> QED BY <3>5, <3>6, <4>1, Zenon DEF Placed
    <3>8. ASSUME NEW i \in 1 .. Len(clock'.queue)
          PROVE  promise'[clock'.queue[i]] <= DueAt(clock', i) + Half
      <4>1. clock'.queue[i] \in Unit
        <5>1. clock' \in Clock
          BY <3>5 DEF Placed, Good
        <5> QED BY <5>1, ClockFields
      <4>2. promise \in [Unit -> Int]
        BY <1>3 DEF TypeInv
      <4>3. CASE clock'.queue[i] = u
        <5>1. promise'[u] = Top.due
          BY <2>2, <4>1, <4>2, <4>3 DEF u
        <5>2. DueAt(clock', i) = elapsed + w
          BY <3>7, <4>3, Zenon
        <5> QED BY <3>3, <4>3, <5>1, <5>2, Zenon
      <4>4. CASE clock'.queue[i] # u
        <5>1. promise'[clock'.queue[i]] = promise[clock'.queue[i]]
          BY <2>2, <4>1, <4>2, <4>4 DEF u
        <5>2. Unmoved(clock, clock', i)
          BY <3>7, <4>4, Zenon
        <5>3. promise[clock'.queue[i]] <= DueAt(clock', i) + Half
          BY <1>3, <5>2, PromiseKept
        <5> QED BY <5>1, <5>3, Zenon
      <4> QED BY <4>3, <4>4
    <3>9. early' <= Half
      BY <1>2, <1>3 DEF Punctual
    <3> QED BY <1>2, <3>7, <3>8, <3>9 DEF Punctual
  <2> QED BY <2>1, <2>2 DEF DoInsert
<1> QED BY <1>1, <1>2, <1>5, TimeCarries, ReturnsOnly

\* Taking a unit off the event queue keeps the promises made to the others.
LEMMA TimeCancel ==
  ASSUME Inv, LostInv, TimeInv, DoCancel
  PROVE  TimeInv'
<1>1. Carries(stack') /\ CallAction /\ ~CallDone
  <2>1. ~CallDone
    BY DEF DoCancel, Doing, CallDone
  <2> QED BY <2>1, UnitCarries DEF CallAction
<1>2. Inside /\ a_event_time' = a_event_time /\ a_due' = a_due /\ early' = early /\ elapsed' = elapsed /\ promise' = promise
  BY DEF DoCancel, shared, Inside
<1>3. Good(clock) /\ Punctual
  BY DEF Inv, TypeInv, TimeInv
<1>4. Top.unit \in Unit
  BY CancelKeeps
<1>5. Removed(clock, clock', Top.unit)
  BY <1>3, <1>4, CancelRemoves DEF DoCancel
<1>6. /\ SimGtime(clock') = SimGtime(clock)
      /\ \A i \in 1 .. Len(clock'.queue) : Unmoved(clock, clock', i)
      /\ clock.interval >= 0 => clock'.interval >= 0
      /\ clock.interval = HeadTime(clock) => clock'.interval = HeadTime(clock')
  BY <1>5, Zenon DEF Removed
<1>7. \A i \in 1 .. Len(clock'.queue) : promise'[clock'.queue[i]] <= DueAt(clock', i) + Half
  BY <1>2, <1>3, <1>6, PromiseKept, Zenon
<1>8. Punctual'
  BY <1>2, <1>3, <1>6, <1>7 DEF Punctual
<1> QED BY <1>1, <1>2, <1>6, <1>8, TimeCarries, ReturnsOnly

\* A call made by the instruction loop itself.
LEMMA OneCall ==
  ASSUME NEW f \in LoopFrame, f \in Serving \cup Polling, f.wait = 0, NEW t
  PROVE  LET s == Push(f, <<>>) IN
         /\ s \in Seq(Frame) /\ Sound(s, t) /\ s # <<>> /\ s[Len(s)] = f /\ s[1] = f /\ Tail(s) = <<>>
         /\ Some(s, Looping) => f \in Looping
<1> DEFINE s == Push(f, <<>>)
<1>1. Sound(<<>>, t) /\ <<>> \in Seq(Frame) /\ ~Some(<<>>, Looping)
  <2>1. <<>> \in Seq(Frame) /\ Len(<<>>) = 0
    OBVIOUS
  <2>2. \A i \in 1 .. 0 : FALSE
    OBVIOUS
  <2> QED BY <2>1, <2>2, Zenon DEF Sound, Some
<1>2. f \in Frame /\ f \in Timely(t)
  BY Zenon DEF Frame, Timely
<1>3. Sound(s, t)
  BY <1>1, <1>2, SoundPush, Zenon
<1>4. s \in Seq(Frame) /\ s # <<>> /\ s[Len(s)] = f
  BY <1>1, <1>2, PushLast, Zenon
<1>5. s[1] = f /\ Len(s) = Len(<<>>) + 1
  <2>1. \A e \in Seq(Frame) : Push(f, e)[1] = f /\ Len(Push(f, e)) = Len(e) + 1
    BY <1>2, PushFacts
  <2> QED BY <1>1, <2>1, Zenon
<1>6. Some(s, Looping) => f \in Looping
  BY <1>1, <1>2, SomePush, Zenon
<1>7. Tail(s) = <<>>
  <2> HIDE DEF s
  <2>1. Tail(s) \in Seq(Frame) /\ Len(Tail(s)) = Len(s) - 1
    BY <1>4, PopFacts
  <2>2. Len(s) = 1
    BY <1>5
  <2>3. Len(Tail(s)) = 0
    BY <2>1, <2>2
  <2> QED BY <2>1, <2>3, EmptyFacts, Zenon
<1> QED BY <1>3, <1>4, <1>5, <1>6, <1>7, Zenon

\* The record of a sim_process_event that has served an event.
LEMMA LoopingIs ==
  ASSUME NEW due \in Int
  PROVE  LET f == CallOf(NoUnit, 0, due, <<"update", "loop test">>) IN f \in LoopFrame /\ f \in Looping /\ f.wait = 0
<1> DEFINE f == CallOf(NoUnit, 0, due, <<"update", "loop test">>)
<1>1. 0 \in Int
  OBVIOUS
<1>2. f \in LoopFrame /\ f.wait = 0 /\ f.todo = <<"update", "loop test">>
  <2>1. \A todo \in Seq(LoopStep) :
          LET g == CallOf(NoUnit, 0, due, todo) IN g \in LoopFrame /\ g.wait = 0 /\ g.todo = todo
    BY <1>1, LoopCallIs
  <2> QED BY <2>1, StepsFacts, Zenon
<1> HIDE DEF f
<1>3. f \in Looping
  BY <1>2, Zenon DEF Looping
<1> QED BY <1>2, <1>3, Zenon DEF f

\* The record of sim_process_event, before and after an event.
LEMMA DispatchStack ==
  ASSUME TypeInv, Sound(stack, elapsed), Doing("dispatch") \/ Doing("loop test")
  PROVE  /\ stack # <<>> /\ Top.kind = "call" /\ Top.unit = NoUnit /\ Top.wait = 0 /\ Fits(Tail(Top.todo))
         /\ Doing("loop test") => Some(stack, Looping)
         /\ LET s == Push(CallOf(NoUnit, 0, Top.due, <<"update", "loop test">>), Below)
            IN Sound(s, elapsed) /\ Serves(s)
         /\ LET s == Push(Now(Tail(Top.todo)), Below)
            IN Sound(s, elapsed) /\ Returns(s) /\ ~Some(s, Looping)
<1>1. /\ stack # <<>> /\ Top.kind = "call" /\ Top.unit = NoUnit /\ Fits(Tail(Top.todo)) /\ Top.todo # <<>>
      /\ Rest = Push(Now(Tail(Top.todo)), Below)
      /\ Top.todo[1] = "dispatch" \/ Top.todo[1] = "loop test"
      /\ Doing("loop test") => Top.todo[1] = "loop test"
  <2>1. "dispatch" \in LoopStep \ UnitStep /\ "loop test" \in LoopStep \ UnitStep
    BY Zenon DEF LoopStep, UnitStep
  <2> QED BY <2>1, DoingFacts, Zenon
<1>2. /\ Below = <<>> /\ Top \in Serving \cup Polling /\ Top.wait = 0
  BY <1>1, TopIsTimely, Zenon
<1>3. Tail(Top.todo) = <<>> /\ (Doing("loop test") => Top \in Looping)
  BY <1>1, <1>2, LoopGoesOn, Zenon
<1>4. Doing("loop test") => Some(stack, Looping)
  BY <1>1, <1>3, TopFacts, Zenon
<1>5. Top \in Frame
  BY <1>1, TopFacts, Zenon
<1>6. Top.due \in Int
  BY <1>1, <1>5, FrameCases, Zenon
<1>7. LET s == Push(CallOf(NoUnit, 0, Top.due, <<"update", "loop test">>), Below)
      IN Sound(s, elapsed) /\ Serves(s)
  <2> DEFINE f == CallOf(NoUnit, 0, Top.due, <<"update", "loop test">>)
  <2>1. f \in LoopFrame /\ f.wait = 0 /\ f \in Looping
    BY <1>6, LoopingIs, Zenon
  <2> HIDE DEF f
  <2>2. f \in Serving
    BY <2>1, Zenon DEF Serving
  <2>3. Sound(Push(f, <<>>), elapsed) /\ Serves(Push(f, <<>>))
    BY <2>1, <2>2, OneCall, Zenon DEF Serves
  <2> QED BY <1>2, <2>3, Zenon DEF f
<1>8. LET s == Push(Now(Tail(Top.todo)), Below)
      IN Sound(s, elapsed) /\ Returns(s) /\ ~Some(s, Looping)
  <2> DEFINE f == Now(Tail(Top.todo))
  <2>1. f \in LoopFrame /\ f.todo = <<>> /\ f.kind = "call"
    BY <1>1, <1>3, NowFacts, Zenon
  <2>2. f.wait = 0
    BY <1>2, Zenon DEF Now, CallOf
  <2> HIDE DEF f
  <2>3. f \in Polling /\ f \notin Looping
    BY <2>1, LoopTodos, Zenon DEF Polling, Looping
  <2>4. Sound(Push(f, <<>>), elapsed) /\ Returns(Push(f, <<>>)) /\ ~Some(Push(f, <<>>), Looping)
    BY <2>1, <2>2, <2>3, OneCall, Zenon DEF Returns
  <2> QED BY <1>2, <2>4, Zenon DEF f
<1> QED BY <1>1, <1>2, <1>4, <1>7, <1>8, Zenon

\* An event is served when it is due.
LEMMA ServedOnTime ==
  ASSUME TypeInv, Punctual, NEW c, Good(c), c.queue = clock.queue, c.queue # <<>>, c.interval = 0,
         HeadTime(c) = 0, c.vm_time = elapsed, \A i \in 1 .. Len(clock.queue) : DueAt(c, i) = DueAt(clock, i)
  PROVE  LET s == TakeFirst(c, 0) IN
         /\ Good(s) /\ SimGtime(s) = elapsed /\ s.interval >= 0 /\ s.interval = HeadTime(s)
         /\ promise[c.queue[1]] - elapsed <= Half
         /\ \A i \in 1 .. Len(s.queue) : promise[s.queue[i]] <= DueAt(s, i) + Half
<1> DEFINE s == TakeFirst(c, 0)
           N == Len(c.queue)
<1>1. /\ Good(s) /\ Len(s.queue) = N - 1 /\ s.interval = HeadTime(s) /\ HeadTime(s) >= 0 /\ SimGtime(s) = c.vm_time
      /\ \A i \in 1 .. N - 1 : s.queue[i] = c.queue[i + 1] /\ DueAt(s, i) = DueAt(c, i + 1) - HeadTime(c)
  <2>1. c.interval + 0 = 0 /\ 0 \in Int
    OBVIOUS
  <2> QED BY <2>1, TakeFirstFacts, Zenon
<1>2. /\ c \in Clock /\ N \in Nat /\ N >= 1 /\ \A i \in 1 .. N : c.queue[i] \in Unit /\ DueAt(c, i) \in Int
      /\ DueAt(c, 1) = c.vm_time + HeadTime(c)
  <2>1. c \in Clock
    BY DEF Good
  <2> QED BY <2>1, ClockFields, HeadDue, Zenon
<1>3. \A i \in 1 .. N : promise[c.queue[i]] <= DueAt(c, i) + Half
  BY DEF Punctual
<1>4. Half \in Int /\ elapsed \in Int /\ \A i \in 1 .. N : promise[c.queue[i]] \in Int
  BY <1>2, ShortenedFacts, Zenon DEF TypeInv
<1> HIDE DEF s, N
<1>5. promise[c.queue[1]] - elapsed <= Half
  <2>1. 1 \in 1 .. N /\ DueAt(c, 1) = elapsed
    BY <1>2, <1>4
  <2> QED BY <1>2, <1>3, <1>4, <2>1, TimeSums, Zenon
<1>6. ASSUME NEW i \in 1 .. Len(s.queue)
      PROVE  promise[s.queue[i]] <= DueAt(s, i) + Half
  <2>1. i \in 1 .. N - 1 /\ i + 1 \in 1 .. N
    BY <1>1, <1>2
  <2>2. \A d \in Int : d - 0 = d
    OBVIOUS
  <2>3. s.queue[i] = c.queue[i + 1] /\ DueAt(s, i) = DueAt(c, i + 1)
    BY <1>1, <1>2, <2>1, <2>2, Zenon
  <2> QED BY <1>3, <2>1, <2>3, Zenon
<1> QED BY <1>1, <1>5, <1>6, Zenon DEF s

\* The clock is right, and nothing is due.
NothingDue(r) ==
  /\ SimGtime(r) = elapsed /\ r.interval > 0
  /\ \A i \in 1 .. Len(r.queue) : promise[r.queue[i]] <= DueAt(r, i) + Half

\* When no event is left, or none is due.
LEMMA NoEventLeft ==
  ASSUME Punctual, NEW c, Good(c), c.queue = clock.queue, c.vm_time = elapsed, HeadTime(c) = c.interval,
         \A i \in 1 .. Len(clock.queue) : DueAt(c, i) = DueAt(clock, i)
  PROVE  /\ c.interval > 0 => NothingDue(c)
         /\ c.queue = <<>> => NothingDue(ReloadInterval(c))
<1>1. SimGtime(c) = elapsed
  <2>1. c \in Clock /\ c.vm_time \in Int /\ c.interval \in Int /\ SimGtime(c) = c.vm_time + HeadTime(c) - c.interval
    BY HeadDue, ClockFields, Zenon DEF Good
  <2> QED BY <2>1
<1>2. \A i \in 1 .. Len(c.queue) : promise[c.queue[i]] <= DueAt(c, i) + Half
  BY DEF Punctual
<1>3. ASSUME c.queue = <<>>
      PROVE  NothingDue(ReloadInterval(c))
  <2> DEFINE r == ReloadInterval(c)
  <2>1. /\ r.queue = c.queue /\ r.interval = NOQUEUE_WAIT /\ SimGtime(r) = elapsed
        /\ \A i \in 1 .. Len(c.queue) : DueAt(r, i) = DueAt(c, i)
    BY <1>3, ReloadFacts, Zenon
  <2> HIDE DEF r
  <2>2. r.interval > 0
    BY <2>1, NoQueueWaitAssumption
  <2> QED BY <1>2, <2>1, <2>2 DEF NothingDue, r
<1> QED BY <1>1, <1>2, <1>3 DEF NothingDue

\* sim_process_event: an event is served when it is due, and the loop ends when none is.
LEMMA TimeServes ==
  ASSUME Inv, TimeInv, Doing("dispatch") \/ Doing("loop test"), Inside, a_event_time' = a_event_time,
         a_due' = a_due, promise' = promise,
         NEW c, Good(c), c.queue = clock.queue, c.vm_time = elapsed, HeadTime(c) = c.interval,
         \A i \in 1 .. Len(clock.queue) : DueAt(c, i) = DueAt(clock, i),
         \/ c.queue # <<>> /\ c.interval = 0 /\ Serve(c, 0)
         \/ /\ (c.interval > 0 /\ clock' = c) \/ (c.queue = <<>> /\ clock' = ReloadInterval(c))
            /\ stack' = Rest /\ early' = early
  PROVE  TimeInv'
<1>1. TypeInv /\ Sound(stack, elapsed) /\ Punctual /\ slept = 0 /\ early <= Half
  BY Zenon DEF Inv, TimeInv, Punctual
<1>2. slept' = slept /\ elapsed' = elapsed /\ loop' = loop
  BY Zenon DEF Inside
<1>3. slept' = 0 /\ \A u \in Unit : a_due'[u] <= elapsed' + a_event_time'[u]
  BY <1>1, <1>2, Zenon DEF TimeInv
<1>4. CASE c.queue # <<>> /\ c.interval = 0 /\ Serve(c, 0)
  <2>1. stack' = Push(CallOf(NoUnit, 0, Top.due, <<"update", "loop test">>), Below)
    BY <1>1, <1>4, ServeStep, DispatchStack, TimeSums, Zenon
  <2>2. Sound(stack', elapsed) /\ Serves(stack')
    BY <1>1, <2>1, DispatchStack, Zenon
  <2>3. clock' = TakeFirst(c, 0) /\ early' = promise[c.queue[1]] - elapsed
    BY <1>4, Zenon DEF Serve
  <2>4. /\ SimGtime(clock') = elapsed /\ clock'.interval >= 0 /\ clock'.interval = HeadTime(clock')
        /\ early' <= Half
        /\ \A i \in 1 .. Len(clock'.queue) : promise[clock'.queue[i]] <= DueAt(clock', i) + Half
    BY <1>1, <1>4, <2>3, ServedOnTime, Zenon
  <2>5. Punctual'
    BY <1>2, <2>4, Zenon DEF Punctual
  <2> QED BY <1>2, <1>3, <2>2, <2>4, <2>5, Zenon DEF TimeInv, Ready
<1>5. CASE /\ (c.interval > 0 /\ clock' = c) \/ (c.queue = <<>> /\ clock' = ReloadInterval(c))
           /\ stack' = Rest /\ early' = early
  <2>1. Rest = Push(Now(Tail(Top.todo)), Below)
    BY <1>1, DoingFacts, Zenon
  <2>2. Sound(stack', elapsed) /\ Returns(stack') /\ ~Some(stack', Looping)
    BY <1>1, <1>5, <2>1, DispatchStack, Zenon
  <2>3. NothingDue(clock')
    BY <1>1, <1>5, NoEventLeft, Zenon
  <2>4. clock'.interval > 0 /\ clock'.interval >= 0
    <3>1. Good(clock')
      BY <1>5, ReloadFacts, Zenon
    <3>2. clock'.interval \in Int
      BY <3>1, ClockFields, Zenon DEF Good
    <3> QED BY <2>3, <3>2, TimeSums, Zenon DEF NothingDue
  <2>5. Punctual'
    BY <1>1, <1>2, <1>5, <2>3, <2>4, Zenon DEF Punctual, NothingDue
  <2> QED BY <1>2, <1>3, <2>2, <2>4, <2>5, Zenon DEF TimeInv, Ready
<1> QED BY <1>4, <1>5, Zenon

\* sim_process_event takes the first event.
LEMMA TimeFirst ==
  ASSUME Inv, TimeInv, DispatchFirst
  PROVE  TimeInv'
<1> DEFINE c == UpdateSimTime(clock)
<1>1. TypeInv /\ Good(clock) /\ SimGtime(clock) = elapsed /\ clock.interval >= 0
  BY Zenon DEF Inv, TypeInv, TimeInv, Punctual
<1>2. /\ Good(c) /\ c.queue = clock.queue /\ c.interval = clock.interval /\ c.vm_time = elapsed
      /\ HeadTime(c) = c.interval /\ \A i \in 1 .. Len(clock.queue) : DueAt(c, i) = DueAt(clock, i)
  BY <1>1, UpdateFacts, Zenon
<1>3. /\ Doing("dispatch") /\ Inside /\ a_event_time' = a_event_time /\ a_due' = a_due /\ promise' = promise
      /\ IF c.interval > 0 THEN clock' = c /\ stack' = Rest /\ UNCHANGED <<early, wanted>>
         ELSE IF c.queue = <<>> THEN Served(c)
         ELSE Serve(BackUp(c), FirstCatchup(c))
  BY Zenon DEF DispatchFirst, shared
<1> HIDE DEF c
<1>4. c.interval \in Int /\ c.interval >= 0
  BY <1>1, <1>2, ClockFields, Zenon DEF Good
<1>5. ~(c.interval > 0) => c.interval = 0
  BY <1>4
<1>6. BackUp(c) = c /\ FirstCatchup(c) = 0
  <2>1. ~(c.interval < 0)
    BY <1>4
  <2> QED BY <1>4, <2>1, Zenon DEF BackUp, FirstCatchup
<1>7. \/ c.queue # <<>> /\ c.interval = 0 /\ Serve(c, 0)
      \/ /\ (c.interval > 0 /\ clock' = c) \/ (c.queue = <<>> /\ clock' = ReloadInterval(c))
         /\ stack' = Rest /\ early' = early
  <2>1. CASE c.interval > 0
    BY <1>3, <2>1, Zenon
  <2>2. CASE ~(c.interval > 0) /\ c.queue = <<>>
    BY <1>3, <2>2 DEF Served
  <2>3. CASE ~(c.interval > 0) /\ c.queue # <<>>
    BY <1>3, <1>5, <1>6, <2>3, Zenon
  <2> QED BY <2>1, <2>2, <2>3, Zenon
<1> QED BY <1>2, <1>3, <1>7, TimeServes, Zenon

\* The loop of sim_process_event goes on with the next event.
LEMMA TimeMore ==
  ASSUME Inv, TimeInv, DispatchMore
  PROVE  TimeInv'
<1>1. /\ TypeInv /\ Good(clock) /\ clock \in Clock /\ SimGtime(clock) = elapsed /\ clock.interval >= 0
      /\ Sound(stack, elapsed)
  BY Zenon DEF Inv, TypeInv, TimeInv, Punctual, Good
<1>2. Doing("loop test") /\ Inside /\ a_event_time' = a_event_time /\ a_due' = a_due /\ promise' = promise
  BY Zenon DEF DispatchMore, shared
<1>3. Top.wait = 0 /\ Some(stack, Looping)
  BY <1>1, <1>2, DispatchStack, Zenon
<1>4. clock.interval = HeadTime(clock)
  BY <1>3, Zenon DEF TimeInv
<1>5. clock.interval \in Int /\ clock.vm_time = elapsed
  <2>1. clock.interval \in Int /\ clock.vm_time \in Int /\ SimGtime(clock) = clock.vm_time + HeadTime(clock) - clock.interval
    BY <1>1, HeadDue, ClockFields, Zenon
  <2>2. \A a, b \in Int : a + b - b = a
    OBVIOUS
  <2> QED BY <1>1, <1>4, <2>1, <2>2, Zenon
<1>6. ~Behind(0)
  BY DEF Behind
<1>7. AfterAction(clock, Top.wait) = clock /\ NextCatchup(clock, Top.wait) = 0
  BY <1>3, <1>6, Zenon DEF AfterAction, NextCatchup
<1>8. IF StillDue(clock, 0) THEN Serve(clock, 0) ELSE Served(clock)
  BY <1>7, Zenon DEF DispatchMore
<1>9. \A x \in Int : x >= 0 => (x + 0 <= 0 <=> x = 0) /\ (x # 0 => x > 0)
  OBVIOUS
<1>10. \/ clock.queue # <<>> /\ clock.interval = 0 /\ Serve(clock, 0)
       \/ /\ (clock.interval > 0 /\ clock' = clock) \/ (clock.queue = <<>> /\ clock' = ReloadInterval(clock))
          /\ stack' = Rest /\ early' = early
  <2>1. CASE StillDue(clock, 0)
    BY <1>1, <1>5, <1>8, <1>9, <2>1, Zenon DEF StillDue
  <2>2. CASE ~StillDue(clock, 0) /\ clock.queue = <<>>
    BY <1>8, <2>2, Zenon DEF Served
  <2>3. CASE ~StillDue(clock, 0) /\ clock.queue # <<>>
    <3>1. clock.interval > 0
      BY <1>1, <1>5, <1>9, <2>3, Zenon DEF StillDue
    <3> QED BY <1>8, <2>3, <3>1, Zenon DEF Served
  <2> QED BY <2>1, <2>2, <2>3, Zenon
<1> QED BY <1>1, <1>2, <1>4, <1>5, <1>10, TimeServes, Zenon

\* The calls the instruction loop makes.
LEMMA LoopCallsAre ==
  /\ ProcessCall \in Serving /\ ProcessCall \notin Looping /\ ProcessCall \in LoopFrame /\ ProcessCall.wait = 0
  /\ UpdateCall \in Polling /\ UpdateCall \notin Looping /\ UpdateCall \in LoopFrame /\ UpdateCall.wait = 0
<1>1. 0 \in Int
  OBVIOUS
<1>2. \A todo \in Seq(LoopStep) :
        LET g == CallOf(NoUnit, 0, 0, todo) IN g \in LoopFrame /\ g.wait = 0 /\ g.todo = todo
  BY <1>1, LoopCallIs
<1>3. /\ ProcessCall \in LoopFrame /\ ProcessCall.wait = 0 /\ ProcessCall.todo = ProcessSteps
      /\ UpdateCall \in LoopFrame /\ UpdateCall.wait = 0 /\ UpdateCall.todo = <<"update">>
  BY <1>2, StepsFacts, Zenon DEF ProcessCall, UpdateCall
<1> QED BY <1>3, LoopTodos, Zenon DEF Serving, Polling, Looping

\* A list of one record.
LEMMA OnePush ==
  ASSUME NEW f
  PROVE  Push(f, <<>>) = <<f>>
<1>1. <<f>> \o <<>> = <<f>>
  OBVIOUS
<1> QED BY <1>1 DEF Push

\* The stack of the instruction loop after a step of its own.
LEMMA LoopStack ==
  ASSUME TypeInv, LoopAction
  PROVE  /\ stack = <<>> /\ Sound(stack', elapsed') /\ ~Some(stack', Looping)
         /\ loop' = "execute" =>
              \/ clock' = clock /\ loop = loop' /\ stack' = stack
              \/ clock' = clock /\ Serves(stack')
              \/ clock' = clock /\ stack' = <<>> /\ ~(clock.interval <= 0)
<1>1. stack = <<>>
  BY LoopCalls
<1>2. \A t : Sound(<<>>, t) /\ ~Some(<<>>, Looping) /\ <<>> \in Seq(Frame)
  <2>1. <<>> \in Seq(Frame) /\ Len(<<>>) = 0
    OBVIOUS
  <2>2. \A i \in 1 .. 0 : FALSE
    OBVIOUS
  <2> QED BY <2>1, <2>2, Zenon DEF Sound, Some
<1>3. ASSUME NEW f \in {ProcessCall, UpdateCall}, NEW t
      PROVE  Sound(<<f>>, t) /\ ~Some(<<f>>, Looping) /\ (f = ProcessCall => Serves(<<f>>))
  <2>1. f \in LoopFrame /\ f \in Serving \cup Polling /\ f.wait = 0 /\ f \notin Looping
    BY LoopCallsAre, Zenon
  <2>2. LET s == Push(f, <<>>) IN Sound(s, t) /\ s # <<>> /\ s[Len(s)] = f /\ (Some(s, Looping) => f \in Looping)
    BY <2>1, OneCall, Zenon
  <2> QED BY <2>1, <2>2, LoopCallsAre, OnePush, Zenon DEF Serves
<1>4. CASE Devices
  <2>1. PICK u \in Unit, t \in Delay, todo \in {ActivateSteps, CancelSteps, AbsSteps} :
           stack' = <<CallOf(u, t, elapsed + t, todo)>> \o <<>>
    BY <1>4 DEF Devices, ExecuteCall, DeviceCall
  <2>2. elapsed' = elapsed /\ loop' = "device"
    BY <1>4 DEF Devices, ExecuteCall, At
  <2> DEFINE g == CallOf(u, t, elapsed + t, todo)
  <2>3. g \in UnitFrame /\ g.wait \in Nat /\ g.due = elapsed + g.wait /\ stack' = Push(g, <<>>)
    BY <2>1, DeviceCallIs DEF Push
  <2> HIDE DEF g
  <2>4. g \in Timely(elapsed) /\ g \in Frame /\ g \notin LoopFrame
    BY <2>3, NewIsTimely
  <2>5. g \notin Looping
    BY <2>4, Zenon DEF Looping
  <2>6. \A e \in Seq(Frame) : Sound(e, elapsed) => Sound(Push(g, e), elapsed)
    BY <2>4, SoundPush
  <2>7. \A e \in Seq(Frame) : Some(Push(g, e), Looping) <=> g \in Looping \/ Some(e, Looping)
    BY <2>4, SomePush
  <2>8. Sound(stack', elapsed) /\ ~Some(stack', Looping)
    BY <1>2, <2>3, <2>5, <2>6, <2>7, Zenon
  <2> QED BY <1>1, <2>2, <2>8
<1>5. CASE ProcessEvents
  <2>1. /\ stack' = (IF clock.interval <= 0 THEN <<ProcessCall>> ELSE stack) /\ clock' = clock
    BY <1>5 DEF ProcessEvents
  <2>2. CASE clock.interval <= 0
    BY <1>1, <1>3, <2>1, <2>2, Zenon
  <2>3. CASE ~(clock.interval <= 0)
    BY <1>1, <1>2, <2>1, <2>3, Zenon
  <2> QED BY <2>2, <2>3
<1>6. CASE OutOfTime
  <2>1. stack' = stack /\ clock' = clock /\ loop' = loop
    BY <1>6 DEF OutOfTime, vars
  <2> QED BY <1>1, <1>2, <2>1, Zenon
<1>7. CASE ~Devices /\ ~ProcessEvents /\ ~OutOfTime
  <2>1. stack' = stack \/ stack' = <<UpdateCall>>
    BY <1>7 DEF LoopAction, CheckLoad, CheckStore, CheckRearm, Execute,
         ExecuteDone, IdleSleep, IdlePass, IdleWoken, IdleTimeout, IdleDone
  <2>2. loop' # "execute"
    BY <1>7 DEF LoopAction, CheckLoad, CheckStore, CheckRearm, Execute,
         ExecuteDone, IdleSleep, IdlePass, IdleWoken, IdleTimeout, IdleDone, At
  <2> QED BY <1>1, <1>2, <1>3, <2>1, <2>2, Zenon
<1> QED BY <1>4, <1>5, <1>6, <1>7

\* The clock counts the instructions, in a simulator that does not sleep.
LEMMA LoopTime ==
  ASSUME TypeInv, TimeInv, LoopAction, MaxIdle = 0
  PROVE  /\ slept' = 0 /\ SimGtime(clock') = elapsed' /\ clock'.interval >= 0 /\ clock'.queue = clock.queue
         /\ \A i \in 1 .. Len(clock.queue) : DueAt(clock', i) = DueAt(clock, i)
         /\ elapsed' >= elapsed /\ elapsed' \in Int
<1>1. /\ Good(clock) /\ SimGtime(clock) = elapsed /\ clock.interval >= 0 /\ slept = 0 /\ elapsed \in Nat
      /\ clock.interval \in Int
  BY ClockFields, Zenon DEF TypeInv, TimeInv, Punctual, Good
<1>2. LET s == UpdateSimTime(clock) IN
      /\ SimGtime(s) = elapsed /\ s.interval = clock.interval /\ s.queue = clock.queue
      /\ \A i \in 1 .. Len(clock.queue) : DueAt(s, i) = DueAt(clock, i)
  <2> DEFINE s == UpdateSimTime(clock)
  <2>1. /\ Good(s) /\ s.queue = clock.queue /\ s.interval = clock.interval /\ s.vm_time = elapsed
        /\ HeadTime(s) = s.interval /\ \A i \in 1 .. Len(clock.queue) : DueAt(s, i) = DueAt(clock, i)
    BY <1>1, UpdateFacts, Zenon
  <2> HIDE DEF s
  <2>2. SimGtime(s) = s.vm_time + HeadTime(s) - s.interval
    BY <2>1, HeadDue, Zenon DEF Good
  <2>3. SimGtime(s) = elapsed
    BY <1>1, <2>1, <2>2
  <2> QED BY <2>1, <2>3 DEF s
<1>3. CASE Execute
  <2>1. stack = <<>> /\ loop = "execute" /\ elapsed' = elapsed + 1 /\ slept' = slept
        /\ clock' = [clock EXCEPT !.interval = @ - 1]
    BY <1>3 DEF Execute, At
  <2>2. clock.interval > 0
    BY <2>1 DEF TimeInv, Ready, Serves
  <2>3. 1 \in Int /\ \A e \in Nat : e + 1 >= e /\ e + 1 \in Int
    BY <1>1
  <2>4. /\ clock'.queue = clock.queue /\ clock'.interval = clock.interval - 1 /\ SimGtime(clock') = elapsed + 1
        /\ \A i \in 1 .. Len(clock.queue) : DueAt(clock', i) = DueAt(clock, i)
    BY <1>1, <2>1, <2>3, CountDown, Zenon
  <2> QED BY <1>1, <2>1, <2>2, <2>3, <2>4, TimeSums, Zenon
<1>4. CASE IdleSleep \/ IdleDone
  <2>1. [clock EXCEPT !.interval = @ - slept] = clock
    <3>1. \A x \in Int : x - 0 = x
      OBVIOUS
    <3>2. clock.interval - slept = clock.interval
      BY <1>1, <3>1, Zenon
    <3>3. clock \in Clock
      BY <1>1 DEF Good
    <3> QED BY <3>2, <3>3 DEF Clock
  <2>2. clock' = UpdateSimTime(clock) /\ elapsed' = elapsed /\ slept' = 0
    BY <1>1, <1>4, <2>1 DEF IdleSleep, IdleDone
  <2> QED BY <1>1, <1>2, <2>2
<1>5. ~IdlePass
  BY <1>1 DEF IdlePass
<1>6. CASE ~Execute /\ ~IdleSleep /\ ~IdleDone
  <2>1. clock' = clock /\ elapsed' = elapsed /\ slept' = slept
    BY <1>5, <1>6 DEF LoopAction, CheckLoad, CheckStore, CheckRearm, ProcessEvents, Devices, ExecuteCall,
         ExecuteDone, IdleWoken, IdleTimeout, OutOfTime, vars
  <2> QED BY <1>1, <2>1
<1> QED BY <1>3, <1>4, <1>6

\* The instruction loop executes an instruction when nothing is due.
LEMMA TimeLoop ==
  ASSUME TypeInv, TimeInv, LoopAction, MaxIdle = 0
  PROVE  TimeInv'
<1>1. /\ slept' = 0 /\ SimGtime(clock') = elapsed' /\ clock'.interval >= 0 /\ clock'.queue = clock.queue
      /\ \A i \in 1 .. Len(clock.queue) : DueAt(clock', i) = DueAt(clock, i)
      /\ elapsed' >= elapsed /\ elapsed' \in Int
  BY LoopTime
<1>2. promise' = promise /\ early' = early /\ a_due' = a_due /\ a_event_time' = a_event_time
  BY DEF LoopAction, CheckLoad, CheckStore, CheckRearm, ProcessEvents, Execute, Devices, ExecuteCall,
         ExecuteDone, IdleSleep, IdlePass, IdleWoken, IdleTimeout, IdleDone, OutOfTime, Kept, shared, vars
<1>3. Punctual'
  BY <1>1, <1>2 DEF TimeInv, Punctual
<1>4. /\ stack = <<>> /\ Sound(stack', elapsed') /\ ~Some(stack', Looping)
      /\ loop' = "execute" =>
           \/ clock' = clock /\ loop = loop' /\ stack' = stack
           \/ clock' = clock /\ Serves(stack')
           \/ clock' = clock /\ stack' = <<>> /\ ~(clock.interval <= 0)
  BY LoopStack, Zenon
<1>5. ~(clock.interval <= 0) => clock.interval > 0
  BY ClockFields DEF TypeInv, Good
<1>6. Ready'
  BY <1>4, <1>5, Zenon DEF TimeInv, Ready, Returns
<1>7. \A u \in Unit : a_due'[u] <= elapsed' + a_event_time'[u]
  <2>1. \A d, e, f, t \in Int : d <= e + t /\ f >= e => d <= f + t
    OBVIOUS
  <2>2. \A x \in Delay \cup {0} : x \in Int
    BY AsynchDelayAssumption
  <2>3. elapsed \in Int /\ \A u \in Unit : a_due[u] \in Int /\ a_event_time[u] \in Int
    <3>1. elapsed \in Int
      BY DEF TypeInv
    <3> QED BY <2>2, <3>1, Zenon DEF TypeInv
  <2> QED BY <1>1, <1>2, <2>1, <2>3, Zenon DEF TimeInv
<1> QED BY <1>1, <1>3, <1>4, <1>6, <1>7, Zenon DEF TimeInv

\* A thread's request says when it was made.
LEMMA TimeThreads ==
  ASSUME Inv, TimeInv, Threads
  PROVE  TimeInv'
<1>1. PICK u \in Unit, t \in Delay, call \in {"activate", "abs"} : Post(u, call, t)
  BY DEF Threads
<1>2. /\ stack' = stack
      /\ \/ a_due' = a_due /\ a_event_time' = a_event_time
         \/ a_due' = [a_due EXCEPT ![u] = elapsed + t] /\ a_event_time' = [a_event_time EXCEPT ![u] = t]
  BY <1>1, PostLists
<1>3. /\ clock' = clock /\ loop' = loop /\ slept' = slept /\ elapsed' = elapsed
      /\ promise' = promise /\ early' = early
  BY <1>1 DEF Post
<1>4. ASSUME NEW v \in Unit
      PROVE  a_due'[v] <= elapsed' + a_event_time'[v]
  <2>1. a_due[v] <= elapsed + a_event_time[v] /\ a_due \in [Unit -> Int] /\ a_event_time \in [Unit -> Delay \cup {0}]
    BY DEF TimeInv, Inv, TypeInv
  <2>2. elapsed + t <= elapsed + t
    <3>1. t \in Int /\ elapsed \in Int
      BY AsynchDelayAssumption DEF Inv, TypeInv
    <3> QED BY <3>1
  <2>3. CASE a_due' = a_due /\ a_event_time' = a_event_time
    BY <1>3, <2>1, <2>3
  <2>4. CASE a_due' = [a_due EXCEPT ![u] = elapsed + t] /\ a_event_time' = [a_event_time EXCEPT ![u] = t]
    <3>1. CASE v = u
      <4>1. a_due'[v] = elapsed + t /\ a_event_time'[v] = t
        BY <2>1, <2>4, <3>1, Zenon
      <4> QED BY <1>3, <2>2, <4>1, Zenon
    <3>2. CASE v # u
      <4>1. a_due'[v] = a_due[v] /\ a_event_time'[v] = a_event_time[v]
        BY <2>1, <2>4, <3>2, Zenon
      <4> QED BY <1>3, <2>1, <4>1, Zenon
    <3> QED BY <3>1, <3>2
  <2> QED BY <1>2, <2>3, <2>4
<1> QED BY <1>2, <1>3, <1>4, Zenon DEF TimeInv, Punctual, Ready

\* The clock starts with nothing queued.
LEMMA TimeInit ==
  ASSUME Init
  PROVE  TimeInv
<1>1. /\ stack = <<>> /\ elapsed = 0 /\ slept = 0 /\ early = 0 /\ loop = "check"
      /\ \A u \in Unit : a_due[u] = 0 /\ a_event_time[u] = 0
  BY DEF Init
<1>2. Good(clock) /\ SimGtime(clock) = 0 /\ clock.interval = NOQUEUE_WAIT /\ Len(clock.queue) = 0
  <2>1. Good(ResetClock) /\ ResetClock.queue = <<>> /\ ResetClock.vm_time = 0
    BY ResetFacts DEF ResetClock
  <2>2. LET r == ReloadInterval(ResetClock) IN
        Good(r) /\ SimGtime(r) = 0 /\ r.interval = NOQUEUE_WAIT /\ r.queue = <<>>
    BY <2>1, ReloadFacts, Zenon
  <2>3. clock.queue = <<>> => Len(clock.queue) = 0
    OBVIOUS
  <2> QED BY <2>2, <2>3 DEF Init
<1>3. Punctual
  BY <1>1, <1>2, NoQueueWaitAssumption, ShortenedFacts DEF Punctual
<1>4. Sound(stack, elapsed) /\ ~Some(stack, Looping)
  <2>1. Len(<<>>) = 0
    OBVIOUS
  <2>2. \A i \in 1 .. 0 : FALSE
    OBVIOUS
  <2> QED BY <1>1, <2>1, <2>2, Zenon DEF Sound, Some
<1>5. \A u \in Unit : a_due[u] <= elapsed + a_event_time[u]
  <2>1. 0 <= 0 + 0
    OBVIOUS
  <2> QED BY <1>1, <2>1, Zenon
<1>6. Ready
  BY <1>1 DEF Ready
<1> QED BY <1>1, <1>3, <1>4, <1>5, <1>6, Zenon DEF TimeInv

\* In a simulator that does not sleep (an idle simulator counts its sleep when it is over, so a
\* unit migrated meanwhile comes early by that much more) the clock of the event queue is the
\* number of instructions executed, and an event comes at most half of sim_asynch_inst_latency
\* before the time it was asked for.
THEOREM EventsAreHardlyEarly ==
  ASSUME MaxIdle = 0
  PROVE  Spec => []EarlyByHalfAtMost
<1>1. Init => TimeInv
  BY TimeInit
<1>2. Inv /\ LostInv /\ TimeInv /\ [Next]_vars => TimeInv'
  <2> SUFFICES ASSUME Inv, LostInv, TimeInv, [Next]_vars PROVE TimeInv'
    OBVIOUS
  <2>1. CASE Update \/ UpdateUnlessEmpty \/ MigrateNext \/ MigrateDone \/ Request \/ Completion \/ CallDone
    BY <2>1, TimeQuiet
  <2>2. CASE DoInsert
    BY <2>2, TimeInsert
  <2>3. CASE DoCancel
    BY <2>3, TimeCancel
  <2>4. CASE DispatchFirst
    BY <2>4, TimeFirst
  <2>5. CASE DispatchMore
    BY <2>5, TimeMore
  <2>6. CASE LoopAction
    BY <2>6, TimeLoop DEF Inv
  <2>7. CASE Threads
    BY <2>7, TimeThreads
  <2>8. CASE UNCHANGED vars
    BY <2>8, Zenon DEF vars, shared, TimeInv, Punctual, Ready
  <2> QED BY <2>1, <2>2, <2>3, <2>4, <2>5, <2>6, <2>7, <2>8 DEF Next, Main, LoopAction
<1>3. TimeInv => EarlyByHalfAtMost
  BY DEF TimeInv, Punctual, EarlyByHalfAtMost
<1> QED BY <1>1, <1>2, <1>3, ListsInvariant, PTL DEF Spec
=============================================================================
