------------------------------ MODULE SimTailq -------------------------------
(***************************************************************************)
(* The lock-free ring buffer of src/lib/sim_tailq.c, one action per shared *)
(* memory access.  Several producers run sim_tailq_enqueue, one consumer   *)
(* runs sim_tailq_dequeue; sim_tailq_destroy runs once every thread is out *)
(* of the queue.  The four positions are C integers of type                *)
(* sim_atomic_type_t: they count modulo Word and are compared as signed.   *)
(***************************************************************************)
EXTENDS Integers, Sequences, FiniteSets

CONSTANTS Producers,           \* threads that call sim_tailq_enqueue
          Item,                \* the (non-NULL) pointers they enqueue
          NoItem,              \* NULL
          Size,                \* capacity given to sim_tailq_init_capacity
          Word,                \* number of values of sim_atomic_type_t
          MAX_ENQUEUE_RETRIES, \* 4096 in the code
          MaxCalls,            \* bound: how many enqueue calls are made
          Counting             \* bound: whether sim_tailq_count is called too

ASSUME SizeAssumption == Size \in Nat /\ Size >= 2
ASSUME WordAssumption ==
  Word \in Nat /\ Word >= 2 * Size /\ Word % Size = 0 /\ Word % 2 = 0
ASSUME RetriesAssumption == MAX_ENQUEUE_RETRIES \in Nat /\ MAX_ENQUEUE_RETRIES >= 1
ASSUME MaxCallsAssumption == MaxCalls \in Nat /\ Counting \in BOOLEAN
ASSUME ItemAssumption == NoItem \notin Item
ASSUME ProducersAssumption == IsFiniteSet(Producers)

VARIABLES prod_head, prod_tail, cons_head, cons_tail, \* positions, as stored
          slots,      \* slots[0 .. Size-1]
          pc,         \* where each producer is in sim_tailq_enqueue
          head,       \* each producer's local prod_head
          tail,       \* each producer's local cons_tail
          retries,    \* each producer's local retries
          item,       \* each producer's argument
          cpc,        \* where the consumer is in sim_tailq_dequeue
          chead,      \* the consumer's local cons_head
          result,     \* what the latest dequeue returned
          npc,        \* where a call of sim_tailq_count is
          nprod,      \* its local prod_tail
          left,       \* history: items in the queue at its first load that are
                      \* in it still, or -1 once a later one has been released
          freed,      \* slots whose item sim_tailq_destroy gave to free_item
          life,       \* "destroyed" once sim_tailq_destroy has run
          calls       \* enqueue calls made so far

ring == <<prod_head, prod_tail, cons_head, cons_tail, slots>>
producer == <<pc, head, tail, retries, item>>
consumer == <<cpc, chead, result>>
counter == <<npc, nprod, left>>
vars == <<ring, producer, consumer, counter, freed, life, calls>>

-----------------------------------------------------------------------------
(* Position arithmetic.                                                    *)

\* Definitions named Bad... are faulty variants, used to see the properties fail.

Succ(x) == (x + 1) % Word

\* The value of a sim_atomic_type_t with the bits of n.
Signed(n) == LET w == n % Word IN IF w >= Word \div 2 THEN w - Word ELSE w

BadAvailableUnwrapped(ct, ph) == ct + Size - (ph + 1)
BadAvailableAllSlots(ct, ph) == Signed(ct + Size - ph)

\* Free slots seen by a producer that read head and then tail.
Available(ct, ph) == Signed(ct + Size - (ph + 1))

Index(x) == x % Size

BadEmpty == (prod_tail - cons_head) % Word <= 1

\* sim_tailq_empty
Empty == cons_head = prod_tail

\* What sim_tailq_count returns for the two positions it has loaded.
Count(pt, ct) == (Size + pt - ct) % Size

-----------------------------------------------------------------------------
\* sim_tailq_init_capacity
Init ==
  /\ prod_head = 0 /\ prod_tail = 0 /\ cons_head = 0 /\ cons_tail = 0
  /\ slots = [i \in 0 .. Size - 1 |-> NoItem]
  /\ pc = [p \in Producers |-> "idle"]
  /\ head = [p \in Producers |-> 0]
  /\ tail = [p \in Producers |-> 0]
  /\ retries = [p \in Producers |-> 0]
  /\ item = [p \in Producers |-> NoItem]
  /\ cpc = "idle" /\ chead = 0 /\ result = NoItem
  /\ npc = "idle" /\ nprod = 0 /\ left = 0
  /\ freed = {} /\ life = "allocated"
  /\ calls = 0

Goto(p, l) == pc' = [pc EXCEPT ![p] = l]

EnqueueCall(p, v) ==
  /\ life = "allocated"
  /\ pc[p] = "idle"
  /\ calls < MaxCalls
  /\ calls' = calls + 1
  /\ item' = [item EXCEPT ![p] = v]
  /\ retries' = [retries EXCEPT ![p] = 0]
  /\ Goto(p, "read_head")
  /\ UNCHANGED <<ring, head, tail, consumer, counter, freed, life>>

ReadHead(p) ==
  /\ pc[p] = "read_head"
  /\ head' = [head EXCEPT ![p] = prod_head]
  /\ Goto(p, "read_tail")
  /\ UNCHANGED <<ring, tail, retries, item, consumer, counter, freed, life, calls>>

BadReadTail(p) ==
  /\ pc[p] = "read_tail"
  /\ tail' = [tail EXCEPT ![p] = cons_tail]
  /\ Goto(p, IF Available(cons_tail, head[p]) <= 1 THEN "recheck_head" ELSE "cas")
  /\ UNCHANGED <<ring, head, retries, item, consumer, counter, freed, life, calls>>

\* Reads cons_tail and decides whether there is room.
ReadTail(p) ==
  /\ pc[p] = "read_tail"
  /\ tail' = [tail EXCEPT ![p] = cons_tail]
  /\ Goto(p, IF Available(cons_tail, head[p]) < 1 THEN "recheck_head" ELSE "cas")
  /\ UNCHANGED <<ring, head, retries, item, consumer, counter, freed, life, calls>>

\* No room: both positions are read again, and a change starts the loop over.
RecheckHead(p) ==
  /\ pc[p] = "recheck_head"
  /\ Goto(p, IF prod_head = head[p] THEN "recheck_tail" ELSE "read_head")
  /\ UNCHANGED <<ring, head, tail, retries, item, consumer, counter, freed, life, calls>>

RecheckTailChanged(p) ==
  /\ pc[p] = "recheck_tail"
  /\ cons_tail # tail[p]
  /\ Goto(p, "read_head")
  /\ UNCHANGED <<ring, head, tail, retries, item, consumer, counter, freed, life, calls>>

BadRecheckTailFull(p) ==
  /\ pc[p] = "recheck_tail"
  /\ cons_tail = tail[p]
  /\ retries' = [retries EXCEPT ![p] = @ + 1]
  /\ Goto(p, IF retries[p] < MAX_ENQUEUE_RETRIES THEN "read_head" ELSE "idle")
  /\ UNCHANGED <<ring, head, tail, item, consumer, counter, freed, life, calls>>

\* The ring is full: yield and retry, or return NULL after too many retries.
RecheckTailFull(p) ==
  /\ pc[p] = "recheck_tail"
  /\ cons_tail = tail[p]
  /\ retries' = [retries EXCEPT ![p] = @ + 1]
  /\ Goto(p, IF retries[p] + 1 < MAX_ENQUEUE_RETRIES THEN "read_head" ELSE "idle")
  /\ UNCHANGED <<ring, head, tail, item, consumer, counter, freed, life, calls>>

BadReserve(p) ==
  /\ pc[p] = "cas"
  /\ prod_head' = Succ(head[p]) /\ Goto(p, "store")
  /\ UNCHANGED <<prod_tail, cons_head, cons_tail, slots, head, tail, retries,
                 item, consumer, counter, freed, life, calls>>

\* Reserves a slot with a compare-and-swap of prod_head, or starts over.
Reserve(p) ==
  /\ pc[p] = "cas"
  /\ IF prod_head = head[p]
       THEN prod_head' = Succ(head[p]) /\ Goto(p, "store")
       ELSE UNCHANGED prod_head /\ Goto(p, "read_head")
  /\ UNCHANGED <<prod_tail, cons_head, cons_tail, slots, head, tail, retries,
                 item, consumer, counter, freed, life, calls>>

StoreItem(p) ==
  /\ pc[p] = "store"
  /\ slots' = [slots EXCEPT ![Index(head[p])] = item[p]]
  /\ Goto(p, "await")
  /\ UNCHANGED <<prod_head, prod_tail, cons_head, cons_tail, head, tail,
                 retries, item, consumer, counter, freed, life, calls>>

BadAwaitTurn(p) ==
  /\ pc[p] = "await"
  /\ Goto(p, "publish")
  /\ UNCHANGED <<ring, head, tail, retries, item, consumer, counter, freed, life, calls>>

\* Spins until the enqueues that reserved earlier slots have published them.
AwaitTurn(p) ==
  /\ pc[p] = "await"
  /\ prod_tail = head[p]
  /\ Goto(p, "publish")
  /\ UNCHANGED <<ring, head, tail, retries, item, consumer, counter, freed, life, calls>>

BadPublish(p) ==
  /\ pc[p] = "publish"
  /\ prod_tail' = prod_head
  /\ Goto(p, "idle")
  /\ UNCHANGED <<prod_head, cons_head, cons_tail, slots, head, tail, retries,
                 item, consumer, counter, freed, life, calls>>

Publish(p) ==
  /\ pc[p] = "publish"
  /\ prod_tail' = Succ(head[p])
  /\ Goto(p, "idle")
  /\ UNCHANGED <<prod_head, cons_head, cons_tail, slots, head, tail, retries,
                 item, consumer, counter, freed, life, calls>>

EnqueueStep(p) ==
  \/ ReadHead(p) \/ ReadTail(p)
  \/ RecheckHead(p) \/ RecheckTailChanged(p) \/ RecheckTailFull(p)
  \/ Reserve(p) \/ StoreItem(p) \/ AwaitTurn(p) \/ Publish(p)

-----------------------------------------------------------------------------
\* sim_tailq_dequeue reads its own cons_head and prod_tail.
DequeueCall ==
  /\ life = "allocated"
  /\ cpc = "idle"
  /\ IF Empty
       THEN result' = NoItem /\ UNCHANGED <<cpc, chead>>
       ELSE chead' = cons_head /\ cpc' = "advance" /\ UNCHANGED result
  /\ UNCHANGED <<ring, producer, counter, freed, life, calls>>

AdvanceHead ==
  /\ cpc = "advance"
  /\ cons_head' = Succ(chead)
  /\ cpc' = "load"
  /\ UNCHANGED <<prod_head, prod_tail, cons_tail, slots, producer, chead,
                 result, counter, freed, life, calls>>

LoadItem ==
  /\ cpc = "load"
  /\ result' = slots[Index(chead)]
  /\ cpc' = "release"
  /\ UNCHANGED <<ring, producer, chead, counter, freed, life, calls>>

ReleaseSlot ==
  /\ cpc = "release"
  /\ cons_tail' = Succ(chead)
  /\ cpc' = "idle"
  /\ left' = IF npc = "load_cons" /\ left >= 0 THEN left - 1 ELSE left
  /\ UNCHANGED <<prod_head, prod_tail, cons_head, slots, producer, chead,
                 result, npc, nprod, freed, life, calls>>

DequeueStep == AdvanceHead \/ LoadItem \/ ReleaseSlot

-----------------------------------------------------------------------------
\* sim_tailq_count, on any thread, loads prod_tail and then cons_tail.
CountCall ==
  /\ Counting /\ life = "allocated"
  /\ npc = "idle"
  /\ npc' = "load_cons" /\ nprod' = prod_tail
  /\ left' = (prod_tail - cons_tail) % Word
  /\ UNCHANGED <<ring, producer, consumer, freed, life, calls>>

\* It returns Count(nprod, cons_tail).
CountReturn ==
  /\ npc = "load_cons"
  /\ npc' = "idle" /\ nprod' = 0 /\ left' = 0
  /\ UNCHANGED <<ring, producer, consumer, freed, life, calls>>

\* sim_tailq_destroy with a free_item callback; the caller has joined the threads.
Destroy ==
  /\ life = "allocated"
  /\ cpc = "idle" /\ npc = "idle" /\ \A p \in Producers : pc[p] = "idle"
  /\ life' = "destroyed"
  /\ freed' = {i \in 0 .. Size - 1 : slots[i] # NoItem}
  /\ UNCHANGED <<ring, producer, consumer, counter, calls>>

Next ==
  \/ \E p \in Producers : (\E v \in Item : EnqueueCall(p, v)) \/ EnqueueStep(p)
  \/ DequeueCall \/ DequeueStep
  \/ CountCall \/ CountReturn
  \/ Destroy

Spec == Init /\ [][Next]_vars

\* Every thread inside a queue operation keeps running, and the consumer keeps polling.
FairSpec ==
  /\ Spec
  /\ \A p \in Producers : WF_vars(EnqueueStep(p))
  /\ WF_vars(DequeueCall) /\ WF_vars(DequeueStep) /\ WF_vars(CountReturn)
-----------------------------------------------------------------------------
(* Properties.                                                             *)

\* Positions from x up to (not including) y, counted on the ring of words.
Distance(x, y) == (y - x) % Word

TypeOK ==
  /\ prod_head \in 0 .. Word - 1 /\ prod_tail \in 0 .. Word - 1
  /\ cons_head \in 0 .. Word - 1 /\ cons_tail \in 0 .. Word - 1
  /\ slots \in [0 .. Size - 1 -> Item \cup {NoItem}]
  /\ pc \in [Producers -> {"idle", "read_head", "read_tail", "recheck_head",
                           "recheck_tail", "cas", "store", "await", "publish"}]
  /\ head \in [Producers -> 0 .. Word - 1] /\ tail \in [Producers -> 0 .. Word - 1]
  /\ retries \in [Producers -> 0 .. MAX_ENQUEUE_RETRIES]
  /\ item \in [Producers -> Item \cup {NoItem}]
  /\ cpc \in {"idle", "advance", "load", "release"}
  /\ chead \in 0 .. Word - 1
  /\ result \in Item \cup {NoItem}
  /\ npc \in {"idle", "load_cons"} /\ nprod \in 0 .. Word - 1 /\ left \in -1 .. Size - 1
  /\ freed \subseteq 0 .. Size - 1 /\ life \in {"allocated", "destroyed"}
  /\ calls \in 0 .. MaxCalls

\* The producer has reserved a slot that it has not published yet.
Holds(p) == pc[p] \in {"store", "await", "publish"}

\* The plain store of an item (sim_tailq.c:139) hits a slot that no other
\* producer has reserved and that holds no item the consumer has yet to load
\* or is loading (sim_tailq.c:175): slots need no lock and nothing is overwritten.
NoSlotConflict ==
  \A p \in Producers : pc[p] = "store" =>
    /\ \A r \in Producers \ {p} : Holds(r) => Index(head[r]) # Index(head[p])
    /\ \A k \in 0 .. Distance(cons_tail, prod_tail) - 1 :
          Index(cons_tail + k) # Index(head[p])

\* "Only if both are unchanged is the queue truly full" (sim_tailq.c:108): when
\* an enqueue counts a retry, or gives up, every usable slot is taken right then.
FullIsReal ==
  \A p \in Producers : (pc[p] = "recheck_tail" /\ cons_tail = tail[p]) =>
    Distance(cons_tail, prod_head) >= Size - 1

\* sim_tailq_count is about to return the number of items that were in the queue at
\* its load of prod_tail (sim_tailq.h:92) and are in it still at its load of cons_tail
\* (line 93), as one slot is kept free and the mask loses nothing.  So a count made
\* while nothing is published, as eth_write's under writer_lock, or while nothing is
\* dequeued, as the consumer's own, is exact, and any other is too low.  The exception
\* is a consumer that has released an item published since the first load: the masked
\* difference is then negative and wraps around.
CountOfWaiting == npc = "load_cons" /\ left >= 0 => Count(nprod, cons_tail) = left

\* The queue as its users see it: an enqueue takes effect when prod_tail is
\* put, a dequeue when cons_head is put.
Contents == [i \in 1 .. Distance(cons_head, prod_tail) |-> slots[Index(cons_head + i - 1)]]
Taken == IF cpc = "load" THEN slots[Index(chead)] ELSE result

Fifo == INSTANCE FifoQueue WITH q <- Contents, out <- Taken, Capacity <- Size - 1

\* Whatever the interleaving of enqueues and dequeues, the ring behaves as a
\* first-in first-out queue: no item is lost, duplicated, torn or reordered.
ImplementsFifo == Fifo!Spec

\* Every enqueue call returns: the spins on prod_tail (sim_tailq.c:146) and on
\* a failed compare-and-swap end, whoever the other producers are.
EnqueueReturns == \A p \in Producers : pc[p] # "idle" ~> pc[p] = "idle"

\* The position n has been published and the consumer has not taken its item.
Untaken(n) == Distance(cons_head, n) < Distance(cons_head, prod_tail)

\* Every published item is taken by the consumer, unless the queue is destroyed,
\* wherever on the ring of words its position lies.
PublishedIsTaken ==
  \A n \in 0 .. Word - 1 : Untaken(n) ~> ~Untaken(n) \/ life = "destroyed"

\* sim_tailq_destroy frees the items that are in the queue ("Destroy should call
\* callback for each item") and nothing else.
\* The code does not satisfy this; README.md has the behaviour.
DestroyFreesQueued ==
  life = "destroyed" => freed = {Index(cons_head + k) : k \in 0 .. Distance(cons_head, prod_tail) - 1}
=============================================================================
