------------------------------ MODULE FifoQueue ------------------------------
(***************************************************************************)
(* What sim_tailq promises its users (src/include/sim_tailq.h): a bounded  *)
(* first-in first-out queue with any number of producers and one consumer. *)
(* Every operation takes effect in one step.                               *)
(***************************************************************************)
EXTENDS Naturals, Sequences

CONSTANTS Item,      \* the pointers that may be queued
          NoItem,    \* NULL, what dequeue returns when the queue is empty
          Capacity   \* how many items the queue holds at most

VARIABLES q,         \* the queued items, oldest first
          out        \* the result of the consumer's latest dequeue

Init == q = <<>> /\ out = NoItem

Put(v) ==
  /\ Len(q) < Capacity
  /\ q' = Append(q, v)
  /\ UNCHANGED out

Take ==
  /\ q # <<>>
  /\ out' = Head(q)
  /\ q' = Tail(q)

TakeNothing ==
  /\ q = <<>>
  /\ out' = NoItem
  /\ UNCHANGED q

Next == (\E v \in Item : Put(v)) \/ Take \/ TakeNothing

Spec == Init /\ [][Next]_<<q, out>>
=============================================================================
