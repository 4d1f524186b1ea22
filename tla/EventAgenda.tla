----------------------------- MODULE EventAgenda -----------------------------
(***************************************************************************)
(* What the event queue package of src/core/scp.c promises a simulator     *)
(* that counts one time unit per instruction: a list of units with the     *)
(* absolute simulated time at which each is due, earliest first, and first *)
(* come first served among units due at the same time.  Time never passes  *)
(* a due unit by, and no call moves a unit it does not name.               *)
(***************************************************************************)
EXTENDS Integers, Sequences

CONSTANTS Unit,
          Wait     \* the waiting periods a call may ask for

VARIABLES now,     \* simulated time
          agenda   \* sequence of [unit, due]

\* s without the entry of u, if it has one.
Without(s, u) ==
  IF \E i \in DOMAIN s : s[i].unit = u
  THEN LET n == CHOOSE i \in DOMAIN s : s[i].unit = u
       IN [i \in 1 .. Len(s) - 1 |-> IF i < n THEN s[i] ELSE s[i + 1]]
  ELSE s

\* s with e behind its first n entries.
With(s, n, e) ==
  [i \in 1 .. Len(s) + 1 |-> IF i <= n THEN s[i] ELSE IF i = n + 1 THEN e ELSE s[i - 1]]

Init == now = 0 /\ agenda = <<>>

Tick ==
  /\ agenda # <<>> => now < agenda[1].due
  /\ now' = now + 1
  /\ UNCHANGED agenda

\* u comes after exactly the entries that are due no later.
Schedule(u, wait) ==
  LET others == Without(agenda, u)
      due == now + wait
  IN /\ \E n \in 0 .. Len(others) :
          /\ \A i \in 1 .. Len(others) : others[i].due <= due <=> i <= n
          /\ agenda' = With(others, n, [unit |-> u, due |-> due])
     /\ UNCHANGED now

Unschedule(u) == agenda' = Without(agenda, u) /\ UNCHANGED now

Fire ==
  /\ agenda # <<>> /\ agenda[1].due = now
  /\ agenda' = Tail(agenda)
  /\ UNCHANGED now

Next ==
  \/ Tick
  \/ Fire
  \/ \E u \in Unit : Unschedule(u) \/ \E wait \in Wait : Schedule(u, wait)

Spec == Init /\ [][Next]_<<now, agenda>>
=============================================================================
