---------------------------- MODULE MCEventQueue -----------------------------
(* EventQueue with units that are interchangeable.                         *)
EXTENDS EventQueue, TLC

\* Times just before and just after the present.
Nearby == {-2, 2}

\* Waits that include a negative one.
SignedDelay == {-1, 2}

Symmetry == Permutations(Unit)
=============================================================================
