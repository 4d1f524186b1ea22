--------------------------- MODULE UnwrappedTailq ----------------------------
(***************************************************************************)
(* SimTailq while fewer enqueues have been called than the position word   *)
(* can tell apart: 2^63 with a 64-bit sim_atomic_type_t.                   *)
(***************************************************************************)
EXTENDS SimTailq

ASSUME NoWrapAssumption == 2 * (MaxCalls + Size) <= Word
=============================================================================
