---------------------------- MODULE MCAsynchQueue ----------------------------
(* AsynchQueue with units that are interchangeable.                        *)
EXTENDS AsynchQueue, TLC

Symmetry == Permutations(Unit)
=============================================================================
