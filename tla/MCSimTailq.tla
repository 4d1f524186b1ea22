----------------------------- MODULE MCSimTailq ------------------------------
(* SimTailq with two producers on a ring of four slots. No symmetry: the run *)
(* checks liveness too.                                                      *)
EXTENDS UnwrappedTailq
=============================================================================
