----------------------------- MODULE MCTmxrLine -----------------------------
(* A line with a six-byte buffer, a two-byte message and a guard of two:   *)
(* three bytes of history fit beside the message, seven overflow the ring. *)
EXTENDS TmxrLine

const_Size == 6
const_Guard == 2
const_MsgLen == 2
=============================================================================
