---------------------------- MODULE MCEthThreads -----------------------------
(* EthThreads for the bounds that the configurations eth_*.cfg choose.     *)
EXTENDS EthThreads
=============================================================================
