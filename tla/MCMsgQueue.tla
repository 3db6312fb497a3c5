---------------------------- MODULE MCMsgQueue ----------------------------
(* Instances of MsgQueue for TLC: one thread (the world thread runs every     *)
(* coroutine) and two (the world thread and asio's, or the console's).        *)
EXTENDS MsgQueue, TLC

Symmetry == Permutations(Threads) \cup Permutations(Consumers)
=============================================================================
