---------------------------- MODULE MCProducers ----------------------------
(* A peer with no block that makes one, beside a miner that finds one; and   *)
(* a pruned peer with two blocks.                                            *)
EXTENDS Producers, TLC

MCPeerStarts ==
  {[tip |-> 0, root |-> 0, limit |-> 1, pulses |-> 0, garbled |-> FALSE],
   [tip |-> 2, root |-> 1, limit |-> 2, pulses |-> 1, garbled |-> TRUE]}
=============================================================================
