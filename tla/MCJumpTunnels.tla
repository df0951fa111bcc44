--------------------------- MODULE MCJumpTunnels ---------------------------
(* JumpTunnels for TLC: every chain has two hops. *)
EXTENDS JumpTunnels

CONSTANTS MCHops  \* jump hops of every chain

MCChainLen == [s \in Sigs |-> MCHops]
=============================================================================
