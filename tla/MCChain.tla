------------------------------- MODULE MCChain -------------------------------
(***************************************************************************)
(* ChainState on the fork of MCTree.                                       *)
(***************************************************************************)
EXTENDS ChainState, MCTree

(***************************************************************************)
(* A miner whose block "b3" does not verify.                               *)
(***************************************************************************)
AllButB3 == Mined \ {"b3"}
=============================================================================
