---------------------------- MODULE MCChainState ----------------------------
(***************************************************************************)
(* ChainState where every block is honest: valid on its parent, with       *)
(* source heights that name its own branch.                                *)
(***************************************************************************)
EXTENDS MCChain, ChainRefinement

ASSUME HonestTree /\ OutputsBornOnce /\ OnlyCoinbasesLackInputs
=============================================================================
