---------------------------- MODULE MCBlockFetch ----------------------------
(***************************************************************************)
(* BlockFetch with two peers.                                              *)
(***************************************************************************)
EXTENDS BlockFetch

TwoPeers == <<1, 2>>
=============================================================================
