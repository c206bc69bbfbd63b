------------------------------ MODULE MCWallet ------------------------------
(***************************************************************************)
(* The tree of blocks of MCTree, as this wallet sees it:                   *)
(*                                                                         *)
(*   g -- c1 -- a2 -- a3           a3: t1 spends c1                        *)
(*          |      \- b3                                                   *)
(*           \- d2 -- d3 -- d4     d4: t1,  r pays the wallet              *)
(*                                                                         *)
(* The wallet mines c1 and d2.  It can spend c1 by t1 or t2, with change   *)
(* of t1 that is its own, and d2 by t3.  r is the payment of a stranger.   *)
(***************************************************************************)
EXTENDS Wallet, MCTree

WalletPayments ==
    "t1" :> Payment({"c1"}, {"x", "change"}, 1, 1)
    @@ "t2" :> Payment({"c1"}, {"y"}, 2, 1)
    @@ "t3" :> Payment({"d2"}, {"z"}, 1, 2)
    @@ "r" :> Payment({"d3"}, {"gift"}, 3, 3)
WalletBlocks ==
    [b \in ForkBlocks |-> CASE b = "g" -> {}
                            [] b = "a3" -> {"a3", "t1"}
                            [] b = "d4" -> {"d4", "t1", "r"}
                            [] OTHER -> {b}]
WalletCoins == {"c1", "d2", "change", "gift"}

(***************************************************************************)
(* The hypotheses of the theorems about replays.                           *)
(***************************************************************************)
ASSUME OutputsBornOnce /\ OnlyOwnersSpend
=============================================================================
