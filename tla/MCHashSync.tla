----------------------------- MODULE MCHashSync -----------------------------
(***************************************************************************)
(* HashSync with two peers and two branches:                               *)
(*                                                                         *)
(*   g -- c1 -- a2 -- a3                                                   *)
(*           \- b2 -- b3 -- b4                                             *)
(***************************************************************************)
EXTENDS HashSync, TLC

TwoPeers == <<1, 2>>
Tree == "g" :> <<"g">> @@ "c1" :> <<"g", "c1">>
        @@ "a2" :> <<"g", "c1", "a2">> @@ "a3" :> <<"g", "c1", "a2", "a3">>
        @@ "b2" :> <<"g", "c1", "b2">> @@ "b3" :> <<"g", "c1", "b2", "b3">>
        @@ "b4" :> <<"g", "c1", "b2", "b3", "b4">>
TreeHeight == [b \in Block |-> Len(Tree[b]) - 1]
TreePrev == [b \in Block |-> IF b = Genesis THEN b ELSE Tree[b][Len(Tree[b]) - 1]]
TreeBranch == [b \in Block |-> [h \in 0..TreeHeight[b] |-> Tree[b][h + 1]]]
=============================================================================
