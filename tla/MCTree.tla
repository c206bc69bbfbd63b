------------------------------- MODULE MCTree -------------------------------
(***************************************************************************)
(* Small block trees.  A block is named by its branch and its height; it   *)
(* pays its miner one commitment, in a coinbase transaction, both named    *)
(* after the block.  Payments are the other transactions.                  *)
(***************************************************************************)
EXTENDS BlockTree, TLC

CONSTANT Payments

Payment(ins, outs, fee, source) ==
    [ins |-> ins, outs |-> outs, fee |-> fee, source |-> source]

-----------------------------------------------------------------------------
(***************************************************************************)
(*   g -- c1 -- a2 -- a3           a3: t1 spends c1                        *)
(*          |      \- b3                                                   *)
(*           \- d2 -- d3 -- d4     d3: t1,  d4: t3 spends d2               *)
(*                                                                         *)
(* t2 is a rival of t1 for the coinbase c1, t3 spends the coinbase of d2   *)
(* and t4 the output of t1.  By the order of the hashes b3 wins over a3,   *)
(* d2 and d3 over a2, and d4 over them all: a node on a3 that sees b3, or  *)
(* one on a2 that sees d3, gives up its tip, and one on a3 that sees d4    *)
(* has two blocks to give up.                                              *)
(***************************************************************************)
ForkBlocks == {"g", "c1", "a2", "a3", "b3", "d2", "d3", "d4"}
ForkPrev == "g" :> "g" @@ "c1" :> "g" @@ "a2" :> "c1" @@ "a3" :> "a2" @@ "b3" :> "a2"
            @@ "d2" :> "c1" @@ "d3" :> "d2" @@ "d4" :> "d3"
ForkRank == "g" :> 0 @@ "c1" :> 1 @@ "a2" :> 7 @@ "a3" :> 4 @@ "b3" :> 3
            @@ "d2" :> 5 @@ "d3" :> 6 @@ "d4" :> 2
ForkPayments ==
    "t1" :> Payment({"c1"}, {"x"}, 1, 1) @@ "t2" :> Payment({"c1"}, {"y"}, 2, 1)
    @@ "t3" :> Payment({"d2"}, {"z"}, 1, 2) @@ "t4" :> Payment({"x"}, {"w"}, 3, 3)
ForkContents ==
    [b \in ForkBlocks |-> CASE b = "g" -> {}
                            [] b = "a3" -> {"a3", "t1"}
                            [] b = "d3" -> {"d3", "t1"}
                            [] b = "d4" -> {"d4", "t3"}
                            [] OTHER -> {b}]

-----------------------------------------------------------------------------
(***************************************************************************)
(* What the tables say, as the constants of BlockTree.  The result of @@   *)
(* is a table, not a rule TLC applies at every use, and a constant that is *)
(* given the name of a definition below, which names another, is computed  *)
(* once.                                                                   *)
(***************************************************************************)
Tabulated(f) == f @@ [x \in {} |-> x]

UnitWork == [b \in Block |-> 1]

Heights ==
    LET height[b \in Block] == IF b = Genesis THEN 0 ELSE height[Prev[b]] + 1
    IN  Tabulated([b \in Block |-> height[b]])

Branches ==
    LET ancestor[b \in Block, h \in 0..Cardinality(Block)] ==
            IF h = Heights[b] THEN b ELSE ancestor[Prev[b], h]
    IN  Tabulated([b \in Block |-> Tabulated([h \in 0..Heights[b] |-> ancestor[b, h]])])

Mined == Block \ {Genesis}
Transactions == Mined \cup DOMAIN Payments
Commitments == Mined \cup UNION {Payments[t].outs : t \in DOMAIN Payments}
Inputs == Tabulated([t \in Transactions |-> IF t \in Mined THEN {} ELSE Payments[t].ins])
Outputs == Tabulated([t \in Transactions |-> IF t \in Mined THEN {t} ELSE Payments[t].outs])
Fees == Tabulated([t \in Transactions |-> IF t \in Mined THEN 0 ELSE Payments[t].fee])
Sources == Tabulated([t \in Transactions |-> Tabulated([c \in Commitments |->
              IF t \in Mined THEN 0 ELSE Payments[t].source])])

Utxos ==
    LET after[b \in Block] ==
            IF b = Genesis THEN {} ELSE SpendAndCreate(after[Prev[b]], b)
    IN  Tabulated([b \in Block |-> after[b]])

Indexes ==
    LET after[b \in Block] ==
            IF b = Genesis THEN [c \in Commitment |-> NotIndexed]
            ELSE IndexBlock(after[Prev[b]], b)
    IN  Tabulated([b \in Block |-> Tabulated([c \in Commitment |-> after[b][c]])])

TreeHeight == Heights
TreeBranch == Branches
TableTxs == Transactions
TableCommitments == Commitments
TableIns == Inputs
TableOuts == Outputs
TableFee == Fees
TableSource == Sources
ReplayUtxos == Utxos
ReplayIndex == Indexes
=============================================================================
