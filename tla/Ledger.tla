------------------------------- MODULE Ledger -------------------------------
(***************************************************************************)
(* What the chain state promises to the wallets, the miner and the         *)
(* explorer: at every moment there is one chain, its unspent outputs are   *)
(* the replay of that chain and its work is the work of that chain.  The   *)
(* chain grows by a valid block, or gives up its last block for a branch   *)
(* that grows from the same parent, and in either case everything moves at *)
(* once.                                                                   *)
(***************************************************************************)
EXTENDS Integers

CONSTANTS
    Block, Genesis, Prev, Height, Branch,
    ValidBlocks,    \* the blocks that are valid on their parent
    OutputsAfter,   \* OutputsAfter[b]: unspent outputs of the chain ending in b
    WorkAfter       \* WorkAfter[b]: work of the chain ending in b

VARIABLES tip, utxos, work

MoveTo(b) == tip' = b /\ utxos' = OutputsAfter[b] /\ work' = WorkAfter[b]

Extend(b) == b # Genesis /\ Prev[b] = tip /\ b \in ValidBlocks /\ MoveTo(b)

(***************************************************************************)
(* A switch to another branch takes exactly the tip away: the branch of b  *)
(* leaves the chain at the parent of the tip.                              *)
(***************************************************************************)
OnOtherBranch(b) ==
    /\ tip # Genesis /\ Height[b] >= Height[tip]
    /\ Branch[b][Height[tip] - 1] = Prev[tip]
    /\ Branch[b][Height[tip]] # tip

Reorganise(b) == OnOtherBranch(b) /\ MoveTo(b)

LedgerInit ==
    tip = Genesis /\ utxos = OutputsAfter[Genesis] /\ work = WorkAfter[Genesis]

LedgerNext == \E b \in Block : Extend(b) \/ Reorganise(b)

LedgerSpec == LedgerInit /\ [][LedgerNext]_<<tip, utxos, work>>
=============================================================================
