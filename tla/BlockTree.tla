------------------------------ MODULE BlockTree ------------------------------
(***************************************************************************)
(* The blocks and transactions a Pluribit node can meet, as constant data. *)
(*                                                                         *)
(* A block or a transaction is its hash: equal hashes are equal values and *)
(* two contents never collide.  What a block carries is given by functions *)
(* on blocks.  Everything that add_block can decide from the block and its *)
(* branch alone (Merkle root, timestamps, VRF, VDF, epoch parameters,      *)
(* kernel signatures, range proofs and the Mimblewimble balance) is one    *)
(* bit, membership in Sound.  What it decides from the ledger (inputs are  *)
(* unspent, coinbases are mature) is not in that bit: ChainState computes  *)
(* it.                                                                     *)
(*                                                                         *)
(* UtxoAfter and IndexAfter are the ledger a replay from genesis yields.   *)
(* They are constants tied down by one equation per block, and so is       *)
(* Branch; the model modules define all three by recursion and TLC checks  *)
(* the equations.                                                          *)
(***************************************************************************)
EXTENDS Integers, FiniteSets, FiniteSetsExt

CONSTANTS
    Block,             \* block hashes the network can deliver
    Genesis,           \* Block::genesis(), the root of every branch
    Prev,              \* Prev[b]: Block.prev_hash
    Height,            \* Height[b]: Block.height
    Branch,            \* Branch[b][h]: the ancestor of b at height h
    Work,              \* Work[b]: get_chain_work(&[b])
    HashRank,          \* the lexicographic order of the hashes, as a number
    Sound,             \* the blocks whose own proofs and balance verify
    Tx,                \* transactions, coinbases included
    BlockTxs,          \* BlockTxs[b]: Block.transactions
    Commitment,        \* output commitments
    TxIns,             \* TxIns[t]: commitments of Transaction.inputs
    TxOuts,            \* TxOuts[t]: commitments of Transaction.outputs
    TxFee,             \* TxFee[t]: Transaction::total_fee
    SourceHeight,      \* SourceHeight[t][c]: TransactionInput.source_height
    COINBASE_MATURITY, \* blocks before a coinbase may be spent
    UtxoAfter,         \* UtxoAfter[b]: unspent outputs after replaying b
    IndexAfter         \* IndexAfter[b]: live coinbase outputs after b

(***************************************************************************)
(* A commitment that COINBASE_INDEX does not hold.  Genesis has no         *)
(* transactions, so no coinbase is born at height 0.                       *)
(***************************************************************************)
NotIndexed == 0

IsCoinbase(t) == TxIns[t] = {} /\ TxFee[t] = 0

BlockIns(b) == UNION {TxIns[t] : t \in BlockTxs[b]}
BlockOuts(b) == UNION {TxOuts[t] : t \in BlockTxs[b]}
CoinbaseOuts(b) == UNION {TxOuts[t] : t \in {t \in BlockTxs[b] : IsCoinbase(t)}}

(***************************************************************************)
(* The test atomic_reorg makes when it puts a spent output back: unlike    *)
(* IsCoinbase it does not look at the fee.                                 *)
(***************************************************************************)
InputlessOuts(b) == UNION {TxOuts[t] : t \in {t \in BlockTxs[b] : TxIns[t] = {}}}

TotalWork(blocks) == MapThenSumSet(LAMBDA b : Work[b], blocks)
TotalFee(txs) == MapThenSumSet(LAMBDA t : TxFee[t], txs)

(***************************************************************************)
(* Removing what b spends and adding what it creates: the ledger effect    *)
(* shared by add_block, force_reset_to_height and the attach half of       *)
(* atomic_reorg.                                                           *)
(***************************************************************************)
SpendAndCreate(utxos, b) == (utxos \ BlockIns(b)) \cup BlockOuts(b)

IndexBlock(index, b) ==
    [c \in Commitment |-> IF c \in CoinbaseOuts(b) THEN Height[b]
                          ELSE IF c \in BlockIns(b) THEN NotIndexed
                          ELSE index[c]]

-----------------------------------------------------------------------------
ASSUME TreeAssumption ==
    /\ IsFiniteSet(Block)
    /\ Genesis \in Block
    /\ Prev \in [Block -> Block]
    /\ Height \in [Block -> Nat]
    /\ \A b \in Block : Height[b] = 0 <=> b = Genesis
    /\ \A b \in Block \ {Genesis} : Height[b] = Height[Prev[b]] + 1
    /\ Work \in [Block -> Nat \ {0}]
    /\ HashRank \in [Block -> Nat]
    /\ \A a, b \in Block : HashRank[a] = HashRank[b] => a = b
    /\ Sound \subseteq Block \ {Genesis}
    /\ COINBASE_MATURITY \in Nat

(***************************************************************************)
(* A branch ends in its block and is the branch of its parent below it.    *)
(***************************************************************************)
ASSUME BranchAssumption ==
    /\ DOMAIN Branch = Block
    /\ \A b \in Block :
          Branch[b] = [h \in 0..Height[b] |->
                         IF h = Height[b] THEN b ELSE Branch[Prev[b]][h]]

ASSUME TxAssumption ==
    /\ IsFiniteSet(Tx)
    /\ BlockTxs \in [Block -> SUBSET Tx]
    /\ BlockTxs[Genesis] = {}
    /\ TxIns \in [Tx -> SUBSET Commitment]
    /\ TxOuts \in [Tx -> SUBSET Commitment]
    /\ TxFee \in [Tx -> Nat]
    /\ SourceHeight \in [Tx -> [Commitment -> Nat]]

ASSUME ReplayAssumption ==
    /\ UtxoAfter \in [Block -> SUBSET Commitment]
    /\ IndexAfter \in [Block -> [Commitment -> Nat]]
    /\ UtxoAfter[Genesis] = {}
    /\ IndexAfter[Genesis] = [c \in Commitment |-> NotIndexed]
    /\ \A b \in Block \ {Genesis} :
          /\ UtxoAfter[b] = SpendAndCreate(UtxoAfter[Prev[b]], b)
          /\ IndexAfter[b] = IndexBlock(IndexAfter[Prev[b]], b)

-----------------------------------------------------------------------------
(***************************************************************************)
(* A block that is valid where it stands: what add_block would say of it   *)
(* on top of its own parent.                                               *)
(***************************************************************************)
Mature(index, h, c) ==
    index[c] # NotIndexed => h >= index[c] + COINBASE_MATURITY

ValidOnParent(b) ==
    /\ b \in Sound
    /\ BlockIns(b) \subseteq UtxoAfter[Prev[b]]
    /\ \A c \in BlockIns(b) : Mature(IndexAfter[Prev[b]], Height[b], c)

(***************************************************************************)
(* Commitments are random points: no two live outputs share one, and a     *)
(* block that spends what it creates does not verify (cut-through leaves   *)
(* it without a range proof).                                              *)
(***************************************************************************)
FreshOutputs(b) ==
    /\ BlockOuts(b) \cap UtxoAfter[Prev[b]] = {}
    /\ BlockOuts(b) \cap BlockIns(b) = {}

(***************************************************************************)
(* The source heights in b's inputs name the blocks of b's own branch that *)
(* created them.  Nothing in add_block checks this: a wallet writes the    *)
(* height at which it saw the output.                                      *)
(***************************************************************************)
SourcesOnBranch(b) ==
    \A t \in BlockTxs[b] : \A c \in TxIns[t] :
        /\ SourceHeight[t][c] < Height[b]
        /\ c \in BlockOuts(Branch[b][SourceHeight[t][c]])

(***************************************************************************)
(* The same over the whole branch: no two blocks of it create one          *)
(* commitment, not even after the first was spent.                         *)
(***************************************************************************)
OutputsBornOnce ==
    \A b \in Block : \A h, k \in 0..Height[b] :
        h # k => BlockOuts(Branch[b][h]) \cap BlockOuts(Branch[b][k]) = {}

(***************************************************************************)
(* A miner takes transactions from the pool, which admits none without     *)
(* inputs: the only one without inputs in a block is the coinbase, which   *)
(* pays no fee.                                                            *)
(***************************************************************************)
OnlyCoinbasesLackInputs ==
    \A b \in Block : \A t \in BlockTxs[b] : TxIns[t] = {} => IsCoinbase(t)

ValidTree ==
    \A b \in Block \ {Genesis} : ValidOnParent(b) /\ FreshOutputs(b)

HonestTree ==
    /\ ValidTree
    /\ \A b \in Block \ {Genesis} : SourcesOnBranch(b)
=============================================================================
