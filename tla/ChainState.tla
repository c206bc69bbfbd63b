------------------------------ MODULE ChainState ------------------------------
(***************************************************************************)
(* The chain state of one node: the Rust core (src/lib.rs,                 *)
(* src/blockchain.rs) and the RocksDB keys it writes (native/src/db.rs).   *)
(*                                                                         *)
(* A wasm call runs to its end before the worker sees anything else, so    *)
(* between two calls only the worker's own awaits let another operation    *)
(* in.  A crash can strike between any two writes to the database; the     *)
(* calls that write more than one key are cut there.  UTXO_SET and its     *)
(* database copy are written together, entry by entry, and are one         *)
(* variable here.  Within one block its entries are written as one step.   *)
(***************************************************************************)
EXTENDS BlockTree, Sequences

CONSTANTS
    MAX_SIDE_BLOCKS,   \* capacity of the SIDE_BLOCKS cache
    MAX_TX_POOL_SIZE,  \* capacity of the mempool
    MaxPlans,          \* bound: plans that wait for the miner to stop
    MaxCrashes         \* bound: crashes in a behaviour

ASSUME BoundAssumption ==
    /\ MAX_SIDE_BLOCKS \in Nat \ {0}
    /\ MAX_TX_POOL_SIZE \in Nat
    /\ MaxPlans \in Nat
    /\ MaxCrashes \in Nat

VARIABLES
    \* memory of the Rust core
    tip_hash, current_height, total_work,
    utxo_set,          \* UTXO_SET and the utxo: keys of the database
    coinbase_index, side_blocks, pending, fee_total,
    \* the database
    height_index,      \* the height: keys, a function on 0..tip
    tip_height,        \* meta:tip_height
    block_store,       \* the block: keys
    db_coinbase, db_total_work, reorg_marker,
    \* control
    pc,                \* what the node is doing
    job,               \* the block or the reorganisation it does it to
    plans,             \* plans computed and not yet applied
    crashes            \* bound counter

memory == <<tip_hash, current_height, total_work>>
ledger == <<utxo_set, coinbase_index, db_coinbase>>
pool == <<pending, fee_total>>
disk == <<height_index, tip_height, block_store, db_total_work>>
control == <<plans, crashes>>
vars == <<memory, ledger, pool, side_blocks, disk, reorg_marker, pc, job, control>>

-----------------------------------------------------------------------------
(***************************************************************************)
(* A plan as atomic_reorg uses it: the detach list is the branch of old    *)
(* above ancestor, the attach list the branch of new above ancestor.       *)
(***************************************************************************)
Plan == [ancestor : Nat, old : Block, new : Block]

(***************************************************************************)
(* The operation in progress.  "new" is the block it is about; the other   *)
(* fields are those of a reorganisation: "ancestor" the height it detaches *)
(* down to, "from" the height on the branch of new that it attaches above, *)
(* "at" the working_height and "work" the total_work of ReorgChanges.      *)
(***************************************************************************)
Job == [ancestor : Nat, from : Nat, new : Block, at : Nat, work : Nat]

NoJob == [ancestor |-> 0, from |-> 0, new |-> Genesis, at |-> 0, work |-> 0]

OnBlock(b) == [NoJob EXCEPT !.new = b]

PCs == {"idle", "plan", "save_block", "save_work",
        "detach_utxos", "attach_utxos", "detach_coinbases", "attach_coinbases",
        "commit", "save_reorg_work", "clear_marker", "down"}

SideSet == {side_blocks[i] : i \in 1..Len(side_blocks)}

Available(b) == b \in SideSet \/ b \in block_store

(***************************************************************************)
(* The pool without the transactions a new block settles: the included     *)
(* ones and those whose inputs are gone.                                   *)
(***************************************************************************)
Hygiene(txs, b, utxos) ==
    {t \in txs : t \notin BlockTxs[b] /\ TxIns[t] \subseteq utxos}

-----------------------------------------------------------------------------
(***************************************************************************)
(* init_blockchain_from_db on an empty database: genesis is saved and the  *)
(* state is Blockchain::new().                                             *)
(***************************************************************************)
Init ==
    /\ tip_hash = Genesis /\ current_height = 0 /\ total_work = 0
    /\ utxo_set = {}
    /\ coinbase_index = [c \in Commitment |-> NotIndexed]
    /\ side_blocks = <<>>
    /\ pending = {} /\ fee_total = 0
    /\ height_index = [h \in {0} |-> Genesis]
    /\ tip_height = 0
    /\ block_store = {Genesis}
    /\ db_coinbase = [c \in Commitment |-> NotIndexed]
    /\ db_total_work = 0
    /\ reorg_marker = FALSE
    /\ pc = "idle" /\ job = NoJob
    /\ plans = {} /\ crashes = 0

-----------------------------------------------------------------------------
(* ingest_block_bytes *)

(***************************************************************************)
(* The fast path of validate_block_for_ingestion.  (Mutant NextHeight: the *)
(* parent hash is not compared.)                                           *)
(***************************************************************************)
NextHeight(b) == Height[b] = current_height + 1

ExtendsTip(b) == Height[b] = current_height + 1 /\ Prev[b] = tip_hash

(***************************************************************************)
(* add_block accepts b: its proofs verify, its inputs are unspent and its  *)
(* coinbase inputs are mature.                                             *)
(***************************************************************************)
Acceptable(b) ==
    /\ b \in Sound
    /\ BlockIns(b) \subseteq utxo_set
    /\ \A c \in BlockIns(b) : Mature(coinbase_index, Height[b], c)

(***************************************************************************)
(* The fast path: add_block changes the ledger, the tip and the pool.  A   *)
(* spent coinbase leaves COINBASE_INDEX but not its database copy.         *)
(***************************************************************************)
ExtendCanonical(b) ==
    /\ pc = "idle"
    /\ ExtendsTip(b) /\ Acceptable(b)
    /\ utxo_set' = SpendAndCreate(utxo_set, b)
    /\ coinbase_index' = IndexBlock(coinbase_index, b)
    /\ db_coinbase' = [c \in Commitment |->
          IF c \in CoinbaseOuts(b) THEN Height[b] ELSE db_coinbase[c]]
    /\ tip_hash' = b
    /\ current_height' = current_height + 1
    /\ total_work' = total_work + Work[b]
    /\ pending' = Hygiene(pending, b, utxo_set')
    /\ fee_total' = TotalFee(pending')
    /\ pc' = "save_block" /\ job' = OnBlock(b)
    /\ UNCHANGED <<side_blocks, disk, reorg_marker, control>>

(***************************************************************************)
(* meta:tip_height after a block is saved at height h: it never goes down. *)
(* (Mutant KeptTip: off by one.)                                           *)
(***************************************************************************)
KeptTip(h) == IF h > tip_height + 1 THEN h ELSE tip_height

NewTip(h) == IF h >= tip_height THEN h ELSE tip_height

(***************************************************************************)
(* save_block: one batch writes the block, its height key and the tip.     *)
(***************************************************************************)
SaveBlock ==
    /\ pc = "save_block"
    /\ LET b == job.new IN
       /\ height_index' = [h \in DOMAIN height_index \cup {Height[b]} |->
                             IF h = Height[b] THEN b ELSE height_index[h]]
       /\ tip_height' = NewTip(Height[b])
       /\ block_store' = block_store \cup {b}
    /\ pc' = "save_work"
    /\ UNCHANGED <<memory, ledger, pool, side_blocks, db_total_work, reorg_marker,
                   job, control>>

(***************************************************************************)
(* save_total_work.  (Mutant SkipTotalWork: the write is forgotten.)       *)
(***************************************************************************)
SkipTotalWork ==
    /\ pc = "save_work"
    /\ pc' = "idle" /\ job' = NoJob
    /\ UNCHANGED <<memory, ledger, pool, side_blocks, disk, reorg_marker, control>>

SaveTotalWork ==
    /\ pc = "save_work"
    /\ db_total_work' = total_work
    /\ pc' = "idle" /\ job' = NoJob
    /\ UNCHANGED <<memory, ledger, pool, side_blocks, height_index, tip_height,
                   block_store, reorg_marker, control>>

(***************************************************************************)
(* store_side_block: first in, first out at capacity; the database copy is *)
(* written by a detached task whose failure is only logged.                *)
(***************************************************************************)
StoreSideBlock(b) ==
    /\ IF b \in SideSet
       THEN UNCHANGED <<side_blocks, block_store>>
       ELSE /\ side_blocks' = Append(IF Len(side_blocks) >= MAX_SIDE_BLOCKS
                                     THEN Tail(side_blocks) ELSE side_blocks, b)
            /\ block_store' \in {block_store, block_store \cup {b}}

IsCanonical(b) == Height[b] \in DOMAIN height_index /\ height_index[Height[b]] = b

ParentKnown(b) == Prev[b] = tip_hash \/ Available(Prev[b])

(***************************************************************************)
(* validate_side_or_orphan: a block at a height the chain has reached is   *)
(* stored whatever its parent, a higher one needs a known parent, and a    *)
(* cached one is stored again.  The worker plans for it at once, except    *)
(* when bootstrapSync only probes the tip of a peer.  Blocks of any height *)
(* come in: handleRemoteBlockDownloaded puts off those above the next      *)
(* height, but bootstrapSync and syncForward pass them on.                 *)
(***************************************************************************)
StoredOnSide(b) ==
    /\ pc = "idle"
    /\ ~ExtendsTip(b) /\ ~IsCanonical(b)
    /\ Height[b] \in DOMAIN height_index \/ b \in SideSet \/ ParentKnown(b)
    /\ StoreSideBlock(b)
    /\ \/ pc' = "plan" /\ job' = OnBlock(b)
       \/ UNCHANGED <<pc, job>>
    /\ UNCHANGED <<memory, ledger, pool, height_index, tip_height, db_total_work,
                   reorg_marker, control>>

NeedParent(b) ==
    /\ pc = "idle"
    /\ ~ExtendsTip(b)
    /\ Height[b] \notin DOMAIN height_index
    /\ b \notin SideSet /\ ~ParentKnown(b)
    /\ StoreSideBlock(b)
    /\ UNCHANGED <<memory, ledger, pool, height_index, tip_height, db_total_work,
                   reorg_marker, pc, job, control>>

-----------------------------------------------------------------------------
(* plan_reorg_for_tip *)

(***************************************************************************)
(* The highest canonical block on the branch of t, below t.  (Mutant       *)
(* AnyCommonBlock: the walk down does not stop at the first one.)          *)
(***************************************************************************)
AnyCommonBlock(t, a) ==
    a < Height[t] /\ a <= current_height /\ height_index[a] = Branch[t][a]

IsForkPoint(t, a) ==
    /\ a < Height[t] /\ a <= current_height
    /\ height_index[a] = Branch[t][a]
    /\ \A h \in (a + 1)..current_height :
          h <= Height[t] => height_index[h] # Branch[t][h]

ForkPath(t, a) == {Branch[t][h] : h \in (a + 1)..Height[t]}

DetachSegment(a) == {height_index[h] : h \in (a + 1)..current_height}

(***************************************************************************)
(* calculate_ghost_weight: the work of x and of every known block that     *)
(* hangs below it through known blocks.                                    *)
(***************************************************************************)
Subtree(x, known) ==
    {x} \cup {y \in known :
                 /\ Height[y] > Height[x]
                 /\ Branch[y][Height[x]] = x
                 /\ \A h \in (Height[x] + 1)..Height[y] : Branch[y][h] \in known}

GhostWeight(x, known) == TotalWork(Subtree(x, known))

(***************************************************************************)
(* The fork choice.  It weighs the subtree of the candidate TIP against    *)
(* the subtree of the canonical TIP, and breaks a tie by the smaller hash. *)
(* (Mutant LongestChain: the fork choice of the original Bitcoin.)         *)
(***************************************************************************)
LongestChain(t, a) == Height[t] > current_height

ShouldSwitch(t, a) ==
    LET known == ForkPath(t, a) \cup DetachSegment(a) \cup SideSet
        fork == GhostWeight(t, known)
        canon == GhostWeight(tip_hash, known)
    IN  \/ fork > canon
        \/ fork = canon /\ HashRank[t] < HashRank[tip_hash]

(***************************************************************************)
(* The plan switches when every block of the fork is at hand and the fork  *)
(* wins.  Otherwise the worker asks for the missing parent or does nothing.*)
(***************************************************************************)
SwitchesAt(t, a) ==
    /\ IsForkPoint(t, a)
    /\ \A b \in ForkPath(t, a) : Available(b)
    /\ ShouldSwitch(t, a)

PlanSwitch ==
    /\ pc = "plan"
    /\ \E a \in 0..current_height :
          /\ SwitchesAt(job.new, a)
          /\ plans' = plans \cup {[ancestor |-> a, old |-> tip_hash, new |-> job.new]}
    /\ pc' = "idle" /\ job' = NoJob
    /\ UNCHANGED <<memory, ledger, pool, side_blocks, disk, reorg_marker, crashes>>

PlanKeep ==
    /\ pc = "plan"
    /\ \A a \in 0..current_height : ~SwitchesAt(job.new, a)
    /\ pc' = "idle" /\ job' = NoJob
    /\ UNCHANGED <<memory, ledger, pool, side_blocks, disk, reorg_marker, control>>

-----------------------------------------------------------------------------
(* atomic_reorg *)

(***************************************************************************)
(* Phase 1.  The plan was made before the worker waited for the miner to   *)
(* stop: the detach list must still be the top of the canonical chain, and *)
(* every attached block and every source block must load.  (Mutant         *)
(* DetachListIsShort: the hashes on the list are not compared.)            *)
(***************************************************************************)
DetachCount(p) == Height[p.old] - p.ancestor

DetachListIsShort(p) == DetachCount(p) <= current_height

DetachListMatches(p) ==
    LET n == DetachCount(p) IN
    /\ n <= current_height
    /\ \A i \in 1..n :
          height_index[current_height - n + i] = Branch[p.old][p.ancestor + i]

PlanFits(p) ==
    /\ DetachListMatches(p)
    /\ \A h \in (p.ancestor + 1)..Height[p.new] : Available(Branch[p.new][h])
    /\ \A h \in (current_height - DetachCount(p) + 1)..current_height :
          \A t \in BlockTxs[height_index[h]] : \A c \in TxIns[t] :
              SourceHeight[t][c] \in DOMAIN height_index

(***************************************************************************)
(* Phase 3 compares every detached block, from the tip down, with          *)
(* working_tip_hash, which is the hash of the tip and is not moved down    *)
(* with working_height: a list of two or more blocks fails at the second.  *)
(***************************************************************************)
OnlyTheTip(p) ==
    \A h \in (current_height - DetachCount(p) + 1)..current_height :
        height_index[h] = tip_hash

(***************************************************************************)
(* Phase 2 puts the marker on disk, Phase 3 checks the detach list and     *)
(* lists the changes; nothing else has changed when it is through.         *)
(***************************************************************************)
BeginReorg(p) ==
    /\ pc = "idle" /\ p \in plans /\ PlanFits(p) /\ OnlyTheTip(p)
    /\ reorg_marker' = TRUE
    /\ job' = [ancestor |-> current_height - DetachCount(p), from |-> p.ancestor,
               new |-> p.new, at |-> current_height, work |-> total_work]
    /\ pc' = IF DetachCount(p) = 0 THEN "attach_utxos" ELSE "detach_utxos"
    /\ plans' = plans \ {p}
    /\ UNCHANGED <<memory, ledger, pool, side_blocks, disk, crashes>>

(***************************************************************************)
(* The two ways out with an error.  Phase 1 returns before the marker is   *)
(* written, Phase 3 after it, and nobody clears it: the recovery of        *)
(* triggerReorgPlan passes the hash property of the block's bytes, which   *)
(* they do not have, to force_reset_to_height, and that throws too.        *)
(***************************************************************************)
RejectPlan(p) ==
    /\ pc = "idle" /\ p \in plans /\ ~PlanFits(p)
    /\ plans' = plans \ {p}
    /\ UNCHANGED <<memory, ledger, pool, side_blocks, disk, reorg_marker, pc, job,
                   crashes>>

RefuseReorg(p) ==
    /\ pc = "idle" /\ p \in plans /\ PlanFits(p) /\ ~OnlyTheTip(p)
    /\ reorg_marker' = TRUE
    /\ plans' = plans \ {p}
    /\ UNCHANGED <<memory, ledger, pool, side_blocks, disk, pc, job, crashes>>

(***************************************************************************)
(* What the detach of b puts back: an input is looked up among the outputs *)
(* of the canonical block at its source_height, and is dropped when it is  *)
(* not there.  (Mutant RestoreNothing: the inputs stay spent.)             *)
(***************************************************************************)
RestoreNothing(b) == {}

SourceOf(b, c) == SourceHeight[CHOOSE t \in BlockTxs[b] : c \in TxIns[t]][c]

Restored(b) ==
    {c \in BlockIns(b) : c \in BlockOuts(height_index[SourceOf(b, c)])}

(***************************************************************************)
(* What the detach of b does to the coinbase index: its outputs leave it,  *)
(* and a restored output of an inputless transaction returns to it.        *)
(* (Mutant ForgetOutputs: nothing returns.)                                *)
(***************************************************************************)
ForgetOutputs(index, b) ==
    [c \in Commitment |-> IF c \in BlockOuts(b) THEN NotIndexed ELSE index[c]]

UndoIndex(index, b) ==
    [c \in Commitment |->
        IF c \in Restored(b) /\ c \in InputlessOuts(height_index[SourceOf(b, c)])
        THEN SourceOf(b, c)
        ELSE IF c \in BlockOuts(b) THEN NotIndexed ELSE index[c]]

(***************************************************************************)
(* saturating_sub.  (Mutant KeepAll: the detached work is not subtracted.) *)
(***************************************************************************)
KeepAll(x, y) == x

Minus(x, y) == IF x >= y THEN x - y ELSE 0

(***************************************************************************)
(* Phases 3 and 4.1: the detached blocks from the tip down, then the       *)
(* attached ones, with no validation of any of them.                       *)
(***************************************************************************)
DetachUtxos ==
    /\ pc = "detach_utxos"
    /\ LET b == height_index[job.at] IN
       /\ utxo_set' = (utxo_set \ BlockOuts(b)) \cup Restored(b)
       /\ job' = [job EXCEPT !.at = @ - 1, !.work = Minus(@, Work[b])]
    /\ pc' = IF job'.at = job.ancestor THEN "attach_utxos" ELSE "detach_utxos"
    /\ UNCHANGED <<memory, coinbase_index, db_coinbase, pool, side_blocks, disk,
                   reorg_marker, control>>

(***************************************************************************)
(* The next block of the attach list.  (Mutant FirstAgain: off by one.)    *)
(***************************************************************************)
FirstAgain == Branch[job.new][job.from + (job.at - job.ancestor)]

NextAttached == Branch[job.new][job.from + (job.at - job.ancestor) + 1]

AttachUtxos ==
    /\ pc = "attach_utxos"
    /\ utxo_set' = SpendAndCreate(utxo_set, NextAttached)
    /\ IF NextAttached = job.new
       THEN /\ pc' = IF job.ancestor = current_height THEN "attach_coinbases"
                     ELSE "detach_coinbases"
            /\ job' = [job EXCEPT !.at = current_height,
                                  !.work = @ + Work[NextAttached]]
       ELSE /\ pc' = "attach_utxos"
            /\ job' = [job EXCEPT !.at = @ + 1, !.work = @ + Work[NextAttached]]
    /\ UNCHANGED <<memory, coinbase_index, db_coinbase, pool, side_blocks, disk,
                   reorg_marker, control>>

(***************************************************************************)
(* Phase 4.2: the same walk over COINBASE_INDEX and its database copy.     *)
(***************************************************************************)
DetachCoinbases ==
    /\ pc = "detach_coinbases"
    /\ LET b == height_index[job.at] IN
       /\ coinbase_index' = UndoIndex(coinbase_index, b)
       /\ db_coinbase' = UndoIndex(db_coinbase, b)
    /\ job' = [job EXCEPT !.at = @ - 1]
    /\ pc' = IF job'.at = job.ancestor THEN "attach_coinbases" ELSE "detach_coinbases"
    /\ UNCHANGED <<memory, utxo_set, pool, side_blocks, disk, reorg_marker, control>>

AttachCoinbases ==
    /\ pc = "attach_coinbases"
    /\ coinbase_index' = IndexBlock(coinbase_index, NextAttached)
    /\ db_coinbase' = IndexBlock(db_coinbase, NextAttached)
    /\ job' = [job EXCEPT !.at = @ + 1]
    /\ pc' = IF NextAttached = job.new THEN "commit" ELSE "attach_coinbases"
    /\ UNCHANGED <<memory, utxo_set, pool, side_blocks, disk, reorg_marker, control>>

(***************************************************************************)
(* Phases 4.4 to 5.2: the pool takes the detached transactions back as     *)
(* they are, the metadata moves, and one batch rewrites the height keys,   *)
(* saves the attached blocks, deletes the detached ones and moves the tip. *)
(***************************************************************************)
Detached == {height_index[h] : h \in (job.ancestor + 1)..current_height}
Attached == {Branch[job.new][h] : h \in (job.from + 1)..Height[job.new]}

CommitReorg ==
    /\ pc = "commit"
    /\ pending' = pending \cup
          {t \in UNION {BlockTxs[b] : b \in Detached} : TxIns[t] # {}}
    /\ fee_total' = TotalFee(pending')
    /\ tip_hash' = job.new
    /\ current_height' = job.at
    /\ total_work' = job.work
    /\ height_index' =
          [h \in (DOMAIN height_index \ ((job.ancestor + 1)..current_height))
                 \cup {Height[b] : b \in Attached} |->
             IF \E b \in Attached : Height[b] = h
             THEN Branch[job.new][h] ELSE height_index[h]]
    /\ tip_height' = job.at
    /\ block_store' = (block_store \cup Attached) \ Detached
    /\ pc' = "save_reorg_work"
    /\ UNCHANGED <<ledger, side_blocks, db_total_work, reorg_marker, job, control>>

SaveReorgWork ==
    /\ pc = "save_reorg_work"
    /\ db_total_work' = job.work
    /\ pc' = "clear_marker"
    /\ UNCHANGED <<memory, ledger, pool, side_blocks, height_index, tip_height,
                   block_store, reorg_marker, job, control>>

ClearMarker ==
    /\ pc = "clear_marker"
    /\ reorg_marker' = FALSE
    /\ pc' = "idle" /\ job' = NoJob
    /\ UNCHANGED <<memory, ledger, pool, side_blocks, disk, control>>

-----------------------------------------------------------------------------
(* add_transaction_to_pool *)

(***************************************************************************)
(* The Mimblewimble balance.  A transaction without inputs has nothing to  *)
(* pay its outputs or its fee from: a coinbase sent to the pool does not   *)
(* balance.  Tx holds none without inputs whose outputs and fee are zero.  *)
(***************************************************************************)
Balances(t) == TxIns[t] # {}

Admissible(t) ==
    /\ Balances(t)
    /\ TxIns[t] \subseteq utxo_set
    /\ \A c \in TxIns[t] : Mature(coinbase_index, current_height + 1, c)
    /\ t \notin pending
    /\ \A p \in pending : TxIns[p] \cap TxIns[t] = {}

AddTransaction(t) ==
    /\ pc = "idle" /\ Admissible(t)
    /\ Cardinality(pending) < MAX_TX_POOL_SIZE
    /\ pending' = pending \cup {t}
    /\ fee_total' = fee_total + TxFee[t]
    /\ UNCHANGED <<memory, ledger, side_blocks, disk, reorg_marker, pc, job, control>>

(***************************************************************************)
(* A full pool makes room for a transaction that pays more than its        *)
(* cheapest member.  (Mutant ReplaceUnpaid: the fee of the evicted one     *)
(* stays in the total.)                                                    *)
(***************************************************************************)
ReplaceUnpaid(t) ==
    /\ pc = "idle" /\ Admissible(t)
    /\ Cardinality(pending) >= MAX_TX_POOL_SIZE
    /\ \E low \in pending :
          /\ \A p \in pending : TxFee[low] <= TxFee[p]
          /\ TxFee[t] > TxFee[low]
          /\ pending' = (pending \ {low}) \cup {t}
          /\ fee_total' = fee_total + TxFee[t]
    /\ UNCHANGED <<memory, ledger, side_blocks, disk, reorg_marker, pc, job, control>>

ReplaceCheapest(t) ==
    /\ pc = "idle" /\ Admissible(t)
    /\ Cardinality(pending) >= MAX_TX_POOL_SIZE
    /\ \E low \in pending :
          /\ \A p \in pending : TxFee[low] <= TxFee[p]
          /\ TxFee[t] > TxFee[low]
          /\ pending' = (pending \ {low}) \cup {t}
          /\ fee_total' = fee_total - TxFee[low] + TxFee[t]
    /\ UNCHANGED <<memory, ledger, side_blocks, disk, reorg_marker, pc, job, control>>

-----------------------------------------------------------------------------
(***************************************************************************)
(* The process dies: memory is lost, the database stays as it is.          *)
(***************************************************************************)
Crash ==
    /\ pc # "down" /\ crashes < MaxCrashes
    /\ crashes' = crashes + 1
    /\ pc' = "down" /\ job' = NoJob
    /\ plans' = {} /\ side_blocks' = <<>>
    /\ pending' = {} /\ fee_total' = 0
    /\ UNCHANGED <<memory, ledger, disk, reorg_marker>>

(***************************************************************************)
(* checkAndRecoverFromIncompleteReorg, then init_blockchain_from_db.  With *)
(* a marker on disk the recovery passes the decoded originalTipHeight, a   *)
(* Long object, to loadBlock, which takes a Number, BigInt or String and   *)
(* throws; the error is logged, and neither the ledger nor the marker      *)
(* changes.  The initialisation takes the tip, the total work, the unspent *)
(* outputs and the coinbase index from the database as they are.           *)
(***************************************************************************)
Restart ==
    /\ pc = "down"
    /\ tip_hash' = height_index[tip_height]
    /\ current_height' = Height[tip_hash']
    /\ total_work' = IF tip_height > 0 THEN db_total_work ELSE 0
    /\ coinbase_index' = db_coinbase
    /\ pc' = "idle"
    /\ UNCHANGED <<utxo_set, db_coinbase, pool, side_blocks, disk, reorg_marker, job,
                   control>>

-----------------------------------------------------------------------------
Next ==
    \/ \E b \in Block \ {Genesis} :
          \/ ExtendCanonical(b)
          \/ Cardinality(plans) < MaxPlans /\ StoredOnSide(b)
          \/ NeedParent(b)
    \/ SaveBlock \/ SaveTotalWork
    \/ PlanSwitch \/ PlanKeep
    \/ \E p \in plans : BeginReorg(p) \/ RejectPlan(p) \/ RefuseReorg(p)
    \/ DetachUtxos \/ AttachUtxos \/ DetachCoinbases \/ AttachCoinbases
    \/ CommitReorg \/ SaveReorgWork \/ ClearMarker
    \/ \E t \in Tx : AddTransaction(t) \/ ReplaceCheapest(t)
    \/ Crash \/ Restart

Spec == Init /\ [][Next]_vars

-----------------------------------------------------------------------------
TypeOK ==
    /\ tip_hash \in Block /\ current_height \in Nat /\ total_work \in Nat
    /\ utxo_set \subseteq Commitment
    /\ coinbase_index \in [Commitment -> Nat]
    /\ side_blocks \in Seq(Block)
    /\ pending \subseteq Tx /\ fee_total \in Nat
    /\ tip_height \in Nat
    /\ height_index \in [0..tip_height -> Block]
    /\ block_store \subseteq Block
    /\ db_coinbase \in [Commitment -> Nat] /\ db_total_work \in Nat
    /\ reorg_marker \in BOOLEAN
    /\ pc \in PCs /\ job \in Job
    /\ plans \subseteq Plan
    /\ crashes \in Nat

(***************************************************************************)
(* The database always holds one whole chain from genesis to its tip: the  *)
(* height keys are the branch of the tip and every block of it loads.  The *)
(* batches of save_block and commit_staged_reorg keep this across stale    *)
(* plans and crashes.                                                      *)
(***************************************************************************)
DatabaseHoldsAChain ==
    /\ DOMAIN height_index = 0..tip_height
    /\ height_index = Branch[height_index[tip_height]]
    /\ \A h \in 0..tip_height : height_index[h] \in block_store

(***************************************************************************)
(* When no operation is in progress the core and the database name the     *)
(* same tip at the same height with the same work.                         *)
(***************************************************************************)
MemoryMatchesDatabase ==
    pc \in {"idle", "plan"} =>
        /\ tip_hash = height_index[tip_height]
        /\ current_height = tip_height
        /\ total_work = db_total_work

(***************************************************************************)
(* The unspent outputs are those a replay of the canonical chain yields,   *)
(* whatever sequence of blocks and reorganisations led to it.              *)
(***************************************************************************)
Settled == pc \in {"idle", "plan", "save_block", "save_work", "commit",
                   "save_reorg_work", "clear_marker"}

LedgerTip == IF pc = "commit" THEN job.new ELSE tip_hash

UtxosAreTheReplay == Settled => utxo_set = UtxoAfter[LedgerTip]

(***************************************************************************)
(* The coinbase index is the replay's, so maturity is judged by the right  *)
(* height after any reorganisation; and the database copy, which keeps the *)
(* entries of spent coinbases, agrees with it on every live output.        *)
(***************************************************************************)
CoinbasesAreTheReplay ==
    Settled => /\ coinbase_index = IndexAfter[LedgerTip]
               /\ \A c \in utxo_set : db_coinbase[c] = coinbase_index[c]

(***************************************************************************)
(* total_work, kept by adding and subtracting, is the work of the chain.   *)
(***************************************************************************)
WorkOfBranch(b) == TotalWork({Branch[b][h] : h \in 1..Height[b]})

WorkIsTheReplay == total_work = WorkOfBranch(tip_hash)

(***************************************************************************)
(* Inside a reorganisation the unspent outputs and the working total are   *)
(* those of the block it has reached: the parent of the old tip, then every *)
(* block up the new branch.                                                *)
(***************************************************************************)
Reorganising == pc \in {"detach_utxos", "attach_utxos", "detach_coinbases",
                        "attach_coinbases", "commit"}

Reached == IF pc = "detach_utxos" THEN height_index[job.at]
           ELSE IF pc = "attach_utxos" THEN Branch[job.new][job.at]
           ELSE job.new

ReorgFollowsTheBranches ==
    Reorganising => /\ utxo_set = UtxoAfter[Reached]
                    /\ job.work = WorkOfBranch(Reached)

(***************************************************************************)
(* No plan attaches without detaching: the weight of the canonical tip     *)
(* includes a fork that grows from it.  atomic_reorg relies on it, for its *)
(* only check that a plan is still current is the detach list.             *)
(***************************************************************************)
PlansDetach == \A p \in plans : p.ancestor < Height[p.old]

(***************************************************************************)
(* A reorganisation that begins starts from the tip the plan was made for, *)
(* however long the worker waited for the miner in between.                *)
(***************************************************************************)
ReorgsStartAtThePlannedTip ==
    [][\A p \in plans : BeginReorg(p) => p.old = tip_hash]_vars

(***************************************************************************)
(* fee_total, kept by adding and subtracting on admission and eviction, is *)
(* the sum of the fees in the pool.                                        *)
(***************************************************************************)
FeeTotalIsTheSum == fee_total = TotalFee(pending)

(***************************************************************************)
(* The chain with the most work is chosen (src/README.md:73): a plan for a *)
(* chain with more work than the node's, still current and with every      *)
(* block at hand, is carried out and not dropped.                          *)
(***************************************************************************)
HeavierChainsAreAdopted ==
    [][\A p \in plans :
          /\ pc = "idle" /\ p \notin plans'
          /\ PlanFits(p) /\ WorkOfBranch(p.new) > total_work
          => Reorganising' /\ job'.new = p.new]_vars

(***************************************************************************)
(* Every canonical block is valid on top of its parent.                    *)
(***************************************************************************)
CanonicalBlocksAreValid ==
    \A h \in 1..tip_height : ValidOnParent(height_index[h])

-----------------------------------------------------------------------------
(* The inductive invariant behind DatabaseHoldsAChain. *)

(***************************************************************************)
(* old and new part at height a: they share the block there and no block   *)
(* above it.                                                               *)
(***************************************************************************)
Part(old, new, a) ==
    /\ a < Height[old] /\ a < Height[new]
    /\ Branch[new][a] = Branch[old][a]
    /\ \A h \in (a + 1)..Height[old] :
          h <= Height[new] => Branch[new][h] # Branch[old][h]

TipInMemory ==
    /\ pc \notin {"save_block", "down"} =>
          tip_hash = height_index[tip_height] /\ current_height = tip_height
    /\ pc = "save_block" =>
          /\ job.new = tip_hash /\ tip_hash # Genesis
          /\ Prev[tip_hash] = height_index[tip_height]
          /\ Height[tip_hash] = tip_height + 1
          /\ current_height = tip_height + 1

PlansPart == \A p \in plans : Part(p.old, p.new, p.ancestor)

JobInRange ==
    Reorganising =>
        /\ Part(tip_hash, job.new, job.ancestor)
        /\ job.from = job.ancestor /\ job.ancestor + 1 = current_height
        /\ pc \in {"detach_utxos", "detach_coinbases"} =>
              job.ancestor < job.at /\ job.at <= current_height
        /\ pc \in {"attach_utxos", "attach_coinbases"} =>
              job.ancestor <= job.at /\ job.at < Height[job.new]
        /\ pc = "commit" => job.at = Height[job.new]

(***************************************************************************)
(* Why the database holds a chain: plans and running reorganisations name  *)
(* two branches that really part where they say, a running one just below  *)
(* the tip, and the tip in memory is the one on disk except while a block  *)
(* is being saved.                                                         *)
(***************************************************************************)
ChainInvariant ==
    /\ DatabaseHoldsAChain /\ Height[height_index[tip_height]] = tip_height
    /\ TipInMemory /\ PlansPart /\ JobInRange
=============================================================================
