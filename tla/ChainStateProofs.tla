-------------------------- MODULE ChainStateProofs --------------------------
(***************************************************************************)
(* Proofs about ChainState.  ChainInvariant is inductive together with     *)
(* TypeOK; it gives DatabaseHoldsAChain for every tree of blocks, every    *)
(* number of waiting plans and every number of crashes.  The second half   *)
(* goes on from there to the unspent outputs, the work and the refinement  *)
(* of Ledger.                                                              *)
(***************************************************************************)
EXTENDS ChainState, ChainRefinement, BlockTreeProofs

(***************************************************************************)
(* A fork that grows from the tip weighs less than the tip, whose subtree  *)
(* contains it: such a plan never switches.                                *)
(***************************************************************************)
LEMMA ForksBelowTheTip ==
    ASSUME NEW t \in Block, NEW a \in Nat,
           tip_hash \in Block, current_height = Height[tip_hash],
           side_blocks \in Seq(Block),
           height_index = Branch[tip_hash],
           SwitchesAt(t, a)
    PROVE  a < current_height
<1>1. a < Height[t] /\ a <= current_height /\ height_index[a] = Branch[t][a]
  BY DEF SwitchesAt, IsForkPoint
<1>2. SUFFICES ASSUME a = current_height PROVE FALSE
  BY <1>1, BranchFacts
<1> DEFINE known == ForkPath(t, a) \cup DetachSegment(a) \cup SideSet
<1>3. known \subseteq Block
  <2>1. ForkPath(t, a) \subseteq Block
    BY <1>1, BranchFacts DEF ForkPath
  <2>2. DetachSegment(a) \subseteq Block
    BY <1>2, BranchFacts DEF DetachSegment
  <2>3. SideSet \subseteq Block
    BY DEF SideSet
  <2> QED BY <2>1, <2>2, <2>3
<1>4. Branch[t][Height[tip_hash]] = tip_hash /\ Height[t] > Height[tip_hash]
  BY <1>1, <1>2, BranchFacts
<1>5. \A h \in (Height[tip_hash] + 1)..Height[t] : Branch[t][h] \in known
  BY <1>2 DEF ForkPath
<1>6. Subtree(t, known) \subseteq Subtree(tip_hash, known)
  <2> SUFFICES ASSUME NEW y \in Subtree(t, known)
               PROVE  y \in Subtree(tip_hash, known)
    OBVIOUS
  <2>1. CASE y = t
    <3>1. t \in known
      BY <1>4, <1>5, BranchFacts
    <3> QED BY <2>1, <3>1, <1>4, <1>5 DEF Subtree
  <2>2. CASE y # t
    <3>1. /\ y \in known /\ Height[y] > Height[t] /\ Branch[y][Height[t]] = t
          /\ \A h \in (Height[t] + 1)..Height[y] : Branch[y][h] \in known
      BY <2>2 DEF Subtree
    <3>2. y \in Block
      BY <3>1, <1>3
    <3>3. \A h \in 0..Height[t] : Branch[y][h] = Branch[t][h]
      <4>1. Height[t] \in Nat /\ Height[y] \in Nat
        BY <1>2, <3>2, BranchFacts
      <4>2. Height[t] \in 0..Height[y]
        BY <3>1, <4>1
      <4>3. \A h \in 0..Height[t] : Branch[Branch[y][Height[t]]][h] = Branch[y][h]
        BY <3>2, <4>2, BranchFacts
      <4> QED BY <3>1, <4>3
    <3>4. Branch[y][Height[tip_hash]] = tip_hash
      BY <3>3, <1>4, BranchFacts
    <3>5. \A h \in (Height[tip_hash] + 1)..Height[y] : Branch[y][h] \in known
      <4> SUFFICES ASSUME NEW h \in (Height[tip_hash] + 1)..Height[y]
                   PROVE  Branch[y][h] \in known
        OBVIOUS
      <4>1. Height[t] \in Nat /\ Height[y] \in Nat /\ Height[tip_hash] \in Nat
        BY <3>2, BranchFacts
      <4>2. CASE h <= Height[t]
        BY <4>1, <4>2, <3>3, <1>5
      <4>3. CASE h > Height[t]
        BY <4>1, <4>3, <3>1
      <4> QED BY <4>1, <4>2, <4>3
    <3> QED BY <3>1, <3>2, <3>4, <3>5, <1>4, BranchFacts DEF Subtree
  <2> QED BY <2>1, <2>2
<1>7. tip_hash \notin Subtree(t, known) /\ tip_hash \in Subtree(tip_hash, known)
  BY <1>4, BranchFacts DEF Subtree
<1>8. Subtree(tip_hash, known) \in SUBSET Block
  BY <1>3 DEF Subtree
<1>9. /\ GhostWeight(t, known) < GhostWeight(tip_hash, known)
      /\ GhostWeight(t, known) \in Nat /\ GhostWeight(tip_hash, known) \in Nat
  <2>1. Subtree(t, known) \in SUBSET Block
    BY <1>6, <1>8
  <2> QED BY <1>6, <1>7, <1>8, <2>1, TreeSums DEF GhostWeight
<1>10. \/ GhostWeight(t, known) > GhostWeight(tip_hash, known)
       \/ GhostWeight(t, known) = GhostWeight(tip_hash, known)
  BY DEF SwitchesAt, ShouldSwitch
<1> QED BY <1>9, <1>10

-----------------------------------------------------------------------------
(* Types. *)

(***************************************************************************)
(* What a block does to the ledger stays within the commitments.           *)
(***************************************************************************)
LEMMA LedgerTypes ==
    ASSUME NEW b \in Block, NEW utxos \in SUBSET Commitment,
           NEW index \in [Commitment -> Nat]
    PROVE  /\ BlockIns(b) \subseteq Commitment
           /\ BlockOuts(b) \subseteq Commitment
           /\ SpendAndCreate(utxos, b) \subseteq Commitment
           /\ IndexBlock(index, b) \in [Commitment -> Nat]
<1>1. BlockTxs[b] \subseteq Tx
  BY TxAssumption DEF TxAssumption
<1>2. BlockIns(b) \subseteq Commitment /\ BlockOuts(b) \subseteq Commitment
  BY <1>1, TxAssumption DEF TxAssumption, BlockIns, BlockOuts
<1>3. Height[b] \in Nat /\ NotIndexed \in Nat
  BY BranchFacts DEF NotIndexed
<1> QED BY <1>2, <1>3 DEF SpendAndCreate, IndexBlock

(***************************************************************************)
(* An input that a detach restores is an input of the block, and the       *)
(* height it is looked up at is the one some transaction of the block says.*)
(***************************************************************************)
LEMMA UndoTypes ==
    ASSUME NEW b \in Block, NEW index \in [Commitment -> Nat]
    PROVE  /\ Restored(b) \subseteq Commitment
           /\ UndoIndex(index, b) \in [Commitment -> Nat]
<1>1. Restored(b) \subseteq BlockIns(b) /\ BlockIns(b) \subseteq Commitment
  BY LedgerTypes DEF Restored
<1>2. ASSUME NEW c \in BlockIns(b) PROVE SourceOf(b, c) \in Nat
  <2>1. \E t \in BlockTxs[b] : c \in TxIns[t]
    BY DEF BlockIns
  <2>2. (CHOOSE t \in BlockTxs[b] : c \in TxIns[t]) \in Tx
    BY <2>1, TxAssumption DEF TxAssumption
  <2>3. c \in Commitment
    BY <1>1
  <2> QED BY <2>2, <2>3, TxAssumption DEF TxAssumption, SourceOf
<1> QED BY <1>1, <1>2 DEF UndoIndex, NotIndexed

LEMMA FeesAreNatural ==
    /\ \A S \in SUBSET Tx : TotalFee(S) \in Nat
    /\ \A t \in Tx : TxFee[t] \in Nat
    /\ \A b \in Block : BlockTxs[b] \subseteq Tx
    /\ \A b \in Block : Work[b] \in Nat
BY TreeSums, TxAssumption, TreeAssumption
   DEF TxAssumption, TreeAssumption

(***************************************************************************)
(* With nothing being saved, the height keys are the branch of the tip.    *)
(***************************************************************************)
LEMMA TipFacts ==
    ASSUME TypeOK, ChainInvariant, pc \notin {"save_block", "down"}
    PROVE  /\ tip_hash \in Block
           /\ height_index = Branch[tip_hash]
           /\ tip_hash = height_index[tip_height]
           /\ current_height = Height[tip_hash]
           /\ current_height = tip_height
           /\ tip_height \in Nat
           /\ height_index \in [0..tip_height -> Block]
BY DEF TypeOK, ChainInvariant, DatabaseHoldsAChain, TipInMemory

(***************************************************************************)
(* A reorganisation that begins was planned for the current tip, which is  *)
(* the only block on its detach list.                                      *)
(***************************************************************************)
LEMMA FittingPlans ==
    ASSUME TypeOK, ChainInvariant, NEW p \in plans, BeginReorg(p)
    PROVE  /\ p.old = tip_hash
           /\ DetachCount(p) = 1
           /\ current_height - DetachCount(p) = p.ancestor
           /\ Part(tip_hash, p.new, p.ancestor)
           /\ p.ancestor \in Nat /\ p.new \in Block
<1>1. /\ p.old \in Block /\ p.new \in Block /\ p.ancestor \in Nat
      /\ Part(p.old, p.new, p.ancestor)
  BY DEF TypeOK, Plan, ChainInvariant, PlansPart
<1>2. pc = "idle" /\ DetachListMatches(p)
  BY DEF BeginReorg, PlanFits
<1>3. /\ height_index = Branch[tip_hash] /\ tip_hash \in Block
      /\ current_height = Height[tip_hash]
  BY <1>2, TipFacts
<1>4. DetachCount(p) \in Nat /\ DetachCount(p) > 0 /\ Height[p.old] \in Nat
  BY <1>1, BranchFacts DEF DetachCount, Part
<1>5. height_index[current_height] = Branch[p.old][p.ancestor + DetachCount(p)]
  <2>1. DetachCount(p) \in 1..DetachCount(p)
    BY <1>4
  <2>2. height_index[current_height - DetachCount(p) + DetachCount(p)]
           = Branch[p.old][p.ancestor + DetachCount(p)]
    BY <1>2, <2>1 DEF DetachListMatches
  <2>3. current_height \in Nat
    BY <1>3, BranchFacts
  <2> QED BY <1>4, <2>2, <2>3
<1>6. p.old = tip_hash
  <2>1. p.ancestor + DetachCount(p) = Height[p.old]
    BY <1>1, <1>4 DEF DetachCount
  <2> QED BY <1>1, <1>3, <1>5, <2>1, BranchFacts
<1>7. DetachCount(p) = 1
  <2>1. DetachCount(p) <= current_height /\ current_height \in Nat
    BY <1>2, <1>3, BranchFacts DEF DetachListMatches
  <2>2. SUFFICES ASSUME DetachCount(p) > 1 PROVE FALSE
    BY <1>4
  <2>3. current_height - 1 \in (current_height - DetachCount(p) + 1)..current_height
    BY <1>4, <2>1, <2>2
  <2>4. Branch[tip_hash][current_height - 1] = tip_hash
    BY <1>3, <2>3 DEF BeginReorg, OnlyTheTip
  <2>5. current_height - 1 \in 0..Height[tip_hash]
    BY <1>3, <2>1, <1>4
  <2>6. Height[tip_hash] = current_height - 1
    BY <1>3, <2>4, <2>5, BranchFacts
  <2> QED BY <1>3, <2>1, <2>6
<1> QED BY <1>1, <1>3, <1>4, <1>6, <1>7 DEF DetachCount

(***************************************************************************)
(* The commit leaves exactly the branch of the new tip: below the point    *)
(* where the branches part they agree, above it every height is rewritten, *)
(* and no block of the new branch is among the deleted ones.               *)
(***************************************************************************)
LEMMA CommitFacts ==
    ASSUME TypeOK, ChainInvariant, CommitReorg
    PROVE  /\ job.new \in Block
           /\ tip_height' = Height[job.new]
           /\ height_index' = Branch[job.new]
           /\ \A h \in 0..Height[job.new] : Branch[job.new][h] \in block_store'
<1> DEFINE a == job.ancestor
           new == job.new
<1>1. /\ pc = "commit" /\ job.from = a /\ job.at = Height[new]
      /\ Part(tip_hash, new, a)
  BY DEF CommitReorg, ChainInvariant, JobInRange, Reorganising
<1>2. /\ new \in Block /\ a \in Nat
      /\ Height[new] \in Nat /\ Branch[new] \in [0..Height[new] -> Block]
  BY BranchFacts DEF TypeOK, Job
<1>3. /\ tip_hash \in Block /\ height_index = Branch[tip_hash]
      /\ current_height = Height[tip_hash] /\ current_height = tip_height
      /\ current_height \in Nat /\ DOMAIN height_index = 0..current_height
  <2>1. pc \notin {"save_block", "down"}
    BY <1>1
  <2> QED BY <2>1, TipFacts
<1>4. a < current_height /\ a < Height[new] /\ Branch[new][a] = Branch[tip_hash][a]
  BY <1>1, <1>3 DEF Part
<1>5. \A h \in 0..a : height_index[h] = Branch[new][h]
  <2>1. \A h \in 0..a : Branch[Branch[tip_hash][a]][h] = Branch[tip_hash][h]
    <3>1. a \in 0..Height[tip_hash]
      BY <1>2, <1>3, <1>4
    <3> QED BY <1>3, <3>1, BranchFacts
  <2>2. \A h \in 0..a : Branch[Branch[new][a]][h] = Branch[new][h]
    <3>1. a \in 0..Height[new]
      BY <1>2, <1>4
    <3> QED BY <1>2, <3>1, BranchFacts
  <2> QED BY <1>3, <1>4, <2>1, <2>2
<1>6. \A h \in 0..Height[new] : Branch[new][h] \in Block /\ Height[Branch[new][h]] = h
  BY <1>2, BranchFacts
<1>7. \A h \in 0..Height[new] : (\E b \in Attached : Height[b] = h) <=> h > a
  BY <1>1, <1>2, <1>6 DEF Attached
<1>8. {Height[b] : b \in Attached} = (a + 1)..Height[new]
  BY SMTT(30), <1>1, <1>2, <1>6 DEF Attached
<1>9. height_index' = Branch[new]
  <2>1. (DOMAIN height_index \ ((a + 1)..current_height)) \cup {Height[b] : b \in Attached}
           = 0..Height[new]
    <3> SUFFICES \A h : h \in (0..current_height \ ((a + 1)..current_height))
                              \cup ((a + 1)..Height[new]) <=> h \in 0..Height[new]
      BY <1>3, <1>8
    <3> QED BY <1>2, <1>3, <1>4
  <2>2. height_index' =
           [h \in 0..Height[new] |-> IF \E b \in Attached : Height[b] = h
                                     THEN Branch[new][h] ELSE height_index[h]]
    BY <2>1 DEF CommitReorg
  <2>3. \A h \in 0..Height[new] : height_index'[h] = Branch[new][h]
    BY <1>2, <1>5, <1>7, <2>2
  <2> QED BY <1>2, <2>2, <2>3
<1>10. \A h \in 0..Height[new] : Branch[new][h] \notin Detached
  <2> SUFFICES ASSUME NEW h \in 0..Height[new], NEW g \in (a + 1)..current_height,
                      Branch[new][h] = height_index[g]
               PROVE  FALSE
    BY DEF Detached
  <2>1. Height[height_index[g]] = g
    BY SMTT(30), <1>2, <1>3, BranchFacts
  <2>2. g = h
    BY <2>1, <1>6
  <2> QED BY <1>1, <1>2, <1>3, <2>2 DEF Part
<1>11. \A h \in 0..Height[new] : Branch[new][h] \in block_store \cup Attached
  <2> SUFFICES ASSUME NEW h \in 0..Height[new]
               PROVE  Branch[new][h] \in block_store \cup Attached
    OBVIOUS
  <2>1. CASE h <= a
    BY <2>1, <1>2, <1>3, <1>4, <1>5 DEF ChainInvariant, DatabaseHoldsAChain
  <2>2. CASE h > a
    BY <2>2, <1>1, <1>2 DEF Attached
  <2> QED BY <2>1, <2>2, <1>2
<1> QED BY <1>1, <1>2, <1>9, <1>10, <1>11 DEF CommitReorg

(***************************************************************************)
(* TypeOK is preserved by every step.                                      *)
(***************************************************************************)
LEMMA TypeStep ==
    ASSUME TypeOK, ChainInvariant, [Next]_vars
    PROVE  TypeOK'
<1> USE DEF memory, ledger, pool, disk, control
<1>1. ASSUME NEW b \in Block \ {Genesis}, ExtendCanonical(b) PROVE TypeOK'
  <2>1. /\ SpendAndCreate(utxo_set, b) \subseteq Commitment
        /\ IndexBlock(coinbase_index, b) \in [Commitment -> Nat]
        /\ Height[b] \in Nat
    BY LedgerTypes, BranchFacts DEF TypeOK
  <2>2. pending' \subseteq Tx /\ fee_total' \in Nat
    BY <1>1, FeesAreNatural DEF ExtendCanonical, Hygiene, TypeOK
  <2>3. OnBlock(b) \in Job
    BY TreeAssumption DEF TreeAssumption, OnBlock, NoJob, Job
  <2>4. current_height' \in Nat /\ total_work' \in Nat /\ tip_hash' \in Block
    BY <1>1, FeesAreNatural DEF ExtendCanonical, TypeOK
  <2> QED BY <1>1, <2>1, <2>2, <2>3, <2>4 DEF ExtendCanonical, TypeOK, PCs
<1>2. ASSUME NEW b \in Block \ {Genesis}, StoredOnSide(b) \/ NeedParent(b)
      PROVE  TypeOK'
  <2>1. StoreSideBlock(b)
    BY <1>2 DEF StoredOnSide, NeedParent
  <2>2. side_blocks' \in Seq(Block) /\ block_store' \subseteq Block
    <3>1. Len(side_blocks) >= MAX_SIDE_BLOCKS => Tail(side_blocks) \in Seq(Block)
      BY BoundAssumption DEF BoundAssumption, TypeOK
    <3>2. \A s \in Seq(Block) : Append(s, b) \in Seq(Block)
      OBVIOUS
    <3>3. side_blocks \in Seq(Block) /\ block_store \subseteq Block
      BY DEF TypeOK
    <3> DEFINE kept == IF Len(side_blocks) >= MAX_SIDE_BLOCKS
                       THEN Tail(side_blocks) ELSE side_blocks
    <3>4. kept \in Seq(Block)
      BY <3>1, <3>3
    <3>5. \/ UNCHANGED <<side_blocks, block_store>>
          \/ /\ side_blocks' = Append(kept, b)
             /\ block_store' \in {block_store, block_store \cup {b}}
      BY <2>1 DEF StoreSideBlock
    <3> QED BY <3>2, <3>3, <3>4, <3>5
  <2>3. OnBlock(b) \in Job
    BY TreeAssumption DEF TreeAssumption, OnBlock, NoJob, Job
  <2> QED BY <1>2, <2>2, <2>3 DEF StoredOnSide, NeedParent, TypeOK, PCs
<1>3. ASSUME SaveBlock PROVE TypeOK'
  <2>1. /\ job.new \in Block /\ Height[job.new] = tip_height + 1
        /\ tip_height \in Nat
    BY <1>3 DEF SaveBlock, ChainInvariant, TipInMemory, TypeOK
  <2>2. tip_height' = tip_height + 1
    BY <1>3, <2>1 DEF SaveBlock, NewTip
  <2>3. height_index' \in [0..tip_height' -> Block]
    BY <1>3, <2>1, <2>2 DEF SaveBlock, TypeOK
  <2> QED BY <1>3, <2>1, <2>2, <2>3 DEF SaveBlock, TypeOK, PCs
<1>4. ASSUME SaveTotalWork PROVE TypeOK'
  BY <1>4, TreeAssumption DEF TreeAssumption, SaveTotalWork, TypeOK, PCs, NoJob, Job
<1>5. ASSUME PlanSwitch PROVE TypeOK'
  <2>1. PICK a \in 0..current_height :
           plans' = plans \cup {[ancestor |-> a, old |-> tip_hash, new |-> job.new]}
    BY <1>5 DEF PlanSwitch
  <2>2. plans' \subseteq Plan
    BY <2>1 DEF TypeOK, Plan, Job
  <2>3. NoJob \in Job
    BY TreeAssumption DEF TreeAssumption, NoJob, Job
  <2> QED BY <1>5, <2>2, <2>3 DEF PlanSwitch, TypeOK, PCs
<1>6. ASSUME PlanKeep PROVE TypeOK'
  BY <1>6, TreeAssumption DEF TreeAssumption, PlanKeep, TypeOK, PCs, NoJob, Job
<1>7. ASSUME NEW p \in plans, BeginReorg(p) PROVE TypeOK'
  <2>1. job' \in Job
    BY <1>7, FittingPlans DEF BeginReorg, TypeOK, Job
  <2> QED BY <1>7, <2>1 DEF BeginReorg, TypeOK, PCs
<1>8. ASSUME NEW p \in plans, RejectPlan(p) \/ RefuseReorg(p) PROVE TypeOK'
  BY <1>8 DEF RejectPlan, RefuseReorg, TypeOK
<1>9. ASSUME DetachUtxos PROVE TypeOK'
  <2>1. job \in Job /\ job.at > job.ancestor /\ job.at <= current_height
    BY <1>9 DEF DetachUtxos, TypeOK, ChainInvariant, JobInRange, Reorganising
  <2>2. height_index[job.at] \in Block
    BY <1>9, <2>1, TipFacts DEF DetachUtxos, Job
  <2>3. utxo_set' \subseteq Commitment
    <3>1. Restored(height_index[job.at]) \subseteq Commitment
      <4>1. coinbase_index \in [Commitment -> Nat]
        BY DEF TypeOK
      <4> QED BY <2>2, <4>1, UndoTypes
    <3> QED BY <1>9, <3>1 DEF DetachUtxos, TypeOK
  <2>4. job' \in Job
    <3>1. job' = [job EXCEPT !.at = job.at - 1,
                             !.work = Minus(job.work, Work[height_index[job.at]])]
      BY <1>9 DEF DetachUtxos
    <3>2. Minus(job.work, Work[height_index[job.at]]) \in Nat
      BY <2>1, <2>2, FeesAreNatural DEF Minus, Job
    <3>3. job.at - 1 \in Nat
      BY <2>1 DEF Job
    <3> QED BY <2>1, <3>1, <3>2, <3>3 DEF Job
  <2> QED BY <1>9, <2>3, <2>4 DEF DetachUtxos, TypeOK, PCs
<1>10. ASSUME AttachUtxos PROVE TypeOK'
  <2>1. /\ job \in Job /\ job.at >= job.ancestor /\ job.at < Height[job.new]
        /\ job.from = job.ancestor /\ current_height \in Nat
    BY <1>10 DEF AttachUtxos, TypeOK, ChainInvariant, JobInRange, Reorganising
  <2>2. NextAttached \in Block
    <3>1. job.new \in Block /\ job.at \in Nat /\ job.ancestor \in Nat
      BY <2>1 DEF Job
    <3>2. NextAttached = Branch[job.new][job.at + 1]
      BY <2>1, <3>1 DEF NextAttached
    <3>3. job.at + 1 \in 0..Height[job.new]
      BY <2>1, <3>1, BranchFacts
    <3> QED BY <3>1, <3>2, <3>3, BranchFacts
  <2>3. utxo_set' \subseteq Commitment
    <3>1. coinbase_index \in [Commitment -> Nat] /\ utxo_set \in SUBSET Commitment
      BY DEF TypeOK
    <3> QED BY <1>10, <2>2, <3>1, LedgerTypes DEF AttachUtxos
  <2>4. job' \in Job
    <3>1. job.work + Work[NextAttached] \in Nat /\ job.at + 1 \in Nat
      BY <2>1, <2>2, FeesAreNatural DEF Job
    <3>2. \/ job' = [job EXCEPT !.at = current_height,
                                !.work = job.work + Work[NextAttached]]
          \/ job' = [job EXCEPT !.at = job.at + 1,
                                !.work = job.work + Work[NextAttached]]
      BY <1>10 DEF AttachUtxos
    <3> QED BY <2>1, <3>1, <3>2 DEF Job
  <2>5. pc' \in PCs
    BY <1>10 DEF AttachUtxos, PCs
  <2> QED BY <1>10, <2>3, <2>4, <2>5 DEF AttachUtxos, TypeOK
<1>11. ASSUME DetachCoinbases PROVE TypeOK'
  <2>1. job \in Job /\ job.at > job.ancestor /\ job.at <= current_height
    BY <1>11 DEF DetachCoinbases, TypeOK, ChainInvariant, JobInRange, Reorganising
  <2>2. height_index[job.at] \in Block
    BY <1>11, <2>1, TipFacts DEF DetachCoinbases, Job
  <2>3. /\ coinbase_index' \in [Commitment -> Nat]
        /\ db_coinbase' \in [Commitment -> Nat]
    BY <1>11, <2>2, UndoTypes DEF DetachCoinbases, TypeOK
  <2>4. job' \in Job
    BY <1>11, <2>1 DEF DetachCoinbases, Job
  <2> QED BY <1>11, <2>3, <2>4 DEF DetachCoinbases, TypeOK, PCs
<1>12. ASSUME AttachCoinbases PROVE TypeOK'
  <2>1. /\ job \in Job /\ job.at >= job.ancestor /\ job.at < Height[job.new]
        /\ job.from = job.ancestor
    BY <1>12 DEF AttachCoinbases, TypeOK, ChainInvariant, JobInRange, Reorganising
  <2>2. NextAttached \in Block
    BY <2>1, BranchFacts DEF NextAttached, Job
  <2>3. /\ coinbase_index' \in [Commitment -> Nat]
        /\ db_coinbase' \in [Commitment -> Nat]
    <3>1. utxo_set \in SUBSET Commitment
      BY DEF TypeOK
    <3> QED BY <1>12, <2>2, <3>1, LedgerTypes DEF AttachCoinbases, TypeOK
  <2>4. job' \in Job
    BY <1>12, <2>1 DEF AttachCoinbases, Job
  <2> QED BY <1>12, <2>3, <2>4 DEF AttachCoinbases, TypeOK, PCs
<1>13. ASSUME CommitReorg PROVE TypeOK'
  <2>1. job \in Job /\ tip_hash' = job.new /\ current_height' = job.at
    BY <1>13 DEF CommitReorg, TypeOK
  <2>2. /\ height_index' \in [0..tip_height' -> Block] /\ tip_height' \in Nat
        /\ job.new \in Block
    BY <1>13, CommitFacts, BranchFacts
  <2>3. Detached \subseteq Block /\ Attached \subseteq Block
    <3>1. pc = "commit"
      BY <1>13 DEF CommitReorg
    <3>2. job.from = job.ancestor /\ job.ancestor \in Nat
      BY <3>1, <2>1 DEF ChainInvariant, JobInRange, Reorganising, Job
    <3>3. Attached \subseteq Block
      BY <2>2, <3>2, BranchFacts DEF Attached
    <3>4. Detached \subseteq Block
      BY <3>1, <3>2, TipFacts DEF Detached
    <3> QED BY <3>3, <3>4
  <2>4. pending' \subseteq Tx /\ fee_total' \in Nat
    BY <1>13, <2>3, FeesAreNatural DEF CommitReorg, TypeOK
  <2>5. block_store' \subseteq Block
    BY <1>13, <2>3 DEF CommitReorg, TypeOK
  <2> QED BY <1>13, <2>1, <2>2, <2>4, <2>5 DEF CommitReorg, TypeOK, PCs, Job
<1>14. ASSUME SaveReorgWork PROVE TypeOK'
  BY <1>14 DEF SaveReorgWork, TypeOK, PCs, Job
<1>15. ASSUME ClearMarker PROVE TypeOK'
  BY <1>15, TreeAssumption DEF TreeAssumption, ClearMarker, TypeOK, PCs, NoJob, Job
<1>16. ASSUME NEW t \in Tx, AddTransaction(t) PROVE TypeOK'
  BY SMTT(30), <1>16, FeesAreNatural DEF AddTransaction, TypeOK
<1>17. ASSUME NEW t \in Tx, ReplaceCheapest(t) PROVE TypeOK'
  <2>1. PICK low \in pending :
           /\ TxFee[t] > TxFee[low]
           /\ pending' = (pending \ {low}) \cup {t}
           /\ fee_total' = fee_total - TxFee[low] + TxFee[t]
    BY <1>17 DEF ReplaceCheapest
  <2>2. TxFee[low] \in Nat /\ TxFee[t] \in Nat /\ fee_total \in Nat
    BY FeesAreNatural DEF TypeOK
  <2> QED BY <1>17, <2>1, <2>2 DEF ReplaceCheapest, TypeOK
<1>18. ASSUME Crash PROVE TypeOK'
  <2>1. NoJob \in Job /\ <<>> \in Seq(Block)
    BY TreeAssumption DEF TreeAssumption, NoJob, Job
  <2> QED BY <1>18, <2>1 DEF Crash, TypeOK, PCs
<1>19. ASSUME Restart PROVE TypeOK'
  <2>1. tip_hash' \in Block
    BY <1>19 DEF Restart, TypeOK
  <2> QED BY <1>19, <2>1, BranchFacts DEF Restart, TypeOK, PCs
<1>20. CASE UNCHANGED vars
  BY <1>20 DEF vars, TypeOK
<1> QED BY <1>1, <1>2, <1>3, <1>4, <1>5, <1>6, <1>7, <1>8, <1>9, <1>10, <1>11,
           <1>12, <1>13, <1>14, <1>15, <1>16, <1>17, <1>18, <1>19, <1>20 DEF Next

-----------------------------------------------------------------------------
(* The database holds a chain. *)

(***************************************************************************)
(* A step that leaves the tip, the height keys and the plans as they are,  *)
(* deletes no block and neither saves a block nor reorganises, before or   *)
(* after, preserves the invariant.                                         *)
(***************************************************************************)
LEMMA QuietStep ==
    ASSUME TypeOK, ChainInvariant,
           UNCHANGED <<memory, height_index, tip_height>>,
           block_store \subseteq block_store',
           plans' \subseteq plans,
           pc \notin {"save_block", "down"},
           ~Reorganising', pc' # "save_block"
    PROVE  ChainInvariant'
BY DEF memory, ChainInvariant, DatabaseHoldsAChain, TipInMemory, PlansPart, Part,
       JobInRange

LEMMA ChainStep ==
    ASSUME TypeOK, ChainInvariant, [Next]_vars
    PROVE  ChainInvariant'
<1> USE DEF memory, ledger, pool, disk, control
<1>1. ASSUME NEW b \in Block \ {Genesis}, ExtendCanonical(b) PROVE ChainInvariant'
  <2>1. /\ tip_hash = height_index[tip_height] /\ current_height = tip_height
        /\ tip_height \in Nat
    BY <1>1, TipFacts DEF ExtendCanonical
  <2>2. TipInMemory'
    BY <1>1, <2>1 DEF ExtendCanonical, ExtendsTip, TipInMemory, OnBlock, NoJob
  <2>3. PlansPart' /\ JobInRange'
    BY <1>1 DEF ExtendCanonical, ChainInvariant, PlansPart, Part, JobInRange,
                Reorganising
  <2> QED BY <1>1, <2>2, <2>3 DEF ExtendCanonical, ChainInvariant, DatabaseHoldsAChain
<1>2. ASSUME NEW b \in Block \ {Genesis}, StoredOnSide(b) \/ NeedParent(b)
      PROVE  ChainInvariant'
  <2>1. /\ UNCHANGED <<memory, height_index, tip_height, plans>>
        /\ pc = "idle" /\ pc' \in {"idle", "plan"}
        /\ block_store \subseteq block_store'
    BY <1>2 DEF StoredOnSide, NeedParent, StoreSideBlock
  <2> QED BY <2>1, QuietStep DEF Reorganising
<1>3. ASSUME SaveBlock PROVE ChainInvariant'
  <2> DEFINE b == job.new
  <2>1. /\ b = tip_hash /\ b \in Block /\ b # Genesis /\ tip_height \in Nat
        /\ Prev[b] = height_index[tip_height] /\ Height[b] = tip_height + 1
        /\ current_height = tip_height + 1
        /\ height_index = Branch[Prev[b]]
        /\ height_index \in [0..tip_height -> Block]
    BY <1>3 DEF SaveBlock, ChainInvariant, TipInMemory, DatabaseHoldsAChain, TypeOK
  <2>2. tip_height' = tip_height + 1
    BY <1>3, <2>1 DEF SaveBlock, NewTip
  <2>3. height_index' = [h \in 0..(tip_height + 1) |->
                            IF h = tip_height + 1 THEN b ELSE height_index[h]]
    <3>1. DOMAIN height_index \cup {Height[b]} = 0..(tip_height + 1)
      BY <2>1
    <3> QED BY <1>3, <2>1, <3>1 DEF SaveBlock
  <2>4. \A h \in 0..tip_height : Branch[b][h] = height_index[h]
    <3>1. tip_height \in 0..Height[b] /\ Branch[b][tip_height] = Prev[b]
      BY <2>1, BranchFacts
    <3> QED BY SMTT(30), <2>1, <3>1, BranchFacts
  <2>5. Branch[b] \in [0..(tip_height + 1) -> Block] /\ Branch[b][tip_height + 1] = b
    BY <2>1, BranchFacts
  <2>6. height_index' = Branch[b]
    <3>1. \A h \in 0..(tip_height + 1) : height_index'[h] = Branch[b][h]
      BY <2>1, <2>3, <2>4, <2>5
    <3> QED BY <2>3, <2>5, <3>1
  <2>7. \A h \in 0..tip_height' : height_index'[h] \in block_store'
    <3>1. block_store' = block_store \cup {b}
      BY <1>3 DEF SaveBlock
    <3> QED BY <2>1, <2>2, <2>3, <3>1 DEF ChainInvariant, DatabaseHoldsAChain
  <2>8. DatabaseHoldsAChain' /\ Height[height_index'[tip_height']] = tip_height'
    BY <2>1, <2>2, <2>5, <2>6, <2>7 DEF DatabaseHoldsAChain
  <2>9. TipInMemory' /\ PlansPart' /\ JobInRange'
    BY <1>3, <2>1, <2>2, <2>5, <2>6 DEF SaveBlock, ChainInvariant, TipInMemory,
       PlansPart, Part, JobInRange, Reorganising
  <2> QED BY <2>8, <2>9 DEF ChainInvariant
<1>4. ASSUME SaveTotalWork \/ PlanKeep \/ SaveReorgWork \/ ClearMarker
      PROVE  ChainInvariant'
  <2>1. /\ UNCHANGED <<memory, height_index, tip_height, block_store, plans>>
        /\ pc \notin {"save_block", "down"} /\ pc' \in {"idle", "clear_marker"}
    BY <1>4 DEF SaveTotalWork, PlanKeep, SaveReorgWork, ClearMarker
  <2> QED BY <2>1, QuietStep DEF Reorganising
<1>5. ASSUME PlanSwitch PROVE ChainInvariant'
  <2>1. /\ tip_hash \in Block /\ height_index = Branch[tip_hash]
        /\ current_height = Height[tip_hash] /\ current_height \in Nat
    <3>1. pc \notin {"save_block", "down"}
      BY <1>5 DEF PlanSwitch
    <3> QED BY <3>1, TipFacts
  <2>2. PICK a \in 0..current_height :
           /\ SwitchesAt(job.new, a)
           /\ plans' = plans \cup {[ancestor |-> a, old |-> tip_hash, new |-> job.new]}
    BY <1>5 DEF PlanSwitch
  <2>3. job.new \in Block /\ side_blocks \in Seq(Block)
    BY DEF TypeOK, Job
  <2>4. a < current_height
    BY <2>1, <2>2, <2>3, ForksBelowTheTip
  <2>5. Part(tip_hash, job.new, a)
    BY <2>1, <2>2, <2>3, <2>4, BranchFacts DEF SwitchesAt, IsForkPoint, Part
  <2>6. PlansPart'
    BY <2>2, <2>5 DEF ChainInvariant, PlansPart, Part
  <2> QED BY <1>5, <2>6 DEF PlanSwitch, ChainInvariant, DatabaseHoldsAChain,
                            TipInMemory, JobInRange, Reorganising
<1>6. ASSUME NEW p \in plans, BeginReorg(p) PROVE ChainInvariant'
  <2>1. /\ DetachCount(p) = 1 /\ current_height - DetachCount(p) = p.ancestor
        /\ Part(tip_hash, p.new, p.ancestor) /\ p.ancestor \in Nat
    BY <1>6, FittingPlans
  <2>2. pc' = "detach_utxos"
    BY <1>6, <2>1 DEF BeginReorg
  <2>3. /\ job'.ancestor = p.ancestor /\ job'.from = p.ancestor
        /\ job'.new = p.new /\ job'.at = current_height
    BY <1>6, <2>1 DEF BeginReorg
  <2>4. /\ tip_hash \in Block /\ current_height = Height[tip_hash]
        /\ current_height \in Nat
    BY <1>6, TipFacts DEF BeginReorg
  <2>5. JobInRange'
    BY <1>6, <2>1, <2>2, <2>3, <2>4 DEF BeginReorg, JobInRange, Reorganising, Part
  <2> QED BY <1>6, <2>2, <2>5 DEF BeginReorg, ChainInvariant, DatabaseHoldsAChain,
                                  TipInMemory, PlansPart, Part
<1>7. ASSUME NEW p \in plans, RejectPlan(p) \/ RefuseReorg(p) PROVE ChainInvariant'
  <2>1. /\ UNCHANGED <<memory, height_index, tip_height, block_store>>
        /\ plans' \subseteq plans /\ pc = "idle" /\ pc' = "idle"
    BY <1>7 DEF RejectPlan, RefuseReorg
  <2> QED BY <2>1, QuietStep DEF Reorganising
<1>8. ASSUME DetachUtxos \/ AttachUtxos \/ DetachCoinbases \/ AttachCoinbases
      PROVE  ChainInvariant'
  <2>1. /\ Reorganising /\ pc \notin {"save_block", "down", "commit"}
        /\ UNCHANGED <<memory, height_index, tip_height, block_store, plans>>
    BY <1>8 DEF DetachUtxos, AttachUtxos, DetachCoinbases, AttachCoinbases,
                Reorganising
  <2>2. /\ Part(tip_hash, job.new, job.ancestor) /\ job.from = job.ancestor
        /\ job.ancestor + 1 = current_height
        /\ pc \in {"detach_utxos", "detach_coinbases"} =>
              job.ancestor < job.at /\ job.at <= current_height
        /\ pc \in {"attach_utxos", "attach_coinbases"} =>
              job.ancestor <= job.at /\ job.at < Height[job.new]
    BY <2>1 DEF ChainInvariant, JobInRange
  <2>3. /\ job \in Job /\ job.new \in Block /\ Height[job.new] \in Nat
        /\ tip_hash \in Block /\ current_height = Height[tip_hash]
        /\ current_height \in Nat
    BY <2>1, TipFacts, BranchFacts DEF TypeOK, Job
  <2>4. job.ancestor < current_height /\ job.ancestor < Height[job.new]
    BY <2>2, <2>3 DEF Part
  <2>5. ASSUME pc \in {"attach_utxos", "attach_coinbases"}
        PROVE  NextAttached = job.new <=> job.at + 1 = Height[job.new]
    <3>1. NextAttached = Branch[job.new][job.at + 1]
      BY <2>2, <2>3 DEF NextAttached, Job
    <3>2. job.at + 1 \in 0..Height[job.new]
      BY <2>2, <2>3, <2>5 DEF Job
    <3> QED BY <2>3, <3>1, <3>2, BranchFacts
  <2>6. JobInRange'
    <3>1. CASE DetachUtxos
      <4>1. /\ job'.ancestor = job.ancestor /\ job'.from = job.from
            /\ job'.new = job.new /\ job'.at = job.at - 1
            /\ pc' = IF job'.at = job.ancestor THEN "attach_utxos" ELSE "detach_utxos"
            /\ pc = "detach_utxos"
        BY <3>1, <2>3 DEF DetachUtxos, Job
      <4> QED BY <2>1, <2>2, <2>3, <2>4, <4>1 DEF JobInRange, Reorganising, Part, Job
    <3>2. CASE AttachUtxos
      <4>1. /\ job'.ancestor = job.ancestor /\ job'.from = job.from
            /\ job'.new = job.new /\ pc = "attach_utxos"
            /\ NextAttached = job.new =>
                  job'.at = current_height /\ pc' = "detach_coinbases"
            /\ NextAttached # job.new =>
                  job'.at = job.at + 1 /\ pc' = "attach_utxos"
        <5>1. job.ancestor # current_height
          BY <2>3, <2>4 DEF Job
        <5>2. CASE NextAttached = job.new
          <6>1. /\ job' = [job EXCEPT !.at = current_height,
                                      !.work = job.work + Work[NextAttached]]
                /\ pc' = "detach_coinbases" /\ pc = "attach_utxos"
            BY <3>2, <5>1, <5>2 DEF AttachUtxos
          <6> QED BY <6>1, <5>2, <2>3 DEF Job
        <5>3. CASE NextAttached # job.new
          <6>1. /\ job' = [job EXCEPT !.at = job.at + 1,
                                      !.work = job.work + Work[NextAttached]]
                /\ pc' = "attach_utxos" /\ pc = "attach_utxos"
            BY <3>2, <5>3 DEF AttachUtxos
          <6> QED BY <6>1, <5>3, <2>3 DEF Job
        <5> QED BY <5>2, <5>3
      <4> QED BY <2>1, <2>2, <2>3, <2>4, <2>5, <4>1
              DEF JobInRange, Reorganising, Part, Job
    <3>3. CASE DetachCoinbases
      <4>1. /\ job'.ancestor = job.ancestor /\ job'.from = job.from
            /\ job'.new = job.new /\ job'.at = job.at - 1
            /\ pc' = IF job'.at = job.ancestor THEN "attach_coinbases"
                     ELSE "detach_coinbases"
            /\ pc = "detach_coinbases"
        BY <3>3, <2>3 DEF DetachCoinbases, Job
      <4> QED BY <2>1, <2>2, <2>3, <2>4, <4>1 DEF JobInRange, Reorganising, Part, Job
    <3>4. CASE AttachCoinbases
      <4>1. /\ job'.ancestor = job.ancestor /\ job'.from = job.from
            /\ job'.new = job.new /\ job'.at = job.at + 1
            /\ pc' = IF NextAttached = job.new THEN "commit" ELSE "attach_coinbases"
            /\ pc = "attach_coinbases"
        BY <3>4, <2>3 DEF AttachCoinbases, Job
      <4> QED BY <2>1, <2>2, <2>3, <2>4, <2>5, <4>1
              DEF JobInRange, Reorganising, Part, Job
    <3> QED BY <1>8, <3>1, <3>2, <3>3, <3>4
  <2>7. pc' \notin {"save_block", "down"}
    BY <1>8 DEF DetachUtxos, AttachUtxos, DetachCoinbases, AttachCoinbases
  <2> QED BY <2>1, <2>6, <2>7 DEF ChainInvariant, DatabaseHoldsAChain, TipInMemory,
                                  PlansPart, Part
<1>9. ASSUME CommitReorg PROVE ChainInvariant'
  <2>1. /\ job.new \in Block /\ tip_height' = Height[job.new]
        /\ height_index' = Branch[job.new]
        /\ \A h \in 0..Height[job.new] : Branch[job.new][h] \in block_store'
    BY <1>9, CommitFacts
  <2>2. /\ Height[job.new] \in Nat /\ Branch[job.new][Height[job.new]] = job.new
        /\ Branch[job.new] \in [0..Height[job.new] -> Block]
    BY <2>1, BranchFacts
  <2>3. DatabaseHoldsAChain' /\ Height[height_index'[tip_height']] = tip_height'
    BY <2>1, <2>2 DEF DatabaseHoldsAChain
  <2>4. job.at = Height[job.new]
    BY <1>9 DEF CommitReorg, ChainInvariant, JobInRange, Reorganising
  <2>5. TipInMemory' /\ PlansPart' /\ JobInRange'
    BY <1>9, <2>1, <2>2, <2>4 DEF CommitReorg, ChainInvariant, TipInMemory, PlansPart,
       Part, JobInRange, Reorganising
  <2> QED BY <2>3, <2>5 DEF ChainInvariant
<1>10. ASSUME NEW t \in Tx, AddTransaction(t) \/ ReplaceCheapest(t)
       PROVE  ChainInvariant'
  <2>1. /\ UNCHANGED <<memory, height_index, tip_height, block_store, plans>>
        /\ pc = "idle" /\ pc' = "idle"
    BY <1>10 DEF AddTransaction, ReplaceCheapest
  <2> QED BY <2>1, QuietStep DEF Reorganising
<1>11. ASSUME Crash PROVE ChainInvariant'
  BY <1>11 DEF Crash, ChainInvariant, DatabaseHoldsAChain, TipInMemory, PlansPart,
     JobInRange, Reorganising
<1>12. ASSUME Restart PROVE ChainInvariant'
  <2>1. tip_hash' = height_index[tip_height] /\ current_height' = tip_height
    BY <1>12 DEF Restart, ChainInvariant
  <2> QED BY <1>12, <2>1 DEF Restart, ChainInvariant, DatabaseHoldsAChain,
             TipInMemory, PlansPart, Part, JobInRange, Reorganising
<1>13. CASE UNCHANGED vars
  BY <1>13 DEF vars, ChainInvariant, DatabaseHoldsAChain, TipInMemory, PlansPart, Part,
     JobInRange, Reorganising
<1> QED BY <1>1, <1>2, <1>3, <1>4, <1>5, <1>6, <1>7, <1>8, <1>9, <1>10, <1>11,
           <1>12, <1>13 DEF Next

LEMMA ChainInit == Init => TypeOK /\ ChainInvariant
<1> SUFFICES ASSUME Init PROVE TypeOK /\ ChainInvariant
  OBVIOUS
<1>1. Genesis \in Block /\ Height[Genesis] = 0
  BY TreeAssumption DEF TreeAssumption
<1>2. height_index \in [0..0 -> Block] /\ height_index[0] = Genesis
  BY <1>1 DEF Init
<1>3. TypeOK
  BY <1>1, <1>2 DEF Init, TypeOK, NoJob, Job, PCs, Plan, NotIndexed
<1>4. height_index = Branch[Genesis]
  BY <1>1, <1>2, BranchFacts
<1> QED BY <1>1, <1>2, <1>3, <1>4 DEF Init, ChainInvariant, DatabaseHoldsAChain,
           TipInMemory, PlansPart, JobInRange, Reorganising

(***************************************************************************)
(* The database holds one whole chain in every reachable state, whatever   *)
(* the blocks are, however stale the plans and wherever the crashes.       *)
(***************************************************************************)
THEOREM ChainCorrect == Spec => [](TypeOK /\ ChainInvariant)
<1>1. Init => TypeOK /\ ChainInvariant
  BY ChainInit
<1>2. TypeOK /\ ChainInvariant /\ [Next]_vars => (TypeOK /\ ChainInvariant)'
  BY TypeStep, ChainStep
<1> QED BY <1>1, <1>2, PTL DEF Spec

-----------------------------------------------------------------------------
(* What follows from the invariant. *)

(***************************************************************************)
(* Every variable of the chain state keeps its type; in particular the     *)
(* height keys stay a function on 0..tip_height.                           *)
(***************************************************************************)
THEOREM TypeCorrect == Spec => []TypeOK
BY ChainCorrect, PTL

(***************************************************************************)
(* The database holds one whole chain from genesis to its tip, across      *)
(* save_block, stale plans, commit_staged_reorg and crashes.               *)
(***************************************************************************)
THEOREM DatabaseCorrect == Spec => []DatabaseHoldsAChain
<1>1. ChainInvariant => DatabaseHoldsAChain
  BY DEF ChainInvariant
<1> QED BY <1>1, ChainCorrect, PTL

(***************************************************************************)
(* plan_reorg_for_tip never makes a plan that attaches without detaching.  *)
(***************************************************************************)
THEOREM PlansAlwaysDetach == Spec => []PlansDetach
<1>1. ChainInvariant => PlansDetach
  BY DEF ChainInvariant, PlansPart, Part, PlansDetach
<1> QED BY <1>1, ChainCorrect, PTL

(***************************************************************************)
(* atomic_reorg never applies a plan that was made for another tip, though *)
(* the hash of the tip is not among the things it compares.                *)
(***************************************************************************)
THEOREM NoStaleReorg == Spec => ReorgsStartAtThePlannedTip
<1>1. TypeOK /\ ChainInvariant /\ [Next]_vars
         => [\A p \in plans : BeginReorg(p) => p.old = tip_hash]_vars
  BY FittingPlans
<1> QED BY <1>1, ChainCorrect, PTL DEF Spec, ReorgsStartAtThePlannedTip

(***************************************************************************)
(* Why the saved work is that of the memory: it is written in the two      *)
(* steps after the tip moves, and no write of it is pending while the node *)
(* is at genesis.                                                          *)
(***************************************************************************)
WorkIsSaved ==
    /\ pc \notin {"save_block", "save_work", "save_reorg_work", "down"} =>
          total_work = db_total_work
    /\ pc = "save_reorg_work" => job.work = total_work
    /\ pc \in {"save_work", "save_reorg_work"} => tip_height > 0
    /\ tip_height = 0 => db_total_work = 0

LEMMA WorkSavedStep ==
    ASSUME TypeOK, ChainInvariant, WorkIsSaved, [Next]_vars
    PROVE  WorkIsSaved'
<1> USE DEF memory, disk, control, WorkIsSaved
<1>1. pc \in PCs /\ tip_height \in Nat
  BY DEF TypeOK
<1>2. ASSUME SaveBlock PROVE WorkIsSaved'
  <2>1. Height[job.new] = tip_height + 1
    BY <1>2 DEF SaveBlock, ChainInvariant, TipInMemory
  <2>2. tip_height' > 0
    BY <1>1, <1>2, <2>1 DEF SaveBlock, NewTip
  <2> QED BY <1>2, <2>2 DEF SaveBlock
<1>3. ASSUME CommitReorg PROVE WorkIsSaved'
  <2>1. /\ Part(tip_hash, job.new, job.ancestor) /\ job.at = Height[job.new]
        /\ job.new \in Block /\ job.ancestor \in Nat
    BY <1>3 DEF CommitReorg, ChainInvariant, JobInRange, Reorganising, TypeOK, Job
  <2>2. tip_height' > 0
    BY <1>3, <2>1, BranchFacts DEF CommitReorg, Part
  <2> QED BY <1>3, <2>2 DEF CommitReorg
<1>4. ASSUME Restart PROVE WorkIsSaved'
  BY <1>1, <1>4 DEF Restart
<1>5. ASSUME SaveTotalWork \/ SaveReorgWork \/ ClearMarker PROVE WorkIsSaved'
  BY <1>5 DEF SaveTotalWork, SaveReorgWork, ClearMarker
<1>6. ASSUME NEW b \in Block \ {Genesis}, ExtendCanonical(b) PROVE WorkIsSaved'
  BY <1>6 DEF ExtendCanonical
<1>7. ASSUME /\ UNCHANGED <<total_work, db_total_work, tip_height>>
             /\ pc \notin {"save_block", "save_work", "save_reorg_work", "down"}
             /\ pc' \notin {"save_work", "save_reorg_work"}
      PROVE  WorkIsSaved'
  BY <1>7
<1>8. ASSUME Crash PROVE WorkIsSaved'
  BY <1>8 DEF Crash
<1>9. CASE UNCHANGED vars
  BY <1>9 DEF vars
<1>10. CASE Next
  <2>1. ASSUME NEW b \in Block \ {Genesis}, StoredOnSide(b) \/ NeedParent(b)
        PROVE  WorkIsSaved'
    BY <1>7, <2>1 DEF StoredOnSide, NeedParent
  <2>2. ASSUME PlanSwitch \/ PlanKeep PROVE WorkIsSaved'
    BY <1>7, <2>2 DEF PlanSwitch, PlanKeep
  <2>3. ASSUME NEW p \in plans, BeginReorg(p) \/ RejectPlan(p) \/ RefuseReorg(p)
        PROVE  WorkIsSaved'
    BY <1>7, <2>3 DEF BeginReorg, RejectPlan, RefuseReorg
  <2>4. ASSUME DetachUtxos \/ AttachUtxos \/ DetachCoinbases \/ AttachCoinbases
        PROVE  WorkIsSaved'
    BY <1>7, <2>4 DEF DetachUtxos, AttachUtxos, DetachCoinbases, AttachCoinbases
  <2>5. ASSUME NEW t \in Tx, AddTransaction(t) \/ ReplaceCheapest(t)
        PROVE  WorkIsSaved'
    BY <1>7, <2>5 DEF AddTransaction, ReplaceCheapest
  <2> QED BY <1>2, <1>3, <1>4, <1>5, <1>6, <1>8, <1>10, <2>1, <2>2, <2>3, <2>4, <2>5
          DEF Next
<1> QED BY <1>9, <1>10

(***************************************************************************)
(* Whenever no operation is in progress the core and the database name the *)
(* same tip, height and total work: save_block and save_total_work, the    *)
(* batch of atomic_reorg and init_blockchain_from_db see to it, for any    *)
(* blocks and wherever the crashes strike.                                 *)
(***************************************************************************)
THEOREM MemoryCorrect == Spec => []MemoryMatchesDatabase
<1>1. Init => WorkIsSaved
  BY DEF Init, WorkIsSaved
<1>2. TypeOK /\ ChainInvariant /\ WorkIsSaved /\ [Next]_vars => WorkIsSaved'
  BY WorkSavedStep
<1>3. ChainInvariant /\ WorkIsSaved => MemoryMatchesDatabase
  BY DEF ChainInvariant, TipInMemory, WorkIsSaved, MemoryMatchesDatabase
<1> QED BY <1>1, <1>2, <1>3, ChainCorrect, PTL DEF Spec

(***************************************************************************)
(* Exchanging one transaction of the pool for another that is not in it    *)
(* changes the sum of the fees by the difference of the two fees.          *)
(***************************************************************************)
LEMMA FeeOfExchange ==
    ASSUME NEW S \in SUBSET Tx, NEW low \in S, NEW t \in Tx \ S
    PROVE  TotalFee((S \ {low}) \cup {t}) = TotalFee(S) - TxFee[low] + TxFee[t]
<1> DEFINE rest == S \ {low}
<1>1. rest \in SUBSET Tx /\ low \in Tx \ rest /\ t \in Tx \ rest
  OBVIOUS
<1>2. rest \cup {low} = S
  OBVIOUS
<1>3. /\ TotalFee(rest \cup {low}) = TotalFee(rest) + TxFee[low]
      /\ TotalFee(rest \cup {t}) = TotalFee(rest) + TxFee[t]
      /\ TotalFee(rest) \in Nat
  BY <1>1, TreeSums
<1>4. TxFee[low] \in Nat /\ TxFee[t] \in Nat
  BY FeesAreNatural
<1> QED BY <1>2, <1>3, <1>4

(***************************************************************************)
(* The running total of the mempool is the sum of its fees, whether blocks *)
(* settle transactions, a full pool exchanges them or a reorganisation     *)
(* brings them back.                                                       *)
(***************************************************************************)
THEOREM FeeTotalCorrect == Spec => []FeeTotalIsTheSum
<1> USE DEF FeeTotalIsTheSum, pool
<1>1. Init => FeeTotalIsTheSum
  BY TreeSums DEF Init
<1>2. TypeOK /\ FeeTotalIsTheSum /\ [Next]_vars => FeeTotalIsTheSum'
  <2> SUFFICES ASSUME TypeOK, FeeTotalIsTheSum, [Next]_vars
               PROVE  FeeTotalIsTheSum'
    OBVIOUS
  <2>1. pending \in SUBSET Tx
    BY DEF TypeOK
  <2>2. ASSUME NEW b \in Block \ {Genesis}, ExtendCanonical(b)
        PROVE  FeeTotalIsTheSum'
    BY <2>2 DEF ExtendCanonical
  <2>3. ASSUME CommitReorg PROVE FeeTotalIsTheSum'
    BY <2>3 DEF CommitReorg
  <2>4. ASSUME NEW t \in Tx, AddTransaction(t) PROVE FeeTotalIsTheSum'
    <3>1. t \in Tx \ pending
      BY <2>4 DEF AddTransaction, Admissible
    <3>2. TotalFee(pending \cup {t}) = TotalFee(pending) + TxFee[t]
      BY <2>1, <3>1, TreeSums
    <3> QED BY <2>4, <3>2 DEF AddTransaction
  <2>5. ASSUME NEW t \in Tx, ReplaceCheapest(t) PROVE FeeTotalIsTheSum'
    <3>1. t \in Tx \ pending
      BY <2>5 DEF ReplaceCheapest, Admissible
    <3>2. PICK low \in pending :
             /\ pending' = (pending \ {low}) \cup {t}
             /\ fee_total' = fee_total - TxFee[low] + TxFee[t]
      BY <2>5 DEF ReplaceCheapest
    <3> QED BY <2>1, <3>1, <3>2, FeeOfExchange
  <2>6. ASSUME Crash PROVE FeeTotalIsTheSum'
    BY <2>6, TreeSums DEF Crash
  <2>7. ASSUME UNCHANGED pool PROVE FeeTotalIsTheSum'
    BY <2>7
  <2>8. \/ \E b \in Block \ {Genesis} : ExtendCanonical(b)
        \/ CommitReorg \/ Crash \/ UNCHANGED pool
        \/ \E t \in Tx : AddTransaction(t) \/ ReplaceCheapest(t)
    BY DEF Next, vars, StoredOnSide, NeedParent, SaveBlock, SaveTotalWork,
       PlanSwitch, PlanKeep, BeginReorg, RejectPlan, RefuseReorg, DetachUtxos,
       AttachUtxos, DetachCoinbases, AttachCoinbases, SaveReorgWork, ClearMarker, Restart
  <2> QED BY <2>2, <2>3, <2>4, <2>5, <2>6, <2>7, <2>8
<1> QED BY <1>1, <1>2, TypeCorrect, PTL DEF Spec

-----------------------------------------------------------------------------
(***************************************************************************)
(* The chain state implements Ledger, for every tree of honest blocks, when*)
(* nothing crashes.  The argument goes block by block: a detach takes the  *)
(* outputs and the work from a block to its parent, an attach from a parent*)
(* to its block, and between the two the running reorganisation is where   *)
(* its working_height says.                                                *)
(***************************************************************************)
NeverCrashes == crashes = 0 /\ pc # "down"

(***************************************************************************)
(* Why the outputs and the work are the replay's.                          *)
(***************************************************************************)
LedgerInvariant ==
    /\ NeverCrashes
    /\ UtxosAreTheReplay /\ WorkIsTheReplay /\ ReorgFollowsTheBranches

-----------------------------------------------------------------------------
(* One block, detached and attached. *)

(***************************************************************************)
(* The work of a branch is the work of its parent's and its own.           *)
(***************************************************************************)
LEMMA WorkOfParent ==
    ASSUME NEW b \in Block
    PROVE  /\ WorkOfBranch(b) \in Nat
           /\ WorkOfBranch(Genesis) = 0
           /\ b # Genesis => WorkOfBranch(b) = WorkOfBranch(Prev[b]) + Work[b]
<1> DEFINE Above(x) == {Branch[x][h] : h \in 1..Height[x]}
<1>1. Above(b) \in SUBSET Block
  BY BranchFacts
<1>2. WorkOfBranch(b) \in Nat
  BY <1>1, TreeSums DEF WorkOfBranch
<1>3. WorkOfBranch(Genesis) = 0
  <2>1. Height[Genesis] = 0
    BY TreeAssumption DEF TreeAssumption
  <2>2. Above(Genesis) = {}
    BY <2>1
  <2> QED BY <2>2, TreeSums DEF WorkOfBranch
<1>4. ASSUME b # Genesis PROVE WorkOfBranch(b) = WorkOfBranch(Prev[b]) + Work[b]
  <2> DEFINE p == Prev[b]
  <2>1. /\ p \in Block /\ Height[b] \in Nat /\ Height[b] > 0
        /\ Height[p] = Height[b] - 1 /\ Branch[b][Height[p]] = p
        /\ Branch[b][Height[b]] = b
    BY <1>4, BranchFacts
  <2>2. \A h \in 1..Height[p] : Branch[p][h] = Branch[b][h]
    <3>1. Height[p] \in 0..Height[b]
      BY <2>1
    <3> QED BY <2>1, <3>1, BranchFacts
  <2>3. Above(b) = Above(p) \cup {b}
    <3>1. \A x : x \in Above(b) <=> x \in Above(p) \cup {b}
      <4> SUFFICES ASSUME NEW x PROVE x \in Above(b) <=> x \in Above(p) \cup {b}
        OBVIOUS
      <4>1. ASSUME x \in Above(b) PROVE x \in Above(p) \cup {b}
        <5>1. PICK h \in 1..Height[b] : x = Branch[b][h]
          BY <4>1
        <5>2. CASE h = Height[b]
          BY <5>1, <5>2, <2>1
        <5>3. CASE h # Height[b]
          <6>1. h \in 1..Height[p]
            BY <5>3, <2>1
          <6> QED BY <5>1, <6>1, <2>2
        <5> QED BY <5>2, <5>3
      <4>2. ASSUME x \in Above(p) PROVE x \in Above(b)
        <5>1. PICK h \in 1..Height[p] : x = Branch[p][h]
          BY <4>2
        <5>2. h \in 1..Height[b] /\ Branch[b][h] = Branch[p][h]
          BY <2>1, <2>2
        <5> QED BY <5>1, <5>2
      <4>3. b \in Above(b)
        BY <2>1
      <4> QED BY <4>1, <4>2, <4>3
    <3> QED BY <3>1
  <2>4. Above(p) \in SUBSET Block
    BY <2>1, BranchFacts
  <2>5. b \notin Above(p)
    <3> SUFFICES ASSUME NEW h \in 1..Height[p], Branch[p][h] = b PROVE FALSE
      OBVIOUS
    <3>1. Height[Branch[p][h]] = h
      BY SMTT(30), <2>1, BranchFacts
    <3> QED BY <2>1, <3>1
  <2> QED BY <2>3, <2>4, <2>5, TreeSums DEF WorkOfBranch
<1> QED BY <1>2, <1>3, <1>4

(***************************************************************************)
(* Attaching a block takes the replay from its parent to it.               *)
(***************************************************************************)
LEMMA AttachOne ==
    ASSUME NEW b \in Block \ {Genesis}
    PROVE  SpendAndCreate(UtxoAfter[Prev[b]], b) = UtxoAfter[b]
BY ReplayAssumption DEF ReplayAssumption

(***************************************************************************)
(* An input of an honest block was created, at its source height, below it *)
(* on its own branch.                                                      *)
(***************************************************************************)
LEMMA SourceFacts ==
    ASSUME HonestTree, NEW b \in Block \ {Genesis}, NEW c \in BlockIns(b)
    PROVE  /\ SourceOf(b, c) \in 0..Height[Prev[b]]
           /\ c \in BlockOuts(Branch[b][SourceOf(b, c)])
           /\ Branch[b][SourceOf(b, c)] = Branch[Prev[b]][SourceOf(b, c)]
<1> DEFINE t == CHOOSE t \in BlockTxs[b] : c \in TxIns[t]
<1>1. t \in BlockTxs[b] /\ c \in TxIns[t]
  BY DEF BlockIns
<1>2. SourceOf(b, c) = SourceHeight[t][c]
  BY DEF SourceOf
<1>3. SourceHeight[t][c] \in Nat
  <2>1. t \in Tx
    BY <1>1, TxAssumption DEF TxAssumption
  <2>2. c \in Commitment
    BY <1>1, <2>1, TxAssumption DEF TxAssumption
  <2> QED BY <2>1, <2>2, TxAssumption DEF TxAssumption
<1>4. /\ SourceHeight[t][c] < Height[b]
      /\ c \in BlockOuts(Branch[b][SourceHeight[t][c]])
  BY <1>1 DEF HonestTree, SourcesOnBranch
<1>5. PICK s \in Nat : s = SourceHeight[t][c]
  BY <1>3
<1>6. /\ Prev[b] \in Block /\ Height[b] \in Nat /\ Height[Prev[b]] = Height[b] - 1
      /\ Branch[b][Height[Prev[b]]] = Prev[b] /\ Height[Prev[b]] \in 0..Height[b]
  <2>1. /\ Prev[b] \in Block /\ Height[b] \in Nat /\ Height[Prev[b]] = Height[b] - 1
        /\ Branch[b][Height[Prev[b]]] = Prev[b] /\ Height[b] > 0
    BY BranchFacts
  <2> QED BY <2>1
<1>7. s \in 0..Height[Prev[b]]
  BY <1>4, <1>5, <1>6
<1>8. Branch[b][s] = Branch[Prev[b]][s]
  BY <1>6, <1>7, BranchFacts
<1> QED BY <1>2, <1>4, <1>5, <1>7, <1>8

(***************************************************************************)
(* Detaching an honest canonical block takes the replay from it to its     *)
(* parent: every input it spent is found at its source height.             *)
(***************************************************************************)
LEMMA DetachOne ==
    ASSUME HonestTree, NEW tip \in Block, height_index = Branch[tip],
           NEW k \in 1..Height[tip]
    PROVE  LET b == height_index[k] IN
           /\ b \in Block \ {Genesis} /\ height_index[k - 1] = Prev[b]
           /\ (UtxoAfter[b] \ BlockOuts(b)) \cup Restored(b) = UtxoAfter[Prev[b]]
<1> DEFINE b == height_index[k]
           before == UtxoAfter[Prev[b]]
<1>1. Height[tip] \in Nat /\ k \in 0..Height[tip]
  BY BranchFacts
<1>2. /\ b \in Block /\ Height[b] = k
      /\ \A h \in 0..k : Branch[b][h] = height_index[h]
  BY <1>1, BranchFacts
<1>3. b # Genesis
  BY <1>2, TreeAssumption DEF TreeAssumption
<1>4. height_index[k - 1] = Prev[b]
  <2>1. Branch[b][k - 1] = Prev[b]
    BY <1>2, <1>3, BranchFacts
  <2> QED BY <1>1, <1>2, <2>1
<1>5. ValidOnParent(b) /\ FreshOutputs(b) /\ SourcesOnBranch(b)
  BY <1>2, <1>3 DEF HonestTree, ValidTree
<1>6. Restored(b) = BlockIns(b)
  <2> SUFFICES ASSUME NEW c \in BlockIns(b)
               PROVE  c \in BlockOuts(height_index[SourceOf(b, c)])
    BY DEF Restored
  <2>1. /\ SourceOf(b, c) \in 0..Height[Prev[b]]
        /\ c \in BlockOuts(Branch[b][SourceOf(b, c)])
    BY <1>2, <1>3, SourceFacts
  <2>2. Height[Prev[b]] < k
    BY <1>1, <1>2, <1>3, BranchFacts
  <2>3. Height[Prev[b]] \in Nat
    BY <1>2, <1>3, BranchFacts
  <2>4. SourceOf(b, c) \in 0..k
    BY <1>1, <2>1, <2>2, <2>3
  <2> QED BY <1>2, <2>1, <2>4
<1>7. UtxoAfter[b] = (before \ BlockIns(b)) \cup BlockOuts(b)
  BY <1>2, <1>3, AttachOne DEF SpendAndCreate
<1>8. BlockIns(b) \subseteq before /\ BlockOuts(b) \cap before = {}
  BY <1>5 DEF ValidOnParent, FreshOutputs
<1>9. (((before \ BlockIns(b)) \cup BlockOuts(b)) \ BlockOuts(b)) \cup BlockIns(b)
         = before
  BY <1>8
<1> QED BY <1>2, <1>3, <1>4, <1>6, <1>7, <1>9

-----------------------------------------------------------------------------
(***************************************************************************)
(* A step that moves neither the tip nor the outputs, in a reorganisation  *)
(* neither before nor after, preserves the invariant.                      *)
(***************************************************************************)
LEMMA CalmStep ==
    ASSUME LedgerInvariant, UNCHANGED <<tip_hash, total_work, utxo_set, crashes>>,
           ~Reorganising, ~Reorganising', pc' # "down", pc \in PCs
    PROVE  LedgerInvariant'
BY DEF LedgerInvariant, NeverCrashes, UtxosAreTheReplay, Settled, LedgerTip,
       WorkIsTheReplay, WorkOfBranch, ReorgFollowsTheBranches, Reorganising, PCs

(***************************************************************************)
(* One step of a running reorganisation moves the outputs and the working  *)
(* total by one block.                                                     *)
(***************************************************************************)
LEMMA WalkStep ==
    ASSUME HonestTree, TypeOK, ChainInvariant, LedgerInvariant,
           DetachUtxos \/ AttachUtxos
    PROVE  LedgerInvariant'
<1> USE DEF memory, control
<1>1. /\ Part(tip_hash, job.new, job.ancestor) /\ job.from = job.ancestor
      /\ pc = "detach_utxos" => job.ancestor < job.at /\ job.at <= current_height
      /\ pc = "attach_utxos" => job.ancestor <= job.at /\ job.at < Height[job.new]
      /\ Reorganising /\ pc \notin {"save_block", "down"}
  BY DEF DetachUtxos, AttachUtxos, ChainInvariant, JobInRange, Reorganising
<1>2. /\ job \in Job /\ job.new \in Block /\ Height[job.new] \in Nat
      /\ job.ancestor \in Nat /\ job.at \in Nat /\ job.work \in Nat
  BY BranchFacts DEF TypeOK, Job
<1>3. /\ tip_hash \in Block /\ height_index = Branch[tip_hash]
      /\ current_height = Height[tip_hash] /\ current_height \in Nat
  BY <1>1, TipFacts, BranchFacts
<1>4. utxo_set = UtxoAfter[Reached] /\ job.work = WorkOfBranch(Reached)
  BY <1>1 DEF LedgerInvariant, ReorgFollowsTheBranches
<1>5. /\ UNCHANGED <<memory, height_index, crashes>>
      /\ Reorganising' /\ pc' \notin {"commit", "down"}
  BY DEF DetachUtxos, AttachUtxos, disk, Reorganising
<1>6. ASSUME DetachUtxos
      PROVE  utxo_set' = UtxoAfter[Reached'] /\ job'.work = WorkOfBranch(Reached')
  <2> DEFINE b == height_index[job.at]
  <2>1. /\ pc = "detach_utxos" /\ Reached = b
        /\ utxo_set' = (utxo_set \ BlockOuts(b)) \cup Restored(b)
        /\ job'.at = job.at - 1 /\ job'.work = Minus(job.work, Work[b])
        /\ job'.new = job.new
        /\ pc' = IF job'.at = job.ancestor THEN "attach_utxos" ELSE "detach_utxos"
    BY <1>2, <1>6 DEF DetachUtxos, Reached, Job
  <2>2. job.at \in 1..Height[tip_hash]
    BY <1>1, <1>2, <1>3, <2>1
  <2>3. /\ b \in Block \ {Genesis} /\ height_index[job.at - 1] = Prev[b]
        /\ (UtxoAfter[b] \ BlockOuts(b)) \cup Restored(b) = UtxoAfter[Prev[b]]
    BY <1>3, <2>2, DetachOne
  <2>4. Reached' = Prev[b]
    <3>1. CASE job.at - 1 # job.ancestor
      BY <1>5, <2>1, <2>3, <3>1 DEF Reached
    <3>2. CASE job.at - 1 = job.ancestor
      <4>1. Reached' = Branch[job.new][job.ancestor]
        BY <2>1, <3>2 DEF Reached
      <4>2. Branch[job.new][job.ancestor] = height_index[job.ancestor]
        BY <1>1, <1>3 DEF Part
      <4> QED BY <2>3, <3>2, <4>1, <4>2
    <3> QED BY <3>1, <3>2
  <2>5. job'.work = WorkOfBranch(Prev[b])
    <3>1. /\ WorkOfBranch(b) = WorkOfBranch(Prev[b]) + Work[b]
          /\ Prev[b] \in Block /\ Work[b] \in Nat
      BY <2>3, WorkOfParent, BranchFacts, FeesAreNatural
    <3>2. WorkOfBranch(Prev[b]) \in Nat
      BY <3>1, WorkOfParent
    <3>3. job.work = WorkOfBranch(b)
      BY <1>4, <2>1
    <3> QED BY <2>1, <3>1, <3>2, <3>3 DEF Minus
  <2> QED BY <1>4, <2>1, <2>3, <2>4, <2>5
<1>7. ASSUME AttachUtxos
      PROVE  utxo_set' = UtxoAfter[Reached'] /\ job'.work = WorkOfBranch(Reached')
  <2> DEFINE b == Branch[job.new][job.at + 1]
  <2>1. pc = "attach_utxos" /\ Reached = Branch[job.new][job.at] /\ NextAttached = b
    BY <1>1, <1>2, <1>7 DEF AttachUtxos, Reached, NextAttached
  <2>2. job.at + 1 \in 0..Height[job.new]
    BY <1>1, <1>2, <2>1
  <2>3. /\ b \in Block \ {Genesis} /\ Prev[b] = Reached
    <3>1. /\ b \in Block /\ Height[b] = job.at + 1
          /\ \A h \in 0..(job.at + 1) : Branch[b][h] = Branch[job.new][h]
      BY <1>2, <2>2, BranchFacts
    <3>2. b # Genesis
      BY <1>2, <3>1, TreeAssumption DEF TreeAssumption
    <3>3. Prev[b] = Branch[b][job.at]
      <4>1. Prev[b] = Branch[b][Height[b] - 1]
        BY <3>1, <3>2, BranchFacts
      <4>2. Height[b] - 1 = job.at
        BY <1>2, <3>1
      <4> QED BY <4>1, <4>2
    <3>4. job.at \in 0..(job.at + 1)
      BY <1>2
    <3> QED BY <2>1, <3>1, <3>2, <3>3, <3>4
  <2>4. /\ job'.work = job.work + Work[b] /\ job'.new = job.new
        /\ utxo_set' = SpendAndCreate(utxo_set, b)
    BY <1>2, <1>7, <2>1 DEF AttachUtxos, Job
  <2>5. Reached' = b
    <3>1. CASE b = job.new
      <4>1. pc' \in {"attach_coinbases", "detach_coinbases"}
        BY <1>7, <2>1, <3>1 DEF AttachUtxos
      <4> QED BY <2>4, <3>1, <4>1 DEF Reached
    <3>2. CASE b # job.new
      <4>1. /\ pc' = "attach_utxos"
            /\ job' = [job EXCEPT !.at = job.at + 1, !.work = job.work + Work[b]]
        BY <1>7, <2>1, <3>2 DEF AttachUtxos
      <4>2. job'.at = job.at + 1
        BY <1>2, <4>1 DEF Job
      <4> QED BY <2>4, <4>1, <4>2 DEF Reached
    <3> QED BY <3>1, <3>2
  <2>6. UtxoAfter[b] = utxo_set' /\ WorkOfBranch(b) = job'.work
    BY <1>4, <2>3, <2>4, AttachOne, WorkOfParent
  <2> QED BY <2>5, <2>6
<1>8. utxo_set' = UtxoAfter[Reached'] /\ job'.work = WorkOfBranch(Reached')
  BY <1>6, <1>7
<1>9. ~Settled'
  BY DEF DetachUtxos, AttachUtxos, Settled
<1>10. NeverCrashes'
  BY <1>5 DEF LedgerInvariant, NeverCrashes
<1>11. WorkIsTheReplay'
  BY <1>5 DEF LedgerInvariant, WorkIsTheReplay, WorkOfBranch
<1> QED BY <1>8, <1>9, <1>10, <1>11
        DEF LedgerInvariant, UtxosAreTheReplay, ReorgFollowsTheBranches, WorkOfBranch

LEMMA LedgerStep ==
    ASSUME HonestTree, MaxCrashes = 0, TypeOK, ChainInvariant, LedgerInvariant,
           [Next]_vars
    PROVE  LedgerInvariant'
<1> USE DEF memory, ledger, disk, control
<1>1. pc \in PCs /\ pc # "down" /\ crashes = 0
  BY DEF TypeOK, LedgerInvariant, NeverCrashes
<1>2. ASSUME NEW b \in Block \ {Genesis}, ExtendCanonical(b) PROVE LedgerInvariant'
  <2>1. /\ pc = "idle" /\ pc' = "save_block" /\ Prev[b] = tip_hash /\ tip_hash' = b
        /\ utxo_set' = SpendAndCreate(utxo_set, b)
        /\ total_work' = total_work + Work[b] /\ UNCHANGED crashes
    BY <1>2 DEF ExtendCanonical, ExtendsTip
  <2>2. utxo_set = UtxoAfter[Prev[b]] /\ total_work = WorkOfBranch(Prev[b])
    BY <2>1 DEF LedgerInvariant, UtxosAreTheReplay, Settled, LedgerTip,
                WorkIsTheReplay
  <2>3. utxo_set' = UtxoAfter[b] /\ total_work' = WorkOfBranch(b)
    BY <2>1, <2>2, AttachOne, WorkOfParent
  <2> QED BY <1>1, <2>1, <2>3 DEF LedgerInvariant, NeverCrashes, UtxosAreTheReplay,
             LedgerTip, WorkIsTheReplay, WorkOfBranch, ReorgFollowsTheBranches,
             Reorganising
<1>3. ASSUME NEW p \in plans, BeginReorg(p) PROVE LedgerInvariant'
  <2>1. /\ DetachCount(p) = 1 /\ current_height - DetachCount(p) = p.ancestor
    BY <1>3, FittingPlans
  <2>2. /\ tip_hash \in Block /\ height_index = Branch[tip_hash]
        /\ current_height = Height[tip_hash]
    BY <1>3, TipFacts DEF BeginReorg
  <2>3. /\ pc = "idle" /\ pc' = "detach_utxos"
        /\ job'.at = current_height /\ job'.work = total_work
        /\ UNCHANGED <<tip_hash, total_work, utxo_set, height_index, crashes>>
    BY <1>3, <2>1 DEF BeginReorg
  <2>4. Reached' = tip_hash
    BY <2>2, <2>3, BranchFacts DEF Reached
  <2>5. utxo_set = UtxoAfter[tip_hash] /\ total_work = WorkOfBranch(tip_hash)
    BY <2>3 DEF LedgerInvariant, UtxosAreTheReplay, Settled, LedgerTip,
                WorkIsTheReplay
  <2>6. ~Settled'
    BY <2>3 DEF Settled
  <2> QED BY <1>1, <2>3, <2>4, <2>5, <2>6 DEF LedgerInvariant, NeverCrashes,
             UtxosAreTheReplay, WorkIsTheReplay, WorkOfBranch, ReorgFollowsTheBranches
<1>4. ASSUME DetachUtxos \/ AttachUtxos PROVE LedgerInvariant'
  BY <1>4, WalkStep
<1>5. ASSUME DetachCoinbases \/ AttachCoinbases PROVE LedgerInvariant'
  <2>1. /\ pc \in {"detach_coinbases", "attach_coinbases"}
        /\ pc' \in {"detach_coinbases", "attach_coinbases", "commit"}
        /\ UNCHANGED <<tip_hash, total_work, utxo_set, crashes>>
    BY <1>5 DEF DetachCoinbases, AttachCoinbases
  <2>2. job'.new = job.new /\ job'.work = job.work
    BY <1>5 DEF DetachCoinbases, AttachCoinbases, TypeOK, Job
  <2>3. utxo_set = UtxoAfter[job.new] /\ job.work = WorkOfBranch(job.new)
    BY <2>1 DEF LedgerInvariant, ReorgFollowsTheBranches, Reorganising, Reached
  <2>4. Reached' = job.new /\ (Settled' => LedgerTip' = job.new)
    BY <2>1, <2>2 DEF Reached, Settled, LedgerTip
  <2> QED BY <1>1, <2>1, <2>2, <2>3, <2>4 DEF LedgerInvariant, NeverCrashes,
             UtxosAreTheReplay, WorkIsTheReplay, WorkOfBranch, ReorgFollowsTheBranches
<1>6. ASSUME CommitReorg PROVE LedgerInvariant'
  <2>1. /\ pc = "commit" /\ pc' = "save_reorg_work" /\ tip_hash' = job.new
        /\ total_work' = job.work /\ UNCHANGED <<utxo_set, crashes>>
    BY <1>6 DEF CommitReorg
  <2>2. utxo_set = UtxoAfter[job.new] /\ job.work = WorkOfBranch(job.new)
    BY <2>1 DEF LedgerInvariant, ReorgFollowsTheBranches, Reorganising, Reached
  <2> QED BY <1>1, <2>1, <2>2 DEF LedgerInvariant, NeverCrashes, UtxosAreTheReplay,
             LedgerTip, WorkIsTheReplay, WorkOfBranch, ReorgFollowsTheBranches,
             Reorganising
<1>7. ASSUME /\ UNCHANGED <<tip_hash, total_work, utxo_set, crashes>>
             /\ ~Reorganising /\ ~Reorganising' /\ pc' # "down"
      PROVE  LedgerInvariant'
  BY <1>1, <1>7, CalmStep
<1>8. ~Crash /\ ~Restart
  BY <1>1 DEF Crash, Restart
<1>9. CASE UNCHANGED vars
  BY <1>9 DEF vars, LedgerInvariant, NeverCrashes, UtxosAreTheReplay, Settled,
     LedgerTip, WorkIsTheReplay, WorkOfBranch, ReorgFollowsTheBranches, Reorganising,
     Reached
<1>10. CASE Next
  <2>1. ASSUME NEW b \in Block \ {Genesis}, StoredOnSide(b) \/ NeedParent(b)
        PROVE  LedgerInvariant'
    BY <1>7, <2>1 DEF StoredOnSide, NeedParent, Reorganising
  <2>2. ASSUME SaveBlock \/ SaveTotalWork \/ PlanSwitch \/ PlanKeep
        PROVE  LedgerInvariant'
    BY <1>7, <2>2 DEF SaveBlock, SaveTotalWork, PlanSwitch, PlanKeep, Reorganising
  <2>3. ASSUME NEW p \in plans, RejectPlan(p) \/ RefuseReorg(p) PROVE LedgerInvariant'
    BY <1>7, <2>3 DEF RejectPlan, RefuseReorg, Reorganising
  <2>4. ASSUME SaveReorgWork \/ ClearMarker PROVE LedgerInvariant'
    BY <1>7, <2>4 DEF SaveReorgWork, ClearMarker, Reorganising
  <2>5. ASSUME NEW t \in Tx, AddTransaction(t) \/ ReplaceCheapest(t)
        PROVE  LedgerInvariant'
    BY <1>7, <2>5 DEF AddTransaction, ReplaceCheapest, Reorganising
  <2> QED BY <1>2, <1>3, <1>4, <1>5, <1>6, <1>8, <1>10, <2>1, <2>2, <2>3, <2>4, <2>5
          DEF Next
<1> QED BY <1>9, <1>10

(***************************************************************************)
(* When all blocks are honest and nothing crashes, the strengthened ledger *)
(* invariant holds in every reachable state.                               *)
(***************************************************************************)
THEOREM LedgerCorrect ==
    ASSUME HonestTree, MaxCrashes = 0
    PROVE  Spec => [](TypeOK /\ ChainInvariant /\ LedgerInvariant)
<1>1. Init => LedgerInvariant
  <2> SUFFICES ASSUME Init PROVE LedgerInvariant
    OBVIOUS
  <2>1. UtxoAfter[Genesis] = {} /\ WorkOfBranch(Genesis) = 0
    BY ReplayAssumption, WorkOfParent, TreeAssumption
       DEF ReplayAssumption, TreeAssumption
  <2> QED BY <2>1 DEF Init, LedgerInvariant, NeverCrashes, UtxosAreTheReplay,
             LedgerTip, WorkIsTheReplay, ReorgFollowsTheBranches, Reorganising
<1>2. TypeOK /\ ChainInvariant /\ LedgerInvariant /\ [Next]_vars => LedgerInvariant'
  BY LedgerStep
<1> QED BY <1>1, <1>2, ChainCorrect, PTL DEF Spec

(***************************************************************************)
(* The unspent outputs are the replay of the canonical chain, whatever     *)
(* sequence of blocks and reorganisations led to it.                       *)
(***************************************************************************)
THEOREM UtxosCorrect ==
    ASSUME HonestTree, MaxCrashes = 0
    PROVE  Spec => []UtxosAreTheReplay
<1>1. LedgerInvariant => UtxosAreTheReplay
  BY DEF LedgerInvariant
<1> QED BY <1>1, LedgerCorrect, PTL

(***************************************************************************)
(* total_work, which saturates when it is subtracted from, is the work of  *)
(* the canonical chain.                                                    *)
(***************************************************************************)
THEOREM WorkCorrect ==
    ASSUME HonestTree, MaxCrashes = 0
    PROVE  Spec => []WorkIsTheReplay
<1>1. LedgerInvariant => WorkIsTheReplay
  BY DEF LedgerInvariant
<1> QED BY <1>1, LedgerCorrect, PTL

(***************************************************************************)
(* At every step of atomic_reorg the outputs and the working total are     *)
(* those of the block it has reached, down the old branch and up the new.  *)
(***************************************************************************)
THEOREM ReorgCorrect ==
    ASSUME HonestTree, MaxCrashes = 0
    PROVE  Spec => []ReorgFollowsTheBranches
<1>1. LedgerInvariant => ReorgFollowsTheBranches
  BY DEF LedgerInvariant
<1> QED BY <1>1, LedgerCorrect, PTL

-----------------------------------------------------------------------------
(* The coinbase index. *)

(***************************************************************************)
(* The replay's index holds exactly the live coinbase outputs, each at the *)
(* height of the block of the branch that created it.                      *)
(***************************************************************************)
LEMMA IndexFacts ==
    ASSUME HonestTree, OutputsBornOnce, NEW x \in Block
    PROVE  /\ \A c \in Commitment : IndexAfter[x][c] # NotIndexed =>
                 /\ c \in UtxoAfter[x] /\ IndexAfter[x][c] \in 1..Height[x]
                 /\ c \in CoinbaseOuts(Branch[x][IndexAfter[x][c]])
           /\ \A c \in UtxoAfter[x] : \A h \in 1..Height[x] :
                 c \in CoinbaseOuts(Branch[x][h]) => IndexAfter[x][c] = h
<1> DEFINE Entries(y) ==
              \A c \in Commitment : IndexAfter[y][c] # NotIndexed =>
                 /\ c \in UtxoAfter[y] /\ IndexAfter[y][c] \in 1..Height[y]
                 /\ c \in CoinbaseOuts(Branch[y][IndexAfter[y][c]])
           Live(y) ==
              \A c \in UtxoAfter[y] : \A h \in 1..Height[y] :
                 c \in CoinbaseOuts(Branch[y][h]) => IndexAfter[y][c] = h
           T == {y \in Block : Entries(y) /\ Live(y)}
<1>1. Genesis \in T
  <2>1. /\ Genesis \in Block /\ UtxoAfter[Genesis] = {}
        /\ \A c \in Commitment : IndexAfter[Genesis][c] = NotIndexed
    BY TreeAssumption, ReplayAssumption DEF TreeAssumption, ReplayAssumption
  <2> QED BY <2>1
<1>2. ASSUME NEW b \in Block \ {Genesis}, Prev[b] \in T PROVE b \in T
  <2> DEFINE p == Prev[b]
  <2>1. /\ p \in Block /\ Height[p] \in Nat /\ Height[b] = Height[p] + 1
        /\ Branch[b][Height[b]] = b
        /\ \A h \in 0..Height[p] : Branch[b][h] = Branch[p][h]
    BY ParentFacts
  <2>2. /\ UtxoAfter[b] = (UtxoAfter[p] \ BlockIns(b)) \cup BlockOuts(b)
        /\ \A c \in Commitment :
              IndexAfter[b][c] = IF c \in CoinbaseOuts(b) THEN Height[b]
                                 ELSE IF c \in BlockIns(b) THEN NotIndexed
                                 ELSE IndexAfter[p][c]
        /\ UtxoAfter[b] \subseteq Commitment
    BY ReplayAssumption DEF ReplayAssumption, SpendAndCreate, IndexBlock
  <2>3. CoinbaseOuts(b) \subseteq BlockOuts(b)
    BY DEF CoinbaseOuts, BlockOuts
  <2>4. Entries(b)
    <3> SUFFICES ASSUME NEW c \in Commitment, IndexAfter[b][c] # NotIndexed
                 PROVE  /\ c \in UtxoAfter[b] /\ IndexAfter[b][c] \in 1..Height[b]
                        /\ c \in CoinbaseOuts(Branch[b][IndexAfter[b][c]])
      OBVIOUS
    <3>1. CASE c \in CoinbaseOuts(b)
      BY <2>1, <2>2, <2>3, <3>1
    <3>2. CASE c \notin CoinbaseOuts(b)
      <4>1. c \notin BlockIns(b) /\ IndexAfter[b][c] = IndexAfter[p][c]
        BY <2>2, <3>2
      <4>2. PICK h \in 1..Height[p] : h = IndexAfter[p][c]
        BY <1>2, <4>1
      <4>3. c \in UtxoAfter[p] /\ c \in CoinbaseOuts(Branch[p][h])
        BY <1>2, <4>1, <4>2
      <4>4. h \in 1..Height[b] /\ Branch[b][h] = Branch[p][h]
        BY <2>1
      <4> QED BY <2>2, <4>1, <4>2, <4>3, <4>4
    <3> QED BY <3>1, <3>2
  <2>5. Live(b)
    <3> SUFFICES ASSUME NEW c \in UtxoAfter[b], NEW h \in 1..Height[b],
                        c \in CoinbaseOuts(Branch[b][h])
                 PROVE  IndexAfter[b][c] = h
      OBVIOUS
    <3>1. CASE h = Height[b]
      BY <2>1, <2>2, <3>1
    <3>2. CASE h # Height[b]
      <4>1. h \in 1..Height[p] /\ Branch[b][h] = Branch[p][h]
        BY <2>1, <3>2
      <4>2. c \in BlockOuts(Branch[b][h])
        BY DEF CoinbaseOuts, BlockOuts
      <4>3. c \notin BlockOuts(b)
        <5>1. h \in 0..Height[b] /\ Height[b] \in 0..Height[b]
          BY <2>1
        <5>2. BlockOuts(Branch[b][h]) \cap BlockOuts(Branch[b][Height[b]]) = {}
          BY <3>2, <5>1 DEF OutputsBornOnce
        <5> QED BY <2>1, <4>2, <5>2
      <4>4. c \in UtxoAfter[p] /\ c \notin BlockIns(b)
        BY <2>2, <4>3
      <4>5. IndexAfter[p][c] = h
        BY <1>2, <4>1, <4>4
      <4> QED BY <2>2, <2>3, <4>3, <4>4, <4>5
    <3> QED BY <3>1, <3>2
  <2> QED BY <2>4, <2>5
<1>3. \A y \in Block : y \in T
  <2> HIDE DEF T
  <2> QED BY <1>1, <1>2, TreeInduction
<1> QED BY <1>3

(***************************************************************************)
(* What is recorded of the coinbases at block x: memory has the replay's   *)
(* index; the database agrees on the live outputs, and its other entries   *)
(* are of coinbases that were born on the branch and are spent.            *)
(***************************************************************************)
IndexesFit(memory_index, stored_index, x) ==
    /\ memory_index = IndexAfter[x]
    /\ \A c \in UtxoAfter[x] : stored_index[c] = IndexAfter[x][c]
    /\ \A c \in Commitment : stored_index[c] # NotIndexed =>
          /\ stored_index[c] \in 1..Height[x]
          /\ c \in CoinbaseOuts(Branch[x][stored_index[c]])

(***************************************************************************)
(* Attaching a block, or extending the tip by it, keeps the records; of    *)
(* the two only the attach deletes the entries of spent coinbases.         *)
(***************************************************************************)
LEMMA IndexAttach ==
    ASSUME HonestTree, OutputsBornOnce, NEW b \in Block \ {Genesis},
           NEW mem \in [Commitment -> Nat], NEW db \in [Commitment -> Nat],
           IndexesFit(mem, db, Prev[b]), NEW db2 \in [Commitment -> Nat],
           \A c \in Commitment :
              /\ c \in CoinbaseOuts(b) => db2[c] = Height[b]
              /\ c \notin CoinbaseOuts(b) =>
                    \/ db2[c] = db[c]
                    \/ c \in BlockIns(b) /\ db2[c] = NotIndexed
    PROVE  IndexesFit(IndexBlock(mem, b), db2, b)
<1> DEFINE p == Prev[b]
<1>1. /\ p \in Block /\ Height[p] \in Nat /\ Height[b] = Height[p] + 1
      /\ Branch[b][Height[b]] = b
      /\ \A h \in 0..Height[p] : Branch[b][h] = Branch[p][h]
  BY ParentFacts
<1>2. /\ UtxoAfter[b] = (UtxoAfter[p] \ BlockIns(b)) \cup BlockOuts(b)
      /\ IndexAfter[b] = IndexBlock(IndexAfter[p], b)
      /\ UtxoAfter[b] \subseteq Commitment
  BY ReplayAssumption DEF ReplayAssumption, SpendAndCreate
<1>3. IndexBlock(mem, b) = IndexAfter[b]
  BY <1>2 DEF IndexesFit
<1>4. \A c \in Commitment :
         IndexAfter[b][c] = IF c \in CoinbaseOuts(b) THEN Height[b]
                            ELSE IF c \in BlockIns(b) THEN NotIndexed
                            ELSE IndexAfter[p][c]
  BY <1>2 DEF IndexBlock
<1>5. ASSUME NEW c \in UtxoAfter[b] PROVE db2[c] = IndexAfter[b][c]
  <2>1. FreshOutputs(b)
    BY DEF HonestTree, ValidTree
  <2>2. CASE c \in CoinbaseOuts(b)
    BY <1>2, <1>4, <2>2
  <2>3. CASE c \notin CoinbaseOuts(b) /\ c \in BlockOuts(b)
    <3>1. c \notin BlockIns(b) /\ c \notin UtxoAfter[p]
      BY <2>1, <2>3 DEF FreshOutputs
    <3>2. IndexAfter[b][c] = NotIndexed
      BY <1>1, <1>2, <1>4, <2>3, <3>1, IndexFacts
    <3>3. db[c] = NotIndexed
      <4> SUFFICES ASSUME db[c] # NotIndexed PROVE FALSE
        OBVIOUS
      <4>1. PICK h \in 1..Height[p] : h = db[c]
        BY <1>2 DEF IndexesFit
      <4>2. c \in CoinbaseOuts(Branch[p][h])
        BY <1>2, <4>1 DEF IndexesFit
      <4>3. c \in BlockOuts(Branch[b][h]) /\ h \in 0..Height[b] /\ h # Height[b]
        BY <1>1, <4>2 DEF CoinbaseOuts, BlockOuts
      <4>4. BlockOuts(Branch[b][h]) \cap BlockOuts(Branch[b][Height[b]]) = {}
        <5>1. Height[b] \in 0..Height[b]
          BY <1>1
        <5> QED BY <4>3, <5>1 DEF OutputsBornOnce
      <4> QED BY <1>1, <2>3, <4>3, <4>4
    <3> QED BY <1>2, <2>3, <3>2, <3>3
  <2>4. CASE c \notin BlockOuts(b)
    <3>1. c \in UtxoAfter[p] /\ c \notin BlockIns(b) /\ c \notin CoinbaseOuts(b)
      BY <1>2, <2>4 DEF CoinbaseOuts, BlockOuts
    <3> QED BY <1>2, <1>4, <3>1 DEF IndexesFit
  <2> QED BY <2>2, <2>3, <2>4
<1>6. ASSUME NEW c \in Commitment, db2[c] # NotIndexed
      PROVE  db2[c] \in 1..Height[b] /\ c \in CoinbaseOuts(Branch[b][db2[c]])
  <2>1. CASE c \in CoinbaseOuts(b)
    BY <1>1, <2>1
  <2>2. CASE c \notin CoinbaseOuts(b)
    <3>1. db2[c] = db[c]
      BY <1>6, <2>2
    <3>2. PICK h \in 1..Height[p] : h = db[c]
      BY <1>6, <3>1 DEF IndexesFit
    <3>3. c \in CoinbaseOuts(Branch[p][h])
      BY <1>6, <3>1, <3>2 DEF IndexesFit
    <3>4. h \in 1..Height[b] /\ Branch[b][h] = Branch[p][h]
      BY <1>1
    <3> QED BY <3>1, <3>2, <3>3, <3>4
  <2> QED BY <2>1, <2>2
<1> QED BY <1>3, <1>5, <1>6 DEF IndexesFit

(***************************************************************************)
(* Detaching a canonical block takes the records back to its parent: its   *)
(* own coinbases leave both copies, and the coinbases it spent return at   *)
(* the heights they were born at.                                          *)
(***************************************************************************)
LEMMA IndexDetach ==
    ASSUME HonestTree, OutputsBornOnce, OnlyCoinbasesLackInputs,
           NEW b \in Block \ {Genesis},
           \A h \in 0..Height[b] : height_index[h] = Branch[b][h],
           NEW mem \in [Commitment -> Nat], NEW db \in [Commitment -> Nat],
           IndexesFit(mem, db, b)
    PROVE  IndexesFit(UndoIndex(mem, b), UndoIndex(db, b), Prev[b])
<1> DEFINE p == Prev[b]
<1>1. \A h \in 0..Height[p] : height_index[h] = Branch[p][h]
  BY ParentFacts
<1>2. /\ p \in Block /\ Height[p] \in Nat /\ Height[b] = Height[p] + 1
      /\ Branch[b][Height[b]] = b
      /\ \A h \in 0..Height[p] : Branch[b][h] = Branch[p][h]
  BY ParentFacts
<1>3. /\ UtxoAfter[b] = (UtxoAfter[p] \ BlockIns(b)) \cup BlockOuts(b)
      /\ UtxoAfter[p] \subseteq Commitment /\ UtxoAfter[b] \subseteq Commitment
      /\ IndexAfter[p] \in [Commitment -> Nat]
      /\ \A c \in Commitment :
            IndexAfter[b][c] = IF c \in CoinbaseOuts(b) THEN Height[b]
                               ELSE IF c \in BlockIns(b) THEN NotIndexed
                               ELSE IndexAfter[p][c]
  BY <1>2, ReplayAssumption DEF ReplayAssumption, SpendAndCreate, IndexBlock
<1>4. /\ BlockIns(b) \subseteq UtxoAfter[p]
      /\ BlockOuts(b) \cap UtxoAfter[p] = {} /\ BlockOuts(b) \cap BlockIns(b) = {}
      /\ CoinbaseOuts(b) \subseteq BlockOuts(b)
  BY DEF HonestTree, ValidTree, ValidOnParent, FreshOutputs, CoinbaseOuts, BlockOuts
<1> DEFINE back(c) == c \in Restored(b) /\ c \in InputlessOuts(height_index[SourceOf(b, c)])
<1>5. ASSUME NEW c \in BlockIns(b)
      PROVE  /\ back(c) => /\ SourceOf(b, c) \in 1..Height[p]
                           /\ c \in CoinbaseOuts(Branch[p][SourceOf(b, c)])
             /\ ~back(c) => \A h \in 1..Height[p] : c \notin CoinbaseOuts(Branch[p][h])
  <2>1. PICK s \in 0..Height[p] : s = SourceOf(b, c) /\ c \in BlockOuts(Branch[p][s])
    <3>1. SourceOf(b, c) \in 0..Height[p]
      BY SourceFacts
    <3>2. c \in BlockOuts(Branch[b][SourceOf(b, c)])
      BY SourceFacts
    <3> QED BY <1>2, <3>1, <3>2
  <2>2. /\ height_index[s] = Branch[p][s] /\ Branch[p][s] \in Block
        /\ c \in Restored(b)
    BY <1>1, <1>2, <2>1, BranchFacts DEF Restored
  <2>3. s # 0
    <3>1. BlockOuts(Genesis) = {}
      BY TxAssumption DEF TxAssumption, BlockOuts
    <3> QED BY <1>2, <2>1, <3>1, BranchFacts
  <2>4. InputlessOuts(Branch[p][s]) = CoinbaseOuts(Branch[p][s])
    BY <2>2 DEF OnlyCoinbasesLackInputs, InputlessOuts, CoinbaseOuts, IsCoinbase
  <2>5. ASSUME NEW h \in 1..Height[p], c \in CoinbaseOuts(Branch[p][h])
        PROVE  h = s
    <3>1. c \in BlockOuts(Branch[p][h]) /\ h \in 0..Height[p]
      BY <2>5 DEF CoinbaseOuts, BlockOuts
    <3> QED BY <1>2, <2>1, <3>1 DEF OutputsBornOnce
  <2> QED BY <2>1, <2>2, <2>3, <2>4, <2>5
<1>6. ASSUME NEW index \in [Commitment -> Nat], NEW c \in Commitment
      PROVE  UndoIndex(index, b)[c] = IF back(c) THEN SourceOf(b, c)
                                      ELSE IF c \in BlockOuts(b) THEN NotIndexed
                                      ELSE index[c]
  BY DEF UndoIndex
<1>7. \A c \in Commitment : back(c) => c \in BlockIns(b)
  BY DEF Restored
<1> HIDE DEF back
<1>8. ASSUME NEW c \in BlockIns(b)
      PROVE  /\ back(c) => IndexAfter[p][c] = SourceOf(b, c)
             /\ ~back(c) => IndexAfter[p][c] = NotIndexed
  BY <1>2, <1>3, <1>4, <1>5, <1>8, IndexFacts
<1>9. UndoIndex(mem, b) = IndexAfter[p]
  <2>1. ASSUME NEW c \in Commitment PROVE UndoIndex(mem, b)[c] = IndexAfter[p][c]
    <3>1. mem[c] = IndexAfter[b][c]
      BY DEF IndexesFit
    <3>2. CASE c \in BlockIns(b)
      BY <1>3, <1>4, <1>6, <1>8, <3>1, <3>2
    <3>3. CASE c \in BlockOuts(b)
      <4>1. ~back(c) /\ c \notin UtxoAfter[p]
        BY <1>4, <1>7, <3>3
      <4> QED BY <1>2, <1>6, <3>3, <4>1, IndexFacts
    <3>4. CASE c \notin BlockIns(b) /\ c \notin BlockOuts(b)
      BY <1>3, <1>4, <1>6, <1>7, <3>1, <3>4
    <3> QED BY <3>2, <3>3, <3>4
  <2> QED BY <1>3, <2>1 DEF UndoIndex
<1>10. ASSUME NEW c \in Commitment, UndoIndex(db, b)[c] # NotIndexed
       PROVE  /\ UndoIndex(db, b)[c] \in 1..Height[p]
              /\ c \in CoinbaseOuts(Branch[p][UndoIndex(db, b)[c]])
  <2>1. CASE back(c)
    BY <1>5, <1>6, <1>7, <2>1
  <2>2. CASE ~back(c)
    <3>1. UndoIndex(db, b)[c] = db[c] /\ c \notin BlockOuts(b) /\ db[c] # NotIndexed
      BY <1>6, <1>10, <2>2
    <3>2. PICK h \in 1..Height[b] : h = db[c]
      BY <3>1 DEF IndexesFit
    <3>3. c \in CoinbaseOuts(Branch[b][h])
      BY <3>1, <3>2 DEF IndexesFit
    <3>4. h # Height[b]
      BY <1>2, <1>4, <3>1, <3>3
    <3>5. h \in 1..Height[p] /\ Branch[b][h] = Branch[p][h]
      BY <1>2, <3>4
    <3> QED BY <3>1, <3>2, <3>3, <3>5
  <2> QED BY <2>1, <2>2
<1>11. ASSUME NEW c \in UtxoAfter[p] PROVE UndoIndex(db, b)[c] = IndexAfter[p][c]
  <2>1. c \in Commitment /\ c \notin BlockOuts(b)
    BY <1>3, <1>4
  <2>2. CASE c \in BlockIns(b)
    <3>1. CASE back(c)
      BY <1>6, <1>8, <2>1, <2>2, <3>1
    <3>2. CASE ~back(c)
      <4>1. UndoIndex(db, b)[c] = NotIndexed
        BY <1>5, <1>10, <2>1, <2>2, <3>2
      <4> QED BY <1>8, <2>2, <3>2, <4>1
    <3> QED BY <3>1, <3>2
  <2>3. CASE c \notin BlockIns(b)
    <3>1. c \in UtxoAfter[b] /\ ~back(c)
      BY <1>3, <1>7, <2>1, <2>3
    <3>2. UndoIndex(db, b)[c] = db[c] /\ db[c] = IndexAfter[b][c]
      BY <1>6, <2>1, <3>1 DEF IndexesFit
    <3> QED BY <1>3, <1>4, <2>1, <2>3, <3>2
  <2> QED BY <2>2, <2>3
<1> QED BY <1>9, <1>10, <1>11 DEF IndexesFit

(***************************************************************************)
(* The block the coinbase index belongs to: the second walk of             *)
(* atomic_reorg moves it only after the first one has ended.               *)
(***************************************************************************)
IndexedTo == IF pc = "detach_coinbases" THEN height_index[job.at]
             ELSE IF pc = "attach_coinbases" THEN Branch[job.new][job.at]
             ELSE IF pc = "commit" THEN job.new
             ELSE tip_hash

CoinbaseInvariant == IndexesFit(coinbase_index, db_coinbase, IndexedTo)

(***************************************************************************)
(* One step of the second walk moves the index by one block.               *)
(***************************************************************************)
LEMMA CoinbaseWalk ==
    ASSUME HonestTree, OutputsBornOnce, OnlyCoinbasesLackInputs,
           TypeOK, ChainInvariant, CoinbaseInvariant, DetachCoinbases \/ AttachCoinbases
    PROVE  CoinbaseInvariant'
<1> USE DEF memory
<1>1. /\ Part(tip_hash, job.new, job.ancestor) /\ job.from = job.ancestor
      /\ pc = "detach_coinbases" => job.ancestor < job.at /\ job.at <= current_height
      /\ pc = "attach_coinbases" => job.ancestor <= job.at /\ job.at < Height[job.new]
      /\ pc \notin {"save_block", "down"}
  BY DEF DetachCoinbases, AttachCoinbases, ChainInvariant, JobInRange, Reorganising
<1>2. /\ job \in Job /\ job.new \in Block /\ Height[job.new] \in Nat
      /\ job.ancestor \in Nat /\ job.at \in Nat
      /\ coinbase_index \in [Commitment -> Nat] /\ db_coinbase \in [Commitment -> Nat]
  BY BranchFacts DEF TypeOK, Job
<1>3. /\ tip_hash \in Block /\ height_index = Branch[tip_hash]
      /\ current_height = Height[tip_hash] /\ current_height \in Nat
  BY <1>1, TipFacts, BranchFacts
<1>4. CASE DetachCoinbases
  <2> DEFINE b == height_index[job.at]
  <2>1. /\ pc = "detach_coinbases" /\ IndexedTo = b
        /\ coinbase_index' = UndoIndex(coinbase_index, b)
        /\ db_coinbase' = UndoIndex(db_coinbase, b)
        /\ job'.at = job.at - 1 /\ job'.new = job.new
        /\ pc' = IF job'.at = job.ancestor THEN "attach_coinbases"
                 ELSE "detach_coinbases"
        /\ height_index' = height_index
    BY <1>2, <1>4 DEF DetachCoinbases, IndexedTo, Job, disk
  <2>2. job.at \in 1..Height[tip_hash] /\ job.at \in 0..Height[tip_hash]
    BY <1>1, <1>2, <1>3, <2>1
  <2>3. /\ b \in Block \ {Genesis} /\ height_index[job.at - 1] = Prev[b]
        /\ Height[b] = job.at /\ \A h \in 0..Height[b] : height_index[h] = Branch[b][h]
    <3>1. b \in Block /\ Height[b] = job.at
          /\ \A h \in 0..job.at : Branch[b][h] = height_index[h]
      BY <1>3, <2>2, BranchFacts
    <3>2. b \in Block \ {Genesis} /\ height_index[job.at - 1] = Prev[b]
      BY <1>3, <2>2, DetachOne
    <3> QED BY <3>1, <3>2
  <2>4. IndexedTo' = Prev[b]
    <3>1. CASE job.at - 1 # job.ancestor
      BY <2>1, <2>3, <3>1 DEF IndexedTo
    <3>2. CASE job.at - 1 = job.ancestor
      <4>1. IndexedTo' = Branch[job.new][job.ancestor]
        BY <2>1, <3>2 DEF IndexedTo
      <4>2. Branch[job.new][job.ancestor] = height_index[job.ancestor]
        BY <1>1, <1>3 DEF Part
      <4> QED BY <2>3, <3>2, <4>1, <4>2
    <3> QED BY <3>1, <3>2
  <2>5. IndexesFit(coinbase_index, db_coinbase, b)
    BY <2>1 DEF CoinbaseInvariant
  <2>6. IndexesFit(coinbase_index', db_coinbase', Prev[b])
    <3> HIDE DEF b
    <3> QED BY <1>2, <2>1, <2>3, <2>5, IndexDetach
  <2> QED BY <2>4, <2>6 DEF CoinbaseInvariant, IndexesFit
<1>5. CASE AttachCoinbases
  <2> DEFINE b == Branch[job.new][job.at + 1]
  <2>1. /\ pc = "attach_coinbases" /\ IndexedTo = Branch[job.new][job.at]
        /\ NextAttached = b
    BY <1>1, <1>2, <1>5 DEF AttachCoinbases, IndexedTo, NextAttached
  <2>2. job.at + 1 \in 0..Height[job.new] /\ job.at \in 0..(job.at + 1)
    BY <1>1, <1>2, <2>1
  <2>3. b \in Block \ {Genesis} /\ Prev[b] = IndexedTo
    <3>1. /\ b \in Block /\ Height[b] = job.at + 1
          /\ \A h \in 0..(job.at + 1) : Branch[b][h] = Branch[job.new][h]
      BY <1>2, <2>2, BranchFacts
    <3>2. b # Genesis
      BY <1>2, <3>1, TreeAssumption DEF TreeAssumption
    <3>3. Prev[b] = Branch[b][job.at]
      <4>1. Prev[b] = Branch[b][Height[b] - 1]
        BY <3>1, <3>2, BranchFacts
      <4>2. Height[b] - 1 = job.at
        BY <1>2, <3>1
      <4> QED BY <4>1, <4>2
    <3> QED BY <2>1, <2>2, <3>1, <3>2, <3>3
  <2>4. /\ job'.at = job.at + 1 /\ job'.new = job.new /\ tip_hash' = tip_hash
        /\ coinbase_index' = IndexBlock(coinbase_index, b)
        /\ db_coinbase' = IndexBlock(db_coinbase, b)
        /\ pc' = IF b = job.new THEN "commit" ELSE "attach_coinbases"
    BY <1>2, <1>5, <2>1 DEF AttachCoinbases, Job
  <2>5. IndexedTo' = b
    BY <2>4 DEF IndexedTo
  <2>6. IndexesFit(coinbase_index, db_coinbase, Prev[b])
    BY <2>3 DEF CoinbaseInvariant
  <2>7. IndexesFit(coinbase_index', db_coinbase', b)
    <3> HIDE DEF b
    <3>1. db_coinbase' \in [Commitment -> Nat]
      BY <1>2, <2>3, <2>4, LedgerTypes
    <3>2. \A c \in Commitment :
             /\ c \in CoinbaseOuts(b) => db_coinbase'[c] = Height[b]
             /\ c \notin CoinbaseOuts(b) =>
                   \/ db_coinbase'[c] = db_coinbase[c]
                   \/ c \in BlockIns(b) /\ db_coinbase'[c] = NotIndexed
      BY <2>4 DEF IndexBlock
    <3> QED BY <1>2, <2>3, <2>4, <2>6, <3>1, <3>2, IndexAttach
  <2> QED BY <2>5, <2>7 DEF CoinbaseInvariant, IndexesFit
<1> QED BY <1>4, <1>5

LEMMA CoinbaseStep ==
    ASSUME HonestTree, OutputsBornOnce, OnlyCoinbasesLackInputs, MaxCrashes = 0,
           TypeOK, ChainInvariant, LedgerInvariant, CoinbaseInvariant, [Next]_vars
    PROVE  CoinbaseInvariant'
<1> USE DEF memory, ledger, disk, control
<1>1. ~Crash /\ ~Restart
  BY DEF LedgerInvariant, NeverCrashes, Crash, Restart
<1>2. ASSUME NEW b \in Block \ {Genesis}, ExtendCanonical(b)
      PROVE  CoinbaseInvariant'
  <2>1. /\ pc = "idle" /\ pc' = "save_block" /\ Prev[b] = tip_hash /\ tip_hash' = b
        /\ coinbase_index' = IndexBlock(coinbase_index, b)
        /\ db_coinbase' = [c \in Commitment |->
              IF c \in CoinbaseOuts(b) THEN Height[b] ELSE db_coinbase[c]]
    BY <1>2 DEF ExtendCanonical, ExtendsTip
  <2>2. IndexesFit(coinbase_index, db_coinbase, Prev[b]) /\ IndexedTo' = b
    BY <2>1 DEF CoinbaseInvariant, IndexedTo
  <2>3. /\ coinbase_index \in [Commitment -> Nat] /\ db_coinbase \in [Commitment -> Nat]
        /\ Height[b] \in Nat
    BY BranchFacts DEF TypeOK
  <2>4. db_coinbase' \in [Commitment -> Nat]
    BY <2>1, <2>3
  <2>5. \A c \in Commitment :
           db_coinbase'[c] = IF c \in CoinbaseOuts(b) THEN Height[b] ELSE db_coinbase[c]
    BY <2>1
  <2>6. IndexesFit(coinbase_index', db_coinbase', b)
    BY <2>1, <2>2, <2>3, <2>4, <2>5, IndexAttach
  <2> QED BY <2>2, <2>6 DEF CoinbaseInvariant, IndexesFit
<1>3. ASSUME UNCHANGED <<coinbase_index, db_coinbase>>, IndexedTo' = IndexedTo
      PROVE  CoinbaseInvariant'
  BY <1>3 DEF CoinbaseInvariant, IndexesFit
<1>4. ASSUME CommitReorg PROVE CoinbaseInvariant'
  <2>1. IndexedTo = job.new /\ IndexedTo' = job.new
    BY <1>4 DEF CommitReorg, IndexedTo
  <2> QED BY <1>3, <1>4, <2>1 DEF CommitReorg
<1>5. ASSUME AttachUtxos PROVE CoinbaseInvariant'
  <2>1. /\ tip_hash \in Block /\ height_index = Branch[tip_hash]
        /\ current_height = Height[tip_hash]
    BY <1>5, TipFacts DEF AttachUtxos
  <2>2. job.ancestor # current_height
    <3>1. Part(tip_hash, job.new, job.ancestor) /\ job.ancestor \in Nat
      BY <1>5 DEF AttachUtxos, ChainInvariant, JobInRange, Reorganising, TypeOK, Job
    <3> QED BY <2>1, <3>1, BranchFacts DEF Part
  <2>3. /\ pc = "attach_utxos" /\ UNCHANGED <<tip_hash, height_index>>
        /\ UNCHANGED <<coinbase_index, db_coinbase>>
        /\ \/ pc' = "attach_utxos"
           \/ pc' = "detach_coinbases" /\ job'.at = current_height
    <3>1. job \in Job
      BY DEF TypeOK
    <3> QED BY <1>5, <2>2, <3>1 DEF AttachUtxos, Job
  <2>4. IndexedTo = tip_hash /\ IndexedTo' = tip_hash
    BY <2>1, <2>3, BranchFacts DEF IndexedTo
  <2> QED BY <1>3, <2>3, <2>4
<1>6. ASSUME DetachCoinbases \/ AttachCoinbases PROVE CoinbaseInvariant'
  BY <1>6, CoinbaseWalk
<1>7. ASSUME /\ UNCHANGED <<coinbase_index, db_coinbase, tip_hash>>
             /\ pc \notin {"detach_coinbases", "attach_coinbases", "commit"}
             /\ pc' \notin {"detach_coinbases", "attach_coinbases", "commit"}
      PROVE  CoinbaseInvariant'
  BY <1>3, <1>7 DEF IndexedTo
<1>8. CASE UNCHANGED vars
  BY <1>3, <1>8 DEF vars, IndexedTo
<1>9. CASE Next
  <2>1. ASSUME NEW b \in Block \ {Genesis}, StoredOnSide(b) \/ NeedParent(b)
        PROVE  CoinbaseInvariant'
    BY <1>7, <2>1 DEF StoredOnSide, NeedParent
  <2>2. ASSUME SaveBlock \/ SaveTotalWork \/ PlanSwitch \/ PlanKeep
        PROVE  CoinbaseInvariant'
    BY <1>7, <2>2 DEF SaveBlock, SaveTotalWork, PlanSwitch, PlanKeep
  <2>3. ASSUME NEW p \in plans, BeginReorg(p) \/ RejectPlan(p) \/ RefuseReorg(p)
        PROVE  CoinbaseInvariant'
    BY <1>7, <2>3 DEF BeginReorg, RejectPlan, RefuseReorg
  <2>4. ASSUME DetachUtxos \/ SaveReorgWork \/ ClearMarker PROVE CoinbaseInvariant'
    BY <1>7, <2>4 DEF DetachUtxos, SaveReorgWork, ClearMarker
  <2>5. ASSUME NEW t \in Tx, AddTransaction(t) \/ ReplaceCheapest(t)
        PROVE  CoinbaseInvariant'
    BY <1>7, <2>5 DEF AddTransaction, ReplaceCheapest
  <2> QED BY <1>1, <1>2, <1>4, <1>5, <1>6, <1>9, <2>1, <2>2, <2>3, <2>4, <2>5
          DEF Next
<1> QED BY <1>8, <1>9

(***************************************************************************)
(* Maturity is always judged by the right height: the coinbase index in    *)
(* memory is the replay's, and its database copy agrees on every unspent   *)
(* output, after any blocks and reorganisations of honest blocks that      *)
(* create no commitment twice.                                             *)
(***************************************************************************)
THEOREM CoinbasesCorrect ==
    ASSUME HonestTree, OutputsBornOnce, OnlyCoinbasesLackInputs, MaxCrashes = 0
    PROVE  Spec => []CoinbasesAreTheReplay
<1>1. Init => CoinbaseInvariant
  <2> SUFFICES ASSUME Init PROVE CoinbaseInvariant
    OBVIOUS
  <2>1. IndexedTo = Genesis /\ UtxoAfter[Genesis] = {}
        /\ IndexAfter[Genesis] = coinbase_index
    BY ReplayAssumption DEF ReplayAssumption, Init, IndexedTo
  <2> QED BY <2>1 DEF Init, CoinbaseInvariant, IndexesFit
<1>2. TypeOK /\ ChainInvariant /\ LedgerInvariant /\ CoinbaseInvariant /\ [Next]_vars
         => CoinbaseInvariant'
  BY CoinbaseStep
<1>3. LedgerInvariant /\ CoinbaseInvariant => CoinbasesAreTheReplay
  <2> SUFFICES ASSUME LedgerInvariant, CoinbaseInvariant, Settled
               PROVE  /\ coinbase_index = IndexAfter[LedgerTip]
                      /\ \A c \in utxo_set : db_coinbase[c] = coinbase_index[c]
    BY DEF CoinbasesAreTheReplay
  <2>1. IndexedTo = LedgerTip
    BY DEF Settled, IndexedTo, LedgerTip
  <2>2. utxo_set = UtxoAfter[LedgerTip]
    BY DEF LedgerInvariant, UtxosAreTheReplay
  <2> QED BY <2>1, <2>2 DEF CoinbaseInvariant, IndexesFit
<1> QED BY <1>1, <1>2, <1>3, LedgerCorrect, PTL DEF Spec

-----------------------------------------------------------------------------
(* The refinement. *)

(***************************************************************************)
(* In every state of the invariant the visible ledger is the one of the    *)
(* tip; of the two rows the second says it of the next state.              *)
(***************************************************************************)
LEMMA VisibleLedger ==
    /\ TypeOK /\ LedgerInvariant
          => VisibleUtxos = UtxoAfter[tip_hash] /\ total_work = WorkOfBranch(tip_hash)
    /\ TypeOK' /\ LedgerInvariant'
          => VisibleUtxos' = UtxoAfter[tip_hash'] /\ total_work' = WorkOfBranch(tip_hash')
BY DEF TypeOK, PCs, LedgerInvariant, NeverCrashes, Reorganising, Settled,
       UtxosAreTheReplay, LedgerTip, WorkIsTheReplay, VisibleUtxos, WorkOfBranch

(***************************************************************************)
(* Only two steps move the tip: ExtendCanonical is an Extend of the        *)
(* ledger, and CommitReorg a Reorganise.                                   *)
(***************************************************************************)
LEMMA LedgerSimulation ==
    ASSUME HonestTree, TypeOK, ChainInvariant, LedgerInvariant,
           TypeOK', LedgerInvariant', [Next]_vars
    PROVE  [Promise!LedgerNext]_<<tip_hash, VisibleUtxos, total_work>>
<1> USE DEF memory
<1>1. ASSUME NEW b \in Block, tip_hash' = b PROVE Promise!MoveTo(b)
  BY <1>1, VisibleLedger DEF Promise!MoveTo
<1>2. ASSUME NEW b \in Block \ {Genesis}, ExtendCanonical(b)
      PROVE  Promise!Extend(b)
  <2>1. ValidOnParent(b)
    BY DEF HonestTree, ValidTree
  <2>2. b # Genesis /\ Prev[b] = tip_hash /\ tip_hash' = b
    BY <1>2 DEF ExtendCanonical, ExtendsTip
  <2> QED BY <1>1, <2>1, <2>2 DEF Promise!Extend
<1>3. ASSUME CommitReorg
      PROVE  job.new \in Block /\ Promise!Reorganise(job.new)
  <2>1. /\ Part(tip_hash, job.new, job.ancestor) /\ job.new \in Block
        /\ job.ancestor \in Nat /\ tip_hash \in Block /\ tip_hash' = job.new
        /\ job.ancestor + 1 = current_height
    BY <1>3 DEF CommitReorg, ChainInvariant, JobInRange, Reorganising, TypeOK, Job
  <2>2. /\ Height[tip_hash] \in Nat /\ Height[job.new] \in Nat
        /\ current_height = Height[tip_hash]
    BY <1>3, <2>1, TipFacts, BranchFacts DEF CommitReorg
  <2>3. /\ Height[tip_hash] <= Height[job.new]
        /\ Height[tip_hash] - 1 = job.ancestor /\ tip_hash # Genesis
        /\ Branch[job.new][job.ancestor] = Branch[tip_hash][job.ancestor]
        /\ Branch[job.new][Height[tip_hash]] # Branch[tip_hash][Height[tip_hash]]
    BY <2>1, <2>2, BranchFacts DEF Part
  <2>4. Branch[tip_hash][Height[tip_hash]] = tip_hash
    BY <2>1, BranchFacts
  <2>5. Branch[tip_hash][Height[tip_hash] - 1] = Prev[tip_hash]
    BY <2>1, <2>2, <2>3, BranchFacts
  <2>6. Promise!OnOtherBranch(job.new)
    BY <2>3, <2>4, <2>5 DEF Promise!OnOtherBranch
  <2> QED BY <1>1, <2>1, <2>6 DEF Promise!Reorganise
<1>4. ASSUME UNCHANGED tip_hash
      PROVE  UNCHANGED <<tip_hash, VisibleUtxos, total_work>>
  BY <1>4, VisibleLedger
<1>5. \/ \E b \in Block \ {Genesis} : ExtendCanonical(b)
      \/ CommitReorg \/ UNCHANGED tip_hash
  <2>1. ~Restart
    BY DEF Restart, LedgerInvariant, NeverCrashes
  <2> QED BY <2>1 DEF Next, vars, StoredOnSide, NeedParent, SaveBlock, SaveTotalWork,
             PlanSwitch, PlanKeep, BeginReorg, RejectPlan, RefuseReorg, DetachUtxos,
             AttachUtxos, DetachCoinbases, AttachCoinbases, SaveReorgWork, ClearMarker,
             AddTransaction, ReplaceCheapest, Crash
<1> QED BY <1>2, <1>3, <1>4, <1>5 DEF Promise!LedgerNext

(***************************************************************************)
(* The chain state implements the one-step ledger: whoever looks between   *)
(* two wasm calls sees one chain with its own outputs and its own work.    *)
(***************************************************************************)
THEOREM ChainImplementsLedger ==
    ASSUME HonestTree, MaxCrashes = 0
    PROVE  Spec => ImplementsLedger
<1>1. Init => Promise!LedgerInit
  <2> SUFFICES ASSUME Init PROVE Promise!LedgerInit
    OBVIOUS
  <2>1. Genesis \in Block /\ UtxoAfter[Genesis] = {} /\ WorkOfBranch(Genesis) = 0
    BY ReplayAssumption, WorkOfParent, TreeAssumption
       DEF ReplayAssumption, TreeAssumption
  <2> QED BY <2>1 DEF Init, Promise!LedgerInit, VisibleUtxos, Reorganising
<1>2. TypeOK /\ ChainInvariant /\ LedgerInvariant /\ [Next]_vars
      /\ TypeOK' /\ LedgerInvariant'
         => [Promise!LedgerNext]_<<tip_hash, VisibleUtxos, total_work>>
  BY LedgerSimulation
<1> QED BY <1>1, <1>2, LedgerCorrect, PTL
        DEF Spec, ImplementsLedger, Promise!LedgerSpec
=============================================================================
