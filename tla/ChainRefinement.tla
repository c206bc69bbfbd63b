--------------------------- MODULE ChainRefinement ---------------------------
(***************************************************************************)
(* ChainState implements Ledger.                                           *)
(***************************************************************************)
EXTENDS ChainState

(***************************************************************************)
(* Inside a reorganisation the ledger is still the old one: no reader runs *)
(* between the writes of one call, and the tip is the last to move.        *)
(***************************************************************************)
VisibleUtxos == IF Reorganising THEN UtxoAfter[tip_hash] ELSE utxo_set

Promise == INSTANCE Ledger WITH
    tip <- tip_hash,
    utxos <- VisibleUtxos,
    work <- total_work,
    ValidBlocks <- {b \in Block : b # Genesis /\ ValidOnParent(b)},
    OutputsAfter <- UtxoAfter,
    WorkAfter <- [b \in Block |-> WorkOfBranch(b)]

(***************************************************************************)
(* add_block and the many steps of atomic_reorg implement the one-step     *)
(* ledger: nobody who looks at the tip sees outputs or work of another     *)
(* chain.                                                                  *)
(***************************************************************************)
ImplementsLedger == Promise!LedgerSpec
=============================================================================
