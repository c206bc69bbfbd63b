------------------------------- MODULE Wallet -------------------------------
(***************************************************************************)
(* One wallet of a node: its session in the Rust core (WALLET_SESSIONS,    *)
(* src/wallet.rs), its JSON in the database, and the two commands of the   *)
(* user that change it, "load" (src/lib.rs) and "send" (src/worker.js),    *)
(* while the chain below grows and reorganises and the mempool fills.      *)
(*                                                                         *)
(* The chain is the one of module Ledger, the promise that ChainState      *)
(* keeps.  "send" waits for the network between its steps, and the chain,  *)
(* the pool, a load and a restart come in between.  "load" awaits only     *)
(* calls that the database answers at once and is one step.                *)
(*                                                                         *)
(* No action lets a session follow a new block: the worker scans for the   *)
(* wallets in workerState.wallets, and the only code that adds to that map *)
(* is a handler "load" no longer goes through.  A reorganisation, however, *)
(* changes every session.                                                  *)
(***************************************************************************)
EXTENDS BlockTree, Sequences

CONSTANTS
    Mine,               \* the commitments the wallet's scan key recognises
    MAX_TX_POOL_SIZE,
    MaxReorgs,          \* bound: reorganisations in a behaviour
    MaxRestarts         \* bound: restarts of the node

ASSUME WalletAssumption ==
    /\ Mine \subseteq Commitment
    /\ MAX_TX_POOL_SIZE \in Nat \ {0}
    /\ MaxReorgs \in Nat /\ MaxRestarts \in Nat

VARIABLES
    tip,             \* the last block of the chain
    pool,            \* TX_POOL.pending
    session,         \* the wallet in WALLET_SESSIONS
    pending_utxos,   \* PENDING_UTXOS
    saved,           \* the wallet in the database
    send,            \* the "send" command in progress
    made,            \* history: the transactions the wallet has built
    sent,            \* history: those it handed to the network
    failed,          \* history: those the pool or the network refused
    here,            \* history: those built since the node started
    reorgs, restarts \* bound counters

past == <<made, sent, failed, here>>
bounds == <<reorgs, restarts>>
vars == <<tip, pool, session, pending_utxos, saved, send, past, bounds>>

-----------------------------------------------------------------------------
(***************************************************************************)
(* The chain below the wallet.  Its work says nothing to a wallet.         *)
(***************************************************************************)
Chain == INSTANCE Ledger WITH
    ValidBlocks <- {b \in Block \ {Genesis} : ValidOnParent(b)},
    OutputsAfter <- UtxoAfter,
    WorkAfter <- [b \in Block |-> 0],
    utxos <- UtxoAfter[tip],
    work <- 0

(***************************************************************************)
(* A wallet: its owned_utxos and its synced_height.  The code does not     *)
(* have the last two fields, which remember what it scanned: "at" is the   *)
(* last block, and "whole" says that no block below it was left out.       *)
(***************************************************************************)
WalletState == [owned : SUBSET Mine, synced : Nat, at : Block, whole : BOOLEAN]

NewWallet == [owned |-> {}, synced |-> 0, at |-> Genesis, whole |-> TRUE]

(***************************************************************************)
(* Wallet::scan_block: what the block spends goes, what it pays comes, and *)
(* synced_height is the height of the block.  (Mutants ScanWithoutSpends:  *)
(* the first step is forgotten; ScanEverything: the key is not tried.)     *)
(***************************************************************************)
ScanWithoutSpends(w, b) ==
    [w EXCEPT !.owned = @ \cup (BlockOuts(b) \cap Mine), !.synced = Height[b],
              !.at = b, !.whole = @ /\ Prev[b] = w.at]

ScanEverything(w, b) ==
    [w EXCEPT !.owned = (@ \ BlockIns(b)) \cup BlockOuts(b), !.synced = Height[b],
              !.at = b, !.whole = @ /\ Prev[b] = w.at]

ScanBlock(w, b) ==
    [owned |-> (w.owned \ BlockIns(b)) \cup (BlockOuts(b) \cap Mine),
     synced |-> Height[b],
     at |-> b,
     whole |-> w.whole /\ Prev[b] = w.at]

(***************************************************************************)
(* Wallet::remove_block_utxos: the outputs of the block go; what it spent  *)
(* does not come back, and synced_height stays.                            *)
(***************************************************************************)
RemoveBlock(w, b) ==
    [w EXCEPT !.owned = @ \ BlockOuts(b),
              !.at = IF @ = b THEN Prev[b] ELSE @]

(***************************************************************************)
(* scan_range over the heights first..last of the branch of b.             *)
(***************************************************************************)
ScanRange(w, b, first, last) ==
    LET after[h \in (first - 1)..last] ==
            IF h < first THEN w ELSE ScanBlock(after[h - 1], Branch[b][h])
    IN  IF last < first THEN w ELSE after[last]

-----------------------------------------------------------------------------
NoSession == [open |-> FALSE, w |-> NewWallet]
Session(w) == [open |-> TRUE, w |-> w]
NoSend == [pc |-> "none", tx |-> {}]

(***************************************************************************)
(* The transactions of this wallet.                                        *)
(***************************************************************************)
Own == {t \in Tx : TxIns[t] # {} /\ TxIns[t] \subseteq Mine}

(***************************************************************************)
(* A coin of the wallet can only be spent with its key, and a transaction  *)
(* has one author: who spends such a coin spends no stranger's with it.    *)
(* (A hypothesis of theorems, not an assumption of the module.)            *)
(***************************************************************************)
OnlyOwnersSpend ==
    \A t \in Tx : TxIns[t] \cap Mine # {} => TxIns[t] \subseteq Mine

Init ==
    /\ tip = Genesis /\ pool = {}
    /\ session = NoSession /\ pending_utxos = {} /\ saved = NewWallet
    /\ send = NoSend
    /\ made = {} /\ sent = {} /\ failed = {} /\ here = {}
    /\ reorgs = 0 /\ restarts = 0

-----------------------------------------------------------------------------
(* "load": handle_load_wallet_internal *)

(***************************************************************************)
(* The first height the wallet of the database has not seen, and that      *)
(* wallet after the blocks from there to the tip, if there are any.        *)
(* (Mutant MissingAfterNext: off by one.)                                  *)
(***************************************************************************)
MissingAfterNext(w) == w.synced + 2

FirstMissing(w) == w.synced + 1

CaughtUp(w) == ScanRange(w, tip, FirstMissing(w), Height[tip])

Load ==
    /\ session' = Session(CaughtUp(saved))
    /\ saved' = CaughtUp(saved)
    /\ UNCHANGED <<tip, pool, pending_utxos, send, past, bounds>>

(***************************************************************************)
(* A load that fails reports the error and returns where it is: with the   *)
(* sessions cleared, with the wallet opened as it was, or with the blocks  *)
(* scanned and not written.                                                *)
(***************************************************************************)
LoadFails ==
    /\ session' \in {NoSession, Session(saved), Session(CaughtUp(saved))}
    /\ UNCHANGED <<tip, pool, pending_utxos, saved, send, past, bounds>>

-----------------------------------------------------------------------------
(* "send": handleCreateTransaction *)

(***************************************************************************)
(* The coins create_transaction selects from: on the chain, not reserved,  *)
(* and mature in the next block.                                           *)
(***************************************************************************)
Spendable(c) ==
    /\ c \in UtxoAfter[tip]
    /\ c \notin pending_utxos
    /\ Mature(IndexAfter[tip], Height[tip] + 1, c)

Offered == {c \in session.w.owned : session.open /\ Spendable(c)}

(***************************************************************************)
(* The inputs leave the session and are reserved.  A payment of more than  *)
(* the coins are worth changes nothing.                                    *)
(***************************************************************************)
Build(t) ==
    /\ send.pc = "none"
    /\ t \in Own \ made
    /\ TxIns[t] \subseteq Offered
    /\ session' = [session EXCEPT !.w.owned = @ \ TxIns[t]]
    /\ pending_utxos' = pending_utxos \cup TxIns[t]
    /\ send' = [pc |-> "built", tx |-> {t}]
    /\ made' = made \cup {t} /\ here' = here \cup {t}
    /\ UNCHANGED <<tip, pool, saved, sent, failed, bounds>>

(***************************************************************************)
(* add_transaction_to_pool: what the pool becomes, none if it refuses.     *)
(***************************************************************************)
Admissible(t) ==
    /\ TxIns[t] \subseteq UtxoAfter[tip]
    /\ \A c \in TxIns[t] : Mature(IndexAfter[tip], Height[tip] + 1, c)
    /\ t \notin pool
    /\ \A p \in pool : TxIns[p] \cap TxIns[t] = {}

PoolsWith(t) ==
    IF ~Admissible(t) THEN {}
    ELSE IF Cardinality(pool) < MAX_TX_POOL_SIZE THEN {pool \cup {t}}
    ELSE {(pool \ {low}) \cup {t} : low \in
             {p \in pool : TxFee[p] < TxFee[t] /\ \A q \in pool : TxFee[p] <= TxFee[q]}}

ToPool(t) ==
    /\ send = [pc |-> "built", tx |-> {t}]
    /\ pool' \in PoolsWith(t)
    /\ send' = [send EXCEPT !.pc = "pooled"]
    /\ UNCHANGED <<tip, session, pending_utxos, saved, past, bounds>>

(***************************************************************************)
(* A refusal by the pool, or by the network (the transaction stays in the  *)
(* pool then), takes the reservation back.  The session is to go back too, *)
(* but wallet_session_open, which would do it, is not an export of the     *)
(* core: the call throws and the session stays without the inputs.         *)
(***************************************************************************)
SendFails(t) ==
    /\ \/ send = [pc |-> "built", tx |-> {t}] /\ PoolsWith(t) = {}
       \/ send = [pc |-> "pooled", tx |-> {t}]
    /\ pending_utxos' = pending_utxos \ TxIns[t]
    /\ failed' = failed \cup {t}
    /\ send' = NoSend
    /\ UNCHANGED <<tip, pool, session, saved, made, sent, here, bounds>>

(***************************************************************************)
(* The network has it: the session as it is now is written, if there is    *)
(* one.  (Mutant SentAndReleased: the reservation ends with the command.)  *)
(***************************************************************************)
SentAndReleased(t) ==
    /\ send = [pc |-> "pooled", tx |-> {t}]
    /\ saved' = IF session.open THEN session.w ELSE saved
    /\ sent' = sent \cup {t}
    /\ send' = NoSend
    /\ pending_utxos' = pending_utxos \ TxIns[t]
    /\ UNCHANGED <<tip, pool, session, made, failed, here, bounds>>

Sent(t) ==
    /\ send = [pc |-> "pooled", tx |-> {t}]
    /\ saved' = IF session.open THEN session.w ELSE saved
    /\ sent' = sent \cup {t}
    /\ send' = NoSend
    /\ UNCHANGED <<tip, pool, session, pending_utxos, made, failed, here,
                   bounds>>

-----------------------------------------------------------------------------
(* The chain and the network *)

(***************************************************************************)
(* A transaction of this wallet is mined only after the wallet gave it     *)
(* away, to the network or to the pool this node mines from.               *)
(***************************************************************************)
Minable(b) == BlockTxs[b] \cap Own \subseteq sent \cup pool

Extend(b) ==
    /\ Chain!Extend(b) /\ Minable(b)
    /\ pool' = {t \in pool : t \notin BlockTxs[b] /\ TxIns[t] \subseteq UtxoAfter[b]}
    /\ UNCHANGED <<session, pending_utxos, saved, send, past, bounds>>

(***************************************************************************)
(* What atomic_reorg does to a session: Step 3.1 lists the block it gives  *)
(* up, Step 3.3 those it takes on, Step 4.3 applies the lists.  It never   *)
(* gives up more than the tip (module ChainState): a plan that asks for    *)
(* more is refused and no session hears of it.                             *)
(***************************************************************************)
AfterReorg(w, b) == ScanRange(RemoveBlock(w, tip), b, Height[tip], Height[b])

Returned == {t \in BlockTxs[tip] : TxIns[t] # {}}

Reorganise(b) ==
    /\ reorgs < MaxReorgs /\ Chain!Reorganise(b)
    /\ \A h \in Height[tip]..Height[b] :
          ValidOnParent(Branch[b][h]) /\ Minable(Branch[b][h])
    /\ session' = IF session.open THEN Session(AfterReorg(session.w, b)) ELSE session
    /\ pool' = pool \cup Returned
    /\ reorgs' = reorgs + 1
    /\ UNCHANGED <<pending_utxos, saved, send, past, restarts>>

(***************************************************************************)
(* A transaction from a peer: anyone's, or one of ours that comes back.    *)
(***************************************************************************)
FromNetwork(t) ==
    /\ t \in (Tx \ Own) \cup sent
    /\ TxIns[t] # {}
    /\ pool' \in PoolsWith(t)
    /\ UNCHANGED <<tip, session, pending_utxos, saved, send, past, bounds>>

(***************************************************************************)
(* The node stops and starts again.                                        *)
(***************************************************************************)
Restart ==
    /\ restarts < MaxRestarts
    /\ session' = NoSession /\ pending_utxos' = {} /\ pool' = {} /\ here' = {}
    /\ send' = NoSend
    /\ restarts' = restarts + 1
    /\ UNCHANGED <<tip, saved, made, sent, failed, reorgs>>

-----------------------------------------------------------------------------
Next ==
    \/ Load \/ LoadFails
    \/ \E t \in Tx : Build(t) \/ ToPool(t) \/ Sent(t) \/ SendFails(t) \/ FromNetwork(t)
    \/ \E b \in Block : Extend(b) \/ Reorganise(b)
    \/ Restart

Spec == Init /\ [][Next]_vars

-----------------------------------------------------------------------------
(***************************************************************************)
(* Every variable has its type, and a command is where its parts say.      *)
(***************************************************************************)
TypeOK ==
    /\ tip \in Block /\ pool \subseteq Tx
    /\ session \in [open : BOOLEAN, w : WalletState]
    /\ pending_utxos \subseteq Mine
    /\ saved \in WalletState
    /\ send.pc \in {"none", "built", "pooled"}
    /\ send.pc # "none" => \E t \in here \cap Own : send.tx = {t}
    /\ here \subseteq made /\ sent \subseteq made /\ failed \subseteq made /\ made \subseteq Own
    /\ reorgs \in Nat /\ restarts \in Nat

(***************************************************************************)
(* A transaction this node built and did not give up keeps its coins out   *)
(* of reach of the next one for as long as the pool holds it: also when    *)
(* the user loads the wallet again from a database that still lists them,  *)
(* and when a reorganisation puts the coins and the transaction back.      *)
(***************************************************************************)
NoCoinOfferedTwice ==
    \A t \in (pool \cap here) \ failed : TxIns[t] \cap Offered = {}

(***************************************************************************)
(* The reservations behind NoCoinOfferedTwice: what this node built and    *)
(* did not give up is reserved, no two of these share a coin, and the      *)
(* transaction in hand is one of them.                                     *)
(***************************************************************************)
InFlight == here \ failed

ReservationInvariant ==
    /\ here \subseteq made /\ failed \subseteq made
    /\ \A t \in InFlight : TxIns[t] \subseteq pending_utxos
    /\ \A t, u \in InFlight : t # u => TxIns[t] \cap TxIns[u] = {}
    /\ send.pc # "none" => \E t \in InFlight : send.tx = {t}

(***************************************************************************)
(* A wallet that has seen every block up to its last one owns what a       *)
(* replay of these blocks leaves it, up to the coins it has tried to       *)
(* spend: through loads from any height, sends that a load, a restart or   *)
(* a block overtakes, and reorganisations that found it synced.            *)
(***************************************************************************)
Known(b) == Mine \cap UtxoAfter[b]
Tried == UNION {TxIns[t] : t \in made}

IsReplay(w) == w.whole => /\ w.owned \subseteq Known(w.at)
                          /\ Known(w.at) \ Tried \subseteq w.owned

WholeWalletsAreReplays == IsReplay(saved) /\ (session.open => IsReplay(session.w))

(***************************************************************************)
(* No block is left out as long as the chain only grows: the session, the  *)
(* wallet in the database and the first height a load asks for fit         *)
(* together, whichever of the two commands wrote last and whatever failed. *)
(***************************************************************************)
OnlyReorgsLeaveGaps ==
    reorgs = 0 => /\ saved.whole /\ saved.synced = Height[saved.at]
                  /\ session.w.whole /\ saved.at = Branch[tip][saved.synced]

(***************************************************************************)
(* What "load" says of a wallet whose synced_height is that of the tip     *)
(* (src/src/lib.rs:519, "Wallet is already fully synced."): it owns every  *)
(* coin of the chain that is its own and that it never tried to spend.     *)
(* Here of the session, which the next payment writes to the database.     *)
(***************************************************************************)
SyncedWalletsKnowTheirCoins ==
    session.open /\ session.w.synced >= Height[tip]
    => Known(tip) \ Tried \subseteq session.w.owned
=============================================================================
