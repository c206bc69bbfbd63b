---------------------------- MODULE WalletProofs ----------------------------
(***************************************************************************)
(* What module Wallet promises, for every tree of blocks, every set of     *)
(* transactions and every number of reorganisations and restarts: the      *)
(* types; that a coin in flight is not offered again; that only a          *)
(* reorganisation makes a wallet miss a block; and that a wallet which has *)
(* missed none owns what a replay of its blocks leaves it.                 *)
(*                                                                         *)
(* The last two follow a scan block by block: scan_range is a recursion    *)
(* over heights, and RangeRecursion and RangeInduction of module           *)
(* BlockTreeProofs turn it into a sequence of wallets to induct over.      *)
(***************************************************************************)
EXTENDS Wallet, BlockTreeProofs

USE DEF InFlight

-----------------------------------------------------------------------------
(* The reservations.  Nothing here looks at what a scan does: a coin in    *)
(* flight is reserved and a reserved coin is not offered, whichever wallet *)
(* the session holds.                                                      *)

(***************************************************************************)
(* At the start nothing is in flight.                                      *)
(***************************************************************************)
LEMMA ReservedInit == Init => ReservationInvariant
  BY DEF Init, ReservationInvariant, NoSend

(***************************************************************************)
(* create_transaction takes only coins that nothing has reserved, so the   *)
(* new transaction shares none with those in flight.                       *)
(***************************************************************************)
LEMMA ReservedBuild ==
    ASSUME NEW t, ReservationInvariant, Build(t)
    PROVE  ReservationInvariant'
  <1>1. TxIns[t] \cap pending_utxos = {}
    BY DEF Build, Offered, Spendable
  <1>2. t \notin made /\ t \notin failed /\ t \notin here
    BY DEF ReservationInvariant, Build
  <1>3. InFlight' = InFlight \cup {t}
    BY <1>2 DEF Build
  <1>4. (here \subseteq made /\ failed \subseteq made)'
    BY DEF ReservationInvariant, Build
  <1>5. \A u \in InFlight' : TxIns[u] \subseteq pending_utxos'
    BY <1>3 DEF ReservationInvariant, Build
  <1>6. \A u, v \in InFlight' : u # v => TxIns[u] \cap TxIns[v] = {}
    BY <1>1, <1>3 DEF ReservationInvariant
  <1>7. send'.pc # "none" => \E u \in InFlight' : send'.tx = {u}
    BY <1>3 DEF Build
  <1> QED
    BY <1>4, <1>5, <1>6, <1>7 DEF ReservationInvariant

(***************************************************************************)
(* Giving a transaction up takes its own reservations back and no other's. *)
(***************************************************************************)
LEMMA ReservedSendFails ==
    ASSUME NEW t, ReservationInvariant, SendFails(t)
    PROVE  ReservationInvariant'
  <1>1. t \in InFlight
    <2>1. send.pc # "none" /\ send.tx = {t}
      BY DEF SendFails
    <2> QED
      BY <2>1 DEF ReservationInvariant
  <1>2. InFlight' = InFlight \ {t}
    BY DEF SendFails
  <1>3. (here \subseteq made /\ failed \subseteq made)'
    BY <1>1 DEF ReservationInvariant, SendFails
  <1>4. \A u \in InFlight' : TxIns[u] \subseteq pending_utxos'
    BY <1>1, <1>2 DEF ReservationInvariant, SendFails
  <1>5. \A u, v \in InFlight' : u # v => TxIns[u] \cap TxIns[v] = {}
    BY <1>2 DEF ReservationInvariant
  <1>6. send'.pc = "none"
    BY DEF SendFails, NoSend
  <1> QED
    BY <1>3, <1>4, <1>5, <1>6 DEF ReservationInvariant

(***************************************************************************)
(* A restart forgets the reservations and what was in flight together.     *)
(***************************************************************************)
LEMMA ReservedRestart ==
    ASSUME ReservationInvariant, Restart
    PROVE  ReservationInvariant'
  BY DEF ReservationInvariant, Restart, NoSend

(***************************************************************************)
(* What every other step does to the reservations: nothing.                *)
(***************************************************************************)
Kept ==
    /\ here' = here /\ made' = made /\ failed' = failed
    /\ pending_utxos' = pending_utxos
    /\ send'.pc # "none" => send.pc # "none" /\ send'.tx = send.tx

(***************************************************************************)
(* Loads, reorganisations and the pool leave what is in flight and         *)
(* its reservations alone.                                                 *)
(***************************************************************************)
LEMMA ReservedKept == ReservationInvariant /\ Kept => ReservationInvariant'
  BY DEF ReservationInvariant, Kept

(***************************************************************************)
(* The invariant is inductive.                                             *)
(***************************************************************************)
LEMMA ReservedNext ==
    ReservationInvariant /\ [Next]_vars => ReservationInvariant'
  <1> SUFFICES ASSUME ReservationInvariant, [Next]_vars
               PROVE  ReservationInvariant'
    OBVIOUS
  <1>1. ASSUME NEW t \in Tx, Build(t) PROVE ReservationInvariant'
    BY <1>1, ReservedBuild
  <1>2. ASSUME NEW t \in Tx, ToPool(t) PROVE Kept
    BY <1>2 DEF ToPool, Kept, past
  <1>3. ASSUME NEW t \in Tx, Sent(t) PROVE Kept
    BY <1>3 DEF Sent, Kept, NoSend, past
  <1>4. ASSUME NEW t \in Tx, SendFails(t) PROVE ReservationInvariant'
    BY <1>4, ReservedSendFails
  <1>5. CASE Restart
    BY <1>5, ReservedRestart
  <1>6. ASSUME Load \/ LoadFails PROVE Kept
    BY <1>6 DEF Load, LoadFails, Kept, past
  <1>7. ASSUME NEW t \in Tx, FromNetwork(t) PROVE Kept
    BY <1>7 DEF FromNetwork, Kept, past
  <1>8. ASSUME NEW b \in Block, Extend(b) \/ Reorganise(b) PROVE Kept
    BY <1>8 DEF Extend, Reorganise, Kept, past
  <1>9. ASSUME UNCHANGED vars PROVE Kept
    BY <1>9 DEF vars, Kept, past
  <1> QED
    BY <1>1, <1>2, <1>3, <1>4, <1>5, <1>6, <1>7, <1>8, <1>9, ReservedKept DEF Next

(***************************************************************************)
(* What the node has built and not given up stays reserved, one coin for   *)
(* one transaction (create_transaction and handleCreateTransaction), also  *)
(* when loads, restarts and reorganisations come between their steps.      *)
(***************************************************************************)
THEOREM CoinsInFlightAreReserved == Spec => []ReservationInvariant
  BY ReservedInit, ReservedNext, PTL DEF Spec

(***************************************************************************)
(* No coin of a transaction in the pool that this node built and did not   *)
(* give up is offered to the next transaction.                             *)
(***************************************************************************)
THEOREM PoolCoinsAreNotOffered == Spec => []NoCoinOfferedTwice
  <1>1. ReservationInvariant => NoCoinOfferedTwice
    BY DEF ReservationInvariant, NoCoinOfferedTwice, Offered, Spendable
  <1> QED
    BY <1>1, CoinsInFlightAreReserved, PTL

-----------------------------------------------------------------------------
(* Scans, removals and forks. *)

(***************************************************************************)
(* A scanned or removed block leaves a wallet.                             *)
(***************************************************************************)
LEMMA BlockStepTypes ==
    ASSUME NEW w \in WalletState, NEW b \in Block
    PROVE  ScanBlock(w, b) \in WalletState /\ RemoveBlock(w, b) \in WalletState
<1>1. Height[b] \in Nat /\ Prev[b] \in Block
  BY TreeAssumption DEF TreeAssumption
<1>2. ScanBlock(w, b) \in WalletState
  BY <1>1 DEF ScanBlock, WalletState
<1>3. RemoveBlock(w, b) \in WalletState
  BY <1>1 DEF RemoveBlock, WalletState
<1> QED BY <1>2, <1>3

(***************************************************************************)
(* scan_range, one block after the other: f[h] is the wallet after the     *)
(* block at height h.                                                      *)
(***************************************************************************)
Scans(f, w, b, first, last) ==
    f[first - 1] = w /\ \A h \in first..last : f[h] = ScanBlock(f[h - 1], Branch[b][h])

(***************************************************************************)
(* ScanRange is the last wallet of such a sequence, for any range of       *)
(* heights.                                                                *)
(***************************************************************************)
LEMMA ScanRangeSteps ==
    ASSUME NEW w \in WalletState, NEW b \in Block,
           NEW first \in Nat \ {0}, NEW last \in first..Height[b]
    PROVE  \E f \in [(first - 1)..last -> WalletState] :
              Scans(f, w, b, first, last) /\ ScanRange(w, b, first, last) = f[last]
<1> DEFINE low == first - 1
           eq(it) == it = [h \in low..last |->
                             IF h < first THEN w ELSE ScanBlock(it[h - 1], Branch[b][h])]
           after == CHOOSE it : eq(it)
<1>1. /\ low \in Int /\ last \in Int /\ low <= last /\ ~(last < first)
      /\ \A h \in low..last : h \in first..last \/ (h = low /\ h < first)
      /\ \A h \in first..last : ~(h < first) /\ h - 1 \in low..last
                                /\ h \in (low + 1)..last /\ h \in 0..Height[b]
      /\ low \in low..last /\ low < first
      /\ \A h \in low..(last - 1) : h + 1 \in first..last /\ (h + 1) - 1 = h
  BY BranchFacts
<1>2. ScanRange(w, b, first, last) = after[last]
  BY <1>1 DEF ScanRange
<1>3. \A h \in low..last : \A v \in WalletState :
         IF h < first THEN TRUE ELSE ScanBlock(v, Branch[b][h]) \in WalletState
  BY <1>1, BranchFacts, BlockStepTypes
<1>4. PICK step \in [low..last -> [WalletState -> WalletState]] :
         \A h \in first..last : \A v \in WalletState :
             step[h][v] = ScanBlock(v, Branch[b][h])
  <2> DEFINE s == [h \in low..last |-> [v \in WalletState |->
                     IF h < first THEN v ELSE ScanBlock(v, Branch[b][h])]]
  <2>1. \A h \in low..last : s[h] \in [WalletState -> WalletState]
    BY <1>3
  <2>2. s \in [low..last -> [WalletState -> WalletState]]
    BY <2>1
  <2>3. \A h \in first..last : \A v \in WalletState :
             s[h][v] = ScanBlock(v, Branch[b][h])
    BY <1>1
  <2> HIDE DEF s
  <2> QED BY <2>2, <2>3
<1> HIDE DEF low
<1>5. PICK g \in [low..last -> WalletState] : Iterates(g, low, last, w, step)
  BY <1>1, RangeRecursion
<1>6. eq(g)
  <2>1. ASSUME NEW h \in low..last
        PROVE  g[h] = IF h < first THEN w ELSE ScanBlock(g[h - 1], Branch[b][h])
    <3>1. CASE h = low
      BY <1>1, <1>5, <3>1 DEF Iterates
    <3>2. CASE h \in first..last
      BY <1>1, <1>4, <1>5, <3>2 DEF Iterates
    <3> QED BY <1>1, <3>1, <3>2
  <2> QED BY <2>1
<1>7. eq(after)
  <2> HIDE DEF eq
  <2> QED BY <1>6
<1> HIDE DEF after
<1>8. /\ after = [h \in low..last |-> after[h]]
      /\ after[low] = w
      /\ \A h \in first..last : after[h] = ScanBlock(after[h - 1], Branch[b][h])
  BY <1>1, <1>7
<1> HIDE DEF eq
<1>9. \A h \in low..last : after[h] \in WalletState
  <2> DEFINE T == {h \in low..last : after[h] \in WalletState}
  <2>1. low \in T
    BY <1>1, <1>8
  <2>2. ASSUME NEW h \in low..(last - 1), h \in T PROVE h + 1 \in T
    <3>0. low \in Int /\ last \in Int /\ first \in Int /\ low < first
      BY <1>1
    <3>1. /\ h + 1 \in first..last /\ h + 1 \in low..last /\ ~(h + 1 < first)
          /\ (h + 1) - 1 = h
      <4>1. h + 1 \in first..last /\ (h + 1) - 1 = h
        BY <1>1, <2>2
      <4> QED BY ONLY <3>0, <4>1, h \in low..(last - 1)
    <3>2. after[h + 1] = ScanBlock(after[h], Branch[b][h + 1])
      BY <1>8, <3>1
    <3>3. ScanBlock(after[h], Branch[b][h + 1]) \in WalletState
      BY <1>3, <2>2, <3>1
    <3> QED BY <3>1, <3>2, <3>3
  <2> HIDE DEF T
  <2>3. \A h \in low..last : h \in T
    BY <1>1, <2>1, <2>2, RangeInduction
  <2> QED BY <2>3 DEF T
<1>10. after \in [low..last -> WalletState]
  BY <1>8, <1>9
<1> QED BY <1>2, <1>8, <1>10 DEF Scans, low

(***************************************************************************)
(* Another branch leaves the chain at the parent of the tip: it has the    *)
(* same blocks below, and its own from the height of the tip.              *)
(***************************************************************************)
LEMMA ForkFacts ==
    ASSUME NEW b \in Block, tip \in Block, Chain!OnOtherBranch(b)
    PROVE  /\ Height[tip] \in Nat \ {0} /\ Height[b] \in Height[tip]..Height[b]
           /\ tip \in Block \ {Genesis} /\ Prev[tip] \in Block
           /\ Branch[b][Height[tip] - 1] = Prev[tip]
           /\ Branch[tip][Height[tip]] = tip
           /\ \A h \in 0..(Height[tip] - 1) : Branch[b][h] = Branch[tip][h]
<1>1. /\ Height[b] \in Nat /\ Height[tip] \in Nat /\ Height[b] >= Height[tip]
      /\ tip # Genesis /\ Branch[b][Height[tip] - 1] = Prev[tip]
      /\ Branch[tip][Height[tip]] = tip
  BY BranchFacts DEF Chain!OnOtherBranch
<1>2. Height[tip] # 0 /\ Height[tip] = Height[Prev[tip]] + 1 /\ Prev[tip] \in Block
  BY <1>1, TreeAssumption DEF TreeAssumption
<1>3. Height[Prev[tip]] \in Nat
  BY <1>2, BranchFacts
<1>4. ASSUME NEW h \in 0..(Height[tip] - 1) PROVE Branch[b][h] = Branch[tip][h]
  <2>1. /\ Height[tip] - 1 \in 0..Height[b] /\ h \in 0..Height[Prev[tip]]
    BY <1>1, <1>2, <1>3
  <2>2. Branch[Prev[tip]][h] = Branch[b][h]
    BY <1>1, <2>1, BranchFacts
  <2>3. Branch[Prev[tip]][h] = Branch[tip][h]
    BY <1>1, <2>1, ParentFacts
  <2> QED BY <2>2, <2>3
<1> QED BY <1>1, <1>2, <1>4

(***************************************************************************)
(* A scan, whether or not there is something to scan, leaves a wallet.     *)
(***************************************************************************)
LEMMA ScanRangeType ==
    ASSUME NEW w \in WalletState, NEW b \in Block,
           NEW first \in Nat \ {0}, NEW last \in 0..Height[b]
    PROVE  ScanRange(w, b, first, last) \in WalletState
<1>1. Height[b] \in Nat
  BY BranchFacts
<1>2. CASE last < first
  BY <1>2 DEF ScanRange
<1>3. CASE ~(last < first)
  <2>1. last \in first..Height[b] /\ last \in (first - 1)..last
    BY <1>1, <1>3
  <2> QED BY <2>1, ScanRangeSteps
<1> QED BY <1>2, <1>3

(***************************************************************************)
(* So does a reorganisation to another branch.                             *)
(***************************************************************************)
LEMMA AfterReorgType ==
    ASSUME NEW w \in WalletState, NEW b \in Block, tip \in Block, Chain!OnOtherBranch(b)
    PROVE  AfterReorg(w, b) \in WalletState
<1>1. Height[tip] \in Nat \ {0} /\ Height[b] \in 0..Height[b]
  BY ForkFacts, BranchFacts
<1>2. RemoveBlock(w, tip) \in WalletState
  BY BlockStepTypes
<1> QED BY <1>1, <1>2, ScanRangeType DEF AfterReorg

(***************************************************************************)
(* A load catches up with the chain there is.                              *)
(***************************************************************************)
LEMMA CaughtUpType ==
    ASSUME NEW w \in WalletState, tip \in Block
    PROVE  CaughtUp(w) \in WalletState
<1>1. FirstMissing(w) \in Nat \ {0} /\ Height[tip] \in 0..Height[tip]
  BY BranchFacts DEF FirstMissing, WalletState
<1> QED BY <1>1, ScanRangeType DEF CaughtUp

-----------------------------------------------------------------------------
(* The types. *)

(***************************************************************************)
(* The type of the session.                                                *)
(***************************************************************************)
SessionType == [open : BOOLEAN, w : WalletState]

(***************************************************************************)
(* The values a start of the node gives the wallets.                       *)
(***************************************************************************)
LEMMA StartTypes ==
    /\ NewWallet \in WalletState
    /\ NoSession \in SessionType
<1>1. NewWallet \in WalletState
  BY TreeAssumption DEF TreeAssumption, NewWallet, WalletState
<1> QED BY <1>1, TreeAssumption DEF TreeAssumption, NoSession, SessionType

(***************************************************************************)
(* The first state.                                                        *)
(***************************************************************************)
LEMMA TypesInit == Init => TypeOK
<1> SUFFICES ASSUME Init PROVE TypeOK
  OBVIOUS
<1>1. /\ tip \in Block /\ pool \subseteq Tx /\ session \in SessionType
      /\ saved \in WalletState
  BY StartTypes, TreeAssumption DEF TreeAssumption, Init
<1>2. /\ pending_utxos \subseteq Mine /\ send.pc = "none"
      /\ here \subseteq made /\ sent \subseteq made /\ failed \subseteq made
      /\ made \subseteq Own /\ reorgs \in Nat /\ restarts \in Nat
  BY DEF Init, NoSend
<1> QED BY <1>1, <1>2 DEF TypeOK, SessionType

(***************************************************************************)
(* A load, whether or not it gets to its end.                              *)
(***************************************************************************)
LEMMA TypesLoad ==
    ASSUME TypeOK, Load \/ LoadFails
    PROVE  TypeOK'
<1>1. saved \in WalletState /\ CaughtUp(saved) \in WalletState
  BY CaughtUpType DEF TypeOK
<1>2. session' \in SessionType /\ saved' \in WalletState
  <2>1. NoSession \in SessionType
    BY StartTypes
  <2>2. \A w \in WalletState : Session(w) \in SessionType
    BY DEF Session, SessionType
  <2> QED BY <1>1, <2>1, <2>2 DEF Load, LoadFails
<1>3. UNCHANGED <<tip, pool, pending_utxos, send, past, bounds>>
  BY DEF Load, LoadFails
<1> QED BY <1>2, <1>3 DEF past, bounds, TypeOK, SessionType

(***************************************************************************)
(* The pool gains at most the transaction it is offered.                   *)
(***************************************************************************)
LEMMA PoolTypes ==
    ASSUME NEW t \in Tx, NEW p \in PoolsWith(t), pool \subseteq Tx
    PROVE  p \subseteq pool \cup {t}
  BY DEF PoolsWith

(***************************************************************************)
(* The steps of "send", and a transaction from the network.                *)
(***************************************************************************)
LEMMA TypesSend ==
    ASSUME TypeOK, NEW t \in Tx,
           Build(t) \/ ToPool(t) \/ Sent(t) \/ SendFails(t) \/ FromNetwork(t)
    PROVE  TypeOK'
<1>1. /\ TypeOK /\ session \in SessionType /\ saved \in WalletState /\ session.w \in WalletState
  BY DEF TypeOK, SessionType
<1>2. CASE Build(t)
  <2>1. session' \in SessionType
    <3>1. [session.w EXCEPT !.owned = @ \ TxIns[t]] \in WalletState
      BY <1>1 DEF WalletState
    <3> QED BY <1>1, <1>2, <3>1 DEF Build, SessionType
  <2>2. t \in Own /\ TxIns[t] \subseteq Mine
    BY <1>2 DEF Build, Own
  <2> QED BY <1>1, <1>2, <2>1, <2>2 DEF Build, bounds, TypeOK, SessionType
<1>3. CASE ToPool(t)
  <2>1. pool' \subseteq Tx
    BY <1>1, <1>3, PoolTypes DEF ToPool, TypeOK
  <2>2. send.pc = "built" /\ send' = [send EXCEPT !.pc = "pooled"] /\ send'.pc = "pooled"
        /\ send'.tx = {t} /\ t \in here \cap Own
    BY <1>1, <1>3 DEF ToPool, TypeOK
  <2> QED BY <1>1, <1>3, <2>1, <2>2 DEF ToPool, past, bounds, TypeOK
<1>4. CASE Sent(t)
  <2>1. t \in made
    BY <1>1, <1>4 DEF Sent, TypeOK
  <2> QED BY <1>1, <1>4, <2>1 DEF Sent, NoSend, bounds, TypeOK
<1>5. CASE SendFails(t)
  <2>1. t \in made
    BY <1>1, <1>5 DEF SendFails, TypeOK
  <2> QED BY <1>1, <1>5, <2>1 DEF SendFails, NoSend, bounds, TypeOK
<1>6. CASE FromNetwork(t)
  <2>1. pool' \subseteq Tx
    BY <1>1, <1>6, PoolTypes DEF FromNetwork, TypeOK
  <2> QED BY <1>1, <1>6, <2>1 DEF FromNetwork, past, bounds, TypeOK
<1> QED BY <1>2, <1>3, <1>4, <1>5, <1>6

(***************************************************************************)
(* The chain grows or moves to another branch.                             *)
(***************************************************************************)
LEMMA TypesChain ==
    ASSUME TypeOK, NEW b \in Block, Extend(b) \/ Reorganise(b)
    PROVE  TypeOK'
<1>1. /\ session \in SessionType /\ session.w \in WalletState
      /\ tip \in Block /\ pool \subseteq Tx
  BY DEF TypeOK, SessionType
<1>2. CASE Extend(b)
  BY <1>1, <1>2 DEF Extend, Chain!Extend, Chain!MoveTo, past, bounds, TypeOK
<1>3. CASE Reorganise(b)
  <2>1. Chain!OnOtherBranch(b) /\ tip' = b
    BY <1>3 DEF Reorganise, Chain!Reorganise, Chain!MoveTo
  <2>2. session' \in SessionType
    <3>1. AfterReorg(session.w, b) \in WalletState
      BY <1>1, <2>1, AfterReorgType
    <3> QED BY <1>1, <1>3, <3>1 DEF Reorganise, Session, SessionType
  <2>3. pool' \subseteq Tx
    BY <1>1, <1>3, TxAssumption DEF TxAssumption, Reorganise, Returned
  <2> QED BY <1>1, <1>3, <2>1, <2>2, <2>3
          DEF Reorganise, past, bounds, TypeOK, SessionType
<1> QED BY <1>2, <1>3

(***************************************************************************)
(* The types are inductive.                                                *)
(***************************************************************************)
LEMMA TypesNext == TypeOK /\ [Next]_vars => TypeOK'
<1> SUFFICES ASSUME TypeOK, [Next]_vars PROVE TypeOK'
  OBVIOUS
<1>1. CASE Restart
  BY <1>1, StartTypes DEF Restart, NoSend, TypeOK, SessionType
<1>2. CASE UNCHANGED vars
  BY <1>2 DEF vars, past, bounds, TypeOK
<1> QED BY <1>1, <1>2, TypesLoad, TypesSend, TypesChain DEF Next

(***************************************************************************)
(* Every variable of the wallet keeps its type, for any blocks and any     *)
(* coins, through every load, send, reorganisation and restart; a          *)
(* transaction that "send" has in hand is one the wallet built in this run *)
(* of the node.                                                            *)
(***************************************************************************)
THEOREM WalletTypesHold == Spec => []TypeOK
  BY TypesInit, TypesNext, PTL DEF Spec

-----------------------------------------------------------------------------
(* Gaps. *)

(***************************************************************************)
(* A wallet that has seen every block of the chain up to its height.       *)
(***************************************************************************)
OnTheChain(w) ==
    /\ w.whole /\ w.synced = Height[w.at]
    /\ w.synced <= Height[tip] /\ w.at = Branch[tip][w.synced]

(***************************************************************************)
(* Until the first reorganisation both copies of the wallet are on the     *)
(* chain.                                                                  *)
(***************************************************************************)
GrowthInvariant == reorgs = 0 => OnTheChain(saved) /\ OnTheChain(session.w)

(***************************************************************************)
(* The fields of a wallet after a block.                                   *)
(***************************************************************************)
LEMMA ScanBlockFields ==
    ASSUME NEW w \in WalletState, NEW b \in Block
    PROVE  /\ ScanBlock(w, b).synced = Height[b] /\ ScanBlock(w, b).at = b
           /\ ScanBlock(w, b).whole = (w.whole /\ Prev[b] = w.at)
  BY DEF ScanBlock

(***************************************************************************)
(* A scan from the height above the last block seen leaves nothing out.    *)
(***************************************************************************)
LEMMA ScanFollowsTheBranch ==
    ASSUME NEW w \in WalletState, NEW b \in Block,
           NEW first \in Nat \ {0}, NEW last \in first..Height[b],
           w.whole, w.at = Branch[b][first - 1]
    PROVE  LET v == ScanRange(w, b, first, last)
           IN  v.whole /\ v.synced = last /\ v.at = Branch[b][last]
<1>1. PICK f \in [(first - 1)..last -> WalletState] :
          Scans(f, w, b, first, last) /\ ScanRange(w, b, first, last) = f[last]
  BY ScanRangeSteps
<1>2. ASSUME NEW h \in first..last
      PROVE  /\ Branch[b][h] \in Block /\ Height[Branch[b][h]] = h
             /\ Prev[Branch[b][h]] = Branch[b][h - 1]
  <2>1. h \in 1..Height[b]
    BY BranchFacts
  <2> QED BY <2>1, BranchParent
<1> DEFINE T == {h \in first..last : /\ f[h].whole /\ f[h].synced = h
                                    /\ f[h].at = Branch[b][h]}
<1>3. first \in T
  <2>1. f[first] = ScanBlock(w, Branch[b][first])
    BY <1>1 DEF Scans
  <2>2. first \in first..last
    OBVIOUS
  <2>3. f[first].at = Branch[b][first] /\ f[first].synced = first
    BY <1>2, <2>1, <2>2 DEF ScanBlock
  <2>4. f[first].whole = (w.whole /\ Prev[Branch[b][first]] = w.at)
    BY <1>2, <2>1, <2>2, ScanBlockFields
  <2> QED BY <1>2, <2>2, <2>3, <2>4
<1>4. ASSUME NEW h \in first..(last - 1), h \in T PROVE h + 1 \in T
  <2>1. h + 1 \in first..last /\ (h + 1) - 1 = h
    OBVIOUS
  <2>2. f[h + 1] = ScanBlock(f[h], Branch[b][h + 1])
    BY <1>1, <2>1 DEF Scans
  <2>3. f[h + 1].at = Branch[b][h + 1] /\ f[h + 1].synced = h + 1
    BY <1>2, <2>1, <2>2 DEF ScanBlock
  <2>4. f[h + 1].whole = (f[h].whole /\ Prev[Branch[b][h + 1]] = f[h].at)
    <3>1. f[h] \in WalletState
      OBVIOUS
    <3>2. Branch[b][h + 1] \in Block
      BY <1>2, <2>1
    <3>3. ScanBlock(f[h], Branch[b][h + 1]).whole
             = (f[h].whole /\ Prev[Branch[b][h + 1]] = f[h].at)
      BY ONLY <3>1, <3>2, ScanBlockFields
    <3> QED BY <2>2, <3>3
  <2>5. Prev[Branch[b][h + 1]] = Branch[b][h]
    BY <1>2, <2>1
  <2>6. f[h].whole /\ f[h].at = Branch[b][h]
    BY <1>4
  <2>7. f[h + 1].whole
    BY <2>4, <2>5, <2>6
  <2> QED BY <2>1, <2>3, <2>7
<1> HIDE DEF T
<1>5. \A h \in first..last : h \in T
  <2>1. first \in Int /\ last \in Int
    OBVIOUS
  <2>2. \A h \in first..(last - 1) : h \in T => h + 1 \in T
    BY <1>4
  <2> QED BY ONLY <1>3, <2>1, <2>2, RangeInduction
<1> QED BY <1>1, <1>5 DEF T

(***************************************************************************)
(* The first state.                                                        *)
(***************************************************************************)
LEMMA GrowthInit == Init => GrowthInvariant
<1>1. /\ Branch[Genesis][0] = Genesis /\ Height[Genesis] = 0
  BY TreeAssumption, BranchFacts DEF TreeAssumption
<1> QED BY <1>1 DEF Init, GrowthInvariant, OnTheChain, NewWallet, NoSession

(***************************************************************************)
(* A load asks for the blocks right above the wallet it opens.             *)
(***************************************************************************)
LEMMA CaughtUpIsOnTheChain ==
    ASSUME NEW w \in WalletState, tip \in Block, OnTheChain(w)
    PROVE  OnTheChain(CaughtUp(w))
<1> DEFINE first == FirstMissing(w)
           v == ScanRange(w, tip, first, Height[tip])
<1>1. first \in Nat \ {0} /\ Height[tip] \in Nat /\ first - 1 = w.synced
  BY BranchFacts DEF FirstMissing, WalletState
<1>2. w.whole /\ w.at = Branch[tip][first - 1]
  BY <1>1 DEF OnTheChain
<1> HIDE DEF first
<1>3. CASE Height[tip] < first
  BY <1>3 DEF CaughtUp, ScanRange, first
<1>4. CASE ~(Height[tip] < first)
  <2>1. Height[tip] \in first..Height[tip]
    BY <1>1, <1>4
  <2>2. v.whole /\ v.synced = Height[tip] /\ v.at = Branch[tip][Height[tip]]
    BY <1>1, <1>2, <2>1, ScanFollowsTheBranch
  <2>3. Branch[tip][Height[tip]] = tip
    BY BranchFacts
  <2>4. CaughtUp(w) = v
    BY DEF CaughtUp, first
  <2> HIDE DEF v
  <2> QED BY <1>1, <2>2, <2>3, <2>4 DEF OnTheChain
<1> QED BY <1>3, <1>4

(***************************************************************************)
(* So whatever a load leaves is on the chain.                              *)
(***************************************************************************)
LEMMA GrowthLoad ==
    ASSUME TypeOK, GrowthInvariant, Load \/ LoadFails
    PROVE  GrowthInvariant'
<1> SUFFICES ASSUME reorgs' = 0 PROVE GrowthInvariant'
  BY DEF GrowthInvariant
<1>1. /\ UNCHANGED <<tip, reorgs>> /\ tip \in Block /\ saved \in WalletState
      /\ Height[tip] \in Nat /\ Branch[tip][0] = Genesis /\ Height[Genesis] = 0
  BY BranchFacts, TreeAssumption DEF TreeAssumption, Load, LoadFails, bounds, TypeOK
<1>2. OnTheChain(saved) /\ OnTheChain(NewWallet) /\ OnTheChain(CaughtUp(saved))
  BY <1>1, CaughtUpIsOnTheChain DEF GrowthInvariant, OnTheChain, NewWallet
<1>3. /\ saved' \in {saved, CaughtUp(saved)}
      /\ session'.w \in {NewWallet, saved, CaughtUp(saved)}
  BY DEF Load, LoadFails, Session, NoSession
<1> QED BY <1>1, <1>2, <1>3 DEF GrowthInvariant, OnTheChain

(***************************************************************************)
(* A new block: what was on the chain still is.                            *)
(***************************************************************************)
LEMMA GrowthExtend ==
    ASSUME TypeOK, GrowthInvariant, NEW b \in Block, Extend(b)
    PROVE  GrowthInvariant'
<1> SUFFICES ASSUME reorgs' = 0 PROVE GrowthInvariant'
  BY DEF GrowthInvariant
<1>1. /\ UNCHANGED <<session, saved, reorgs>>
      /\ tip' = b /\ Prev[b] = tip /\ b \in Block \ {Genesis}
      /\ tip \in Block /\ saved \in WalletState /\ session.w \in WalletState
  BY DEF Extend, Chain!Extend, Chain!MoveTo, bounds, TypeOK
<1>2. /\ Height[tip] \in Nat /\ Height[tip'] = Height[tip] + 1
      /\ \A h \in 0..Height[tip] : Branch[tip'][h] = Branch[tip][h]
  BY <1>1, ParentFacts, BranchFacts
<1>3. ASSUME NEW w \in WalletState, OnTheChain(w)
      PROVE  /\ w.whole /\ w.synced = Height[w.at]
             /\ w.synced <= Height[tip'] /\ w.at = Branch[tip'][w.synced]
  <2>1. w.synced \in 0..Height[tip]
    BY <1>2, <1>3 DEF OnTheChain, WalletState
  <2> QED BY <1>2, <1>3, <2>1 DEF OnTheChain
<1> QED BY <1>1, <1>3 DEF GrowthInvariant, OnTheChain

(***************************************************************************)
(* The steps that leave the chain and the session alone, though they may   *)
(* write the session to the database.                                      *)
(***************************************************************************)
LEMMA GrowthKept ==
    ASSUME TypeOK, GrowthInvariant,
           UNCHANGED <<tip, session, reorgs>>, saved' \in {saved, session.w}
    PROVE  GrowthInvariant'
  BY DEF GrowthInvariant, OnTheChain

(***************************************************************************)
(* The invariant is inductive: a reorganisation ends what it promises, and *)
(* every other step keeps it.                                              *)
(***************************************************************************)
LEMMA GrowthNext ==
    TypeOK /\ GrowthInvariant /\ [Next]_vars => GrowthInvariant'
<1> SUFFICES ASSUME TypeOK, GrowthInvariant, [Next]_vars
             PROVE  GrowthInvariant'
  OBVIOUS
<1>1. ASSUME NEW t \in Tx, Build(t) PROVE GrowthInvariant'
  <2>1. /\ UNCHANGED <<tip, saved, reorgs>>
        /\ session' = [session EXCEPT !.w.owned = @ \ TxIns[t]]
        /\ session \in SessionType
    BY <1>1 DEF Build, bounds, TypeOK, SessionType
  <2>2. /\ session'.w.whole = session.w.whole /\ session'.w.at = session.w.at
        /\ session'.w.synced = session.w.synced
    BY <2>1 DEF SessionType, WalletState
  <2>3. reorgs = 0 => (OnTheChain(saved) /\ OnTheChain(session.w))'
    BY <2>1, <2>2 DEF GrowthInvariant, OnTheChain
  <2> QED BY <2>1, <2>2, <2>3 DEF GrowthInvariant
<1>2. ASSUME NEW t \in Tx, ToPool(t) \/ Sent(t) \/ SendFails(t) \/ FromNetwork(t)
      PROVE  GrowthInvariant'
  <2>1. UNCHANGED <<tip, session, reorgs>> /\ saved' \in {saved, session.w}
    BY <1>2 DEF ToPool, Sent, SendFails, FromNetwork, bounds
  <2> QED BY <2>1, GrowthKept
<1>3. ASSUME NEW b \in Block, Reorganise(b) PROVE GrowthInvariant'
  <2>1. reorgs' # 0
    BY <1>3 DEF Reorganise, TypeOK
  <2> QED BY <2>1 DEF GrowthInvariant
<1>4. CASE Restart
  <2>1. /\ Branch[tip][0] = Genesis /\ Height[Genesis] = 0 /\ Height[tip] \in Nat
    BY BranchFacts, TreeAssumption DEF TreeAssumption, TypeOK
  <2>2. /\ UNCHANGED <<tip, saved, reorgs>> /\ session' = NoSession
    BY <1>4 DEF Restart
  <2> QED BY <2>1, <2>2
          DEF NoSession, NewWallet, GrowthInvariant, OnTheChain
<1>5. CASE UNCHANGED vars
  BY <1>5, GrowthKept DEF vars, bounds
<1> QED
  BY <1>1, <1>2, <1>3, <1>4, <1>5, GrowthLoad, GrowthExtend DEF Next

(***************************************************************************)
(* As long as the chain only grows no block is left out                    *)
(* (handle_load_wallet_internal and wallet_session_scan_range), whatever   *)
(* the chain, and whichever of "load" and "send" wrote the wallet last.    *)
(***************************************************************************)
THEOREM GapsCorrect == Spec => []OnlyReorgsLeaveGaps
<1>1. GrowthInvariant => OnlyReorgsLeaveGaps
  BY DEF GrowthInvariant, OnTheChain, OnlyReorgsLeaveGaps
<1> QED
  BY <1>1, TypesInit, TypesNext, GrowthInit, GrowthNext, PTL DEF Spec

-----------------------------------------------------------------------------
(* Replays. *)

(***************************************************************************)
(* A replay up to a given set of coins; IsReplay is the case of the coins  *)
(* the wallet has tried to spend.                                          *)
(***************************************************************************)
IsReplayUpTo(tried, w) ==
    w.whole => w.owned \subseteq Known(w.at) /\ Known(w.at) \ tried \subseteq w.owned

(***************************************************************************)
(* Wallet::scan_block on top of a replay is a replay of one more block.    *)
(* On top of anything else it leaves the wallet with a gap, of which       *)
(* nothing is said.                                                        *)
(***************************************************************************)
LEMMA ScanKeepsReplay ==
    ASSUME NEW tried, NEW w \in WalletState, NEW b \in Block \ {Genesis},
           Prev[b] = w.at => IsReplayUpTo(tried, w)
    PROVE  IsReplayUpTo(tried, ScanBlock(w, b))
<1> DEFINE v == ScanBlock(w, b)
<1>1. /\ v.at = b /\ v.whole = (w.whole /\ Prev[b] = w.at)
      /\ v.owned = (w.owned \ BlockIns(b)) \cup (BlockOuts(b) \cap Mine)
  BY ScanBlockFields DEF ScanBlock
<1>2. UtxoAfter[b] = (UtxoAfter[Prev[b]] \ BlockIns(b)) \cup BlockOuts(b)
  BY ReplayAssumption DEF ReplayAssumption, SpendAndCreate
<1> HIDE DEF v
<1> SUFFICES ASSUME v.whole
             PROVE  v.owned \subseteq Known(v.at) /\ Known(v.at) \ tried \subseteq v.owned
  BY DEF IsReplayUpTo, v
<1>3. w.whole /\ Prev[b] = w.at
  BY <1>1
<1> QED BY <1>1, <1>2, <1>3 DEF IsReplayUpTo, Known

(***************************************************************************)
(* The same for a range: the wallet before it must be a replay only if the *)
(* range continues it.                                                     *)
(***************************************************************************)
LEMMA ScanRangeKeepsReplay ==
    ASSUME NEW tried, NEW w \in WalletState, NEW b \in Block,
           NEW first \in Nat \ {0}, NEW last \in first..Height[b],
           Branch[b][first - 1] = w.at => IsReplayUpTo(tried, w)
    PROVE  IsReplayUpTo(tried, ScanRange(w, b, first, last))
<1>1. PICK f \in [(first - 1)..last -> WalletState] :
          Scans(f, w, b, first, last) /\ ScanRange(w, b, first, last) = f[last]
  BY ScanRangeSteps
<1>2. ASSUME NEW h \in first..last
      PROVE  Branch[b][h] \in Block \ {Genesis} /\ Prev[Branch[b][h]] = Branch[b][h - 1]
  <2>1. h \in 1..Height[b]
    BY BranchFacts
  <2> QED BY <2>1, BranchParent
<1> DEFINE T == {h \in first..last : IsReplayUpTo(tried, f[h])}
<1>3. first \in T
  <2>1. first \in first..last /\ f[first] = ScanBlock(w, Branch[b][first])
    BY <1>1 DEF Scans
  <2>2. IsReplayUpTo(tried, ScanBlock(w, Branch[b][first]))
    BY <1>2, <2>1, ScanKeepsReplay
  <2> QED BY <2>1, <2>2
<1>4. ASSUME NEW h \in first..(last - 1), h \in T PROVE h + 1 \in T
  <2>1. h + 1 \in first..last /\ (h + 1) - 1 = h /\ f[h] \in WalletState
    OBVIOUS
  <2>2. f[h + 1] = ScanBlock(f[h], Branch[b][h + 1])
    BY <1>1, <2>1 DEF Scans
  <2>3. IsReplayUpTo(tried, ScanBlock(f[h], Branch[b][h + 1]))
    BY <1>2, <1>4, <2>1, ScanKeepsReplay
  <2> QED BY <2>1, <2>2, <2>3
<1> HIDE DEF T
<1>5. \A h \in first..last : h \in T
  <2>1. first \in Int /\ last \in Int
    OBVIOUS
  <2>2. \A h \in first..(last - 1) : h \in T => h + 1 \in T
    BY <1>4
  <2> QED BY ONLY <1>3, <2>1, <2>2, RangeInduction
<1> QED BY <1>1, <1>5 DEF T

(***************************************************************************)
(* The transactions of the wallet that the chain holds are among those it  *)
(* built.                                                                  *)
(***************************************************************************)
MinedIsMade ==
    \A h \in 0..Height[tip] : BlockTxs[Branch[tip][h]] \cap Own \subseteq made

(***************************************************************************)
(* Wallet::remove_block_utxos, for the tip of the chain and a wallet that  *)
(* comes to its parent by it.  What the block spent does not come back: it *)
(* was tried, because only the wallet spends its coins.  What the block    *)
(* created was not there before.                                           *)
(***************************************************************************)
LEMMA RemoveKeepsReplay ==
    ASSUME OutputsBornOnce, OnlyOwnersSpend, MinedIsMade, tip \in Block \ {Genesis},
           NEW w \in WalletState, IsReplayUpTo(Tried, w),
           RemoveBlock(w, tip).at = Prev[tip]
    PROVE  IsReplayUpTo(Tried, RemoveBlock(w, tip))
<1> DEFINE v == RemoveBlock(w, tip)
<1>1. /\ v.owned = w.owned \ BlockOuts(tip) /\ v.whole = w.whole
      /\ v.at = IF w.at = tip THEN Prev[tip] ELSE w.at
  BY DEF RemoveBlock, WalletState
<1>2. v.at = Prev[tip]
  OBVIOUS
<1> HIDE DEF v
<1>3. UtxoAfter[tip] = (UtxoAfter[Prev[tip]] \ BlockIns(tip)) \cup BlockOuts(tip)
  BY ReplayAssumption DEF ReplayAssumption, SpendAndCreate
<1>4. /\ Height[tip] \in 1..Height[tip] /\ Height[tip] - 1 \in 0..(Height[tip] - 1)
      /\ Branch[tip][Height[tip]] = tip /\ Branch[tip][Height[tip] - 1] = Prev[tip]
      /\ Height[tip] \in 0..Height[tip]
  <2>1. Height[tip] \in Nat /\ Height[tip] # 0
    BY TreeAssumption DEF TreeAssumption
  <2> QED BY <2>1, BranchFacts, BranchParent
<1>5. BlockOuts(tip) \cap UtxoAfter[Prev[tip]] = {}
  BY <1>4, LaterOutputsAreNew
<1>6. Mine \cap BlockIns(tip) \subseteq Tried
  <2> SUFFICES ASSUME NEW c \in Mine, c \in BlockIns(tip) PROVE c \in Tried
    OBVIOUS
  <2>1. PICK t \in BlockTxs[tip] : c \in TxIns[t]
    BY DEF BlockIns
  <2>2. t \in Tx
    BY <2>1, TxAssumption DEF TxAssumption
  <2>3. t \in Own
    BY <2>1, <2>2 DEF OnlyOwnersSpend, Own
  <2>4. t \in made
    BY <1>4, <2>1, <2>3 DEF MinedIsMade
  <2> QED BY <2>1, <2>4 DEF Tried
<1> SUFFICES ASSUME v.whole
             PROVE  v.owned \subseteq Known(v.at) /\ Known(v.at) \ Tried \subseteq v.owned
  BY DEF IsReplayUpTo, v
<1>7. w.owned \subseteq Known(w.at) /\ Known(w.at) \ Tried \subseteq w.owned
  BY <1>1 DEF IsReplayUpTo
<1>8. CASE w.at = tip
  BY <1>1, <1>2, <1>3, <1>5, <1>6, <1>7, <1>8 DEF Known
<1>9. CASE w.at = Prev[tip]
  BY <1>1, <1>2, <1>5, <1>7, <1>9 DEF Known
<1> QED BY <1>1, <1>2, <1>8, <1>9

(***************************************************************************)
(* What atomic_reorg does to a session: a replay stays one, or has a gap.  *)
(***************************************************************************)
LEMMA AfterReorgKeepsReplay ==
    ASSUME OutputsBornOnce, OnlyOwnersSpend, MinedIsMade, tip \in Block,
           NEW w \in WalletState, IsReplayUpTo(Tried, w),
           NEW b \in Block, Chain!OnOtherBranch(b)
    PROVE  IsReplayUpTo(Tried, AfterReorg(w, b))
<1> DEFINE v == RemoveBlock(w, tip)
<1>1. /\ tip \in Block \ {Genesis} /\ Height[tip] \in Nat \ {0}
      /\ Height[b] \in Height[tip]..Height[b]
      /\ Branch[b][Height[tip] - 1] = Prev[tip]
  BY ForkFacts
<1>2. v \in WalletState
  BY BlockStepTypes
<1>3. Branch[b][Height[tip] - 1] = v.at => IsReplayUpTo(Tried, v)
  BY <1>1, RemoveKeepsReplay
<1> HIDE DEF v
<1>4. IsReplayUpTo(Tried, ScanRange(v, b, Height[tip], Height[b]))
  BY <1>1, <1>2, <1>3, ScanRangeKeepsReplay
<1> QED BY <1>4 DEF AfterReorg, v

(***************************************************************************)
(* The inductive invariant: both copies of the wallet are replays, and     *)
(* what the pool and the chain hold of the wallet it has built.            *)
(***************************************************************************)
ReplayInvariant ==
    /\ IsReplay(saved) /\ IsReplay(session.w)
    /\ pool \cap Own \subseteq made
    /\ MinedIsMade

(***************************************************************************)
(* A replay stays one when the wallet tries to spend more.                 *)
(***************************************************************************)
LEMMA MoreTried ==
    ASSUME NEW tried, NEW more, tried \subseteq more, NEW w, IsReplayUpTo(tried, w)
    PROVE  IsReplayUpTo(more, w)
  BY DEF IsReplayUpTo

(***************************************************************************)
(* A wallet that has seen nothing is a replay of genesis.                  *)
(***************************************************************************)
LEMMA NewWalletIsReplay == ASSUME NEW tried PROVE IsReplayUpTo(tried, NewWallet)
  BY ReplayAssumption DEF ReplayAssumption, IsReplayUpTo, NewWallet, Known

(***************************************************************************)
(* The first state.                                                        *)
(***************************************************************************)
LEMMA ReplayInit == Init => ReplayInvariant
<1> SUFFICES ASSUME Init PROVE ReplayInvariant
  OBVIOUS
<1>1. IsReplay(NewWallet)
  BY NewWalletIsReplay DEF IsReplay, IsReplayUpTo
<1>2. saved = NewWallet /\ session.w = NewWallet
  BY DEF Init, NoSession
<1>3. MinedIsMade
  <2>1. tip = Genesis /\ Height[Genesis] = 0 /\ Branch[Genesis][0] = Genesis
    BY TreeAssumption, BranchFacts DEF TreeAssumption, Init
  <2> QED BY <2>1, TxAssumption DEF TxAssumption, MinedIsMade
<1> QED BY <1>1, <1>2, <1>3 DEF Init, ReplayInvariant

(***************************************************************************)
(* The two halves of the invariant: the wallets, and the chain with its    *)
(* pool.                                                                   *)
(***************************************************************************)
WalletsReplay(tried) ==
    IsReplayUpTo(tried, saved) /\ IsReplayUpTo(tried, session.w)

ChainIsMade == pool \cap Own \subseteq made /\ MinedIsMade

(***************************************************************************)
(* The invariant, before and after a step.                                 *)
(***************************************************************************)
LEMMA ReplayParts == ReplayInvariant <=> WalletsReplay(Tried) /\ ChainIsMade
  BY DEF ReplayInvariant, WalletsReplay, ChainIsMade, IsReplay, IsReplayUpTo

(* The same of the next state. *)
LEMMA ReplayPartsNext == ReplayInvariant' <=> (WalletsReplay(Tried) /\ ChainIsMade)'
  BY DEF ReplayInvariant, WalletsReplay, ChainIsMade, IsReplay, IsReplayUpTo

(***************************************************************************)
(* A load, from whatever block and height the wallet was left at.          *)
(***************************************************************************)
LEMMA ReplayLoad ==
    ASSUME TypeOK, WalletsReplay(Tried), Load \/ LoadFails
    PROVE  WalletsReplay(Tried)'
<1> DEFINE first == FirstMissing(saved)
<1>1. /\ tip \in Block /\ saved \in WalletState /\ first \in Nat \ {0}
      /\ Height[tip] \in Nat
  BY BranchFacts DEF TypeOK, WalletState, FirstMissing
<1>2. IsReplayUpTo(Tried, saved)
  BY DEF WalletsReplay
<1> HIDE DEF first
<1>3. IsReplayUpTo(Tried, ScanRange(saved, tip, first, Height[tip]))
  <2>1. CASE Height[tip] < first
    BY <1>2, <2>1 DEF ScanRange
  <2>2. CASE ~(Height[tip] < first)
    <3>1. Height[tip] \in first..Height[tip]
      BY <1>1, <2>2
    <3> QED BY <1>1, <1>2, <3>1, ScanRangeKeepsReplay
  <2> QED BY <2>1, <2>2
<1>4. IsReplayUpTo(Tried, CaughtUp(saved))
  BY <1>3 DEF CaughtUp, first
<1>5. /\ saved' \in {saved, CaughtUp(saved)}
      /\ session'.w \in {NewWallet, saved, CaughtUp(saved)}
      /\ Tried' = Tried
  BY DEF Load, LoadFails, Session, NoSession, past, Tried
<1> QED BY <1>2, <1>4, <1>5, NewWalletIsReplay DEF WalletsReplay

(***************************************************************************)
(* create_transaction takes coins from the session, which counts them as   *)
(* tried.                                                                  *)
(***************************************************************************)
LEMMA ReplayBuild ==
    ASSUME TypeOK, WalletsReplay(Tried), NEW t \in Tx, Build(t)
    PROVE  WalletsReplay(Tried)'
<1>1. /\ Tried' = Tried \cup TxIns[t] /\ saved' = saved
      /\ session' = [session EXCEPT !.w.owned = @ \ TxIns[t]]
      /\ session \in SessionType
  BY DEF Build, Tried, TypeOK, SessionType
<1>2. /\ session'.w.owned = session.w.owned \ TxIns[t]
      /\ session'.w.at = session.w.at /\ session'.w.whole = session.w.whole
  BY <1>1 DEF SessionType, WalletState
<1>3. IsReplayUpTo(Tried', session'.w)
  BY <1>1, <1>2 DEF WalletsReplay, IsReplayUpTo
<1>4. IsReplayUpTo(Tried', saved)
  BY <1>1, MoreTried DEF WalletsReplay
<1> QED BY <1>1, <1>3, <1>4 DEF WalletsReplay

(***************************************************************************)
(* The steps that change no wallet, though they may write the session.     *)
(***************************************************************************)
LEMMA ReplayKept ==
    ASSUME WalletsReplay(Tried), saved' \in {saved, session.w},
           UNCHANGED <<session, made>>
    PROVE  WalletsReplay(Tried)'
  BY DEF WalletsReplay, Tried

(***************************************************************************)
(* The steps that leave the chain alone and put only the wallet's own      *)
(* transactions, or strangers', into the pool.                             *)
(***************************************************************************)
LEMMA ChainKept ==
    ASSUME ChainIsMade, tip' = tip, made \subseteq made',
           pool' \cap Own \subseteq pool \cup made'
    PROVE  ChainIsMade'
  BY DEF ChainIsMade, MinedIsMade

(***************************************************************************)
(* The steps of "send", and a transaction from the network.                *)
(***************************************************************************)
LEMMA ReplaySend ==
    ASSUME TypeOK, WalletsReplay(Tried), ChainIsMade, NEW t \in Tx,
           Build(t) \/ ToPool(t) \/ Sent(t) \/ SendFails(t) \/ FromNetwork(t)
    PROVE  WalletsReplay(Tried)' /\ ChainIsMade'
<1>1. CASE Build(t)
  <2>1. tip' = tip /\ made \subseteq made' /\ pool' = pool
    BY <1>1 DEF Build
  <2> QED BY <1>1, <2>1, ReplayBuild, ChainKept
<1>2. CASE ToPool(t)
  <2>1. t \in made
    BY <1>2 DEF ToPool, TypeOK
  <2>2. pool' \subseteq pool \cup {t} /\ UNCHANGED <<tip, session, saved, made>>
    BY <1>2, PoolTypes DEF ToPool, past, TypeOK
  <2> QED BY <2>1, <2>2, ReplayKept, ChainKept
<1>3. CASE Sent(t) \/ SendFails(t)
  <2>1. /\ UNCHANGED <<tip, pool, session, made>> /\ saved' \in {saved, session.w}
    BY <1>3 DEF Sent, SendFails
  <2> QED BY <2>1, ReplayKept, ChainKept
<1>4. CASE FromNetwork(t)
  <2>1. t \in made \/ t \notin Own
    BY <1>4 DEF FromNetwork, TypeOK
  <2>2. pool' \subseteq pool \cup {t} /\ UNCHANGED <<tip, session, saved, made>>
    BY <1>4, PoolTypes DEF FromNetwork, past, TypeOK
  <2> QED BY <2>1, <2>2, ReplayKept, ChainKept
<1> QED BY <1>1, <1>2, <1>3, <1>4

(***************************************************************************)
(* The chain: a block mines only what the wallet gave away, and a          *)
(* reorganisation returns to the pool only what the chain held.            *)
(***************************************************************************)
LEMMA ReplayChain ==
    ASSUME OutputsBornOnce, OnlyOwnersSpend,
           TypeOK, WalletsReplay(Tried), ChainIsMade, NEW b \in Block,
           Extend(b) \/ Reorganise(b)
    PROVE  WalletsReplay(Tried)' /\ ChainIsMade'
<1>1. /\ tip \in Block /\ sent \subseteq made /\ session.w \in WalletState
      /\ (sent \cup pool) \cap Own \subseteq made /\ MinedIsMade
      /\ Height[tip] \in Nat /\ Height[b] \in Nat
  BY BranchFacts DEF TypeOK, ChainIsMade
<1>2. CASE Extend(b)
  <2>1. /\ UNCHANGED <<session, saved, made>> /\ tip' = b /\ pool' \subseteq pool
        /\ b \in Block \ {Genesis} /\ Prev[b] = tip
        /\ BlockTxs[b] \cap Own \subseteq made
    BY <1>1, <1>2 DEF Extend, Chain!Extend, Chain!MoveTo, Minable, past
  <2>2. MinedIsMade'
    <3>1. ASSUME NEW h \in 0..Height[b] PROVE BlockTxs[Branch[b][h]] \cap Own \subseteq made
      <4>1. Height[b] = Height[tip] + 1 /\ Branch[b][Height[b]] = b
            /\ \A i \in 0..Height[tip] : Branch[b][i] = Branch[tip][i]
        BY <2>1, ParentFacts
      <4> QED BY <1>1, <2>1, <4>1 DEF MinedIsMade
    <3> QED BY <2>1, <3>1 DEF MinedIsMade
  <2> QED BY <2>1, <2>2, ReplayKept DEF ChainIsMade
<1>3. CASE Reorganise(b)
  <2>1. /\ UNCHANGED <<saved, made>> /\ tip' = b /\ Chain!OnOtherBranch(b)
        /\ pool' = pool \cup Returned
        /\ session' = (IF session.open THEN Session(AfterReorg(session.w, b)) ELSE session)
        /\ \A h \in Height[tip]..Height[b] : BlockTxs[Branch[b][h]] \cap Own \subseteq made
    BY <1>1, <1>3 DEF Reorganise, Chain!Reorganise, Chain!MoveTo, Minable, past
  <2>2. /\ Height[tip] \in Nat \ {0} /\ Branch[tip][Height[tip]] = tip
        /\ Height[tip] \in 0..Height[tip]
        /\ \A h \in 0..(Height[tip] - 1) : Branch[b][h] = Branch[tip][h]
    BY <1>1, <2>1, ForkFacts
  <2>3. MinedIsMade'
    <3>1. ASSUME NEW h \in 0..Height[b] PROVE BlockTxs[Branch[b][h]] \cap Own \subseteq made
      <4>1. CASE h < Height[tip]
        BY <1>1, <2>2, <4>1 DEF MinedIsMade
      <4>2. CASE h >= Height[tip]
        BY <1>1, <2>1, <2>2, <4>2
      <4> QED BY <2>2, <4>1, <4>2
    <3> QED BY <2>1, <3>1 DEF MinedIsMade
  <2>4. Returned \cap Own \subseteq made
    <3>1. BlockTxs[Branch[tip][Height[tip]]] \cap Own \subseteq made
      BY <1>1, <2>2 DEF MinedIsMade
    <3> QED BY <2>2, <3>1 DEF Returned
  <2>5. IsReplayUpTo(Tried, session'.w)
    <3>1. IsReplayUpTo(Tried, session.w)
      BY DEF WalletsReplay
    <3>2. IsReplayUpTo(Tried, AfterReorg(session.w, b))
      BY <1>1, <2>1, <3>1, AfterReorgKeepsReplay
    <3> QED BY <2>1, <3>1, <3>2 DEF Session
  <2> QED BY <1>1, <2>1, <2>3, <2>4, <2>5 DEF WalletsReplay, ChainIsMade, Tried
<1> QED BY <1>2, <1>3

(***************************************************************************)
(* The invariant is inductive.                                             *)
(***************************************************************************)
LEMMA ReplayNext ==
    ASSUME OutputsBornOnce, OnlyOwnersSpend
    PROVE  TypeOK /\ ReplayInvariant /\ [Next]_vars => ReplayInvariant'
<1> SUFFICES ASSUME TypeOK, WalletsReplay(Tried), ChainIsMade, [Next]_vars
             PROVE  WalletsReplay(Tried)' /\ ChainIsMade'
  BY ReplayParts, ReplayPartsNext
<1>1. CASE Load \/ LoadFails
  <2>1. UNCHANGED <<tip, pool, made>>
    BY <1>1 DEF Load, LoadFails, past
  <2> QED BY <1>1, <2>1, ReplayLoad, ChainKept
<1>2. CASE Restart
  <2>1. /\ UNCHANGED <<tip, saved, made>> /\ pool' = {}
        /\ session'.w = NewWallet
    BY <1>2 DEF Restart, NoSession
  <2> QED BY <2>1, NewWalletIsReplay, ChainKept DEF WalletsReplay, Tried
<1>3. CASE UNCHANGED vars
  <2>1. UNCHANGED <<tip, pool, session, saved, made>>
    BY <1>3 DEF vars, past
  <2> QED BY <2>1, ReplayKept, ChainKept
<1> QED BY <1>1, <1>2, <1>3, ReplaySend, ReplayChain DEF Next

(***************************************************************************)
(* A wallet without a gap owns what a replay of the blocks it has seen     *)
(* leaves it, up to the coins it has tried to spend: scan_block,           *)
(* remove_block_utxos and the two commands, for any tree of blocks in      *)
(* which no branch creates an output twice and only the wallet spends its  *)
(* coins, any number of reorganisations and restarts, and whatever comes   *)
(* between the steps of a payment.                                         *)
(***************************************************************************)
THEOREM ReplaysCorrect ==
    ASSUME OutputsBornOnce, OnlyOwnersSpend
    PROVE  Spec => []WholeWalletsAreReplays
<1>1. ReplayInvariant => WholeWalletsAreReplays
  BY DEF ReplayInvariant, WholeWalletsAreReplays
<1>2. TypeOK /\ ReplayInvariant /\ [Next]_vars => ReplayInvariant'
  BY ReplayNext
<1> QED
  BY <1>1, <1>2, TypesInit, TypesNext, ReplayInit, PTL DEF Spec

(***************************************************************************)
(* What "load" says of a synced wallet is true as long as the chain has    *)
(* only grown: it owns every coin of the chain that is its own and that it *)
(* never tried to spend.  So reorganisations are the only way into the     *)
(* states in which it does not.                                            *)
(***************************************************************************)
THEOREM GrowingChainsHideNoCoins ==
    ASSUME OutputsBornOnce, OnlyOwnersSpend
    PROVE  Spec => [](reorgs = 0 => SyncedWalletsKnowTheirCoins)
<1>1. TypeOK /\ ReplayInvariant /\ GrowthInvariant
         => (reorgs = 0 => SyncedWalletsKnowTheirCoins)
  <2> SUFFICES ASSUME TypeOK, ReplayInvariant, GrowthInvariant, reorgs = 0,
                      session.w.synced >= Height[tip]
               PROVE  Known(tip) \ Tried \subseteq session.w.owned
    BY DEF SyncedWalletsKnowTheirCoins
  <2>1. /\ session.w \in WalletState /\ tip \in Block /\ Height[tip] \in Nat
        /\ Branch[tip][Height[tip]] = tip
    BY BranchFacts DEF TypeOK
  <2>2. OnTheChain(session.w) /\ IsReplay(session.w)
    BY DEF GrowthInvariant, ReplayInvariant
  <2>3. session.w.synced = Height[tip]
    <3>1. session.w.synced \in Nat
      BY <2>1 DEF WalletState
    <3>2. session.w.synced <= Height[tip]
      BY <2>2 DEF OnTheChain
    <3> QED BY <2>1, <3>1, <3>2
  <2>4. session.w.at = tip /\ session.w.whole
    BY <2>1, <2>2, <2>3 DEF OnTheChain
  <2> QED BY <2>2, <2>4 DEF IsReplay
<1>2. TypeOK /\ ReplayInvariant /\ [Next]_vars => ReplayInvariant'
  BY ReplayNext
<1> QED
  BY <1>1, <1>2, TypesInit, TypesNext, ReplayInit, GrowthInit, GrowthNext, PTL DEF Spec
=============================================================================
