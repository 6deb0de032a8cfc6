---------------------------- MODULE HtlcChain ----------------------------
(***************************************************************************)
(* The two blockchains of a swap, as the coordinator sees them through the *)
(* node calls of coordinator/chain.js: one HTLC output per leg, the        *)
(* transaction that spends it, and the tip heights.  The chains are not    *)
(* part of the repository: this module is their environment model.         *)
(*                                                                         *)
(* A deposit is made to the script of one derivation of the swap, named    *)
(* here by its timelock.  Each new deposit transaction on a leg has a new  *)
(* id (its outpoint).                                                      *)
(***************************************************************************)
EXTENDS Naturals

CONSTANTS
  MaxHeight,     \* bound: no chain grows past this height
  MaxDeposits,   \* bound: deposit transactions per leg (replacements count)
  MaxDelay,      \* a spend in the mempool is mined within this many blocks
  Drift          \* how far one chain's block production runs ahead

ASSUME ChainAssumption ==
  /\ MaxHeight \in Nat \ {0} /\ MaxDeposits \in Nat
  /\ MaxDelay \in Nat /\ Drift \in Nat

Leg  == {"btc", "qbit"}
Kind == {"claim", "refund"}
Other(l) == IF l = "btc" THEN "qbit" ELSE "btc"

VARIABLES
  height,    \* leg -> tip height
  dep,       \* leg -> the deposit paying the leg's HTLC script
  spend,     \* leg -> the transaction spending that deposit
  revealed   \* the preimage has been in a mempool: it is public for good

chainVars == <<height, dep, spend, revealed>>

\* `at` is the block of a confirmed transaction, 0 in the mempool;
\* `since` is the height at which a spend entered the mempool.
Deposit == [id : 0..MaxDeposits, st : {"none", "mempool", "confirmed"},
            ok : BOOLEAN, at : 0..MaxHeight, lock : Nat]
Spend   == [kind : Kind \cup {"none"}, at : 0..MaxHeight, since : 0..MaxHeight]

NoSpend == [kind |-> "none", at |-> 0, since |-> 0]

ChainTypeOK ==
  /\ height \in [Leg -> 1..MaxHeight]
  /\ dep \in [Leg -> Deposit]
  /\ spend \in [Leg -> Spend]
  /\ revealed \in BOOLEAN

ChainInit ==
  /\ height = [l \in Leg |-> 1]
  /\ dep = [l \in Leg |-> [id |-> 0, st |-> "none", ok |-> FALSE, at |-> 0, lock |-> 0]]
  /\ spend = [l \in Leg |-> NoSpend]
  /\ revealed = FALSE

-----------------------------------------------------------------------------
\* What the node answers.

\* isUnspent (gettxout with the mempool): this outpoint exists and nothing
\* in the chain or the mempool spends it.
IsUnspent(sp, l, id) == dep[l].id = id /\ dep[l].st # "none" /\ sp[l].kind = "none"

\* findOutput: an unspent output pays the script with this timelock.
Found(l, lock) == IsUnspent(spend, l, dep[l].id) /\ dep[l].lock = lock

\* testmempoolaccept of a spend of outpoint `id`: the output is there, no
\* other spend of it is, and a refund's CLTV height has been reached.
Accepts(sp, l, id, kind) ==
  /\ IsUnspent(sp, l, id)
  /\ kind = "refund" => height[l] >= dep[l].lock

\* sendrawtransaction of an accepted spend.
Sent(sp, l, kind) ==
  [sp EXCEPT ![l] = [kind |-> kind, at |-> 0, since |-> height[l]]]

Depth(l) == IF dep[l].st = "confirmed" THEN height[l] + 1 - dep[l].at ELSE 0

-----------------------------------------------------------------------------
\* What miners and mempools do.

\* Neither chain outruns the other by more than Drift blocks: the timelock
\* windows are wall-clock times converted to blocks, so a chain's height
\* stands for elapsed time.
InStep(l) == height[l] + 1 <= height[Other(l)] + Drift

\* A block that confirms the deposit, its spend, both or neither; a spend
\* that has waited MaxDelay blocks is in it.
MineBlock(l) ==
  /\ height[l] < MaxHeight /\ InStep(l)
  /\ height' = [height EXCEPT ![l] = @ + 1]
  /\ \E d, x \in BOOLEAN :
       /\ d => dep[l].st = "mempool"
       /\ x => /\ spend[l].kind # "none" /\ spend[l].at = 0
               /\ d \/ dep[l].st = "confirmed"
       /\ (/\ spend[l].kind # "none" /\ spend[l].at = 0
           /\ height[l] + 1 >= spend[l].since + MaxDelay) => x
       /\ dep' = IF d THEN [dep EXCEPT ![l] = [@ EXCEPT !.st = "confirmed", !.at = height[l] + 1]]
                 ELSE dep
       /\ spend' = IF x THEN [spend EXCEPT ![l] = [@ EXCEPT !.at = height[l] + 1, !.since = 0]]
                   ELSE spend
  /\ UNCHANGED revealed

\* A mempool spend is dropped, e.g. under fee pressure.
EvictSpend(l) ==
  /\ spend[l].kind # "none" /\ spend[l].at = 0
  /\ spend' = [spend EXCEPT ![l] = NoSpend]
  /\ UNCHANGED <<height, dep, revealed>>

\* A mempool deposit nobody spends is dropped without a replacement.
DropDeposit(l) ==
  /\ dep[l].st = "mempool" /\ spend[l].kind = "none"
  /\ dep' = [dep EXCEPT ![l].st = "none"]
  /\ UNCHANGED <<height, spend, revealed>>

\* The tip block is replaced by one without the deposit, which returns to
\* the mempool with whatever spends it.
Reorg(l) ==
  /\ dep[l].st = "confirmed" /\ dep[l].at = height[l]
  /\ dep' = [dep EXCEPT ![l] = [@ EXCEPT !.st = "mempool", !.at = 0]]
  /\ spend' = [spend EXCEPT ![l] = [@ EXCEPT !.at = 0, !.since =
                 IF spend[l].kind = "none" THEN 0 ELSE height[l]]]
  /\ UNCHANGED <<height, revealed>>
=============================================================================
