---------------------------- MODULE SwapEngine ----------------------------
(***************************************************************************)
(* The coordinator's swap engine, coordinator/swap.js: the record of one   *)
(* swap, the handlers that change it, the watchtower, and the checkpoint   *)
(* that survives a restart.                                                *)
(*                                                                         *)
(* A handler is a function from the swap's record (and the chains) to its  *)
(* new record, as in the code, where it mutates the object `s`.  Each ends *)
(* in touch(), which checkpoints the record when its signature changed.    *)
(*                                                                         *)
(* The direction is always btc2qbt: alice funds fromLeg = btc and claims   *)
(* toLeg = qbit, revealing the preimage; bob funds qbit and claims btc.    *)
(***************************************************************************)
EXTENDS HtlcChain

CONSTANTS
  Target,        \* leg -> confirmations that make its deposit reorg-safe
  RevealBuffer,  \* REVEAL_BUFFER: qbit blocks to spare at the reveal
  Window,        \* leg -> blocks from the derivation to the timelock
  Trusted,       \* legs configured trustUnconfirmed
  Indexed        \* the backend names the spender of a confirmed spend too

ASSUME EngineAssumption ==
  /\ Target \in [Leg -> Nat] /\ RevealBuffer \in Nat
  /\ Window \in [Leg -> Nat \ {0}]
  /\ Trusted \subseteq Leg /\ Indexed \in BOOLEAN

Role == {"alice", "bob"}
Funds(r)  == IF r = "alice" THEN "btc" ELSE "qbit"
Claims(r) == Other(Funds(r))

States == {"CREATED", "READY", "FROM_FUNDED", "TO_FUNDED", "MATURING", "CLAIMABLE",
           "CLAIMED", "COMPLETE", "REFUNDED", "CANCELED"}
TERMINAL == {"COMPLETE", "REFUNDED"}

VARIABLES
  s,         \* the swap's record in memory
  disk,      \* the record the store would reload
  sigSet,    \* s._sig is set (it is not persisted)
  deriving,  \* heights read by deriveHtlcs calls that are still awaiting
  up,        \* the coordinator process is running
  phase      \* where the watcher's tick stands: before poll or before the watchtower

engineVars == <<s, disk, sigSet, deriving, up, phase>>

\* A recorded deposit: the outpoint's id (0: none), the height it was seen at
\* (0: still unconfirmed), its depth at the last poll and whether the
\* coordinator saw it spent.
Funding == [id : 0..MaxDeposits, h : 0..MaxHeight, confs : 0..MaxHeight, spent : BOOLEAN]
NoFunding == [id |-> 0, h |-> 0, confs |-> 0, spent |-> FALSE]

\* A finish bundle names the outpoints its pre-signed refund and claim spend.
Bundle == [refund : 0..MaxDeposits, claim : 0..MaxDeposits]
NoBundle == [refund |-> 0, claim |-> 0]

Refundable == [at : Nat, available : BOOLEAN]

Swap == [state : States, joined : SUBSET Role, lock : [Leg -> Nat],
         funding : [Leg -> Funding], short : [Leg -> Funding],
         heights : [Leg -> 0..MaxHeight], preimage : BOOLEAN,
         finish : [Role -> Bundle], wt : SUBSET (Role \X Kind),
         broadcasts : SUBSET (Leg \X Kind), refund : [Leg -> Refundable],
         cleared : BOOLEAN]

\* createSwap
Created ==
  [state |-> "CREATED", joined |-> {}, lock |-> [l \in Leg |-> 0],
   funding |-> [l \in Leg |-> NoFunding], short |-> [l \in Leg |-> NoFunding],
   heights |-> [l \in Leg |-> 0], preimage |-> FALSE,
   finish |-> [r \in Role |-> NoBundle], wt |-> {}, broadcasts |-> {},
   refund |-> [l \in Leg |-> [at |-> 0, available |-> FALSE]], cleared |-> FALSE]

EngineInit ==
  /\ s = Created /\ disk = Created /\ sigSet = TRUE
  /\ deriving = {} /\ up = TRUE /\ phase = "poll"

EngineTypeOK ==
  /\ s \in Swap /\ disk \in Swap
  /\ deriving \subseteq [Leg -> 1..MaxHeight]
  /\ sigSet \in BOOLEAN /\ up \in BOOLEAN
  /\ phase \in {"poll", "watchtower"}

-----------------------------------------------------------------------------
\* Persistence.

Shorted(r) == \E l \in Leg : r.short[l].id # 0

\* sigOf: a finish bundle counts only as there or not there.
sigOf(r) ==
  <<r.state, r.funding, r.refund, r.preimage, r.broadcasts,
    [x \in Role |-> r.finish[x] # NoBundle], r.joined, r.short, r.wt>>

\* The handler leaves record r in memory and touches it.
touch(r) ==
  /\ s' = r
  /\ IF sigSet /\ sigOf(r) = sigOf(disk)
     THEN UNCHANGED <<disk, sigSet>>
     ELSE disk' = r /\ sigSet' = TRUE

\* The handler leaves record r in memory and ends before its touch.
untouched(r) == s' = r /\ UNCHANGED <<disk, sigSet>>

-----------------------------------------------------------------------------
\* Joining, deriving the HTLCs, canceling.

\* submitParty up to the first await: a retried submission carries the same
\* keys and passes the first-come lock.  The second party's submission starts
\* deriveHtlcs, which reads both heights; the record is touched only after it.
SubmitParty(r) ==
  /\ up /\ s.state \in {"CREATED", "READY"}
  /\ LET n == [s EXCEPT !.joined = @ \cup {r}]
     IN IF n.joined = Role
        THEN untouched(n) /\ deriving' = deriving \cup {height}
        ELSE touch(n) /\ UNCHANGED deriving
  /\ UNCHANGED <<up, phase, chainVars>>

\* Mutant: the derived HTLCs are not checkpointed.
DeriveHtlcs_Untouched(h) ==
  /\ up /\ h \in deriving
  /\ untouched([s EXCEPT !.lock = [l \in Leg |-> h[l] + Window[l]], !.state = "READY"])
  /\ deriving' = deriving \ {h}
  /\ UNCHANGED <<up, phase, chainVars>>

\* deriveHtlcs after its awaits, then submitParty's touch.
DeriveHtlcs(h) ==
  /\ up /\ h \in deriving
  /\ touch([s EXCEPT !.lock = [l \in Leg |-> h[l] + Window[l]], !.state = "READY"])
  /\ deriving' = deriving \ {h}
  /\ UNCHANGED <<up, phase, chainVars>>

\* A node error while deriveHtlcs reads the chains: the joined keys stay in
\* memory, not checkpointed.
DeriveFails(h) ==
  /\ up /\ h \in deriving
  /\ deriving' = deriving \ {h}
  /\ UNCHANGED <<s, disk, sigSet, up, phase, chainVars>>

CancelSwap ==
  /\ up
  /\ \A l \in Leg : s.funding[l].id = 0
  /\ ~Shorted(s)
  /\ s.state \notin TERMINAL \cup {"CANCELED"}
  /\ touch([s EXCEPT !.state = "CANCELED"])
  /\ UNCHANGED <<deriving, up, phase, chainVars>>

-----------------------------------------------------------------------------
\* poll, in the order of its passes over the record.

Seen(l) == [id |-> dep[l].id, h |-> dep[l].at, confs |-> 0, spent |-> FALSE]

\* A leg is looked up until its deposit is recorded as confirmed.
LooksUp(r, l) == r.funding[l].h = 0

\* The lookups of a set of legs.
findFunding(r, legs) ==
  [r EXCEPT
     !.funding = [l \in Leg |->
        IF l \notin legs \/ ~LooksUp(r, l) \/ (Found(l, r.lock[l]) /\ ~dep[l].ok)
        THEN r.funding[l]
        ELSE IF Found(l, r.lock[l]) THEN Seen(l) ELSE NoFunding],
     !.short = [l \in Leg |->
        IF l \in legs /\ LooksUp(r, l) /\ Found(l, r.lock[l]) /\ ~dep[l].ok
        THEN Seen(l) ELSE r.short[l]]]

\* A confirmed deposit whose outpoint is gone is spent.
Gone(l, f) == f.h # 0 /\ ~IsUnspent(spend, l, f.id)

markSpent(r, legs) ==
  [r EXCEPT !.funding =
     [l \in Leg |-> [r.funding[l] EXCEPT !.spent = @ \/ (l \in legs /\ Gone(l, r.funding[l]))]]]

markShortSpent(r, legs) ==
  [r EXCEPT !.short =
     [l \in Leg |-> [r.short[l] EXCEPT !.spent = @ \/ (l \in legs /\ Gone(l, r.short[l]))]]]

\* Legs whose out-of-band spender is classified: spent, nothing recorded, and
\* spendingTxid names it.
Unclassified(r, l) ==
  /\ r.funding[l].spent
  /\ \A k \in Kind : <<l, k>> \notin r.broadcasts
  /\ spend[l].kind # "none"
  /\ spend[l].at = 0 \/ Indexed

\* Mutant: the spend is recorded, its preimage is not read.
backfill_NoPreimage(r, legs) ==
  [r EXCEPT
     !.broadcasts = @ \cup {<<l, spend[l].kind>> : l \in {m \in legs : Unclassified(r, m)}}]

\* The legs on which the node answers; an error on a leg is swallowed.
backfill(r, legs) ==
  LET found == {l \in legs : Unclassified(r, l)}
  IN [r EXCEPT
        !.preimage = @ \/ \E l \in found : spend[l].kind = "claim",
        !.broadcasts = @ \cup {<<l, spend[l].kind>> : l \in found}]

\* Mutant: depth counted from the next block.
countConfs_NextBlock(r) ==
  [r EXCEPT !.funding = [l \in Leg |-> [r.funding[l] EXCEPT !.confs =
     IF r.funding[l].h = 0 THEN 0 ELSE r.heights[l] + 2 - r.funding[l].h]]]

countConfs(r) ==
  [r EXCEPT !.funding = [l \in Leg |-> [r.funding[l] EXCEPT !.confs =
     IF r.funding[l].h = 0 THEN 0 ELSE r.heights[l] + 1 - r.funding[l].h]]]

Buried(r, l) ==
  LET f == r.funding[l]
  IN f.id # 0 /\ (l \in Trusted \/ (f.h # 0 /\ f.confs >= Target[l]))

\* Mutant: the margin before the timelock is left out.
InTime_NoMargin(r) == r.heights["qbit"] <= r.lock["qbit"]

\* The qbit timelock is far enough ahead for the buyer's claim to bury first.
InTime(r) == r.heights["qbit"] + Target["qbit"] + RevealBuffer <= r.lock["qbit"]

\* Mutant: only the leg the buyer claims must be buried.
FundedState_OneLeg(r) ==
  LET from == r.funding["btc"]  to == r.funding["qbit"]
  IN CASE from.id # 0 /\ to.id # 0 /\ ~to.spent ->
            IF Buried(r, "qbit") /\ InTime(r) THEN "CLAIMABLE" ELSE "MATURING"
       [] from.id = 0 /\ to.id # 0 /\ ~to.spent -> "TO_FUNDED"
       [] from.id # 0 /\ (to.id = 0 \/ to.spent) -> "FROM_FUNDED"
       [] OTHER -> "READY"

\* Mutant: a state of its own, in no list, once the reveal is too late.
FundedState_Expired(r) ==
  LET from == r.funding["btc"]  to == r.funding["qbit"]
  IN CASE from.id # 0 /\ to.id # 0 /\ ~to.spent ->
            IF ~InTime(r) THEN "EXPIRED"
            ELSE IF \A l \in Leg : Buried(r, l) THEN "CLAIMABLE" ELSE "MATURING"
       [] from.id = 0 /\ to.id # 0 /\ ~to.spent -> "TO_FUNDED"
       [] from.id # 0 /\ (to.id = 0 \/ to.spent) -> "FROM_FUNDED"
       [] OTHER -> "READY"

\* The pre-claim state, from the deposits.
FundedState(r) ==
  LET from == r.funding["btc"]  to == r.funding["qbit"]
  IN CASE from.id # 0 /\ to.id # 0 /\ ~to.spent ->
            IF (\A l \in Leg : Buried(r, l)) /\ InTime(r) THEN "CLAIMABLE" ELSE "MATURING"
       [] from.id = 0 /\ to.id # 0 /\ ~to.spent -> "TO_FUNDED"
       [] from.id # 0 /\ (to.id = 0 \/ to.spent) -> "FROM_FUNDED"
       [] OTHER -> "READY"

Settled(r) == r.preimage /\ r.funding["btc"].spent /\ r.funding["qbit"].spent

\* Mutant: the funding gate opens when the deposit is seen.
settle_GateOnSeen(r) ==
  [r EXCEPT
     !.cleared = @ \/ r.funding["btc"].id # 0,
     !.state = IF Settled(r) THEN "COMPLETE"
               ELSE IF @ \in {"CLAIMED", "CANCELED"} THEN @ ELSE FundedState(r)]

settle(r) ==
  [r EXCEPT
     !.cleared = @ \/ Buried(r, "btc"),
     !.state = IF Settled(r) THEN "COMPLETE"
               ELSE IF @ \in {"CLAIMED", "CANCELED"} THEN @ ELSE FundedState(r)]

\* The deposit a leg's refund spends: an underfunded one when no full one is recorded.
Tracked(r, l) == IF r.funding[l].id # 0 THEN r.funding[l] ELSE r.short[l]

refundable(r) ==
  [r EXCEPT !.refund = [l \in Leg |->
     [at |-> r.lock[l],
      available |-> LET f == Tracked(r, l)
                    IN /\ f.id # 0 /\ ~f.spent /\ f.h # 0
                       /\ r.heights[l] >= r.lock[l]
                       /\ l = "qbit" => ~r.preimage]]]

\* A whole poll; `named`: the legs on which backfill's node calls succeed.
poll(r, named) ==
  LET looked == findFunding([r EXCEPT !.heights = height], Leg)
      spent  == markShortSpent(markSpent(looked, Leg), Leg)
  IN refundable(settle(countConfs(backfill(spent, named))))

\* What a poll leaves in the record when one of its node calls throws: the
\* heights, the lookup of btc then of qbit, the spent marks in the same order.
CutShort(r) ==
  LET h  == [r EXCEPT !.heights = height]
      f1 == findFunding(h, {"btc"})   f2 == findFunding(h, Leg)
      m1 == markSpent(f2, {"btc"})    m2 == markSpent(f2, Leg)
  IN {r, h, f1, f2, m1, m2, markShortSpent(m2, {"btc"})}

Polls(r) == r.state \notin TERMINAL \cup {"CREATED"}

\* The watcher's tick: poll, which a node error can cut short, then the
\* watchtower on whatever the record then says.
Poll(named) ==
  /\ up /\ phase = "poll" /\ phase' = "watchtower"
  /\ IF Polls(s) THEN touch(poll(s, named)) ELSE UNCHANGED <<s, disk, sigSet>>
  /\ UNCHANGED <<deriving, up, chainVars>>

PollFails ==
  /\ up /\ phase = "poll" /\ phase' = "watchtower"
  /\ Polls(s)
  /\ \E r \in CutShort(s) : untouched(r)
  /\ UNCHANGED <<deriving, up, chainVars>>

-----------------------------------------------------------------------------
\* Broadcasting.

\* Mutant: any claim completes the swap.
applyEffects_ClaimCompletes(r, l, k, lost) ==
  LET n == [r EXCEPT !.broadcasts = @ \cup {<<l, k>>}]
      spent(f) == [f EXCEPT !.spent = @ \/ f.id # 0]
  IN CASE k = "claim" /\ lost -> n
       [] k = "claim" /\ ~lost ->
            [n EXCEPT !.preimage = TRUE, !.funding[l] = spent(@), !.state = "COMPLETE"]
       [] k = "refund" ->
            [n EXCEPT !.funding[l] = spent(@), !.short[l] = spent(@), !.state = "REFUNDED"]

\* applyEffects.  `lost`: the getTx that reads a claim's witness throws, after
\* the broadcast was recorded and before anything else was.
applyEffects(r, l, k, lost) ==
  LET n == [r EXCEPT !.broadcasts = @ \cup {<<l, k>>}]
      spent(f) == [f EXCEPT !.spent = @ \/ f.id # 0]
  IN CASE k = "claim" /\ lost -> n
       [] k = "claim" /\ ~lost ->
            [n EXCEPT !.preimage = TRUE, !.funding[l] = spent(@),
                      !.state = IF l = "btc" THEN "COMPLETE" ELSE "CLAIMED"]
       [] k = "refund" ->
            [n EXCEPT !.funding[l] = spent(@), !.short[l] = spent(@), !.state = "REFUNDED"]

\* The gate on the claim that reveals the preimage.
MayReveal(r) == (\A l \in Leg : Buried(r, l)) /\ InTime(r)

\* broadcast: the coordinator relays a party's signed spend of outpoint `id`.
Broadcast(l, k, id, lost) ==
  /\ up
  /\ (k = "claim" /\ l = "qbit") => MayReveal(s)
  /\ Accepts(spend, l, id, k)
  /\ lost => k = "claim"
  /\ spend' = Sent(spend, l, k)
  /\ revealed' = (revealed \/ k = "claim")
  /\ IF lost THEN untouched(applyEffects(s, l, k, TRUE))
     ELSE touch(applyEffects(s, l, k, FALSE))
  /\ UNCHANGED <<deriving, up, phase, height, dep>>

SubmitFinish(r, bundle) ==
  /\ up
  /\ bundle.refund # 0
  /\ touch([s EXCEPT !.finish[r] = bundle])
  /\ UNCHANGED <<deriving, up, phase, chainVars>>

-----------------------------------------------------------------------------
\* driveWatchtower.  Its steps work on the record, the chains' spends and
\* whether an earlier step of this call has thrown.

TheLeg(role, k) == IF k = "claim" THEN Claims(role) ELSE Funds(role)
Armed(r, role, k) == IF k = "claim" THEN r.finish[role].claim ELSE r.finish[role].refund

\* wtBroadcast and wtSend: relay a pre-signed spend, if the node accepts it.
wtSend(x, role, k, lost) ==
  LET l == TheLeg(role, k)
      fails == lost /\ k = "claim"
  IN IF x.thrown \/ ~Accepts(x.spend, l, Armed(x.s, role, k), k) THEN x
     ELSE [s |-> applyEffects([x.s EXCEPT !.wt = @ \cup {<<role, k>>}], l, k, fails),
           spend |-> Sent(x.spend, l, k), thrown |-> fails]

\* A deposit the engine has not seen spent.
Unspent(r, l) == Tracked(r, l).id # 0 /\ ~Tracked(r, l).spent

\* Mutant: the seller's claim waits for CLAIMABLE too.
Due_BothClaimable(r, role, k) ==
  /\ Armed(r, role, k) # 0
  /\ <<role, k>> \notin r.wt
  /\ Unspent(r, TheLeg(role, k))
  /\ k = "claim" => ~Shorted(r) /\ r.state = "CLAIMABLE"
  /\ k = "refund" => r.heights[Funds(role)] >= r.lock[Funds(role)]

\* The conditions of steps a, b and c for a first send.
Due(r, role, k) ==
  /\ Armed(r, role, k) # 0
  /\ <<role, k>> \notin r.wt
  /\ Unspent(r, TheLeg(role, k))
  /\ k = "claim" => /\ ~Shorted(r)
                    /\ IF role = "alice" THEN r.state = "CLAIMABLE" ELSE r.preimage
  /\ k = "refund" => r.heights[Funds(role)] >= r.lock[Funds(role)]

\* Mutant: a deposit already seen spent is not looked up again.
Dropped_TrustsFlag(x, role, k) ==
  /\ <<role, k>> \in x.s.wt
  /\ Armed(x.s, role, k) # 0
  /\ Unspent(x.s, TheLeg(role, k))
  /\ IF k = "claim" THEN ~Shorted(x.s) ELSE ~x.s.preimage
  /\ IsUnspent(x.spend, TheLeg(role, k), Tracked(x.s, TheLeg(role, k)).id)

\* Step d: a spend the watchtower sent before is in no mempool and no block.
Dropped(x, role, k) ==
  /\ <<role, k>> \in x.s.wt
  /\ Armed(x.s, role, k) # 0
  /\ Tracked(x.s, TheLeg(role, k)).id # 0
  /\ IF k = "claim" THEN ~Shorted(x.s) ELSE ~x.s.preimage
  /\ IsUnspent(x.spend, TheLeg(role, k), Tracked(x.s, TheLeg(role, k)).id)

first(x, role, k, lost)  == IF Due(x.s, role, k) THEN wtSend(x, role, k, lost) ELSE x
resend(x, role, k, lost) == IF Dropped(x, role, k) THEN wtSend(x, role, k, lost) ELSE x

\* Step c is decided once, before its two refunds.
refunds(x) ==
  IF x.s.preimage THEN x
  ELSE first(first(x, "alice", "refund", FALSE), "bob", "refund", FALSE)

drive(x, lost) ==
  LET claimed == first(first(x, "alice", "claim", lost), "bob", "claim", lost)
      timed   == refunds(claimed)
      again   == resend(resend(timed, "alice", "claim", lost), "bob", "claim", lost)
  IN resend(resend(again, "alice", "refund", FALSE), "bob", "refund", FALSE)

\* Mutant: the watchtower is for swaps with both deposits.
Drives_BothFunded(r) == r.state \in {"MATURING", "CLAIMABLE", "CLAIMED"}

\* Mutant: CLAIMED is taken for the end.
Drives_ClaimedIsOver(r) == r.state \notin TERMINAL \cup {"CREATED", "CANCELED", "CLAIMED"}

Drives(r) == r.state \notin TERMINAL \cup {"CREATED", "CANCELED"}

\* Mutant: the final touch is forgotten.
DriveWatchtower_Untouched(lost) ==
  /\ up /\ phase = "watchtower" /\ phase' = "poll"
  /\ LET x == IF Drives(s) THEN drive([s |-> s, spend |-> spend, thrown |-> FALSE], lost)
              ELSE [s |-> s, spend |-> spend, thrown |-> FALSE]
     IN /\ lost => x.thrown
        /\ spend' = x.spend
        /\ revealed' = (revealed \/ \E l \in Leg : x.spend[l].kind = "claim")
        /\ untouched(x.s)
  /\ UNCHANGED <<deriving, up, height, dep>>

DriveWatchtower(lost) ==
  /\ up /\ phase = "watchtower" /\ phase' = "poll"
  /\ LET x == IF Drives(s) THEN drive([s |-> s, spend |-> spend, thrown |-> FALSE], lost)
              ELSE [s |-> s, spend |-> spend, thrown |-> FALSE]
     IN /\ lost => x.thrown
        /\ spend' = x.spend
        /\ revealed' = (revealed \/ \E l \in Leg : x.spend[l].kind = "claim")
        /\ IF x.thrown THEN untouched(x.s)
           ELSE IF Drives(s) THEN touch(x.s) ELSE UNCHANGED <<s, disk, sigSet>>
  /\ UNCHANGED <<deriving, up, height, dep>>

-----------------------------------------------------------------------------
\* The process stops, losing what it did not checkpoint, and starts again
\* from the store.

Crash ==
  /\ up /\ up' = FALSE
  /\ deriving' = {}
  /\ UNCHANGED <<s, disk, sigSet, phase, chainVars>>

Restart ==
  /\ ~up /\ up' = TRUE
  /\ s' = disk /\ sigSet' = FALSE /\ phase' = "poll"
  /\ UNCHANGED <<disk, deriving, chainVars>>

-----------------------------------------------------------------------------
\* What a record says of the chains (for the invariants of SwapSystem).

\* Only a confirmed deposit has a height, and none above the tip.
ChainShape ==
  \A l \in Leg : dep[l].at <= height[l] /\ (dep[l].at # 0 => dep[l].st = "confirmed")

Reached(r) == \A l \in Leg : r.funding[l].h <= height[l]

\* The chain holds, in full and confirmed at that height, the deposit record r
\* has as confirmed, at least as deep as r has it.
DepositTrue(r, l) ==
  LET f == r.funding[l]
  IN f.h # 0 => /\ dep[l].st = "confirmed" /\ dep[l].ok
                /\ dep[l].id = f.id /\ dep[l].at = f.h
                /\ f.confs <= Depth(l)

BuriedOnChain(l) == dep[l].st = "confirmed" /\ dep[l].ok /\ Depth(l) >= Target[l]

RecordTrue(r) ==
  /\ \A l \in Leg : DepositTrue(r, l)
  /\ r.state = "CLAIMABLE" => \A l \in Leg \ Trusted : BuriedOnChain(l)
  /\ (r.cleared /\ "btc" \notin Trusted) => BuriedOnChain("btc")
=============================================================================
