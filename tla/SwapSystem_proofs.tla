------------------------- MODULE SwapSystem_proofs -------------------------
(***************************************************************************)
(* Theorems about SwapSystem.  IndType is inductive as it stands.  With no *)
(* block ever replaced, RecordsAreTrue is inductive next to it, and from   *)
(* it follow that a CLAIMABLE swap is buried on both chains and that the   *)
(* seller funds last.  Last, in a system where the coordinator stays up,   *)
(* SwapSystem implements AtomicSwap.                                       *)
(***************************************************************************)
EXTENDS SwapSystem, SwapEngine_proofs

-----------------------------------------------------------------------------
\* Inductive invariants.

Locked(r)   == \A l \in Leg : r.lock[l] # 0
Unlocked(r) == \A l \in Leg : r.lock[l] = 0
Unfunded(f) == f.id = 0 /\ f.h = 0 /\ ~f.spent

\* A record has both timelocks, or none and then nothing else either.
Addressed(r) ==
  /\ Locked(r) \/ Unlocked(r)
  /\ Locked(r) => r.joined = Role
  /\ Unlocked(r) => /\ r.state \in {"CREATED", "CANCELED"}
                    /\ \A l \in Leg : Unfunded(r.funding[l])

\* How far the qbit chain can be ahead when the parties join.
Skew == IF Drift <= MaxJoin - 1 THEN Drift ELSE MaxJoin - 1

LocksApart(k) == k["qbit"] + Window["btc"] <= k["btc"] + Window["qbit"] + Skew

\* The HTLCs are derived once: the address a party was shown, and a deposit to
\* it, are those of the record in memory and of the one in the store.
AddressInv ==
  /\ left["resubmit"] = 0
  /\ \A l \in Leg : height[l] <= height[Other(l)] + Drift
  /\ Addressed(s) /\ Addressed(disk) /\ disk.lock = s.lock
  /\ deriving # {} => up /\ Unlocked(s) /\ s.joined = Role
  /\ \A h, k \in deriving : h = k
  /\ \A h \in deriving : \A l \in Leg : h[l] <= MaxJoin /\ h[l] <= h[Other(l)] + Drift
  /\ Locked(s) => LocksApart(s.lock)
  /\ \A r \in Role : shown[r] \in {0, s.lock[Funds(r)]}
  /\ \A l \in Leg : /\ dep[l].st # "none" => dep[l].id # 0
                    /\ dep[l].id # 0 => dep[l].lock = s.lock[l] /\ Locked(s)

\* As long as no witness is lost, the store knows how far the swap got.
StoreCurrent ==
  /\ left["lost"] = 0
  /\ s.state = disk.state /\ s.preimage = disk.preimage
  /\ s.wt = disk.wt /\ s.broadcasts = disk.broadcasts

\* The coordinator knows the preimage, and has sent a claim, only once the
\* preimage is public; until then the store is as far as the record in memory.
RevealInv ==
  /\ \A l \in Leg : spend[l].kind = "claim" => revealed
  /\ \A r \in {s, disk} : /\ r.preimage => revealed
                          /\ \A x \in Role : <<x, "claim">> \in r.wt => revealed
  /\ ~revealed => disk.state = s.state

\* With n blocks' grace, the qbit timelock leaves room for the buyer's claim.
Bound(n) == height["qbit"] + Target["qbit"] + RevealBuffer <= s.lock["qbit"] + n

\* A spend has a deposit, and a refund its timelock.  Before the reveal, a
\* CLAIMABLE swap was found to be so no more than lag blocks ago.
TimeInv ==
  /\ \A l \in Leg : /\ spend[l].kind # "none" => dep[l].id # 0
                    /\ spend[l].kind = "refund" => dep[l].lock <= height[l]
                    /\ \A r \in {s, disk} : r.funding[l].id # 0 => dep[l].id # 0
  /\ (~revealed /\ s.state = "CLAIMABLE") => Bound(lag) /\ dep["qbit"].id # 0

\* The seller's claim is not armed for the deposit on record.
Unarmed == s.finish["bob"].claim # s.funding["btc"].id

\* No deposit is replaced, or none falls short of the terms.
Replaceable ==
  \/ left["deposit"] = 0
  \/ left["short"] = 0 /\ \A l \in Leg : dep[l].id # 0 => dep[l].ok

\* While the coordinator stays up, every spend goes through it and stays, and
\* the parties' tabs are open until they have armed: a public preimage means
\* the buyer has claimed, and the seller's claim is sent, or will be at the
\* next tick, before the buyer's refund becomes available.
AtomInv ==
  /\ \A e \in {"crash", "lost", "evict", "reorg", "direct"} : left[e] = 0
  /\ Replaceable
  /\ up /\ s.finish = armed
  /\ \A l \in Leg :
       /\ s.short[l].id # 0 => dep[l].id # 0 /\ ~dep[l].ok
       /\ s.funding[l].spent => spend[l].kind # "none"
       /\ s.state = "CLAIMABLE" \/ revealed => s.funding[l].h # 0
  /\ revealed => s.preimage /\ spend["qbit"].kind = "claim" /\ spend["btc"].kind # "refund"
  /\ <<"bob", "claim">> \in s.wt => spend["btc"].kind = "claim"
  /\ s.state = "COMPLETE" => \A l \in Leg : spend[l].kind = "claim"
  /\ s.state = "CLAIMABLE" => ~s.refund["btc"].available /\ (Unarmed => Bound(0))
  /\ (revealed /\ spend["btc"].kind = "none") =>
       /\ s.state = "CLAIMED" /\ ~s.refund["btc"].available
       /\ Unarmed => Bound(0)
       /\ phase = "poll" => Bound(lag)

-----------------------------------------------------------------------------
\* Steps that leave heights and deposits alone: the coordinator's handlers.

\* The record such a step leaves in memory, with what it leaves in the store.
LEMMA RecordStep ==
  ASSUME IndType, height' = height, dep' = dep,
         spend' \in [Leg -> Spend], revealed' \in BOOLEAN,
         s' \in Swap, Reached(s'), disk' \in {disk, s'},
         deriving' \subseteq [Leg -> 1..MaxHeight],
         sigSet' \in BOOLEAN, up' \in BOOLEAN, phase' \in {"poll", "watchtower"},
         left' \in [Event -> Nat], lag' \in 0..MaxLag, shown' = shown,
         armed' \in [Role -> Bundle]
  PROVE  /\ IndType'
         /\ (RecordsAreTrue /\ RecordTrue(s') /\ left'["reorg"] = left["reorg"])
              => RecordsAreTrue'
<1>1. ChainTypeOK' /\ ChainShape'
  BY DEF IndType, TypeOK, ChainTypeOK, ChainShape
<1>2. EngineTypeOK'
  BY DEF IndType, TypeOK, EngineTypeOK
<1>3. Reached(s)' /\ Reached(disk)'
  BY DEF IndType, Reached
<1>4. IndType'
  BY <1>1, <1>2, <1>3 DEF IndType, TypeOK
<1>5. ASSUME RecordsAreTrue, RecordTrue(s'), left'["reorg"] = left["reorg"]
      PROVE  RecordsAreTrue'
  <2>1. \A l \in Leg : Depth(l)' = Depth(l) /\ BuriedOnChain(l)' = BuriedOnChain(l)
    BY DEF Depth, BuriedOnChain
  <2>2. BuriedOnChain("btc")' = BuriedOnChain("btc")
    BY <2>1 DEF Leg
  <2>3. RecordTrue(s)'
    BY <1>5, <2>1, <2>2 DEF RecordTrue, DepositTrue
  <2>4. RecordTrue(disk)'
    <3>1. RecordTrue(disk')
      BY <1>5 DEF RecordsAreTrue
    <3> QED BY <3>1, <2>1, <2>2 DEF RecordTrue, DepositTrue
  <2> QED BY <1>5, <2>2, <2>3, <2>4 DEF RecordsAreTrue
<1> QED BY <1>4, <1>5

\* A handler that ends in touch, or fails before it, leaves its record in memory
\* and either that record or the earlier one in the store.
LEMMA TouchOK ==
  ASSUME NEW r, touch(r) \/ untouched(r), IndType
  PROVE  s' = r /\ disk' \in {disk, s'} /\ sigSet' \in BOOLEAN
  BY DEF touch, untouched, IndType, TypeOK, EngineTypeOK

\* Spending the budget of an event keeps it natural.
LEMMA UseOK ==
  ASSUME IndType, NEW e \in Event, Use(e)
  PROVE  /\ left' \in [Event -> Nat]
         /\ e # "reorg" => left'["reorg"] = left["reorg"]
  BY DEF Use, IndType, TypeOK, Event

\* The parts of the inductive invariant that the lemmas below cite.
LEMMA Facts ==
  ASSUME IndType
  PROVE  /\ s \in Swap /\ disk \in Swap /\ Reached(s) /\ Reached(disk)
         /\ ChainTypeOK /\ ChainShape
         /\ spend \in [Leg -> Spend] /\ revealed \in BOOLEAN
         /\ height \in [Leg -> 1..MaxHeight]
         /\ deriving \subseteq [Leg -> 1..MaxHeight]
         /\ sigSet \in BOOLEAN /\ up \in BOOLEAN /\ phase \in {"poll", "watchtower"}
         /\ left \in [Event -> Nat] /\ lag \in 0..MaxLag
         /\ shown \in [Role -> Nat] /\ armed \in [Role -> Bundle]
  BY DEF IndType, TypeOK, ChainTypeOK, EngineTypeOK

\* Records in which no deposit changes.
LEMMA OtherFields ==
  ASSUME NEW r \in Swap, NEW q \in Swap, q.funding = r.funding,
         q.state = "CLAIMABLE" => r.state = "CLAIMABLE", q.cleared = r.cleared
  PROVE  (Reached(r) => Reached(q)) /\ (RecordTrue(r) => RecordTrue(q))
  BY SameTruth

\* What each step owes.
Kept == IndType' /\ (RecordsAreTrue => RecordsAreTrue')

\* A submission changes only who has joined.
LEMMA JoinOK ==
  ASSUME IndType, NEW r \in Role, Join(r)
  PROVE  Kept
<1> DEFINE n == [s EXCEPT !.joined = @ \cup {r}]
<1>1. n \in Swap /\ n.funding = s.funding /\ n.state = s.state /\ n.cleared = s.cleared
  <2>1. s.joined \cup {r} \in SUBSET Role
    BY Facts, FieldTypes
  <2> QED BY <2>1, Facts DEF Swap
<1>2. /\ touch(n) \/ untouched(n)
      /\ deriving' \in {deriving, deriving \cup {height}}
      /\ UNCHANGED <<up, phase, chainVars>>
  BY DEF Join, SubmitParty
<1>3. left' \in [Event -> Nat] /\ left'["reorg"] = left["reorg"]
  <2>1. "resubmit" \in Event
    BY DEF Event
  <2> QED BY <2>1, UseOK, Facts DEF Join
<1>4. (Reached(s) => Reached(n)) /\ (RecordTrue(s) => RecordTrue(n))
  BY <1>1, Facts, OtherFields
<1>5. UNCHANGED <<lag, shown, armed>>
  BY DEF Join
<1> HIDE DEF n
<1>6. s' = n /\ disk' \in {disk, s'} /\ sigSet' \in BOOLEAN
  BY <1>2, TouchOK
<1>7. deriving' \subseteq [Leg -> 1..MaxHeight]
  BY <1>2, Facts
<1> QED
  BY <1>1, <1>2, <1>3, <1>4, <1>5, <1>6, <1>7, Facts, RecordStep
  DEF Kept, chainVars, RecordsAreTrue

\* A derivation sets the timelocks and READY: no deposit changes.
LEMMA DeriveOK ==
  ASSUME IndType, NEW h \in deriving, Derive(h)
  PROVE  Kept
<1> DEFINE n == [s EXCEPT !.lock = [l \in Leg |-> h[l] + Window[l]], !.state = "READY"]
<1>1. n \in Swap /\ n.funding = s.funding /\ n.state = "READY" /\ n.cleared = s.cleared
  <2>1. h \in [Leg -> 1..MaxHeight]
    BY Facts
  <2>2. [l \in Leg |-> h[l] + Window[l]] \in [Leg -> Nat]
    BY <2>1, EngineAssumption, ChainAssumption
  <2>3. "READY" \in States
    BY DEF States
  <2> QED BY <2>2, <2>3, Facts DEF Swap
<1>2. touch(n) /\ deriving' = deriving \ {h} /\ UNCHANGED <<up, phase, chainVars, systemVars>>
  BY DEF Derive, DeriveHtlcs
<1>3. (Reached(s) => Reached(n)) /\ (RecordTrue(s) => RecordTrue(n))
  BY <1>1, Facts, OtherFields
<1> HIDE DEF n
<1>4. s' = n /\ disk' \in {disk, s'} /\ sigSet' \in BOOLEAN
  BY <1>2, TouchOK
<1> QED
  BY <1>1, <1>2, <1>3, <1>4, Facts, RecordStep DEF Kept, chainVars, systemVars, RecordsAreTrue

\* A derivation that fails changes no record.
LEMMA DeriveErrorOK ==
  ASSUME IndType, NEW h \in deriving, DeriveError(h)
  PROVE  Kept
<1>1. left' \in [Event -> Nat] /\ left'["reorg"] = left["reorg"]
  <2>1. "deriveFails" \in Event
    BY DEF Event
  <2> QED BY <2>1, UseOK DEF DeriveError
<1> QED
  BY <1>1, Facts, RecordStep DEF Kept, DeriveError, DeriveFails, chainVars, RecordsAreTrue

\* A cancellation only sets the state.
LEMMA CancelOK ==
  ASSUME IndType, Cancel
  PROVE  Kept
<1> DEFINE n == [s EXCEPT !.state = "CANCELED"]
<1>1. n \in Swap /\ n.funding = s.funding /\ n.state = "CANCELED" /\ n.cleared = s.cleared
  BY Facts DEF Swap, States
<1>2. touch(n) /\ UNCHANGED <<deriving, up, phase, chainVars, systemVars>>
  BY DEF Cancel, CancelSwap
<1>3. (Reached(s) => Reached(n)) /\ (RecordTrue(s) => RecordTrue(n))
  BY <1>1, Facts, OtherFields
<1> HIDE DEF n
<1>4. s' = n /\ disk' \in {disk, s'} /\ sigSet' \in BOOLEAN
  BY <1>2, TouchOK
<1> QED
  BY <1>1, <1>2, <1>3, <1>4, Facts, RecordStep DEF Kept, chainVars, systemVars, RecordsAreTrue

\* The bundle a client signs names outpoints that can exist.
LEMMA WantedType ==
  ASSUME IndType, NEW r \in Role
  PROVE  Wanted(r) \in Bundle
<1>1. \A l \in Leg : s.funding[l].id \in 0..MaxDeposits /\ s.short[l].id \in 0..MaxDeposits
  <2>1. \A l \in Leg : s.funding[l] \in Funding /\ s.short[l] \in Funding
    BY Facts, FieldTypes
  <2> QED BY <2>1 DEF Funding
<1>2. Funds(r) \in Leg /\ Other(Funds(r)) \in Leg
  BY DEF Funds, Other, Leg
<1>3. Tracked(s, Funds(r)).id \in 0..MaxDeposits
  BY <1>1, <1>2 DEF Tracked
<1>4. 0 \in 0..MaxDeposits
  BY ChainAssumption
<1> QED BY <1>1, <1>2, <1>3, <1>4 DEF Wanted, Bundle

\* Arming replaces a finish bundle and nothing else of the record.
LEMMA ArmOK ==
  ASSUME IndType, NEW r \in Role, Arm(r)
  PROVE  Kept
<1> DEFINE n == [s EXCEPT !.finish[r] = Wanted(r)]
<1>1. n \in Swap /\ n.funding = s.funding /\ n.state = s.state /\ n.cleared = s.cleared
  <2>1. s.finish \in [Role -> Bundle]
    BY Facts, FieldTypes
  <2>2. [s.finish EXCEPT ![r] = Wanted(r)] \in [Role -> Bundle]
    BY <2>1, WantedType
  <2>3. n = [s EXCEPT !.finish = [s.finish EXCEPT ![r] = Wanted(r)]]
    OBVIOUS
  <2> HIDE DEF n
  <2> QED BY <2>2, <2>3, Facts DEF Swap
<1>2. touch(n) /\ UNCHANGED <<deriving, up, phase, chainVars, left, lag, shown>>
      /\ armed' = [armed EXCEPT ![r] = Wanted(r)]
  BY DEF Arm, SubmitFinish
<1>3. (Reached(s) => Reached(n)) /\ (RecordTrue(s) => RecordTrue(n))
  BY <1>1, Facts, OtherFields
<1>4. armed' \in [Role -> Bundle]
  BY <1>2, Facts, WantedType
<1> HIDE DEF n
<1>5. s' = n /\ disk' \in {disk, s'} /\ sigSet' \in BOOLEAN
  BY <1>2, TouchOK
<1> QED
  BY <1>1, <1>2, <1>3, <1>4, <1>5, Facts, RecordStep DEF Kept, chainVars, RecordsAreTrue

\* Losing the answer that carries a witness is paid from its own budget.
LEMMA LostOK ==
  ASSUME IndType, NEW lost \in BOOLEAN, IF lost THEN Use("lost") ELSE UNCHANGED left
  PROVE  left' \in [Event -> Nat] /\ left'["reorg"] = left["reorg"]
<1>1. "lost" \in Event
  BY DEF Event
<1> QED BY <1>1, UseOK, Facts

\* A client's spend through the coordinator: applyEffects on the record, one spend
\* on the chain.
LEMMA ClientSendOK ==
  ASSUME IndType, NEW r \in Role, NEW k \in Kind, NEW lost \in BOOLEAN, ClientSend(r, k, lost)
  PROVE  Kept
<1> DEFINE l == TheLeg(r, k)
<1>1. l \in Leg
  BY DEF TheLeg, Claims, Funds, Other, Leg
<1>2. Broadcast(l, k, Outpoint(r, k), lost)
  BY DEF ClientSend
<1> HIDE DEF l
<1>3. /\ spend' = Sent(spend, l, k) /\ revealed' = (revealed \/ k = "claim")
      /\ UNCHANGED <<deriving, up, phase, height, dep, lag, shown, armed>>
  BY <1>2 DEF Broadcast, ClientSend
<1>4. PICK b \in BOOLEAN : touch(applyEffects(s, l, k, b)) \/ untouched(applyEffects(s, l, k, b))
  BY <1>2 DEF Broadcast
<1> DEFINE n == applyEffects(s, l, k, b)
<1>5. n \in Swap /\ (Reached(s) => Reached(n)) /\ (RecordTrue(s) => RecordTrue(n))
  BY <1>1, Facts, ApplyEffectsOK
<1> HIDE DEF n
<1>6. s' = n /\ disk' \in {disk, s'} /\ sigSet' \in BOOLEAN
  BY <1>4, TouchOK DEF n
<1>7. spend' \in [Leg -> Spend]
  BY <1>1, <1>3, Facts, SentType
<1>8. left' \in [Event -> Nat] /\ left'["reorg"] = left["reorg"]
  BY LostOK DEF ClientSend
<1>9. revealed' \in BOOLEAN
  BY <1>3, Facts
<1> QED
  BY <1>3, <1>5, <1>6, <1>7, <1>8, <1>9, Facts, RecordStep DEF Kept, RecordsAreTrue

\* The watcher's poll, whichever legs backfill could look up.
LEMMA PollStepOK ==
  ASSUME IndType, NEW named \in SUBSET Leg, Poll(named),
         left' \in [Event -> Nat], left'["reorg"] = left["reorg"],
         lag' = 0, UNCHANGED <<shown, armed>>
  PROVE  Kept
<1>1. UNCHANGED <<deriving, up, chainVars>> /\ phase' = "watchtower"
  BY DEF Poll
<1>2. 0 \in 0..MaxLag
  BY SystemAssumption
<1>3. CASE Polls(s)
  <2> DEFINE n == poll(s, named)
  <2>1. touch(n)
    BY <1>3 DEF Poll
  <2>2. n \in Swap /\ Reached(n) /\ (RecordTrue(s) => RecordTrue(n))
    BY Facts, PollOK
  <2> HIDE DEF n
  <2>3. s' = n /\ disk' \in {disk, s'} /\ sigSet' \in BOOLEAN
    BY <2>1, TouchOK
  <2> QED
    BY <1>1, <1>2, <2>2, <2>3, Facts, RecordStep DEF Kept, chainVars, RecordsAreTrue
<1>4. CASE ~Polls(s)
  <2>1. UNCHANGED <<s, disk, sigSet>>
    BY <1>4 DEF Poll
  <2> QED
    BY <1>1, <1>2, <2>1, Facts, RecordStep DEF Kept, chainVars, RecordsAreTrue
<1> QED BY <1>3, <1>4

\* A poll on which backfill reaches all legs, or only some.
LEMMA WatchPollOK ==
  ASSUME IndType, WatchPoll \/ WatchPollMisses
  PROVE  Kept
<1>1. "pollFails" \in Event
  BY DEF Event
<1>2. left' \in [Event -> Nat] /\ left'["reorg"] = left["reorg"]
  BY <1>1, UseOK, Facts DEF WatchPoll, WatchPollMisses
<1>3. PICK named \in SUBSET Leg : Poll(named)
  BY DEF WatchPoll, WatchPollMisses
<1> QED BY <1>2, <1>3, PollStepOK DEF WatchPoll, WatchPollMisses

\* A poll cut short by a node error.
LEMMA WatchPollFailsOK ==
  ASSUME IndType, WatchPollFails
  PROVE  Kept
<1>1. PICK n \in CutShort(s) : untouched(n)
  BY DEF WatchPollFails, PollFails
<1>2. n \in Swap /\ Reached(n) /\ (RecordTrue(s) => RecordTrue(n))
  BY Facts, CutShortOK
<1>3. s' = n /\ disk' \in {disk, s'} /\ sigSet' \in BOOLEAN
  BY <1>1, TouchOK
<1>4. UNCHANGED <<deriving, up, chainVars, lag, shown, armed>> /\ phase' = "watchtower"
  BY DEF WatchPollFails, PollFails
<1>5. "pollFails" \in Event
  BY DEF Event
<1>6. left' \in [Event -> Nat] /\ left'["reorg"] = left["reorg"]
  BY <1>5, UseOK DEF WatchPollFails
<1> QED
  BY <1>2, <1>3, <1>4, <1>6, Facts, RecordStep DEF Kept, chainVars, RecordsAreTrue

\* The watchtower's step, finished or thrown out of.
LEMMA WatchDriveOK ==
  ASSUME IndType, NEW lost \in BOOLEAN, WatchDrive(lost)
  PROVE  Kept
<1> DEFINE o == [s |-> s, spend |-> spend, thrown |-> FALSE]
           x == IF Drives(s) THEN drive(o, lost) ELSE o
<1>1. Fine(o, s)
  BY Facts DEF Fine, Step
<1>2. Fine(x, s)
  BY <1>1, Facts, DriveOK
<1>3. /\ spend' = x.spend
      /\ revealed' = (revealed \/ \E l \in Leg : x.spend[l].kind = "claim")
      /\ touch(x.s) \/ untouched(x.s) \/ (UNCHANGED <<s, disk, sigSet>>)
      /\ UNCHANGED <<deriving, up, height, dep, lag, shown, armed>> /\ phase' = "poll"
  BY DEF WatchDrive, DriveWatchtower
<1> HIDE DEF x
<1>4. x.s \in Swap /\ x.spend \in [Leg -> Spend]
      /\ Reached(x.s) /\ (RecordTrue(s) => RecordTrue(x.s))
  BY <1>2, Facts DEF Fine, Step
<1>5. left' \in [Event -> Nat] /\ left'["reorg"] = left["reorg"]
  BY LostOK DEF WatchDrive
<1>6. revealed' \in BOOLEAN
  BY <1>3, Facts
<1>7. CASE touch(x.s) \/ untouched(x.s)
  <2>1. s' = x.s /\ disk' \in {disk, s'} /\ sigSet' \in BOOLEAN
    BY <1>7, TouchOK
  <2> QED
    BY <1>3, <1>4, <1>5, <1>6, <2>1, Facts, RecordStep DEF Kept, RecordsAreTrue
<1>8. CASE UNCHANGED <<s, disk, sigSet>>
  BY <1>3, <1>4, <1>5, <1>6, <1>8, Facts, RecordStep DEF Kept, RecordsAreTrue
<1> QED BY <1>3, <1>7, <1>8

\* A crash leaves the records as they are.
LEMMA StopOK ==
  ASSUME IndType, Stop
  PROVE  Kept
<1>1. "crash" \in Event
  BY DEF Event
<1>2. left' \in [Event -> Nat] /\ left'["reorg"] = left["reorg"]
  BY <1>1, UseOK DEF Stop
<1> QED
  BY <1>2, Facts, RecordStep DEF Kept, Stop, Crash, chainVars, RecordsAreTrue

\* A restart takes the stored record, which is as true as the one in memory.
LEMMA BootOK ==
  ASSUME IndType, Boot
  PROVE  Kept
  BY Facts, RecordStep DEF Kept, Boot, Restart, chainVars, systemVars, RecordsAreTrue

\* The seller is shown its deposit address.
LEMMA ShowHtlcOK ==
  ASSUME IndType, NEW r \in Role, ShowHtlc(r)
  PROVE  Kept
<1>1. /\ UNCHANGED <<chainVars, engineVars, left, lag, armed>>
      /\ shown' = [shown EXCEPT ![r] = s.lock[Funds(r)]]
      /\ (r = "bob" /\ BobWaits) => s.cleared
  BY DEF ShowHtlc
<1>2. shown' \in [Role -> Nat]
  <2>1. s.lock \in [Leg -> Nat] /\ Funds(r) \in Leg
    BY Facts, FieldTypes DEF Funds, Leg
  <2> QED BY <1>1, <2>1, Facts
<1>3. IndType'
  BY <1>1, <1>2 DEF IndType, TypeOK, ChainTypeOK, EngineTypeOK, ChainShape, Reached,
                    chainVars, engineVars
<1>4. ASSUME RecordsAreTrue PROVE RecordsAreTrue'
  <2>1. \A l \in Leg : Depth(l)' = Depth(l) /\ BuriedOnChain(l)' = BuriedOnChain(l)
    BY <1>1 DEF Depth, BuriedOnChain, chainVars
  <2>2. BuriedOnChain("btc")' = BuriedOnChain("btc")
    BY <2>1 DEF Leg
  <2>3. RecordTrue(s)' /\ RecordTrue(disk)'
    BY <1>1, <1>4, <2>1, <2>2
    DEF RecordsAreTrue, RecordTrue, DepositTrue, chainVars, engineVars
  <2>4. (shown'["bob"] # 0 /\ BobWaits /\ "btc" \notin Trusted) => BuriedOnChain("btc")
    <3>1. CASE r = "bob"
      BY <1>1, <1>4, <3>1 DEF RecordsAreTrue, RecordTrue
    <3>2. CASE r # "bob"
      <4>1. shown'["bob"] = shown["bob"]
        BY <1>1, <3>2, Facts DEF Role
      <4> QED BY <1>4, <4>1 DEF RecordsAreTrue
    <3> QED BY <3>1, <3>2
  <2> QED BY <1>1, <1>4, <2>2, <2>3, <2>4 DEF RecordsAreTrue
<1> QED BY <1>3, <1>4 DEF Kept

-----------------------------------------------------------------------------
\* Steps of the chains, which leave the engine alone.

LEMMA ChainStep ==
  ASSUME IndType, UNCHANGED <<engineVars, shown, armed>>, ChainTypeOK', ChainShape',
         left' \in [Event -> Nat], lag' \in 0..MaxLag,
         \A l \in Leg : height[l] <= height'[l]
  PROVE  /\ IndType'
         /\ (/\ RecordsAreTrue /\ left'["reorg"] = left["reorg"]
             /\ \A l \in Leg : dep[l].st = "confirmed" => dep'[l] = dep[l])
              => RecordsAreTrue'
<1>1. EngineTypeOK'
  BY DEF IndType, TypeOK, EngineTypeOK, engineVars
<1>2. \A l \in Leg : height[l] \in Nat /\ height'[l] \in Nat
  BY Facts, ChainAssumption DEF ChainTypeOK
<1>3. Reached(s)' /\ Reached(disk)'
  <2>1. \A l \in Leg : s.funding[l].h \in Nat /\ disk.funding[l].h \in Nat
    <3>1. \A l \in Leg : s.funding[l] \in Funding /\ disk.funding[l] \in Funding
      BY Facts, FieldTypes
    <3> QED BY <3>1 DEF Funding
  <2> QED BY <1>2, <2>1, Facts DEF Reached, engineVars
<1>4. IndType'
  BY <1>1, <1>3, Facts DEF IndType, TypeOK
<1>5. ASSUME RecordsAreTrue, left'["reorg"] = left["reorg"],
             \A l \in Leg : dep[l].st = "confirmed" => dep'[l] = dep[l]
      PROVE  RecordsAreTrue'
  <2>1. \A l \in Leg : dep[l].at \in Nat /\ Target[l] \in Nat
    BY Facts, EngineAssumption DEF ChainTypeOK, Deposit
  <2>2. \A l \in Leg : dep[l].st = "confirmed" => Depth(l) <= Depth(l)' /\ Depth(l)' \in Int
                                                   /\ Depth(l) \in Int
    BY <1>2, <1>5, <2>1 DEF Depth
  <2>3. \A l \in Leg : BuriedOnChain(l) => BuriedOnChain(l)'
    BY <1>5, <2>1, <2>2 DEF BuriedOnChain
  <2>4. BuriedOnChain("btc") => BuriedOnChain("btc")'
    BY <2>3 DEF Leg
  <2>5. ASSUME NEW l \in Leg PROVE DepositTrue(s, l)' /\ DepositTrue(disk, l)'
    <3>1. DepositTrue(s, l) /\ DepositTrue(disk, l)
      BY <1>5 DEF RecordsAreTrue, RecordTrue
    <3>2. s.funding[l] \in Funding /\ disk.funding[l] \in Funding
      BY Facts, FieldTypes
    <3>3. s.funding[l].confs \in Nat /\ disk.funding[l].confs \in Nat
      BY <3>2 DEF Funding
    <3>4. s' = s /\ disk' = disk
      BY DEF engineVars
    <3>5. DepositTrue(s, l)'
      BY <1>5, <2>2, <3>1, <3>3, <3>4 DEF DepositTrue
    <3>6. DepositTrue(disk, l)'
      BY <1>5, <2>2, <3>1, <3>3, <3>4 DEF DepositTrue
    <3> QED BY <3>5, <3>6
  <2>6. RecordTrue(s)' /\ RecordTrue(disk)'
    BY <1>5, <2>3, <2>4, <2>5 DEF RecordsAreTrue, RecordTrue, engineVars
  <2> QED BY <1>5, <2>4, <2>6 DEF RecordsAreTrue
<1> QED BY <1>4, <1>5

\* A deposit, or a spend, moved to or from a block.
LEMMA MovedDeposit ==
  ASSUME NEW v \in Deposit, NEW st \in {"none", "mempool", "confirmed"}, NEW at \in 0..MaxHeight
  PROVE  LET u == [v EXCEPT !.st = st, !.at = at]
         IN u \in Deposit /\ u.st = st /\ u.at = at
  BY DEF Deposit

LEMMA MovedSpend ==
  ASSUME NEW w \in Spend, NEW at \in 0..MaxHeight, NEW since \in 0..MaxHeight
  PROVE  [w EXCEPT !.at = at, !.since = since] \in Spend
  BY DEF Spend

\* A block confirms a deposit or a spend; a confirmed deposit only gets deeper.
LEMMA MineOK ==
  ASSUME IndType, NEW l \in Leg, Mine(l)
  PROVE  Kept
<1>1. /\ height[l] < MaxHeight /\ height' = [height EXCEPT ![l] = @ + 1]
      /\ UNCHANGED <<revealed, engineVars, left, shown, armed>>
      /\ lag < MaxLag /\ lag' = lag + 1
  BY DEF Mine, MineBlock
<1>2. height' \in [Leg -> 1..MaxHeight] /\ \A m \in Leg : height[m] <= height'[m]
  BY <1>1, Facts, ChainAssumption
<1>3. PICK d \in BOOLEAN, x \in BOOLEAN :
        /\ d => dep[l].st = "mempool"
        /\ dep' = IF d THEN [dep EXCEPT ![l] = [@ EXCEPT !.st = "confirmed", !.at = height[l] + 1]]
                  ELSE dep
        /\ spend' = IF x THEN [spend EXCEPT ![l] = [@ EXCEPT !.at = height[l] + 1, !.since = 0]]
                    ELSE spend
  BY DEF Mine, MineBlock
<1>4. height[l] + 1 \in 1..MaxHeight /\ height'[l] = height[l] + 1
  BY <1>1, Facts, ChainAssumption
<1>5. /\ dep' \in [Leg -> Deposit]
      /\ \A m \in Leg : dep'[m] = dep[m] \/ (m = l /\ d /\ dep'[m].st = "confirmed"
                                                 /\ dep'[m].at = height'[m])
  <2>1. dep \in [Leg -> Deposit]
    BY Facts DEF ChainTypeOK
  <2>2. CASE d
    <3> DEFINE v == [dep[l] EXCEPT !.st = "confirmed", !.at = height[l] + 1]
    <3>1. dep' = [dep EXCEPT ![l] = v]
      BY <1>3, <2>2, <2>1 DEF Deposit
    <3>2. v \in Deposit /\ v.st = "confirmed" /\ v.at = height[l] + 1
      <4>1. dep[l] \in Deposit /\ height[l] + 1 \in 0..MaxHeight /\ spend[l] \in Spend
        BY <1>4, <2>1, Facts, ChainAssumption
      <4> QED BY <4>1, MovedDeposit
    <3> HIDE DEF v
    <3> QED BY <1>4, <2>1, <2>2, <3>1, <3>2
  <2>3. CASE ~d
    BY <1>3, <2>1, <2>3
  <2> QED BY <2>2, <2>3
<1>6. spend' \in [Leg -> Spend]
  <2>1. spend \in [Leg -> Spend]
    BY Facts
  <2>2. CASE x
    <3> DEFINE v == [spend[l] EXCEPT !.at = height[l] + 1, !.since = 0]
    <3>1. spend' = [spend EXCEPT ![l] = v]
      BY <1>3, <2>2, <2>1 DEF Spend
    <3>2. v \in Spend
      <4>1. dep[l] \in Deposit /\ height[l] + 1 \in 0..MaxHeight /\ spend[l] \in Spend
            /\ 0 \in 0..MaxHeight
        BY <1>4, <2>1, Facts, ChainAssumption DEF ChainTypeOK
      <4> QED BY <4>1, MovedSpend
    <3> HIDE DEF v
    <3> QED BY <2>1, <3>1, <3>2
  <2>3. CASE ~x
    BY <1>3, <2>1, <2>3
  <2> QED BY <2>2, <2>3
<1>7. ChainTypeOK'
  BY <1>1, <1>2, <1>5, <1>6, Facts DEF ChainTypeOK
<1>8. ChainShape'
  <2>1. \A m \in Leg : /\ dep[m].at \in Nat /\ height[m] \in Nat /\ height'[m] \in Nat
                       /\ dep[m].at <= height[m] /\ (dep[m].at # 0 => dep[m].st = "confirmed")
    BY <1>2, Facts, ChainAssumption DEF ChainTypeOK, Deposit, ChainShape
  <2> QED BY <1>2, <1>5, <2>1 DEF ChainShape
<1>9. \A m \in Leg : dep[m].st = "confirmed" => dep'[m] = dep[m]
  BY <1>3, <1>5
<1>10. left' \in [Event -> Nat] /\ lag' \in 0..MaxLag
  BY <1>1, Facts, SystemAssumption
<1> QED BY <1>1, <1>2, <1>7, <1>8, <1>9, <1>10, ChainStep DEF Kept, RecordsAreTrue

\* A dropped spend leaves the deposits alone.
LEMMA EvictOK ==
  ASSUME IndType, NEW l \in Leg, Evict(l)
  PROVE  Kept
<1>1. /\ spend' = [spend EXCEPT ![l] = NoSpend]
      /\ UNCHANGED <<height, dep, revealed, engineVars, lag, shown, armed>>
  BY DEF Evict, EvictSpend
<1>2. NoSpend \in Spend
  BY ChainAssumption DEF NoSpend, Spend
<1>3. ChainTypeOK' /\ ChainShape'
  BY <1>1, <1>2, Facts DEF ChainTypeOK, ChainShape
<1>4. "evict" \in Event
  BY DEF Event
<1>5. left' \in [Event -> Nat] /\ left'["reorg"] = left["reorg"]
  BY <1>4, UseOK DEF Evict
<1>6. \A m \in Leg : height[m] <= height'[m]
  BY <1>1, Facts, ChainAssumption
<1> QED BY <1>1, <1>3, <1>5, <1>6, Facts, ChainStep DEF Kept, RecordsAreTrue

\* Only an unconfirmed deposit is dropped, and no record has one as confirmed.
LEMMA DropOK ==
  ASSUME IndType, NEW l \in Leg, Drop(l)
  PROVE  Kept
<1>1. /\ dep[l].st = "mempool"
      /\ dep' = [dep EXCEPT ![l] = [dep[l] EXCEPT !.st = "none"]]
      /\ UNCHANGED <<height, spend, revealed, engineVars, lag, shown, armed>>
  BY DEF Drop, DropDeposit
<1> DEFINE v == [dep[l] EXCEPT !.st = "none"]
<1>2. v \in Deposit /\ v.at = dep[l].at
  BY Facts DEF ChainTypeOK, Deposit
<1> HIDE DEF v
<1>3. dep' = [dep EXCEPT ![l] = v]
  BY <1>1 DEF v
<1>4. dep[l].at = 0
  BY <1>1, Facts DEF ChainShape
<1>5. ChainTypeOK' /\ ChainShape'
  BY <1>1, <1>2, <1>3, <1>4, Facts DEF ChainTypeOK, ChainShape
<1>6. "drop" \in Event
  BY DEF Event
<1>7. left' \in [Event -> Nat] /\ left'["reorg"] = left["reorg"]
  BY <1>6, UseOK DEF Drop
<1>8. /\ \A m \in Leg : height[m] <= height'[m]
      /\ \A m \in Leg : dep[m].st = "confirmed" => dep'[m] = dep[m]
  BY <1>1, <1>3, Facts, ChainAssumption DEF ChainTypeOK
<1> QED BY <1>1, <1>5, <1>7, <1>8, Facts, ChainStep DEF Kept, RecordsAreTrue

\* Replacing a block is not in a budget that RecordsAreTrue allows.
LEMMA UnmineOK ==
  ASSUME IndType, NEW l \in Leg, Unmine(l)
  PROVE  Kept
<1>1. /\ dep' = [dep EXCEPT ![l] = [@ EXCEPT !.st = "mempool", !.at = 0]]
      /\ spend' = [spend EXCEPT ![l] = [@ EXCEPT !.at = 0, !.since =
                     IF spend[l].kind = "none" THEN 0 ELSE height[l]]]
      /\ UNCHANGED <<height, revealed, engineVars, lag, shown, armed>>
      /\ Use("reorg")
  BY DEF Unmine, Reorg
<1> DEFINE v == [dep[l] EXCEPT !.st = "mempool", !.at = 0]
           w == [spend[l] EXCEPT !.at = 0, !.since =
                   IF spend[l].kind = "none" THEN 0 ELSE height[l]]
<1>2. v \in Deposit /\ v.at = 0 /\ w \in Spend
  <2>1. /\ dep[l] \in Deposit /\ spend[l] \in Spend /\ height[l] \in 0..MaxHeight
        /\ 0 \in 0..MaxHeight
    BY Facts, ChainAssumption DEF ChainTypeOK
  <2>2. (IF spend[l].kind = "none" THEN 0 ELSE height[l]) \in 0..MaxHeight
    BY <2>1
  <2>3. v \in Deposit /\ v.at = 0
    BY <2>1, MovedDeposit
  <2> HIDE DEF v
  <2> QED BY <2>1, <2>2, <2>3, MovedSpend
<1>4. dep' = [dep EXCEPT ![l] = v] /\ spend' = [spend EXCEPT ![l] = w]
  BY <1>1
<1> HIDE DEF v, w
<1>5. \A m \in Leg : height[m] \in Nat /\ height[m] > 0
  BY Facts, ChainAssumption
<1>6. ChainTypeOK' /\ ChainShape'
  BY <1>1, <1>2, <1>4, <1>5, Facts DEF ChainTypeOK, ChainShape
<1>7. "reorg" \in Event
  BY DEF Event
<1>8. left' \in [Event -> Nat]
  BY <1>1, <1>7, UseOK
<1>9. IndType'
  BY <1>1, <1>5, <1>6, <1>8, Facts, ChainStep
<1>10. ~RecordsAreTrue
  BY <1>1, <1>7, Facts DEF Use, RecordsAreTrue
<1> QED BY <1>9, <1>10 DEF Kept

\* Only an unconfirmed deposit is replaced.
LEMMA MakeDepositOK ==
  ASSUME IndType, NEW r \in Role, NEW ok \in BOOLEAN, MakeDeposit(r, ok)
  PROVE  Kept
<1> DEFINE l == Funds(r)
           v == [id |-> dep[l].id + 1, st |-> "mempool", ok |-> ok, at |-> 0, lock |-> shown[r]]
<1>1. l \in Leg
  BY DEF Funds, Leg
<1>2. /\ dep[l].st # "confirmed" /\ dep[l].id < MaxDeposits
      /\ dep' = [dep EXCEPT ![l] = v]
      /\ UNCHANGED <<height, spend, revealed, engineVars, lag, shown>>
      /\ UNCHANGED armed
  BY DEF MakeDeposit
<1>3. v \in Deposit
  <2>1. dep[l].id \in 0..MaxDeposits /\ shown[r] \in Nat
    BY <1>1, Facts DEF ChainTypeOK, Deposit
  <2>2. dep[l].id + 1 \in 0..MaxDeposits /\ 0 \in 0..MaxHeight
    BY <1>2, <2>1, ChainAssumption
  <2> QED BY <2>1, <2>2 DEF Deposit
<1>4. v.at = 0 /\ v.st = "mempool"
  OBVIOUS
<1>5. /\ left' = [left EXCEPT !["deposit"] = @ - (IF dep[l].id = 0 THEN 0 ELSE 1),
                              !["short"] = @ - (IF ok THEN 0 ELSE 1)]
      /\ dep[l].id # 0 => left["deposit"] > 0
      /\ ~ok => left["short"] > 0
  BY DEF MakeDeposit
<1> HIDE DEF l, v
<1>6. \A m \in Leg : height[m] \in Nat
  BY Facts, ChainAssumption
<1>7. ChainTypeOK' /\ ChainShape'
  BY <1>1, <1>2, <1>3, <1>4, <1>6, Facts DEF ChainTypeOK, ChainShape
<1>8. left' \in [Event -> Nat] /\ left'["reorg"] = left["reorg"]
  BY <1>5, Facts DEF Event
<1>9. /\ \A m \in Leg : height[m] <= height'[m]
      /\ \A m \in Leg : dep[m].st = "confirmed" => dep'[m] = dep[m]
  BY <1>1, <1>2, <1>6, Facts DEF ChainTypeOK
<1> QED BY <1>2, <1>7, <1>8, <1>9, Facts, ChainStep DEF Kept, RecordsAreTrue

\* A spend sent past the coordinator leaves deposits and records alone.
LEMMA DirectSendOK ==
  ASSUME IndType, NEW r \in Role, NEW k \in Kind, DirectSend(r, k)
  PROVE  Kept
<1> DEFINE l == TheLeg(r, k)
<1>1. l \in Leg
  BY DEF TheLeg, Claims, Funds, Other, Leg
<1>2. /\ spend' = Sent(spend, l, k) /\ revealed' = (revealed \/ k = "claim")
      /\ UNCHANGED <<height, dep, engineVars, lag, shown, armed>>
      /\ Use("direct")
  BY DEF DirectSend
<1> HIDE DEF l
<1>3. spend' \in [Leg -> Spend]
  BY <1>1, <1>2, Facts, SentType
<1>4. ChainTypeOK' /\ ChainShape'
  BY <1>2, <1>3, Facts DEF ChainTypeOK, ChainShape
<1>5. "direct" \in Event
  BY DEF Event
<1>6. left' \in [Event -> Nat] /\ left'["reorg"] = left["reorg"]
  BY <1>2, <1>5, UseOK
<1>7. \A m \in Leg : height[m] <= height'[m]
  BY <1>2, Facts, ChainAssumption
<1> QED BY <1>2, <1>4, <1>6, <1>7, Facts, ChainStep DEF Kept, RecordsAreTrue

-----------------------------------------------------------------------------
\* The theorems.

\* The initial states satisfy both invariants.
LEMMA InitOK ==
  ASSUME Init
  PROVE  IndType /\ ((\A b \in Budgets : b["reorg"] = 0) => RecordsAreTrue)
<1>1. 0 \in 0..MaxHeight /\ 1 \in 1..MaxHeight /\ 0 \in 0..MaxDeposits /\ 0 \in 0..MaxLag
  BY ChainAssumption, SystemAssumption
<1>2. NoFunding \in Funding /\ NoBundle \in Bundle /\ NoSpend \in Spend
      /\ NoFunding.h = 0
  BY <1>1 DEF NoFunding, Funding, NoBundle, Bundle, NoSpend, Spend
<1>3. Created \in Swap /\ Created.funding = [l \in Leg |-> NoFunding]
      /\ Created.state = "CREATED" /\ Created.cleared = FALSE
  BY <1>1, <1>2 DEF Created, Swap, States, Refundable
<1>4. s = Created /\ disk = Created /\ sigSet = TRUE /\ deriving = {} /\ up = TRUE
      /\ phase = "poll"
  BY DEF Init, EngineInit
<1>5. EngineTypeOK
  BY <1>3, <1>4 DEF EngineTypeOK
<1>6. /\ height = [l \in Leg |-> 1] /\ spend = [l \in Leg |-> NoSpend] /\ revealed = FALSE
      /\ dep = [l \in Leg |-> [id |-> 0, st |-> "none", ok |-> FALSE, at |-> 0, lock |-> 0]]
  BY DEF Init, ChainInit
<1>7. ChainTypeOK /\ ChainShape
  <2>1. [id |-> 0, st |-> "none", ok |-> FALSE, at |-> 0, lock |-> 0] \in Deposit
    BY <1>1 DEF Deposit
  <2>2. ChainTypeOK
    BY <1>1, <1>2, <1>6, <2>1 DEF ChainTypeOK
  <2>3. \A l \in Leg : dep[l].at = 0 /\ height[l] = 1
    BY <1>6
  <2> QED BY <2>2, <2>3 DEF ChainShape
<1>8. TypeOK
  BY <1>1, <1>2, <1>5, <1>7, SystemAssumption DEF TypeOK, Init
<1>9. Reached(s) /\ Reached(disk)
  BY <1>2, <1>3, <1>4, <1>6 DEF Reached
<1>10. RecordTrue(s) /\ RecordTrue(disk)
  BY <1>2, <1>3, <1>4 DEF RecordTrue, DepositTrue
<1>11. left \in Budgets /\ shown["bob"] = 0
  BY DEF Init, Role
<1> QED BY <1>7, <1>8, <1>9, <1>10, <1>11 DEF IndType, RecordsAreTrue

\* One step of the system, action by action.
LEMMA NextOK ==
  ASSUME IndType, [Next]_vars
  PROVE  Kept
<1>1. ASSUME NEW r \in Role, Join(r) PROVE Kept
  BY <1>1, JoinOK
<1>2. ASSUME NEW h \in deriving, Derive(h) PROVE Kept
  BY <1>2, DeriveOK
<1>3. ASSUME NEW h \in deriving, DeriveError(h) PROVE Kept
  BY <1>3, DeriveErrorOK
<1>4. ASSUME NEW r \in Role, ShowHtlc(r) PROVE Kept
  BY <1>4, ShowHtlcOK
<1>5. ASSUME NEW r \in Role, NEW ok \in BOOLEAN, MakeDeposit(r, ok) PROVE Kept
  BY <1>5, MakeDepositOK
<1>6. ASSUME NEW r \in Role, Arm(r) PROVE Kept
  BY <1>6, ArmOK
<1>7. ASSUME NEW r \in Role, NEW k \in Kind, NEW lost \in BOOLEAN, ClientSend(r, k, lost)
      PROVE  Kept
  BY <1>7, ClientSendOK
<1>8. ASSUME NEW r \in Role, NEW k \in Kind, DirectSend(r, k) PROVE Kept
  BY <1>8, DirectSendOK
<1>9. CASE Cancel
  BY <1>9, CancelOK
<1>10. ASSUME NEW l \in Leg, Mine(l) PROVE Kept
  BY <1>10, MineOK
<1>11. ASSUME NEW l \in Leg, Evict(l) PROVE Kept
  BY <1>11, EvictOK
<1>12. ASSUME NEW l \in Leg, Drop(l) PROVE Kept
  BY <1>12, DropOK
<1>13. ASSUME NEW l \in Leg, Unmine(l) PROVE Kept
  BY <1>13, UnmineOK
<1>14. CASE WatchPoll \/ WatchPollMisses
  BY <1>14, WatchPollOK
<1>15. CASE WatchPollFails
  BY <1>15, WatchPollFailsOK
<1>16. ASSUME NEW lost \in BOOLEAN, WatchDrive(lost) PROVE Kept
  BY <1>16, WatchDriveOK
<1>17. CASE Stop
  BY <1>17, StopOK
<1>18. CASE Boot
  BY <1>18, BootOK
<1>19. CASE UNCHANGED vars
  <2>1. UNCHANGED <<chainVars, engineVars, left, lag, shown, armed>>
    BY <1>19 DEF vars, systemVars
  <2>2. UNCHANGED <<height, dep, spend, revealed, s, disk, sigSet, deriving, up, phase>>
    BY <2>1 DEF chainVars, engineVars
  <2> QED
    BY <2>1, <2>2, Facts, RecordStep DEF Kept, RecordsAreTrue
<1> QED
  BY <1>1, <1>2, <1>3, <1>4, <1>5, <1>6, <1>7, <1>8, <1>9, <1>10, <1>11, <1>12, <1>13,
     <1>14, <1>15, <1>16, <1>17, <1>18, <1>19
  DEF Next

\* Every reachable state is well typed and no depth is negative, whatever the
\* chains, the node's errors and restarts do to the record.
THEOREM WellTyped == Spec => []IndType
<1>1. Init => IndType
  BY InitOK
<1>2. IndType /\ [Next]_vars => IndType'
  BY NextOK DEF Kept
<1> QED BY <1>1, <1>2, PTL DEF Spec

\* The type invariant of the runs.
THEOREM TypeCorrect == Spec => []TypeOK
<1>1. IndType => TypeOK
  BY DEF IndType
<1> QED BY <1>1, WellTyped, PTL

\* With no block replaced, both records always tell the truth about the
\* deposits: through polls cut short, lost updates, crashes and restarts.
THEOREM RecordsStayTrue ==
  ASSUME \A b \in Budgets : b["reorg"] = 0
  PROVE  Spec => []RecordsAreTrue
<1>1. Init => RecordsAreTrue
  BY InitOK
<1>2. IndType /\ RecordsAreTrue /\ [Next]_vars => RecordsAreTrue'
  BY NextOK DEF Kept
<1> QED BY <1>1, <1>2, WellTyped, PTL DEF Spec

\* poll's gate: with no block replaced, a swap shown as CLAIMABLE has both its
\* deposits on chain, in full and at their reorg-safe depth.
THEOREM ClaimableBuried ==
  ASSUME \A b \in Budgets : b["reorg"] = 0
  PROVE  Spec => []ClaimableIsBuried
<1>1. RecordsAreTrue => ClaimableIsBuried
  BY DEF RecordsAreTrue, RecordTrue, BuriedOnChain, ClaimableIsBuried
<1> QED BY <1>1, RecordsStayTrue, PTL

\* fundGate.cleared: a seller that waits for it (the web client) sends a
\* deposit, and every replacement of it, only when the buyer's is buried.
THEOREM SellerFundsLast ==
  ASSUME \A b \in Budgets : b["reorg"] = 0, BobWaits, "btc" \notin Trusted
  PROVE  Spec => SequencedFunding
<1> DEFINE Funded == dep'["qbit"].id > dep["qbit"].id => Depth("btc") >= Target["btc"]
<1>1. ASSUME IndType, RecordsAreTrue, NEW r \in Role, NEW ok \in BOOLEAN, MakeDeposit(r, ok)
      PROVE  Funded
  <2>1. dep \in [Leg -> Deposit]
    BY <1>1, Facts DEF ChainTypeOK
  <2>2. dep["qbit"].id \in Nat
    BY <2>1 DEF Deposit, Leg
  <2>3. CASE r = "alice"
    <3>1. dep'["qbit"] = dep["qbit"]
      BY <1>1, <2>1, <2>3 DEF MakeDeposit, Funds, Leg
    <3> QED BY <2>2, <3>1
  <2>4. CASE r = "bob"
    <3>1. shown["bob"] # 0
      BY <1>1, <2>4 DEF MakeDeposit
    <3> QED BY <1>1, <3>1 DEF RecordsAreTrue, BuriedOnChain
  <2> QED BY <1>1, <2>3, <2>4 DEF Role
<1>2. ASSUME IndType, \A l \in Leg : dep'[l].id = dep[l].id
      PROVE  Funded
  <2>1. dep["qbit"].id \in Nat /\ dep'["qbit"].id = dep["qbit"].id
    BY <1>2, Facts DEF ChainTypeOK, Deposit, Leg
  <2> QED BY <2>1
<1>3. ASSUME IndType, NEW l \in Leg, Mine(l) \/ Drop(l) \/ Unmine(l)
      PROVE  \A m \in Leg : dep'[m].id = dep[m].id
  <2>1. dep \in [Leg -> Deposit]
    BY <1>3, Facts DEF ChainTypeOK
  <2>2. \/ dep' = dep
        \/ \E st \in {"none", "mempool", "confirmed"} :
              dep' = [dep EXCEPT ![l] = [dep[l] EXCEPT !.st = st]]
        \/ \E st \in {"none", "mempool", "confirmed"} : \E at :
              dep' = [dep EXCEPT ![l] = [dep[l] EXCEPT !.st = st, !.at = at]]
    BY <1>3 DEF Mine, MineBlock, Drop, DropDeposit, Unmine, Reorg
  <2>3. \A st, at : /\ [dep[l] EXCEPT !.st = st].id = dep[l].id
                    /\ [dep[l] EXCEPT !.st = st, !.at = at].id = dep[l].id
    BY <2>1 DEF Deposit
  <2>4. dep' = dep \/ \E u : u.id = dep[l].id /\ dep' = [dep EXCEPT ![l] = u]
    BY <2>2, <2>3
  <2> QED BY <2>1, <2>4
<1>4. ASSUME IndType, RecordsAreTrue, [Next]_vars
      PROVE  Funded
  <2>1. \/ \E r \in Role, ok \in BOOLEAN : MakeDeposit(r, ok)
        \/ \E l \in Leg : Mine(l) \/ Drop(l) \/ Unmine(l)
        \/ dep' = dep
    BY <1>4 DEF Next, vars, chainVars, Join, SubmitParty, Derive, DeriveHtlcs, DeriveError,
       DeriveFails, ShowHtlc, Arm, SubmitFinish, ClientSend, Broadcast, DirectSend, Cancel,
       CancelSwap, Evict, EvictSpend, WatchPoll, WatchPollMisses, Poll, WatchPollFails,
       PollFails, WatchDrive, DriveWatchtower, Stop, Crash, Boot, Restart
  <2> QED BY <1>1, <1>2, <1>3, <1>4, <2>1
<1>5. IndType /\ RecordsAreTrue /\ [Next]_vars => [Funded]_vars
  BY <1>4
<1> QED BY <1>5, WellTyped, RecordsStayTrue, PTL DEF Spec, SequencedFunding
-----------------------------------------------------------------------------
\* The HTLCs are derived once (AddressInv).

\* An event whose budget is spent, or was never given, does not occur again.
LEMMA SpentForGood ==
  ASSUME IndType, [Next]_vars, NEW e \in Event, left[e] = 0
  PROVE  left'[e] = 0
<1>1. ASSUME NEW f \in Event, Use(f) PROVE left'[e] = 0
  BY <1>1, Facts DEF Use
<1>2. ASSUME NEW r \in Role, NEW ok \in BOOLEAN, MakeDeposit(r, ok) PROVE left'[e] = 0
  <2>1. /\ left' = [left EXCEPT !["deposit"] = @ - (IF dep[Funds(r)].id = 0 THEN 0 ELSE 1),
                                !["short"] = @ - (IF ok THEN 0 ELSE 1)]
        /\ dep[Funds(r)].id # 0 => left["deposit"] > 0
        /\ ~ok => left["short"] > 0
    BY <1>2 DEF MakeDeposit
  <2> QED BY <2>1, Facts DEF Event
<1>3. \/ \E f \in Event : Use(f)
      \/ \E r \in Role, ok \in BOOLEAN : MakeDeposit(r, ok)
      \/ UNCHANGED left
  BY DEF Next, vars, systemVars, Join, Derive, DeriveError, ShowHtlc, Arm, ClientSend, DirectSend,
     Cancel, Mine, Evict, Drop, Unmine, WatchPoll, WatchPollMisses, WatchPollFails, WatchDrive,
     Stop, Boot, Event
<1> QED BY <1>1, <1>2, <1>3

\* The legs, one by one.
LEMMA Legs ==
  /\ \A l \in Leg : Other(l) \in Leg /\ Other(Other(l)) = l /\ Other(l) # l
  /\ "btc" \in Leg /\ "qbit" \in Leg /\ Other("btc") = "qbit" /\ Other("qbit") = "btc"
  /\ \A r \in Role : Funds(r) \in Leg /\ Claims(r) \in Leg
  /\ \A r \in Role, k \in Kind : TheLeg(r, k) \in Leg
  BY DEF Leg, Other, Role, Funds, Claims, TheLeg, Kind

\* A step that leaves the terms of the record alone, and finds no deposit while
\* there is no address.
LEMMA AddressRecord ==
  ASSUME AddressInv, NEW n, s' = n, disk' \in {disk, n}, left'["resubmit"] = 0,
         UNCHANGED <<height, dep, shown, up>>, deriving' \subseteq deriving,
         n.lock = s.lock, n.joined = s.joined,
         Unlocked(s) => /\ n.state \in {"CREATED", "CANCELED"}
                        /\ \A l \in Leg : Unfunded(n.funding[l])
  PROVE  AddressInv'
<1>1. (Locked(n) = Locked(s)) /\ (Unlocked(n) = Unlocked(s))
  BY DEF Locked, Unlocked
<1>2. Addressed(n)
  BY <1>1 DEF AddressInv, Addressed
<1>3. Addressed(s)' /\ Addressed(disk)' /\ disk'.lock = s'.lock /\ s'.lock = s.lock
  <2>1. Addressed(s')
    BY <1>2
  <2>2. Addressed(disk')
    BY <1>2 DEF AddressInv
  <2> QED BY <2>1, <2>2 DEF Addressed, Locked, Unlocked, AddressInv
<1>4. (Locked(s)' = Locked(s)) /\ (Unlocked(s)' = Unlocked(s))
  BY <1>3 DEF Locked, Unlocked
<1> QED BY <1>3, <1>4 DEF AddressInv

\* A step that leaves both records alone.
LEMMA AddressChain ==
  ASSUME AddressInv, UNCHANGED <<s, disk>>, left'["resubmit"] = 0, deriving' \subseteq deriving,
         up' = up \/ deriving' = {},
         \A l \in Leg : height'[l] <= height'[Other(l)] + Drift,
         \A r \in Role : shown'[r] \in {0, shown[r], s.lock[Funds(r)]},
         \A l \in Leg : \/ dep'[l].id = dep[l].id /\ dep'[l].lock = dep[l].lock
                           /\ (dep'[l].st # "none" => dep[l].st # "none")
                        \/ dep'[l].id # 0 /\ dep'[l].lock = s.lock[l] /\ Locked(s)
  PROVE  AddressInv'
<1>1. (Locked(s)' = Locked(s)) /\ (Unlocked(s)' = Unlocked(s))
  BY DEF Locked, Unlocked
<1>2. Addressed(s)' /\ Addressed(disk)' /\ disk'.lock = s'.lock
  BY DEF AddressInv, Addressed, Locked, Unlocked
<1>3. \A r \in Role : shown'[r] \in {0, s'.lock[Funds(r)]}
  BY DEF AddressInv
<1>4. \A l \in Leg : /\ dep'[l].st # "none" => dep'[l].id # 0
                     /\ dep'[l].id # 0 => dep'[l].lock = s'.lock[l] /\ Locked(s)
  BY DEF AddressInv
<1> QED BY <1>1, <1>2, <1>3, <1>4 DEF AddressInv

\* While there is no address there is nothing to find or to spend.
LEMMA NothingYet ==
  ASSUME IndType, AddressInv, Unlocked(s)
  PROVE  /\ \A l \in Leg : dep[l].st = "none" /\ ~Found(l, s.lock[l]) /\ Unfunded(s.funding[l])
         /\ s.state \in {"CREATED", "CANCELED"}
         /\ \A sp, id : \A l \in Leg : ~IsUnspent(sp, l, id)
<1>1. ~Locked(s)
  BY Legs DEF Locked, Unlocked
<1>2. \A l \in Leg : dep[l].st = "none"
  BY <1>1 DEF AddressInv
<1> QED BY <1>2 DEF Found, IsUnspent, AddressInv, Addressed

\* Who has joined is settled before the HTLCs are derived.
LEMMA JoinAddress ==
  ASSUME IndType, AddressInv, NEW r \in Role, Join(r), left'["resubmit"] = 0
  PROVE  AddressInv'
<1> DEFINE n == [s EXCEPT !.joined = @ \cup {r}]
<1>1. r \notin s.joined
  BY Facts DEF Join, Use, AddressInv, Event
<1>2. Unlocked(s) /\ ~Locked(s) /\ deriving = {}
  BY <1>1, Legs DEF AddressInv, Addressed, Locked, Unlocked
<1>3. /\ n.lock = s.lock /\ n.state = s.state /\ n.funding = s.funding
      /\ n.joined = s.joined \cup {r}
  BY Facts DEF Swap
<1>4. /\ s' = n /\ disk' \in {disk, n} /\ UNCHANGED <<height, dep, shown, up>> /\ up
      /\ deriving' \in {deriving, deriving \cup {height}}
      /\ deriving' # deriving => n.joined = Role
      /\ \A l \in Leg : height[l] <= MaxJoin
  BY TouchOK DEF Join, SubmitParty, chainVars
<1> HIDE DEF n
<1>5. Unlocked(n) /\ ~Locked(n)
  BY <1>2, <1>3 DEF Locked, Unlocked
<1>6. Addressed(n)
  BY <1>2, <1>3, <1>5 DEF AddressInv, Addressed
<1>7. Addressed(s)' /\ Addressed(disk)' /\ disk'.lock = s'.lock
  <2>1. Addressed(s') /\ Addressed(disk')
    BY <1>4, <1>6 DEF AddressInv
  <2>2. disk'.lock = s'.lock
    BY <1>3, <1>4 DEF AddressInv
  <2> QED BY <2>1, <2>2 DEF Addressed, Locked, Unlocked
<1>8. Unlocked(s)' /\ ~Locked(s)'
  BY <1>4, <1>5 DEF Locked, Unlocked
<1>9. /\ deriving' # {} => up' /\ s'.joined = Role
      /\ \A h, k \in deriving' : h = k
      /\ \A h \in deriving' : \A l \in Leg : h[l] <= MaxJoin /\ h[l] <= h[Other(l)] + Drift
  BY <1>2, <1>4 DEF AddressInv
<1>10. /\ \A l \in Leg : height'[l] <= height'[Other(l)] + Drift
       /\ \A x \in Role : shown'[x] \in {0, s'.lock[Funds(x)]}
       /\ \A l \in Leg : dep'[l].st = "none" /\ dep'[l].id = 0
  BY <1>2, <1>3, <1>4 DEF AddressInv
<1> QED BY <1>7, <1>8, <1>9, <1>10 DEF AddressInv

\* The derivation gives both timelocks at once, in memory and in the store.
LEMMA DeriveAddress ==
  ASSUME IndType, AddressInv, NEW h \in deriving, Derive(h), left'["resubmit"] = 0
  PROVE  AddressInv'
<1> DEFINE k == [l \in Leg |-> h[l] + Window[l]]
           n == [s EXCEPT !.lock = k, !.state = "READY"]
<1>1. Unlocked(s) /\ s.joined = Role /\ ~Locked(s)
  BY Legs DEF AddressInv, Locked, Unlocked
<1>2. /\ n.lock = k /\ n.state = "READY" /\ n.joined = s.joined /\ n.funding = s.funding
  BY Facts DEF Swap
<1>3. touch(n) /\ deriving' = deriving \ {h} /\ UNCHANGED <<chainVars, systemVars>>
  BY DEF Derive, DeriveHtlcs
<1>4. \A l \in Leg : h[l] \in Nat /\ h[l] >= 1 /\ Window[l] \in Nat /\ Window[l] # 0
  BY Facts, EngineAssumption, ChainAssumption
<1>5. \A l \in Leg : k[l] = h[l] + Window[l] /\ k[l] # 0
  BY <1>4
<1>6. LocksApart(k)
  <2>1. h["qbit"] <= MaxJoin /\ h["qbit"] <= h["btc"] + Drift
    BY Legs DEF AddressInv
  <2>2. MaxJoin \in Nat /\ Drift \in Nat
    BY SystemAssumption, ChainAssumption
  <2>3. h["qbit"] <= h["btc"] + Skew
    BY <1>4, <2>1, <2>2, Legs DEF Skew
  <2>4. Skew \in Int
    BY <2>2 DEF Skew
  <2> QED BY <1>4, <1>5, <2>3, <2>4, Legs DEF LocksApart
<1> HIDE DEF k, n
<1>7. disk' = n /\ s' = n
  <2>1. disk.state # "READY"
    BY <1>1 DEF AddressInv, Addressed, Locked, Unlocked
  <2>2. sigOf(n) # sigOf(disk)
    BY <1>2, <2>1 DEF sigOf
  <2> QED BY <1>3, <2>2 DEF touch
<1>8. deriving' = {}
  BY <1>3 DEF AddressInv
<1>9. Locked(n) /\ ~Unlocked(n)
  BY <1>2, <1>5, Legs DEF Locked, Unlocked
<1>10. Addressed(n)
  BY <1>1, <1>2, <1>9 DEF Addressed
<1>11. Addressed(s)' /\ Addressed(disk)' /\ Locked(s)'
  BY <1>7, <1>9, <1>10 DEF Addressed, Locked, Unlocked
<1>12. \A x \in Role : shown'[x] = 0
  BY <1>1, <1>3, Legs DEF AddressInv, Unlocked, systemVars
<1>13. /\ \A l \in Leg : height'[l] <= height'[Other(l)] + Drift
       /\ \A l \in Leg : dep'[l].st = "none" /\ dep'[l].id = 0
  BY <1>1, <1>3 DEF AddressInv, chainVars
<1>14. LocksApart(s'.lock)
  BY <1>2, <1>6, <1>7
<1> QED BY <1>7, <1>8, <1>11, <1>12, <1>13, <1>14 DEF AddressInv

\* A restart reloads a record with the same timelocks, and no derivation waits.
LEMMA BootAddress ==
  ASSUME IndType, AddressInv, Boot, left'["resubmit"] = 0
  PROVE  AddressInv'
<1>1. s' = disk /\ disk' = disk /\ deriving' = {} /\ UNCHANGED <<chainVars, systemVars>>
  BY DEF Boot, Restart, AddressInv
<1>2. s'.lock = s.lock
  BY <1>1 DEF AddressInv
<1>3. Addressed(s)' /\ Addressed(disk)' /\ (Locked(s)' = Locked(s))
  BY <1>1, <1>2 DEF AddressInv, Addressed, Locked, Unlocked
<1> QED BY <1>1, <1>2, <1>3 DEF AddressInv, chainVars, systemVars

\* The steps on the record that find, arm, send or cancel.
LEMMA RecordAddress ==
  ASSUME IndType, AddressInv, left'["resubmit"] = 0,
         \/ \E r \in Role : Arm(r)
         \/ \E r \in Role, k \in Kind, lost \in BOOLEAN : ClientSend(r, k, lost)
         \/ Cancel
         \/ \E named \in SUBSET Leg : Poll(named) /\ UNCHANGED <<shown, armed>>
         \/ WatchPollFails
         \/ \E lost \in BOOLEAN : WatchDrive(lost)
  PROVE  AddressInv'
<1>1. CASE \E r \in Role : Arm(r)
  <2>1. PICK r \in Role : Arm(r)
    BY <1>1
  <2> DEFINE n == [s EXCEPT !.finish[r] = Wanted(r)]
  <2>2. n.lock = s.lock /\ n.joined = s.joined /\ n.state = s.state /\ n.funding = s.funding
    BY Facts DEF Swap
  <2>3. touch(n) /\ UNCHANGED <<deriving, height, dep, shown, up>>
    BY <2>1 DEF Arm, SubmitFinish, chainVars
  <2> HIDE DEF n
  <2> QED BY <2>2, <2>3, TouchOK, NothingYet, AddressRecord
<1>2. CASE \E r \in Role, k \in Kind, lost \in BOOLEAN : ClientSend(r, k, lost)
  <2>1. PICK r \in Role, k \in Kind, lost \in BOOLEAN : ClientSend(r, k, lost)
    BY <1>2
  <2> DEFINE l == TheLeg(r, k)
  <2>2. l \in Leg
    BY Legs
  <2>3. PICK b \in BOOLEAN : touch(applyEffects(s, l, k, b)) \/ untouched(applyEffects(s, l, k, b))
    BY <2>1 DEF ClientSend, Broadcast
  <2>4. /\ UNCHANGED <<deriving, height, dep, shown, up>>
        /\ IsUnspent(spend, l, Outpoint(r, k))
    BY <2>1 DEF ClientSend, Broadcast, Accepts
  <2>5. ~Unlocked(s)
    BY <2>2, <2>4, NothingYet
  <2> DEFINE n == applyEffects(s, l, k, b)
  <2>6. n.lock = s.lock /\ n.joined = s.joined
    BY <2>2, Facts, ApplyEffectsFields DEF SameTerms
  <2> HIDE DEF n, l
  <2>7. s' = n /\ disk' \in {disk, n}
    BY <2>3, TouchOK DEF n
  <2> QED BY <2>4, <2>5, <2>6, <2>7, AddressRecord
<1>3. CASE Cancel
  <2> DEFINE n == [s EXCEPT !.state = "CANCELED"]
  <2>2. n.lock = s.lock /\ n.joined = s.joined /\ n.state = "CANCELED" /\ n.funding = s.funding
    BY Facts DEF Swap
  <2>3. touch(n) /\ UNCHANGED <<deriving, height, dep, shown, up>>
    BY <1>3 DEF Cancel, CancelSwap, chainVars, systemVars
  <2> HIDE DEF n
  <2> QED BY <2>2, <2>3, TouchOK, NothingYet, AddressRecord
<1>4. CASE \E named \in SUBSET Leg : Poll(named) /\ UNCHANGED <<shown, armed>>
  <2>1. PICK named \in SUBSET Leg : Poll(named) /\ UNCHANGED <<shown, armed>>
    BY <1>4
  <2>2. UNCHANGED <<deriving, height, dep, shown, up>>
    BY <2>1 DEF Poll, chainVars
  <2>3. CASE ~Polls(s)
    <3>1. s' = s /\ disk' = disk
      BY <2>1, <2>3 DEF Poll
    <3> QED BY <2>2, <3>1, NothingYet, AddressRecord
  <2>4. CASE Polls(s)
    <3> DEFINE n == poll(s, named)
    <3>1. touch(n)
      BY <2>1, <2>4 DEF Poll
    <3>2. /\ n.lock = s.lock /\ n.joined = s.joined
          /\ \A l \in Leg : Polled(n, s, l)
          /\ n.state = IF Settled(n) THEN "COMPLETE"
                       ELSE IF s.state \in {"CLAIMED", "CANCELED"} THEN s.state
                       ELSE FundedState(n)
      BY Facts, PollFields DEF SameTerms
    <3> HIDE DEF n
    <3>3. ASSUME Unlocked(s)
          PROVE  n.state \in {"CREATED", "CANCELED"} /\ \A l \in Leg : Unfunded(n.funding[l])
      <4>1. \A l \in Leg : LooksUp(s, l) /\ ~Found(l, s.lock[l]) /\ ~s.funding[l].spent
        BY <3>3, NothingYet DEF LooksUp, Unfunded
      <4>2. \A l \in Leg : Unfunded(n.funding[l])
        BY <3>2, <4>1 DEF Polled, Unfunded, Gone
      <4>3. s.state = "CANCELED"
        BY <2>4, <3>3, NothingYet DEF Polls
      <4>4. ~Settled(n)
        BY <4>2, Legs DEF Settled, Unfunded
      <4> QED BY <3>2, <4>2, <4>3, <4>4
    <3> QED BY <2>2, <3>1, <3>2, <3>3, TouchOK, AddressRecord
  <2> QED BY <2>3, <2>4
<1>5. CASE WatchPollFails
  <2>1. PICK n \in CutShort(s) : untouched(n)
    BY <1>5 DEF WatchPollFails, PollFails
  <2>2. UNCHANGED <<deriving, height, dep, shown, up>>
    BY <1>5 DEF WatchPollFails, PollFails, chainVars
  <2>3. /\ n.lock = s.lock /\ n.joined = s.joined /\ n.state = s.state
        /\ \A l \in Leg : (~Found(l, s.lock[l]) /\ Unfunded(s.funding[l])) => Unfunded(n.funding[l])
    BY Facts, CutShortFields DEF SameTerms, SameCourse, Unfunded
  <2> QED BY <2>1, <2>2, <2>3, TouchOK, NothingYet, AddressRecord
<1>6. CASE \E lost \in BOOLEAN : WatchDrive(lost)
  <2>1. PICK lost \in BOOLEAN : WatchDrive(lost)
    BY <1>6
  <2> DEFINE o == [s |-> s, spend |-> spend, thrown |-> FALSE]
             x == IF Drives(s) THEN drive(o, lost) ELSE o
  <2>2. Moved(x, s, spend)
    BY Facts, MovedStart, DriveMoves
  <2>3. /\ touch(x.s) \/ untouched(x.s) \/ UNCHANGED <<s, disk>>
        /\ UNCHANGED <<deriving, height, dep, shown, up>>
    BY <2>1 DEF WatchDrive, DriveWatchtower
  <2> HIDE DEF x
  <2>4. ASSUME Unlocked(s)
        PROVE  x.s = s
    BY <2>2, <2>4, NothingYet DEF Moved, SpendMoves
  <2> QED BY <2>2, <2>3, <2>4, TouchOK, NothingYet, AddressRecord DEF Moved
<1> QED BY <1>1, <1>2, <1>3, <1>4, <1>5, <1>6

\* The steps that leave both records alone.
LEMMA ChainAddress ==
  ASSUME IndType, AddressInv, left'["resubmit"] = 0,
         \/ \E h \in deriving : DeriveError(h)
         \/ \E r \in Role : ShowHtlc(r)
         \/ \E r \in Role, ok \in BOOLEAN : MakeDeposit(r, ok)
         \/ \E r \in Role, k \in Kind : DirectSend(r, k)
         \/ \E l \in Leg : Mine(l) \/ Evict(l) \/ Drop(l) \/ Unmine(l)
         \/ Stop \/ UNCHANGED vars
  PROVE  AddressInv'
<1> DEFINE Same == \A l \in Leg : /\ dep'[l].id = dep[l].id
                                  /\ dep'[l].lock = dep[l].lock
                                  /\ dep'[l].st # "none" => dep[l].st # "none"
<1>1. dep \in [Leg -> Deposit] /\ height \in [Leg -> 1..MaxHeight] /\ shown \in [Role -> Nat]
  BY Facts DEF ChainTypeOK
<1>2. \A l \in Leg : height[l] <= height[Other(l)] + Drift
  BY DEF AddressInv
<1>3. CASE \E h \in deriving : DeriveError(h)
  BY <1>2, <1>3, AddressChain DEF DeriveError, DeriveFails, chainVars
<1>4. CASE \E r \in Role : ShowHtlc(r)
  <2>1. PICK r \in Role : ShowHtlc(r)
    BY <1>4
  <2>2. shown' = [shown EXCEPT ![r] = s.lock[Funds(r)]]
        /\ UNCHANGED <<height, dep, s, disk, deriving, up>>
    BY <2>1 DEF ShowHtlc, chainVars, engineVars
  <2>3. \A x \in Role : shown'[x] \in {0, shown[x], s.lock[Funds(x)]}
    BY <1>1, <2>2
  <2> QED BY <1>2, <2>2, <2>3, AddressChain
<1>5. CASE \E r \in Role, ok \in BOOLEAN : MakeDeposit(r, ok)
  <2>1. PICK r \in Role, ok \in BOOLEAN : MakeDeposit(r, ok)
    BY <1>5
  <2> DEFINE l == Funds(r)
  <2>2. /\ l \in Leg /\ shown[r] # 0
        /\ dep' = [dep EXCEPT ![l] = [id |-> dep[l].id + 1, st |-> "mempool", ok |-> ok,
                                      at |-> 0, lock |-> shown[r]]]
        /\ UNCHANGED <<height, s, disk, deriving, shown, up>>
    BY <2>1, Legs DEF MakeDeposit, engineVars
  <2>3. shown[r] = s.lock[l] /\ dep[l].id \in Nat
    BY <1>1, <2>2 DEF AddressInv, Deposit
  <2> HIDE DEF l
  <2>4. dep'[l].id # 0 /\ dep'[l].lock = s.lock[l]
    BY <1>1, <2>2, <2>3
  <2>5. \A m \in Leg : m # l => dep'[m] = dep[m]
    BY <1>1, <2>2
  <2>6. Locked(s)
    BY <2>2, <2>3 DEF AddressInv, Addressed, Unlocked
  <2> QED BY <1>2, <2>2, <2>4, <2>5, <2>6, AddressChain
<1>6. CASE \E r \in Role, k \in Kind : DirectSend(r, k)
  BY <1>2, <1>6, AddressChain DEF DirectSend, engineVars
<1>7. ASSUME NEW l \in Leg, Mine(l) \/ Evict(l) \/ Drop(l) \/ Unmine(l)
      PROVE  AddressInv'
  <2>1. UNCHANGED <<s, disk, deriving, shown, up>>
    BY <1>7 DEF Mine, Evict, Drop, Unmine, engineVars
  <2>2. Same
    <3>1. CASE dep' = dep
      BY <3>1
    <3>2. CASE dep[l].st # "none" /\ \E u : /\ u.id = dep[l].id /\ u.lock = dep[l].lock
                                          /\ dep' = [dep EXCEPT ![l] = u]
      BY <1>1, <3>2
    <3>3. \A st, at : LET u == [dep[l] EXCEPT !.st = st, !.at = at]
                      IN u.id = dep[l].id /\ u.lock = dep[l].lock
      BY <1>1 DEF Deposit
    <3>4. \A st : LET u == [dep[l] EXCEPT !.st = st]
                  IN u.id = dep[l].id /\ u.lock = dep[l].lock
      BY <1>1 DEF Deposit
    <3>5. CASE Mine(l)
      <4>1. \/ dep' = dep
            \/ /\ dep[l].st = "mempool"
               /\ dep' = [dep EXCEPT ![l] = [@ EXCEPT !.st = "confirmed", !.at = height[l] + 1]]
        BY <3>5 DEF Mine, MineBlock
      <4> DEFINE u == [dep[l] EXCEPT !.st = "confirmed", !.at = height[l] + 1]
      <4>2. u.id = dep[l].id /\ u.lock = dep[l].lock
        BY <3>3
      <4>3. dep' = dep \/ (dep[l].st # "none" /\ dep' = [dep EXCEPT ![l] = u])
        BY <4>1
      <4> HIDE DEF u, Same
      <4> QED BY <3>1, <3>2, <4>2, <4>3
    <3>6. CASE Evict(l)
      BY <3>1, <3>6 DEF Evict, EvictSpend
    <3>7. CASE Drop(l)
      BY <3>2, <3>4, <3>7 DEF Drop, DropDeposit
    <3>8. CASE Unmine(l)
      <4>1. /\ dep[l].st = "confirmed"
            /\ dep' = [dep EXCEPT ![l] = [@ EXCEPT !.st = "mempool", !.at = 0]]
        BY <3>8 DEF Unmine, Reorg
      <4> QED BY <3>2, <3>3, <4>1
    <3> QED BY <1>7, <3>5, <3>6, <3>7, <3>8
  <2>3. \A m \in Leg : height'[m] <= height'[Other(m)] + Drift
    <3>1. CASE Mine(l)
      <4>1. height' = [height EXCEPT ![l] = @ + 1] /\ height[l] + 1 <= height[Other(l)] + Drift
        BY <3>1 DEF Mine, MineBlock, InStep
      <4> QED BY <1>1, <1>2, <4>1, Legs, ChainAssumption
    <3>2. CASE ~Mine(l)
      BY <1>2, <1>7, <3>2 DEF Evict, EvictSpend, Drop, DropDeposit, Unmine, Reorg
    <3> QED BY <3>1, <3>2
  <2>4. \A r \in Role : shown'[r] \in {0, shown[r], s.lock[Funds(r)]}
    BY <2>1
  <2>5. \A m \in Leg : /\ dep'[m].id = dep[m].id /\ dep'[m].lock = dep[m].lock
                       /\ (dep'[m].st # "none" => dep[m].st # "none")
    BY <2>2
  <2> HIDE DEF Same
  <2> QED BY <2>1, <2>3, <2>4, <2>5, AddressChain
<1>8. CASE Stop
  BY <1>2, <1>8, AddressChain DEF Stop, Crash, chainVars
<1>9. CASE UNCHANGED vars
  BY <1>2, <1>9, AddressChain DEF vars, chainVars, engineVars, systemVars
<1> QED BY <1>3, <1>4, <1>5, <1>6, <1>7, <1>8, <1>9

\* Every step keeps the addresses.
LEMMA NextAddress ==
  ASSUME IndType, AddressInv, [Next]_vars
  PROVE  AddressInv'
<1>1. left'["resubmit"] = 0
  BY SpentForGood DEF AddressInv, Event
<1>2. CASE \E r \in Role : Join(r)
  BY <1>1, <1>2, JoinAddress
<1>3. CASE \E h \in deriving : Derive(h)
  BY <1>1, <1>3, DeriveAddress
<1>4. CASE Boot
  BY <1>1, <1>4, BootAddress
<1>5. CASE \/ \E r \in Role : Arm(r)
           \/ \E r \in Role, k \in Kind, lost \in BOOLEAN : ClientSend(r, k, lost)
           \/ Cancel \/ WatchPoll \/ WatchPollMisses \/ WatchPollFails
           \/ \E lost \in BOOLEAN : WatchDrive(lost)
  <2>1. WatchPoll \/ WatchPollMisses => \E named \in SUBSET Leg : Poll(named) /\ UNCHANGED <<shown, armed>>
    BY DEF WatchPoll, WatchPollMisses
  <2> QED BY <1>1, <1>5, <2>1, RecordAddress
<1>6. CASE \/ \E h \in deriving : DeriveError(h)
           \/ \E r \in Role : ShowHtlc(r)
           \/ \E r \in Role, ok \in BOOLEAN : MakeDeposit(r, ok)
           \/ \E r \in Role, k \in Kind : DirectSend(r, k)
           \/ \E l \in Leg : Mine(l) \/ Evict(l) \/ Drop(l) \/ Unmine(l)
           \/ Stop \/ UNCHANGED vars
  BY <1>1, <1>6, ChainAddress
<1> QED BY <1>2, <1>3, <1>4, <1>5, <1>6 DEF Next

LEMMA InitAddress ==
  ASSUME Init, \A b \in Budgets : b["resubmit"] = 0
  PROVE  AddressInv
<1>1. s = Created /\ disk = Created /\ deriving = {}
  BY DEF Init, EngineInit
<1>2. Unlocked(Created) /\ ~Locked(Created)
  BY Legs DEF Unlocked, Locked, Created
<1>3. Addressed(Created)
  BY <1>2 DEF Addressed, Created, Unfunded, NoFunding
<1>4. \A l \in Leg : height[l] <= height[Other(l)] + Drift
  BY Legs, ChainAssumption DEF Init, ChainInit
<1>5. \A l \in Leg : dep[l].st = "none" /\ dep[l].id = 0
  BY DEF Init, ChainInit
<1> QED BY <1>1, <1>2, <1>3, <1>4, <1>5 DEF AddressInv, Init

\* DepositIsWatched, and that the store agrees: nobody submits twice, so no
\* derivation replaces the addresses.
THEOREM AddressesStay ==
  ASSUME \A b \in Budgets : b["resubmit"] = 0
  PROVE  Spec => []AddressInv
<1>1. Init => AddressInv
  BY InitAddress
<1>2. IndType /\ AddressInv /\ [Next]_vars => AddressInv'
  BY NextAddress
<1> QED BY <1>1, <1>2, WellTyped, PTL DEF Spec

\* A deposit made to an address the coordinator handed out is at the address it
\* watches, through crashes, replaced deposits and replaced blocks.
THEOREM DepositsAreWatched ==
  ASSUME \A b \in Budgets : b["resubmit"] = 0
  PROVE  Spec => []DepositIsWatched
<1>1. AddressInv => DepositIsWatched
  BY DEF AddressInv, DepositIsWatched
<1> QED BY <1>1, AddressesStay, PTL

-----------------------------------------------------------------------------
\* What the record knows of the preimage (RevealInv), and what the store does.

\* A step that leaves both records alone, and what it can do to the spends.
Quiet ==
  /\ UNCHANGED <<s, disk>> /\ (up' => up) /\ (revealed => revealed')
  /\ \A l \in Leg : spend'[l].kind = "claim" => spend[l].kind = "claim" \/ revealed'
  /\ \/ revealed' = revealed
     \/ \E r \in Role, k \in Kind : DirectSend(r, k)
     \/ \E l \in Leg : spend[l].kind = "claim"

\* A step of a handler that writes the record.
Handles ==
  /\ up /\ up' /\ UNCHANGED <<height, dep>>
  /\ \/ \E r \in Role : Join(r)
     \/ \E h \in deriving : Derive(h)
     \/ \E r \in Role : Arm(r)
     \/ \E r \in Role, k \in Kind, lost \in BOOLEAN : ClientSend(r, k, lost)
     \/ Cancel
     \/ \E named \in SUBSET Leg : Polls(s) /\ Poll(named) /\ lag' = 0
     \/ WatchPollFails
     \/ \E lost \in BOOLEAN : Drives(s) /\ WatchDrive(lost)

\* A step of the chains leaves the kind of a spend, or removes it.
LEMMA SpendKinds ==
  ASSUME IndType, NEW l \in Leg, Mine(l) \/ Evict(l) \/ Drop(l) \/ Unmine(l)
  PROVE  \A m \in Leg : spend'[m].kind \in {spend[m].kind, "none"}
<1>1. spend \in [Leg -> Spend]
  BY Facts
<1>2. CASE spend' = spend
  BY <1>2
<1>3. ASSUME NEW v, v.kind = "none" \/ v.kind = spend[l].kind, spend' = [spend EXCEPT ![l] = v]
      PROVE  \A m \in Leg : spend'[m].kind \in {spend[m].kind, "none"}
  BY <1>1, <1>3
<1>4. \A at, since : [spend[l] EXCEPT !.at = at, !.since = since].kind = spend[l].kind
  BY <1>1 DEF Spend
<1>5. CASE Mine(l)
  <2> DEFINE v == [spend[l] EXCEPT !.at = height[l] + 1, !.since = 0]
  <2>1. spend' = spend \/ spend' = [spend EXCEPT ![l] = v]
    BY <1>5 DEF Mine, MineBlock
  <2>2. v.kind = spend[l].kind
    BY <1>4
  <2> HIDE DEF v
  <2> QED BY <1>2, <1>3, <2>1, <2>2
<1>6. CASE Unmine(l)
  <2> DEFINE since == IF spend[l].kind = "none" THEN 0 ELSE height[l]
             v == [spend[l] EXCEPT !.at = 0, !.since = since]
  <2>1. spend' = [spend EXCEPT ![l] = v]
    BY <1>6 DEF Unmine, Reorg
  <2> HIDE DEF since
  <2>2. v.kind = spend[l].kind
    BY <1>4
  <2> HIDE DEF v
  <2> QED BY <1>3, <2>1, <2>2
<1>7. CASE Evict(l)
  <2>1. spend' = [spend EXCEPT ![l] = NoSpend] /\ NoSpend.kind = "none"
    BY <1>7 DEF Evict, EvictSpend, NoSpend
  <2> QED BY <1>3, <2>1
<1>8. CASE Drop(l)
  BY <1>2, <1>8 DEF Drop, DropDeposit
<1> QED BY <1>5, <1>6, <1>7, <1>8

\* Every step is one or the other, or a restart.
LEMMA Moves ==
  ASSUME IndType, [Next]_vars
  PROVE  Quiet \/ Boot \/ Handles
<1>1. spend \in [Leg -> Spend]
  BY Facts
<1>2. ASSUME NEW h \in deriving, DeriveError(h) PROVE Quiet
  BY <1>2 DEF DeriveError, DeriveFails, chainVars, Quiet
<1>3. ASSUME NEW r \in Role, ShowHtlc(r) PROVE Quiet
  BY <1>3 DEF ShowHtlc, chainVars, engineVars, Quiet
<1>4. ASSUME NEW r \in Role, NEW ok \in BOOLEAN, MakeDeposit(r, ok) PROVE Quiet
  BY <1>4 DEF MakeDeposit, engineVars, Quiet
<1>5. CASE Stop \/ UNCHANGED vars
  BY <1>5 DEF Stop, Crash, vars, chainVars, engineVars, Quiet
<1>6. ASSUME NEW l \in Leg, Mine(l) \/ Evict(l) \/ Drop(l) \/ Unmine(l)
      PROVE  Quiet
  <2>1. UNCHANGED <<s, disk, revealed, up>>
    BY <1>6 DEF Mine, MineBlock, Evict, EvictSpend, Drop, DropDeposit, Unmine, Reorg, engineVars
  <2>2. \A m \in Leg : spend'[m].kind = "claim" => spend[m].kind = "claim"
    BY <1>6, SpendKinds
  <2> QED BY <2>1, <2>2 DEF Quiet
<1>7. ASSUME NEW r \in Role, NEW k \in Kind, DirectSend(r, k)
      PROVE  Quiet
  <2>1. /\ spend' = Sent(spend, TheLeg(r, k), k) /\ revealed' = (revealed \/ k = "claim")
        /\ UNCHANGED <<s, disk, up>>
    BY <1>7 DEF DirectSend, engineVars
  <2>2. ASSUME NEW l \in Leg, spend'[l].kind = "claim"
        PROVE  spend[l].kind = "claim" \/ k = "claim"
    <3>1. spend'[l] = spend[l] \/ spend'[l].kind = k
      BY <1>1, <2>1 DEF Sent
    <3> QED BY <2>2, <3>1
  <2> QED BY <1>7, <2>1, <2>2 DEF Quiet
<1>8. ASSUME NEW r \in Role, Join(r) PROVE Handles
  BY <1>8 DEF Join, SubmitParty, chainVars, Handles
<1>9. ASSUME NEW h \in deriving, Derive(h) PROVE Handles
  BY <1>9 DEF Derive, DeriveHtlcs, chainVars, Handles
<1>10. ASSUME NEW r \in Role, Arm(r) PROVE Handles
  BY <1>10 DEF Arm, SubmitFinish, chainVars, Handles
<1>11. ASSUME NEW r \in Role, NEW k \in Kind, NEW lost \in BOOLEAN, ClientSend(r, k, lost)
       PROVE  Handles
  <2>1. up /\ up' /\ UNCHANGED <<height, dep>>
    BY <1>11 DEF ClientSend, Broadcast
  <2> QED BY <1>11, <2>1 DEF Handles
<1>12. CASE Cancel
  BY <1>12 DEF Cancel, CancelSwap, chainVars, Handles
<1>13. CASE WatchPollFails
  <2>1. up /\ up' /\ UNCHANGED <<height, dep>>
    BY <1>13 DEF WatchPollFails, PollFails, chainVars
  <2> QED BY <1>13, <2>1 DEF Handles
<1>14. CASE WatchPoll \/ WatchPollMisses
  <2>1. PICK named \in SUBSET Leg : Poll(named) /\ lag' = 0
    BY <1>14 DEF WatchPoll, WatchPollMisses
  <2>2. up /\ up' /\ UNCHANGED <<height, dep, spend, revealed>>
    BY <2>1 DEF Poll, chainVars
  <2>3. ~Polls(s) => UNCHANGED <<s, disk>>
    BY <2>1 DEF Poll
  <2> QED BY <2>1, <2>2, <2>3 DEF Quiet, Handles
<1>15. ASSUME NEW lost \in BOOLEAN, WatchDrive(lost) PROVE Quiet \/ Handles
  <2>1. up /\ up' /\ UNCHANGED <<height, dep>>
    BY <1>15 DEF WatchDrive, DriveWatchtower
  <2>2. CASE Drives(s)
    BY <1>15, <2>1, <2>2 DEF Handles
  <2>3. CASE ~Drives(s)
    <3>1. /\ UNCHANGED <<s, disk, spend>>
          /\ revealed' = (revealed \/ \E l \in Leg : spend[l].kind = "claim")
      BY <1>15, <2>3 DEF WatchDrive, DriveWatchtower
    <3>2. revealed => revealed'
      BY <3>1
    <3>3. revealed' = revealed \/ \E l \in Leg : spend[l].kind = "claim"
      BY <3>1, Facts
    <3>4. \A l \in Leg : spend'[l].kind = "claim" => spend[l].kind = "claim"
      BY <3>1
    <3> QED BY <2>1, <3>1, <3>2, <3>3, <3>4 DEF Quiet
  <2> QED BY <2>2, <2>3
<1> QED BY <1>2, <1>3, <1>4, <1>5, <1>6, <1>7, <1>8, <1>9, <1>10, <1>11, <1>12, <1>13, <1>14,
           <1>15 DEF Next

\* A handler's record that knows the preimage only if it is public.
LEMMA RevealRecord ==
  ASSUME IndType, RevealInv, NEW n, revealed => revealed',
         touch(n) \/ (untouched(n) /\ (revealed' \/ n.state = s.state)),
         \A l \in Leg : spend'[l].kind = "claim" => spend[l].kind = "claim" \/ revealed',
         n.preimage => s.preimage \/ revealed',
         \A x \in Role : <<x, "claim">> \in n.wt => <<x, "claim">> \in s.wt \/ revealed'
  PROVE  RevealInv'
<1>1. s' = n /\ disk' \in {disk, n}
  BY TouchOK
<1>2. ~revealed' => disk'.state = s'.state
  <2>1. CASE untouched(n) /\ (revealed' \/ n.state = s.state)
    BY <2>1 DEF untouched, RevealInv
  <2>2. CASE touch(n)
    BY <2>2 DEF touch, sigOf
  <2> QED BY <2>1, <2>2
<1>3. \A r \in {n, disk} : /\ r.preimage => revealed'
                           /\ \A x \in Role : <<x, "claim">> \in r.wt => revealed'
  BY DEF RevealInv
<1>4. \A l \in Leg : spend'[l].kind = "claim" => revealed'
  BY DEF RevealInv
<1>5. \A r \in {s', disk'} : /\ r.preimage => revealed'
                             /\ \A x \in Role : <<x, "claim">> \in r.wt => revealed'
  BY <1>1, <1>3
<1> QED BY <1>2, <1>4, <1>5 DEF RevealInv

\* What a client's spend leaves.
LEMMA SendFacts ==
  ASSUME IndType, NEW r \in Role, NEW k \in Kind, NEW lost \in BOOLEAN, ClientSend(r, k, lost)
  PROVE  LET l == TheLeg(r, k)  n == applyEffects(s, l, k, lost)
         IN /\ l \in Leg /\ n \in Swap
            /\ IF lost THEN untouched(n) ELSE touch(n)
            /\ lost => k = "claim" /\ left["lost"] > 0
            /\ SameTerms(n, s) /\ n.heights = s.heights /\ n.refund = s.refund
            /\ SameDeposits(n, s)
            /\ n.broadcasts = s.broadcasts \cup {<<l, k>>}
            /\ n.preimage = (s.preimage \/ (k = "claim" /\ ~lost))
            /\ n.state = IF k = "refund" THEN "REFUNDED" ELSE IF lost THEN s.state
                         ELSE IF l = "btc" THEN "COMPLETE" ELSE "CLAIMED"
            /\ revealed' = (revealed \/ k = "claim")
            /\ Acts(r, k) /\ Accepts(spend, l, Outpoint(r, k), k)
            /\ (k = "claim" /\ l = "qbit") => MayReveal(s)
            /\ spend' = Sent(spend, l, k)
            /\ spend'[l] = [kind |-> k, at |-> 0, since |-> height[l]]
            /\ \A m \in Leg : m # l => spend'[m] = spend[m]
            /\ UNCHANGED <<deriving, up, phase, height, dep, lag, shown, armed>>
<1> DEFINE l == TheLeg(r, k)  n == applyEffects(s, l, k, lost)
<1>1. l \in Leg
  BY Legs
<1>2. Broadcast(l, k, Outpoint(r, k), lost) /\ Acts(r, k) /\ (lost => left["lost"] > 0)
      /\ UNCHANGED <<lag, shown, armed>>
  BY DEF ClientSend, Use
<1> HIDE DEF l
<1>3. /\ IF lost THEN untouched(n) ELSE touch(n)
      /\ lost => k = "claim"
      /\ revealed' = (revealed \/ k = "claim")
      /\ Accepts(spend, l, Outpoint(r, k), k)
      /\ (k = "claim" /\ l = "qbit") => MayReveal(s)
      /\ spend' = Sent(spend, l, k)
      /\ UNCHANGED <<deriving, up, phase, height, dep>>
  BY <1>2 DEF Broadcast
<1>4. /\ n \in Swap /\ SameTerms(n, s) /\ n.heights = s.heights /\ n.refund = s.refund
      /\ SameDeposits(n, s)
      /\ n.broadcasts = s.broadcasts \cup {<<l, k>>}
      /\ n.preimage = (s.preimage \/ (k = "claim" /\ ~lost))
      /\ n.state = IF k = "refund" THEN "REFUNDED" ELSE IF lost THEN s.state
                   ELSE IF l = "btc" THEN "COMPLETE" ELSE "CLAIMED"
  BY <1>1, Facts, ApplyEffectsOK, ApplyEffectsFields
<1> HIDE DEF n
<1>5. /\ spend'[l] = [kind |-> k, at |-> 0, since |-> height[l]]
      /\ \A m \in Leg : m # l => spend'[m] = spend[m]
  BY <1>1, <1>3, Facts DEF Sent
<1> QED BY <1>1, <1>2, <1>3, <1>4, <1>5 DEF l, n

\* What the watchtower's step leaves.
LEMMA WatchFacts ==
  ASSUME IndType, NEW lost \in BOOLEAN, WatchDrive(lost), Drives(s)
  PROVE  \E x : /\ x = drive([s |-> s, spend |-> spend, thrown |-> FALSE], lost)
                /\ Moved(x, s, spend)
                /\ IF x.thrown THEN untouched(x.s) ELSE touch(x.s)
                /\ x.thrown => left["lost"] > 0
                /\ spend' = x.spend
                /\ revealed' = (revealed \/ \E l \in Leg : x.spend[l].kind = "claim")
                /\ UNCHANGED <<deriving, up, height, dep, lag, shown, armed>>
<1> DEFINE x == drive([s |-> s, spend |-> spend, thrown |-> FALSE], lost)
<1>1. Moved(x, s, spend) /\ (x.thrown => lost)
  BY Facts, DriveMoves
<1>2. /\ IF x.thrown THEN untouched(x.s) ELSE touch(x.s)
      /\ spend' = x.spend
      /\ revealed' = (revealed \/ \E l \in Leg : x.spend[l].kind = "claim")
      /\ UNCHANGED <<deriving, up, height, dep, lag, shown, armed>>
      /\ lost => left["lost"] > 0
  BY DEF WatchDrive, DriveWatchtower, Use
<1> HIDE DEF x
<1>3. x.thrown => left["lost"] > 0
  BY <1>1, <1>2
<1> QED BY <1>1, <1>2, <1>3 DEF x

\* What a whole poll leaves.
LEMMA PollFacts ==
  ASSUME IndType, NEW named \in SUBSET Leg, Poll(named), Polls(s)
  PROVE  /\ touch(poll(s, named)) /\ poll(s, named) \in Swap
         /\ phase = "poll" /\ phase' = "watchtower"
         /\ UNCHANGED <<deriving, up, chainVars>>
  BY Facts, PollOK DEF Poll

\* The other handlers change no spend, and none of what is known.
LEMMA PlainFacts ==
  ASSUME IndType,
         \/ \E r \in Role : Join(r)
         \/ \E h \in deriving : Derive(h)
         \/ \E r \in Role : Arm(r)
         \/ Cancel \/ WatchPollFails
  PROVE  \E n : /\ touch(n) \/ (untouched(n) /\ n.state = s.state)
                /\ n.preimage = s.preimage /\ n.wt = s.wt /\ n.broadcasts = s.broadcasts
                /\ UNCHANGED <<spend, revealed, height, dep>>
<1> DEFINE Plain(n) == /\ touch(n) \/ (untouched(n) /\ n.state = s.state)
                      /\ n.preimage = s.preimage /\ n.wt = s.wt /\ n.broadcasts = s.broadcasts
                      /\ UNCHANGED <<spend, revealed, height, dep>>
<1>1. ASSUME NEW r \in Role, Join(r) PROVE \E n : Plain(n)
  <2> DEFINE n == [s EXCEPT !.joined = @ \cup {r}]
  <2>1. n.state = s.state /\ n.preimage = s.preimage /\ n.wt = s.wt /\ n.broadcasts = s.broadcasts
    BY Facts DEF Swap
  <2>2. (touch(n) \/ untouched(n)) /\ UNCHANGED <<spend, revealed, height, dep>>
    BY <1>1 DEF Join, SubmitParty, chainVars
  <2> HIDE DEF n
  <2> QED BY <2>1, <2>2
<1>2. ASSUME NEW h \in deriving, Derive(h) PROVE \E n : Plain(n)
  <2> DEFINE n == [s EXCEPT !.lock = [l \in Leg |-> h[l] + Window[l]], !.state = "READY"]
  <2>1. n.preimage = s.preimage /\ n.wt = s.wt /\ n.broadcasts = s.broadcasts
    BY Facts DEF Swap
  <2>2. touch(n) /\ UNCHANGED <<spend, revealed, height, dep>>
    BY <1>2 DEF Derive, DeriveHtlcs, chainVars
  <2> HIDE DEF n
  <2> QED BY <2>1, <2>2
<1>3. ASSUME NEW r \in Role, Arm(r) PROVE \E n : Plain(n)
  <2> DEFINE n == [s EXCEPT !.finish[r] = Wanted(r)]
  <2>1. n.preimage = s.preimage /\ n.wt = s.wt /\ n.broadcasts = s.broadcasts
    BY Facts DEF Swap
  <2>2. touch(n) /\ UNCHANGED <<spend, revealed, height, dep>>
    BY <1>3 DEF Arm, SubmitFinish, chainVars
  <2> HIDE DEF n
  <2> QED BY <2>1, <2>2
<1>4. ASSUME Cancel PROVE \E n : Plain(n)
  <2> DEFINE n == [s EXCEPT !.state = "CANCELED"]
  <2>1. n.preimage = s.preimage /\ n.wt = s.wt /\ n.broadcasts = s.broadcasts
    BY Facts DEF Swap
  <2>2. touch(n) /\ UNCHANGED <<spend, revealed, height, dep>>
    BY <1>4 DEF Cancel, CancelSwap, chainVars
  <2> HIDE DEF n
  <2> QED BY <2>1, <2>2
<1>5. ASSUME WatchPollFails PROVE \E n : Plain(n)
  <2>1. PICK n \in CutShort(s) : untouched(n)
    BY <1>5 DEF WatchPollFails, PollFails
  <2>2. UNCHANGED <<spend, revealed, height, dep>>
    BY <1>5 DEF WatchPollFails, PollFails, chainVars
  <2>3. n.state = s.state /\ n.preimage = s.preimage /\ n.wt = s.wt /\ n.broadcasts = s.broadcasts
    BY Facts, CutShortFields DEF SameTerms, SameCourse
  <2> QED BY <2>1, <2>2, <2>3
<1> QED BY <1>1, <1>2, <1>3, <1>4, <1>5

LEMMA NextReveal ==
  ASSUME IndType, RevealInv, [Next]_vars
  PROVE  RevealInv'
<1>1. CASE Quiet
  <2>1. UNCHANGED <<s, disk>> /\ (revealed => revealed')
        /\ \A l \in Leg : spend'[l].kind = "claim" => spend[l].kind = "claim" \/ revealed'
    BY <1>1 DEF Quiet
  <2> QED BY <2>1 DEF RevealInv
<1>2. CASE Boot
  <2>1. s' = disk /\ disk' = disk /\ UNCHANGED <<spend, revealed>>
    BY <1>2 DEF Boot, Restart, chainVars
  <2> QED BY <2>1 DEF RevealInv
<1>3. CASE \/ \E r \in Role : Join(r)
           \/ \E h \in deriving : Derive(h)
           \/ \E r \in Role : Arm(r)
           \/ Cancel \/ WatchPollFails
  <2>1. PICK n : /\ touch(n) \/ (untouched(n) /\ n.state = s.state)
                 /\ n.preimage = s.preimage /\ n.wt = s.wt /\ n.broadcasts = s.broadcasts
                 /\ UNCHANGED <<spend, revealed, height, dep>>
    BY <1>3, PlainFacts
  <2> QED BY <2>1, RevealRecord
<1>4. ASSUME NEW r \in Role, NEW k \in Kind, NEW lost \in BOOLEAN, ClientSend(r, k, lost)
      PROVE  RevealInv'
  <2> DEFINE l == TheLeg(r, k)
             n == applyEffects(s, l, k, lost)
  <2>1. /\ IF lost THEN untouched(n) ELSE touch(n)
        /\ lost => k = "claim"
        /\ SameTerms(n, s)
        /\ n.preimage = (s.preimage \/ (k = "claim" /\ ~lost))
        /\ lost => n.state = s.state
        /\ revealed' = (revealed \/ k = "claim")
        /\ spend'[l] = [kind |-> k, at |-> 0, since |-> height[l]]
        /\ \A m \in Leg : m # l => spend'[m] = spend[m]
    BY <1>4, SendFacts DEF Kind
  <2> HIDE DEF n, l
  <2>2. \A m \in Leg : spend'[m].kind = "claim" => spend[m].kind = "claim" \/ revealed'
    <3> TAKE m \in Leg
    <3>1. CASE m = l
      <4>1. spend'[l].kind = k /\ spend'[m] = spend'[l]
        BY <2>1, <3>1
      <4> QED BY <2>1, <4>1
    <3>2. CASE m # l
      BY <2>1, <3>2
    <3> QED BY <3>1, <3>2
  <2>3. n.preimage => s.preimage \/ revealed'
    BY <2>1
  <2>4. n.wt = s.wt
    BY <2>1 DEF SameTerms
  <2>5. (revealed => revealed') /\ (touch(n) \/ (untouched(n) /\ revealed'))
    BY <2>1
  <2> QED BY <2>1, <2>2, <2>3, <2>4, <2>5, RevealRecord
<1>5. ASSUME NEW named \in SUBSET Leg, Polls(s), Poll(named)
      PROVE  RevealInv'
  <2> DEFINE n == poll(s, named)
  <2>1. touch(n) /\ UNCHANGED <<spend, revealed>>
    BY <1>5, PollFacts DEF chainVars
  <2>2. n.wt = s.wt /\ (n.preimage => s.preimage \/ \E l \in Leg : spend[l].kind = "claim")
    BY Facts, PollFields DEF SameTerms
  <2> HIDE DEF n
  <2>3. n.preimage => s.preimage \/ revealed'
    BY <2>1, <2>2 DEF RevealInv
  <2>4. ~untouched(n) \/ n.state = disk.state
    BY <2>1 DEF touch, untouched, sigOf
  <2>5. s' = n /\ disk' \in {disk, n} /\ disk'.state = s'.state
    BY <2>1 DEF touch, sigOf
  <2> QED BY <2>1, <2>2, <2>3, <2>5 DEF RevealInv
<1>6. ASSUME NEW lost \in BOOLEAN, Drives(s), WatchDrive(lost)
      PROVE  RevealInv'
  <2>1. PICK x : /\ Moved(x, s, spend)
                 /\ IF x.thrown THEN untouched(x.s) ELSE touch(x.s)
                 /\ spend' = x.spend
                 /\ revealed' = (revealed \/ \E l \in Leg : x.spend[l].kind = "claim")
    BY <1>6, WatchFacts
  <2>2. Fresh(x, spend) => revealed'
    BY <2>1 DEF Fresh
  <2>3. \A l \in Leg : spend'[l].kind = "claim" => revealed'
    BY <2>1
  <2>4. /\ x.s.preimage => revealed'
        /\ \A y \in Role : <<y, "claim">> \in x.s.wt => revealed'
    BY <2>1, <2>2 DEF Moved, RevealInv
  <2>5. x.thrown => revealed'
    BY <2>1, <2>2 DEF Moved
  <2>6. s' = x.s /\ disk' \in {disk, x.s} /\ (~x.thrown => disk'.state = s'.state)
    BY <2>1 DEF touch, untouched, sigOf
  <2>7. revealed => revealed'
    BY <2>1
  <2> QED BY <2>3, <2>4, <2>5, <2>6, <2>7 DEF RevealInv
<1> QED BY <1>1, <1>2, <1>3, <1>4, <1>5, <1>6, Moves DEF Handles

\* The coordinator knows the preimage only once it is public, and no claim is
\* in a mempool or a block before: whatever fails, restarts or is lost.
THEOREM RevealedIsPublic == Spec => []RevealInv
<1>1. Init => RevealInv
  BY DEF Init, EngineInit, ChainInit, RevealInv, Created, NoSpend
<1>2. IndType /\ RevealInv /\ [Next]_vars => RevealInv'
  BY NextReveal
<1> QED BY <1>1, <1>2, WellTyped, PTL DEF Spec

\* A touched record is in the store, as far as its signature tells.
LEMMA TouchStores ==
  ASSUME NEW n, touch(n)
  PROVE  /\ s' = n /\ disk'.state = n.state /\ disk'.preimage = n.preimage
         /\ disk'.wt = n.wt /\ disk'.broadcasts = n.broadcasts
  BY DEF touch, sigOf

\* A handler of which no step is lost ends in a touched record, or in one that
\* differs from the last in nothing the course of the swap depends on.
LEMMA HandlersStore ==
  ASSUME IndType, Handles, left["lost"] = 0
  PROVE  \E n : \/ touch(n)
                \/ /\ untouched(n) /\ n.state = s.state /\ n.preimage = s.preimage
                   /\ n.wt = s.wt /\ n.broadcasts = s.broadcasts
<1>1. CASE \/ \E r \in Role : Join(r)
           \/ \E h \in deriving : Derive(h)
           \/ \E r \in Role : Arm(r)
           \/ Cancel \/ WatchPollFails
  BY <1>1, PlainFacts
<1>2. ASSUME NEW r \in Role, NEW k \in Kind, NEW lost \in BOOLEAN, ClientSend(r, k, lost)
      PROVE  \E n : touch(n)
  <2> DEFINE n == applyEffects(s, TheLeg(r, k), k, lost)
  <2>1. (IF lost THEN untouched(n) ELSE touch(n)) /\ (lost => left["lost"] > 0)
    BY <1>2, SendFacts DEF Kind
  <2> HIDE DEF n
  <2> QED BY <2>1
<1>3. ASSUME NEW named \in SUBSET Leg, Polls(s), Poll(named)
      PROVE  touch(poll(s, named))
  BY <1>3, PollFacts
<1>4. ASSUME NEW lost \in BOOLEAN, Drives(s), WatchDrive(lost)
      PROVE  \E n : touch(n)
  BY <1>4, WatchFacts
<1> QED BY <1>1, <1>2, <1>3, <1>4 DEF Handles

LEMMA NextStore ==
  ASSUME IndType, StoreCurrent, [Next]_vars
  PROVE  StoreCurrent'
<1>1. left'["lost"] = 0
  BY SpentForGood DEF StoreCurrent, Event
<1>2. CASE Quiet
  BY <1>1, <1>2 DEF Quiet, StoreCurrent
<1>3. CASE Boot
  BY <1>1, <1>3 DEF Boot, Restart, StoreCurrent
<1>4. CASE Handles
  <2>1. PICK n : \/ touch(n)
                 \/ /\ untouched(n) /\ n.state = s.state /\ n.preimage = s.preimage
                    /\ n.wt = s.wt /\ n.broadcasts = s.broadcasts
    BY <1>4, HandlersStore DEF StoreCurrent
  <2>2. CASE touch(n)
    BY <1>1, <2>2, TouchStores DEF StoreCurrent
  <2>3. CASE untouched(n) /\ n.state = s.state /\ n.preimage = s.preimage
             /\ n.wt = s.wt /\ n.broadcasts = s.broadcasts
    BY <1>1, <2>3 DEF untouched, StoreCurrent
  <2> QED BY <2>1, <2>2, <2>3
<1> QED BY <1>2, <1>3, <1>4, Moves

\* Unless a witness read fails, the store keeps up with the swap.
THEOREM StoreKeepsUp ==
  ASSUME \A b \in Budgets : b["lost"] = 0
  PROVE  Spec => []StoreCurrent
<1>1. Init => StoreCurrent
  BY DEF Init, EngineInit, StoreCurrent
<1>2. IndType /\ StoreCurrent /\ [Next]_vars => StoreCurrent'
  BY NextStore
<1> QED BY <1>1, <1>2, WellTyped, PTL DEF Spec

\* A restart loses nothing of what the coordinator did or learnt once.
THEOREM RestartsKeep ==
  ASSUME \A b \in Budgets : b["lost"] = 0
  PROVE  Spec => RestartKeeps
<1>1. ASSUME IndType, StoreCurrent, [Next]_vars
      PROVE  [(~up /\ up') => /\ s'.state = s.state /\ s'.preimage = s.preimage
                              /\ s'.wt = s.wt /\ s'.broadcasts = s.broadcasts]_vars
  <2>1. CASE Quiet
    BY <2>1 DEF Quiet
  <2>2. CASE Boot
    BY <1>1, <2>2 DEF Boot, Restart, StoreCurrent
  <2>3. CASE Handles
    BY <2>3 DEF Handles
  <2> QED BY <1>1, <2>1, <2>2, <2>3, Moves
<1> QED BY <1>1, StoreKeepsUp, WellTyped, PTL DEF Spec, RestartKeeps

\* As long as every spend goes through the coordinator, it knows the preimage
\* once the preimage is public.
KnowsSecret == left["direct"] = 0 /\ (revealed => s.preimage)

LEMMA NextSecret ==
  ASSUME IndType, StoreCurrent, RevealInv, KnowsSecret, [Next]_vars
  PROVE  /\ KnowsSecret'
         /\ \A r \in Role : <<r, "refund">> \in s'.wt \ s.wt => ~revealed
<1>1. left'["direct"] = 0
  BY SpentForGood DEF KnowsSecret, Event
<1>2. CASE Quiet
  <2>1. revealed' => revealed
    <3>1. ~ \E r \in Role, k \in Kind : DirectSend(r, k)
      BY DEF DirectSend, Use, KnowsSecret
    <3>2. revealed' = revealed \/ revealed
      BY <1>2, <3>1 DEF Quiet, RevealInv
    <3> QED BY <3>2
  <2> QED BY <1>1, <1>2, <2>1 DEF Quiet, KnowsSecret
<1>3. CASE Boot
  BY <1>1, <1>3 DEF Boot, Restart, chainVars, StoreCurrent, KnowsSecret
<1>4. CASE \/ \E r \in Role : Join(r)
           \/ \E h \in deriving : Derive(h)
           \/ \E r \in Role : Arm(r)
           \/ Cancel \/ WatchPollFails
  <2>1. PICK n : /\ touch(n) \/ untouched(n)
                 /\ n.preimage = s.preimage /\ n.wt = s.wt
                 /\ revealed' = revealed
    BY <1>4, PlainFacts
  <2> QED BY <1>1, <2>1 DEF touch, untouched, KnowsSecret
<1>5. ASSUME NEW r \in Role, NEW k \in Kind, NEW lost \in BOOLEAN, ClientSend(r, k, lost)
      PROVE  KnowsSecret' /\ s'.wt = s.wt
  <2> DEFINE n == applyEffects(s, TheLeg(r, k), k, lost)
  <2>1. /\ IF lost THEN untouched(n) ELSE touch(n)
        /\ lost => left["lost"] > 0
        /\ SameTerms(n, s)
        /\ n.preimage = (s.preimage \/ (k = "claim" /\ ~lost))
        /\ revealed' = (revealed \/ k = "claim")
    BY <1>5, SendFacts DEF Kind
  <2> HIDE DEF n
  <2>2. ~lost /\ n.wt = s.wt
    BY <2>1 DEF StoreCurrent, SameTerms
  <2> QED BY <1>1, <2>1, <2>2 DEF touch, KnowsSecret
<1>6. ASSUME NEW named \in SUBSET Leg, Polls(s), Poll(named)
      PROVE  KnowsSecret' /\ s'.wt = s.wt
  <2> DEFINE n == poll(s, named)
  <2>1. /\ touch(n) /\ n.wt = s.wt /\ (s.preimage => n.preimage)
        /\ revealed' = revealed
    BY <1>6, Facts, PollFacts, PollFields DEF chainVars, SameTerms
  <2> HIDE DEF n
  <2> QED BY <1>1, <2>1 DEF touch, KnowsSecret
<1>7. ASSUME NEW lost \in BOOLEAN, Drives(s), WatchDrive(lost)
      PROVE  /\ KnowsSecret'
             /\ \A r \in Role : <<r, "refund">> \in s'.wt \ s.wt => ~revealed
  <2>1. PICK x : /\ Moved(x, s, spend) /\ ~x.thrown /\ touch(x.s)
                 /\ revealed' = (revealed \/ \E l \in Leg : x.spend[l].kind = "claim")
    BY <1>7, WatchFacts DEF StoreCurrent
  <2>2. s' = x.s
    BY <2>1 DEF touch
  <2>3. ASSUME NEW l \in Leg, x.spend[l].kind = "claim" PROVE revealed \/ x.s.preimage
    <3>1. CASE x.spend[l] = spend[l]
      BY <2>3, <3>1 DEF RevealInv
    <3>2. CASE spend[l].kind = "none"
      BY <2>1, <2>3, <3>2 DEF Moved, Fresh
    <3> QED BY <2>1, <3>1, <3>2 DEF Moved, SpendMoves
  <2>4. revealed' => x.s.preimage
    BY <2>1, <2>3 DEF Moved, KnowsSecret
  <2>5. \A r \in Role : <<r, "refund">> \in x.s.wt \ s.wt => ~s.preimage
    BY <2>1 DEF Moved
  <2> QED BY <1>1, <2>2, <2>4, <2>5 DEF KnowsSecret
<1> QED BY <1>2, <1>3, <1>4, <1>5, <1>6, <1>7, Moves DEF Handles

\* The watchtower sends no refund once the preimage has been public, unless a
\* party went past the coordinator or a witness read failed.
THEOREM RefundsStop ==
  ASSUME \A b \in Budgets : b["lost"] = 0 /\ b["direct"] = 0
  PROVE  Spec => NoRefundAfterReveal
<1>1. Init => KnowsSecret
  BY DEF Init, ChainInit, KnowsSecret
<1>2. IndType /\ StoreCurrent /\ RevealInv /\ KnowsSecret /\ [Next]_vars => KnowsSecret'
  BY NextSecret
<1>3. IndType /\ StoreCurrent /\ RevealInv /\ KnowsSecret /\ [Next]_vars
        => [\A r \in Role : <<r, "refund">> \in s'.wt \ s.wt => ~revealed]_vars
  BY NextSecret
<1>4. Spec => []StoreCurrent
  BY StoreKeepsUp
<1> QED
  BY <1>1, <1>2, <1>3, <1>4, RevealedIsPublic, WellTyped, PTL DEF Spec, NoRefundAfterReveal

-----------------------------------------------------------------------------
\* The time left at the reveal (TimeInv).

Recorded(r) == \A l \in Leg : r.funding[l].id # 0 => dep[l].id # 0

\* TimeInv, part by part.
SpendsInTime ==
  \A l \in Leg : /\ spend[l].kind # "none" => dep[l].id # 0
                 /\ spend[l].kind = "refund" => dep[l].lock <= height[l]

InTimeToClaim == (~revealed /\ s.state = "CLAIMABLE") => Bound(lag) /\ dep["qbit"].id # 0

LEMMA TimeParts ==
  TimeInv <=> SpendsInTime /\ Recorded(s) /\ Recorded(disk) /\ InTimeToClaim
  BY DEF TimeInv, SpendsInTime, Recorded, InTimeToClaim

\* A handler that is neither a poll nor a spend.
LEMMA TimeRecord ==
  ASSUME IndType, TimeInv, NEW n, touch(n) \/ untouched(n), UNCHANGED <<height, dep>>,
         SpendsInTime', Recorded(n), revealed => revealed',
         (~revealed' /\ n.state = "CLAIMABLE")
           => \/ s.state = "CLAIMABLE" /\ n.lock["qbit"] = s.lock["qbit"] /\ lag' = lag
              \/ /\ height["qbit"] + Target["qbit"] + RevealBuffer <= n.lock["qbit"] + lag'
                 /\ dep["qbit"].id # 0
  PROVE  TimeInv'
<1>1. s' = n /\ disk' \in {disk, n}
  BY TouchOK
<1>2. Recorded(s)' /\ Recorded(disk)'
  <2>1. Recorded(disk)
    BY TimeParts
  <2> QED BY <1>1, <2>1 DEF Recorded
<1>3. InTimeToClaim'
  <2> SUFFICES ASSUME ~revealed', s'.state = "CLAIMABLE"
               PROVE  Bound(lag)' /\ dep'["qbit"].id # 0
    BY DEF InTimeToClaim
  <2>1. CASE s.state = "CLAIMABLE" /\ n.lock["qbit"] = s.lock["qbit"] /\ lag' = lag
    BY <1>1, <2>1, TimeParts DEF InTimeToClaim, Bound
  <2>2. CASE height["qbit"] + Target["qbit"] + RevealBuffer <= n.lock["qbit"] + lag'
             /\ dep["qbit"].id # 0
    BY <1>1, <2>2 DEF Bound
  <2> QED BY <1>1, <2>1, <2>2
<1> QED BY <1>2, <1>3, TimeParts, PTL

\* A step that leaves both records and the deposits' terms alone.
LEMMA TimeChain ==
  ASSUME IndType, TimeInv, UNCHANGED <<s, disk>>, revealed => revealed',
         SpendsInTime', \A l \in Leg : dep[l].id # 0 => dep'[l].id # 0,
         (~revealed' /\ s.state = "CLAIMABLE" /\ Bound(lag)) => Bound(lag)'
  PROVE  TimeInv'
<1>1. Recorded(s)' /\ Recorded(disk)'
  BY TimeParts DEF Recorded
<1>2. InTimeToClaim'
  BY TimeParts, Legs DEF InTimeToClaim
<1> QED BY <1>1, <1>2, TimeParts, PTL

\* Spends of the coordinator are of deposits, and refunds wait.
LEMMA SpendsStay ==
  ASSUME IndType, AddressInv, SpendsInTime,
         UNCHANGED <<height, dep>>,
         \A l \in Leg :
           \/ spend'[l] = spend[l]
           \/ /\ dep[l].st # "none"
              /\ spend'[l].kind = "refund" => height[l] >= dep[l].lock
  PROVE  SpendsInTime'
<1>1. ASSUME NEW l \in Leg
      PROVE  /\ spend'[l].kind # "none" => dep[l].id # 0
             /\ spend'[l].kind = "refund" => dep[l].lock <= height[l]
  <2>1. height[l] \in Nat /\ dep[l].lock \in Nat
    BY Facts DEF ChainTypeOK, Deposit
  <2>2. CASE spend'[l] = spend[l]
    BY <2>2 DEF SpendsInTime
  <2>3. CASE /\ dep[l].st # "none"
             /\ spend'[l].kind = "refund" => height[l] >= dep[l].lock
    BY <2>1, <2>3 DEF AddressInv
  <2> QED BY <2>2, <2>3
<1> QED BY <1>1 DEF SpendsInTime

\* A step in which the chains are not what changes.
LEMMA TimeStill ==
  ASSUME IndType, TimeInv, UNCHANGED <<s, disk, spend, height, dep, lag>>, revealed => revealed'
  PROVE  TimeInv'
<1>1. SpendsInTime'
  BY TimeParts DEF SpendsInTime
<1> QED BY <1>1, TimeChain DEF Bound

\* Blocks, evictions and replacements.
LEMMA TimeOfChains ==
  ASSUME IndType, TimeInv, NEW l \in Leg, Mine(l) \/ Evict(l) \/ Drop(l) \/ Unmine(l)
  PROVE  TimeInv'
<1>1. dep \in [Leg -> Deposit] /\ height \in [Leg -> 1..MaxHeight] /\ lag \in Nat
  BY Facts DEF ChainTypeOK
<1>2. \A m \in Leg : dep'[m].id = dep[m].id /\ dep'[m].lock = dep[m].lock
  <2>1. ASSUME NEW v, dep' = [dep EXCEPT ![l] = v], v.id = dep[l].id, v.lock = dep[l].lock
        PROVE  \A m \in Leg : dep'[m].id = dep[m].id /\ dep'[m].lock = dep[m].lock
    BY <1>1, <2>1
  <2>2. \A st, at : LET v == [dep[l] EXCEPT !.st = st, !.at = at]
                    IN v.id = dep[l].id /\ v.lock = dep[l].lock
    BY <1>1 DEF Deposit
  <2>3. \A st : LET v == [dep[l] EXCEPT !.st = st] IN v.id = dep[l].id /\ v.lock = dep[l].lock
    BY <1>1 DEF Deposit
  <2>4. CASE Mine(l)
    <3> DEFINE v == [dep[l] EXCEPT !.st = "confirmed", !.at = height[l] + 1]
    <3>1. dep' = dep \/ dep' = [dep EXCEPT ![l] = v]
      BY <2>4 DEF Mine, MineBlock
    <3>2. v.id = dep[l].id /\ v.lock = dep[l].lock
      BY <2>2
    <3> HIDE DEF v
    <3> QED BY <2>1, <3>1, <3>2
  <2>5. CASE Unmine(l)
    <3> DEFINE v == [dep[l] EXCEPT !.st = "mempool", !.at = 0]
    <3>1. dep' = [dep EXCEPT ![l] = v]
      BY <2>5 DEF Unmine, Reorg
    <3>2. v.id = dep[l].id /\ v.lock = dep[l].lock
      BY <2>2
    <3> HIDE DEF v
    <3> QED BY <2>1, <3>1, <3>2
  <2>6. CASE Drop(l)
    <3> DEFINE v == [dep[l] EXCEPT !.st = "none"]
    <3>1. dep' = [dep EXCEPT ![l] = v]
      BY <2>6 DEF Drop, DropDeposit
    <3>2. v.id = dep[l].id /\ v.lock = dep[l].lock
      BY <2>3
    <3> HIDE DEF v
    <3> QED BY <2>1, <3>1, <3>2
  <2>7. CASE Evict(l)
    BY <2>7 DEF Evict, EvictSpend
  <2> QED BY <2>4, <2>5, <2>6, <2>7
<1>3. /\ \A m \in Leg : height'[m] \in Nat /\ height[m] \in Nat /\ height[m] <= height'[m]
      /\ lag' \in Nat /\ height'["qbit"] + lag <= height["qbit"] + lag'
  <2>1. CASE Mine(l)
    BY <1>1, <2>1, Legs DEF Mine, MineBlock
  <2>2. CASE Evict(l) \/ Drop(l) \/ Unmine(l)
    BY <1>1, <2>2, Legs DEF Evict, EvictSpend, Drop, DropDeposit, Unmine, Reorg
  <2> QED BY <2>1, <2>2
<1>4. UNCHANGED <<s, disk, revealed>>
  BY DEF Mine, MineBlock, Evict, EvictSpend, Drop, DropDeposit, Unmine, Reorg, engineVars
<1>5. SpendsInTime'
  <2>1. ASSUME NEW m \in Leg
        PROVE  /\ spend'[m].kind # "none" => dep'[m].id # 0
               /\ spend'[m].kind = "refund" => dep'[m].lock <= height'[m]
    <3>1. spend'[m].kind \in {spend[m].kind, "none"} /\ dep[m].lock \in Nat
      BY <1>1, SpendKinds DEF Deposit
    <3>2. /\ spend[m].kind # "none" => dep[m].id # 0
          /\ spend[m].kind = "refund" => dep[m].lock <= height[m]
      BY TimeParts DEF SpendsInTime
    <3> QED BY <1>2, <1>3, <3>1, <3>2
  <2> QED BY <2>1 DEF SpendsInTime
<1>6. Bound(lag) => Bound(lag)'
  <2>1. s.lock["qbit"] \in Nat /\ Target["qbit"] \in Nat /\ RevealBuffer \in Nat
    BY Facts, FieldTypes, Legs, EngineAssumption
  <2> QED BY <1>1, <1>3, <1>4, <2>1, Legs DEF Bound
<1> QED BY <1>2, <1>4, <1>5, <1>6, TimeChain

\* A deposit, in place of another or the first.
LEMMA TimeOfDeposit ==
  ASSUME IndType, TimeInv, NEW r \in Role, NEW ok \in BOOLEAN, MakeDeposit(r, ok)
  PROVE  TimeInv'
<1> DEFINE l == Funds(r)
           v == [id |-> dep[l].id + 1, st |-> "mempool", ok |-> ok, at |-> 0, lock |-> shown[r]]
<1>1. /\ spend[l].kind = "none" /\ dep' = [dep EXCEPT ![l] = v]
      /\ UNCHANGED <<height, spend, revealed, s, disk, lag>>
  BY DEF MakeDeposit, engineVars
<1>2. l \in Leg /\ dep \in [Leg -> Deposit] /\ dep[l].id \in Nat
  BY Facts, Legs DEF ChainTypeOK, Deposit
<1>3. v.id = dep[l].id + 1
  OBVIOUS
<1> HIDE DEF v, l
<1>4. \A m \in Leg : (m = l => dep'[m].id = dep[m].id + 1) /\ (m # l => dep'[m] = dep[m])
  BY <1>1, <1>2, <1>3
<1>5. \A m \in Leg : dep[m].id # 0 => dep'[m].id # 0
  BY <1>2, <1>4
<1>6. SpendsInTime'
  BY <1>1, <1>4, TimeParts DEF SpendsInTime
<1> QED BY <1>1, <1>5, <1>6, TimeChain DEF Bound

\* Past the coordinator.
LEMMA TimeOfDirect ==
  ASSUME IndType, AddressInv, TimeInv, NEW r \in Role, NEW k \in Kind, DirectSend(r, k)
  PROVE  TimeInv'
<1> DEFINE l == TheLeg(r, k)
<1>1. l \in Leg /\ spend \in [Leg -> Spend]
  BY Legs, Facts
<1>2. /\ spend' = Sent(spend, l, k) /\ Accepts(spend, l, Outpoint(r, k), k)
      /\ revealed' = (revealed \/ k = "claim")
      /\ UNCHANGED <<height, dep, s, disk, lag>>
  BY DEF DirectSend, engineVars
<1> HIDE DEF l
<1>3. \A m \in Leg : \/ spend'[m] = spend[m]
                     \/ /\ dep[m].st # "none"
                        /\ spend'[m].kind = "refund" => height[m] >= dep[m].lock
  <2>1. spend'[l].kind = k /\ \A m \in Leg : m # l => spend'[m] = spend[m]
    BY <1>1, <1>2 DEF Sent
  <2>2. dep[l].st # "none" /\ (k = "refund" => height[l] >= dep[l].lock)
    BY <1>2 DEF Accepts, IsUnspent
  <2> TAKE m \in Leg
  <2>3. CASE m = l
    BY <2>1, <2>2, <2>3
  <2>4. CASE m # l
    BY <2>1, <2>4
  <2> QED BY <2>3, <2>4
<1>4. SpendsInTime'
  BY <1>2, <1>3, TimeParts, SpendsStay
<1> QED BY <1>2, <1>4, TimeChain DEF Bound

\* A restart.
LEMMA TimeOfBoot ==
  ASSUME IndType, AddressInv, RevealInv, TimeInv, Boot
  PROVE  TimeInv'
<1>1. s' = disk /\ UNCHANGED <<disk, height, dep, spend, revealed, lag>>
  BY DEF Boot, Restart, chainVars, systemVars
<1>2. SpendsInTime' /\ Recorded(s)' /\ Recorded(disk)'
  BY <1>1, TimeParts DEF SpendsInTime, Recorded
<1>3. InTimeToClaim'
  BY <1>1, TimeParts DEF InTimeToClaim, RevealInv, AddressInv, Bound
<1> QED BY <1>2, <1>3, TimeParts, PTL

\* The handlers that neither poll nor spend.
LEMMA TimeOfPlain ==
  ASSUME IndType, AddressInv, TimeInv,
         \/ \E r \in Role : Join(r)
         \/ \E h \in deriving : Derive(h)
         \/ \E r \in Role : Arm(r)
         \/ Cancel \/ WatchPollFails
  PROVE  TimeInv'
<1> DEFINE Still(n) == /\ touch(n) \/ untouched(n)
                       /\ UNCHANGED <<spend, revealed, height, dep, lag>>
                       /\ Recorded(n)
                       /\ n.state = "CLAIMABLE" => s.state = "CLAIMABLE" /\ n.lock = s.lock
<1>1. Recorded(s)
  BY TimeParts
<1>2. ASSUME NEW r \in Role, Join(r) PROVE \E n : Still(n)
  <2> DEFINE n == [s EXCEPT !.joined = @ \cup {r}]
  <2>1. n.state = s.state /\ n.lock = s.lock /\ n.funding = s.funding
    BY Facts DEF Swap
  <2>2. (touch(n) \/ untouched(n)) /\ UNCHANGED <<spend, revealed, height, dep, lag>>
    BY <1>2 DEF Join, SubmitParty, chainVars
  <2> HIDE DEF n
  <2> QED BY <1>1, <2>1, <2>2 DEF Recorded
<1>3. ASSUME NEW h \in deriving, Derive(h) PROVE \E n : Still(n)
  <2> DEFINE n == [s EXCEPT !.lock = [l \in Leg |-> h[l] + Window[l]], !.state = "READY"]
  <2>1. n.state = "READY" /\ n.funding = s.funding
    BY Facts DEF Swap
  <2>2. touch(n) /\ UNCHANGED <<spend, revealed, height, dep, lag>>
    BY <1>3 DEF Derive, DeriveHtlcs, chainVars, systemVars
  <2> HIDE DEF n
  <2> QED BY <1>1, <2>1, <2>2 DEF Recorded
<1>4. ASSUME NEW r \in Role, Arm(r) PROVE \E n : Still(n)
  <2> DEFINE n == [s EXCEPT !.finish[r] = Wanted(r)]
  <2>1. n.state = s.state /\ n.lock = s.lock /\ n.funding = s.funding
    BY Facts DEF Swap
  <2>2. touch(n) /\ UNCHANGED <<spend, revealed, height, dep, lag>>
    BY <1>4 DEF Arm, SubmitFinish, chainVars
  <2> HIDE DEF n
  <2> QED BY <1>1, <2>1, <2>2 DEF Recorded
<1>5. ASSUME Cancel PROVE \E n : Still(n)
  <2> DEFINE n == [s EXCEPT !.state = "CANCELED"]
  <2>1. n.state = "CANCELED" /\ n.funding = s.funding
    BY Facts DEF Swap
  <2>2. touch(n) /\ UNCHANGED <<spend, revealed, height, dep, lag>>
    BY <1>5 DEF Cancel, CancelSwap, chainVars, systemVars
  <2> HIDE DEF n
  <2> QED BY <1>1, <2>1, <2>2 DEF Recorded
<1>6. ASSUME WatchPollFails PROVE \E n : Still(n)
  <2>1. PICK n \in CutShort(s) : untouched(n)
    BY <1>6 DEF WatchPollFails, PollFails
  <2>2. UNCHANGED <<spend, revealed, height, dep, lag>>
    BY <1>6 DEF WatchPollFails, PollFails, chainVars
  <2>3. n.state = s.state /\ n.lock = s.lock
    BY Facts, CutShortFields DEF SameTerms, SameCourse
  <2>4. \A l \in Leg : \/ n.funding[l].id \in {0, s.funding[l].id}
                       \/ Found(l, s.lock[l]) /\ n.funding[l].id = dep[l].id
    BY Facts, CutShortFields
  <2>5. Recorded(n)
    BY <1>1, <2>4 DEF Recorded
  <2> QED BY <2>1, <2>2, <2>3, <2>5
<1>7. PICK n : Still(n)
  BY <1>2, <1>3, <1>4, <1>5, <1>6
<1>8. SpendsInTime'
  BY <1>7, TimeParts DEF SpendsInTime
<1> QED BY <1>7, <1>8, TimeRecord

\* A spend through the coordinator.
LEMMA TimeOfSend ==
  ASSUME IndType, AddressInv, TimeInv,
         NEW r \in Role, NEW k \in Kind, NEW lost \in BOOLEAN, ClientSend(r, k, lost)
  PROVE  TimeInv'
<1> DEFINE l == TheLeg(r, k)
           n == applyEffects(s, l, k, lost)
<1>1. /\ l \in Leg
      /\ IF lost THEN untouched(n) ELSE touch(n)
      /\ SameTerms(n, s) /\ SameDeposits(n, s)
      /\ n.state \in {s.state, "REFUNDED", "COMPLETE", "CLAIMED"}
      /\ revealed' = (revealed \/ k = "claim")
      /\ Accepts(spend, l, Outpoint(r, k), k)
      /\ spend'[l] = [kind |-> k, at |-> 0, since |-> height[l]]
      /\ \A m \in Leg : m # l => spend'[m] = spend[m]
      /\ UNCHANGED <<height, dep, lag>>
  BY SendFacts DEF Kind
<1> HIDE DEF n, l
<1>2. \A m \in Leg : \/ spend'[m] = spend[m]
                     \/ /\ dep[m].st # "none"
                        /\ spend'[m].kind = "refund" => height[m] >= dep[m].lock
  <2>1. spend'[l].kind = k
    BY <1>1
  <2>2. dep[l].st # "none" /\ (k = "refund" => height[l] >= dep[l].lock)
    BY <1>1 DEF Accepts, IsUnspent
  <2> TAKE m \in Leg
  <2>3. CASE m = l
    BY <2>1, <2>2, <2>3
  <2>4. CASE m # l
    BY <1>1, <2>4
  <2> QED BY <2>3, <2>4
<1>3. SpendsInTime'
  BY <1>1, <1>2, TimeParts, SpendsStay
<1>4. Recorded(n) /\ n.lock = s.lock
  BY <1>1, TimeParts DEF Recorded, SameDeposits, SameTerms
<1> QED BY <1>1, <1>3, <1>4, TimeRecord

\* What a poll records has been deposited.
LEMMA PollRecorded ==
  ASSUME IndType, AddressInv, Recorded(s), NEW named \in SUBSET Leg
  PROVE  Recorded(poll(s, named))
<1> DEFINE q == poll(s, named)
<1>1. \A l \in Leg : Polled(q, s, l)
  BY Facts, PollFields
<1> HIDE DEF q
<1>2. ASSUME NEW l \in Leg, q.funding[l].id # 0 PROVE dep[l].id # 0
  <2>1. \/ q.funding[l].id = s.funding[l].id
        \/ Found(l, s.lock[l]) /\ q.funding[l].id = dep[l].id
    BY <1>1, <1>2 DEF Polled
  <2> QED BY <1>2, <2>1 DEF Recorded
<1> QED BY <1>2 DEF Recorded, q

\* A poll that finds the swap claimable finds it in time.
LEMMA PollInTime ==
  ASSUME IndType, NEW named \in SUBSET Leg, s.state # "CLAIMABLE" \/ Polls(s),
         LET q == poll(s, named) IN q.state = "CLAIMABLE"
  PROVE  LET q == poll(s, named)
         IN /\ height["qbit"] + Target["qbit"] + RevealBuffer <= q.lock["qbit"]
            /\ \A l \in Leg : Buried(q, l) /\ q.funding[l].id # 0
            /\ ~q.funding["qbit"].spent
<1> DEFINE q == poll(s, named)
<1>1. /\ q.heights = height
      /\ q.state = IF Settled(q) THEN "COMPLETE"
                   ELSE IF s.state \in {"CLAIMED", "CANCELED"} THEN s.state
                   ELSE FundedState(q)
  BY Facts, PollFields
<1>2. q.state = "CLAIMABLE"
  OBVIOUS
<1> HIDE DEF q
<1>3. FundedState(q) = "CLAIMABLE"
  BY <1>1, <1>2
<1>4. (\A l \in Leg : Buried(q, l)) /\ InTime(q)
      /\ q.funding["btc"].id # 0 /\ q.funding["qbit"].id # 0 /\ ~q.funding["qbit"].spent
  BY <1>3 DEF FundedState
<1> QED BY <1>1, <1>4 DEF InTime, Leg, q

\* A poll.
LEMMA TimeOfPoll ==
  ASSUME IndType, AddressInv, TimeInv, WatchPoll \/ WatchPollMisses
  PROVE  TimeInv'
<1>1. PICK named \in SUBSET Leg : Poll(named) /\ lag' = 0
  BY DEF WatchPoll, WatchPollMisses
<1>2. SpendsInTime'
  BY <1>1, TimeParts DEF SpendsInTime, Poll, chainVars
<1>3. CASE Polls(s)
  <2> DEFINE q == poll(s, named)
  <2>1. touch(q) /\ UNCHANGED <<spend, revealed, height, dep>>
    BY <1>1, <1>3, PollFacts DEF chainVars
  <2>2. Recorded(q)
    BY TimeParts, PollRecorded
  <2>3. q.state = "CLAIMABLE"
          => /\ height["qbit"] + Target["qbit"] + RevealBuffer <= q.lock["qbit"]
             /\ q.funding["qbit"].id # 0
    BY <1>3, PollInTime, Legs
  <2>4. q.lock["qbit"] \in Nat
    BY Facts, PollOK, FieldTypes, Legs
  <2> HIDE DEF q
  <2>5. q.state = "CLAIMABLE"
          => /\ height["qbit"] + Target["qbit"] + RevealBuffer <= q.lock["qbit"] + lag'
             /\ dep["qbit"].id # 0
    BY <1>1, <2>2, <2>3, <2>4, Legs DEF Recorded
  <2> QED BY <1>2, <2>1, <2>2, <2>5, TimeRecord
<1>4. CASE ~Polls(s)
  <2>1. UNCHANGED <<s, disk, revealed, dep, height>> /\ s.state # "CLAIMABLE"
    BY <1>1, <1>4 DEF Poll, Polls, chainVars, TERMINAL
  <2> QED BY <1>2, <2>1, TimeChain
<1> QED BY <1>3, <1>4

\* The watchtower.
LEMMA TimeOfDrive ==
  ASSUME IndType, AddressInv, TimeInv, NEW lost \in BOOLEAN, WatchDrive(lost)
  PROVE  TimeInv'
<1>1. CASE Drives(s)
  <2>1. PICK x : /\ Moved(x, s, spend)
                 /\ touch(x.s) \/ untouched(x.s)
                 /\ spend' = x.spend
                 /\ revealed' = (revealed \/ \E l \in Leg : x.spend[l].kind = "claim")
                 /\ UNCHANGED <<height, dep, lag>>
    BY <1>1, WatchFacts
  <2>2. \A l \in Leg : \/ spend'[l] = spend[l]
                       \/ /\ dep[l].st # "none"
                          /\ spend'[l].kind = "refund" => height[l] >= dep[l].lock
    <3> TAKE l \in Leg
    <3>1. CASE x.spend[l] = spend[l]
      BY <2>1, <3>1
    <3>2. ASSUME NEW k \in Kind, dep[l].st # "none",
                 x.spend[l] = [kind |-> k, at |-> 0, since |-> height[l]],
                 k = "refund" => height[l] >= dep[l].lock
          PROVE  dep[l].st # "none" /\ (spend'[l].kind = "refund" => height[l] >= dep[l].lock)
      BY <2>1, <3>2
    <3> QED BY <2>1, <3>1, <3>2 DEF Moved, SpendMoves
  <2>3. SpendsInTime'
    BY <2>1, <2>2, TimeParts, SpendsStay
  <2>4. Recorded(x.s) /\ x.s.lock = s.lock /\ (x.s.state = "CLAIMABLE" => s.state = "CLAIMABLE")
    BY <2>1, TimeParts DEF Recorded, SameDeposits, Moved
  <2> QED BY <2>1, <2>3, <2>4, TimeRecord
<1>2. CASE ~Drives(s)
  <2>1. UNCHANGED <<s, disk, spend, height, dep, lag>> /\ (revealed => revealed')
    BY <1>2 DEF WatchDrive, DriveWatchtower
  <2> QED BY <2>1, TimeStill
<1> QED BY <1>1, <1>2

LEMMA NextTime ==
  ASSUME IndType, AddressInv, RevealInv, TimeInv, [Next]_vars
  PROVE  TimeInv'
<1>1. ASSUME NEW h \in deriving, DeriveError(h) PROVE TimeInv'
  BY <1>1, TimeStill DEF DeriveError, DeriveFails, chainVars
<1>2. ASSUME NEW r \in Role, ShowHtlc(r) PROVE TimeInv'
  BY <1>2, TimeStill DEF ShowHtlc, chainVars, engineVars
<1>3. CASE Stop \/ UNCHANGED vars
  BY <1>3, TimeStill DEF Stop, Crash, vars, chainVars, engineVars, systemVars
<1> QED
  BY <1>1, <1>2, <1>3, TimeOfPlain, TimeOfSend, TimeOfDirect, TimeOfDeposit, TimeOfChains,
     TimeOfPoll, TimeOfDrive, TimeOfBoot DEF Next

\* A swap that was found claimable, and whose preimage is still secret, leaves
\* the buyer's claim time to be buried.
THEOREM ClaimsHaveTime ==
  ASSUME \A b \in Budgets : b["resubmit"] = 0
  PROVE  Spec => []TimeInv
<1>1. Init => TimeInv
  BY DEF Init, ChainInit, EngineInit, TimeInv, Created, NoFunding, NoSpend
<1>2. IndType /\ AddressInv /\ RevealInv /\ TimeInv /\ [Next]_vars => TimeInv'
  BY NextTime
<1>3. Spec => []AddressInv
  BY AddressesStay
<1> QED BY <1>1, <1>2, <1>3, RevealedIsPublic, WellTyped, PTL DEF Spec

\* Through the coordinator, the preimage is revealed from a claimable swap only.
LEMMA RevealStep ==
  ASSUME IndType, RevealInv, [Next]_vars, ~revealed, revealed', up
  PROVE  s.state = "CLAIMABLE" /\ UNCHANGED <<height, dep>>
<1>1. CASE Quiet
  BY <1>1 DEF Quiet, DirectSend, RevealInv
<1>2. CASE Boot
  BY <1>2 DEF Boot, Restart
<1>3. CASE \/ \E r \in Role : Join(r)
           \/ \E h \in deriving : Derive(h)
           \/ \E r \in Role : Arm(r)
           \/ Cancel \/ WatchPollFails
  BY <1>3, PlainFacts
<1>4. ASSUME NEW r \in Role, NEW k \in Kind, NEW lost \in BOOLEAN, ClientSend(r, k, lost)
      PROVE  s.state = "CLAIMABLE"
  <2>1. k = "claim"
    BY <1>4 DEF ClientSend, Broadcast
  <2>2. s.state = "CLAIMABLE" \/ s.preimage
    BY <1>4, <2>1 DEF ClientSend, Acts, Role
  <2> QED BY <2>2 DEF RevealInv
<1>5. ASSUME NEW named \in SUBSET Leg, Polls(s), Poll(named) PROVE FALSE
  BY <1>5, PollFacts DEF chainVars
<1>6. ASSUME NEW lost \in BOOLEAN, Drives(s), WatchDrive(lost)
      PROVE  s.state = "CLAIMABLE"
  <2>1. PICK x : /\ Moved(x, s, spend)
                 /\ revealed' = (revealed \/ \E l \in Leg : x.spend[l].kind = "claim")
    BY <1>6, WatchFacts
  <2>2. PICK l \in Leg : x.spend[l].kind = "claim"
    BY <2>1
  <2>3. spend[l].kind = "none"
    BY <2>1, <2>2 DEF Moved, SpendMoves, RevealInv
  <2>4. MaySend(s)
    BY <2>1, <2>2, <2>3 DEF Moved, Fresh
  <2> QED BY <2>4 DEF MaySend, RevealInv
<1> QED BY <1>1, <1>2, <1>3, <1>4, <1>5, <1>6, Moves DEF Handles

\* The buyer's claim that reveals the preimage can still be buried before the
\* seller's refund unlocks: REVEAL_BUFFER makes up for the blocks mined since
\* the poll whose heights the gate reads.
THEOREM RevealsInTime ==
  ASSUME \A b \in Budgets : b["resubmit"] = 0, MaxLag <= RevealBuffer
  PROVE  Spec => RevealInTime
<1>1. ASSUME IndType, AddressInv, RevealInv, TimeInv, [Next]_vars
      PROVE  [(~revealed /\ revealed' /\ up)
                => height["qbit"] + Target["qbit"] <= dep["qbit"].lock]_vars
  <2> SUFFICES ASSUME ~revealed, revealed', up
               PROVE  height["qbit"] + Target["qbit"] <= dep["qbit"].lock
    OBVIOUS
  <2>1. s.state = "CLAIMABLE"
    BY <1>1, RevealStep
  <2>2. Bound(lag) /\ dep["qbit"].id # 0
    BY <1>1, <2>1, TimeParts DEF InTimeToClaim
  <2>3. dep["qbit"].lock = s.lock["qbit"]
    BY <1>1, <2>2, Legs DEF AddressInv
  <2>4. /\ height["qbit"] \in Nat /\ s.lock["qbit"] \in Nat /\ lag \in Nat /\ lag <= MaxLag
        /\ Target["qbit"] \in Nat /\ RevealBuffer \in Nat /\ MaxLag \in Nat
    BY <1>1, Facts, FieldTypes, Legs, EngineAssumption, SystemAssumption
  <2> QED BY <2>2, <2>3, <2>4 DEF Bound
<1>2. Spec => []AddressInv /\ []TimeInv
  BY AddressesStay, ClaimsHaveTime
<1> QED BY <1>1, <1>2, RevealedIsPublic, WellTyped, PTL DEF Spec, RevealInTime

\* The two windows leave room: when the seller's timelock has passed, so has
\* no more than what the buyer's window has to spare.
WindowsApart ==
  /\ MaxLag < Target["qbit"] + RevealBuffer
  /\ Window["qbit"] + MaxLag + Drift + Skew < Window["btc"] + Target["qbit"] + RevealBuffer

\* With time left to claim, no refund has been sent.
LEMMA NoRefundYet ==
  ASSUME IndType, AddressInv, TimeInv, WindowsApart, Bound(lag), dep["qbit"].id # 0,
         NEW l \in Leg
  PROVE  spend[l].kind # "refund" /\ height[l] < s.lock[l]
<1>1. /\ \A m \in Leg : height[m] \in Nat /\ s.lock[m] \in Nat /\ Window[m] \in Nat
      /\ lag \in Nat /\ lag <= MaxLag /\ Target["qbit"] \in Nat /\ RevealBuffer \in Nat
      /\ MaxLag \in Nat /\ Drift \in Nat
  BY Facts, FieldTypes, Legs, EngineAssumption, SystemAssumption, ChainAssumption
<1>2. Locked(s) /\ LocksApart(s.lock)
  BY Legs DEF AddressInv
<1>3. height["btc"] <= height["qbit"] + Drift
  BY Legs DEF AddressInv
<1>4. Skew \in Int
  BY SystemAssumption, ChainAssumption DEF Skew
<1>5. height["qbit"] < s.lock["qbit"]
  BY <1>1, Legs DEF Bound, WindowsApart
<1>6. height["btc"] < s.lock["btc"]
  BY <1>1, <1>2, <1>3, <1>4, Legs DEF Bound, WindowsApart, LocksApart
<1>7. height[l] < s.lock[l]
  BY <1>5, <1>6 DEF Leg
<1>8. spend[l].kind = "refund" => dep[l].id # 0 /\ dep[l].lock <= height[l]
  BY TimeParts DEF SpendsInTime
<1>9. dep[l].id # 0 => dep[l].lock = s.lock[l]
  BY DEF AddressInv
<1> QED BY <1>1, <1>7, <1>8, <1>9

\* Whoever reveals the preimage through the coordinator does so while both
\* deposits are buried and unspent.
THEOREM RevealsWhenBuried ==
  ASSUME \A b \in Budgets : b["resubmit"] = 0 /\ b["reorg"] = 0, WindowsApart
  PROVE  Spec => RevealWhenBuried
<1>1. ASSUME IndType, AddressInv, RevealInv, TimeInv, RecordsAreTrue, [Next]_vars
      PROVE  [(~revealed /\ revealed' /\ up)
                => \A l \in Leg \ Trusted : /\ dep[l].ok /\ Depth(l) >= Target[l]
                                            /\ spend[l].kind = "none"]_vars
  <2> SUFFICES ASSUME ~revealed, revealed', up, NEW l \in Leg \ Trusted
               PROVE  dep[l].ok /\ Depth(l) >= Target[l] /\ spend[l].kind = "none"
    OBVIOUS
  <2>1. s.state = "CLAIMABLE"
    BY <1>1, RevealStep
  <2>2. dep[l].ok /\ Depth(l) >= Target[l]
    BY <1>1, <2>1 DEF RecordsAreTrue, RecordTrue, BuriedOnChain
  <2>3. Bound(lag) /\ dep["qbit"].id # 0
    BY <1>1, <2>1, TimeParts DEF InTimeToClaim
  <2>4. spend[l].kind # "refund"
    BY <1>1, <2>3, NoRefundYet
  <2>5. spend[l].kind \in {"none", "claim", "refund"}
    BY <1>1, Facts DEF Spend, Kind
  <2> QED BY <1>1, <2>2, <2>4, <2>5 DEF RevealInv
<1>2. Spec => []AddressInv /\ []TimeInv /\ []RecordsAreTrue
  BY AddressesStay, ClaimsHaveTime, RecordsStayTrue
<1> QED BY <1>1, <1>2, RevealedIsPublic, WellTyped, PTL DEF Spec, RevealWhenBuried

-----------------------------------------------------------------------------
(* Atomicity: while the coordinator is up and the spends go through it, a  *)
(* swap implements AtomicSwap.  The inductive invariant is AtomInv, on top *)
(* of the invariants above.                                                *)

\* What the invariant is assumed on top of.
Before == IndType /\ AddressInv /\ RevealInv /\ TimeInv /\ RecordsAreTrue /\ WindowsApart
          /\ StayOpen /\ Trusted = {}

-----------------------------------------------------------------------------
\* The watchtower's steps.

Public(x) == revealed \/ \E l \in Leg : x.spend[l].kind = "claim"

\* What holds between the watchtower's steps, of what they have done so far.
AtomStep(x) ==
  /\ x \in Step /\ ~x.thrown
  /\ x.s.finish = s.finish /\ SameDeposits(x.s, s)
  /\ \A l \in Leg : x.s.funding[l].spent => x.spend[l].kind # "none"
  /\ Public(x) => x.s.preimage /\ x.spend["qbit"].kind = "claim" /\ x.spend["btc"].kind # "refund"
  /\ x.s.preimage => Public(x)
  /\ \A r \in Role : <<r, "claim">> \in x.s.wt => Public(x)
  /\ <<"bob", "claim">> \in x.s.wt => x.spend["btc"].kind = "claim"
  /\ x.s.state = "COMPLETE" => \A l \in Leg : x.spend[l].kind = "claim"
  /\ (Public(x) /\ x.spend["btc"].kind = "none") => x.s.state = "CLAIMED"

\* The spends only grow, and only the buyer's claim makes the preimage public.
Grown(y, x, role, k) ==
  /\ \A l \in Leg : x.spend[l].kind # "none" => y.spend[l] = x.spend[l]
  /\ Public(y) => Public(x) \/ (role = "alice" /\ k = "claim")

\* One send: a refund while the preimage is secret, the buyer's claim before any
\* refund, or the seller's once the preimage is public.
LEMMA AtomSend ==
  ASSUME IndType, NEW x, AtomStep(x), NEW role \in Role, NEW k \in Kind,
         k = "refund" => ~x.s.preimage,
         k = "claim" /\ role = "alice" => Public(x) \/ x.spend["btc"].kind = "none",
         k = "claim" /\ role = "bob" => Public(x)
  PROVE  /\ AtomStep(wtSend(x, role, k, FALSE))
         /\ Grown(wtSend(x, role, k, FALSE), x, role, k)
         /\ k = "refund" => ~wtSend(x, role, k, FALSE).s.preimage
<1> DEFINE l == TheLeg(role, k)
           w == [x.s EXCEPT !.wt = @ \cup {<<role, k>>}]
           a == applyEffects(w, l, k, FALSE)
           y == [s |-> a, spend |-> Sent(x.spend, l, k), thrown |-> FALSE]
<1>0. FALSE \in BOOLEAN /\ k \in {"claim", "refund"} /\ role \in {"alice", "bob"}
  BY DEF Kind, Role
<1>1. l \in Leg /\ (k = "claim" => (role = "alice" <=> l = "qbit") /\ (role = "bob" <=> l = "btc"))
  BY <1>0 DEF TheLeg, Claims, Funds, Other, Leg
<1>2. x.s \in Swap /\ x.spend \in [Leg -> Spend] /\ ChainTypeOK
  BY Facts DEF AtomStep, Step
<1>3. /\ w \in Swap /\ w.wt = x.s.wt \cup {<<role, k>>} /\ w.finish = x.s.finish
      /\ w.funding = x.s.funding /\ w.short = x.s.short /\ w.preimage = x.s.preimage
  <2>1. x.s.wt \cup {<<role, k>>} \in SUBSET (Role \X Kind)
    BY <1>2, FieldTypes
  <2> QED BY <1>2, <2>1 DEF Swap
<1>4. \/ wtSend(x, role, k, FALSE) = x
      \/ wtSend(x, role, k, FALSE) = y /\ x.spend[l].kind = "none"
  BY DEF wtSend, Accepts, IsUnspent
<1> HIDE DEF w, l
<1>5. /\ a \in Swap /\ SameTerms(a, w) /\ SameDeposits(a, w)
      /\ a.preimage = (w.preimage \/ k = "claim")
      /\ a.state = IF k = "refund" THEN "REFUNDED" ELSE IF l = "btc" THEN "COMPLETE" ELSE "CLAIMED"
      /\ \A m \in Leg : a.funding[m].spent => w.funding[m].spent \/ m = l
  <2>1. /\ a \in Swap /\ SameTerms(a, w) /\ SameDeposits(a, w)
        /\ a.preimage = (w.preimage \/ (k = "claim" /\ ~FALSE))
        /\ a.state = IF k = "refund" THEN "REFUNDED" ELSE IF FALSE THEN w.state
                     ELSE IF l = "btc" THEN "COMPLETE" ELSE "CLAIMED"
        /\ \A m \in Leg : a.funding[m].spent => w.funding[m].spent \/ (m = l /\ w.funding[m].id # 0)
    <3> DEFINE lost == FALSE
    <3>1. lost \in BOOLEAN
      OBVIOUS
    <3> HIDE DEF lost
    <3>2. applyEffects(w, l, k, lost) \in Swap
      BY <1>1, <1>3, <3>1, ApplyEffectsOK
    <3>3. LET q == applyEffects(w, l, k, lost)
          IN /\ SameTerms(q, w) /\ SameDeposits(q, w)
             /\ q.preimage = (w.preimage \/ (k = "claim" /\ ~lost))
             /\ q.state = IF k = "refund" THEN "REFUNDED" ELSE IF lost THEN w.state
                          ELSE IF l = "btc" THEN "COMPLETE" ELSE "CLAIMED"
             /\ \A m \in Leg : q.funding[m].spent => w.funding[m].spent \/ (m = l /\ w.funding[m].id # 0)
      BY <1>1, <1>3, <3>1, ApplyEffectsFields
    <3> QED BY <3>2, <3>3 DEF lost
  <2> QED BY <2>1
<1> HIDE DEF a
<1>6. ASSUME x.spend[l].kind = "none"
      PROVE  AtomStep(y) /\ Grown(y, x, role, k) /\ (k = "refund" => ~y.s.preimage)
  <2>1. /\ y.s = a /\ y.thrown = FALSE /\ y.spend \in [Leg -> Spend]
        /\ y.spend[l] = [kind |-> k, at |-> 0, since |-> height[l]]
        /\ \A m \in Leg : m # l => y.spend[m] = x.spend[m]
    BY <1>1, <1>2, SentType DEF Sent
  <2>2. y \in Step
    BY <1>5, <2>1 DEF Step
  <2> HIDE DEF y
  <2>3. y.spend[l].kind = k
    BY <2>1
  <2>4. /\ a.finish = s.finish /\ SameDeposits(a, s) /\ a.wt = x.s.wt \cup {<<role, k>>}
        /\ a.preimage = (x.s.preimage \/ k = "claim")
    BY <1>3, <1>5 DEF AtomStep, SameTerms, SameDeposits
  <2>5. \A m \in Leg : a.funding[m].spent => y.spend[m].kind # "none"
    <3>1. k # "none"
      BY <1>0
    <3> TAKE m \in Leg
    <3>2. CASE m = l
      BY <2>3, <3>1, <3>2
    <3>3. CASE m # l
      BY <1>3, <1>5, <2>1, <3>3 DEF AtomStep
    <3> QED BY <3>2, <3>3
  <2>6. Grown(y, x, role, k)
    <3>1. \A m \in Leg : x.spend[m].kind # "none" => y.spend[m] = x.spend[m]
      BY <1>6, <2>1
    <3>2. Public(x) \/ k # "claim" \/ role = "alice"
      BY <1>0
    <3>3. k # "claim" /\ Public(y) => Public(x)
      BY <2>1, <2>3 DEF Public
    <3> QED BY <3>1, <3>2, <3>3 DEF Grown
  <2>7. CASE k = "refund"
    <3>1. ~Public(x) /\ ~Public(y)
      BY <2>6, <2>7 DEF AtomStep, Grown
    <3>2. \A r \in Role : <<r, "claim">> \notin a.wt
      BY <2>4, <2>7, <3>1 DEF AtomStep
    <3>3. ~a.preimage /\ a.state = "REFUNDED"
      BY <1>5, <2>4, <2>7
    <3>4. <<"bob", "claim">> \notin a.wt
      BY <3>2 DEF Role
    <3> QED BY <2>1, <2>2, <2>4, <2>5, <2>6, <3>1, <3>2, <3>3, <3>4 DEF AtomStep
  <2>8. CASE k = "claim" /\ l = "btc"
    <3>1. role = "bob" /\ Public(x)
      BY <1>0, <1>1, <2>8
    <3>2. Public(y) /\ y.spend["btc"].kind = "claim"
      BY <1>1, <2>3, <2>8 DEF Public
    <3>3. y.spend["qbit"].kind = "claim"
      BY <2>1, <2>8, <3>1, Legs DEF AtomStep
    <3>4. a.preimage /\ a.state = "COMPLETE" /\ \A m \in Leg : y.spend[m].kind = "claim"
      BY <1>5, <2>4, <2>8, <3>2, <3>3 DEF Leg
    <3> QED BY <2>1, <2>2, <2>4, <2>5, <2>6, <3>2, <3>3, <3>4 DEF AtomStep
  <2>9. CASE k = "claim" /\ l # "btc"
    <3>1. l = "qbit" /\ role = "alice"
      BY <1>0, <1>1, <2>9 DEF Leg
    <3>2. Public(y) /\ y.spend["qbit"].kind = "claim" /\ y.spend["btc"] = x.spend["btc"]
      BY <1>1, <2>1, <2>3, <2>9, <3>1, Legs DEF Public
    <3>3. ~Public(x) /\ x.spend["btc"].kind = "none"
      BY <1>6, <2>9, <3>1 DEF AtomStep
    <3>4. a.preimage /\ a.state = "CLAIMED"
      BY <1>5, <2>4, <2>9
    <3>5. <<"bob", "claim">> \notin a.wt
      BY <2>4, <3>1, <3>3 DEF AtomStep, Role
    <3> QED BY <2>1, <2>2, <2>4, <2>5, <2>6, <2>9, <3>2, <3>3, <3>4, <3>5 DEF AtomStep
  <2> QED BY <1>0, <2>1, <2>4, <2>6, <2>7, <2>8, <2>9
<1>7. Grown(x, x, role, k)
  BY DEF Grown
<1> HIDE DEF y
<1> QED BY <1>4, <1>6, <1>7

\* A first send, or a spend sent again: the conditions of the code are those of
\* AtomSend.
LEMMA AtomFirst ==
  ASSUME IndType, NEW x, AtomStep(x), NEW role \in Role, NEW k \in Kind,
         k = "refund" => ~x.s.preimage,
         k = "claim" /\ role = "alice" /\ x.s.state = "CLAIMABLE"
           => Public(x) \/ x.spend["btc"].kind = "none"
  PROVE  /\ AtomStep(first(x, role, k, FALSE))
         /\ Grown(first(x, role, k, FALSE), x, role, k)
         /\ k = "refund" => ~first(x, role, k, FALSE).s.preimage
<1>1. CASE ~Due(x.s, role, k)
  BY <1>1 DEF first, Grown
<1>2. CASE Due(x.s, role, k)
  <2>1. k = "claim" => IF role = "alice" THEN x.s.state = "CLAIMABLE" ELSE x.s.preimage
    BY <1>2 DEF Due
  <2>2. k = "claim" /\ role = "alice" => Public(x) \/ x.spend["btc"].kind = "none"
    BY <2>1
  <2>3. k = "claim" /\ role = "bob" => Public(x)
    BY <2>1 DEF AtomStep
  <2>4. /\ AtomStep(wtSend(x, role, k, FALSE))
        /\ Grown(wtSend(x, role, k, FALSE), x, role, k)
        /\ k = "refund" => ~wtSend(x, role, k, FALSE).s.preimage
    BY <2>2, <2>3, AtomSend
  <2> QED BY <1>2, <2>4 DEF first
<1> QED BY <1>1, <1>2

LEMMA AtomResend ==
  ASSUME IndType, NEW x, AtomStep(x), NEW role \in Role, NEW k \in Kind
  PROVE  /\ AtomStep(resend(x, role, k, FALSE))
         /\ Public(resend(x, role, k, FALSE)) => Public(x)
         /\ \A l \in Leg :
              x.spend[l].kind # "none" => resend(x, role, k, FALSE).spend[l] = x.spend[l]
<1>1. CASE ~Dropped(x, role, k)
  <2>1. resend(x, role, k, FALSE) = x
    BY <1>1 DEF resend
  <2> QED BY <2>1
<1>2. CASE Dropped(x, role, k)
  <2>1. <<role, k>> \in x.s.wt /\ (k # "claim" => ~x.s.preimage)
    BY <1>2 DEF Dropped
  <2>2. k = "claim" => Public(x)
    BY <2>1 DEF AtomStep
  <2>3. "refund" # "claim"
    OBVIOUS
  <2>4. AtomStep(wtSend(x, role, k, FALSE)) /\ Grown(wtSend(x, role, k, FALSE), x, role, k)
    BY <2>1, <2>2, <2>3, AtomSend
  <2>5. resend(x, role, k, FALSE) = wtSend(x, role, k, FALSE)
    BY <1>2 DEF resend
  <2> QED BY <2>2, <2>4, <2>5 DEF Grown
<1> QED BY <1>1, <1>2

\* While both deposits stand as recorded, the armed claim of the seller is sent
\* in the step that follows the buyer's.
LEMMA SellerFollows ==
  ASSUME IndType, NEW x, AtomStep(x), Public(x), x.spend["btc"].kind = "none", ~Unarmed,
         \A l \in Leg : s.short[l].id = 0,
         s.funding["btc"].id # 0, dep["btc"].id = s.funding["btc"].id, dep["btc"].st # "none"
  PROVE  first(x, "bob", "claim", FALSE).spend["btc"].kind = "claim"
<1>1. /\ "bob" \in Role /\ "claim" \in Kind /\ "btc" \in Leg /\ TheLeg("bob", "claim") = "btc"
      /\ Armed(x.s, "bob", "claim") = s.funding["btc"].id
  BY DEF Role, Kind, Leg, TheLeg, Claims, Funds, Other, Armed, AtomStep, Unarmed
<1>2. /\ x.s.funding["btc"].id = s.funding["btc"].id /\ ~x.s.funding["btc"].spent
      /\ \A l \in Leg : x.s.short[l].id = 0
  BY <1>1 DEF AtomStep, SameDeposits
<1>3. Unspent(x.s, "btc") /\ ~Shorted(x.s)
  BY <1>2 DEF Unspent, Tracked, Shorted
<1>4. Due(x.s, "bob", "claim")
  BY <1>1, <1>3 DEF Due, AtomStep
<1>5. Accepts(x.spend, "btc", Armed(x.s, "bob", "claim"), "claim") /\ ~x.thrown
  BY <1>1 DEF Accepts, IsUnspent, AtomStep
<1>6. first(x, "bob", "claim", FALSE).spend = Sent(x.spend, "btc", "claim")
  BY <1>1, <1>4, <1>5 DEF first, wtSend
<1>7. x.spend \in [Leg -> Spend]
  BY DEF AtomStep, Step
<1>8. Sent(x.spend, "btc", "claim")["btc"].kind = "claim"
  BY <1>1, <1>7 DEF Sent
<1> QED BY <1>6, <1>8

\* The whole of driveWatchtower, of which no witness read fails.
LEMMA AtomDrive ==
  ASSUME IndType, NEW o, AtomStep(o),
         o.s.state = "CLAIMABLE" => Public(o) \/ o.spend["btc"].kind = "none",
         NEW x, x = drive(o, FALSE)
  PROVE  /\ AtomStep(x)
         /\ (/\ Public(x) /\ ~Unarmed
             /\ \A l \in Leg : s.short[l].id = 0
             /\ s.funding["btc"].id # 0 /\ dep["btc"].id = s.funding["btc"].id
             /\ dep["btc"].st # "none") => x.spend["btc"].kind # "none"
<1> DEFINE c1 == first(o, "alice", "claim", FALSE)
           c2 == first(c1, "bob", "claim", FALSE)
           f1 == first(c2, "alice", "refund", FALSE)
           f2 == first(f1, "bob", "refund", FALSE)
           t  == refunds(c2)
           a1 == resend(t, "alice", "claim", FALSE)
           a2 == resend(a1, "bob", "claim", FALSE)
           b1 == resend(a2, "alice", "refund", FALSE)
           b2 == resend(b1, "bob", "refund", FALSE)
           After(z) == /\ AtomStep(z) /\ (Public(z) => Public(c2))
                       /\ c2.spend["btc"].kind # "none" => z.spend["btc"] = c2.spend["btc"]
<1>0. "alice" \in Role /\ "bob" \in Role /\ "claim" \in Kind /\ "refund" \in Kind
      /\ "claim" # "refund" /\ "alice" # "bob" /\ "btc" \in Leg
  BY DEF Role, Kind, Leg
<1>1. x = b2
  BY DEF drive
<1>2. t = IF c2.s.preimage THEN c2 ELSE f2
  BY DEF refunds
<1>3. AtomStep(c1)
  BY <1>0, AtomFirst
<1>4. (/\ Public(c1) /\ c1.spend["btc"].kind = "none" /\ ~Unarmed
       /\ \A l \in Leg : s.short[l].id = 0
       /\ s.funding["btc"].id # 0 /\ dep["btc"].id = s.funding["btc"].id
       /\ dep["btc"].st # "none") => c2.spend["btc"].kind = "claim"
  BY <1>3, SellerFollows
<1> HIDE DEF c1
<1>5. AtomStep(c2) /\ Grown(c2, c1, "bob", "claim")
  BY <1>0, <1>3, AtomFirst
<1>6. (/\ Public(c2) /\ ~Unarmed
       /\ \A l \in Leg : s.short[l].id = 0
       /\ s.funding["btc"].id # 0 /\ dep["btc"].id = s.funding["btc"].id
       /\ dep["btc"].st # "none") => c2.spend["btc"].kind # "none"
  BY <1>0, <1>4, <1>5 DEF Grown
<1> HIDE DEF c2
<1>b. ASSUME NEW z, After(z), NEW role \in Role, NEW k \in Kind
      PROVE  After(resend(z, role, k, FALSE))
  <2> DEFINE y == resend(z, role, k, FALSE)
  <2>1. /\ AtomStep(y) /\ (Public(y) => Public(z))
        /\ \A l \in Leg : z.spend[l].kind # "none" => y.spend[l] = z.spend[l]
    BY <1>b, AtomResend
  <2> HIDE DEF y
  <2>2. After(y)
    BY <1>0, <1>b, <2>1
  <2> QED BY <2>2 DEF y
<1>7. After(t)
  <2>1. CASE c2.s.preimage
    BY <1>2, <1>5, <2>1
  <2>2. CASE ~c2.s.preimage
    <3>1. AtomStep(f1) /\ Grown(f1, c2, "alice", "refund") /\ ~f1.s.preimage
      BY <1>0, <1>5, <2>2, AtomFirst
    <3> HIDE DEF f1
    <3>2. AtomStep(f2) /\ Grown(f2, f1, "bob", "refund")
      BY <1>0, <3>1, AtomFirst
    <3> HIDE DEF f2
    <3>3. After(f2)
      BY <1>0, <3>1, <3>2 DEF Grown
    <3> QED BY <1>2, <2>2, <3>3
  <2> QED BY <2>1, <2>2
<1> HIDE DEF t
<1>8. After(a1)
  BY <1>0, <1>7, <1>b
<1> HIDE DEF a1
<1>9. After(a2)
  BY <1>0, <1>8, <1>b
<1> HIDE DEF a2
<1>10. After(b1)
  BY <1>0, <1>9, <1>b
<1> HIDE DEF b1
<1>11. After(b2)
  BY <1>0, <1>10, <1>b
<1> HIDE DEF b2
<1> QED BY <1>1, <1>6, <1>11

-----------------------------------------------------------------------------
\* The steps of the system, one by one.

Calm == \A e \in {"crash", "lost", "evict", "reorg", "direct"} : left[e] = 0

\* A claimable or revealed swap has both deposits, in full, as recorded.
LEMMA AtomFacts ==
  ASSUME Before, AtomInv, s.state = "CLAIMABLE" \/ revealed
  PROVE  /\ Locked(s)
         /\ \A l \in Leg :
              /\ s.funding[l].h # 0 /\ s.funding[l].id # 0 /\ s.short[l].id = 0
              /\ dep[l].id = s.funding[l].id /\ dep[l].st = "confirmed" /\ dep[l].ok
<1>1. \A l \in Leg : s.funding[l].h # 0
  BY DEF AtomInv
<1>2. \A l \in Leg : dep[l].st = "confirmed" /\ dep[l].ok /\ dep[l].id = s.funding[l].id
  BY <1>1 DEF Before, RecordsAreTrue, RecordTrue, DepositTrue
<1>3. \A l \in Leg : dep[l].id # 0 /\ Locked(s)
  BY <1>2 DEF Before, AddressInv
<1>4. \A l \in Leg : s.short[l].id = 0
  BY <1>2 DEF AtomInv
<1> QED BY <1>1, <1>2, <1>3, <1>4, Legs

\* In time, the refunds are locked and none has been sent.
LEMMA AtomTime ==
  ASSUME Before, AtomInv, s.state = "CLAIMABLE" \/ revealed, Bound(lag), NEW l \in Leg
  PROVE  spend[l].kind # "refund" /\ height[l] < s.lock[l]
<1>1. dep["qbit"].id # 0
  BY AtomFacts, Legs
<1> QED BY <1>1, NoRefundYet DEF Before

\* A block's grace more does no harm.
LEMMA BoundGrows ==
  ASSUME IndType, Bound(0)
  PROVE  Bound(lag)
<1>1. /\ height["qbit"] \in Nat /\ s.lock["qbit"] \in Nat /\ lag \in Nat
      /\ Target["qbit"] \in Nat /\ RevealBuffer \in Nat
  BY Facts, FieldTypes, Legs, EngineAssumption
<1> QED BY <1>1 DEF Bound

\* What becomes of a deposit when it is mined or dropped.
LEMMA DepositKept ==
  ASSUME IndType, NEW l \in Leg, Mine(l) \/ Drop(l) \/ Unmine(l)
  PROVE  \A m \in Leg : dep'[m].id = dep[m].id /\ dep'[m].ok = dep[m].ok
<1>1. dep \in [Leg -> Deposit]
  BY Facts DEF ChainTypeOK
<1>2. ASSUME NEW v, dep' = [dep EXCEPT ![l] = v], v.id = dep[l].id, v.ok = dep[l].ok
      PROVE  \A m \in Leg : dep'[m].id = dep[m].id /\ dep'[m].ok = dep[m].ok
  BY <1>1, <1>2
<1>3. \A st, at : LET v == [dep[l] EXCEPT !.st = st, !.at = at]
                  IN v.id = dep[l].id /\ v.ok = dep[l].ok
  BY <1>1 DEF Deposit
<1>4. \A st : LET v == [dep[l] EXCEPT !.st = st] IN v.id = dep[l].id /\ v.ok = dep[l].ok
  BY <1>1 DEF Deposit
<1>5. CASE Mine(l)
  <2> DEFINE v == [dep[l] EXCEPT !.st = "confirmed", !.at = height[l] + 1]
  <2>1. dep' = dep \/ dep' = [dep EXCEPT ![l] = v]
    BY <1>5 DEF Mine, MineBlock
  <2>2. v.id = dep[l].id /\ v.ok = dep[l].ok
    BY <1>3
  <2> HIDE DEF v
  <2> QED BY <1>2, <2>1, <2>2
<1>6. CASE Unmine(l)
  <2> DEFINE v == [dep[l] EXCEPT !.st = "mempool", !.at = 0]
  <2>1. dep' = [dep EXCEPT ![l] = v]
    BY <1>6 DEF Unmine, Reorg
  <2>2. v.id = dep[l].id /\ v.ok = dep[l].ok
    BY <1>3
  <2> HIDE DEF v
  <2> QED BY <1>2, <2>1, <2>2
<1>7. CASE Drop(l)
  <2> DEFINE v == [dep[l] EXCEPT !.st = "none"]
  <2>1. dep' = [dep EXCEPT ![l] = v]
    BY <1>7 DEF Drop, DropDeposit
  <2>2. v.id = dep[l].id /\ v.ok = dep[l].ok
    BY <1>4
  <2> HIDE DEF v
  <2> QED BY <1>2, <2>1, <2>2
<1> QED BY <1>5, <1>6, <1>7

\* What a deposit leaves.
LEMMA DepositFacts ==
  ASSUME IndType, NEW r \in Role, NEW ok \in BOOLEAN, MakeDeposit(r, ok)
  PROVE  /\ dep'[Funds(r)].id # 0 /\ dep'[Funds(r)].ok = ok
         /\ \A m \in Leg : m # Funds(r) => dep'[m] = dep[m]
         /\ dep[Funds(r)].st # "confirmed" /\ spend[Funds(r)].kind = "none"
         /\ dep[Funds(r)].id # 0 => left["deposit"] > 0
         /\ ~ok => left["short"] > 0
         /\ UNCHANGED <<height, spend, revealed, engineVars, lag, shown, armed>>
<1> DEFINE l == Funds(r)
           v == [id |-> dep[l].id + 1, st |-> "mempool", ok |-> ok, at |-> 0, lock |-> shown[r]]
<1>1. /\ dep[l].st # "confirmed" /\ spend[l].kind = "none" /\ dep' = [dep EXCEPT ![l] = v]
      /\ dep[l].id # 0 => left["deposit"] > 0
      /\ ~ok => left["short"] > 0
      /\ UNCHANGED <<height, spend, revealed, engineVars, lag, shown, armed>>
  BY DEF MakeDeposit
<1>2. l \in Leg /\ dep \in [Leg -> Deposit] /\ dep[l].id \in Nat
  BY Facts, Legs DEF ChainTypeOK, Deposit
<1>3. v.id = dep[l].id + 1 /\ v.ok = ok
  OBVIOUS
<1> HIDE DEF v
<1>4. dep'[l] = v /\ \A m \in Leg : m # l => dep'[m] = dep[m]
  BY <1>1, <1>2
<1> QED BY <1>1, <1>2, <1>3, <1>4

\* The events that are excluded stay so.
LEMMA AtomBudgets ==
  ASSUME IndType, AtomInv, [Next]_vars
  PROVE  Calm' /\ Replaceable'
<1>1. Calm'
  BY SpentForGood DEF Calm, AtomInv, Event
<1>2. CASE left["deposit"] = 0
  <2>1. "deposit" \in Event
    BY DEF Event
  <2>2. left'["deposit"] = 0
    BY <1>2, <2>1, SpentForGood
  <2> QED BY <1>1, <2>2 DEF Replaceable
<1>3. CASE left["short"] = 0 /\ \A l \in Leg : dep[l].id # 0 => dep[l].ok
  <2>1. left'["short"] = 0
    BY <1>3, SpentForGood DEF Event
  <2>2. ASSUME NEW r \in Role, NEW ok \in BOOLEAN, MakeDeposit(r, ok)
        PROVE  \A l \in Leg : dep'[l].id # 0 => dep'[l].ok
    <3>1. ok
      BY <1>3, <2>2, DepositFacts
    <3> TAKE l \in Leg
    <3>2. CASE l = Funds(r)
      BY <2>2, <3>1, <3>2, DepositFacts
    <3>3. CASE l # Funds(r)
      BY <1>3, <2>2, <3>3, DepositFacts
    <3> QED BY <3>2, <3>3
  <2>3. ASSUME NEW l \in Leg, Mine(l) \/ Drop(l) \/ Unmine(l)
        PROVE  \A m \in Leg : dep'[m].id # 0 => dep'[m].ok
    BY <1>3, <2>3, DepositKept
  <2>4. ASSUME NEW l \in Leg, Evict(l) PROVE dep' = dep
    BY <2>4 DEF Evict, EvictSpend
  <2>5. ASSUME NEW r \in Role, NEW k \in Kind, DirectSend(r, k) PROVE dep' = dep
    BY <2>5 DEF DirectSend
  <2>6. \/ \E r \in Role, ok \in BOOLEAN : MakeDeposit(r, ok)
        \/ \E l \in Leg : Mine(l) \/ Drop(l) \/ Unmine(l)
        \/ dep' = dep
    BY <2>4, <2>5 DEF Next, vars, chainVars, Join, SubmitParty, Derive, DeriveHtlcs, DeriveError,
       DeriveFails, ShowHtlc, Arm, SubmitFinish, ClientSend, Broadcast, Cancel, CancelSwap,
       WatchPoll, WatchPollMisses, Poll, WatchPollFails, PollFails, WatchDrive, DriveWatchtower,
       Stop, Crash, Boot, Restart
  <2>7. \A l \in Leg : dep'[l].id # 0 => dep'[l].ok
    BY <1>3, <2>2, <2>3, <2>6
  <2> QED BY <1>1, <2>1, <2>7 DEF Replaceable
<1> QED BY <1>1, <1>2, <1>3 DEF AtomInv, Replaceable

\* A step of the chains: no spend comes or goes.
LEMMA AtomChain ==
  ASSUME Before, AtomInv, Calm', Replaceable', UNCHANGED <<s, armed, up, revealed>>,
         phase' # "poll" \/ phase' = phase,
         \A l \in Leg : spend'[l].kind = spend[l].kind,
         \A l \in Leg : s.short[l].id # 0 => dep'[l].id # 0 /\ ~dep'[l].ok,
         (s.state = "CLAIMABLE" \/ (revealed /\ spend["btc"].kind = "none"))
           => /\ Unarmed => Bound(0)'
              /\ Bound(lag) => Bound(lag)'
  PROVE  AtomInv'
<1>1. (Unarmed)' = Unarmed
  BY DEF Unarmed
<1>2. \A l \in Leg : /\ s'.short[l].id # 0 => dep'[l].id # 0 /\ ~dep'[l].ok
                     /\ s'.funding[l].spent => spend'[l].kind # "none"
                     /\ s'.state = "CLAIMABLE" \/ revealed' => s'.funding[l].h # 0
  BY DEF AtomInv
<1>3. /\ revealed' => /\ s'.preimage /\ spend'["qbit"].kind = "claim"
                      /\ spend'["btc"].kind # "refund"
      /\ <<"bob", "claim">> \in s'.wt => spend'["btc"].kind = "claim"
      /\ s'.state = "COMPLETE" => \A l \in Leg : spend'[l].kind = "claim"
  BY Legs DEF AtomInv
<1>4. s'.state = "CLAIMABLE" => ~s'.refund["btc"].available /\ (Unarmed' => Bound(0)')
  BY <1>1 DEF AtomInv
<1>5. (revealed' /\ spend'["btc"].kind = "none") =>
        /\ s'.state = "CLAIMED" /\ ~s'.refund["btc"].available
        /\ Unarmed' => Bound(0)'
        /\ phase' = "poll" => Bound(lag)'
  BY <1>1, Legs DEF AtomInv
<1>6. up' /\ s'.finish = armed'
  BY DEF AtomInv
<1> QED BY <1>2, <1>3, <1>4, <1>5, <1>6 DEF AtomInv, Calm

\* Blocks: with a tab open, none is mined before what can be armed is, so a
\* seller whose claim is not armed loses no time.
LEMMA AtomOfMine ==
  ASSUME Before, AtomInv, [Next]_vars, NEW l \in Leg, Mine(l)
  PROVE  AtomInv'
<1>1. UNCHANGED <<s, armed, up, revealed, phase>>
  BY DEF Mine, MineBlock, engineVars
<1>2. \A m \in Leg : spend'[m].kind = spend[m].kind
  <2> DEFINE v == [spend[l] EXCEPT !.at = height[l] + 1, !.since = 0]
  <2>1. spend' = spend \/ spend' = [spend EXCEPT ![l] = v]
    BY DEF Mine, MineBlock
  <2>2. v.kind = spend[l].kind /\ spend \in [Leg -> Spend]
    BY Facts DEF Before, Spend
  <2> HIDE DEF v
  <2> QED BY <2>1, <2>2
<1>3. \A m \in Leg : s.short[m].id # 0 => dep'[m].id # 0 /\ ~dep'[m].ok
  BY DepositKept DEF AtomInv, Before
<1>4. ASSUME s.state = "CLAIMABLE" \/ (revealed /\ spend["btc"].kind = "none")
      PROVE  ~Unarmed /\ (Bound(lag) => Bound(lag)')
  <2>1. s.state \in {"CLAIMABLE", "CLAIMED"}
    BY <1>4 DEF AtomInv
  <2>2. ~NeedsArming("bob")
    BY <2>1 DEF Mine, Drives, TERMINAL, Role, Before, AtomInv
  <2>3. \A m \in Leg : s.funding[m].id # 0
    BY <1>4, AtomFacts
  <2>4. Wanted("bob") = [refund |-> s.funding["qbit"].id, claim |-> s.funding["btc"].id]
    BY <2>3, Legs DEF Wanted, Funds
  <2>5. Wanted("bob") = armed["bob"]
    BY <2>2, <2>3, <2>4, Legs DEF NeedsArming
  <2>6. ~Unarmed
    BY <2>4, <2>5 DEF Unarmed, AtomInv
  <2>7. Bound(lag) => Bound(lag)'
    <3>1. /\ height["qbit"] \in Nat /\ s.lock["qbit"] \in Nat /\ lag \in Nat
          /\ Target["qbit"] \in Nat /\ RevealBuffer \in Nat
      BY Facts, FieldTypes, Legs, EngineAssumption DEF Before
    <3>2. lag' = lag + 1 /\ height'["qbit"] \in {height["qbit"], height["qbit"] + 1}
      <4>1. height \in [Leg -> 1..MaxHeight]
        BY Facts DEF Before
      <4> QED BY <4>1, Legs DEF Mine, MineBlock
    <3> QED BY <1>1, <3>1, <3>2 DEF Bound
  <2> QED BY <2>6, <2>7
<1>5. Calm' /\ Replaceable'
  BY AtomBudgets DEF Before
<1> QED BY <1>1, <1>2, <1>3, <1>4, <1>5, AtomChain

\* The other steps that leave the record alone.
LEMMA AtomStill ==
  ASSUME Before, AtomInv, Calm', Replaceable',
         UNCHANGED <<s, armed, up, revealed, phase, spend, height, lag>>,
         \A l \in Leg : s.short[l].id # 0 => dep'[l].id # 0 /\ ~dep'[l].ok
  PROVE  AtomInv'
<1>1. (Unarmed => Bound(0)) => (Unarmed => Bound(0)')
  BY DEF Bound
<1>2. Bound(lag) => Bound(lag)'
  BY DEF Bound
<1>3. (s.state = "CLAIMABLE" \/ (revealed /\ spend["btc"].kind = "none")) => (Unarmed => Bound(0))
  BY DEF AtomInv
<1> QED BY <1>1, <1>2, <1>3, AtomChain

LEMMA AtomOfStill ==
  ASSUME Before, AtomInv, [Next]_vars,
         \/ \E h \in deriving : DeriveError(h)
         \/ \E r \in Role : ShowHtlc(r)
         \/ \E l \in Leg : Drop(l)
         \/ \E r \in Role, ok \in BOOLEAN : MakeDeposit(r, ok)
         \/ UNCHANGED vars
  PROVE  AtomInv'
<1>1. Calm' /\ Replaceable'
  BY AtomBudgets DEF Before
<1>2. \A l \in Leg : s.short[l].id # 0 => dep[l].id # 0 /\ ~dep[l].ok
  BY DEF AtomInv
<1>3. CASE \/ \E h \in deriving : DeriveError(h)
           \/ \E r \in Role : ShowHtlc(r)
           \/ UNCHANGED vars
  <2>1. UNCHANGED <<s, armed, up, revealed, phase, spend, height, lag, dep>>
    BY <1>3 DEF DeriveError, DeriveFails, ShowHtlc, vars, chainVars, engineVars, systemVars
  <2> QED BY <1>1, <1>2, <2>1, AtomStill
<1>4. ASSUME NEW l \in Leg, Drop(l) PROVE AtomInv'
  <2>1. UNCHANGED <<s, armed, up, revealed, phase, spend, height, lag>>
    BY <1>4 DEF Drop, DropDeposit, engineVars
  <2>2. \A m \in Leg : dep'[m].id = dep[m].id /\ dep'[m].ok = dep[m].ok
    BY <1>4, DepositKept DEF Before
  <2> QED BY <1>1, <1>2, <2>1, <2>2, AtomStill
<1>5. ASSUME NEW r \in Role, NEW ok \in BOOLEAN, MakeDeposit(r, ok) PROVE AtomInv'
  <2>1. /\ dep'[Funds(r)].id # 0 /\ dep'[Funds(r)].ok = ok
        /\ \A m \in Leg : m # Funds(r) => dep'[m] = dep[m]
        /\ dep[Funds(r)].id # 0 => left["deposit"] > 0
        /\ UNCHANGED <<height, spend, revealed, engineVars, lag, shown, armed>>
    BY <1>5, DepositFacts DEF Before
  <2>2. s.short[Funds(r)].id = 0
    <3>1. Funds(r) \in Leg
      BY Legs
    <3>2. CASE dep[Funds(r)].id = 0
      BY <1>2, <3>1, <3>2
    <3>3. CASE dep[Funds(r)].id # 0
      BY <1>2, <2>1, <3>1, <3>3 DEF AtomInv, Replaceable
    <3> QED BY <3>2, <3>3
  <2>3. \A m \in Leg : s.short[m].id # 0 => dep'[m].id # 0 /\ ~dep'[m].ok
    BY <1>2, <2>1, <2>2
  <2>4. UNCHANGED <<s, armed, up, revealed, phase, spend, height, lag>>
    BY <2>1 DEF engineVars
  <2> QED BY <1>1, <2>3, <2>4, AtomStill
<1> QED BY <1>3, <1>4, <1>5
\* A handler that neither polls nor spends.
LEMMA AtomRecord ==
  ASSUME Before, AtomInv, Calm', Replaceable', NEW n, s' = n,
         UNCHANGED <<up, height, dep, spend, revealed, lag>>, phase' # "poll" \/ phase' = phase,
         n.finish = armed', n.preimage = s.preimage, n.wt = s.wt, n.refund = s.refund,
         n.state = s.state \/ (n.state \notin {"CLAIMABLE", "COMPLETE"} /\ ~revealed),
         \A l \in Leg : /\ n.short[l].id # 0 => dep[l].id # 0 /\ ~dep[l].ok
                        /\ n.funding[l].spent => spend[l].kind # "none"
                        /\ s.funding[l].h # 0 => /\ n.funding[l].h # 0
                                                 /\ n.funding[l].id = s.funding[l].id,
         s.state = "CLAIMABLE" \/ revealed
           => /\ n.finish["bob"].claim \in {s.finish["bob"].claim, n.funding["btc"].id}
              /\ n.lock = s.lock
  PROVE  AtomInv'
<1>1. \A l \in Leg : /\ s'.short[l].id # 0 => dep'[l].id # 0 /\ ~dep'[l].ok
                     /\ s'.funding[l].spent => spend'[l].kind # "none"
                     /\ s'.state = "CLAIMABLE" \/ revealed' => s'.funding[l].h # 0
  BY DEF AtomInv
<1>2. /\ revealed' => /\ s'.preimage /\ spend'["qbit"].kind = "claim"
                      /\ spend'["btc"].kind # "refund"
      /\ <<"bob", "claim">> \in s'.wt => spend'["btc"].kind = "claim"
      /\ s'.state = "COMPLETE" => \A l \in Leg : spend'[l].kind = "claim"
  BY DEF AtomInv
<1>3. ASSUME s.state = "CLAIMABLE" \/ revealed
      PROVE  /\ Unarmed' => Unarmed
             /\ Bound(0)' <=> Bound(0)
             /\ Bound(lag)' <=> Bound(lag)
  <2>1. n.funding["btc"].id = s.funding["btc"].id
    BY <1>3, Legs DEF AtomInv
  <2>2. n.lock = s.lock
    BY <1>3
  <2>3. (Unarmed)' => Unarmed
    BY <1>3, <2>1 DEF Unarmed
  <2>4. /\ Bound(0)' <=> Bound(0)
        /\ Bound(lag)' <=> Bound(lag)
    BY <2>2 DEF Bound
  <2> QED BY <2>3, <2>4
<1>4. s'.state = "CLAIMABLE" => ~s'.refund["btc"].available /\ (Unarmed' => Bound(0)')
  BY <1>3 DEF AtomInv
<1>5. (revealed' /\ spend'["btc"].kind = "none") =>
        /\ s'.state = "CLAIMED" /\ ~s'.refund["btc"].available
        /\ Unarmed' => Bound(0)'
        /\ phase' = "poll" => Bound(lag)'
  BY <1>3 DEF AtomInv
<1>6. up' /\ s'.finish = armed'
  BY DEF AtomInv
<1> QED BY <1>1, <1>2, <1>4, <1>5, <1>6 DEF AtomInv, Calm

\* Joining, deriving and canceling happen before there is a deposit on record;
\* an arming names the deposits on record; a poll cut short keeps those.
LEMMA AtomOfPlain ==
  ASSUME Before, AtomInv, [Next]_vars,
         \/ \E r \in Role : Join(r)
         \/ \E h \in deriving : Derive(h)
         \/ \E r \in Role : Arm(r)
         \/ Cancel \/ WatchPollFails
  PROVE  AtomInv'
<1>1. Calm' /\ Replaceable'
  BY AtomBudgets DEF Before
<1>2. s \in Swap /\ armed \in [Role -> Bundle] /\ s.finish = armed
  BY Facts DEF Before, AtomInv
<1>3. \A l \in Leg : /\ s.short[l].id # 0 => dep[l].id # 0 /\ ~dep[l].ok
                     /\ s.funding[l].spent => spend[l].kind # "none"
  BY DEF AtomInv
<1>4. ASSUME NEW r \in Role, Join(r) PROVE AtomInv'
  <2> DEFINE n == [s EXCEPT !.joined = @ \cup {r}]
  <2>1. /\ n.state = s.state /\ n.lock = s.lock /\ n.funding = s.funding /\ n.short = s.short
        /\ n.preimage = s.preimage /\ n.wt = s.wt /\ n.refund = s.refund /\ n.finish = s.finish
    BY <1>2 DEF Swap
  <2>2. s' = n /\ UNCHANGED <<up, phase, height, dep, spend, revealed, lag, armed>>
    BY <1>4 DEF Join, SubmitParty, touch, untouched, chainVars
  <2> HIDE DEF n
  <2> QED BY <1>1, <1>2, <1>3, <2>1, <2>2, AtomRecord
<1>5. ASSUME NEW h \in deriving, Derive(h) PROVE AtomInv'
  <2> DEFINE n == [s EXCEPT !.lock = [l \in Leg |-> h[l] + Window[l]], !.state = "READY"]
  <2>1. /\ n.state = "READY" /\ n.funding = s.funding /\ n.short = s.short
        /\ n.preimage = s.preimage /\ n.wt = s.wt /\ n.refund = s.refund /\ n.finish = s.finish
    BY <1>2 DEF Swap
  <2>2. s' = n /\ UNCHANGED <<up, phase, height, dep, spend, revealed, lag, armed>>
    BY <1>5 DEF Derive, DeriveHtlcs, touch, chainVars, systemVars
  <2> HIDE DEF n
  <2>3. Unlocked(s)
    BY <1>5 DEF Before, AddressInv
  <2>4. s.state # "CLAIMABLE" /\ ~revealed
    BY <2>3, AtomFacts, Legs DEF Locked, Unlocked
  <2> QED BY <1>1, <1>2, <1>3, <2>1, <2>2, <2>4, AtomRecord
<1>6. ASSUME NEW r \in Role, Arm(r) PROVE AtomInv'
  <2> DEFINE b == Wanted(r)
             n == [s EXCEPT !.finish[r] = b]
  <2>1. b \in Bundle
    BY WantedType DEF Before
  <2>2. (r = "bob" /\ (s.state = "CLAIMABLE" \/ revealed)) => b.claim = s.funding["btc"].id
    <3>1. (s.state = "CLAIMABLE" \/ revealed) => \A l \in Leg : s.funding[l].id # 0
      BY AtomFacts
    <3> QED BY <3>1, Legs DEF Wanted, Funds
  <2>3. s' = n /\ armed' = [armed EXCEPT ![r] = b]
        /\ UNCHANGED <<up, phase, height, dep, spend, revealed, lag>>
    BY <1>6 DEF Arm, SubmitFinish, touch, chainVars
  <2> HIDE DEF b
  <2>4. /\ n.state = s.state /\ n.lock = s.lock /\ n.funding = s.funding /\ n.short = s.short
        /\ n.preimage = s.preimage /\ n.wt = s.wt /\ n.refund = s.refund
        /\ n.finish = [s.finish EXCEPT ![r] = b]
    BY <1>2 DEF Swap
  <2> HIDE DEF n
  <2>5. n.finish = armed'
    BY <1>2, <2>3, <2>4
  <2>6. n.finish["bob"] = IF r = "bob" THEN b ELSE s.finish["bob"]
    BY <1>2, <2>4, <2>1 DEF Role
  <2>7. s.state = "CLAIMABLE" \/ revealed
           => n.finish["bob"].claim \in {s.finish["bob"].claim, n.funding["btc"].id}
    BY <2>2, <2>4, <2>6
  <2> QED BY <1>1, <1>3, <2>3, <2>4, <2>5, <2>7, AtomRecord
<1>7. ASSUME Cancel PROVE AtomInv'
  <2> DEFINE n == [s EXCEPT !.state = "CANCELED"]
  <2>1. /\ n.state = "CANCELED" /\ n.lock = s.lock /\ n.funding = s.funding /\ n.short = s.short
        /\ n.preimage = s.preimage /\ n.wt = s.wt /\ n.refund = s.refund /\ n.finish = s.finish
    BY <1>2 DEF Swap
  <2>2. s' = n /\ UNCHANGED <<up, phase, height, dep, spend, revealed, lag, armed>>
    BY <1>7 DEF Cancel, CancelSwap, touch, chainVars, systemVars
  <2>3. \A l \in Leg : s.funding[l].id = 0
    BY <1>7 DEF Cancel, CancelSwap
  <2> HIDE DEF n
  <2>4. ~revealed
    BY <2>3, AtomFacts, Legs
  <2> QED BY <1>1, <1>2, <1>3, <2>1, <2>2, <2>4, AtomRecord
<1>8. ASSUME WatchPollFails PROVE AtomInv'
  <2>1. PICK n \in CutShort(s) : untouched(n)
    BY <1>8 DEF WatchPollFails, PollFails
  <2>2. s' = n /\ phase' = "watchtower"
        /\ UNCHANGED <<up, height, dep, spend, revealed, lag, armed>>
    BY <1>8, <2>1 DEF WatchPollFails, PollFails, chainVars, untouched
  <2>3. /\ n.state = s.state /\ n.lock = s.lock /\ n.finish = s.finish /\ n.preimage = s.preimage
        /\ n.wt = s.wt
    BY Facts, CutShortFields DEF SameTerms, SameCourse, Before
  <2>4. /\ n.refund = s.refund
        /\ \A l \in Leg :
             /\ s.funding[l].h # 0 => n.funding[l].id = s.funding[l].id
                                      /\ n.funding[l].h = s.funding[l].h
             /\ n.funding[l].spent => s.funding[l].spent \/ Gone(l, n.funding[l])
             /\ \/ n.short[l].id = s.short[l].id
                \/ Found(l, s.lock[l]) /\ ~dep[l].ok /\ n.short[l].id = dep[l].id
    BY Facts, CutShortDeposits DEF Before
  <2>5. RecordTrue(n)
    BY Facts, CutShortOK DEF Before, RecordsAreTrue
  <2>6. \A l \in Leg : Gone(l, n.funding[l]) => spend[l].kind # "none"
    BY <2>5 DEF RecordTrue, DepositTrue, Gone, IsUnspent
  <2>7. \A l \in Leg : /\ n.short[l].id # 0 => dep[l].id # 0 /\ ~dep[l].ok
                       /\ n.funding[l].spent => spend[l].kind # "none"
    BY <1>3, <2>4, <2>6
  <2> QED BY <1>1, <1>2, <2>2, <2>3, <2>4, <2>7, AtomRecord
<1> QED BY <1>4, <1>5, <1>6, <1>7, <1>8

\* A spend through the coordinator.
LEMMA AtomOfSend ==
  ASSUME Before, AtomInv, [Next]_vars,
         NEW r \in Role, NEW k \in Kind, NEW lost \in BOOLEAN, ClientSend(r, k, lost)
  PROVE  AtomInv'
<1> DEFINE l == TheLeg(r, k)
           n == applyEffects(s, l, k, lost)
<1>1. /\ l \in Leg /\ ~lost /\ s' = n
      /\ SameTerms(n, s) /\ n.refund = s.refund /\ SameDeposits(n, s)
      /\ n.preimage = (s.preimage \/ k = "claim")
      /\ n.state = IF k = "refund" THEN "REFUNDED" ELSE IF l = "btc" THEN "COMPLETE" ELSE "CLAIMED"
      /\ revealed' = (revealed \/ k = "claim")
      /\ Acts(r, k) /\ spend[l].kind = "none" /\ spend'[l].kind = k
      /\ \A m \in Leg : m # l => spend'[m] = spend[m]
      /\ UNCHANGED <<up, phase, height, dep, lag, armed>>
  <2>0. IndType
    BY DEF Before
  <2>a. /\ l \in Leg /\ (IF lost THEN untouched(n) ELSE touch(n))
        /\ lost => k = "claim" /\ left["lost"] > 0
    BY <2>0, SendFacts DEF Kind
  <2>b. SameTerms(n, s) /\ n.refund = s.refund /\ SameDeposits(n, s)
    BY <2>0, SendFacts DEF Kind
  <2>c. /\ n.preimage = (s.preimage \/ (k = "claim" /\ ~lost))
        /\ n.state = IF k = "refund" THEN "REFUNDED" ELSE IF lost THEN s.state
                     ELSE IF l = "btc" THEN "COMPLETE" ELSE "CLAIMED"
        /\ revealed' = (revealed \/ k = "claim")
    BY <2>0, SendFacts DEF Kind
  <2>d. /\ Acts(r, k) /\ Accepts(spend, l, Outpoint(r, k), k)
        /\ spend'[l] = [kind |-> k, at |-> 0, since |-> height[l]]
        /\ \A m \in Leg : m # l => spend'[m] = spend[m]
        /\ UNCHANGED <<up, phase, height, dep, lag, armed>>
    BY <2>0, SendFacts DEF Kind
  <2> HIDE DEF n, l
  <2>2. ~lost
    BY <2>a DEF AtomInv
  <2>3. s' = n
    BY <2>a, <2>2 DEF touch
  <2>4. spend[l].kind = "none" /\ spend'[l].kind = k
    BY <2>d DEF Accepts, IsUnspent
  <2> QED BY <2>a, <2>b, <2>c, <2>d, <2>2, <2>3, <2>4
<1>2. \A m \in Leg : n.funding[m].spent => s.funding[m].spent \/ m = l
  BY <1>1, ApplyEffectsFields, Facts DEF Before
<1>3. /\ l = IF k = "claim" THEN IF r = "alice" THEN "qbit" ELSE "btc"
             ELSE IF r = "alice" THEN "btc" ELSE "qbit"
      /\ r \in {"alice", "bob"} /\ k \in {"claim", "refund"}
  BY DEF TheLeg, Claims, Funds, Other, Role, Kind
<1> HIDE DEF n, l
<1>4. \A m \in Leg : /\ n.short[m].id # 0 => dep'[m].id # 0 /\ ~dep'[m].ok
                     /\ n.funding[m].spent => spend'[m].kind # "none"
  <2> TAKE m \in Leg
  <2>1. n.short[m].id # 0 => dep'[m].id # 0 /\ ~dep'[m].ok
    BY <1>1 DEF AtomInv, SameDeposits
  <2>2. CASE m = l
    BY <1>1, <1>3, <2>1, <2>2
  <2>3. CASE m # l
    BY <1>1, <1>2, <2>1, <2>3 DEF AtomInv
  <2> QED BY <2>2, <2>3
<1>5. /\ up' /\ n.finish = armed' /\ n.wt = s.wt /\ n.lock = s.lock
      /\ n.refund = s.refund /\ phase' = phase
      /\ n.funding["btc"].id = s.funding["btc"].id
      /\ \A m \in Leg : n.funding[m].h = s.funding[m].h
  BY <1>1, Legs DEF AtomInv, SameTerms, SameDeposits
<1>6. /\ Unarmed' <=> Unarmed
      /\ Bound(0)' <=> Bound(0)
      /\ Bound(lag)' <=> Bound(lag)
  BY <1>1, <1>5 DEF Unarmed, Bound, SameTerms
<1>7. Calm' /\ Replaceable'
  BY AtomBudgets DEF Before
<1>8. CASE k = "claim" /\ r = "alice"
  <2>1. ~revealed /\ s.state = "CLAIMABLE" /\ l = "qbit"
    BY <1>8, <1>1, <1>3 DEF Acts, AtomInv
  <2>2. Bound(lag)
    BY <2>1 DEF Before, TimeInv
  <2>3. spend["btc"].kind # "refund"
    BY <2>1, <2>2, AtomTime, Legs
  <2>4. /\ n.preimage /\ n.state = "CLAIMED" /\ revealed' /\ spend'["qbit"].kind = "claim"
        /\ spend'["btc"] = spend["btc"]
    BY <1>1, <1>8, <2>1, Legs
  <2>5. <<"bob", "claim">> \in n.wt => spend'["btc"].kind = "claim"
    BY <1>5, <2>4 DEF AtomInv
  <2>6. \A m \in Leg : n.funding[m].h # 0
    BY <1>5, <2>1 DEF AtomInv
  <2>7. ~n.refund["btc"].available /\ (Unarmed' => Bound(0)') /\ Bound(lag)'
    BY <1>5, <1>6, <2>1, <2>2 DEF AtomInv
  <2> QED BY <1>1, <1>4, <1>5, <1>7, <2>3, <2>4, <2>5, <2>6, <2>7 DEF AtomInv, Calm
<1>9. CASE k = "claim" /\ r = "bob"
  <2>1. revealed /\ l = "btc"
    BY <1>9, <1>1, <1>3 DEF Acts, Before, RevealInv
  <2>2. /\ n.preimage /\ n.state = "COMPLETE" /\ spend'["btc"].kind = "claim"
        /\ spend'["qbit"] = spend["qbit"]
    BY <1>1, <1>9, <2>1, Legs
  <2>3. \A m \in Leg : spend'[m].kind = "claim" /\ n.funding[m].h # 0
    BY <1>5, <2>1, <2>2 DEF AtomInv, Leg
  <2> QED BY <1>1, <1>4, <1>5, <1>7, <2>2, <2>3, Legs DEF AtomInv, Calm
<1>10. CASE k = "refund"
  <2>1. ~revealed
    <3>1. CASE r = "alice"
      <4>1. l = "btc"
        BY <1>10, <3>1, <1>3
      <4>2. s.refund["btc"].available /\ spend["btc"].kind = "none"
        <5>1. l = TheLeg(r, k) /\ Acts(r, k)
          BY <1>1 DEF l
        <5>2. s.refund[TheLeg(r, k)].available
          BY <1>10, <3>1, <5>1 DEF Acts
        <5> QED BY <1>1, <4>1, <5>1, <5>2
      <4> QED BY <4>2 DEF AtomInv
    <3>2. CASE r = "bob"
      BY <1>10, <3>2, <1>1, <1>3 DEF Acts, AtomInv
    <3> QED BY <1>3, <3>1, <3>2
  <2>2. ~revealed' /\ n.state = "REFUNDED"
    BY <1>1, <1>10, <2>1
  <2>3. <<"bob", "claim">> \notin n.wt
    BY <1>5, <2>1 DEF Before, RevealInv, Role
  <2> QED BY <1>1, <1>4, <1>5, <1>7, <2>2, <2>3 DEF AtomInv, Calm
<1> QED BY <1>3, <1>8, <1>9, <1>10

\* A poll: what it finds it finds in time, and it takes a published preimage
\* for what it is.
LEMMA AtomOfPoll ==
  ASSUME Before, AtomInv, [Next]_vars, WatchPoll \/ WatchPollMisses
  PROVE  AtomInv'
<1>1. PICK named \in SUBSET Leg : Poll(named) /\ lag' = 0 /\ UNCHANGED armed
  BY DEF WatchPoll, WatchPollMisses
<1>2. Calm' /\ Replaceable'
  BY AtomBudgets DEF Before
<1>3. phase = "poll" /\ phase' = "watchtower" /\ UNCHANGED <<up, height, dep, spend, revealed>>
  BY <1>1 DEF Poll, chainVars
<1>0. IndType /\ RecordTrue(s) /\ Trusted = {}
  BY DEF Before, RecordsAreTrue
<1>4. CASE ~Polls(s)
  <2>1. s' = s /\ s.state \notin {"CLAIMABLE", "CLAIMED"}
    BY <1>1, <1>4 DEF Poll, Polls, TERMINAL
  <2>2. ~(s.state = "CLAIMABLE" \/ (revealed /\ spend["btc"].kind = "none"))
    BY <2>1 DEF AtomInv
  <2>3. \A l \in Leg : s.short[l].id # 0 => dep'[l].id # 0 /\ ~dep'[l].ok
    BY <1>3 DEF AtomInv
  <2> QED BY <1>1, <1>2, <1>3, <2>1, <2>2, <2>3, AtomChain
<1>5. CASE Polls(s)
  <2> DEFINE q == poll(s, named)
  <2>1. s' = q /\ q \in Swap /\ RecordTrue(q)
    BY <1>0, <1>1, <1>5, PollFacts, PollOK, Facts DEF touch
  <2>2. /\ SameTerms(q, s)
        /\ s.preimage => q.preimage
        /\ q.preimage => s.preimage \/ \E l \in Leg : spend[l].kind = "claim"
        /\ \A l \in Leg : Polled(q, s, l)
    BY <1>0, PollFields, Facts
  <2>3. /\ q.state = IF Settled(q) THEN "COMPLETE"
                     ELSE IF s.state \in {"CLAIMED", "CANCELED"} THEN s.state
                     ELSE FundedState(q)
        /\ \A l \in Leg : q.refund[l].available => height[l] >= q.lock[l]
    BY <1>0, PollFields, Facts
  <2>4. q.state = "CLAIMABLE"
          => /\ height["qbit"] + Target["qbit"] + RevealBuffer <= q.lock["qbit"]
             /\ \A l \in Leg : Buried(q, l) /\ q.funding[l].id # 0
    BY <1>0, <1>5, PollInTime
  <2> HIDE DEF q
  <2>5. q.state = "COMPLETE" => Settled(q)
    <3>1. FundedState(q) # "COMPLETE" /\ s.state # "COMPLETE"
      BY <1>5 DEF FundedState, Polls, TERMINAL
    <3> QED BY <2>3, <3>1
  <2>6. \A l \in Leg : /\ q.short[l].id # 0 => dep[l].id # 0 /\ ~dep[l].ok
                       /\ q.funding[l].spent => spend[l].kind # "none"
                       /\ s.funding[l].h # 0 => q.funding[l].h = s.funding[l].h
                                                /\ q.funding[l].id = s.funding[l].id
    <3> TAKE l \in Leg
    <3>1. /\ q.funding[l].spent => s.funding[l].spent \/ Gone(l, q.funding[l])
          /\ \/ q.short[l].id = s.short[l].id
             \/ Found(l, s.lock[l]) /\ ~dep[l].ok /\ q.short[l].id = dep[l].id
          /\ s.funding[l].h # 0 => q.funding[l].h = s.funding[l].h
                                   /\ q.funding[l].id = s.funding[l].id
      BY <2>2 DEF Polled, LooksUp
    <3>2. Gone(l, q.funding[l]) => spend[l].kind # "none"
      BY <2>1 DEF RecordTrue, DepositTrue, Gone, IsUnspent
    <3> QED BY <3>1, <3>2 DEF AtomInv
  <2>7. q.state = "CLAIMABLE" => \A l \in Leg : q.funding[l].h # 0
    BY <1>0, <2>4 DEF Buried
  <2>8. q.preimage => revealed
    BY <2>2 DEF Before, RevealInv
  <2>9. q.state = "COMPLETE" => \A l \in Leg : spend[l].kind = "claim"
    <3>1. spend["btc"].kind \in {"none", "claim", "refund"}
      BY <1>0, Facts, Legs DEF Spend, Kind
    <3> QED BY <2>5, <2>6, <2>8, <3>1, Legs DEF Settled, AtomInv, Leg
  <2>10. q.lock = s.lock /\ q.finish = s.finish /\ q.wt = s.wt
    BY <2>2 DEF SameTerms
  <2>11. q.state = "CLAIMABLE" => Bound(0)' /\ ~q.refund["btc"].available
    <3> SUFFICES ASSUME q.state = "CLAIMABLE" PROVE Bound(0)' /\ ~q.refund["btc"].available
      OBVIOUS
    <3>1. s.lock["qbit"] \in Nat /\ s.lock["btc"] \in Nat /\ height["btc"] \in Nat
      BY <1>0, Facts, FieldTypes, Legs
    <3>2. height["qbit"] + Target["qbit"] + RevealBuffer <= s.lock["qbit"] + 0
      BY <2>4, <2>10, <3>1
    <3>3. Bound(0) /\ (Bound(0))'
      BY <1>3, <2>1, <2>10, <3>2 DEF Bound
    <3>4. dep["qbit"].id # 0
      BY <2>1, <2>4, <2>7, Legs DEF RecordTrue, DepositTrue
    <3>5. height["btc"] < s.lock["btc"]
      BY <3>3, <3>4, BoundGrows, NoRefundYet, Legs DEF Before
    <3>6. ~(height["btc"] >= s.lock["btc"])
      BY <3>1, <3>5
    <3> QED BY <2>3, <2>10, <3>3, <3>6, Legs
  <2>12. (revealed /\ spend["btc"].kind = "none") =>
           q.state = "CLAIMED" /\ ~q.refund["btc"].available /\ (Unarmed' => Bound(0)')
    <3> SUFFICES ASSUME revealed, spend["btc"].kind = "none"
                 PROVE  q.state = "CLAIMED" /\ ~q.refund["btc"].available
                        /\ (Unarmed' => Bound(0)')
      OBVIOUS
    <3>1. s.state = "CLAIMED" /\ Bound(lag) /\ (Unarmed => Bound(0)) /\ s.funding["btc"].h # 0
      BY <1>3, Legs DEF AtomInv
    <3>2. ~Settled(q)
      BY <2>6, Legs DEF Settled
    <3>3. height["btc"] < s.lock["btc"]
      BY <3>1, AtomTime, Legs
    <3>4. s.lock["btc"] \in Nat /\ height["btc"] \in Nat
      BY <1>0, Facts, FieldTypes, Legs
    <3>5. ~(height["btc"] >= s.lock["btc"])
      BY <3>3, <3>4
    <3>6. (Unarmed)' => Unarmed
      BY <2>1, <2>6, <2>10, <3>1, Legs DEF Unarmed
    <3>7. Bound(0) => (Bound(0))'
      BY <1>3, <2>1, <2>10 DEF Bound
    <3> QED BY <2>3, <2>10, <3>1, <3>2, <3>5, <3>6, <3>7, Legs
  <2>13. \A l \in Leg : /\ s'.short[l].id # 0 => dep'[l].id # 0 /\ ~dep'[l].ok
                        /\ s'.funding[l].spent => spend'[l].kind # "none"
                        /\ s'.state = "CLAIMABLE" \/ revealed' => s'.funding[l].h # 0
    BY <1>3, <2>1, <2>6, <2>7 DEF AtomInv
  <2>14. /\ revealed' => /\ s'.preimage /\ spend'["qbit"].kind = "claim"
                         /\ spend'["btc"].kind # "refund"
         /\ <<"bob", "claim">> \in s'.wt => spend'["btc"].kind = "claim"
         /\ s'.state = "COMPLETE" => \A l \in Leg : spend'[l].kind = "claim"
         /\ up' /\ s'.finish = armed'
    BY <1>1, <1>3, <2>1, <2>2, <2>9, <2>10 DEF AtomInv
  <2> QED BY <1>2, <1>3, <2>1, <2>11, <2>12, <2>13, <2>14 DEF AtomInv, Calm
<1> QED BY <1>4, <1>5

\* The watchtower starts from what the invariant says.
LEMMA AtomStart ==
  ASSUME Before, AtomInv, NEW o, o = [s |-> s, spend |-> spend, thrown |-> FALSE]
  PROVE  /\ AtomStep(o)
         /\ o.s.state = "CLAIMABLE" => Public(o) \/ o.spend["btc"].kind = "none"
         /\ Public(o) <=> revealed
<1>1. o.s = s /\ o.spend = spend /\ o.thrown = FALSE
  OBVIOUS
<1>2. o \in Step
  BY Facts DEF Before, Step
<1>3. Public(o) <=> revealed
  BY <1>1 DEF Public, Before, RevealInv
<1> HIDE DEF Public
<1>4. /\ o.s.finish = s.finish /\ SameDeposits(o.s, s)
      /\ \A l \in Leg : o.s.funding[l].spent => o.spend[l].kind # "none"
      /\ Public(o) => o.s.preimage /\ o.spend["qbit"].kind = "claim" /\ o.spend["btc"].kind # "refund"
      /\ <<"bob", "claim">> \in o.s.wt => o.spend["btc"].kind = "claim"
      /\ o.s.state = "COMPLETE" => \A l \in Leg : o.spend[l].kind = "claim"
      /\ (Public(o) /\ o.spend["btc"].kind = "none") => o.s.state = "CLAIMED"
  BY <1>1, <1>3 DEF AtomInv, SameDeposits
<1>5. /\ o.s.preimage => Public(o)
      /\ \A r \in Role : <<r, "claim">> \in o.s.wt => Public(o)
  BY <1>1, <1>3 DEF Before, RevealInv
<1>6. AtomStep(o)
  BY <1>1, <1>2, <1>4, <1>5 DEF AtomStep
<1>7. ASSUME s.state = "CLAIMABLE", ~revealed PROVE spend["btc"].kind = "none"
  <2>1. Bound(lag)
    BY <1>7 DEF Before, TimeInv
  <2>2. spend["btc"].kind # "refund"
    BY <1>7, <2>1, AtomTime, Legs
  <2>3. spend["btc"].kind \in {"none", "claim", "refund"}
    BY Facts, Legs DEF Before, Spend, Kind
  <2> QED BY <1>7, <2>2, <2>3, Legs DEF Before, RevealInv
<1> QED BY <1>1, <1>3, <1>6, <1>7

LEMMA AtomOfDrive ==
  ASSUME Before, AtomInv, [Next]_vars, NEW lost \in BOOLEAN, WatchDrive(lost)
  PROVE  AtomInv'
<1>0. IndType
  BY DEF Before
<1>1. Calm' /\ Replaceable'
  BY <1>0, AtomBudgets
<1>2. ~lost
  BY DEF WatchDrive, Use, AtomInv
<1>3. phase' = "poll" /\ UNCHANGED <<up, height, dep, lag, armed>>
  BY DEF WatchDrive, DriveWatchtower
<1>4. CASE ~Drives(s)
  <2>1. UNCHANGED <<s, spend>> /\ (revealed' <=> revealed)
    BY <1>4 DEF WatchDrive, DriveWatchtower, Before, RevealInv
  <2>2. s.state \notin {"CLAIMABLE", "CLAIMED"}
    BY <1>4 DEF Drives, TERMINAL
  <2>3. ~(revealed /\ spend["btc"].kind = "none")
    BY <2>2 DEF AtomInv
  <2> QED BY <1>1, <1>3, <2>1, <2>2, <2>3 DEF AtomInv, Calm
<1>5. CASE Drives(s)
  <2> DEFINE o == [s |-> s, spend |-> spend, thrown |-> FALSE]
  <2>1. PICK x : /\ x = drive(o, lost)
                 /\ Moved(x, s, spend)
                 /\ IF x.thrown THEN untouched(x.s) ELSE touch(x.s)
                 /\ spend' = x.spend
                 /\ revealed' = (revealed \/ \E l \in Leg : x.spend[l].kind = "claim")
    BY <1>0, <1>5, WatchFacts
  <2>2. /\ AtomStep(o) /\ (Public(o) <=> revealed)
        /\ o.s.state = "CLAIMABLE" => Public(o) \/ o.spend["btc"].kind = "none"
    BY AtomStart
  <2> HIDE DEF o
  <2>a. x = drive(o, FALSE)
    BY <1>2, <2>1
  <2>3. /\ AtomStep(x)
        /\ (/\ Public(x) /\ ~Unarmed
            /\ \A l \in Leg : s.short[l].id = 0
            /\ s.funding["btc"].id # 0 /\ dep["btc"].id = s.funding["btc"].id
            /\ dep["btc"].st # "none") => x.spend["btc"].kind # "none"
    BY <1>0, <2>2, <2>a, AtomDrive
  <2>4. s' = x.s /\ (revealed' <=> Public(x))
    BY <2>1, <2>3 DEF AtomStep, touch, Public
  <2>5. /\ x.s.lock = s.lock /\ x.s.finish = s.finish /\ x.s.refund = s.refund
        /\ SameDeposits(x.s, s)
        /\ x.s.state \in {s.state, "CLAIMED", "COMPLETE", "REFUNDED"}
        /\ SpendMoves(x, spend)
    BY <2>1 DEF Moved
  <2>6. revealed' => s.state = "CLAIMABLE" \/ revealed
    BY <1>0, RevealStep DEF Before, AtomInv
  <2>7. x.spend["btc"].kind = "none" => spend["btc"].kind = "none"
    BY <2>5, Legs DEF SpendMoves
  <2>8. /\ Unarmed' <=> Unarmed
        /\ Bound(0)' <=> Bound(0)
        /\ Bound(lag)' <=> Bound(lag)
    BY <1>3, <2>4, <2>5, Legs DEF Unarmed, Bound, SameDeposits
  <2>9. \A l \in Leg : /\ s'.short[l].id # 0 => dep'[l].id # 0 /\ ~dep'[l].ok
                       /\ s'.funding[l].spent => spend'[l].kind # "none"
                       /\ s'.state = "CLAIMABLE" \/ revealed' => s'.funding[l].h # 0
    <3>1. \A l \in Leg : s'.short[l].id # 0 => dep'[l].id # 0 /\ ~dep'[l].ok
      BY <1>3, <2>4, <2>5 DEF AtomInv, SameDeposits
    <3>2. \A l \in Leg : s'.funding[l].spent => spend'[l].kind # "none"
      BY <2>1, <2>3, <2>4 DEF AtomStep
    <3>3. s'.state = "CLAIMABLE" \/ revealed' => s.state = "CLAIMABLE" \/ revealed
      BY <2>4, <2>5, <2>6
    <3>4. \A l \in Leg : s'.state = "CLAIMABLE" \/ revealed' => s'.funding[l].h # 0
      BY <2>4, <2>5, <3>3 DEF AtomInv, SameDeposits
    <3> QED BY <3>1, <3>2, <3>4
  <2>10. /\ revealed' => /\ s'.preimage /\ spend'["qbit"].kind = "claim"
                         /\ spend'["btc"].kind # "refund"
         /\ <<"bob", "claim">> \in s'.wt => spend'["btc"].kind = "claim"
         /\ s'.state = "COMPLETE" => \A l \in Leg : spend'[l].kind = "claim"
    BY <2>1, <2>3, <2>4 DEF AtomStep
  <2>11. s'.state = "CLAIMABLE" => ~s'.refund["btc"].available /\ (Unarmed' => Bound(0)')
    BY <2>4, <2>5, <2>8 DEF AtomInv
  <2>12. ASSUME revealed', spend'["btc"].kind = "none"
         PROVE  /\ s'.state = "CLAIMED" /\ ~s'.refund["btc"].available
                /\ (Unarmed)' => (Bound(0))'
                /\ (Bound(lag))'
    <3>1. x.s.state = "CLAIMED" /\ spend["btc"].kind = "none"
      BY <2>1, <2>3, <2>4, <2>7, <2>12 DEF AtomStep
    <3>2. ~s.refund["btc"].available /\ (Unarmed => Bound(0))
      BY <2>6, <2>12, <3>1 DEF AtomInv
    <3>3. s.state = "CLAIMABLE" \/ revealed
      BY <2>6, <2>12
    <3>4. Unarmed
      <4>1. \A l \in Leg : /\ s.funding[l].id # 0 /\ s.short[l].id = 0
                           /\ dep[l].id = s.funding[l].id /\ dep[l].st = "confirmed"
        BY <3>3, AtomFacts
      <4> QED BY <2>1, <2>3, <2>4, <2>12, <4>1, Legs
    <3>5. Bound(lag)
      BY <1>0, <3>2, <3>4, BoundGrows
    <3> QED BY <2>4, <2>5, <2>8, <3>1, <3>2, <3>5
  <2>13. up' /\ s'.finish = armed'
    BY <1>3, <2>4, <2>5 DEF AtomInv
  <2> QED BY <1>1, <2>9, <2>10, <2>11, <2>12, <2>13 DEF AtomInv, Calm
<1> QED BY <1>4, <1>5

\* Every step keeps the invariant; what the budgets exclude cannot happen.
LEMMA NextAtom ==
  ASSUME Before, AtomInv, [Next]_vars
  PROVE  AtomInv'
<1>1. ASSUME NEW l \in Leg, Evict(l) \/ Unmine(l) PROVE FALSE
  BY <1>1 DEF Evict, Unmine, Use, AtomInv
<1>2. ASSUME NEW r \in Role, NEW k \in Kind, DirectSend(r, k) PROVE FALSE
  BY <1>2 DEF DirectSend, Use, AtomInv
<1>3. ~Stop /\ ~Boot
  BY DEF Stop, Use, Boot, Restart, AtomInv
<1>4. CASE \E l \in Leg : Mine(l)
  BY <1>4, AtomOfMine
<1>5. CASE \E r \in Role, k \in Kind, lost \in BOOLEAN : ClientSend(r, k, lost)
  BY <1>5, AtomOfSend
<1>6. CASE \E lost \in BOOLEAN : WatchDrive(lost)
  BY <1>6, AtomOfDrive
<1> QED
  BY <1>1, <1>2, <1>3, <1>4, <1>5, <1>6, AtomOfStill, AtomOfPlain, AtomOfPoll DEF Next

-----------------------------------------------------------------------------
\* The theorems.

\* The coordinator does not stop and no witness read fails; blocks, and spends
\* that are in a mempool, stay; a deposit is not replaced if it can fall short
\* of the terms; the parties' tabs are open until they have armed; and the two
\* timelocks are far enough apart.
Steady ==
  /\ \A b \in Budgets :
       /\ \A e \in {"crash", "lost", "evict", "reorg", "direct", "resubmit"} : b[e] = 0
       /\ b["deposit"] = 0 \/ b["short"] = 0
  /\ StayOpen /\ Trusted = {} /\ WindowsApart

\* The invariants above hold in a steady system.
LEMMA SteadyInvariants ==
  ASSUME Steady
  PROVE  Spec => [](IndType /\ AddressInv /\ RevealInv /\ TimeInv /\ RecordsAreTrue)
<1>1. Spec => []AddressInv
  BY AddressesStay DEF Steady
<1>2. Spec => []TimeInv
  BY ClaimsHaveTime DEF Steady
<1>3. Spec => []RecordsAreTrue
  BY RecordsStayTrue DEF Steady
<1> QED BY <1>1, <1>2, <1>3, RevealedIsPublic, WellTyped, PTL

\* In a steady system a public preimage means that the buyer has claimed, and
\* that the seller has or is about to, in time.
THEOREM SwapsAreAtomic ==
  ASSUME Steady
  PROVE  Spec => []AtomInv
<1>1. Init => AtomInv
  BY DEF Init, ChainInit, EngineInit, AtomInv, Replaceable, Steady, Created, NoFunding, NoBundle,
     Unarmed, NoSpend
<1>2. ASSUME IndType, AddressInv, RevealInv, TimeInv, RecordsAreTrue, AtomInv, [Next]_vars
      PROVE  AtomInv'
  BY <1>2, NextAtom DEF Before, Steady
<1> QED BY <1>1, <1>2, SteadyInvariants, PTL DEF Spec

\* A swap shown as COMPLETE has both claims in a mempool or a block.
THEOREM CompletesClaimed ==
  ASSUME Steady
  PROVE  Spec => []CompleteMeansClaimed
<1>1. AtomInv => CompleteMeansClaimed
  BY DEF AtomInv, CompleteMeansClaimed
<1> QED BY <1>1, SwapsAreAtomic, PTL

\* Nobody ends with both coins.
THEOREM NobodyTakesBoth ==
  ASSUME Steady
  PROVE  Spec => []NoOneTakesBoth
<1>1. IndType /\ RevealInv /\ AtomInv => NoOneTakesBoth
  <2> SUFFICES ASSUME IndType, RevealInv, AtomInv, NEW l \in Leg,
                      Outcome(l) = "claimed", Outcome(Other(l)) = "refunded"
               PROVE  FALSE
    BY DEF NoOneTakesBoth
  <2>1. spend[l].kind = "claim" /\ spend[Other(l)].kind \notin {"none", "claim"}
    BY DEF Outcome
  <2>2. spend["qbit"].kind = "claim" /\ spend["btc"].kind # "refund"
    BY <2>1 DEF RevealInv, AtomInv
  <2>3. spend["btc"].kind \in {"none", "claim", "refund"}
    BY Facts, Legs DEF Spend, Kind
  <2> QED BY <2>1, <2>2, <2>3, Legs DEF Leg
<1> QED BY <1>1, SwapsAreAtomic, RevealedIsPublic, WellTyped, PTL

\* Apart from a block, a step only adds spends that are not mined yet.
LEMMA OnlyBlocksSettle ==
  ASSUME IndType, AtomInv, [Next]_vars, \A l \in Leg : ~Mine(l), NEW m \in Leg
  PROVE  Outcome(m)' = Outcome(m)
<1> DEFINE Adds == \A l \in Leg : \/ spend'[l] = spend[l]
                                  \/ spend[l].kind = "none" /\ spend'[l].at = 0
<1>1. ASSUME NEW l \in Leg, Evict(l) \/ Unmine(l) PROVE FALSE
  BY <1>1 DEF Evict, Unmine, Use, AtomInv
<1>2. ASSUME NEW r \in Role, NEW k \in Kind, DirectSend(r, k) PROVE FALSE
  BY <1>2 DEF DirectSend, Use, AtomInv
<1>3. ASSUME \/ \E r \in Role : Join(r)
             \/ \E h \in deriving : Derive(h)
             \/ \E r \in Role : Arm(r)
             \/ Cancel \/ WatchPollFails
      PROVE  Adds
  <2>1. spend' = spend
    BY <1>3, PlainFacts
  <2> QED BY <2>1
<1>4. ASSUME NEW r \in Role, NEW k \in Kind, NEW lost \in BOOLEAN, ClientSend(r, k, lost)
      PROVE  Adds
  <2> DEFINE l == TheLeg(r, k)
  <2>1. /\ Accepts(spend, l, Outpoint(r, k), k)
        /\ spend'[l] = [kind |-> k, at |-> 0, since |-> height[l]]
        /\ \A i \in Leg : i # l => spend'[i] = spend[i]
    BY <1>4, SendFacts DEF Kind
  <2> HIDE DEF l
  <2>2. spend[l].kind = "none" /\ spend'[l].at = 0
    BY <2>1 DEF Accepts, IsUnspent
  <2> QED BY <2>1, <2>2
<1>5. ASSUME NEW lost \in BOOLEAN, WatchDrive(lost) PROVE Adds
  <2>1. CASE ~Drives(s)
    BY <1>5, <2>1 DEF WatchDrive, DriveWatchtower
  <2>2. CASE Drives(s)
    <3>1. PICK x : SpendMoves(x, spend) /\ spend' = x.spend
      BY <1>5, <2>2, WatchFacts DEF Moved
    <3>2. ASSUME NEW l \in Leg, spend'[l] # spend[l]
          PROVE  spend[l].kind = "none" /\ spend'[l].at = 0
      <4>1. spend[l].kind = "none"
            /\ \E k \in Kind : x.spend[l] = [kind |-> k, at |-> 0, since |-> height[l]]
        BY <3>1, <3>2 DEF SpendMoves
      <4> QED BY <3>1, <4>1
    <3> QED BY <3>2
  <2> QED BY <2>1, <2>2
<1>6. ASSUME \/ \E h \in deriving : DeriveError(h)
             \/ \E r \in Role : ShowHtlc(r)
             \/ \E r \in Role, ok \in BOOLEAN : MakeDeposit(r, ok)
             \/ \E l \in Leg : Drop(l)
             \/ WatchPoll \/ WatchPollMisses \/ Stop \/ Boot \/ UNCHANGED vars
      PROVE  Adds
  <2>1. spend' = spend
    BY <1>6 DEF DeriveError, DeriveFails, ShowHtlc, MakeDeposit, Drop, DropDeposit, WatchPoll,
       WatchPollMisses, Poll, Stop, Crash, Boot, Restart, vars, chainVars
  <2> QED BY <2>1
<1>7. Adds
  BY <1>1, <1>2, <1>3, <1>4, <1>5, <1>6 DEF Next
<1>8. spend'[m] = spend[m] \/ (spend[m].kind = "none" /\ spend'[m].at = 0)
  BY <1>7
<1> QED BY <1>8 DEF Outcome

\* What is public stays public.
LEMMA RevealGrows ==
  ASSUME IndType, [Next]_vars, revealed
  PROVE  revealed'
<1>1. CASE Quiet
  BY <1>1 DEF Quiet
<1>2. CASE Boot
  BY <1>2 DEF Boot, Restart, chainVars
<1>3. CASE \/ \E r \in Role : Join(r)
           \/ \E h \in deriving : Derive(h)
           \/ \E r \in Role : Arm(r)
           \/ Cancel \/ WatchPollFails
  BY <1>3, PlainFacts
<1>4. ASSUME NEW r \in Role, NEW k \in Kind, NEW lost \in BOOLEAN, ClientSend(r, k, lost)
      PROVE  revealed'
  BY <1>4 DEF ClientSend, Broadcast
<1>5. ASSUME NEW named \in SUBSET Leg, Polls(s), Poll(named) PROVE revealed'
  BY <1>5 DEF Poll, chainVars
<1>6. ASSUME NEW lost \in BOOLEAN, Drives(s), WatchDrive(lost) PROVE revealed'
  BY <1>6, WatchFacts
<1> QED BY <1>1, <1>2, <1>3, <1>4, <1>5, <1>6, Moves DEF Handles

\* What a block does to the outcomes.
LEMMA BlockSettles ==
  ASSUME IndType, NEW l \in Leg, Mine(l)
  PROVE  /\ revealed' = revealed
         /\ \A m \in Leg : m # l => Outcome(m)' = Outcome(m)
         /\ \/ Outcome(l)' = Outcome(l)
            \/ /\ Outcome(l) = "open" /\ spend[l].kind # "none"
               /\ Outcome(l)' = IF spend[l].kind = "claim" THEN "claimed" ELSE "refunded"
<1> DEFINE v == [spend[l] EXCEPT !.at = height[l] + 1, !.since = 0]
<1>1. /\ revealed' = revealed
      /\ \/ spend' = spend
         \/ spend' = [spend EXCEPT ![l] = v] /\ spend[l].kind # "none" /\ spend[l].at = 0
  BY DEF Mine, MineBlock
<1>2. spend \in [Leg -> Spend] /\ height[l] \in Nat
  BY Facts
<1>3. v.kind = spend[l].kind /\ v.at = height[l] + 1 /\ v.at # 0
  BY <1>2 DEF Spend
<1> HIDE DEF v
<1>4. CASE spend' = spend
  BY <1>1, <1>4 DEF Outcome
<1>5. CASE spend' = [spend EXCEPT ![l] = v] /\ spend[l].kind # "none" /\ spend[l].at = 0
  <2>1. spend'[l] = v /\ \A m \in Leg : m # l => spend'[m] = spend[m]
    BY <1>2, <1>5
  <2>2. \A m \in Leg : m # l => Outcome(m)' = Outcome(m)
    BY <2>1 DEF Outcome
  <2>3. /\ Outcome(l) = "open"
        /\ Outcome(l)' = IF spend[l].kind = "claim" THEN "claimed" ELSE "refunded"
    BY <1>3, <1>5, <2>1 DEF Outcome
  <2> QED BY <1>1, <1>5, <2>2, <2>3
<1> QED BY <1>1, <1>4, <1>5

\* Each step is one of AtomicSwap, or stutters.
LEMMA StepsImplement ==
  ASSUME Before, AtomInv, [Next]_vars
  PROVE  [Promise!Next]_<<[l \in Leg |-> Outcome(l)], revealed>>
<1> DEFINE out == [l \in Leg |-> Outcome(l)]
<1>0. IndType /\ Leg = Promise!Legs
  BY DEF Before, Leg, Promise!Legs
<1>1. \A l \in Leg : /\ spend[l].kind \in {"none", "claim", "refund"}
                     /\ spend[l].kind = "claim" => revealed
  BY Facts DEF Before, RevealInv, Spend, Kind
<1>2. revealed => \A l \in Leg : spend[l].kind # "refund"
  BY DEF AtomInv, Leg
<1>3. \A l \in Leg : /\ out[l] = Outcome(l)
                     /\ out[l] = "claimed" => spend[l].kind = "claim"
                     /\ out[l] = "refunded" => spend[l].kind = "refund"
                     /\ spend[l].kind = "none" => out[l] = "open"
  BY <1>1 DEF Outcome
<1>4. ASSUME NEW l \in Leg, Mine(l)
      PROVE  [Promise!Next]_<<out, revealed>>
  <2>1. /\ revealed' = revealed
        /\ \A m \in Leg : m # l => Outcome(m)' = Outcome(m)
        /\ \/ Outcome(l)' = Outcome(l)
           \/ /\ Outcome(l) = "open" /\ spend[l].kind # "none"
              /\ Outcome(l)' = IF spend[l].kind = "claim" THEN "claimed" ELSE "refunded"
    BY <1>0, <1>4, BlockSettles
  <2>2. CASE Outcome(l)' = Outcome(l)
    <3>1. \A m \in Leg : Outcome(m)' = Outcome(m)
      BY <2>1, <2>2
    <3>2. out' = out
      BY <3>1
    <3> QED BY <2>1, <3>2
  <2>3. CASE Outcome(l) = "open" /\ spend[l].kind = "claim" /\ Outcome(l)' = "claimed"
    <3>1. out' = [out EXCEPT ![l] = "claimed"]
      BY <2>1, <2>3
    <3>2. revealed /\ \A m \in Leg : out[m] # "refunded"
      BY <1>1, <1>2, <1>3, <2>3
    <3> HIDE DEF out
    <3>3. Promise!Claim(l)
      BY <1>0, <1>3, <2>1, <2>3, <3>1, <3>2 DEF Promise!Claim, out
    <3> QED BY <1>0, <3>3 DEF Promise!Next
  <2>4. CASE Outcome(l) = "open" /\ spend[l].kind = "refund" /\ Outcome(l)' = "refunded"
    <3>1. out' = [out EXCEPT ![l] = "refunded"]
      BY <2>1, <2>4
    <3>2. \A m \in Leg : out[m] # "claimed"
      BY <1>1, <1>2, <1>3, <2>4
    <3> HIDE DEF out
    <3>3. Promise!Refund(l)
      BY <1>0, <1>3, <2>1, <2>4, <3>1, <3>2 DEF Promise!Refund, out
    <3> QED BY <1>0, <3>3 DEF Promise!Next
  <2> QED BY <1>1, <2>1, <2>2, <2>3, <2>4
<1>5. CASE \A l \in Leg : ~Mine(l)
  <2>1. \A l \in Leg : Outcome(l)' = Outcome(l)
    BY <1>0, <1>5, OnlyBlocksSettle
  <2>2. out' = out
    BY <2>1
  <2>3. CASE revealed' = revealed
    BY <2>2, <2>3
  <2>4. CASE revealed' # revealed
    <3>1. revealed \in BOOLEAN /\ revealed' \in BOOLEAN
      <4>1. IndType'
        BY <1>0, NextOK DEF Kept
      <4> QED BY <1>0, <4>1, Facts DEF IndType, TypeOK, ChainTypeOK
    <3>2. ~(revealed /\ ~revealed')
      BY <1>0, RevealGrows
    <3>3. ~revealed /\ revealed' /\ s.state = "CLAIMABLE"
      BY <1>0, <2>4, <3>1, <3>2, RevealStep DEF Before, AtomInv
    <3>4. Bound(lag)
      BY <3>3 DEF Before, TimeInv
    <3>5. \A l \in Leg : out[l] = "open"
      BY <1>1, <1>3, <3>3, <3>4, AtomTime
    <3> HIDE DEF out
    <3>6. Promise!Publish
      BY <1>0, <2>2, <3>1, <3>3, <3>5 DEF Promise!Publish, out
    <3> QED BY <3>6 DEF Promise!Next
  <2> QED BY <2>3, <2>4
<1> QED BY <1>4, <1>5

\* A steady swap keeps what AtomicSwap promises: each deposit ends with its
\* claimer or its funder, never one leg each way.
THEOREM AtomicSwapImplemented ==
  ASSUME Steady
  PROVE  Spec => ImplementsAtomicSwap
<1>1. Init => Promise!Init
  BY DEF Init, ChainInit, NoSpend, Outcome, Promise!Init, Promise!Legs, Leg
<1>2. ASSUME IndType, AddressInv, RevealInv, TimeInv, RecordsAreTrue, AtomInv, [Next]_vars
      PROVE  [Promise!Next]_<<[l \in Leg |-> Outcome(l)], revealed>>
  BY <1>2, StepsImplement DEF Before, Steady
<1> QED
  BY <1>1, <1>2, SteadyInvariants, SwapsAreAtomic, PTL DEF Spec, ImplementsAtomicSwap, Promise!Spec
=============================================================================
