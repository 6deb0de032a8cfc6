---------------------------- MODULE SwapSystem ----------------------------
(***************************************************************************)
(* A swap end to end: the engine of SwapEngine, the two chains of          *)
(* HtlcChain, and the two parties' clients (webapp/src/swapflow.js; a      *)
(* maker bot in bob's place differs in when it funds).  A client acts on   *)
(* the view the coordinator last gave it, which is a projection of s, and  *)
(* may stop at any point: a closed tab is a client that takes no step.     *)
(***************************************************************************)
EXTENDS SwapEngine

CONSTANTS
  Budgets,     \* bound: each a map environment event -> how often it may happen
  MaxLag,      \* bound: blocks mined between two polls, downtime included
  MaxJoin,     \* bound: the parties join while no chain is higher than this
  BobWaits,    \* bob funds on fundGate.cleared (web client), else once the
               \* btc deposit is seen (maker bot)
  StayOpen     \* a party keeps its tab open until its bundle is armed

Event == {"crash", "pollFails", "deriveFails", "lost", "evict", "drop", "reorg",
          "deposit", "short", "resubmit", "direct"}

ASSUME SystemAssumption ==
  /\ Budgets \subseteq [Event -> Nat] /\ MaxLag \in Nat /\ MaxJoin \in Nat
  /\ BobWaits \in BOOLEAN /\ StayOpen \in BOOLEAN

VARIABLES
  left,    \* what is left of the budget chosen at first
  lag,     \* blocks mined since the last successful poll
  shown,   \* role -> the timelock of the deposit address it was shown (0: none)
  armed    \* role -> the bundle its client believes the coordinator holds

systemVars == <<left, lag, shown, armed>>
vars == <<chainVars, engineVars, systemVars>>

Use(e)  == left[e] > 0 /\ left' = [left EXCEPT ![e] = @ - 1]

Init ==
  /\ ChainInit /\ EngineInit
  /\ left \in Budgets /\ lag = 0
  /\ shown = [r \in Role |-> 0] /\ armed = [r \in Role |-> NoBundle]

TypeOK ==
  /\ ChainTypeOK /\ EngineTypeOK
  /\ left \in [Event -> Nat] /\ lag \in 0..MaxLag /\ shown \in [Role -> Nat]
  /\ armed \in [Role -> Bundle]

-----------------------------------------------------------------------------
\* The parties.

\* A first submission, or one that #api retries after a lost response.
Join(r) ==
  /\ \A l \in Leg : height[l] <= MaxJoin
  /\ SubmitParty(r)
  /\ IF r \in s.joined THEN Use("resubmit") ELSE UNCHANGED left
  /\ UNCHANGED <<lag, shown, armed>>

\* The client verifies the HTLCs of the view and shows its deposit address.
ShowHtlc(r) ==
  /\ up /\ s.lock[Funds(r)] # 0
  /\ r = "bob" => IF BobWaits THEN s.cleared ELSE s.funding["btc"].id # 0
  /\ shown[r] # s.lock[Funds(r)]
  /\ shown' = [shown EXCEPT ![r] = s.lock[Funds(r)]]
  /\ UNCHANGED <<chainVars, engineVars, left, lag, armed>>

\* The party pays the address it was shown, or replaces its own deposit while
\* nothing has confirmed; `ok`: the amount covers the terms.
MakeDeposit(r, ok) ==
  LET l == Funds(r)
  IN /\ shown[r] # 0 /\ height[l] < shown[r]
     /\ dep[l].st # "confirmed" /\ spend[l].kind = "none"
     /\ dep[l].id < MaxDeposits
     /\ dep' = [dep EXCEPT ![l] = [id |-> @.id + 1, st |-> "mempool", ok |-> ok,
                                   at |-> 0, lock |-> shown[r]]]
     /\ left' = [left EXCEPT !["deposit"] = @ - (IF dep[l].id = 0 THEN 0 ELSE 1),
                             !["short"] = @ - (IF ok THEN 0 ELSE 1)]
     /\ dep[l].id # 0 => left["deposit"] > 0
     /\ ~ok => left["short"] > 0
     /\ UNCHANGED <<height, spend, revealed, engineVars, lag, shown, armed>>

\* armSafetyNet: the bundle the client would sign for this view.
Wanted(r) ==
  LET own == Funds(r)
  IN IF \A l \in Leg : s.funding[l].id # 0
     THEN [refund |-> s.funding[own].id, claim |-> s.funding[Other(own)].id]
     ELSE [refund |-> Tracked(s, own).id, claim |-> 0]

\* The client arms anew when the outpoints differ from those it last armed.
NeedsArming(r) == Wanted(r).refund # 0 /\ Wanted(r) # armed[r]

Arm(r) ==
  /\ NeedsArming(r)
  /\ SubmitFinish(r, Wanted(r))
  /\ armed' = [armed EXCEPT ![r] = Wanted(r)]
  /\ UNCHANGED <<left, lag, shown>>

\* #act: which spend the client sends, given its view.
Acts(r, k) ==
  LET l == TheLeg(r, k)
  IN /\ <<l, k>> \notin s.broadcasts
     /\ CASE r = "alice" /\ k = "claim"  -> s.state = "CLAIMABLE"
          [] r = "alice" /\ k = "refund" -> s.refund[l].available /\ s.state # "COMPLETE"
          [] r = "bob"   /\ k = "claim"  -> s.preimage
          [] r = "bob"   /\ k = "refund" -> s.refund[l].available /\ ~s.preimage

\* The outpoint the client's own transaction spends.
Outpoint(r, k) ==
  IF k = "claim" THEN s.funding[Claims(r)].id ELSE Tracked(s, Funds(r)).id

\* #send through the coordinator.
ClientSend(r, k, lost) ==
  /\ Acts(r, k)
  /\ Broadcast(TheLeg(r, k), k, Outpoint(r, k), lost)
  /\ IF lost THEN Use("lost") ELSE UNCHANGED left
  /\ UNCHANGED <<lag, shown, armed>>

\* #send past an unreachable coordinator, to a public broadcast API: the
\* client's last view is the record at the crash.
DirectSend(r, k) ==
  LET l == TheLeg(r, k)
  IN /\ ~up /\ Use("direct")
     /\ Acts(r, k)
     /\ Accepts(spend, l, Outpoint(r, k), k)
     /\ spend' = Sent(spend, l, k)
     /\ revealed' = (revealed \/ k = "claim")
     /\ UNCHANGED <<height, dep, engineVars, lag, shown, armed>>

Cancel == CancelSwap /\ UNCHANGED systemVars

-----------------------------------------------------------------------------
\* The chains, no more than MaxLag blocks ahead of the last poll.  With
\* StayOpen, no block is mined before the parties have armed what they see.

Mine(l) ==
  /\ lag < MaxLag
  /\ (StayOpen /\ up /\ Drives(s)) => \A r \in Role : ~NeedsArming(r)
  /\ MineBlock(l)
  /\ lag' = lag + 1
  /\ UNCHANGED <<engineVars, left, shown, armed>>

Evict(l) == EvictSpend(l) /\ Use("evict") /\ UNCHANGED <<engineVars, lag, shown, armed>>
Drop(l)  == DropDeposit(l) /\ Use("drop") /\ UNCHANGED <<engineVars, lag, shown, armed>>
Unmine(l) == Reorg(l) /\ Use("reorg") /\ UNCHANGED <<engineVars, lag, shown, armed>>

-----------------------------------------------------------------------------
\* The coordinator's own steps.

Derive(h)     == DeriveHtlcs(h) /\ UNCHANGED systemVars
DeriveError(h) == DeriveFails(h) /\ Use("deriveFails") /\ UNCHANGED <<lag, shown, armed>>
WatchPoll     == Poll(Leg) /\ lag' = 0 /\ UNCHANGED <<left, shown, armed>>
WatchPollMisses ==
  /\ \E named \in SUBSET Leg \ {Leg} : Poll(named)
  /\ lag' = 0 /\ Use("pollFails") /\ UNCHANGED <<shown, armed>>
WatchPollFails == PollFails /\ Use("pollFails") /\ UNCHANGED <<lag, shown, armed>>
WatchDrive(lost) ==
  /\ DriveWatchtower(lost)
  /\ IF lost THEN Use("lost") ELSE UNCHANGED left
  /\ UNCHANGED <<lag, shown, armed>>
Stop == Crash /\ Use("crash") /\ UNCHANGED <<lag, shown, armed>>
Boot == Restart /\ UNCHANGED systemVars

Next ==
  \/ \E r \in Role : Join(r)
  \/ \E h \in deriving : Derive(h)
  \/ \E h \in deriving : DeriveError(h)
  \/ \E r \in Role : ShowHtlc(r)
  \/ \E r \in Role, ok \in BOOLEAN : MakeDeposit(r, ok)
  \/ \E r \in Role : Arm(r)
  \/ \E r \in Role, k \in Kind, lost \in BOOLEAN : ClientSend(r, k, lost)
  \/ \E r \in Role, k \in Kind : DirectSend(r, k)
  \/ Cancel
  \/ \E l \in Leg : Mine(l)
  \/ \E l \in Leg : Evict(l)
  \/ \E l \in Leg : Drop(l)
  \/ \E l \in Leg : Unmine(l)
  \/ WatchPoll
  \/ WatchPollMisses
  \/ WatchPollFails
  \/ \E lost \in BOOLEAN : WatchDrive(lost)
  \/ Stop
  \/ Boot

Spec == Init /\ [][Next]_vars
-----------------------------------------------------------------------------
\* Fairness.  setInterval keeps the watcher ticking, a supervisor restarts the
\* process, blocks keep coming and a pending await resumes; a client with an
\* open tab arms its bundle.  Nothing is asked of a client otherwise.

\* While the process is up, the watcher's tick goes on (only the watcher's
\* steps change phase, and one of them is enabled whenever it is up).
Ticks == up /\ phase' = IF phase = "poll" THEN "watchtower" ELSE "poll"

Fairness ==
  /\ WF_phase(Ticks) /\ WF_vars(Boot)
  /\ WF_vars(\E h \in deriving : Derive(h))
  /\ \A l \in Leg : WF_vars(Mine(l))
  /\ StayOpen => \A r \in Role : WF_vars(Arm(r))

FairSpec == Spec /\ Fairness

-----------------------------------------------------------------------------
\* Safety.

\* CLAIMABLE is only ever shown while the true chains hold both deposits, in
\* full, at their reorg-safe depth (poll's gate), restarts and stale polls
\* included.  It relies on a buried deposit staying where it is.
ClaimableIsBuried ==
  s.state = "CLAIMABLE" =>
    \A l \in Leg \ Trusted : dep[l].ok /\ Depth(l) >= Target[l]

\* Whoever publishes the preimage through the coordinator (the buyer's client
\* or the watchtower) does so while both deposits are buried and unspent.
RevealWhenBuried ==
  [][(~revealed /\ revealed' /\ up) =>
       \A l \in Leg \ Trusted : /\ dep[l].ok /\ Depth(l) >= Target[l]
                                /\ spend[l].kind = "none"]_vars

\* When the coordinator relays the claim that reveals the preimage, the claim
\* can still be buried before the seller's refund unlocks, although the gate
\* reads the heights of the last poll.
RevealInTime ==
  [][(~revealed /\ revealed' /\ up) =>
       height["qbit"] + Target["qbit"] <= dep["qbit"].lock]_vars

\* The seller's deposit goes out only once the buyer's is irreversibly buried.
SequencedFunding ==
  [][dep'["qbit"].id > dep["qbit"].id => Depth("btc") >= Target["btc"]]_vars

\* A deposit made to an address the coordinator handed out is at the address
\* it watches: the HTLCs are not derived anew under a funder's feet.
DepositIsWatched ==
  \A l \in Leg : dep[l].st # "none" => dep[l].lock = s.lock[l]

\* The watchtower sends no refund once the preimage has been public: from then
\* on the other party's claim is what must happen.
NoRefundAfterReveal ==
  [][\A r \in Role : <<r, "refund">> \in s'.wt \ s.wt => ~revealed]_vars

\* COMPLETE means each party's claim is in a mempool or a block.
CompleteMeansClaimed ==
  s.state = "COMPLETE" => \A l \in Leg : spend[l].kind = "claim"

\* A REFUNDED swap needs no more engine action: no deposit whose funder armed
\* its refund is left behind.
RefundedIsOver ==
  s.state = "REFUNDED" =>
    \A r \in Role : s.finish[r].refund # 0 => ~IsUnspent(spend, Funds(r), s.finish[r].refund)

\* What a restart reloads has everything the coordinator did and learnt once:
\* the secret, the spends it sent and the state they put the swap in.  (What a
\* poll looked up before a node error can be lost; the next poll finds it.)
RestartKeeps ==
  [][(~up /\ up') => /\ s'.state = s.state /\ s'.preimage = s.preimage
                     /\ s'.wt = s.wt /\ s'.broadcasts = s.broadcasts]_vars

\* Atomicity, as an implementation of AtomicSwap: a leg's outcome is its
\* confirmed spend.
Outcome(l) ==
  IF spend[l].kind = "none" \/ spend[l].at = 0 THEN "open"
  ELSE IF spend[l].kind = "claim" THEN "claimed" ELSE "refunded"

Promise == INSTANCE AtomicSwap WITH
  outcome <- [l \in Leg |-> Outcome(l)], public <- revealed

ImplementsAtomicSwap == Promise!Spec

\* Nobody ends with both coins: not one leg claimed and the other refunded.
NoOneTakesBoth ==
  \A l \in Leg : ~(Outcome(l) = "claimed" /\ Outcome(Other(l)) = "refunded")

-----------------------------------------------------------------------------
\* Inductive invariants.

\* Chains and records that are well formed, no recorded height being above the
\* tip (so no depth is ever negative).
IndType == TypeOK /\ ChainShape /\ Reached(s) /\ Reached(disk)

\* As long as no block is replaced, the record in memory and the one in the
\* store tell the truth about the deposits, and so does the seller's view.
RecordsAreTrue ==
  /\ left["reorg"] = 0
  /\ RecordTrue(s) /\ RecordTrue(disk)
  /\ (shown["bob"] # 0 /\ BobWaits /\ "btc" \notin Trusted) => BuriedOnChain("btc")

-----------------------------------------------------------------------------
\* Liveness.

\* A party whose deposit stays alone gets it back with its tab closed, once
\* it has armed the refund (unless the swap was canceled).
Alone(r) ==
  /\ dep[Funds(r)].st = "confirmed"
  /\ s.finish[r].refund = dep[Funds(r)].id
  /\ dep[Claims(r)].st = "none" /\ s.state # "CANCELED"

SoloRefund ==
  \A r \in Role : Alone(r) ~> (spend[Funds(r)].kind # "none" \/ ~Alone(r))

BothArmed == \A r \in Role : s.finish[r].claim # 0

\* The watchtower's claim of the buyer's coin, evicted from the mempool, is
\* sent again until it is mined, as long as the swap is not complete.
DroppedClaimReturns ==
  (s.state = "CLAIMED" /\ <<"alice", "claim">> \in s.wt)
     ~> (spend["qbit"].at > 0 \/ s.state = "COMPLETE")

\* Once a tick finds the swap claimable with both parties armed, it completes
\* on both chains with nobody's tab open.  (A bundle that arrives after the
\* tick's watchtower step can be too late for the reveal gate at the next.)
ArmedCompletes ==
  (s.state = "CLAIMABLE" /\ BothArmed /\ ~Shorted(s) /\ phase = "watchtower")
     ~> (\A l \in Leg : Outcome(l) = "claimed")
=============================================================================
