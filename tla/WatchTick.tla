----------------------------- MODULE WatchTick -----------------------------
(***************************************************************************)
(* The watcher of server.js at the grain of its awaits.  SwapEngine takes  *)
(* a poll and a drive of the watchtower as one step each; here each answer *)
(* of a node is a step, and several calls are under way at once: ticks     *)
(* that setInterval started without waiting for the last one, and requests *)
(* of the parties.  One swap, with both deposits buried.                   *)
(***************************************************************************)
EXTENDS Naturals, FiniteSetsExt

CONSTANTS
  Tick,        \* bound: the ticks that may be under way at once
  Request,     \* bound: the POST /broadcast handlers under way at once
  Tiers,       \* the length of every fee ladder, and the highest rate there is
  Scenarios    \* bound: each the bundles that were uploaded, and a map
               \* environment event -> how often it may happen

Leg   == {"btc", "qbit"}
Task  == Tick \cup Request
Event == {"evict", "direct", "rate", "throw", "unanswered", "block", "request"}

ASSUME WatchAssumption ==
  /\ Tiers \in Nat \ {0} /\ Tick \cap Request = {}
  /\ Scenarios \subseteq [finish : SUBSET (1..4), events : [Event -> Nat]]

\* The spends of a swap, in the watchtower's order.
Spend == <<[by |-> "alice", kind |-> "claim", leg |-> "qbit"],
           [by |-> "bob", kind |-> "claim", leg |-> "btc"],
           [by |-> "alice", kind |-> "refund", leg |-> "btc"],
           [by |-> "bob", kind |-> "refund", leg |-> "qbit"]>>
Which == 1..4
IsClaim(w) == Spend[w].kind = "claim"
LegOf(w)   == Spend[w].leg

\* Steps a to c send for the first time (1 to 4), step d again (5 to 8).
Entry == 1..8
Of(e) == IF e > 4 THEN e - 4 ELSE e

VARIABLES
  s,        \* the swap's record, shared by all calls
  tx,       \* leg -> what the node has as the spender of the deposit
  clock,    \* 0: time to reveal; 1: too late to; 2: bob may refund; 3: alice too
  rate,     \* the recommended fee, as the tier that meets it
  task,     \* call -> what it waits for, and what it holds meanwhile
  left      \* what is left of the scenario

vars == <<s, tx, clock, rate, task, left>>

NoTx == [spend |-> 0, tier |-> 0, mined |-> FALSE]
Idle == [pc |-> "idle", e |-> 0, clock |-> 0, rec |-> 0, tier |-> 0]

Init ==
  /\ \E sc \in Scenarios :
       /\ s = [state |-> "CLAIMABLE", seen |-> 0, spent |-> [l \in Leg |-> FALSE],
               preimage |-> FALSE, finish |-> sc.finish, wt |-> [w \in Which |-> 0],
               broadcasts |-> {}]
       /\ left = sc.events
  /\ tx = [l \in Leg |-> NoTx]
  /\ clock = 0 /\ rate = 1
  /\ task = [t \in Task |-> Idle]

TERMINAL == {"COMPLETE", "REFUNDED"}
Use(ev)  == left[ev] > 0 /\ left' = [left EXCEPT ![ev] = @ - 1]

-----------------------------------------------------------------------------
\* The node.  A spend with a lock time is final from its height on; a spend in
\* the mempool is replaced by one that pays more.

Final(w) == ~IsClaim(w) => clock >= (IF LegOf(w) = "qbit" THEN 2 ELSE 3)

testAccept(w, tier) ==
  /\ Final(w)
  /\ ~tx[LegOf(w)].mined
  /\ tx[LegOf(w)] # NoTx => tier > tx[LegOf(w)].tier

\* Sending what the mempool holds already is no error.
Relays(w, tier) ==
  testAccept(w, tier) \/ tx[LegOf(w)] = [spend |-> w, tier |-> tier, mined |-> FALSE]

Sent(w, tier) == [tx EXCEPT ![LegOf(w)] = [spend |-> w, tier |-> tier, mined |-> FALSE]]

isUnspent(l) == tx[l] = NoTx

-----------------------------------------------------------------------------
\* What a call does between one answer and its next question, on record r.

Drives(r) == r.state \notin TERMINAL

\* Mutant: a swap that is CLAIMED is left as it is.
settle_ClaimedIsKept(r, h) ==
  IF r.state \in {"CLAIMED"} \cup TERMINAL THEN r
  ELSE IF r.preimage /\ \A l \in Leg : r.spent[l] THEN [r EXCEPT !.state = "COMPLETE"]
  ELSE [r EXCEPT !.state = IF r.spent["qbit"] THEN "FROM_FUNDED"
                           ELSE IF h = 0 THEN "CLAIMABLE" ELSE "MATURING"]

\* The end of poll, with the heights it read at its beginning.
settle(r, h) ==
  LET st == IF r.spent["qbit"] THEN "FROM_FUNDED"
            ELSE IF h = 0 THEN "CLAIMABLE" ELSE "MATURING"
      n  == IF r.state \in {"CLAIMED"} \cup TERMINAL THEN r ELSE [r EXCEPT !.state = st]
  IN IF n.preimage /\ (\A l \in Leg : n.spent[l]) /\ Drives(n)
     THEN [n EXCEPT !.state = "COMPLETE"] ELSE n

\* Mutant: step d takes the record's word that the deposit is spent.
DueAgain_Trusting(r, w) ==
  w \in r.finish /\ r.wt[w] # 0 /\ (IsClaim(w) \/ ~r.preimage) /\ ~r.spent[LegOf(w)]

\* Does step d look at the spend w it has sent?
DueAgain(r, w) == w \in r.finish /\ r.wt[w] # 0 /\ (IsClaim(w) \/ ~r.preimage)

\* Do steps a to c send w?  The condition of step c is looked at once, before
\* its first refund.
DueFirst(r, w, from) ==
  /\ w \in r.finish /\ r.wt[w] = 0
  /\ ~r.spent[LegOf(w)]
  /\ CASE w = 1 -> r.state = "CLAIMABLE"
       [] w = 2 -> r.preimage
       [] OTHER -> /\ ~r.preimage \/ (w = 4 /\ from = 3)
                   /\ r.seen >= (IF LegOf(w) = "qbit" THEN 2 ELSE 3)

Due(r, e, from) == IF e > 4 THEN DueAgain(r, Of(e)) ELSE DueFirst(r, e, from)

\* On to the next entry after `from`: its fee rate, or for step d first the
\* deposit, is asked for; with none left the call is over.
Onward(r, from) ==
  LET due == {e \in Entry : e > from /\ Due(r, e, from)}
  IN IF due = {} THEN Idle
     ELSE [Idle EXCEPT !.e = Min(due), !.pc = IF Min(due) > 4 THEN "unspent" ELSE "rate",
                       !.rec = r.wt[Of(Min(due))]]

Drive(r) == IF Drives(r) THEN Onward(r, 0) ELSE Idle

\* What poll asks of the nodes, in order, as far as it is still to be asked.
Asks(r, pc) ==
  CASE pc = "spent_btc"  -> ~r.spent["btc"]
    [] pc = "spent_qbit" -> ~r.spent["qbit"]
    [] pc = "look_btc"   -> r.spent["btc"] /\ r.broadcasts \cap {2, 3} = {}
    [] pc = "look_qbit"  -> r.spent["qbit"] /\ r.broadcasts \cap {1, 4} = {}

Questions == <<"spent_btc", "spent_qbit", "look_btc", "look_qbit">>
LegAsked(pc) == IF pc \in {"spent_btc", "look_btc"} THEN "btc" ELSE "qbit"

\* Call t goes on with record r after question number q of its poll.
PollOn(t, r, q, h) ==
  LET todo == {n \in 1..4 : n > q /\ Asks(r, Questions[n])}
      done == settle(r, h)
  IN IF todo = {}
     THEN s' = done /\ task' = [task EXCEPT ![t] = Drive(done)]
     ELSE s' = r /\ task' = [task EXCEPT ![t] =
                     [Idle EXCEPT !.pc = Questions[Min(todo)], !.e = Min(todo), !.clock = h]]

\* Call t goes on with record r after entry e; a request has no next entry.
DriveOn(t, r, e) ==
  s' = r /\ task' = [task EXCEPT ![t] = IF t \in Tick THEN Onward(r, e) ELSE Idle]

-----------------------------------------------------------------------------
\* A tick, one answer at a time.

Waits(t, pcs) == task[t].pc \in pcs

\* setInterval starts a tick whether or not the last one is done.
StartTick(t) ==
  /\ Waits(t, {"idle"}) /\ Drives(s)
  /\ task' = [task EXCEPT ![t] = [Idle EXCEPT !.pc = "heights"]]
  /\ UNCHANGED <<s, tx, clock, rate, left>>

Heights(t) ==
  /\ Waits(t, {"heights"})
  /\ PollOn(t, [s EXCEPT !.seen = clock], 0, clock)
  /\ UNCHANGED <<tx, clock, rate, left>>

\* gettxout on a deposit not yet known spent.
ReadSpent(t) ==
  /\ Waits(t, {"spent_btc", "spent_qbit"})
  /\ LET l == LegAsked(task[t].pc)
     IN PollOn(t, [s EXCEPT !.spent[l] = @ \/ ~isUnspent(l)], task[t].e, task[t].clock)
  /\ UNCHANGED <<tx, clock, rate, left>>

\* spendingTxid and the spender's witness.  A node without an index finds a
\* spender only in the mempool; an error here is caught and means not found.
ReadSpender(t, found) ==
  /\ Waits(t, {"look_btc", "look_qbit"})
  /\ LET x == tx[LegAsked(task[t].pc)]
     IN /\ found => x # NoTx
        /\ (~found) => (x = NoTx \/ x.mined)
        /\ PollOn(t, IF ~found THEN s
                     ELSE [s EXCEPT !.preimage = @ \/ IsClaim(x.spend),
                                    !.broadcasts = @ \cup {x.spend}],
                  task[t].e, task[t].clock)
  /\ UNCHANGED <<tx, clock, rate, left>>

\* Step d asks whether the deposit is unspent, the mempool included.
ReadUnspent(t) ==
  /\ Waits(t, {"unspent"})
  /\ IF isUnspent(LegOf(Of(task[t].e)))
     THEN s' = s /\ task' = [task EXCEPT ![t].pc = "rate"]
     ELSE DriveOn(t, s, task[t].e)
  /\ UNCHANGED <<tx, clock, rate, left>>

\* The lowest tier that meets the rate; only the btc leg is priced.
pickTier(leg) == IF leg = "btc" THEN rate ELSE 1

\* Step d clears the record just before it sends, never below its tier.
PickRate(t) ==
  /\ Waits(t, {"rate"})
  /\ LET w == Of(task[t].e)
     IN /\ task' = [task EXCEPT ![t].pc = "accept",
                       ![t].tier = Max({pickTier(LegOf(w)), task[t].rec})]
        /\ s' = IF task[t].e > 4 THEN [s EXCEPT !.wt[w] = 0] ELSE s
  /\ UNCHANGED <<tx, clock, rate, left>>

\* testmempoolaccept; a refused spend of step d gets its record back.
Accept(t) ==
  /\ Waits(t, {"accept"})
  /\ LET w == Of(task[t].e)
     IN IF testAccept(w, task[t].tier)
        THEN s' = s /\ task' = [task EXCEPT ![t].pc = "send"]
        ELSE DriveOn(t, IF task[t].e > 4 THEN [s EXCEPT !.wt[w] = task[t].rec] ELSE s,
                     task[t].e)
  /\ UNCHANGED <<tx, clock, rate, left>>

\* Mutant: a refund leaves the other deposit's watch on.
Refunded_StillOn(r, w) == [r EXCEPT !.spent[LegOf(w)] = TRUE, !.state = "COMPLETE"]

\* The effects of a refund.
Refunded(r, w) == [r EXCEPT !.spent[LegOf(w)] = TRUE, !.state = "REFUNDED"]

\* sendrawtransaction: the watchtower's record, and the effects up to the
\* question for the claim's witness.
Send(t) ==
  /\ Waits(t, {"send"})
  /\ LET w == Of(task[t].e)
         n == [s EXCEPT !.wt[w] = IF t \in Tick THEN task[t].tier ELSE @,
                        !.broadcasts = @ \cup {w}]
     IN /\ Relays(w, task[t].tier)
        /\ tx' = Sent(w, task[t].tier)
        /\ IF IsClaim(w) THEN s' = n /\ task' = [task EXCEPT ![t].pc = "effects"]
           ELSE DriveOn(t, Refunded(n, w), task[t].e)
  /\ UNCHANGED <<clock, rate, left>>

\* Somebody else's spend came first: sendrawtransaction throws.
SendRefused(t) ==
  /\ Waits(t, {"send"}) /\ ~Relays(Of(task[t].e), task[t].tier)
  /\ task' = [task EXCEPT ![t] = Idle]
  /\ UNCHANGED <<s, tx, clock, rate, left>>

\* applyEffects after its await, whatever the record has become meanwhile.
Effects(t) ==
  /\ Waits(t, {"effects"})
  /\ LET w == Of(task[t].e)
     IN DriveOn(t, [s EXCEPT !.preimage = TRUE, !.spent[LegOf(w)] = TRUE,
                             !.state = IF LegOf(w) = "btc" THEN "COMPLETE" ELSE "CLAIMED"],
                task[t].e)
  /\ UNCHANGED <<tx, clock, rate, left>>

\* A node error.  Out of poll the tick goes on with driveWatchtower; out of
\* that, or out of a request, the call is over.
Throw(t) ==
  /\ ~Waits(t, {"idle", "look_btc", "look_qbit"})
  /\ ~(Waits(t, {"effects"}) /\ Of(task[t].e) = 1)
  /\ Use("throw")
  /\ task' = [task EXCEPT ![t] =
                 IF Waits(t, {"heights", "spent_btc", "spent_qbit"}) THEN Drive(s) ELSE Idle]
  /\ UNCHANGED <<s, tx, clock, rate>>

\* The node took the spend and its answer was lost.
Unanswered(t) ==
  /\ Waits(t, {"send"}) /\ Relays(Of(task[t].e), task[t].tier)
  /\ Use("unanswered")
  /\ tx' = Sent(Of(task[t].e), task[t].tier)
  /\ task' = [task EXCEPT ![t] = Idle]
  /\ UNCHANGED <<s, clock, rate>>

-----------------------------------------------------------------------------
\* The parties and the chains.

\* What a party's client does about the view it has.
Wants(w) ==
  /\ w \notin s.broadcasts
  /\ CASE w = 1 -> s.state = "CLAIMABLE" /\ s.seen = 0
       [] w = 2 -> s.preimage
       [] OTHER -> /\ ~s.spent[LegOf(w)] /\ ~s.preimage
                   /\ s.seen >= (IF LegOf(w) = "qbit" THEN 2 ELSE 3)

\* POST /broadcast, past its gate: the same questions as the watchtower's.
Post(t, w) ==
  /\ Waits(t, {"idle"}) /\ Wants(w) /\ Use("request")
  /\ task' = [task EXCEPT ![t] = [Idle EXCEPT !.pc = "accept", !.e = w, !.tier = rate]]
  /\ UNCHANGED <<s, tx, clock, rate>>

\* The party's own spend, past the coordinator.
Direct(w) ==
  /\ Wants(w) /\ testAccept(w, rate) /\ Use("direct")
  /\ tx' = Sent(w, rate)
  /\ UNCHANGED <<s, clock, rate, task>>

Evict(l) ==
  /\ tx[l] # NoTx /\ ~tx[l].mined /\ Use("evict")
  /\ tx' = [tx EXCEPT ![l] = NoTx]
  /\ UNCHANGED <<s, clock, rate, task>>

MineSpend(l) ==
  /\ tx[l] # NoTx /\ ~tx[l].mined
  /\ tx' = [tx EXCEPT ![l].mined = TRUE]
  /\ UNCHANGED <<s, clock, rate, task, left>>

\* Blocks are minutes apart and answers are not: no call spans a window, and
\* none passes without a poll.
Block ==
  /\ \A t \in Task : Waits(t, {"idle"})
  /\ s.seen = clock
  /\ clock < 3 /\ Use("block")
  /\ clock' = clock + 1
  /\ UNCHANGED <<s, tx, rate, task>>

RateMoves ==
  /\ Use("rate")
  /\ rate' \in (1..Tiers) \ {rate}
  /\ UNCHANGED <<s, tx, clock, task>>

Next ==
  \/ \E t \in Tick : StartTick(t) \/ Heights(t) \/ ReadSpent(t) \/ ReadUnspent(t) \/ PickRate(t)
  \/ \E t \in Tick, found \in BOOLEAN : ReadSpender(t, found)
  \/ \E t \in Task : Accept(t) \/ Send(t) \/ SendRefused(t) \/ Effects(t)
  \/ \E t \in Task : Throw(t) \/ Unanswered(t)
  \/ \E t \in Request, w \in Which : Post(t, w)
  \/ \E w \in Which : Direct(w)
  \/ \E l \in Leg : Evict(l) \/ MineSpend(l)
  \/ Block
  \/ RateMoves

Spec == Init /\ [][Next]_vars

\* Every question is answered in the end, and setInterval goes on.
Answered(t) ==
  \/ t \in Tick /\ (\/ Heights(t) \/ ReadSpent(t) \/ ReadUnspent(t) \/ PickRate(t)
                    \/ \E found \in BOOLEAN : ReadSpender(t, found))
  \/ Accept(t) \/ Send(t) \/ SendRefused(t) \/ Effects(t)

Fairness ==
  /\ \A t \in Task : WF_vars(Answered(t))
  /\ \A t \in Tick : WF_vars(StartTick(t))

FairSpec == Spec /\ Fairness

-----------------------------------------------------------------------------
\* Properties.

\* Types; in particular no call asks for a tier the ladder has not.
TypeOK ==
  /\ s \in [state : {"CLAIMABLE", "MATURING", "FROM_FUNDED", "CLAIMED"} \cup TERMINAL,
             seen : 0..3, spent : [Leg -> BOOLEAN], preimage : BOOLEAN,
             finish : SUBSET Which, wt : [Which -> 0..Tiers], broadcasts : SUBSET Which]
  /\ tx \in [Leg -> [spend : {0} \cup Which, tier : 0..Tiers, mined : BOOLEAN]]
  /\ clock \in 0..3 /\ rate \in 1..Tiers
  /\ \A t \in Task : task[t].e \in 0..8 /\ task[t].tier \in 0..Tiers
  /\ left \in [Event -> Nat]

\* However the calls interleave, a swap that is shown as over is: COMPLETE
\* with both claims sent, REFUNDED with a refund (a claim that applyEffects
\* writes late may hide it, never invent it).
EndIsTrue ==
  /\ s.state = "COMPLETE" => \A l \in Leg : tx[l] = NoTx \/ IsClaim(tx[l].spend)
  /\ s.state = "REFUNDED" => \E w \in {3, 4} : w \in s.broadcasts

\* A CLAIMED that a resuming applyEffects writes over COMPLETE is put right:
\* with both claims mined the swap ends, and stays, COMPLETE.
Done == \A l \in Leg : tx[l].mined /\ IsClaim(tx[l].spend)

CompleteReturns == Done ~> [](s.state = "COMPLETE")

\* A claim the watchtower has sent and that fell out of the mempool is sent
\* again as long as the swap is not over, whatever the overlap of ticks.
ResendReturns ==
  \A w \in {1, 2} :
    (s.wt[w] # 0 /\ isUnspent(LegOf(w))) ~> (~isUnspent(LegOf(w)) \/ s.state \in TERMINAL)
=============================================================================
