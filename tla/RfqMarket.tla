----------------------------- MODULE RfqMarket -----------------------------
(***************************************************************************)
(* The RFQ layer with the makers that quote in it: each runs the loop of   *)
(* maker-bot/maker-bot.js (serveRfq), which reads its balance, sizes its   *)
(* quote to what is not yet committed, pings, and fulfils the matches it   *)
(* is handed.  What a fulfilment does in detail is MakerBot's subject;     *)
(* here it joins, pays, fails or ends.                                     *)
(***************************************************************************)
EXTENDS RfqBook

CONSTANTS
  Ceiling,      \* maker -> side -> the most it quotes (0: the side is not quoted)
  Stock,        \* maker -> side -> its balance at first, less the keep-back
  Want,         \* bound: the sizes takers ask for
  Scenarios     \* bound: the makers that are up at first, and event -> how often
                \* it may happen ("tick": whether time passes at all)

Event == {"swap", "tick", "lost", "fails", "crash", "restart", "pause", "resume", "cancel", "refund"}

ASSUME MarketAssumption ==
  /\ {Ceiling, Stock} \subseteq [Maker -> [Side -> Nat]]
  /\ Want \subseteq Nat /\ Scenarios \subseteq [up : SUBSET Maker, most : [Event -> Nat]]

VARIABLES
  stock,    \* maker -> side -> its balance
  bots,     \* maker -> where its loop stands and what it fulfils
  spent,    \* event -> how often it has happened
  scenario  \* the scenario chosen

vars == <<rfqVars, stock, bots, spent, scenario>>

\* `q`: the quote about to be sent; `handling`, `inflight`: the bot's own sets.
NoBot == [at |-> "idle", q |-> <<>>, handling |-> {}, inflight |-> {}]
PausedBot == [NoBot EXCEPT !.at = "paused"]

Init ==
  /\ RfqInit
  /\ stock = Stock /\ spent = [e \in Event |-> 0] /\ scenario \in Scenarios
  /\ bots = [m \in Maker |-> IF m \in scenario.up THEN NoBot ELSE PausedBot]

Use(e) == /\ spent[e] < scenario.most[e] /\ spent' = [spent EXCEPT ![e] = @ + 1]
          /\ UNCHANGED scenario
Free == UNCHANGED <<spent, scenario>>
Mine(m, k) == {w \in SwapId : Exists(w) /\ swaps[w].maker = m /\ swaps[w].side = k}
SizeOf(S) == SumFunctionOnSet(Sizes(swaps), S)

-----------------------------------------------------------------------------
\* Takers and the coordinator.

Take(k, n) == takeRfq(k, n) /\ Used' <= scenario.most["swap"] /\ UNCHANGED <<stock, bots>> /\ Free
Fill(k, n) == takeFill(k, n) /\ Used' <= scenario.most["swap"] /\ UNCHANGED <<stock, bots>> /\ Free
Status == rfqStatus /\ UNCHANGED <<stock, bots>> /\ Free
Restart == Use("restart") /\ RestartRfq /\ UNCHANGED <<stock, bots>>

TakerActs(w) == TakerReady(w) /\ UNCHANGED <<stock, bots>> /\ Free
TakerCancels(w) == swaps[w].taken /\ Use("cancel") /\ IsCanceled(w) /\ UNCHANGED <<stock, bots>>
Refunded(w) == Use("refund") /\ IsRefunded(w) /\ UNCHANGED <<stock, bots>>
Completed(w) == IsComplete(w) /\ UNCHANGED <<stock, bots>> /\ Free

-----------------------------------------------------------------------------
\* The loop of serveRfq.

Step(m, rec) == bots' = [bots EXCEPT ![m] = rec]

\* Mutant of sizeQuote: commitments are not subtracted.
sizeQuote_Blind(m, k) == Min({Ceiling[m][k], stock[m][k]})

\* The balance less what is picked up and not yet paid, at most the ceiling.
sizeQuote(m, k) ==
  LET committed == SizeOf(bots[m].inflight \cap Mine(m, k))
  IN Min({Ceiling[m][k], Max({0, stock[m][k] - committed})})

ReadBalance(m) ==
  /\ bots[m].at = "idle"
  /\ Step(m, [bots[m] EXCEPT !.at = "sized",
                             !.q = [k \in {k \in Side : Ceiling[m][k] > 0} |-> sizeQuote(m, k)]])
  /\ UNCHANGED <<rfqVars, stock>> /\ Free

\* Every match handed out that is not already handled starts a run and is
\* reserved for.  With `lost`, the answer does not arrive.
Ping(m, lost) ==
  LET new == Awaiting(m) \ bots[m].handling
  IN /\ bots[m].at = "sized"
     /\ PingRoute(m, bots[m].q)
     /\ IF lost
        THEN Use("lost") /\ Step(m, [bots[m] EXCEPT !.at = "idle", !.q = <<>>])
        ELSE /\ Step(m, [at |-> "idle", q |-> <<>>, handling |-> bots[m].handling \cup new,
                         inflight |-> bots[m].inflight \cup new])
             /\ Free
     /\ UNCHANGED stock

\* The maker pauses, or goes on.
Pause(m)  == bots[m].at = "idle" /\ Use("pause") /\ Step(m, [bots[m] EXCEPT !.at = "paused"])
             /\ UNCHANGED <<rfqVars, stock>>
Resume(m) == m \in scenario.up /\ bots[m].at = "paused" /\ Use("resume") /\ Step(m, [bots[m] EXCEPT !.at = "idle"])
             /\ UNCHANGED <<rfqVars, stock>>

BotJoins(m, w) ==
  /\ w \in bots[m].handling /\ MakerJoins(w)
  /\ UNCHANGED <<stock, bots>> /\ Free

\* The deposit leaves the balance, and the reserve with it.
BotPays(m, w) ==
  /\ w \in bots[m].handling
  /\ stock[m][swaps[w].side] >= swaps[w].size
  /\ MakerPays(w)
  /\ stock' = [stock EXCEPT ![m][swaps[w].side] = @ - swaps[w].size]
  /\ Step(m, [bots[m] EXCEPT !.inflight = @ \ {w}])
  /\ Free

Drops(m, w) ==
  Step(m, [bots[m] EXCEPT !.handling = @ \ {w}, !.inflight = @ \ {w}])

\* A run that gave up after its attempts.
RunFails(m, w) ==
  /\ w \in bots[m].handling /\ ~Over(w) /\ Use("fails") /\ Drops(m, w)
  /\ UNCHANGED <<rfqVars, stock>>

\* The swap is over; a deposit that came back is balance again.
RunEnds(m, w) ==
  /\ w \in bots[m].handling /\ Over(w) /\ Drops(m, w)
  /\ stock' = IF swaps[w].state = "REFUNDED" /\ swaps[w].paid
              THEN [stock EXCEPT ![m][swaps[w].side] = @ + swaps[w].size] ELSE stock
  /\ UNCHANGED rfqVars /\ Free

\* The bot stops and starts: resumePending takes up what it has joined, or was
\* about to join, and reserves nothing for it.
BotRestarts(m) ==
  LET joined == {w \in SwapId : Exists(w) /\ swaps[w].maker = m /\ ~Over(w) /\ swaps[w].joined}
  IN /\ m \in scenario.up /\ Use("crash")
     /\ \E saved \in SUBSET (bots[m].handling \ joined) :
          Step(m, [NoBot EXCEPT !.handling = joined \cup saved])
     /\ UNCHANGED <<rfqVars, stock>>

\* No tick passes between two pings of a bot that is not paused.
Tick ==
  /\ scenario.most["tick"] > 0
  /\ \A m \in Maker : bots[m].at = "paused" \/ makers[m].age = 0
  /\ TimePasses
  /\ UNCHANGED <<stock, bots>> /\ Free

Next ==
  \/ \E k \in Side, n \in Want : Take(k, n)
  \/ \E k \in Side, n \in Want : Fill(k, n)
  \/ Status
  \/ Restart
  \/ \E w \in SwapId : TakerActs(w)
  \/ \E w \in SwapId : TakerCancels(w)
  \/ \E w \in SwapId : Refunded(w)
  \/ \E w \in SwapId : Completed(w)
  \/ \E m \in Maker : ReadBalance(m)
  \/ \E m \in Maker, lost \in BOOLEAN : Ping(m, lost)
  \/ \E m \in Maker : Pause(m)
  \/ \E m \in Maker : Resume(m)
  \/ \E m \in Maker, w \in SwapId : BotJoins(m, w)
  \/ \E m \in Maker, w \in SwapId : BotPays(m, w)
  \/ \E m \in Maker, w \in SwapId : RunFails(m, w)
  \/ \E m \in Maker, w \in SwapId : RunEnds(m, w)
  \/ \E m \in Maker : BotRestarts(m)
  \/ Tick

Spec == Init /\ [][Next]_vars
FairSpec ==
  /\ Spec /\ WF_vars(Tick)
  /\ \A m \in Maker : WF_vars(ReadBalance(m) \/ \E lost \in BOOLEAN : Ping(m, lost))
  /\ \A w \in SwapId : WF_vars(\E m \in Maker : BotJoins(m, w))

-----------------------------------------------------------------------------
\* Properties.

\* Types: quotes, queues and logs hold what the code puts there, no leg is below
\* the minimum, and the log stays within its cap (rfq.js:203).
TypeOK ==
  /\ \A w \in SwapId : Exists(w) =>
       swaps[w] \in [state : {"open", "CANCELED", "REFUNDED", "COMPLETE"}, taken : BOOLEAN,
                     maker : Maker, side : Side, size : MinLot..Max(Want),
                     joined : BOOLEAN, ready : BOOLEAN, paid : BOOLEAN,
                     age : 0..MaxAge, since : 0..MaxAge]
  /\ \A m \in Maker :
       /\ {makers[m].ask, makers[m].bid, stock[m].ask, stock[m].bid} \subseteq Nat
       /\ makers[m].age \in 0..Ttl /\ makers[m].matches \subseteq {w \in SwapId : Exists(w)}
       /\ makers[m].history \in BoundedSeq(SwapId, RepHistory)
       /\ bots[m].inflight \subseteq bots[m].handling

\* What maker m owes on side k: matches queued for it or picked up, not yet paid.
Due(m, k) ==
  {w \in Mine(m, k) : /\ ~Over(w) /\ ~swaps[w].paid
                      /\ w \in bots[m].handling \/ (w \in makers[m].matches /\ ~swaps[w].joined)}

\* What a maker may owe beyond its balance.  A ceiling is there without any fault: a
\* take that lands between the balance's reading (maker-bot.js:165) and the ping is
\* undone by the ping, which restates the size (rfq.js:70-78).  A lost answer and a
\* failed run leave another ceiling unreserved, a restart all that was reserved.
Slack(m, k) ==
  Ceiling[m][k] * (1 + spent["lost"] + spent["fails"]) + (Stock[m][k] + Ceiling[m][k]) * spent["crash"]

\* A maker is matched beyond its balance by no more than that, however takes, pings,
\* payments, lost answers, failed runs, refunds and restarts follow each other.
OverdraftBounded == \A m \in Maker, k \in Side : SizeOf(Due(m, k)) <= stock[m][k] + Slack(m, k)

\* Swap w waits for its maker m to join.
Waits(m, w) ==
  Exists(w) /\ swaps[w].maker = m /\ ~Over(w) /\ ~swaps[w].joined /\ swaps[w].age < Retention

\* A match its maker has not joined stays queued until the swap is over or its
\* retention ends, whatever pings are lost, runs fail and bots restart
\* (rfq.js:80-86); only a restart of the coordinator forgets it.
NoMatchLost ==
  spent["restart"] = 0 => \A m \in Maker, w \in SwapId : Waits(m, w) => w \in makers[m].matches

\* A plan (rfq.js:223-249) takes from each maker nothing or a tradable slice of
\* its quote, adds up to what it says, leaves no better price unused, and misses
\* what could be had by less than one minimum swap.
PlanFills ==
  \A k \in Side, want \in Want : \A ranked \in Ranked(k) :
    LET plan   == planFill(k, want, ranked)
        usable == {m \in liveSides(k) : makers[m][k] >= MinLot}
        quoted == [m \in Maker |-> makers[m][k]]
        bought == [m \in Maker |-> Bought(plan.legs, m)]
    IN /\ \A m \in Maker : bought[m] = 0 \/ (m \in usable /\ bought[m] \in MinLot..quoted[m])
       /\ plan.got = SumFunction(bought)
       /\ plan.got <= want /\ Min({want, SumFunctionOnSet(quoted, usable)}) - plan.got < MinLot
       /\ \A m \in Maker, o \in usable : bought[m] > 0 /\ Better(k, o, m) => bought[o] = quoted[o]

\* A match reaches its maker, which joins, unless the swap is over first, the
\* coordinator restarts, the maker pauses, or paused for longer than a match is
\* kept.  A lost answer, a failed run or a restarted bot only delays it.
MatchReachesMaker ==
  \A w \in SwapId :
    (Exists(w) /\ ~Over(w))
      ~> (\/ Over(w) \/ swaps[w].joined \/ spent["restart"] > 0
          \/ (Exists(w) /\ bots[swaps[w].maker].at = "paused")
          \/ (spent["pause"] > 0 /\ swaps[w].age >= Retention))

\* A suspended maker is let back in as its marks age out (rfq.js:22-23,:142).
SuspensionEnds == \A m \in Maker : Suspended(m) ~> ~Suspended(m)
=============================================================================
