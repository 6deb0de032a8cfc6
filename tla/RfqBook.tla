------------------------------ MODULE RfqBook ------------------------------
(***************************************************************************)
(* The coordinator's RFQ layer (coordinator/rfq.js) over the engine's      *)
(* swaps: two-sided quotes that expire unless pinged again, takes and      *)
(* multi-maker fills that turn them into swaps, matches handed to the      *)
(* maker in every ping until it joins, and a reputation read off the swaps *)
(* a maker was matched in.                                                 *)
(*                                                                         *)
(* A size is a number of lots of the qbit leg; the amount on the btc leg   *)
(* follows from the price and is left out, with the fee.  A maker's price  *)
(* does not change, so a taker's limit never refuses.  Time is in ticks;   *)
(* ages stop at MaxAge, beyond which no comparison changes.  Of a swap     *)
(* only what this layer reads is kept.                                     *)
(***************************************************************************)
EXTENDS Integers, FiniteSets, FiniteSetsExt, SequencesExt

CONSTANTS
  Maker,        \* the configured makers (RFQ_MAKER_KEYS)
  MaxSwaps,     \* bound: swaps ever created
  Price,        \* maker -> side -> its price
  MinLot,       \* MIN_SATS.qbit: the smallest swap
  MaxActive,    \* MAX_ACTIVE_SWAPS (0: no cap)
  Ttl,          \* RFQ_TTL_MS
  Grace,        \* RFQ_REP_GRACE_MS
  RepWindow,    \* RFQ_REP_WINDOW_MS
  Suspend,      \* RFQ_REP_SUSPEND (0: nobody is suspended)
  RepHistory,   \* RFQ_REP_HISTORY
  Retention,    \* RFQ_MATCH_RETENTION_MS
  MaxAge        \* bound: where ages stop

Side   == {"ask", "bid"}    \* retail lifts an ask (buys) or hits a bid (sells)
SwapId == 1..MaxSwaps

ASSUME RfqAssumption ==
  /\ IsFiniteSet(Maker) /\ MaxSwaps \in Nat /\ MinLot \in Nat \ {0} /\ MaxActive \in Nat
  /\ {Ttl, Grace, RepWindow, Suspend, RepHistory, Retention} \subseteq Nat
  /\ MaxAge \in Nat /\ MaxAge > Grace /\ MaxAge >= RepWindow /\ MaxAge >= Retention
  /\ Price \in [Maker -> [Side -> Nat]]

VARIABLES
  swaps,    \* id -> the swap, with the terms and whom its tokens went to
  makers    \* maker -> its quote, its queue of matches, its log of matches

rfqVars == <<swaps, makers>>

\* `joined`, `paid`: the maker's slot is filled, its deposit seen; `taken`: the
\* taker was told its token; `ready`: the taker has joined, and on an ask its
\* deposit is buried; `age`, `since`: ticks since the match, since then.
NoSwap  == [state |-> "none", taken |-> FALSE, size |-> 0, joined |-> FALSE, ready |-> FALSE,
            paid |-> FALSE, age |-> 0, since |-> 0]
NoQuote == [ask |-> 0, bid |-> 0, age |-> Ttl, matches |-> {}, history |-> <<>>]

RfqInit ==
  /\ swaps = [w \in SwapId |-> NoSwap]
  /\ makers = [m \in Maker |-> NoQuote]

Exists(w) == swaps[w].state # "none"
Open(w)   == swaps[w].state = "open"
Over(w)   == Exists(w) /\ ~Open(w)

-----------------------------------------------------------------------------
\* Reputation.  The buyer of qbit is alice: the taker of an ask, the maker of a
\* bid.  She funds first, so the maker of a bid always counts as cleared.

\* classifyMatch: the maker was cleared to fund and did not.
NoShow(w) ==
  /\ ~swaps[w].paid
  /\ \/ swaps[w].side = "bid" /\ (Over(w) \/ swaps[w].age > Grace)
     \/ swaps[w].side = "ask" /\ swaps[w].ready /\ (Over(w) \/ swaps[w].since > Grace)

\* Mutant of Suspended: marks do not age out.
Suspended_Forever(m) ==
  Cardinality({i \in DOMAIN makers[m].history : NoShow(makers[m].history[i])}) >= Suspend

Suspended(m) ==
  LET log == makers[m].history
      recent == {i \in DOMAIN log : NoShow(log[i]) /\ swaps[log[i]].age < RepWindow}
  IN Suspend > 0 /\ Cardinality(recent) >= Suspend

-----------------------------------------------------------------------------
\* Pricing.

liveSides(k) == {m \in Maker : makers[m].age < Ttl /\ ~Suspended(m) /\ makers[m][k] > 0}

Better(k, m, o) == IF k = "ask" THEN Price[m][k] < Price[o][k] ELSE Price[m][k] > Price[o][k]

\* The makers a take of n lots may go to.
bestQuote(k, n) ==
  LET candidates == {m \in liveSides(k) : n <= makers[m][k]}
  IN {m \in candidates : ~ \E o \in candidates : Better(k, o, m)}

\* The sort of planFill: best price first, and of equals any order (the code's is
\* that of RFQ_MAKER_KEYS).
Ranked(k) ==
  {r \in SetToSeqs(liveSides(k)) : \A i, j \in DOMAIN r : i < j => ~Better(k, r[j], r[i])}

NoPlan == [got |-> 0, legs |-> <<>>]
Extended(plan, m, n) == [got |-> plan.got + n, legs |-> Append(plan.legs, [maker |-> m, size |-> n])]
Slice(k, want, plan, m) == Min({makers[m][k], want - plan.got})

\* Mutant of planFill: a remainder below the minimum is made a leg.
planFill_Dust(k, want, ranked) ==
  LET plan[i \in 0..Len(ranked)] ==
        IF i = 0 THEN NoPlan
        ELSE LET m == ranked[i]
                 n == Slice(k, want, plan[i - 1], m)
             IN IF n = 0 THEN plan[i - 1] ELSE Extended(plan[i - 1], m, n)
  IN plan[Len(ranked)]

\* Best price first, a slice of each maker; a slice below the minimum is skipped.
planFill(k, want, ranked) ==
  LET plan[i \in 0..Len(ranked)] ==
        IF i = 0 THEN NoPlan
        ELSE LET m == ranked[i]
                 n == Slice(k, want, plan[i - 1], m)
             IN IF n < MinLot THEN plan[i - 1] ELSE Extended(plan[i - 1], m, n)
  IN plan[Len(ranked)]

\* The sizes of legs, or of swaps; the legs of one maker, and what they add up to.
Sizes(legs)     == [i \in DOMAIN legs |-> legs[i].size]
LegsOf(legs, m) == {i \in DOMAIN legs : legs[i].maker = m}
Bought(legs, m) == SumFunctionOnSet(Sizes(legs), LegsOf(legs, m))

-----------------------------------------------------------------------------
\* Takes.

Used == Cardinality({w \in SwapId : Exists(w)})

\* createSwap: how many more swaps the cap on active ones lets in.
Room == IF MaxActive = 0 THEN MaxSwaps ELSE MaxActive - Cardinality({w \in SwapId : Open(w)})

\* Mutant of Charged: the log of matches is not capped.
Charged_NoShift(maker, k, new, n) ==
  [maker EXCEPT ![k] = Max({0, @ - n}), !.matches = @ \cup new,
                !.history = @ \o SetToSeq(new)]

\* openLeg, the maker's side of it: a match, a smaller quote, a longer log.
Charged(maker, k, new, n) ==
  LET log == maker.history \o SetToSeq(new)
  IN [maker EXCEPT ![k] = Max({0, @ - n}), !.matches = @ \cup new,
                   !.history = IF Len(log) > RepHistory THEN Tail(log) ELSE log]

\* openLeg for each leg, one maker each; `told`: the taker receives the tokens.
OpenLegs(k, legs, told) ==
  LET idOf(i) == Used + i
  IN /\ idOf(Len(legs)) <= MaxSwaps
     /\ swaps' = [w \in SwapId |->
          IF w - Used \in DOMAIN legs
          THEN [state |-> "open", taken |-> told, maker |-> legs[w - Used].maker, side |-> k,
                size |-> legs[w - Used].size, joined |-> FALSE, ready |-> FALSE, paid |-> FALSE,
                age |-> 0, since |-> 0]
          ELSE swaps[w]]
     /\ makers' = [m \in Maker |->
          IF LegsOf(legs, m) = {} THEN makers[m]
          ELSE Charged(makers[m], k, {idOf(i) : i \in LegsOf(legs, m)}, Bought(legs, m))]

takeRfq(k, n) ==
  /\ n >= MinLot /\ Room > 0
  /\ \E m \in bestQuote(k, n) : OpenLegs(k, <<[maker |-> m, size |-> n]>>, TRUE)

\* A cap reached in the middle throws: the legs opened so far stay, and the
\* taker is told of none of them.
takeFill(k, want) ==
  \E ranked \in Ranked(k) :
    LET legs == planFill(k, want, ranked).legs
        fit  == Min({Len(legs), Room})
    IN /\ fit > 0
       /\ OpenLegs(k, SubSeq(legs, 1, fit), fit = Len(legs))

-----------------------------------------------------------------------------
\* The maker's ping, and the status page.

\* pendingMatches: what stays queued, and what of it is handed out.
Kept(m)     == {w \in makers[m].matches : swaps[w].age < Retention /\ ~Over(w)}
Awaiting(m) == {w \in Kept(m) : ~swaps[w].joined}

\* Mutant of PingRoute: what is handed out leaves the queue.
PingRoute_Acked(m, q) ==
  LET stated(k) == IF k \in DOMAIN q THEN q[k] ELSE makers[m][k]
  IN /\ makers' = [makers EXCEPT ![m] = [@ EXCEPT !.ask = stated("ask"), !.bid = stated("bid"),
                                                  !.age = 0, !.matches = {}]]
     /\ UNCHANGED swaps

\* submitQuote and pendingMatches, in one request; `q` restates the sides in its
\* domain, the others carry forward.
PingRoute(m, q) ==
  LET stated(k) == IF k \in DOMAIN q THEN q[k] ELSE makers[m][k]
  IN /\ makers' = [makers EXCEPT ![m] = [@ EXCEPT !.ask = stated("ask"), !.bid = stated("bid"),
                                                  !.age = 0, !.matches = Kept(m)]]
     /\ UNCHANGED swaps

rfqStatus ==
  /\ makers' = [m \in Maker |-> [makers[m] EXCEPT !.matches = Kept(m)]]
  /\ UNCHANGED swaps

\* The process stops and starts: swaps are reloaded, makers are not stored.
RestartRfq == makers' = [m \in Maker |-> NoQuote] /\ UNCHANGED swaps

-----------------------------------------------------------------------------
\* The swaps, as far as this layer reads them.

Changes(w, rec) == swaps' = [swaps EXCEPT ![w] = rec] /\ UNCHANGED makers

MakerJoins(w) ==
  /\ Open(w) /\ ~swaps[w].joined
  /\ Changes(w, [swaps[w] EXCEPT !.joined = TRUE])

\* The taker's deposit on an ask waits for the maker to join.
TakerReady(w) ==
  /\ Open(w) /\ swaps[w].taken /\ ~swaps[w].ready
  /\ swaps[w].side = "ask" => swaps[w].joined
  /\ Changes(w, [swaps[w] EXCEPT !.ready = TRUE])

MakerPays(w) ==
  /\ Open(w) /\ swaps[w].joined /\ swaps[w].ready /\ ~swaps[w].paid
  /\ Changes(w, [swaps[w] EXCEPT !.paid = TRUE])

Deposited(w) == swaps[w].paid \/ (swaps[w].side = "ask" /\ swaps[w].ready)

IsCanceled(w) ==
  /\ Open(w) /\ ~Deposited(w)
  /\ Changes(w, [swaps[w] EXCEPT !.state = "CANCELED"])

IsRefunded(w) ==
  /\ Open(w) /\ Deposited(w)
  /\ Changes(w, [swaps[w] EXCEPT !.state = "REFUNDED"])

IsComplete(w) ==
  /\ Open(w) /\ swaps[w].paid
  /\ Changes(w, [swaps[w] EXCEPT !.state = "COMPLETE"])

\* No age of a swap is read once the maker has paid.
Older(n) == IF n < MaxAge THEN n + 1 ELSE n
Aged(w) ==
  IF ~Exists(w) \/ swaps[w].paid THEN swaps[w]
  ELSE [swaps[w] EXCEPT !.age = Older(@), !.since = IF swaps[w].ready THEN Older(@) ELSE 0]

TimePasses ==
  /\ swaps' = [w \in SwapId |-> Aged(w)]
  /\ makers' = [m \in Maker |-> [makers[m] EXCEPT !.age = IF @ < Ttl THEN @ + 1 ELSE @]]
=============================================================================
