-------------------------- MODULE RfqMarket_proofs --------------------------
(***************************************************************************)
(* Three results for any makers, prices, sizes, limits and scenarios.      *)
(*                                                                         *)
(* No match is lost: a swap that waits for its maker is in that maker's    *)
(* queue as long as the coordinator has not been restarted.                *)
(*                                                                         *)
(* A plan fills: what planFill buys is tradable, adds up, leaves no better *)
(* price unused and misses less than one minimum swap.                     *)
(*                                                                         *)
(* An overdraft is bounded: no maker is matched beyond its balance by more *)
(* than the slack its faults account for.                                  *)
(***************************************************************************)
EXTENDS RfqMarket, FiniteSetTheorems, TLAPS

-----------------------------------------------------------------------------
\* Matches: the queue of a maker.

\* The fields the queue depends on are there, and an age is a number.
HasShape(w) == Exists(w) => /\ {"state", "maker", "joined", "age"} \subseteq DOMAIN swaps[w]
                            /\ swaps[w].age \in Nat

\* The inductive invariant: the shape of the state, and no match lost.
QueueInv ==
  /\ DOMAIN swaps = SwapId /\ \A w \in SwapId : HasShape(w)
  /\ DOMAIN makers = Maker /\ \A m \in Maker : "matches" \in DOMAIN makers[m]
  /\ spent \in [Event -> Nat]
  /\ NoMatchLost

-----------------------------------------------------------------------------
\* What a step does to one swap and to one queue.

\* Swap w waits for no maker it did not wait for.
Later(w) == /\ HasShape(w)'
            /\ \A m \in Maker : Waits(m, w)' => Waits(m, w) \/ w \in makers'[m].matches

\* Queues keep what still waits.
QueuesKeep ==
  /\ DOMAIN makers' = Maker
  /\ \A m \in Maker : /\ "matches" \in DOMAIN makers'[m]
                      /\ \A w \in SwapId : w \in makers[m].matches /\ Waits(m, w)' => w \in makers'[m].matches

LEMMA Keeps ==
  ASSUME QueueInv, DOMAIN swaps' = SwapId, \A w \in SwapId : Later(w), QueuesKeep,
         spent' \in [Event -> Nat], spent'["restart"] = 0 => spent["restart"] = 0
  PROVE  QueueInv'
<1>1. NoMatchLost'
  <2> SUFFICES ASSUME spent'["restart"] = 0, NEW m \in Maker, NEW w \in SwapId, Waits(m, w)'
               PROVE  w \in makers'[m].matches
    BY DEF NoMatchLost
  <2>1. Waits(m, w) \/ w \in makers'[m].matches
    BY DEF Later
  <2>2. Waits(m, w) => w \in makers[m].matches
    BY DEF QueueInv, NoMatchLost
  <2> QED BY <2>1, <2>2 DEF QueuesKeep
<1>2. \A w \in SwapId : HasShape(w)'
  BY DEF Later
<1> QED BY <1>1, <1>2 DEF QueueInv, QueuesKeep

\* Events are counted up.
LEMMA UseCounts ==
  ASSUME spent \in [Event -> Nat], NEW e \in Event, Use(e)
  PROVE  /\ spent' \in [Event -> Nat]
         /\ spent'["restart"] = 0 => spent["restart"] = 0
         /\ e = "restart" => spent'["restart"] # 0
<1>1. spent' = [spent EXCEPT ![e] = @ + 1]
  BY DEF Use
<1>2. "restart" \in Event
  BY DEF Event
<1> QED BY <1>1, <1>2

LEMMA FreeCounts ==
  ASSUME spent \in [Event -> Nat], Free
  PROVE  spent' \in [Event -> Nat] /\ (spent'["restart"] = 0 => spent["restart"] = 0)
BY DEF Free

\* A step that leaves the queues alone keeps them.
LEMMA SameQueues ==
  ASSUME QueueInv, UNCHANGED makers
  PROVE  QueuesKeep
BY DEF QueuesKeep, QueueInv

\* A step that leaves swap w alone makes it wait for nobody new.
LEMMA SameSwap ==
  ASSUME NEW w \in SwapId, HasShape(w), swaps'[w] = swaps[w]
  PROVE  Later(w)
BY DEF Later, HasShape, Waits, Exists, Over, Open

\* Nothing of this layer changes.
LEMMA Untouched ==
  ASSUME QueueInv, UNCHANGED rfqVars
  PROVE  DOMAIN swaps' = SwapId /\ (\A w \in SwapId : Later(w)) /\ QueuesKeep
<1>1. UNCHANGED <<swaps, makers>>
  BY DEF rfqVars
<1>2. \A w \in SwapId : HasShape(w) /\ swaps'[w] = swaps[w]
  BY <1>1 DEF QueueInv
<1>3. \A w \in SwapId : Later(w)
  BY <1>2, SameSwap
<1> QED BY <1>1, <1>3, SameQueues DEF QueueInv
-----------------------------------------------------------------------------
\* One swap changes.  Its new record is the old one with fields replaced, so it
\* still names the same maker, and is over, joined, or as it was.
LEMMA OneChanges ==
  ASSUME QueueInv, NEW w \in SwapId, NEW rec, Open(w), Changes(w, rec),
         {"state", "maker", "joined", "age"} \subseteq DOMAIN rec,
         rec.maker = swaps[w].maker, rec.age = swaps[w].age,
         rec.state # "open" \/ rec.joined \/ rec.joined = swaps[w].joined
  PROVE  DOMAIN swaps' = SwapId /\ (\A v \in SwapId : Later(v)) /\ QueuesKeep
<1>1. swaps' = [swaps EXCEPT ![w] = rec] /\ UNCHANGED makers
  BY DEF Changes
<1>2. DOMAIN swaps' = SwapId /\ swaps'[w] = rec /\ \A v \in SwapId : v # w => swaps'[v] = swaps[v]
  BY <1>1 DEF QueueInv
<1>3. \A v \in SwapId \ {w} : Later(v)
  BY <1>2, SameSwap DEF QueueInv
<1>4. Exists(w) /\ HasShape(w)
  BY DEF QueueInv, Exists, Open
<1>5. HasShape(w)'
  BY <1>2, <1>4 DEF HasShape
<1>6. ASSUME NEW m \in Maker, Waits(m, w)'
      PROVE  Waits(m, w)
  <2>1. swaps'[w].maker = m /\ swaps'[w].state = "open" /\ ~swaps'[w].joined /\ swaps'[w].age < Retention
    BY <1>6 DEF Waits, Over, Open
  <2>2. swaps[w].maker = m /\ ~swaps[w].joined /\ swaps[w].age < Retention
    BY <2>1, <1>2
  <2> QED BY <2>2, <1>4 DEF Waits, Over
<1>7. Later(w)
  BY <1>5, <1>6 DEF Later
<1> QED BY <1>1, <1>2, <1>3, <1>7, SameQueues

\* The steps of a swap.
LEMMA StepsOfASwap ==
  ASSUME QueueInv, NEW w \in SwapId,
         MakerJoins(w) \/ TakerReady(w) \/ MakerPays(w) \/ IsCanceled(w) \/ IsRefunded(w) \/ IsComplete(w)
  PROVE  DOMAIN swaps' = SwapId /\ (\A v \in SwapId : Later(v)) /\ QueuesKeep
<1>1. Open(w)
  BY DEF MakerJoins, TakerReady, MakerPays, IsCanceled, IsRefunded, IsComplete
<1>2. {"state", "maker", "joined", "age"} \subseteq DOMAIN swaps[w]
  BY <1>1 DEF QueueInv, HasShape, Exists, Open
<1>3. CASE MakerJoins(w)
  <2> DEFINE rec == [swaps[w] EXCEPT !.joined = TRUE]
  <2>1. DOMAIN rec = DOMAIN swaps[w] /\ rec.maker = swaps[w].maker /\ rec.age = swaps[w].age
    BY <1>2, Zenon
  <2>2. rec.joined
    BY <1>2, Zenon
  <2>3. Changes(w, rec)
    BY <1>3, Zenon DEF MakerJoins
  <2> HIDE DEF rec
  <2> QED BY <1>1, <1>2, <2>1, <2>2, <2>3, OneChanges
<1>4. CASE TakerReady(w)
  <2> DEFINE rec == [swaps[w] EXCEPT !.ready = TRUE]
  <2>1. DOMAIN rec = DOMAIN swaps[w] /\ rec.maker = swaps[w].maker /\ rec.age = swaps[w].age
    BY <1>2, Zenon
  <2>2. rec.joined = swaps[w].joined
    BY <1>2, Zenon
  <2>3. Changes(w, rec)
    BY <1>4, Zenon DEF TakerReady
  <2> HIDE DEF rec
  <2> QED BY <1>1, <1>2, <2>1, <2>2, <2>3, OneChanges
<1>5. CASE MakerPays(w)
  <2> DEFINE rec == [swaps[w] EXCEPT !.paid = TRUE]
  <2>1. DOMAIN rec = DOMAIN swaps[w] /\ rec.maker = swaps[w].maker /\ rec.age = swaps[w].age
    BY <1>2, Zenon
  <2>2. rec.joined = swaps[w].joined
    BY <1>2, Zenon
  <2>3. Changes(w, rec)
    BY <1>5, Zenon DEF MakerPays
  <2> HIDE DEF rec
  <2> QED BY <1>1, <1>2, <2>1, <2>2, <2>3, OneChanges
<1>6. ASSUME NEW st \in {"CANCELED", "REFUNDED", "COMPLETE"}, Changes(w, [swaps[w] EXCEPT !.state = st])
      PROVE  DOMAIN swaps' = SwapId /\ (\A v \in SwapId : Later(v)) /\ QueuesKeep
  <2> DEFINE rec == [swaps[w] EXCEPT !.state = st]
  <2>1. DOMAIN rec = DOMAIN swaps[w] /\ rec.maker = swaps[w].maker /\ rec.age = swaps[w].age
    BY <1>2, Zenon
  <2>2. rec.state = st
    BY <1>2, Zenon
  <2>3. rec.state # "open"
    BY <2>2
  <2>4. Changes(w, rec)
    BY <1>6
  <2> HIDE DEF rec
  <2> QED BY <1>1, <1>2, <2>1, <2>3, <2>4, OneChanges
<1>7. CASE IsCanceled(w)
  BY <1>6, <1>7, Zenon DEF IsCanceled
<1>8. CASE IsRefunded(w)
  BY <1>6, <1>8, Zenon DEF IsRefunded
<1>9. CASE IsComplete(w)
  BY <1>6, <1>9, Zenon DEF IsComplete
<1> QED BY <1>3, <1>4, <1>5, <1>7, <1>8, <1>9

-----------------------------------------------------------------------------
\* A maker that is charged has the new matches queued behind the old ones.
LEMMA ChargedQueues ==
  ASSUME NEW q, "matches" \in DOMAIN q, NEW new, NEW n, NEW k \in {"ask", "bid"}
  PROVE  "matches" \in DOMAIN Charged(q, k, new, n) /\ Charged(q, k, new, n).matches = q.matches \cup new
<1>1. CASE k = "ask"
  BY <1>1 DEF Charged
<1>2. CASE k = "bid"
  BY <1>2 DEF Charged
<1> QED BY <1>1, <1>2

\* New swaps: whoever a leg names has it queued.
LEMMA LegsAreQueued ==
  ASSUME RfqAssumption, QueueInv, NEW k \in Side, NEW legs, NEW told, OpenLegs(k, legs, told)
  PROVE  DOMAIN swaps' = SwapId /\ (\A w \in SwapId : Later(w)) /\ QueuesKeep
<1> DEFINE added(m) == {Used + i : i \in LegsOf(legs, m)}
           sum(m) == Bought(legs, m)
           leg(w) == [state |-> "open", taken |-> told, maker |-> legs[w - Used].maker, side |-> k,
                      size |-> legs[w - Used].size, joined |-> FALSE, ready |-> FALSE, paid |-> FALSE,
                      age |-> 0, since |-> 0]
<1>1. Used \in Nat
  <2>1. IsFiniteSet(SwapId)
    BY FS_Interval DEF SwapId, RfqAssumption
  <2>2. IsFiniteSet({w \in SwapId : Exists(w)})
    BY <2>1, FS_Subset
  <2> QED BY <2>2, FS_CardinalityType DEF Used
<1>2. swaps' = [w \in SwapId |-> IF w - Used \in DOMAIN legs THEN leg(w) ELSE swaps[w]]
  BY Zenon DEF OpenLegs
<1>3. makers' = [m \in Maker |-> IF LegsOf(legs, m) = {} THEN makers[m]
                                 ELSE Charged(makers[m], k, added(m), sum(m))]
  BY Zenon DEF OpenLegs
<1>4. ASSUME NEW m \in Maker
      PROVE  "matches" \in DOMAIN makers'[m] /\ makers'[m].matches = makers[m].matches \cup added(m)
  <2>1. "matches" \in DOMAIN makers[m]
    BY DEF QueueInv
  <2>2. CASE LegsOf(legs, m) = {}
    BY <1>3, <2>1, <2>2
  <2>3. CASE LegsOf(legs, m) # {}
    <3>1. makers'[m] = Charged(makers[m], k, added(m), sum(m))
      BY <1>3, <2>3, Zenon
    <3>2. makers'[m] = Charged(makers[m], "ask", added(m), sum(m))
          \/ makers'[m] = Charged(makers[m], "bid", added(m), sum(m))
      BY <3>1 DEF Side
    <3> HIDE DEF added, sum
    <3> QED BY <3>2, <2>1, ChargedQueues
  <2> QED BY <2>2, <2>3
<1>5. QueuesKeep
  BY <1>3, <1>4 DEF QueuesKeep
<1>6. ASSUME NEW w \in SwapId
      PROVE  Later(w)
  <2>1. CASE w - Used \notin DOMAIN legs
    BY <1>2, <2>1, SameSwap DEF QueueInv
  <2>2. CASE w - Used \in DOMAIN legs
    <3>1. swaps'[w] = leg(w)
      BY <1>2, <2>2, Zenon
    <3>2. swaps'[w].maker = legs[w - Used].maker /\ swaps'[w].age = 0
      BY <3>1
    <3>3. {"state", "maker", "joined", "age"} \subseteq DOMAIN swaps'[w]
      BY <3>1
    <3>4. ASSUME NEW m \in Maker, legs[w - Used].maker = m
          PROVE  w \in makers'[m].matches
      <4>1. w - Used \in LegsOf(legs, m)
        BY <2>2, <3>4 DEF LegsOf
      <4>2. w = Used + (w - Used)
        BY <1>1 DEF SwapId
      <4>3. w \in added(m)
        BY <4>1, <4>2, Zenon
      <4> QED BY <4>3, <1>4
    <3> QED BY <3>2, <3>3, <3>4 DEF Later, HasShape, Waits
  <2> QED BY <2>1, <2>2
<1>7. DOMAIN swaps' = SwapId
  BY <1>2
<1> QED BY <1>5, <1>6, <1>7

LEMMA TakesAreQueued ==
  ASSUME RfqAssumption, QueueInv, NEW k \in Side, NEW n \in Want, takeRfq(k, n) \/ takeFill(k, n)
  PROVE  DOMAIN swaps' = SwapId /\ (\A w \in SwapId : Later(w)) /\ QueuesKeep
<1>1. \E legs, told : OpenLegs(k, legs, told)
  BY Zenon DEF takeRfq, takeFill
<1> QED BY <1>1, LegsAreQueued

-----------------------------------------------------------------------------
\* Queues pruned: what still waits stays.
LEMMA PingKeeps ==
  ASSUME QueueInv, NEW m \in Maker, NEW q, PingRoute(m, q)
  PROVE  DOMAIN swaps' = SwapId /\ (\A w \in SwapId : Later(w)) /\ QueuesKeep
<1>1. UNCHANGED swaps
  BY DEF PingRoute
<1>2. \A w \in SwapId : Later(w)
  BY <1>1, SameSwap DEF QueueInv
<1>3. PICK p1, p2 : makers' = [makers EXCEPT ![m] = [@ EXCEPT !.ask = p1, !.bid = p2, !.age = 0, !.matches = Kept(m)]]
  BY DEF PingRoute
<1>4. DOMAIN makers' = Maker /\ \A o \in Maker : o # m => makers'[o] = makers[o]
  BY <1>3 DEF QueueInv
<1>5. "matches" \in DOMAIN makers'[m] /\ makers'[m].matches = Kept(m)
  BY <1>3 DEF QueueInv
<1>6. ASSUME NEW w \in SwapId, w \in makers[m].matches, Waits(m, w)'
      PROVE  w \in makers'[m].matches
  BY <1>1, <1>5, <1>6 DEF Kept, Waits, Over, Open, Exists
<1>7. QueuesKeep
  BY <1>4, <1>5, <1>6 DEF QueuesKeep, QueueInv
<1> QED BY <1>1, <1>2, <1>7 DEF QueueInv

LEMMA StatusKeeps ==
  ASSUME QueueInv, rfqStatus
  PROVE  DOMAIN swaps' = SwapId /\ (\A w \in SwapId : Later(w)) /\ QueuesKeep
<1>1. UNCHANGED swaps /\ makers' = [m \in Maker |-> [makers[m] EXCEPT !.matches = Kept(m)]]
  BY DEF rfqStatus
<1>2. \A w \in SwapId : Later(w)
  BY <1>1, SameSwap DEF QueueInv
<1>3. \A m \in Maker : "matches" \in DOMAIN makers'[m] /\ makers'[m].matches = Kept(m)
  BY <1>1 DEF QueueInv
<1>4. ASSUME NEW m \in Maker, NEW w \in SwapId, w \in makers[m].matches, Waits(m, w)'
      PROVE  w \in makers'[m].matches
  BY <1>1, <1>3, <1>4 DEF Kept, Waits, Over, Open, Exists
<1>5. QueuesKeep
  BY <1>1, <1>3, <1>4 DEF QueuesKeep
<1> QED BY <1>1, <1>2, <1>5 DEF QueueInv

\* Ages only grow, up to a bound no comparison reaches past.
LEMMA TimeKeeps ==
  ASSUME RfqAssumption, QueueInv, TimePasses
  PROVE  DOMAIN swaps' = SwapId /\ (\A w \in SwapId : Later(w)) /\ QueuesKeep
<1>1. swaps' = [w \in SwapId |-> Aged(w)]
  BY DEF TimePasses
<1>2. \A n \in Nat : Older(n) \in Nat /\ (Older(n) < Retention => n < Retention)
  BY DEF Older, RfqAssumption
<1>3. ASSUME NEW w \in SwapId
      PROVE  Later(w)
  <2>1. swaps'[w] = Aged(w)
    BY <1>1
  <2>2. CASE ~Exists(w) \/ swaps[w].paid
    BY <2>1, <2>2, SameSwap, Zenon DEF Aged, QueueInv
  <2>3. CASE Exists(w) /\ ~swaps[w].paid
    <3>1. {"state", "maker", "joined", "age"} \subseteq DOMAIN swaps[w] /\ swaps[w].age \in Nat
      BY <2>3 DEF QueueInv, HasShape
    <3>2. PICK t : swaps'[w] = [swaps[w] EXCEPT !.age = Older(@), !.since = t]
      BY <2>1, <2>3, Zenon DEF Aged
    <3>3. DOMAIN swaps'[w] = DOMAIN swaps[w] /\ swaps'[w].state = swaps[w].state
          /\ swaps'[w].maker = swaps[w].maker /\ swaps'[w].age = Older(swaps[w].age)
      BY <3>1, <3>2
    <3>4. swaps'[w].joined = swaps[w].joined
      BY <3>1, <3>2, Zenon
    <3>5. HasShape(w)'
      BY <3>1, <3>3, <1>2 DEF HasShape
    <3>6. ASSUME NEW m \in Maker, Waits(m, w)'
          PROVE  Waits(m, w)
      <4>1. swaps'[w].age < Retention /\ swaps'[w].maker = m
        BY <3>6 DEF Waits
      <4>2. swaps[w].age < Retention /\ swaps[w].maker = m
        BY <4>1, <3>1, <3>3, <1>2
      <4>3. ~swaps[w].joined
        BY <3>6, <3>4 DEF Waits
      <4>4. ~Over(w)
        BY <3>6, <3>3 DEF Waits, Over, Open, Exists
      <4> QED BY <4>2, <4>3, <4>4, <2>3 DEF Waits
    <3> QED BY <3>5, <3>6 DEF Later
  <2> QED BY <2>2, <2>3
<1>4. \A m \in Maker : "matches" \in DOMAIN makers'[m] /\ makers'[m].matches = makers[m].matches
  BY DEF TimePasses, QueueInv
<1>5. QueuesKeep
  BY <1>4 DEF QueuesKeep, TimePasses
<1> QED BY <1>1, <1>3, <1>5
-----------------------------------------------------------------------------
\* The two ways a step can keep the invariant: it counts no event, or one.
LEMMA FreeSteps ==
  ASSUME QueueInv, DOMAIN swaps' = SwapId, \A w \in SwapId : Later(w), QueuesKeep, Free
  PROVE  QueueInv'
BY FreeCounts, Keeps DEF QueueInv

LEMMA UsedSteps ==
  ASSUME QueueInv, DOMAIN swaps' = SwapId, \A w \in SwapId : Later(w), QueuesKeep,
         NEW e \in Event, Use(e)
  PROVE  QueueInv'
BY UseCounts, Keeps DEF QueueInv

\* The invariant holds at first: there is no swap.
LEMMA QueueInit == Init => QueueInv
<1> SUFFICES ASSUME Init PROVE QueueInv
  OBVIOUS
<1>1. swaps = [w \in SwapId |-> NoSwap] /\ makers = [m \in Maker |-> NoQuote]
  BY DEF Init, RfqInit
<1>2. \A w \in SwapId : ~Exists(w)
  BY <1>1 DEF Exists, NoSwap
<1>3. \A m \in Maker : "matches" \in DOMAIN makers[m]
  BY <1>1 DEF NoQuote
<1>4. spent \in [Event -> Nat]
  BY DEF Init
<1> QED BY <1>1, <1>2, <1>3, <1>4 DEF QueueInv, HasShape, NoMatchLost, Waits

\* A restart of the coordinator empties the queues and is counted.
LEMMA RestartCounts ==
  ASSUME QueueInv, Restart
  PROVE  QueueInv'
<1>1. UNCHANGED swaps /\ makers' = [m \in Maker |-> NoQuote] /\ Use("restart")
  BY DEF Restart, RestartRfq
<1>2. spent' \in [Event -> Nat] /\ spent'["restart"] # 0
  BY <1>1, UseCounts DEF QueueInv, Event
<1>3. NoMatchLost'
  BY <1>2 DEF NoMatchLost
<1>4. \A m \in Maker : "matches" \in DOMAIN makers'[m]
  BY <1>1 DEF NoQuote
<1>5. \A w \in SwapId : HasShape(w)'
  BY <1>1 DEF QueueInv, HasShape, Exists
<1> QED BY <1>1, <1>2, <1>3, <1>4, <1>5 DEF QueueInv

\* Every step keeps the invariant.
LEMMA QueueStep == QueueInv /\ [Next]_vars => QueueInv'
<1> SUFFICES ASSUME QueueInv, [Next]_vars PROVE QueueInv'
  OBVIOUS
<1> DEFINE AllKept == DOMAIN swaps' = SwapId /\ (\A w \in SwapId : Later(w)) /\ QueuesKeep
<1>0. {"swap", "tick", "lost", "fails", "crash", "restart", "pause", "resume", "cancel", "refund"} \subseteq Event
  BY DEF Event
<1>1. ASSUME AllKept, Free PROVE QueueInv'
  BY <1>1, FreeSteps
<1>2. ASSUME AllKept, NEW e \in Event, Use(e) PROVE QueueInv'
  BY <1>2, UsedSteps
<1>3. UNCHANGED rfqVars => AllKept
  BY Untouched
<1> HIDE DEF AllKept
<1>4. ASSUME NEW k \in Side, NEW n \in Want, Take(k, n) \/ Fill(k, n) PROVE QueueInv'
  <2>1. Free /\ (takeRfq(k, n) \/ takeFill(k, n))
    BY <1>4 DEF Take, Fill
  <2> QED BY <2>1, <1>1, TakesAreQueued, RfqAssumption DEF AllKept
<1>5. CASE Status
  BY <1>1, <1>5, StatusKeeps DEF AllKept, Status
<1>6. CASE Restart
  BY <1>6, RestartCounts
<1>7. ASSUME NEW w \in SwapId, TakerActs(w) \/ Completed(w) PROVE QueueInv'
  BY <1>1, <1>7, StepsOfASwap DEF AllKept, TakerActs, Completed
<1>8. ASSUME NEW w \in SwapId, TakerCancels(w) \/ Refunded(w) PROVE QueueInv'
  BY <1>0, <1>2, <1>8, StepsOfASwap DEF AllKept, TakerCancels, Refunded
<1>9. ASSUME NEW m \in Maker, ReadBalance(m) PROVE QueueInv'
  BY <1>1, <1>3, <1>9 DEF ReadBalance
<1>10. ASSUME NEW m \in Maker, NEW lost \in BOOLEAN, Ping(m, lost) PROVE QueueInv'
  <2>1. AllKept
    BY <1>10, PingKeeps DEF Ping, AllKept
  <2>2. Free \/ Use("lost")
    BY <1>10 DEF Ping
  <2> QED BY <1>0, <1>1, <1>2, <2>1, <2>2
<1>11. ASSUME NEW m \in Maker, Pause(m) \/ Resume(m) PROVE QueueInv'
  BY <1>0, <1>2, <1>3, <1>11 DEF Pause, Resume
<1>12. ASSUME NEW m \in Maker, NEW w \in SwapId, BotJoins(m, w) \/ BotPays(m, w) PROVE QueueInv'
  BY <1>1, <1>12, StepsOfASwap DEF AllKept, BotJoins, BotPays
<1>13. ASSUME NEW m \in Maker, NEW w \in SwapId, RunFails(m, w) PROVE QueueInv'
  BY <1>0, <1>2, <1>3, <1>13 DEF RunFails
<1>14. ASSUME NEW m \in Maker, NEW w \in SwapId, RunEnds(m, w) PROVE QueueInv'
  BY <1>1, <1>3, <1>14 DEF RunEnds
<1>15. ASSUME NEW m \in Maker, BotRestarts(m) PROVE QueueInv'
  BY <1>0, <1>2, <1>3, <1>15 DEF BotRestarts
<1>16. CASE Tick
  BY <1>1, <1>16, TimeKeeps, RfqAssumption DEF AllKept, Tick
<1>17. CASE UNCHANGED vars
  BY <1>1, <1>3, <1>17 DEF vars, Free
<1> QED BY <1>4, <1>5, <1>6, <1>7, <1>8, <1>9, <1>10, <1>11, <1>12, <1>13, <1>14, <1>15, <1>16, <1>17
       DEF Next

\* Until the coordinator is restarted, a swap its maker has not joined is in the
\* maker's queue, from which every ping hands it out (rfq.js:80-86): whatever
\* makers there are, and whatever is lost, fails, stops or is canceled.
THEOREM MatchesKept == Spec => []NoMatchLost
<1>1. Spec => []QueueInv
  BY QueueInit, QueueStep, PTL DEF Spec
<1>2. QueueInv => NoMatchLost
  BY DEF QueueInv
<1> QED BY <1>1, <1>2, PTL

-----------------------------------------------------------------------------
\* Sums over finite sets.

LEMMA MinimalSet ==
  ASSUME NEW S, IsFiniteSet(S), NEW T, T \subseteq SUBSET S, T # {}
  PROVE  \E U \in T : \A V \in T : ~(V \subseteq U /\ V # U)
<1>1. T \subseteq FiniteSubsetsOf(S)
  BY FS_FiniteSubsetsOfFinite
<1>2. \E U \in T : \A V \in T : <<V, U>> \notin StrictSubsetOrdering(S)
  BY <1>1, WFMin, FS_StrictSubsetOrderingWellFounded, Zenon
<1> QED BY <1>2 DEF StrictSubsetOrdering

LEMMA SmallestNat ==
  ASSUME NEW T, T \subseteq Nat, T # {}
  PROVE  \E m \in T : \A n \in T : m <= n
<1>1. PICK top \in T : TRUE
  OBVIOUS
<1> DEFINE F == {0..k : k \in {k \in T : k <= top}}
<1>2. F \subseteq SUBSET (0..top) /\ F # {}
  BY <1>1
<1>3. IsFiniteSet(0..top)
  BY <1>1, FS_Interval
<1>4. PICK U \in F : \A V \in F : ~(V \subseteq U /\ V # U)
  <2>1. PICK I : I = 0..top
    OBVIOUS
  <2>2. IsFiniteSet(I) /\ F \subseteq SUBSET I
    BY <1>2, <1>3, <2>1
  <2>3. PICK G : G = F
    OBVIOUS
  <2>4. G \subseteq SUBSET I /\ G # {} /\ IsFiniteSet(I)
    BY <1>2, <2>2, <2>3
  <2> HIDE DEF F
  <2>5. \E U \in G : \A V \in G : ~(V \subseteq U /\ V # U)
    BY <2>4, MinimalSet
  <2> QED BY <2>3, <2>5
<1>5. PICK m \in T : U = 0..m /\ m <= top
  BY <1>4
<1>6. ASSUME NEW n \in T, n < m PROVE FALSE
  <2>1. 0..n \in F
    BY <1>1, <1>5, <1>6
  <2>2. 0..n \subseteq 0..m /\ m \in 0..m /\ m \notin 0..n
    BY <1>5, <1>6
  <2> HIDE DEF F
  <2> QED BY <1>4, <1>5, <2>1, <2>2
<1> QED BY <1>5, <1>6

Pick(s) == CHOOSE x \in s : TRUE
IsSum(g, f, S) == g = [s \in SUBSET S |-> IF s = {} THEN 0 ELSE f[Pick(s)] + g[s \ {Pick(s)}]]

LEMMA SumIsIter == ASSUME NEW f, NEW S PROVE SumFunctionOnSet(f, S) = (CHOOSE g : IsSum(g, f, S))[S]
BY DEF SumFunctionOnSet, FoldFunctionOnSet, MapThenFoldSet, IsSum, Pick

LEMMA Picked == ASSUME NEW S, S # {} PROVE Pick(S) \in S
BY DEF Pick

LEMMA SumAgrees ==
  ASSUME NEW f, NEW S, IsFiniteSet(S), NEW V \in SUBSET S, NEW g, NEW h, IsSum(g, f, S), IsSum(h, f, V)
  PROVE  \A s \in SUBSET V : g[s] = h[s]
<1> DEFINE T == {s \in SUBSET V : g[s] # h[s]}
<1> SUFFICES ASSUME T # {} PROVE FALSE
  OBVIOUS
<1>1. PICK s \in T : \A t \in T : ~(t \subseteq s /\ t # s)
  <2>1. T \subseteq SUBSET S /\ IsFiniteSet(S)
    OBVIOUS
  <2> HIDE DEF T
  <2> QED BY <2>1, MinimalSet
<1>2. s # {}
  BY DEF IsSum
<1>3. Pick(s) \in s
  BY <1>2, Picked
<1>4. g[s \ {Pick(s)}] = h[s \ {Pick(s)}]
  BY <1>1, <1>3
<1>5. g[s] = f[Pick(s)] + g[s \ {Pick(s)}] /\ h[s] = f[Pick(s)] + h[s \ {Pick(s)}]
  BY <1>1, <1>2 DEF IsSum
<1> QED BY <1>1, <1>4, <1>5

LEMMA SumExists ==
  ASSUME NEW f, NEW S, IsFiniteSet(S)
  PROVE  \E g : IsSum(g, f, S)
<1> DEFINE T == {s \in SUBSET S : ~ \E g : IsSum(g, f, s)}
<1> SUFFICES ASSUME T # {} PROVE FALSE
  OBVIOUS
<1>1. PICK U \in T : \A t \in T : ~(t \subseteq U /\ t # U)
  <2>1. T \subseteq SUBSET S
    OBVIOUS
  <2> HIDE DEF T
  <2> QED BY <2>1, MinimalSet
<1> DEFINE h == [s \in SUBSET U |-> CHOOSE g : IsSum(g, f, s)]
           part(s) == s \ {Pick(s)}
           G == [s \in SUBSET U |-> IF s = {} THEN 0 ELSE f[Pick(s)] + h[part(s)][part(s)]]
<1>2. ASSUME NEW s \in SUBSET U, s # U
      PROVE  IsSum(h[s], f, s)
  <2>1. \E g : IsSum(g, f, s)
    BY <1>1, <1>2
  <2> QED BY <2>1
<1>3. ASSUME NEW s \in SUBSET U, s # {}
      PROVE  G[part(s)] = h[part(s)][part(s)]
  <2> DEFINE t == part(s)
  <2>1. t \in SUBSET U /\ t # U
    BY <1>3, Picked
  <2>2. IsSum(h[t], f, t)
    BY <2>1, <1>2
  <2>3. CASE t = {}
    BY <2>1, <2>2, <2>3 DEF IsSum
  <2>4. CASE t # {}
    <3>1. part(t) \in SUBSET t /\ part(t) # t /\ part(t) \in SUBSET U /\ part(t) # U
      BY <2>1, <2>4, Picked
    <3>2. IsSum(h[part(t)], f, part(t))
      BY <3>1, <1>2
    <3>3. IsFiniteSet(t)
      BY <2>1, FS_Subset
    <3>4. h[t][part(t)] = h[part(t)][part(t)]
      <4>1. PICK ht, hp, u, v : ht = h[t] /\ hp = h[part(t)] /\ u = t /\ v = part(t)
        OBVIOUS
      <4>2. IsSum(ht, f, u) /\ IsSum(hp, f, v) /\ v \in SUBSET u /\ IsFiniteSet(u)
        BY <2>2, <3>1, <3>2, <3>3, <4>1
      <4>3. ht[v] = hp[v]
        BY <4>2, SumAgrees
      <4> QED BY <4>1, <4>3
    <3>5. h[t][t] = f[Pick(t)] + h[t][part(t)]
      BY <2>2, <2>4 DEF IsSum
    <3> QED BY <2>1, <2>4, <3>4, <3>5
  <2> QED BY <2>3, <2>4
<1>4. \A s \in SUBSET U : s # {} => part(s) \in SUBSET U
  OBVIOUS
<1>5. IsSum(G, f, U)
  <2> SUFFICES G = [s \in SUBSET U |-> IF s = {} THEN 0 ELSE f[Pick(s)] + G[part(s)]]
    BY DEF IsSum
  <2>1. ASSUME NEW s \in SUBSET U
        PROVE  (IF s = {} THEN 0 ELSE f[Pick(s)] + h[part(s)][part(s)])
                 = (IF s = {} THEN 0 ELSE f[Pick(s)] + G[part(s)])
    <3> HIDE DEF G, h, part
    <3> QED BY <1>3
  <2> HIDE DEF h, part
  <2> QED BY <2>1
<1> QED BY <1>1, <1>5

LEMMA SumEmpty == ASSUME NEW f PROVE SumFunctionOnSet(f, {}) = 0
<1>1. IsSum(CHOOSE g : IsSum(g, f, {}), f, {})
  BY SumExists, FS_EmptySet
<1> QED BY <1>1, SumIsIter DEF IsSum

LEMMA SumPick ==
  ASSUME NEW f, NEW S, IsFiniteSet(S), S # {}
  PROVE  SumFunctionOnSet(f, S) = f[Pick(S)] + SumFunctionOnSet(f, S \ {Pick(S)})
<1>1. PICK R : R = S \ {Pick(S)}
  OBVIOUS
<1>2. PICK g : IsSum(g, f, S) /\ SumFunctionOnSet(f, S) = g[S]
  BY SumExists, SumIsIter
<1>3. PICK h : IsSum(h, f, R) /\ SumFunctionOnSet(f, R) = h[R]
  BY <1>1, FS_RemoveElement, SumExists, SumIsIter
<1>4. g[S] = f[Pick(S)] + g[R]
  BY <1>1, <1>2 DEF IsSum
<1>5. g[R] = h[R]
  <2>1. R \in SUBSET S /\ R \in SUBSET R
    BY <1>1
  <2> QED BY <1>2, <1>3, <2>1, SumAgrees
<1> QED BY <1>1, <1>2, <1>3, <1>4, <1>5
LEMMA SubsetInduction ==
  ASSUME NEW S, IsFiniteSet(S), NEW T,
         \A U \in SUBSET S : (\A V \in SUBSET U : V # U => V \in T) => U \in T
  PROVE  S \in T
<1> DEFINE F == {U \in SUBSET S : U \notin T}
<1> SUFFICES ASSUME F # {} PROVE FALSE
  OBVIOUS
<1>1. PICK G : G = F
  OBVIOUS
<1>2. G \subseteq SUBSET S /\ G # {}
  BY <1>1
<1>3. PICK U \in G : \A V \in G : ~(V \subseteq U /\ V # U)
  BY <1>2, MinimalSet
<1>4. \A V \in SUBSET U : V # U => V \in T
  BY <1>1, <1>3
<1> QED BY <1>1, <1>3, <1>4

LEMMA NatInductionOnSet ==
  ASSUME NEW T, 0 \in T, \A n \in Nat : n \in T => n + 1 \in T
  PROVE  \A n \in Nat : n \in T
<1> DEFINE F == {n \in Nat : n \notin T}
<1> SUFFICES ASSUME F # {} PROVE FALSE
  OBVIOUS
<1>1. PICK m \in F : \A n \in F : m <= n
  <2>1. F \subseteq Nat
    OBVIOUS
  <2> HIDE DEF F
  <2> QED BY <2>1, SmallestNat
<1>2. m \in Nat /\ m # 0 /\ m - 1 \in Nat
  BY <1>1
<1>3. m - 1 \in T
  BY <1>1, <1>2
<1> QED BY <1>1, <1>2, <1>3

LEMMA SumRemove ==
  ASSUME NEW f, NEW S, IsFiniteSet(S), \A x \in S : f[x] \in Nat
  PROVE  /\ SumFunctionOnSet(f, S) \in Nat
         /\ \A x \in S : SumFunctionOnSet(f, S) = f[x] + SumFunctionOnSet(f, S \ {x})
<1> DEFINE Good(U) == /\ SumFunctionOnSet(f, U) \in Nat
                      /\ \A x \in U : SumFunctionOnSet(f, U) = f[x] + SumFunctionOnSet(f, U \ {x})
           T == {U \in SUBSET S : Good(U)}
<1>1. ASSUME NEW U \in SUBSET S, \A V \in SUBSET U : V # U => V \in T
      PROVE  Good(U)
  <2>1. CASE U = {}
    BY <2>1, SumEmpty
  <2>2. CASE U # {}
    <3> DEFINE p == Pick(U)
    <3>1. p \in U /\ IsFiniteSet(U)
      BY <2>2, Picked, FS_Subset
    <3>2. SumFunctionOnSet(f, U) = f[p] + SumFunctionOnSet(f, U \ {p})
      BY <2>2, <3>1, SumPick
    <3> HIDE DEF p
    <3>3. Good(U \ {p}) /\ f[p] \in Nat
      BY <1>1, <3>1
    <3>4. ASSUME NEW x \in U, x # p
          PROVE  SumFunctionOnSet(f, U) = f[x] + SumFunctionOnSet(f, U \ {x})
      <4>1. SumFunctionOnSet(f, U \ {p}) = f[x] + SumFunctionOnSet(f, (U \ {p}) \ {x})
        BY <3>3, <3>4
      <4>2. Good(U \ {x}) /\ f[x] \in Nat
        BY <1>1
      <4>3. SumFunctionOnSet(f, U \ {x}) = f[p] + SumFunctionOnSet(f, (U \ {x}) \ {p})
        BY <3>1, <3>4, <4>2
      <4>4. (U \ {x}) \ {p} = (U \ {p}) \ {x}
        OBVIOUS
      <4>5. Good((U \ {p}) \ {x})
        BY <1>1, <3>4
      <4> HIDE DEF T
      <4>6. PICK u, up, ux, v, fx, fp : /\ u = SumFunctionOnSet(f, U) /\ up = SumFunctionOnSet(f, U \ {p})
                                        /\ ux = SumFunctionOnSet(f, U \ {x}) /\ v = SumFunctionOnSet(f, (U \ {p}) \ {x})
                                        /\ fx = f[x] /\ fp = f[p]
        OBVIOUS
      <4>7. v \in Nat /\ fx \in Nat /\ fp \in Nat /\ u = fp + up /\ up = fx + v /\ ux = fp + v
        BY <3>2, <3>3, <4>1, <4>2, <4>3, <4>4, <4>5, <4>6
      <4>8. u = fx + ux
        BY <4>7
      <4> QED BY <4>6, <4>8
    <3> QED BY <3>2, <3>3, <3>4
  <2> QED BY <2>1, <2>2
<1>2. S \in T
  <2>1. PICK G : G = T
    OBVIOUS
  <2>2. \A U \in SUBSET S : (\A V \in SUBSET U : V # U => V \in G) => U \in G
    BY <1>1, <2>1
  <2>3. S \in G
    BY <2>2, SubsetInduction
  <2> QED BY <2>1, <2>3
<1> QED BY <1>2

LEMMA SumNat ==
  ASSUME NEW f, NEW S, IsFiniteSet(S), \A x \in S : f[x] \in Nat
  PROVE  SumFunctionOnSet(f, S) \in Nat
BY SumRemove

LEMMA SumAdd ==
  ASSUME NEW f, NEW S, IsFiniteSet(S), \A x \in S : f[x] \in Nat, NEW y, y \notin S, f[y] \in Nat
  PROVE  SumFunctionOnSet(f, S \cup {y}) = f[y] + SumFunctionOnSet(f, S)
<1>1. IsFiniteSet(S \cup {y})
  BY FS_AddElement
<1>2. (S \cup {y}) \ {y} = S
  OBVIOUS
<1>3. PICK U : U = S \cup {y}
  OBVIOUS
<1>4. IsFiniteSet(U) /\ (\A x \in U : f[x] \in Nat) /\ y \in U /\ U \ {y} = S
  BY <1>1, <1>2, <1>3
<1>5. SumFunctionOnSet(f, U) = f[y] + SumFunctionOnSet(f, U \ {y})
  BY <1>4, SumRemove
<1> QED BY <1>3, <1>4, <1>5

LEMMA SumUnion ==
  ASSUME NEW f, NEW A, IsFiniteSet(A), NEW B, IsFiniteSet(B), A \cap B = {},
         \A x \in A \cup B : f[x] \in Nat
  PROVE  SumFunctionOnSet(f, A \cup B) = SumFunctionOnSet(f, A) + SumFunctionOnSet(f, B)
<1>1. PICK G : G = {U \in SUBSET B : SumFunctionOnSet(f, A \cup U) = SumFunctionOnSet(f, A) + SumFunctionOnSet(f, U)}
  OBVIOUS
<1>2. ASSUME NEW U \in SUBSET B, \A V \in SUBSET U : V # U => V \in G
      PROVE  U \in G
  <2>1. SumFunctionOnSet(f, A) \in Nat
    BY SumNat
  <2>2. CASE U = {}
    <3>1. A \cup U = A
      BY <2>2
    <3> QED BY <1>1, <2>1, <2>2, <3>1, SumEmpty
  <2>3. CASE U # {}
    <3>1. PICK p : p \in U
      BY <2>3
    <3>2. PICK V : V = U \ {p}
      OBVIOUS
    <3>3. V \in G /\ V \in SUBSET B /\ p \notin V /\ p \notin A \cup V
      BY <1>2, <3>1, <3>2
    <3>4. U = V \cup {p} /\ A \cup U = (A \cup V) \cup {p}
      BY <3>1, <3>2
    <3>5. IsFiniteSet(V) /\ IsFiniteSet(A \cup V)
      BY <3>3, FS_Subset, FS_Union
    <3>6. SumFunctionOnSet(f, U) = f[p] + SumFunctionOnSet(f, V)
      BY <3>1, <3>3, <3>4, <3>5, SumAdd
    <3>7. PICK W : W = A \cup V
      OBVIOUS
    <3>8. IsFiniteSet(W) /\ p \notin W /\ f[p] \in Nat /\ (\A x \in W : f[x] \in Nat) /\ A \cup U = W \cup {p}
      BY <3>1, <3>3, <3>4, <3>5, <3>7
    <3>9. SumFunctionOnSet(f, A \cup U) = f[p] + SumFunctionOnSet(f, W)
      BY <3>8, SumAdd
    <3>10. SumFunctionOnSet(f, W) = SumFunctionOnSet(f, A) + SumFunctionOnSet(f, V)
      BY <1>1, <3>3, <3>7
    <3>11. SumFunctionOnSet(f, V) \in Nat
      BY <3>3, <3>5, SumNat
    <3>12. SumFunctionOnSet(f, A \cup U) = SumFunctionOnSet(f, A) + SumFunctionOnSet(f, U)
      BY <2>1, <3>6, <3>8, <3>9, <3>10, <3>11
    <3> QED BY <1>1, <3>12
  <2> QED BY <2>2, <2>3
<1>3. B \in G
  BY <1>2, SubsetInduction
<1> QED BY <1>1, <1>3

LEMMA SumSubset ==
  ASSUME NEW f, NEW B, IsFiniteSet(B), \A x \in B : f[x] \in Nat, NEW A, A \subseteq B
  PROVE  SumFunctionOnSet(f, A) <= SumFunctionOnSet(f, B)
<1>1. PICK C : C = B \ A
  OBVIOUS
<1>2. B = A \cup C /\ A \cap C = {} /\ \A x \in A \cup C : f[x] \in Nat
  BY <1>1
<1>3. IsFiniteSet(A) /\ IsFiniteSet(C)
  BY <1>1, FS_Subset
<1>4. SumFunctionOnSet(f, B) = SumFunctionOnSet(f, A) + SumFunctionOnSet(f, C)
  BY <1>2, <1>3, SumUnion
<1>5. SumFunctionOnSet(f, A) \in Nat /\ SumFunctionOnSet(f, C) \in Nat
  BY <1>2, <1>3, SumNat
<1> QED BY <1>4, <1>5

LEMMA SumSame ==
  ASSUME NEW f, NEW g, NEW S, IsFiniteSet(S), \A x \in S : f[x] = g[x]
  PROVE  SumFunctionOnSet(f, S) = SumFunctionOnSet(g, S)
<1>1. PICK G : G = {U \in SUBSET S : SumFunctionOnSet(f, U) = SumFunctionOnSet(g, U)}
  OBVIOUS
<1>2. ASSUME NEW U \in SUBSET S, \A V \in SUBSET U : V # U => V \in G
      PROVE  U \in G
  <2>1. CASE U = {}
    BY <1>1, <2>1, SumEmpty
  <2>2. CASE U # {}
    <3>1. PICK p : p = Pick(U)
      OBVIOUS
    <3>2. p \in U /\ U \ {p} \in G /\ IsFiniteSet(U)
      BY <1>2, <2>2, <3>1, Picked, FS_Subset
    <3>3. SumFunctionOnSet(f, U) = f[p] + SumFunctionOnSet(f, U \ {p})
      BY <2>2, <3>1, <3>2, SumPick
    <3>4. SumFunctionOnSet(g, U) = g[p] + SumFunctionOnSet(g, U \ {p})
      BY <2>2, <3>1, <3>2, SumPick
    <3> QED BY <1>1, <3>2, <3>3, <3>4
  <2> QED BY <2>1, <2>2
<1>3. S \in G
  BY <1>2, SubsetInduction
<1> QED BY <1>1, <1>3

LEMMA SumZero ==
  ASSUME NEW f, NEW S, IsFiniteSet(S), \A x \in S : f[x] = 0
  PROVE  SumFunctionOnSet(f, S) = 0
<1>1. PICK G : G = {U \in SUBSET S : SumFunctionOnSet(f, U) = 0}
  OBVIOUS
<1>2. ASSUME NEW U \in SUBSET S, \A V \in SUBSET U : V # U => V \in G
      PROVE  U \in G
  <2>1. CASE U = {}
    BY <1>1, <2>1, SumEmpty
  <2>2. CASE U # {}
    <3>1. PICK p : p = Pick(U)
      OBVIOUS
    <3>2. p \in U /\ U \ {p} \in G /\ IsFiniteSet(U)
      BY <1>2, <2>2, <3>1, Picked, FS_Subset
    <3>3. SumFunctionOnSet(f, U) = f[p] + SumFunctionOnSet(f, U \ {p})
      BY <2>2, <3>1, <3>2, SumPick
    <3> QED BY <1>1, <3>2, <3>3
  <2> QED BY <2>1, <2>2
<1>3. S \in G
  BY <1>2, SubsetInduction
<1> QED BY <1>1, <1>3

-----------------------------------------------------------------------------
\* Plans: what planFill buys.

LEMMA MinOfTwo ==
  ASSUME NEW a \in Int, NEW b \in Int
  PROVE  Min({a, b}) = IF a <= b THEN a ELSE b
BY DEF Min

LEMMA MaxOfTwo ==
  ASSUME NEW a \in Int, NEW b \in Int
  PROVE  Max({a, b}) = IF a >= b THEN a ELSE b
BY DEF Max

\* One step of the plan: what the loop's body does with maker m.
NextPlan(k, want, p, m) ==
  IF Slice(k, want, p, m) < MinLot THEN p ELSE Extended(p, m, Slice(k, want, p, m))

\* The plans after 0, 1, ..., n makers of the ranking.
Plans(g, n, k, want, ranked) ==
  g = [i \in 0..n |-> IF i = 0 THEN NoPlan ELSE NextPlan(k, want, g[i - 1], ranked[i])]

LEMMA PlansExist ==
  ASSUME NEW k, NEW want, NEW ranked, NEW n \in Nat
  PROVE  \E g : Plans(g, n, k, want, ranked)
<1>1. PICK T : T = {i \in Nat : \E g : Plans(g, i, k, want, ranked)}
  OBVIOUS
<1>2. 0 \in T
  <2>1. Plans([i \in 0..0 |-> NoPlan], 0, k, want, ranked)
    BY DEF Plans
  <2> QED BY <1>1, <2>1
<1>3. ASSUME NEW i \in Nat, i \in T
      PROVE  i + 1 \in T
  <2>1. PICK g : Plans(g, i, k, want, ranked)
    BY <1>1, <1>3
  <2> DEFINE h == [j \in 0..(i + 1) |-> IF j = i + 1 THEN NextPlan(k, want, g[i], ranked[i + 1]) ELSE g[j]]
  <2>2. ASSUME NEW j \in 0..(i + 1)
        PROVE  h[j] = IF j = 0 THEN NoPlan ELSE NextPlan(k, want, h[j - 1], ranked[j])
    <3>1. CASE j = i + 1
      BY <3>1
    <3>2. CASE j # i + 1
      <4>1. j \in 0..i /\ h[j] = g[j] /\ (j # 0 => j - 1 \in 0..i /\ h[j - 1] = g[j - 1])
        BY <3>2
      <4>2. g[j] = IF j = 0 THEN NoPlan ELSE NextPlan(k, want, g[j - 1], ranked[j])
        BY <2>1, <4>1 DEF Plans
      <4> QED BY <4>1, <4>2
    <3> QED BY <3>1, <3>2
  <2>3. PICK hh : hh = h
    OBVIOUS
  <2>4. hh = [j \in 0..(i + 1) |-> hh[j]]
    BY <2>3
  <2>5. \A j \in 0..(i + 1) : hh[j] = IF j = 0 THEN NoPlan ELSE NextPlan(k, want, hh[j - 1], ranked[j])
    BY <2>2, <2>3
  <2> HIDE DEF h
  <2>6. Plans(hh, i + 1, k, want, ranked)
    BY <2>4, <2>5 DEF Plans
  <2> QED BY <1>1, <2>6
<1>4. n \in T
  BY <1>2, <1>3, NatInductionOnSet
<1> QED BY <1>1, <1>4

\* planFill is the last of them.
LEMMA PlanIsLast ==
  ASSUME NEW k, NEW want, NEW ranked, Len(ranked) \in Nat
  PROVE  \E g : Plans(g, Len(ranked), k, want, ranked) /\ planFill(k, want, ranked) = g[Len(ranked)]
<1>1. planFill(k, want, ranked) = (CHOOSE g : Plans(g, Len(ranked), k, want, ranked))[Len(ranked)]
  BY DEF planFill, Plans, NextPlan
<1> QED BY <1>1, PlansExist
-----------------------------------------------------------------------------
\* What a maker's legs add up to, when it has one at most.
Leg == [maker : Maker, size : Nat]
OneEach(legs) == \A x, y \in DOMAIN legs : legs[x].maker = legs[y].maker => x = y

LEMMA BoughtNothing ==
  ASSUME NEW legs, NEW m, \A x \in DOMAIN legs : legs[x].maker # m
  PROVE  Bought(legs, m) = 0
<1>1. LegsOf(legs, m) = {}
  BY DEF LegsOf
<1> QED BY <1>1, SumEmpty DEF Bought

LEMMA BoughtOnce ==
  ASSUME NEW legs \in Seq(Leg), OneEach(legs), NEW x \in DOMAIN legs
  PROVE  Bought(legs, legs[x].maker) = legs[x].size
<1>1. LegsOf(legs, legs[x].maker) = {x}
  BY DEF LegsOf, OneEach
<1>2. Sizes(legs)[x] = legs[x].size /\ legs[x].size \in Nat
  <2>1. x \in 1..Len(legs) /\ legs[x] \in Leg
    OBVIOUS
  <2>2. legs[x].size \in Nat
    BY <2>1 DEF Leg
  <2> QED BY <2>2, Zenon DEF Sizes
<1>3. PICK S : S = {x}
  OBVIOUS
<1>4. IsFiniteSet(S) /\ (\A y \in S : Sizes(legs)[y] \in Nat) /\ x \in S /\ S \ {x} = {}
  BY <1>2, <1>3, FS_Singleton
<1>5. SumFunctionOnSet(Sizes(legs), S) = Sizes(legs)[x] + SumFunctionOnSet(Sizes(legs), S \ {x})
  BY <1>4, SumRemove
<1>6. SumFunctionOnSet(Sizes(legs), S) = legs[x].size + 0
  BY <1>2, <1>4, <1>5, SumEmpty
<1>7. SumFunctionOnSet(Sizes(legs), S) = legs[x].size
  BY <1>2, <1>6
<1> QED BY <1>1, <1>3, <1>7, Zenon DEF Bought

\* A maker without a leg gets one.
Appended(legs, leg, more) ==
  /\ more \in Seq(Leg) /\ OneEach(more)
  /\ \A x \in DOMAIN legs : x \in DOMAIN more /\ more[x] = legs[x]
  /\ \A x \in DOMAIN more : (x \in DOMAIN legs /\ more[x] = legs[x]) \/ more[x] = leg
  /\ \E x \in DOMAIN more : more[x] = leg
  /\ Bought(legs, leg.maker) = 0 /\ Bought(more, leg.maker) = leg.size
  /\ \A o \in Maker \ {leg.maker} : Bought(more, o) = Bought(legs, o)

LEMMA AppendLeg ==
  ASSUME NEW legs \in Seq(Leg), OneEach(legs), NEW leg \in Leg,
         \A x \in DOMAIN legs : legs[x].maker # leg.maker,
         NEW more, more = Append(legs, leg)
  PROVE  Appended(legs, leg, more)
<1>2. more \in Seq(Leg) /\ Len(more) = Len(legs) + 1 /\ DOMAIN more = 1..(Len(legs) + 1)
  OBVIOUS
<1>3. \A x \in DOMAIN legs : x \in DOMAIN more /\ more[x] = legs[x] /\ x # Len(legs) + 1
  BY <1>2
<1>4. more[Len(legs) + 1] = leg /\ Len(legs) + 1 \in DOMAIN more
  BY <1>2
<1>5. \A x \in DOMAIN more : (x \in DOMAIN legs /\ more[x] = legs[x]) \/ (x = Len(legs) + 1 /\ more[x] = leg)
  BY <1>2, <1>3, <1>4
<1>6. OneEach(more)
  BY <1>5 DEF OneEach
<1>7. Bought(legs, leg.maker) = 0 /\ Bought(more, leg.maker) = leg.size
  <2>1. Bought(more, more[Len(legs) + 1].maker) = more[Len(legs) + 1].size
    BY <1>2, <1>4, <1>6, BoughtOnce
  <2> QED BY <2>1, <1>4, BoughtNothing
<1>8. ASSUME NEW o \in Maker \ {leg.maker}
      PROVE  Bought(more, o) = Bought(legs, o)
  <2>1. CASE \A x \in DOMAIN legs : legs[x].maker # o
    <3>1. \A x \in DOMAIN more : more[x].maker # o
      BY <1>5, <1>8, <2>1
    <3>2. Bought(more, o) = 0
      BY <3>1, BoughtNothing
    <3>3. Bought(legs, o) = 0
      BY <2>1, BoughtNothing
    <3> QED BY <3>2, <3>3
  <2>2. ASSUME NEW x \in DOMAIN legs, legs[x].maker = o
        PROVE  Bought(more, o) = Bought(legs, o)
    <3>1. x \in DOMAIN more /\ more[x].maker = o /\ more[x].size = legs[x].size
      BY <1>3, <2>2
    <3>2. Bought(legs, o) = legs[x].size
      BY <2>2, BoughtOnce
    <3>3. Bought(more, o) = more[x].size
      BY <1>2, <1>6, <3>1, BoughtOnce
    <3> QED BY <3>1, <3>2, <3>3
  <2> QED BY <2>1, <2>2
<1> QED BY <1>2, <1>3, <1>4, <1>5, <1>6, <1>7, <1>8 DEF Appended
-----------------------------------------------------------------------------
\* The plan after i makers of the ranking.

Bids(legs) == [m \in Maker |-> Bought(legs, m)]

\* Maker m has a leg for all it quotes.
Full(k, legs, m) == \E x \in DOMAIN legs : legs[x].maker = m /\ legs[x].size = makers[m][k]

\* Each leg is a tradable slice of one of the makers walked; the quotes walked are
\* used up, unless what is missing is less than a minimum; a maker has a leg only
\* when all tradable quotes before it are used up.
PlanInv(k, want, ranked, p, i) ==
  /\ p.legs \in Seq(Leg) /\ OneEach(p.legs)
  /\ p.got \in Nat /\ p.got <= want
  /\ p.got = SumFunctionOnSet(Bids(p.legs), Maker)
  /\ \A x \in DOMAIN p.legs :
       /\ \E j \in 1..i : p.legs[x].maker = ranked[j]
       /\ p.legs[x].size \in MinLot..makers[p.legs[x].maker][k]
  /\ \A j \in 1..i : makers[ranked[j]][k] >= MinLot => Full(k, p.legs, ranked[j]) \/ want - p.got < MinLot
  /\ \A x \in DOMAIN p.legs, j \in 1..i : \A h \in 1..(j - 1) :
       p.legs[x].maker = ranked[j] /\ makers[ranked[h]][k] >= MinLot => Full(k, p.legs, ranked[h])

\* Sizes on side k are numbers, and the ranking names makers, each once.
Rankable(k, ranked) ==
  /\ \A m \in Maker : makers[m][k] \in Nat
  /\ Len(ranked) \in Nat /\ \A i \in 1..Len(ranked) : ranked[i] \in Maker
  /\ \A i, j \in 1..Len(ranked) : ranked[i] = ranked[j] => i = j

LEMMA BidsAreNat ==
  ASSUME NEW legs \in Seq(Leg), OneEach(legs)
  PROVE  \A m \in Maker : Bids(legs)[m] \in Nat
<1> SUFFICES ASSUME NEW m \in Maker PROVE Bought(legs, m) \in Nat
  BY DEF Bids
<1>1. CASE \A x \in DOMAIN legs : legs[x].maker # m
  BY <1>1, BoughtNothing
<1>2. ASSUME NEW x \in DOMAIN legs, legs[x].maker = m
      PROVE  Bought(legs, m) \in Nat
  <2>1. x \in 1..Len(legs) /\ legs[x] \in Leg
    OBVIOUS
  <2>2. legs[x].size \in Nat
    BY <2>1 DEF Leg
  <2> QED BY <1>2, <2>2, BoughtOnce
<1> QED BY <1>1, <1>2

LEMMA SliceIs ==
  \A k, p, m : \A want, got, size \in Nat :
    got = p.got /\ size = makers[m][k] =>
      Slice(k, want, p, m) = IF size <= want - got THEN size ELSE want - got
<1> SUFFICES ASSUME NEW k, NEW p, NEW m, NEW want \in Nat, NEW got \in Nat, NEW size \in Nat,
                    got = p.got, size = makers[m][k]
             PROVE  Slice(k, want, p, m) = IF size <= want - got THEN size ELSE want - got
  OBVIOUS
<1>1. Slice(k, want, p, m) = Min({size, want - got})
  BY DEF Slice
<1>2. PICK left \in Int : left = want - got
  OBVIOUS
<1>3. Min({size, left}) = IF size <= left THEN size ELSE left
  BY MinOfTwo
<1> QED BY <1>1, <1>2, <1>3

\* A slice too small is skipped.
LEMMA PlanSkips ==
  ASSUME NEW k \in Side, NEW want \in Nat, NEW ranked, Rankable(k, ranked),
         NEW i \in 1..Len(ranked), NEW p, PlanInv(k, want, ranked, p, i - 1),
         Slice(k, want, p, ranked[i]) < MinLot
  PROVE  PlanInv(k, want, ranked, p, i)
<1>1. makers[ranked[i]][k] \in Nat /\ MinLot \in Nat /\ p.got \in Nat
  BY RfqAssumption DEF Rankable, PlanInv
<1>2. makers[ranked[i]][k] >= MinLot => want - p.got < MinLot
  <2>1. PICK got \in Nat, size \in Nat : got = p.got /\ size = makers[ranked[i]][k]
    BY <1>1
  <2>2. Slice(k, want, p, ranked[i]) = IF size <= want - got THEN size ELSE want - got
    BY <2>1, SliceIs
  <2>3. size >= MinLot => want - got < MinLot
    BY <1>1, <2>2
  <2> QED BY <2>1, <2>3
<1>3. \A j \in 1..i : j \in 1..(i - 1) \/ j = i
  OBVIOUS
<1>4. \A x \in DOMAIN p.legs : p.legs[x].maker # ranked[i]
  BY DEF PlanInv, Rankable
<1>5. \A x \in DOMAIN p.legs : \E j \in 1..i : p.legs[x].maker = ranked[j]
  BY DEF PlanInv
<1>6. \A j \in 1..i : makers[ranked[j]][k] >= MinLot => Full(k, p.legs, ranked[j]) \/ want - p.got < MinLot
  BY <1>2, <1>3 DEF PlanInv
<1>7. ASSUME NEW x \in DOMAIN p.legs, NEW j \in 1..i, NEW h \in 1..(j - 1),
             p.legs[x].maker = ranked[j], makers[ranked[h]][k] >= MinLot
      PROVE  Full(k, p.legs, ranked[h])
  BY <1>3, <1>4, <1>7 DEF PlanInv
<1> QED BY <1>5, <1>6, <1>7 DEF PlanInv

\* Any other becomes a leg.
LEMMA PlanBuys ==
  ASSUME NEW k \in Side, NEW want \in Nat, NEW ranked, Rankable(k, ranked),
         NEW i \in 1..Len(ranked), NEW p, PlanInv(k, want, ranked, p, i - 1),
         NEW n, n = Slice(k, want, p, ranked[i]), n >= MinLot
  PROVE  PlanInv(k, want, ranked, Extended(p, ranked[i], n), i)
<1>1. PICK m, q, legs, more : /\ m = ranked[i] /\ q = Extended(p, m, n)
                               /\ legs = p.legs /\ more = q.legs
  OBVIOUS
<1>2. /\ m \in Maker /\ makers[m][k] \in Nat /\ MinLot \in Nat \ {0}
      /\ p.got \in Nat /\ p.got <= want /\ legs \in Seq(Leg) /\ OneEach(legs)
  BY <1>1, RfqAssumption DEF Rankable, PlanInv
<1>3. PICK got \in Nat, size \in Nat : got = p.got /\ size = makers[m][k]
  BY <1>2
<1>4. n \in Nat /\ n <= size /\ n <= want - got /\ (n = size \/ n = want - got)
  <2>1. n = Slice(k, want, p, m)
    BY <1>1
  <2>2. n = IF size <= want - got THEN size ELSE want - got
    BY <1>3, <2>1, SliceIs
  <2>3. MinLot \in Nat /\ want - got \in Int
    BY <1>2
  <2>4. n \in Int /\ n <= size /\ n <= want - got /\ (n = size \/ n = want - got)
    BY <2>2, <2>3
  <2> QED BY <2>3, <2>4
<1>5. \A x \in DOMAIN legs : legs[x].maker # m
  BY <1>1 DEF PlanInv, Rankable
<1>6. q.got = got + n /\ more = Append(legs, [maker |-> m, size |-> n])
  BY <1>1, <1>3 DEF Extended
<1>7. PICK leg \in Leg : leg.maker = m /\ leg.size = n /\ more = Append(legs, leg)
  <2>1. [maker |-> m, size |-> n] \in Leg
    BY <1>2, <1>4 DEF Leg
  <2> QED BY <1>6, <2>1
<1>8a. Appended(legs, leg, more)
  <2>1. \A x \in DOMAIN legs : legs[x].maker # leg.maker
    BY <1>5, <1>7
  <2>2. legs \in Seq(Leg) /\ OneEach(legs) /\ leg \in Leg /\ more = Append(legs, leg)
    BY <1>2, <1>7
  <2> QED BY <2>1, <2>2, AppendLeg
<1>8. /\ more \in Seq(Leg) /\ OneEach(more)
      /\ \A x \in DOMAIN legs : x \in DOMAIN more /\ more[x] = legs[x]
      /\ \A x \in DOMAIN more : (x \in DOMAIN legs /\ more[x] = legs[x]) \/ more[x] = leg
      /\ \E x \in DOMAIN more : more[x] = leg
      /\ Bought(legs, leg.maker) = 0 /\ Bought(more, leg.maker) = leg.size
      /\ \A o \in Maker \ {leg.maker} : Bought(more, o) = Bought(legs, o)
  BY <1>8a DEF Appended
<1>9. \A o : Full(k, legs, o) => Full(k, more, o)
  BY <1>8 DEF Full
<1>10. n = size => Full(k, more, m)
  BY <1>3, <1>7, <1>8 DEF Full
<1>11. \A j \in 1..i : j \in 1..(i - 1) \/ j = i
  OBVIOUS
<1>12. \A j \in 1..(i - 1) : makers[ranked[j]][k] >= MinLot => Full(k, legs, ranked[j])
  <2>1. MinLot <= want - got
    BY <1>2, <1>4
  <2>2. ~(want - p.got < MinLot)
    BY <1>2, <1>3, <2>1
  <2> QED BY <1>1, <2>2 DEF PlanInv
<1>13. q.got \in Nat /\ q.got <= want
  BY <1>2, <1>3, <1>4, <1>6
<1>14. q.got = SumFunctionOnSet(Bids(more), Maker)
  <2>1. IsFiniteSet(Maker)
    BY RfqAssumption
  <2>2. PICK f, g, R : f = Bids(more) /\ g = Bids(legs) /\ R = Maker \ {m}
    OBVIOUS
  <2>3. IsFiniteSet(R)
    BY <2>1, <2>2, FS_RemoveElement
  <2>4a. \A x \in Maker : f[x] \in Nat
    BY <1>8, <2>2, BidsAreNat
  <2>4. \A x \in Maker : g[x] \in Nat
    BY <1>2, <2>2, BidsAreNat
  <2>5. f[m] = n /\ g[m] = 0 /\ \A o \in R : f[o] = g[o]
    BY <1>2, <1>8, <1>7, <2>2 DEF Bids
  <2>6. \A x \in Maker : SumFunctionOnSet(f, Maker) = f[x] + SumFunctionOnSet(f, Maker \ {x})
    BY <2>1, <2>4a, SumRemove
  <2>7. \A x \in Maker : SumFunctionOnSet(g, Maker) = g[x] + SumFunctionOnSet(g, Maker \ {x})
    BY <2>1, <2>4, SumRemove
  <2>8. SumFunctionOnSet(f, R) = SumFunctionOnSet(g, R)
    BY <2>3, <2>5, SumSame
  <2>9. \A o \in R : g[o] \in Nat
    BY <2>2, <2>4
  <2>10. PICK sf, sg, rest : /\ sf = SumFunctionOnSet(f, Maker) /\ sg = SumFunctionOnSet(g, Maker)
                             /\ rest = SumFunctionOnSet(g, R)
    OBVIOUS
  <2>11. rest \in Nat
    BY <2>3, <2>9, <2>10, SumRemove
  <2>12. sf = n + rest /\ sg = 0 + rest
    BY <1>2, <2>2, <2>5, <2>6, <2>7, <2>8, <2>10
  <2>13. got = sg
    BY <1>1, <1>3, <2>2, <2>10 DEF PlanInv
  <2>14. q.got = sf
    BY <1>4, <1>6, <2>11, <2>12, <2>13
  <2> QED BY <2>2, <2>10, <2>14
<1>15. ASSUME NEW x \in DOMAIN more
       PROVE  /\ \E j \in 1..i : more[x].maker = ranked[j]
              /\ more[x].size \in MinLot..makers[more[x].maker][k]
  <2>1. CASE x \in DOMAIN legs /\ more[x] = legs[x]
    BY <1>1, <2>1 DEF PlanInv
  <2>2. CASE more[x] = leg
    <3>1. more[x].maker = m /\ more[x].size = n
      BY <1>7, <2>2
    <3>2. n \in MinLot..makers[m][k]
      BY <1>2, <1>3, <1>4
    <3> QED BY <1>1, <3>1, <3>2
  <2> QED BY <1>8, <2>1, <2>2
<1>16. ASSUME NEW j \in 1..i, makers[ranked[j]][k] >= MinLot
       PROVE  Full(k, more, ranked[j]) \/ want - q.got < MinLot
  <2>1. CASE j \in 1..(i - 1)
    BY <1>9, <1>12, <1>16, <2>1
  <2>2. CASE j = i
    <3>1. n = size \/ want - (got + n) < MinLot
      BY <1>2, <1>4
    <3> QED BY <1>1, <1>6, <1>10, <2>2, <3>1
  <2> QED BY <1>11, <2>1, <2>2
<1>17. ASSUME NEW x \in DOMAIN more, NEW j \in 1..i, NEW h \in 1..(j - 1),
              more[x].maker = ranked[j], makers[ranked[h]][k] >= MinLot
       PROVE  Full(k, more, ranked[h])
  <2>1. CASE j = i
    BY <1>9, <1>12, <1>17, <2>1
  <2>2. CASE j \in 1..(i - 1)
    <3>1. ranked[j] # m
      BY <1>1, <2>2 DEF Rankable
    <3>2. x \in DOMAIN legs /\ legs[x].maker = ranked[j]
      BY <1>7, <1>8, <1>17, <3>1
    <3> QED BY <1>1, <1>9, <1>17, <2>2, <3>2 DEF PlanInv
  <2> QED BY <1>11, <2>1, <2>2
<1>18. PlanInv(k, want, ranked, q, i)
  <2>1. q.legs = more
    BY <1>1
  <2> QED BY <2>1, <1>8, <1>13, <1>14, <1>15, <1>16, <1>17 DEF PlanInv
<1> QED BY <1>1, <1>18

\* Before the first maker nothing is bought.
LEMMA PlanStarts ==
  ASSUME NEW k \in Side, NEW want \in Nat, NEW ranked
  PROVE  PlanInv(k, want, ranked, NoPlan, 0)
<1>1. PICK legs : legs = <<>>
  OBVIOUS
<1>2. NoPlan.got = 0 /\ NoPlan.legs = legs
  BY <1>1 DEF NoPlan
<1>3. legs \in Seq(Leg) /\ DOMAIN legs = {}
  BY <1>1
<1>4. SumFunctionOnSet(Bids(legs), Maker) = 0
  <2>1. PICK f : f = Bids(legs)
    OBVIOUS
  <2>2. \A m \in Maker : f[m] = 0
    BY <1>3, <2>1, BoughtNothing DEF Bids
  <2>3. IsFiniteSet(Maker) /\ \A m \in Maker : f[m] \in Nat
    BY <2>2, RfqAssumption
  <2>4. SumFunctionOnSet(f, Maker) = 0
    BY <2>2, <2>3, SumZero
  <2> QED BY <2>1, <2>4
<1> QED BY <1>2, <1>3, <1>4 DEF PlanInv, OneEach

LEMMA PlanKeeps ==
  ASSUME NEW k \in Side, NEW want \in Nat, NEW ranked, Rankable(k, ranked)
  PROVE  PlanInv(k, want, ranked, planFill(k, want, ranked), Len(ranked))
<1>1. Len(ranked) \in Nat
  BY DEF Rankable
<1>2. PICK g : Plans(g, Len(ranked), k, want, ranked) /\ planFill(k, want, ranked) = g[Len(ranked)]
  BY <1>1, PlanIsLast
<1>3. PICK T : T = {i \in Nat : i <= Len(ranked) => PlanInv(k, want, ranked, g[i], i)}
  OBVIOUS
<1>4. 0 \in T
  <2>1. g[0] = NoPlan
    BY <1>1, <1>2 DEF Plans
  <2> QED BY <1>3, <2>1, PlanStarts
<1>5. ASSUME NEW j \in Nat, j \in T
      PROVE  j + 1 \in T
  <2> SUFFICES ASSUME j + 1 <= Len(ranked)
               PROVE  PlanInv(k, want, ranked, g[j + 1], j + 1)
    BY <1>3
  <2>1. PICK i : i = j + 1
    OBVIOUS
  <2>2. i \in 1..Len(ranked) /\ i - 1 = j /\ i \in 0..Len(ranked) /\ i # 0
    BY <1>1, <2>1
  <2>3. PICK p : p = g[j]
    OBVIOUS
  <2>4. PlanInv(k, want, ranked, p, i - 1)
    BY <1>1, <1>3, <1>5, <2>2, <2>3
  <2>5. g[i] = NextPlan(k, want, p, ranked[i])
    BY <1>2, <2>2, <2>3 DEF Plans
  <2>6. PICK n : n = Slice(k, want, p, ranked[i])
    OBVIOUS
  <2>7. CASE n < MinLot
    <3>1. g[i] = p
      BY <2>5, <2>6, <2>7 DEF NextPlan
    <3> QED BY <2>1, <2>2, <2>4, <2>6, <2>7, <3>1, PlanSkips
  <2>8. CASE ~(n < MinLot)
    <3>1. g[i] = Extended(p, ranked[i], n)
      BY <2>5, <2>6, <2>8 DEF NextPlan
    <3>2. n \in Int /\ MinLot \in Int
      <4>1. p.got \in Nat /\ makers[ranked[i]][k] \in Nat
        BY <2>2, <2>4 DEF PlanInv, Rankable
      <4>2. PICK got \in Nat, size \in Nat : got = p.got /\ size = makers[ranked[i]][k]
        BY <4>1
      <4>3. n = IF size <= want - got THEN size ELSE want - got
        BY <2>6, <4>2, SliceIs
      <4> QED BY <4>3, RfqAssumption
    <3>3. n >= MinLot
      BY <2>8, <3>2
    <3> QED BY <2>1, <2>2, <2>4, <2>6, <3>1, <3>3, PlanBuys
  <2> QED BY <2>7, <2>8
<1>6. Len(ranked) \in T
  BY <1>1, <1>4, <1>5, NatInductionOnSet
<1> QED BY <1>1, <1>2, <1>3, <1>6

\* A ranking of the live makers names each of them once, and nobody else.
LEMMA RankingsAreRankable ==
  ASSUME NEW k \in Side, NEW ranked \in Ranked(k), \A m \in Maker : makers[m][k] \in Nat
  PROVE  /\ Rankable(k, ranked)
         /\ \A m \in liveSides(k) : \E j \in 1..Len(ranked) : m = ranked[j]
         /\ \A j \in 1..Len(ranked) : ranked[j] \in liveSides(k)
         /\ \A i, j \in 1..Len(ranked) : i < j => ~Better(k, ranked[j], ranked[i])
<1>1. PICK live, c : live = liveSides(k) /\ c = Cardinality(live)
  OBVIOUS
<1>2. IsFiniteSet(live) /\ live \subseteq Maker
  BY <1>1, RfqAssumption, FS_Subset DEF liveSides
<1>3. c \in Nat
  BY <1>1, <1>2, FS_CardinalityType
<1>4. ranked \in [1..c -> live] /\ \A i, j \in 1..c : i # j => ranked[i] # ranked[j]
  BY <1>1 DEF Ranked, SetToSeqs
<1>5. Len(ranked) = c /\ DOMAIN ranked = 1..c
  BY <1>3, <1>4
<1>6. ranked \in Injection(1..c, live)
  BY <1>4 DEF Injection, IsInjective
<1>7. ranked \in Surjection(1..c, live)
  <2>1. Cardinality(1..c) = c
    BY <1>3, FS_Interval
  <2> QED BY <1>1, <1>2, <1>6, <2>1, FS_Injection
<1>8. \A m \in live : \E j \in 1..c : m = ranked[j]
  BY <1>7 DEF Surjection
<1>9. \A i, j \in 1..c : i < j => ~Better(k, ranked[j], ranked[i])
  BY <1>5 DEF Ranked
<1>10. \A i \in 1..c : ranked[i] \in live
  BY <1>4
<1>11. Rankable(k, ranked)
  BY <1>2, <1>3, <1>4, <1>5, <1>10 DEF Rankable
<1> QED BY <1>1, <1>5, <1>8, <1>9, <1>10, <1>11

\* What one side's plan promises.
PlanFine(k, want, ranked) ==
    LET plan   == planFill(k, want, ranked)
        usable == {m \in liveSides(k) : makers[m][k] >= MinLot}
        quoted == [m \in Maker |-> makers[m][k]]
        bought == [m \in Maker |-> Bought(plan.legs, m)]
    IN /\ \A m \in Maker : bought[m] = 0 \/ (m \in usable /\ bought[m] \in MinLot..quoted[m])
       /\ plan.got = SumFunction(bought)
       /\ plan.got <= want /\ Min({want, SumFunctionOnSet(quoted, usable)}) - plan.got < MinLot
       /\ \A m \in Maker, o \in usable : bought[m] > 0 /\ Better(k, o, m) => bought[o] = quoted[o]

LEMMA PlansAreFine ==
  ASSUME NEW k \in Side, NEW want \in Nat, NEW ranked \in Ranked(k), \A m \in Maker : makers[m][k] \in Nat
  PROVE  PlanFine(k, want, ranked)
<1>1. PICK p, legs, L, usable, quoted, bought :
        /\ p = planFill(k, want, ranked) /\ legs = p.legs /\ L = Len(ranked)
        /\ usable = {m \in liveSides(k) : makers[m][k] >= MinLot}
        /\ quoted = [m \in Maker |-> makers[m][k]]
        /\ bought = [m \in Maker |-> Bought(legs, m)]
  OBVIOUS
<1>2. /\ Rankable(k, ranked)
      /\ \A m \in liveSides(k) : \E j \in 1..L : m = ranked[j]
      /\ \A j \in 1..L : ranked[j] \in liveSides(k)
      /\ \A i, j \in 1..L : i < j => ~Better(k, ranked[j], ranked[i])
  BY <1>1, RankingsAreRankable
<1>3. PlanInv(k, want, ranked, p, L) /\ L \in Nat
  BY <1>1, <1>2, PlanKeeps DEF Rankable
<1>4. legs \in Seq(Leg) /\ OneEach(legs)
  BY <1>1, <1>3 DEF PlanInv
<1>5. \A m \in Maker : bought[m] \in Nat /\ quoted[m] \in Nat
  BY <1>1, <1>4, BidsAreNat DEF Bids
<1>6. IsFiniteSet(Maker) /\ usable \subseteq Maker /\ IsFiniteSet(usable) /\ MinLot \in Nat \ {0}
  BY <1>1, RfqAssumption, FS_Subset DEF liveSides
<1>7. ASSUME NEW m \in Maker
      PROVE  \/ bought[m] = 0 /\ \A x \in DOMAIN legs : legs[x].maker # m
             \/ \E x \in DOMAIN legs : legs[x].maker = m /\ bought[m] = legs[x].size
  <2>1. CASE \A x \in DOMAIN legs : legs[x].maker # m
    BY <1>1, <2>1, BoughtNothing
  <2>2. ASSUME NEW x \in DOMAIN legs, legs[x].maker = m
        PROVE  bought[m] = legs[x].size
    BY <1>1, <1>4, <2>2, BoughtOnce
  <2> QED BY <2>1, <2>2
<1>8. ASSUME NEW m \in Maker
      PROVE  bought[m] = 0 \/ (m \in usable /\ bought[m] \in MinLot..quoted[m])
  <2>1. ASSUME NEW x \in DOMAIN legs, legs[x].maker = m, bought[m] = legs[x].size
        PROVE  m \in usable /\ bought[m] \in MinLot..quoted[m]
    <3>1. /\ \E j \in 1..L : legs[x].maker = ranked[j]
          /\ legs[x].size \in MinLot..makers[legs[x].maker][k]
      BY <1>1, <1>3 DEF PlanInv
    <3>2. m \in liveSides(k)
      BY <1>2, <2>1, <3>1
    <3>3. bought[m] \in MinLot..makers[m][k]
      BY <2>1, <3>1
    <3>4. makers[m][k] >= MinLot
      BY <1>5, <1>1, <1>6, <3>3
    <3> QED BY <1>1, <3>2, <3>3, <3>4
  <2> QED BY <1>7, <2>1
<1>9. p.got \in Nat /\ p.got <= want /\ p.got = SumFunctionOnSet(bought, Maker)
  BY <1>1, <1>3 DEF PlanInv, Bids
<1>10. SumFunction(bought) = SumFunctionOnSet(bought, Maker)
  <2>1. DOMAIN bought = Maker
    BY <1>1
  <2> QED BY <2>1 DEF SumFunction
<1>11. ASSUME NEW m \in Maker, Full(k, legs, m)
       PROVE  bought[m] = quoted[m]
  <2>1. PICK x \in DOMAIN legs : legs[x].maker = m /\ legs[x].size = makers[m][k]
    BY <1>11 DEF Full
  <2>2. Bought(legs, m) = makers[m][k]
    BY <1>4, <2>1, BoughtOnce
  <2> QED BY <1>1, <2>2
<1>12. PICK reach : reach = SumFunctionOnSet(quoted, usable)
  OBVIOUS
<1>13. PICK got \in Nat : got = p.got /\ reach = SumFunctionOnSet(quoted, usable)
  BY <1>9, <1>12
<1>14. Min({want, reach}) - got < MinLot
  <2>1. \A m \in usable : quoted[m] \in Nat /\ bought[m] \in Nat
    BY <1>5, <1>6
  <2>2. reach \in Nat
    BY <1>6, <1>13, <2>1, SumNat
  <2>3. Min({want, reach}) = IF want <= reach THEN want ELSE reach
    BY <2>2, MinOfTwo
  <2>4. CASE want - got < MinLot
    BY <1>6, <2>2, <2>3, <2>4
  <2>5. CASE ~(want - got < MinLot)
    <3>1. ASSUME NEW m \in usable
          PROVE  quoted[m] = bought[m]
      <4>1. PICK j \in 1..L : m = ranked[j]
        BY <1>1, <1>2
      <4>2. makers[ranked[j]][k] >= MinLot
        BY <1>1, <4>1
      <4>3. Full(k, legs, ranked[j])
        BY <1>1, <1>3, <1>13, <2>5, <4>2 DEF PlanInv
      <4> QED BY <1>6, <1>11, <4>1, <4>3
    <3>2. reach = SumFunctionOnSet(bought, usable)
      BY <1>6, <1>13, <3>1, SumSame
    <3>3. SumFunctionOnSet(bought, usable) <= SumFunctionOnSet(bought, Maker)
      BY <1>5, <1>6, SumSubset
    <3>4. reach <= got
      BY <1>9, <1>13, <3>2, <3>3
    <3> QED BY <1>6, <2>2, <2>3, <3>4
  <2> QED BY <2>4, <2>5
<1>15. ASSUME NEW m \in Maker, NEW o \in usable, bought[m] > 0, Better(k, o, m)
       PROVE  bought[o] = quoted[o]
  <2>1. PICK x \in DOMAIN legs : legs[x].maker = m
    BY <1>5, <1>7, <1>15
  <2>2. PICK j \in 1..L : legs[x].maker = ranked[j]
    BY <1>1, <1>3, <2>1 DEF PlanInv
  <2>3. PICK h \in 1..L : o = ranked[h]
    BY <1>1, <1>2
  <2>4. Better(k, ranked[h], ranked[j])
    BY <1>15, <2>1, <2>2, <2>3
  <2>5. ~(j < h)
    BY <1>2, <2>4
  <2>6. j # h
    <3>1. \A q \in Maker : ~Better(k, q, q)
      BY RfqAssumption DEF Better, Side
    <3> QED BY <1>2, <2>4, <3>1 DEF liveSides
  <2>7. h \in 1..(j - 1)
    BY <1>3, <2>5, <2>6
  <2>8. makers[ranked[h]][k] >= MinLot
    BY <1>1, <2>3
  <2>9. Full(k, legs, ranked[h])
    BY <1>1, <1>3, <2>2, <2>7, <2>8 DEF PlanInv
  <2> QED BY <1>6, <1>11, <2>3, <2>9
<1> QED BY <1>1, <1>8, <1>9, <1>10, <1>13, <1>14, <1>15 DEF PlanFine

-----------------------------------------------------------------------------
SwapRec == [state : {"open", "CANCELED", "REFUNDED", "COMPLETE"}, taken : BOOLEAN,
            maker : Maker, side : Side, size : Nat, joined : BOOLEAN, ready : BOOLEAN,
            paid : BOOLEAN, age : 0..MaxAge, since : 0..MaxAge]
QuoteRec == [ask : Nat, bid : Nat, age : 0..Ttl, matches : SUBSET SwapId,
             history : BoundedSeq(SwapId, RepHistory)]
Quotes(m) == [{k \in Side : Ceiling[m][k] > 0} -> Nat]

\* A swap is what a leg made of it: of a maker, no more than that maker quotes.
SwapOK(w) ==
  Exists(w) => /\ swaps[w] \in SwapRec
               /\ swaps[w].size \in MinLot..Ceiling[swaps[w].maker][swaps[w].side]
               /\ swaps[w].paid => swaps[w].joined

Owned(m) == {w \in SwapId : Exists(w) /\ swaps[w].maker = m}

MakerOK(m) ==
  /\ makers[m] \in QuoteRec /\ makers[m].matches \subseteq Owned(m)
  /\ \A k \in Side : makers[m][k] <= Ceiling[m][k]

BotOK(m) ==
  /\ bots[m] \in [at : {"idle", "sized", "paused"}, q : Quotes(m) \cup {<<>>},
                  handling : SUBSET SwapId, inflight : SUBSET SwapId]
  /\ bots[m].inflight \subseteq bots[m].handling /\ bots[m].handling \subseteq Owned(m)
  /\ bots[m].at = "sized" =>
       bots[m].q \in Quotes(m) /\ \A k \in DOMAIN bots[m].q : bots[m].q[k] <= Ceiling[m][k]

SwapsOK == /\ DOMAIN swaps = SwapId /\ \A w \in SwapId : SwapOK(w)
           /\ \E n \in 0..MaxSwaps : \A w \in SwapId : Exists(w) <=> w <= n
MakersOK == DOMAIN makers = Maker /\ \A m \in Maker : MakerOK(m)
BotsOK == DOMAIN bots = Maker /\ \A m \in Maker : BotOK(m)
CountsOK == stock \in [Maker -> [Side -> Nat]] /\ spent \in [Event -> Nat]

MarketInv == SwapsOK /\ MakersOK /\ BotsOK /\ CountsOK

\* A step that opens no swap: swaps end, and their terms stay.
Moves(w) ==
  /\ Exists(w)' <=> Exists(w)
  /\ SwapOK(w)'
  /\ Exists(w) => /\ swaps'[w].maker = swaps[w].maker /\ swaps'[w].side = swaps[w].side
                  /\ swaps'[w].size = swaps[w].size
                  /\ Open(w)' => Open(w)
                  /\ swaps[w].joined => swaps'[w].joined
                  /\ swaps[w].paid => swaps'[w].paid
Steady == DOMAIN swaps' = SwapId /\ \A w \in SwapId : Moves(w)

LEMMA SameMoves ==
  ASSUME NEW w \in SwapId, SwapOK(w), swaps'[w] = swaps[w]
  PROVE  Moves(w)
BY DEF Moves, SwapOK, Exists, Open

LEMMA SameSteady == ASSUME SwapsOK, UNCHANGED swaps PROVE Steady
BY SameMoves DEF Steady, SwapsOK

LEMMA SteadySwapsOK == ASSUME SwapsOK, Steady PROVE SwapsOK'
BY DEF SwapsOK, Steady, Moves

LEMMA OneMoves ==
  ASSUME SwapsOK, NEW w \in SwapId, Exists(w), NEW rec, Changes(w, rec), rec \in SwapRec,
         rec.maker = swaps[w].maker, rec.side = swaps[w].side, rec.size = swaps[w].size,
         rec.state = "open" => Open(w),
         swaps[w].joined => rec.joined, swaps[w].paid => rec.paid, rec.paid => rec.joined
  PROVE  Steady /\ UNCHANGED makers /\ swaps'[w] = rec /\ \A v \in SwapId \ {w} : swaps'[v] = swaps[v]
<1>1. swaps' = [swaps EXCEPT ![w] = rec] /\ UNCHANGED makers
  BY DEF Changes
<1>2. DOMAIN swaps' = SwapId /\ swaps'[w] = rec /\ \A v \in SwapId \ {w} : swaps'[v] = swaps[v]
  BY <1>1 DEF SwapsOK
<1>3. \A v \in SwapId \ {w} : Moves(v)
  BY <1>2, SameMoves DEF SwapsOK
<1>4. SwapOK(w)
  BY DEF SwapsOK
<1>5. rec.state # "none"
  BY DEF SwapRec
<1>6. SwapOK(w)'
  BY <1>2, <1>4 DEF SwapOK
<1>7. Moves(w)
  BY <1>2, <1>5, <1>6 DEF Moves, Exists, Open
<1> QED BY <1>1, <1>2, <1>3, <1>7 DEF Steady

\* What each step of a swap does to it.
OnlyMoves(w) == /\ Steady /\ UNCHANGED makers /\ \A v \in SwapId \ {w} : swaps'[v] = swaps[v]
                /\ Open(w) /\ Exists(w)

LEMMA StepMoves ==
  ASSUME SwapsOK, NEW w \in SwapId, Open(w), NEW r \in SwapRec, r = swaps[w],
         NEW rec \in SwapRec, Changes(w, rec), rec.maker = r.maker, rec.side = r.side, rec.size = r.size,
         r.joined => rec.joined, r.paid => rec.paid, rec.paid => rec.joined
  PROVE  OnlyMoves(w) /\ swaps'[w] = rec
<1>1. Exists(w)
  BY DEF Exists, Open
<1>2. Steady /\ UNCHANGED makers /\ swaps'[w] = rec /\ \A v \in SwapId \ {w} : swaps'[v] = swaps[v]
  BY <1>1, OneMoves
<1> QED BY <1>1, <1>2 DEF OnlyMoves

LEMMA OpenSwap ==
  ASSUME SwapsOK, NEW w \in SwapId, Open(w)
  PROVE  \E r \in SwapRec : r = swaps[w] /\ (r.paid => r.joined)
BY DEF SwapsOK, SwapOK, Open, Exists

LEMMA JoinIs ==
  ASSUME SwapsOK, NEW w \in SwapId, MakerJoins(w)
  PROVE  OnlyMoves(w) /\ (swaps'[w].paid <=> swaps[w].paid)
<1>1. Open(w)
  BY DEF MakerJoins
<1>2. PICK r \in SwapRec : r = swaps[w] /\ (r.paid => r.joined)
  BY <1>1, OpenSwap
<1>3. PICK rec : rec = [r EXCEPT !.joined = TRUE]
  OBVIOUS
<1>4. Changes(w, rec)
  BY <1>2, <1>3 DEF MakerJoins
<1>5. rec \in SwapRec /\ rec.maker = r.maker /\ rec.side = r.side /\ rec.size = r.size
  BY <1>3 DEF SwapRec
<1>6. rec.joined
  BY <1>3 DEF SwapRec
<1>7. rec.paid = r.paid
  BY <1>3 DEF SwapRec
<1>8. OnlyMoves(w) /\ swaps'[w] = rec
  BY <1>1, <1>2, <1>4, <1>5, <1>6, <1>7, StepMoves
<1> QED BY <1>2, <1>7, <1>8

LEMMA PayIs ==
  ASSUME SwapsOK, NEW w \in SwapId, MakerPays(w)
  PROVE  OnlyMoves(w) /\ swaps'[w].paid /\ ~swaps[w].paid /\ (swaps'[w].joined <=> swaps[w].joined)
<1>1. Open(w) /\ ~swaps[w].paid
  BY DEF MakerPays
<1>2. PICK r \in SwapRec : r = swaps[w] /\ (r.paid => r.joined)
  BY <1>1, OpenSwap
<1>3. PICK rec : rec = [r EXCEPT !.paid = TRUE]
  OBVIOUS
<1>4. Changes(w, rec) /\ r.joined
  BY <1>2, <1>3 DEF MakerPays
<1>5. rec \in SwapRec /\ rec.maker = r.maker /\ rec.side = r.side /\ rec.size = r.size
  BY <1>3 DEF SwapRec
<1>6. rec.paid
  BY <1>3 DEF SwapRec
<1>7. rec.joined = r.joined
  BY <1>3 DEF SwapRec
<1>8. OnlyMoves(w) /\ swaps'[w] = rec
  BY <1>1, <1>2, <1>4, <1>5, <1>6, <1>7, StepMoves
<1> QED BY <1>1, <1>2, <1>6, <1>7, <1>8

LEMMA FateIs ==
  ASSUME SwapsOK, NEW w \in SwapId, TakerReady(w) \/ IsCanceled(w) \/ IsRefunded(w) \/ IsComplete(w)
  PROVE  /\ OnlyMoves(w) /\ (swaps'[w].paid <=> swaps[w].paid)
         /\ (swaps'[w].joined <=> swaps[w].joined)
<1>1. Open(w)
  BY DEF TakerReady, IsCanceled, IsRefunded, IsComplete
<1>2. PICK r \in SwapRec : r = swaps[w] /\ (r.paid => r.joined)
  BY <1>1, OpenSwap
<1>3. ASSUME NEW rec \in SwapRec, Changes(w, rec), rec.maker = r.maker, rec.side = r.side, rec.size = r.size,
             rec.joined = r.joined, rec.paid = r.paid
      PROVE  OnlyMoves(w) /\ (swaps'[w].paid <=> swaps[w].paid) /\ (swaps'[w].joined <=> swaps[w].joined)
  <2>1. OnlyMoves(w) /\ swaps'[w] = rec
    BY <1>1, <1>2, <1>3, StepMoves
  <2> QED BY <2>1, <1>2, <1>3
<1>4. CASE TakerReady(w)
  <2>1. PICK rec : rec = [r EXCEPT !.ready = TRUE]
    OBVIOUS
  <2>2. Changes(w, rec)
    BY <1>2, <1>4, <2>1 DEF TakerReady
  <2>3. rec \in SwapRec /\ rec.maker = r.maker /\ rec.side = r.side /\ rec.size = r.size
    BY <2>1 DEF SwapRec
  <2>4. rec.joined = r.joined /\ rec.paid = r.paid
    BY <2>1 DEF SwapRec
  <2> QED BY <1>3, <2>2, <2>3, <2>4
<1>5. ASSUME NEW st \in {"CANCELED", "REFUNDED", "COMPLETE"}, Changes(w, [swaps[w] EXCEPT !.state = st])
      PROVE  OnlyMoves(w) /\ (swaps'[w].paid <=> swaps[w].paid) /\ (swaps'[w].joined <=> swaps[w].joined)
  <2>1. PICK rec : rec = [r EXCEPT !.state = st]
    OBVIOUS
  <2>2. Changes(w, rec)
    BY <1>2, <1>5, <2>1
  <2>3. rec \in SwapRec /\ rec.maker = r.maker /\ rec.side = r.side /\ rec.size = r.size
    BY <2>1 DEF SwapRec
  <2>4. rec.joined = r.joined /\ rec.paid = r.paid
    BY <2>1 DEF SwapRec
  <2> QED BY <1>3, <2>2, <2>3, <2>4
<1>6. CASE IsCanceled(w)
  BY <1>5, <1>6 DEF IsCanceled
<1>7. CASE IsRefunded(w)
  BY <1>5, <1>7 DEF IsRefunded
<1>8. CASE IsComplete(w)
  BY <1>5, <1>8 DEF IsComplete
<1> QED BY <1>4, <1>6, <1>7, <1>8

\* Ages grow up to where they stop; nothing else does.
LEMMA TimeSteady ==
  ASSUME SwapsOK, TimePasses
  PROVE  Steady /\ \A w \in SwapId : Exists(w) =>
                     swaps'[w].joined = swaps[w].joined /\ swaps'[w].paid = swaps[w].paid
<1>1. swaps' = [w \in SwapId |-> Aged(w)]
  BY DEF TimePasses
<1>2. \A n \in 0..MaxAge : Older(n) \in 0..MaxAge
  BY RfqAssumption DEF Older
<1>3. ASSUME NEW w \in SwapId
      PROVE  Moves(w) /\ (Exists(w) => swaps'[w].joined = swaps[w].joined /\ swaps'[w].paid = swaps[w].paid)
  <2>1. swaps'[w] = Aged(w) /\ SwapOK(w)
    BY <1>1 DEF SwapsOK
  <2>2. CASE ~Exists(w) \/ swaps[w].paid
    <3>1. swaps'[w] = swaps[w]
      BY <2>1, <2>2 DEF Aged
    <3> QED BY <2>1, <3>1, SameMoves
  <2>3. CASE Exists(w) /\ ~swaps[w].paid
    <3>1. PICK r \in SwapRec : r = swaps[w]
      BY <2>1, <2>3 DEF SwapOK
    <3>2. PICK t : swaps'[w] = [r EXCEPT !.age = Older(@), !.since = t] /\ t = IF r.ready THEN Older(r.since) ELSE 0
      BY <2>1, <2>3, <3>1 DEF Aged
    <3>3. Older(r.age) \in 0..MaxAge /\ Older(r.since) \in 0..MaxAge /\ 0 \in 0..MaxAge
      BY <1>2, RfqAssumption DEF SwapRec
    <3>4. t \in 0..MaxAge
      BY <3>2, <3>3
    <3>5. PICK r2 : r2 = swaps'[w]
      OBVIOUS
    <3>6. r2 \in SwapRec /\ r2.maker = r.maker /\ r2.side = r.side /\ r2.size = r.size
          /\ r2.state = r.state
      BY <3>2, <3>3, <3>4, <3>5 DEF SwapRec
    <3>7. r2.joined = r.joined /\ r2.paid = r.paid
      BY <3>2, <3>5 DEF SwapRec
    <3>8. SwapOK(w)' /\ (Exists(w)' <=> Exists(w)) /\ (Open(w)' <=> Open(w))
      BY <2>1, <2>3, <3>1, <3>5, <3>6, <3>7 DEF SwapOK, Exists, Open
    <3> QED BY <3>1, <3>5, <3>6, <3>7, <3>8 DEF Moves
  <2> QED BY <2>2, <2>3
<1> QED BY <1>1, <1>3 DEF Steady

-----------------------------------------------------------------------------
\* Queues and quotes.

LEMMA OwnedStays == ASSUME Steady, NEW m PROVE Owned(m)' = Owned(m)
BY DEF Steady, Moves, Owned

LEMMA SameMakersOK == ASSUME MakersOK, Steady, UNCHANGED makers PROVE MakersOK'
<1>1. \A m \in Maker : MakerOK(m)'
  BY OwnedStays DEF MakersOK, MakerOK
<1> QED BY <1>1 DEF MakersOK

LEMMA KeptIsQueued == ASSUME NEW m PROVE Kept(m) \subseteq makers[m].matches
BY DEF Kept

LEMMA PingMakers ==
  ASSUME SwapsOK, MakersOK, NEW m \in Maker, NEW q \in Quotes(m), \A k \in DOMAIN q : q[k] <= Ceiling[m][k],
         PingRoute(m, q)
  PROVE  /\ Steady /\ UNCHANGED swaps /\ MakersOK'
         /\ \A o \in Maker \ {m} : makers'[o] = makers[o]
         /\ makers'[m].matches = Kept(m)
         /\ \A k \in Side : makers'[m][k] = IF k \in DOMAIN q THEN q[k] ELSE makers[m][k]
<1>1. UNCHANGED swaps /\ Steady
  BY SameSteady DEF PingRoute
<1>2. PICK x, y : /\ x = (IF "ask" \in DOMAIN q THEN q["ask"] ELSE makers[m]["ask"])
                  /\ y = (IF "bid" \in DOMAIN q THEN q["bid"] ELSE makers[m]["bid"])
  OBVIOUS
<1>3. makers' = [makers EXCEPT ![m] = [@ EXCEPT !.ask = x, !.bid = y, !.age = 0, !.matches = Kept(m)]]
  BY <1>2 DEF PingRoute
<1>4. PICK r \in QuoteRec : r = makers[m] /\ r.matches \subseteq Owned(m)
                            /\ r["ask"] <= Ceiling[m]["ask"] /\ r["bid"] <= Ceiling[m]["bid"]
  BY DEF MakersOK, MakerOK, Side
<1>5. \A k \in DOMAIN q : k \in Side /\ q[k] \in Nat /\ q[k] <= Ceiling[m][k]
  BY DEF Quotes
<1>6. r["ask"] \in Nat /\ r["bid"] \in Nat
  BY DEF QuoteRec
<1>7. x \in Nat /\ y \in Nat /\ x <= Ceiling[m]["ask"] /\ y <= Ceiling[m]["bid"]
  BY <1>2, <1>4, <1>5, <1>6
<1>8. PICK r2 : r2 = [r EXCEPT !.ask = x, !.bid = y, !.age = 0, !.matches = Kept(m)]
  OBVIOUS
<1>9. DOMAIN makers' = Maker /\ makers'[m] = r2 /\ \A o \in Maker \ {m} : makers'[o] = makers[o]
  BY <1>3, <1>4, <1>8 DEF MakersOK
<1>10. 0 \in 0..Ttl /\ Kept(m) \subseteq r.matches
  BY <1>4, KeptIsQueued, RfqAssumption
<1>11. r2 \in QuoteRec /\ r2.ask = x /\ r2.bid = y /\ r2.matches = Kept(m)
  <2>1. PICK S, t : S = Kept(m) /\ t = 0
    OBVIOUS
  <2>2. x \in Nat /\ y \in Nat /\ t \in 0..Ttl /\ S \subseteq r.matches
    BY <1>7, <1>10, <2>1
  <2>3. r2 = [r EXCEPT !.ask = x, !.bid = y, !.age = t, !.matches = S]
    BY <1>8, <2>1
  <2>4. r2 \in QuoteRec /\ r2.ask = x /\ r2.bid = y /\ r2.age = t /\ r2.matches = S
    BY <2>2, <2>3 DEF QuoteRec
  <2> QED BY <2>1, <2>4
<1>12. \A k \in Side : k = "ask" \/ k = "bid"
  BY DEF Side
<1>13. r2["ask"] = x /\ r2["bid"] = y
  BY <1>11
<1>14. MakerOK(m)'
  BY <1>1, <1>4, <1>7, <1>9, <1>10, <1>11, <1>12, <1>13, OwnedStays DEF MakerOK
<1>15. \A o \in Maker \ {m} : MakerOK(o)'
  BY <1>1, <1>9, OwnedStays DEF MakersOK, MakerOK
<1>16. MakersOK'
  BY <1>9, <1>14, <1>15 DEF MakersOK
<1>17. \A k \in Side : makers'[m][k] = IF k \in DOMAIN q THEN q[k] ELSE makers[m][k]
  BY <1>2, <1>9, <1>12, <1>13
<1> QED BY <1>1, <1>9, <1>11, <1>16, <1>17

LEMMA StatusMakers ==
  ASSUME SwapsOK, MakersOK, rfqStatus
  PROVE  /\ Steady /\ MakersOK'
         /\ \A m \in Maker : /\ makers'[m].matches \subseteq makers[m].matches
                             /\ \A k \in Side : makers'[m][k] = makers[m][k]
<1>1. UNCHANGED swaps /\ Steady /\ makers' = [m \in Maker |-> [makers[m] EXCEPT !.matches = Kept(m)]]
  BY SameSteady DEF rfqStatus
<1>2. ASSUME NEW m \in Maker
      PROVE  /\ MakerOK(m)' /\ makers'[m].matches \subseteq makers[m].matches
             /\ \A k \in Side : makers'[m][k] = makers[m][k]
  <2>0. PICK r2 : r2 = makers'[m]
    OBVIOUS
  <2>1. PICK r \in QuoteRec : r = makers[m] /\ r2 = makers'[m]
    BY <2>0 DEF MakersOK, MakerOK
  <2>2. r2 = [r EXCEPT !.matches = Kept(m)] /\ Kept(m) \subseteq r.matches
    BY <1>1, <2>1, KeptIsQueued
  <2>3. r2 \in QuoteRec /\ r2.matches = Kept(m) /\ r2["ask"] = r["ask"] /\ r2["bid"] = r["bid"]
    BY <2>2 DEF QuoteRec
  <2>4. \A k \in Side : r2[k] = r[k]
    BY <2>3 DEF Side
  <2>5. MakerOK(m)'
    BY <1>1, <2>1, <2>2, <2>3, <2>4, OwnedStays DEF MakersOK, MakerOK
  <2> QED BY <2>1, <2>2, <2>3, <2>4, <2>5
<1> QED BY <1>1, <1>2 DEF MakersOK

LEMMA NoQuoteOK ==
  /\ NoQuote \in QuoteRec /\ NoQuote.matches = {} /\ \A k \in Side : NoQuote[k] = 0
<1>1. <<>> \in BoundedSeq(SwapId, RepHistory)
  <2>1. 0 \in 0..RepHistory /\ <<>> \in [1..0 -> SwapId]
    BY RfqAssumption
  <2> QED BY <2>1 DEF BoundedSeq, SeqOf
<1>2. Ttl \in 0..Ttl
  BY RfqAssumption
<1> QED BY <1>1, <1>2 DEF NoQuote, QuoteRec, Side

LEMMA RestartMakers ==
  ASSUME SwapsOK, MakersOK, RestartRfq
  PROVE  /\ Steady /\ MakersOK'
         /\ \A m \in Maker : /\ makers'[m].matches \subseteq makers[m].matches
                             /\ \A k \in Side : makers'[m][k] <= makers[m][k]
<1>1. UNCHANGED swaps /\ Steady /\ makers' = [m \in Maker |-> NoQuote]
  BY SameSteady DEF RestartRfq
<1>2. \A m \in Maker, k \in Side : makers[m][k] \in Nat /\ Ceiling[m][k] \in Nat
  BY MarketAssumption DEF MakersOK, MakerOK, QuoteRec, Side
<1>3. \A m \in Maker : makers'[m] = NoQuote
  BY <1>1
<1>4. \A m \in Maker : MakerOK(m)'
  BY <1>2, <1>3, NoQuoteOK DEF MakerOK
<1>5. \A m \in Maker, k \in Side : makers'[m][k] <= makers[m][k]
  BY <1>2, <1>3, NoQuoteOK
<1>6. \A m \in Maker : makers'[m].matches \subseteq makers[m].matches
  BY <1>3, NoQuoteOK
<1> QED BY <1>1, <1>4, <1>5, <1>6 DEF MakersOK

LEMMA TimeMakers ==
  ASSUME SwapsOK, MakersOK, TimePasses
  PROVE  /\ Steady /\ MakersOK'
         /\ \A m \in Maker : /\ makers'[m].matches \subseteq makers[m].matches
                             /\ \A k \in Side : makers'[m][k] = makers[m][k]
<1>1. Steady
  BY TimeSteady
<1>2. ASSUME NEW m \in Maker
      PROVE  /\ MakerOK(m)' /\ makers'[m].matches \subseteq makers[m].matches
             /\ \A k \in Side : makers'[m][k] = makers[m][k]
  <2>0. PICK r2 : r2 = makers'[m]
    OBVIOUS
  <2>1. PICK r \in QuoteRec : r = makers[m] /\ r2 = makers'[m]
    BY <2>0 DEF MakersOK, MakerOK
  <2>2. PICK t : r2 = [r EXCEPT !.age = t] /\ t = IF r.age < Ttl THEN r.age + 1 ELSE r.age
    BY <2>1 DEF TimePasses
  <2>3. r.age \in 0..Ttl
    BY DEF QuoteRec
  <2>4. t \in 0..Ttl
    BY <2>2, <2>3, RfqAssumption
  <2>5. r2 \in QuoteRec /\ r2.matches = r.matches /\ r2["ask"] = r["ask"] /\ r2["bid"] = r["bid"]
    BY <2>2, <2>4 DEF QuoteRec
  <2>6. \A k \in Side : r2[k] = r[k]
    BY <2>5 DEF Side
  <2>7. MakerOK(m)'
    BY <1>1, <2>1, <2>2, <2>5, <2>6, OwnedStays DEF MakersOK, MakerOK
  <2> QED BY <2>1, <2>5, <2>6, <2>7
<1>3. DOMAIN makers' = Maker
  BY DEF TimePasses
<1> QED BY <1>1, <1>2, <1>3 DEF MakersOK

-----------------------------------------------------------------------------
\* Takes.

LEMMA BoundedIs ==
  ASSUME NEW S, NEW n \in Nat, NEW s
  PROVE  s \in BoundedSeq(S, n) <=> s \in Seq(S) /\ Len(s) <= n
<1>1. ASSUME s \in BoundedSeq(S, n)
      PROVE  s \in Seq(S) /\ Len(s) <= n
  <2>1. PICK l \in 0..n : s \in [1..l -> S]
    BY <1>1 DEF BoundedSeq, SeqOf
  <2>2. s \in Seq(S) /\ Len(s) = l
    BY <2>1
  <2> QED BY <2>1, <2>2
<1>2. ASSUME s \in Seq(S), Len(s) <= n
      PROVE  s \in BoundedSeq(S, n)
  <2>1. Len(s) \in 0..n /\ s \in [1..Len(s) -> S]
    BY <1>2
  <2> QED BY <2>1 DEF BoundedSeq, SeqOf
<1> QED BY <1>1, <1>2

LEMMA OneElement ==
  ASSUME NEW S, NEW v \in S
  PROVE  SetToSeq({v}) \in Seq(S) /\ Len(SetToSeq({v})) = 1
<1>1. Cardinality({v}) = 1
  BY FS_Singleton
<1>2. \E f \in [1..1 -> {v}] : IsInjective(f)
  <2>1. [i \in 1..1 |-> v] \in [1..1 -> {v}] /\ IsInjective([i \in 1..1 |-> v])
    BY DEF IsInjective
  <2> QED BY <2>1
<1>3. SetToSeq({v}) \in [1..1 -> {v}]
  BY <1>1, <1>2 DEF SetToSeq
<1>4. PICK s, l : s = SetToSeq({v}) /\ l = 1
  OBVIOUS
<1>5. s \in [1..l -> S] /\ l \in Nat
  BY <1>3, <1>4
<1>6. s \in Seq(S) /\ Len(s) = l
  BY <1>5
<1> QED BY <1>4, <1>6

LEMMA ConcatIs ==
  ASSUME NEW S, NEW a \in Seq(S), NEW b \in Seq(S)
  PROVE  a \o b \in Seq(S) /\ Len(a \o b) = Len(a) + Len(b)
OBVIOUS

\* One leg charged to a maker.
ChargedFor(q, r, k, v, n) ==
  /\ r \in QuoteRec /\ r.matches = q.matches \cup {v} /\ r[k] = q[k] - n
  /\ \A j \in Side : j # k => r[j] = q[j]

LEMMA ChargedIs ==
  ASSUME NEW q \in QuoteRec, NEW k \in Side, NEW v \in SwapId, NEW n \in Nat, n <= q[k],
         NEW r, r = Charged(q, k, {v}, n)
  PROVE  ChargedFor(q, r, k, v, n)
<1>1. PICK log : log = q.history \o SetToSeq({v})
  OBVIOUS
<1>2. PICK h : h = IF Len(log) > RepHistory THEN Tail(log) ELSE log
  OBVIOUS
<1>3. RepHistory \in Nat
  BY RfqAssumption
<1>4. h \in BoundedSeq(SwapId, RepHistory)
  <2>1. q.history \in Seq(SwapId) /\ Len(q.history) <= RepHistory
    <3>1. q.history \in BoundedSeq(SwapId, RepHistory)
      BY DEF QuoteRec
    <3> QED BY <1>3, <3>1, BoundedIs
  <2>2. PICK s, old : s = SetToSeq({v}) /\ old = q.history
    OBVIOUS
  <2>3. s \in Seq(SwapId) /\ Len(s) = 1
    BY <2>2, OneElement
  <2>4. old \in Seq(SwapId) /\ Len(old) <= RepHistory /\ log = old \o s
    BY <1>1, <2>1, <2>2
  <2>5. log \in Seq(SwapId) /\ Len(log) = Len(old) + 1
    <3>1. Len(old \o s) = Len(old) + Len(s) /\ old \o s \in Seq(SwapId)
      BY <2>3, <2>4, ConcatIs
    <3> QED BY <2>3, <2>4, <3>1
  <2>6. h \in Seq(SwapId) /\ Len(h) <= RepHistory
    BY <1>2, <1>3, <2>4, <2>5
  <2> QED BY <1>3, <2>6, BoundedIs
<1>5. q.ask \in Nat /\ q.bid \in Nat
  BY DEF QuoteRec
<1>6. PICK a : a = q[k] - n
  OBVIOUS
<1>7. q[k] \in Nat
  BY <1>5 DEF Side
<1>8. a \in Nat /\ Max({0, q[k] - n}) = a
  BY <1>6, <1>7, MaxOfTwo
<1>9. r = [q EXCEPT ![k] = a, !.matches = q.matches \cup {v}, !.history = h]
  BY <1>1, <1>2, <1>8 DEF Charged
<1>10. CASE k = "ask"
  <2>1. r = [q EXCEPT !.ask = a, !.matches = q.matches \cup {v}, !.history = h]
    BY <1>9, <1>10
  <2>2. r \in QuoteRec /\ r.matches = q.matches \cup {v} /\ r.ask = a /\ r.bid = q.bid
    BY <1>4, <1>8, <2>1 DEF QuoteRec
  <2> QED BY <1>6, <1>10, <2>2 DEF Side, ChargedFor
<1>11. CASE k = "bid"
  <2>1. r = [q EXCEPT !.bid = a, !.matches = q.matches \cup {v}, !.history = h]
    BY <1>9, <1>11
  <2>2. r \in QuoteRec /\ r.matches = q.matches \cup {v} /\ r.bid = a /\ r.ask = q.ask
    BY <1>4, <1>8, <2>1 DEF QuoteRec
  <2> QED BY <1>6, <1>11, <2>2 DEF Side, ChargedFor
<1> QED BY <1>10, <1>11 DEF Side

\* Swaps are numbered as they come.
LEMMA UsedIs ==
  ASSUME SwapsOK
  PROVE  Used \in 0..MaxSwaps /\ \A w \in SwapId : Exists(w) <=> w <= Used
<1>1. PICK n \in 0..MaxSwaps : \A w \in SwapId : Exists(w) <=> w <= n
  BY DEF SwapsOK
<1>2. MaxSwaps \in Nat
  BY RfqAssumption
<1>3. {w \in SwapId : Exists(w)} = 1..n
  BY <1>1, <1>2 DEF SwapId
<1>4. Cardinality(1..n) = n
  BY <1>1, <1>2, FS_Interval
<1> QED BY <1>1, <1>3, <1>4 DEF Used

\* One leg of each maker at most, tradable and within its quote.
LegsFit(k, legs) ==
  /\ legs \in Seq(Leg) /\ OneEach(legs)
  /\ \A x \in DOMAIN legs : legs[x].size \in MinLot..makers[legs[x].maker][k]

LEMMA TakesFit ==
  ASSUME MakersOK, NEW k \in Side, NEW n \in Want, takeRfq(k, n) \/ takeFill(k, n)
  PROVE  \E legs : \E told \in BOOLEAN : LegsFit(k, legs) /\ OpenLegs(k, legs, told)
<1>1. \A m \in Maker : makers[m][k] \in Nat
  BY DEF MakersOK, MakerOK, QuoteRec, Side
<1>2. MinLot \in Nat \ {0} /\ n \in Nat
  BY RfqAssumption, MarketAssumption
<1>3. CASE takeRfq(k, n)
  <2>1. PICK m \in bestQuote(k, n) : OpenLegs(k, <<[maker |-> m, size |-> n]>>, TRUE) /\ n >= MinLot
    BY <1>3 DEF takeRfq
  <2>2. m \in Maker /\ n <= makers[m][k]
    BY <2>1 DEF bestQuote, liveSides
  <2>3. PICK leg : leg = [maker |-> m, size |-> n]
    OBVIOUS
  <2>4. leg \in Leg /\ leg.maker = m /\ leg.size = n
    BY <1>2, <2>2, <2>3 DEF Leg
  <2>5. PICK legs : legs = <<leg>>
    OBVIOUS
  <2>6. legs \in Seq(Leg) /\ DOMAIN legs = {1} /\ legs[1] = leg
    BY <2>4, <2>5
  <2>7. n \in MinLot..makers[m][k]
    BY <1>1, <1>2, <2>1, <2>2
  <2>8. LegsFit(k, legs)
    BY <2>4, <2>6, <2>7 DEF LegsFit, OneEach
  <2> QED BY <2>1, <2>3, <2>5, <2>8
<1>4. CASE takeFill(k, n)
  <2>0. PICK ranked \in Ranked(k) :
           LET most == planFill(k, n, ranked).legs
               room == Min({Len(most), Room})
           IN room > 0 /\ OpenLegs(k, SubSeq(most, 1, room), room = Len(most))
    BY <1>4 DEF takeFill
  <2>1. PICK p, legs, fit :
           /\ ranked \in Ranked(k) /\ p = planFill(k, n, ranked) /\ legs = p.legs
           /\ fit = Min({Len(legs), Room}) /\ fit > 0
           /\ OpenLegs(k, SubSeq(legs, 1, fit), fit = Len(legs))
    BY <2>0
  <2>2. Rankable(k, ranked)
    BY <1>1, RankingsAreRankable
  <2>3. PlanInv(k, n, ranked, p, Len(ranked))
    BY <1>2, <2>1, <2>2, PlanKeeps
  <2>4. LegsFit(k, legs)
    BY <2>1, <2>3 DEF PlanInv, LegsFit
  <2>5. Room \in Int
    <3>1. IsFiniteSet({w \in SwapId : Open(w)})
      <4>1. IsFiniteSet(SwapId)
        BY FS_Interval, RfqAssumption DEF SwapId
      <4> QED BY <4>1, FS_Subset
    <3> QED BY <3>1, FS_CardinalityType, RfqAssumption DEF Room
  <2>6. PICK len : len = Len(legs)
    OBVIOUS
  <2>7. len \in Nat /\ legs \in Seq(Leg)
    BY <2>4, <2>6 DEF LegsFit
  <2>8. fit \in 1..len
    <3>1. fit = IF len <= Room THEN len ELSE Room
      BY <2>1, <2>5, <2>6, <2>7, MinOfTwo
    <3> QED BY <2>1, <2>5, <2>7, <3>1
  <2>9. PICK some : some = SubSeq(legs, 1, fit)
    OBVIOUS
  <2>10. some \in Seq(Leg) /\ DOMAIN some = 1..fit /\ \A x \in 1..fit : x \in DOMAIN legs /\ some[x] = legs[x]
    BY <2>6, <2>7, <2>8, <2>9
  <2>11. LegsFit(k, some)
    BY <2>4, <2>10 DEF LegsFit, OneEach
  <2>12. (fit = Len(legs)) \in BOOLEAN
    OBVIOUS
  <2> QED BY <2>1, <2>9, <2>11, <2>12
<1> QED BY <1>3, <1>4

\* What opening legs does: a new swap for each, queued for its maker, whose quote
\* shrinks by its size.
LEMMA LegsOpen ==
  ASSUME SwapsOK, MakersOK, NEW k \in Side, NEW legs, NEW told \in BOOLEAN, LegsFit(k, legs), OpenLegs(k, legs, told)
  PROVE  /\ SwapsOK' /\ MakersOK'
         /\ \A w \in SwapId : Exists(w) => swaps'[w] = swaps[w]
         /\ \A w \in SwapId : Exists(w)' /\ ~Exists(w) =>
              /\ swaps'[w].side = k /\ swaps'[w].state = "open" /\ ~swaps'[w].joined /\ ~swaps'[w].paid
              /\ \E x \in DOMAIN legs : /\ w = Used + x /\ swaps'[w].maker = legs[x].maker
                                        /\ swaps'[w].size = legs[x].size
         /\ \A m \in Maker : LegsOf(legs, m) = {} => makers'[m] = makers[m]
         /\ \A x \in DOMAIN legs : LET m == legs[x].maker IN
              /\ m \in Maker /\ Used + x \in SwapId
              /\ makers'[m].matches = makers[m].matches \cup {Used + x}
              /\ makers'[m][k] = makers[m][k] - legs[x].size
              /\ \A j \in Side : j # k => makers'[m][j] = makers[m][j]
<1>1. PICK u, len : u = Used /\ len = Len(legs)
  OBVIOUS
<1>2. u \in 0..MaxSwaps /\ \A w \in SwapId : Exists(w) <=> w <= u
  BY <1>1, UsedIs
<1>3. MaxSwaps \in Nat /\ MinLot \in Nat /\ MaxAge \in Nat
  BY RfqAssumption
<1>4. legs \in Seq(Leg) /\ OneEach(legs) /\ len \in Nat /\ DOMAIN legs = 1..len
  BY <1>1 DEF LegsFit
<1>5. \A x \in 1..len : legs[x].maker \in Maker /\ legs[x].size \in Nat
                         /\ legs[x].size \in MinLot..makers[legs[x].maker][k]
  <2>1. \A x \in 1..len : legs[x] \in Leg
    BY <1>4
  <2> QED BY <1>4, <2>1 DEF LegsFit, Leg
<1>6. u + len <= MaxSwaps
  BY <1>1 DEF OpenLegs
<1>7. swaps' = [w \in SwapId |->
          IF w - u \in DOMAIN legs
          THEN [state |-> "open", taken |-> told, maker |-> legs[w - u].maker, side |-> k,
                size |-> legs[w - u].size, joined |-> FALSE, ready |-> FALSE, paid |-> FALSE,
                age |-> 0, since |-> 0]
          ELSE swaps[w]]
  BY <1>1 DEF OpenLegs
<1>8. makers' = [m \in Maker |->
          IF LegsOf(legs, m) = {} THEN makers[m]
          ELSE Charged(makers[m], k, {u + i : i \in LegsOf(legs, m)}, Bought(legs, m))]
  BY <1>1 DEF OpenLegs
<1>9. \A w \in SwapId : Exists(w) => w - u \notin DOMAIN legs /\ swaps'[w] = swaps[w]
  BY <1>2, <1>3, <1>4, <1>7 DEF SwapId
<1>10. ASSUME NEW x \in 1..len
       PROVE  /\ LegsOf(legs, legs[x].maker) = {x} /\ u + x \in SwapId
              /\ makers'[legs[x].maker] \in QuoteRec
              /\ makers'[legs[x].maker].matches = makers[legs[x].maker].matches \cup {u + x}
              /\ makers'[legs[x].maker][k] = makers[legs[x].maker][k] - legs[x].size
              /\ \A j \in Side : j # k => makers'[legs[x].maker][j] = makers[legs[x].maker][j]
  <2>1. PICK m \in Maker, n \in Nat : m = legs[x].maker /\ n = legs[x].size
    BY <1>5
  <2>2. LegsOf(legs, m) = {x}
    BY <1>4, <2>1 DEF LegsOf, OneEach
  <2>3. Bought(legs, m) = n
    BY <1>4, <2>1, BoughtOnce
  <2>4. PICK v : v = u + x
    OBVIOUS
  <2>5. v \in SwapId
    BY <1>2, <1>3, <1>4, <1>6, <2>4 DEF SwapId
  <2>6. {u + i : i \in LegsOf(legs, m)} = {v}
    BY <2>2, <2>4
  <2>7. PICK q, r : q = makers[m] /\ r = makers'[m]
    OBVIOUS
  <2>8. r = Charged(q, k, {v}, n)
    BY <1>8, <2>2, <2>3, <2>6, <2>7
  <2>9. q \in QuoteRec
    BY <2>7 DEF MakersOK, MakerOK
  <2>10. q[k] \in Nat
    BY <2>9 DEF QuoteRec, Side
  <2>11. n <= q[k]
    BY <1>3, <1>5, <2>1, <2>7, <2>10
  <2>12. /\ r \in QuoteRec /\ r.matches = q.matches \cup {v} /\ r[k] = q[k] - n
         /\ \A j \in Side : j # k => r[j] = q[j]
    <3>1. ChargedFor(q, r, k, v, n)
      BY <2>5, <2>8, <2>9, <2>11, ChargedIs
    <3> QED BY <3>1 DEF ChargedFor
  <2> QED BY <2>1, <2>2, <2>4, <2>5, <2>7, <2>12
<1>11. ASSUME NEW w \in SwapId, w - u \in DOMAIN legs
       PROVE  /\ swaps'[w] \in SwapRec /\ swaps'[w].side = k /\ swaps'[w].state = "open"
              /\ ~swaps'[w].joined /\ ~swaps'[w].paid
              /\ swaps'[w].maker = legs[w - u].maker /\ swaps'[w].size = legs[w - u].size
              /\ w = u + (w - u)
  <2>1. PICK x : x = w - u
    OBVIOUS
  <2>2. swaps'[w] = [state |-> "open", taken |-> told, maker |-> legs[x].maker, side |-> k,
                size |-> legs[x].size, joined |-> FALSE, ready |-> FALSE, paid |-> FALSE,
                age |-> 0, since |-> 0]
    BY <1>7, <1>11, <2>1
  <2>3. legs[x].maker \in Maker /\ legs[x].size \in Nat /\ 0 \in 0..MaxAge
    BY <1>3, <1>4, <1>5, <1>11, <2>1
  <2>4. swaps'[w] \in SwapRec
    BY <2>2, <2>3 DEF SwapRec
  <2>5. w = u + (w - u)
    BY <1>2, <1>3 DEF SwapId
  <2> QED BY <2>1, <2>2, <2>4, <2>5
<1>12. ASSUME NEW w \in SwapId, w - u \notin DOMAIN legs
       PROVE  swaps'[w] = swaps[w]
  BY <1>7, <1>12
<1>13. \A w \in SwapId : Exists(w)' <=> w <= u + len
  <2> SUFFICES ASSUME NEW w \in SwapId PROVE Exists(w)' <=> w <= u + len
    OBVIOUS
  <2>1. CASE w - u \in DOMAIN legs
    <3>1. w <= u + len
      BY <1>2, <1>3, <1>4, <2>1 DEF SwapId
    <3> QED BY <1>11, <2>1, <3>1 DEF Exists
  <2>2. CASE w - u \notin DOMAIN legs
    <3>1. Exists(w)' <=> w <= u
      BY <1>2, <1>12, <2>2 DEF Exists
    <3>2. w <= u <=> w <= u + len
      BY <1>2, <1>3, <1>4, <2>2 DEF SwapId
    <3> QED BY <3>1, <3>2
  <2> QED BY <2>1, <2>2
<1>14. ASSUME NEW w \in SwapId PROVE SwapOK(w)'
  <2>1. CASE w - u \in DOMAIN legs
    <3>1. PICK x, m, n : x = w - u /\ m = legs[x].maker /\ n = legs[x].size
      OBVIOUS
    <3>0. m \in Maker /\ n \in Nat /\ n \in MinLot..makers[m][k]
      BY <1>4, <1>5, <2>1, <3>1
    <3>2. makers[m][k] \in Nat /\ makers[m][k] <= Ceiling[m][k] /\ Ceiling[m][k] \in Nat
      BY <3>0, MarketAssumption DEF MakersOK, MakerOK, QuoteRec, Side
    <3>3. n \in MinLot..Ceiling[m][k]
      BY <1>3, <3>0, <3>2
    <3>4. swaps'[w] \in SwapRec /\ swaps'[w].side = k /\ swaps'[w].maker = m /\ swaps'[w].size = n /\ ~swaps'[w].paid
      BY <1>11, <2>1, <3>1
    <3> QED BY <3>3, <3>4 DEF SwapOK
  <2>2. CASE w - u \notin DOMAIN legs
    BY <1>12, <2>2 DEF SwapsOK, SwapOK, Exists
  <2> QED BY <2>1, <2>2
<1>15. SwapsOK'
  <2>1. u + len \in 0..MaxSwaps
    BY <1>2, <1>3, <1>4, <1>6
  <2>2. DOMAIN swaps' = SwapId
    BY <1>7
  <2> QED BY <1>13, <1>14, <2>1, <2>2 DEF SwapsOK
<1>16. ASSUME NEW m \in Maker PROVE MakerOK(m)'
  <2>1. Owned(m) \subseteq Owned(m)'
    BY <1>9 DEF Owned, Exists
  <2>2. CASE LegsOf(legs, m) = {}
    <3>1. makers'[m] = makers[m]
      BY <1>8, <2>2
    <3> QED BY <2>1, <3>1 DEF MakersOK, MakerOK
  <2>3. ASSUME NEW x \in LegsOf(legs, m)
        PROVE  MakerOK(m)'
    <3>1. x \in 1..len /\ legs[x].maker = m
      BY <1>4, <2>3 DEF LegsOf
    <3>2. u + x \in SwapId /\ (u + x) - u = x
      BY <1>2, <1>3, <1>10, <3>1
    <3>3. u + x \in Owned(m)'
      <4>1. PICK v \in SwapId : v = u + x /\ v - u = x
        BY <3>2
      <4>2. swaps'[v].state = "open" /\ swaps'[v].maker = m
        BY <1>4, <1>11, <3>1, <4>1
      <4> QED BY <4>1, <4>2 DEF Owned, Exists
    <3>4. makers'[m] \in QuoteRec /\ makers'[m].matches = makers[m].matches \cup {u + x}
      BY <1>10, <3>1
    <3>5. ASSUME NEW j \in Side PROVE makers'[m][j] <= Ceiling[m][j]
      <4>1. makers[m][j] \in Nat /\ makers[m][j] <= Ceiling[m][j] /\ Ceiling[m][j] \in Nat
        BY MarketAssumption DEF MakersOK, MakerOK, QuoteRec, Side
      <4>2. legs[x].size \in Nat
        BY <1>5, <3>1
      <4>3. makers'[m][j] = makers[m][j] \/ makers'[m][j] = makers[m][j] - legs[x].size
        BY <1>10, <3>1
      <4> QED BY <4>1, <4>2, <4>3
    <3> QED BY <2>1, <3>3, <3>4, <3>5 DEF MakersOK, MakerOK
  <2> QED BY <2>2, <2>3
<1>17. MakersOK'
  BY <1>8, <1>16 DEF MakersOK
<1>18. ASSUME NEW w \in SwapId, Exists(w)', ~Exists(w)
       PROVE  /\ swaps'[w].side = k /\ swaps'[w].state = "open" /\ ~swaps'[w].joined /\ ~swaps'[w].paid
              /\ \E x \in DOMAIN legs : /\ w = Used + x /\ swaps'[w].maker = legs[x].maker
                                        /\ swaps'[w].size = legs[x].size
  <2>1. w - u \in DOMAIN legs
    BY <1>12, <1>18 DEF Exists
  <2> QED BY <1>1, <1>11, <2>1
<1>19. \A m \in Maker : LegsOf(legs, m) = {} => makers'[m] = makers[m]
  BY <1>8
<1> QED BY <1>1, <1>4, <1>5, <1>9, <1>10, <1>15, <1>17, <1>18, <1>19

-----------------------------------------------------------------------------
\* What maker m has to pay on side k: its open swaps, not yet paid, that it has
\* joined, handles or has queued; those it does not reserve for; of these, the
\* ones that are no longer merely queued; and what it has paid and may get back.
Load(m, k) ==
  {w \in Mine(m, k) : /\ Open(w) /\ ~swaps[w].paid
                      /\ swaps[w].joined \/ w \in bots[m].handling \/ w \in makers[m].matches}
Loose(m, k)  == {w \in Load(m, k) : w \notin bots[m].inflight}
Left(m, k)   == {w \in Loose(m, k) : swaps[w].joined \/ w \in bots[m].handling}
Locked(m, k) == {w \in Mine(m, k) : swaps[w].paid /\ (Open(w) \/ w \in bots[m].handling)}

\* The quote the bot is about to send.
Pending(m, k) == IF bots[m].at = "sized" /\ k \in DOMAIN bots[m].q THEN bots[m].q[k] ELSE 0

Solvent(left, loose, load, quote, pending, have, slack, ceiling) ==
  /\ left + ceiling <= slack
  /\ loose + quote <= slack
  /\ load + quote <= have + slack
  /\ pending = 0 \/ load + quote + pending <= have + slack

Debt(m, k) ==
  Solvent(SizeOf(Left(m, k)), SizeOf(Loose(m, k)), SizeOf(Load(m, k)),
          makers[m][k], Pending(m, k), stock[m][k], Slack(m, k), Ceiling[m][k])
Backed(m, k) == stock[m][k] + SizeOf(Locked(m, k)) <= Stock[m][k]

BooksInv == MarketInv /\ \A m \in Maker, k \in Side : Debt(m, k) /\ Backed(m, k)

-----------------------------------------------------------------------------
\* Sums of sizes.
SizesOK(f, S) == IsFiniteSet(S) /\ \A w \in S : f[w] \in Nat

LEMMA SwapsFinite == ASSUME NEW S, S \subseteq SwapId PROVE IsFiniteSet(S)
<1>1. IsFiniteSet(SwapId)
  BY FS_Interval, RfqAssumption DEF SwapId
<1> QED BY <1>1, FS_Subset

LEMMA SizesAre ==
  ASSUME SwapsOK, NEW S, S \subseteq {w \in SwapId : Exists(w)}
  PROVE  SizesOK(Sizes(swaps), S) /\ \A w \in S : Sizes(swaps)[w] = swaps[w].size
<1>1. \A w \in S : Sizes(swaps)[w] = swaps[w].size /\ swaps[w].size \in Nat
  BY DEF SwapsOK, SwapOK, SwapRec, Sizes
<1> QED BY <1>1, SwapsFinite DEF SizesOK

LEMMA SizeNat ==
  ASSUME NEW f, NEW S, SizesOK(f, S)
  PROVE  SumFunctionOnSet(f, S) \in Nat
BY SumNat DEF SizesOK

\* Fewer swaps of the same sizes add up to less.
LEMMA SizeLess ==
  ASSUME NEW f, NEW g, NEW A, NEW B, SizesOK(f, B), A \subseteq B, \A w \in A : g[w] = f[w]
  PROVE  /\ SizesOK(g, A) /\ SumFunctionOnSet(f, B) \in Nat /\ SumFunctionOnSet(g, A) \in Nat
         /\ SumFunctionOnSet(g, A) <= SumFunctionOnSet(f, B)
<1>1. IsFiniteSet(A) /\ IsFiniteSet(B) /\ \A w \in B : f[w] \in Nat
  BY FS_Subset DEF SizesOK
<1>2. SumFunctionOnSet(f, A) <= SumFunctionOnSet(f, B)
  BY <1>1, SumSubset
<1>3. SumFunctionOnSet(g, A) = SumFunctionOnSet(f, A)
  BY <1>1, SumSame
<1>4. \A w \in A : f[w] \in Nat /\ g[w] \in Nat
  BY <1>1
<1>5. SumFunctionOnSet(f, B) \in Nat /\ SumFunctionOnSet(f, A) \in Nat
  BY <1>1, <1>4, SumNat
<1>6. SizesOK(g, A)
  BY <1>1, <1>4 DEF SizesOK
<1> QED BY <1>2, <1>3, <1>5, <1>6

\* With one swap more, they add up to no more than that swap more.
LEMMA SizeMore ==
  ASSUME NEW f, NEW g, NEW A, NEW B, SizesOK(f, B), NEW v, v \notin B, A \subseteq B \cup {v}, g[v] \in Nat,
         \A w \in A \ {v} : g[w] = f[w]
  PROVE  /\ SumFunctionOnSet(f, B) \in Nat /\ SumFunctionOnSet(g, A) \in Nat
         /\ SumFunctionOnSet(g, A) <= SumFunctionOnSet(f, B) + g[v]
<1>1. PICK R : R = A \ {v}
  OBVIOUS
<1>2. /\ SizesOK(g, R) /\ SumFunctionOnSet(f, B) \in Nat /\ SumFunctionOnSet(g, R) \in Nat
      /\ SumFunctionOnSet(g, R) <= SumFunctionOnSet(f, B)
  <2>1. R \subseteq B /\ \A w \in R : g[w] = f[w]
    BY <1>1
  <2> QED BY <2>1, SizeLess
<1>3. CASE v \notin A
  <2>1. A = R
    BY <1>1, <1>3
  <2> QED BY <1>2, <2>1
<1>4. CASE v \in A
  <2>1. A = R \cup {v} /\ v \notin R
    BY <1>1, <1>4
  <2>2. IsFiniteSet(R) /\ \A w \in R : g[w] \in Nat
    BY <1>2 DEF SizesOK
  <2>3. SumFunctionOnSet(g, R \cup {v}) = g[v] + SumFunctionOnSet(g, R)
    BY <2>1, <2>2, SumAdd
  <2>4. SumFunctionOnSet(g, A) = g[v] + SumFunctionOnSet(g, R)
    BY <2>1, <2>3
  <2> QED BY <1>2, <2>4
<1> QED BY <1>3, <1>4

\* With one swap fewer, at least that swap less.
LEMMA SizeDrops ==
  ASSUME NEW f, NEW g, NEW A, NEW B, SizesOK(f, B), NEW v \in B, A \subseteq B \ {v}, \A w \in A : g[w] = f[w]
  PROVE  /\ SumFunctionOnSet(f, B) \in Nat /\ SumFunctionOnSet(g, A) \in Nat
         /\ SumFunctionOnSet(g, A) + f[v] <= SumFunctionOnSet(f, B)
<1>1. PICK R : R = B \ {v}
  OBVIOUS
<1>2. SizesOK(f, R)
  BY <1>1, FS_Subset DEF SizesOK
<1>3. SumFunctionOnSet(f, R) \in Nat /\ SumFunctionOnSet(g, A) \in Nat
      /\ SumFunctionOnSet(g, A) <= SumFunctionOnSet(f, R)
  BY <1>1, <1>2, SizeLess
<1>4. SumFunctionOnSet(f, B) = f[v] + SumFunctionOnSet(f, R)
  BY <1>1, SumRemove DEF SizesOK
<1>5. f[v] \in Nat /\ SumFunctionOnSet(f, B) \in Nat
  BY SizeNat DEF SizesOK
<1> QED BY <1>3, <1>4, <1>5

\* Two parts that cover a set.
LEMMA SizeSplit ==
  ASSUME NEW f, NEW A, NEW B, NEW C, SizesOK(f, A), SizesOK(f, B), C \subseteq A \cup B
  PROVE  SumFunctionOnSet(f, C) \in Nat /\ SumFunctionOnSet(f, C) <= SumFunctionOnSet(f, A) + SumFunctionOnSet(f, B)
<1>1. PICK D : D = B \ A
  OBVIOUS
<1>2. SizesOK(f, D) /\ A \cap D = {} /\ A \cup B = A \cup D
  BY <1>1, FS_Subset DEF SizesOK
<1>3. SizesOK(f, A \cup B)
  BY FS_Union DEF SizesOK
<1>4. SumFunctionOnSet(f, A \cup D) = SumFunctionOnSet(f, A) + SumFunctionOnSet(f, D)
  <2>1. IsFiniteSet(A) /\ IsFiniteSet(D) /\ \A x \in A \cup D : f[x] \in Nat
    BY <1>2 DEF SizesOK
  <2> QED BY <1>2, <2>1, SumUnion
<1>5. SumFunctionOnSet(f, D) <= SumFunctionOnSet(f, B)
  <2>1. D \subseteq B
    BY <1>1
  <2> QED BY <2>1, SumSubset DEF SizesOK
<1>6. SumFunctionOnSet(f, C) \in Nat /\ SumFunctionOnSet(f, C) <= SumFunctionOnSet(f, A \cup B)
  BY <1>3, SizeLess
<1>7. SumFunctionOnSet(f, A) \in Nat /\ SumFunctionOnSet(f, B) \in Nat /\ SumFunctionOnSet(f, D) \in Nat
  BY <1>2, SizeNat
<1> QED BY <1>2, <1>4, <1>5, <1>6, <1>7
-----------------------------------------------------------------------------
\* What each event adds to the slack.
Extra(e, m, k) ==
  CASE e \in {"lost", "fails"} -> Ceiling[m][k]
    [] e = "crash" -> Stock[m][k] + Ceiling[m][k]
    [] OTHER -> 0

LEMMA SlackUse ==
  ASSUME spent \in [Event -> Nat], NEW e \in Event, Use(e), NEW m \in Maker, NEW k \in Side
  PROVE  /\ Slack(m, k) \in Nat /\ spent' \in [Event -> Nat]
         /\ Slack(m, k)' = Slack(m, k) + Extra(e, m, k)
<1>1. PICK c \in Nat, s \in Nat : c = Ceiling[m][k] /\ s = Stock[m][k]
  BY MarketAssumption
<1>2. {"lost", "fails", "crash"} \subseteq Event
  BY DEF Event
<1>3. PICK l \in Nat, f \in Nat, r \in Nat : l = spent["lost"] /\ f = spent["fails"] /\ r = spent["crash"]
  BY <1>2
<1>4. Slack(m, k) = c * (1 + l + f) + (s + c) * r
  BY <1>1, <1>3 DEF Slack
<1>5. spent' = [spent EXCEPT ![e] = @ + 1]
  BY DEF Use
<1>6. spent' \in [Event -> Nat]
  BY <1>5
<1>7. CASE e = "lost"
  <2>1. Slack(m, k)' = c * (1 + (l + 1) + f) + (s + c) * r
    BY <1>1, <1>2, <1>3, <1>5, <1>7 DEF Slack
  <2>2. Extra(e, m, k) = c
    BY <1>1, <1>7 DEF Extra
  <2>3. c * (1 + (l + 1) + f) = c * (1 + l + f) + c
    OBVIOUS
  <2>4. c * (1 + l + f) \in Nat /\ (s + c) * r \in Nat
    OBVIOUS
  <2> QED BY <1>4, <1>6, <2>1, <2>2, <2>3, <2>4
<1>8. CASE e = "fails"
  <2>1. Slack(m, k)' = c * (1 + l + (f + 1)) + (s + c) * r
    BY <1>1, <1>2, <1>3, <1>5, <1>8 DEF Slack
  <2>2. Extra(e, m, k) = c
    BY <1>1, <1>8 DEF Extra
  <2>3. c * (1 + l + (f + 1)) = c * (1 + l + f) + c
    OBVIOUS
  <2>4. c * (1 + l + f) \in Nat /\ (s + c) * r \in Nat
    OBVIOUS
  <2> QED BY <1>4, <1>6, <2>1, <2>2, <2>3, <2>4
<1>9. CASE e = "crash"
  <2>1. Slack(m, k)' = c * (1 + l + f) + (s + c) * (r + 1)
    BY <1>1, <1>2, <1>3, <1>5, <1>9 DEF Slack
  <2>2. Extra(e, m, k) = s + c
    BY <1>1, <1>9 DEF Extra
  <2>3. (s + c) * (r + 1) = (s + c) * r + (s + c)
    OBVIOUS
  <2>4. c * (1 + l + f) \in Nat /\ (s + c) * r \in Nat
    OBVIOUS
  <2> QED BY <1>4, <1>6, <2>1, <2>2, <2>3, <2>4
<1>10. CASE e \notin {"lost", "fails", "crash"}
  <2>1. Slack(m, k)' = c * (1 + l + f) + (s + c) * r
    BY <1>1, <1>2, <1>3, <1>5, <1>10 DEF Slack
  <2>2. Extra(e, m, k) = 0
    BY <1>10 DEF Extra
  <2>3. c * (1 + l + f) \in Nat /\ (s + c) * r \in Nat
    OBVIOUS
  <2> QED BY <1>4, <1>6, <2>1, <2>2, <2>3
<1> QED BY <1>7, <1>8, <1>9, <1>10

LEMMA SlackFree ==
  ASSUME spent \in [Event -> Nat], Free, NEW m \in Maker, NEW k \in Side
  PROVE  Slack(m, k) \in Nat /\ spent' \in [Event -> Nat] /\ Slack(m, k)' = Slack(m, k)
<1>1. PICK c \in Nat, s \in Nat : c = Ceiling[m][k] /\ s = Stock[m][k]
  BY MarketAssumption
<1>2. PICK l \in Nat, f \in Nat, r \in Nat : l = spent["lost"] /\ f = spent["fails"] /\ r = spent["crash"]
  BY DEF Event
<1>3. spent' = spent
  BY DEF Free
<1>4. Slack(m, k) = c * (1 + l + f) + (s + c) * r
  BY <1>1, <1>2 DEF Slack
<1>5. Slack(m, k)' = Slack(m, k)
  BY <1>3 DEF Slack
<1>6. c * (1 + l + f) \in Nat /\ (s + c) * r \in Nat
  OBVIOUS
<1> QED BY <1>3, <1>4, <1>5, <1>6

\* The slack never shrinks.
Grows == \A m \in Maker, k \in Side : Slack(m, k) \in Nat /\ Slack(m, k)' \in Nat /\ Slack(m, k)' >= Slack(m, k)

LEMMA UseGrows ==
  ASSUME CountsOK, NEW e \in Event, Use(e)
  PROVE  Grows /\ spent' \in [Event -> Nat]
<1>1. \A m \in Maker, k \in Side : Ceiling[m][k] \in Nat /\ Stock[m][k] \in Nat
  BY MarketAssumption
<1>2. \A m \in Maker, k \in Side : Extra(e, m, k) \in Nat
  BY <1>1 DEF Extra
<1>3. \A m \in Maker, k \in Side : Slack(m, k) \in Nat /\ Slack(m, k)' = Slack(m, k) + Extra(e, m, k)
  BY SlackUse DEF CountsOK
<1>4. spent' \in [Event -> Nat]
  BY DEF CountsOK, Use
<1> QED BY <1>2, <1>3, <1>4 DEF Grows

LEMMA FreeGrows ==
  ASSUME CountsOK, Free
  PROVE  Grows /\ spent' \in [Event -> Nat]
<1>1. \A m \in Maker, k \in Side : Slack(m, k) \in Nat /\ Slack(m, k)' = Slack(m, k)
  BY SlackFree DEF CountsOK
<1>2. spent' \in [Event -> Nat]
  BY DEF CountsOK, Free
<1> QED BY <1>1, <1>2 DEF Grows

-----------------------------------------------------------------------------
LEMMA Figures ==
  ASSUME MarketInv, NEW m \in Maker, NEW k \in Side
  PROVE  /\ makers[m][k] \in Nat /\ stock[m][k] \in Nat /\ Ceiling[m][k] \in Nat /\ Stock[m][k] \in Nat
         /\ makers[m][k] <= Ceiling[m][k]
         /\ Pending(m, k) \in Nat /\ Pending(m, k) <= Ceiling[m][k]
         /\ Left(m, k) \subseteq Loose(m, k) /\ Loose(m, k) \subseteq Load(m, k)
         /\ Load(m, k) \subseteq Mine(m, k) /\ Locked(m, k) \subseteq Mine(m, k)
         /\ SizesOK(Sizes(swaps), Mine(m, k))
<1>1. makers[m][k] \in Nat /\ makers[m][k] <= Ceiling[m][k]
  BY DEF MarketInv, MakersOK, MakerOK, QuoteRec, Side
<1>2. stock[m][k] \in Nat
  BY DEF MarketInv, CountsOK
<1>3. Ceiling[m][k] \in Nat /\ Stock[m][k] \in Nat
  BY MarketAssumption
<1>4. Pending(m, k) \in Nat /\ Pending(m, k) <= Ceiling[m][k]
  <2>1. CASE bots[m].at = "sized" /\ k \in DOMAIN bots[m].q
    <3>1. bots[m].q \in Quotes(m) /\ bots[m].q[k] <= Ceiling[m][k]
      BY <2>1 DEF MarketInv, BotsOK, BotOK
    <3>2. bots[m].q[k] \in Nat
      BY <2>1, <3>1 DEF Quotes
    <3> QED BY <2>1, <3>1, <3>2 DEF Pending
  <2>2. CASE ~(bots[m].at = "sized" /\ k \in DOMAIN bots[m].q)
    BY <1>3, <2>2 DEF Pending
  <2> QED BY <2>1, <2>2
<1>5. Left(m, k) \subseteq Loose(m, k) /\ Loose(m, k) \subseteq Load(m, k)
      /\ Load(m, k) \subseteq Mine(m, k) /\ Locked(m, k) \subseteq Mine(m, k)
  BY DEF Left, Loose, Load, Locked
<1>6. Mine(m, k) \subseteq {w \in SwapId : Exists(w)}
  BY DEF Mine
<1>7. SizesOK(Sizes(swaps), Mine(m, k))
  BY <1>6, SizesAre DEF MarketInv
<1> QED BY <1>1, <1>2, <1>3, <1>4, <1>5, <1>7

LEMMA FiguresThen ==
  ASSUME MarketInv', NEW m \in Maker, NEW k \in Side
  PROVE  /\ makers'[m][k] \in Nat /\ stock'[m][k] \in Nat
         /\ Pending(m, k)' \in Nat /\ Pending(m, k)' <= Ceiling[m][k]
<1>1. makers'[m][k] \in Nat
  BY DEF MarketInv, MakersOK, MakerOK, QuoteRec, Side
<1>2. stock'[m][k] \in Nat
  BY DEF MarketInv, CountsOK
<1>3. Ceiling[m][k] \in Nat
  BY MarketAssumption
<1>4. Pending(m, k)' \in Nat /\ Pending(m, k)' <= Ceiling[m][k]
  <2>1. CASE bots'[m].at = "sized" /\ k \in DOMAIN bots'[m].q
    <3>1. bots'[m].q \in Quotes(m) /\ bots'[m].q[k] <= Ceiling[m][k]
      BY <2>1 DEF MarketInv, BotsOK, BotOK, Quotes
    <3>2. bots'[m].q[k] \in Nat
      BY <2>1, <3>1 DEF Quotes
    <3> QED BY <2>1, <3>1, <3>2 DEF Pending
  <2>2. CASE ~(bots'[m].at = "sized" /\ k \in DOMAIN bots'[m].q)
    BY <1>3, <2>2 DEF Pending
  <2> QED BY <2>1, <2>2
<1> QED BY <1>1, <1>2, <1>4

LEMMA SizesSub == ASSUME NEW f, NEW B, SizesOK(f, B), NEW A, A \subseteq B PROVE SizesOK(f, A)
BY FS_Subset DEF SizesOK

\* The sizes of swaps stay.
LEMMA SizesStay ==
  ASSUME SwapsOK, Steady, NEW w \in SwapId, Exists(w)
  PROVE  Sizes(swaps')[w] = Sizes(swaps)[w]
<1>1. swaps'[w].size = swaps[w].size /\ DOMAIN swaps' = SwapId /\ DOMAIN swaps = SwapId
  BY DEF SwapsOK, Steady, Moves
<1> QED BY <1>1 DEF Sizes

\* The sizes of m's swaps on side k stay.
SizesKept(m, k) == \A w \in Mine(m, k) : Sizes(swaps')[w] = Sizes(swaps)[w]

LEMMA SteadySizes == ASSUME SwapsOK, Steady, NEW m, NEW k PROVE SizesKept(m, k)
BY SizesStay DEF SizesKept, Mine

LEMMA MineStays == ASSUME Steady, NEW m, NEW k PROVE Mine(m, k)' = Mine(m, k)
BY DEF Steady, Moves, Mine

LEMMA NumbersEase ==
  ASSUME NEW l \in Nat, NEW o \in Nat, NEW d \in Nat, NEW q \in Nat, NEW p \in Nat, NEW h \in Nat, NEW s \in Nat,
         NEW l2 \in Nat, NEW o2 \in Nat, NEW d2 \in Nat, NEW q2 \in Nat, NEW p2 \in Nat, NEW h2 \in Nat, NEW s2 \in Nat,
         NEW c \in Nat, Solvent(l, o, d, q, p, h, s, c),
         l2 <= l, o2 <= o, d2 <= d, q2 <= q, p2 <= p, h2 >= h, s2 >= s
  PROVE  Solvent(l2, o2, d2, q2, p2, h2, s2, c)
BY DEF Solvent

\* What maker m has to pay on side k after a step, when it is in these sets.
LEMMA DebtThen ==
  ASSUME NEW m, NEW k, NEW g, g = Sizes(swaps'), NEW left, NEW loose, NEW load,
         left = Left(m, k)', loose = Loose(m, k)', load = Load(m, k)',
         Solvent(SumFunctionOnSet(g, left), SumFunctionOnSet(g, loose), SumFunctionOnSet(g, load),
                 makers'[m][k], Pending(m, k)', stock'[m][k], Slack(m, k)', Ceiling[m][k])
  PROVE  Debt(m, k)'
BY DEF Debt, SizeOf

LEMMA DebtNow ==
  ASSUME NEW m, NEW k, NEW f, f = Sizes(swaps), Debt(m, k)
  PROVE  Solvent(SumFunctionOnSet(f, Left(m, k)), SumFunctionOnSet(f, Loose(m, k)), SumFunctionOnSet(f, Load(m, k)),
                 makers[m][k], Pending(m, k), stock[m][k], Slack(m, k), Ceiling[m][k])
BY DEF Debt, SizeOf

\* No maker owes more than before: in every part, on every count.
Eased(m, k) ==
  /\ Load(m, k)' \subseteq Load(m, k) /\ Loose(m, k)' \subseteq Loose(m, k) /\ Left(m, k)' \subseteq Left(m, k)
  /\ makers'[m][k] <= makers[m][k] /\ stock'[m][k] >= stock[m][k] /\ Pending(m, k)' <= Pending(m, k)

LEMMA DebtEases ==
  ASSUME MarketInv, MarketInv', Grows, NEW m \in Maker, NEW k \in Side, SizesKept(m, k),
         Debt(m, k), Eased(m, k)
  PROVE  Debt(m, k)'
<1>1. PICK f, g, left, loose, load, left2, loose2, load2 :
        /\ f = Sizes(swaps) /\ g = Sizes(swaps') /\ left = Left(m, k) /\ loose = Loose(m, k) /\ load = Load(m, k)
        /\ left2 = Left(m, k)' /\ loose2 = Loose(m, k)' /\ load2 = Load(m, k)'
  OBVIOUS
<1>2. left \subseteq Mine(m, k) /\ loose \subseteq Mine(m, k) /\ load \subseteq Mine(m, k) /\ SizesOK(f, Mine(m, k))
  BY <1>1, Figures
<1>3. \A w \in Mine(m, k) : g[w] = f[w]
  BY <1>1 DEF SizesKept
<1>4. left2 \subseteq left /\ loose2 \subseteq loose /\ load2 \subseteq load
  BY <1>1 DEF Eased
<1>5. SizesOK(f, left) /\ SizesOK(f, loose) /\ SizesOK(f, load)
  BY <1>2, SizesSub
<1>6. PICK l, o, d, l2, o2, d2 :
        /\ l = SumFunctionOnSet(f, left) /\ o = SumFunctionOnSet(f, loose) /\ d = SumFunctionOnSet(f, load)
        /\ l2 = SumFunctionOnSet(g, left2) /\ o2 = SumFunctionOnSet(g, loose2) /\ d2 = SumFunctionOnSet(g, load2)
  OBVIOUS
<1>7. l \in Nat /\ l2 \in Nat /\ l2 <= l
  BY <1>2, <1>3, <1>4, <1>5, <1>6, SizeLess
<1>8. o \in Nat /\ o2 \in Nat /\ o2 <= o
  BY <1>2, <1>3, <1>4, <1>5, <1>6, SizeLess
<1>9. d \in Nat /\ d2 \in Nat /\ d2 <= d
  BY <1>2, <1>3, <1>4, <1>5, <1>6, SizeLess
<1>10. Solvent(l, o, d, makers[m][k], Pending(m, k), stock[m][k], Slack(m, k), Ceiling[m][k])
  BY <1>1, <1>6, DebtNow
<1>11. PICK q, p, h, s, q2, p2, h2, s2, c :
         /\ q = makers[m][k] /\ p = Pending(m, k) /\ h = stock[m][k] /\ s = Slack(m, k) /\ c = Ceiling[m][k]
         /\ q2 = makers'[m][k] /\ p2 = Pending(m, k)' /\ h2 = stock'[m][k] /\ s2 = Slack(m, k)'
  OBVIOUS
<1>12. q \in Nat /\ p \in Nat /\ h \in Nat /\ s \in Nat /\ c \in Nat
  BY <1>11, Figures DEF Grows
<1>13. q2 \in Nat /\ p2 \in Nat /\ h2 \in Nat /\ s2 \in Nat
  BY <1>11, FiguresThen DEF Grows
<1>14. q2 <= q /\ p2 <= p /\ h2 >= h /\ s2 >= s
  BY <1>11 DEF Eased, Grows
<1>15. Solvent(l, o, d, q, p, h, s, c)
  BY <1>10, <1>11
<1>16. Solvent(l2, o2, d2, q2, p2, h2, s2, c)
  BY <1>7, <1>8, <1>9, <1>12, <1>13, <1>14, <1>15, NumbersEase
<1> QED BY <1>1, <1>6, <1>11, <1>16, DebtThen

\* What is paid and may come back does not grow.
LEMMA BackingStays ==
  ASSUME MarketInv, MarketInv', NEW m \in Maker, NEW k \in Side, SizesKept(m, k), Backed(m, k),
         Locked(m, k)' \subseteq Locked(m, k), stock'[m][k] = stock[m][k]
  PROVE  Backed(m, k)'
<1>1. PICK f, g, A, B : f = Sizes(swaps) /\ g = Sizes(swaps') /\ A = Locked(m, k)' /\ B = Locked(m, k)
  OBVIOUS
<1>2. B \subseteq Mine(m, k) /\ SizesOK(f, Mine(m, k))
  BY <1>1, Figures
<1>3. \A w \in Mine(m, k) : g[w] = f[w]
  BY <1>1 DEF SizesKept
<1>4. SizesOK(f, B)
  BY <1>2, SizesSub
<1>5. SumFunctionOnSet(f, B) \in Nat /\ SumFunctionOnSet(g, A) \in Nat /\ SumFunctionOnSet(g, A) <= SumFunctionOnSet(f, B)
  BY <1>1, <1>2, <1>3, <1>4, SizeLess
<1>6. stock[m][k] \in Nat /\ Stock[m][k] \in Nat
  BY Figures
<1>7. stock[m][k] + SumFunctionOnSet(f, B) <= Stock[m][k]
  BY <1>1 DEF Backed, SizeOf
<1>8. stock'[m][k] + SumFunctionOnSet(g, A) <= Stock[m][k]
  BY <1>5, <1>6, <1>7
<1> QED BY <1>1, <1>8 DEF Backed, SizeOf

\* A step that, of m's swaps, joins and pays none it did not handle or pay, and
\* leaves m's bot and queue at most where they were.
Calm(m, k) ==
  \A w \in Mine(m, k) :
    /\ swaps'[w].joined => swaps[w].joined \/ w \in bots[m].handling
    /\ swaps'[w].paid => swaps[w].paid
    /\ w \in bots'[m].handling => w \in bots[m].handling
    /\ Open(w)' /\ w \in bots[m].inflight => w \in bots'[m].inflight
    /\ w \in makers'[m].matches => w \in makers[m].matches

LEMMA CalmSets ==
  ASSUME Steady, NEW m \in Maker, NEW k \in Side, Calm(m, k)
  PROVE  /\ Load(m, k)' \subseteq Load(m, k) /\ Loose(m, k)' \subseteq Loose(m, k) /\ Left(m, k)' \subseteq Left(m, k)
         /\ Locked(m, k)' \subseteq Locked(m, k)
<1>1. Mine(m, k)' = Mine(m, k)
  BY MineStays
<1>2. ASSUME NEW w \in Mine(m, k)
      PROVE  /\ swaps'[w].joined => swaps[w].joined \/ w \in bots[m].handling
             /\ swaps'[w].paid <=> swaps[w].paid
             /\ w \in bots'[m].handling => w \in bots[m].handling
             /\ Open(w)' /\ w \in bots[m].inflight => w \in bots'[m].inflight
             /\ w \in makers'[m].matches => w \in makers[m].matches
             /\ Open(w)' => Open(w)
  BY <1>1, <1>2 DEF Calm, Steady, Moves, Mine
<1>3. Load(m, k)' \subseteq Load(m, k)
  BY <1>1, <1>2 DEF Load
<1>4. Loose(m, k)' \subseteq Loose(m, k)
  BY <1>1, <1>2, <1>3 DEF Loose, Load
<1>5. Left(m, k)' \subseteq Left(m, k)
  BY <1>1, <1>2, <1>4 DEF Left, Loose, Load
<1>6. Locked(m, k)' \subseteq Locked(m, k)
  BY <1>1, <1>2 DEF Locked
<1> QED BY <1>3, <1>4, <1>5, <1>6

\* For a maker to whom only this happens, nothing gets worse.
LEMMA CalmKeeps ==
  ASSUME MarketInv, MarketInv', Steady, Grows, NEW m \in Maker, NEW k \in Side, Debt(m, k), Backed(m, k), Calm(m, k),
         makers'[m][k] <= makers[m][k], stock'[m][k] = stock[m][k], Pending(m, k)' <= Pending(m, k)
  PROVE  Debt(m, k)' /\ Backed(m, k)'
<1>1. stock[m][k] \in Nat
  BY Figures
<1>2. Eased(m, k)
  BY <1>1, CalmSets DEF Eased
<1>3. Debt(m, k)'
  BY <1>2, DebtEases, SteadySizes DEF MarketInv
<1>4. Backed(m, k)'
  BY CalmSets, BackingStays, SteadySizes DEF MarketInv
<1> QED BY <1>3, <1>4

-----------------------------------------------------------------------------
\* What becomes of the bots.

LEMMA BotsStay ==
  ASSUME BotsOK, UNCHANGED bots, \A m \in Maker : Owned(m) \subseteq Owned(m)'
  PROVE  BotsOK'
<1>1. \A m \in Maker : BotOK(m)'
  BY DEF BotsOK, BotOK, Quotes
<1> QED BY <1>1 DEF BotsOK

\* One bot goes on.
LEMMA BotSteps ==
  ASSUME BotsOK, Steady, NEW m \in Maker, NEW rec, Step(m, rec),
         rec \in [at : {"idle", "sized", "paused"}, q : Quotes(m) \cup {<<>>},
                  handling : SUBSET SwapId, inflight : SUBSET SwapId],
         rec.inflight \subseteq rec.handling, rec.handling \subseteq Owned(m),
         rec.at = "sized" => rec.q \in Quotes(m) /\ \A k \in DOMAIN rec.q : rec.q[k] <= Ceiling[m][k]
  PROVE  BotsOK' /\ bots'[m] = rec /\ \A o \in Maker \ {m} : bots'[o] = bots[o]
<1>1. DOMAIN bots' = Maker /\ bots'[m] = rec /\ \A o \in Maker \ {m} : bots'[o] = bots[o]
  BY DEF Step, BotsOK
<1>2. \A o \in Maker : Owned(o)' = Owned(o)
  BY OwnedStays
<1>3. BotOK(m)'
  BY <1>1, <1>2 DEF BotOK, Quotes
<1>4. ASSUME NEW o \in Maker \ {m}
      PROVE  BotOK(o)'
  <2>1. BotOK(o) /\ bots'[o] = bots[o] /\ Owned(o)' = Owned(o)
    BY <1>1, <1>2 DEF BotsOK
  <2> QED BY <2>1 DEF BotOK, Quotes
<1> QED BY <1>1, <1>3, <1>4 DEF BotsOK

\* Nothing of maker m's on side k moves but the fates of its swaps.
Idle(m, k) ==
  /\ bots'[m] = bots[m] /\ stock'[m][k] = stock[m][k]
  /\ makers'[m].matches \subseteq makers[m].matches /\ makers'[m][k] <= makers[m][k]
  /\ \A w \in Mine(m, k) : /\ swaps'[w].joined => swaps[w].joined \/ w \in bots[m].handling
                           /\ swaps'[w].paid => swaps[w].paid

LEMMA IdleKeeps ==
  ASSUME MarketInv, MarketInv', Steady, Grows, NEW m \in Maker, NEW k \in Side,
         Debt(m, k), Backed(m, k), Idle(m, k)
  PROVE  Debt(m, k)' /\ Backed(m, k)'
<1>1. Calm(m, k)
  BY DEF Idle, Calm
<1>2. Pending(m, k)' = Pending(m, k)
  BY DEF Pending, Idle
<1>3. Pending(m, k) \in Nat
  BY Figures
<1>4. Pending(m, k)' <= Pending(m, k)
  BY <1>2, <1>3
<1> QED BY <1>1, <1>4, CalmKeeps DEF Idle

\* The new invariant's shape part, from its pieces.
LEMMA ShapeThen ==
  ASSUME MarketInv, Steady, MakersOK', BotsOK', stock' \in [Maker -> [Side -> Nat]], spent' \in [Event -> Nat]
  PROVE  MarketInv'
BY SteadySwapsOK DEF MarketInv, CountsOK

\* A bot's record, in the terms of its fields.
LEMMA BotIs ==
  ASSUME BotsOK, NEW m \in Maker
  PROVE  /\ bots[m] \in [at : {"idle", "sized", "paused"}, q : Quotes(m) \cup {<<>>},
                         handling : SUBSET SwapId, inflight : SUBSET SwapId]
         /\ bots[m].inflight \subseteq bots[m].handling /\ bots[m].handling \subseteq Owned(m)
         /\ bots[m].at = "sized" =>
              bots[m].q \in Quotes(m) /\ \A k \in DOMAIN bots[m].q : bots[m].q[k] <= Ceiling[m][k]
BY DEF BotsOK, BotOK
-----------------------------------------------------------------------------
\* Steps in which every maker is idle.
LEMMA AllIdle ==
  ASSUME BooksInv, Steady, MakersOK', Grows, spent' \in [Event -> Nat], UNCHANGED <<stock, bots>>,
         \A m \in Maker, k \in Side : Idle(m, k)
  PROVE  BooksInv'
<1>1. MarketInv /\ Maker = Maker
  BY DEF BooksInv
<1>2. BotsOK'
  BY <1>1, BotsStay, OwnedStays DEF MarketInv
<1>3. MarketInv'
  BY <1>1, <1>2, ShapeThen DEF MarketInv, CountsOK
<1>4. \A m \in Maker, k \in Side : Debt(m, k)' /\ Backed(m, k)'
  BY <1>1, <1>3, IdleKeeps DEF BooksInv
<1> QED BY <1>3, <1>4 DEF BooksInv

LEMMA QuotesLeq ==
  ASSUME MakersOK, NEW m \in Maker, NEW k \in Side
  PROVE  makers[m][k] \in Nat /\ makers[m][k] <= makers[m][k]
<1>1. makers[m][k] \in Nat
  BY DEF MakersOK, MakerOK, QuoteRec, Side
<1> QED BY <1>1

\* The coordinator's own steps, and time.
LEMMA QueueSteps ==
  ASSUME BooksInv, Grows, spent' \in [Event -> Nat], UNCHANGED <<stock, bots>>,
         rfqStatus \/ RestartRfq \/ TimePasses \/ UNCHANGED rfqVars
  PROVE  BooksInv'
<1>1. SwapsOK /\ MakersOK
  BY DEF BooksInv, MarketInv
<1>2. \A m \in Maker, k \in Side : makers[m][k] \in Nat /\ makers[m][k] <= makers[m][k]
  BY <1>1, QuotesLeq
<1>3. /\ Steady /\ MakersOK'
      /\ \A m \in Maker : /\ makers'[m].matches \subseteq makers[m].matches
                          /\ \A k \in Side : makers'[m][k] <= makers[m][k]
      /\ \A w \in SwapId : Exists(w) => swaps'[w].joined = swaps[w].joined /\ swaps'[w].paid = swaps[w].paid
  <2>1. CASE rfqStatus
    <3>1. UNCHANGED swaps
      BY <2>1 DEF rfqStatus
    <3> QED BY <1>1, <1>2, <2>1, <3>1, StatusMakers
  <2>2. CASE RestartRfq
    <3>1. UNCHANGED swaps
      BY <2>2 DEF RestartRfq
    <3> QED BY <1>1, <2>2, <3>1, RestartMakers
  <2>3. CASE TimePasses
    BY <1>1, <1>2, <2>3, TimeMakers, TimeSteady
  <2>4. CASE UNCHANGED rfqVars
    <3>1. UNCHANGED swaps /\ UNCHANGED makers
      BY <2>4 DEF rfqVars
    <3>2. Steady /\ MakersOK'
      BY <1>1, <3>1, SameSteady, SameMakersOK
    <3> QED BY <1>2, <3>1, <3>2
  <2> QED BY <2>1, <2>2, <2>3, <2>4
<1>4. \A m \in Maker, k \in Side : Idle(m, k)
  BY <1>3 DEF Idle, Mine
<1> QED BY <1>3, <1>4, AllIdle

\* The steps of a swap, but for the maker's payment.
LEMMA FateSteps ==
  ASSUME BooksInv, Grows, spent' \in [Event -> Nat], UNCHANGED <<stock, bots>>, NEW w \in SwapId,
         \/ TakerReady(w) \/ IsCanceled(w) \/ IsRefunded(w) \/ IsComplete(w)
         \/ MakerJoins(w) /\ \E m \in Maker : w \in bots[m].handling
  PROVE  BooksInv'
<1>1. SwapsOK /\ MakersOK /\ BotsOK
  BY DEF BooksInv, MarketInv
<1>2. \A m \in Maker, k \in Side : makers[m][k] \in Nat /\ makers[m][k] <= makers[m][k]
  BY <1>1, QuotesLeq
<1>3. CASE TakerReady(w) \/ IsCanceled(w) \/ IsRefunded(w) \/ IsComplete(w)
  <2>1. /\ OnlyMoves(w) /\ (swaps'[w].paid <=> swaps[w].paid)
        /\ (swaps'[w].joined <=> swaps[w].joined)
    BY <1>1, <1>3, FateIs
  <2>2. Steady /\ UNCHANGED makers /\ \A v \in SwapId : (swaps'[v].paid <=> swaps[v].paid) /\ (swaps'[v].joined <=> swaps[v].joined)
    BY <2>1 DEF OnlyMoves
  <2>3. \A m \in Maker, k \in Side : Idle(m, k)
    BY <1>2, <2>2 DEF Idle, Mine
  <2>4. MakersOK'
    BY <1>1, <2>2, SameMakersOK
  <2> QED BY <2>2, <2>3, <2>4, AllIdle
<1>4. ASSUME MakerJoins(w), NEW o \in Maker, w \in bots[o].handling
      PROVE  BooksInv'
  <2>1. OnlyMoves(w) /\ (swaps'[w].paid <=> swaps[w].paid)
    BY <1>1, <1>4, JoinIs
  <2>2. Steady /\ UNCHANGED makers /\ \A v \in SwapId \ {w} : swaps'[v] = swaps[v]
    BY <2>1 DEF OnlyMoves
  <2>3. swaps[w].maker = o
    BY <1>1, <1>4, BotIs DEF Owned
  <2>4. ASSUME NEW m \in Maker, NEW k \in Side
        PROVE  Idle(m, k)
    <3>1. \A v \in Mine(m, k) : /\ swaps'[v].joined => swaps[v].joined \/ v \in bots[m].handling
                                /\ swaps'[v].paid => swaps[v].paid
      BY <1>4, <2>1, <2>2, <2>3 DEF Mine
    <3>2. /\ bots'[m] = bots[m] /\ stock'[m][k] = stock[m][k]
          /\ makers'[m].matches \subseteq makers[m].matches /\ makers'[m][k] <= makers[m][k]
      BY <1>2, <2>2
    <3> QED BY <3>1, <3>2 DEF Idle
  <2>5. MakersOK'
    BY <1>1, <2>2, SameMakersOK
  <2> QED BY <2>2, <2>4, <2>5, AllIdle
<1> QED BY <1>3, <1>4

-----------------------------------------------------------------------------
\* The sums a maker's books are kept in, as numbers: before a step ...
BooksNow(m, k, f, l, o, d, e) ==
  /\ f = Sizes(swaps)
  /\ SizesOK(f, Load(m, k)) /\ SizesOK(f, Loose(m, k)) /\ SizesOK(f, Left(m, k)) /\ SizesOK(f, Locked(m, k))
  /\ l = SumFunctionOnSet(f, Left(m, k)) /\ o = SumFunctionOnSet(f, Loose(m, k))
  /\ d = SumFunctionOnSet(f, Load(m, k)) /\ e = SumFunctionOnSet(f, Locked(m, k))

LEMMA BooksOpen ==
  ASSUME MarketInv, NEW m \in Maker, NEW k \in Side, Debt(m, k), Backed(m, k), Slack(m, k) \in Nat
  PROVE  \E l, o, d, e, q, p, h, s, c, b \in Nat :
           /\ BooksNow(m, k, Sizes(swaps), l, o, d, e) /\ Solvent(l, o, d, q, p, h, s, c) /\ h + e <= b
           /\ q = makers[m][k] /\ p = Pending(m, k) /\ h = stock[m][k] /\ s = Slack(m, k)
           /\ c = Ceiling[m][k] /\ b = Stock[m][k] /\ q <= c /\ p <= c
<1>1. PICK f, l, o, d, e : /\ f = Sizes(swaps)
                           /\ l = SumFunctionOnSet(f, Left(m, k)) /\ o = SumFunctionOnSet(f, Loose(m, k))
                           /\ d = SumFunctionOnSet(f, Load(m, k)) /\ e = SumFunctionOnSet(f, Locked(m, k))
  OBVIOUS
<1>2. /\ Left(m, k) \subseteq Mine(m, k) /\ Loose(m, k) \subseteq Mine(m, k) /\ Load(m, k) \subseteq Mine(m, k)
      /\ Locked(m, k) \subseteq Mine(m, k) /\ SizesOK(f, Mine(m, k))
  BY <1>1, Figures
<1>3. SizesOK(f, Load(m, k)) /\ SizesOK(f, Loose(m, k)) /\ SizesOK(f, Left(m, k)) /\ SizesOK(f, Locked(m, k))
  BY <1>2, SizesSub
<1>4. l \in Nat /\ o \in Nat /\ d \in Nat /\ e \in Nat
  BY <1>1, <1>3, SizeNat
<1>5. BooksNow(m, k, Sizes(swaps), l, o, d, e)
  BY <1>1, <1>3 DEF BooksNow
<1>6. PICK q, p, h, s, c, b : /\ q = makers[m][k] /\ p = Pending(m, k) /\ h = stock[m][k] /\ s = Slack(m, k)
                              /\ c = Ceiling[m][k] /\ b = Stock[m][k]
  OBVIOUS
<1>7. q \in Nat /\ p \in Nat /\ h \in Nat /\ s \in Nat /\ c \in Nat /\ b \in Nat /\ q <= c /\ p <= c
  BY <1>6, Figures
<1>8. Solvent(l, o, d, q, p, h, s, c)
  BY <1>1, <1>6, DebtNow
<1>9. h + e <= b
  BY <1>1, <1>6 DEF Backed, SizeOf
<1> QED BY <1>4, <1>5, <1>6, <1>7, <1>8, <1>9

\* ... and after it.
LEMMA BackedThen ==
  ASSUME NEW m, NEW k, NEW g, g = Sizes(swaps'), NEW locked, locked = Locked(m, k)',
         stock'[m][k] + SumFunctionOnSet(g, locked) <= Stock[m][k]
  PROVE  Backed(m, k)'
BY DEF Backed, SizeOf

\* How sets of m's swaps on side k add up before and after a steady step.
LEMMA SumsFall ==
  ASSUME SwapsOK, Steady, NEW f, f = Sizes(swaps), NEW g, g = Sizes(swaps'), NEW m, NEW k,
         NEW B, B \subseteq Mine(m, k), SizesOK(f, B), NEW A, A \subseteq B
  PROVE  SumFunctionOnSet(g, A) \in Nat /\ SumFunctionOnSet(g, A) <= SumFunctionOnSet(f, B)
<1>1. \A w \in A : g[w] = f[w]
  BY SteadySizes DEF SizesKept
<1> QED BY <1>1, SizeLess
-----------------------------------------------------------------------------
\* The bot reads its balance: what it is about to quote is covered.
LEMMA BalanceRead ==
  ASSUME BooksInv, NEW m \in Maker, ReadBalance(m)
  PROVE  BooksInv'
<1>1. MarketInv /\ BotsOK /\ SwapsOK /\ CountsOK
  BY DEF BooksInv, MarketInv
<1>2. UNCHANGED <<swaps, makers, stock>> /\ Free /\ Steady
  BY <1>1, SameSteady DEF ReadBalance, rfqVars
<1>3. Grows /\ spent' \in [Event -> Nat]
  BY <1>1, <1>2, FreeGrows
<1>4. PICK quote, rec : /\ quote = [k \in {k \in Side : Ceiling[m][k] > 0} |-> sizeQuote(m, k)]
                        /\ rec = [bots[m] EXCEPT !.at = "sized", !.q = quote] /\ Step(m, rec)
  BY DEF ReadBalance
<1>5. ASSUME NEW k \in Side
      PROVE  /\ \E held \in Nat : /\ held = SizeOf(bots[m].inflight \cap Mine(m, k))
                                  /\ sizeQuote(m, k) = 0 \/ sizeQuote(m, k) + held <= stock[m][k]
             /\ sizeQuote(m, k) \in Nat /\ sizeQuote(m, k) <= Ceiling[m][k]
  <2>1. PICK c \in Nat, h \in Nat : c = Ceiling[m][k] /\ h = stock[m][k]
    BY <1>1, Figures
  <2>2. PICK held : held = SizeOf(bots[m].inflight \cap Mine(m, k))
    OBVIOUS
  <2>3. held \in Nat
    <3>1. SizesOK(Sizes(swaps), bots[m].inflight \cap Mine(m, k))
      BY <1>1, Figures, SizesSub
    <3> QED BY <2>2, <3>1, SizeNat DEF SizeOf
  <2>4. PICK rest : rest = IF 0 >= h - held THEN 0 ELSE h - held
    OBVIOUS
  <2>5. Max({0, h - held}) = rest /\ rest \in Nat
    <3>1. PICK x \in Int : x = h - held
      BY <2>3
    <3>2. Max({0, x}) = IF 0 >= x THEN 0 ELSE x
      BY MaxOfTwo
    <3> QED BY <2>3, <2>4, <3>1, <3>2
  <2>6. sizeQuote(m, k) = Min({c, rest})
    BY <2>1, <2>2, <2>5 DEF sizeQuote
  <2>7. Min({c, rest}) = IF c <= rest THEN c ELSE rest
    BY <2>5, MinOfTwo
  <2>8. PICK z : z = sizeQuote(m, k)
    OBVIOUS
  <2>9. z \in Nat /\ z <= c /\ (z = 0 \/ z + held <= h)
    BY <2>3, <2>4, <2>5, <2>6, <2>7, <2>8
  <2> QED BY <2>1, <2>2, <2>3, <2>8, <2>9
<1>6. /\ rec \in [at : {"idle", "sized", "paused"}, q : Quotes(m) \cup {<<>>},
                  handling : SUBSET SwapId, inflight : SUBSET SwapId]
      /\ rec.inflight = bots[m].inflight /\ rec.handling = bots[m].handling /\ rec.at = "sized" /\ rec.q = quote
  <2>1. quote \in Quotes(m)
    BY <1>4, <1>5 DEF Quotes
  <2>2. PICK r : r = bots[m] /\ r \in [at : {"idle", "sized", "paused"}, q : Quotes(m) \cup {<<>>},
                  handling : SUBSET SwapId, inflight : SUBSET SwapId]
    BY <1>1, BotIs
  <2>3. rec = [r EXCEPT !.at = "sized", !.q = quote]
    BY <1>4, <2>2
  <2> QED BY <2>1, <2>2, <2>3
<1>7. BotsOK' /\ bots'[m] = rec /\ \A o \in Maker \ {m} : bots'[o] = bots[o]
  <2>1. rec.inflight \subseteq rec.handling /\ rec.handling \subseteq Owned(m)
    BY <1>1, <1>6, BotIs
  <2>2. rec.q \in Quotes(m) /\ \A k \in DOMAIN rec.q : rec.q[k] <= Ceiling[m][k]
    BY <1>4, <1>5, <1>6 DEF Quotes
  <2> QED BY <1>1, <1>2, <1>4, <1>6, <2>1, <2>2, BotSteps
<1>8. MarketInv'
  <2>1. MakersOK'
    BY <1>1, <1>2, SameMakersOK DEF MarketInv
  <2>2. stock' \in [Maker -> [Side -> Nat]]
    BY <1>1, <1>2 DEF CountsOK
  <2> QED BY <1>1, <1>2, <1>3, <1>7, <2>1, <2>2, ShapeThen
<1>9. ASSUME NEW o \in Maker \ {m}, NEW k \in Side
      PROVE  Debt(o, k)' /\ Backed(o, k)'
  <2>1. makers[o][k] \in Nat
    BY <1>1, Figures
  <2>2. Idle(o, k)
    BY <1>2, <1>7, <2>1 DEF Idle
  <2> QED BY <1>1, <1>2, <1>3, <1>8, <2>2, IdleKeeps DEF BooksInv
<1>10. ASSUME NEW k \in Side
       PROVE  Debt(m, k)' /\ Backed(m, k)'
  <2>1. PICK l, o, d, e, q, p, h, s, c, b \in Nat :
           /\ BooksNow(m, k, Sizes(swaps), l, o, d, e) /\ Solvent(l, o, d, q, p, h, s, c) /\ h + e <= b
           /\ q = makers[m][k] /\ p = Pending(m, k) /\ h = stock[m][k] /\ s = Slack(m, k)
           /\ c = Ceiling[m][k] /\ b = Stock[m][k] /\ q <= c /\ p <= c
    BY <1>1, <1>3, BooksOpen, ZenonT(60) DEF BooksInv, Grows
  <2>2. PICK held \in Nat, z \in Nat :
           held = SizeOf(bots[m].inflight \cap Mine(m, k)) /\ z = sizeQuote(m, k) /\ (z = 0 \/ z + held <= h)
    BY <1>5, <2>1
  <2>3. d <= o + held
    <3>1. PICK f, A, B, C : /\ f = Sizes(swaps) /\ A = Loose(m, k) /\ B = bots[m].inflight \cap Mine(m, k)
                            /\ C = Load(m, k)
      OBVIOUS
    <3>2. SizesOK(f, A) /\ SizesOK(f, B)
      <4>1. SizesOK(f, Mine(m, k))
        BY <1>1, <3>1, Figures
      <4> QED BY <2>1, <3>1, <4>1, SizesSub DEF BooksNow
    <3>3. C \subseteq A \cup B
      BY <3>1 DEF Load, Loose
    <3>4. SumFunctionOnSet(f, C) <= SumFunctionOnSet(f, A) + SumFunctionOnSet(f, B)
      BY <3>2, <3>3, SizeSplit
    <3> QED BY <2>1, <2>2, <3>1, <3>4 DEF BooksNow, SizeOf
  <2>4. PICK p2 : p2 = Pending(m, k)'
    OBVIOUS
  <2>5. p2 = 0 \/ p2 = z
    <3>1. p2 = IF bots'[m].at = "sized" /\ k \in DOMAIN bots'[m].q THEN bots'[m].q[k] ELSE 0
      BY <2>4 DEF Pending
    <3>2. bots'[m].q = quote
      BY <1>6, <1>7
    <3>3. k \in DOMAIN quote => quote[k] = z
      BY <1>4, <2>2
    <3> QED BY <3>1, <3>2, <3>3
  <2>6. Solvent(l, o, d, q, p2, h, s, c)
    BY <2>1, <2>2, <2>3, <2>5 DEF Solvent
  <2>7. Left(m, k)' = Left(m, k) /\ Loose(m, k)' = Loose(m, k) /\ Load(m, k)' = Load(m, k) /\ Locked(m, k)' = Locked(m, k)
    BY <1>2, <1>6, <1>7 DEF Left, Loose, Load, Locked, Mine, Open, Exists
  <2>8. Slack(m, k)' = s /\ makers'[m][k] = q /\ stock'[m][k] = h /\ Sizes(swaps') = Sizes(swaps)
    BY <1>1, <1>2, <2>1, SlackFree DEF CountsOK
  <2>9. PICK g : g = Sizes(swaps')
    OBVIOUS
  <2>10. /\ l = SumFunctionOnSet(g, Left(m, k)') /\ o = SumFunctionOnSet(g, Loose(m, k)')
         /\ d = SumFunctionOnSet(g, Load(m, k)')
    BY <2>1, <2>7, <2>8, <2>9 DEF BooksNow
  <2>11. Debt(m, k)'
    BY <2>1, <2>4, <2>6, <2>8, <2>9, <2>10, DebtThen
  <2>12. Backed(m, k)'
    BY <2>1, <2>7, <2>8, <2>9, BackedThen DEF BooksNow
  <2> QED BY <2>11, <2>12
<1> QED BY <1>8, <1>9, <1>10 DEF BooksInv

\* A ping restates the quote; what is handed out is reserved for, unless the
\* answer is lost.
LEMMA Pinged ==
  ASSUME BooksInv, NEW m \in Maker, NEW lost \in BOOLEAN, Ping(m, lost)
  PROVE  BooksInv'
<1>1. MarketInv /\ BotsOK /\ SwapsOK /\ CountsOK /\ MakersOK
  BY DEF BooksInv, MarketInv
<1>2. PICK quote, hold, flight : quote = bots[m].q /\ hold = bots[m].handling /\ flight = bots[m].inflight
  OBVIOUS
<1>3. bots[m].at = "sized" /\ PingRoute(m, quote) /\ UNCHANGED stock
  BY <1>2 DEF Ping
<1>4. /\ hold \in SUBSET SwapId /\ flight \in SUBSET SwapId /\ flight \subseteq hold /\ hold \subseteq Owned(m)
      /\ quote \in Quotes(m) /\ \A k \in DOMAIN quote : quote[k] <= Ceiling[m][k]
  BY <1>1, <1>2, <1>3, BotIs
<1>5. /\ Steady /\ UNCHANGED swaps /\ MakersOK'
      /\ \A o \in Maker \ {m} : makers'[o] = makers[o]
      /\ makers'[m].matches = Kept(m)
      /\ \A k \in Side : makers'[m][k] = IF k \in DOMAIN quote THEN quote[k] ELSE makers[m][k]
  BY <1>1, <1>3, <1>4, PingMakers
<1>6. PICK new : new = Awaiting(m) \ hold
  OBVIOUS
<1>7. Kept(m) \subseteq makers[m].matches /\ makers[m].matches \subseteq Owned(m) /\ Awaiting(m) \subseteq Kept(m)
      /\ \A w \in Awaiting(m) : ~swaps[w].joined /\ ~swaps[w].paid
  <2>1. makers[m].matches \subseteq Owned(m)
    BY <1>1 DEF MakersOK, MakerOK
  <2>2. Kept(m) \subseteq makers[m].matches /\ Awaiting(m) \subseteq Kept(m)
    BY KeptIsQueued DEF Awaiting
  <2>3. \A w \in Awaiting(m) : ~swaps[w].joined /\ w \in Owned(m)
    BY <2>1, <2>2 DEF Awaiting
  <2> QED BY <1>1, <2>1, <2>2, <2>3 DEF Owned, SwapsOK, SwapOK
<1>8. new \subseteq Owned(m) /\ Owned(m) \subseteq SwapId
  BY <1>6, <1>7 DEF Owned
<1>9. PICK rec : /\ rec.at = "idle" /\ Step(m, rec)
                 /\ rec \in [at : {"idle", "sized", "paused"}, q : Quotes(m) \cup {<<>>},
                             handling : SUBSET SwapId, inflight : SUBSET SwapId]
                 /\ \/ lost /\ Use("lost") /\ rec.handling = hold /\ rec.inflight = flight
                    \/ ~lost /\ Free /\ rec.handling = hold \cup new /\ rec.inflight = flight \cup new
  <2>1. CASE lost
    <3>1. Use("lost") /\ Step(m, [bots[m] EXCEPT !.at = "idle", !.q = <<>>])
      BY <2>1 DEF Ping
    <3>2. PICK r, rec : /\ r = bots[m] /\ rec = [r EXCEPT !.at = "idle", !.q = <<>>]
                        /\ r \in [at : {"idle", "sized", "paused"}, q : Quotes(m) \cup {<<>>},
                                  handling : SUBSET SwapId, inflight : SUBSET SwapId]
      BY <1>1, BotIs
    <3>3. /\ rec \in [at : {"idle", "sized", "paused"}, q : Quotes(m) \cup {<<>>},
                      handling : SUBSET SwapId, inflight : SUBSET SwapId]
          /\ rec.at = "idle" /\ rec.handling = r.handling /\ rec.inflight = r.inflight
      BY <3>2
    <3> QED BY <1>2, <2>1, <3>1, <3>2, <3>3
  <2>2. CASE ~lost
    <3>1. PICK rec : rec = [at |-> "idle", q |-> <<>>, handling |-> hold \cup new, inflight |-> flight \cup new]
      OBVIOUS
    <3>2. Free /\ Step(m, rec)
      BY <1>2, <1>6, <2>2, <3>1 DEF Ping
    <3> QED BY <1>4, <1>8, <2>2, <3>1, <3>2
  <2> QED BY <2>1, <2>2
<1>10. BotsOK' /\ bots'[m] = rec /\ \A o \in Maker \ {m} : bots'[o] = bots[o]
  <2>1. rec.inflight \subseteq rec.handling /\ rec.handling \subseteq Owned(m) /\ rec.at # "sized"
    BY <1>4, <1>8, <1>9
  <2> QED BY <1>1, <1>5, <1>9, <2>1, BotSteps
<1>11. Grows /\ spent' \in [Event -> Nat]
  <2>1. "lost" \in Event
    BY DEF Event
  <2> QED BY <1>1, <1>9, <2>1, UseGrows, FreeGrows
<1>12. MarketInv'
  <2>1. stock' \in [Maker -> [Side -> Nat]]
    BY <1>1, <1>3 DEF CountsOK
  <2> QED BY <1>1, <1>5, <1>10, <1>11, <2>1, ShapeThen
<1>13. ASSUME NEW o \in Maker \ {m}, NEW k \in Side
       PROVE  Debt(o, k)' /\ Backed(o, k)'
  <2>1. makers[o][k] \in Nat
    BY <1>1, Figures
  <2>2. Idle(o, k)
    BY <1>3, <1>5, <1>10, <2>1 DEF Idle
  <2> QED BY <1>1, <1>5, <1>11, <1>12, <2>2, IdleKeeps DEF BooksInv
<1>14. ASSUME NEW k \in Side
       PROVE  Debt(m, k)' /\ Backed(m, k)'
  <2>1. PICK l, o, d, e, q, p, h, s, c, b \in Nat :
           /\ BooksNow(m, k, Sizes(swaps), l, o, d, e) /\ Solvent(l, o, d, q, p, h, s, c) /\ h + e <= b
           /\ q = makers[m][k] /\ p = Pending(m, k) /\ h = stock[m][k] /\ s = Slack(m, k)
           /\ c = Ceiling[m][k] /\ b = Stock[m][k] /\ q <= c /\ p <= c
    BY <1>1, <1>11, BooksOpen, ZenonT(60) DEF BooksInv, Grows
  <2>2. Mine(m, k)' = Mine(m, k) /\ \A w \in Mine(m, k) : w \in SwapId /\ Exists(w)
    BY <1>5, MineStays DEF Mine
  <2>3. \A w \in Mine(m, k) : /\ swaps'[w] = swaps[w] /\ (Open(w)' <=> Open(w))
                              /\ w \in makers'[m].matches => w \in makers[m].matches
                              /\ w \in Kept(m) <=> w \in makers'[m].matches
                              /\ w \in new <=> w \in Kept(m) /\ ~swaps[w].joined /\ w \notin hold
    BY <1>5, <1>6, <1>7 DEF Open, Awaiting
  <2>4. Locked(m, k)' \subseteq Locked(m, k) /\ Load(m, k)' \subseteq Load(m, k)
    <3>1. bots'[m].handling \subseteq hold \cup new
      BY <1>9, <1>10
    <3>2. \A w \in new : ~swaps[w].paid /\ w \in makers[m].matches
      BY <1>6, <1>7
    <3>3. Load(m, k)' \subseteq Load(m, k)
      BY <1>2, <2>2, <2>3, <3>1, <3>2 DEF Load
    <3>4. Locked(m, k)' \subseteq Locked(m, k)
      BY <1>2, <2>2, <2>3, <3>1, <3>2 DEF Locked
    <3> QED BY <3>3, <3>4
  <2>5. Left(m, k)' \subseteq Left(m, k) /\ (lost => Loose(m, k)' \subseteq Loose(m, k))
        /\ (~lost => Loose(m, k)' \subseteq Left(m, k))
    <3>1. CASE lost
      <4>1. bots'[m].handling = hold /\ bots'[m].inflight = flight
        BY <1>9, <1>10, <3>1
      <4> QED BY <1>2, <2>2, <2>3, <2>4, <3>1, <4>1 DEF Left, Loose, Load
    <3>2. CASE ~lost
      <4>1. bots'[m].handling = hold \cup new /\ bots'[m].inflight = flight \cup new
        BY <1>9, <1>10, <3>2
      <4>2. Loose(m, k)' \subseteq Left(m, k)
        BY <1>2, <2>2, <2>3, <2>4, <4>1 DEF Left, Loose, Load
      <4>3. Left(m, k)' \subseteq Loose(m, k)'
        BY DEF Left
      <4> QED BY <3>2, <4>2, <4>3
    <3> QED BY <3>1, <3>2
  <2>6. PICK g, left, loose, load, locked :
          /\ g = Sizes(swaps') /\ left = Left(m, k)' /\ loose = Loose(m, k)' /\ load = Load(m, k)'
          /\ locked = Locked(m, k)'
    OBVIOUS
  <2>7. g = Sizes(swaps)
    BY <1>5, <2>6
  <2>8. PICK l2, o2, d2, e2 : /\ l2 = SumFunctionOnSet(g, left) /\ o2 = SumFunctionOnSet(g, loose)
                              /\ d2 = SumFunctionOnSet(g, load) /\ e2 = SumFunctionOnSet(g, locked)
    OBVIOUS
  <2>9. l2 \in Nat /\ l2 <= l
    BY <2>1, <2>5, <2>6, <2>7, <2>8, SizeLess DEF BooksNow
  <2>10. d2 \in Nat /\ d2 <= d /\ e2 \in Nat /\ e2 <= e
    BY <2>1, <2>4, <2>6, <2>7, <2>8, SizeLess DEF BooksNow
  <2>11. o2 \in Nat /\ (lost => o2 <= o) /\ (~lost => o2 <= l)
    BY <2>1, <2>5, <2>6, <2>7, <2>8, SizeLess DEF BooksNow
  <2>12. PICK q2, s2 : q2 = makers'[m][k] /\ s2 = Slack(m, k)'
    OBVIOUS
  <2>13. s2 \in Nat /\ (lost => s2 = s + c) /\ (~lost => s2 = s)
    <3>1. CASE lost
      <4>1. "lost" \in Event /\ Use("lost") /\ spent \in [Event -> Nat]
        BY <1>1, <1>9, <3>1 DEF Event, CountsOK
      <4>2. Slack(m, k)' = Slack(m, k) + Extra("lost", m, k)
        BY <4>1, SlackUse
      <4>3. Extra("lost", m, k) = c
        BY <2>1 DEF Extra
      <4> QED BY <2>1, <2>12, <3>1, <4>2, <4>3
    <3>2. CASE ~lost
      <4>1. Free /\ spent \in [Event -> Nat]
        BY <1>1, <1>9, <3>2 DEF CountsOK
      <4>2. Slack(m, k)' = Slack(m, k)
        BY <4>1, SlackFree
      <4> QED BY <2>1, <2>12, <3>2, <4>2
    <3> QED BY <3>1, <3>2
  <2>14. q2 \in Nat /\ (q2 = p \/ q2 = q)
    BY <1>2, <1>3, <1>5, <2>1, <2>12 DEF Pending
  <2>15. Solvent(l2, o2, d2, q2, 0, h, s2, c)
    <3>1. (o2 <= o /\ s2 = s + c) \/ (o2 <= l /\ s2 = s)
      BY <2>11, <2>13
    <3>2. l + c <= s /\ o + q <= s /\ d + q <= h + s /\ (p = 0 \/ d + q + p <= h + s)
      BY <2>1 DEF Solvent
    <3>3. q2 <= c
      BY <2>1, <2>14
    <3>4. l2 + c <= s2
      BY <2>1, <2>9, <2>13, <3>1, <3>2
    <3>5. o2 + q2 <= s2
      BY <2>1, <2>11, <2>13, <2>14, <3>1, <3>2, <3>3
    <3>6. d2 + q2 <= h + s2
      BY <2>1, <2>10, <2>13, <2>14, <3>1, <3>2, <3>3
    <3> QED BY <3>4, <3>5, <3>6 DEF Solvent
  <2>16. Pending(m, k)' = 0
    BY <1>9, <1>10 DEF Pending
  <2>17. stock'[m][k] = h
    BY <1>3, <2>1
  <2>18. Debt(m, k)'
    BY <2>1, <2>6, <2>8, <2>12, <2>15, <2>16, <2>17, DebtThen
  <2>19. Backed(m, k)'
    <3>1. h + e2 <= b
      BY <2>1, <2>10
    <3> QED BY <2>1, <2>6, <2>8, <2>17, <3>1, BackedThen
  <2> QED BY <2>18, <2>19
<1> QED BY <1>12, <1>13, <1>14 DEF BooksInv

-----------------------------------------------------------------------------
BotType(m) == [at : {"idle", "sized", "paused"}, q : Quotes(m) \cup {<<>>},
               handling : SUBSET SwapId, inflight : SUBSET SwapId]

\* A step that leaves the other makers' quotes, balances and swaps alone.
Apart(m) ==
  /\ \A o \in Maker \ {m} : makers'[o] = makers[o]
  /\ \A o \in Maker \ {m}, k \in Side :
       /\ stock'[o][k] = stock[o][k]
       /\ \A v \in Mine(o, k) : /\ swaps'[v].joined => swaps[v].joined
                                /\ swaps'[v].paid => swaps[v].paid

\* A step of one bot: the shape is kept, and the other makers' books with it.
LEMMA OneBot ==
  ASSUME BooksInv, Steady, MakersOK', Grows, spent' \in [Event -> Nat], stock' \in [Maker -> [Side -> Nat]],
         NEW m \in Maker, NEW rec \in BotType(m), Step(m, rec),
         rec.inflight \subseteq rec.handling, rec.handling \subseteq Owned(m),
         rec.at = "sized" => rec.q \in Quotes(m) /\ \A k \in DOMAIN rec.q : rec.q[k] <= Ceiling[m][k],
         Apart(m)
  PROVE  /\ MarketInv' /\ bots'[m] = rec
         /\ \A o \in Maker \ {m}, k \in Side : Debt(o, k)' /\ Backed(o, k)'
<1>1. MarketInv /\ BotsOK
  BY DEF BooksInv, MarketInv
<1>2. BotsOK' /\ bots'[m] = rec /\ \A o \in Maker \ {m} : bots'[o] = bots[o]
  BY <1>1, BotSteps DEF BotType
<1>3. MarketInv'
  BY <1>1, <1>2, ShapeThen
<1>4. ASSUME NEW o \in Maker \ {m}, NEW k \in Side
      PROVE  Debt(o, k)' /\ Backed(o, k)'
  <2>1. makers[o][k] \in Nat
    BY <1>1, Figures
  <2>2. Idle(o, k)
    BY <1>2, <2>1 DEF Idle, Apart
  <2> QED BY <1>1, <1>3, <2>2, IdleKeeps DEF BooksInv
<1> QED BY <1>2, <1>3, <1>4

\* A bot's record, and what dropping or replacing parts of it leaves.
LEMMA BotRec ==
  ASSUME BotsOK, NEW m \in Maker
  PROVE  /\ bots[m] \in BotType(m)
         /\ bots[m].inflight \subseteq bots[m].handling /\ bots[m].handling \subseteq Owned(m)
         /\ bots[m].at = "sized" =>
              bots[m].q \in Quotes(m) /\ \A k \in DOMAIN bots[m].q : bots[m].q[k] <= Ceiling[m][k]
BY BotIs DEF BotType

LEMMA Dropped ==
  ASSUME NEW m, NEW r \in BotType(m), NEW w, NEW rec,
         rec = [r EXCEPT !.handling = @ \ {w}, !.inflight = @ \ {w}]
  PROVE  /\ rec \in BotType(m) /\ rec.at = r.at /\ rec.q = r.q
         /\ rec.handling = r.handling \ {w} /\ rec.inflight = r.inflight \ {w}
BY DEF BotType

\* The maker pauses, or goes on.
LEMMA Rested ==
  ASSUME BooksInv, NEW m \in Maker, Pause(m) \/ Resume(m)
  PROVE  BooksInv'
<1>1. MarketInv /\ BotsOK /\ SwapsOK /\ CountsOK /\ MakersOK
  BY DEF BooksInv, MarketInv
<1>2. UNCHANGED <<swaps, makers, stock>> /\ Steady
  BY <1>1, SameSteady DEF Pause, Resume, rfqVars
<1>3. Grows /\ spent' \in [Event -> Nat]
  <2>1. "pause" \in Event /\ "resume" \in Event
    BY DEF Event
  <2> QED BY <1>1, <2>1, UseGrows DEF Pause, Resume
<1>4. PICK at, r, rec :
         /\ at \in {"idle", "paused"} /\ r \in BotType(m)
         /\ r = bots[m] /\ rec = [r EXCEPT !.at = at] /\ Step(m, rec)
  BY <1>1, BotRec DEF Pause, Resume
<1>5. rec \in BotType(m) /\ rec.at # "sized" /\ rec.handling = r.handling /\ rec.inflight = r.inflight
  BY <1>4 DEF BotType
<1>6. /\ MarketInv' /\ bots'[m] = rec
      /\ \A o \in Maker \ {m}, k \in Side : Debt(o, k)' /\ Backed(o, k)'
  <2>1. MakersOK'
    BY <1>1, <1>2, SameMakersOK
  <2>2. stock' \in [Maker -> [Side -> Nat]]
    BY <1>1, <1>2 DEF CountsOK
  <2>3. rec.inflight \subseteq rec.handling /\ rec.handling \subseteq Owned(m)
    BY <1>1, <1>4, <1>5, BotRec
  <2>4. Apart(m)
    BY <1>2 DEF Apart
  <2> QED BY <1>2, <1>3, <1>4, <1>5, <2>1, <2>2, <2>3, <2>4, OneBot
<1>7. ASSUME NEW k \in Side
      PROVE  Debt(m, k)' /\ Backed(m, k)'
  <2>1. Calm(m, k)
    BY <1>2, <1>4, <1>5, <1>6 DEF Calm
  <2>2. Pending(m, k)' = 0
    BY <1>5, <1>6 DEF Pending
  <2>3. makers[m][k] \in Nat /\ Pending(m, k) \in Nat
    BY <1>1, Figures
  <2>4. makers'[m][k] <= makers[m][k] /\ stock'[m][k] = stock[m][k] /\ Pending(m, k)' <= Pending(m, k)
    BY <1>2, <2>2, <2>3
  <2> QED BY <1>1, <1>2, <1>3, <1>6, <2>1, <2>4, CalmKeeps DEF BooksInv
<1> QED BY <1>6, <1>7 DEF BooksInv

\* A run that fails leaves one swap unreserved, and one ceiling more to be owed.
LEMMA Failed ==
  ASSUME BooksInv, NEW m \in Maker, NEW w \in SwapId, RunFails(m, w)
  PROVE  BooksInv'
<1>1. MarketInv /\ BotsOK /\ SwapsOK /\ CountsOK /\ MakersOK
  BY DEF BooksInv, MarketInv
<1>2. UNCHANGED <<swaps, makers, stock>> /\ Steady
  BY <1>1, SameSteady DEF RunFails, rfqVars
<1>3. "fails" \in Event /\ Use("fails") /\ spent \in [Event -> Nat]
  BY <1>1 DEF RunFails, Event, CountsOK
<1>4. Grows /\ spent' \in [Event -> Nat]
  BY <1>1, <1>3, UseGrows
<1>5. PICK r, rec : /\ r \in BotType(m) /\ r = bots[m] /\ rec = [r EXCEPT !.handling = @ \ {w}, !.inflight = @ \ {w}]
                    /\ Step(m, rec)
  BY <1>1, BotRec DEF RunFails, Drops
<1>6. /\ rec \in BotType(m) /\ rec.at = r.at /\ rec.q = r.q
      /\ rec.handling = r.handling \ {w} /\ rec.inflight = r.inflight \ {w}
  BY <1>5 DEF BotType
<1>7. /\ MarketInv' /\ bots'[m] = rec
      /\ \A o \in Maker \ {m}, k \in Side : Debt(o, k)' /\ Backed(o, k)'
  <2>1. MakersOK'
    BY <1>1, <1>2, SameMakersOK
  <2>2. stock' \in [Maker -> [Side -> Nat]]
    BY <1>1, <1>2 DEF CountsOK
  <2>3. rec.inflight \subseteq rec.handling /\ rec.handling \subseteq Owned(m)
    BY <1>1, <1>5, <1>6, BotRec
  <2>4. rec.at = "sized" => rec.q \in Quotes(m) /\ \A k \in DOMAIN rec.q : rec.q[k] <= Ceiling[m][k]
    BY <1>1, <1>5, <1>6, BotRec
  <2>5. Apart(m)
    BY <1>2 DEF Apart
  <2> QED BY <1>2, <1>4, <1>5, <1>6, <2>1, <2>2, <2>3, <2>4, <2>5, OneBot
<1>8. w \in Owned(m)
  BY <1>1, BotRec DEF RunFails
<1>9. ASSUME NEW k \in Side
      PROVE  Debt(m, k)' /\ Backed(m, k)'
  <2>1. PICK l, o, d, e, q, p, h, s, c, b \in Nat :
           /\ BooksNow(m, k, Sizes(swaps), l, o, d, e) /\ Solvent(l, o, d, q, p, h, s, c) /\ h + e <= b
           /\ q = makers[m][k] /\ p = Pending(m, k) /\ h = stock[m][k] /\ s = Slack(m, k)
           /\ c = Ceiling[m][k] /\ b = Stock[m][k] /\ q <= c /\ p <= c
    BY <1>1, <1>4, BooksOpen, ZenonT(60) DEF BooksInv, Grows
  <2>2. Mine(m, k)' = Mine(m, k)
    BY <1>2, MineStays
  <2>3. Load(m, k)' \subseteq Load(m, k) /\ Locked(m, k)' \subseteq Locked(m, k)
    BY <1>2, <1>5, <1>6, <1>7, <2>2 DEF Load, Locked, Open
  <2>4. Loose(m, k)' \subseteq Loose(m, k) \cup {w} /\ Left(m, k)' \subseteq Left(m, k) \cup {w}
    BY <1>2, <1>5, <1>6, <1>7, <2>3 DEF Loose, Left, Load
  <2>5. PICK g, left, loose, load, locked :
          /\ g = Sizes(swaps') /\ left = Left(m, k)' /\ loose = Loose(m, k)' /\ load = Load(m, k)'
          /\ locked = Locked(m, k)'
    OBVIOUS
  <2>6. g = Sizes(swaps)
    BY <1>2, <2>5
  <2>7. PICK l2, o2, d2, e2 : /\ l2 = SumFunctionOnSet(g, left) /\ o2 = SumFunctionOnSet(g, loose)
                              /\ d2 = SumFunctionOnSet(g, load) /\ e2 = SumFunctionOnSet(g, locked)
    OBVIOUS
  <2>8. d2 \in Nat /\ d2 <= d /\ e2 \in Nat /\ e2 <= e
    BY <2>1, <2>3, <2>5, <2>6, <2>7, SizeLess DEF BooksNow
  <2>9. ASSUME NEW A, NEW B, SizesOK(g, B), A \subseteq B \cup {w}, A \subseteq Mine(m, k)
        PROVE  SumFunctionOnSet(g, A) \in Nat /\ SumFunctionOnSet(g, A) <= SumFunctionOnSet(g, B) + c
    <3>1. SumFunctionOnSet(g, B) \in Nat
      BY <2>9, SizeNat
    <3>2. CASE A \subseteq B
      <4>1. SumFunctionOnSet(g, A) \in Nat /\ SumFunctionOnSet(g, A) <= SumFunctionOnSet(g, B)
        BY <2>9, <3>2, SizeLess
      <4> QED BY <3>1, <4>1
    <3>3. CASE ~(A \subseteq B)
      <4>1. w \in Mine(m, k) /\ w \notin B
        BY <2>9, <3>3
      <4>2. g[w] = swaps[w].size /\ g[w] \in Nat /\ g[w] <= c
        <5>1. swaps[w].size \in MinLot..c /\ swaps[w].size \in Nat
          BY <1>1, <2>1, <4>1 DEF SwapsOK, SwapOK, SwapRec, Mine
        <5>2. g[w] = swaps[w].size
          BY <1>1, <2>6, <4>1 DEF SwapsOK, Sizes
        <5> QED BY <5>1, <5>2, RfqAssumption
      <4>3. SumFunctionOnSet(g, A) \in Nat /\ SumFunctionOnSet(g, A) <= SumFunctionOnSet(g, B) + g[w]
        BY <2>9, <4>1, <4>2, SizeMore
      <4> QED BY <3>1, <4>2, <4>3
    <3> QED BY <3>2, <3>3
  <2>10. left \subseteq Mine(m, k) /\ loose \subseteq Mine(m, k)
    BY <2>2, <2>5 DEF Left, Loose, Load
  <2>11. l2 \in Nat /\ l2 <= l + c
    BY <2>1, <2>4, <2>5, <2>6, <2>7, <2>9, <2>10 DEF BooksNow
  <2>12. o2 \in Nat /\ o2 <= o + c
    BY <2>1, <2>4, <2>5, <2>6, <2>7, <2>9, <2>10 DEF BooksNow
  <2>13. Slack(m, k)' = s + c
    <3>1. Slack(m, k)' = Slack(m, k) + Extra("fails", m, k)
      BY <1>3, SlackUse
    <3>2. Extra("fails", m, k) = c
      BY <2>1 DEF Extra
    <3> QED BY <2>1, <3>1, <3>2
  <2>14. Pending(m, k)' = p
    BY <1>5, <1>6, <1>7, <2>1 DEF Pending
  <2>15. makers'[m][k] = q /\ stock'[m][k] = h
    BY <1>2, <2>1
  <2>16. Solvent(l2, o2, d2, q, p, h, s + c, c)
    BY <2>1, <2>8, <2>11, <2>12 DEF Solvent
  <2>17. Debt(m, k)'
    BY <2>1, <2>5, <2>7, <2>13, <2>14, <2>15, <2>16, DebtThen
  <2>18. h + e2 <= b
    BY <2>1, <2>8
  <2>19. Backed(m, k)'
    BY <2>1, <2>5, <2>7, <2>15, <2>18, BackedThen
  <2> QED BY <2>17, <2>19
<1> QED BY <1>7, <1>9 DEF BooksInv

-----------------------------------------------------------------------------
\* A swap that m owns has its size as a number.
LEMMA OwnedSize ==
  ASSUME SwapsOK, NEW m \in Maker, NEW w \in Owned(m)
  PROVE  /\ w \in SwapId /\ Exists(w) /\ swaps[w].maker = m /\ swaps[w].side \in Side
         /\ swaps[w].size \in Nat /\ Sizes(swaps)[w] = swaps[w].size /\ w \in Mine(m, swaps[w].side)
BY DEF SwapsOK, SwapOK, SwapRec, Owned, Sizes, Mine

\* A run ends: what comes back was still reckoned with.
LEMMA Ended ==
  ASSUME BooksInv, NEW m \in Maker, NEW w \in SwapId, RunEnds(m, w)
  PROVE  BooksInv'
<1>1. MarketInv /\ BotsOK /\ SwapsOK /\ CountsOK /\ MakersOK
  BY DEF BooksInv, MarketInv
<1>2. UNCHANGED <<swaps, makers>> /\ Steady /\ Free
  BY <1>1, SameSteady DEF RunEnds, rfqVars
<1>3. Grows /\ spent' \in [Event -> Nat]
  BY <1>1, <1>2, FreeGrows
<1>4. PICK r, rec : /\ r \in BotType(m) /\ r = bots[m] /\ rec = [r EXCEPT !.handling = @ \ {w}, !.inflight = @ \ {w}]
                    /\ Step(m, rec)
  BY <1>1, BotRec DEF RunEnds, Drops
<1>5. /\ rec \in BotType(m) /\ rec.at = r.at /\ rec.q = r.q
      /\ rec.handling = r.handling \ {w} /\ rec.inflight = r.inflight \ {w}
  BY <1>4 DEF BotType
<1>6. w \in Owned(m) /\ w \in r.handling /\ ~Open(w)
  BY <1>1, <1>4, BotRec DEF RunEnds, Over
<1>7. PICK j \in Side, n \in Nat : j = swaps[w].side /\ n = swaps[w].size /\ n = Sizes(swaps)[w] /\ w \in Mine(m, j)
  BY <1>1, <1>6, OwnedSize
<1>8. \/ UNCHANGED stock
      \/ swaps[w].paid /\ stock' = [stock EXCEPT ![m][j] = @ + n]
  BY <1>7 DEF RunEnds
<1>9. stock \in [Maker -> [Side -> Nat]]
  BY <1>1 DEF CountsOK
<1>10. stock' \in [Maker -> [Side -> Nat]]
  BY <1>7, <1>8, <1>9
<1>11. /\ \A o \in Maker \ {m}, k \in Side : stock'[o][k] = stock[o][k]
       /\ \A k \in Side : k # j => stock'[m][k] = stock[m][k]
       /\ stock'[m][j] = stock[m][j] \/ (swaps[w].paid /\ stock'[m][j] = stock[m][j] + n)
  BY <1>7, <1>8, <1>9
<1>12. /\ MarketInv' /\ bots'[m] = rec
       /\ \A o \in Maker \ {m}, k \in Side : Debt(o, k)' /\ Backed(o, k)'
  <2>1. MakersOK'
    BY <1>1, <1>2, SameMakersOK
  <2>2. rec.inflight \subseteq rec.handling /\ rec.handling \subseteq Owned(m)
    BY <1>1, <1>4, <1>5, BotRec
  <2>3. rec.at = "sized" => rec.q \in Quotes(m) /\ \A k \in DOMAIN rec.q : rec.q[k] <= Ceiling[m][k]
    BY <1>1, <1>4, <1>5, BotRec
  <2>4. Apart(m)
    BY <1>2, <1>11 DEF Apart
  <2> QED BY <1>2, <1>3, <1>4, <1>5, <1>10, <2>1, <2>2, <2>3, <2>4, OneBot
<1>13. ASSUME NEW k \in Side
       PROVE  Debt(m, k)' /\ Backed(m, k)'
  <2>1. Calm(m, k)
    BY <1>2, <1>4, <1>5, <1>6, <1>12 DEF Calm, Open
  <2>2. PICK p \in Nat, q \in Nat, h \in Nat, b \in Nat :
          p = Pending(m, k) /\ q = makers[m][k] /\ h = stock[m][k] /\ b = Stock[m][k]
    BY <1>1, Figures
  <2>3. Pending(m, k)' = p /\ makers'[m][k] = q
    BY <1>2, <1>4, <1>5, <1>12, <2>2 DEF Pending
  <2>4. stock'[m][k] >= stock[m][k]
    BY <1>7, <1>11, <2>2
  <2>5. Debt(m, k)'
    <3>1. Eased(m, k)
      BY <1>2, <2>1, <2>2, <2>3, <2>4, CalmSets DEF Eased
    <3> QED BY <1>1, <1>2, <1>3, <1>12, <3>1, DebtEases, SteadySizes DEF BooksInv
  <2>6. CASE stock'[m][k] = stock[m][k]
    <3>1. Backed(m, k)'
      BY <1>1, <1>2, <1>12, <2>1, <2>6, CalmSets, BackingStays, SteadySizes DEF BooksInv
    <3> QED BY <2>5, <3>1
  <2>7. CASE stock'[m][k] # stock[m][k]
    <3>1. k = j /\ swaps[w].paid /\ stock'[m][k] = h + n
      BY <1>11, <2>2, <2>7
    <3>2. PICK f, A, B : f = Sizes(swaps) /\ A = Locked(m, k)' /\ B = Locked(m, k)
      OBVIOUS
    <3>3. SizesOK(f, B)
      BY <1>1, <3>2, Figures, SizesSub
    <3>4. w \in B
      BY <1>4, <1>6, <1>7, <3>1, <3>2 DEF Locked
    <3>5. A \subseteq B \ {w}
      <4>1. A \subseteq B
        BY <1>2, <2>1, <3>2, CalmSets
      <4>2. w \notin A
        BY <1>2, <1>5, <1>6, <1>12, <3>2 DEF Locked, Open
      <4> QED BY <4>1, <4>2
    <3>6. /\ SumFunctionOnSet(f, B) \in Nat /\ SumFunctionOnSet(f, A) \in Nat
          /\ SumFunctionOnSet(f, A) + f[w] <= SumFunctionOnSet(f, B)
      BY <3>3, <3>4, <3>5, SizeDrops
    <3>7. h + SumFunctionOnSet(f, B) <= b
      BY <2>2, <3>2 DEF BooksInv, Backed, SizeOf
    <3>8. f[w] = n
      BY <1>7, <3>2
    <3>9. (h + n) + SumFunctionOnSet(f, A) <= b
      BY <2>2, <3>6, <3>7, <3>8
    <3>10. f = Sizes(swaps')
      BY <1>2, <3>2
    <3>11. Backed(m, k)'
      BY <2>2, <3>1, <3>2, <3>9, <3>10, BackedThen
    <3> QED BY <2>5, <3>11
  <2> QED BY <2>6, <2>7
<1> QED BY <1>12, <1>13 DEF BooksInv

-----------------------------------------------------------------------------
\* The same, as one fact about a side.
Tallied(m, k) ==
  \E l, o, d, e, q, p, h, s, c, b \in Nat :
    /\ BooksNow(m, k, Sizes(swaps), l, o, d, e) /\ Solvent(l, o, d, q, p, h, s, c) /\ h + e <= b
    /\ q = makers[m][k] /\ p = Pending(m, k) /\ h = stock[m][k] /\ s = Slack(m, k)
    /\ c = Ceiling[m][k] /\ b = Stock[m][k] /\ q <= c /\ p <= c

LEMMA TalliedIs ==
  ASSUME MarketInv, NEW m \in Maker, NEW k \in Side, Debt(m, k), Backed(m, k), Slack(m, k) \in Nat
  PROVE  Tallied(m, k)
<1>1. PICK l, o, d, e, q, p, h, s, c, b \in Nat :
        /\ BooksNow(m, k, Sizes(swaps), l, o, d, e) /\ Solvent(l, o, d, q, p, h, s, c) /\ h + e <= b
        /\ q = makers[m][k] /\ p = Pending(m, k) /\ h = stock[m][k] /\ s = Slack(m, k)
        /\ c = Ceiling[m][k] /\ b = Stock[m][k] /\ q <= c /\ p <= c
  BY BooksOpen, ZenonT(60)
<1> QED BY <1>1 DEF Tallied

\* A deposit is paid: what the balance loses, the maker no longer owes.
LEMMA PaidOut ==
  ASSUME BooksInv, NEW m \in Maker, NEW w \in SwapId, BotPays(m, w)
  PROVE  BooksInv'
<1>1. MarketInv /\ BotsOK /\ SwapsOK /\ CountsOK /\ MakersOK
  BY DEF BooksInv, MarketInv
<1>2. /\ OnlyMoves(w) /\ swaps'[w].paid /\ ~swaps[w].paid /\ (swaps'[w].joined <=> swaps[w].joined) /\ Free
  BY <1>1, PayIs DEF BotPays
<1>3. Grows /\ spent' \in [Event -> Nat]
  BY <1>1, <1>2, FreeGrows
<1>4. Steady /\ UNCHANGED makers /\ Open(w) /\ \A v \in SwapId \ {w} : swaps'[v] = swaps[v]
  BY <1>2 DEF OnlyMoves
<1>5. PICK r, rec : /\ r \in BotType(m) /\ r = bots[m] /\ rec = [r EXCEPT !.inflight = @ \ {w}] /\ Step(m, rec)
  BY <1>1, BotRec DEF BotPays
<1>6. /\ rec \in BotType(m) /\ rec.at = r.at /\ rec.q = r.q
      /\ rec.handling = r.handling /\ rec.inflight = r.inflight \ {w}
  BY <1>5 DEF BotType
<1>7. w \in Owned(m) /\ w \in r.handling
  BY <1>1, <1>5, BotRec DEF BotPays
<1>8. PICK j \in Side, n \in Nat : /\ j = swaps[w].side /\ n = swaps[w].size /\ n = Sizes(swaps)[w]
                                   /\ w \in Mine(m, j) /\ swaps[w].maker = m
  BY <1>1, <1>7, OwnedSize
<1>9. stock' = [stock EXCEPT ![m][j] = @ - n] /\ stock[m][j] >= n
  BY <1>8 DEF BotPays
<1>10. stock \in [Maker -> [Side -> Nat]]
  BY <1>1 DEF CountsOK
<1>11. stock[m][j] - n \in Nat
  BY <1>8, <1>9, <1>10
<1>12. stock' \in [Maker -> [Side -> Nat]]
  BY <1>8, <1>9, <1>10, <1>11
<1>13. /\ \A o \in Maker \ {m}, k \in Side : stock'[o][k] = stock[o][k]
       /\ \A k \in Side : k # j => stock'[m][k] = stock[m][k]
       /\ stock'[m][j] = stock[m][j] - n
  BY <1>8, <1>9, <1>10
<1>14. /\ MarketInv' /\ bots'[m] = rec
       /\ \A o \in Maker \ {m}, k \in Side : Debt(o, k)' /\ Backed(o, k)'
  <2>1. MakersOK'
    BY <1>1, <1>4, SameMakersOK
  <2>2. rec.inflight \subseteq rec.handling /\ rec.handling \subseteq Owned(m)
    BY <1>1, <1>5, <1>6, BotRec
  <2>3. rec.at = "sized" => rec.q \in Quotes(m) /\ \A k \in DOMAIN rec.q : rec.q[k] <= Ceiling[m][k]
    BY <1>1, <1>5, <1>6, BotRec
  <2>4. \A o \in Maker \ {m}, k \in Side : \A v \in Mine(o, k) : v \in SwapId \ {w}
    BY <1>8 DEF Mine
  <2>5. Apart(m)
    BY <1>4, <1>13, <2>4 DEF Apart
  <2> QED BY <1>3, <1>4, <1>5, <1>6, <1>12, <2>1, <2>2, <2>3, <2>5, OneBot
<1>15. ASSUME NEW k \in Side, k # j
       PROVE  Debt(m, k)' /\ Backed(m, k)'
  <2>1. \A v \in Mine(m, k) : v \in SwapId \ {w} /\ swaps'[v] = swaps[v]
    BY <1>4, <1>8, <1>15 DEF Mine
  <2>2. Calm(m, k)
    BY <1>4, <1>5, <1>6, <1>14, <2>1 DEF Calm
  <2>3. PICK p \in Nat, q \in Nat : p = Pending(m, k) /\ q = makers[m][k]
    BY <1>1, Figures
  <2>4. Pending(m, k)' = p /\ makers'[m][k] = q
    BY <1>4, <1>5, <1>6, <1>14, <2>3 DEF Pending
  <2>5. makers'[m][k] <= makers[m][k] /\ Pending(m, k)' <= Pending(m, k)
    BY <2>3, <2>4
  <2> QED BY <1>1, <1>3, <1>4, <1>13, <1>14, <1>15, <2>2, <2>5, CalmKeeps DEF BooksInv
<1>16. ASSUME NEW k \in Side, k = j
       PROVE  Debt(m, k)' /\ Backed(m, k)'
  <2>0. w \in Mine(m, k) /\ stock[m][k] - n \in Nat /\ stock'[m][k] = stock[m][k] - n
    BY <1>8, <1>11, <1>13, <1>16
  <2>1. PICK l, o, d, e, q, p, h, s, c, b \in Nat :
           /\ BooksNow(m, k, Sizes(swaps), l, o, d, e) /\ Solvent(l, o, d, q, p, h, s, c) /\ h + e <= b
           /\ q = makers[m][k] /\ p = Pending(m, k) /\ h = stock[m][k] /\ s = Slack(m, k)
           /\ c = Ceiling[m][k] /\ b = Stock[m][k] /\ q <= c /\ p <= c
    <3>1. Debt(m, k) /\ Backed(m, k) /\ Slack(m, k) \in Nat
      BY <1>3 DEF BooksInv, Grows
    <3>2. Tallied(m, k)
      BY <1>1, <3>1, TalliedIs
    <3> QED BY <3>2 DEF Tallied
  <2>2. Mine(m, k)' = Mine(m, k)
    BY <1>4, MineStays
  <2>3. \A v \in Mine(m, k) : v # w => swaps'[v] = swaps[v]
    BY <1>4 DEF Mine
  <2>4. w \in Load(m, k) /\ w \notin Locked(m, k)
    BY <1>2, <1>4, <1>5, <1>7, <2>0 DEF Load, Locked
  <2>5. Load(m, k)' \subseteq Load(m, k) \ {w}
    BY <1>2, <1>4, <1>5, <1>6, <1>14, <2>2, <2>3 DEF Load, Open
  <2>6. Loose(m, k)' \subseteq Loose(m, k)
    BY <1>5, <1>6, <1>14, <2>5 DEF Loose
  <2>7. Left(m, k)' \subseteq Left(m, k)
    BY <1>4, <1>5, <1>6, <1>14, <2>2, <2>3, <2>5, <2>6 DEF Left, Loose, Load
  <2>8. Locked(m, k)' \subseteq Locked(m, k) \cup {w}
    BY <1>4, <1>5, <1>6, <1>14, <2>2, <2>3 DEF Locked, Open
  <2>9. PICK f, g, left, loose, load, locked :
          /\ f = Sizes(swaps) /\ g = Sizes(swaps')
          /\ left = Left(m, k)' /\ loose = Loose(m, k)' /\ load = Load(m, k)' /\ locked = Locked(m, k)'
    OBVIOUS
  <2>10. \A v \in Mine(m, k) : g[v] = f[v]
    BY <1>1, <1>4, <2>9, SteadySizes DEF SizesKept
  <2>11. /\ Left(m, k) \subseteq Mine(m, k) /\ Loose(m, k) \subseteq Mine(m, k) /\ Load(m, k) \subseteq Mine(m, k)
         /\ Locked(m, k) \subseteq Mine(m, k)
    BY <1>1, Figures
  <2>12. PICK l2, o2, d2, e2 : /\ l2 = SumFunctionOnSet(g, left) /\ o2 = SumFunctionOnSet(g, loose)
                               /\ d2 = SumFunctionOnSet(g, load) /\ e2 = SumFunctionOnSet(g, locked)
    OBVIOUS
  <2>13. l2 \in Nat /\ l2 <= l
    BY <1>1, <1>4, <2>1, <2>7, <2>9, <2>11, <2>12, SumsFall DEF BooksNow
  <2>14. o2 \in Nat /\ o2 <= o
    BY <1>1, <1>4, <2>1, <2>6, <2>9, <2>11, <2>12, SumsFall DEF BooksNow
  <2>15. d2 \in Nat /\ d2 + n <= d
    <3>1. SizesOK(f, Load(m, k)) /\ d = SumFunctionOnSet(f, Load(m, k)) /\ f[w] = n
      BY <1>8, <2>1, <2>9 DEF BooksNow
    <3>2. load \subseteq Load(m, k) \ {w} /\ \A v \in load : g[v] = f[v]
      BY <2>5, <2>9, <2>10, <2>11
    <3>3. SumFunctionOnSet(g, load) \in Nat /\ SumFunctionOnSet(g, load) + f[w] <= SumFunctionOnSet(f, Load(m, k))
      BY <2>4, <3>1, <3>2, SizeDrops
    <3> QED BY <2>12, <3>1, <3>3
  <2>16. e2 \in Nat /\ e2 <= e + n
    <3>1. SizesOK(f, Locked(m, k)) /\ e = SumFunctionOnSet(f, Locked(m, k)) /\ g[w] = n
      BY <1>8, <2>0, <2>1, <2>9, <2>10 DEF BooksNow
    <3>2. locked \subseteq Locked(m, k) \cup {w} /\ \A v \in locked \ {w} : g[v] = f[v]
      BY <2>8, <2>9, <2>10, <2>11
    <3>3. SumFunctionOnSet(g, locked) \in Nat /\ SumFunctionOnSet(g, locked) <= SumFunctionOnSet(f, Locked(m, k)) + g[w]
      BY <2>4, <1>8, <3>1, <3>2, SizeMore
    <3> QED BY <2>12, <3>1, <3>3
  <2>17. PICK h2 : h2 = h - n
    OBVIOUS
  <2>18. h2 \in Nat /\ stock'[m][k] = h2
    BY <2>0, <2>1, <2>17
  <2>19. Solvent(l2, o2, d2, q, p, h2, s, c)
    BY <1>8, <2>1, <2>13, <2>14, <2>15, <2>17, <2>18 DEF Solvent
  <2>20. h2 + e2 <= b
    BY <1>8, <2>1, <2>16, <2>17
  <2>21. Pending(m, k)' = p /\ makers'[m][k] = q
    BY <1>4, <1>5, <1>6, <1>14, <2>1 DEF Pending
  <2>22. Slack(m, k)' = s
    BY <1>1, <1>2, <2>1, SlackFree DEF CountsOK
  <2>23. Debt(m, k)'
    BY <2>1, <2>9, <2>12, <2>18, <2>19, <2>21, <2>22, DebtThen
  <2>24. Backed(m, k)'
    BY <2>1, <2>9, <2>12, <2>18, <2>20, BackedThen
  <2> QED BY <2>23, <2>24
<1> QED BY <1>14, <1>15, <1>16 DEF BooksInv

-----------------------------------------------------------------------------
\* A bot restarts: it may owe all that was reserved, unreserved.
LEMMA Restarted ==
  ASSUME BooksInv, NEW m \in Maker, BotRestarts(m)
  PROVE  BooksInv'
<1>1. MarketInv /\ BotsOK /\ SwapsOK /\ CountsOK /\ MakersOK
  BY DEF BooksInv, MarketInv
<1>2. UNCHANGED <<swaps, makers, stock>> /\ Steady
  BY <1>1, SameSteady DEF BotRestarts, rfqVars
<1>3. "crash" \in Event /\ Use("crash") /\ spent \in [Event -> Nat]
  BY <1>1 DEF BotRestarts, Event, CountsOK
<1>4. Grows /\ spent' \in [Event -> Nat]
  BY <1>1, <1>3, UseGrows
<1>5. PICK joined, saved, rec :
        /\ joined = {w \in SwapId : Exists(w) /\ swaps[w].maker = m /\ ~Over(w) /\ swaps[w].joined}
        /\ saved \subseteq bots[m].handling \ joined
        /\ rec = [NoBot EXCEPT !.handling = joined \cup saved] /\ Step(m, rec)
  BY DEF BotRestarts
<1>6. joined \subseteq Owned(m) /\ saved \subseteq Owned(m) /\ Owned(m) \subseteq SwapId
  BY <1>1, <1>5, BotRec DEF Owned
<1>7. rec \in BotType(m) /\ rec.at = "idle" /\ rec.handling = joined \cup saved /\ rec.inflight = {}
  <2>1. rec = [at |-> "idle", q |-> <<>>, handling |-> joined \cup saved, inflight |-> {}]
    BY <1>5 DEF NoBot
  <2> QED BY <1>6, <2>1 DEF BotType
<1>8. /\ MarketInv' /\ bots'[m] = rec
      /\ \A o \in Maker \ {m}, k \in Side : Debt(o, k)' /\ Backed(o, k)'
  <2>1. MakersOK'
    BY <1>1, <1>2, SameMakersOK
  <2>2. stock' \in [Maker -> [Side -> Nat]]
    BY <1>1, <1>2 DEF CountsOK
  <2>3. rec.inflight \subseteq rec.handling /\ rec.handling \subseteq Owned(m)
        /\ (rec.at = "sized" => rec.q \in Quotes(m) /\ \A k \in DOMAIN rec.q : rec.q[k] <= Ceiling[m][k])
    BY <1>6, <1>7
  <2>4. Apart(m)
    BY <1>2 DEF Apart
  <2> QED BY <1>2, <1>4, <1>5, <1>7, <2>1, <2>2, <2>3, <2>4, OneBot
<1>9. ASSUME NEW k \in Side
      PROVE  Debt(m, k)' /\ Backed(m, k)'
  <2>1. PICK l, o, d, e, q, p, h, s, c, b \in Nat :
           /\ BooksNow(m, k, Sizes(swaps), l, o, d, e) /\ Solvent(l, o, d, q, p, h, s, c) /\ h + e <= b
           /\ q = makers[m][k] /\ p = Pending(m, k) /\ h = stock[m][k] /\ s = Slack(m, k)
           /\ c = Ceiling[m][k] /\ b = Stock[m][k] /\ q <= c /\ p <= c
    BY <1>1, <1>4, BooksOpen, ZenonT(60) DEF BooksInv, Grows
  <2>2. Mine(m, k)' = Mine(m, k)
    BY <1>2, MineStays
  <2>3. Load(m, k)' \subseteq Load(m, k)
    BY <1>2, <1>5, <1>7, <1>8, <2>2 DEF Load, Open
  <2>4. Loose(m, k)' \subseteq Load(m, k) /\ Left(m, k)' \subseteq Load(m, k)
    BY <2>3 DEF Loose, Left
  <2>5. Locked(m, k)' \subseteq Locked(m, k)
    <3>1. \A w \in joined : Open(w)
      BY <1>5 DEF Over
    <3>2. saved \subseteq bots[m].handling
      BY <1>5
    <3> QED BY <1>2, <1>7, <1>8, <2>2, <3>1, <3>2 DEF Locked, Open
  <2>6. PICK f, left, loose, load, locked :
          /\ f = Sizes(swaps')
          /\ left = Left(m, k)' /\ loose = Loose(m, k)' /\ load = Load(m, k)' /\ locked = Locked(m, k)'
    OBVIOUS
  <2>7. f = Sizes(swaps)
    BY <1>2, <2>6
  <2>8. PICK l2, o2, d2, e2 : /\ l2 = SumFunctionOnSet(f, left) /\ o2 = SumFunctionOnSet(f, loose)
                              /\ d2 = SumFunctionOnSet(f, load) /\ e2 = SumFunctionOnSet(f, locked)
    OBVIOUS
  <2>9. l2 \in Nat /\ l2 <= d
    BY <2>1, <2>4, <2>6, <2>7, <2>8, SizeLess DEF BooksNow
  <2>10. o2 \in Nat /\ o2 <= d
    BY <2>1, <2>4, <2>6, <2>7, <2>8, SizeLess DEF BooksNow
  <2>11. d2 \in Nat /\ d2 <= d
    BY <2>1, <2>3, <2>6, <2>7, <2>8, SizeLess DEF BooksNow
  <2>12. e2 \in Nat /\ e2 <= e
    BY <2>1, <2>5, <2>6, <2>7, <2>8, SizeLess DEF BooksNow
  <2>13. Slack(m, k)' = s + (b + c)
    <3>1. Slack(m, k)' = Slack(m, k) + Extra("crash", m, k)
      BY <1>3, SlackUse
    <3>2. Extra("crash", m, k) = b + c
      BY <2>1 DEF Extra
    <3> QED BY <2>1, <3>1, <3>2
  <2>14. Solvent(l2, o2, d2, q, 0, h, s + (b + c), c)
    <3>1. d + q <= h + s /\ h <= b
      BY <2>1 DEF Solvent
    <3>2. l2 + c <= s + (b + c)
      BY <2>1, <2>9, <3>1
    <3>3. o2 + q <= s + (b + c)
      BY <2>1, <2>10, <3>1
    <3>4. d2 + q <= h + (s + (b + c))
      BY <2>1, <2>11, <3>1
    <3> QED BY <3>2, <3>3, <3>4 DEF Solvent
  <2>15. Pending(m, k)' = 0
    BY <1>7, <1>8 DEF Pending
  <2>16. makers'[m][k] = q /\ stock'[m][k] = h
    BY <1>2, <2>1
  <2>17. Debt(m, k)'
    BY <2>1, <2>6, <2>8, <2>13, <2>14, <2>15, <2>16, DebtThen
  <2>18. h + e2 <= b
    BY <2>1, <2>12
  <2>19. Backed(m, k)'
    BY <2>1, <2>6, <2>8, <2>16, <2>18, BackedThen
  <2> QED BY <2>17, <2>19
<1> QED BY <1>8, <1>9 DEF BooksInv

-----------------------------------------------------------------------------
\* Legs are opened for other makers, or on the other side.
Untaken(m, k) ==
  /\ Mine(m, k)' \subseteq Mine(m, k) /\ makers'[m][k] = makers[m][k]
  /\ \A w \in Mine(m, k) : swaps'[w] = swaps[w] /\ (w \in makers'[m].matches => w \in makers[m].matches)

\* A leg of n lots is opened for maker m on side k: swap v.
Taken(m, k, v, n) ==
  /\ v \in SwapId /\ ~Exists(v) /\ Sizes(swaps')[v] = n /\ ~swaps'[v].joined /\ ~swaps'[v].paid
  /\ n \in Nat /\ n <= makers[m][k] /\ makers'[m][k] = makers[m][k] - n
  /\ Mine(m, k)' \subseteq Mine(m, k) \cup {v} /\ makers'[m].matches = makers[m].matches \cup {v}
  /\ \A w \in Mine(m, k) : swaps'[w] = swaps[w]

LEMMA SizesSame ==
  ASSUME SwapsOK, DOMAIN swaps' = SwapId, NEW m, NEW k, \A w \in Mine(m, k) : swaps'[w] = swaps[w]
  PROVE  SizesKept(m, k)
BY DEF SizesKept, Sizes, SwapsOK, Mine

LEMMA UntakenKeeps ==
  ASSUME MarketInv, MarketInv', Grows, UNCHANGED <<stock, bots>>, NEW m \in Maker, NEW k \in Side,
         Untaken(m, k), Debt(m, k), Backed(m, k)
  PROVE  Debt(m, k)' /\ Backed(m, k)'
<1>1. SizesKept(m, k)
  BY SizesSame DEF MarketInv, SwapsOK, Untaken
<1>2. Load(m, k)' \subseteq Load(m, k) /\ Locked(m, k)' \subseteq Locked(m, k)
  BY DEF Load, Locked, Open, Untaken
<1>3. Loose(m, k)' \subseteq Loose(m, k)
  BY <1>2 DEF Loose
<1>4. Left(m, k)' \subseteq Left(m, k)
  BY <1>2, <1>3 DEF Left, Loose, Load, Untaken
<1>5. Eased(m, k)
  <2>1. PICK q \in Nat, h \in Nat, p \in Nat : q = makers[m][k] /\ h = stock[m][k] /\ p = Pending(m, k)
    BY Figures
  <2>2. makers'[m][k] = q /\ stock'[m][k] = h /\ Pending(m, k)' = p
    BY <2>1 DEF Untaken, Pending
  <2> QED BY <1>2, <1>3, <1>4, <2>1, <2>2 DEF Eased
<1>6. Debt(m, k)'
  BY <1>1, <1>5, DebtEases
<1>7. Backed(m, k)'
  BY <1>1, <1>2, BackingStays
<1> QED BY <1>6, <1>7

LEMMA TakenKeeps ==
  ASSUME MarketInv, MarketInv', Free, Grows, UNCHANGED <<stock, bots>>, NEW m \in Maker, NEW k \in Side,
         NEW v, NEW n, Taken(m, k, v, n), Debt(m, k), Backed(m, k)
  PROVE  Debt(m, k)' /\ Backed(m, k)'
<1>1. BotsOK /\ SwapsOK /\ SizesKept(m, k)
  BY SizesSame DEF MarketInv, SwapsOK, Taken
<1>2. Tallied(m, k)
  BY TalliedIs DEF Grows
<1>3. PICK l, o, d, e, q, p, h, s, c, b \in Nat :
         /\ BooksNow(m, k, Sizes(swaps), l, o, d, e) /\ Solvent(l, o, d, q, p, h, s, c) /\ h + e <= b
         /\ q = makers[m][k] /\ p = Pending(m, k) /\ h = stock[m][k] /\ s = Slack(m, k)
         /\ c = Ceiling[m][k] /\ b = Stock[m][k] /\ q <= c /\ p <= c
  BY <1>2 DEF Tallied
<1>4. v \notin bots[m].handling /\ v \notin Mine(m, k)
  <2>1. bots[m].handling \subseteq Owned(m) /\ ~Exists(v)
    BY <1>1, BotIs DEF Taken
  <2> QED BY <2>1 DEF Owned, Mine
<1>5. Load(m, k)' \subseteq Load(m, k) \cup {v}
  BY <1>4 DEF Load, Open, Taken
<1>6. Loose(m, k)' \subseteq Loose(m, k) \cup {v}
  BY <1>5 DEF Loose
<1>7. Left(m, k)' \subseteq Left(m, k)
  BY <1>4, <1>6 DEF Left, Loose, Load, Taken
<1>8. Locked(m, k)' \subseteq Locked(m, k)
  BY <1>4 DEF Locked, Open, Taken
<1>9. PICK f, g, left, loose, load, locked :
        /\ f = Sizes(swaps) /\ g = Sizes(swaps')
        /\ left = Left(m, k)' /\ loose = Loose(m, k)' /\ load = Load(m, k)' /\ locked = Locked(m, k)'
  OBVIOUS
<1>10. (\A w \in Mine(m, k) : g[w] = f[w]) /\ g[v] = n /\ n \in Nat /\ n <= q
  BY <1>1, <1>3, <1>9 DEF SizesKept, Taken
<1>11. /\ Left(m, k) \subseteq Mine(m, k) /\ Loose(m, k) \subseteq Mine(m, k) /\ Load(m, k) \subseteq Mine(m, k)
       /\ Locked(m, k) \subseteq Mine(m, k)
  BY Figures
<1>12. PICK l2, o2, d2, e2 : /\ l2 = SumFunctionOnSet(g, left) /\ o2 = SumFunctionOnSet(g, loose)
                             /\ d2 = SumFunctionOnSet(g, load) /\ e2 = SumFunctionOnSet(g, locked)
  OBVIOUS
<1>13. l2 \in Nat /\ l2 <= l
  <2>1. SizesOK(f, Left(m, k)) /\ l = SumFunctionOnSet(f, Left(m, k))
    BY <1>3, <1>9 DEF BooksNow
  <2>2. left \subseteq Left(m, k) /\ \A w \in left : g[w] = f[w]
    BY <1>7, <1>9, <1>10, <1>11
  <2> QED BY <1>12, <2>1, <2>2, SizeLess
<1>14. e2 \in Nat /\ e2 <= e
  <2>1. SizesOK(f, Locked(m, k)) /\ e = SumFunctionOnSet(f, Locked(m, k))
    BY <1>3, <1>9 DEF BooksNow
  <2>2. locked \subseteq Locked(m, k) /\ \A w \in locked : g[w] = f[w]
    BY <1>8, <1>9, <1>10, <1>11
  <2> QED BY <1>12, <2>1, <2>2, SizeLess
<1>15. o2 \in Nat /\ o2 <= o + n
  <2>1. SizesOK(f, Loose(m, k)) /\ o = SumFunctionOnSet(f, Loose(m, k)) /\ v \notin Loose(m, k)
    BY <1>3, <1>4, <1>9, <1>11 DEF BooksNow
  <2>2. loose \subseteq Loose(m, k) \cup {v} /\ \A w \in loose \ {v} : g[w] = f[w]
    BY <1>6, <1>9, <1>10, <1>11
  <2>3. SumFunctionOnSet(g, loose) \in Nat /\ SumFunctionOnSet(g, loose) <= SumFunctionOnSet(f, Loose(m, k)) + g[v]
    BY <1>10, <2>1, <2>2, SizeMore
  <2> QED BY <1>10, <1>12, <2>1, <2>3
<1>16. d2 \in Nat /\ d2 <= d + n
  <2>1. SizesOK(f, Load(m, k)) /\ d = SumFunctionOnSet(f, Load(m, k)) /\ v \notin Load(m, k)
    BY <1>3, <1>4, <1>9, <1>11 DEF BooksNow
  <2>2. load \subseteq Load(m, k) \cup {v} /\ \A w \in load \ {v} : g[w] = f[w]
    BY <1>5, <1>9, <1>10, <1>11
  <2>3. SumFunctionOnSet(g, load) \in Nat /\ SumFunctionOnSet(g, load) <= SumFunctionOnSet(f, Load(m, k)) + g[v]
    BY <1>10, <2>1, <2>2, SizeMore
  <2> QED BY <1>10, <1>12, <2>1, <2>3
<1>17. PICK q2 : q2 = q - n
  OBVIOUS
<1>18. makers'[m][k] = q2 /\ stock'[m][k] = h /\ Pending(m, k)' = p
  BY <1>3, <1>17 DEF Taken, Pending
<1>19. Slack(m, k)' = s
  BY <1>3, SlackFree DEF MarketInv, CountsOK
<1>20. Solvent(l2, o2, d2, q2, p, h, s, c)
  <2>1. l + c <= s /\ o + q <= s /\ d + q <= h + s /\ (p = 0 \/ d + q + p <= h + s)
    BY <1>3 DEF Solvent
  <2> QED BY <1>3, <1>10, <1>13, <1>15, <1>16, <1>17, <2>1 DEF Solvent
<1>21. Debt(m, k)'
  BY <1>3, <1>9, <1>12, <1>18, <1>19, <1>20, DebtThen
<1>22. h + e2 <= b
  BY <1>3, <1>14
<1>23. Backed(m, k)'
  BY <1>3, <1>9, <1>12, <1>18, <1>22, BackedThen
<1> QED BY <1>21, <1>23

-----------------------------------------------------------------------------
\* A leg's swap is new, and of its size.
LEMMA LegIs ==
  ASSUME SwapsOK, NEW k \in Side, NEW legs, NEW told \in BOOLEAN, LegsFit(k, legs), OpenLegs(k, legs, told),
         NEW x \in DOMAIN legs
  PROVE  /\ Used + x \in SwapId /\ ~Exists(Used + x)
         /\ Sizes(swaps')[Used + x] = legs[x].size
         /\ ~swaps'[Used + x].joined /\ ~swaps'[Used + x].paid
<1>1. PICK u, v, len : u = Used /\ v = u + x /\ len = Len(legs)
  OBVIOUS
<1>2. u \in 0..MaxSwaps /\ (\A w \in SwapId : Exists(w) <=> w <= u) /\ MaxSwaps \in Nat
  BY <1>1, UsedIs, RfqAssumption
<1>3. len \in Nat /\ x \in 1..len
  BY <1>1 DEF LegsFit
<1>4. u + len <= MaxSwaps
  BY <1>1 DEF OpenLegs
<1>5. v \in SwapId /\ ~(v <= u) /\ v - u = x
  BY <1>1, <1>2, <1>3, <1>4 DEF SwapId
<1>6. ~Exists(v)
  BY <1>2, <1>5
<1>7. swaps' = [w \in SwapId |->
          IF w - u \in DOMAIN legs
          THEN [state |-> "open", taken |-> told, maker |-> legs[w - u].maker, side |-> k,
                size |-> legs[w - u].size, joined |-> FALSE, ready |-> FALSE, paid |-> FALSE,
                age |-> 0, since |-> 0]
          ELSE swaps[w]]
  BY <1>1 DEF OpenLegs
<1>8. swaps'[v] = [state |-> "open", taken |-> told, maker |-> legs[x].maker, side |-> k,
                size |-> legs[x].size, joined |-> FALSE, ready |-> FALSE, paid |-> FALSE,
                age |-> 0, since |-> 0]
  BY <1>5, <1>7
<1>9. DOMAIN swaps' = SwapId
  BY <1>7
<1>10. Sizes(swaps')[v] = legs[x].size
  BY <1>5, <1>8, <1>9 DEF Sizes
<1> QED BY <1>1, <1>5, <1>6, <1>8, <1>10

\* What legs on side k mean for a maker and a side.
LEMMA LegsMean ==
  ASSUME MarketInv, NEW k \in Side, NEW legs, NEW told \in BOOLEAN, LegsFit(k, legs), OpenLegs(k, legs, told),
         NEW m \in Maker, NEW j \in Side
  PROVE  Untaken(m, j) \/ \E v, n : Taken(m, j, v, n)
<1>1. SwapsOK /\ MakersOK
  BY DEF MarketInv
<1>2. PICK u : u = Used
  OBVIOUS
<1>3. /\ \A w \in SwapId : Exists(w) => swaps'[w] = swaps[w]
      /\ \A w \in SwapId : Exists(w)' /\ ~Exists(w) =>
           /\ swaps'[w].side = k
           /\ \E x \in DOMAIN legs : w = u + x /\ swaps'[w].maker = legs[x].maker
      /\ LegsOf(legs, m) = {} => makers'[m] = makers[m]
      /\ \A x \in DOMAIN legs : legs[x].maker = m =>
           /\ makers'[m].matches = makers[m].matches \cup {u + x}
           /\ makers'[m][k] = makers[m][k] - legs[x].size
           /\ \A i \in Side : i # k => makers'[m][i] = makers[m][i]
  BY <1>1, <1>2, LegsOpen
<1>4. ASSUME NEW x \in DOMAIN legs
      PROVE  /\ u + x \in SwapId /\ ~Exists(u + x) /\ Sizes(swaps')[u + x] = legs[x].size
             /\ ~swaps'[u + x].joined /\ ~swaps'[u + x].paid
  BY <1>1, <1>2, LegIs
<1>5. \A w \in Mine(m, j) : swaps'[w] = swaps[w] /\ w \in SwapId /\ Exists(w)
  BY <1>3 DEF Mine
<1>6. \A w \in Mine(m, j)' : w \in SwapId /\ Exists(w)' /\ swaps'[w].maker = m /\ swaps'[w].side = j
  BY DEF Mine
<1>7. \A w \in Mine(m, j)' : Exists(w) => w \in Mine(m, j)
  BY <1>3, <1>6 DEF Mine
<1>8. CASE LegsOf(legs, m) = {}
  <2>1. makers'[m] = makers[m] /\ \A x \in DOMAIN legs : legs[x].maker # m
    BY <1>3, <1>8 DEF LegsOf
  <2>2. Mine(m, j)' \subseteq Mine(m, j)
    BY <1>3, <1>6, <1>7, <2>1
  <2> QED BY <1>5, <2>1, <2>2 DEF Untaken
<1>9. ASSUME NEW x \in LegsOf(legs, m)
      PROVE  Untaken(m, j) \/ \E v, n : Taken(m, j, v, n)
  <2>1. x \in DOMAIN legs /\ legs[x].maker = m
    BY <1>9 DEF LegsOf
  <2>2. PICK v, n : v = u + x /\ n = legs[x].size
    OBVIOUS
  <2>3. v \in SwapId /\ ~Exists(v) /\ Sizes(swaps')[v] = n /\ ~swaps'[v].joined /\ ~swaps'[v].paid
    BY <1>4, <2>1, <2>2
  <2>4. makers'[m].matches = makers[m].matches \cup {v}
    BY <1>3, <2>1, <2>2
  <2>5. CASE j # k
    <3>1. makers'[m][j] = makers[m][j]
      BY <1>3, <2>1, <2>5
    <3>2. Mine(m, j)' \subseteq Mine(m, j)
      BY <1>3, <1>6, <1>7, <2>5
    <3>3. \A w \in Mine(m, j) : w \in makers'[m].matches => w \in makers[m].matches
      BY <1>5, <2>3, <2>4
    <3> QED BY <1>5, <3>1, <3>2, <3>3 DEF Untaken
  <2>6. CASE j = k
    <3>1. makers'[m][j] = makers[m][j] - n
      BY <1>3, <2>1, <2>2, <2>6
    <3>2. n \in Nat /\ n <= makers[m][j]
      <4>1. legs[x].size \in MinLot..makers[legs[x].maker][k]
        BY <2>1 DEF LegsFit
      <4>2. makers[m][k] \in Nat /\ MinLot \in Nat
        BY <1>1, QuotesLeq, RfqAssumption
      <4> QED BY <2>1, <2>2, <2>6, <4>1, <4>2
    <3>3. Mine(m, j)' \subseteq Mine(m, j) \cup {v}
      <4>1. \A y \in DOMAIN legs : legs[y].maker = m => y = x
        BY <2>1 DEF LegsFit, OneEach
      <4> QED BY <1>3, <1>6, <1>7, <2>2, <4>1
    <3>4. Taken(m, j, v, n)
      BY <1>5, <2>3, <2>4, <3>1, <3>2, <3>3 DEF Taken
    <3> QED BY <3>4
  <2> QED BY <2>5, <2>6
<1> QED BY <1>8, <1>9

\* Takers' steps: what is matched leaves the quote.
LEMMA TakeSteps ==
  ASSUME BooksInv, Free, UNCHANGED <<stock, bots>>, NEW k \in Side, NEW n \in Want,
         takeRfq(k, n) \/ takeFill(k, n)
  PROVE  BooksInv'
<1>1. MarketInv /\ SwapsOK /\ MakersOK /\ BotsOK /\ CountsOK
  BY DEF BooksInv, MarketInv
<1>2. Grows /\ spent' \in [Event -> Nat]
  BY <1>1, FreeGrows
<1>3. PICK legs : \E told \in BOOLEAN : LegsFit(k, legs) /\ OpenLegs(k, legs, told)
  BY <1>1, TakesFit
<1>4. PICK told \in BOOLEAN : LegsFit(k, legs) /\ OpenLegs(k, legs, told)
  BY <1>3
<1>5. SwapsOK' /\ MakersOK' /\ \A w \in SwapId : Exists(w) => swaps'[w] = swaps[w]
  BY <1>1, <1>4, LegsOpen
<1>6. BotsOK'
  <2>1. \A m \in Maker : Owned(m) \subseteq Owned(m)'
    BY <1>5 DEF Owned, Exists
  <2> QED BY <1>1, <2>1, BotsStay
<1>7. MarketInv'
  BY <1>1, <1>2, <1>5, <1>6 DEF MarketInv, CountsOK
<1>8. ASSUME NEW m \in Maker, NEW j \in Side
      PROVE  Debt(m, j)' /\ Backed(m, j)'
  <2>1. Debt(m, j) /\ Backed(m, j)
    BY DEF BooksInv
  <2>2. CASE Untaken(m, j)
    BY <1>1, <1>2, <1>7, <2>1, <2>2, UntakenKeeps
  <2>3. ASSUME NEW v, NEW x, Taken(m, j, v, x)
        PROVE  Debt(m, j)' /\ Backed(m, j)'
    BY <1>1, <1>2, <1>7, <2>1, <2>3, TakenKeeps
  <2> QED BY <1>1, <1>4, <2>2, <2>3, LegsMean
<1> QED BY <1>7, <1>8 DEF BooksInv

-----------------------------------------------------------------------------
LEMMA BooksInit == Init => BooksInv
<1> SUFFICES ASSUME Init PROVE BooksInv
  OBVIOUS
<1>1. \A w \in SwapId : ~Exists(w)
  BY DEF Init, RfqInit, Exists, NoSwap
<1>2. SwapsOK
  <2>1. DOMAIN swaps = SwapId
    BY DEF Init, RfqInit
  <2>2. 0 \in 0..MaxSwaps /\ \A w \in SwapId : ~(w <= 0)
    BY RfqAssumption DEF SwapId
  <2> QED BY <1>1, <2>1, <2>2 DEF SwapsOK, SwapOK
<1>3. MakersOK
  <2>1. DOMAIN makers = Maker /\ \A m \in Maker : makers[m] = NoQuote
    BY DEF Init, RfqInit
  <2>2. \A m \in Maker, k \in Side : 0 <= Ceiling[m][k]
    BY MarketAssumption
  <2> QED BY <2>1, <2>2, NoQuoteOK DEF MakersOK, MakerOK
<1>4. DOMAIN bots = Maker /\ \A m \in Maker : bots[m].at # "sized" /\ BotOK(m)
  <2>1. DOMAIN bots = Maker /\ \A m \in Maker : bots[m] = NoBot \/ bots[m] = PausedBot
    BY DEF Init
  <2>2. NoBot = [at |-> "idle", q |-> <<>>, handling |-> {}, inflight |-> {}]
    BY DEF NoBot
  <2>3. PausedBot = [at |-> "paused", q |-> <<>>, handling |-> {}, inflight |-> {}]
    <3>1. PICK nb : nb = [at |-> "idle", q |-> <<>>, handling |-> {}, inflight |-> {}]
      OBVIOUS
    <3>2. PausedBot = [nb EXCEPT !.at = "paused"]
      BY <2>2, <3>1 DEF PausedBot
    <3> QED BY <3>1, <3>2
  <2> QED BY <2>1, <2>2, <2>3 DEF BotOK
<1>5. CountsOK /\ stock = Stock /\ \A e \in Event : spent[e] = 0
  BY MarketAssumption DEF Init, CountsOK
<1>6. MarketInv
  BY <1>2, <1>3, <1>4, <1>5 DEF MarketInv, BotsOK
<1>7. ASSUME NEW m \in Maker, NEW k \in Side
      PROVE  Debt(m, k) /\ Backed(m, k)
  <2>1. Mine(m, k) = {}
    BY <1>1 DEF Mine
  <2>2. Left(m, k) = {} /\ Loose(m, k) = {} /\ Load(m, k) = {} /\ Locked(m, k) = {}
    BY <2>1 DEF Left, Loose, Load, Locked
  <2>3. SizeOf(Left(m, k)) = 0 /\ SizeOf(Loose(m, k)) = 0 /\ SizeOf(Load(m, k)) = 0 /\ SizeOf(Locked(m, k)) = 0
    BY <2>2, SumEmpty DEF SizeOf
  <2>4. PICK c \in Nat, b \in Nat : c = Ceiling[m][k] /\ b = Stock[m][k]
    BY MarketAssumption
  <2>5. Slack(m, k) = c
    <3>1. spent["lost"] = 0 /\ spent["fails"] = 0 /\ spent["crash"] = 0
      BY <1>5 DEF Event
    <3>2. c * (1 + 0 + 0) + (b + c) * 0 = c
      BY <2>4
    <3> QED BY <2>4, <3>1, <3>2 DEF Slack
  <2>6. makers[m][k] = 0 /\ Pending(m, k) = 0 /\ stock[m][k] = b
    BY <1>4, <1>5, <2>4, NoQuoteOK DEF Pending, Init, RfqInit
  <2>7. Solvent(0, 0, 0, 0, 0, b, c, c)
    BY <2>4 DEF Solvent
  <2>8. Debt(m, k)
    BY <2>3, <2>4, <2>5, <2>6, <2>7 DEF Debt
  <2>9. Backed(m, k)
    BY <2>3, <2>4, <2>6 DEF Backed
  <2> QED BY <2>8, <2>9
<1> QED BY <1>6, <1>7 DEF BooksInv

LEMMA BooksStep == BooksInv /\ [Next]_vars => BooksInv'
<1> SUFFICES ASSUME BooksInv, [Next]_vars PROVE BooksInv'
  OBVIOUS
<1>0. CountsOK
  BY DEF BooksInv, MarketInv
<1>1. ASSUME NEW k \in Side, NEW n \in Want, Take(k, n) \/ Fill(k, n)
      PROVE  BooksInv'
  BY <1>1, TakeSteps DEF Take, Fill
<1>2. CASE Status
  <2>1. Grows /\ spent' \in [Event -> Nat]
    BY <1>0, <1>2, FreeGrows DEF Status
  <2> QED BY <1>2, <2>1, QueueSteps DEF Status
<1>3. CASE Restart
  <2>1. Grows /\ spent' \in [Event -> Nat]
    <3>1. "restart" \in Event
      BY DEF Event
    <3> QED BY <1>0, <1>3, <3>1, UseGrows DEF Restart
  <2> QED BY <1>3, <2>1, QueueSteps DEF Restart
<1>4. ASSUME NEW w \in SwapId, TakerActs(w) \/ TakerCancels(w) \/ Refunded(w) \/ Completed(w)
      PROVE  BooksInv'
  <2>1. Grows /\ spent' \in [Event -> Nat]
    <3>1. "cancel" \in Event /\ "refund" \in Event
      BY DEF Event
    <3> QED BY <1>0, <1>4, <3>1, UseGrows, FreeGrows DEF TakerActs, TakerCancels, Refunded, Completed
  <2> QED BY <1>4, <2>1, FateSteps DEF TakerActs, TakerCancels, Refunded, Completed
<1>5. ASSUME NEW m \in Maker, ReadBalance(m)
      PROVE  BooksInv'
  BY <1>5, BalanceRead
<1>6. ASSUME NEW m \in Maker, NEW lost \in BOOLEAN, Ping(m, lost)
      PROVE  BooksInv'
  BY <1>6, Pinged
<1>7. ASSUME NEW m \in Maker, Pause(m) \/ Resume(m)
      PROVE  BooksInv'
  BY <1>7, Rested
<1>8. ASSUME NEW m \in Maker, NEW w \in SwapId, BotJoins(m, w)
      PROVE  BooksInv'
  <2>1. Grows /\ spent' \in [Event -> Nat]
    BY <1>0, <1>8, FreeGrows DEF BotJoins
  <2> QED BY <1>8, <2>1, FateSteps DEF BotJoins
<1>9. ASSUME NEW m \in Maker, NEW w \in SwapId, BotPays(m, w)
      PROVE  BooksInv'
  BY <1>9, PaidOut
<1>10. ASSUME NEW m \in Maker, NEW w \in SwapId, RunFails(m, w)
       PROVE  BooksInv'
  BY <1>10, Failed
<1>11. ASSUME NEW m \in Maker, NEW w \in SwapId, RunEnds(m, w)
       PROVE  BooksInv'
  BY <1>11, Ended
<1>12. ASSUME NEW m \in Maker, BotRestarts(m)
       PROVE  BooksInv'
  BY <1>12, Restarted
<1>13. CASE Tick
  <2>1. Grows /\ spent' \in [Event -> Nat]
    BY <1>0, <1>13, FreeGrows DEF Tick
  <2> QED BY <1>13, <2>1, QueueSteps DEF Tick
<1>14. CASE UNCHANGED vars
  <2>1. UNCHANGED rfqVars /\ UNCHANGED <<stock, bots>> /\ Free
    BY <1>14 DEF vars, Free
  <2>2. Grows /\ spent' \in [Event -> Nat]
    BY <1>0, <2>1, FreeGrows
  <2> QED BY <2>1, <2>2, QueueSteps
<1>15. CASE Next
  BY <1>1, <1>2, <1>3, <1>4, <1>5, <1>6, <1>7, <1>8, <1>9, <1>10, <1>11, <1>12, <1>13, <1>15 DEF Next
<1> QED BY <1>14, <1>15

\* What a maker owes is part of what its books count.
LEMMA BooksBound == BooksInv => OverdraftBounded
<1> SUFFICES ASSUME BooksInv, NEW m \in Maker, NEW k \in Side
             PROVE  SizeOf(Due(m, k)) <= stock[m][k] + Slack(m, k)
  BY DEF OverdraftBounded
<1>1. MarketInv /\ CountsOK /\ Debt(m, k) /\ Backed(m, k)
  BY DEF BooksInv, MarketInv
<1>2. Slack(m, k) \in Nat
  <2>1. PICK c \in Nat, b \in Nat : c = Ceiling[m][k] /\ b = Stock[m][k]
    BY MarketAssumption
  <2>2. PICK x \in Nat, y \in Nat, z \in Nat : x = spent["lost"] /\ y = spent["fails"] /\ z = spent["crash"]
    BY <1>1 DEF CountsOK, Event
  <2>3. Slack(m, k) = c * (1 + x + y) + (b + c) * z
    BY <2>1, <2>2 DEF Slack
  <2>4. c * (1 + x + y) \in Nat /\ (b + c) * z \in Nat
    OBVIOUS
  <2> QED BY <2>3, <2>4
<1>3. Tallied(m, k)
  BY <1>1, <1>2, TalliedIs
<1>4. PICK l, o, d, e, q, p, h, s, c, b \in Nat :
         /\ BooksNow(m, k, Sizes(swaps), l, o, d, e) /\ Solvent(l, o, d, q, p, h, s, c) /\ h + e <= b
         /\ q = makers[m][k] /\ p = Pending(m, k) /\ h = stock[m][k] /\ s = Slack(m, k)
         /\ c = Ceiling[m][k] /\ b = Stock[m][k] /\ q <= c /\ p <= c
  BY <1>3 DEF Tallied
<1>5. Due(m, k) \subseteq Load(m, k)
  BY DEF Due, Load, Over, Open, Mine
<1>6. PICK f, due, n : f = Sizes(swaps) /\ due = Due(m, k) /\ n = SumFunctionOnSet(f, due)
  OBVIOUS
<1>7. n \in Nat /\ n <= d
  BY <1>4, <1>5, <1>6, SizeLess DEF BooksNow
<1>8. n <= h + s
  BY <1>4, <1>7 DEF Solvent
<1> QED BY <1>4, <1>6, <1>8 DEF SizeOf

LEMMA QuotesPlan == BooksInv => PlanFills
<1> SUFFICES ASSUME BooksInv, NEW k \in Side, NEW want \in Want, NEW ranked \in Ranked(k)
             PROVE  PlanFine(k, want, ranked)
  BY DEF PlanFills, PlanFine
<1>1. \A m \in Maker : makers[m][k] \in Nat
  BY QuotesLeq DEF BooksInv, MarketInv
<1>2. want \in Nat
  BY MarketAssumption
<1> QED BY <1>1, <1>2, PlansAreFine

\* What a maker has to pay, with what it quotes and is about to quote, is covered
\* by what it holds and by the slack, at every step of its loop (maker-bot.js:
\* 131-165) and of the coordinator's book (rfq.js:62-86, 192-204).
THEOREM BooksAlways == Spec => []BooksInv
BY BooksInit, BooksStep, PTL DEF Spec

\* No maker is matched beyond its balance by more than one ceiling, one more for
\* each lost ping or failed run, and a stock and a ceiling for each restart of its
\* bot, for any makers, sizes and faults (maker-bot.js:131-165, rfq.js:192-204).
THEOREM OverdraftIsBounded == Spec => []OverdraftBounded
BY BooksAlways, BooksBound, PTL

\* For any book and any size asked, what planFill buys (rfq.js:223-249) is
\* tradable, adds up, leaves no better price unused and misses less than one
\* minimum swap of what could be had.
THEOREM PlansFill == Spec => []PlanFills
BY BooksAlways, QuotesPlan, PTL
=============================================================================
