------------------------- MODULE SwapEngine_proofs -------------------------
(***************************************************************************)
(* Lemmas about the functions on the swap's record that the handlers of    *)
(* SwapEngine are built from: what each pass of poll, applyEffects and the *)
(* watchtower's steps preserve.                                            *)
(***************************************************************************)
EXTENDS SwapEngine, Integers, TLAPS

\* Each field of a record can be replaced by a value of its type.
LEMMA FieldTypes ==
  ASSUME NEW r \in Swap
  PROVE  /\ r.state \in States /\ r.joined \in SUBSET Role
         /\ r.lock \in [Leg -> Nat]
         /\ r.funding \in [Leg -> Funding] /\ r.short \in [Leg -> Funding]
         /\ r.heights \in [Leg -> 0..MaxHeight] /\ r.preimage \in BOOLEAN
         /\ r.finish \in [Role -> Bundle] /\ r.wt \in SUBSET (Role \X Kind)
         /\ r.broadcasts \in SUBSET (Leg \X Kind)
         /\ r.refund \in [Leg -> Refundable] /\ r.cleared \in BOOLEAN
  BY DEF Swap

\* A record keeps its type when its state is replaced.
LEMMA SetState ==
  ASSUME NEW r \in Swap, NEW v \in States
  PROVE  [r EXCEPT !.state = v] \in Swap
  BY DEF Swap

\* A record keeps its type when its deposits are replaced.
LEMMA SetFunding ==
  ASSUME NEW r \in Swap, NEW v \in [Leg -> Funding]
  PROVE  [r EXCEPT !.funding = v] \in Swap
  BY DEF Swap

\* A record keeps its type when a lookup replaces its deposits.
LEMMA SetLookup ==
  ASSUME NEW r \in Swap, NEW v \in [Leg -> Funding], NEW w \in [Leg -> Funding]
  PROVE  [r EXCEPT !.funding = v, !.short = w] \in Swap
  BY DEF Swap

\* What a lookup records is a deposit.
LEMMA SeenType ==
  ASSUME ChainTypeOK, NEW l \in Leg
  PROVE  Seen(l) \in Funding /\ NoFunding \in Funding
  BY ChainAssumption DEF Seen, Funding, NoFunding, ChainTypeOK, Deposit

\* The lookups keep the record typed and within the chains' heights.
LEMMA FindFundingType ==
  ASSUME ChainTypeOK, ChainShape, NEW r \in Swap, NEW legs, Reached(r)
  PROVE  findFunding(r, legs) \in Swap /\ Reached(findFunding(r, legs))
<1>1. findFunding(r, legs) \in Swap
  BY SeenType, FieldTypes, SetLookup DEF findFunding
<1>2. ASSUME NEW l \in Leg PROVE findFunding(r, legs).funding[l].h <= height[l]
  <2>1. Seen(l).h <= height[l] /\ NoFunding.h <= height[l]
    BY DEF Seen, NoFunding, ChainShape, ChainTypeOK
  <2>2. r.funding[l].h <= height[l]
    BY DEF Reached
  <2>3. findFunding(r, legs).funding[l] \in {r.funding[l], Seen(l), NoFunding}
    BY DEF findFunding, Swap
  <2> QED BY <2>1, <2>2, <2>3
<1> QED BY <1>1, <1>2 DEF Reached

\* A record that differs in nothing the truth depends on is as true.
LEMMA SameTruth ==
  ASSUME NEW r \in Swap, NEW q \in Swap,
         \A l \in Leg : /\ q.funding[l].h = r.funding[l].h
                        /\ q.funding[l].id = r.funding[l].id
                        /\ q.funding[l].confs = r.funding[l].confs,
         q.state = "CLAIMABLE" => r.state = "CLAIMABLE",
         q.cleared = r.cleared
  PROVE  (Reached(r) => Reached(q)) /\ (RecordTrue(r) => RecordTrue(q))
  BY DEF Reached, RecordTrue, DepositTrue

\* The lookups record only what the chains hold.
LEMMA FindFundingTrue ==
  ASSUME ChainTypeOK, ChainShape, NEW r \in Swap, NEW legs, RecordTrue(r)
  PROVE  RecordTrue(findFunding(r, legs))
<1> DEFINE q == findFunding(r, legs)
<1>1. ASSUME NEW l \in Leg PROVE DepositTrue(q, l)
  <2>1. CASE q.funding[l] = r.funding[l]
    BY <2>1 DEF RecordTrue, DepositTrue
  <2>2. CASE q.funding[l] = NoFunding
    BY <2>2 DEF NoFunding, DepositTrue
  <2>3. CASE q.funding[l] = Seen(l) /\ dep[l].ok
    <3>1. Depth(l) >= 0
      BY ChainAssumption DEF Depth, ChainTypeOK, ChainShape, Deposit
    <3>2. dep[l].at # 0 => dep[l].st = "confirmed"
      BY DEF ChainShape
    <3> QED BY <2>3, <3>1, <3>2 DEF Seen, DepositTrue
  <2> QED BY <2>1, <2>2, <2>3 DEF findFunding, Swap
<1>2. q.state = r.state /\ q.cleared = r.cleared
  BY DEF findFunding, Swap
<1> QED BY <1>1, <1>2 DEF RecordTrue

\* Marking a deposit spent changes nothing else of it.
LEMMA SetSpent ==
  ASSUME NEW f \in Funding, NEW b \in BOOLEAN
  PROVE  LET g == [f EXCEPT !.spent = b]
         IN g \in Funding /\ g.h = f.h /\ g.id = f.id /\ g.confs = f.confs
  BY DEF Funding

\* A record whose deposits are only marked spent.
LEMMA SpentOnly ==
  ASSUME NEW r \in Swap, NEW b \in [Leg -> BOOLEAN]
  PROVE  LET q == [r EXCEPT !.funding = [l \in Leg |-> [r.funding[l] EXCEPT !.spent = b[l]]]]
         IN /\ q \in Swap /\ q.state = r.state
            /\ Reached(r) => Reached(q)
            /\ RecordTrue(r) => RecordTrue(q)
<1> DEFINE F == [l \in Leg |-> [r.funding[l] EXCEPT !.spent = b[l]]]
           q == [r EXCEPT !.funding = F]
<1>1. \A l \in Leg : r.funding[l] \in Funding /\ b[l] \in BOOLEAN
  BY FieldTypes
<1>2. \A l \in Leg : /\ F[l] \in Funding /\ F[l].h = r.funding[l].h
                     /\ F[l].id = r.funding[l].id /\ F[l].confs = r.funding[l].confs
  BY <1>1, SetSpent
<1>3. F \in [Leg -> Funding]
  BY <1>2
<1> HIDE DEF F
<1>4. q \in Swap /\ q.funding = F /\ q.state = r.state /\ q.cleared = r.cleared
  BY <1>3, SetFunding DEF Swap
<1>5. (Reached(r) => Reached(q)) /\ (RecordTrue(r) => RecordTrue(q))
  BY <1>2, <1>4, SameTruth
<1> QED BY <1>4, <1>5 DEF F

\* Marking deposits spent keeps the record typed and true.
LEMMA MarkSpentOK ==
  ASSUME NEW r \in Swap, NEW legs
  PROVE  /\ markSpent(r, legs) \in Swap
         /\ Reached(r) => Reached(markSpent(r, legs))
         /\ RecordTrue(r) => RecordTrue(markSpent(r, legs))
<1> DEFINE b == [l \in Leg |-> r.funding[l].spent \/ (l \in legs /\ Gone(l, r.funding[l]))]
<1>1. \A l \in Leg : r.funding[l].spent \in BOOLEAN
  <2>1. \A l \in Leg : r.funding[l] \in Funding
    BY FieldTypes
  <2> QED BY <2>1 DEF Funding
<1>2. b \in [Leg -> BOOLEAN]
  BY <1>1 DEF Gone, IsUnspent
<1>3. markSpent(r, legs) =
        [r EXCEPT !.funding = [l \in Leg |-> [r.funding[l] EXCEPT !.spent = b[l]]]]
  BY DEF markSpent
<1> HIDE DEF b
<1> QED BY <1>2, <1>3, SpentOnly

\* Replacing the underfunded deposits keeps the record typed and true.
LEMMA SetShort ==
  ASSUME NEW r \in Swap, NEW v \in [Leg -> Funding]
  PROVE  LET q == [r EXCEPT !.short = v]
         IN /\ q \in Swap
            /\ Reached(r) => Reached(q)
            /\ RecordTrue(r) => RecordTrue(q)
<1> DEFINE q == [r EXCEPT !.short = v]
<1>1. q \in Swap /\ q.funding = r.funding /\ q.state = r.state /\ q.cleared = r.cleared
  BY DEF Swap
<1> QED BY <1>1, SameTruth

\* Marking underfunded deposits spent keeps the record typed and true.
LEMMA MarkShortSpentOK ==
  ASSUME NEW r \in Swap, NEW legs
  PROVE  /\ markShortSpent(r, legs) \in Swap
         /\ Reached(r) => Reached(markShortSpent(r, legs))
         /\ RecordTrue(r) => RecordTrue(markShortSpent(r, legs))
<1> DEFINE v == [l \in Leg |-> [r.short[l] EXCEPT !.spent = @ \/ (l \in legs /\ Gone(l, r.short[l]))]]
<1>1. ASSUME NEW l \in Leg PROVE v[l] \in Funding
  <2>1. r.short[l] \in Funding
    BY FieldTypes
  <2>2. (r.short[l].spent \/ (l \in legs /\ Gone(l, r.short[l]))) \in BOOLEAN
    OBVIOUS
  <2> QED BY <2>1, <2>2, SetSpent
<1>2. v \in [Leg -> Funding]
  BY <1>1
<1>3. markShortSpent(r, legs) = [r EXCEPT !.short = v]
  BY DEF markShortSpent
<1> HIDE DEF v
<1> QED BY <1>2, <1>3, SetShort

\* Classifying out-of-band spends keeps the record typed and true.
LEMMA BackfillOK ==
  ASSUME NEW r \in Swap, NEW legs \in SUBSET Leg, ChainTypeOK
  PROVE  LET q == backfill(r, legs)
         IN /\ q \in Swap /\ q.heights = r.heights
            /\ Reached(r) => Reached(q)
            /\ RecordTrue(r) => RecordTrue(q)
<1> DEFINE q == backfill(r, legs)
           found == {l \in legs : Unclassified(r, l)}
           p == r.preimage \/ \E l \in found : spend[l].kind = "claim"
           b == r.broadcasts \cup {<<l, spend[l].kind>> : l \in found}
<1>1. q = [r EXCEPT !.preimage = p, !.broadcasts = b]
  BY DEF backfill
<1>2. p \in BOOLEAN
  BY FieldTypes
<1>3. \A l \in found : spend[l].kind \in Kind
  BY DEF Unclassified, ChainTypeOK, Spend
<1>4. b \in SUBSET (Leg \X Kind)
  <2>1. \A l \in found : <<l, spend[l].kind>> \in Leg \X Kind
    BY <1>3
  <2> QED BY <2>1, FieldTypes
<1> HIDE DEF p, b, found, q
<1>5. q \in Swap /\ q.funding = r.funding /\ q.state = r.state /\ q.cleared = r.cleared
      /\ q.heights = r.heights
  BY <1>1, <1>2, <1>4 DEF Swap
<1>6. (Reached(r) => Reached(q)) /\ (RecordTrue(r) => RecordTrue(q))
  BY <1>5, SameTruth
<1> QED BY <1>5, <1>6 DEF q

\* Depths are recounted from the heights this poll read.
LEMMA CountConfsOK ==
  ASSUME NEW r \in Swap, ChainTypeOK, ChainShape, Reached(r), r.heights = height
  PROVE  LET q == countConfs(r)
         IN /\ q \in Swap /\ Reached(q)
            /\ RecordTrue(r) => RecordTrue(q)
<1> DEFINE F == [l \in Leg |-> [r.funding[l] EXCEPT !.confs =
                   IF r.funding[l].h = 0 THEN 0 ELSE r.heights[l] + 1 - r.funding[l].h]]
           q == countConfs(r)
<1>1. ASSUME NEW l \in Leg
      PROVE  /\ F[l] \in Funding /\ F[l].h = r.funding[l].h /\ F[l].id = r.funding[l].id
             /\ F[l].h # 0 => F[l].confs = height[l] + 1 - F[l].h
  <2> DEFINE c == IF r.funding[l].h = 0 THEN 0 ELSE r.heights[l] + 1 - r.funding[l].h
  <2>1. r.funding[l] \in Funding
    BY FieldTypes
  <2>2. r.funding[l].h \in 0..MaxHeight
    BY <2>1 DEF Funding
  <2>3. height[l] \in 1..MaxHeight /\ r.funding[l].h <= height[l] /\ r.heights[l] = height[l]
    BY DEF ChainTypeOK, Reached
  <2>4. c \in 0..MaxHeight
    BY <2>2, <2>3, ChainAssumption
  <2>5. F[l] = [r.funding[l] EXCEPT !.confs = c]
    OBVIOUS
  <2>6. r.funding[l].h # 0 => c = height[l] + 1 - r.funding[l].h
    BY <2>3
  <2> HIDE DEF c, F
  <2> QED BY <2>1, <2>4, <2>5, <2>6 DEF Funding
<1>2. F \in [Leg -> Funding]
  BY <1>1
<1>3. q = [r EXCEPT !.funding = F]
  BY DEF countConfs
<1> HIDE DEF F, q
<1>4. q \in Swap /\ q.funding = F /\ q.state = r.state /\ q.cleared = r.cleared
  BY <1>2, <1>3, SetFunding DEF Swap
<1>5. Reached(q)
  BY <1>1, <1>4 DEF Reached
<1>6. ASSUME RecordTrue(r) PROVE RecordTrue(q)
  <2>1. ASSUME NEW l \in Leg PROVE DepositTrue(q, l)
    <3>1. DepositTrue(r, l)
      BY <1>6 DEF RecordTrue
    <3>2. height[l] \in 1..MaxHeight
      BY DEF ChainTypeOK
    <3>3. F[l].h \in Nat
      BY <1>1 DEF Funding
    <3>4. CASE F[l].h = 0
      BY <1>4, <3>4 DEF DepositTrue
    <3>5. CASE F[l].h # 0
      <4>1. Depth(l) = height[l] + 1 - F[l].h
        BY <1>1, <3>1, <3>5 DEF DepositTrue, Depth
      <4>2. F[l].confs <= Depth(l)
        BY <1>1, <3>2, <3>3, <3>5, <4>1
      <4> QED BY <1>1, <1>4, <3>1, <4>2 DEF DepositTrue
    <3> QED BY <3>4, <3>5
  <2> QED BY <2>1, <1>4, <1>6 DEF RecordTrue
<1> QED BY <1>4, <1>5, <1>6 DEF q

\* What poll counts as buried is buried on the chain.
LEMMA BuriedIsTrue ==
  ASSUME ChainTypeOK, NEW r \in Swap, RecordTrue(r), NEW l \in Leg \ Trusted, Buried(r, l)
  PROVE  BuriedOnChain(l)
<1>1. r.funding[l].h # 0 /\ r.funding[l].confs >= Target[l]
  BY DEF Buried
<1>2. r.funding[l].confs \in Nat /\ Target[l] \in Nat
  <2>1. r.funding[l] \in Funding
    BY FieldTypes
  <2> QED BY <2>1, EngineAssumption DEF Funding
<1>3. Depth(l) \in Int
  BY ChainAssumption DEF Depth, ChainTypeOK, Deposit
<1>4. dep[l].st = "confirmed" /\ dep[l].ok /\ r.funding[l].confs <= Depth(l)
  BY <1>1 DEF RecordTrue, DepositTrue
<1> QED BY <1>1, <1>2, <1>3, <1>4 DEF BuriedOnChain

\* The state and the funding gate that poll settles on are true of the chains.
LEMMA SettleOK ==
  ASSUME ChainTypeOK, NEW r \in Swap
  PROVE  LET q == settle(r)
         IN /\ q \in Swap
            /\ Reached(r) => Reached(q)
            /\ RecordTrue(r) => RecordTrue(q)
<1> DEFINE q == settle(r)
           c == r.cleared \/ Buried(r, "btc")
           st == IF Settled(r) THEN "COMPLETE"
                 ELSE IF r.state \in {"CLAIMED", "CANCELED"} THEN r.state ELSE FundedState(r)
<1>1. q = [r EXCEPT !.cleared = c, !.state = st]
  BY DEF settle
<1>2. c \in BOOLEAN
  BY FieldTypes DEF Buried
<1>3. FundedState(r) \in States
  BY DEF FundedState, States
<1>4. st \in States
  BY <1>3, FieldTypes DEF States
<1>5. st = "CLAIMABLE" => \A l \in Leg : Buried(r, l)
  BY DEF FundedState
<1> HIDE DEF q, st, c
<1>6. q \in Swap /\ q.funding = r.funding /\ q.state = st /\ q.cleared = c
  BY <1>1, <1>2, <1>4 DEF Swap
<1>7. ASSUME RecordTrue(r) PROVE RecordTrue(q)
  <2>1. \A l \in Leg : DepositTrue(q, l)
    BY <1>6, <1>7 DEF RecordTrue, DepositTrue
  <2>2. q.state = "CLAIMABLE" => \A l \in Leg \ Trusted : BuriedOnChain(l)
    BY <1>5, <1>6, <1>7, BuriedIsTrue
  <2>3. (q.cleared /\ "btc" \notin Trusted) => BuriedOnChain("btc")
    <3>1. "btc" \in Leg
      BY DEF Leg
    <3>2. r.cleared /\ "btc" \notin Trusted => BuriedOnChain("btc")
      BY <1>7 DEF RecordTrue
    <3>3. Buried(r, "btc") /\ "btc" \notin Trusted => BuriedOnChain("btc")
      BY <3>1, <1>7, BuriedIsTrue
    <3> QED BY <1>6, <3>2, <3>3 DEF c
  <2> QED BY <2>1, <2>2, <2>3 DEF RecordTrue
<1> QED BY <1>6, <1>7 DEF Reached, q

\* Computing the refund windows keeps the record typed and true.
LEMMA RefundableOK ==
  ASSUME NEW r \in Swap
  PROVE  LET q == refundable(r)
         IN /\ q \in Swap
            /\ Reached(r) => Reached(q)
            /\ RecordTrue(r) => RecordTrue(q)
<1> DEFINE q == refundable(r)
           R == [l \in Leg |->
                  [at |-> r.lock[l],
                   available |-> LET f == Tracked(r, l)
                                 IN /\ f.id # 0 /\ ~f.spent /\ f.h # 0
                                    /\ r.heights[l] >= r.lock[l]
                                    /\ l = "qbit" => ~r.preimage]]
<1>1. q = [r EXCEPT !.refund = R]
  BY DEF refundable
<1>2. R \in [Leg -> Refundable]
  BY FieldTypes DEF Refundable
<1> HIDE DEF R, q
<1>3. q \in Swap /\ q.funding = r.funding /\ q.state = r.state /\ q.cleared = r.cleared
  BY <1>1, <1>2 DEF Swap
<1>4. (Reached(r) => Reached(q)) /\ (RecordTrue(r) => RecordTrue(q))
  BY <1>3, SameTruth
<1> QED BY <1>3, <1>4 DEF q

\* Reading new heights keeps the record typed and true.
LEMMA SetHeights ==
  ASSUME ChainTypeOK, NEW r \in Swap
  PROVE  LET q == [r EXCEPT !.heights = height]
         IN /\ q \in Swap /\ q.heights = height
            /\ Reached(r) => Reached(q)
            /\ RecordTrue(r) => RecordTrue(q)
<1> DEFINE q == [r EXCEPT !.heights = height]
<1>1. height \in [Leg -> 0..MaxHeight]
  BY ChainAssumption DEF ChainTypeOK
<1>2. q \in Swap /\ q.heights = height /\ q.funding = r.funding /\ q.state = r.state
      /\ q.cleared = r.cleared
  BY <1>1 DEF Swap
<1>3. (Reached(r) => Reached(q)) /\ (RecordTrue(r) => RecordTrue(q))
  BY <1>2, SameTruth
<1> QED BY <1>2, <1>3

\* No pass up to the depth count changes the heights poll has read.
LEMMA HeightsKept ==
  ASSUME NEW r \in Swap, NEW legs
  PROVE  /\ findFunding(r, legs).heights = r.heights
         /\ markSpent(r, legs).heights = r.heights
         /\ markShortSpent(r, legs).heights = r.heights
  BY DEF findFunding, markSpent, markShortSpent, Swap

\* A whole poll turns a true record into a true record.
LEMMA PollOK ==
  ASSUME ChainTypeOK, ChainShape, NEW r \in Swap, Reached(r), NEW named \in SUBSET Leg
  PROVE  LET q == poll(r, named)
         IN /\ q \in Swap /\ Reached(q)
            /\ RecordTrue(r) => RecordTrue(q)
<1> DEFINE h == [r EXCEPT !.heights = height]
           f == findFunding(h, Leg)
           m == markSpent(f, Leg)
           n == markShortSpent(m, Leg)
           b == backfill(n, named)
           c == countConfs(b)
           t == settle(c)
<1>1. h \in Swap /\ h.heights = height /\ Reached(h) /\ (RecordTrue(r) => RecordTrue(h))
  BY SetHeights
<1>a. poll(r, named) = refundable(t)
  BY DEF poll
<1> HIDE DEF h
<1>2. f \in Swap /\ f.heights = height /\ Reached(f) /\ (RecordTrue(r) => RecordTrue(f))
  BY <1>1, FindFundingType, FindFundingTrue, HeightsKept
<1> HIDE DEF f
<1>3. m \in Swap /\ m.heights = height /\ Reached(m) /\ (RecordTrue(r) => RecordTrue(m))
  BY <1>2, MarkSpentOK, HeightsKept
<1> HIDE DEF m
<1>4. n \in Swap /\ n.heights = height /\ Reached(n) /\ (RecordTrue(r) => RecordTrue(n))
  BY <1>3, MarkShortSpentOK, HeightsKept
<1> HIDE DEF n
<1>5. b \in Swap /\ b.heights = height /\ Reached(b) /\ (RecordTrue(r) => RecordTrue(b))
  BY <1>4, BackfillOK
<1> HIDE DEF b
<1>6. c \in Swap /\ Reached(c) /\ (RecordTrue(r) => RecordTrue(c))
  BY <1>5, CountConfsOK
<1> HIDE DEF c
<1>7. t \in Swap /\ Reached(t) /\ (RecordTrue(r) => RecordTrue(t))
  BY <1>6, SettleOK
<1> HIDE DEF t
<1>8. refundable(t) \in Swap /\ Reached(refundable(t)) /\ (RecordTrue(r) => RecordTrue(refundable(t)))
  BY <1>7, RefundableOK
<1> QED BY <1>8, <1>a

\* So does a poll that a node error cuts short.
LEMMA CutShortOK ==
  ASSUME ChainTypeOK, ChainShape, NEW r \in Swap, Reached(r), NEW q \in CutShort(r)
  PROVE  /\ q \in Swap /\ Reached(q)
         /\ RecordTrue(r) => RecordTrue(q)
<1> DEFINE Good(x) == x \in Swap /\ Reached(x) /\ (RecordTrue(r) => RecordTrue(x))
           h == [r EXCEPT !.heights = height]
           f1 == findFunding(h, {"btc"})   f2 == findFunding(h, Leg)
           m1 == markSpent(f2, {"btc"})    m2 == markSpent(f2, Leg)
           n1 == markShortSpent(m2, {"btc"})
<1>1. q \in {r, h, f1, f2, m1, m2, n1}
  BY DEF CutShort
<1>2. Good(r) /\ Good(h)
  BY SetHeights
<1> HIDE DEF h
<1>3. Good(f1) /\ Good(f2)
  BY <1>2, FindFundingType, FindFundingTrue
<1> HIDE DEF f1, f2
<1>4. Good(m1) /\ Good(m2)
  BY <1>3, MarkSpentOK
<1> HIDE DEF m1, m2
<1>5. Good(n1)
  BY <1>4, MarkShortSpentOK
<1> HIDE DEF n1
<1> QED BY <1>1, <1>2, <1>3, <1>4, <1>5

\* applyEffects marks a deposit spent and moves the state on; it neither makes
\* a swap claimable nor learns of a deposit.
LEMMA ApplyEffectsOK ==
  ASSUME NEW r \in Swap, NEW l \in Leg, NEW k \in Kind, NEW lost \in BOOLEAN
  PROVE  LET q == applyEffects(r, l, k, lost)
         IN /\ q \in Swap
            /\ Reached(r) => Reached(q)
            /\ RecordTrue(r) => RecordTrue(q)
<1> DEFINE q == applyEffects(r, l, k, lost)
           b == r.broadcasts \cup {<<l, k>>}
           spent(f) == [f EXCEPT !.spent = f.spent \/ f.id # 0]
           F == [r.funding EXCEPT ![l] = spent(r.funding[l])]
           S == [r.short EXCEPT ![l] = spent(r.short[l])]
           st == IF l = "btc" THEN "COMPLETE" ELSE "CLAIMED"
<1>1. b \in SUBSET (Leg \X Kind)
  <2>1. <<l, k>> \in Leg \X Kind
    OBVIOUS
  <2> QED BY <2>1, FieldTypes
<1>2. r.funding[l] \in Funding /\ r.short[l] \in Funding
  BY FieldTypes
<1>3. (r.funding[l].spent \/ r.funding[l].id # 0) \in BOOLEAN
      /\ (r.short[l].spent \/ r.short[l].id # 0) \in BOOLEAN
  OBVIOUS
<1>4. /\ spent(r.funding[l]) \in Funding /\ spent(r.short[l]) \in Funding
      /\ spent(r.funding[l]).h = r.funding[l].h
      /\ spent(r.funding[l]).id = r.funding[l].id
      /\ spent(r.funding[l]).confs = r.funding[l].confs
  BY <1>2, <1>3, SetSpent
<1>5. q \in {[r EXCEPT !.broadcasts = b],
             [r EXCEPT !.broadcasts = b, !.preimage = TRUE, !.funding = F, !.state = st],
             [r EXCEPT !.broadcasts = b, !.funding = F, !.short = S, !.state = "REFUNDED"]}
  <2>1. CASE k = "claim" /\ lost
    BY <2>1 DEF applyEffects
  <2>2. CASE k = "claim" /\ ~lost
    BY <2>2 DEF applyEffects, Swap
  <2>3. CASE k = "refund"
    BY <2>3 DEF applyEffects, Swap
  <2> QED BY <2>1, <2>2, <2>3 DEF Kind
<1> HIDE DEF spent, q, b
<1>6. /\ F \in [Leg -> Funding] /\ S \in [Leg -> Funding]
      /\ \A m \in Leg : /\ F[m].h = r.funding[m].h /\ F[m].id = r.funding[m].id
                        /\ F[m].confs = r.funding[m].confs
  BY <1>4, FieldTypes
<1> HIDE DEF F, S
<1>7. st \in States \ {"CLAIMABLE"} /\ "REFUNDED" \in States \ {"CLAIMABLE"}
  BY DEF States
<1> HIDE DEF st
<1>8. q \in Swap
  <2>1. [r EXCEPT !.broadcasts = b] \in Swap
    BY <1>1 DEF Swap
  <2>2. [r EXCEPT !.broadcasts = b, !.preimage = TRUE, !.funding = F, !.state = st] \in Swap
    BY <1>1, <1>6, <1>7 DEF Swap
  <2>3. [r EXCEPT !.broadcasts = b, !.funding = F, !.short = S, !.state = "REFUNDED"] \in Swap
    BY <1>1, <1>6, <1>7 DEF Swap
  <2> QED BY <1>5, <2>1, <2>2, <2>3
<1>9. /\ q.funding \in {r.funding, F}
      /\ q.state = "CLAIMABLE" => r.state = "CLAIMABLE"
      /\ q.cleared = r.cleared
  BY <1>5, <1>7 DEF Swap
<1>10. (Reached(r) => Reached(q)) /\ (RecordTrue(r) => RecordTrue(q))
  BY <1>6, <1>8, <1>9, SameTruth
<1> QED BY <1>8, <1>10 DEF q

-----------------------------------------------------------------------------
\* The watchtower's steps work on what they have done so far.

Step == [s : Swap, spend : [Leg -> Spend], thrown : BOOLEAN]

Fine(x, r) == /\ x \in Step
              /\ Reached(r) => Reached(x.s)
              /\ RecordTrue(r) => RecordTrue(x.s)

\* A relayed spend is a spend.
LEMMA SentType ==
  ASSUME ChainTypeOK, NEW sp \in [Leg -> Spend], NEW l \in Leg, NEW k \in Kind
  PROVE  Sent(sp, l, k) \in [Leg -> Spend]
<1>1. [kind |-> k, at |-> 0, since |-> height[l]] \in Spend
  BY ChainAssumption DEF Spend, ChainTypeOK
<1> QED BY <1>1 DEF Sent

\* One send of the watchtower keeps what it works on typed and true.
LEMMA WtSendOK ==
  ASSUME ChainTypeOK, NEW r \in Swap, NEW x, Fine(x, r), NEW role \in Role, NEW k \in Kind,
         NEW lost \in BOOLEAN
  PROVE  Fine(wtSend(x, role, k, lost), r)
<1> DEFINE l == TheLeg(role, k)
           fails == lost /\ k = "claim"
           w == [x.s EXCEPT !.wt = @ \cup {<<role, k>>}]
           y == [s |-> applyEffects(w, l, k, fails), spend |-> Sent(x.spend, l, k),
                 thrown |-> fails]
<1>1. l \in Leg
  BY DEF TheLeg, Claims, Funds, Other, Leg
<1>2. x.s \in Swap /\ x.spend \in [Leg -> Spend]
  BY DEF Fine, Step
<1>3. w \in Swap /\ w.funding = x.s.funding /\ w.state = x.s.state /\ w.cleared = x.s.cleared
  <2>1. x.s.wt \cup {<<role, k>>} \in SUBSET (Role \X Kind)
    BY <1>2, FieldTypes
  <2> QED BY <1>2, <2>1 DEF Swap
<1>4. (Reached(x.s) => Reached(w)) /\ (RecordTrue(x.s) => RecordTrue(w))
  BY <1>2, <1>3, SameTruth
<1>5. wtSend(x, role, k, lost) \in {x, y}
  BY DEF wtSend
<1>6. fails \in BOOLEAN
  OBVIOUS
<1> HIDE DEF w, l, fails
<1>7. /\ applyEffects(w, l, k, fails) \in Swap
      /\ Reached(w) => Reached(applyEffects(w, l, k, fails))
      /\ RecordTrue(w) => RecordTrue(applyEffects(w, l, k, fails))
  BY <1>1, <1>3, <1>6, ApplyEffectsOK
<1>8. Sent(x.spend, l, k) \in [Leg -> Spend]
  BY <1>1, <1>2, SentType
<1>9. Fine(y, r)
  BY <1>4, <1>6, <1>7, <1>8 DEF Fine, Step
<1> QED BY <1>5, <1>9

\* So does a first send or a resend, due or not.
LEMMA StepsOK ==
  ASSUME ChainTypeOK, NEW r \in Swap, NEW x, Fine(x, r), NEW role \in Role, NEW k \in Kind,
         NEW lost \in BOOLEAN
  PROVE  Fine(first(x, role, k, lost), r) /\ Fine(resend(x, role, k, lost), r)
  BY WtSendOK DEF first, resend

\* So does the whole of driveWatchtower.
LEMMA DriveOK ==
  ASSUME ChainTypeOK, NEW r \in Swap, NEW x, Fine(x, r), NEW lost \in BOOLEAN
  PROVE  Fine(drive(x, lost), r)
<1> DEFINE c1 == first(x, "alice", "claim", lost)
           c2 == first(c1, "bob", "claim", lost)
           f1 == first(c2, "alice", "refund", FALSE)
           f2 == first(f1, "bob", "refund", FALSE)
           t  == refunds(c2)
           a1 == resend(t, "alice", "claim", lost)
           a2 == resend(a1, "bob", "claim", lost)
           b1 == resend(a2, "alice", "refund", FALSE)
           b2 == resend(b1, "bob", "refund", FALSE)
<1>0. "alice" \in Role /\ "bob" \in Role /\ "claim" \in Kind /\ "refund" \in Kind
  BY DEF Role, Kind
<1>a. drive(x, lost) = b2
  BY DEF drive
<1>b. t \in {c2, f2}
  BY DEF refunds
<1>1. Fine(c1, r)
  BY <1>0, StepsOK
<1> HIDE DEF c1
<1>2. Fine(c2, r)
  BY <1>0, <1>1, StepsOK
<1> HIDE DEF c2
<1>3. Fine(f1, r)
  BY <1>0, <1>2, StepsOK
<1> HIDE DEF f1
<1>4. Fine(f2, r)
  BY <1>0, <1>3, StepsOK
<1> HIDE DEF f2
<1>5. Fine(t, r)
  BY <1>b, <1>2, <1>4
<1> HIDE DEF t
<1>6. Fine(a1, r)
  BY <1>0, <1>5, StepsOK
<1> HIDE DEF a1
<1>7. Fine(a2, r)
  BY <1>0, <1>6, StepsOK
<1> HIDE DEF a2
<1>8. Fine(b1, r)
  BY <1>0, <1>7, StepsOK
<1> HIDE DEF b1
<1> QED BY <1>0, <1>8, <1>a, StepsOK
-----------------------------------------------------------------------------
\* What each function leaves alone, field by field.

\* The terms of the swap, what the parties armed and what the watchtower sent.
SameTerms(q, r) ==
  q.lock = r.lock /\ q.joined = r.joined /\ q.finish = r.finish /\ q.wt = r.wt

\* What is known of how the swap went.
SameCourse(q, r) ==
  q.state = r.state /\ q.preimage = r.preimage /\ q.broadcasts = r.broadcasts

\* The outpoints on record, with the heights they were seen at.
SameDeposits(q, r) ==
  \A l \in Leg : /\ q.funding[l].id = r.funding[l].id /\ q.funding[l].h = r.funding[l].h
                 /\ q.short[l].id = r.short[l].id /\ q.short[l].h = r.short[l].h

\* What one lookup of leg l makes of the deposit on record.
LookedUp(q, r, l) ==
  \/ q.funding[l] = r.funding[l] /\ (~LooksUp(r, l) \/ (Found(l, r.lock[l]) /\ ~dep[l].ok))
  \/ LooksUp(r, l) /\ Found(l, r.lock[l]) /\ dep[l].ok /\ q.funding[l] = Seen(l)
  \/ LooksUp(r, l) /\ ~Found(l, r.lock[l]) /\ q.funding[l] = NoFunding

\* A lookup touches the deposits on record and nothing else.
LEMMA FindFundingFields ==
  ASSUME NEW r \in Swap, NEW legs
  PROVE  LET q == findFunding(r, legs)
         IN /\ SameTerms(q, r) /\ SameCourse(q, r) /\ q.heights = r.heights
            /\ \A l \in Leg : /\ l \in legs => LookedUp(q, r, l)
                              /\ l \notin legs => q.funding[l] = r.funding[l]
                              /\ \/ q.short[l] = r.short[l]
                                 \/ /\ LooksUp(r, l) /\ Found(l, r.lock[l]) /\ ~dep[l].ok
                                    /\ q.short[l] = Seen(l)
<1> DEFINE q == findFunding(r, legs)
<1>1. SameTerms(q, r) /\ SameCourse(q, r) /\ q.heights = r.heights
  BY DEF findFunding, Swap, SameTerms, SameCourse
<1>2. ASSUME NEW l \in Leg
      PROVE  /\ q.funding[l] = IF l \notin legs \/ ~LooksUp(r, l) \/ (Found(l, r.lock[l]) /\ ~dep[l].ok)
                               THEN r.funding[l]
                               ELSE IF Found(l, r.lock[l]) THEN Seen(l) ELSE NoFunding
             /\ q.short[l] = IF l \in legs /\ LooksUp(r, l) /\ Found(l, r.lock[l]) /\ ~dep[l].ok
                             THEN Seen(l) ELSE r.short[l]
  BY DEF findFunding, Swap
<1> HIDE DEF q
<1> QED BY <1>1, <1>2 DEF q, LookedUp

\* The marking passes only mark deposits spent.
Marked(q, r) ==
  /\ SameTerms(q, r) /\ SameCourse(q, r) /\ q.heights = r.heights
  /\ SameDeposits(q, r)
  /\ \A l \in Leg : /\ r.funding[l].spent => q.funding[l].spent
                    /\ q.funding[l].spent => r.funding[l].spent \/ Gone(l, r.funding[l])
                    /\ q.funding[l].confs = r.funding[l].confs

LEMMA MarkSpentFields ==
  ASSUME NEW r \in Swap, NEW legs
  PROVE  LET q == markSpent(r, legs)
         IN /\ Marked(q, r)
            /\ \A l \in legs \cap Leg : Gone(l, r.funding[l]) => q.funding[l].spent
<1> DEFINE q == markSpent(r, legs)
<1>1. SameTerms(q, r) /\ SameCourse(q, r) /\ q.heights = r.heights /\ q.short = r.short
  BY DEF markSpent, Swap, SameTerms, SameCourse
<1>2. ASSUME NEW l \in Leg
      PROVE  /\ q.funding[l].id = r.funding[l].id /\ q.funding[l].h = r.funding[l].h
             /\ q.funding[l].confs = r.funding[l].confs
             /\ q.funding[l].spent = (r.funding[l].spent \/ (l \in legs /\ Gone(l, r.funding[l])))
  <2>1. r.funding[l] \in Funding
    BY FieldTypes
  <2>2. q.funding[l] = [r.funding[l] EXCEPT !.spent = @ \/ (l \in legs /\ Gone(l, r.funding[l]))]
    BY DEF markSpent, Swap
  <2> HIDE DEF q
  <2> QED BY <2>1, <2>2 DEF Funding
<1> HIDE DEF q
<1> QED BY <1>1, <1>2 DEF q, Marked, SameDeposits

LEMMA MarkShortSpentFields ==
  ASSUME NEW r \in Swap, NEW legs
  PROVE  LET q == markShortSpent(r, legs) IN Marked(q, r) /\ q.funding = r.funding
<1> DEFINE q == markShortSpent(r, legs)
<1>1. SameTerms(q, r) /\ SameCourse(q, r) /\ q.heights = r.heights /\ q.funding = r.funding
  BY DEF markShortSpent, Swap, SameTerms, SameCourse
<1>2. ASSUME NEW l \in Leg
      PROVE  q.short[l].id = r.short[l].id /\ q.short[l].h = r.short[l].h
  <2>1. r.short[l] \in Funding
    BY FieldTypes
  <2>2. q.short[l] = [r.short[l] EXCEPT !.spent = @ \/ (l \in legs /\ Gone(l, r.short[l]))]
    BY DEF markShortSpent, Swap
  <2> HIDE DEF q
  <2> QED BY <2>1, <2>2 DEF Funding
<1> HIDE DEF q
<1> QED BY <1>1, <1>2 DEF q, Marked, SameDeposits

\* Backfill records the spends it finds on the chain, and the preimage of a claim.
LEMMA BackfillFields ==
  ASSUME NEW r \in Swap, NEW legs \in SUBSET Leg
  PROVE  LET q == backfill(r, legs)
         IN /\ SameTerms(q, r) /\ q.state = r.state /\ q.heights = r.heights
            /\ q.funding = r.funding /\ q.short = r.short
            /\ q.preimage = (r.preimage \/ \E l \in legs : Unclassified(r, l) /\ spend[l].kind = "claim")
            /\ r.broadcasts \subseteq q.broadcasts
            /\ \A l \in Leg, k \in Kind :
                 <<l, k>> \in q.broadcasts => <<l, k>> \in r.broadcasts \/ spend[l].kind = k
<1> DEFINE q == backfill(r, legs)
           found == {l \in legs : Unclassified(r, l)}
           b == r.broadcasts \cup {<<l, spend[l].kind>> : l \in found}
           p == r.preimage \/ \E l \in found : spend[l].kind = "claim"
<1>1. q = [r EXCEPT !.preimage = p, !.broadcasts = b]
  BY DEF backfill
<1> HIDE DEF q, b, p
<1>2. /\ SameTerms(q, r) /\ q.state = r.state /\ q.heights = r.heights
      /\ q.funding = r.funding /\ q.short = r.short /\ q.preimage = p /\ q.broadcasts = b
  BY <1>1 DEF Swap, SameTerms
<1>3. r.broadcasts \subseteq b
  BY DEF b
<1>4. ASSUME NEW l \in Leg, NEW k \in Kind, <<l, k>> \in b
      PROVE  <<l, k>> \in r.broadcasts \/ spend[l].kind = k
  <2>1. \/ <<l, k>> \in r.broadcasts
        \/ \E m \in found : <<l, k>> = <<m, spend[m].kind>>
    BY <1>4 DEF b
  <2> QED BY <2>1
<1> QED BY <1>2, <1>3, <1>4 DEF q, p

\* Counting depths changes nothing else.
LEMMA CountConfsFields ==
  ASSUME NEW r \in Swap
  PROVE  LET q == countConfs(r)
         IN /\ SameTerms(q, r) /\ SameCourse(q, r) /\ q.heights = r.heights
            /\ SameDeposits(q, r)
            /\ \A l \in Leg : q.funding[l].spent = r.funding[l].spent
<1> DEFINE q == countConfs(r)
<1>1. SameTerms(q, r) /\ SameCourse(q, r) /\ q.heights = r.heights /\ q.short = r.short
  BY DEF countConfs, Swap, SameTerms, SameCourse
<1>2. ASSUME NEW l \in Leg
      PROVE  /\ q.funding[l].id = r.funding[l].id /\ q.funding[l].h = r.funding[l].h
             /\ q.funding[l].spent = r.funding[l].spent
  <2>1. r.funding[l] \in Funding
    BY FieldTypes
  <2>2. q.funding[l] = [r.funding[l] EXCEPT !.confs =
          IF r.funding[l].h = 0 THEN 0 ELSE r.heights[l] + 1 - r.funding[l].h]
    BY DEF countConfs, Swap
  <2> HIDE DEF q
  <2> QED BY <2>1, <2>2 DEF Funding
<1> HIDE DEF q
<1> QED BY <1>1, <1>2 DEF q, SameDeposits

\* Settling changes the state and the funding gate, refundable the refund windows.
LEMMA SettleFields ==
  ASSUME NEW r \in Swap, ChainTypeOK
  PROVE  LET q == refundable(settle(r))
         IN /\ SameTerms(q, r) /\ q.heights = r.heights /\ q.preimage = r.preimage
            /\ q.broadcasts = r.broadcasts /\ q.funding = r.funding /\ q.short = r.short
            /\ q.state = IF Settled(r) THEN "COMPLETE"
                         ELSE IF r.state \in {"CLAIMED", "CANCELED"} THEN r.state
                         ELSE FundedState(r)
            /\ \A l \in Leg : q.refund[l].available =
                 (/\ Tracked(r, l).id # 0 /\ ~Tracked(r, l).spent /\ Tracked(r, l).h # 0
                  /\ r.heights[l] >= r.lock[l]
                  /\ l = "qbit" => ~r.preimage)
<1> DEFINE t == settle(r)
           q == refundable(t)
<1>1. /\ SameTerms(t, r) /\ t.heights = r.heights /\ t.preimage = r.preimage
      /\ t.broadcasts = r.broadcasts /\ t.funding = r.funding /\ t.short = r.short
      /\ t.state = IF Settled(r) THEN "COMPLETE"
                   ELSE IF r.state \in {"CLAIMED", "CANCELED"} THEN r.state
                   ELSE FundedState(r)
  BY DEF settle, Swap, SameTerms
<1>2. t \in Swap
  BY SettleOK
<1> HIDE DEF t
<1>3. /\ SameTerms(q, t) /\ q.heights = t.heights /\ q.preimage = t.preimage
      /\ q.broadcasts = t.broadcasts /\ q.funding = t.funding /\ q.short = t.short
      /\ q.state = t.state
  BY <1>2 DEF refundable, Swap, SameTerms
<1>4. \A l \in Leg : q.refund[l].available =
        (/\ Tracked(t, l).id # 0 /\ ~Tracked(t, l).spent /\ Tracked(t, l).h # 0
         /\ t.heights[l] >= t.lock[l]
         /\ l = "qbit" => ~t.preimage)
  BY <1>2 DEF refundable, Swap
<1>5. \A l \in Leg : Tracked(t, l) = Tracked(r, l)
  BY <1>1 DEF Tracked
<1> HIDE DEF q
<1>6. \A l \in Leg : q.refund[l].available =
        (/\ Tracked(r, l).id # 0 /\ ~Tracked(r, l).spent /\ Tracked(r, l).h # 0
         /\ r.heights[l] >= r.lock[l]
         /\ l = "qbit" => ~r.preimage)
  BY <1>1, <1>4, <1>5 DEF SameTerms
<1>7. SameTerms(q, r)
  BY <1>1, <1>3 DEF SameTerms
<1> QED BY <1>1, <1>3, <1>6, <1>7 DEF q, t
\* What a whole poll makes of the deposit of leg l.
Polled(q, r, l) ==
  LET f == r.funding[l]  g == q.funding[l]
  IN /\ ~LooksUp(r, l) => g.id = f.id /\ g.h = f.h /\ (f.spent => g.spent)
     /\ LooksUp(r, l) => \/ Found(l, r.lock[l]) /\ dep[l].ok /\ g.id = dep[l].id /\ g.h = dep[l].at
                         \/ Found(l, r.lock[l]) /\ ~dep[l].ok /\ g.id = f.id /\ g.h = f.h
                         \/ ~Found(l, r.lock[l]) /\ g.id = 0 /\ g.h = 0
     /\ Gone(l, g) => g.spent
     /\ g.spent => f.spent \/ Gone(l, g)
     /\ \/ q.short[l].id = r.short[l].id
        \/ Found(l, r.lock[l]) /\ ~dep[l].ok /\ q.short[l].id = dep[l].id

\* A whole poll, field by field.
LEMMA PollFields ==
  ASSUME ChainTypeOK, ChainShape, NEW r \in Swap, Reached(r), NEW named \in SUBSET Leg
  PROVE  LET q == poll(r, named)
         IN /\ SameTerms(q, r) /\ q.heights = height
            /\ r.preimage => q.preimage
            /\ q.preimage => r.preimage \/ \E l \in Leg : spend[l].kind = "claim"
            /\ r.broadcasts \subseteq q.broadcasts
            /\ \A l \in Leg, k \in Kind :
                 <<l, k>> \in q.broadcasts => <<l, k>> \in r.broadcasts \/ spend[l].kind = k
            /\ \A l \in Leg : Polled(q, r, l)
            /\ \A l \in named :
                 (/\ Gone(l, r.funding[l]) /\ spend[l].kind = "claim"
                  /\ spend[l].at = 0 \/ Indexed
                  /\ \A k \in Kind : <<l, k>> \notin r.broadcasts) => q.preimage
            /\ q.state = IF Settled(q) THEN "COMPLETE"
                         ELSE IF r.state \in {"CLAIMED", "CANCELED"} THEN r.state
                         ELSE FundedState(q)
            /\ \A l \in Leg : q.refund[l].available =
                 (/\ Tracked(q, l).id # 0 /\ ~Tracked(q, l).spent /\ Tracked(q, l).h # 0
                  /\ height[l] >= q.lock[l]
                  /\ l = "qbit" => ~q.preimage)
<1> DEFINE h == [r EXCEPT !.heights = height]
           f == findFunding(h, Leg)
           m == markSpent(f, Leg)
           n == markShortSpent(m, Leg)
           b == backfill(n, named)
           c == countConfs(b)
           q == refundable(settle(c))
<1>a. poll(r, named) = q
  BY DEF poll
<1>1. /\ h \in Swap /\ SameTerms(h, r) /\ SameCourse(h, r) /\ h.heights = height
      /\ h.funding = r.funding /\ h.short = r.short
      /\ Reached(h)
  BY SetHeights DEF Swap, SameTerms, SameCourse
<1> HIDE DEF h
<1>2. /\ f \in Swap /\ SameTerms(f, h) /\ SameCourse(f, h) /\ f.heights = height /\ Reached(f)
      /\ \A l \in Leg : /\ LookedUp(f, h, l)
                        /\ \/ f.short[l] = h.short[l]
                           \/ Found(l, h.lock[l]) /\ ~dep[l].ok /\ f.short[l] = Seen(l)
  BY <1>1, FindFundingType, FindFundingFields
<1> HIDE DEF f
<1>3. m \in Swap /\ Marked(m, f) /\ \A l \in Leg : Gone(l, f.funding[l]) => m.funding[l].spent
  BY <1>2, MarkSpentOK, MarkSpentFields
<1> HIDE DEF m
<1>4. n \in Swap /\ Marked(n, m) /\ n.funding = m.funding
  BY <1>3, MarkShortSpentOK, MarkShortSpentFields
<1>4a. Reached(n)
  BY <1>2, <1>3, <1>4 DEF Reached, Marked, SameDeposits
<1> HIDE DEF n
<1>5. /\ b \in Swap /\ SameTerms(b, n) /\ b.state = n.state /\ b.heights = n.heights
      /\ b.funding = n.funding /\ b.short = n.short
      /\ b.preimage = (n.preimage \/ \E l \in named : Unclassified(n, l) /\ spend[l].kind = "claim")
      /\ n.broadcasts \subseteq b.broadcasts
      /\ \A l \in Leg, k \in Kind :
           <<l, k>> \in b.broadcasts => <<l, k>> \in n.broadcasts \/ spend[l].kind = k
  BY <1>4, BackfillOK, BackfillFields
<1> HIDE DEF b
<1>6. /\ c \in Swap /\ SameTerms(c, b) /\ SameCourse(c, b) /\ c.heights = b.heights
      /\ SameDeposits(c, b) /\ \A l \in Leg : c.funding[l].spent = b.funding[l].spent
  <2>1. Reached(b) /\ b.heights = height
    BY <1>2, <1>3, <1>4, <1>4a, <1>5 DEF Marked, Reached
  <2> QED BY <1>5, <2>1, CountConfsOK, CountConfsFields
<1> HIDE DEF c
<1>7. /\ SameTerms(q, c) /\ q.heights = c.heights /\ q.preimage = c.preimage
      /\ q.broadcasts = c.broadcasts /\ q.funding = c.funding /\ q.short = c.short
      /\ q.state = IF Settled(c) THEN "COMPLETE"
                   ELSE IF c.state \in {"CLAIMED", "CANCELED"} THEN c.state
                   ELSE FundedState(c)
      /\ \A l \in Leg : q.refund[l].available =
           (/\ Tracked(c, l).id # 0 /\ ~Tracked(c, l).spent /\ Tracked(c, l).h # 0
            /\ c.heights[l] >= c.lock[l]
            /\ l = "qbit" => ~c.preimage)
  BY <1>6, SettleFields
<1> HIDE DEF q
<1>8. SameTerms(q, r) /\ q.heights = height
  BY <1>1, <1>2, <1>3, <1>4, <1>5, <1>6, <1>7 DEF SameTerms, Marked
<1>9. SameCourse(n, r)
  BY <1>1, <1>2, <1>3, <1>4 DEF SameCourse, Marked
<1>10. /\ r.preimage => q.preimage
       /\ q.preimage => r.preimage \/ \E l \in Leg : spend[l].kind = "claim"
       /\ r.broadcasts \subseteq q.broadcasts
       /\ \A l \in Leg, k \in Kind :
            <<l, k>> \in q.broadcasts => <<l, k>> \in r.broadcasts \/ spend[l].kind = k
  BY <1>5, <1>6, <1>7, <1>9 DEF SameCourse
<1>11. ASSUME NEW l \in Leg
       PROVE  /\ q.funding[l].id = f.funding[l].id /\ q.funding[l].h = f.funding[l].h
              /\ f.funding[l].spent => q.funding[l].spent
              /\ q.funding[l].spent => f.funding[l].spent \/ Gone(l, f.funding[l])
              /\ Gone(l, f.funding[l]) => q.funding[l].spent /\ n.funding[l].spent
              /\ q.short[l].id = f.short[l].id
  BY <1>3, <1>4, <1>5, <1>6, <1>7 DEF Marked, SameDeposits
<1>12. h.lock = r.lock /\ h.funding = r.funding /\ h.short = r.short
  BY <1>1 DEF SameTerms
<1>13. ASSUME NEW l \in Leg PROVE Polled(q, r, l)
  <2>1. Gone(l, q.funding[l]) = Gone(l, f.funding[l])
    BY <1>11 DEF Gone
  <2>2. LooksUp(h, l) = LooksUp(r, l)
    BY <1>12 DEF LooksUp
  <2>3. \/ f.funding[l] = r.funding[l] /\ (~LooksUp(r, l) \/ (Found(l, r.lock[l]) /\ ~dep[l].ok))
        \/ LooksUp(r, l) /\ Found(l, r.lock[l]) /\ dep[l].ok /\ f.funding[l] = Seen(l)
        \/ LooksUp(r, l) /\ ~Found(l, r.lock[l]) /\ f.funding[l] = NoFunding
    BY <1>2, <1>12, <2>2 DEF LookedUp
  <2>4. Seen(l).id = dep[l].id /\ Seen(l).h = dep[l].at /\ ~Seen(l).spent
        /\ NoFunding.id = 0 /\ NoFunding.h = 0 /\ ~NoFunding.spent
    BY DEF Seen, NoFunding
  <2>5. \/ q.short[l].id = r.short[l].id
        \/ Found(l, r.lock[l]) /\ ~dep[l].ok /\ q.short[l].id = dep[l].id
    BY <1>2, <1>11, <1>12, <2>4
  <2> QED BY <1>11, <2>1, <2>3, <2>4, <2>5 DEF Polled
<1>14. ASSUME NEW l \in named, Gone(l, r.funding[l]), spend[l].kind = "claim",
              spend[l].at = 0 \/ Indexed, \A k \in Kind : <<l, k>> \notin r.broadcasts
       PROVE  q.preimage
  <2>1. ~LooksUp(h, l)
    BY <1>12, <1>14 DEF Gone, LooksUp
  <2>2. f.funding[l] = r.funding[l]
    BY <1>2, <1>12, <2>1 DEF LookedUp
  <2>3. n.funding[l].spent
    BY <1>11, <1>14, <2>2
  <2>4. Unclassified(n, l)
    BY <1>9, <1>14, <2>3 DEF Unclassified, SameCourse
  <2> QED BY <1>5, <1>6, <1>7, <1>14, <2>4 DEF SameCourse
<1>15. q.state = IF Settled(q) THEN "COMPLETE"
                 ELSE IF r.state \in {"CLAIMED", "CANCELED"} THEN r.state
                 ELSE FundedState(q)
  <2>1. Settled(q) = Settled(c)
    BY <1>7 DEF Settled
  <2>2. q.lock = c.lock
    BY <1>7 DEF SameTerms
  <2>3. (\A l \in Leg : Buried(q, l)) = (\A l \in Leg : Buried(c, l)) /\ InTime(q) = InTime(c)
    BY <1>7, <2>2 DEF Buried, InTime
  <2>4. FundedState(q) = FundedState(c)
    BY <1>7, <2>3 DEF FundedState
  <2>5. c.state = r.state
    BY <1>5, <1>6, <1>9 DEF SameCourse
  <2> QED BY <1>7, <2>1, <2>4, <2>5
<1>16. ASSUME NEW l \in Leg
       PROVE  q.refund[l].available =
                (/\ Tracked(q, l).id # 0 /\ ~Tracked(q, l).spent /\ Tracked(q, l).h # 0
                 /\ height[l] >= q.lock[l]
                 /\ l = "qbit" => ~q.preimage)
  <2>1. Tracked(q, l) = Tracked(c, l)
    BY <1>7 DEF Tracked
  <2> QED BY <1>7, <1>8, <2>1 DEF SameTerms
<1> QED BY <1>a, <1>8, <1>10, <1>13, <1>14, <1>15, <1>16

\* A poll cut short changes no terms and not the course of the swap, and finds
\* no deposit where there is none.
LEMMA CutShortFields ==
  ASSUME NEW r \in Swap, ChainTypeOK, ChainShape, Reached(r), NEW q \in CutShort(r)
  PROVE  /\ SameTerms(q, r) /\ SameCourse(q, r)
         /\ \A l \in Leg :
              (~Found(l, r.lock[l]) /\ r.funding[l].id = 0 /\ r.funding[l].h = 0 /\ ~r.funding[l].spent)
                => q.funding[l].id = 0 /\ q.funding[l].h = 0 /\ ~q.funding[l].spent
         /\ \A l \in Leg : \/ q.funding[l].id \in {0, r.funding[l].id}
                           \/ Found(l, r.lock[l]) /\ q.funding[l].id = dep[l].id
<1> DEFINE Empty(x, l) == x.funding[l].id = 0 /\ x.funding[l].h = 0 /\ ~x.funding[l].spent
           Known(x, l) == \/ x.funding[l].id \in {0, r.funding[l].id}
                          \/ Found(l, r.lock[l]) /\ x.funding[l].id = dep[l].id
           Good(x) == /\ x \in Swap /\ Reached(x) /\ SameTerms(x, r) /\ SameCourse(x, r)
                      /\ \A l \in Leg : (~Found(l, r.lock[l]) /\ Empty(r, l)) => Empty(x, l)
                      /\ \A l \in Leg : Known(x, l)
           h == [r EXCEPT !.heights = height]
           f1 == findFunding(h, {"btc"})   f2 == findFunding(h, Leg)
           m1 == markSpent(f2, {"btc"})    m2 == markSpent(f2, Leg)
           n1 == markShortSpent(m2, {"btc"})
<1>1. q \in {r, h, f1, f2, m1, m2, n1}
  BY DEF CutShort
<1>2. Good(r)
  BY DEF SameTerms, SameCourse
<1>3. Good(h)
  <2>1. h.funding = r.funding /\ SameTerms(h, r) /\ SameCourse(h, r)
    BY DEF Swap, SameTerms, SameCourse
  <2> QED BY <2>1, SetHeights
<1> HIDE DEF h
<1>4. ASSUME NEW legs PROVE Good(findFunding(h, legs))
  <2> DEFINE f == findFunding(h, legs)
  <2>1. f \in Swap /\ Reached(f)
    BY <1>3, FindFundingType
  <2>2. /\ SameTerms(f, h) /\ SameCourse(f, h)
        /\ \A l \in Leg : LookedUp(f, h, l) \/ f.funding[l] = h.funding[l]
    BY <1>3, FindFundingFields
  <2> HIDE DEF f
  <2>3. SameTerms(f, r) /\ SameCourse(f, r) /\ h.lock = r.lock
    BY <1>3, <2>2 DEF SameTerms, SameCourse
  <2>4. ASSUME NEW l \in Leg, ~Found(l, r.lock[l]), Empty(r, l) PROVE Empty(f, l)
    <3>1. Empty(h, l)
      BY <1>3, <2>4
    <3>2. f.funding[l] \in {h.funding[l], NoFunding}
      BY <2>2, <2>3, <2>4 DEF LookedUp
    <3> QED BY <3>1, <3>2 DEF NoFunding
  <2>5. ASSUME NEW l \in Leg PROVE Known(f, l)
    <3>1. \/ f.funding[l] \in {h.funding[l], NoFunding}
          \/ Found(l, r.lock[l]) /\ f.funding[l] = Seen(l)
      BY <2>2, <2>3 DEF LookedUp
    <3>2. Known(h, l)
      BY <1>3
    <3>3. CASE f.funding[l] = h.funding[l]
      BY <3>2, <3>3
    <3>4. CASE f.funding[l] = NoFunding
      BY <3>4 DEF NoFunding
    <3>5. CASE Found(l, r.lock[l]) /\ f.funding[l] = Seen(l)
      BY <3>5 DEF Seen
    <3> QED BY <3>1, <3>3, <3>4, <3>5
  <2> QED BY <2>1, <2>3, <2>4, <2>5 DEF f
<1>5. Good(f1) /\ Good(f2)
  BY <1>4
<1> HIDE DEF f1, f2
<1>6. ASSUME NEW x, Good(x), NEW y \in Swap, Marked(y, x) PROVE Good(y)
  <2>1. SameTerms(y, r) /\ SameCourse(y, r)
    BY <1>6 DEF Marked, SameTerms, SameCourse
  <2>2. Reached(y)
    BY <1>6 DEF Marked, SameDeposits, Reached
  <2>3. ASSUME NEW l \in Leg, Empty(x, l) PROVE Empty(y, l)
    BY <1>6, <2>3 DEF Marked, SameDeposits, Gone
  <2>4. ASSUME NEW l \in Leg PROVE Known(y, l)
    BY <1>6 DEF Marked, SameDeposits
  <2> QED BY <1>6, <2>1, <2>2, <2>3, <2>4
<1>7. Good(m1) /\ Good(m2)
  BY <1>5, <1>6, MarkSpentOK, MarkSpentFields
<1> HIDE DEF m1, m2
<1>8. Good(n1)
  BY <1>6, <1>7, MarkShortSpentOK, MarkShortSpentFields
<1> HIDE DEF n1
<1> QED BY <1>1, <1>2, <1>3, <1>5, <1>7, <1>8

\* No pass of poll changes the refund windows but the one that computes them.
LEMMA RefundsKept ==
  ASSUME NEW r \in Swap, NEW legs
  PROVE  /\ findFunding(r, legs).refund = r.refund
         /\ markSpent(r, legs).refund = r.refund
         /\ markShortSpent(r, legs).refund = r.refund
  BY DEF findFunding, markSpent, markShortSpent, Swap

\* A poll cut short keeps the confirmed deposits on record, marks spent only
\* what is gone, and finds an underfunded deposit only where there is one.
LEMMA CutShortDeposits ==
  ASSUME NEW r \in Swap, ChainTypeOK, ChainShape, Reached(r), NEW q \in CutShort(r)
  PROVE  /\ q.refund = r.refund
         /\ \A l \in Leg :
              /\ r.funding[l].h # 0 => /\ q.funding[l].id = r.funding[l].id
                                       /\ q.funding[l].h = r.funding[l].h
              /\ q.funding[l].spent => r.funding[l].spent \/ Gone(l, q.funding[l])
              /\ \/ q.short[l].id = r.short[l].id
                 \/ Found(l, r.lock[l]) /\ ~dep[l].ok /\ q.short[l].id = dep[l].id
<1> DEFINE Kept(x, l) ==
             /\ r.funding[l].h # 0 => /\ x.funding[l].id = r.funding[l].id
                                      /\ x.funding[l].h = r.funding[l].h
             /\ x.funding[l].spent => r.funding[l].spent \/ Gone(l, x.funding[l])
             /\ \/ x.short[l].id = r.short[l].id
                \/ Found(l, r.lock[l]) /\ ~dep[l].ok /\ x.short[l].id = dep[l].id
           Good(x) == x \in Swap /\ Reached(x) /\ x.refund = r.refund /\ \A l \in Leg : Kept(x, l)
           h == [r EXCEPT !.heights = height]
           f1 == findFunding(h, {"btc"})   f2 == findFunding(h, Leg)
           m1 == markSpent(f2, {"btc"})    m2 == markSpent(f2, Leg)
           n1 == markShortSpent(m2, {"btc"})
<1>1. q \in {r, h, f1, f2, m1, m2, n1}
  BY DEF CutShort
<1>2. Good(r)
  OBVIOUS
<1>3. Good(h) /\ h.funding = r.funding /\ h.short = r.short /\ h.lock = r.lock
  <2>1. h.funding = r.funding /\ h.short = r.short /\ h.lock = r.lock /\ h.refund = r.refund
    BY DEF Swap
  <2> QED BY <2>1, SetHeights
<1> HIDE DEF h
<1>4. ASSUME NEW legs PROVE Good(findFunding(h, legs))
  <2> DEFINE f == findFunding(h, legs)
  <2>1. f \in Swap /\ Reached(f) /\ f.refund = r.refund
    BY <1>3, FindFundingType, RefundsKept
  <2>2. \A l \in Leg : /\ LookedUp(f, h, l) \/ f.funding[l] = h.funding[l]
                       /\ \/ f.short[l] = h.short[l]
                          \/ Found(l, h.lock[l]) /\ ~dep[l].ok /\ f.short[l] = Seen(l)
    BY <1>3, FindFundingFields
  <2> HIDE DEF f
  <2>3. ASSUME NEW l \in Leg PROVE Kept(f, l)
    <3>1. h.funding = r.funding /\ h.short = r.short /\ h.lock = r.lock
      BY <1>3
    <3>2. \/ f.short[l] = r.short[l]
          \/ Found(l, r.lock[l]) /\ ~dep[l].ok /\ f.short[l] = Seen(l)
      BY <2>2, <3>1
    <3>3. Seen(l).id = dep[l].id /\ ~Seen(l).spent /\ ~NoFunding.spent
      BY DEF Seen, NoFunding
    <3>4. LookedUp(f, h, l) \/ f.funding[l] = r.funding[l]
      BY <2>2, <3>1
    <3>5. \/ f.funding[l] = r.funding[l]
          \/ r.funding[l].h = 0 /\ f.funding[l] \in {Seen(l), NoFunding}
      BY <3>1, <3>4 DEF LookedUp, LooksUp
    <3>6. CASE f.funding[l] = r.funding[l]
      BY <3>2, <3>3, <3>6
    <3>7. CASE r.funding[l].h = 0 /\ f.funding[l] \in {Seen(l), NoFunding}
      BY <3>2, <3>3, <3>7
    <3> QED BY <3>5, <3>6, <3>7
  <2> QED BY <2>1, <2>3 DEF f
<1>5. Good(f1) /\ Good(f2)
  BY <1>4
<1> HIDE DEF f1, f2
<1>6. ASSUME NEW x, Good(x), NEW y \in Swap, Marked(y, x), y.refund = x.refund PROVE Good(y)
  <2>1. Reached(y)
    BY <1>6 DEF Marked, SameDeposits, Reached
  <2>2. ASSUME NEW l \in Leg PROVE Kept(y, l)
    BY <1>6 DEF Marked, SameDeposits, Gone
  <2> QED BY <1>6, <2>1, <2>2
<1>7. Good(m1) /\ Good(m2)
  BY <1>5, <1>6, MarkSpentOK, MarkSpentFields, RefundsKept
<1> HIDE DEF m1, m2
<1>8. Good(n1)
  BY <1>6, <1>7, MarkShortSpentOK, MarkShortSpentFields, RefundsKept
<1> HIDE DEF n1
<1> QED BY <1>1, <1>2, <1>3, <1>5, <1>7, <1>8

\* applyEffects, field by field.
LEMMA ApplyEffectsFields ==
  ASSUME NEW r \in Swap, NEW l \in Leg, NEW k \in Kind, NEW lost \in BOOLEAN
  PROVE  LET q == applyEffects(r, l, k, lost)
         IN /\ SameTerms(q, r) /\ q.heights = r.heights /\ q.refund = r.refund
            /\ SameDeposits(q, r)
            /\ q.broadcasts = r.broadcasts \cup {<<l, k>>}
            /\ q.preimage = (r.preimage \/ (k = "claim" /\ ~lost))
            /\ q.state = IF k = "refund" THEN "REFUNDED" ELSE IF lost THEN r.state
                         ELSE IF l = "btc" THEN "COMPLETE" ELSE "CLAIMED"
            /\ \A m \in Leg : /\ r.funding[m].spent => q.funding[m].spent
                              /\ q.funding[m].spent =>
                                   r.funding[m].spent \/ (m = l /\ r.funding[m].id # 0)
<1> DEFINE q == applyEffects(r, l, k, lost)
           b == r.broadcasts \cup {<<l, k>>}
           spent(f) == [f EXCEPT !.spent = f.spent \/ f.id # 0]
           F == [r.funding EXCEPT ![l] = spent(r.funding[l])]
           S == [r.short EXCEPT ![l] = spent(r.short[l])]
           st == IF l = "btc" THEN "COMPLETE" ELSE "CLAIMED"
<1>1. /\ k = "claim" /\ lost => q = [r EXCEPT !.broadcasts = b]
      /\ k = "claim" /\ ~lost =>
           q = [r EXCEPT !.broadcasts = b, !.preimage = TRUE, !.funding = F, !.state = st]
      /\ k = "refund" =>
           q = [r EXCEPT !.broadcasts = b, !.funding = F, !.short = S, !.state = "REFUNDED"]
  <2>1. CASE k = "claim" /\ lost
    BY <2>1 DEF applyEffects
  <2>2. CASE k = "claim" /\ ~lost
    BY <2>2 DEF applyEffects, Swap
  <2>3. CASE k = "refund"
    BY <2>3 DEF applyEffects, Swap
  <2> QED BY <2>1, <2>2, <2>3 DEF Kind
<1>2. ASSUME NEW m \in Leg
      PROVE  /\ F[m].id = r.funding[m].id /\ F[m].h = r.funding[m].h
             /\ S[m].id = r.short[m].id /\ S[m].h = r.short[m].h
             /\ F[m].spent = (r.funding[m].spent \/ (m = l /\ r.funding[m].id # 0))
  <2>1. r.funding[m] \in Funding /\ r.short[m] \in Funding
    BY FieldTypes
  <2>2. /\ F[m] = IF m = l THEN spent(r.funding[m]) ELSE r.funding[m]
        /\ S[m] = IF m = l THEN spent(r.short[m]) ELSE r.short[m]
    BY FieldTypes
  <2> HIDE DEF F, S
  <2> QED BY <2>1, <2>2 DEF Funding
<1> HIDE DEF q, F, S, b
<1>3. /\ SameTerms(q, r) /\ q.heights = r.heights /\ q.refund = r.refund
      /\ q.broadcasts = b /\ q.funding \in {r.funding, F} /\ q.short \in {r.short, S}
      /\ q.preimage = (r.preimage \/ (k = "claim" /\ ~lost))
      /\ q.state = IF k = "refund" THEN "REFUNDED" ELSE IF lost THEN r.state ELSE st
  <2>1. CASE k = "claim" /\ lost
    BY <1>1, <2>1 DEF Swap, SameTerms
  <2>2. CASE k = "claim" /\ ~lost
    BY <1>1, <2>2 DEF Swap, SameTerms
  <2>3. CASE k = "refund"
    BY <1>1, <2>3 DEF Swap, SameTerms
  <2> QED BY <2>1, <2>2, <2>3 DEF Kind
<1> QED BY <1>2, <1>3 DEF q, b, SameDeposits
-----------------------------------------------------------------------------
\* What the watchtower can have done, after any number of its steps, to the
\* record r and the spends sp it began with.

\* A claim that was not there when it began.
Fresh(x, sp) == \E l \in Leg : x.spend[l].kind = "claim" /\ sp[l].kind = "none"

\* What lets the watchtower send a claim.
MaySend(r) ==
  \/ r.state = "CLAIMABLE" \/ r.preimage
  \/ \E role \in Role : <<role, "claim">> \in r.wt

\* A spend stays, or an unspent deposit gets one that the node accepts.
SpendMoves(x, sp) ==
  \A l \in Leg :
    \/ x.spend[l] = sp[l]
    \/ /\ sp[l].kind = "none" /\ dep[l].st # "none"
       /\ \E k \in Kind : /\ x.spend[l] = [kind |-> k, at |-> 0, since |-> height[l]]
                          /\ k = "refund" => height[l] >= dep[l].lock

Moved(x, r, sp) ==
  /\ x \in Step
  /\ x.s.lock = r.lock /\ x.s.joined = r.joined /\ x.s.finish = r.finish
  /\ x.s.heights = r.heights /\ x.s.refund = r.refund
  /\ SameDeposits(x.s, r)
  /\ SpendMoves(x, sp)
  /\ x.s.state \in {r.state, "CLAIMED", "COMPLETE", "REFUNDED"}
  /\ r.preimage => x.s.preimage
  /\ x.s.preimage => r.preimage \/ Fresh(x, sp)
  /\ \A role \in Role :
       /\ <<role, "claim">> \in x.s.wt => <<role, "claim">> \in r.wt \/ Fresh(x, sp)
       /\ <<role, "refund">> \in x.s.wt => <<role, "refund">> \in r.wt \/ ~r.preimage
  /\ \A l \in Leg, k \in Kind :
       <<l, k>> \in x.s.broadcasts => <<l, k>> \in r.broadcasts \/ x.spend[l].kind = k
  /\ Fresh(x, sp) => MaySend(r) /\ (x.thrown \/ x.s.preimage)
  /\ x.thrown => Fresh(x, sp)
  /\ (\A l \in Leg : x.spend[l] = sp[l]) => x.s = r

LEMMA MovedStart ==
  ASSUME NEW r \in Swap, NEW sp \in [Leg -> Spend]
  PROVE  Moved([s |-> r, spend |-> sp, thrown |-> FALSE], r, sp)
  BY DEF Moved, Step, SameDeposits, SpendMoves, Fresh

\* One send, of a claim that may be sent or a refund that may.
LEMMA WtSendMoves ==
  ASSUME ChainTypeOK, NEW r \in Swap, NEW sp \in [Leg -> Spend], NEW x, Moved(x, r, sp),
         NEW role \in Role, NEW k \in Kind, NEW lost \in BOOLEAN,
         k = "claim" => MaySend(r),
         k = "refund" => ~r.preimage \/ <<role, k>> \in x.s.wt
  PROVE  /\ Moved(wtSend(x, role, k, lost), r, sp)
         /\ wtSend(x, role, k, lost).thrown => x.thrown \/ lost
<1> DEFINE l == TheLeg(role, k)
           fails == lost /\ k = "claim"
           w == [x.s EXCEPT !.wt = @ \cup {<<role, k>>}]
           a == applyEffects(w, l, k, fails)
           y == [s |-> a, spend |-> Sent(x.spend, l, k), thrown |-> fails]
<1>1. l \in Leg
  BY DEF TheLeg, Claims, Funds, Other, Leg
<1>2. x.s \in Swap /\ x.spend \in [Leg -> Spend] /\ x.thrown \in BOOLEAN
  BY DEF Moved, Step
<1>3. /\ w \in Swap /\ w.wt = x.s.wt \cup {<<role, k>>}
      /\ w.lock = x.s.lock /\ w.joined = x.s.joined /\ w.finish = x.s.finish
      /\ w.heights = x.s.heights /\ w.refund = x.s.refund /\ w.funding = x.s.funding
      /\ w.short = x.s.short /\ SameCourse(w, x.s)
  <2>1. x.s.wt \cup {<<role, k>>} \in SUBSET (Role \X Kind)
    BY <1>2, FieldTypes
  <2> QED BY <1>2, <2>1 DEF Swap, SameCourse
<1>4. fails \in BOOLEAN
  OBVIOUS
<1>5. \/ wtSend(x, role, k, lost) = x
      \/ /\ wtSend(x, role, k, lost) = y /\ ~x.thrown
         /\ x.spend[l].kind = "none" /\ dep[l].st # "none"
         /\ k = "refund" => height[l] >= dep[l].lock
  BY DEF wtSend, Accepts, IsUnspent
<1> HIDE DEF w, l, fails
<1>6. /\ a \in Swap /\ SameTerms(a, w) /\ a.heights = w.heights /\ a.refund = w.refund
      /\ SameDeposits(a, w)
      /\ a.broadcasts = w.broadcasts \cup {<<l, k>>}
      /\ a.preimage = (w.preimage \/ (k = "claim" /\ ~fails))
      /\ a.state = IF k = "refund" THEN "REFUNDED" ELSE IF fails THEN w.state
                   ELSE IF l = "btc" THEN "COMPLETE" ELSE "CLAIMED"
  BY <1>1, <1>3, <1>4, ApplyEffectsOK, ApplyEffectsFields
<1> HIDE DEF a
<1>7. ASSUME ~x.thrown, x.spend[l].kind = "none", dep[l].st # "none",
             k = "refund" => height[l] >= dep[l].lock
      PROVE  Moved(y, r, sp)
  <2>1. /\ y.s = a /\ y.thrown = fails /\ y.spend \in [Leg -> Spend]
        /\ y.spend[l] = [kind |-> k, at |-> 0, since |-> height[l]]
        /\ \A m \in Leg : m # l => y.spend[m] = x.spend[m]
    BY <1>1, <1>2, SentType DEF Sent
  <2> HIDE DEF y
  <2>2. y \in Step
    <3>1. y = [s |-> a, spend |-> y.spend, thrown |-> fails]
      BY DEF y
    <3> QED BY <1>4, <1>6, <2>1, <3>1 DEF Step
  <2>a. SpendMoves(x, sp)
    BY DEF Moved
  <2>3. y.spend[l].kind = k /\ sp[l].kind = "none"
    <3>1. \A j \in Kind : [kind |-> j, at |-> 0, since |-> height[l]].kind # "none"
      BY DEF Kind
    <3>2. x.spend[l] = sp[l] \/ \E j \in Kind : x.spend[l] = [kind |-> j, at |-> 0, since |-> height[l]]
      BY <1>1, <2>a DEF SpendMoves
    <3>3. x.spend[l] = sp[l]
      BY <1>7, <3>1, <3>2
    <3>4. y.spend[l].kind = k
      BY <2>1
    <3> QED BY <1>7, <3>3, <3>4
  <2>4. SpendMoves(y, sp)
    <3>1. ASSUME NEW m \in Leg, m # l
          PROVE  \/ y.spend[m] = sp[m]
                 \/ /\ sp[m].kind = "none" /\ dep[m].st # "none"
                    /\ \E j \in Kind : /\ y.spend[m] = [kind |-> j, at |-> 0, since |-> height[m]]
                                       /\ j = "refund" => height[m] >= dep[m].lock
      BY <2>1, <2>a, <3>1 DEF SpendMoves
    <3>2. \E j \in Kind : /\ y.spend[l] = [kind |-> j, at |-> 0, since |-> height[l]]
                          /\ j = "refund" => height[l] >= dep[l].lock
      BY <1>7, <2>1
    <3> QED BY <1>7, <2>3, <3>1, <3>2 DEF SpendMoves
  <2>5. Fresh(x, sp) => Fresh(y, sp)
    BY <1>1, <1>7, <2>1 DEF Fresh
  <2>6. k = "claim" => Fresh(y, sp)
    BY <1>1, <2>3 DEF Fresh
  <2>7. k = "refund" /\ Fresh(y, sp) => Fresh(x, sp)
    BY <1>1, <2>1, <2>3 DEF Fresh
  <2>8. k \in {"claim", "refund"}
    BY DEF Kind
  <2>9. /\ a.lock = r.lock /\ a.joined = r.joined /\ a.finish = r.finish
        /\ a.heights = r.heights /\ a.refund = r.refund
        /\ a.wt = x.s.wt \cup {<<role, k>>}
    BY <1>3, <1>6 DEF Moved, SameTerms
  <2>10. SameDeposits(a, r)
    BY <1>3, <1>6 DEF Moved, SameDeposits
  <2>11. /\ a.broadcasts = x.s.broadcasts \cup {<<l, k>>}
         /\ a.preimage = (x.s.preimage \/ (k = "claim" /\ ~fails))
         /\ a.state = IF k = "refund" THEN "REFUNDED" ELSE IF fails THEN x.s.state
                      ELSE IF l = "btc" THEN "COMPLETE" ELSE "CLAIMED"
    BY <1>3, <1>6 DEF SameCourse
  <2>12. /\ a.state \in {r.state, "CLAIMED", "COMPLETE", "REFUNDED"}
         /\ r.preimage => a.preimage
         /\ a.preimage => r.preimage \/ Fresh(y, sp)
    BY <2>5, <2>6, <2>8, <2>11 DEF Moved
  <2>13. ASSUME NEW ro \in Role
         PROVE  /\ <<ro, "claim">> \in a.wt => <<ro, "claim">> \in r.wt \/ Fresh(y, sp)
                /\ <<ro, "refund">> \in a.wt => <<ro, "refund">> \in r.wt \/ ~r.preimage
    <3>1. <<ro, "claim">> \in a.wt => <<ro, "claim">> \in x.s.wt \/ k = "claim"
      BY <2>9
    <3>2. <<ro, "refund">> \in a.wt => <<ro, "refund">> \in x.s.wt \/ (k = "refund" /\ ro = role)
      BY <2>9
    <3> QED BY <2>5, <2>6, <3>1, <3>2 DEF Moved
  <2>14. ASSUME NEW m \in Leg, NEW j \in Kind, <<m, j>> \in a.broadcasts
         PROVE  <<m, j>> \in r.broadcasts \/ y.spend[m].kind = j
    <3>1. <<m, j>> \in x.s.broadcasts \/ (m = l /\ j = k)
      BY <2>11, <2>14
    <3>2. CASE m = l /\ j = k
      BY <2>3, <3>2
    <3>3. CASE <<m, j>> \in x.s.broadcasts
      <4>1. <<m, j>> \in r.broadcasts \/ x.spend[m].kind = j
        BY <3>3 DEF Moved
      <4>2. x.spend[m].kind = j => y.spend[m] = x.spend[m]
        BY <1>7, <2>1, <2>14 DEF Kind
      <4> QED BY <4>1, <4>2
    <3> QED BY <3>1, <3>2, <3>3
  <2>15. Fresh(y, sp) => MaySend(r) /\ (fails \/ a.preimage)
    BY <1>7, <2>7, <2>8, <2>11 DEF Moved
  <2>16. fails => Fresh(y, sp)
    BY <2>6 DEF fails
  <2>17. y.spend[l] # sp[l]
    BY <2>3 DEF Kind
  <2> QED BY <1>1, <2>1, <2>2, <2>4, <2>9, <2>10, <2>12, <2>13, <2>14, <2>15, <2>16, <2>17 DEF Moved
<1>8. y.thrown = fails /\ (fails => lost)
  BY DEF fails
<1> HIDE DEF y
<1> QED BY <1>5, <1>7, <1>8

\* A first send: the conditions of steps a, b and c.
LEMMA FirstMoves ==
  ASSUME ChainTypeOK, NEW r \in Swap, NEW sp \in [Leg -> Spend], NEW x, Moved(x, r, sp),
         NEW role \in Role, NEW k \in Kind, NEW lost \in BOOLEAN,
         k = "refund" => ~r.preimage
  PROVE  /\ Moved(first(x, role, k, lost), r, sp)
         /\ first(x, role, k, lost).thrown => x.thrown \/ lost
<1>1. CASE ~Due(x.s, role, k)
  BY <1>1 DEF first
<1>2. CASE Due(x.s, role, k)
  <2>1. k = "claim" => MaySend(r)
    BY <1>2 DEF Due, Moved, MaySend
  <2> QED BY <1>2, <2>1, WtSendMoves DEF first
<1> QED BY <1>1, <1>2

\* Sending a dropped spend again.
LEMMA ResendMoves ==
  ASSUME ChainTypeOK, NEW r \in Swap, NEW sp \in [Leg -> Spend], NEW x, Moved(x, r, sp),
         NEW role \in Role, NEW k \in Kind, NEW lost \in BOOLEAN
  PROVE  /\ Moved(resend(x, role, k, lost), r, sp)
         /\ resend(x, role, k, lost).thrown => x.thrown \/ lost
<1>1. CASE ~Dropped(x, role, k)
  BY <1>1 DEF resend
<1>2. CASE Dropped(x, role, k)
  <2>1. <<role, k>> \in x.s.wt
    BY <1>2 DEF Dropped
  <2>2. k = "claim" => MaySend(r)
    BY <2>1 DEF Moved, MaySend
  <2> QED BY <1>2, <2>1, <2>2, WtSendMoves DEF resend
<1> QED BY <1>1, <1>2

\* The whole of driveWatchtower.
LEMMA DriveMoves ==
  ASSUME ChainTypeOK, NEW r \in Swap, NEW sp \in [Leg -> Spend], NEW lost \in BOOLEAN
  PROVE  LET x == drive([s |-> r, spend |-> sp, thrown |-> FALSE], lost)
         IN Moved(x, r, sp) /\ (x.thrown => lost)
<1> DEFINE o  == [s |-> r, spend |-> sp, thrown |-> FALSE]
           c1 == first(o, "alice", "claim", lost)
           c2 == first(c1, "bob", "claim", lost)
           f1 == first(c2, "alice", "refund", FALSE)
           f2 == first(f1, "bob", "refund", FALSE)
           t  == refunds(c2)
           a1 == resend(t, "alice", "claim", lost)
           a2 == resend(a1, "bob", "claim", lost)
           b1 == resend(a2, "alice", "refund", FALSE)
           b2 == resend(b1, "bob", "refund", FALSE)
<1>0. "alice" \in Role /\ "bob" \in Role /\ "claim" \in Kind /\ "refund" \in Kind
      /\ "claim" # "refund"
  BY DEF Role, Kind
<1>a. drive(o, lost) = b2
  BY DEF drive
<1>b. t = IF c2.s.preimage THEN c2 ELSE f2
  BY DEF refunds
<1>1. Moved(o, r, sp) /\ ~o.thrown
  BY MovedStart
<1> HIDE DEF o
<1>2. Moved(c1, r, sp) /\ (c1.thrown => lost)
  BY <1>0, <1>1, FirstMoves
<1> HIDE DEF c1
<1>3. Moved(c2, r, sp) /\ (c2.thrown => lost)
  BY <1>0, <1>2, FirstMoves
<1> HIDE DEF c2
<1>4. Moved(t, r, sp) /\ (t.thrown => lost)
  <2>1. CASE c2.s.preimage
    BY <1>b, <1>3, <2>1
  <2>2. CASE ~c2.s.preimage
    <3>1. ~r.preimage
      BY <1>3, <2>2 DEF Moved
    <3>2. Moved(f1, r, sp) /\ (f1.thrown => lost)
      BY <1>0, <1>3, <3>1, FirstMoves
    <3> HIDE DEF f1
    <3>3. Moved(f2, r, sp) /\ (f2.thrown => lost)
      BY <1>0, <3>1, <3>2, FirstMoves
    <3> QED BY <1>b, <2>2, <3>3
  <2> QED BY <2>1, <2>2
<1> HIDE DEF t
<1>5. Moved(a1, r, sp) /\ (a1.thrown => lost)
  BY <1>0, <1>4, ResendMoves
<1> HIDE DEF a1
<1>6. Moved(a2, r, sp) /\ (a2.thrown => lost)
  BY <1>0, <1>5, ResendMoves
<1> HIDE DEF a2
<1>7. Moved(b1, r, sp) /\ (b1.thrown => lost)
  BY <1>0, <1>6, ResendMoves
<1> HIDE DEF b1
<1>8. Moved(b2, r, sp) /\ (b2.thrown => lost)
  BY <1>0, <1>7, ResendMoves
<1> QED BY <1>8, <1>a DEF o
=============================================================================
