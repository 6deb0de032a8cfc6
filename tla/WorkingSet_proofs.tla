------------------------- MODULE WorkingSet_proofs -------------------------
(***************************************************************************)
(* The table of swaps, for every number of swaps, offers and scripts,      *)
(* every cap, grace and delay, and every configuration of the chains.      *)
(***************************************************************************)
EXTENDS WorkingSet, FiniteSetTheorems, TLAPS

-----------------------------------------------------------------------------
\* Inductive invariants.

Versions(i) == {mem[i], db[i]} \ {None}

TableType ==
  /\ mem \in [Swap -> {None} \cup SwapRecord] /\ db \in [Swap -> {None} \cup SwapRecord]
  /\ DOMAIN sig = Swap
  /\ nextIx \in Nat /\ clock \in Nat /\ floor \in Nat
  /\ scenario \in DOMAIN Scenarios /\ left \in [Event -> Nat]
  /\ DOMAIN finder = {"pc", "spk", "wallet", "healed"} /\ finder.spk \subseteq Swap

\* A swap in memory and its row differ in nothing that is worth storing: its
\* signature says so, until it is lost with the process.
InStep(i) ==
  mem[i] # None =>
    /\ db[i] # None => sigOf(db[i]) = sigOf(mem[i])
    /\ IF sig[i] = None THEN db[i] # None ELSE sig[i] = sigOf(mem[i])

IndexInv ==
  /\ \A i \in Swap : \A s \in Versions(i) : s.fee < nextIx
  /\ \A i, j \in Swap : i # j /\ getSwap(i) # None /\ getSwap(j) # None => getSwap(i).fee # getSwap(j).fee

\* The table goes by what was answered.
Honours(s, what) ==
  /\ what \in Role => what \in s.joined
  /\ what = "finish" => s.fin
  /\ what = "canceled" => s.state \in TERMINAL \cup {"CANCELED"}

AckInv == \A a \in acked : a.swap \in Swap /\ db[a.swap] # None /\ Honours(db[a.swap], a.what)

TableInv == TableType /\ (\A i \in Swap : InStep(i)) /\ IndexInv /\ AckInv

BookInv ==
  /\ DOMAIN offers = Offer
  /\ \A o \in Offer :
       /\ DOMAIN offers[o] = {"status", "take", "at"}
       /\ offers[o].status = "taken" <=> offers[o].take # None
       /\ offers[o].take # None => [swap |-> offers[o].take, what |-> "created"] \in acked
  /\ \A o, p \in Offer : o # p /\ offers[o].take # None => offers[p].take # offers[o].take

\* As long as a spend may still fall out, none has: the delay runs from it.
SweepInv ==
  \A i \in Swap :
    /\ out[i] \in [paid : BOOLEAN, home : {"none", "unspent", "spent"}, at : Nat,
                   twin : {"none", "there", "gone"}, swept : BOOLEAN, back : {"none", "took", "refused"}]
    /\ out[i].at <= clock
    /\ out[i].home # "none" => out[i].paid
    /\ \A s \in Versions(i) : s.homeAt # None /\ left["evict"] > 0
                               => out[i].home = "spent" /\ out[i].at <= s.homeAt
    /\ out[i].swept => out[i].home = "spent" /\ (left["evict"] > 0 => clock - out[i].at >= Delay)
    /\ out[i].back # "took"

\* The terms in the table are terms that READY has fixed.
TermsInv == \A i \in Swap : \A s \in Versions(i) : s.terms # None => Outlasts(s.terms) /\ InTime(s.terms)

-----------------------------------------------------------------------------
\* Numbers.

LEMMA MaxIs ==
  ASSUME NEW S \in SUBSET Int, S # {}, NEW u \in Int, \A x \in S : x <= u
  PROVE  Max(S) \in S /\ \A x \in S : x <= Max(S)
<1> DEFINE T == {n \in Nat : u - n \in S}
           R == OpToRel(<, Nat)
<1>1. T # {}
  <2>1. PICK x \in S : TRUE
    OBVIOUS
  <2>2. u - x \in Nat /\ u - (u - x) = x
    BY <2>1
  <2> QED BY <2>1, <2>2
<1>2. IsWellFoundedOn(R, Nat)
  BY NatLessThanWellFounded
<1>3. \A i, j \in Nat : i < j => <<i, j>> \in R
  BY DEF OpToRel
<1>4. T \subseteq Nat
  OBVIOUS
<1> HIDE DEF R, T
<1>5. PICK n \in T : \A m \in T : ~(<<m, n>> \in R)
  BY <1>1, <1>2, <1>4, WFMin
<1>6. \A m \in T : n <= m
  <2> SUFFICES ASSUME NEW m \in T, m < n PROVE FALSE
    BY <1>4
  <2>1. <<m, n>> \in R
    BY <1>3, <1>4
  <2> QED BY <1>5, <2>1
<1> USE DEF T
<1>7. \A x \in S : x <= u - n
  <2> TAKE x \in S
  <2>1. u - x \in Nat /\ u - (u - x) = x
    OBVIOUS
  <2> QED BY <1>6, <2>1
<1>8. u - n \in S /\ \A x \in S : u - n >= x
  BY <1>7
<1>9. Max(S) \in S /\ \A x \in S : Max(S) >= x
  BY <1>8 DEF Max
<1> QED BY <1>9

LEMMA DivIs ==
  ASSUME NEW a \in Int, NEW b \in Nat \ {0}
  PROVE  /\ a \div b \in Int
         /\ b * (a \div b) <= a /\ a < b * (a \div b) + b
  OBVIOUS

\* As many whole blocks as cover a time, and no more.
LEMMA CeilDivIs ==
  ASSUME NEW a \in Nat, NEW b \in Nat \ {0}
  PROVE  /\ CeilDiv(a, b) \in Nat
         /\ CeilDiv(a, b) * b >= a
         /\ (CeilDiv(a, b) - 1) * b < a
<1> DEFINE q == CeilDiv(a, b)
<1>1. q \in Int /\ b * q <= a + b - 1 /\ a + b - 1 < b * q + b
  BY DivIs, a + b - 1 \in Int DEF CeilDiv
<1> HIDE DEF q
<1>2. q >= 0
  <2>1. CASE q <= -1
    <3>1. b * q <= -b
      BY <1>1, <2>1
    <3> QED BY <1>1, <3>1
  <2> QED BY <1>1, <2>1
<1>3. (q - 1) * b = b * q - b /\ q * b = b * q
  BY <1>1
<1> QED BY <1>1, <1>2, <1>3 DEF q

\* The share of an amount, rounded: it grows with the amount, by at most one
\* for each unit of it when the share is below the whole.
LEMMA RoundDivIs ==
  ASSUME NEW a \in Nat, NEW b \in Nat \ {0}
  PROVE  /\ RoundDiv(a, b) \in Nat
         /\ 2 * b * RoundDiv(a, b) <= 2 * a + b
         /\ 2 * a + b < 2 * b * RoundDiv(a, b) + 2 * b
<1> DEFINE q == RoundDiv(a, b)
<1>1. 2 * b \in Nat \ {0} /\ 2 * a + b \in Int
  OBVIOUS
<1>2. q \in Int /\ (2 * b) * q <= 2 * a + b /\ 2 * a + b < (2 * b) * q + 2 * b
  BY <1>1, DivIs DEF RoundDiv
<1> HIDE DEF q
<1>3. q >= 0
  <2>1. CASE q <= -1
    <3>1. (2 * b) * q <= -(2 * b)
      BY <1>1, <1>2, <2>1
    <3> QED BY <1>2, <3>1
  <2> QED BY <1>2, <2>1
<1> QED BY <1>2, <1>3 DEF q

-----------------------------------------------------------------------------
\* The quote.

\* The platform's cut grows with the amount, by at most one for each unit of it.
LEMMA PlatformGrows ==
  ASSUME TermsAssumption, FeeBps <= Whole, NEW b \in Nat
  PROVE  /\ platformRaw(b) \in Nat /\ platformRaw(b + 1) \in Nat
         /\ platformRaw(b) <= platformRaw(b + 1) /\ platformRaw(b + 1) <= platformRaw(b) + 1
         /\ 2 * (b * FeeBps) + Whole < 2 * Whole * platformRaw(b) + 2 * Whole
<1> DEFINE p == platformRaw(b)
           q == platformRaw(b + 1)
           x == b * FeeBps
<1>1. Whole \in Nat \ {0} /\ FeeBps \in Nat
  BY DEF TermsAssumption
<1>2. x \in Nat /\ (b + 1) * FeeBps = x + FeeBps /\ x + FeeBps \in Nat
  BY <1>1
<1>3. p \in Nat /\ 2 * Whole * p <= 2 * x + Whole /\ 2 * x + Whole < 2 * Whole * p + 2 * Whole
  BY <1>1, <1>2, RoundDivIs DEF platformRaw
<1>4. q \in Nat /\ 2 * Whole * q <= 2 * (x + FeeBps) + Whole
      /\ 2 * (x + FeeBps) + Whole < 2 * Whole * q + 2 * Whole
  BY <1>1, <1>2, RoundDivIs DEF platformRaw
<1> HIDE DEF p, q, x
<1>5. p <= q
  <2>1. CASE q + 1 <= p
    <3>1. 2 * Whole * (q + 1) <= 2 * Whole * p /\ 2 * Whole * (q + 1) = 2 * Whole * q + 2 * Whole
      BY <1>1, <1>3, <1>4, <2>1
    <3> QED BY <1>1, <1>2, <1>3, <1>4, <3>1
  <2> QED BY <1>3, <1>4, <2>1
<1>6. q <= p + 1
  <2>1. CASE p + 2 <= q
    <3>1. 2 * Whole * (p + 2) <= 2 * Whole * q /\ 2 * Whole * (p + 2) = 2 * Whole * p + 4 * Whole
      BY <1>1, <1>3, <1>4, <2>1
    <3> QED BY <1>1, <1>2, <1>3, <1>4, <3>1
  <2> QED BY <1>3, <1>4, <2>1
<1> QED BY <1>3, <1>4, <1>5, <1>6 DEF p, q, x

\* What a quote may cost the maker beside the amount.
LEMMA FeeIs ==
  ASSUME TermsAssumption, FeeBps <= Whole, NEW b \in Nat
  PROVE  /\ feeTotalOn(b) = composeFee(platformRaw(b)).platform + Reserve
         /\ composeFee(platformRaw(b)).platform
              = IF platformRaw(b) >= FeeMin THEN platformRaw(b) ELSE 0
  BY DEF feeTotalOn, composeFee

\* takerNetOfGross against the promise of a sell quote.
LEMMA NetIs ==
  ASSUME TermsAssumption, FeeBps <= Whole, NEW gross \in Nat, takerNetOfGross(gross) > 0
  PROVE  LET b == takerNetOfGross(gross)
             outlay == b + feeTotalOn(b)
         IN /\ outlay <= gross /\ gross - outlay <= FeeMin
            /\ composeFee(platformRaw(b)).platform > 0 => b + 1 + feeTotalOn(b + 1) > gross
<1> DEFINE noPlat == gross - Reserve
           b0 == (noPlat * Whole) \div (Whole + FeeBps) + 1
           S == {0} \cup {b \in 1..b0 : b + feeTotalOn(b) <= gross}
           net == takerNetOfGross(gross)
           Good(b) == /\ b + feeTotalOn(b) <= gross /\ gross - (b + feeTotalOn(b)) <= FeeMin
                      /\ composeFee(platformRaw(b)).platform > 0 => b + 1 + feeTotalOn(b + 1) > gross
<1>1. Whole \in Nat \ {0} /\ FeeBps \in Nat /\ FeeMin \in Nat \ {0} /\ Reserve \in Nat
  BY DEF TermsAssumption
<1>2. noPlat \in Int /\ noPlat > 0
  BY <1>1 DEF takerNetOfGross
<1>3. CASE platformRaw(noPlat) < FeeMin
  <2>1. net = noPlat
    BY <1>2, <1>3 DEF takerNetOfGross
  <2>2. noPlat \in Nat /\ platformRaw(noPlat) \in Nat
    BY <1>2, PlatformGrows
  <2>3. composeFee(platformRaw(noPlat)).platform = 0 /\ feeTotalOn(noPlat) = Reserve
    BY <1>1, <1>3, <2>2, FeeIs
  <2>4. Good(noPlat)
    BY <1>1, <2>2, <2>3
  <2> QED BY <2>1, <2>4
<1>4. CASE ~(platformRaw(noPlat) < FeeMin)
  <2>1. net = Max(S)
    BY <1>2, <1>4 DEF takerNetOfGross
  <2>2. /\ b0 \in Int /\ noPlat * Whole < (Whole + FeeBps) * b0
        /\ b0 >= 1
    <3> DEFINE y == noPlat * Whole
               w == Whole + FeeBps
               q == y \div w
    <3>1. y \in Nat /\ w \in Nat \ {0}
      BY <1>1, <1>2
    <3> HIDE DEF y, w
    <3>2. q \in Int /\ y < w * q + w
      BY <3>1, DivIs
    <3> HIDE DEF q
    <3>3. q >= 0
      <4>1. CASE q <= -1
        <5>1. w * q <= -w
          BY <3>1, <3>2, <4>1
        <5> QED BY <3>1, <3>2, <5>1
      <4> QED BY <3>2, <4>1
    <3>4. w * (q + 1) = w * q + w
      BY <3>1, <3>2
    <3>5. q + 1 \in Int /\ q + 1 >= 1 /\ y < w * (q + 1)
      BY <3>1, <3>2, <3>3, <3>4
    <3> QED BY <3>5 DEF y, q, w
  <2> HIDE DEF b0
  <2>3. net \in S /\ \A x \in S : x <= net
    <3>1. S \in SUBSET Int /\ S # {} /\ \A x \in S : x <= b0
      BY <2>2
    <3> HIDE DEF S
    <3> QED BY <2>1, <2>2, <3>1, MaxIs
  <2>4. net \in 1..b0 /\ net + feeTotalOn(net) <= gross
    BY <2>3
  <2> DEFINE p == platformRaw(net)
             q == platformRaw(net + 1)
  <2> HIDE DEF net, S
  <2>5. /\ net \in Nat /\ net + 1 \in Nat /\ p \in Nat /\ q \in Nat /\ p <= q /\ q <= p + 1
        /\ 2 * (net * FeeBps) + Whole < 2 * Whole * p + 2 * Whole
    BY <2>2, <2>4, PlatformGrows
  <2>6. /\ feeTotalOn(net) = (IF p >= FeeMin THEN p ELSE 0) + Reserve
        /\ feeTotalOn(net + 1) = (IF q >= FeeMin THEN q ELSE 0) + Reserve
        /\ composeFee(p).platform = IF p >= FeeMin THEN p ELSE 0
    BY <2>5, FeeIs
  <2>7. CASE net < b0
    <3>1. net + 1 \in 1..b0 /\ net + 1 \notin S
      BY <2>2, <2>3, <2>4, <2>7
    <3>2. ~(net + 1 + feeTotalOn(net + 1) <= gross)
      BY <3>1 DEF S
    <3> HIDE DEF p, q
    <3>3. Good(net)
      BY <1>1, <2>4, <2>5, <2>6, <3>2 DEF p
    <3> QED BY <3>3 DEF net
  <2>8. CASE net = b0
    <3> HIDE DEF p, q
    <3>1. p + net >= noPlat
      <4>1. CASE p + net <= noPlat - 1
        <5>1. 2 * Whole * (p + net) <= 2 * Whole * (noPlat - 1)
          BY <1>1, <1>2, <2>5, <4>1
        <5>2. /\ 2 * Whole * (p + net) = 2 * Whole * p + 2 * (net * Whole)
              /\ 2 * Whole * (noPlat - 1) = 2 * (noPlat * Whole) - 2 * Whole
              /\ (Whole + FeeBps) * net = net * Whole + net * FeeBps
              /\ net * Whole \in Int /\ net * FeeBps \in Int /\ noPlat * Whole \in Int
              /\ 2 * Whole * p \in Int
          BY <1>1, <1>2, <2>5
        <5>3. noPlat * Whole < net * Whole + net * FeeBps
          BY <2>2, <2>8, <5>2
        <5> DEFINE X == 2 * Whole * p
                   Y == net * Whole
                   Z == net * FeeBps
                   V == noPlat * Whole
        <5>4. /\ X + 2 * Y <= 2 * V - 2 * Whole /\ V < Y + Z
              /\ 2 * Z + Whole < X + 2 * Whole
              /\ X \in Int /\ Y \in Int /\ Z \in Int /\ V \in Int
          BY <2>5, <5>1, <5>2, <5>3
        <5> HIDE DEF X, Y, Z, V
        <5> QED BY <1>1, <5>4
      <4> QED BY <1>2, <2>5, <4>1
    <3>2. Good(net)
      BY <1>1, <2>4, <2>5, <2>6, <3>1 DEF p
    <3> QED BY <3>2 DEF net
  <2> QED BY <2>2, <2>4, <2>7, <2>8
<1> QED BY <1>3, <1>4

-----------------------------------------------------------------------------
\* The terms.

LEMMA DoublingsIs == ASSUME NEW v, NEW scale PROVE Doublings(v, scale) \in Nat
<1> DEFINE S == {n \in 0..19 : scale * 2^n < v}
<1>1. IsFiniteSet(0..19)
  <2>1. 0 \in Int /\ 19 \in Int
    OBVIOUS
  <2> QED BY <2>1, FS_Interval, Zenon
<1>2. S \in SUBSET (0..19)
  OBVIOUS
<1>3. IsFiniteSet(S)
  BY <1>1, <1>2, FS_Subset
<1> HIDE DEF S
<1>4. Cardinality(S) \in Nat
  BY <1>3, FS_CardinalityType
<1> QED BY <1>4 DEF Doublings, S

\* The deepest a leg of this kind is ever asked to be.
Bounded(c) == c.model = "fixed" \/ c.maxConfs > 0
Deepest(c) == IF c.model = "fixed" THEN c.fixedMax ELSE c.maxConfs

LEMMA ConfsIs ==
  ASSUME TermsAssumption, NEW c \in Config, NEW btc \in Nat, NEW spc \in Nat
  PROVE  /\ reorgConfs(c, btc, spc) \in Nat
         /\ Bounded(c) => reorgConfs(c, btc, spc) <= Deepest(c)
<1> DEFINE total == 100 * Margin * btc
           cost == IF c.model = "conftarget-rpc" THEN spc * Subsidy ELSE 100 * Subsidy
           depth == CeilDiv(total, cost)
           need == IF cost > 0 THEN AtLeast(c.minConfs, depth) ELSE Unpriced
           dbl == Doublings(btc, c.scale)
<1>1. Subsidy \in Nat /\ Margin \in Nat /\ Unpriced \in Nat
  BY DEF TermsAssumption
<1>2. c.minConfs \in Nat /\ c.maxConfs \in Nat /\ c.fixedConfs \in Nat /\ c.fixedMax \in Nat
  BY DEF Config
<1>3. cost \in Nat /\ total \in Nat
  BY <1>1
<1>4. dbl \in Nat
  BY DoublingsIs
<1> HIDE DEF cost, dbl, total
<1>5. cost > 0 => depth \in Nat
  BY <1>3, CeilDivIs
<1> HIDE DEF depth
<1>6. need \in Nat
  BY <1>1, <1>2, <1>3, <1>5 DEF AtLeast
<1> HIDE DEF need
<1>7. reorgConfs(c, btc, spc)
        = IF c.model = "fixed" THEN AtMost(c.fixedMax, AtLeast(c.minConfs, c.fixedConfs + dbl))
          ELSE IF c.maxConfs > 0 THEN AtMost(need, c.maxConfs) ELSE need
  BY DEF reorgConfs, need, depth, cost, dbl, total
<1> QED BY <1>2, <1>4, <1>6, <1>7 DEF AtMost, AtLeast, Bounded, Deepest

LEMMA LocktimeIs ==
  ASSUME NEW bs \in Nat \ {0}, NEW secs \in Nat
  PROVE  /\ locktimeBlocks(bs, secs) \in Nat
         /\ locktimeBlocks(bs, secs) * bs >= secs
         /\ (locktimeBlocks(bs, secs) - 1) * bs <= secs
<1> DEFINE q == CeilDiv(secs, bs)
<1>1. q \in Nat /\ q * bs >= secs /\ (q - 1) * bs < secs
  BY CeilDivIs
<1> HIDE DEF q
<1>2. CASE q >= 1
  BY <1>1, <1>2 DEF locktimeBlocks, AtLeast, q
<1>3. CASE q = 0
  <2>1. locktimeBlocks(bs, secs) = 1 /\ 0 * bs = 0 /\ 1 * bs = bs /\ secs = 0
    BY <1>1, <1>3 DEF locktimeBlocks, AtLeast, q
  <2> QED BY <2>1
<1> QED BY <1>1, <1>2, <1>3

\* The windows of the qbit pair are wide enough for its slowest funding: the
\* values of the code are two, 10800, 3600 seconds, three of 600 and six of 60.
WindowsWide ==
  "qbit" \in DOMAIN Chain =>
    LET b == Chain["qbit"]["btc"]
        q == Chain["qbit"]["qbit"]
    IN /\ Bounded(b) /\ ToMult >= 2
       /\ ToBase >= 2 * FundingSecs + Deepest(b) * b.blockSecs + RevealBuffer * q.blockSecs

LEMMA TermsAreFit ==
  ASSUME TermsAssumption, Scenario.pair \in DOMAIN Chain,
         NEW btc \in Nat, NEW spc \in Nat
  PROVE  LET t == htlcTerms(Scenario.pair, btc, spc)
         IN /\ t \in [confs : [btc : Nat, qbit : Nat], lock : [btc : Nat, qbit : Nat]]
            /\ Outlasts(t) /\ (WindowsWide => InTime(t))
<1> DEFINE pair == Scenario.pair
           from == Chain[pair]["btc"]
           to == Chain[pair]["qbit"]
           X == from.blockSecs
           Y == to.blockSecs
           cb == reorgConfs(from, btc, spc)
           cq == reorgConfs(to, btc, spc)
           secs == toSecs(to, cq)
           lb == locktimeBlocks(X, secs + FromGap)
           lq == locktimeBlocks(Y, secs)
           t == htlcTerms(pair, btc, spc)
<1>1. from \in Config /\ to \in Config
  BY DEF TermsAssumption, Leg
<1>2. cb \in Nat /\ cq \in Nat /\ (Bounded(from) => cb <= Deepest(from))
  BY <1>1, ConfsIs
<1>3. X \in Nat \ {0} /\ Y \in Nat \ {0}
  BY <1>1 DEF Config
<1>4. t = [confs |-> [btc |-> cb, qbit |-> cq], lock |-> [btc |-> lb, qbit |-> lq]]
  BY DEF htlcTerms
<1>5. /\ ToMult \in Nat /\ ToBase \in Nat /\ FromGap \in Nat /\ MinTo \in Nat
      /\ FundingSecs \in Nat /\ RevealBuffer \in Nat
  BY DEF TermsAssumption
<1>6. Secs("btc", lb) = lb * X /\ Secs("qbit", lq - 1) = (lq - 1) * Y /\ Secs("qbit", lq) = lq * Y
      /\ Secs("btc", cb) = cb * X /\ Secs("qbit", cq) = cq * Y
      /\ Secs("qbit", cq + RevealBuffer) = (cq + RevealBuffer) * Y
  BY DEF Secs
<1>7. secs = AtLeast(MinTo, cq * Y * ToMult + ToBase)
  BY DEF toSecs
<1>8. Deepest(from) \in Nat
  BY <1>1 DEF Deepest, Config
<1>9. WindowsWide /\ pair = "qbit" => /\ Bounded(from) /\ ToMult >= 2
                                       /\ ToBase >= 2 * FundingSecs + Deepest(from) * X + RevealBuffer * Y
  BY DEF WindowsWide
<1> HIDE DEF from, to, cb, cq, X, Y
<1>10. cq * Y * ToMult \in Nat /\ secs \in Nat /\ secs >= cq * Y * ToMult + ToBase
  BY <1>2, <1>3, <1>5, <1>7 DEF AtLeast
<1> HIDE DEF secs
<1>11. lb \in Nat /\ lb * X >= secs + FromGap
  BY <1>3, <1>5, <1>10, LocktimeIs
<1>12. lq \in Nat /\ lq * Y >= secs /\ (lq - 1) * Y <= secs
  BY <1>3, <1>10, LocktimeIs
<1> HIDE DEF lb, lq
<1>13. Outlasts(t)
  <2>1. lb * X \in Int /\ (lq - 1) * Y \in Int
    BY <1>3, <1>11, <1>12
  <2>2. lb * X > (lq - 1) * Y + FromGap - 1
    BY <1>5, <1>10, <1>11, <1>12, <2>1
  <2> QED BY <1>4, <1>6, <2>2 DEF Outlasts
<1>14. ASSUME WindowsWide, pair = "qbit"
       PROVE  lq * Y - (2 * FundingSecs + cb * X + cq * Y) >= (cq + RevealBuffer) * Y
  <2>1. cb * X <= Deepest(from) * X /\ cb * X \in Int /\ Deepest(from) * X \in Int
    BY <1>2, <1>3, <1>8, <1>9, <1>14
  <2> DEFINE U == cq * Y
  <2>2. U \in Nat /\ (cq + RevealBuffer) * Y = U + RevealBuffer * Y /\ RevealBuffer * Y \in Int
    BY <1>2, <1>3, <1>5
  <2>3. U * ToMult >= 2 * U /\ U * ToMult \in Int
    BY <1>5, <1>9, <1>14, <2>2
  <2>4. lq * Y >= U * ToMult + ToBase /\ lq * Y \in Int
    BY <1>2, <1>3, <1>5, <1>10, <1>12
  <2> HIDE DEF U
  <2> QED BY <1>5, <1>9, <1>14, <2>1, <2>2, <2>3, <2>4 DEF U
<1>15. WindowsWide => InTime(t)
  BY <1>4, <1>6, <1>14 DEF InTime
<1>16. t \in [confs : [btc : Nat, qbit : Nat], lock : [btc : Nat, qbit : Nat]]
  BY <1>2, <1>4, <1>11, <1>12
<1> QED BY <1>13, <1>15, <1>16

-----------------------------------------------------------------------------
\* The table: what each step does to it.

\* All that a signature leaves out is the time a swap settled at.
LEMMA Signed ==
  ASSUME WorkingSetAssumption, NEW s \in SwapRecord, NEW t \in SwapRecord
  PROVE  /\ s # None /\ sigOf(s) # None
         /\ sigOf(s) = sigOf(t) => /\ s.joined = t.joined /\ s.fin = t.fin /\ s.state = t.state
                                   /\ s.fee = t.fee /\ s.homeAt = t.homeAt /\ s.terms = t.terms
<1>1. sigOf(s) \in SwapRecord
  BY DEF sigOf, SwapRecord
<1>2. None \notin SwapRecord
  BY DEF WorkingSetAssumption
<1>3. /\ sigOf(s).joined = s.joined /\ sigOf(s).fin = s.fin /\ sigOf(s).state = s.state
      /\ sigOf(s).fee = s.fee /\ sigOf(s).homeAt = s.homeAt /\ sigOf(s).terms = s.terms
  BY DEF sigOf, SwapRecord
<1>4. /\ sigOf(t).joined = t.joined /\ sigOf(t).fin = t.fin /\ sigOf(t).state = t.state
      /\ sigOf(t).fee = t.fee /\ sigOf(t).homeAt = t.homeAt /\ sigOf(t).terms = t.terms
  BY DEF sigOf, SwapRecord
<1> HIDE DEF SwapRecord, sigOf
<1> QED BY <1>1, <1>2, <1>3, <1>4

LEMMA ScenarioType ==
  ASSUME WorkingSetAssumption, TableType
  PROVE  /\ Scenario.pair \in DOMAIN Chain /\ Scenario.amounts \subseteq Nat /\ Scenario.spc \subseteq Nat
         /\ Scenario.gross \subseteq Nat /\ Scenario.events \in [Event -> Nat]
  BY DEF WorkingSetAssumption, TableType, Scenario

LEMMA VersionType ==
  ASSUME WorkingSetAssumption, TableType, NEW i \in Swap
  PROVE  /\ Versions(i) \subseteq SwapRecord
         /\ getSwap(i) # None => getSwap(i) \in Versions(i)
         /\ mem[i] # None => getSwap(i) = mem[i] /\ mem[i] \in SwapRecord
         /\ db[i] # None => db[i] \in SwapRecord /\ getSwap(i) # None
  BY DEF TableType, Versions, getSwap

\* A record that goes on from what getSwap returns, and is put back.
Over == TERMINAL \cup {"CANCELED"}

Grows(i, s) ==
  LET r == getSwap(i)
  IN /\ r # None /\ touch(i, s)
     /\ s.fee = r.fee /\ r.joined \subseteq s.joined /\ (r.fin => s.fin)
     /\ r.state \in Over => s.state \in Over

\* What it is answered for, if for anything, is new in it.
Told(i, s) ==
  \/ acked' = acked
  \/ \E what : /\ acked' = acked \cup {[swap |-> i, what |-> what]}
               /\ Honours(s, what) /\ sigOf(s) # sigOf(getSwap(i))

Fixed(i, s) ==
  \/ s.terms = getSwap(i).terms
  \/ \E btc, spc \in Nat : s.terms = htlcTerms(Scenario.pair, btc, spc)

Typed ==
  /\ left' \in [Event -> Nat] /\ scenario' = scenario /\ floor' \in Nat /\ clock' \in Nat
  /\ DOMAIN finder' = {"pc", "spk", "wallet", "healed"} /\ finder'.spk \subseteq Swap

LEMMA TouchDoes ==
  ASSUME WorkingSetAssumption, TableInv, NEW i \in Swap, NEW s \in SwapRecord, Grows(i, s),
         nextIx' = nextIx, Typed, Told(i, s)
  PROVE  /\ TableInv'
         /\ \A j \in Swap \ {i} : Versions(j)' = Versions(j)
         /\ Versions(i)' \subseteq Versions(i) \cup {s}
         /\ acked \subseteq acked'
<1>1. TableType /\ (\A j \in Swap : InStep(j)) /\ IndexInv /\ AckInv
  BY DEF TableInv
<1>2. DOMAIN mem = Swap /\ DOMAIN db = Swap /\ DOMAIN sig = Swap
  BY <1>1 DEF TableType
<1>3. /\ touch(i, s) /\ getSwap(i) # None /\ getSwap(i) \in SwapRecord
      /\ s.fee = getSwap(i).fee
  BY <1>1, VersionType DEF Grows
<1>4. /\ DOMAIN mem' = Swap /\ DOMAIN db' = Swap /\ DOMAIN sig' = Swap
      /\ \A j \in Swap \ {i} : mem'[j] = mem[j] /\ db'[j] = db[j] /\ sig'[j] = sig[j]
  BY <1>2, <1>3 DEF touch
<1>5. /\ s # None /\ sigOf(s) # None
      /\ mem[i] = None => mem'[i] = None /\ db'[i] = s
      /\ mem[i] # None => /\ mem'[i] = s /\ sig'[i] = sigOf(s)
                          /\ db'[i] = IF sigOf(s) = sig[i] THEN db[i] ELSE s
  BY <1>2, <1>3, Signed DEF touch
<1>6. getSwap(i)' = s /\ \A j \in Swap \ {i} : getSwap(j)' = getSwap(j)
  BY <1>4, <1>5 DEF getSwap
<1>7. TableType'
  <2>1. mem' \in [Swap -> {None} \cup SwapRecord]
    BY <1>1, <1>3 DEF TableType, touch
  <2>2. db' \in [Swap -> {None} \cup SwapRecord]
    BY <1>1, <1>3 DEF TableType, touch
  <2> QED BY <1>1, <1>4, <2>1, <2>2 DEF TableType, Typed
<1>8. \A j \in Swap : InStep(j)'
  <2>1. \A j \in Swap \ {i} : InStep(j)'
    BY <1>1, <1>4 DEF InStep, sigOf
  <2>2. InStep(i)'
    <3>1. CASE mem[i] = None
      BY <1>5, <3>1 DEF InStep
    <3>2. CASE mem[i] # None /\ sigOf(s) # sig[i]
      BY <1>5, <3>2 DEF InStep, sigOf
    <3>3. CASE mem[i] # None /\ sigOf(s) = sig[i]
      <4>1. sig[i] = sigOf(mem[i]) /\ (db[i] # None => sigOf(db[i]) = sigOf(mem[i]))
        BY <1>1, <1>5, <3>3 DEF InStep
      <4>2. mem'[i] = s /\ sig'[i] = sigOf(s) /\ db'[i] = db[i]
        BY <1>5, <3>3
      <4> QED BY <1>5, <3>3, <4>1, <4>2 DEF InStep, sigOf
    <3> QED BY <3>1, <3>2, <3>3
  <2> QED BY <2>1, <2>2
<1>9. /\ \A j \in Swap \ {i} : Versions(j)' = Versions(j)
      /\ Versions(i)' \subseteq Versions(i) \cup {s}
  BY <1>4, <1>5 DEF Versions
<1>10. IndexInv'
  <2>1. \A j \in Swap : \A v \in Versions(j)' : v.fee < nextIx'
    <3>1. s.fee < nextIx
      BY <1>1, <1>3, VersionType DEF IndexInv
    <3> QED BY <1>1, <1>9, <3>1 DEF IndexInv
  <2>2. \A j \in Swap : (getSwap(j)' # None <=> getSwap(j) # None)
                         /\ (getSwap(j) # None => getSwap(j)'.fee = getSwap(j).fee)
    BY <1>3, <1>5, <1>6
  <2>3. \A j, k \in Swap : j # k /\ getSwap(j)' # None /\ getSwap(k)' # None
                            => getSwap(j)'.fee # getSwap(k)'.fee
    BY <1>1, <2>2 DEF IndexInv
  <2> QED BY <2>1, <2>3 DEF IndexInv
<1>11. \A what : db[i] # None /\ Honours(db[i], what) => Honours(s, what)
  <2> SUFFICES ASSUME NEW what, db[i] # None, Honours(db[i], what)
               PROVE  Honours(s, what)
    OBVIOUS
  <2>1. Honours(getSwap(i), what)
    <3>1. CASE mem[i] = None
      BY <3>1 DEF getSwap
    <3>2. CASE mem[i] # None
      <4>1. db[i] \in SwapRecord /\ mem[i] \in SwapRecord /\ sigOf(db[i]) = sigOf(mem[i])
            /\ getSwap(i) = mem[i]
        BY <1>1, <3>2, VersionType DEF InStep
      <4>2. db[i].joined = mem[i].joined /\ db[i].fin = mem[i].fin /\ db[i].state = mem[i].state
        BY <4>1, Signed
      <4> QED BY <4>1, <4>2 DEF Honours
    <3> QED BY <3>1, <3>2
  <2> QED BY <2>1 DEF Grows, Honours, Over
<1>12. acked \subseteq acked'
  BY DEF Told
<1>13. ASSUME NEW a \in acked'
       PROVE  a.swap \in Swap /\ db'[a.swap] # None /\ Honours(db'[a.swap], a.what)
  <2>1. CASE a \in acked
    <3>1. a.swap \in Swap /\ db[a.swap] # None /\ Honours(db[a.swap], a.what)
      BY <1>1, <2>1 DEF AckInv
    <3>2. CASE a.swap # i
      BY <1>4, <3>1, <3>2
    <3>3. CASE a.swap = i
      <4>1. db'[i] \in {db[i], s}
        BY <1>5
      <4> QED BY <1>5, <1>11, <3>1, <3>3, <4>1
    <3> QED BY <3>2, <3>3
  <2>2. CASE a \notin acked
    <3>1. PICK what : /\ acked' = acked \cup {[swap |-> i, what |-> what]}
                      /\ Honours(s, what) /\ sigOf(s) # sigOf(getSwap(i))
      BY <2>2 DEF Told
    <3>2. a = [swap |-> i, what |-> what]
      BY <2>2, <3>1
    <3>3. db'[i] = s
      <4>1. CASE mem[i] # None /\ sigOf(s) = sig[i]
        <5>1. sig[i] = sigOf(mem[i]) /\ getSwap(i) = mem[i]
          BY <1>1, <1>5, <4>1, VersionType DEF InStep
        <5> QED BY <3>1, <4>1, <5>1
      <4> QED BY <1>5, <4>1
    <3> QED BY <1>5, <3>1, <3>2, <3>3
  <2> QED BY <2>1, <2>2
<1>14. AckInv'
  BY <1>13 DEF AckInv, Honours
<1> QED BY <1>7, <1>8, <1>9, <1>10, <1>12, <1>14 DEF TableInv

\* A new swap, and, as it may be, its row.
Stored(i, btc) ==
  \/ db' = db /\ acked' = acked
  \/ db' = [db EXCEPT ![i] = NewSwap(btc)] /\ Ack(i, "created")

LEMMA NewIs ==
  ASSUME TableInv, NEW btc \in Nat
  PROVE  /\ NewSwap(btc) \in SwapRecord
         /\ NewSwap(btc).fee = nextIx /\ NewSwap(btc).homeAt = None /\ NewSwap(btc).terms = None
  BY DEF TableInv, TableType, NewSwap, SwapRecord

LEMMA CreateDoes ==
  ASSUME WorkingSetAssumption, TableInv, NEW i \in Swap, NEW btc \in Nat,
         createSwap(i, btc), Stored(i, btc), Typed
  PROVE  /\ TableInv'
         /\ \A j \in Swap \ {i} : Versions(j)' = Versions(j)
         /\ Versions(i)' \subseteq {NewSwap(btc)}
         /\ acked \subseteq acked'
<1> DEFINE s == NewSwap(btc)
<1>1. TableType /\ (\A j \in Swap : InStep(j)) /\ IndexInv /\ AckInv /\ nextIx \in Nat
  BY DEF TableInv, TableType
<1>2. s \in SwapRecord /\ s.fee = nextIx /\ s # None /\ sigOf(s) # None
  BY NewIs, Signed
<1>3. /\ mem[i] = None /\ db[i] = None
      /\ mem' = [mem EXCEPT ![i] = s] /\ sig' = [sig EXCEPT ![i] = sigOf(s)] /\ nextIx' = nextIx + 1
  BY DEF createSwap, Fresh, Free
<1>4. db' = db \/ db' = [db EXCEPT ![i] = s]
  BY DEF Stored
<1> HIDE DEF s
<1>5. TableType'
  <2>1. mem' \in [Swap -> {None} \cup SwapRecord] /\ DOMAIN sig' = Swap
    BY <1>1, <1>2, <1>3 DEF TableType
  <2>2. db' \in [Swap -> {None} \cup SwapRecord]
    BY <1>1, <1>2, <1>4 DEF TableType
  <2> QED BY <1>1, <1>3, <2>1, <2>2 DEF TableType, Typed
<1>6. /\ \A j \in Swap \ {i} : mem'[j] = mem[j] /\ db'[j] = db[j] /\ sig'[j] = sig[j]
      /\ mem'[i] = s /\ sig'[i] = sigOf(s) /\ db'[i] \in {None, s}
  BY <1>1, <1>3, <1>4 DEF TableType
<1>7. getSwap(i)' = s /\ \A j \in Swap \ {i} : getSwap(j)' = getSwap(j)
  BY <1>2, <1>6 DEF getSwap
<1>8. \A j \in Swap : InStep(j)'
  <2>1. \A j \in Swap \ {i} : InStep(j)'
    BY <1>1, <1>6 DEF InStep, sigOf
  <2>2. InStep(i)'
    BY <1>2, <1>6 DEF InStep, sigOf
  <2> QED BY <2>1, <2>2
<1>9. /\ \A j \in Swap \ {i} : Versions(j)' = Versions(j)
      /\ Versions(i)' \subseteq {s}
  BY <1>6 DEF Versions
<1>10. IndexInv'
  <2>1. \A j \in Swap : \A v \in Versions(j) : v.fee \in Nat /\ v.fee < nextIx
    BY <1>1, VersionType DEF IndexInv, SwapRecord
  <2>2. \A j \in Swap : \A v \in Versions(j)' : v.fee < nextIx'
    BY <1>1, <1>2, <1>3, <1>9, <2>1
  <2>3. \A j \in Swap : getSwap(j) # None => getSwap(j).fee < nextIx
    BY <1>1, <2>1, VersionType
  <2>4. \A j, k \in Swap : j # k /\ getSwap(j)' # None /\ getSwap(k)' # None
                            => getSwap(j)'.fee # getSwap(k)'.fee
    BY <1>1, <1>2, <1>7, <2>3 DEF IndexInv
  <2> QED BY <2>2, <2>4 DEF IndexInv
<1>11. acked \subseteq acked'
  BY DEF Stored, Ack
<1>12. ASSUME NEW a \in acked'
       PROVE  a.swap \in Swap /\ db'[a.swap] # None /\ Honours(db'[a.swap], a.what)
  <2>1. CASE a \in acked
    BY <1>1, <1>3, <1>6, <2>1 DEF AckInv
  <2>2. CASE a \notin acked
    <3>1. db' = [db EXCEPT ![i] = s] /\ a = [swap |-> i, what |-> "created"]
      BY <2>2 DEF Stored, Ack, s
    <3>2. db'[i] = s
      BY <1>1, <3>1 DEF TableType
    <3> QED BY <1>2, <3>1, <3>2 DEF Honours, Role
  <2> QED BY <2>1, <2>2
<1>13. AckInv'
  BY <1>12 DEF AckInv, Honours
<1> QED BY <1>5, <1>8, <1>9, <1>10, <1>11, <1>13 DEF TableInv, s

\* What is settled leaves the working set, and is read from its row.
LEMMA EvictDoes ==
  ASSUME WorkingSetAssumption, TableInv, evictSettled, Typed
  PROVE  /\ TableInv'
         /\ \A j \in Swap : Versions(j)' \subseteq Versions(j)
         /\ acked \subseteq acked'
<1>1. TableType /\ (\A j \in Swap : InStep(j)) /\ IndexInv /\ AckInv
  BY DEF TableInv
<1>2. /\ DOMAIN mem' = Swap /\ DOMAIN sig' = Swap
      /\ \A i \in Swap : mem'[i] = None \/ (mem'[i] = mem[i] /\ sig'[i] = sig[i])
      /\ db' = db /\ nextIx' = nextIx /\ acked' = acked
  BY DEF evictSettled, svars
<1>3. TableType'
  <2>1. mem' \in [Swap -> {None} \cup SwapRecord]
    BY <1>1 DEF TableType, evictSettled
  <2> QED BY <1>1, <1>2, <2>1 DEF TableType, Typed
<1>4. \A j \in Swap : InStep(j)'
  BY <1>1, <1>2 DEF InStep, sigOf
<1>5. \A j \in Swap : Versions(j)' \subseteq Versions(j)
  BY <1>2 DEF Versions
<1>6. \A j \in Swap : getSwap(j)' # None => getSwap(j) # None /\ getSwap(j)'.fee = getSwap(j).fee
  <2> SUFFICES ASSUME NEW j \in Swap, getSwap(j)' # None
               PROVE  getSwap(j) # None /\ getSwap(j)'.fee = getSwap(j).fee
    OBVIOUS
  <2>1. CASE mem'[j] # None
    BY <1>2, <2>1 DEF getSwap
  <2>2. CASE mem'[j] = None
    <3>1. getSwap(j)' = db[j] /\ db[j] # None
      BY <1>2, <2>2 DEF getSwap
    <3>2. CASE mem[j] = None
      BY <3>1, <3>2 DEF getSwap
    <3>3. CASE mem[j] # None
      <4>1. sigOf(db[j]) = sigOf(mem[j]) /\ db[j] \in SwapRecord /\ mem[j] \in SwapRecord
            /\ getSwap(j) = mem[j]
        BY <1>1, <3>1, <3>3, VersionType DEF InStep
      <4> QED BY <3>1, <3>3, <4>1, Signed
    <3> QED BY <3>2, <3>3
  <2> QED BY <2>1, <2>2
<1>7. IndexInv'
  <2>1. \A j \in Swap : \A v \in Versions(j)' : v.fee < nextIx'
    BY <1>1, <1>2, <1>5 DEF IndexInv
  <2>2. \A j, k \in Swap : j # k /\ getSwap(j)' # None /\ getSwap(k)' # None
                            => getSwap(j)'.fee # getSwap(k)'.fee
    BY <1>1, <1>6 DEF IndexInv
  <2> QED BY <2>1, <2>2 DEF IndexInv
<1>8. AckInv'
  BY <1>1, <1>2 DEF AckInv, Honours
<1> QED BY <1>2, <1>3, <1>4, <1>5, <1>7, <1>8 DEF TableInv

\* A restart takes what the rows say, and an index above all of theirs.
LEMMA RestartDoes ==
  ASSUME WorkingSetAssumption, TableInv, Restart, Typed
  PROVE  /\ TableInv'
         /\ \A j \in Swap : Versions(j)' \subseteq Versions(j)
         /\ acked \subseteq acked'
<1>1. TableType /\ (\A j \in Swap : InStep(j)) /\ IndexInv /\ AckInv /\ nextIx \in Nat
  BY DEF TableInv, TableType
<1>2. /\ mem' = db /\ sig' = [i \in Swap |-> None] /\ db' = db
      /\ nextIx' = resumedIndex /\ acked' = acked
  BY DEF Restart
<1> DEFINE S == {-1} \cup {db[i].fee : i \in {j \in Swap : db[j] # None}}
<1>3. \A j \in Swap : db[j] # None => db[j].fee \in Nat /\ db[j].fee < nextIx
  BY <1>1, VersionType DEF IndexInv, Versions, SwapRecord
<1>4. Max(S) \in S /\ \A x \in S : x <= Max(S)
  <2>1. S \in SUBSET Int /\ S # {} /\ \A x \in S : x <= nextIx
    BY <1>1, <1>3
  <2> HIDE DEF S
  <2> QED BY <1>1, <2>1, MaxIs
<1>5. resumedIndex = 1 + Max(S)
  BY DEF resumedIndex
<1>6. -1 \in S /\ S \subseteq Int /\ \A j \in Swap : db[j] # None => db[j].fee \in S
  BY <1>3
<1> HIDE DEF S
<1>7. resumedIndex \in Nat /\ \A j \in Swap : db[j] # None => db[j].fee < resumedIndex
  BY <1>3, <1>4, <1>5, <1>6
<1>8. TableType'
  BY <1>1, <1>2, <1>7 DEF TableType, Typed
<1>9. \A j \in Swap : InStep(j)'
  BY <1>2 DEF InStep, sigOf
<1>10. \A j \in Swap : Versions(j)' \subseteq Versions(j) /\ Versions(j)' \subseteq {db[j]} \ {None}
  BY <1>2 DEF Versions
<1>11. \A j \in Swap : getSwap(j)' # None =>
         /\ getSwap(j) # None /\ getSwap(j)'.fee = getSwap(j).fee
  <2> SUFFICES ASSUME NEW j \in Swap, getSwap(j)' # None
               PROVE  getSwap(j) # None /\ getSwap(j)'.fee = getSwap(j).fee
    OBVIOUS
  <2>1. getSwap(j)' = db[j] /\ db[j] # None
    BY <1>2 DEF getSwap
  <2>2. CASE mem[j] = None
    BY <2>1, <2>2 DEF getSwap
  <2>3. CASE mem[j] # None
    <3>1. sigOf(db[j]) = sigOf(mem[j]) /\ db[j] \in SwapRecord /\ mem[j] \in SwapRecord
          /\ getSwap(j) = mem[j]
      BY <1>1, <2>1, <2>3, VersionType DEF InStep
    <3> QED BY <2>1, <2>3, <3>1, Signed
  <2> QED BY <2>2, <2>3
<1>12. IndexInv'
  <2>1. \A j \in Swap : \A v \in Versions(j)' : v.fee < nextIx'
    BY <1>2, <1>7, <1>10
  <2>2. \A j, k \in Swap : j # k /\ getSwap(j)' # None /\ getSwap(k)' # None
                            => getSwap(j)'.fee # getSwap(k)'.fee
    BY <1>1, <1>11 DEF IndexInv
  <2> QED BY <2>1, <2>2 DEF IndexInv
<1>13. AckInv'
  BY <1>1, <1>2 DEF AckInv, Honours
<1> QED BY <1>2, <1>8, <1>9, <1>10, <1>12, <1>13 DEF TableInv

LEMMA QuietDoes ==
  ASSUME TableInv, UNCHANGED <<tvars, nextIx, acked>>, Typed
  PROVE  /\ TableInv'
         /\ \A j \in Swap : Versions(j)' = Versions(j)
<1>1. TableType /\ (\A j \in Swap : InStep(j)) /\ IndexInv /\ AckInv
  BY DEF TableInv
<1>2. mem' = mem /\ db' = db /\ sig' = sig /\ nextIx' = nextIx /\ acked' = acked
  BY DEF tvars
<1>3. TableType' /\ (\A j \in Swap : InStep(j)') /\ AckInv'
  BY <1>1, <1>2 DEF TableType, Typed, InStep, sigOf, AckInv, Honours
<1>4. \A j \in Swap : Versions(j)' = Versions(j) /\ getSwap(j)' = getSwap(j)
  BY <1>2 DEF Versions, getSwap
<1>5. IndexInv'
  BY <1>1, <1>2, <1>4 DEF IndexInv
<1> QED BY <1>3, <1>4, <1>5 DEF TableInv

-----------------------------------------------------------------------------
\* The steps.

LEMMA Uses ==
  ASSUME left \in [Event -> Nat], NEW e \in Event, Use(e)
  PROVE  /\ left' \in [Event -> Nat]
         /\ e # "evict" => left'["evict"] = left["evict"]
  BY DEF Use, Event

Still == out' = out /\ clock' \in {clock, clock + 1} /\ left'["evict"] = left["evict"]

\* A request or a timer that puts a changed swap back.
Touches(i, s) == Grows(i, s) /\ nextIx' = nextIx /\ Told(i, s) /\ Fixed(i, s)

LEMMA PartyTouches ==
  ASSUME WorkingSetAssumption, TermsAssumption, TableInv, NEW i \in Swap, NEW role \in Role,
         NEW spc \in Scenario.spc, Party(i, role, spc)
  PROVE  \E s \in SwapRecord : Touches(i, s) /\ s.homeAt = getSwap(i).homeAt
<1> DEFINE r == getSwap(i)
           n == [r EXCEPT !.joined = @ \cup {role}]
           t == htlcTerms(Scenario.pair, r.btc, spc)
           s == IF n.joined = Role THEN [n EXCEPT !.state = "READY", !.terms = t] ELSE n
<1>1. /\ r # None /\ r.state = "CREATED" /\ role \notin r.joined
      /\ touch(i, s) /\ Ack(i, role) /\ nextIx' = nextIx
  BY DEF Party
<1>2. TableType
  BY DEF TableInv
<1>3. r \in SwapRecord /\ spc \in Nat /\ Scenario.pair \in DOMAIN Chain
  BY <1>1, <1>2, VersionType, ScenarioType
<1>4. r.btc \in Nat
  BY <1>3 DEF SwapRecord
<1>5. t \in [confs : [btc : Nat, qbit : Nat], lock : [btc : Nat, qbit : Nat]]
  BY <1>3, <1>4, TermsAreFit
<1> HIDE DEF r, t
<1>6. /\ n \in SwapRecord /\ n.joined = r.joined \cup {role} /\ n.state = r.state
      /\ n.fee = r.fee /\ n.fin = r.fin /\ n.homeAt = r.homeAt /\ n.terms = r.terms
  BY <1>3 DEF SwapRecord
<1> HIDE DEF n
<1>7. /\ s \in SwapRecord /\ s.joined = r.joined \cup {role}
      /\ s.fee = r.fee /\ s.fin = r.fin /\ s.homeAt = r.homeAt
      /\ s.terms = r.terms \/ s.terms = t
  BY <1>5, <1>6 DEF SwapRecord
<1> HIDE DEF s
<1>8. r.state \notin Over /\ role \notin {"finish", "canceled"}
  BY <1>1 DEF Over, TERMINAL, Role
<1>9. sigOf(s) # sigOf(r)
  BY <1>1, <1>3, <1>7, Signed
<1>10. Grows(i, s)
  BY <1>1, <1>7, <1>8 DEF Grows, r
<1>11. Told(i, s)
  BY <1>1, <1>7, <1>8, <1>9 DEF Told, Ack, Honours, r
<1>12. Fixed(i, s)
  BY <1>3, <1>4, <1>7 DEF Fixed, r, t
<1> QED BY <1>1, <1>7, <1>10, <1>11, <1>12 DEF Touches, r

\* The other steps change a few fields of the record.
LEMMA EditTouches ==
  ASSUME WorkingSetAssumption, TableInv, NEW i \in Swap, NEW s \in SwapRecord,
         getSwap(i) # None, touch(i, s), nextIx' = nextIx,
         s.fee = getSwap(i).fee, s.joined = getSwap(i).joined, getSwap(i).fin => s.fin,
         getSwap(i).state \in Over => s.state \in Over, s.terms = getSwap(i).terms,
         \/ acked' = acked
         \/ \E what : /\ Ack(i, what) /\ Honours(s, what)
                      /\ s.state # getSwap(i).state \/ s.fin # getSwap(i).fin
  PROVE  Touches(i, s)
<1>1. getSwap(i) \in SwapRecord
  BY VersionType DEF TableInv
<1>2. s.state # getSwap(i).state \/ s.fin # getSwap(i).fin => sigOf(s) # sigOf(getSwap(i))
  BY <1>1, Signed
<1>3. Told(i, s)
  BY <1>2 DEF Told, Ack
<1>4. Grows(i, s)
  BY DEF Grows
<1> QED BY <1>3, <1>4 DEF Touches, Fixed

LEMMA CancelTouches ==
  ASSUME WorkingSetAssumption, TableInv, NEW i \in Swap, cancelSwap(i)
  PROVE  \E s \in SwapRecord : Touches(i, s) /\ s.homeAt = getSwap(i).homeAt
<1> DEFINE r == getSwap(i)
           s == [r EXCEPT !.state = "CANCELED"]
<1>1. /\ r # None /\ r.state \in {"CREATED", "READY"} /\ touch(i, s)
      /\ Ack(i, "canceled") /\ nextIx' = nextIx
  BY DEF cancelSwap
<1>2. r \in SwapRecord
  BY <1>1, VersionType DEF TableInv
<1> HIDE DEF r
<1>3. /\ s \in SwapRecord /\ s.state = "CANCELED" /\ s.fee = r.fee /\ s.joined = r.joined
      /\ s.fin = r.fin /\ s.terms = r.terms /\ s.homeAt = r.homeAt
  BY <1>2 DEF SwapRecord
<1> HIDE DEF s
<1>4. Honours(s, "canceled") /\ s.state \in Over /\ s.state # r.state
  BY <1>1, <1>3 DEF Honours, Over, Role
<1>5. Touches(i, s)
  BY <1>1, <1>3, <1>4, EditTouches DEF r
<1> QED BY <1>3, <1>5 DEF r

LEMMA FinishTouches ==
  ASSUME WorkingSetAssumption, TableInv, NEW i \in Swap, submitFinish(i)
  PROVE  \E s \in SwapRecord : Touches(i, s) /\ s.homeAt = getSwap(i).homeAt
<1> DEFINE r == getSwap(i)
           s == [r EXCEPT !.fin = TRUE]
<1>1. r # None /\ ~r.fin /\ touch(i, s) /\ Ack(i, "finish") /\ nextIx' = nextIx
  BY DEF submitFinish
<1>2. r \in SwapRecord
  BY <1>1, VersionType DEF TableInv
<1> HIDE DEF r
<1>3. /\ s \in SwapRecord /\ s.state = r.state /\ s.fee = r.fee /\ s.joined = r.joined
      /\ s.fin = TRUE /\ s.terms = r.terms /\ s.homeAt = r.homeAt
  BY <1>2 DEF SwapRecord
<1> HIDE DEF s
<1>4. Honours(s, "finish") /\ s.fin # r.fin
  BY <1>1, <1>3 DEF Honours, Role
<1>5. Touches(i, s)
  BY <1>1, <1>3, <1>4, EditTouches DEF r
<1> QED BY <1>3, <1>5 DEF r

LEMMA RecordTouches ==
  ASSUME WorkingSetAssumption, TableInv, NEW i \in Swap, Polled(i), touch(i, Recorded(mem[i])),
         nextIx' = nextIx, acked' = acked
  PROVE  \E s \in SwapRecord : Touches(i, s) /\ s.homeAt = getSwap(i).homeAt
<1> DEFINE r == mem[i]
           st == IF r.state = "READY" THEN "FUNDED" ELSE r.state
           n == [r EXCEPT !.funded = TRUE]
           s == [n EXCEPT !.state = st]
<1>1. r # None /\ r = getSwap(i) /\ r \in SwapRecord
  BY VersionType DEF TableInv, Polled
<1>2. r.state \in {"CREATED", "READY", "FUNDED", "CANCELED"} \cup TERMINAL
  BY <1>1 DEF SwapRecord
<1>3. Recorded(r) = s
  BY <1>1 DEF SwapRecord, Recorded
<1>4. touch(i, s)
  BY <1>3 DEF r
<1> HIDE DEF r
<1>5. /\ st \in {"CREATED", "READY", "FUNDED", "CANCELED"} \cup TERMINAL
      /\ st = r.state \/ r.state = "READY"
  BY <1>2
<1> HIDE DEF st
<1>6. /\ n \in SwapRecord /\ n.fee = r.fee /\ n.joined = r.joined
      /\ n.fin = r.fin /\ n.terms = r.terms /\ n.homeAt = r.homeAt
  BY <1>1 DEF SwapRecord
<1> HIDE DEF n
<1>7. /\ s \in SwapRecord /\ s.fee = r.fee /\ s.joined = r.joined
      /\ s.fin = r.fin /\ s.terms = r.terms /\ s.homeAt = r.homeAt
      /\ s.state = r.state \/ r.state = "READY"
  BY <1>5, <1>6 DEF SwapRecord
<1> HIDE DEF s
<1>8. Touches(i, s)
  BY <1>1, <1>7, <1>4, EditTouches DEF Over, TERMINAL
<1> QED BY <1>1, <1>7, <1>8

LEMMA SettleTouches ==
  ASSUME WorkingSetAssumption, TableInv, NEW i \in Swap, NEW st \in TERMINAL, Settle(i, st)
  PROVE  \E s \in SwapRecord : Touches(i, s) /\ s.homeAt = getSwap(i).homeAt
<1> DEFINE r == mem[i]
           s == [r EXCEPT !.state = st, !.settledAt = clock]
<1>1. r # None /\ r = getSwap(i) /\ r \in SwapRecord /\ clock \in Nat
  BY VersionType DEF TableInv, TableType, Settle, Polled
<1>2. touch(i, s) /\ nextIx' = nextIx /\ acked' = acked
  BY DEF Settle, svars
<1> HIDE DEF r
<1>3. /\ s \in SwapRecord /\ s.fee = r.fee /\ s.joined = r.joined
      /\ s.fin = r.fin /\ s.terms = r.terms /\ s.homeAt = r.homeAt /\ s.state = st
  BY <1>1 DEF SwapRecord
<1> HIDE DEF s
<1>4. Touches(i, s)
  BY <1>1, <1>2, <1>3, EditTouches DEF Over
<1> QED BY <1>1, <1>3, <1>4

\* A probe notes what it saw of the twin and of the spend at home.
LEMMA ProbeTouches ==
  ASSUME WorkingSetAssumption, TableInv, NEW i \in Swap, driveTwinSweep(i)
  PROVE  LET s == Probed(mem[i], out[i])
         IN /\ s \in SwapRecord /\ Touches(i, s) /\ mem[i] # None
            /\ s.homeAt = mem[i].homeAt \/ (mem[i].homeAt = None /\ out[i].home = "spent" /\ s.homeAt = clock)
            /\ s.twin = "swept" => /\ out[i].home = "spent" /\ s.homeAt \in Nat
                                   /\ clock - s.homeAt >= Delay
<1> DEFINE r == mem[i]
           o == out[i]
           s == Probed(r, o)
           seen == [r EXCEPT !.twin = "seen"]
           home == [seen EXCEPT !.homeAt = IF @ = None THEN clock ELSE @]
           tier == AtLeast(r.tier, floor)
<1>1. r # None /\ r = getSwap(i) /\ r \in SwapRecord /\ clock \in Nat /\ floor \in Nat
  BY VersionType DEF TableInv, TableType, driveTwinSweep, Probes
<1>2. touch(i, s) /\ nextIx' = nextIx /\ acked' = acked /\ r.twin \in {"none", "seen"}
  BY DEF driveTwinSweep, svars, Probes
<1>3. Tiers \in Nat
  BY DEF WorkingSetAssumption
<1>4. \/ s = r
      \/ s = seen
      \/ /\ o.home = "spent"
         /\ \/ s = home
            \/ s = [home EXCEPT !.twin = "external"]
            \/ s = [home EXCEPT !.tier = Tiers]
            \/ s = [home EXCEPT !.twin = "swept", !.tier = tier] /\ MaySweep(home)
  BY DEF Probed
<1> HIDE DEF r, o, s
<1>5. tier \in Nat
  BY <1>1 DEF AtLeast, SwapRecord
<1> HIDE DEF tier
<1>6. /\ seen \in SwapRecord /\ seen.fee = r.fee /\ seen.joined = r.joined /\ seen.state = r.state
      /\ seen.fin = r.fin /\ seen.terms = r.terms /\ seen.homeAt = r.homeAt /\ seen.twin = "seen"
  BY <1>1 DEF SwapRecord
<1> HIDE DEF seen
<1>7. /\ home \in SwapRecord /\ home.fee = r.fee /\ home.joined = r.joined /\ home.state = r.state
      /\ home.fin = r.fin /\ home.terms = r.terms /\ home.twin = "seen"
      /\ home.homeAt = (IF r.homeAt = None THEN clock ELSE r.homeAt) /\ home.homeAt \in Nat
  BY <1>1, <1>6 DEF SwapRecord
<1> HIDE DEF home
<1>8. /\ s \in SwapRecord /\ s.fee = r.fee /\ s.joined = r.joined /\ s.state = r.state
      /\ s.fin = r.fin /\ s.terms = r.terms
  <2>1. CASE s \in {r, seen, home}
    BY <1>1, <1>6, <1>7, <2>1
  <2>2. CASE s = [home EXCEPT !.twin = "external"]
    BY <1>7, <2>2 DEF SwapRecord
  <2>3. CASE s = [home EXCEPT !.tier = Tiers]
    BY <1>3, <1>7, <2>3 DEF SwapRecord
  <2>4. CASE s = [home EXCEPT !.twin = "swept", !.tier = tier]
    BY <1>5, <1>7, <2>4 DEF SwapRecord
  <2> QED BY <1>4, <2>1, <2>2, <2>3, <2>4
<1>9. s.homeAt = r.homeAt \/ (o.home = "spent" /\ s.homeAt = home.homeAt)
  BY <1>4, <1>6, <1>7 DEF SwapRecord
<1>10. s.twin = "swept" => o.home = "spent" /\ s.homeAt = home.homeAt /\ MaySweep(home)
  <2>1. r.twin # "swept"
    BY <1>2
  <2>2. CASE s \in {r, seen, home}
    BY <1>6, <1>7, <2>1, <2>2
  <2>3. CASE s = [home EXCEPT !.twin = "external"]
    BY <1>7, <2>3 DEF SwapRecord
  <2>4. CASE s = [home EXCEPT !.tier = Tiers]
    BY <1>7, <2>4 DEF SwapRecord
  <2>5. CASE s = [home EXCEPT !.twin = "swept", !.tier = tier] /\ MaySweep(home) /\ o.home = "spent"
    BY <1>7, <2>5 DEF SwapRecord
  <2> QED BY <1>4, <2>2, <2>3, <2>4, <2>5
<1>11. Touches(i, s)
  BY <1>1, <1>2, <1>8, EditTouches
<1> QED BY <1>1, <1>7, <1>8, <1>9, <1>10, <1>11 DEF MaySweep, r, o, s

\* What the wallet's questions do to the one that is asked.
FinderTyped == DOMAIN finder = {"pc", "spk", "wallet", "healed"} /\ finder.spk \subseteq Swap

LEMMA WalletSteps ==
  /\ \A i \in Swap : FindOutput(i) => FinderTyped'
  /\ ListUnspent \/ Reopen => FinderTyped'
  /\ TableType /\ (OpenWallet \/ ImportSpk \/ SelfHeal) => FinderTyped'
<1>1. ASSUME NEW i \in Swap, FindOutput(i)
      PROVE  FinderTyped'
  BY <1>1 DEF FindOutput, Ask, FinderTyped
<1>2. ASSUME ListUnspent \/ Reopen
      PROVE  FinderTyped'
  BY <1>2 DEF ListUnspent, Reopen, NoFind, FinderTyped
<1>3. ASSUME TableType, OpenWallet \/ ImportSpk \/ SelfHeal
      PROVE  FinderTyped'
  <2>1. DOMAIN finder = {"pc", "spk", "wallet", "healed"} /\ finder.spk \subseteq Swap
    BY <1>3 DEF TableType
  <2>2. CASE OpenWallet
    BY <2>1, <2>2 DEF OpenWallet, NoFind, FinderTyped
  <2>3. CASE ImportSpk
    BY <2>1, <2>3 DEF ImportSpk, NoFind, FinderTyped
  <2>4. CASE SelfHeal
    <3>1. finder' = NoFind \/ finder' = [finder EXCEPT !.pc = "open", !.healed = TRUE]
      BY <2>4 DEF SelfHeal
    <3>2. CASE finder' = NoFind
      BY <3>2 DEF NoFind, FinderTyped
    <3>3. CASE finder' = [finder EXCEPT !.pc = "open", !.healed = TRUE]
      <4> DEFINE f == [finder EXCEPT !.pc = "open"]
      <4>1. DOMAIN f = {"pc", "spk", "wallet", "healed"} /\ f.spk = finder.spk
        BY <2>1
      <4>2. finder' = [f EXCEPT !.healed = TRUE]
        BY <2>1, <3>3
      <4> HIDE DEF f
      <4> QED BY <2>1, <4>1, <4>2 DEF FinderTyped
    <3> QED BY <3>1, <3>2, <3>3
  <2> QED BY <1>3, <2>2, <2>3, <2>4
<1> QED BY <1>1, <1>2, <1>3

\* Every step is of one of these kinds.
OutsideStep(i) ==
  \/ Deposit(i) \/ SpendHome(i) \/ EvictHome(i) \/ Replay(i) \/ OwnerSweeps(i) \/ ReplayBack(i)

LEMMA StepKinds ==
  ASSUME WorkingSetAssumption, TermsAssumption, TableInv, [Next]_vars
  PROVE  /\ Typed
         /\ \/ /\ Still
               /\ \/ \E i \in Swap, btc \in Nat : createSwap(i, btc) /\ Stored(i, btc)
                  \/ \E i \in Swap, s \in SwapRecord : Touches(i, s) /\ s.homeAt = getSwap(i).homeAt
                  \/ evictSettled
                  \/ Restart
                  \/ UNCHANGED <<tvars, nextIx, acked>>
            \/ \E i \in Swap : driveTwinSweep(i)
            \/ UNCHANGED <<tvars, nextIx, acked>> /\ \E i \in Swap : OutsideStep(i)
<1> DEFINE T(i) == \E s \in SwapRecord : Touches(i, s) /\ s.homeAt = getSwap(i).homeAt
           Quiet == UNCHANGED <<tvars, nextIx, acked>>
<1>1. /\ left \in [Event -> Nat] /\ floor \in Nat /\ clock \in Nat
      /\ DOMAIN finder = {"pc", "spk", "wallet", "healed"} /\ finder.spk \subseteq Swap
      /\ TableType
  BY DEF TableInv, TableType
<1>2. Scenario.amounts \subseteq Nat
  BY <1>1, ScenarioType
<1>3. UNCHANGED <<xvars, wvars, scenario>> /\ left' = left => Typed /\ Still
  BY <1>1 DEF Typed, Still, xvars, wvars
<1>4. \A e \in Event \ {"evict"} : UNCHANGED <<xvars, wvars, scenario>> /\ Use(e) => Typed /\ Still
  BY <1>1, Uses DEF Typed, Still, xvars, wvars
<1>5. ASSUME NEW i \in Swap, NEW btc \in Scenario.amounts,
             Create(i, btc) \/ CreateUnstored(i, btc) \/ \E o \in Offer : takeOffer(o, i, btc)
      PROVE  Typed /\ Still /\ btc \in Nat /\ createSwap(i, btc) /\ Stored(i, btc)
  <2>1. CASE Create(i, btc)
    BY <1>2, <1>4, <2>1 DEF Create, Stored, Event
  <2>2. CASE CreateUnstored(i, btc)
    BY <1>2, <1>4, <2>2 DEF CreateUnstored, Stored, Event
  <2>3. CASE \E o \in Offer : takeOffer(o, i, btc)
    BY <1>2, <1>3, <2>3 DEF takeOffer, SetOffer, Stored
  <2> QED BY <1>5, <2>1, <2>2, <2>3
<1>6. ASSUME NEW i \in Swap, NEW role \in Role, NEW spc \in Scenario.spc, Party(i, role, spc)
      PROVE  Typed /\ Still /\ T(i)
  <2>1. T(i)
    BY <1>6, PartyTouches
  <2> QED BY <1>4, <1>6, <2>1 DEF Party, Event
<1>7. ASSUME NEW i \in Swap, cancelSwap(i) \/ submitFinish(i)
      PROVE  Typed /\ Still /\ T(i)
  <2>1. T(i)
    BY <1>7, CancelTouches, FinishTouches
  <2> QED BY <1>4, <1>7, <2>1 DEF cancelSwap, submitFinish, Event
<1>8. ASSUME NEW gross \in Scenario.gross, Quote(gross)
      PROVE  Typed /\ Still /\ Quiet
  BY <1>4, <1>8 DEF Quote, Event
<1>9. ASSUME NEW o \in Offer, createOffer(o) \/ cancelOffer(o) \/ sweepOffers(o)
      PROVE  Typed /\ Still /\ Quiet
  BY <1>3, <1>4, <1>9 DEF createOffer, cancelOffer, sweepOffers, SetOffer, Event
<1>10. ASSUME NEW i \in Swap, PollScans(i)
       PROVE  Typed /\ Still /\ T(i)
  <2>1. Polled(i) /\ touch(i, Recorded(mem[i])) /\ nextIx' = nextIx /\ acked' = acked
    BY <1>10 DEF PollScans, svars
  <2>2. T(i)
    BY <2>1, RecordTouches
  <2> QED BY <1>3, <1>10, <2>2 DEF PollScans, svars
<1>11. ASSUME FinderTyped', UNCHANGED <<xvars, svars, left>>
       PROVE  Typed /\ Still
  BY <1>1, <1>11 DEF FinderTyped, Typed, Still, xvars, svars
<1>12. ASSUME NEW i \in Swap, PollFinds(i)
       PROVE  Typed /\ Still /\ Quiet
  <2>1. FindOutput(i) /\ UNCHANGED <<tvars, xvars, svars, left>>
    BY <1>12 DEF PollFinds
  <2>2. FinderTyped'
    BY <2>1, WalletSteps
  <2> QED BY <1>11, <2>1, <2>2 DEF svars
<1>13. ASSUME PollRecords
       PROVE  Typed /\ Still /\ (Quiet \/ \E i \in Swap : T(i))
  <2>1. ListUnspent /\ UNCHANGED <<xvars, svars, left>>
    BY <1>13 DEF PollRecords
  <2>2. Typed /\ Still
    BY <1>1, <1>11, <2>1, WalletSteps
  <2>3. nextIx' = nextIx /\ acked' = acked
    BY <2>1 DEF svars
  <2>4. CASE UNCHANGED tvars
    BY <2>2, <2>3, <2>4
  <2>5. CASE /\ Listed({i \in Swap : out[i].paid}) # {} /\ Polled(Script)
             /\ touch(Script, Recorded(mem[Script]))
    <3>1. Script \in Swap
      BY <1>1, <2>5 DEF Script, Listed
    <3>2. T(Script)
      BY <2>3, <2>5, <3>1, RecordTouches
    <3> QED BY <2>2, <3>1, <3>2
  <2> QED BY <1>13, <2>4, <2>5 DEF PollRecords
<1>14. ASSUME WalletAnswers \/ cleanupWatch \/ Rotating \/ RotationEnds
       PROVE  Typed /\ Still /\ Quiet
  <2>1. UNCHANGED <<tvars, xvars, svars, left>>
    BY <1>14 DEF WalletAnswers, cleanupWatch, Rotating, RotationEnds
  <2>2. FinderTyped'
    <3>1. CASE WalletAnswers
      BY <1>1, <3>1, WalletSteps DEF WalletAnswers
    <3>2. CASE cleanupWatch
      BY <1>1, <3>2 DEF cleanupWatch, pruneWatch, FinderTyped
    <3>3. CASE Rotating
      BY <1>1, <3>3 DEF Rotating, PruneImport, FinderTyped
    <3>4. CASE RotationEnds
      BY <1>1, <3>4 DEF RotationEnds, PruneEnd, FinderTyped
    <3> QED BY <1>14, <3>1, <3>2, <3>3, <3>4
  <2> QED BY <1>11, <2>1, <2>2 DEF svars
<1>15. ASSUME NEW i \in Swap, NEW st \in TERMINAL, Settle(i, st)
       PROVE  Typed /\ Still /\ T(i)
  <2>1. T(i)
    BY <1>15, SettleTouches
  <2> QED BY <1>4, <1>15, <2>1 DEF Settle, svars, Event
<1>16. ASSUME evictSettled
       PROVE  Typed /\ Still
  BY <1>3, <1>16 DEF evictSettled, svars
<1>17. ASSUME NEW i \in Swap, driveTwinSweep(i)
       PROVE  Typed
  BY <1>1, <1>17 DEF driveTwinSweep, svars, wvars, Typed
<1>18. ASSUME Restart
       PROVE  Typed /\ Still
  <2>1. /\ Use("restart") /\ Reopen /\ out' = out /\ clock' = clock /\ floor' = floor
        /\ scenario' = scenario
    BY <1>18 DEF Restart, xvars
  <2>2. left' \in [Event -> Nat] /\ left'["evict"] = left["evict"]
    BY <1>1, <2>1, Uses DEF Event
  <2>3. FinderTyped'
    BY <2>1, WalletSteps
  <2> QED BY <1>1, <2>1, <2>2, <2>3 DEF Typed, Still, FinderTyped
<1>19. ASSUME NEW i \in Swap, OutsideStep(i)
       PROVE  Typed /\ Quiet
  <2>1. /\ UNCHANGED <<tvars, svars, wvars, clock, floor>>
        /\ left' = left \/ \E e \in Event : Use(e)
    BY <1>19 DEF OutsideStep, Deposit, SpendHome, EvictHome, Replay, OwnerSweeps, ReplayBack, Event
  <2> QED BY <1>1, <2>1, Uses DEF Typed, svars, wvars
<1>20. ASSUME Hour
       PROVE  Typed /\ Still /\ Quiet
  BY <1>1, <1>20, Uses DEF Hour, Typed, Still, svars, wvars, Event
<1>21. ASSUME LockHeight
       PROVE  Typed /\ Still /\ Quiet
  BY <1>1, <1>21 DEF LockHeight, Typed, Still, svars, wvars
<1>22. ASSUME FeesMove
       PROVE  Typed /\ Still /\ Quiet
  <2>1. Use("fee") /\ floor' \in 1..Tiers + 1 /\ UNCHANGED <<tvars, svars, wvars, out, clock>>
    BY <1>22 DEF FeesMove
  <2>2. floor' \in Nat
    BY <2>1 DEF WorkingSetAssumption
  <2> QED BY <1>1, <2>1, <2>2, Uses DEF Typed, Still, svars, wvars, Event
<1>23. ASSUME NodeRestarts
       PROVE  Typed /\ Still /\ Quiet
  <2>1. Use("unload") /\ finder' = finder /\ UNCHANGED <<tvars, xvars, svars>>
    BY <1>23 DEF NodeRestarts, Unload
  <2> QED BY <1>1, <2>1, Uses DEF Typed, Still, svars, xvars, Event
<1>24. CASE UNCHANGED vars
  BY <1>3, <1>24 DEF vars, svars
<1> HIDE DEF T, Quiet
<1>25. CASE Next
  BY <1>5, <1>6, <1>7, <1>8, <1>9, <1>10, <1>12, <1>13, <1>14, <1>15, <1>16, <1>17, <1>18, <1>19,
     <1>20, <1>21, <1>22, <1>23, <1>25, ZenonT(60) DEF Next, OutsideStep, T, Quiet
<1> QED BY <1>24, <1>25 DEF T, Quiet

-----------------------------------------------------------------------------
\* The table, in every reachable state.

LEMMA TableInit == ASSUME WorkingSetAssumption, Init PROVE TableInv
<1>1. /\ mem = [i \in Swap |-> None] /\ sig = mem /\ db = mem /\ acked = {}
      /\ nextIx = 0 /\ clock = 1 /\ floor = 1
      /\ scenario \in DOMAIN Scenarios /\ left = Scenario.events
  BY DEF Init
<1>2. left \in [Event -> Nat]
  BY <1>1 DEF WorkingSetAssumption, Scenario
<1>3. DOMAIN finder = {"pc", "spk", "wallet", "healed"} /\ finder.spk \subseteq Swap
  BY DEF Init, WatchInit, NoFind
<1>4. TableType
  BY <1>1, <1>2, <1>3 DEF TableType
<1>5. (\A i \in Swap : InStep(i)) /\ IndexInv /\ AckInv
  BY <1>1 DEF InStep, IndexInv, AckInv, Versions, getSwap
<1> QED BY <1>4, <1>5 DEF TableInv

LEMMA TableNext ==
  ASSUME WorkingSetAssumption, TermsAssumption, TableInv, [Next]_vars
  PROVE  /\ TableInv' /\ acked \subseteq acked'
         /\ \A j \in Swap : \A v \in Versions(j)' :
              v \in Versions(j) \/ v.terms = None \/ (getSwap(j) # None /\ Fixed(j, v))
<1>1. Typed /\ TableType
  BY StepKinds DEF TableInv
<1>2. CASE \E i \in Swap, btc \in Nat : createSwap(i, btc) /\ Stored(i, btc)
  <2>1. PICK i \in Swap, btc \in Nat : createSwap(i, btc) /\ Stored(i, btc)
    BY <1>2
  <2> QED BY <1>1, <2>1, CreateDoes, NewIs
<1>3. CASE \E i \in Swap, s \in SwapRecord : Touches(i, s)
  <2>1. PICK i \in Swap, s \in SwapRecord : Touches(i, s)
    BY <1>3
  <2> QED BY <1>1, <2>1, TouchDoes DEF Touches, Grows
<1>4. CASE evictSettled \/ Restart \/ UNCHANGED <<tvars, nextIx, acked>>
  BY <1>1, <1>4, EvictDoes, RestartDoes, QuietDoes
<1>5. CASE \E i \in Swap : driveTwinSweep(i)
  <2>1. PICK i \in Swap : driveTwinSweep(i)
    BY <1>5
  <2>2. \E s \in SwapRecord : Touches(i, s)
    BY <2>1, ProbeTouches
  <2> QED BY <1>3, <2>2
<1> QED BY <1>2, <1>3, <1>4, <1>5, StepKinds

\* Types, and the three conjuncts on which what the table promises rests: a
\* swap in memory and its row differ in nothing worth storing, every index given
\* is below the next one, and what was answered is in the rows.
THEOREM TableKept == Spec => []TableInv
<1>1. Init => TableInv
  BY TableInit, WorkingSetAssumption
<1>2. TableInv /\ [Next]_vars => TableInv'
  BY TableNext, WorkingSetAssumption, TermsAssumption
<1> QED BY <1>1, <1>2, PTL DEF Spec

\* A fee address pays for one swap: two swaps whose making was answered have
\* different indices, for every number of swaps, restarts and evictions, and
\* however often the store refuses a row.
THEOREM IndicesOnce == Spec => []FeeIndexOnce
<1>1. TableInv => FeeIndexOnce
  <2> SUFFICES ASSUME TableInv, NEW a \in acked, NEW b \in acked, a.swap # b.swap
               PROVE  getSwap(a.swap).fee # getSwap(b.swap).fee
    BY DEF FeeIndexOnce
  <2>1. \A c \in acked : c.swap \in Swap /\ getSwap(c.swap) # None
    BY WorkingSetAssumption, VersionType DEF TableInv, AckInv
  <2> QED BY <2>1 DEF TableInv, IndexInv
<1> QED BY <1>1, TableKept, PTL

\* What the coordinator answered is in the version that getSwap gives, from
\* memory or from the row, whatever was evicted or restarted since.
THEOREM AnswersKept == Spec => []AckedSurvives
<1>1. TableInv => AckedSurvives
  <2> SUFFICES ASSUME TableInv, NEW a \in acked
               PROVE  getSwap(a.swap) # None /\ Honours(getSwap(a.swap), a.what)
    BY DEF AckedSurvives, Honours
  <2> DEFINE i == a.swap
  <2>1. i \in Swap /\ db[i] # None /\ Honours(db[i], a.what) /\ TableType /\ InStep(i)
    BY DEF TableInv, AckInv
  <2> HIDE DEF i
  <2>2. CASE mem[i] = None
    BY <2>1, <2>2 DEF getSwap, i
  <2>3. CASE mem[i] # None
    <3>1. /\ db[i] \in SwapRecord /\ mem[i] \in SwapRecord /\ sigOf(db[i]) = sigOf(mem[i])
          /\ getSwap(i) = mem[i]
      BY <2>1, <2>3, WorkingSetAssumption, VersionType DEF InStep
    <3>2. db[i].joined = mem[i].joined /\ db[i].fin = mem[i].fin /\ db[i].state = mem[i].state
      BY <3>1, WorkingSetAssumption, Signed
    <3> QED BY <2>1, <2>3, <3>1, <3>2 DEF Honours, i
  <2> QED BY <2>2, <2>3
<1> QED BY <1>1, TableKept, PTL

-----------------------------------------------------------------------------
\* The book.

LEMMA BookNext ==
  ASSUME WorkingSetAssumption, TermsAssumption, TableInv, BookInv, [Next]_vars
  PROVE  BookInv'
<1>1. acked \subseteq acked'
  BY TableNext
<1>2. CASE offers' = offers
  BY <1>1, <1>2 DEF BookInv
<1>3. ASSUME NEW o \in Offer, NEW status \in {"open", "cancelled", "expired"}, SetOffer(o, status, None)
      PROVE  BookInv'
  <2>1. /\ offers' = [offers EXCEPT ![o] = [status |-> status, take |-> None, at |-> clock]]
        /\ DOMAIN offers = Offer
    BY <1>3 DEF SetOffer, BookInv
  <2>2. /\ DOMAIN offers' = Offer /\ \A p \in Offer \ {o} : offers'[p] = offers[p]
        /\ offers'[o] = [status |-> status, take |-> None, at |-> clock]
    BY <2>1
  <2> QED BY <1>1, <2>2 DEF BookInv
<1>4. ASSUME NEW o \in Offer, NEW i \in Swap, NEW btc, takeOffer(o, i, btc)
      PROVE  BookInv'
  <2>1. /\ offers' = [offers EXCEPT ![o] = [status |-> "taken", take |-> i, at |-> clock]]
        /\ DOMAIN offers = Offer
    BY <1>4 DEF takeOffer, SetOffer, BookInv
  <2>2. /\ DOMAIN offers' = Offer /\ \A p \in Offer \ {o} : offers'[p] = offers[p]
        /\ offers'[o] = [status |-> "taken", take |-> i, at |-> clock]
    BY <2>1
  <2>3. [swap |-> i, what |-> "created"] \notin acked /\ [swap |-> i, what |-> "created"] \in acked'
    BY <1>4 DEF takeOffer, createSwap, Fresh, Free, Ack
  <2>4. i # None
    BY DEF WorkingSetAssumption
  <2>5. \A p \in Offer : offers[p].take # i
    BY <2>3, <2>4 DEF BookInv
  <2> QED BY <1>1, <2>2, <2>3, <2>4, <2>5 DEF BookInv
<1>5. CASE Restart
  <2>1. offers' = [o \in Offer |-> [status |-> "none", take |-> None, at |-> 0]]
    BY <1>5 DEF Restart
  <2> QED BY <2>1 DEF BookInv
<1>6. CASE \E o \in Offer : createOffer(o) \/ cancelOffer(o) \/ sweepOffers(o)
  BY <1>3, <1>6 DEF createOffer, cancelOffer, sweepOffers
<1>7. CASE \E i \in Swap, btc \in Scenario.amounts : Create(i, btc) \/ CreateUnstored(i, btc)
  BY <1>2, <1>7 DEF Create, CreateUnstored
<1>8. CASE \E i \in Swap, role \in Role, spc \in Scenario.spc : Party(i, role, spc)
  BY <1>2, <1>8 DEF Party
<1>9. CASE \E i \in Swap : cancelSwap(i) \/ submitFinish(i)
  BY <1>2, <1>9 DEF cancelSwap, submitFinish
<1>10. CASE (\E gross \in Scenario.gross : Quote(gross))
            \/ (\E i \in Swap, st \in TERMINAL : Settle(i, st)) \/ evictSettled
  BY <1>2, <1>10 DEF Quote, Settle, evictSettled, svars
<1>11. CASE (\E i \in Swap : PollFinds(i) \/ PollScans(i) \/ driveTwinSweep(i))
            \/ PollRecords \/ WalletAnswers \/ cleanupWatch \/ Rotating \/ RotationEnds
  BY <1>2, <1>11 DEF PollFinds, PollScans, driveTwinSweep, PollRecords, WalletAnswers, cleanupWatch,
     Rotating, RotationEnds, svars
<1>12. CASE \E i \in Swap : OutsideStep(i)
  BY <1>2, <1>12 DEF OutsideStep, Deposit, SpendHome, EvictHome, Replay, OwnerSweeps, ReplayBack, svars
<1>13. CASE Hour \/ LockHeight \/ FeesMove \/ NodeRestarts \/ UNCHANGED vars
  BY <1>2, <1>13 DEF Hour, LockHeight, FeesMove, NodeRestarts, vars, svars
<1> QED BY <1>4, <1>5, <1>6, <1>7, <1>8, <1>9, <1>10, <1>11, <1>12, <1>13 DEF Next, OutsideStep

\* A taken offer leads to the swap made for it, that was answered for, and no
\* other offer leads there: the swap is made before the offer is marked.
THEOREM OffersLead == Spec => []OfferHasSwap
<1>1. Init => BookInv
  BY DEF Init, BookInv
<1>2. TableInv /\ BookInv /\ [Next]_vars => BookInv'
  BY BookNext, WorkingSetAssumption, TermsAssumption
<1>3. BookInv => OfferHasSwap
  BY DEF BookInv, OfferHasSwap
<1> QED BY <1>1, <1>2, <1>3, TableKept, PTL DEF Spec

-----------------------------------------------------------------------------
\* Quotes and terms.

QuoteInv == quote.net > 0 => quote.gross \in Nat /\ quote.net = takerNetOfGross(quote.gross)

\* For every gross and every pair of fee settings that takes no more than the
\* whole: the maker's outlay is within the quote, short of it by the floor on
\* the platform's cut at most, and where the cut is charged the taker's net
\* is the largest that fits.
THEOREM QuotesHold == ASSUME FeeBps <= Whole PROVE Spec => []OutlayWithinQuote
<1>1. Init => QuoteInv
  BY DEF Init, QuoteInv
<1>2. TableInv /\ QuoteInv /\ [Next]_vars => QuoteInv'
  <2> SUFFICES ASSUME TableInv, QuoteInv, [Next]_vars
               PROVE  QuoteInv'
    OBVIOUS
  <2>1. CASE quote' = quote
    BY <2>1 DEF QuoteInv
  <2>2. CASE \E gross \in Scenario.gross : Quote(gross)
    <3>1. PICK gross \in Scenario.gross : Quote(gross)
      BY <2>2
    <3>2. gross \in Nat
      BY <3>1, ScenarioType, WorkingSetAssumption DEF TableInv
    <3> QED BY <3>1, <3>2 DEF Quote, QuoteInv
  <2>3. CASE \/ \E o \in Offer : createOffer(o) \/ cancelOffer(o) \/ sweepOffers(o)
             \/ \E o \in Offer, i \in Swap, btc \in Scenario.amounts : takeOffer(o, i, btc)
    BY <2>1, <2>3 DEF createOffer, cancelOffer, sweepOffers, takeOffer, SetOffer
  <2>4. CASE \E i \in Swap, btc \in Scenario.amounts : Create(i, btc) \/ CreateUnstored(i, btc)
    BY <2>1, <2>4 DEF Create, CreateUnstored
  <2>5. CASE \E i \in Swap, role \in Role, spc \in Scenario.spc : Party(i, role, spc)
    BY <2>1, <2>5 DEF Party
  <2>6. CASE \E i \in Swap : cancelSwap(i) \/ submitFinish(i)
    BY <2>1, <2>6 DEF cancelSwap, submitFinish
  <2>7. CASE (\E i \in Swap, st \in TERMINAL : Settle(i, st)) \/ evictSettled \/ Restart
    BY <2>1, <2>7 DEF Settle, evictSettled, Restart, svars
  <2>8. CASE (\E i \in Swap : PollFinds(i) \/ PollScans(i) \/ driveTwinSweep(i))
             \/ PollRecords \/ WalletAnswers \/ cleanupWatch \/ Rotating \/ RotationEnds
    BY <2>1, <2>8 DEF PollFinds, PollScans, driveTwinSweep, PollRecords, WalletAnswers, cleanupWatch,
       Rotating, RotationEnds, svars
  <2>9. CASE \E i \in Swap : OutsideStep(i)
    BY <2>1, <2>9 DEF OutsideStep, Deposit, SpendHome, EvictHome, Replay, OwnerSweeps, ReplayBack, svars
  <2>10. CASE Hour \/ LockHeight \/ FeesMove \/ NodeRestarts \/ UNCHANGED vars
    BY <2>1, <2>10 DEF Hour, LockHeight, FeesMove, NodeRestarts, vars, svars
  <2> QED BY <2>2, <2>3, <2>4, <2>5, <2>6, <2>7, <2>8, <2>9, <2>10 DEF Next, OutsideStep
<1>3. QuoteInv => OutlayWithinQuote
  BY NetIs, TermsAssumption DEF QuoteInv, OutlayWithinQuote
<1> QED BY <1>1, <1>2, <1>3, TableKept, PTL DEF Spec

\* Whatever the amounts, the subsidies and the block times: the buyer's leg
\* outlasts the seller's by the gap, and on the qbit pair punctual parties have
\* the time to reveal, as long as the base of the window covers both funding
\* windows, the deepest Bitcoin confirmation and the reveal buffer.
THEOREM WindowsHold == ASSUME WindowsWide PROVE Spec => []WindowsFit
<1>1. Init => TermsInv
  BY DEF Init, TermsInv, Versions
<1>2. TableInv /\ TermsInv /\ [Next]_vars => TermsInv'
  <2> SUFFICES ASSUME TableInv, TermsInv, [Next]_vars, NEW j \in Swap, NEW v \in Versions(j)', v.terms # None
               PROVE  Outlasts(v.terms)' /\ InTime(v.terms)'
    BY DEF TermsInv
  <2>1. scenario' = scenario
    BY StepKinds, WorkingSetAssumption, TermsAssumption DEF Typed
  <2>2. Outlasts(v.terms)' = Outlasts(v.terms) /\ InTime(v.terms)' = InTime(v.terms)
    BY <2>1 DEF Outlasts, InTime, Secs, Scenario
  <2>3. CASE v \in Versions(j)
    BY <2>2, <2>3 DEF TermsInv
  <2>4. CASE v \notin Versions(j)
    <3>1. getSwap(j) # None /\ Fixed(j, v)
      BY <2>4, TableNext, WorkingSetAssumption, TermsAssumption
    <3>2. CASE v.terms = getSwap(j).terms
      BY <2>2, <3>1, <3>2, VersionType, WorkingSetAssumption DEF TermsInv, TableInv
    <3>3. CASE \E btc, spc \in Nat : v.terms = htlcTerms(Scenario.pair, btc, spc)
      <4>1. PICK btc \in Nat, spc \in Nat : v.terms = htlcTerms(Scenario.pair, btc, spc)
        BY <3>3
      <4>2. Scenario.pair \in DOMAIN Chain
        BY ScenarioType, WorkingSetAssumption DEF TableInv
      <4> QED BY <2>2, <4>1, <4>2, TermsAreFit, TermsAssumption
    <3> QED BY <3>1, <3>2, <3>3 DEF Fixed
  <2> QED BY <2>3, <2>4
<1>3. TableInv /\ TermsInv => WindowsFit
  <2> SUFFICES ASSUME TableInv, TermsInv, NEW i \in HasTerms
               PROVE  Outlasts(Terms(i)) /\ InTime(Terms(i))
    BY DEF WindowsFit, BuyerOutlastsSeller, PunctualIsInTime
  <2>1. i \in Swap /\ getSwap(i) # None /\ getSwap(i).terms # None
    BY DEF HasTerms, Terms
  <2>2. getSwap(i) \in Versions(i)
    BY <2>1, VersionType, WorkingSetAssumption DEF TableInv
  <2> QED BY <2>1, <2>2 DEF TermsInv, Terms
<1> QED BY <1>1, <1>2, <1>3, TableKept, PTL DEF Spec

-----------------------------------------------------------------------------
\* The sweep of a replayed deposit.

\* A spend falls out of the mempool once in a run, at most.
OneEviction == \A sc \in DOMAIN Scenarios : Scenarios[sc].events["evict"] <= 1

\* One swap's part of SweepInv: its deposit, the versions of its record, and
\* whether its spend may still fall out.
Safe(o, versions, may, now) ==
  /\ o \in [paid : BOOLEAN, home : {"none", "unspent", "spent"}, at : Nat,
             twin : {"none", "there", "gone"}, swept : BOOLEAN, back : {"none", "took", "refused"}]
  /\ o.at <= now
  /\ o.home # "none" => o.paid
  /\ \A s \in versions : s.homeAt # None /\ may => o.home = "spent" /\ o.at <= s.homeAt
  /\ o.swept => o.home = "spent" /\ (may => now - o.at >= Delay)
  /\ o.back # "took"

LEMMA SafeIs == SweepInv <=> \A i \in Swap : Safe(out[i], Versions(i), left["evict"] > 0, clock)
  BY DEF SweepInv, Safe

\* Nothing is owed to a version that is gone, or has not seen the spend.
LEMMA SafeStays ==
  ASSUME WorkingSetAssumption, NEW o, NEW V, NEW W, NEW may, NEW now \in Nat, Safe(o, V, may, now),
         \A s \in W : s.homeAt # None => \E v \in V : v.homeAt = s.homeAt
  PROVE  Safe(o, W, may, now) /\ Safe(o, W, may, now + 1)
<1>1. o.at \in Nat /\ Delay \in Nat
  BY DEF Safe, WorkingSetAssumption
<1>2. o.at <= now + 1 /\ (now - o.at >= Delay => now + 1 - o.at >= Delay)
  BY <1>1 DEF Safe
<1> QED BY <1>2 DEF Safe

\* The chains and the parties, one swap's deposit at a time.
LEMMA SafeOutside ==
  ASSUME WorkingSetAssumption, TableType, left["evict"] <= 1, NEW i \in Swap, NEW V \in SUBSET SwapRecord,
         DOMAIN out = Swap, OutsideStep(i), Safe(out[i], V, left["evict"] > 0, clock)
  PROVE  /\ Safe(out'[i], V, left'["evict"] > 0, clock)
         /\ left'["evict"] <= left["evict"]
         /\ \A j \in Swap \ {i} : out'[j] = out[j]
<1> DEFINE o == out[i]
           may == left["evict"] > 0
           now == clock
<1>1. now \in Nat /\ Delay \in Nat /\ left \in [Event -> Nat] /\ left["evict"] \in Nat
  BY DEF TableType, WorkingSetAssumption, Event
<1>2. Safe(o, V, may, now)
  OBVIOUS
<1>3. /\ o.paid \in BOOLEAN /\ o.home \in {"none", "unspent", "spent"} /\ o.at \in Nat
      /\ o \in [paid : BOOLEAN, home : {"none", "unspent", "spent"}, at : Nat,
                 twin : {"none", "there", "gone"}, swept : BOOLEAN, back : {"none", "took", "refused"}]
  BY <1>2 DEF Safe
<1>4. ASSUME NEW p, Outside(i, p)
      PROVE  out'[i] = p /\ \A j \in Swap \ {i} : out'[j] = out[j]
  BY <1>4 DEF Outside
<1>5. ASSUME left' = left
      PROVE  left'["evict"] = left["evict"] /\ (left'["evict"] > 0) = may
  BY <1>5
<1>6. ASSUME NEW e \in Event \ {"evict"}, Use(e)
      PROVE  left'["evict"] = left["evict"] /\ (left'["evict"] > 0) = may
  BY <1>1, <1>6, Uses
<1> HIDE DEF o, may, now
<1>7. CASE Deposit(i)
  <2> DEFINE q == [o EXCEPT !.paid = TRUE]
             p == [q EXCEPT !.home = "unspent"]
  <2>1. Outside(i, p) /\ ~o.paid /\ left' = left
    BY <1>3, <1>7 DEF Deposit, o
  <2>2. /\ p \in [paid : BOOLEAN, home : {"none", "unspent", "spent"}, at : Nat,
                   twin : {"none", "there", "gone"}, swept : BOOLEAN, back : {"none", "took", "refused"}]
        /\ p.paid = TRUE /\ p.at = o.at /\ p.swept = o.swept /\ p.back = o.back /\ p.home = "unspent"
    BY <1>3
  <2> HIDE DEF p
  <2>3. ~o.swept /\ o.home # "spent" /\ o.at <= now /\ o.back # "took"
    BY <1>2, <2>1 DEF Safe
  <2>4. \A s \in V : ~(s.homeAt # None /\ may)
    BY <1>2, <2>3 DEF Safe
  <2>5. Safe(p, V, may, now)
    BY <2>2, <2>3, <2>4 DEF Safe
  <2>6. out'[i] = p /\ \A j \in Swap \ {i} : out'[j] = out[j]
    BY <1>4, <2>1
  <2>7. left'["evict"] = left["evict"] /\ (left'["evict"] > 0) = may /\ left["evict"] <= left["evict"]
    BY <1>1, <1>5, <2>1
  <2> QED BY <2>5, <2>6, <2>7 DEF now
<1>8. CASE SpendHome(i)
  <2> DEFINE q == [o EXCEPT !.home = "spent"]
             p == [q EXCEPT !.at = now]
  <2>1. Outside(i, p) /\ o.home = "unspent" /\ left' = left
    BY <1>3, <1>8 DEF SpendHome, o, now
  <2>2. /\ p \in [paid : BOOLEAN, home : {"none", "unspent", "spent"}, at : Nat,
                   twin : {"none", "there", "gone"}, swept : BOOLEAN, back : {"none", "took", "refused"}]
        /\ p.paid = o.paid /\ p.at = now /\ p.swept = o.swept /\ p.back = o.back /\ p.home = "spent"
    BY <1>1, <1>3 DEF now
  <2> HIDE DEF p
  <2>3. ~o.swept /\ o.paid /\ o.back # "took"
    BY <1>2, <2>1 DEF Safe
  <2>4. \A s \in V : ~(s.homeAt # None /\ may)
    BY <1>2, <2>1 DEF Safe
  <2>5. p.at <= now
    BY <1>1, <2>2 DEF now
  <2>6. Safe(p, V, may, now)
    BY <2>2, <2>3, <2>4, <2>5 DEF Safe
  <2>7. out'[i] = p /\ \A j \in Swap \ {i} : out'[j] = out[j]
    BY <1>4, <2>1
  <2>8. left'["evict"] = left["evict"] /\ (left'["evict"] > 0) = may /\ left["evict"] <= left["evict"]
    BY <1>1, <1>5, <2>1
  <2> QED BY <2>6, <2>7, <2>8 DEF now
<1>9. CASE EvictHome(i)
  <2> DEFINE p == [o EXCEPT !.home = "unspent"]
  <2>1. Outside(i, p) /\ o.home = "spent" /\ now - o.at < Delay /\ Use("evict")
    BY <1>9 DEF EvictHome, o, now
  <2>2. /\ p \in [paid : BOOLEAN, home : {"none", "unspent", "spent"}, at : Nat,
                   twin : {"none", "there", "gone"}, swept : BOOLEAN, back : {"none", "took", "refused"}]
        /\ p.paid = o.paid /\ p.at = o.at /\ p.swept = o.swept /\ p.back = o.back /\ p.home = "unspent"
    BY <1>3
  <2>3. left["evict"] = 1 /\ left'["evict"] = 0
    BY <1>1, <2>1 DEF Use, Event
  <2> HIDE DEF p
  <2>4. may /\ ~o.swept
    BY <1>1, <1>2, <1>3, <2>1, <2>3 DEF Safe, may, now
  <2>5. Safe(p, V, FALSE, now)
    BY <1>2, <2>1, <2>2, <2>4 DEF Safe
  <2>6. (left'["evict"] > 0) = FALSE /\ left'["evict"] <= left["evict"]
    BY <2>3
  <2> QED BY <1>4, <2>1, <2>5, <2>6 DEF now
<1>10. CASE Replay(i) \/ OwnerSweeps(i)
  <2>1. PICK tw \in {"there", "gone"} : Outside(i, [o EXCEPT !.twin = tw])
    BY <1>10 DEF Replay, OwnerSweeps, o
  <2>2. \E e \in Event \ {"evict"} : Use(e)
    BY <1>10 DEF Replay, OwnerSweeps, Event
  <2> DEFINE p == [o EXCEPT !.twin = tw]
  <2>3. /\ p \in [paid : BOOLEAN, home : {"none", "unspent", "spent"}, at : Nat,
                   twin : {"none", "there", "gone"}, swept : BOOLEAN, back : {"none", "took", "refused"}]
        /\ p.paid = o.paid /\ p.at = o.at /\ p.swept = o.swept /\ p.back = o.back /\ p.home = o.home
    BY <1>3
  <2> HIDE DEF p
  <2>4. Safe(p, V, may, now)
    BY <1>2, <2>3 DEF Safe
  <2> QED BY <1>1, <1>4, <1>6, <2>1, <2>2, <2>4 DEF p, may, now
<1>11. CASE ReplayBack(i)
  <2> DEFINE back == IF o.home = "unspent" THEN "took" ELSE "refused"
             q == [o EXCEPT !.home = "spent"]
             p == [q EXCEPT !.back = back]
  <2>1. Outside(i, p) /\ o.swept /\ left' = left
    BY <1>3, <1>11 DEF ReplayBack, o
  <2>2. o.home = "spent" /\ back = "refused"
    BY <1>2, <2>1 DEF Safe
  <2> HIDE DEF back
  <2>3. /\ p \in [paid : BOOLEAN, home : {"none", "unspent", "spent"}, at : Nat,
                   twin : {"none", "there", "gone"}, swept : BOOLEAN, back : {"none", "took", "refused"}]
        /\ p.paid = o.paid /\ p.at = o.at /\ p.swept = o.swept /\ p.back = "refused" /\ p.home = o.home
    BY <1>3, <2>2
  <2> HIDE DEF p
  <2>4. Safe(p, V, may, now)
    BY <1>2, <2>1, <2>3 DEF Safe
  <2>5. out'[i] = p /\ \A j \in Swap \ {i} : out'[j] = out[j]
    BY <1>4, <2>1
  <2>6. left'["evict"] = left["evict"] /\ (left'["evict"] > 0) = may /\ left["evict"] <= left["evict"]
    BY <1>1, <1>5, <2>1
  <2> QED BY <2>4, <2>5, <2>6 DEF now
<1> QED BY <1>7, <1>8, <1>9, <1>10, <1>11 DEF OutsideStep

\* A probe: what is noted has been seen, what is swept has waited.
LEMMA SafeProbe ==
  ASSUME WorkingSetAssumption, TableInv, NEW i \in Swap, driveTwinSweep(i), DOMAIN out = Swap,
         Safe(out[i], Versions(i), left["evict"] > 0, clock)
  PROVE  /\ Safe(out'[i], Versions(i)', left'["evict"] > 0, clock')
         /\ left' = left /\ clock' = clock
         /\ \A j \in Swap \ {i} : out'[j] = out[j] /\ Versions(j)' = Versions(j)
<1> DEFINE o == out[i]
           s == Probed(mem[i], o)
           V == Versions(i)
           may == left["evict"] > 0
           now == clock
           g == [o EXCEPT !.twin = "gone"]
           p == [g EXCEPT !.swept = TRUE]
<1>1. /\ s \in SwapRecord /\ Touches(i, s) /\ mem[i] # None
      /\ s.homeAt = mem[i].homeAt \/ (mem[i].homeAt = None /\ o.home = "spent" /\ s.homeAt = now)
      /\ s.twin = "swept" => o.home = "spent" /\ s.homeAt \in Nat /\ now - s.homeAt >= Delay
  BY ProbeTouches
<1>2. /\ left' = left /\ clock' = clock
      /\ out' = IF s.twin = "swept" THEN [out EXCEPT ![i].twin = "gone", ![i].swept = TRUE] ELSE out
  BY DEF driveTwinSweep, svars
<1>3. now \in Nat /\ Delay \in Nat /\ TableType
  BY DEF TableInv, TableType, WorkingSetAssumption
<1>4. Typed
  BY <1>2, <1>3 DEF driveTwinSweep, svars, wvars, TableType, Typed
<1>5. (\A j \in Swap \ {i} : Versions(j)' = Versions(j)) /\ Versions(i)' \subseteq V \cup {s}
  BY <1>1, <1>4, TouchDoes DEF Touches
<1>6. mem[i] \in V /\ mem[i] \in SwapRecord /\ V \subseteq SwapRecord
  BY <1>1, <1>3, VersionType DEF Versions
<1>7. Safe(o, V, may, now)
  OBVIOUS
<1>8. o.at \in Nat /\ o.at <= now
  BY <1>7 DEF Safe
<1>9. \A j \in Swap \ {i} : out'[j] = out[j]
  BY <1>2
<1>10. out'[i] = IF s.twin = "swept" THEN p ELSE o
  BY <1>2, <1>7 DEF Safe
<1> HIDE DEF o, s, V, may, now
<1>11. s.homeAt # None /\ may => o.home = "spent" /\ o.at <= s.homeAt
  BY <1>1, <1>6, <1>7, <1>8 DEF Safe
<1>12. Safe(o, V \cup {s}, may, now)
  BY <1>7, <1>11 DEF Safe
<1>13. ASSUME s.twin = "swept"
       PROVE  Safe(p, V \cup {s}, may, now)
  <2>1. o.home = "spent" /\ s.homeAt \in Nat /\ now - s.homeAt >= Delay /\ s.homeAt # None
    BY <1>1, <1>13 DEF WorkingSetAssumption
  <2>2. may => now - o.at >= Delay
    BY <1>3, <1>8, <1>11, <2>1 DEF now
  <2>3. o \in [paid : BOOLEAN, home : {"none", "unspent", "spent"}, at : Nat,
              twin : {"none", "there", "gone"}, swept : BOOLEAN, back : {"none", "took", "refused"}]
    BY <1>7 DEF Safe
  <2>4. /\ p \in [paid : BOOLEAN, home : {"none", "unspent", "spent"}, at : Nat,
                   twin : {"none", "there", "gone"}, swept : BOOLEAN, back : {"none", "took", "refused"}]
        /\ p.paid = o.paid /\ p.home = o.home /\ p.at = o.at /\ p.back = o.back
    BY <2>3
  <2> HIDE DEF p
  <2> QED BY <1>12, <2>1, <2>2, <2>4 DEF Safe
<1> HIDE DEF p
<1>14. Safe(out'[i], V \cup {s}, may, now)
  BY <1>10, <1>12, <1>13
<1>15. Safe(out'[i], Versions(i)', may, now)
  <2> DEFINE W == V \cup {s}
             X == Versions(i)'
  <2>1. X \subseteq W /\ now \in Nat /\ Safe(out'[i], W, may, now)
    BY <1>3, <1>5, <1>14 DEF now
  <2> HIDE DEF W, X
  <2>2. Safe(out'[i], X, may, now)
    BY <2>1, SafeStays
  <2> QED BY <2>2 DEF X
<1> QED BY <1>2, <1>5, <1>9, <1>15 DEF may, now

LEMMA SweepNext ==
  ASSUME WorkingSetAssumption, TermsAssumption, TableInv, [Next]_vars,
         SweepInv, DOMAIN out = Swap, left["evict"] <= 1
  PROVE  SweepInv' /\ DOMAIN out' = Swap /\ left'["evict"] <= 1
<1>1. Typed /\ TableType /\ clock \in Nat /\ left["evict"] \in Nat
  BY StepKinds DEF TableInv, TableType, Event
<1>2. \A i \in Swap : Safe(out[i], Versions(i), left["evict"] > 0, clock)
  BY SafeIs
<1>3. SweepInv' <=> \A i \in Swap : Safe(out'[i], Versions(i)', left'["evict"] > 0, clock')
  BY DEF SweepInv, Safe
<1>4. ASSUME Still,
             \A i \in Swap : \A s \in Versions(i)' : s.homeAt # None => \E v \in Versions(i) : v.homeAt = s.homeAt
      PROVE  SweepInv' /\ DOMAIN out' = Swap /\ left'["evict"] <= 1
  <2>1. out' = out /\ clock' \in {clock, clock + 1} /\ left'["evict"] = left["evict"]
    BY <1>4 DEF Still
  <2>2. ASSUME NEW i \in Swap
        PROVE  Safe(out'[i], Versions(i)', left'["evict"] > 0, clock')
    <3>1. /\ Safe(out[i], Versions(i)', left["evict"] > 0, clock)
          /\ Safe(out[i], Versions(i)', left["evict"] > 0, clock + 1)
      <4> DEFINE V == Versions(i)
                 X == Versions(i)'
                 o == out[i]
                 may == left["evict"] > 0
      <4>1. Safe(o, V, may, clock) /\ \A s \in X : s.homeAt # None => \E v \in V : v.homeAt = s.homeAt
        BY <1>2, <1>4
      <4> HIDE DEF V, X, o, may
      <4>2. Safe(o, X, may, clock) /\ Safe(o, X, may, clock + 1)
        BY <1>1, <4>1, SafeStays
      <4> QED BY <4>2 DEF X, o, may
    <3> QED BY <2>1, <3>1
  <2> QED BY <1>3, <2>1, <2>2
<1>5. CASE Still /\ \E i \in Swap, btc \in Nat : createSwap(i, btc) /\ Stored(i, btc)
  <2>1. PICK i \in Swap, btc \in Nat : createSwap(i, btc) /\ Stored(i, btc)
    BY <1>5
  <2>2. /\ \A j \in Swap \ {i} : Versions(j)' = Versions(j)
        /\ Versions(i)' \subseteq {NewSwap(btc)} /\ NewSwap(btc).homeAt = None
    BY <1>1, <2>1, CreateDoes, NewIs
  <2> QED BY <1>4, <1>5, <2>2
<1>6. CASE Still /\ \E i \in Swap, s \in SwapRecord : Touches(i, s) /\ s.homeAt = getSwap(i).homeAt
  <2>1. PICK i \in Swap, s \in SwapRecord : Touches(i, s) /\ s.homeAt = getSwap(i).homeAt
    BY <1>6
  <2>2. /\ \A j \in Swap \ {i} : Versions(j)' = Versions(j)
        /\ Versions(i)' \subseteq Versions(i) \cup {s}
    BY <1>1, <2>1, TouchDoes DEF Touches
  <2>3. getSwap(i) \in Versions(i)
    BY <1>1, <2>1, VersionType DEF Touches, Grows
  <2> QED BY <1>4, <1>6, <2>1, <2>2, <2>3
<1>7. CASE Still /\ (evictSettled \/ Restart \/ UNCHANGED <<tvars, nextIx, acked>>)
  <2>1. \A j \in Swap : Versions(j)' \subseteq Versions(j)
    BY <1>1, <1>7, EvictDoes, RestartDoes, QuietDoes
  <2> QED BY <1>4, <1>7, <2>1
<1>8. CASE \E i \in Swap : driveTwinSweep(i)
  <2>1. PICK i \in Swap : driveTwinSweep(i)
    BY <1>8
  <2>2. /\ Safe(out'[i], Versions(i)', left'["evict"] > 0, clock')
        /\ left' = left /\ clock' = clock
        /\ \A j \in Swap \ {i} : out'[j] = out[j] /\ Versions(j)' = Versions(j)
    BY <1>2, <2>1, SafeProbe
  <2>3. DOMAIN out' = Swap
    BY <2>1 DEF driveTwinSweep
  <2> QED BY <1>2, <1>3, <2>2, <2>3
<1>9. CASE UNCHANGED <<tvars, nextIx, acked>> /\ \E i \in Swap : OutsideStep(i)
  <2>1. PICK i \in Swap : OutsideStep(i)
    BY <1>9
  <2>2. \A j \in Swap : Versions(j)' = Versions(j)
    BY <1>1, <1>9, QuietDoes
  <2>3. Versions(i) \in SUBSET SwapRecord
    BY <1>1, VersionType
  <2>4. /\ Safe(out'[i], Versions(i), left'["evict"] > 0, clock)
        /\ left'["evict"] <= left["evict"]
        /\ \A j \in Swap \ {i} : out'[j] = out[j]
    BY <1>1, <1>2, <2>1, <2>3, SafeOutside
  <2>5. clock' = clock /\ DOMAIN out' = Swap
    BY <2>1 DEF OutsideStep, Deposit, SpendHome, EvictHome, Replay, OwnerSweeps, ReplayBack, Outside
  <2>6. left'["evict"] \in Nat /\ left'["evict"] <= 1 /\ (left'["evict"] > 0 => left["evict"] > 0)
    BY <1>1, <2>4 DEF Typed, Event
  <2>7. \A j \in Swap \ {i} : Safe(out[j], Versions(j), left'["evict"] > 0, clock)
    BY <1>2, <2>6 DEF Safe
  <2>8. \A j \in Swap : Safe(out'[j], Versions(j)', left'["evict"] > 0, clock')
    BY <2>2, <2>4, <2>5, <2>7
  <2> QED BY <1>3, <2>5, <2>6, <2>8
<1> QED BY <1>5, <1>6, <1>7, <1>8, <1>9, StepKinds

\* The sweep of a replayed deposit never takes the deposit itself: it goes out
\* no earlier than the delay after a spend at home was seen, and by then that
\* spend cannot fall out any more.  With one such fall in a run, because the
\* delay is not started again by a second spend.
THEOREM SweepsStayAway == ASSUME OneEviction PROVE Spec => []SweepStaysAway
<1> DEFINE I == SweepInv /\ DOMAIN out = Swap /\ left["evict"] <= 1
<1>1. Init => I
  <2> SUFFICES ASSUME Init
               PROVE  I
    OBVIOUS
  <2>1. /\ mem = [i \in Swap |-> None] /\ db = mem /\ clock = 1
        /\ out = [i \in Swap |-> NoDeposit]
        /\ scenario \in DOMAIN Scenarios /\ left = Scenarios[scenario].events
    BY DEF Init, Scenario
  <2>2. left["evict"] <= 1
    BY <2>1 DEF OneEviction
  <2>3. \A i \in Swap : Versions(i) = {}
    BY <2>1 DEF Versions
  <2>4. SweepInv
    BY <2>1, <2>3 DEF SweepInv, NoDeposit
  <2> QED BY <2>1, <2>2, <2>4
<1>2. TableInv /\ I /\ [Next]_vars => I'
  BY SweepNext, WorkingSetAssumption, TermsAssumption
<1>3. I => SweepStaysAway
  BY DEF SweepInv, SweepStaysAway
<1> QED BY <1>1, <1>2, <1>3, TableKept, PTL DEF Spec
=============================================================================
