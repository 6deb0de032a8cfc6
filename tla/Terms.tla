-------------------------------- MODULE Terms --------------------------------
(***************************************************************************)
(* The terms of a swap, computed when it is created and when it becomes    *)
(* READY: the fee on top of the buyer's deposit and what a taker who sells *)
(* nets of a quote, the depth at which each deposit counts as safe, and    *)
(* the two windows, in seconds and in blocks of two unlike chains.         *)
(***************************************************************************)
EXTENDS Integers, FiniteSetsExt

CONSTANTS
  Whole,        \* what FEE_BPS is a share of: 10000 in the code
  FeeBps,       \* FEE_BPS
  FeeMin,       \* FEE_MIN_SATS
  Reserve,      \* feeNetSats at the current rate
  Margin,       \* REORG_MARGIN
  Unpriced,     \* UNPRICED_CONFS
  Subsidy,      \* the block subsidy in force, in units of the amounts
  RevealBuffer, \* REVEAL_BUFFER_BLOCKS
  ToMult, ToBase, FromGap, MinTo,   \* HTLC_TO_MULT, HTLC_TO_BASE_SECS, HTLC_FROM_GAP_SECS, MIN_TO_SECS
  FundingSecs,  \* FUNDING_WINDOW_MS, in seconds
  Chain         \* pair of chains -> leg -> configuration

Leg == {"btc", "qbit"}      \* the buyer funds btc (fromLeg), the seller qbit (toLeg)

Config == [blockSecs : Nat \ {0}, minSats : Nat, minConfs : Nat, maxConfs : Nat,
           model : {"btc-subsidy", "conftarget-rpc", "fixed"},
           fixedConfs : Nat, scale : Nat \ {0}, fixedMax : Nat]

ASSUME TermsAssumption ==
  /\ \A n \in {Whole, FeeMin, Margin, Subsidy, Unpriced} : n \in Nat \ {0}
  /\ \A n \in {FeeBps, Reserve, RevealBuffer, FundingSecs} : n \in Nat
  /\ \A n \in {ToMult, ToBase, FromGap, MinTo} : n \in Nat
  /\ \A p \in DOMAIN Chain : Chain[p] \in [Leg -> Config]

CeilDiv(a, b)  == (a + b - 1) \div b
RoundDiv(a, b) == (2 * a + b) \div (2 * b)
AtLeast(a, b)  == IF a > b THEN a ELSE b
AtMost(a, b)   == IF a < b THEN a ELSE b

-----------------------------------------------------------------------------
\* The fee.

platformRaw(btc) == RoundDiv(btc * FeeBps, Whole)

\* Below the floor the platform's cut is dropped, the network reserve is not.
composeFee(raw) ==
  LET platform == IF raw >= FeeMin THEN raw ELSE 0
  IN [platform |-> platform, netFee |-> Reserve, sats |-> platform + Reserve]

feeTotalOn(btc) == composeFee(platformRaw(btc)).sats

\* Mutant: the closed form is not settled downwards.
takerNetOfGross_Unsettled(gross) ==
  LET noPlat == gross - Reserve
  IN IF noPlat <= 0 THEN 0
     ELSE IF platformRaw(noPlat) < FeeMin THEN noPlat
     ELSE (noPlat * Whole) \div (Whole + FeeBps) + 1

\* What a taker who sells nets when the maker's outlay is capped at gross.
takerNetOfGross(gross) ==
  LET noPlat == gross - Reserve
      b0     == (noPlat * Whole) \div (Whole + FeeBps) + 1
  IN IF noPlat <= 0 THEN 0
     ELSE IF platformRaw(noPlat) < FeeMin THEN noPlat
     ELSE Max({0} \cup {b \in 1..b0 : b + feeTotalOn(b) <= gross})

-----------------------------------------------------------------------------
\* The depth at which a deposit is safe.

\* The doublings of `scale` that reach v, of at most twenty.
Doublings(v, scale) == Cardinality({n \in 0..19 : scale * 2^n < v})

\* spc is what the node says one confirmation of the leg is worth in btc ones,
\* in hundredths; 0 when it has no model.
reorgConfs(c, btc, spc) ==
  LET cost == IF c.model = "conftarget-rpc" THEN spc * Subsidy ELSE 100 * Subsidy
      need == IF cost > 0 THEN AtLeast(c.minConfs, CeilDiv(100 * Margin * btc, cost)) ELSE Unpriced
  IN IF c.model = "fixed"
     THEN AtMost(c.fixedMax, AtLeast(c.minConfs, c.fixedConfs + Doublings(btc, c.scale)))
     ELSE IF c.maxConfs > 0 THEN AtMost(need, c.maxConfs) ELSE need

-----------------------------------------------------------------------------
\* The windows.

locktimeBlocks(blockSecs, secs) == AtLeast(1, CeilDiv(secs, blockSecs))

\* Mutant: the seller's window leaves out the confirmations it is to cover.
toSecs_Flat(to, confs) == AtLeast(MinTo, ToBase)

toSecs(to, confs) == AtLeast(MinTo, confs * to.blockSecs * ToMult + ToBase)

\* What READY fixes: the depths and, in blocks from now, the two timelocks.
htlcTerms(pair, btc, spc) ==
  LET from  == Chain[pair]["btc"]
      to    == Chain[pair]["qbit"]
      confs == reorgConfs(to, btc, spc)
      secs  == toSecs(to, confs)
  IN [confs |-> [btc |-> reorgConfs(from, btc, spc), qbit |-> confs],
      lock  |-> [btc |-> locktimeBlocks(from.blockSecs, secs + FromGap),
                 qbit |-> locktimeBlocks(to.blockSecs, secs)]]
=============================================================================
