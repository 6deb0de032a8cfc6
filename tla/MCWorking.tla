------------------------------ MODULE MCWorking ------------------------------
(***************************************************************************)
(* Small instances of WorkingSet for TLC.  Amounts are in units of 10000   *)
(* sats, seconds as they are, the fee two percent.                         *)
(***************************************************************************)
EXTENDS WorkingSet

Btc == [blockSecs |-> 600, minSats |-> 5, minConfs |-> 1, maxConfs |-> 3,
        model |-> "btc-subsidy", fixedConfs |-> 6, scale |-> 1, fixedMax |-> 12]

MCChain ==
  [p \in {"qbit", "bip110"} |->
     [l \in Leg |->
        IF l = "btc" THEN Btc
        ELSE IF p = "qbit" THEN [Btc EXCEPT !.blockSecs = 60, !.maxConfs = 0, !.model = "conftarget-rpc"]
        ELSE [Btc EXCEPT !.model = "fixed", !.fixedConfs = 1, !.scale = 100]]]

Events(e) == [x \in Event |-> IF x \in DOMAIN e THEN e[x] ELSE 0]

With(e) == [pair |-> "qbit", amounts |-> {100}, gross |-> {}, spc |-> {20}, scan |-> FALSE,
            events |-> Events(e)]

\* Terms over many amounts, quotes over many prices.
Sized(pair) == [With([create |-> 1, join |-> 2]) EXCEPT !.pair = pair, !.spc = {0, 1, 20, 100},
                  !.amounts = {1, 5, 99, 100, 101, 199, 400, 5000, 31250, 31251, 400000}]
Priced == [With([quote |-> 1]) EXCEPT !.gross = 1..20 \cup 470..530]

\* Making swaps, taking offers, the store and the cap; a second life.
Made   == With([create |-> 2, full |-> 1, restart |-> 1, cancel |-> 1])
Book   == With([hour |-> 2, create |-> 1, offer |-> 2, restart |-> 1, cancel |-> 1])
Stored == With([hour |-> 3, create |-> 1, join |-> 2, finish |-> 1, cancel |-> 1, settle |-> 1, restart |-> 2])

\* A deposit, in a wallet that is rotated or lost, or in none.
Watched == With([hour |-> 2, create |-> 2, join |-> 4, settle |-> 1, restart |-> 1, unload |-> 1])
Unwatched == [With([create |-> 1, join |-> 2, restart |-> 1]) EXCEPT !.scan = TRUE]

\* A deposit that is replayed.
Twin == [With([hour |-> 3, create |-> 1, join |-> 2, finish |-> 1, settle |-> 1, restart |-> 1, twin |-> 1,
               evict |-> 1, owner |-> 1, fee |-> 1]) EXCEPT !.scan = TRUE]

MCScenarios ==
  [sized |-> Sized("qbit"), forked |-> Sized("bip110"), priced |-> Priced, made |-> Made, book |-> Book,
   stored |-> Stored, watched |-> Watched, unwatched |-> Unwatched, twin |-> Twin]
=============================================================================
