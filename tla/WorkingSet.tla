----------------------------- MODULE WorkingSet -----------------------------
(***************************************************************************)
(* The coordinator as a table of swaps: the working set in memory, the     *)
(* rows of the store, the offers, and the timers over them: watching for   *)
(* deposits, evicting what is settled, rotating the watch wallet, sweeping *)
(* back deposits that were replayed on the other chain of a fork.  A       *)
(* handler is one step; a swap's own life, of which SwapEngine has the     *)
(* detail, is cut down to what these operations look at.                   *)
(***************************************************************************)
EXTENDS Terms, WatchWallet

CONSTANTS
  Offer,       \* the offers of the book
  Cap,         \* MAX_ACTIVE_SWAPS
  Grace,       \* SWAP_EVICT_MS and WATCH_SETTLE_GRACE_MS, in hours of clock
  Delay,       \* TWIN_SWEEP_DELAY_MS
  Tiers,       \* the length of a pre-signed ladder
  Scenarios,   \* bound: name -> what is asked for and what may happen in a run
  None

Event == {"hour", "create", "join", "full", "quote", "offer", "finish", "cancel", "settle", "restart",
          "unload", "twin", "evict", "owner", "fee", "late"}

TERMINAL == {"COMPLETE", "REFUNDED"}
Role     == {"alice", "bob"}

\* A swap, as the table keeps it.
SwapRecord ==
  [state : {"CREATED", "READY", "FUNDED", "CANCELED"} \cup TERMINAL, btc : Nat, fee : Nat, joined : SUBSET Role,
   terms : {None} \cup [confs : [btc : Nat, qbit : Nat], lock : [btc : Nat, qbit : Nat]],
   funded : BOOLEAN, fin : BOOLEAN, settledAt : Nat,
   twin : {"none", "seen", "external", "swept"}, homeAt : {None} \cup Nat, tier : Nat]

ASSUME WorkingSetAssumption ==
  /\ None \notin SwapRecord \cup Nat
  /\ Swap \subseteq Nat /\ Cap \in Nat /\ Grace \in Nat /\ Delay \in Nat /\ Tiers \in Nat \ {0}
  /\ Scenarios \in [DOMAIN Scenarios -> [pair : DOMAIN Chain, amounts : SUBSET Nat, gross : SUBSET Nat,
                                       spc : SUBSET Nat, scan : BOOLEAN, events : [Event -> Nat]]]

VARIABLES
  mem, sig,    \* the working set, with each swap's signature as last put
  db,          \* the rows of the store
  nextIx,      \* feeNextIndex
  offers,      \* the book, in memory only
  quote,       \* the last sell quote: what the maker pays, what the taker nets
  out,         \* swap -> its deposit, on its own chain and replayed on the other
  high, floor, \* the other chain: is it past the lock height; the least tier it takes
  clock,
  acked,       \* what has been answered with success
  scenario, left

tvars == <<mem, sig, db>>
xvars == <<out, high, floor, clock>>
svars == <<nextIx, offers, quote, acked, scenario>>
vars  == <<tvars, xvars, svars, wvars, left>>

Scenario == Scenarios[scenario]
Use(e)   == left[e] > 0 /\ left' = [left EXCEPT ![e] = @ - 1]

NoDeposit == [paid |-> FALSE, home |-> "none", at |-> 0, twin |-> "none", swept |-> FALSE, back |-> "none"]

Init ==
  /\ mem = [i \in Swap |-> None] /\ sig = mem /\ db = mem
  /\ nextIx = 0
  /\ offers = [o \in Offer |-> [status |-> "none", take |-> None, at |-> 0]]
  /\ quote = [gross |-> 0, net |-> 0]
  /\ out = [i \in Swap |-> NoDeposit]
  /\ high = FALSE /\ floor = 1 /\ clock = 1
  /\ acked = {}
  /\ scenario \in DOMAIN Scenarios /\ left = Scenario.events
  /\ WatchInit

-----------------------------------------------------------------------------
\* The table.

\* Mutant: the signature leaves the parties out.
sigOf_NoParty(s) == [s EXCEPT !.joined = {}, !.settledAt = 0]

\* What of a swap makes it worth storing: all but the time it settled at.
sigOf(s) == [s EXCEPT !.settledAt = 0]

\* getSwap: the working set first, then a copy of the stored row.
getSwap(i) == IF mem[i] # None THEN mem[i] ELSE db[i]

\* A changed swap is put in the store; a copy has no signature and always is.
touch(i, s) ==
  LET live == mem[i] # None
  IN /\ db' = IF live /\ sigOf(s) = sig[i] THEN db ELSE [db EXCEPT ![i] = s]
     /\ mem' = IF live THEN [mem EXCEPT ![i] = s] ELSE mem
     /\ sig' = IF live THEN [sig EXCEPT ![i] = sigOf(s)] ELSE sig

Ack(i, what) == acked' = acked \cup {[swap |-> i, what |-> what]}

Active == {i \in Swap : mem[i] # None /\ mem[i].state \notin TERMINAL \cup {"CANCELED"}}

\* Mutant: the last index used is handed out again.
resumedIndex_Last == Max({0} \cup {db[i].fee : i \in {j \in Swap : db[j] # None}})

\* feeNextIndex at a start.
resumedIndex == 1 + Max({-1} \cup {db[i].fee : i \in {j \in Swap : db[j] # None}})

\* The ids, taken in order (they are random and none is given twice).
Free     == {i \in Swap : mem[i] = None /\ db[i] = None /\ [swap |-> i, what |-> "created"] \notin acked}
Fresh(i) == i \in Free /\ \A j \in Free : i <= j

NewSwap(btc) ==
  [state |-> "CREATED", btc |-> btc, fee |-> nextIx, joined |-> {}, terms |-> None,
   funded |-> FALSE, fin |-> FALSE, settledAt |-> 0,
   twin |-> "none", homeAt |-> None, tier |-> 1]

Admitted(btc) == Cardinality(Active) < Cap /\ btc >= Chain[Scenario.pair]["btc"].minSats

\* createSwap: into the working set, then into the store.
createSwap(i, btc) ==
  /\ Admitted(btc) /\ Fresh(i)
  /\ mem' = [mem EXCEPT ![i] = NewSwap(btc)]
  /\ sig' = [sig EXCEPT ![i] = sigOf(NewSwap(btc))]
  /\ nextIx' = nextIx + 1

Create(i, btc) ==
  /\ Use("create") /\ createSwap(i, btc)
  /\ db' = [db EXCEPT ![i] = NewSwap(btc)]
  /\ Ack(i, "created")
  /\ UNCHANGED <<xvars, wvars, offers, quote, scenario>>

\* The store refuses the row: the caller gets an error, the working set has it.
CreateUnstored(i, btc) ==
  /\ Use("full") /\ createSwap(i, btc)
  /\ UNCHANGED <<db, xvars, wvars, offers, quote, acked, scenario>>

-----------------------------------------------------------------------------
\* The parties' requests, each on what getSwap returns.

Party(i, role, spc) ==
  LET s == getSwap(i)
      n == [s EXCEPT !.joined = @ \cup {role}]
  IN /\ s # None /\ s.state = "CREATED" /\ role \notin s.joined
     /\ touch(i, IF n.joined = Role
                 THEN [n EXCEPT !.state = "READY", !.terms = htlcTerms(Scenario.pair, s.btc, spc)]
                 ELSE n)
     /\ Use("join") /\ Ack(i, role)
     /\ UNCHANGED <<xvars, wvars, nextIx, offers, quote, scenario>>

cancelSwap(i) ==
  LET s == getSwap(i)
  IN /\ Use("cancel")
     /\ s # None /\ s.state \in {"CREATED", "READY"} /\ ~s.funded
     /\ touch(i, [s EXCEPT !.state = "CANCELED"])
     /\ Ack(i, "canceled")
     /\ UNCHANGED <<xvars, wvars, nextIx, offers, quote, scenario>>

\* submitFinish has no look at the state: it takes a bundle for an evicted swap.
submitFinish(i) ==
  LET s == getSwap(i)
  IN /\ Use("finish")
     /\ s # None /\ s.funded /\ ~s.fin
     /\ touch(i, [s EXCEPT !.fin = TRUE])
     /\ Ack(i, "finish")
     /\ UNCHANGED <<xvars, wvars, nextIx, offers, quote, scenario>>

\* A sell quote of the RFQ layer.
Quote(gross) ==
  /\ Use("quote")
  /\ quote' = [gross |-> gross, net |-> takerNetOfGross(gross)]
  /\ UNCHANGED <<tvars, xvars, wvars, nextIx, offers, acked, scenario>>

-----------------------------------------------------------------------------
\* The book.

SetOffer(o, status, take) ==
  /\ offers' = [offers EXCEPT ![o] = [status |-> status, take |-> take, at |-> clock]]
  /\ UNCHANGED <<xvars, wvars, quote, scenario>>

createOffer(o) ==
  /\ offers[o].status = "none" /\ Use("offer")
  /\ SetOffer(o, "open", None)
  /\ UNCHANGED <<tvars, nextIx, acked>>

\* Mutant: the offer is marked before its swap exists.
takeOffer_MarkedFirst(o, i, btc) ==
  /\ offers[o].status = "open"
  /\ SetOffer(o, "taken", i)
  /\ IF Admitted(btc)
     THEN createSwap(i, btc) /\ db' = [db EXCEPT ![i] = NewSwap(btc)] /\ Ack(i, "created")
     ELSE Fresh(i) /\ UNCHANGED <<tvars, nextIx, acked>>
  /\ UNCHANGED left

\* A take makes the swap first: the cap may refuse it, the offer stays open.
takeOffer(o, i, btc) ==
  /\ offers[o].status = "open"
  /\ createSwap(i, btc)
  /\ db' = [db EXCEPT ![i] = NewSwap(btc)]
  /\ Ack(i, "created")
  /\ SetOffer(o, "taken", i)
  /\ UNCHANGED left

cancelOffer(o) ==
  /\ offers[o].status = "open" /\ Use("cancel")
  /\ SetOffer(o, "cancelled", None)
  /\ UNCHANGED <<tvars, nextIx, acked>>

\* OFFER_TTL_MS and the settle grace are both a day.
sweepOffers(o) ==
  /\ offers[o].status = "open" /\ clock - offers[o].at > Grace
  /\ SetOffer(o, "expired", None)
  /\ UNCHANGED <<tvars, nextIx, acked, left>>

-----------------------------------------------------------------------------
\* The timers.

Polled(i) == mem[i] # None /\ mem[i].state \notin {"CREATED"} \cup TERMINAL

Recorded(s) == [s EXCEPT !.funded = TRUE, !.state = IF @ = "READY" THEN "FUNDED" ELSE @]

\* poll, as far as a deposit is looked for.
PollFinds(i) ==
  /\ ~Scenario.scan /\ Polled(i) /\ ~mem[i].funded
  /\ FindOutput(i)
  /\ UNCHANGED <<tvars, xvars, svars, left>>

PollRecords ==
  /\ ListUnspent
  /\ IF Listed({i \in Swap : out[i].paid}) # {} /\ Polled(Script)
     THEN touch(Script, Recorded(mem[Script])) ELSE UNCHANGED tvars
  /\ UNCHANGED <<xvars, svars, left>>

\* Without a wallet: the confirmed outputs, then the mempool up to its cap.
Scanned(i) == out[i].paid

PollScans(i) ==
  /\ Scenario.scan /\ Polled(i) /\ ~mem[i].funded /\ Scanned(i)
  /\ touch(i, Recorded(mem[i]))
  /\ UNCHANGED <<xvars, svars, wvars, left>>

\* The swap's end, of which SwapEngine has the detail.
Settle(i, st) ==
  /\ Polled(i) /\ mem[i].funded /\ Use("settle")
  /\ st = "COMPLETE" => out[i].home = "spent"
  /\ touch(i, [mem[i] EXCEPT !.state = st, !.settledAt = clock])
  /\ UNCHANGED <<xvars, svars, wvars>>

twinPending(s) == s.twin = "seen"

\* Mutant: a swap with a twin to be swept is evicted like any other.
Evictable_Twins(s) == s.state \in TERMINAL /\ clock - s.settledAt > Grace

Evictable(s) == s.state \in TERMINAL /\ clock - s.settledAt > Grace /\ ~twinPending(s)

evictSettled ==
  LET old == {i \in Swap : mem[i] # None /\ Evictable(mem[i])}
  IN /\ old # {}
     /\ mem' = [i \in Swap |-> IF i \in old THEN None ELSE mem[i]]
     /\ sig' = [i \in Swap |-> IF i \in old THEN None ELSE sig[i]]
     /\ UNCHANGED <<db, xvars, svars, wvars, left>>

\* A script is kept while its swap is not over, and for the grace after.
cleanupWatch ==
  /\ pruneWatch({i \in Swap : /\ mem[i] # None /\ mem[i].terms # None
                              /\ mem[i].state \in TERMINAL => clock - mem[i].settledAt < Grace})
  /\ UNCHANGED <<tvars, xvars, svars, left>>

Rotating == (\E i \in Swap : PruneImport(i)) /\ UNCHANGED <<tvars, xvars, svars, left>>

\* An import into the old wallet that ends after the rotation marks its script
\* as watched by the new one, which does not have it: only with "late".
RotationEnds ==
  /\ PruneEnd
  /\ Finding({"import"}) => left["late"] > 0
  /\ UNCHANGED <<tvars, xvars, svars, left>>

WalletAnswers == (OpenWallet \/ ImportSpk \/ SelfHeal) /\ UNCHANGED <<tvars, xvars, svars, left>>

\* Mutant: the delay is not waited for.
MaySweep_AtOnce(s) == high

MaySweep(s) == clock - s.homeAt >= Delay /\ high

\* driveTwinSweep's probe of s with deposit o: what it leaves in the record.
Probed(s, o) ==
  LET seen == [s EXCEPT !.twin = "seen"]
      home == [seen EXCEPT !.homeAt = IF @ = None THEN clock ELSE @]
      tier == AtLeast(s.tier, floor)
  IN IF s.twin = "none" /\ o.twin # "there" THEN s
     ELSE IF o.home # "spent" THEN seen
     ELSE IF ~MaySweep(home) THEN home
     ELSE IF o.twin # "there" THEN [home EXCEPT !.twin = "external"]
     ELSE IF tier > Tiers THEN [home EXCEPT !.tier = Tiers]
     ELSE [home EXCEPT !.twin = "swept", !.tier = tier]

Probes(i) ==
  /\ mem[i] # None /\ mem[i].state \notin {"CREATED", "CANCELED"}
  /\ mem[i].funded /\ mem[i].fin /\ mem[i].twin \in {"none", "seen"}

driveTwinSweep(i) ==
  /\ Probes(i)
  /\ LET s == Probed(mem[i], out[i])
     IN /\ s # mem[i]
        /\ touch(i, s)
        /\ out' = IF s.twin = "swept" THEN [out EXCEPT ![i].twin = "gone", ![i].swept = TRUE] ELSE out
  /\ UNCHANGED <<high, floor, clock, svars, wvars, left>>

\* The process starts anew from the store.
Restart ==
  /\ Use("restart")
  /\ mem' = db /\ sig' = [i \in Swap |-> None] /\ db' = db
  /\ nextIx' = resumedIndex
  /\ offers' = [o \in Offer |-> [status |-> "none", take |-> None, at |-> 0]]
  /\ Reopen
  /\ UNCHANGED <<xvars, node, quote, acked, scenario>>

-----------------------------------------------------------------------------
\* The chains and the parties.

Outside(i, o) == out' = [out EXCEPT ![i] = o]

Deposit(i) ==
  /\ getSwap(i) # None /\ getSwap(i).terms # None /\ ~out[i].paid
  /\ getSwap(i).state \in {"READY", "CANCELED"}
  /\ Outside(i, [out[i] EXCEPT !.paid = TRUE, !.home = "unspent"])
  /\ UNCHANGED <<tvars, svars, wvars, high, floor, clock, left>>

\* A spend of the deposit, early enough for the delay to pass.
SpendHome(i) ==
  /\ out[i].home = "unspent" /\ getSwap(i).funded /\ left["hour"] > Delay
  /\ Outside(i, [out[i] EXCEPT !.home = "spent", !.at = clock])
  /\ UNCHANGED <<tvars, svars, wvars, high, floor, clock, left>>

\* The spend falls out of the mempool; after the delay it is buried.
EvictHome(i) ==
  /\ out[i].home = "spent" /\ clock - out[i].at < Delay /\ Use("evict")
  /\ Outside(i, [out[i] EXCEPT !.home = "unspent"])
  /\ UNCHANGED <<tvars, svars, wvars, high, floor, clock>>

\* The deposit is replayed on the other chain; its owner may fetch it there.
Replay(i) ==
  /\ out[i].paid /\ out[i].twin = "none" /\ Use("twin")
  /\ Outside(i, [out[i] EXCEPT !.twin = "there"])
  /\ UNCHANGED <<tvars, svars, wvars, high, floor, clock>>

OwnerSweeps(i) ==
  /\ out[i].twin = "there" /\ high /\ Use("owner")
  /\ Outside(i, [out[i] EXCEPT !.twin = "gone"])
  /\ UNCHANGED <<tvars, svars, wvars, high, floor, clock>>

\* Anybody may replay the sweep on the deposit's own chain, which takes it
\* if the deposit is unspent there.
ReplayBack(i) ==
  /\ out[i].swept
  /\ Outside(i, [out[i] EXCEPT !.home = "spent", !.back = IF out[i].home = "unspent" THEN "took" ELSE "refused"])
  /\ UNCHANGED <<tvars, svars, wvars, high, floor, clock, left>>

\* A tick comes every other second and a probe every minute: no hour passes
\* while one of them has something to record.
Owed(i) ==
  /\ mem[i] # None
  /\ \/ Polled(i) /\ ~mem[i].funded /\ out[i].paid
     \/ Probes(i) /\ Probed(mem[i], out[i]) # mem[i]

Hour ==
  /\ Use("hour")
  /\ Finding({"idle"}) /\ ~pruner.on /\ \A i \in Swap : ~Owed(i)
  /\ clock' = clock + 1
  /\ UNCHANGED <<tvars, svars, wvars, out, high, floor>>

LockHeight ==
  /\ ~high /\ \E i \in Swap : out[i].twin # "none"
  /\ high' = TRUE
  /\ UNCHANGED <<tvars, svars, wvars, out, floor, clock, left>>

FeesMove ==
  /\ Use("fee") /\ \E i \in Swap : out[i].twin = "there"
  /\ floor' \in (1..Tiers + 1) \ {floor}
  /\ UNCHANGED <<tvars, svars, wvars, out, high, clock>>

NodeRestarts == Unload /\ Use("unload") /\ UNCHANGED <<tvars, xvars, svars>>

Next ==
  \/ \E i \in Swap, btc \in Scenario.amounts : Create(i, btc) \/ CreateUnstored(i, btc)
  \/ \E i \in Swap, role \in Role, spc \in Scenario.spc : Party(i, role, spc)
  \/ \E i \in Swap : cancelSwap(i) \/ submitFinish(i)
  \/ \E gross \in Scenario.gross : Quote(gross)
  \/ \E o \in Offer : createOffer(o) \/ cancelOffer(o) \/ sweepOffers(o)
  \/ \E o \in Offer, i \in Swap, btc \in Scenario.amounts : takeOffer(o, i, btc)
  \/ \E i \in Swap : PollFinds(i) \/ PollScans(i)
  \/ PollRecords \/ WalletAnswers \/ cleanupWatch \/ Rotating \/ RotationEnds
  \/ \E i \in Swap, st \in TERMINAL : Settle(i, st)
  \/ evictSettled
  \/ \E i \in Swap : driveTwinSweep(i)
  \/ Restart
  \/ \E i \in Swap : Deposit(i) \/ SpendHome(i) \/ EvictHome(i) \/ Replay(i) \/ OwnerSweeps(i) \/ ReplayBack(i)
  \/ Hour \/ LockHeight \/ FeesMove \/ NodeRestarts

Spec == Init /\ [][Next]_vars

\* Every timer goes on, every question to a node is answered, time passes; a
\* tick goes through all swaps.
Fairness ==
  /\ WF_vars(PollRecords) /\ WF_vars(WalletAnswers) /\ WF_vars(Rotating) /\ WF_vars(RotationEnds)
  /\ WF_vars(Hour)
  /\ \A i \in Swap : SF_vars(PollFinds(i)) /\ WF_vars(PollScans(i)) /\ WF_vars(driveTwinSweep(i))

FairSpec == Spec /\ Fairness

-----------------------------------------------------------------------------
\* Properties.

\* Types; in particular an index is never missing and never skipped back, and a
\* swap that left the working set is a settled one with nothing left to sweep.
TypeOK ==
  /\ \A i \in Swap : mem[i] # None => mem[i].fee \in Nat
  /\ \A i \in Swap : mem[i] = None /\ db[i] # None => db[i].state \in TERMINAL
  /\ \A i \in Swap : out[i].home \in {"none", "unspent", "spent"}
  /\ watch.set \subseteq Swap /\ watch.wallet \in Gen /\ clock \in Nat
  /\ Cardinality(Active) <= Cap

\* A fee address pays for one swap: no two swaps whose making was answered
\* share an index, through restarts, evictions and a store that refuses a row.
FeeIndexOnce ==
  LET made == {a.swap : a \in {b \in acked : b.what = "created"}}
  IN \A i, j \in made : i # j => getSwap(i).fee # getSwap(j).fee

\* What was answered is in the table, in memory or in the row a later request
\* or the next process reads, through evictions and restarts.
AckedSurvives ==
  \A a \in acked :
    LET s == getSwap(a.swap)
    IN /\ s # None
       /\ a.what \in Role => a.what \in s.joined
       /\ a.what = "finish" => s.fin
       /\ a.what = "canceled" => s.state \in TERMINAL \cup {"CANCELED"}

\* A taken offer leads its maker to a swap that exists, and to its own.
OfferHasSwap ==
  \A o \in Offer : offers[o].status = "taken" =>
    /\ [swap |-> offers[o].take, what |-> "created"] \in acked
    /\ \A p \in Offer \ {o} : offers[p].take # offers[o].take

\* The sweep of a replayed deposit, which anybody may replay in turn, never
\* takes the deposit itself.
SweepStaysAway == \A i \in Swap : out[i].back # "took"

\* What the maker pays for a sell quote is never above its price, short of it
\* by the floor on the platform's cut at most, and where the cut is charged
\* not one unit more could have gone to the taker.
OutlayWithinQuote ==
  LET b == quote.net
      outlay == b + feeTotalOn(b)
  IN b > 0 => /\ outlay <= quote.gross
              /\ quote.gross - outlay <= FeeMin
              /\ composeFee(platformRaw(b)).platform > 0 => b + 1 + feeTotalOn(b + 1) > quote.gross

Terms(i) == getSwap(i).terms
HasTerms == {i \in Swap : getSwap(i) # None /\ getSwap(i).terms # None}
Secs(l, blocks) == blocks * Chain[Scenario.pair][l].blockSecs

\* In time, not in blocks, the buyer's leg outlasts the seller's by the gap but
\* for less than a block of the seller's chain.
Outlasts(t) == Secs("btc", t.lock["btc"]) > Secs("qbit", t.lock["qbit"] - 1) + FromGap - 1

BuyerOutlastsSeller == \A i \in HasTerms : Outlasts(Terms(i))

\* Two parties who pay at the end of their funding windows, over blocks that
\* come on time, leave the buyer the time to reveal (on the qbit pair).
InTime(t) ==
  LET waited == 2 * FundingSecs + Secs("btc", t.confs["btc"]) + Secs("qbit", t.confs["qbit"])
  IN Scenario.pair = "qbit" =>
       Secs("qbit", t.lock["qbit"]) - waited >= Secs("qbit", t.confs["qbit"] + RevealBuffer)

PunctualIsInTime == \A i \in HasTerms : InTime(Terms(i))

\* The two windows of a swap fit, rounded as they are to blocks of unlike
\* chains: the buyer's refund opens long enough after the seller's, and the
\* seller's leaves punctual parties the time to finish.
WindowsFit == BuyerOutlastsSeller /\ PunctualIsInTime

\* A deposit to a swap that is watched for it is recorded in the end, through
\* rotations of the wallet and nodes and coordinators that restart.
FundingIsFound == \A i \in Swap : out[i].paid ~> (getSwap(i) # None /\ getSwap(i).funded)

\* A replayed deposit that was noticed goes back to its sender, also when the
\* swap is over for longer than settled swaps are kept.
TwinIsReturned ==
  \A i \in Swap :
    (/\ getSwap(i) # None /\ twinPending(getSwap(i))
     /\ out[i].home = "spent" /\ high /\ floor <= Tiers /\ left["hour"] >= Delay)
      ~> (out[i].twin = "gone" \/ out[i].home # "spent" \/ floor > Tiers)
=============================================================================
