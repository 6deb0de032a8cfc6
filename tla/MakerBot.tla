----------------------------- MODULE MakerBot -----------------------------
(***************************************************************************)
(* The market-maker bot (maker-bot/maker-bot.js) from an RFQ match to the  *)
(* end of the swap: it mints keys, stores them (keystore.js), joins, waits *)
(* for the taker, funds its leg, then claims or refunds; it retries a run  *)
(* that throws and, after a restart, resumes what its keystore holds open. *)
(* A swap matched on the bot's ask makes it bob, who funds the qbit leg    *)
(* second; one on its bid makes it alice, who funds the btc leg first.     *)
(*                                                                         *)
(* The coordinator is seen through its API only: deals[w] is what it and   *)
(* the chains hold of swap w.  A key is a number, in the order of minting. *)
(***************************************************************************)
EXTENDS Integers

CONSTANTS
  Swap,         \* the swaps a taker may be matched to the bot in
  Attempts,     \* how often serveRfq runs a fulfilment before it gives up
  Budget        \* bound: event -> how often it may happen

Event == {"crash", "throws", "timeout", "lost", "cancel", "refund"}

ASSUME BotAssumption ==
  Attempts \in Nat \ {0} /\ Budget \in [Event -> Nat]

VARIABLES
  deals,    \* swap -> what the coordinator and the chains hold of it
  runs,     \* swap -> where the bot's fulfilment of it stands, in memory
  files,    \* swap -> its record in the keystore
  minted,   \* the last key minted
  up,       \* the bot's process is up
  left      \* what is left of the budget

vars == <<deals, runs, files, minted, up, left>>

\* role: the bot's in the match ("none": no match yet); slot: the key the bot's
\* party slot was joined with (0: none); sent: deposits the bot's wallet made.
\* marks: "seen", the coordinator's poll found one of them; "due", the timelock
\* of the bot's leg has passed; "shown", the taker claimed the bot's deposit and
\* so published the preimage; "back", the bot claimed or refunded.
NoDeal == [role |-> "none", slot |-> 0, peer |-> "none", sent |-> 0, marks |-> {},
           state |-> "open"]
NoRun  == [at |-> "idle", key |-> 0, saved |-> FALSE, tries |-> 0]
Start(saved, tries) == [at |-> "keys", key |-> 0, saved |-> saved, tries |-> tries]
NoFile == [key |-> 0, st |-> "none"]

Init ==
  /\ deals = [w \in Swap |-> NoDeal] /\ runs = [w \in Swap |-> NoRun]
  /\ files = [w \in Swap |-> NoFile]
  /\ minted = 0 /\ up = TRUE /\ left = Budget

Has(w, mark) == mark \in deals[w].marks
At(w, place) == up /\ runs[w].at = place
Moves(w, place) == runs' = [runs EXCEPT ![w].at = place]
TakesUp(w, place, key) == runs' = [runs EXCEPT ![w] = [runs[w] EXCEPT !.at = place, !.key = key]]
Use(e) == left[e] > 0 /\ left' = [left EXCEPT ![e] = @ - 1]

-----------------------------------------------------------------------------
\* The rest of the world: the RFQ layer, the taker, the coordinator's poll and
\* the chains.

Changes(w, d) == deals' = [deals EXCEPT ![w] = d]

\* A taker lifts the bot's ask (the bot is bob) or hits its bid (alice).
Match(w, role) ==
  /\ deals[w].role = "none"
  /\ Changes(w, [deals[w] EXCEPT !.role = role])
  /\ UNCHANGED <<runs, files, minted, up, left>>

PeerJoins(w) ==
  /\ deals[w].role # "none" /\ deals[w].peer = "none" /\ deals[w].state = "open"
  /\ Changes(w, [deals[w] EXCEPT !.peer = "joined"])
  /\ UNCHANGED <<runs, files, minted, up, left>>

\* A taker facing a bid waits for the bot's deposit to be cleared.
PeerFunds(w) ==
  /\ deals[w].peer = "joined" /\ deals[w].slot # 0 /\ deals[w].state = "open"
  /\ deals[w].role = "alice" => Has(w, "seen")
  /\ Changes(w, [deals[w] EXCEPT !.peer = "funded"])
  /\ UNCHANGED <<runs, files, minted, up, left>>

\* cancelSwap: the coordinator knows of no deposit.
PeerCancels(w) ==
  /\ deals[w].role # "none" /\ deals[w].state = "open"
  /\ deals[w].peer # "funded" /\ ~Has(w, "seen")
  /\ Use("cancel")
  /\ Changes(w, [deals[w] EXCEPT !.state = "CANCELED"])
  /\ UNCHANGED <<runs, files, minted, up>>

\* A taker facing an ask claims the bot's deposit, in time, and reveals.
PeerClaims(w) ==
  /\ deals[w].role = "bob" /\ deals[w].peer = "funded" /\ deals[w].state = "open"
  /\ Has(w, "seen") /\ ~Has(w, "due") /\ ~Has(w, "shown")
  /\ Changes(w, [deals[w] EXCEPT !.marks = @ \cup {"shown"}])
  /\ UNCHANGED <<runs, files, minted, up, left>>

\* The taker takes its own deposit back, which ends the swap.  (One that has
\* revealed leaves the bot the whole of its longer window: SwapSystem.)
PeerRefunds(w) ==
  /\ deals[w].peer = "funded" /\ ~Has(w, "back") /\ ~Has(w, "shown")
  /\ Use("refund")
  /\ Changes(w, [deals[w] EXCEPT !.peer = "gone", !.state = "REFUNDED"])
  /\ UNCHANGED <<runs, files, minted, up>>

\* poll finds the bot's deposit, in a canceled swap too, not in a settled one.
Sees(w) ==
  /\ deals[w].sent > 0 /\ ~Has(w, "seen") /\ deals[w].state \in {"open", "CANCELED"}
  /\ Changes(w, [deals[w] EXCEPT !.marks = @ \cup {"seen"}])
  /\ UNCHANGED <<runs, files, minted, up, left>>

TimelockPasses(w) ==
  /\ deals[w].slot # 0 /\ deals[w].peer # "none" /\ ~Has(w, "due")
  /\ Changes(w, [deals[w] EXCEPT !.marks = @ \cup {"due"}])
  /\ UNCHANGED <<runs, files, minted, up, left>>

-----------------------------------------------------------------------------
\* serveRfq: a ping returns the matches not yet joined; one that is not already
\* handled starts a run.

Ping(w) ==
  /\ At(w, "idle")
  /\ deals[w].role # "none" /\ deals[w].slot = 0 /\ deals[w].state = "open"
  /\ runs' = [runs EXCEPT ![w] = Start(FALSE, 0)]
  /\ UNCHANGED <<deals, files, minted, up, left>>

\* Mutant of Fails: the next attempt goes on as a resumed run.
Fails_Resumes(w) ==
  runs' = [runs EXCEPT ![w] = Start(TRUE, 0)]

\* A run that throws is tried again from the start, with no saved record; a
\* resumed run is not, nor is one out of attempts.
Fails(w) ==
  runs' = [runs EXCEPT ![w] =
             IF ~@.saved /\ @.tries + 1 < Attempts
             THEN Start(FALSE, @.tries + 1)
             ELSE NoRun]

\* A node, wallet or coordinator call throws and has had no effect.
Throws(w) ==
  /\ up /\ runs[w].at # "idle"
  /\ Use("throws") /\ Fails(w)
  /\ UNCHANGED <<deals, files, minted, up>>

-----------------------------------------------------------------------------
\* fulfill and fulfillAsAlice, step by step.

\* Mutant of Keys: the record is written only by the resumed run.
Keys_Unsaved(w) ==
  /\ At(w, "keys")
  /\ IF runs[w].saved
     THEN TakesUp(w, "look", files[w].key) /\ UNCHANGED minted
     ELSE /\ minted' = minted + 1
          /\ TakesUp(w, "join", minted + 1)
  /\ UNCHANGED <<deals, files, up, left>>

\* Step 1: keys of its own per run, stored before anything else; a resumed run
\* takes those of its record.
Keys(w) ==
  /\ At(w, "keys")
  /\ IF runs[w].saved
     THEN /\ TakesUp(w, "look", files[w].key)
          /\ UNCHANGED <<files, minted>>
     ELSE /\ minted' = minted + 1
          /\ TakesUp(w, "join", minted + 1)
          /\ files' = [files EXCEPT ![w] = [key |-> minted + 1, st |-> "open"]]
  /\ UNCHANGED <<deals, up, left>>

\* Mutant of Look: a resumed run always joins again.
Look_Rejoins(w) == At(w, "look") /\ Moves(w, "join") /\ UNCHANGED <<deals, files, minted, up, left>>

\* Step 2, resumed: join only an empty slot, and go on only with its own keys.
Look(w) ==
  /\ At(w, "look")
  /\ \/ deals[w].slot = 0 /\ Moves(w, "join")
     \/ deals[w].slot # 0 /\ deals[w].slot = runs[w].key /\ Moves(w, "ready")
     \/ deals[w].slot \notin {0, runs[w].key} /\ Fails(w)
  /\ UNCHANGED <<deals, files, minted, up, left>>

\* submitParty: first come, and locked once a deposit is seen.
Accepted(w) ==
  /\ deals[w].state = "open" /\ deals[w].slot \in {0, runs[w].key}
  /\ ~Has(w, "seen") /\ deals[w].peer \notin {"funded", "gone"}

\* Step 2: join; `lost`: it took effect and the answer did
\* not come back.
Join(w, lost) ==
  /\ At(w, "join")
  /\ IF Accepted(w)
     THEN /\ Changes(w, [deals[w] EXCEPT !.slot = runs[w].key])
          /\ IF lost THEN Use("lost") /\ Fails(w) ELSE Moves(w, "ready") /\ UNCHANGED left
     ELSE ~lost /\ Fails(w) /\ UNCHANGED <<deals, left>>
  /\ UNCHANGED <<files, minted, up>>

\* Mutant of Awaited: bob funds once the HTLCs are there.
Awaited_Derived(w) == deals[w].slot # 0 /\ deals[w].peer # "none"

\* Step 3: alice waits for the HTLCs, bob for the taker's deposit too.
Awaited(w) ==
  /\ deals[w].slot # 0 /\ deals[w].peer # "none"
  /\ deals[w].role = "bob" => deals[w].peer \in {"funded", "gone"}

Ready(w) ==
  /\ At(w, "ready") /\ Awaited(w)
  /\ Moves(w, IF Has(w, "seen") THEN "race" ELSE "fund")
  /\ UNCHANGED <<deals, files, minted, up, left>>

\* The wait ends after so many polls, and throws.
TimesOut(w) ==
  /\ At(w, "ready") /\ ~Awaited(w)
  /\ Use("timeout") /\ Fails(w)
  /\ UNCHANGED <<deals, files, minted, up>>

\* Step 4: the wallet pays the HTLC; `lost`: it did and the call threw.
Fund(w, lost) ==
  /\ At(w, "fund")
  /\ Changes(w, [deals[w] EXCEPT !.sent = @ + 1])
  /\ IF lost THEN Use("lost") /\ Fails(w) ELSE Moves(w, "race") /\ UNCHANGED left
  /\ UNCHANGED <<files, minted, up>>

\* Step 5: the loop that ends in a claim, a refund, or a settled swap.
Done(w) ==
  /\ runs' = [runs EXCEPT ![w] = NoRun]
  /\ files' = [files EXCEPT ![w].st = "done"]

\* The taker's deposit can be claimed: alice may reveal, to bob it was revealed.
CanClaim(w) ==
  /\ deals[w].peer = "funded" /\ Has(w, "seen")
  /\ IF deals[w].role = "bob" THEN Has(w, "shown") ELSE deals[w].state = "open"

CanRefund(w) == Has(w, "seen") /\ Has(w, "due") /\ ~Has(w, "shown") /\ ~Has(w, "back")

Claim(w) ==
  /\ At(w, "race") /\ CanClaim(w)
  /\ Changes(w, [deals[w] EXCEPT !.marks = @ \cup {"back"}, !.state = "COMPLETE"])
  /\ Done(w)
  /\ UNCHANGED <<minted, up, left>>

Refund(w) ==
  /\ At(w, "race") /\ CanRefund(w)
  /\ Changes(w, [deals[w] EXCEPT !.marks = @ \cup {"back"}, !.state = "REFUNDED"])
  /\ Done(w)
  /\ UNCHANGED <<minted, up, left>>

\* Settled or canceled by the other side, as the loop reads it.
Leave(w) ==
  /\ At(w, "race") /\ deals[w].state # "open" /\ ~CanRefund(w)
  /\ Done(w)
  /\ UNCHANGED <<deals, minted, up, left>>

-----------------------------------------------------------------------------
\* The process stops; started again, it resumes every open record.

Crash ==
  /\ up /\ Use("crash")
  /\ up' = FALSE /\ runs' = [w \in Swap |-> NoRun]
  /\ UNCHANGED <<deals, files, minted>>

ResumePending ==
  /\ ~up /\ up' = TRUE
  /\ runs' = [w \in Swap |->
                IF files[w].st = "open" THEN Start(TRUE, 0) ELSE NoRun]
  /\ UNCHANGED <<deals, files, minted, left>>

BotStep(w) ==
  \/ Keys(w) \/ Look(w) \/ Ready(w) \/ Claim(w) \/ Refund(w) \/ Leave(w)
  \/ Join(w, FALSE) \/ Fund(w, FALSE)

WorldStep(w) ==
  \/ Match(w, "alice") \/ Match(w, "bob") \/ PeerJoins(w) \/ PeerFunds(w)
  \/ PeerCancels(w) \/ PeerClaims(w) \/ PeerRefunds(w)
  \/ Sees(w) \/ TimelockPasses(w)

Next ==
  \/ \E w \in Swap : WorldStep(w)
  \/ \E w \in Swap : Ping(w)
  \/ \E w \in Swap : BotStep(w)
  \/ \E w \in Swap : Join(w, TRUE) \/ Fund(w, TRUE)
  \/ \E w \in Swap : Throws(w) \/ TimesOut(w)
  \/ Crash
  \/ ResumePending

Spec == Init /\ [][Next]_vars

\* The bot's own steps go on while it is up, it is started again, the
\* coordinator keeps polling and blocks keep coming; nothing is asked of the
\* taker.
FairSpec ==
  /\ Spec /\ WF_vars(ResumePending)
  /\ \A w \in Swap : WF_vars(BotStep(w)) /\ WF_vars(Sees(w)) /\ WF_vars(TimelockPasses(w))

-----------------------------------------------------------------------------
Deal == [role : {"none", "alice", "bob"}, slot : Nat, peer : {"none", "joined", "funded", "gone"},
         sent : Nat, marks : SUBSET {"seen", "due", "shown", "back"},
         state : {"open", "CANCELED", "REFUNDED", "COMPLETE"}]
Run  == [at : {"idle", "keys", "look", "join", "ready", "fund", "race"}, key : Nat,
         saved : BOOLEAN, tries : Nat]
File == [key : Nat, st : {"none", "open", "done"}]

TypeOK ==
  /\ deals \in [Swap -> Deal] /\ runs \in [Swap -> Run] /\ files \in [Swap -> File]
  /\ minted \in Nat /\ up \in BOOLEAN /\ left \in [Event -> Nat]

\* The keystore holds the keys a joined swap is locked to, so that its deposit
\* can be claimed or refunded whatever becomes of the process.
KeysSafe == \A w \in Swap : deals[w].slot # 0 => files[w].key = deals[w].slot

\* No run was cut short by an error or by the end of a wait.
Untroubled == \A e \in {"throws", "timeout", "lost"} : left[e] = Budget[e]

\* Through any crashes, at any step, the keystore holds the keys of every
\* joined swap as long as no run has had to be retried.
KeyIsStored == Untroubled => KeysSafe

\* A blip never strands a funded swap: the keys of a deposit not yet back are in
\* the keystore or in the memory of a run.
NeverStranded ==
  \A w \in Swap : (deals[w].sent > 0 /\ ~Has(w, "back")) =>
                    deals[w].slot \in {files[w].key, runs[w].key}

\* How often the process has stopped.
Crashes == Budget["crash"] - left["crash"]

\* The bot pays one deposit per swap, and no more than one again per restart
\* that came before the coordinator saw the first: a retried run never pays.
FundsOnce == \A w \in Swap : deals[w].sent <= 1 + Crashes

\* The parts of the inductive invariant.  A run past its first step goes by the
\* record of its keys, and only an empty slot is ever joined.
RecordKept(w) ==
  /\ deals[w].slot # 0 => files[w].key = deals[w].slot
  /\ runs[w].at \notin {"idle", "keys"} => runs[w].key = files[w].key
  /\ (runs[w].at = "keys" /\ ~runs[w].saved) => deals[w].slot = 0
  /\ runs[w].at = "join" => deals[w].slot = 0

\* A run that can still pay goes by the keys of a joined slot, or will find the
\* slot empty, and no run before it in this life of the process has paid.
NotPaid(w) ==
  /\ deals[w].slot = 0 => deals[w].sent = 0
  /\ runs[w].at = "look" \/ (runs[w].at = "keys" /\ runs[w].saved) => deals[w].sent <= Crashes
  /\ runs[w].at = "join" => deals[w].slot # runs[w].key
  /\ runs[w].at \in {"ready", "fund"} => deals[w].slot # 0 /\ deals[w].sent <= Crashes
  /\ runs[w].at \notin {"idle", "keys"} => runs[w].key # 0 /\ files[w].key # 0
  /\ files[w].st # "none" \/ runs[w].saved => files[w].key # 0
  /\ deals[w].slot <= minted /\ runs[w].key <= minted /\ files[w].key <= minted

BotInv ==
  /\ \A e \in Event : left[e] <= Budget[e]
  /\ FundsOnce /\ \A w \in Swap : NotPaid(w)
  /\ ~up => \A w \in Swap : deals[w].sent <= Crashes
  /\ Untroubled => \A w \in Swap : RecordKept(w)

\* As bob the bot locks its coin only behind the taker's deposit.
FundsBehindPeer ==
  \A w \in Swap : (deals[w].role = "bob" /\ deals[w].sent > 0) =>
                    deals[w].peer \in {"funded", "gone"}

\* Its inductive form: a run is of a matched swap, and one about to pay as bob has
\* found the taker's deposit, which never goes back to not being there.
BehindInv ==
  /\ FundsBehindPeer
  /\ \A w \in Swap :
       /\ deals[w].role = "none" =>
            runs[w].at = "idle" /\ files[w].st = "none" /\ deals[w].sent = 0
       /\ (deals[w].role = "bob" /\ runs[w].at = "fund") => deals[w].peer \in {"funded", "gone"}

\* A deposit that is known to the coordinator comes back, as the other coin or
\* as a refund, across crashes, unless an error interferes or the other side
\* ends the swap.
LockedIsRecovered ==
  \A w \in Swap :
    Has(w, "seen") ~> (Has(w, "back") \/ ~Untroubled \/ deals[w].state \in {"CANCELED", "REFUNDED"})
=============================================================================
