------------------------------- MODULE WebApp -------------------------------
(***************************************************************************)
(* The web application's shell (webapp/src/main.js): one browser tab, its  *)
(* screens, the flow object they share, the live card every running client *)
(* renders into, and the vault.  A deposit's amount is a small number; the *)
(* coordinator's side of a swap is reduced to what its view shows the page.*)
(***************************************************************************)
EXTENDS Naturals, FiniteSets

CONSTANTS Swap, NoSwap,   \* swap ids
          Amount,         \* the deposits a deal may ask for
          Roles,          \* the sides this tab's user may take
          Scenarios       \* what may happen besides the straight way through

VARIABLES
  nav,      \* the screen shown, rerender, curBack and _prevView
  flow,     \* the module's flow object
  card,     \* what was last rendered into liveCard
  pend,     \* the request in flight, from its press to its answer
  clients,  \* running: clients listening; fresh: with a view to come; mute: onUpdate held
  disk,     \* this browser: vault, entered marks, backup files, the URL's hash
  sw,       \* the coordinator's swaps
  px,       \* the makers' price
  way,      \* the scenario
  left      \* what remains of its budget

vars == <<nav, flow, card, pend, clients, disk, sw, px, way, left>>

Page   == {"info", "api"}
Screen == Page \cup {"welcome", "choose", "market", "confirm", "amount", "rfqConfirm", "takeConfirm",
                     "invited", "receive", "refund", "backup", "share", "live", "over"}
Event  == {"back", "home", "page", "reload", "drop", "paste", "lost", "price", "unverify", "over"}
Over   == {"complete", "refunded", "canceled"}

ASSUME WebAssumption ==
  /\ NoSwap \notin Swap /\ Amount \subseteq Nat
  /\ Scenarios \subseteq [ways : SUBSET {"create", "take", "rfq"}, invited : SUBSET Swap,
                         foreign : SUBSET Swap, most : [Event -> Nat]]

NoFlow == [mode |-> "none", role |-> "none", deal |-> 0, aim |-> NoSwap, client |-> NoSwap,
           beat |-> NoSwap, verified |-> FALSE, verifying |-> FALSE, recSaved |-> FALSE, doneSaved |-> FALSE]
NoPend == [swap |-> NoSwap, kind |-> "none", role |-> "none", told |-> 0]
NoCard == [swap |-> NoSwap, deal |-> 0, does |-> "none"]
NoView == [st |-> "none", role |-> "none", deal |-> 0, me |-> FALSE, peer |-> FALSE, dep |-> "none",
           gate |-> FALSE, late |-> FALSE, armed |-> FALSE]

(* A swap as the coordinator has it: gate is view.fundGate.cleared, which  *)
(* the buyer never waits for.                                              *)
Opened(role, d, me, peer) == [NoView EXCEPT !.st = "open", !.role = role, !.deal = d, !.me = me,
                                            !.peer = peer, !.gate = role = "alice"]
HasAddress(s) == sw[s].me /\ sw[s].peer

OrderBook == "take" \in way.ways
Spend(e)  == left[e] > 0 /\ left' = [left EXCEPT ![e] = @ - 1]

-----------------------------------------------------------------------------
(* Screens: rendering one makes it rerender and registers its Back.        *)

BackOf(scr, f) ==
  CASE scr = "choose"      -> "welcome"
    [] scr = "confirm"     -> IF OrderBook THEN "market" ELSE "choose"
    [] scr = "amount"      -> "confirm"
    [] scr = "rfqConfirm"  -> "welcome"
    [] scr = "takeConfirm" -> "market"
    [] scr = "receive"     -> CASE f.mode = "create" -> "amount" [] f.mode = "take" -> "takeConfirm"
                                [] f.mode = "rfq" -> "rfqConfirm" [] OTHER -> "invited"
    [] scr = "refund"      -> "receive"
    [] scr \in Page        -> "prev"
    [] scr = "market"      -> nav.back       \* showMarket registers none: the last one stays
    [] OTHER               -> "none"

At(scr, f) ==
  [scr |-> scr, rer |-> scr, back |-> BackOf(scr, f),
   prev |-> IF scr \in Page /\ nav.rer # scr THEN nav.rer ELSE nav.prev]

Show(scr, f) == nav' = At(scr, f) /\ flow' = f

(* startLive: the one card every client renders into is replaced.          *)
GoLive(f) ==
  /\ Show("live", [f EXCEPT !.beat = NoSwap])
  /\ card' = NoCard
  /\ clients' = [running |-> clients.running \cup {f.client}, fresh |-> clients.fresh \cup {f.client},
                 mute |-> clients.mute \ {f.client}]
  /\ disk' = [disk EXCEPT !.hash = f.client]

Resume(s) ==
  GoLive([flow EXCEPT !.role = sw[s].role, !.mode = "join", !.client = s])

(* startParticipant: an open swap starts the join, a finished one is shown *)
(* from its view alone, a canceled one is only named.                      *)
StartParticipant(s, kept) ==
  LET f == [flow EXCEPT !.mode = "join", !.aim = s] IN
  /\ card' = card /\ disk' = kept
  /\ IF sw[s].st = "open"
     THEN /\ Show("invited", [f EXCEPT !.role = sw[s].role, !.deal = sw[s].deal, !.beat = s])
          /\ UNCHANGED clients
     ELSE IF sw[s].st = "canceled"
     THEN Show("over", f) /\ UNCHANGED clients
     ELSE /\ Show("over", [f EXCEPT !.role = sw[s].role, !.deal = sw[s].deal, !.client = NoSwap])
          /\ clients' = [clients EXCEPT !.running = @ \ {flow.client}]

(* init: a hash whose keys are held resumes, an invitation joins, anything *)
(* else is the landing page.                                               *)
Enter(kept) ==
  LET s == kept.hash IN
  IF s # NoSwap /\ kept.vault[s] # "none"
  THEN Resume(s)
  ELSE IF s \in way.invited
  THEN StartParticipant(s, kept)
  ELSE Show("welcome", flow) /\ disk' = kept /\ UNCHANGED <<card, clients>>

-----------------------------------------------------------------------------
(* What the live card shows.                                               *)

(* renderLive's choice of the box on the current step: first match wins.   *)
ActionFor(s, f) ==
  LET v == sw[s] IN
  CASE v.st \in Over \/ v.dep = "short" \/ ~HasAddress(s)  -> "none"
    [] v.late /\ v.dep = "none"                             -> "expired"
    [] v.dep = "none" /\ ~f.verified /\ s \notin disk.marks -> "gate"
    [] v.dep = "none" /\ ~v.gate                            -> "wait"
    [] OTHER                                                -> IF v.dep = "none" THEN "deposit" ELSE "none"

Backfill(s, f) ==
  [f EXCEPT !.role = IF @ = "none" THEN sw[s].role ELSE @,
            !.deal = IF @ = 0 THEN sw[s].deal ELSE @]

(* renderLive for the view of s, whichever client it came from: the deal   *)
(* is backfilled, a ladder or a finished swap is folded into the vault     *)
(* under the current client's keys.                                        *)
Render(s, f) ==
  LET b == Backfill(s, f)
      ended == sw[s].st \in {"complete", "refunded"} /\ f.client # NoSwap /\ ~f.doneSaved
      ladder == sw[s].st = "open" /\ sw[s].armed /\ f.client # NoSwap /\ ~f.recSaved
  IN /\ card' = [swap |-> s, deal |-> b.deal, does |-> ActionFor(s, b)]
     /\ flow' = [b EXCEPT !.doneSaved = @ \/ ended,
                          !.recSaved  = @ \/ (ladder /\ sw[f.client].armed)]
     /\ disk' = [disk EXCEPT !.vault =
                   [k \in Swap |-> IF k # f.client THEN @[k]
                                   ELSE IF ended THEN "done"
                                   ELSE IF ladder /\ sw[k].armed THEN "open" ELSE @[k]]]

(* #onView, then onUpdate: a client whose updates are held renders nothing;*)
(* a final state stops it.                                                 *)
View(s) ==
  /\ s \in clients.running \cap clients.fresh
  /\ clients' = [clients EXCEPT !.fresh = @ \ {s}, !.running = IF sw[s].st \in Over THEN @ \ {s} ELSE @]
  /\ IF s \in clients.mute THEN UNCHANGED <<card, flow, disk>> ELSE Render(s, flow)
  /\ UNCHANGED <<nav, pend, sw, px, way, left>>

Tick_CreatorOnly ==
  /\ flow.client \in clients.running \ clients.fresh
  /\ ~flow.verifying /\ flow.mode = "create"
  /\ Render(flow.client, flow)
  /\ card' # card
  /\ UNCHANGED <<nav, pend, clients, sw, px, way, left>>

(* The slow tick re-renders the current client's last view, so that the    *)
(* funding window runs out on the page; not while an address is verified.  *)
Tick ==
  /\ flow.client \in clients.running \ clients.fresh
  /\ ~flow.verifying
  /\ Render(flow.client, flow)
  /\ card' # card
  /\ UNCHANGED <<nav, pend, clients, sw, px, way, left>>

-----------------------------------------------------------------------------
(* Setting a swap up.                                                      *)

Unused == {s \in Swap : sw[s].st = "none"}

Move(from, to) == nav.scr = from /\ Show(to, flow)

Begin          == Move("welcome", "choose")
Confirmed      == Move("confirm", "amount")
TakeConfirmed  == Move("takeConfirm", "receive")
QuoteConfirmed == Move("rfqConfirm", "receive")
InviteAccepted == Move("invited", "receive")
AddressGiven   == Move("receive", "refund")

Onward ==
  /\ Begin \/ Confirmed \/ TakeConfirmed \/ QuoteConfirmed \/ InviteAccepted \/ AddressGiven
  /\ UNCHANGED <<card, pend, clients, disk, sw, px, way, left>>

ChooseDirection(role) ==
  /\ nav.scr = "choose"
  /\ IF OrderBook THEN Show("market", [flow EXCEPT !.role = role])
                  ELSE Show("confirm", [flow EXCEPT !.role = role, !.mode = "create"])
  /\ UNCHANGED <<card, pend, clients, disk, sw, px, way, left>>

StartPeer ==
  /\ nav.scr = "market"
  /\ Show("confirm", [flow EXCEPT !.mode = "create"])
  /\ UNCHANGED <<card, pend, clients, disk, sw, px, way, left>>

(* An offer is taken, and its swap opened, before any address is asked.    *)
TakeAndStart(s, d) ==
  /\ nav.scr = "market" /\ OrderBook /\ s \in Unused
  /\ sw' = [sw EXCEPT ![s] = Opened(flow.role, d, FALSE, FALSE)]
  /\ Show("takeConfirm", [flow EXCEPT !.mode = "take", !.deal = d, !.aim = s])
  /\ UNCHANGED <<card, pend, clients, disk, px, way, left>>

(* The instant widget's button: the price it shows becomes the limit.      *)
TakeQuote(role) ==
  /\ nav.scr = "welcome" /\ "rfq" \in way.ways
  /\ Show("rfqConfirm", [flow EXCEPT !.mode = "rfq", !.role = role, !.deal = px, !.verified = FALSE])
  /\ UNCHANGED <<card, pend, clients, disk, sw, px, way, left>>

Amounts(d) ==
  /\ nav.scr = "amount" /\ "create" \in way.ways
  /\ Show("receive", [flow EXCEPT !.deal = d])
  /\ UNCHANGED <<card, pend, clients, disk, sw, px, way, left>>

(* join and enter: the coordinator refuses a swap that is over, and a slot *)
(* that is filled.                                                         *)
Joinable(s) == sw[s].st = "open" /\ ~sw[s].me

(* The last press: a new client sends its keys (doCreate, doTake, doJoin), *)
(* or the quote is taken first (doRfqTake).                                *)
Press ==
  /\ nav.scr = "refund" /\ pend = NoPend
  /\ \/ /\ flow.mode = "create"
        /\ \E s \in Unused : /\ sw' = [sw EXCEPT ![s] = Opened(flow.role, flow.deal, TRUE, FALSE)]
                             /\ pend' = [swap |-> s, kind |-> "enter", role |-> flow.role, told |-> flow.deal]
                             /\ flow' = [flow EXCEPT !.client = s]
     \/ /\ flow.mode \in {"take", "join"}
        /\ flow' = [flow EXCEPT !.client = flow.aim]
        /\ IF Joinable(flow.aim)
           THEN /\ sw' = [sw EXCEPT ![flow.aim].me = TRUE]
                /\ pend' = [swap |-> flow.aim, kind |-> "enter", role |-> flow.role, told |-> flow.deal]
           ELSE UNCHANGED <<sw, pend>>
     \/ /\ flow.mode = "rfq"
        /\ pend' = [swap |-> NoSwap, kind |-> "quote", role |-> flow.role, told |-> flow.deal]
        /\ UNCHANGED <<sw, flow>>
  /\ UNCHANGED <<nav, card, clients, disk, px, way, left>>

NoWorse(role, d, e) == IF role = "alice" THEN d <= e ELSE d >= e

QuoteAnswered_TakesAgain ==
  /\ pend.kind = "quote"
  /\ \E s \in Unused :
       /\ sw' = [sw EXCEPT ![s] = Opened(pend.role, px, TRUE, FALSE)]
       /\ flow' = [flow EXCEPT !.deal = px, !.client = s]
       /\ pend' = [pend EXCEPT !.swap = s, !.kind = "enter"]
  /\ UNCHANGED <<nav, card, clients, disk, px, way, left>>

(* The answer to a take, for the side and limit the request carried: at    *)
(* the limit or better the swap is opened, its terms kept and its keys     *)
(* sent; otherwise the new price is told, and the user must press again.   *)
QuoteAnswered ==
  /\ pend.kind = "quote"
  /\ IF NoWorse(pend.role, px, pend.told)
     THEN \E s \in Unused :
            /\ sw' = [sw EXCEPT ![s] = Opened(pend.role, px, TRUE, FALSE)]
            /\ flow' = [flow EXCEPT !.deal = px, !.client = s]
            /\ pend' = [pend EXCEPT !.swap = s, !.kind = "enter"]
     ELSE /\ flow' = [flow EXCEPT !.deal = px]
          /\ pend' = NoPend /\ UNCHANGED sw
  /\ UNCHANGED <<nav, card, clients, disk, px, way, left>>

Kept(k) == [disk EXCEPT !.vault[k] = "open", !.marks = @ \cup {k}]

Accepted_Unsaved ==
  /\ pend.kind = "enter" /\ pend' = NoPend /\ flow.client # NoSwap
  /\ disk' = [disk EXCEPT !.marks = @ \cup {flow.client}]
  /\ Show("backup", flow)
  /\ UNCHANGED <<card, clients, sw, px, way, left>>

(* The keys were accepted: they are stored, those of the client the flow   *)
(* has by now, and the addresses marked as typed here.                     *)
Accepted ==
  /\ pend.kind = "enter" /\ pend' = NoPend
  /\ IF flow.client = NoSwap
     THEN UNCHANGED <<nav, flow, disk>>        \* secrets() of no client throws
     ELSE /\ disk' = Kept(flow.client)
          /\ Show("backup", flow)
  /\ UNCHANGED <<card, clients, sw, px, way, left>>

(* Every retry of the submission failed: the keys it carried are gone.     *)
AnswerLost ==
  /\ pend # NoPend /\ pend' = NoPend /\ Spend("lost")
  /\ UNCHANGED <<nav, flow, card, clients, disk, sw, px, way>>

(* The backup is downloaded, ticked off, and the flow goes on: to the      *)
(* invitation of a swap created here, live otherwise.                      *)
Backup ==
  /\ nav.scr = "backup" /\ flow.client # NoSwap
  /\ IF flow.mode = "create"
     THEN Show("share", flow) /\ disk' = [disk EXCEPT !.files = @ \cup {flow.client}] /\ UNCHANGED <<card, clients>>
     ELSE GoLive(flow)
  /\ UNCHANGED <<pend, sw, px, way, left>>

Share == nav.scr = "share" /\ GoLive(flow) /\ UNCHANGED <<pend, sw, px, way, left>>

-----------------------------------------------------------------------------
(* The live screen.                                                        *)

Shows(does) == nav.scr = "live" /\ card.does = does

StartVerify ==
  /\ Shows("gate")
  /\ flow' = [flow EXCEPT !.verifying = TRUE]
  /\ clients' = [clients EXCEPT !.mute = @ \cup {flow.client}]
  /\ card' = [card EXCEPT !.does = "verify"]
  /\ UNCHANGED <<nav, pend, disk, sw, px, way, left>>

VerifyDone ==
  /\ Shows("verify")
  /\ Render(flow.client, [flow EXCEPT !.verified = TRUE, !.verifying = FALSE])
  /\ clients' = [clients EXCEPT !.mute = @ \ {flow.client}]
  /\ UNCHANGED <<nav, pend, sw, px, way, left>>

VerifyFail ==
  /\ Shows("verify")
  /\ flow' = [flow EXCEPT !.verifying = FALSE]
  /\ card' = [card EXCEPT !.does = "failed"]
  /\ UNCHANGED <<nav, pend, clients, disk, sw, px, way, left>>

(* External: the user sends what the prompt says.                          *)
Pay ==
  /\ Shows("deposit") /\ sw[card.swap].st = "open" /\ sw[card.swap].dep = "none"
  /\ sw' = [sw EXCEPT ![card.swap].dep = IF card.deal < sw[card.swap].deal THEN "short" ELSE "ok"]
  /\ clients' = [clients EXCEPT !.fresh = @ \cup ({card.swap} \cap clients.running)]
  /\ UNCHANGED <<nav, flow, card, pend, disk, px, way, left>>

(* The cancel link asks for the current client's swap, unfunded or not.    *)
Cancel ==
  /\ nav.scr = "live" /\ card.swap # NoSwap /\ sw[card.swap].dep = "none" /\ flow.client # NoSwap
  /\ sw[flow.client].st = "open" /\ sw[flow.client].dep = "none"
  /\ sw' = [sw EXCEPT ![flow.client].st = "canceled"]
  /\ clients' = [clients EXCEPT !.fresh = @ \cup ({flow.client} \cap clients.running)]
  /\ UNCHANGED <<nav, flow, card, pend, disk, px, way, left>>

-----------------------------------------------------------------------------
(* Everything that can happen besides.                                     *)

(* A scenario says whether an address check may be walked out of, and a    *)
(* swap opened over one whose client still runs.                           *)
MayLeave == flow.verifying => left["unverify"] > 0
MayCover == MayLeave /\ (clients.running # {} => left["over"] > 0)

(* Back runs the screen's handler; a page redraws what it was opened over, *)
(* which for the live screen is a card no longer in the document.          *)
Back ==
  /\ nav.back # "none" /\ Spend("back")
  /\ IF nav.back # "prev" THEN Show(nav.back, flow) /\ UNCHANGED <<card, disk>>
     ELSE IF nav.prev = "live"
     THEN /\ nav' = [nav EXCEPT !.rer = "live"]
          /\ IF flow.client \in clients.running \ clients.fresh THEN Render(flow.client, flow)
                                                                ELSE UNCHANGED <<flow, card, disk>>
     ELSE Show(nav.prev, flow) /\ UNCHANGED <<card, disk>>
  /\ UNCHANGED <<pend, clients, sw, px, way>>

OpenPage(p) ==
  /\ nav.scr # p /\ MayLeave /\ Spend("page") /\ Show(p, flow)
  /\ UNCHANGED <<card, pend, clients, disk, sw, px, way>>

(* The market's own Back link starts over.                                 *)
MarketBack == nav.scr = "market" /\ Spend("back") /\ Enter(disk) /\ UNCHANGED <<pend, sw, px, way>>

(* The logo: the current client is stopped and the flow cleared.           *)
GoHome ==
  /\ nav.scr # "welcome" /\ MayLeave /\ Spend("home")
  /\ Show("welcome", [NoFlow EXCEPT !.aim = flow.aim, !.verifying = flow.verifying, !.doneSaved = flow.doneSaved])
  /\ clients' = [clients EXCEPT !.running = @ \ {flow.client}]
  /\ disk' = [disk EXCEPT !.hash = NoSwap]
  /\ UNCHANGED <<card, pend, sw, px, way>>

(* A reload loses everything but this browser's storage and the URL.       *)
Reload ==
  /\ Spend("reload")
  /\ LET s == disk.hash IN
     IF s # NoSwap /\ disk.vault[s] # "none"
     THEN /\ nav' = At("live", NoFlow)
          /\ flow' = [NoFlow EXCEPT !.role = sw[s].role, !.mode = "join", !.client = s]
          /\ clients' = [running |-> {s}, fresh |-> {s}, mute |-> {}]
     ELSE /\ IF s \in way.invited /\ sw[s].st = "open"
             THEN Show("invited", [NoFlow EXCEPT !.mode = "join", !.aim = s, !.role = sw[s].role,
                                                 !.deal = sw[s].deal, !.beat = s])
             ELSE Show(IF s \in way.invited THEN "over" ELSE "welcome", NoFlow)
          /\ clients' = [running |-> {}, fresh |-> {}, mute |-> {}]
  /\ card' = NoCard /\ pend' = NoPend
  /\ UNCHANGED <<disk, sw, px, way>>

(* The chooser lists the unfinished swaps of the vault; a backup file can  *)
(* be dropped anywhere; an invitation can be pasted into an open tab.      *)
ResumeListed(s) ==
  /\ nav.scr = "choose" /\ disk.vault[s] = "open"
  /\ Resume(s)
  /\ UNCHANGED <<pend, sw, px, way, left>>

DropFile(s) ==
  /\ s \in disk.files /\ MayCover /\ Spend("drop") /\ Resume(s)
  /\ UNCHANGED <<pend, sw, px, way>>

PasteInvite(s) ==
  /\ s \in way.invited /\ disk.hash # s /\ MayCover /\ Spend("paste")
  /\ Enter([disk EXCEPT !.hash = s])
  /\ UNCHANGED <<pend, sw, px, way>>

(* External: the counterparty, the chains and the watchtower, as the view  *)
(* reports them; each is a change a listening client hears of.             *)
Change(s) ==
  LET v == sw[s] IN
  /\ v.st = "open"
  /\ \/ ~v.peer /\ sw' = [sw EXCEPT ![s].peer = TRUE]
     \/ HasAddress(s) /\ ~v.gate /\ sw' = [sw EXCEPT ![s].gate = TRUE]
     \/ v.dep = "ok" /\ v.gate /\ ~v.armed /\ s \in clients.running /\ sw' = [sw EXCEPT ![s].armed = TRUE]
     \/ v.dep = "ok" /\ v.gate /\ sw' = [sw EXCEPT ![s].st = "complete"]
     \/ v.dep # "none" /\ sw' = [sw EXCEPT ![s].st = "refunded"]
     \/ v.dep = "none" /\ v.peer /\ sw' = [sw EXCEPT ![s].st = "canceled"]
  /\ clients' = [clients EXCEPT !.fresh = @ \cup ({s} \cap clients.running)]
  /\ UNCHANGED <<nav, flow, card, pend, disk, px, way, left>>

(* External: the funding window runs out; no view says so.                 *)
WindowElapses(s) ==
  /\ sw[s].st = "open" /\ HasAddress(s) /\ sw[s].dep = "none" /\ ~sw[s].late
  /\ sw' = [sw EXCEPT ![s].late = TRUE]
  /\ UNCHANGED <<nav, flow, card, pend, clients, disk, px, way, left>>

(* External: the makers move their price.                                  *)
PriceMoves ==
  /\ Spend("price") /\ px' \in Amount \ {px}
  /\ UNCHANGED <<nav, flow, card, pend, clients, disk, sw, way>>

-----------------------------------------------------------------------------
Init ==
  /\ way \in Scenarios /\ left = way.most
  /\ nav = [scr |-> "welcome", rer |-> "welcome", back |-> "none", prev |-> "welcome"]
  /\ flow = NoFlow /\ card = NoCard /\ pend = NoPend
  /\ clients = [running |-> {}, fresh |-> {}, mute |-> {}]
  /\ disk = [vault |-> [s \in Swap |-> "none"], marks |-> {}, files |-> way.foreign, hash |-> NoSwap]
  /\ px \in IF "rfq" \in way.ways THEN Amount ELSE {CHOOSE d \in Amount : TRUE}
  /\ \E role \in [Swap -> Roles], deal \in [Swap -> Amount] :
       sw = [s \in Swap |-> IF s \in way.invited THEN Opened(role[s], deal[s], FALSE, TRUE)
                            ELSE IF s \in way.foreign THEN Opened(role[s], deal[s], TRUE, TRUE)
                            ELSE NoView]

Setup == \/ Onward \/ StartPeer \/ Press \/ QuoteAnswered \/ Accepted \/ AnswerLost \/ Backup \/ Share
         \/ \E role \in Roles : ChooseDirection(role) \/ TakeQuote(role)
         \/ \E d \in Amount : Amounts(d) \/ \E s \in Swap : TakeAndStart(s, d)

Live == StartVerify \/ VerifyDone \/ VerifyFail \/ Pay \/ Cancel \/ Tick \/ \E s \in Swap : View(s)

Aside == \/ Back \/ MarketBack \/ GoHome \/ Reload \/ PriceMoves
         \/ \E p \in Page : OpenPage(p)
         \/ \E s \in Swap : ResumeListed(s) \/ DropFile(s) \/ PasteInvite(s) \/ Change(s) \/ WindowElapses(s)

Next == Setup \/ Live \/ Aside

Spec == Init /\ [][Next]_vars

(* The page's own timer and the event stream are not starved; the user and *)
(* the network owe nothing.                                                *)
FairSpec == Spec /\ WF_vars(Tick) /\ \A s \in Swap : WF_vars(View(s))

-----------------------------------------------------------------------------
TypeOK ==
  /\ nav \in [scr : Screen, rer : Screen, back : Screen \cup {"none", "prev"}, prev : Screen]
  /\ flow.client \in Swap \cup {NoSwap} /\ flow.deal \in Amount \cup {0}
  /\ clients.fresh \subseteq Swap /\ clients.running \subseteq Swap
  /\ disk.vault \in [Swap -> {"none", "open", "done"}]
  /\ left \in [Event -> 0 .. 3]

(* A swap this tab's user entered and paid for is in the vault and listed  *)
(* until it is over: a reload, or another visit, finds it to resume        *)
(* (doCreate, doJoin, doTake, doRfqTake, renderLive, recoverCard).         *)
PaidIsResumable ==
  \A s \in disk.marks : sw[s].dep # "none" /\ sw[s].st = "open" => disk.vault[s] = "open"

(* An instant take opens a swap at the price the user was last told when   *)
(* the button was pressed, or better, whatever the makers do meanwhile and *)
(* whatever the user has turned to since (doRfqTake).                      *)
TakesAsTold ==
  [][\A s \in Swap : pend.kind = "quote" /\ pend'.kind = "enter" /\ pend'.swap = s
                        => /\ sw[s].st = "none" /\ sw'[s].st = "open"
                           /\ sw'[s].role = pend.role /\ NoWorse(pend.role, sw'[s].deal, pend.told)]_vars

(* Once the funding window is over the page stops asking for the deposit,  *)
(* even if nothing else about the swap changes (startLive's tick).         *)
ExpiryIsShown ==
  \A s \in Swap : (Shows("deposit") /\ card.swap = s /\ sw[s].late /\ sw[s].dep = "none")
                     ~> ~(Shows("deposit") /\ card.swap = s /\ sw[s].dep = "none")
=============================================================================
