---------------------------- MODULE WebApp_proofs ----------------------------
(***************************************************************************)
(* Two results for any swaps, amounts and sides.                           *)
(*                                                                         *)
(* An instant take opens its swap as the user was told, in any scenario.   *)
(*                                                                         *)
(* What is paid for stays in the vault, in scenarios where no swap is      *)
(* opened over another's running client.  The invariant is about screens:  *)
(* where a client runs, no way but home leads to another swap.             *)
(***************************************************************************)
EXTENDS WebApp, TLAPS

-----------------------------------------------------------------------------
\* Inductive invariants.

\* Where a client may be running: no way leads from these screens to another
\* swap but through home.
Late == Page \cup {"backup", "share", "live", "over"}

NavOk(n) ==
  /\ n \in [scr : Screen, rer : Screen, back : Screen \cup {"none", "prev"}, prev : Screen]
  /\ n.rer \in {n.scr, "live"}

FlowOk(f) ==
  /\ {"mode", "client", "aim"} \subseteq DOMAIN f
  /\ f.client \in Swap \cup {NoSwap} /\ f.aim \in Swap \cup {NoSwap}
  /\ f.mode = "rfq" => "rfq" \in way.ways

DiskOk(d) ==
  /\ {"vault", "marks", "hash"} \subseteq DOMAIN d
  /\ DOMAIN d.vault = Swap /\ d.marks \subseteq Swap /\ d.hash \in Swap \cup {NoSwap}

SwapsOk(w) == DOMAIN w = Swap /\ \A s \in Swap : "st" \in DOMAIN w[s]

WayOk == way \in Scenarios /\ left \in [Event -> Nat] /\ \A e \in Event : left[e] <= way.most[e]

Shape ==
  /\ NavOk(nav) /\ FlowOk(flow) /\ DiskOk(disk) /\ SwapsOk(sw) /\ WayOk
  /\ "running" \in DOMAIN clients /\ {"kind", "swap"} \subseteq DOMAIN pend

\* The keys of a swap entered here are kept until it is over, as the client
\* whose keys are folded is the one that runs.
PaidKept == \A s \in disk.marks : disk.vault[s] = "open" \/ sw[s].st \in Over
OneRuns  == clients.running \subseteq {flow.client}

\* While a client runs, Back leads nowhere a swap can be set up.
LateRuns ==
  clients.running # {} => /\ nav.scr \in Late /\ nav.rer \in Late
                          /\ nav.back = "none" \/ (nav.back = "prev" /\ nav.prev \in Late)

\* While a quote is asked for no client runs, nor can one be started before the
\* answer comes: either nothing is stored or no way leads home any more.
Stored   == \E s \in Swap : disk.vault[s] = "open"
Early    == (Screen \ Late) \cup Page
QuoteAlone ==
  pend.kind = "quote" => /\ "rfq" \in way.ways /\ clients.running = {} /\ nav.scr \in Early
                         /\ Stored => left["home"] = 0 /\ nav.scr \in Page \cup {"refund"}
HomeAhead == "rfq" \in way.ways /\ Stored /\ left["home"] > 0 => nav.scr \in Late

WebInv == Shape /\ PaidKept /\ OneRuns /\ LateRuns /\ QuoteAlone /\ HomeAhead

\* No swap is opened over another's running client; and where the instant
\* widget is used, no other swap is turned to while its answer is awaited.
Steady(w) ==
  /\ w.most["over"] = 0
  /\ "rfq" \in w.ways => /\ w.most["home"] <= 1
                         /\ \A e \in {"back", "drop", "paste", "reload"} : w.most[e] = 0
SteadyWays == \A w \in Scenarios : Steady(w)

-----------------------------------------------------------------------------
\* The helpers.

LEMMA Shown ==
  ASSUME NavOk(nav), NEW scr \in Screen, NEW f
  PROVE  LET n == At(scr, f) IN
         /\ NavOk(n) /\ n.scr = scr /\ n.rer = scr
         /\ scr \in Late => n.back \in {"none", "prev"}
         /\ scr \in Late \ Page => n.back = "none"
         /\ n.prev \in {nav.rer, nav.prev}
         /\ scr \in Page /\ nav.rer # scr => n.prev = nav.rer
<1>1. BackOf(scr, f) \in Screen \cup {"none", "prev"}
  BY DEF BackOf, Screen, Page, NavOk
<1>2. scr \in Late => BackOf(scr, f) \in {"none", "prev"}
  BY DEF BackOf, Screen, Page, Late
<1>3. scr \in Late \ Page => BackOf(scr, f) = "none"
  BY DEF BackOf, Screen, Page, Late
<1> QED BY <1>1, <1>2, <1>3 DEF At, NavOk

LEMMA Kinds ==
  /\ \A p \in Page : p \in Screen /\ p \in Late /\ p # "live"
  /\ Late \subseteq Screen
  /\ \A scr \in {"welcome", "choose", "market", "confirm", "amount", "rfqConfirm", "takeConfirm",
                 "invited", "receive", "refund"} : scr \in Screen /\ scr \notin Late
  BY DEF Page, Late, Screen

LEMMA Spent ==
  ASSUME WayOk, NEW e \in Event, Spend(e), way' = way
  PROVE  WayOk' /\ way.most[e] # 0 /\ left'[e] < way.most[e] /\ \A d \in Event : left'[d] <= left[d]
<1>1. PICK w \in [Event -> Nat] : w = left
  BY DEF WayOk
<1>2. PICK m : m = way.most
  OBVIOUS
<1> QED BY <1>1, <1>2, WebAssumption DEF WayOk, Spend

\* renderLive: the vault changes for the current client alone.
LEMMA Rendered ==
  ASSUME WebAssumption, DiskOk(disk), NEW f, FlowOk(f), way' = way, NEW s, Render(s, f)
  PROVE  /\ FlowOk(flow)' /\ flow'.client = f.client /\ DiskOk(disk)' /\ disk'.marks = disk.marks
         /\ \A k \in Swap : k # f.client => disk'.vault[k] = disk.vault[k]
         /\ \A k \in Swap : k = s /\ disk.vault[k] = "open" => disk'.vault[k] = "open" \/ sw[k].st \in Over
<1>1. PICK b : b = Backfill(s, f)
  OBVIOUS
<1>2. b.client = f.client /\ b.mode = f.mode /\ b.aim = f.aim /\ DOMAIN b = DOMAIN f
  BY <1>1 DEF Backfill, FlowOk
<1>3. /\ flow'.client = b.client /\ flow'.mode = b.mode /\ flow'.aim = b.aim
      /\ {"mode", "client", "aim"} \subseteq DOMAIN flow'
  BY <1>1, <1>2 DEF Render, FlowOk
<1>4. FlowOk(flow)'
  BY <1>2, <1>3 DEF FlowOk
<1>5. PICK e, l \in BOOLEAN :
        /\ disk' = [disk EXCEPT !.vault = [k \in Swap |-> IF k # f.client THEN disk.vault[k]
                                                        ELSE IF e THEN "done"
                                                        ELSE IF l /\ sw[k].armed THEN "open" ELSE disk.vault[k]]]
        /\ e => sw[s].st \in {"complete", "refunded"}
  <2>1. PICK e : e = (sw[s].st \in {"complete", "refunded"} /\ f.client # NoSwap /\ ~f.doneSaved)
    OBVIOUS
  <2>2. PICK l : l = (sw[s].st = "open" /\ sw[s].armed /\ f.client # NoSwap /\ ~f.recSaved)
    OBVIOUS
  <2> QED BY <2>1, <2>2 DEF Render
<1>6. PICK v : v = [k \in Swap |-> IF k # f.client THEN disk.vault[k]
                                  ELSE IF e THEN "done"
                                  ELSE IF l /\ sw[k].armed THEN "open" ELSE disk.vault[k]]
  OBVIOUS
<1>7. disk'.vault = v /\ disk'.marks = disk.marks /\ disk'.hash = disk.hash /\ DOMAIN disk' = DOMAIN disk
  BY <1>5, <1>6 DEF DiskOk
<1>8. DiskOk(disk)'
  BY <1>6, <1>7 DEF DiskOk
<1> QED BY <1>2, <1>3, <1>4, <1>5, <1>6, <1>7, <1>8 DEF Over

\* startLive: the client of the flow runs, on the live screen.
LEMMA WentLive ==
  ASSUME WebAssumption, NavOk(nav), DiskOk(disk), "running" \in DOMAIN clients, way' = way,
         NEW f, FlowOk(f), GoLive(f)
  PROVE  /\ NavOk(nav)' /\ FlowOk(flow)' /\ DiskOk(disk)' /\ "running" \in DOMAIN clients'
         /\ nav'.scr = "live" /\ nav'.rer = "live" /\ nav'.back = "none"
         /\ flow'.client = f.client /\ clients'.running = clients.running \cup {f.client}
         /\ disk'.vault = disk.vault /\ disk'.marks = disk.marks
<1>1. "live" \in Screen /\ "live" \in Late \ Page
  BY DEF Screen, Late, Page
<1>2. PICK g : g = [f EXCEPT !.beat = NoSwap]
  OBVIOUS
<1>3. nav' = At("live", g) /\ flow' = g
  BY <1>2 DEF GoLive, Show
<1>4. NavOk(nav') /\ nav'.scr = "live" /\ nav'.rer = "live" /\ nav'.back = "none"
  BY <1>1, <1>3, Shown
<1>5. FlowOk(flow)' /\ flow'.client = f.client
  BY <1>2, <1>3 DEF FlowOk
<1>6. DiskOk(disk)' /\ disk'.vault = disk.vault /\ disk'.marks = disk.marks
  BY DEF GoLive, DiskOk, FlowOk
<1>7. "running" \in DOMAIN clients' /\ clients'.running = clients.running \cup {f.client}
  BY DEF GoLive
<1> QED BY <1>4, <1>5, <1>6, <1>7 DEF NavOk

LEMMA Resumed ==
  ASSUME WebAssumption, Shape, way' = way, NEW s \in Swap, Resume(s)
  PROVE  /\ NavOk(nav)' /\ FlowOk(flow)' /\ DiskOk(disk)' /\ "running" \in DOMAIN clients'
         /\ nav'.scr = "live" /\ nav'.rer = "live" /\ nav'.back = "none"
         /\ flow'.client = s /\ clients'.running = clients.running \cup {s}
         /\ disk'.vault = disk.vault /\ disk'.marks = disk.marks
<1>1. PICK f : f = [flow EXCEPT !.role = sw[s].role, !.mode = "join", !.client = s]
  OBVIOUS
<1>2. FlowOk(f) /\ f.client = s /\ s # NoSwap
  BY <1>1, WebAssumption DEF FlowOk, Shape
<1> QED BY <1>1, <1>2, WentLive DEF Resume, Shape

\* init and startParticipant, with no client running.
LEMMA Entered ==
  ASSUME WebAssumption, Shape, way' = way, clients.running = {},
         NEW kept, DiskOk(kept), kept.vault = disk.vault, kept.marks = disk.marks, Enter(kept)
  PROVE  /\ NavOk(nav)' /\ FlowOk(flow)' /\ DiskOk(disk)' /\ "running" \in DOMAIN clients'
         /\ nav'.rer = nav'.scr
         /\ clients'.running # {} => nav'.scr = "live" /\ nav'.back = "none"
         /\ clients'.running \subseteq {flow'.client}
         /\ disk'.vault = disk.vault /\ disk'.marks = disk.marks
<1>1. CASE kept.hash # NoSwap /\ kept.vault[kept.hash] # "none"
  <2>1. kept.hash \in Swap /\ Resume(kept.hash)
    BY <1>1 DEF Enter, DiskOk
  <2> QED BY <2>1, Resumed
<1>2. ASSUME ~(kept.hash # NoSwap /\ kept.vault[kept.hash] # "none"), kept.hash \in way.invited
      PROVE  /\ NavOk(nav)' /\ FlowOk(flow)' /\ nav'.rer = nav'.scr /\ disk' = kept
             /\ "running" \in DOMAIN clients' /\ clients'.running = {}
  <2>0. PICK s : s = kept.hash
    OBVIOUS
  <2>1. s \in Swap \cup {NoSwap} /\ StartParticipant(s, kept)
    BY <1>2, <2>0 DEF Enter, DiskOk
  <2>2. PICK f : f = [flow EXCEPT !.mode = "join", !.aim = s]
    OBVIOUS
  <2>3. FlowOk(f)
    BY <2>1, <2>2 DEF FlowOk, Shape
  <2>4. \E scr, g : scr \in {"invited", "over"} /\ Show(scr, g) /\ FlowOk(g)
    <3>1. CASE Show("over", f)
      BY <3>1, <2>3
    <3>2. CASE Show("invited", [f EXCEPT !.role = sw[s].role, !.deal = sw[s].deal, !.beat = s])
      <4>1. FlowOk([f EXCEPT !.role = sw[s].role, !.deal = sw[s].deal, !.beat = s])
        BY <2>3 DEF FlowOk
      <4> QED BY <3>2, <4>1
    <3>3. CASE Show("over", [f EXCEPT !.role = sw[s].role, !.deal = sw[s].deal, !.client = NoSwap])
      <4>1. FlowOk([f EXCEPT !.role = sw[s].role, !.deal = sw[s].deal, !.client = NoSwap])
        BY <2>3 DEF FlowOk
      <4> QED BY <3>3, <4>1
    <3> QED BY <2>1, <2>2, <3>1, <3>2, <3>3 DEF StartParticipant
  <2>5. PICK scr, g : scr \in {"invited", "over"} /\ Show(scr, g) /\ FlowOk(g)
    BY <2>4
  <2>6. scr \in Screen /\ nav' = At(scr, g) /\ flow' = g
    BY <2>5 DEF Show, Screen
  <2>7. NavOk(nav)' /\ nav'.rer = nav'.scr
    BY <2>6, Shown DEF NavOk, Shape
  <2>8. FlowOk(flow)'
    BY <2>5, <2>6 DEF FlowOk
  <2>9. disk' = kept /\ (clients' = clients \/ clients' = [clients EXCEPT !.running = @ \ {flow.client}])
    BY <2>1 DEF StartParticipant
  <2> QED BY <2>7, <2>8, <2>9 DEF Shape
<1>3. ASSUME ~(kept.hash # NoSwap /\ kept.vault[kept.hash] # "none"), kept.hash \notin way.invited
      PROVE  /\ NavOk(nav)' /\ FlowOk(flow)' /\ nav'.rer = nav'.scr /\ disk' = kept
             /\ "running" \in DOMAIN clients' /\ clients'.running = {}
  <2>1. Show("welcome", flow) /\ disk' = kept /\ clients' = clients
    BY <1>3 DEF Enter
  <2>2. nav' = At("welcome", flow) /\ flow' = flow
    BY <2>1 DEF Show
  <2>3. NavOk(nav)' /\ nav'.rer = nav'.scr
    BY <2>2, Kinds, Shown DEF NavOk, Shape
  <2> QED BY <2>1, <2>2, <2>3 DEF FlowOk, Shape
<1>4. ASSUME /\ NavOk(nav)' /\ FlowOk(flow)' /\ nav'.rer = nav'.scr /\ disk' = kept
             /\ "running" \in DOMAIN clients' /\ clients'.running = {}
      PROVE  /\ DiskOk(disk)' /\ disk'.vault = disk.vault /\ disk'.marks = disk.marks
             /\ clients'.running \subseteq {flow'.client}
  BY <1>4 DEF DiskOk
<1> QED BY <1>1, <1>2, <1>3, <1>4
-----------------------------------------------------------------------------
\* Every step.

\* A swap that is over stays so.
LEMMA SwapsStep ==
  ASSUME SwapsOk(sw), Next
  PROVE  SwapsOk(sw)' /\ \A k \in Swap : sw[k].st \in Over => sw'[k].st \in Over
<1>1. PICK w : w = sw
  OBVIOUS
<1>2. DOMAIN w = Swap /\ \A k \in Swap : "st" \in DOMAIN w[k]
  BY <1>1 DEF SwapsOk
<1>3. ASSUME NEW s, NEW r, sw' = [w EXCEPT ![s] = r],
             s \in Swap => "st" \in DOMAIN r /\ (w[s].st \in Over => r.st \in Over)
      PROVE  SwapsOk(sw)' /\ \A k \in Swap : w[k].st \in Over => sw'[k].st \in Over
  BY <1>2, <1>3 DEF SwapsOk
<1>4. \A role, d, me, peer : "st" \in DOMAIN Opened(role, d, me, peer) /\ Opened(role, d, me, peer).st = "open"
  BY DEF Opened, NoView
<1>5. \A s \in Unused : s \in Swap /\ w[s].st \notin Over
  BY <1>1 DEF Unused, Over
<1>6. ASSUME NEW s \in Unused, NEW r, sw' = [w EXCEPT ![s] = r], "st" \in DOMAIN r
      PROVE  SwapsOk(sw)' /\ \A k \in Swap : w[k].st \in Over => sw'[k].st \in Over
  BY <1>3, <1>5, <1>6
<1>7. CASE sw' = sw
  BY <1>1, <1>2, <1>7 DEF SwapsOk
<1>8. CASE Press
  <2>1. CASE sw' = sw
    BY <2>1, <1>7
  <2>2. CASE \E s \in Unused : sw' = [sw EXCEPT ![s] = Opened(flow.role, flow.deal, TRUE, FALSE)]
    <3>1. PICK s, r : s \in Unused /\ sw' = [w EXCEPT ![s] = r] /\ r = Opened(flow.role, flow.deal, TRUE, FALSE)
      BY <2>2, <1>1
    <3> QED BY <3>1, <1>1, <1>4, <1>6
  <2>3. CASE Joinable(flow.aim) /\ sw' = [sw EXCEPT ![flow.aim].me = TRUE]
    <3>1. PICK s, r : s = flow.aim /\ r = [w[s] EXCEPT !.me = TRUE]
      OBVIOUS
    <3>2. sw' = [w EXCEPT ![s] = r]
      BY <2>3, <3>1, <1>1
    <3>3. s \in Swap => "st" \in DOMAIN r /\ r.st = w[s].st
      BY <3>1, <1>2
    <3> QED BY <3>2, <3>3, <1>1, <1>3
  <2> QED BY <1>8, <2>1, <2>2, <2>3 DEF Press
<1>9. CASE QuoteAnswered
  <2>1. CASE sw' = sw
    BY <2>1, <1>7
  <2>2. CASE \E s \in Unused : sw' = [sw EXCEPT ![s] = Opened(pend.role, px, TRUE, FALSE)]
    <3>1. PICK s, r : s \in Unused /\ sw' = [w EXCEPT ![s] = r] /\ r = Opened(pend.role, px, TRUE, FALSE)
      BY <2>2, <1>1
    <3> QED BY <3>1, <1>1, <1>4, <1>6
  <2> QED BY <1>9, <2>1, <2>2 DEF QuoteAnswered
<1>10. CASE \E d \in Amount : \E s \in Swap : TakeAndStart(s, d)
  <2>1. PICK d, s : TakeAndStart(s, d)
    BY <1>10
  <2>2. PICK r : r = Opened(flow.role, d, FALSE, FALSE)
    OBVIOUS
  <2>3. s \in Unused /\ sw' = [w EXCEPT ![s] = r]
    BY <2>1, <2>2, <1>1 DEF TakeAndStart
  <2> QED BY <2>2, <2>3, <1>1, <1>4, <1>6
<1>11. CASE Pay
  <2>1. PICK s, r : s = card.swap /\ r = [w[s] EXCEPT !.dep = IF card.deal < w[s].deal THEN "short" ELSE "ok"]
    OBVIOUS
  <2>2. sw' = [w EXCEPT ![s] = r]
    BY <1>11, <2>1, <1>1 DEF Pay
  <2>3. s \in Swap => "st" \in DOMAIN r /\ r.st = w[s].st
    BY <2>1, <1>2
  <2> QED BY <2>2, <2>3, <1>1, <1>3
<1>12. CASE Cancel
  <2>1. PICK s, r : s = flow.client /\ r = [w[s] EXCEPT !.st = "canceled"]
    OBVIOUS
  <2>2. sw' = [w EXCEPT ![s] = r] /\ w[s].st \notin Over
    BY <1>12, <2>1, <1>1 DEF Cancel, Over
  <2>3. s \in Swap => "st" \in DOMAIN r
    BY <2>1, <1>2
  <2> QED BY <2>2, <2>3, <1>1, <1>3
<1>13. ASSUME NEW s \in Swap, Change(s)
       PROVE  SwapsOk(sw)' /\ \A k \in Swap : w[k].st \in Over => sw'[k].st \in Over
  <2>1. \E r \in {[w[s] EXCEPT !.peer = TRUE], [w[s] EXCEPT !.gate = TRUE], [w[s] EXCEPT !.armed = TRUE],
                   [w[s] EXCEPT !.st = "complete"], [w[s] EXCEPT !.st = "refunded"],
                   [w[s] EXCEPT !.st = "canceled"]} : sw' = [w EXCEPT ![s] = r]
    BY <1>13, <1>1 DEF Change
  <2>2. w[s].st \notin Over
    BY <1>13, <1>1 DEF Change, Over
  <2>3. PICK r \in {[w[s] EXCEPT !.peer = TRUE], [w[s] EXCEPT !.gate = TRUE], [w[s] EXCEPT !.armed = TRUE],
                    [w[s] EXCEPT !.st = "complete"], [w[s] EXCEPT !.st = "refunded"],
                    [w[s] EXCEPT !.st = "canceled"]} : sw' = [w EXCEPT ![s] = r]
    BY <2>1
  <2>4. "st" \in DOMAIN r
    BY <2>3, <1>2
  <2> QED BY <2>2, <2>3, <2>4, <1>3
<1>14. ASSUME NEW s \in Swap, WindowElapses(s)
       PROVE  SwapsOk(sw)' /\ \A k \in Swap : w[k].st \in Over => sw'[k].st \in Over
  <2>1. PICK r : r = [w[s] EXCEPT !.late = TRUE]
    OBVIOUS
  <2>2. sw' = [w EXCEPT ![s] = r] /\ "st" \in DOMAIN r /\ r.st = w[s].st
    BY <1>14, <2>1, <1>1, <1>2 DEF WindowElapses
  <2> QED BY <2>2, <1>3
<1>15. CASE Onward \/ StartPeer \/ Accepted \/ AnswerLost \/ Backup \/ Share
            \/ (\E role \in Roles : ChooseDirection(role) \/ TakeQuote(role)) \/ \E d \in Amount : Amounts(d)
  <2>1. sw' = sw
    BY <1>15 DEF Onward, StartPeer, Accepted, AnswerLost, Backup, Share, ChooseDirection, TakeQuote, Amounts
  <2> QED BY <2>1, <1>7
<1>16. CASE StartVerify \/ VerifyDone \/ VerifyFail \/ Tick \/ \E s \in Swap : View(s)
  <2>1. sw' = sw
    BY <1>16 DEF StartVerify, VerifyDone, VerifyFail, Tick, View
  <2> QED BY <2>1, <1>7
<1>17. CASE Back \/ MarketBack \/ GoHome \/ Reload \/ PriceMoves \/ (\E p \in Page : OpenPage(p))
            \/ \E s \in Swap : ResumeListed(s) \/ DropFile(s) \/ PasteInvite(s)
  <2>1. sw' = sw
    BY <1>17 DEF Back, MarketBack, GoHome, Reload, PriceMoves, OpenPage, ResumeListed, DropFile, PasteInvite
  <2> QED BY <2>1, <1>7
<1> QED BY <1>1, <1>8, <1>9, <1>10, <1>11, <1>12, <1>13, <1>14, <1>15, <1>16, <1>17 DEF Next, Setup, Live, Aside

-----------------------------------------------------------------------------
\* The kinds of step, by what they do to the screen and to the clients.

LEMMA PaidStep ==
  ASSUME WebAssumption, Shape, Next, DiskOk(disk)',
         \A k \in Swap : k \in disk'.marks => disk'.vault[k] = "open" \/ sw[k].st \in Over
  PROVE  PaidKept'
BY SwapsStep DEF PaidKept, DiskOk, Shape

\* Nothing is shown, stored or started.
LEMMA Rested ==
  ASSUME WebAssumption, WebInv, Next, UNCHANGED <<nav, disk, way>>, FlowOk(flow)', flow'.client = flow.client,
         WayOk', left'["home"] <= left["home"],
         "running" \in DOMAIN clients', clients'.running = clients.running,
         {"kind", "swap"} \subseteq DOMAIN pend', pend'.kind = "quote" => pend.kind = "quote"
  PROVE  WebInv'
<1>1. Shape'
  BY SwapsStep DEF WebInv, Shape, NavOk, DiskOk
<1>2. PaidKept'
  BY PaidStep, <1>1 DEF WebInv, PaidKept, Shape
<1>3. left["home"] \in Nat /\ left'["home"] \in Nat
  BY DEF WebInv, Shape, WayOk, Event
<1>4. Stored' = Stored
  BY DEF Stored
<1>5. OneRuns' /\ LateRuns'
  BY DEF WebInv, OneRuns, LateRuns
<1>6. QuoteAlone' /\ HomeAhead'
  BY <1>3, <1>4 DEF WebInv, QuoteAlone, HomeAhead
<1> QED BY <1>1, <1>2, <1>5, <1>6 DEF WebInv

\* The current client's view is rendered.
LEMMA Redrawn ==
  ASSUME WebAssumption, WebInv, Next, NEW s, NEW f, FlowOk(f), f.client = flow.client, s = flow.client, Render(s, f),
         NavOk(nav)', nav.scr \in Late, nav'.scr = nav.scr, nav'.rer \in {nav.rer, "live"},
         nav'.back = nav.back, nav'.prev = nav.prev, pend.kind # "quote",
         "running" \in DOMAIN clients', clients'.running \subseteq clients.running,
         pend' = pend, way' = way, WayOk'
  PROVE  WebInv'
<1>1. /\ FlowOk(flow)' /\ flow'.client = f.client /\ DiskOk(disk)' /\ disk'.marks = disk.marks
      /\ \A k \in Swap : k # f.client => disk'.vault[k] = disk.vault[k]
      /\ \A k \in Swap : k = s /\ disk.vault[k] = "open" => disk'.vault[k] = "open" \/ sw[k].st \in Over
  BY Rendered DEF WebInv, Shape
<1>2. Shape'
  BY <1>1, SwapsStep DEF WebInv, Shape
<1>3. PaidKept'
  BY <1>1, PaidStep DEF WebInv, PaidKept, Shape
<1>4. OneRuns' /\ QuoteAlone' /\ HomeAhead'
  BY <1>1 DEF WebInv, OneRuns, QuoteAlone, HomeAhead
<1>5. LateRuns'
  BY DEF WebInv, LateRuns, Late
<1> QED BY <1>2, <1>3, <1>4, <1>5 DEF WebInv

\* Another screen is shown for the same client.
LEMMA Turned ==
  ASSUME WebAssumption, WebInv, Next, NEW scr \in Screen, NEW f, Show(scr, f), FlowOk(f), f.client = flow.client,
         DiskOk(disk)', disk'.vault = disk.vault, disk'.marks = disk.marks, clients' = clients,
         pend' = pend, way' = way, WayOk', left'["home"] = left["home"],
         clients.running # {} => scr \in Late /\ (scr \in Page => nav.rer # scr \/ nav.prev \in Late),
         pend.kind = "quote" => scr \in Early /\ (Stored => scr \in Page \cup {"refund"}),
         "rfq" \in way.ways /\ Stored /\ left["home"] > 0 => scr \in Late
  PROVE  WebInv'
<1>1. nav' = At(scr, f) /\ flow' = f
  BY DEF Show
<1>2. /\ NavOk(nav') /\ nav'.scr = scr /\ nav'.rer = scr
      /\ scr \in Late => nav'.back \in {"none", "prev"}
      /\ scr \in Late \ Page => nav'.back = "none"
      /\ nav'.prev \in {nav.rer, nav.prev}
      /\ scr \in Page /\ nav.rer # scr => nav'.prev = nav.rer
  BY <1>1, Shown DEF WebInv, Shape
<1>3. FlowOk(flow)'
  BY <1>1 DEF FlowOk
<1>4. Shape'
  BY <1>2, <1>3, SwapsStep DEF WebInv, Shape, NavOk
<1>5. PaidKept'
  BY PaidStep DEF WebInv, PaidKept, Shape, DiskOk
<1>6. Stored' = Stored
  BY DEF Stored
<1>7. OneRuns' /\ QuoteAlone' /\ HomeAhead'
  BY <1>1, <1>2, <1>6 DEF WebInv, OneRuns, QuoteAlone, HomeAhead
<1>8. LateRuns'
  BY <1>2 DEF WebInv, LateRuns
<1> QED BY <1>4, <1>5, <1>7, <1>8 DEF WebInv

\* The one client runs, or none does, on a screen that shows so.
LEMMA Settled ==
  ASSUME WebAssumption, WebInv, Next,
         NavOk(nav)', FlowOk(flow)', DiskOk(disk)', disk'.vault = disk.vault, disk'.marks = disk.marks,
         "running" \in DOMAIN clients', {"kind", "swap"} \subseteq DOMAIN pend',
         clients'.running \subseteq {flow'.client},
         clients'.running # {} => nav'.scr \in Late /\ nav'.rer \in Late /\ nav'.back = "none",
         pend'.kind # "quote", way' = way, WayOk',
         "rfq" \in way.ways => nav'.scr \in Late \/ left'["home"] = 0
  PROVE  WebInv'
<1>1. Shape'
  BY SwapsStep DEF WebInv, Shape
<1>2. PaidKept'
  BY PaidStep DEF WebInv, PaidKept, Shape, DiskOk
<1>3. OneRuns' /\ QuoteAlone' /\ LateRuns'
  BY DEF OneRuns, QuoteAlone, LateRuns
<1>4. HomeAhead'
  BY DEF HomeAhead
<1> QED BY <1>1, <1>2, <1>3, <1>4 DEF WebInv

-----------------------------------------------------------------------------
\* The actions.

\* A quote is asked for in a scenario with the instant widget alone.
LEMMA Quoting ==
  ASSUME WebAssumption, SteadyWays, WebInv
  PROVE  /\ way.most["over"] = 0 /\ left["over"] = 0
         /\ "rfq" \in way.ways => /\ left["home"] <= 1 /\ way.most["home"] <= 1
                                 /\ \A e \in {"back", "drop", "paste", "reload"} : way.most[e] = 0
         /\ left["home"] \in Nat
<1>1. way \in Scenarios /\ left \in [Event -> Nat] /\ (\A e \in Event : left[e] <= way.most[e])
  BY DEF WebInv, Shape, WayOk
<1>2. Steady(way)
  BY <1>1 DEF SteadyWays
<1>3. way.most \in [Event -> Nat]
  BY <1>1, WebAssumption
<1>4. PICK l \in [Event -> Nat], m \in [Event -> Nat] : l = left /\ m = way.most
  BY <1>1, <1>3
<1>5. m["over"] = 0 /\ ("rfq" \in way.ways => m["home"] <= 1)
  BY <1>2, <1>4 DEF Steady
<1>6. l["over"] <= m["over"] /\ l["home"] <= m["home"] /\ l["over"] \in Nat /\ l["home"] \in Nat /\ m["home"] \in Nat
  BY <1>1, <1>4 DEF Event
<1> QED BY <1>2, <1>4, <1>5, <1>6 DEF Steady

\* A screen on which a swap is set up: no client runs.
LEMMA SettingUp ==
  ASSUME WebInv, nav.scr \notin Late
  PROVE  /\ clients.running = {} /\ ~("rfq" \in way.ways /\ Stored /\ left["home"] > 0)
         /\ pend.kind = "quote" /\ nav.scr # "refund" => ~Stored
BY Kinds DEF WebInv, LateRuns, QuoteAlone, HomeAhead

\* From one such screen to another.
LEMMA SetUp ==
  ASSUME WebAssumption, WebInv, Next, nav.scr \notin Late, nav.scr # "refund",
         NEW scr \in Screen \ Late, NEW f, Show(scr, f), FlowOk(f), f.client = flow.client,
         UNCHANGED <<disk, clients, pend, way, left>>
  PROVE  WebInv'
<1>1. WayOk' /\ DiskOk(disk)'
  BY DEF WebInv, Shape, WayOk, DiskOk
<1>2. scr \in Screen /\ scr \in Early
  BY DEF Early
<1> QED BY <1>1, <1>2, SettingUp, Turned

LEMMA SetupStep ==
  ASSUME WebAssumption, SteadyWays, WebInv, Next, Setup
  PROVE  WebInv'
<1>0. /\ NavOk(nav) /\ FlowOk(flow) /\ DiskOk(disk) /\ SwapsOk(sw) /\ WayOk
      /\ "running" \in DOMAIN clients /\ {"kind", "swap"} \subseteq DOMAIN pend
  BY DEF WebInv, Shape
<1>1. CASE Onward
  <2>1. \E scr \in {"choose", "amount", "receive", "refund"} :
          nav.scr \in {"welcome", "confirm", "takeConfirm", "rfqConfirm", "invited", "receive"} /\ Show(scr, flow)
    BY <1>1 DEF Onward, Begin, Confirmed, TakeConfirmed, QuoteConfirmed, InviteAccepted, AddressGiven, Move
  <2>2. PICK scr \in {"choose", "amount", "receive", "refund"} : Show(scr, flow)
    BY <2>1
  <2>3. nav.scr \notin Late /\ nav.scr # "refund" /\ scr \in Screen \ Late
    BY <2>1, <2>2, Kinds
  <2>4. UNCHANGED <<disk, clients, pend, way, left>>
    BY <1>1 DEF Onward
  <2> QED BY <1>0, <2>2, <2>3, <2>4, SetUp
<1>2. ASSUME NEW role, ChooseDirection(role)
      PROVE  WebInv'
  <2>1. \E scr \in {"market", "confirm"}, f \in {[flow EXCEPT !.role = role], [flow EXCEPT !.role = role, !.mode = "create"]} :
          Show(scr, f)
    BY <1>2 DEF ChooseDirection
  <2>2. PICK scr \in {"market", "confirm"}, f \in {[flow EXCEPT !.role = role], [flow EXCEPT !.role = role, !.mode = "create"]} :
          Show(scr, f)
    BY <2>1
  <2>3. FlowOk(f) /\ f.client = flow.client
    BY <1>0, <2>2 DEF FlowOk
  <2>4. nav.scr \notin Late /\ nav.scr # "refund" /\ scr \in Screen \ Late
    BY <1>2, <2>2, Kinds DEF ChooseDirection
  <2>5. UNCHANGED <<disk, clients, pend, way, left>>
    BY <1>2 DEF ChooseDirection
  <2> QED BY <2>2, <2>3, <2>4, <2>5, SetUp
<1>3. CASE StartPeer
  <2>1. PICK f : f = [flow EXCEPT !.mode = "create"]
    OBVIOUS
  <2>2. FlowOk(f) /\ f.client = flow.client
    BY <1>0, <2>1 DEF FlowOk
  <2>3. nav.scr \notin Late /\ nav.scr # "refund" /\ "confirm" \in Screen \ Late
    BY <1>3, Kinds DEF StartPeer
  <2>4. Show("confirm", f) /\ UNCHANGED <<disk, clients, pend, way, left>>
    BY <1>3, <2>1 DEF StartPeer
  <2> QED BY <2>2, <2>3, <2>4, SetUp
<1>4. ASSUME NEW d, NEW s \in Swap, TakeAndStart(s, d)
      PROVE  WebInv'
  <2>1. PICK f : f = [flow EXCEPT !.mode = "take", !.deal = d, !.aim = s]
    OBVIOUS
  <2>2. FlowOk(f) /\ f.client = flow.client
    BY <1>0, <2>1 DEF FlowOk
  <2>3. nav.scr \notin Late /\ nav.scr # "refund" /\ "takeConfirm" \in Screen \ Late
    BY <1>4, Kinds DEF TakeAndStart
  <2>4. Show("takeConfirm", f) /\ UNCHANGED <<disk, clients, pend, way, left>>
    BY <1>4, <2>1 DEF TakeAndStart
  <2> QED BY <2>2, <2>3, <2>4, SetUp
<1>5. ASSUME NEW role, TakeQuote(role)
      PROVE  WebInv'
  <2>1. PICK f : f = [flow EXCEPT !.mode = "rfq", !.role = role, !.deal = px, !.verified = FALSE]
    OBVIOUS
  <2>2. FlowOk(f) /\ f.client = flow.client
    BY <1>0, <1>5, <2>1 DEF FlowOk, TakeQuote
  <2>3. nav.scr \notin Late /\ nav.scr # "refund" /\ "rfqConfirm" \in Screen \ Late
    BY <1>5, Kinds DEF TakeQuote
  <2>4. Show("rfqConfirm", f) /\ UNCHANGED <<disk, clients, pend, way, left>>
    BY <1>5, <2>1 DEF TakeQuote
  <2> QED BY <2>2, <2>3, <2>4, SetUp
<1>6. ASSUME NEW d, Amounts(d)
      PROVE  WebInv'
  <2>1. PICK f : f = [flow EXCEPT !.deal = d]
    OBVIOUS
  <2>2. FlowOk(f) /\ f.client = flow.client
    BY <1>0, <2>1 DEF FlowOk
  <2>3. nav.scr \notin Late /\ nav.scr # "refund" /\ "receive" \in Screen \ Late
    BY <1>6, Kinds DEF Amounts
  <2>4. Show("receive", f) /\ UNCHANGED <<disk, clients, pend, way, left>>
    BY <1>6, <2>1 DEF Amounts
  <2> QED BY <2>2, <2>3, <2>4, SetUp
<1>7. CASE Press
  <2>1. UNCHANGED <<nav, clients, disk, way, left>> /\ nav.scr = "refund"
    BY <1>7 DEF Press
  <2>2. clients.running = {} /\ ~("rfq" \in way.ways /\ Stored /\ left["home"] > 0) /\ "refund" \in Early
    BY <2>1, SettingUp, Kinds DEF Early
  <2>3. FlowOk(flow)'
    BY <1>0, <1>7, <2>1 DEF Press, FlowOk, Unused
  <2>4. {"kind", "swap"} \subseteq DOMAIN pend' /\ (pend'.kind = "quote" => "rfq" \in way.ways)
    <3>1. PICK k, m : k = flow.role /\ m = flow.deal
      OBVIOUS
    <3>2. \/ pend' = pend /\ pend = NoPend
          \/ \E s : pend' = [swap |-> s, kind |-> "enter", role |-> k, told |-> m]
          \/ flow.mode = "rfq" /\ pend' = [swap |-> NoSwap, kind |-> "quote", role |-> k, told |-> m]
      BY <1>7, <3>1 DEF Press
    <3>3. CASE pend' = pend /\ pend = NoPend
      BY <3>3 DEF NoPend
    <3>4. CASE \E s : pend' = [swap |-> s, kind |-> "enter", role |-> k, told |-> m]
      BY <3>4
    <3>5. CASE flow.mode = "rfq" /\ pend' = [swap |-> NoSwap, kind |-> "quote", role |-> k, told |-> m]
      BY <1>0, <3>5 DEF FlowOk
    <3> QED BY <3>2, <3>3, <3>4, <3>5
  <2>5. Shape'
    BY <1>0, <2>1, <2>3, <2>4, SwapsStep DEF WebInv, Shape, WayOk, DiskOk
  <2>6. PaidKept'
    BY <1>0, <2>1, <2>5, PaidStep DEF WebInv, PaidKept, Shape
  <2>7. Stored' = Stored
    BY <2>1 DEF Stored
  <2>8. left["home"] \in Nat
    BY Quoting
  <2>9. OneRuns' /\ LateRuns' /\ QuoteAlone' /\ HomeAhead'
    BY <2>1, <2>2, <2>4, <2>7, <2>8 DEF OneRuns, LateRuns, QuoteAlone, HomeAhead
  <2> QED BY <2>5, <2>6, <2>9 DEF WebInv
<1>8. CASE QuoteAnswered
  <2>1. UNCHANGED <<nav, clients, disk, way, left>> /\ clients.running = {}
    BY <1>8 DEF QuoteAnswered, WebInv, QuoteAlone
  <2>2. FlowOk(flow)'
    BY <1>0, <1>8, <2>1 DEF QuoteAnswered, FlowOk, Unused
  <2>3. {"kind", "swap"} \subseteq DOMAIN pend' /\ pend'.kind # "quote"
    <3>1. pend' = NoPend \/ \E s : pend' = [pend EXCEPT !.swap = s, !.kind = "enter"]
      BY <1>8 DEF QuoteAnswered
    <3>2. CASE pend' = NoPend
      BY <3>2 DEF NoPend
    <3>3. ASSUME NEW s, pend' = [pend EXCEPT !.swap = s, !.kind = "enter"]
          PROVE  {"kind", "swap"} \subseteq DOMAIN pend' /\ pend'.kind # "quote"
      BY <1>0, <3>3
    <3> QED BY <3>1, <3>2, <3>3
  <2>4. Shape'
    BY <1>0, <2>1, <2>2, <2>3, SwapsStep DEF WebInv, Shape, WayOk, DiskOk
  <2>5. PaidKept'
    BY <1>0, <2>1, <2>4, PaidStep DEF WebInv, PaidKept, Shape
  <2>6. Stored' = Stored
    BY <2>1 DEF Stored
  <2>7. OneRuns' /\ LateRuns' /\ QuoteAlone' /\ HomeAhead'
    BY <2>1, <2>3, <2>6 DEF WebInv, OneRuns, LateRuns, QuoteAlone, HomeAhead
  <2> QED BY <2>4, <2>5, <2>7 DEF WebInv
<1>9. CASE Accepted
  <2>1. UNCHANGED <<clients, way, left>> /\ pend' = NoPend
    BY <1>9 DEF Accepted
  <2>2. {"kind", "swap"} \subseteq DOMAIN pend' /\ pend'.kind # "quote"
    BY <2>1 DEF NoPend
  <2>3. CASE flow.client = NoSwap
    <3>1. UNCHANGED <<nav, flow, disk>>
      BY <1>9, <2>3 DEF Accepted
    <3>2. FlowOk(flow)' /\ WayOk' /\ left'["home"] <= left["home"]
      BY <1>0, <2>1, <3>1, Quoting DEF FlowOk, WayOk
    <3> QED BY <1>0, <2>1, <2>2, <3>1, <3>2, Rested
  <2>4. CASE flow.client # NoSwap
    <3>1. flow.client \in Swap /\ disk' = Kept(flow.client) /\ Show("backup", flow)
      BY <1>0, <1>9, <2>4 DEF Accepted, FlowOk
    <3>2. /\ DiskOk(disk)' /\ disk'.marks = disk.marks \cup {flow.client}
          /\ disk'.vault = [disk.vault EXCEPT ![flow.client] = "open"]
      BY <1>0, <3>1 DEF DiskOk, Kept
    <3>3. nav' = At("backup", flow) /\ flow' = flow
      BY <3>1 DEF Show
    <3>4. "backup" \in Screen /\ "backup" \in Late \ Page
      BY DEF Screen, Late, Page
    <3>5. NavOk(nav') /\ nav'.scr = "backup" /\ nav'.rer = "backup" /\ nav'.back = "none"
      BY <1>0, <3>3, <3>4, Shown
    <3>6. Shape'
      BY <1>0, <2>1, <2>2, <3>2, <3>3, <3>5, SwapsStep DEF WebInv, Shape, WayOk, FlowOk, NavOk
    <3>7. PaidKept'
      <4>1. \A k \in Swap : k \in disk'.marks => disk'.vault[k] = "open" \/ sw[k].st \in Over
        BY <1>0, <3>1, <3>2 DEF WebInv, PaidKept, DiskOk
      <4> QED BY <3>6, <4>1, PaidStep DEF WebInv, Shape
    <3>8. OneRuns' /\ LateRuns' /\ QuoteAlone' /\ HomeAhead'
      BY <2>1, <2>2, <3>3, <3>4, <3>5 DEF WebInv, OneRuns, LateRuns, QuoteAlone, HomeAhead
    <3> QED BY <3>6, <3>7, <3>8 DEF WebInv
  <2> QED BY <2>3, <2>4
<1>10. CASE AnswerLost
  <2>1. UNCHANGED <<nav, flow, disk, clients, way>> /\ pend' = NoPend /\ Spend("lost")
    BY <1>10 DEF AnswerLost
  <2>2. {"kind", "swap"} \subseteq DOMAIN pend' /\ pend'.kind # "quote"
    BY <2>1 DEF NoPend
  <2>3. WayOk' /\ left'["home"] <= left["home"] /\ FlowOk(flow)'
    BY <1>0, <2>1, Spent DEF Event, FlowOk
  <2> QED BY <1>0, <2>1, <2>2, <2>3, Rested
<1>11. ASSUME nav.scr \in {"backup", "share"}, GoLive(flow), UNCHANGED <<pend, way, left>>
       PROVE  WebInv'
  <2>1. pend.kind # "quote"
    BY <1>11 DEF WebInv, QuoteAlone, Early, Late, Page
  <2>2. "live" \in Late /\ WayOk'
    BY <1>0, <1>11 DEF Late, WayOk
  <2>3. clients.running \subseteq {flow.client}
    BY DEF WebInv, OneRuns
  <2>4. /\ NavOk(nav)' /\ FlowOk(flow)' /\ DiskOk(disk)' /\ "running" \in DOMAIN clients'
        /\ nav'.scr = "live" /\ nav'.rer = "live" /\ nav'.back = "none"
        /\ flow'.client = flow.client /\ clients'.running = clients.running \cup {flow.client}
        /\ disk'.vault = disk.vault /\ disk'.marks = disk.marks
    BY <1>0, <1>11, WentLive
  <2> QED BY <1>0, <1>11, <2>1, <2>2, <2>3, <2>4, Settled
<1>12. CASE Backup
  <2>1. CASE flow.mode = "create"
    <3>1. /\ Show("share", flow) /\ disk' = [disk EXCEPT !.files = @ \cup {flow.client}] /\ nav.scr = "backup"
          /\ UNCHANGED <<clients, pend, way, left>>
      BY <1>12, <2>1 DEF Backup
    <3>2. DiskOk(disk)' /\ disk'.vault = disk.vault /\ disk'.marks = disk.marks
      BY <1>0, <3>1 DEF DiskOk
    <3>3. "share" \in Screen /\ "share" \in Late \ Page /\ WayOk'
      BY <1>0, <3>1 DEF Screen, Late, Page, WayOk
    <3>4. pend.kind # "quote"
      BY <3>1 DEF WebInv, QuoteAlone, Early, Late, Page
    <3> QED BY <1>0, <3>1, <3>2, <3>3, <3>4, Turned
  <2>2. CASE flow.mode # "create"
    BY <1>11, <1>12, <2>2 DEF Backup
  <2> QED BY <2>1, <2>2
<1>13. CASE Share
  BY <1>11, <1>13 DEF Share
<1> QED BY <1>1, <1>2, <1>3, <1>4, <1>5, <1>6, <1>7, <1>8, <1>9, <1>10, <1>12, <1>13 DEF Setup

LEMMA LiveStep ==
  ASSUME WebAssumption, SteadyWays, WebInv, Next, Live
  PROVE  WebInv'
<1>0. /\ NavOk(nav) /\ FlowOk(flow) /\ DiskOk(disk) /\ SwapsOk(sw) /\ WayOk
      /\ "running" \in DOMAIN clients /\ {"kind", "swap"} \subseteq DOMAIN pend
  BY DEF WebInv, Shape
<1>1. /\ clients.running \subseteq {flow.client}
      /\ clients.running # {} => nav.scr \in Late /\ pend.kind # "quote"
  BY DEF WebInv, OneRuns, LateRuns, QuoteAlone
<1>2. ASSUME UNCHANGED <<nav, disk, pend, way, left>>, FlowOk(flow)', flow'.client = flow.client,
             "running" \in DOMAIN clients', clients'.running = clients.running
      PROVE  WebInv'
  <2>1. WayOk' /\ left'["home"] <= left["home"]
    BY <1>0, <1>2, Quoting DEF WayOk
  <2> QED BY <1>0, <1>2, <2>1, Rested
<1>3. ASSUME NEW f, FlowOk(f), f.client = flow.client, Render(flow.client, f), nav.scr \in Late, pend.kind # "quote",
             UNCHANGED <<nav, pend, way, left>>,
             "running" \in DOMAIN clients', clients'.running \subseteq clients.running
      PROVE  WebInv'
  <2>1. WayOk' /\ NavOk(nav)'
    BY <1>0, <1>3 DEF WayOk, NavOk
  <2> QED BY <1>3, <2>1, Redrawn
<1>4. CASE StartVerify
  <2>1. UNCHANGED <<nav, disk, pend, way, left>> /\ flow' = [flow EXCEPT !.verifying = TRUE]
    BY <1>4 DEF StartVerify
  <2>2. FlowOk(flow)' /\ flow'.client = flow.client
    BY <1>0, <2>1 DEF FlowOk
  <2>3. "running" \in DOMAIN clients' /\ clients'.running = clients.running
    BY <1>0, <1>4 DEF StartVerify
  <2> QED BY <1>2, <2>1, <2>2, <2>3
<1>5. CASE VerifyDone
  <2>1. PICK f : f = [flow EXCEPT !.verified = TRUE, !.verifying = FALSE]
    OBVIOUS
  <2>2. FlowOk(f) /\ f.client = flow.client
    BY <1>0, <2>1 DEF FlowOk
  <2>3. Render(flow.client, f) /\ nav.scr = "live" /\ UNCHANGED <<nav, pend, way, left>>
    BY <1>5, <2>1 DEF VerifyDone, Shows
  <2>4. nav.scr \in Late /\ pend.kind # "quote"
    BY <2>3 DEF Late, WebInv, QuoteAlone, Early, Page
  <2>5. "running" \in DOMAIN clients' /\ clients'.running = clients.running
    BY <1>0, <1>5 DEF VerifyDone
  <2> QED BY <1>3, <2>2, <2>3, <2>4, <2>5
<1>6. CASE VerifyFail
  <2>1. UNCHANGED <<nav, disk, pend, clients, way, left>> /\ flow' = [flow EXCEPT !.verifying = FALSE]
    BY <1>6 DEF VerifyFail
  <2>2. FlowOk(flow)' /\ flow'.client = flow.client
    BY <1>0, <2>1 DEF FlowOk
  <2> QED BY <1>0, <1>2, <2>1, <2>2
<1>7. CASE Pay \/ Cancel
  <2>1. UNCHANGED <<nav, disk, pend, flow, way, left>>
    BY <1>7 DEF Pay, Cancel
  <2>2. "running" \in DOMAIN clients' /\ clients'.running = clients.running
    BY <1>0, <1>7 DEF Pay, Cancel
  <2>3. FlowOk(flow)'
    BY <1>0, <2>1 DEF FlowOk
  <2> QED BY <1>2, <2>1, <2>2, <2>3
<1>8. CASE Tick
  <2>1. Render(flow.client, flow) /\ clients.running # {} /\ UNCHANGED <<nav, pend, clients, way, left>>
    BY <1>8 DEF Tick
  <2> QED BY <1>0, <1>1, <1>3, <2>1
<1>9. ASSUME NEW s \in Swap, View(s)
      PROVE  WebInv'
  <2>1. s = flow.client /\ clients.running # {} /\ UNCHANGED <<nav, pend, way, left>>
    BY <1>1, <1>9 DEF View
  <2>2. "running" \in DOMAIN clients' /\ clients'.running \subseteq clients.running
    BY <1>0, <1>9 DEF View
  <2>3. CASE s \notin clients.mute
    <3>1. Render(flow.client, flow)
      BY <1>9, <2>1, <2>3 DEF View
    <3> QED BY <1>0, <1>1, <1>3, <2>1, <2>2, <3>1
  <2>4. CASE s \in clients.mute
    <3>1. UNCHANGED <<flow, disk>>
      BY <1>9, <2>4 DEF View
    <3>2. Shape'
      BY <1>0, <2>1, <2>2, <3>1, SwapsStep DEF WebInv, Shape, NavOk, FlowOk, DiskOk, WayOk
    <3>3. PaidKept'
      BY <3>1, <3>2, PaidStep DEF WebInv, PaidKept, Shape
    <3>4. Stored' = Stored
      BY <3>1 DEF Stored
    <3>5. OneRuns' /\ LateRuns' /\ QuoteAlone' /\ HomeAhead'
      BY <2>1, <2>2, <3>1, <3>4 DEF WebInv, OneRuns, LateRuns, QuoteAlone, HomeAhead
    <3> QED BY <3>2, <3>3, <3>5 DEF WebInv
  <2> QED BY <2>3, <2>4
<1> QED BY <1>4, <1>5, <1>6, <1>7, <1>8, <1>9 DEF Live

LEMMA AsideStep ==
  ASSUME WebAssumption, SteadyWays, WebInv, Next, Aside
  PROVE  WebInv'
<1>0. /\ NavOk(nav) /\ FlowOk(flow) /\ DiskOk(disk) /\ SwapsOk(sw) /\ WayOk
      /\ "running" \in DOMAIN clients /\ {"kind", "swap"} \subseteq DOMAIN pend
  BY DEF WebInv, Shape
<1>1. ASSUME NEW e \in {"back", "drop", "paste", "reload"}, Spend(e), way' = way
      PROVE  WayOk' /\ left'["home"] = left["home"] /\ "rfq" \notin way.ways /\ pend.kind # "quote"
  <2>1. e \in Event /\ "home" \in Event
    BY DEF Event
  <2>2. WayOk' /\ way.most[e] # 0
    BY <1>0, <1>1, <2>1, Spent
  <2>3. "rfq" \notin way.ways
    BY <2>2, Quoting
  <2>4. left'["home"] = left["home"]
    BY <1>0, <1>1, <2>1 DEF Spend, WayOk
  <2> QED BY <2>2, <2>3, <2>4 DEF WebInv, QuoteAlone
<1>2. MayCover => clients.running = {}
  <2>1. left["over"] = 0
    BY Quoting
  <2> QED BY <2>1 DEF MayCover
<1>3. ASSUME NEW kept, DiskOk(kept), kept.vault = disk.vault, kept.marks = disk.marks, Enter(kept),
             clients.running = {}, UNCHANGED <<pend, way>>, WayOk', "rfq" \notin way.ways, pend.kind # "quote"
      PROVE  WebInv'
  <2>1. /\ NavOk(nav)' /\ FlowOk(flow)' /\ DiskOk(disk)' /\ "running" \in DOMAIN clients'
        /\ nav'.rer = nav'.scr
        /\ clients'.running # {} => nav'.scr = "live" /\ nav'.back = "none"
        /\ clients'.running \subseteq {flow'.client}
        /\ disk'.vault = disk.vault /\ disk'.marks = disk.marks
    BY <1>3, Entered DEF WebInv
  <2>2. "live" \in Late
    BY DEF Late
  <2> QED BY <1>0, <1>3, <2>1, <2>2, Settled
<1>4. ASSUME NEW s \in Swap, Resume(s), clients.running = {}, UNCHANGED <<pend, way>>, WayOk', pend.kind # "quote"
      PROVE  WebInv'
  <2>1. /\ NavOk(nav)' /\ FlowOk(flow)' /\ DiskOk(disk)' /\ "running" \in DOMAIN clients'
        /\ nav'.scr = "live" /\ nav'.rer = "live" /\ nav'.back = "none"
        /\ flow'.client = s /\ clients'.running = clients.running \cup {s}
        /\ disk'.vault = disk.vault /\ disk'.marks = disk.marks
    BY <1>4, Resumed DEF WebInv
  <2>2. "live" \in Late
    BY DEF Late
  <2> QED BY <1>0, <1>4, <2>1, <2>2, Settled
<1>5. CASE Back
  <2>1. nav.back # "none" /\ Spend("back") /\ UNCHANGED <<pend, clients, way>>
    BY <1>5 DEF Back
  <2>2. WayOk' /\ left'["home"] = left["home"] /\ "rfq" \notin way.ways /\ pend.kind # "quote"
    BY <1>1, <2>1
  <2>3. CASE nav.back # "prev" \/ nav.prev # "live"
    <3>1. \E scr \in Screen : /\ Show(scr, flow) /\ disk' = disk
                              /\ scr = IF nav.back = "prev" THEN nav.prev ELSE nav.back
      BY <1>0, <1>5, <2>1, <2>3 DEF Back, NavOk
    <3>2. PICK scr \in Screen : /\ Show(scr, flow) /\ disk' = disk
                               /\ scr = IF nav.back = "prev" THEN nav.prev ELSE nav.back
      BY <3>1
    <3>3. clients.running # {} => scr \in Late /\ nav.prev \in Late
      BY <2>1, <3>2 DEF WebInv, LateRuns
    <3>4. DiskOk(disk)' /\ disk'.vault = disk.vault /\ disk'.marks = disk.marks
      BY <1>0, <3>2 DEF DiskOk
    <3> QED BY <1>0, <2>1, <2>2, <3>2, <3>3, <3>4, Turned
  <2>4. CASE nav.back = "prev" /\ nav.prev = "live"
    <3>1. /\ nav' = [nav EXCEPT !.rer = "live"]
          /\ IF flow.client \in clients.running \ clients.fresh THEN Render(flow.client, flow)
                                                                ELSE UNCHANGED <<flow, card, disk>>
      BY <1>5, <2>4 DEF Back
    <3>2. /\ NavOk(nav') /\ nav'.scr = nav.scr /\ nav'.rer = "live"
          /\ nav'.back = nav.back /\ nav'.prev = nav.prev
      BY <1>0, <3>1 DEF NavOk, Screen
    <3>3. NavOk(nav)'
      BY <3>2 DEF NavOk
    <3>4. CASE flow.client \in clients.running \ clients.fresh
      <4>1. clients.running # {} /\ Render(flow.client, flow)
        BY <3>1, <3>4
      <4>2. nav.scr \in Late
        BY <4>1 DEF WebInv, LateRuns
      <4> QED BY <1>0, <2>1, <2>2, <3>2, <3>3, <4>1, <4>2, Redrawn
    <3>5. CASE flow.client \notin clients.running \ clients.fresh
      <4>1. UNCHANGED <<flow, disk>>
        BY <3>1, <3>5
      <4>2. Shape'
        BY <1>0, <2>1, <2>2, <3>3, <4>1, SwapsStep DEF WebInv, Shape, FlowOk, DiskOk
      <4>3. PaidKept'
        BY <4>1, <4>2, PaidStep DEF WebInv, PaidKept, Shape
      <4>4. OneRuns' /\ QuoteAlone' /\ HomeAhead'
        BY <2>1, <2>2, <4>1 DEF WebInv, OneRuns, QuoteAlone, HomeAhead
      <4>5. LateRuns'
        BY <2>1, <3>2 DEF WebInv, LateRuns, Late
      <4> QED BY <4>2, <4>3, <4>4, <4>5 DEF WebInv
    <3> QED BY <3>4, <3>5
  <2> QED BY <2>3, <2>4
<1>6. CASE MarketBack
  <2>1. nav.scr = "market" /\ Spend("back") /\ Enter(disk) /\ UNCHANGED <<pend, way>>
    BY <1>6 DEF MarketBack
  <2>2. clients.running = {}
    BY <2>1, SettingUp, Kinds
  <2> QED BY <1>0, <1>1, <1>3, <2>1, <2>2
<1>7. CASE GoHome
  <2>1. PICK f : f = [NoFlow EXCEPT !.aim = flow.aim, !.verifying = flow.verifying, !.doneSaved = flow.doneSaved]
    OBVIOUS
  <2>2. /\ Show("welcome", f) /\ Spend("home") /\ UNCHANGED <<pend, way>> /\ nav.scr # "welcome"
        /\ clients' = [clients EXCEPT !.running = @ \ {flow.client}]
        /\ disk' = [disk EXCEPT !.hash = NoSwap]
    BY <1>7, <2>1 DEF GoHome
  <2>3. FlowOk(f) /\ f.client = NoSwap
    BY <1>0, <2>1 DEF FlowOk, NoFlow
  <2>4. nav' = At("welcome", f) /\ flow' = f
    BY <2>2 DEF Show
  <2>5. NavOk(nav') /\ nav'.scr = "welcome"
    BY <1>0, <2>4, Kinds, Shown
  <2>6. "home" \in Event
    BY DEF Event
  <2>7. WayOk' /\ left'["home"] < way.most["home"] /\ left'["home"] \in Nat
    BY <1>0, <2>2, <2>6, Spent DEF WayOk
  <2>8. "rfq" \in way.ways => left'["home"] = 0
    <3>1. way.most["home"] \in Nat
      BY <1>0, <2>6, WebAssumption DEF WayOk
    <3> QED BY <2>7, <3>1, Quoting
  <2>9. DiskOk(disk)' /\ disk'.vault = disk.vault /\ disk'.marks = disk.marks
    BY <1>0, <2>2 DEF DiskOk
  <2>10. "running" \in DOMAIN clients' /\ clients'.running = {}
    BY <1>0, <2>2 DEF WebInv, OneRuns
  <2>11. Shape'
    BY <1>0, <2>2, <2>3, <2>4, <2>5, <2>7, <2>9, <2>10, SwapsStep DEF WebInv, Shape, FlowOk, NavOk
  <2>12. PaidKept'
    BY <1>0, <2>9, <2>11, PaidStep DEF WebInv, PaidKept, Shape, DiskOk
  <2>13. Stored' = Stored
    BY <2>9 DEF Stored
  <2>14. pend.kind = "quote" => ~Stored
    \* the last way home is gone once a quote is asked for with keys stored
    <3>1. left["home"] # 0
      BY <1>0, <2>2, <2>6 DEF Spend, WayOk
    <3> QED BY <3>1 DEF WebInv, QuoteAlone
  <2>15. OneRuns' /\ LateRuns' /\ HomeAhead'
    BY <2>2, <2>8, <2>10 DEF OneRuns, LateRuns, HomeAhead
  <2>16. QuoteAlone'
    BY <2>2, <2>5, <2>10, <2>13, <2>14, Kinds DEF WebInv, QuoteAlone, Early
  <2> QED BY <2>11, <2>12, <2>15, <2>16 DEF WebInv
<1>8. CASE Reload
  <2>1. Spend("reload") /\ pend' = NoPend /\ UNCHANGED <<disk, way>>
    BY <1>8 DEF Reload
  <2>2. WayOk' /\ "rfq" \notin way.ways
    BY <1>1, <2>1
  <2>3. DiskOk(disk)' /\ disk'.vault = disk.vault /\ disk'.marks = disk.marks
    BY <1>0, <2>1 DEF DiskOk
  <2>4. {"kind", "swap"} \subseteq DOMAIN pend' /\ pend'.kind # "quote"
    BY <2>1 DEF NoPend
  <2>5. PICK s : s = disk.hash
    OBVIOUS
  <2>6. s \in Swap \cup {NoSwap}
    BY <1>0, <2>5 DEF DiskOk
  <2>7. \E scr, f :
          /\ scr \in {"live", "invited", "over", "welcome"}
          /\ nav' = At(scr, f) \/ nav' = At(scr, NoFlow)
          /\ FlowOk(flow)' /\ "running" \in DOMAIN clients'
          /\ scr # "live" => clients'.running = {}
          /\ clients'.running \subseteq {flow'.client}
    <3>1. CASE s # NoSwap /\ disk.vault[s] # "none"
      <4>1. nav' = At("live", NoFlow) /\ clients' = [running |-> {s}, fresh |-> {s}, mute |-> {}]
            /\ flow' = [NoFlow EXCEPT !.role = sw[s].role, !.mode = "join", !.client = s]
        BY <1>8, <2>5, <3>1 DEF Reload
      <4>2. FlowOk(flow)' /\ flow'.client = s
        BY <2>6, <4>1 DEF FlowOk, NoFlow
      <4> QED BY <4>1, <4>2
    <3>2. CASE ~(s # NoSwap /\ disk.vault[s] # "none") /\ s \in way.invited /\ sw[s].st = "open"
      <4>1. PICK f : f = [NoFlow EXCEPT !.mode = "join", !.aim = s, !.role = sw[s].role,
                                        !.deal = sw[s].deal, !.beat = s]
        OBVIOUS
      <4>2. Show("invited", f) /\ clients' = [running |-> {}, fresh |-> {}, mute |-> {}]
        BY <1>8, <2>5, <3>2, <4>1 DEF Reload
      <4>3. nav' = At("invited", f) /\ flow' = f
        BY <4>2 DEF Show
      <4>4. FlowOk(flow)'
        BY <2>6, <4>1, <4>3 DEF FlowOk, NoFlow
      <4> QED BY <4>2, <4>3, <4>4
    <3>3. CASE ~(s # NoSwap /\ disk.vault[s] # "none") /\ ~(s \in way.invited /\ sw[s].st = "open")
      <4>1. /\ Show(IF s \in way.invited THEN "over" ELSE "welcome", NoFlow)
            /\ clients' = [running |-> {}, fresh |-> {}, mute |-> {}]
        BY <1>8, <2>5, <3>3 DEF Reload
      <4>2. flow' = NoFlow /\ (nav' = At("over", NoFlow) \/ nav' = At("welcome", NoFlow))
        BY <4>1 DEF Show
      <4>3. FlowOk(flow)'
        BY <4>2 DEF FlowOk, NoFlow
      <4> QED BY <4>1, <4>2, <4>3
    <3> QED BY <3>1, <3>2, <3>3
  <2>8. PICK scr, f :
          /\ scr \in {"live", "invited", "over", "welcome"}
          /\ nav' = At(scr, f) \/ nav' = At(scr, NoFlow)
          /\ FlowOk(flow)' /\ "running" \in DOMAIN clients'
          /\ scr # "live" => clients'.running = {}
          /\ clients'.running \subseteq {flow'.client}
    BY <2>7
  <2>9. scr \in Screen /\ (scr = "live" => scr \in Late \ Page)
    BY <2>8 DEF Screen, Late, Page
  <2>10. NavOk(nav') /\ nav'.scr = scr /\ nav'.rer = scr /\ (scr \in Late \ Page => nav'.back = "none")
    BY <1>0, <2>8, <2>9, Shown
  <2>11. NavOk(nav)'
    BY <2>10 DEF NavOk
  <2> QED BY <2>1, <2>2, <2>3, <2>4, <2>8, <2>9, <2>10, <2>11, Settled
<1>9. CASE PriceMoves
  <2>1. UNCHANGED <<nav, flow, disk, clients, pend, way>> /\ Spend("price")
    BY <1>9 DEF PriceMoves
  <2>2. WayOk' /\ left'["home"] <= left["home"] /\ FlowOk(flow)'
    BY <1>0, <2>1, Spent DEF Event, FlowOk
  <2> QED BY <1>0, <2>1, <2>2, Rested
<1>10. ASSUME NEW q \in Page, OpenPage(q)
       PROVE  WebInv'
  <2>1. Show(q, flow) /\ nav.scr # q /\ UNCHANGED <<disk, clients, pend, way>> /\ Spend("page")
    BY <1>10 DEF OpenPage
  <2>2. q \in Screen /\ q \in Late /\ q \in Early /\ nav.rer # q
    BY <1>0, <2>1, Kinds DEF NavOk, Early
  <2>3. "page" \in Event /\ "home" \in Event
    BY DEF Event
  <2>4. WayOk' /\ left'["home"] = left["home"]
    BY <1>0, <2>1, <2>3, Spent DEF Spend, WayOk
  <2>5. DiskOk(disk)' /\ disk'.vault = disk.vault /\ disk'.marks = disk.marks
    BY <1>0, <2>1 DEF DiskOk
  <2> QED BY <1>0, <2>1, <2>2, <2>4, <2>5, Turned
<1>11. ASSUME NEW s \in Swap, ResumeListed(s)
       PROVE  WebInv'
  <2>1. nav.scr = "choose" /\ disk.vault[s] = "open" /\ Resume(s) /\ UNCHANGED <<pend, way, left>>
    BY <1>11 DEF ResumeListed
  <2>2. clients.running = {} /\ Stored /\ WayOk'
    BY <1>0, <2>1, SettingUp, Kinds DEF Stored, WayOk
  <2>3. pend.kind # "quote"
    BY <2>1, <2>2, SettingUp, Kinds
  <2> QED BY <1>4, <2>1, <2>2, <2>3
<1>12. ASSUME NEW s \in Swap, DropFile(s)
       PROVE  WebInv'
  <2>1. MayCover /\ Spend("drop") /\ Resume(s) /\ UNCHANGED <<pend, way>>
    BY <1>12 DEF DropFile
  <2> QED BY <1>1, <1>2, <1>4, <2>1
<1>13. ASSUME NEW s \in Swap, PasteInvite(s)
       PROVE  WebInv'
  <2>1. MayCover /\ Spend("paste") /\ Enter([disk EXCEPT !.hash = s]) /\ UNCHANGED <<pend, way>>
    BY <1>13 DEF PasteInvite
  <2>2. PICK kept : kept = [disk EXCEPT !.hash = s]
    OBVIOUS
  <2>3. DiskOk(kept) /\ kept.vault = disk.vault /\ kept.marks = disk.marks
    BY <1>0, <2>2 DEF DiskOk
  <2> QED BY <1>1, <1>2, <1>3, <2>1, <2>2, <2>3
<1>14. ASSUME NEW s \in Swap, Change(s) \/ WindowElapses(s)
       PROVE  WebInv'
  <2>1. UNCHANGED <<nav, flow, disk, pend, way, left>>
    BY <1>14 DEF Change, WindowElapses
  <2>2. "running" \in DOMAIN clients' /\ clients'.running = clients.running
    BY <1>0, <1>14 DEF Change, WindowElapses
  <2>3. WayOk' /\ left'["home"] <= left["home"] /\ FlowOk(flow)'
    BY <1>0, <2>1, Quoting DEF WayOk, FlowOk
  <2> QED BY <1>0, <2>1, <2>2, <2>3, Rested
<1> QED BY <1>5, <1>6, <1>7, <1>8, <1>9, <1>10, <1>11, <1>12, <1>13, <1>14 DEF Aside

-----------------------------------------------------------------------------
\* The promises.

LEMMA WebInit ==
  ASSUME WebAssumption, Init
  PROVE  WebInv
<1>1. DOMAIN sw = Swap /\ \A s \in Swap : "st" \in DOMAIN sw[s]
  <2>1. PICK role \in [Swap -> Roles], deal \in [Swap -> Amount] :
          sw = [s \in Swap |-> IF s \in way.invited THEN Opened(role[s], deal[s], FALSE, TRUE)
                               ELSE IF s \in way.foreign THEN Opened(role[s], deal[s], TRUE, TRUE)
                               ELSE NoView]
    BY DEF Init
  <2>2. \A r, d, me, peer : "st" \in DOMAIN Opened(r, d, me, peer)
    BY DEF Opened, NoView
  <2>3. "st" \in DOMAIN NoView
    BY DEF NoView
  <2> QED BY <2>1, <2>2, <2>3
<1>2. NavOk(nav) /\ nav.scr = "welcome"
  BY DEF Init, NavOk, Screen
<1>3. FlowOk(flow)
  BY DEF Init, FlowOk, NoFlow
<1>4. DiskOk(disk) /\ disk.marks = {} /\ ~Stored
  BY DEF Init, DiskOk, Stored
<1>5. WayOk
  <2>1. way.most \in [Event -> Nat] /\ left = way.most /\ way \in Scenarios
    BY WebAssumption DEF Init
  <2> QED BY <2>1 DEF WayOk
<1>6. clients.running = {} /\ "running" \in DOMAIN clients
  BY DEF Init
<1>7. {"kind", "swap"} \subseteq DOMAIN pend /\ pend.kind # "quote"
  BY DEF Init, NoPend
<1> QED BY <1>1, <1>2, <1>3, <1>4, <1>5, <1>6, <1>7
        DEF WebInv, Shape, SwapsOk, PaidKept, OneRuns, LateRuns, QuoteAlone, HomeAhead

\* In a steady scenario the client whose keys a view is folded under is the one
\* that runs, whatever order the answers come in (main.js, renderLive).
THEOREM WebAlways ==
  ASSUME SteadyWays
  PROVE  Spec => []WebInv
<1>1. Init => WebInv
  BY WebAssumption, WebInit
<1>2. WebInv /\ [Next]_vars => WebInv'
  <2>1. CASE WebInv /\ Next
    BY <2>1, WebAssumption, SteadyWays, SetupStep, LiveStep, AsideStep DEF Next
  <2>2. CASE WebInv /\ UNCHANGED vars
    <3>1. /\ nav' = nav /\ flow' = flow /\ disk' = disk /\ sw' = sw /\ way' = way /\ left' = left
          /\ clients' = clients /\ pend' = pend
      BY <2>2 DEF vars
    <3>2. Stored' = Stored
      BY <3>1 DEF Stored
    <3>3. Shape'
      BY <2>2, <3>1 DEF WebInv, Shape, NavOk, FlowOk, DiskOk, SwapsOk, WayOk
    <3> QED BY <2>2, <3>1, <3>2, <3>3 DEF WebInv, PaidKept, OneRuns, LateRuns, QuoteAlone, HomeAhead
  <2> QED BY <2>1, <2>2
<1> QED BY <1>1, <1>2, PTL DEF Spec

\* A swap entered and paid for from this browser is in its vault to resume, for
\* any number of swaps, deposits and reloads, as long as no swap is opened over
\* a running client (main.js: doCreate, doJoin, doTake, doRfqTake, renderLive).
THEOREM KeysAreKept ==
  ASSUME SteadyWays
  PROVE  Spec => []PaidIsResumable
<1>1. WebInv => PaidIsResumable
  BY DEF WebInv, PaidKept, PaidIsResumable, Over
<1> QED BY <1>1, WebAlways, PTL

Asked == SwapsOk(sw) /\ {"kind", "swap"} \subseteq DOMAIN pend

LEMMA AskedStep ==
  ASSUME Asked, Next
  PROVE  Asked' /\ (pend.kind = "quote" /\ pend'.kind = "enter" => QuoteAnswered)
<1>1. SwapsOk(sw)'
  BY SwapsStep DEF Asked
<1>2. CASE pend' = pend \/ pend' = NoPend
  BY <1>1, <1>2 DEF Asked, NoPend
<1>3. CASE Press
  <2>1. PICK k, m : k = flow.role /\ m = flow.deal
    OBVIOUS
  <2>2. \/ pend' = pend
        \/ \E s : pend' = [swap |-> s, kind |-> "enter", role |-> k, told |-> m]
        \/ pend' = [swap |-> NoSwap, kind |-> "quote", role |-> k, told |-> m]
    BY <1>3, <2>1 DEF Press
  <2>3. pend = NoPend
    BY <1>3 DEF Press
  <2>4. pend.kind # "quote"
    BY <2>3 DEF NoPend
  <2>5. CASE pend' = pend
    BY <1>2, <2>5
  <2>6. CASE \E s : pend' = [swap |-> s, kind |-> "enter", role |-> k, told |-> m]
    BY <1>1, <2>4, <2>6 DEF Asked
  <2>7. CASE pend' = [swap |-> NoSwap, kind |-> "quote", role |-> k, told |-> m]
    BY <1>1, <2>4, <2>7 DEF Asked
  <2> QED BY <2>2, <2>5, <2>6, <2>7
<1>4. CASE QuoteAnswered
  <2>1. CASE pend' = NoPend
    BY <1>2, <2>1
  <2>2. CASE \E s : pend' = [pend EXCEPT !.swap = s, !.kind = "enter"]
    BY <1>1, <1>4, <2>2 DEF Asked
  <2> QED BY <1>4, <2>1, <2>2 DEF QuoteAnswered
<1>5. CASE Onward \/ StartPeer \/ Backup \/ Share \/ Accepted \/ AnswerLost
           \/ (\E role \in Roles : ChooseDirection(role) \/ TakeQuote(role))
           \/ \E d \in Amount : Amounts(d) \/ \E s \in Swap : TakeAndStart(s, d)
  BY <1>2, <1>5 DEF Onward, StartPeer, Backup, Share, Accepted, AnswerLost, ChooseDirection, TakeQuote, Amounts,
                    TakeAndStart
<1>6. CASE Live
  BY <1>2, <1>6 DEF Live, StartVerify, VerifyDone, VerifyFail, Pay, Cancel, Tick, View
<1>7. CASE Aside
  BY <1>2, <1>7 DEF Aside, Back, MarketBack, GoHome, Reload, PriceMoves, OpenPage, ResumeListed, DropFile,
                    PasteInvite, Change, WindowElapses
<1> QED BY <1>3, <1>4, <1>5, <1>6, <1>7 DEF Next, Setup

\* An instant take opens its swap at the price the user was told or better, in
\* every scenario, whatever happens before the answer comes (main.js, doRfqTake).
THEOREM TakenAsTold == Spec => TakesAsTold
<1>1. Init => Asked
  BY WebAssumption, WebInit DEF WebInv, Shape, Asked
<1>2. Asked /\ [Next]_vars => Asked'
  <2>1. CASE Asked /\ Next
    BY <2>1, AskedStep
  <2>2. CASE Asked /\ UNCHANGED vars
    BY <2>2 DEF Asked, SwapsOk, vars
  <2> QED BY <2>1, <2>2
<1>3. Asked /\ [Next]_vars
        => [\A s \in Swap : pend.kind = "quote" /\ pend'.kind = "enter" /\ pend'.swap = s
                               => /\ sw[s].st = "none" /\ sw'[s].st = "open"
                                  /\ sw'[s].role = pend.role /\ NoWorse(pend.role, sw'[s].deal, pend.told)]_vars
  <2> SUFFICES ASSUME Asked, Next, NEW s \in Swap, pend.kind = "quote", pend'.kind = "enter", pend'.swap = s
               PROVE  /\ sw[s].st = "none" /\ sw'[s].st = "open"
                      /\ sw'[s].role = pend.role /\ NoWorse(pend.role, sw'[s].deal, pend.told)
    OBVIOUS
  <2>1. QuoteAnswered
    BY AskedStep
  <2>2. NoWorse(pend.role, px, pend.told)
    <3>1. pend' # NoPend
      BY DEF NoPend
    <3> QED BY <2>1, <3>1 DEF QuoteAnswered
  <2>3. PICK u \in Unused : /\ sw' = [sw EXCEPT ![u] = Opened(pend.role, px, TRUE, FALSE)]
                            /\ pend' = [pend EXCEPT !.swap = u, !.kind = "enter"]
    BY <2>1, <2>2 DEF QuoteAnswered
  <2>4. u = s
    BY <2>3 DEF Asked
  <2>5. PICK r : r = Opened(pend.role, px, TRUE, FALSE)
    OBVIOUS
  <2>6. r.st = "open" /\ r.role = pend.role /\ r.deal = px
    BY <2>5 DEF Opened, NoView
  <2>7. sw'[s] = r
    BY <2>3, <2>4, <2>5 DEF Asked, SwapsOk
  <2>8. sw[s].st = "none"
    BY <2>4 DEF Unused
  <2> QED BY <2>2, <2>6, <2>7, <2>8
<1> QED BY <1>1, <1>2, <1>3, PTL DEF Spec, TakesAsTold
=============================================================================
