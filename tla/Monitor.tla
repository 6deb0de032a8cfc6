------------------------------ MODULE Monitor ------------------------------
(***************************************************************************)
(* The production monitor (coordinator/monitor.js), a cron job that reads  *)
(* the admin API, keeps a state file between its runs and pages a human,   *)
(* with the risk flags the admin API computes (admin.js).  One step of     *)
(* time is one run; the world may change between two runs.                 *)
(***************************************************************************)
EXTENDS Integers, FiniteSets

CONSTANTS Swap,
          Horizon,                           \* the number of runs looked at (bound)
          GraceMin, StallMin, StuckAge, ReAlert, FreshFor,   \* in runs
          Locktime,                          \* the heights the legs' refunds open at
          Scenarios

ASSUME MonitorAssumption ==
  GraceMin \in Nat /\ StallMin \in Nat

Leg    == {"btc", "qbit"}
Role   == {"alice", "bob"}
Event  == {"block", "node", "admin", "swaps", "disk", "away", "settle", "short", "prune"}
Over   == {"COMPLETE", "REFUNDED", "ABORTED"}
Never  == -1

VARIABLES now, world, file, said, hist, left
vars == <<now, world, file, said, hist, left>>

-----------------------------------------------------------------------------
(* The admin API.                                                          *)

FundLeg(role) == IF role = "alice" THEN "btc" ELSE "qbit"

(* riskOf: what needs a human's eye.  The height is part of the flag's     *)
(* text where a timelock has passed.                                       *)
RiskOf(s) ==
  LET v == world.swaps[s]
      open(leg) == v.dep[leg] = "open"
      alone(role) == ~v.on[role] /\ ~v.armed[role]
  IN IF v.state \in Over THEN {} ELSE
     {<<"past", leg, world.height[leg]>> : leg \in {k \in Leg : open(k) /\ world.height[k] >= Locktime}}
       \cup {<<"unprotected", FundLeg(r), Never>> : r \in {r \in Role : open(FundLeg(r)) /\ alone(r)}}
       \cup {<<"preimage", leg, Never>> : leg \in {k \in {"btc"} : v.pre /\ open(k) /\ alone("bob")}}

Listed == {s \in Swap : world.swaps[s].state # "none"}

-----------------------------------------------------------------------------
(* One run.  An issue is a key, and whether it waits out the grace period. *)

Issue(what, on, flag, grace) == [key |-> <<what, on, flag>>, grace |-> grace]

NodeIssues ==
  {Issue("down", leg, "", FALSE) : leg \in {k \in Leg : ~world.node[k]}}
    \cup {Issue("stall", leg, "", FALSE) : leg \in
           {k \in {"qbit"} : /\ world.node[k] /\ file.height[k] = world.height[k]
                             /\ now - file.heightAt[k] > StallMin}}

DiskIssues ==
  CASE world.disk = "unread"       -> {Issue("disk-check", "host", "", FALSE)}
    [] world.disk \in {"warn", "crit"} -> {Issue("disk", "host", "", FALSE)}
    [] OTHER                       -> {}

SwapIssues(s) ==
  LET v == world.swaps[s]
      active == v.state \notin Over \cup {"CANCELED", "CREATED"}
  IN {Issue("risk", s, f, TRUE) : f \in RiskOf(s)}
       \cup {Issue(what, s, "", FALSE) : what \in
              {w \in {"short", "stuck"} :
                 IF w = "short" THEN v.short = "open" /\ v.state \notin Over \cup {"CANCELED"}
                 ELSE active /\ (\E k \in Leg : v.dep[k] # "none") /\ now - v.born > StuckAge}}

Issues == NodeIssues \cup DiskIssues \cup UNION {SwapIssues(s) : s \in Listed}

Entry(alerts, k) == IF k \in DOMAIN alerts THEN alerts[k] ELSE [first |-> now, last |-> Never]

(* maybeAlert: past its grace and not paged lately.                        *)
Due(a, grace) ==
  /\ grace => now - a.first >= GraceMin
  /\ a.last = Never \/ now - a.last >= ReAlert

Paged(a, grace) == IF Due(a, grace) THEN [a EXCEPT !.last = now] ELSE a

AdminKey == <<"admin", "", "">>
With(alerts, k, a) == [x \in DOMAIN alerts \cup {k} |-> IF x = k THEN a ELSE alerts[x]]

Page(k)  == [kind |-> "page", key |-> k]
Clear(k) == [kind |-> "clear", key |-> k]
News(s)  == [kind |-> "news", key |-> <<"state", s, world.swaps[s].state>>]

(* The alerts the run leaves: one for each issue; the others are cleared.  *)
NextAlerts_Keeps(alerts, issues) ==
  LET keys == {i.key : i \in issues} IN
  [k \in keys \cup DOMAIN alerts |->
     IF k \in keys THEN Paged(Entry(alerts, k), \E i \in issues : i.key = k /\ i.grace) ELSE alerts[k]]

NextAlerts_Forgets(alerts, issues) ==
  [k \in {i.key : i \in issues} |->
     LET a == Entry(alerts, k) IN
     Paged(IF a.last = Never THEN [a EXCEPT !.first = now] ELSE a, \E i \in issues : i.key = k /\ i.grace)]

NextAlerts(alerts, issues) ==
  [k \in {i.key : i \in issues} |-> Paged(Entry(alerts, k), \E i \in issues : i.key = k /\ i.grace)]

(* A swap's change of state is news; an unseen one that settled long ago   *)
(* is recorded in silence, and the first run only takes a baseline.        *)
Newsworthy(s) ==
  LET v == world.swaps[s] IN
  /\ ~file.first /\ file.state[s] # v.state
  /\ ~( /\ file.state[s] = "none" /\ v.state \in Over \cup {"CANCELED"}
        /\ ~(v.settled # Never /\ now - v.settled < FreshFor))

NextHeights_Always ==
  [height   |-> [k \in Leg |-> IF world.node[k] THEN world.height[k] ELSE file.height[k]],
   heightAt |-> [k \in Leg |-> IF world.node[k] THEN now ELSE file.heightAt[k]]]

NextHeights ==
  LET moved(k) == world.node[k] /\ file.height[k] # world.height[k] IN
  [height   |-> [k \in Leg |-> IF moved(k) THEN world.height[k] ELSE file.height[k]],
   heightAt |-> [k \in Leg |-> IF moved(k) THEN now ELSE file.heightAt[k]]]

(* What a run that got through has seen, for the properties: since when a  *)
(* condition holds without a break, and which were paged meanwhile.  A     *)
(* condition is an issue's key without the text of a changing height.      *)
Condition(k) == IF k[1] = "risk" THEN <<k[1], k[2], k[3][1], k[3][2]>> ELSE <<k[1], k[2], "", "">>

Observed(issues, pages) ==
  LET cs == {Condition(i.key) : i \in issues} IN
  hist' = [at |-> now,
           since |-> [c \in cs |-> IF c \in DOMAIN hist.since THEN hist.since[c] ELSE now],
           paged |-> (hist.paged \cap cs) \cup {Condition(m.key) : m \in {x \in pages : x.kind = "page"}},
           still |-> IF world.node["qbit"] /\ file.height["qbit"] = world.height["qbit"] THEN hist.still ELSE now]

(* main: without the admin API the run only says so.                       *)
RunBlind ==
  /\ ~world.admin
  /\ LET a == Entry(file.alerts, AdminKey) IN
     /\ file' = [file EXCEPT !.alerts = With(@, AdminKey, Paged(a, FALSE))]
     /\ said' = IF Due(a, FALSE) THEN {Page(AdminKey)} ELSE {}
  /\ hist' = hist

Reachable == IF AdminKey \in DOMAIN file.alerts THEN {Clear(AdminKey)} ELSE {}

(* The list of swaps cannot be read: the run dies with its file unsaved.   *)
RunDies == world.admin /\ ~world.swapsOk /\ said' = Reachable /\ UNCHANGED <<file, hist>>

RunThrough ==
  /\ world.admin /\ world.swapsOk
  /\ LET before == [k \in DOMAIN file.alerts \ {AdminKey} |-> file.alerts[k]]
         issues == Issues
         after  == NextAlerts(before, issues)
         pages  == {Page(k) : k \in {k \in DOMAIN after : after[k].last = now}}
         heights == NextHeights
     IN /\ file' = [first |-> FALSE, alerts |-> after,
                    height |-> heights.height, heightAt |-> heights.heightAt,
                    state |-> [s \in Swap |-> world.swaps[s].state]]
        /\ said' = Reachable \cup pages \cup {Clear(k) : k \in DOMAIN before \ {i.key : i \in issues}}
                     \cup {News(s) : s \in {s \in Listed : Newsworthy(s)}}
        /\ Observed(issues, pages)

Run ==
  /\ now < Horizon /\ now' = now + 1
  /\ RunBlind \/ RunDies \/ RunThrough
  /\ UNCHANGED <<world, left>>

-----------------------------------------------------------------------------
(* External: the world between two runs.                                   *)

Set(e, w) == left[e] > 0 /\ left' = [left EXCEPT ![e] = @ - 1] /\ world' = w /\ UNCHANGED <<now, file, said, hist>>

OnSwap(s, v) == [world EXCEPT !.swaps[s] = v]

WorldMoves ==
  \/ \E k \in Leg : /\ world.node[k] /\ Set("block", [world EXCEPT !.height[k] = @ + 1])
  \/ \E k \in Leg : Set("node", [world EXCEPT !.node[k] = ~@])
  \/ Set("admin", [world EXCEPT !.admin = ~@])
  \/ Set("swaps", [world EXCEPT !.swapsOk = ~@])
  \/ \E d \in {"ok", "warn", "crit", "unread"} \ {world.disk} : Set("disk", [world EXCEPT !.disk = d])

SwapMoves(s) ==
  LET v == world.swaps[s] IN
  \/ /\ v.state \notin Over \cup {"none", "CANCELED"}
     /\ \/ \E r \in Role : Set("away", OnSwap(s, [v EXCEPT !.on[r] = ~@]))
        \/ \E end \in {"COMPLETE", "REFUNDED"} :
             Set("settle", OnSwap(s, [v EXCEPT !.state = end, !.settled = now, !.short = IF @ = "open" THEN "spent" ELSE @,
                                               !.dep = [k \in Leg |-> IF @[k] = "open" THEN "spent" ELSE @[k]]]))
        \/ v.short = "none" /\ Set("short", OnSwap(s, [v EXCEPT !.short = "open"]))
  \/ v.state \in Over /\ Set("prune", OnSwap(s, [v EXCEPT !.state = "none"]))

Init ==
  /\ now = 0 /\ said = {}
  /\ \E sc \in Scenarios : left = sc.most /\ world = sc.world
  /\ file = [first |-> TRUE, alerts |-> [k \in {} |-> 0], height |-> [k \in Leg |-> Never],
             heightAt |-> [k \in Leg |-> Never], state |-> [s \in Swap |-> "none"]]
  /\ hist = [at |-> 0, since |-> [c \in {} |-> 0], paged |-> {}, still |-> 0]

Next == Run \/ WorldMoves \/ \E s \in Swap : SwapMoves(s)

Spec == Init /\ [][Next]_vars

-----------------------------------------------------------------------------
TypeOK ==
  /\ now \in 0 .. Horizon
  /\ \A k \in DOMAIN file.alerts : file.alerts[k].first \in 0 .. now /\ file.alerts[k].last \in Never .. now
  /\ \A k \in Leg : file.heightAt[k] \in Never .. now
  /\ \A e \in Event : left[e] \in 0 .. Horizon

Held(c) == hist.at - hist.since[c] >= GraceMin

(* A deposit nobody will act for, and a public preimage its owner does not *)
(* use, are paged once they outlast the grace, whatever runs fail or see   *)
(* no coordinator meanwhile (riskOf, maybeAlert, main).                    *)
RiskIsPaged == \A c \in DOMAIN hist.since : c[1] = "risk" /\ c[3] # "past" /\ Held(c) => c \in hist.paged

(* No swap is paged for what healed within the grace: a flag that comes    *)
(* back starts anew (the resolve pass of main).                            *)
NoPageWithinGrace ==
  [][\A m \in said' : m.kind = "page" /\ m.key[1] = "risk" => now - hist'.since[Condition(m.key)] >= GraceMin]_<<now, said>>

(* A QBT chain that stands still is paged, through restarts of its node    *)
(* and of the admin API (main's height baseline).                          *)
StallIsPaged == hist.at - hist.still > StallMin => <<"stall", "qbit", "", "">> \in hist.paged
=============================================================================
