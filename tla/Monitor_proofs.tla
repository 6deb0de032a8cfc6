--------------------------- MODULE Monitor_proofs ---------------------------
(***************************************************************************)
(* What the monitor pages, for every number of swaps, every grace and      *)
(* every world.  FileInv says what the file of the last run knows of the   *)
(* past; the promises follow from what one run makes of it.                *)
(***************************************************************************)
EXTENDS Monitor, TLAPS

-----------------------------------------------------------------------------
(* What the file remembers of the past, an inductive invariant.            *)

(* The one key of a condition whose text does not change.                  *)
KeyOf(c)   == <<c[1], c[2], <<c[3], c[4], Never>>>>
Fixed(c)   == c[1] = "risk" /\ c[3] # "past"
Recorded   == DOMAIN file.alerts \ {AdminKey}

(* An alert began no earlier than its condition, and was paged only if the *)
(* condition was; that of a fixed text began with it.  The height baseline *)
(* is no younger than the standstill.                                      *)
FileInv ==
  /\ now \in Nat /\ hist.at \in Nat /\ hist.still \in Nat
  /\ DOMAIN file = {"first", "alerts", "height", "heightAt", "state"}
  /\ file.heightAt["qbit"] \in Int /\ file.heightAt["qbit"] <= hist.still /\ hist.still <= now
  /\ \A c \in DOMAIN hist.since : hist.since[c] \in Nat /\ hist.since[c] <= now
  /\ \A k \in DOMAIN file.alerts :
       file.alerts[k] \in [first : Nat, last : Int] /\ file.alerts[k].last < now
  /\ \A k \in Recorded :
       /\ Condition(k) \in DOMAIN hist.since
       /\ hist.since[Condition(k)] <= file.alerts[k].first
       /\ file.alerts[k].last # Never => Condition(k) \in hist.paged
  /\ \A c \in DOMAIN hist.since : Fixed(c) =>
       KeyOf(c) \in Recorded /\ file.alerts[KeyOf(c)].first = hist.since[c]

-----------------------------------------------------------------------------

LEMMA Triples == \A a, b, c : <<a, b, c>>[1] = a /\ <<a, b, c>>[2] = b /\ <<a, b, c>>[3] = c
  OBVIOUS

\* The flags of riskOf wait out the grace, and have a key of their own kind;
\* only that of a passed timelock has a changing text.
LEMMA IssueKeys ==
  ASSUME NEW i \in Issues
  PROVE  /\ i.key # AdminKey
         /\ i.key[1] # "risk" => ~i.grace
         /\ i.key[1] = "risk" =>
              /\ i.grace
              /\ \E sw, what, leg, h : /\ i.key = <<"risk", sw, <<what, leg, h>>>>
                                       /\ what # "past" => h = Never
<1>0. ASSUME NEW w \in {"down", "stall", "disk-check", "disk"}, NEW on,
             i = Issue(w, on, "", FALSE)
      PROVE  i.key # AdminKey /\ i.key[1] # "risk" /\ ~i.grace
  <2>1. i = [key |-> <<w, on, "">>, grace |-> FALSE]
    BY <1>0 DEF Issue
  <2>2. i.key[1] = w
    BY <2>1, Triples
  <2>3. AdminKey[1] = "admin"
    BY Triples DEF AdminKey
  <2> QED BY <2>1, <2>2, <2>3
<1>1. CASE i \in NodeIssues
  <2>1. \E leg : \E w \in {"down", "stall"} : i = Issue(w, leg, "", FALSE)
    BY <1>1 DEF NodeIssues
  <2> QED BY <1>0, <2>1
<1>2. CASE i \in DiskIssues
  <2>1. \E w \in {"disk-check", "disk"} : i = Issue(w, "host", "", FALSE)
    BY <1>2 DEF DiskIssues
  <2> QED BY <1>0, <2>1
<1>3. ASSUME NEW sw, i \in SwapIssues(sw)
      PROVE  /\ i.key # AdminKey
             /\ i.key[1] # "risk" => ~i.grace
             /\ i.key[1] = "risk" =>
                  /\ i.grace
                  /\ \E x, what, leg, h : /\ i.key = <<"risk", x, <<what, leg, h>>>>
                                          /\ what # "past" => h = Never
  <2>1. \/ \E f \in RiskOf(sw) : i = Issue("risk", sw, f, TRUE)
        \/ \E w \in {"short", "stuck"} : i = Issue(w, sw, "", FALSE)
    BY <1>3 DEF SwapIssues
  <2>2. ASSUME NEW w \in {"short", "stuck"}, i = Issue(w, sw, "", FALSE)
        PROVE  i.key # AdminKey /\ i.key[1] # "risk" /\ ~i.grace
    <3>1. i = [key |-> <<w, sw, "">>, grace |-> FALSE]
      BY <2>2 DEF Issue
    <3>2. i.key[1] = w /\ AdminKey[1] = "admin"
      BY <3>1, Triples DEF AdminKey
    <3> QED BY <3>1, <3>2
  <2>3. ASSUME NEW f \in RiskOf(sw), i = Issue("risk", sw, f, TRUE)
        PROVE  /\ i.key # AdminKey /\ i.grace /\ i.key[1] = "risk"
               /\ \E x, what, leg, h : /\ i.key = <<"risk", x, <<what, leg, h>>>>
                                       /\ what # "past" => h = Never
    <3>1. i = [key |-> <<"risk", sw, f>>, grace |-> TRUE]
      BY <2>3 DEF Issue
    <3>3. i.key[1] = "risk" /\ AdminKey[1] = "admin"
      BY <3>1, Triples DEF AdminKey
    <3>2. \E what, leg, h : f = <<what, leg, h>> /\ (what # "past" => h = Never)
      <4>1. \/ \E leg, h : f = <<"past", leg, h>>
            \/ \E leg : f = <<"unprotected", leg, Never>>
            \/ \E leg : f = <<"preimage", leg, Never>>
        BY <2>3 DEF RiskOf
      <4> QED BY <4>1
    <3> QED BY <3>1, <3>2, <3>3
  <2> QED BY <2>1, <2>2, <2>3
<1> QED BY <1>1, <1>2, <1>3 DEF Issues

\* A flag's condition tells its key, unless its text changes.
LEMMA Quads ==
  \A a, b, c, d : /\ <<a, b, c, d>>[1] = a /\ <<a, b, c, d>>[2] = b
                  /\ <<a, b, c, d>>[3] = c /\ <<a, b, c, d>>[4] = d
  OBVIOUS

LEMMA ConditionOf ==
  ASSUME NEW sw, NEW what, NEW leg, NEW h
  PROVE  LET k == <<"risk", sw, <<what, leg, h>>>>
             c == <<"risk", sw, what, leg>>
         IN /\ Condition(k) = c
            /\ KeyOf(c) = <<"risk", sw, <<what, leg, Never>>>>
            /\ Fixed(c) => what # "past"
<1> DEFINE f == <<what, leg, h>>
           k == <<"risk", sw, f>>
           c == <<"risk", sw, what, leg>>
<1>1. k[1] = "risk" /\ k[2] = sw /\ k[3] = f
  BY Triples
<1>2. f[1] = what /\ f[2] = leg
  BY Triples
<1>3. c[1] = "risk" /\ c[2] = sw /\ c[3] = what /\ c[4] = leg
  BY Quads
<1> HIDE DEF k, f, c
<1>4. k[3][1] = what /\ k[3][2] = leg
  BY <1>1, <1>2
<1>5. Condition(k) = <<"risk", sw, what, leg>>
  BY <1>1, <1>4 DEF Condition
<1>6. KeyOf(c) = <<"risk", sw, <<what, leg, Never>>>>
  BY <1>3 DEF KeyOf
<1>7. Fixed(c) => what # "past"
  BY <1>3 DEF Fixed
<1> QED BY <1>5, <1>6, <1>7 DEF k, f, c

LEMMA FixedKeys ==
  ASSUME NEW i \in Issues, Fixed(Condition(i.key))
  PROVE  i.grace /\ KeyOf(Condition(i.key)) = i.key
<1> DEFINE k == i.key
<1>1. CASE k[1] = "risk"
  <2>1. PICK sw, what, leg, h : /\ k = <<"risk", sw, <<what, leg, h>>>>
                                /\ what # "past" => h = Never
    BY <1>1, IssueKeys
  <2> DEFINE c == <<"risk", sw, what, leg>>
             n == <<"risk", sw, <<what, leg, h>>>>
             m == <<"risk", sw, <<what, leg, Never>>>>
  <2>2. Condition(n) = c /\ KeyOf(c) = m /\ (Fixed(c) => what # "past")
    BY ConditionOf
  <2>3. (h = Never) => n = m
    OBVIOUS
  <2>4. k = n
    BY <2>1
  <2>5. i.grace
    BY <1>1, IssueKeys
  <2>6. Fixed(Condition(k)) /\ (what # "past" => h = Never)
    BY <2>1
  <2> HIDE DEF c, n, m, k
  <2>7. KeyOf(Condition(k)) = k
    BY <2>2, <2>3, <2>4, <2>6
  <2> QED BY <2>5, <2>7 DEF k
<1>2. CASE k[1] # "risk"
  <2> HIDE DEF k
  <2> DEFINE c == <<k[1], k[2], "", "">>
  <2>1. Condition(k) = c
    BY <1>2 DEF Condition
  <2>2. c[1] = k[1]
    BY Quads
  <2> HIDE DEF c
  <2>3. ~Fixed(Condition(k))
    BY <1>2, <2>1, <2>2 DEF Fixed
  <2> QED BY <2>3 DEF k
<1> QED BY <1>1, <1>2

-----------------------------------------------------------------------------
\* One run that gets through.

\* What it starts from, and what it finds.
Before == [k \in DOMAIN file.alerts \ {AdminKey} |-> file.alerts[k]]
After  == NextAlerts(Before, Issues)
Found  == {Condition(i.key) : i \in Issues}

\* An alert goes on, or begins, and is paged when it is due.
LEMMA AlertStep ==
  ASSUME FileInv, NEW k \in DOMAIN After
  PROVE  LET a == IF k \in Recorded THEN file.alerts[k] ELSE [first |-> now, last |-> Never]
             grace == \E i \in Issues : i.key = k /\ i.grace
         IN /\ \E i \in Issues : i.key = k
            /\ After[k] \in [first : Nat, last : Int] /\ After[k].first = a.first
            /\ After[k].last = IF Due(a, grace) THEN now ELSE a.last
            /\ a.last < now /\ (k \notin Recorded => a.first = now /\ a.last = Never)
            /\ k \in Recorded => a.first = file.alerts[k].first /\ a.last = file.alerts[k].last
<1> DEFINE a == IF k \in Recorded THEN file.alerts[k] ELSE [first |-> now, last |-> Never]
           grace == \E i \in Issues : i.key = k /\ i.grace
<1>1. \E i \in Issues : i.key = k
  BY DEF After, NextAlerts
<1>2. After[k] = Paged(Entry(Before, k), grace)
  BY <1>1 DEF After, NextAlerts
<1>3. Entry(Before, k) = a
  BY DEF Entry, Before, Recorded
<1>4. now \in Nat /\ a \in [first : Nat, last : Int] /\ a.last < now
  BY DEF FileInv, Recorded, Never
<1>5. /\ k \notin Recorded => a.first = now /\ a.last = Never
      /\ k \in Recorded => a.first = file.alerts[k].first /\ a.last = file.alerts[k].last
  OBVIOUS
<1> HIDE DEF a, grace
<1>6. /\ Paged(a, grace) \in [first : Nat, last : Int] /\ Paged(a, grace).first = a.first
      /\ Paged(a, grace).last = IF Due(a, grace) THEN now ELSE a.last
  BY <1>4 DEF Paged
<1> QED BY <1>1, <1>2, <1>3, <1>4, <1>5, <1>6 DEF a, grace

\* What a run that gets through leaves.
LEMMA Through ==
  ASSUME FileInv, RunThrough
  PROVE  /\ file'.alerts = After /\ file'.heightAt = NextHeights.heightAt
         /\ DOMAIN file' = {"first", "alerts", "height", "heightAt", "state"}
         /\ hist'.at = now
         /\ DOMAIN hist'.since = Found
         /\ \A c \in Found :
              hist'.since[c] = IF c \in DOMAIN hist.since THEN hist.since[c] ELSE now
         /\ hist'.paged = (hist.paged \cap Found)
                            \cup {Condition(k) : k \in {x \in DOMAIN After : After[x].last = now}}
         /\ hist'.still = IF world.node["qbit"] /\ file.height["qbit"] = world.height["qbit"]
                          THEN hist.still ELSE now
         /\ \A m \in said' : (m.kind = "page")
                              => m.key \in DOMAIN After /\ After[m.key].last = now
<1> DEFINE pages == {Page(k) : k \in {x \in DOMAIN After : After[x].last = now}}
<1>1. /\ file' = [first |-> FALSE, alerts |-> After,
                  height |-> NextHeights.height, heightAt |-> NextHeights.heightAt,
                  state |-> [s \in Swap |-> world.swaps[s].state]]
      /\ said' = Reachable \cup pages
                   \cup {Clear(k) : k \in DOMAIN Before \ {i.key : i \in Issues}}
                   \cup {News(s) : s \in {s \in Listed : Newsworthy(s)}}
      /\ Observed(Issues, pages)
  BY DEF RunThrough, Before, After
<1>2. {Condition(m.key) : m \in {x \in pages : x.kind = "page"}}
        = {Condition(k) : k \in {x \in DOMAIN After : After[x].last = now}}
  <2>1. \A k : Page(k).kind = "page" /\ Page(k).key = k
    BY DEF Page
  <2> HIDE DEF Page
  <2> QED BY <2>1
<1>3. /\ hist'.at = now
      /\ DOMAIN hist'.since = Found
      /\ \A c \in Found :
           hist'.since[c] = IF c \in DOMAIN hist.since THEN hist.since[c] ELSE now
      /\ hist'.still = IF world.node["qbit"] /\ file.height["qbit"] = world.height["qbit"]
                       THEN hist.still ELSE now
      /\ hist'.paged = (hist.paged \cap Found)
                         \cup {Condition(m.key) : m \in {x \in pages : x.kind = "page"}}
  BY <1>1 DEF Observed, Found
<1>4. ASSUME NEW m \in said', m.kind = "page"
      PROVE  m.key \in DOMAIN After /\ After[m.key].last = now
  <2>1. \/ \E k \in {x \in DOMAIN After : After[x].last = now} : m = Page(k)
        \/ \E k : m = Clear(k)
        \/ \E sw : m = News(sw)
    BY <1>1, <1>4 DEF Reachable
  <2>2. (\A k : Clear(k).kind = "clear") /\ (\A sw : News(sw).kind = "news")
        /\ \A k : Page(k).key = k
    BY DEF Clear, News, Page
  <2> HIDE DEF Page, Clear, News
  <2> QED BY <1>4, <2>1, <2>2
<1> QED BY <1>1, <1>2, <1>3, <1>4

LEMMA ThroughKeeps ==
  ASSUME FileInv, RunThrough, now' = now + 1, MonitorAssumption
  PROVE  FileInv'
<1>1. /\ file'.alerts = After /\ file'.heightAt = NextHeights.heightAt
      /\ DOMAIN file' = {"first", "alerts", "height", "heightAt", "state"}
      /\ hist'.at = now
      /\ DOMAIN hist'.since = Found
      /\ \A c \in Found :
           hist'.since[c] = IF c \in DOMAIN hist.since THEN hist.since[c] ELSE now
      /\ hist'.paged = (hist.paged \cap Found)
                         \cup {Condition(k) : k \in {x \in DOMAIN After : After[x].last = now}}
      /\ hist'.still = IF world.node["qbit"] /\ file.height["qbit"] = world.height["qbit"]
                       THEN hist.still ELSE now
  BY Through
<1>2. now' \in Nat /\ hist'.at \in Nat /\ hist'.still \in Nat /\ hist'.still <= now'
  BY <1>1 DEF FileInv
<1>3. file'.heightAt["qbit"] \in Int /\ file'.heightAt["qbit"] <= hist'.still
  <2>1. NextHeights.heightAt["qbit"]
          = IF world.node["qbit"] /\ file.height["qbit"] # world.height["qbit"]
            THEN now ELSE file.heightAt["qbit"]
    BY DEF NextHeights, Leg
  <2> QED BY <1>1, <2>1 DEF FileInv
<1>4. \A c \in DOMAIN hist'.since : hist'.since[c] \in Nat /\ hist'.since[c] <= now
  BY <1>1 DEF FileInv
<1>5. ASSUME NEW k \in DOMAIN After
      PROVE  /\ After[k] \in [first : Nat, last : Int] /\ After[k].last < now' /\ k # AdminKey
             /\ Condition(k) \in Found
             /\ hist'.since[Condition(k)] <= After[k].first
             /\ After[k].last # Never => Condition(k) \in hist'.paged
  <2> DEFINE a == IF k \in Recorded THEN file.alerts[k] ELSE [first |-> now, last |-> Never]
             grace == \E i \in Issues : i.key = k /\ i.grace
  <2>1. /\ \E i \in Issues : i.key = k
        /\ After[k] \in [first : Nat, last : Int] /\ After[k].first = a.first
        /\ After[k].last = IF Due(a, grace) THEN now ELSE a.last
        /\ a.last < now /\ (k \notin Recorded => a.first = now /\ a.last = Never)
        /\ k \in Recorded => a.first = file.alerts[k].first /\ a.last = file.alerts[k].last
    BY AlertStep
  <2> HIDE DEF a, grace
  <2>2. k # AdminKey /\ Condition(k) \in Found
    BY <2>1, IssueKeys DEF Found
  <2>3. After[k].last < now'
    BY <2>1 DEF FileInv
  <2>4. hist'.since[Condition(k)] <= After[k].first
    <3>1. CASE k \in Recorded
      BY <1>1, <2>1, <2>2, <3>1 DEF FileInv
    <3>2. CASE k \notin Recorded
      BY <1>1, <1>4, <2>1, <2>2, <3>2
    <3> QED BY <3>1, <3>2
  <2>5. ASSUME After[k].last # Never PROVE Condition(k) \in hist'.paged
    <3>1. CASE After[k].last = now
      BY <1>1, <3>1
    <3>2. CASE After[k].last # now
      <4>1. k \in Recorded /\ file.alerts[k].last # Never
        BY <2>1, <2>5, <3>2
      <4> QED BY <1>1, <2>2, <4>1 DEF FileInv
    <3> QED BY <3>1, <3>2
  <2> QED BY <2>1, <2>2, <2>3, <2>4, <2>5
<1>6. ASSUME NEW c \in Found, Fixed(c)
      PROVE  KeyOf(c) \in DOMAIN After /\ After[KeyOf(c)].first = hist'.since[c]
  <2>1. PICK i \in Issues : c = Condition(i.key)
    BY DEF Found
  <2>2. KeyOf(c) = i.key
    BY <1>6, <2>1, FixedKeys
  <2>3. i.key \in DOMAIN After
    BY DEF After, NextAlerts
  <2>4. After[i.key].first = IF i.key \in Recorded THEN file.alerts[i.key].first ELSE now
    BY <2>3, AlertStep
  <2>5. CASE c \in DOMAIN hist.since
    BY <1>1, <1>6, <2>2, <2>3, <2>4, <2>5 DEF FileInv
  <2>6. CASE c \notin DOMAIN hist.since
    BY <1>1, <2>1, <2>2, <2>3, <2>4, <2>6 DEF FileInv
  <2> QED BY <2>5, <2>6
<1>7. Recorded' = DOMAIN After
  BY <1>1, <1>5 DEF Recorded
<1>8. \A k \in DOMAIN file'.alerts :
        file'.alerts[k] \in [first : Nat, last : Int] /\ file'.alerts[k].last < now'
  BY <1>1, <1>5
<1>9. \A k \in Recorded' :
        /\ Condition(k) \in DOMAIN hist'.since
        /\ hist'.since[Condition(k)] <= file'.alerts[k].first
        /\ file'.alerts[k].last # Never => Condition(k) \in hist'.paged
  BY <1>1, <1>5, <1>7
<1>10. \A c \in DOMAIN hist'.since : Fixed(c) =>
         KeyOf(c) \in Recorded' /\ file'.alerts[KeyOf(c)].first = hist'.since[c]
  BY <1>1, <1>6, <1>7
<1>11. \A c \in DOMAIN hist'.since : hist'.since[c] \in Nat /\ hist'.since[c] <= now'
  BY <1>4 DEF FileInv
<1> QED BY <1>1, <1>2, <1>3, <1>8, <1>9, <1>10, <1>11 DEF FileInv, Fixed, KeyOf, Condition

\* A condition that is old enough is paged by the run that finds it.
LEMMA ThroughPages ==
  ASSUME FileInv, RunThrough, now' = now + 1, MonitorAssumption
  PROVE  RiskIsPaged' /\ StallIsPaged'
<1>1. /\ file'.alerts = After
      /\ hist'.at = now
      /\ DOMAIN hist'.since = Found
      /\ \A c \in Found :
           hist'.since[c] = IF c \in DOMAIN hist.since THEN hist.since[c] ELSE now
      /\ hist'.paged = (hist.paged \cap Found)
                         \cup {Condition(k) : k \in {x \in DOMAIN After : After[x].last = now}}
      /\ hist'.still = IF world.node["qbit"] /\ file.height["qbit"] = world.height["qbit"]
                       THEN hist.still ELSE now
  BY Through
<1>2. FileInv'
  BY ThroughKeeps
\* An alert of these that is not due was paged before, and its condition
\* has not let go since.
<1>3. ASSUME NEW k \in DOMAIN After,
             (\E i \in Issues : i.key = k /\ i.grace) => now - After[k].first >= GraceMin
      PROVE  Condition(k) \in hist'.paged
  <2> DEFINE a == IF k \in Recorded THEN file.alerts[k] ELSE [first |-> now, last |-> Never]
             grace == \E i \in Issues : i.key = k /\ i.grace
  <2>1. /\ After[k].first = a.first
        /\ After[k].last = IF Due(a, grace) THEN now ELSE a.last
    BY AlertStep
  <2>2. grace => now - a.first >= GraceMin
    BY <1>3, <2>1
  <2> HIDE DEF a, grace
  <2>3. Due(a, grace) \/ a.last # Never
    BY <2>2 DEF Due
  <2>4. now # Never
    BY DEF FileInv, Never
  <2>5. After[k].last # Never
    BY <2>1, <2>3, <2>4
  <2>6. k \in Recorded'
    <3>1. \E i \in Issues : i.key = k
      BY DEF After, NextAlerts
    <3> QED BY <1>1, <3>1, IssueKeys DEF Recorded
  <2> QED BY <1>1, <1>2, <2>5, <2>6 DEF FileInv
<1>4. ASSUME NEW c \in Found, Fixed(c), now - hist'.since[c] >= GraceMin
      PROVE  c \in hist'.paged
  <2>1. PICK i \in Issues : c = Condition(i.key)
    BY DEF Found
  <2>2. KeyOf(c) = i.key
    BY <1>4, <2>1, FixedKeys
  <2>3. i.key \in DOMAIN After
    BY DEF After, NextAlerts
  <2>4. After[i.key].first = hist'.since[c]
    BY <1>1, <1>2, <1>4, <2>2 DEF FileInv
  <2> QED BY <1>3, <1>4, <2>1, <2>3, <2>4
<1>5. RiskIsPaged'
  BY <1>1, <1>4 DEF RiskIsPaged, Held, Fixed
<1>6. ASSUME hist'.at - hist'.still > StallMin
      PROVE  <<"stall", "qbit", "", "">> \in hist'.paged
  <2> DEFINE i == Issue("stall", "qbit", "", FALSE)
             k == <<"stall", "qbit", "">>
  <2>1. /\ world.node["qbit"] /\ file.height["qbit"] = world.height["qbit"]
        /\ now - file.heightAt["qbit"] > StallMin
    BY <1>1, <1>6 DEF FileInv, MonitorAssumption
  <2>2. i \in Issues
    BY <2>1 DEF Issues, NodeIssues, Leg
  <2>3. i = [key |-> k, grace |-> FALSE]
    BY DEF Issue
  <2>8. k[1] = "stall" /\ k[2] = "qbit"
    BY Triples
  <2> HIDE DEF k, i
  <2>5. k[1] = "stall" /\ k[2] = "qbit" /\ i.key = k
    BY <2>3, <2>8
  <2>4. k \in DOMAIN After
    BY <2>2, <2>5 DEF After, NextAlerts
  <2>7. Condition(k) = <<"stall", "qbit", "", "">>
    BY <2>5 DEF Condition
  <2>6. ~ \E j \in Issues : j.key = k /\ j.grace
    BY <2>5, IssueKeys
  <2> QED BY <1>3, <2>4, <2>6, <2>7
<1> QED BY <1>5, <1>6 DEF StallIsPaged

\* What is paged has outlasted its grace.
LEMMA ThroughWaits ==
  ASSUME FileInv, RunThrough, now' = now + 1, MonitorAssumption,
         NEW m \in said', m.kind = "page", m.key[1] = "risk"
  PROVE  now - hist'.since[Condition(m.key)] >= GraceMin
<1> DEFINE k == m.key
           a == IF k \in Recorded THEN file.alerts[k] ELSE [first |-> now, last |-> Never]
           grace == \E i \in Issues : i.key = k /\ i.grace
<1>1. k \in DOMAIN After /\ After[k].last = now
  BY Through
<1>2. /\ \E i \in Issues : i.key = k
      /\ After[k].first = a.first /\ After[k] \in [first : Nat, last : Int]
      /\ After[k].last = IF Due(a, grace) THEN now ELSE a.last
      /\ a.last < now
  BY <1>1, AlertStep
<1>3. grace
  BY <1>2, IssueKeys
<1> HIDE DEF a, grace
<1>4. now - After[k].first >= GraceMin
  BY <1>1, <1>2, <1>3 DEF Due, FileInv
<1>5. FileInv'
  BY ThroughKeeps
<1>6. k \in Recorded' /\ file'.alerts[k] = After[k]
  BY <1>1, <1>2, Through, IssueKeys DEF Recorded
<1>7. /\ Condition(k) \in DOMAIN hist'.since
      /\ hist'.since[Condition(k)] <= After[k].first /\ hist'.since[Condition(k)] \in Nat
  BY <1>5, <1>6 DEF FileInv
<1> QED BY <1>2, <1>4, <1>7 DEF FileInv, MonitorAssumption

-----------------------------------------------------------------------------
\* The other steps: a run without the admin API records that alone.

LEMMA BlindKeeps ==
  ASSUME FileInv, RunBlind, now' = now + 1
  PROVE  FileInv'
<1> DEFINE a == Entry(file.alerts, AdminKey)
           p == Paged(a, FALSE)
<1>1. /\ file'.alerts = With(file.alerts, AdminKey, p) /\ file'.heightAt = file.heightAt
      /\ DOMAIN file' = DOMAIN file /\ hist' = hist
  BY DEF RunBlind, FileInv
<1>2. p \in [first : Nat, last : Int] /\ p.last < now'
  <2>1. a \in [first : Nat, last : Int] /\ a.last < now /\ now \in Nat
    BY DEF FileInv, Entry, Never
  <2>2. p = a \/ p = [a EXCEPT !.last = now]
    BY DEF Paged
  <2> HIDE DEF a, p
  <2> QED BY <2>1, <2>2
<1> HIDE DEF p
<1>3. Recorded' = Recorded /\ \A k \in Recorded : file'.alerts[k] = file.alerts[k]
  BY <1>1 DEF Recorded, With
<1>4. \A k \in DOMAIN file'.alerts :
        file'.alerts[k] \in [first : Nat, last : Int] /\ file'.alerts[k].last < now'
  BY <1>1, <1>2 DEF With, FileInv
<1>5. now' \in Nat /\ \A c \in DOMAIN hist.since : hist.since[c] <= now'
  BY DEF FileInv
<1>6. hist.still <= now'
  BY DEF FileInv
<1>7. \A k \in Recorded' :
       /\ Condition(k) \in DOMAIN hist'.since
       /\ hist'.since[Condition(k)] <= file'.alerts[k].first
       /\ file'.alerts[k].last # Never => Condition(k) \in hist'.paged
  BY <1>1, <1>3 DEF FileInv
<1>8. \A c \in DOMAIN hist'.since : Fixed(c) =>
       KeyOf(c) \in Recorded' /\ file'.alerts[KeyOf(c)].first = hist'.since[c]
  BY <1>1, <1>3 DEF FileInv
<1> QED BY <1>1, <1>4, <1>5, <1>6, <1>7, <1>8 DEF FileInv, Fixed, KeyOf, Condition

LEMMA OtherwiseKept ==
  ASSUME FileInv, file' = file, hist' = hist, now' = now \/ now' = now + 1
  PROVE  FileInv'
<1>1. Recorded' = Recorded
  BY DEF Recorded
<1>2. /\ now' \in Nat /\ hist.still <= now'
      /\ \A c \in DOMAIN hist.since : hist.since[c] <= now'
      /\ \A k \in DOMAIN file.alerts : file.alerts[k].last < now'
  BY DEF FileInv
<1> QED BY <1>1, <1>2 DEF FileInv, Fixed, KeyOf, Condition

\* A step is a run, or leaves the file, the pages and the past alone.
LEMMA StepKinds ==
  ASSUME [Next]_vars
  PROVE  \/ now' = now + 1 /\ RunThrough
         \/ now' = now + 1 /\ RunBlind
         \/ now' = now + 1 /\ RunDies
         \/ UNCHANGED <<now, file, said, hist>>
<1>1. CASE Run
  BY <1>1 DEF Run
<1>2. CASE WorldMoves
  BY <1>2 DEF WorldMoves, Set
<1>3. ASSUME NEW s \in Swap, SwapMoves(s)
      PROVE  UNCHANGED <<now, file, said, hist>>
  BY <1>3 DEF SwapMoves, Set
<1>4. CASE UNCHANGED vars
  BY <1>4 DEF vars
<1> QED BY <1>1, <1>2, <1>3, <1>4 DEF Next

LEMMA InitFile ==
  ASSUME Init, MonitorAssumption
  PROVE  FileInv /\ RiskIsPaged /\ StallIsPaged
<1>1. /\ now = 0 /\ file.heightAt = [k \in Leg |-> Never] /\ DOMAIN file.alerts = {}
      /\ DOMAIN file = {"first", "alerts", "height", "heightAt", "state"}
      /\ hist.at = 0 /\ hist.still = 0 /\ DOMAIN hist.since = {}
  BY DEF Init
<1>2. file.heightAt["qbit"] = -1
  BY <1>1 DEF Leg, Never
<1>3. Recorded = {}
  BY <1>1 DEF Recorded
<1>4. 0 \in Nat /\ -1 \in Int /\ -1 <= 0
  OBVIOUS
<1>5. FileInv
  BY <1>1, <1>2, <1>3, <1>4 DEF FileInv
<1>6. RiskIsPaged
  BY <1>1 DEF RiskIsPaged
<1>7. ~(0 - 0 > StallMin)
  BY DEF MonitorAssumption
<1>8. StallIsPaged
  BY <1>1, <1>7 DEF StallIsPaged
<1> QED BY <1>5, <1>6, <1>8

LEMMA FileStep ==
  ASSUME FileInv, RiskIsPaged, StallIsPaged, [Next]_vars, MonitorAssumption
  PROVE  FileInv' /\ RiskIsPaged' /\ StallIsPaged'
<1>1. CASE now' = now + 1 /\ RunThrough
  BY <1>1, ThroughKeeps, ThroughPages
<1>2. CASE now' = now + 1 /\ RunBlind
  <2>1. hist' = hist
    BY <1>2 DEF RunBlind
  <2> QED BY <1>2, <2>1, BlindKeeps DEF RiskIsPaged, StallIsPaged, Held
<1>3. CASE now' = now + 1 /\ RunDies
  <2>1. hist' = hist /\ file' = file
    BY <1>3 DEF RunDies
  <2> QED BY <1>3, <2>1, OtherwiseKept DEF RiskIsPaged, StallIsPaged, Held
<1>4. CASE UNCHANGED <<now, file, said, hist>>
  BY <1>4, OtherwiseKept DEF RiskIsPaged, StallIsPaged, Held
<1> QED BY <1>1, <1>2, <1>3, <1>4, StepKinds

-----------------------------------------------------------------------------
\* What the file of the last run remembers agrees with the past (the alerts
\* and heights that main saves and loads).
THEOREM FileRemembers == Spec => [](FileInv /\ RiskIsPaged /\ StallIsPaged)
<1>1. Init => FileInv /\ RiskIsPaged /\ StallIsPaged
  BY InitFile, MonitorAssumption
<1>2. FileInv /\ RiskIsPaged /\ StallIsPaged /\ [Next]_vars
        => (FileInv /\ RiskIsPaged /\ StallIsPaged)'
  BY FileStep, MonitorAssumption
<1> QED BY <1>1, <1>2, PTL DEF Spec

\* A risk that lasts through its grace is paged, whatever runs fail between
\* (riskOf of admin.js, maybeAlert and main).
THEOREM RisksArePaged == Spec => []RiskIsPaged
<1>1. FileInv /\ RiskIsPaged /\ StallIsPaged => RiskIsPaged
  OBVIOUS
<1> QED BY <1>1, FileRemembers, PTL

\* So is a QBT chain that stands still (main's height baseline).
THEOREM StallsArePaged == Spec => []StallIsPaged
<1>1. FileInv /\ RiskIsPaged /\ StallIsPaged => StallIsPaged
  OBVIOUS
<1> QED BY <1>1, FileRemembers, PTL

\* No run pages a swap before its trouble has outlasted the grace (the
\* resolve pass of main forgets what healed).
THEOREM GraceIsWaited == Spec => NoPageWithinGrace
<1> DEFINE A == \A m \in said' : m.kind = "page" /\ m.key[1] = "risk"
                                => now - hist'.since[Condition(m.key)] >= GraceMin
<1>1. ASSUME FileInv, [Next]_vars
      PROVE  [A]_<<now, said>>
  <2>1. CASE now' = now + 1 /\ RunThrough
    BY <1>1, <2>1, ThroughWaits, MonitorAssumption
  <2>2. CASE now' = now + 1 /\ RunBlind
    <3>1. \A m \in said' : m.key = AdminKey
      <4>1. said' \subseteq {Page(AdminKey)}
        BY <2>2 DEF RunBlind
      <4>2. Page(AdminKey).key = AdminKey
        BY DEF Page
      <4> QED BY <4>1, <4>2
    <3>2. AdminKey[1] = "admin"
      BY Triples DEF AdminKey
    <3> QED BY <3>1, <3>2
  <2>3. CASE now' = now + 1 /\ RunDies
    <3>1. \A m \in said' : m.kind = "clear"
      BY <2>3 DEF RunDies, Reachable, Clear
    <3> QED BY <3>1
  <2>4. CASE UNCHANGED <<now, file, said, hist>>
    BY <2>4
  <2> QED BY <1>1, <2>1, <2>2, <2>3, <2>4, StepKinds
<1>2. FileInv /\ RiskIsPaged /\ StallIsPaged => FileInv
  OBVIOUS
<1> QED BY <1>1, <1>2, FileRemembers, PTL DEF Spec, NoPageWithinGrace
=============================================================================
