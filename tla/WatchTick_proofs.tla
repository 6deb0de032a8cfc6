-------------------------- MODULE WatchTick_proofs --------------------------
(***************************************************************************)
(* The end of a swap, proved for every number of ticks and requests under  *)
(* way at once and every length of the ladders.                            *)
(***************************************************************************)
EXTENDS WatchTick, Integers, TLAPS

-----------------------------------------------------------------------------
\* Inductive invariants.

Asking == {"spent_btc", "spent_qbit", "look_btc", "look_qbit"}
Acting == {"unspent", "rate", "accept", "send", "effects"}

State == {"CLAIMABLE", "MATURING", "FROM_FUNDED", "CLAIMED"} \cup TERMINAL

Record ==
  [state : State, seen : 0..3, spent : [Leg -> BOOLEAN], preimage : BOOLEAN,
   finish : SUBSET Which, wt : [Which -> 0..Tiers], broadcasts : SUBSET Which]

Call ==
  [pc : {"idle", "heights"} \cup Asking \cup Acting, e : 0..8, clock : 0..3, rec : 0..Tiers, tier : 0..Tiers]

Spender == [spend : {0} \cup Which, tier : 0..Tiers, mined : BOOLEAN]

CallType ==
  /\ s \in Record /\ tx \in [Leg -> Spender] /\ task \in [Task -> Call]
  /\ clock \in 0..3 /\ rate \in 1..Tiers /\ left \in [Event -> Nat]
  /\ \A l \in Leg : tx[l] = NoTx \/ (tx[l].spend # 0 /\ LegOf(tx[l].spend) = l)
  /\ \A t \in Task :
       /\ task[t].pc \in Acting => task[t].e # 0
       /\ task[t].pc = "effects" => IsClaim(Of(task[t].e))
       /\ task[t].pc \in Asking => task[t].clock = clock

\* Spend w has left a trace: in the record, at the node, in a call.
Touched(w) ==
  \/ w \in s.broadcasts \/ s.wt[w] # 0 \/ tx[LegOf(w)].spend = w
  \/ \E t \in Task : task[t].pc \in Acting /\ Of(task[t].e) = w

\* What the watchtower has on record, or sends again, has been sent.
SentInv ==
  /\ \A w \in Which : s.wt[w] # 0 => w \in s.broadcasts
  /\ \A t \in Task : task[t].pc \in Acting /\ task[t].e > 4 => Of(task[t].e) \in s.broadcasts

\* Refunds are on their way only when no claim is, nor can be any more.
OrderInv ==
  /\ Touched(3) \/ Touched(4) => clock >= 2 /\ ~s.preimage
  /\ Touched(1) /\ clock >= 2 => s.preimage
  /\ Touched(2) => s.preimage

\* Will the refunds become final in this run?
Reaches == clock + left["block"] >= 2

\* The seller's claim is known for one, or its answer is being worked on.
TellInv ==
  Reaches /\ (1 \in s.broadcasts \/ s.wt[1] # 0 \/ tx["qbit"].spend = 1)
    => s.preimage \/ \E t \in Task : task[t].pc = "effects" /\ Of(task[t].e) = 1

\* The time to reveal is over for the record too, but for an error of a node.
PhaseInv ==
  /\ s.seen <= clock /\ clock <= s.seen + 1
  /\ Reaches /\ s.state = "CLAIMABLE" /\ s.seen >= 1 =>
       left["throw"] = 0 \/ \E t \in Task : task[t].pc \in Asking
  /\ Reaches /\ s.state = "CLAIMABLE" /\ clock >= 2 => left["throw"] = 0

EndInv ==
  /\ s.state = "COMPLETE" => s.preimage
  /\ s.state = "REFUNDED" => s.broadcasts \cap {3, 4} # {}

\* What a run may bring, if refunds can become final in it: no spend that the
\* coordinator is not told of, and one node error.
Steady(clk, events) ==
  \/ clk + events["block"] <= 1
  \/ events["direct"] = 0 /\ events["unanswered"] = 0 /\ events["throw"] <= 1

WatchInv == CallType /\ Steady(clock, left) /\ SentInv /\ OrderInv /\ TellInv /\ PhaseInv /\ EndInv

-----------------------------------------------------------------------------

\* Of what the runs may bring, refunds that can become final come without a
\* spend past the coordinator, without a lost answer, and with one node error.
SteadyScenarios == \A sc \in Scenarios : Steady(0, sc.events)

LEMMA MinIs == ASSUME NEW S \in SUBSET (1..8), S # {} PROVE Min(S) \in S
<1>1. \E x \in S : \A y \in S : x <= y
  <2> DEFINE F(n) == \A y \in S : y >= n
  <2>0. \A y \in S : y \in Nat /\ y >= 1 /\ y <= 8
    OBVIOUS
  <2>1. F(1) /\ \A n \in 1..8 : F(n) /\ n \notin S => F(n + 1)
    <3>1. F(1)
      BY <2>0
    <3>2. ASSUME NEW n \in 1..8, F(n), n \notin S
          PROVE  F(n + 1)
      BY <2>0, <3>2
    <3> HIDE DEF F
    <3> QED BY <3>1, <3>2
  <2>2. ~F(9)
    <3>1. PICK y \in S : TRUE
      OBVIOUS
    <3> QED BY <2>0, <3>1
  <2>3. \E n \in 1..8 : F(n) /\ n \in S
    <3> SUFFICES ASSUME \A n \in 1..8 : F(n) => n \notin S
                 PROVE  FALSE
      OBVIOUS
    <3>1. \A n \in 1..8 : F(n) => F(n + 1)
      BY <2>1
    <3> HIDE DEF F
    <3>2. F(2) /\ F(3) /\ F(4) /\ F(5)
      BY <2>1, <3>1
    <3>3. F(6) /\ F(7) /\ F(8) /\ F(9)
      BY <3>1, <3>2
    <3> QED BY <2>2, <3>3
  <2> QED BY <2>3
<1> QED BY <1>1 DEF Min

LEMMA PairMax == ASSUME NEW a \in 0..Tiers, NEW b \in 0..Tiers, WatchAssumption PROVE Max({a, b}) \in 0..Tiers
<1>1. \E x \in {a, b} : \A y \in {a, b} : x >= y
  BY DEF WatchAssumption
<1> QED BY <1>1 DEF Max

LEMMA Spends ==
  /\ Which = {1, 2, 3, 4} /\ LegOf(1) = "qbit" /\ LegOf(2) = "btc" /\ LegOf(3) = "btc" /\ LegOf(4) = "qbit"
  /\ IsClaim(1) /\ IsClaim(2) /\ ~IsClaim(3) /\ ~IsClaim(4)
  BY DEF Which, LegOf, IsClaim, Spend

LEMMA EntryOf == \A e \in 1..8 : Of(e) \in Which
  BY DEF Of, Which

LEMMA IdleIs == WatchAssumption => Idle \in Call /\ Idle.pc = "idle" /\ Idle.e = 0 /\ Idle.clock = 0 /\ Idle.rec = 0 /\ Idle.tier = 0
  BY DEF Idle, Call, WatchAssumption

Asked(pc, e, h) == [Idle EXCEPT !.pc = pc, !.e = e, !.clock = h]

LEMMA IdleAt ==
  ASSUME WatchAssumption, NEW pc \in Asking \cup Acting \cup {"idle", "heights"}, NEW e \in 0..8, NEW h \in 0..3
  PROVE  LET k == Asked(pc, e, h)
         IN k \in Call /\ k.pc = pc /\ k.e = e /\ k.clock = h
<1> DEFINE a == [Idle EXCEPT !.pc = pc]
           b == [a EXCEPT !.e = e]
           c == [b EXCEPT !.clock = h]
<1>1. a \in Call /\ a.pc = pc
  BY IdleIs DEF Call
<1> HIDE DEF a
<1>2. b \in Call /\ b.pc = pc /\ b.e = e
  BY <1>1 DEF Call
<1> HIDE DEF b
<1>3. c \in Call /\ c.pc = pc /\ c.e = e /\ c.clock = h
  BY <1>2 DEF Call
<1> QED BY <1>3 DEF a, b, Asked

-----------------------------------------------------------------------------
\* Where a call goes on.

\* Call k is over, or goes on after entry `from` with a spend that is due on r.
Fit(r, from, k) ==
  /\ k \in Call /\ k.pc \in {"idle", "unspent", "rate"}
  /\ k.pc # "idle" =>
       /\ k.e \in Entry
       /\ k.e > 4 => r.wt[Of(k.e)] # 0
       /\ LET w == Of(k.e)
          IN \/ r.wt[w] # 0
             \/ w = 1 /\ from = 0 /\ r.state = "CLAIMABLE"
             \/ w = 2 /\ r.preimage
             \/ w \in {3, 4} /\ r.seen >= 2 /\ (~r.preimage \/ from = 3)

LEMMA DueIs ==
  ASSUME NEW r \in Record, NEW e \in Entry, NEW from \in 0..8, e > from, Due(r, e, from)
  PROVE  LET w == Of(e)
         IN /\ e > 4 => r.wt[w] # 0
            /\ \/ r.wt[w] # 0
               \/ w = 1 /\ from = 0 /\ r.state = "CLAIMABLE"
               \/ w = 2 /\ r.preimage
               \/ w \in {3, 4} /\ r.seen >= 2 /\ (~r.preimage \/ from = 3)
<1> DEFINE w == Of(e)
<1>1. CASE e > 4
  BY <1>1 DEF Due, DueAgain
<1>2. CASE e <= 4
  <2>1. w = e /\ DueFirst(r, e, from) /\ e \in {1, 2, 3, 4} /\ r.seen \in 0..3
    BY <1>2 DEF Due, Of, Entry, Record
  <2>2. CASE e = 1
    BY <2>1, <2>2 DEF DueFirst
  <2>3. CASE e = 2
    BY <2>1, <2>3 DEF DueFirst
  <2>4. CASE e \in {3, 4}
    <3>1. (~r.preimage \/ (e = 4 /\ from = 3)) /\ r.seen >= (IF LegOf(e) = "qbit" THEN 2 ELSE 3)
      BY <2>1, <2>4 DEF DueFirst
    <3> QED BY <2>1, <2>4, <3>1
  <2> QED BY <2>1, <2>2, <2>3, <2>4
<1> QED BY <1>1, <1>2 DEF Entry

LEMMA OnwardFits ==
  ASSUME WatchAssumption, NEW r \in Record, NEW from \in 0..8
  PROVE  Fit(r, from, Onward(r, from)) /\ Fit(r, from, Idle)
<1> DEFINE due == {e \in Entry : e > from /\ Due(r, e, from)}
           m == Min(due)
<1>1. Fit(r, from, Idle)
  BY IdleIs DEF Fit
<1>2. CASE due = {}
  BY <1>1, <1>2 DEF Onward
<1>3. CASE due # {}
  <2>1. m \in due
    <3>1. due \in SUBSET (1..8)
      BY DEF Entry
    <3> HIDE DEF due
    <3> QED BY <1>3, <3>1, MinIs
  <2>2. Onward(r, from) = [Idle EXCEPT !.e = m, !.pc = IF m > 4 THEN "unspent" ELSE "rate", !.rec = r.wt[Of(m)]]
    BY <1>3 DEF Onward
  <2>3. m \in Entry /\ m > from /\ Due(r, m, from)
    BY <2>1
  <2> HIDE DEF m, due
  <2>4. r.wt[Of(m)] \in 0..Tiers
    BY <2>3, EntryOf DEF Record, Entry
  <2> DEFINE k == Onward(r, from)
  <2>5. k.e = m /\ k.pc \in {"unspent", "rate"} /\ k \in Call
    <3> DEFINE pc == IF m > 4 THEN "unspent" ELSE "rate"
               rec == r.wt[Of(m)]
    <3>1. k = [pc |-> pc, e |-> m, clock |-> 0, rec |-> rec, tier |-> 0]
      BY <2>2 DEF Idle
    <3>2. pc \in {"unspent", "rate"} /\ rec \in 0..Tiers /\ m \in 0..8 /\ 0 \in 0..3 /\ 0 \in 0..Tiers
      BY <2>3, <2>4 DEF Entry, WatchAssumption
    <3>3. pc \in {"idle", "heights"} \cup Asking \cup Acting
      BY DEF Acting
    <3> HIDE DEF k, pc, rec
    <3>4. k \in Call
      BY <3>1, <3>2, <3>3 DEF Call
    <3> QED BY <3>1, <3>2, <3>4
  <2> HIDE DEF k
  <2>6. Fit(r, from, k)
    BY <2>3, <2>5, DueIs DEF Fit
  <2> QED BY <1>1, <2>6 DEF k
<1> QED BY <1>2, <1>3

\* What poll's end writes: the state only, and CLAIMABLE only in time.
LEMMA SettleIs ==
  ASSUME NEW r \in Record, NEW h \in 0..3
  PROVE  LET n == settle(r, h)
         IN /\ n \in Record /\ n.seen = r.seen /\ n.preimage = r.preimage
            /\ n.wt = r.wt /\ n.broadcasts = r.broadcasts
            /\ n.state = "CLAIMABLE" => h = 0
            /\ n.state = "COMPLETE" => r.preimage \/ r.state = "COMPLETE"
            /\ n.state = "REFUNDED" => r.state = "REFUNDED"
<1> DEFINE st == IF r.spent["qbit"] THEN "FROM_FUNDED" ELSE IF h = 0 THEN "CLAIMABLE" ELSE "MATURING"
           n == IF r.state \in {"CLAIMED"} \cup TERMINAL THEN r ELSE [r EXCEPT !.state = st]
           m == [n EXCEPT !.state = "COMPLETE"]
<1>1. st \in State /\ st \notin TERMINAL /\ (st = "CLAIMABLE" => h = 0)
  BY DEF State, TERMINAL
<1>2. settle(r, h) = n \/ (settle(r, h) = m /\ n.preimage)
  BY DEF settle
<1> HIDE DEF st
<1>3. /\ n \in Record /\ n.seen = r.seen /\ n.preimage = r.preimage /\ n.wt = r.wt /\ n.broadcasts = r.broadcasts
      /\ (n.state = r.state /\ r.state \in {"CLAIMED"} \cup TERMINAL) \/ n.state = st
  BY <1>1 DEF Record
<1> HIDE DEF n
<1>4. /\ m \in Record /\ m.seen = n.seen /\ m.preimage = n.preimage /\ m.wt = n.wt /\ m.broadcasts = n.broadcasts
      /\ m.state = "COMPLETE"
  BY <1>3 DEF Record, State, TERMINAL
<1> HIDE DEF m
<1> QED BY <1>1, <1>2, <1>3, <1>4 DEF TERMINAL

\* After a question of poll: the next one, or the end and the watchtower.
LEMMA PollOnDoes ==
  ASSUME WatchAssumption, CallType, NEW t \in Task, NEW r \in Record, NEW q \in 0..8, NEW h \in 0..3,
         PollOn(t, r, q, h)
  PROVE  \E k \in Call :
           /\ task' = [task EXCEPT ![t] = k] /\ s' \in Record
           /\ s'.seen = r.seen /\ s'.preimage = r.preimage /\ s'.wt = r.wt /\ s'.broadcasts = r.broadcasts
           /\ s'.state = "COMPLETE" => r.preimage \/ r.state = "COMPLETE"
           /\ s'.state = "REFUNDED" => r.state = "REFUNDED"
           /\ \/ k.pc \in Asking /\ k.clock = h /\ s' = r
              \/ Fit(s', 0, k) /\ (s'.state = "CLAIMABLE" => h = 0)
<1> DEFINE todo == {n \in 1..4 : n > q /\ Asks(r, Questions[n])}
           done == settle(r, h)
           m == Min(todo)
<1>1. CASE todo = {}
  <2>1. s' = done /\ task' = [task EXCEPT ![t] = Drive(done)]
    BY <1>1 DEF PollOn
  <2>2. /\ done \in Record /\ done.seen = r.seen /\ done.preimage = r.preimage
        /\ done.wt = r.wt /\ done.broadcasts = r.broadcasts
        /\ done.state = "CLAIMABLE" => h = 0
        /\ done.state = "COMPLETE" => r.preimage \/ r.state = "COMPLETE"
        /\ done.state = "REFUNDED" => r.state = "REFUNDED"
    BY SettleIs
  <2> HIDE DEF done
  <2>3. Fit(done, 0, Drive(done)) /\ Drive(done) \in Call
    BY <2>2, OnwardFits DEF Drive, Fit
  <2> QED BY <2>1, <2>2, <2>3
<1>2. CASE todo # {}
  <2> DEFINE k == [Idle EXCEPT !.pc = Questions[m], !.e = m, !.clock = h]
  <2>1. s' = r /\ task' = [task EXCEPT ![t] = k]
    BY <1>2 DEF PollOn
  <2>2. m \in 1..4
    <3>1. todo \in SUBSET (1..8) /\ todo \subseteq 1..4
      OBVIOUS
    <3> HIDE DEF todo
    <3> QED BY <1>2, <3>1, MinIs
  <2> HIDE DEF m
  <2>3. Questions[m] \in Asking
    <3>1. m = 1 \/ m = 2 \/ m = 3 \/ m = 4
      BY <2>2
    <3> QED BY <3>1 DEF Questions, Asking
  <2>4. k \in Call /\ k.pc \in Asking /\ k.clock = h
    <3> DEFINE pc == Questions[m]
    <3>1. pc \in Asking \cup Acting \cup {"idle", "heights"} /\ pc \in Asking /\ m \in 0..8
      BY <2>2, <2>3
    <3> HIDE DEF pc
    <3>2. LET c == Asked(pc, m, h) IN c \in Call /\ c.pc = pc /\ c.clock = h
      BY <3>1, IdleAt
    <3>3. k = Asked(pc, m, h)
      BY DEF Asked, pc
    <3> HIDE DEF k
    <3> QED BY <3>1, <3>2, <3>3
  <2> HIDE DEF k
  <2> QED BY <2>1, <2>4
<1> QED BY <1>1, <1>2

\* After an entry of the watchtower: the next due, or the end.
LEMMA DriveOnDoes ==
  ASSUME WatchAssumption, NEW t \in Task, NEW r \in Record, NEW e \in 0..8, DriveOn(t, r, e)
  PROVE  s' = r /\ \E k \in Call : task' = [task EXCEPT ![t] = k] /\ Fit(r, e, k)
<1>1. Fit(r, e, Onward(r, e)) /\ Fit(r, e, Idle)
  BY OnwardFits
<1> QED BY <1>1 DEF DriveOn, Fit

-----------------------------------------------------------------------------
\* What a step that takes no block may do.

\* Has spend w left a trace in the record or at the node?
Trace(w) == w \in s.broadcasts \/ s.wt[w] # 0 \/ tx[LegOf(w)].spend = w

At(u, w) == task[u].pc \in Acting /\ Of(task[u].e) = w

Pending(u) == task[u].pc = "effects" /\ Of(task[u].e) = 1

\* When a spend may leave its first trace.
May(w) ==
  \/ w = 1 /\ clock <= 1
  \/ w = 2 /\ s'.preimage
  \/ w \in {3, 4} /\ (Touched(3) \/ Touched(4) \/ (~s'.preimage /\ clock >= 2))

\* A call goes on.
Good(u) ==
  /\ task'[u].pc \in Acting => task'[u].e # 0 /\ (Touched(Of(task'[u].e)) \/ May(Of(task'[u].e)))
  /\ task'[u].pc \in Acting /\ task'[u].e > 4 => Of(task'[u].e) \in s'.broadcasts
  /\ task'[u].pc = "effects" => IsClaim(Of(task'[u].e))
  /\ task'[u].pc \in Asking => task'[u].clock = clock
  /\ Pending(u) => s'.preimage \/ Pending(u)'
  /\ task[u].pc \in Asking =>
       task'[u].pc \in Asking \/ s'.state # "CLAIMABLE" \/ clock = 0 \/ (Reaches => left'["throw"] = 0)

LeftGoes ==
  /\ left' \in [Event -> Nat] /\ left'["block"] = left["block"]
  /\ \A e \in Event : left'[e] <= left[e]

Types ==
  /\ s' \in Record /\ tx' \in [Leg -> Spender] /\ task' \in [Task -> Call]
  /\ clock' = clock /\ rate' \in 1..Tiers
  /\ \A l \in Leg : tx'[l] = NoTx \/ (tx'[l].spend # 0 /\ LegOf(tx'[l].spend) = l)

LEMMA Uses ==
  ASSUME left \in [Event -> Nat], left' = left \/ \E e \in Event \ {"block"} : Use(e)
  PROVE  LeftGoes
<1>1. CASE left' = left
  <2>1. \A e \in Event : left[e] \in Nat
    OBVIOUS
  <2> QED BY <1>1, <2>1 DEF LeftGoes
<1>2. CASE \E e \in Event \ {"block"} : Use(e)
  <2>1. PICK e \in Event \ {"block"} : left[e] > 0 /\ left' = [left EXCEPT ![e] = @ - 1]
    BY <1>2 DEF Use
  <2>2. left' \in [Event -> Nat] /\ \A f \in Event : left'[f] <= left[f] /\ (f # e => left'[f] = left[f])
    BY <2>1
  <2> QED BY <2>1, <2>2 DEF LeftGoes, Event
<1> QED BY <1>1, <1>2

LEMMA Stepping ==
  ASSUME WatchAssumption, WatchInv, Types, LeftGoes,
         \A w \in Which : Trace(w)' => Touched(w) \/ May(w),
         s.preimage => s'.preimage,
         s'.preimage => s.preimage \/ Touched(1) \/ Touched(2),
         s.broadcasts \subseteq s'.broadcasts, \A w \in Which : s'.wt[w] # 0 => w \in s'.broadcasts,
         \A u \in Task : task'[u] = task[u] \/ Good(u),
         Reaches /\ Trace(1)' => Trace(1) \/ s'.preimage \/ \E u \in Task : Pending(u)',
         s'.seen <= clock, clock <= s'.seen + 1,
         s'.state = "CLAIMABLE" => s.state = "CLAIMABLE" \/ clock = 0,
         s'.seen = s.seen \/ s'.state # "CLAIMABLE" \/ clock = 0 \/ \E u \in Task : task'[u].pc \in Asking,
         s'.state = "COMPLETE" => s'.preimage,
         s'.state = "REFUNDED" => s'.broadcasts \cap {3, 4} # {}
  PROVE  WatchInv'
<1>1. CallType /\ Steady(clock, left) /\ SentInv /\ OrderInv /\ TellInv /\ PhaseInv /\ EndInv
  BY DEF WatchInv
<1>2. /\ clock \in 0..3 /\ clock' = clock /\ left \in [Event -> Nat] /\ left' \in [Event -> Nat]
      /\ s' \in Record /\ task' \in [Task -> Call]
  BY <1>1 DEF CallType, Types, LeftGoes
<1>3. Steady(clock, left)'
  <2>1. /\ left'["block"] = left["block"] /\ left'["direct"] <= left["direct"]
        /\ left'["unanswered"] <= left["unanswered"] /\ left'["throw"] <= left["throw"]
        /\ left["direct"] \in Nat /\ left["unanswered"] \in Nat /\ left["throw"] \in Nat
        /\ left'["direct"] \in Nat /\ left'["unanswered"] \in Nat /\ left'["throw"] \in Nat
    BY <1>2 DEF LeftGoes, Event
  <2> QED BY <1>1, <1>2, <2>1 DEF Steady
<1>4. CallType'
  <2>1. \A u \in Task : /\ task'[u].pc \in Acting => task'[u].e # 0
                        /\ task'[u].pc = "effects" => IsClaim(Of(task'[u].e))
                        /\ task'[u].pc \in Asking => task'[u].clock = clock
    BY <1>1 DEF CallType, Good
  <2> QED BY <1>2, <2>1 DEF CallType, Types
<1>5. \A w \in Which : Touched(w)' => Touched(w) \/ May(w)
  <2> SUFFICES ASSUME NEW w \in Which, Touched(w)'
               PROVE  Touched(w) \/ May(w)
    OBVIOUS
  <2>1. CASE Trace(w)'
    BY <2>1
  <2>2. CASE \E u \in Task : At(u, w)'
    <3>1. PICK u \in Task : At(u, w)'
      BY <2>2
    <3>2. CASE task'[u] = task[u]
      BY <3>1, <3>2 DEF At, Touched
    <3>3. CASE Good(u)
      BY <3>1, <3>3 DEF At, Good
    <3> QED BY <3>2, <3>3
  <2> QED BY <2>1, <2>2 DEF Touched, Trace, At
<1>6. OrderInv'
  <2>1. Touched(1) \/ Touched(2) => (~Touched(3) /\ ~Touched(4)) /\ (clock >= 2 => s.preimage)
    BY <1>1 DEF OrderInv
  <2>2. Touched(3)' \/ Touched(4)' => clock >= 2 /\ ~s'.preimage
    <3>1. Touched(3)' \/ Touched(4)' => Touched(3) \/ Touched(4) \/ (~s'.preimage /\ clock >= 2)
      BY <1>5 DEF May, Which
    <3> QED BY <1>1, <2>1, <3>1 DEF OrderInv
  <2>3. Touched(1)' /\ clock >= 2 => s'.preimage
    BY <1>1, <1>2, <1>5 DEF May, Which, OrderInv
  <2>4. Touched(2)' => s'.preimage
    BY <1>1, <1>5 DEF May, Which, OrderInv
  <2> QED BY <1>2, <2>2, <2>3, <2>4 DEF OrderInv
<1>7. Reaches' = Reaches
  BY <1>2 DEF Reaches, LeftGoes
<1>8. TellInv'
  <2> SUFFICES ASSUME Reaches, Trace(1)', ~s'.preimage
               PROVE  \E u \in Task : Pending(u)'
    BY <1>7, Spends DEF TellInv, Trace, Pending
  <2>1. CASE Trace(1)
    <3>1. PICK u \in Task : Pending(u)
      BY <1>1, <2>1, Spends DEF TellInv, Trace, Pending
    <3> QED BY <3>1 DEF Good, Pending
  <2> QED BY <2>1
<1>9. PhaseInv'
  <2>1. left'["throw"] <= left["throw"] /\ left["throw"] \in Nat /\ left'["throw"] \in Nat
    BY <1>2 DEF LeftGoes, Event
  <2>2. s'.seen \in 0..3
    BY <1>2 DEF Record
  <2>3. ASSUME Reaches, s'.state = "CLAIMABLE", clock >= 2
        PROVE  left'["throw"] = 0
    BY <1>1, <1>2, <2>1, <2>3 DEF PhaseInv
  <2>4. ASSUME Reaches, s'.state = "CLAIMABLE", s'.seen >= 1
        PROVE  left'["throw"] = 0 \/ \E u \in Task : task'[u].pc \in Asking
    <3>1. clock # 0 /\ s.state = "CLAIMABLE"
      BY <1>2, <2>2, <2>4
    <3>2. CASE s'.seen = s.seen
      <4>1. left["throw"] = 0 \/ \E u \in Task : task[u].pc \in Asking
        BY <1>1, <2>4, <3>1, <3>2 DEF PhaseInv
      <4> QED BY <2>1, <2>4, <3>1, <4>1 DEF Good
    <3> QED BY <2>4, <3>1, <3>2
  <2> QED BY <1>2, <1>7, <2>3, <2>4 DEF PhaseInv
<1>11. SentInv'
  <2>1. ASSUME NEW u \in Task, task'[u].pc \in Acting, task'[u].e > 4
        PROVE  Of(task'[u].e) \in s'.broadcasts
    <3>1. CASE task'[u] = task[u]
      BY <1>1, <2>1, <3>1 DEF SentInv
    <3> QED BY <2>1, <3>1 DEF Good
  <2> QED BY <2>1 DEF SentInv
<1>10. EndInv'
  BY DEF EndInv
<1> QED BY <1>3, <1>4, <1>6, <1>8, <1>9, <1>10, <1>11 DEF WatchInv

\* One call goes on.
LEMMA OneCall ==
  ASSUME CallType, NEW t \in Task, NEW k \in Call, task' = [task EXCEPT ![t] = k]
  PROVE  /\ task' \in [Task -> Call] /\ task'[t] = k /\ task[t] \in Call
         /\ \A u \in Task \ {t} : task'[u] = task[u]
  BY DEF CallType

LEMMA TraceTouches == \A w \in Which : Trace(w) => Touched(w)
  BY DEF Trace, Touched

\* A step of poll, which finds what is there.
LEMMA PollStep ==
  ASSUME WatchAssumption, WatchInv, NEW t \in Task, task[t].pc \in Asking \cup {"heights"},
         NEW r \in Record, NEW q \in 0..8, PollOn(t, r, q, clock), UNCHANGED <<tx, clock, rate, left>>,
         r.wt = s.wt, r.state = s.state, r.seen = s.seen \/ r.seen = clock,
         s.preimage => r.preimage, r.preimage => s.preimage \/ Touched(1) \/ Touched(2),
         s.broadcasts \subseteq r.broadcasts, \A w \in r.broadcasts : Touched(w),
         1 \in r.broadcasts => 1 \in s.broadcasts \/ r.preimage
  PROVE  WatchInv'
<1>1. CallType /\ Steady(clock, left) /\ SentInv /\ OrderInv /\ TellInv /\ PhaseInv /\ EndInv
  BY DEF WatchInv
<1>2. clock \in 0..3 /\ rate \in 1..Tiers /\ left \in [Event -> Nat] /\ s \in Record
  BY <1>1 DEF CallType
<1>3. PICK k \in Call :
        /\ task' = [task EXCEPT ![t] = k] /\ s' \in Record
        /\ s'.seen = r.seen /\ s'.preimage = r.preimage /\ s'.wt = r.wt /\ s'.broadcasts = r.broadcasts
        /\ s'.state = "COMPLETE" => r.preimage \/ r.state = "COMPLETE"
        /\ s'.state = "REFUNDED" => r.state = "REFUNDED"
        /\ \/ k.pc \in Asking /\ k.clock = clock /\ s' = r
           \/ Fit(s', 0, k) /\ (s'.state = "CLAIMABLE" => clock = 0)
  BY <1>1, <1>2, PollOnDoes
<1>4. /\ task' \in [Task -> Call] /\ task'[t] = k
      /\ \A u \in Task \ {t} : task'[u] = task[u]
  BY <1>1, <1>3, OneCall
<1>5. Types
  BY <1>1, <1>2, <1>3, <1>4 DEF Types, CallType
<1>6. LeftGoes
  BY <1>2, Uses
<1>7. \A w \in Which : Trace(w)' => Touched(w)
  BY <1>3, TraceTouches DEF Trace
<1>8. s'.seen <= clock /\ clock <= s'.seen + 1 /\ s'.seen \in 0..3
  BY <1>1, <1>2, <1>3 DEF PhaseInv, Record
<1>12. s.broadcasts \subseteq s'.broadcasts /\ \A w \in Which : s'.wt[w] # 0 => w \in s'.broadcasts
  BY <1>1, <1>3 DEF SentInv
<1>9. Good(t)
  <2>1. task[t].pc # "effects"
    BY DEF Asking
  <2>2. CASE k.pc \in Asking /\ k.clock = clock
    BY <1>4, <2>1, <2>2 DEF Good, Pending, Asking, Acting
  <2>3. CASE Fit(s', 0, k) /\ (s'.state = "CLAIMABLE" => clock = 0)
    <3>1. k.pc \in {"idle", "unspent", "rate"}
      BY <2>3 DEF Fit
    <3>2. ASSUME k.pc # "idle"
          PROVE  k.e # 0 /\ (Touched(Of(k.e)) \/ May(Of(k.e))) /\ (k.e > 4 => Of(k.e) \in s'.broadcasts)
      <4> DEFINE w == Of(k.e)
      <4>1. k.e \in 1..8 /\ w \in Which
        BY <2>3, <3>2, EntryOf DEF Fit, Entry
      <4>2. \/ s'.wt[w] # 0
            \/ w = 1 /\ s'.state = "CLAIMABLE"
            \/ w = 2 /\ s'.preimage
            \/ w \in {3, 4} /\ s'.seen >= 2 /\ ~s'.preimage
        BY <2>3, <3>2 DEF Fit
      <4>7. k.e > 4 => w \in s'.broadcasts
        BY <1>12, <2>3, <3>2, <4>1 DEF Fit
      <4> HIDE DEF w
      <4>3. CASE s'.wt[w] # 0
        BY <1>7, <4>1, <4>3, <4>7 DEF Trace, w
      <4>4. CASE w = 1 /\ s'.state = "CLAIMABLE"
        BY <2>3, <4>1, <4>4, <4>7 DEF May, w
      <4>5. CASE w = 2 /\ s'.preimage
        BY <4>1, <4>5, <4>7 DEF May, w
      <4>6. CASE w \in {3, 4} /\ s'.seen >= 2 /\ ~s'.preimage
        BY <1>2, <1>8, <4>1, <4>6, <4>7 DEF May, w
      <4> QED BY <4>2, <4>3, <4>4, <4>5, <4>6
    <3> QED BY <1>4, <2>1, <2>3, <3>1, <3>2 DEF Good, Pending, Asking, Acting
  <2> QED BY <1>3, <2>2, <2>3
<1>10. \A u \in Task : task'[u] = task[u] \/ Good(u)
  BY <1>4, <1>9
<1>11. Reaches /\ Trace(1)' => Trace(1) \/ s'.preimage \/ \E u \in Task : Pending(u)'
  BY <1>3, Spends DEF Trace
<1> QED BY <1>1, <1>3, <1>4, <1>5, <1>6, <1>7, <1>8, <1>10, <1>11, <1>12, Stepping DEF EndInv

\* A step of the watchtower, or of a request: the call goes on with the entry
\* it is at, is over, or goes on to the next entry.
LEMMA ActStep ==
  ASSUME WatchAssumption, WatchInv, NEW t \in Task, task[t].pc \in Acting,
         NEW k \in Call, task' = [task EXCEPT ![t] = k],
         \/ Fit(s', task[t].e, k)
         \/ k.pc \in Acting /\ k.e = task[t].e /\ (k.pc = "effects" => IsClaim(Of(k.e))),
         s' \in Record, s'.seen = s.seen, tx' \in [Leg -> Spender],
         \A l \in Leg : tx'[l] = NoTx \/ (tx'[l].spend # 0 /\ LegOf(tx'[l].spend) = l),
         clock' = clock, rate' = rate, LeftGoes,
         \A w \in Which : Trace(w)' => Touched(w),
         s.preimage => s'.preimage, s'.preimage => s.preimage \/ Touched(1) \/ Touched(2),
         s.broadcasts \subseteq s'.broadcasts, \A w \in Which : s'.wt[w] # 0 => w \in s'.broadcasts,
         Pending(t) => s'.preimage,
         Reaches /\ Trace(1)' => Trace(1) \/ s'.preimage \/ (k.pc = "effects" /\ Of(k.e) = 1),
         s'.state = "CLAIMABLE" => s.state = "CLAIMABLE",
         s'.state = "COMPLETE" => s'.preimage,
         s'.state = "REFUNDED" => s'.broadcasts \cap {3, 4} # {}
  PROVE  WatchInv'
<1>1. CallType /\ Steady(clock, left) /\ SentInv /\ OrderInv /\ TellInv /\ PhaseInv /\ EndInv
  BY DEF WatchInv
<1>2. clock \in 0..3 /\ rate \in 1..Tiers /\ s \in Record
  BY <1>1 DEF CallType
<1>3. /\ task' \in [Task -> Call] /\ task'[t] = k /\ task[t] \in Call
      /\ \A u \in Task \ {t} : task'[u] = task[u]
  BY <1>1, OneCall
<1>4. Types
  BY <1>2, <1>3 DEF Types
<1>5. task[t].e \in 1..8 /\ At(t, Of(task[t].e)) /\ Touched(Of(task[t].e))
  <2>1. task[t].e \in 0..8 /\ task[t].e # 0
    BY <1>1, <1>3 DEF CallType, Call
  <2> QED BY <2>1 DEF At, Touched
<1>6. s.seen <= clock /\ clock <= s.seen + 1 /\ s.seen \in 0..3
  BY <1>1, <1>2 DEF PhaseInv, Record
<1>7. Good(t)
  <2>1. task[t].pc \notin Asking
    BY DEF Asking, Acting
  <2>2. CASE k.pc \in Acting /\ k.e = task[t].e /\ (k.pc = "effects" => IsClaim(Of(k.e)))
    <3>1. k.pc \notin Asking /\ k.e # 0
      BY <1>5, <2>2 DEF Asking, Acting
    <3>2. k.e > 4 => Of(k.e) \in s'.broadcasts
      BY <1>1, <2>2 DEF SentInv
    <3> QED BY <1>3, <1>5, <2>1, <2>2, <3>1, <3>2 DEF Good
  <2>3. CASE Fit(s', task[t].e, k)
    <3>1. k.pc \in {"idle", "unspent", "rate"}
      BY <2>3 DEF Fit
    <3>2. ASSUME k.pc # "idle"
          PROVE  k.e # 0 /\ (Touched(Of(k.e)) \/ May(Of(k.e))) /\ (k.e > 4 => Of(k.e) \in s'.broadcasts)
      <4> DEFINE w == Of(k.e)
      <4>1. k.e \in 1..8 /\ w \in Which
        BY <2>3, <3>2, EntryOf DEF Fit, Entry
      <4>2. \/ s'.wt[w] # 0
            \/ w = 2 /\ s'.preimage
            \/ w \in {3, 4} /\ s'.seen >= 2 /\ (~s'.preimage \/ task[t].e = 3)
        BY <1>5, <2>3, <3>2 DEF Fit
      <4>7. k.e > 4 => w \in s'.broadcasts
        BY <2>3, <3>2, <4>1 DEF Fit
      <4> HIDE DEF w
      <4>3. CASE s'.wt[w] # 0
        BY <4>1, <4>3, <4>7 DEF Trace, w
      <4>4. CASE w = 2 /\ s'.preimage
        BY <4>1, <4>4, <4>7 DEF May, w
      <4>5. CASE w \in {3, 4} /\ s'.seen >= 2 /\ ~s'.preimage
        BY <1>2, <1>6, <4>1, <4>5, <4>7 DEF May, w
      <4>6. CASE w \in {3, 4} /\ task[t].e = 3
        <5>1. Of(3) = 3
          BY DEF Of
        <5> QED BY <1>5, <4>1, <4>6, <4>7, <5>1 DEF May, w
      <4> QED BY <4>2, <4>3, <4>4, <4>5, <4>6
    <3> QED BY <1>3, <2>1, <3>1, <3>2 DEF Good, Asking, Acting
  <2> QED BY <2>2, <2>3
<1>8. \A u \in Task : task'[u] = task[u] \/ Good(u)
  BY <1>3, <1>7
<1>9. Reaches /\ Trace(1)' => Trace(1) \/ s'.preimage \/ \E u \in Task : Pending(u)'
  BY <1>3 DEF Pending
<1> QED BY <1>4, <1>6, <1>8, <1>9, Stepping

-----------------------------------------------------------------------------
\* The steps of a call.

LEMMA ActingIs ==
  ASSUME WatchInv, NEW t \in Task, task[t].pc \in Acting
  PROVE  /\ task[t] \in Call /\ task[t].e \in 1..8 /\ Of(task[t].e) \in Which
         /\ Touched(Of(task[t].e))
<1>1. task[t] \in Call /\ task[t].e # 0
  BY DEF WatchInv, CallType
<1>2. task[t].e \in 1..8
  BY <1>1 DEF Call
<1> QED BY <1>1, <1>2, EntryOf DEF Touched

\* A call that asks on, with what it is at.
LEMMA CallAt ==
  ASSUME NEW c \in Call, NEW pc \in Acting, NEW tier \in 0..Tiers
  PROVE  LET a == [c EXCEPT !.pc = pc]
             b == [c EXCEPT !.pc = pc, !.tier = tier]
         IN /\ a \in Call /\ a.pc = pc /\ a.e = c.e
            /\ b \in Call /\ b.pc = pc /\ b.e = c.e
<1> DEFINE a == [c EXCEPT !.pc = pc]
           b == [a EXCEPT !.tier = tier]
<1>1. a \in Call /\ a.pc = pc /\ a.e = c.e
  BY DEF Call
<1> HIDE DEF a
<1>2. b \in Call /\ b.pc = pc /\ b.e = c.e
  BY <1>1 DEF Call
<1> QED BY <1>1, <1>2 DEF a

LEMMA StartTickKeeps == ASSUME WatchAssumption, WatchInv, NEW t \in Tick, StartTick(t) PROVE WatchInv'
<1>1. CallType /\ SentInv /\ PhaseInv /\ EndInv /\ t \in Task
  BY DEF WatchInv, Task
<1>2. PICK k \in Call : task' = [task EXCEPT ![t] = k] /\ k.pc = "heights" /\ task[t].pc = "idle"
  <2> DEFINE k == [Idle EXCEPT !.pc = "heights"]
  <2>1. k \in Call /\ k.pc = "heights"
    BY IdleIs DEF Call
  <2> QED BY <2>1 DEF StartTick, Waits
<1>3. UNCHANGED <<s, tx, clock, rate, left>>
  BY DEF StartTick
<1>4. /\ task' \in [Task -> Call] /\ task'[t] = k
      /\ \A u \in Task \ {t} : task'[u] = task[u]
  BY <1>1, <1>2, OneCall
<1>5. Types /\ LeftGoes /\ s.seen <= clock /\ clock <= s.seen + 1
  BY <1>1, <1>3, <1>4, Uses DEF Types, CallType, PhaseInv
<1>6. Good(t)
  BY <1>2, <1>4 DEF Good, Pending, Asking, Acting
<1>7. \A w \in Which : Trace(w)' => Trace(w)
  BY <1>3 DEF Trace
<1>9. s.broadcasts \subseteq s'.broadcasts /\ \A w \in Which : s'.wt[w] # 0 => w \in s'.broadcasts
  BY <1>1, <1>3 DEF SentInv
<1>8. 1 \in Which
  BY Spends
<1> QED BY <1>1, <1>3, <1>4, <1>5, <1>6, <1>7, <1>8, <1>9, TraceTouches, Stepping DEF EndInv

\* What is at a node as the spender of a deposit has been touched.
LEMMA SpenderIs ==
  ASSUME WatchInv, NEW l \in Leg, tx[l] # NoTx
  PROVE  tx[l].spend \in Which /\ LegOf(tx[l].spend) = l /\ Touched(tx[l].spend)
<1>1. tx[l] \in Spender /\ tx[l].spend # 0 /\ LegOf(tx[l].spend) = l
  BY DEF WatchInv, CallType
<1>2. tx[l].spend \in Which
  BY <1>1 DEF Spender
<1> QED BY <1>1, <1>2 DEF Touched

LEMMA PollKeeps ==
  ASSUME WatchAssumption, WatchInv, NEW t \in Tick,
         Heights(t) \/ ReadSpent(t) \/ \E found \in BOOLEAN : ReadSpender(t, found)
  PROVE  WatchInv'
<1>1. CallType /\ s \in Record /\ clock \in 0..3 /\ t \in Task /\ task[t] \in Call
  BY DEF WatchInv, CallType, Task
<1>2. \A w \in s.broadcasts : Touched(w)
  BY DEF Touched
<1>3. task[t].pc \in Asking => task[t].clock = clock
  BY <1>1 DEF CallType
<1>4. task[t].e \in 0..8
  BY <1>1 DEF Call
<1>5. CASE Heights(t)
  <2> DEFINE r == [s EXCEPT !.seen = clock]
  <2>1. PollOn(t, r, 0, clock) /\ UNCHANGED <<tx, clock, rate, left>> /\ task[t].pc \in Asking \cup {"heights"}
    BY <1>5 DEF Heights, Waits
  <2>2. r \in Record /\ r.wt = s.wt /\ r.state = s.state /\ r.seen = clock /\ r.preimage = s.preimage
        /\ r.broadcasts = s.broadcasts
    BY <1>1 DEF Record
  <2> HIDE DEF r
  <2> QED BY <1>1, <1>2, <2>1, <2>2, PollStep
<1>6. CASE ReadSpent(t)
  <2> DEFINE l == LegAsked(task[t].pc)
             b == s.spent[l] \/ ~isUnspent(l)
             sp == [s.spent EXCEPT ![l] = b]
             r == [s EXCEPT !.spent = sp]
  <2>1. PollOn(t, r, task[t].e, clock) /\ UNCHANGED <<tx, clock, rate, left>> /\ task[t].pc \in Asking
    <3>1. task[t].pc \in Asking
      BY <1>6 DEF ReadSpent, Waits, Asking
    <3>2. [s EXCEPT !.spent[l] = @ \/ ~isUnspent(l)] = r
      OBVIOUS
    <3> QED BY <1>3, <1>6, <3>1, <3>2 DEF ReadSpent
  <2>2. b \in BOOLEAN
    BY <1>1 DEF Record, LegAsked, Leg, isUnspent
  <2> HIDE DEF b
  <2>3. sp \in [Leg -> BOOLEAN]
    BY <1>1, <2>2 DEF Record
  <2> HIDE DEF sp
  <2>4. r \in Record /\ r.wt = s.wt /\ r.state = s.state /\ r.seen = s.seen /\ r.preimage = s.preimage
        /\ r.broadcasts = s.broadcasts
    BY <1>1, <2>3 DEF Record
  <2> HIDE DEF r
  <2> QED BY <1>1, <1>2, <1>4, <2>1, <2>4, PollStep
<1>7. CASE \E found \in BOOLEAN : ReadSpender(t, found)
  <2>1. PICK found \in BOOLEAN : ReadSpender(t, found)
    BY <1>7
  <2> DEFINE l == LegAsked(task[t].pc)
             b == s.preimage \/ IsClaim(tx[l].spend)
             br == s.broadcasts \cup {tx[l].spend}
             p == [s EXCEPT !.preimage = b]
             r == [p EXCEPT !.broadcasts = br]
  <2>2. task[t].pc \in Asking /\ task[t].clock = clock /\ UNCHANGED <<tx, clock, rate, left>> /\ l \in Leg
    BY <1>3, <2>1 DEF ReadSpender, Waits, Asking, LegAsked, Leg
  <2>3. CASE ~found
    <3>1. PollOn(t, s, task[t].e, clock)
      BY <2>1, <2>2, <2>3 DEF ReadSpender
    <3> QED BY <1>1, <1>2, <1>4, <2>2, <3>1, PollStep
  <2>4. CASE found
    <3>1. tx[l] # NoTx /\ PollOn(t, r, task[t].e, clock)
      <4>1. [s EXCEPT !.preimage = @ \/ IsClaim(tx[l].spend), !.broadcasts = @ \cup {tx[l].spend}] = r
        OBVIOUS
      <4> QED BY <2>1, <2>2, <2>4, <4>1 DEF ReadSpender
    <3>2. tx[l].spend \in Which /\ Touched(tx[l].spend)
      BY <2>2, <3>1, SpenderIs
    <3>3. b \in BOOLEAN /\ (b => s.preimage \/ Touched(1) \/ Touched(2)) /\ (s.preimage => b)
      BY <1>1, <3>2, Spends DEF Record, IsClaim
    <3>4. /\ br \in SUBSET Which /\ s.broadcasts \subseteq br /\ \A w \in br : Touched(w)
          /\ 1 \in br => 1 \in s.broadcasts \/ b
      BY <1>1, <1>2, <3>2, Spends DEF Record
    <3> HIDE DEF b, br
    <3>5. p \in Record /\ p.wt = s.wt /\ p.state = s.state /\ p.seen = s.seen /\ p.preimage = b
      BY <1>1, <3>3 DEF Record
    <3> HIDE DEF p
    <3>6. /\ r \in Record /\ r.wt = s.wt /\ r.state = s.state /\ r.seen = s.seen /\ r.preimage = b
          /\ r.broadcasts = br
      BY <3>4, <3>5 DEF Record
    <3> HIDE DEF r
    <3> QED BY <1>1, <1>4, <2>2, <3>1, <3>3, <3>4, <3>6, PollStep
  <2> QED BY <2>3, <2>4
<1> QED BY <1>5, <1>6, <1>7

\* A step in which the record and the node stay as they are.
LEMMA QuietStep ==
  ASSUME WatchAssumption, WatchInv, NEW t \in Task, task[t].pc \in Acting, ~Pending(t),
         NEW k \in Call, task' = [task EXCEPT ![t] = k], UNCHANGED <<s, tx, clock, rate>>, LeftGoes,
         \/ Fit(s, task[t].e, k)
         \/ k.pc \in Acting \ {"effects"} /\ k.e = task[t].e
  PROVE  WatchInv'
<1>1. CallType /\ SentInv /\ EndInv
  BY DEF WatchInv
<1>2. s \in Record /\ tx \in [Leg -> Spender] /\ \A l \in Leg : tx[l] = NoTx \/ (tx[l].spend # 0 /\ LegOf(tx[l].spend) = l)
  BY <1>1 DEF CallType
<1>3. \A w \in Which : Trace(w)' => Trace(w) /\ Touched(w)
  BY DEF Trace, Touched
<1>4. 1 \in Which
  BY Spends
<1> QED BY <1>1, <1>2, <1>3, <1>4, ActStep DEF EndInv, SentInv

LEMMA ReadUnspentKeeps == ASSUME WatchAssumption, WatchInv, NEW t \in Tick, ReadUnspent(t) PROVE WatchInv'
<1>1. /\ t \in Task /\ task[t].pc = "unspent" /\ task[t].pc \in Acting /\ ~Pending(t)
      /\ UNCHANGED <<tx, clock, rate, left>>
  BY DEF ReadUnspent, Waits, Task, Acting, Pending
<1>2. task[t] \in Call /\ task[t].e \in 1..8 /\ task[t].e \in 0..8 /\ s \in Record /\ LeftGoes
  BY <1>1, ActingIs, Uses DEF WatchInv, CallType
<1>3. CASE s' = s /\ task' = [task EXCEPT ![t].pc = "rate"]
  <2> DEFINE k == [task[t] EXCEPT !.pc = "rate"]
  <2>1. task' = [task EXCEPT ![t] = k]
    BY <1>3
  <2>2. k \in Call /\ k.pc = "rate" /\ k.e = task[t].e
    BY <1>2 DEF Call, Acting
  <2>3. k.pc \in Acting \ {"effects"}
    BY <2>2 DEF Acting
  <2> HIDE DEF k
  <2> QED BY <1>1, <1>2, <1>3, <2>1, <2>2, <2>3, QuietStep
<1>4. CASE DriveOn(t, s, task[t].e)
  <2>1. s' = s /\ \E k \in Call : task' = [task EXCEPT ![t] = k] /\ Fit(s, task[t].e, k)
    BY <1>1, <1>2, <1>4, DriveOnDoes
  <2> QED BY <1>1, <1>2, <2>1, QuietStep
<1> QED BY <1>3, <1>4 DEF ReadUnspent
\* The watchtower's record of one spend is written.
Recorded(r, w, n) == [r EXCEPT !.wt[w] = n]

LEMMA RecordedIs ==
  ASSUME NEW r \in Record, NEW w \in Which, NEW n \in 0..Tiers
  PROVE  LET x == Recorded(r, w, n)
         IN /\ x \in Record /\ x.seen = r.seen /\ x.state = r.state /\ x.preimage = r.preimage
            /\ x.broadcasts = r.broadcasts /\ x.wt[w] = n
            /\ \A v \in Which : v # w => x.wt[v] = r.wt[v]
<1> DEFINE wt == [r.wt EXCEPT ![w] = n]
           x == [r EXCEPT !.wt = wt]
<1>1. wt \in [Which -> 0..Tiers] /\ wt[w] = n /\ \A v \in Which : v # w => wt[v] = r.wt[v]
  BY DEF Record
<1>2. Recorded(r, w, n) = x
  BY DEF Recorded
<1> HIDE DEF wt
<1>3. /\ x \in Record /\ x.seen = r.seen /\ x.state = r.state /\ x.preimage = r.preimage
      /\ x.broadcasts = r.broadcasts /\ x.wt = wt
  BY <1>1 DEF Record
<1> QED BY <1>1, <1>2, <1>3

LEMMA PickRateKeeps == ASSUME WatchAssumption, WatchInv, NEW t \in Tick, PickRate(t) PROVE WatchInv'
<1> DEFINE w == Of(task[t].e)
           n == Max({pickTier(LegOf(w)), task[t].rec})
           k == [task[t] EXCEPT !.pc = "accept", !.tier = n]
<1>1. /\ t \in Task /\ task[t].pc = "rate" /\ task[t].pc \in Acting /\ ~Pending(t)
      /\ UNCHANGED <<tx, clock, rate, left>>
  BY DEF PickRate, Waits, Task, Acting, Pending
<1>2. task[t] \in Call /\ task[t].e \in 1..8 /\ w \in Which /\ Touched(w)
  BY <1>1, ActingIs
<1>3. s \in Record /\ rate \in 1..Tiers /\ LeftGoes /\ EndInv /\ SentInv /\ task \in [Task -> Call]
  BY <1>1, Uses DEF WatchInv, CallType
<1>4. n \in 0..Tiers
  <2>1. pickTier(LegOf(w)) \in 0..Tiers /\ task[t].rec \in 0..Tiers
    BY <1>2, <1>3 DEF pickTier, Call, WatchAssumption
  <2> QED BY <2>1, PairMax
<1>5. task' = [task EXCEPT ![t] = k]
  BY <1>1, <1>3 DEF PickRate
<1>6. k \in Call /\ k.pc = "accept" /\ k.e = task[t].e
  <2> HIDE DEF n
  <2> DEFINE a == [task[t] EXCEPT !.pc = "accept"]
             b == [a EXCEPT !.tier = n]
  <2>1. a \in Call /\ a.pc = "accept" /\ a.e = task[t].e
    BY <1>2 DEF Call, Acting
  <2>2. k = b
    OBVIOUS
  <2> HIDE DEF a, k
  <2> QED BY <1>4, <2>1, <2>2 DEF Call
<1>7. s' = s \/ s' = Recorded(s, w, 0)
  BY DEF PickRate, Recorded
<1>8. k.pc \in Acting /\ k.pc # "effects"
  BY <1>6 DEF Acting
<1> HIDE DEF n, k, w
<1>9. /\ s' \in Record /\ s'.seen = s.seen /\ s'.state = s.state /\ s'.preimage = s.preimage
      /\ s'.broadcasts = s.broadcasts /\ \A v \in Which : s'.wt[v] # 0 => s.wt[v] # 0
  <2>1. 0 \in 0..Tiers
    BY DEF WatchAssumption
  <2> QED BY <1>2, <1>3, <1>7, <2>1, RecordedIs
<1>10. \A v \in Which : Trace(v)' => Trace(v) /\ Touched(v)
  BY <1>1, <1>9 DEF Trace, Touched
<1>12. \A v \in Which : s'.wt[v] # 0 => v \in s'.broadcasts
  BY <1>3, <1>9 DEF SentInv
<1>11. tx \in [Leg -> Spender] /\ \A l \in Leg : tx[l] = NoTx \/ (tx[l].spend # 0 /\ LegOf(tx[l].spend) = l)
  BY DEF WatchInv, CallType
<1> QED BY <1>1, <1>2, <1>3, <1>5, <1>6, <1>8, <1>9, <1>10, <1>11, <1>12, Spends, ActStep DEF EndInv

LEMMA AcceptKeeps == ASSUME WatchAssumption, WatchInv, NEW t \in Task, Accept(t) PROVE WatchInv'
<1> DEFINE w == Of(task[t].e)
           n == task[t].rec
           r == IF task[t].e > 4 THEN Recorded(s, w, n) ELSE s
<1>1. /\ task[t].pc = "accept" /\ task[t].pc \in Acting /\ ~Pending(t)
      /\ UNCHANGED <<tx, clock, rate, left>>
  BY DEF Accept, Waits, Acting, Pending
<1>2. task[t] \in Call /\ task[t].e \in 1..8 /\ task[t].e \in 0..8 /\ w \in Which /\ Touched(w) /\ n \in 0..Tiers
  BY <1>1, ActingIs DEF Call
<1>3. s \in Record /\ LeftGoes /\ EndInv /\ SentInv
  BY <1>1, Uses DEF WatchInv, CallType
<1>4. CASE s' = s /\ task' = [task EXCEPT ![t].pc = "send"]
  <2> DEFINE k == [task[t] EXCEPT !.pc = "send"]
  <2>1. task' = [task EXCEPT ![t] = k]
    BY <1>4
  <2>2. k \in Call /\ k.pc = "send" /\ k.e = task[t].e
    BY <1>2 DEF Call, Acting
  <2>3. k.pc \in Acting \ {"effects"}
    BY <2>2 DEF Acting
  <2> HIDE DEF k
  <2> QED BY <1>1, <1>2, <1>3, <1>4, <2>1, <2>2, <2>3, QuietStep
<1>5. CASE DriveOn(t, r, task[t].e)
  <2>1. /\ r \in Record /\ r.seen = s.seen /\ r.state = s.state /\ r.preimage = s.preimage
        /\ r.broadcasts = s.broadcasts /\ \A v \in Which : r.wt[v] # 0 => s.wt[v] # 0 \/ (v = w /\ task[t].e > 4)
    <3> HIDE DEF w, n
    <3>1. CASE task[t].e > 4
      BY <1>2, <1>3, <3>1, RecordedIs
    <3>2. CASE ~(task[t].e > 4)
      BY <1>3, <3>2
    <3> QED BY <3>1, <3>2
  <2> HIDE DEF r
  <2>2. PICK k \in Call : s' = r /\ task' = [task EXCEPT ![t] = k] /\ Fit(r, task[t].e, k)
    BY <1>2, <1>5, <2>1, DriveOnDoes
  <2>3. \A v \in Which : Trace(v)' => Trace(v) \/ v = w
    BY <1>1, <2>1, <2>2 DEF Trace
  <2>4. \A v \in Which : Trace(v)' => Touched(v)
    BY <1>2, <2>3, TraceTouches
  <2>6. \A v \in Which : r.wt[v] # 0 => v \in s.broadcasts
    <3> HIDE DEF w, n
    <3> QED BY <1>1, <1>2, <1>3, <2>1 DEF SentInv, w
  <2>7. Trace(1)' => Trace(1)
    BY <1>1, <2>1, <2>2, <2>6, Spends DEF Trace
  <2>5. tx \in [Leg -> Spender] /\ \A l \in Leg : tx[l] = NoTx \/ (tx[l].spend # 0 /\ LegOf(tx[l].spend) = l)
    BY DEF WatchInv, CallType
  <2> QED BY <1>1, <1>2, <1>3, <2>1, <2>2, <2>3, <2>4, <2>5, <2>6, <2>7, ActStep DEF EndInv
<1> QED BY <1>4, <1>5 DEF Accept, Recorded

\* The node has spend w as the spender of its deposit.
LEMMA SentIs ==
  ASSUME WatchInv, NEW w \in Which, NEW n \in 0..Tiers, tx' = Sent(w, n)
  PROVE  /\ tx' \in [Leg -> Spender]
         /\ \A l \in Leg : tx'[l] = NoTx \/ (tx'[l].spend # 0 /\ LegOf(tx'[l].spend) = l)
         /\ \A v \in Which : tx'[LegOf(v)].spend = v => v = w \/ tx[LegOf(v)].spend = v
<1> DEFINE x == [spend |-> w, tier |-> n, mined |-> FALSE]
<1>1. x \in Spender /\ x.spend = w /\ w # 0
  BY DEF Spender, Which
<1>2. /\ tx \in [Leg -> Spender] /\ tx' = [tx EXCEPT ![LegOf(w)] = x]
      /\ \A l \in Leg : tx[l] = NoTx \/ (tx[l].spend # 0 /\ LegOf(tx[l].spend) = l)
  BY DEF WatchInv, CallType, Sent
<1>3. LegOf(w) \in Leg /\ \A v \in Which : LegOf(v) \in Leg
  BY Spends DEF Leg
<1> HIDE DEF x
<1>4. tx' \in [Leg -> Spender] /\ tx'[LegOf(w)] = x /\ \A l \in Leg : l # LegOf(w) => tx'[l] = tx[l]
  BY <1>1, <1>2, <1>3
<1> QED BY <1>1, <1>2, <1>3, <1>4

LEMMA SendKeeps == ASSUME WatchAssumption, WatchInv, NEW t \in Task, Send(t) PROVE WatchInv'
<1> DEFINE w == Of(task[t].e)
           m == IF t \in Tick THEN task[t].tier ELSE s.wt[w]
           a == Recorded(s, w, m)
           br == s.broadcasts \cup {w}
           n == [a EXCEPT !.broadcasts = br]
<1>1. /\ task[t].pc = "send" /\ task[t].pc \in Acting /\ ~Pending(t)
      /\ UNCHANGED <<clock, rate, left>>
  BY DEF Send, Waits, Acting, Pending
<1>2. /\ task[t] \in Call /\ task[t].e \in 1..8 /\ task[t].e \in 0..8 /\ w \in Which /\ Touched(w)
      /\ task[t].tier \in 0..Tiers
  BY <1>1, ActingIs DEF Call
<1>3. s \in Record /\ LeftGoes /\ EndInv /\ SentInv
  BY <1>1, Uses DEF WatchInv, CallType
<1>4. /\ tx' = Sent(w, task[t].tier)
      /\ \/ IsClaim(w) /\ s' = n /\ task' = [task EXCEPT ![t].pc = "effects"]
         \/ ~IsClaim(w) /\ DriveOn(t, Refunded(n, w), task[t].e)
  <2>1. [s EXCEPT !.wt[w] = IF t \in Tick THEN task[t].tier ELSE @, !.broadcasts = @ \cup {w}] = n
    BY DEF Recorded
  <2> QED BY <2>1 DEF Send
<1>5. m \in 0..Tiers
  BY <1>2, <1>3 DEF Record
<1> HIDE DEF w
<1>6. br \in SUBSET Which
  BY <1>2, <1>3 DEF Record
<1> HIDE DEF m, br
<1>7. /\ a \in Record /\ a.seen = s.seen /\ a.state = s.state /\ a.preimage = s.preimage
      /\ \A v \in Which : a.wt[v] # 0 => s.wt[v] # 0 \/ v = w
  <2>1. LET x == Recorded(s, w, m)
        IN /\ x \in Record /\ x.seen = s.seen /\ x.state = s.state /\ x.preimage = s.preimage
           /\ x.broadcasts = s.broadcasts /\ x.wt[w] = m
           /\ \A v \in Which : v # w => x.wt[v] = s.wt[v]
    BY <1>2, <1>3, <1>5, RecordedIs
  <2> HIDE DEF a
  <2>2. a = Recorded(s, w, m)
    BY DEF a
  <2> QED BY <2>1, <2>2
<1> HIDE DEF a
<1>8. /\ n \in Record /\ n.seen = s.seen /\ n.state = s.state /\ n.preimage = s.preimage
      /\ n.wt = a.wt /\ n.broadcasts = br
  BY <1>6, <1>7 DEF Record
<1> HIDE DEF n
<1>9. /\ \A v \in Which : n.wt[v] # 0 => v \in br
      /\ s.broadcasts \subseteq br /\ w \in br
  BY <1>3, <1>7, <1>8 DEF SentInv, br
<1>10. /\ tx' \in [Leg -> Spender]
       /\ \A l \in Leg : tx'[l] = NoTx \/ (tx'[l].spend # 0 /\ LegOf(tx'[l].spend) = l)
       /\ \A v \in Which : tx'[LegOf(v)].spend = v => v = w \/ tx[LegOf(v)].spend = v
  BY <1>2, <1>4, SentIs
<1>11. ASSUME s'.wt = n.wt, s'.broadcasts = br
       PROVE  \A v \in Which : Trace(v)' => (Trace(v) \/ v = w) /\ Touched(v)
  <2>1. \A v \in Which : Trace(v)' => Trace(v) \/ v = w
    BY <1>7, <1>8, <1>10, <1>11 DEF Trace, br
  <2> QED BY <1>2, <2>1, TraceTouches
<1>12. CASE IsClaim(w) /\ s' = n /\ task' = [task EXCEPT ![t].pc = "effects"]
  <2> DEFINE k == [task[t] EXCEPT !.pc = "effects"]
  <2>1. task' = [task EXCEPT ![t] = k]
    BY <1>12
  <2>2. k \in Call /\ k.pc = "effects" /\ k.e = task[t].e
    BY <1>2 DEF Call, Acting
  <2> HIDE DEF k
  <2>3. k.pc \in Acting /\ Of(k.e) = w
    BY <2>2 DEF Acting, w
  <2>4. \A v \in Which : Trace(v)' => (Trace(v) \/ v = w) /\ Touched(v)
    BY <1>8, <1>11, <1>12
  <2>5. Trace(1)' => Trace(1) \/ 1 = w
    BY <2>4, Spends
  <2>6. s'.state = "REFUNDED" => s'.broadcasts \cap {3, 4} # {}
    BY <1>3, <1>8, <1>9, <1>12 DEF EndInv
  <2>7. s'.state = "COMPLETE" => s'.preimage
    BY <1>3, <1>8, <1>12 DEF EndInv
  <2>8. /\ s' \in Record /\ s'.seen = s.seen /\ s'.state = s.state /\ s'.preimage = s.preimage
        /\ s.broadcasts \subseteq s'.broadcasts /\ \A v \in Which : s'.wt[v] # 0 => v \in s'.broadcasts
    BY <1>8, <1>9, <1>12
  <2>9. k.pc = "effects" => IsClaim(Of(k.e))
    BY <1>12, <2>3
  <2>10. Trace(1)' => Trace(1) \/ (k.pc = "effects" /\ Of(k.e) = 1)
    BY <2>2, <2>3, <2>5
  <2>11. \A v \in Which : Trace(v)' => Touched(v)
    BY <2>4
  <2> QED BY <1>1, <1>3, <1>10, <2>1, <2>2, <2>3, <2>6, <2>7, <2>8, <2>9, <2>10, <2>11, ActStep
<1>13. CASE ~IsClaim(w) /\ DriveOn(t, Refunded(n, w), task[t].e)
  <2> DEFINE sp == [n.spent EXCEPT ![LegOf(w)] = TRUE]
             b == [n EXCEPT !.spent = sp]
             r == [b EXCEPT !.state = "REFUNDED"]
  <2>1. Refunded(n, w) = r
    BY DEF Refunded
  <2>2. sp \in [Leg -> BOOLEAN]
    BY <1>8 DEF Record
  <2> HIDE DEF sp
  <2>3. b \in Record /\ b.seen = s.seen /\ b.preimage = s.preimage /\ b.wt = n.wt /\ b.broadcasts = br
    BY <1>8, <2>2 DEF Record
  <2> HIDE DEF b
  <2>4. /\ r \in Record /\ r.seen = s.seen /\ r.preimage = s.preimage /\ r.wt = n.wt
        /\ r.broadcasts = br /\ r.state = "REFUNDED"
    BY <2>3 DEF Record, State, TERMINAL
  <2> HIDE DEF r
  <2>5. PICK k \in Call : s' = r /\ task' = [task EXCEPT ![t] = k] /\ Fit(r, task[t].e, k)
    BY <1>2, <1>13, <2>1, <2>4, DriveOnDoes
  <2>6. w \in {3, 4} /\ w # 1
    BY <1>2, <1>13, Spends
  <2>7. \A v \in Which : Trace(v)' => (Trace(v) \/ v = w) /\ Touched(v)
    BY <1>11, <2>4, <2>5
  <2>8. Trace(1)' => Trace(1)
    BY <2>6, <2>7, Spends
  <2>9. s'.broadcasts \cap {3, 4} # {}
    BY <1>9, <2>4, <2>5, <2>6
  <2> QED BY <1>1, <1>3, <1>9, <1>10, <2>4, <2>5, <2>7, <2>8, <2>9, ActStep
<1> QED BY <1>4, <1>12, <1>13

LEMMA SendRefusedKeeps == ASSUME WatchAssumption, WatchInv, NEW t \in Task, SendRefused(t) PROVE WatchInv'
<1>1. /\ task[t].pc = "send" /\ task[t].pc \in Acting /\ ~Pending(t)
      /\ UNCHANGED <<s, tx, clock, rate, left>> /\ task' = [task EXCEPT ![t] = Idle]
  BY DEF SendRefused, Waits, Acting, Pending
<1>2. s \in Record /\ LeftGoes /\ task[t].e \in 0..8
  BY <1>1, Uses, ActingIs DEF WatchInv, CallType
<1> QED BY <1>1, <1>2, OnwardFits, IdleIs, QuietStep

LEMMA EffectsKeeps == ASSUME WatchAssumption, WatchInv, NEW t \in Task, Effects(t) PROVE WatchInv'
<1> DEFINE w == Of(task[t].e)
           st == IF LegOf(w) = "btc" THEN "COMPLETE" ELSE "CLAIMED"
           sp == [s.spent EXCEPT ![LegOf(w)] = TRUE]
           a == [s EXCEPT !.preimage = TRUE]
           b == [a EXCEPT !.spent = sp]
           r == [b EXCEPT !.state = st]
<1>1. /\ task[t].pc = "effects" /\ task[t].pc \in Acting
      /\ UNCHANGED <<tx, clock, rate, left>> /\ DriveOn(t, r, task[t].e)
  BY DEF Effects, Waits, Acting
<1>2. task[t].e \in 0..8 /\ w \in Which /\ Touched(w) /\ s \in Record /\ LeftGoes /\ EndInv /\ SentInv
  BY <1>1, ActingIs, Uses DEF WatchInv, CallType
<1>3. IsClaim(w)
  BY <1>1 DEF WatchInv, CallType
<1>4. Touched(1) \/ Touched(2)
  BY <1>2, <1>3, Spends
<1>5. sp \in [Leg -> BOOLEAN]
  BY <1>2 DEF Record
<1>6. st \in {"COMPLETE", "CLAIMED"} /\ st \in State
  BY DEF State, TERMINAL
<1> HIDE DEF w, st, sp
<1>7. a \in Record /\ a.seen = s.seen /\ a.preimage = TRUE /\ a.wt = s.wt /\ a.broadcasts = s.broadcasts
  BY <1>2 DEF Record
<1> HIDE DEF a
<1>8. b \in Record /\ b.seen = s.seen /\ b.preimage = TRUE /\ b.wt = s.wt /\ b.broadcasts = s.broadcasts
  BY <1>5, <1>7 DEF Record
<1> HIDE DEF b
<1>9. /\ r \in Record /\ r.seen = s.seen /\ r.preimage = TRUE /\ r.wt = s.wt /\ r.broadcasts = s.broadcasts
      /\ r.state \in {"COMPLETE", "CLAIMED"}
  BY <1>6, <1>8 DEF Record
<1> HIDE DEF r
<1>10. PICK k \in Call : s' = r /\ task' = [task EXCEPT ![t] = k] /\ Fit(r, task[t].e, k)
  BY <1>1, <1>2, <1>9, DriveOnDoes
<1>11. \A v \in Which : Trace(v)' => Touched(v)
  BY <1>1, <1>9, <1>10, TraceTouches DEF Trace
<1>12. tx \in [Leg -> Spender] /\ \A l \in Leg : tx[l] = NoTx \/ (tx[l].spend # 0 /\ LegOf(tx[l].spend) = l)
  BY DEF WatchInv, CallType
<1> QED BY <1>1, <1>2, <1>4, <1>9, <1>10, <1>11, <1>12, ActStep DEF SentInv

LEMMA UnansweredKeeps == ASSUME WatchAssumption, WatchInv, NEW t \in Task, Unanswered(t) PROVE WatchInv'
<1> DEFINE w == Of(task[t].e)
<1>1. /\ task[t].pc = "send" /\ task[t].pc \in Acting /\ ~Pending(t) /\ Use("unanswered")
      /\ UNCHANGED <<s, clock, rate>> /\ task' = [task EXCEPT ![t] = Idle]
      /\ tx' = Sent(w, task[t].tier)
  BY DEF Unanswered, Waits, Acting, Pending
<1>2. /\ task[t] \in Call /\ task[t].e \in 0..8 /\ w \in Which /\ Touched(w) /\ task[t].tier \in 0..Tiers
      /\ s \in Record /\ EndInv /\ SentInv /\ left \in [Event -> Nat] /\ Steady(clock, left) /\ clock \in 0..3
  BY <1>1, ActingIs DEF WatchInv, CallType, Call
<1>3. LeftGoes
  BY <1>1, <1>2, Uses DEF Event
<1>4. ~Reaches
  <2>1. left["unanswered"] > 0 /\ left["block"] \in Nat
    BY <1>1, <1>2 DEF Use, Event
  <2> QED BY <1>2, <2>1 DEF Steady, Reaches
<1> HIDE DEF w
<1>5. /\ tx' \in [Leg -> Spender]
      /\ \A l \in Leg : tx'[l] = NoTx \/ (tx'[l].spend # 0 /\ LegOf(tx'[l].spend) = l)
      /\ \A v \in Which : tx'[LegOf(v)].spend = v => v = w \/ tx[LegOf(v)].spend = v
  BY <1>1, <1>2, SentIs
<1>6. \A v \in Which : Trace(v)' => Touched(v)
  <2>1. \A v \in Which : Trace(v)' => Trace(v) \/ v = w
    BY <1>1, <1>5 DEF Trace
  <2> QED BY <1>2, <2>1, TraceTouches
<1>7. Fit(s, task[t].e, Idle) /\ Idle \in Call
  BY <1>2, OnwardFits, IdleIs
<1> QED BY <1>1, <1>2, <1>3, <1>4, <1>5, <1>6, <1>7, ActStep DEF EndInv, SentInv

LEMMA ThrowKeeps == ASSUME WatchAssumption, WatchInv, NEW t \in Task, Throw(t) PROVE WatchInv'
<1>1. CallType /\ Steady(clock, left) /\ SentInv /\ PhaseInv /\ EndInv
  BY DEF WatchInv
<1>2. /\ s \in Record /\ clock \in 0..3 /\ left \in [Event -> Nat] /\ task[t] \in Call /\ rate \in 1..Tiers
      /\ tx \in [Leg -> Spender] /\ \A l \in Leg : tx[l] = NoTx \/ (tx[l].spend # 0 /\ LegOf(tx[l].spend) = l)
  BY <1>1 DEF CallType
<1>3. UNCHANGED <<s, tx, clock, rate>> /\ Use("throw") /\ ~Pending(t) /\ LeftGoes
  BY <1>2, Uses DEF Throw, Waits, Pending, Event
<1>4. left["throw"] > 0 /\ left["throw"] \in Nat /\ left["block"] \in Nat /\ left'["throw"] = left["throw"] - 1
  BY <1>2, <1>3 DEF Use, Event
<1>5. task[t].pc \in Acting \/ task[t].pc \in {"heights", "spent_btc", "spent_qbit"}
  BY <1>2 DEF Throw, Waits, Call, Asking
<1>6. CASE task[t].pc \in Acting
  <2>1. task' = [task EXCEPT ![t] = Idle] /\ task[t].e \in 0..8
    BY <1>2, <1>6 DEF Throw, Waits, Acting, Call
  <2> QED BY <1>2, <1>3, <1>6, <2>1, OnwardFits, IdleIs, QuietStep
<1>7. CASE task[t].pc \in {"heights", "spent_btc", "spent_qbit"}
  <2> DEFINE k == Drive(s)
  <2>1. task' = [task EXCEPT ![t] = k]
    BY <1>7 DEF Throw, Waits
  <2>2. Fit(s, 0, k) /\ k \in Call
    BY <1>2, OnwardFits DEF Drive, Fit
  <2> HIDE DEF k
  <2>3. /\ task' \in [Task -> Call] /\ task'[t] = k
        /\ \A u \in Task \ {t} : task'[u] = task[u]
    BY <1>1, <2>1, <2>2, OneCall
  <2>4. Types
    BY <1>2, <1>3, <2>3 DEF Types
  <2>5. s.seen <= clock /\ clock <= s.seen + 1 /\ s.seen \in 0..3
    BY <1>1, <1>2 DEF PhaseInv, Record
  <2>6. Reaches => left'["throw"] = 0
    BY <1>1, <1>2, <1>4 DEF Steady, Reaches
  <2>7. ASSUME k.pc # "idle"
        PROVE  /\ k.e # 0 /\ (Touched(Of(k.e)) \/ May(Of(k.e)))
               /\ k.e > 4 => Of(k.e) \in s.broadcasts
    <3> DEFINE w == Of(k.e)
    <3>1. k.e \in 1..8 /\ w \in Which
      BY <2>2, <2>7, EntryOf DEF Fit, Entry
    <3>2. /\ k.e > 4 => s.wt[w] # 0
          /\ \/ s.wt[w] # 0
             \/ w = 1 /\ s.state = "CLAIMABLE"
             \/ w = 2 /\ s.preimage
             \/ w \in {3, 4} /\ s.seen >= 2 /\ ~s.preimage
      BY <2>2, <2>7 DEF Fit
    <3> HIDE DEF w
    <3>3. k.e > 4 => w \in s.broadcasts
      BY <1>1, <3>1, <3>2 DEF SentInv
    <3>4. s.wt[w] # 0 => Touched(w)
      BY DEF Touched
    <3>5. w = 1 /\ s.state = "CLAIMABLE" => May(w)
      BY <1>1, <1>2, <1>4 DEF May, PhaseInv, Reaches
    <3>6. w = 2 /\ s.preimage => May(w)
      BY <1>3 DEF May
    <3>7. w \in {3, 4} /\ s.seen >= 2 /\ ~s.preimage => May(w)
      BY <1>2, <1>3, <2>5 DEF May
    <3> QED BY <3>1, <3>2, <3>3, <3>4, <3>5, <3>6, <3>7 DEF w
  <2>8. Good(t)
    <3>1. k.pc \in {"idle", "unspent", "rate"}
      BY <2>2 DEF Fit
    <3>2. k.pc \notin Asking /\ k.pc # "effects" /\ ("idle" \notin Acting)
      BY <3>1 DEF Asking, Acting
    <3> QED BY <1>3, <2>3, <2>6, <2>7, <3>2 DEF Good
  <2>9. \A u \in Task : task'[u] = task[u] \/ Good(u)
    BY <2>3, <2>8
  <2>10. \A w \in Which : Trace(w)' => Trace(w) /\ Touched(w)
    BY <1>3 DEF Trace, Touched
  <2>11. Trace(1)' => Trace(1)
    BY <2>10, Spends
  <2>12. s.broadcasts \subseteq s'.broadcasts /\ \A w \in Which : s'.wt[w] # 0 => w \in s'.broadcasts
    BY <1>1, <1>3 DEF SentInv
  <2>13. s'.seen <= clock /\ clock <= s'.seen + 1
    BY <1>3, <2>5
  <2>14. (s'.state = "COMPLETE" => s'.preimage) /\ (s'.state = "REFUNDED" => s'.broadcasts \cap {3, 4} # {})
    BY <1>1, <1>3 DEF EndInv
  <2> QED BY <1>3, <2>4, <2>9, <2>10, <2>11, <2>12, <2>13, <2>14, Stepping
<1> QED BY <1>5, <1>6, <1>7

-----------------------------------------------------------------------------
\* The parties, the node and the chains.

LEMMA WantsMay == ASSUME WatchInv, NEW w \in Which, Wants(w), UNCHANGED s PROVE May(w)
<1>1. PhaseInv /\ s \in Record /\ clock \in 0..3
  BY DEF WatchInv, CallType
<1>2. s.seen <= clock /\ clock <= s.seen + 1 /\ s.seen \in 0..3
  BY <1>1 DEF PhaseInv, Record
<1>3. CASE w = 1
  BY <1>1, <1>2, <1>3 DEF Wants, May
<1>4. CASE w = 2
  BY <1>4 DEF Wants, May
<1>5. CASE w \in {3, 4}
  <2>1. ~s.preimage /\ s.seen >= (IF LegOf(w) = "qbit" THEN 2 ELSE 3)
    BY <1>5 DEF Wants
  <2> QED BY <1>1, <1>2, <1>5, <2>1 DEF May
<1> QED BY <1>3, <1>4, <1>5, Spends

\* A step that leaves the record as it is.
LEMMA OutsideStep ==
  ASSUME WatchAssumption, WatchInv, UNCHANGED <<s, clock>>, Types, LeftGoes,
         \A w \in Which : Trace(w)' => Touched(w) \/ May(w),
         \A u \in Task : task'[u] = task[u] \/ Good(u),
         Reaches /\ Trace(1)' => Trace(1)
  PROVE  WatchInv'
<1>1. SentInv /\ PhaseInv /\ EndInv
  BY DEF WatchInv
<1>2. s.broadcasts \subseteq s'.broadcasts /\ \A w \in Which : s'.wt[w] # 0 => w \in s'.broadcasts
  BY <1>1 DEF SentInv
<1>3. s'.seen <= clock /\ clock <= s'.seen + 1
  BY <1>1 DEF PhaseInv
<1>4. (s'.state = "COMPLETE" => s'.preimage) /\ (s'.state = "REFUNDED" => s'.broadcasts \cap {3, 4} # {})
  BY <1>1 DEF EndInv
<1> QED BY <1>2, <1>3, <1>4, Stepping

LEMMA PostKeeps == ASSUME WatchAssumption, WatchInv, NEW t \in Request, NEW w \in Which, Post(t, w) PROVE WatchInv'
<1> DEFINE a == [Idle EXCEPT !.pc = "accept"]
           b == [a EXCEPT !.e = w]
           k == [b EXCEPT !.tier = rate]
<1>1. /\ t \in Task /\ task[t].pc = "idle" /\ UNCHANGED <<s, tx, clock, rate>> /\ Use("request") /\ Wants(w)
      /\ task' = [task EXCEPT ![t] = k]
  BY DEF Post, Waits, Task
<1>2. CallType /\ s \in Record /\ rate \in 1..Tiers /\ rate \in 0..Tiers /\ left \in [Event -> Nat]
  BY DEF WatchInv, CallType, WatchAssumption
<1>3. a \in Call /\ a.pc = "accept"
  BY IdleIs DEF Call, Acting
<1> HIDE DEF a
<1>4. b \in Call /\ b.pc = "accept" /\ b.e = w
  BY <1>3 DEF Call, Which
<1> HIDE DEF b
<1>5. k \in Call /\ k.pc = "accept" /\ k.e = w
  BY <1>2, <1>4 DEF Call
<1> HIDE DEF k
<1>6. /\ task' \in [Task -> Call] /\ task'[t] = k
      /\ \A u \in Task \ {t} : task'[u] = task[u]
  BY <1>1, <1>2, <1>5, OneCall
<1>7. Types /\ LeftGoes
  BY <1>1, <1>2, <1>6, Uses DEF Types, CallType, Event
<1>8. May(w) /\ Of(k.e) = w /\ k.e # 0 /\ ~(k.e > 4)
  BY <1>1, <1>5, WantsMay DEF Of, Which
<1>9. Good(t)
  BY <1>1, <1>5, <1>6, <1>8 DEF Good, Pending, Asking
<1>10. \A v \in Which : Trace(v)' => Trace(v) /\ Touched(v)
  BY <1>1 DEF Trace, Touched
<1> QED BY <1>1, <1>6, <1>7, <1>9, <1>10, Spends, OutsideStep

LEMMA DirectKeeps == ASSUME WatchAssumption, WatchInv, NEW w \in Which, Direct(w) PROVE WatchInv'
<1>1. UNCHANGED <<s, clock, rate, task>> /\ Use("direct") /\ Wants(w) /\ tx' = Sent(w, rate)
  BY DEF Direct
<1>2. /\ CallType /\ rate \in 0..Tiers /\ left \in [Event -> Nat] /\ Steady(clock, left) /\ clock \in 0..3
      /\ s \in Record /\ rate \in 1..Tiers /\ task \in [Task -> Call]
  BY DEF WatchInv, CallType, WatchAssumption
<1>3. LeftGoes
  BY <1>1, <1>2, Uses DEF Event
<1>4. ~Reaches
  <2>1. left["direct"] > 0 /\ left["block"] \in Nat
    BY <1>1, <1>2 DEF Use, Event
  <2> QED BY <1>2, <2>1 DEF Steady, Reaches
<1>5. /\ tx' \in [Leg -> Spender]
      /\ \A l \in Leg : tx'[l] = NoTx \/ (tx'[l].spend # 0 /\ LegOf(tx'[l].spend) = l)
      /\ \A v \in Which : tx'[LegOf(v)].spend = v => v = w \/ tx[LegOf(v)].spend = v
  BY <1>1, <1>2, SentIs
<1>6. Types
  BY <1>1, <1>2, <1>5 DEF Types
<1>7. \A v \in Which : Trace(v)' => Touched(v) \/ May(v)
  <2>1. \A v \in Which : Trace(v)' => Trace(v) \/ v = w
    BY <1>1, <1>5 DEF Trace
  <2> QED BY <1>1, <2>1, WantsMay, TraceTouches
<1> QED BY <1>1, <1>3, <1>4, <1>6, <1>7, OutsideStep

LEMMA NodeKeeps == ASSUME WatchAssumption, WatchInv, NEW l \in Leg, Evict(l) \/ MineSpend(l) PROVE WatchInv'
<1>1. /\ UNCHANGED <<s, clock, rate, task>> /\ tx[l] # NoTx
      /\ \/ tx' = [tx EXCEPT ![l] = NoTx] /\ Use("evict")
         \/ tx' = [tx EXCEPT ![l].mined = TRUE] /\ left' = left
  BY DEF Evict, MineSpend
<1>2. /\ tx \in [Leg -> Spender] /\ left \in [Event -> Nat] /\ s \in Record /\ rate \in 1..Tiers /\ task \in [Task -> Call]
      /\ \A m \in Leg : tx[m] = NoTx \/ (tx[m].spend # 0 /\ LegOf(tx[m].spend) = m)
  BY DEF WatchInv, CallType
<1>3. LeftGoes
  BY <1>1, <1>2, Uses DEF Event
<1>4. NoTx \in Spender /\ NoTx.spend = 0
  BY DEF NoTx, Spender, WatchAssumption
<1>5. PICK x \in Spender : tx' = [tx EXCEPT ![l] = x] /\ (x = NoTx \/ x.spend = tx[l].spend)
  <2>1. CASE tx' = [tx EXCEPT ![l] = NoTx]
    BY <1>4, <2>1
  <2>2. CASE tx' = [tx EXCEPT ![l].mined = TRUE]
    <3> DEFINE x == [tx[l] EXCEPT !.mined = TRUE]
    <3>1. x \in Spender /\ x.spend = tx[l].spend
      BY <1>2 DEF Spender
    <3>2. tx' = [tx EXCEPT ![l] = x]
      BY <2>2
    <3> HIDE DEF x
    <3> QED BY <3>1, <3>2
  <2> QED BY <1>1, <2>1, <2>2
<1>6. tx' \in [Leg -> Spender] /\ tx'[l] = x /\ \A m \in Leg : m # l => tx'[m] = tx[m]
  BY <1>2, <1>5
<1>7. \A m \in Leg : tx'[m] = NoTx \/ (tx'[m].spend # 0 /\ LegOf(tx'[m].spend) = m)
  BY <1>1, <1>2, <1>5, <1>6
<1>8. Types
  BY <1>1, <1>2, <1>6, <1>7 DEF Types
<1>9. \A v \in Which : Trace(v)' => Trace(v)
  <2> SUFFICES ASSUME NEW v \in Which, tx'[LegOf(v)].spend = v
               PROVE  tx[LegOf(v)].spend = v
    BY <1>1 DEF Trace
  <2>1. v # 0 /\ LegOf(v) \in Leg
    BY Spends DEF Which, Leg
  <2> QED BY <1>4, <1>5, <1>6, <2>1
<1>10. Trace(1)' => Trace(1)
  BY <1>9, Spends
<1> QED BY <1>1, <1>3, <1>8, <1>9, <1>10, TraceTouches, OutsideStep

LEMMA RateMovesKeeps == ASSUME WatchAssumption, WatchInv, RateMoves PROVE WatchInv'
<1>1. UNCHANGED <<s, tx, clock, task>> /\ Use("rate") /\ rate' \in 1..Tiers
  BY DEF RateMoves
<1>2. CallType /\ left \in [Event -> Nat]
  BY DEF WatchInv, CallType
<1>3. Types /\ LeftGoes
  BY <1>1, <1>2, Uses DEF Types, CallType, Event
<1>4. \A v \in Which : Trace(v)' => Trace(v) /\ Touched(v)
  BY <1>1 DEF Trace, Touched
<1> QED BY <1>1, <1>3, <1>4, Spends, OutsideStep

\* A block finds every call answered and the record up to date.
LEMMA BlockKeeps == ASSUME WatchAssumption, WatchInv, Block PROVE WatchInv'
<1>1. CallType /\ Steady(clock, left) /\ SentInv /\ OrderInv /\ TellInv /\ PhaseInv /\ EndInv
  BY DEF WatchInv
<1>2. /\ UNCHANGED <<s, tx, rate, task>> /\ clock' = clock + 1 /\ clock < 3 /\ s.seen = clock
      /\ left["block"] > 0 /\ left' = [left EXCEPT !["block"] = @ - 1]
      /\ \A t \in Task : task[t].pc = "idle"
  BY DEF Block, Use, Waits
<1>3. clock \in 0..3 /\ left \in [Event -> Nat] /\ s \in Record
  BY <1>1 DEF CallType
<1>4. /\ left' \in [Event -> Nat] /\ left["block"] \in Nat /\ left'["block"] = left["block"] - 1
      /\ \A e \in Event \ {"block"} : left'[e] = left[e]
  BY <1>2, <1>3 DEF Event
<1>5. Reaches' = Reaches /\ (clock >= 1 => Reaches)
  BY <1>2, <1>3, <1>4 DEF Reaches
<1>6. "idle" \notin Asking /\ "idle" \notin Acting
  BY DEF Asking, Acting
<1>7. CallType'
  BY <1>1, <1>2, <1>3, <1>4, <1>6 DEF CallType
<1>8. Steady(clock, left)'
  <2>1. left'["direct"] = left["direct"] /\ left'["unanswered"] = left["unanswered"] /\ left'["throw"] = left["throw"]
    BY <1>4 DEF Event
  <2>2. clock' + left'["block"] = clock + left["block"]
    BY <1>2, <1>3, <1>4
  <2> QED BY <1>1, <2>1, <2>2 DEF Steady
<1>9. SentInv' /\ TellInv' /\ EndInv'
  BY <1>1, <1>2, <1>5 DEF SentInv, TellInv, EndInv
<1>10. OrderInv'
  <2>1. Touched(1)' = Touched(1) /\ Touched(2)' = Touched(2) /\ Touched(3)' = Touched(3) /\ Touched(4)' = Touched(4)
    BY <1>2 DEF Touched
  <2>2. Touched(1) /\ clock >= 1 => s.preimage
    <3>1. Touched(1) => Trace(1)
      BY <1>2, <1>6 DEF Touched, Trace
    <3>2. ~\E t \in Task : task[t].pc = "effects"
      BY <1>2
    <3> QED BY <1>1, <1>5, <3>1, <3>2, Spends DEF TellInv, Trace
  <2> QED BY <1>1, <1>2, <1>3, <2>1, <2>2 DEF OrderInv
<1>11. PhaseInv'
  <2>1. ~\E t \in Task : task[t].pc \in Asking
    BY <1>2, <1>6
  <2>2. left'["throw"] = left["throw"]
    BY <1>4 DEF Event
  <2>3. clock >= 1 /\ Reaches /\ s.state = "CLAIMABLE" => left["throw"] = 0
    BY <1>1, <1>2, <2>1 DEF PhaseInv
  <2> QED BY <1>2, <1>3, <1>5, <2>2, <2>3 DEF PhaseInv
<1> QED BY <1>7, <1>8, <1>9, <1>10, <1>11 DEF WatchInv

LEMMA StillKeeps == ASSUME WatchInv, UNCHANGED vars PROVE WatchInv'
  BY DEF vars, WatchInv, CallType, Steady, SentInv, OrderInv, TellInv, PhaseInv, EndInv, Touched, Reaches

-----------------------------------------------------------------------------
\* The invariant.

LEMMA WatchStart == ASSUME WatchAssumption, SteadyScenarios, Init PROVE WatchInv
<1>1. PICK sc \in Scenarios :
        /\ s = [state |-> "CLAIMABLE", seen |-> 0, spent |-> [l \in Leg |-> FALSE],
                preimage |-> FALSE, finish |-> sc.finish, wt |-> [w \in Which |-> 0],
                broadcasts |-> {}]
        /\ left = sc.events
  BY DEF Init
<1>2. tx = [l \in Leg |-> NoTx] /\ clock = 0 /\ rate = 1 /\ task = [t \in Task |-> Idle]
  BY DEF Init
<1>3. sc.finish \in SUBSET (1..4) /\ sc.events \in [Event -> Nat] /\ Tiers \in Nat \ {0}
  BY DEF WatchAssumption
<1>4. Steady(clock, left)
  BY <1>1, <1>2 DEF SteadyScenarios
<1>5. s \in Record
  <2>1. /\ [l \in Leg |-> FALSE] \in [Leg -> BOOLEAN] /\ [w \in Which |-> 0] \in [Which -> 0..Tiers]
        /\ sc.finish \in SUBSET Which /\ {} \in SUBSET Which /\ 0 \in 0..3 /\ "CLAIMABLE" \in State
    BY <1>3 DEF Which, State
  <2> QED BY <1>1, <2>1 DEF Record
<1>6. NoTx \in Spender /\ NoTx.spend = 0
  BY <1>3 DEF NoTx, Spender
<1>7. Idle \in Call /\ Idle.pc = "idle" /\ "idle" \notin Asking /\ "idle" \notin Acting
  BY IdleIs DEF Asking, Acting
<1>8. CallType
  BY <1>1, <1>2, <1>3, <1>5, <1>6, <1>7 DEF CallType
<1>9. \A w \in Which : w \notin s.broadcasts /\ s.wt[w] = 0 /\ tx[LegOf(w)].spend # w
  <2>1. \A w \in Which : LegOf(w) \in Leg /\ w # 0
    BY Spends DEF Leg
  <2> QED BY <1>1, <1>2, <1>6, <2>1
<1>10. \A w \in Which : ~Touched(w)
  BY <1>2, <1>7, <1>9 DEF Touched
<1>11. SentInv
  BY <1>2, <1>7, <1>9 DEF SentInv
<1>12. OrderInv
  BY <1>10, Spends DEF OrderInv
<1>13. TellInv
  BY <1>9, Spends DEF TellInv
<1>14. PhaseInv /\ EndInv
  BY <1>1, <1>2 DEF PhaseInv, EndInv
<1> QED BY <1>4, <1>8, <1>11, <1>12, <1>13, <1>14 DEF WatchInv

LEMMA WatchStep == ASSUME WatchAssumption, WatchInv, [Next]_vars PROVE WatchInv'
<1>1. ASSUME NEW t \in Tick, StartTick(t) \/ Heights(t) \/ ReadSpent(t) \/ ReadUnspent(t) \/ PickRate(t)
      PROVE  WatchInv'
  BY <1>1, StartTickKeeps, PollKeeps, ReadUnspentKeeps, PickRateKeeps
<1>2. ASSUME NEW t \in Tick, NEW found \in BOOLEAN, ReadSpender(t, found)
      PROVE  WatchInv'
  BY <1>2, PollKeeps
<1>3. ASSUME NEW t \in Task, \/ Accept(t) \/ Send(t) \/ SendRefused(t) \/ Effects(t)
                             \/ Throw(t) \/ Unanswered(t)
      PROVE  WatchInv'
  BY <1>3, AcceptKeeps, SendKeeps, SendRefusedKeeps, EffectsKeeps, ThrowKeeps, UnansweredKeeps
<1>4. ASSUME NEW t \in Request, NEW w \in Which, Post(t, w)
      PROVE  WatchInv'
  BY <1>4, PostKeeps
<1>5. ASSUME NEW w \in Which, Direct(w)
      PROVE  WatchInv'
  BY <1>5, DirectKeeps
<1>6. ASSUME NEW l \in Leg, Evict(l) \/ MineSpend(l)
      PROVE  WatchInv'
  BY <1>6, NodeKeeps
<1>7. CASE Block
  BY <1>7, BlockKeeps
<1>8. CASE RateMoves
  BY <1>8, RateMovesKeeps
<1>9. CASE UNCHANGED vars
  BY <1>9, StillKeeps
<1> QED BY <1>1, <1>2, <1>3, <1>4, <1>5, <1>6, <1>7, <1>8, <1>9 DEF Next

LEMMA WatchKept == ASSUME SteadyScenarios PROVE Spec => []WatchInv
<1>1. Init => WatchInv
  BY WatchAssumption, WatchStart
<1>2. WatchInv /\ [Next]_vars => WatchInv'
  BY WatchAssumption, WatchStep
<1> QED BY <1>1, <1>2, PTL DEF Spec

\* However ticks and requests overlap at their awaits, no call asks for a tier
\* that its ladder has not, none leaves a record of another shape, and a spend
\* that the watchtower has on record has been sent (pickTier, server.js's poll).
THEOREM CallsFit == ASSUME SteadyScenarios PROVE Spec => [](TypeOK /\ SentInv)
<1>1. WatchInv => TypeOK /\ SentInv
  <2>1. ASSUME CallType PROVE TypeOK
    <3>1. \A t \in Task : task[t].e \in 0..8 /\ task[t].tier \in 0..Tiers
      BY <2>1 DEF CallType, Call
    <3> QED BY <2>1, <3>1 DEF TypeOK, CallType, Record, State, Spender
  <2> QED BY <2>1 DEF WatchInv
<1> QED BY <1>1, WatchKept, PTL

\* No claim and refund of one swap are ever on their way together: once a
\* refund is sent, recorded or worked on in any call, the preimage is not
\* known, the time to reveal is over, and no claim is anywhere; so a call that
\* slept through the answers of a node cannot refund what another has revealed
\* (steps a to d of driveWatchtower, applyEffects, POST /broadcast).
THEOREM ClaimOrRefund ==
  ASSUME SteadyScenarios
  PROVE  Spec => [](Touched(3) \/ Touched(4) => clock >= 2 /\ ~s.preimage /\ ~Touched(1) /\ ~Touched(2))
<1>1. WatchInv => (Touched(3) \/ Touched(4) => clock >= 2 /\ ~s.preimage /\ ~Touched(1) /\ ~Touched(2))
  BY DEF WatchInv, OrderInv
<1> QED BY <1>1, WatchKept, PTL

\* A swap that is shown as over is: COMPLETE with no refund at either node,
\* REFUNDED with a refund sent, for every number of overlapping calls.
THEOREM EndsAreTrue == ASSUME SteadyScenarios PROVE Spec => []EndIsTrue
<1>1. WatchInv => EndIsTrue
  <2> SUFFICES ASSUME WatchInv
               PROVE  EndIsTrue
    OBVIOUS
  <2>1. OrderInv /\ EndInv /\ CallType
    BY DEF WatchInv
  <2>2. ASSUME s.state = "COMPLETE", NEW l \in Leg, tx[l] # NoTx
        PROVE  IsClaim(tx[l].spend)
    <3>1. ~Touched(3) /\ ~Touched(4)
      BY <2>1, <2>2 DEF OrderInv, EndInv
    <3>2. tx[l].spend \in Which /\ Touched(tx[l].spend)
      BY <2>2, SpenderIs
    <3> QED BY <3>1, <3>2, Spends
  <2>3. s.state = "REFUNDED" => \E w \in {3, 4} : w \in s.broadcasts
    BY <2>1 DEF EndInv
  <2> QED BY <2>2, <2>3 DEF EndIsTrue
<1> QED BY <1>1, WatchKept, PTL

=============================================================================
