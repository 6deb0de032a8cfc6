-------------------------- MODULE MakerBot_proofs --------------------------
(***************************************************************************)
(* Proofs about the maker bot, for every set of swaps, number of attempts  *)
(* and budget: it pays a swap at most once per life of its process, and    *)
(* its keystore holds the keys of every joined swap while no run has had   *)
(* to be retried.                                                          *)
(***************************************************************************)
EXTENDS MakerBot, TLAPS

\* The start: every variable has its type.
LEMMA InitType == Init => TypeOK
<1> SUFFICES ASSUME Init PROVE TypeOK OBVIOUS
<1>1. deals \in [Swap -> Deal]
  BY DEF Init, NoDeal, Deal
<1>2. runs \in [Swap -> Run]
  BY DEF Init, NoRun, Run
<1>3. files \in [Swap -> File]
  BY DEF Init, NoFile, File
<1>4. left \in [Event -> Nat]
  BY BotAssumption DEF Init
<1> QED
  BY <1>1, <1>2, <1>3, <1>4 DEF Init, TypeOK

\* The start: nothing is joined, stored, paid or spent.
LEMMA InitInv == Init => BotInv
<1> SUFFICES ASSUME Init PROVE BotInv OBVIOUS
<1>1. Crashes = 0
  BY BotAssumption DEF Init, Crashes, Event
<1>2. \A e \in Event : left[e] <= Budget[e]
  BY BotAssumption DEF Init, Event
<1>3. ASSUME NEW w \in Swap
      PROVE  /\ deals[w].slot = 0 /\ deals[w].sent = 0 /\ minted = 0
             /\ runs[w].at = "idle" /\ runs[w].key = 0 /\ ~runs[w].saved
             /\ files[w].key = 0 /\ files[w].st = "none"
  <2>1. deals[w] = NoDeal /\ runs[w] = NoRun /\ files[w] = NoFile /\ minted = 0
    BY DEF Init
  <2> QED
    BY <2>1 DEF NoDeal, NoRun, NoFile
<1>4. \A n \in {0} : n <= 0 /\ n <= 1 + 0
  OBVIOUS
<1>5. FundsOnce /\ \A w \in Swap : NotPaid(w)
  BY <1>1, <1>3, <1>4, Zenon DEF FundsOnce, NotPaid
<1>6. \A w \in Swap : RecordKept(w)
  BY <1>3 DEF RecordKept
<1>7. up
  BY DEF Init
<1> QED
  BY <1>2, <1>5, <1>6, <1>7 DEF BotInv

\* What a slot of deals holds after Changes.
LEMMA Changed ==
  ASSUME TypeOK, NEW w \in Swap, NEW d \in Deal, Changes(w, d)
  PROVE  /\ deals' \in [Swap -> Deal] /\ deals'[w] = d
         /\ \A v \in Swap \ {w} : deals'[v] = deals[v]
  BY SMT DEF TypeOK, Changes

\* What remains of the budget after an event.
LEMMA Spent ==
  ASSUME TypeOK, NEW e \in Event, Use(e)
  PROVE  /\ left' \in [Event -> Nat]
         /\ \A x \in Event : left'[x] <= left[x]
         /\ left'[e] < left[e]
         /\ Crashes' = IF e = "crash" THEN Crashes + 1 ELSE Crashes
<1>1. left' \in [Event -> Nat] /\ left'[e] = left[e] - 1 /\ \A x \in Event \ {e} : left'[x] = left[x]
  BY SMT DEF TypeOK, Use
<1>2. left'[e] \in Nat /\ left[e] \in Nat /\ \A x \in Event : left[x] \in Nat
  BY <1>1 DEF TypeOK
<1>3. "crash" \in Event /\ Budget["crash"] \in Nat
  BY BotAssumption DEF Event
<1> QED
  BY <1>1, <1>2, <1>3, SMT DEF Crashes

\* A failed run starts over or is given up.
LEMMA Failed ==
  ASSUME TypeOK, NEW w \in Swap, Fails(w)
  PROVE  /\ runs' \in [Swap -> Run]
         /\ \A v \in Swap \ {w} : runs'[v] = runs[v]
         /\ runs'[w].at \in {"idle", "keys"} /\ ~runs'[w].saved /\ runs'[w].key = 0
<1>1. runs' \in [Swap -> Run]
  BY SMT DEF TypeOK, Run, Fails, Start, NoRun
<1>2. \A v \in Swap \ {w} : runs'[v] = runs[v]
  BY SMT DEF TypeOK, Fails
<1>3. runs'[w] \in {NoRun, Start(FALSE, runs[w].tries + 1)}
  BY SMT DEF TypeOK, Fails
<1>4. ASSUME NEW r, r \in {NoRun, Start(FALSE, runs[w].tries + 1)}
      PROVE  r.at \in {"idle", "keys"} /\ ~r.saved /\ r.key = 0
  BY <1>4 DEF NoRun, Start
<1> QED
  BY <1>1, <1>2, <1>3, <1>4

\* A run that moves on keeps its keys.
LEMMA Moved ==
  ASSUME TypeOK, NEW w \in Swap,
         NEW p \in {"idle", "keys", "look", "join", "ready", "fund", "race"}, Moves(w, p)
  PROVE  /\ runs' \in [Swap -> Run] /\ \A v \in Swap \ {w} : runs'[v] = runs[v]
         /\ runs'[w].at = p /\ runs'[w].key = runs[w].key /\ runs'[w].saved = runs[w].saved
<1>1. runs' \in [Swap -> Run]
  BY SMT DEF TypeOK, Run, Moves
<1>2. \A v \in Swap \ {w} : runs'[v] = runs[v]
  BY SMT DEF TypeOK, Moves
<1>3. runs'[w].at = p /\ runs'[w].key = runs[w].key /\ runs'[w].saved = runs[w].saved
  BY SMT DEF TypeOK, Run, Moves
<1> QED
  BY <1>1, <1>2, <1>3

\* A run that ends retires its record, which keeps its keys.
LEMMA Retired ==
  ASSUME TypeOK, NEW w \in Swap, Done(w)
  PROVE  /\ runs' \in [Swap -> Run] /\ files' \in [Swap -> File]
         /\ \A v \in Swap \ {w} : runs'[v] = runs[v] /\ files'[v] = files[v]
         /\ runs'[w] = NoRun /\ files'[w].key = files[w].key /\ files'[w].st = "done"
<1>1. runs' \in [Swap -> Run] /\ files' \in [Swap -> File]
  BY SMT DEF TypeOK, Run, File, Done, NoRun
<1>2. \A v \in Swap \ {w} : runs'[v] = runs[v] /\ files'[v] = files[v]
  BY SMT DEF TypeOK, Done
<1>3. runs'[w] = NoRun
  BY SMT DEF TypeOK, Done
<1>4. files'[w].key = files[w].key /\ files'[w].st = "done"
  BY SMT DEF TypeOK, File, Done
<1> QED
  BY <1>1, <1>2, <1>3, <1>4

\* The rest of the world touches neither the slot nor the bot's deposits, and spends only on itself.
LEMMA World ==
  ASSUME TypeOK, NEW w \in Swap, WorldStep(w)
  PROVE  /\ deals' \in [Swap -> Deal] /\ left' \in [Event -> Nat]
         /\ \A v \in Swap : deals'[v].slot = deals[v].slot /\ deals'[v].sent = deals[v].sent
         /\ UNCHANGED <<runs, files, minted, up>>
         /\ Crashes' = Crashes /\ \A e \in Event : left'[e] <= left[e]
<1> DEFINE D == { d \in Deal : d.slot = deals[w].slot /\ d.sent = deals[w].sent }
<1>1. deals[w] \in Deal
  BY DEF TypeOK
<1>2. ASSUME NEW d \in D, Changes(w, d)
      PROVE  /\ deals' \in [Swap -> Deal]
             /\ \A v \in Swap : deals'[v].slot = deals[v].slot /\ deals'[v].sent = deals[v].sent
  BY <1>2, Changed
<1>3. ASSUME NEW m \in SUBSET {"seen", "due", "shown", "back"}
      PROVE  [deals[w] EXCEPT !.marks = m] \in D
  BY <1>1 DEF Deal
<1>4. deals[w].marks \cup {"seen"} \in SUBSET {"seen", "due", "shown", "back"}
      /\ deals[w].marks \cup {"due"} \in SUBSET {"seen", "due", "shown", "back"}
      /\ deals[w].marks \cup {"shown"} \in SUBSET {"seen", "due", "shown", "back"}
  BY <1>1 DEF Deal
<1>5. ASSUME UNCHANGED left
      PROVE  left' \in [Event -> Nat] /\ Crashes' = Crashes /\ \A e \in Event : left'[e] <= left[e]
  BY <1>5 DEF TypeOK, Crashes
<1>6. ASSUME NEW e \in {"cancel", "refund"}, Use(e)
      PROVE  left' \in [Event -> Nat] /\ Crashes' = Crashes /\ \A x \in Event : left'[x] <= left[x]
  BY <1>6, Spent DEF Event
<1>7. CASE Match(w, "alice") \/ Match(w, "bob")
  <2>1. \A r \in {"alice", "bob"} : [deals[w] EXCEPT !.role = r] \in D
    BY <1>1 DEF Deal
  <2> QED
    BY <1>2, <1>5, <1>7, <2>1 DEF Match
<1>8. CASE PeerJoins(w)
  <2>1. [deals[w] EXCEPT !.peer = "joined"] \in D
    BY <1>1 DEF Deal
  <2> QED
    BY <1>2, <1>5, <1>8, <2>1 DEF PeerJoins
<1>9. CASE PeerFunds(w)
  <2>1. [deals[w] EXCEPT !.peer = "funded"] \in D
    BY <1>1 DEF Deal
  <2> QED
    BY <1>2, <1>5, <1>9, <2>1 DEF PeerFunds
<1>10. CASE PeerCancels(w)
  <2>1. [deals[w] EXCEPT !.state = "CANCELED"] \in D
    BY <1>1 DEF Deal
  <2> QED
    BY <1>2, <1>6, <1>10, <2>1 DEF PeerCancels
<1>11. CASE PeerRefunds(w)
  <2>1. [deals[w] EXCEPT !.peer = "gone", !.state = "REFUNDED"] \in D
    BY <1>1 DEF Deal
  <2> QED
    BY <1>2, <1>6, <1>11, <2>1 DEF PeerRefunds
<1>12. CASE Sees(w)
  BY <1>2, <1>3, <1>4, <1>5, <1>12 DEF Sees
<1>13. CASE TimelockPasses(w)
  BY <1>2, <1>3, <1>4, <1>5, <1>13 DEF TimelockPasses
<1>14. CASE PeerClaims(w)
  BY <1>2, <1>3, <1>4, <1>5, <1>14 DEF PeerClaims
<1> QED
  BY <1>7, <1>8, <1>9, <1>10, <1>11, <1>12, <1>13, <1>14 DEF WorldStep

\* What a step of fulfill, or an attempt to make one, does to the bot's state:
\* typed, spending at most the budget, and to one swap only.
Fewer == \A e \in Event : left'[e] <= left[e]
OnlyTo(w) ==
  /\ deals' \in [Swap -> Deal] /\ runs' \in [Swap -> Run] /\ files' \in [Swap -> File]
  /\ minted' \in Nat /\ minted <= minted' /\ left' \in [Event -> Nat] /\ UNCHANGED up
  /\ \A v \in Swap \ {w} : deals'[v] = deals[v] /\ runs'[v] = runs[v] /\ files'[v] = files[v]
  /\ Crashes' = Crashes /\ Fewer

\* Nothing is spent.
LEMMA Kept ==
  ASSUME TypeOK, UNCHANGED left
  PROVE  left' \in [Event -> Nat] /\ Crashes' = Crashes /\ Fewer
  BY DEF TypeOK, Crashes, Fewer

\* An error is spent.
LEMMA Cut ==
  ASSUME TypeOK, BotInv, NEW e \in {"throws", "timeout", "lost"}, Use(e)
  PROVE  left' \in [Event -> Nat] /\ Crashes' = Crashes /\ Fewer /\ ~Untroubled'
<1>1. e \in Event /\ e # "crash"
  BY DEF Event
<1>2. left' \in [Event -> Nat] /\ left'[e] < left[e] /\ Crashes' = Crashes /\ Fewer
  BY <1>1, Spent DEF Fewer
<1>3. left[e] <= Budget[e] /\ left[e] \in Nat /\ left'[e] \in Nat /\ Budget[e] \in Nat
  BY <1>1, <1>2, BotAssumption DEF BotInv, TypeOK
<1>4. left'[e] # Budget[e]
  BY <1>2, <1>3
<1> QED
  BY <1>2, <1>4 DEF Untroubled

\* What each step leaves behind, read off its definition: one lemma per action.
LEMMA PingDoes ==
  ASSUME TypeOK, NEW w \in Swap, Ping(w)
  PROVE  /\ OnlyTo(w) /\ UNCHANGED <<deals, files, minted>> /\ deals[w].slot = 0
         /\ runs'[w].at = "keys" /\ ~runs'[w].saved /\ runs'[w].key = 0
<1>1. runs' \in [Swap -> Run] /\ runs'[w] = Start(FALSE, 0)
      /\ \A v \in Swap \ {w} : runs'[v] = runs[v]
  BY SMT DEF TypeOK, Run, Ping, Start
<1>2. runs'[w].at = "keys" /\ ~runs'[w].saved /\ runs'[w].key = 0
  BY <1>1 DEF Start
<1>3. UNCHANGED <<deals, files, minted, up, left>> /\ deals[w].slot = 0
  BY DEF Ping
<1>4. left' \in [Event -> Nat] /\ Crashes' = Crashes /\ Fewer
  BY <1>3, Kept
<1>5. OnlyTo(w)
  BY <1>1, <1>3, <1>4 DEF OnlyTo, TypeOK
<1> QED
  BY <1>2, <1>3, <1>5

\* A run cut short by an error starts over, and is remembered as trouble.
LEMMA CutDoes ==
  ASSUME TypeOK, BotInv, NEW w \in Swap, Throws(w) \/ TimesOut(w)
  PROVE  /\ OnlyTo(w) /\ UNCHANGED <<deals, files, minted>> /\ ~Untroubled'
         /\ runs'[w].at \in {"idle", "keys"} /\ ~runs'[w].saved /\ runs'[w].key = 0
<1>1. Fails(w) /\ UNCHANGED <<deals, files, minted, up>> /\ (Use("throws") \/ Use("timeout"))
  BY DEF Throws, TimesOut
<1>2. left' \in [Event -> Nat] /\ Crashes' = Crashes /\ Fewer /\ ~Untroubled'
  BY <1>1, Cut
<1> QED
  BY <1>1, <1>2, Failed DEF OnlyTo, TypeOK

\* A run that takes up its keys.
LEMMA Keyed ==
  ASSUME TypeOK, NEW w \in Swap, NEW p \in {"look", "join"}, NEW k \in Nat, TakesUp(w, p, k)
  PROVE  /\ runs' \in [Swap -> Run] /\ \A v \in Swap \ {w} : runs'[v] = runs[v]
         /\ runs'[w].at = p /\ runs'[w].key = k /\ runs'[w].saved = runs[w].saved
<1> DEFINE r == [runs[w] EXCEPT !.at = p, !.key = k]
<1>1. r \in Run /\ r.at = p /\ r.key = k /\ r.saved = runs[w].saved
  BY DEF TypeOK, Run
<1>2. runs' = [runs EXCEPT ![w] = r]
  BY DEF TakesUp
<1> HIDE DEF r
<1>3. runs' \in [Swap -> Run] /\ runs'[w] = r /\ \A v \in Swap \ {w} : runs'[v] = runs[v]
  BY <1>1, <1>2, SMT DEF TypeOK
<1> QED
  BY <1>1, <1>3

\* Fresh keys are stored under a number never used; a resumed run takes its record's.
LEMMA KeysDoes ==
  ASSUME TypeOK, NEW w \in Swap, Keys(w)
  PROVE  /\ OnlyTo(w) /\ UNCHANGED deals /\ runs[w].at = "keys"
         /\ runs'[w].saved = runs[w].saved
         /\ runs[w].saved => /\ UNCHANGED <<files, minted>>
                             /\ runs'[w].at = "look" /\ runs'[w].key = files[w].key
         /\ ~runs[w].saved => /\ minted' = minted + 1
                              /\ runs'[w].at = "join" /\ runs'[w].key = minted + 1
                              /\ files'[w].key = minted + 1
<1>1. UNCHANGED <<deals, up, left>> /\ runs[w].at = "keys"
  BY DEF Keys, At
<1>2. minted \in Nat /\ minted + 1 \in Nat /\ minted <= minted + 1 /\ files[w].key \in Nat
  BY DEF TypeOK, File
<1>5. left' \in [Event -> Nat] /\ Crashes' = Crashes /\ Fewer
  BY <1>1, Kept
<1>3. CASE runs[w].saved
  <2>1. TakesUp(w, "look", files[w].key) /\ UNCHANGED <<files, minted>>
    BY <1>3, Zenon DEF Keys
  <2>2. /\ runs' \in [Swap -> Run] /\ \A v \in Swap \ {w} : runs'[v] = runs[v]
        /\ runs'[w].at = "look" /\ runs'[w].key = files[w].key /\ runs'[w].saved = runs[w].saved
    BY <2>1, <1>2, Keyed
  <2> QED
    BY <1>1, <1>2, <1>3, <2>1, <2>2, <1>5 DEF OnlyTo, TypeOK
<1>4. CASE ~runs[w].saved
  <2>1. TakesUp(w, "join", minted + 1) /\ minted' = minted + 1
        /\ files' = [files EXCEPT ![w] = [key |-> minted + 1, st |-> "open"]]
    BY <1>4, Zenon DEF Keys
  <2>2. /\ runs' \in [Swap -> Run] /\ \A v \in Swap \ {w} : runs'[v] = runs[v]
        /\ runs'[w].at = "join" /\ runs'[w].key = minted + 1 /\ runs'[w].saved = runs[w].saved
    BY <2>1, <1>2, Keyed
  <2>3. files' \in [Swap -> File] /\ \A v \in Swap \ {w} : files'[v] = files[v]
    BY <2>1, <1>2, SMT DEF TypeOK, File
  <2>4. files'[w].key = minted + 1
    BY <2>1, <1>2, SMT DEF TypeOK, File
  <2> QED
    BY <1>1, <1>2, <1>4, <2>1, <2>2, <2>3, <2>4, <1>5 DEF OnlyTo, TypeOK
<1> QED
  BY <1>3, <1>4

\* A resumed run goes on with its own keys only, or joins an empty slot.
LEMMA LookDoes ==
  ASSUME TypeOK, NEW w \in Swap, Look(w)
  PROVE  /\ OnlyTo(w) /\ UNCHANGED <<deals, files, minted>> /\ runs[w].at = "look"
         /\ \/ /\ deals[w].slot = 0 /\ runs'[w].at = "join"
               /\ runs'[w].key = runs[w].key /\ runs'[w].saved = runs[w].saved
            \/ /\ deals[w].slot = runs[w].key /\ runs'[w].at = "ready"
               /\ runs'[w].key = runs[w].key /\ runs'[w].saved = runs[w].saved
            \/ /\ deals[w].slot \notin {0, runs[w].key}
               /\ runs'[w].at \in {"idle", "keys"} /\ ~runs'[w].saved /\ runs'[w].key = 0
<1>1. UNCHANGED <<deals, files, minted, up, left>> /\ runs[w].at = "look"
  BY DEF Look, At
<1>2. left' \in [Event -> Nat] /\ Crashes' = Crashes /\ Fewer
  BY <1>1, Kept
<1>3. ASSUME runs' \in [Swap -> Run], \A v \in Swap \ {w} : runs'[v] = runs[v]
      PROVE  OnlyTo(w)
  BY <1>1, <1>2, <1>3 DEF OnlyTo, TypeOK
<1>4. CASE deals[w].slot = 0
  <2>1. Moves(w, "join")
    BY <1>4, Zenon DEF Look
  <2> QED
    BY <1>1, <1>3, <1>4, <2>1, Moved
<1>5. CASE deals[w].slot # 0 /\ deals[w].slot = runs[w].key
  <2>1. Moves(w, "ready")
    BY <1>5, Zenon DEF Look
  <2> QED
    BY <1>1, <1>3, <1>5, <2>1, Moved
<1>6. CASE deals[w].slot # 0 /\ deals[w].slot # runs[w].key
  <2>1. Fails(w)
    BY <1>6, Zenon DEF Look
  <2> QED
    BY <1>1, <1>3, <1>6, <2>1, Failed
<1> QED
  BY <1>4, <1>5, <1>6

\* A join that is accepted takes the slot; any other leaves it alone and cuts the run short.
LEMMA JoinDoes ==
  ASSUME TypeOK, BotInv, NEW w \in Swap, NEW lost \in BOOLEAN, Join(w, lost)
  PROVE  /\ OnlyTo(w) /\ UNCHANGED <<files, minted>> /\ runs[w].at = "join"
         /\ deals'[w].sent = deals[w].sent
         /\ \/ /\ deals[w].slot \in {0, runs[w].key} /\ deals'[w].slot = runs[w].key
               /\ \/ /\ runs'[w].at = "ready"
                     /\ runs'[w].key = runs[w].key /\ runs'[w].saved = runs[w].saved
                  \/ /\ runs'[w].at \in {"idle", "keys"} /\ ~runs'[w].saved
                     /\ runs'[w].key = 0 /\ ~Untroubled'
            \/ /\ deals'[w].slot = deals[w].slot
               /\ runs'[w].at \in {"idle", "keys"} /\ ~runs'[w].saved /\ runs'[w].key = 0
<1>1. UNCHANGED <<files, minted, up>> /\ runs[w].at = "join"
  BY DEF Join, At
<1>2. ASSUME runs' \in [Swap -> Run], \A v \in Swap \ {w} : runs'[v] = runs[v],
             deals' \in [Swap -> Deal], \A v \in Swap \ {w} : deals'[v] = deals[v],
             left' \in [Event -> Nat] /\ Crashes' = Crashes /\ Fewer
      PROVE  OnlyTo(w)
  BY <1>1, <1>2 DEF OnlyTo, TypeOK
<1>3. CASE Accepted(w)
  <2> DEFINE d == [deals[w] EXCEPT !.slot = runs[w].key]
  <2>1. d \in Deal /\ d.slot = runs[w].key /\ d.sent = deals[w].sent
    BY DEF TypeOK, Deal, Run
  <2>2. Changes(w, d) /\ deals[w].slot \in {0, runs[w].key}
    BY <1>3, Zenon DEF Join, Accepted
  <2> HIDE DEF d
  <2>3. deals' \in [Swap -> Deal] /\ deals'[w] = d /\ \A v \in Swap \ {w} : deals'[v] = deals[v]
    BY <2>1, <2>2, Changed
  <2>4. CASE lost
    <3>1. Use("lost") /\ Fails(w)
      BY <1>3, <2>4, Zenon DEF Join
    <3>2. left' \in [Event -> Nat] /\ Crashes' = Crashes /\ Fewer /\ ~Untroubled'
      BY <3>1, Cut
    <3> QED
      BY <1>1, <1>2, <2>1, <2>2, <2>3, <3>1, <3>2, Failed
  <2>5. CASE ~lost
    <3>1. Moves(w, "ready") /\ UNCHANGED left
      BY <1>3, <2>5, Zenon DEF Join
    <3>2. left' \in [Event -> Nat] /\ Crashes' = Crashes /\ Fewer
      BY <3>1, Kept
    <3> QED
      BY <1>1, <1>2, <2>1, <2>2, <2>3, <3>1, <3>2, Moved
  <2> QED
    BY <2>4, <2>5
<1>4. CASE ~Accepted(w)
  <2>1. Fails(w) /\ UNCHANGED <<deals, left>>
    BY <1>4, Zenon DEF Join
  <2>2. left' \in [Event -> Nat] /\ Crashes' = Crashes /\ Fewer
    BY <2>1, Kept
  <2>3. deals' \in [Swap -> Deal] /\ \A v \in Swap : deals'[v] = deals[v]
    BY <2>1 DEF TypeOK
  <2> QED
    BY <1>1, <1>2, <2>1, <2>2, <2>3, Failed
<1> QED
  BY <1>3, <1>4

\* The end of the wait: a joined slot, and nothing else touched.
LEMMA ReadyDoes ==
  ASSUME TypeOK, NEW w \in Swap, Ready(w)
  PROVE  /\ OnlyTo(w) /\ UNCHANGED <<deals, files, minted>> /\ runs[w].at = "ready"
         /\ runs'[w].at \in {"fund", "race"} /\ runs'[w].key = runs[w].key
         /\ runs'[w].saved = runs[w].saved
<1>1. UNCHANGED <<deals, files, minted, up, left>> /\ runs[w].at = "ready"
  BY DEF Ready, At
<1>2. left' \in [Event -> Nat] /\ Crashes' = Crashes /\ Fewer
  BY <1>1, Kept
<1>3. Moves(w, "race") \/ Moves(w, "fund")
  BY Zenon DEF Ready
<1>4. runs' \in [Swap -> Run] /\ \A v \in Swap \ {w} : runs'[v] = runs[v]
  BY <1>3, Moved
<1>5. OnlyTo(w)
  BY <1>1, <1>2, <1>4 DEF OnlyTo, TypeOK
<1> QED
  BY <1>1, <1>3, <1>5, Moved

\* One more deposit.
LEMMA FundDoes ==
  ASSUME TypeOK, BotInv, NEW w \in Swap, NEW lost \in BOOLEAN, Fund(w, lost)
  PROVE  /\ OnlyTo(w) /\ UNCHANGED <<files, minted>> /\ runs[w].at = "fund"
         /\ deals'[w].sent = deals[w].sent + 1 /\ deals'[w].slot = deals[w].slot
         /\ \/ /\ runs'[w].at = "race" /\ runs'[w].key = runs[w].key
               /\ runs'[w].saved = runs[w].saved
            \/ /\ runs'[w].at \in {"idle", "keys"} /\ ~runs'[w].saved
               /\ runs'[w].key = 0 /\ ~Untroubled'
<1>1. UNCHANGED <<files, minted, up>> /\ runs[w].at = "fund"
  BY DEF Fund, At
<1> DEFINE d == [deals[w] EXCEPT !.sent = deals[w].sent + 1]
<1>2. d \in Deal /\ d.sent = deals[w].sent + 1 /\ d.slot = deals[w].slot
  BY DEF TypeOK, Deal
<1>3. Changes(w, d)
  BY DEF Fund
<1> HIDE DEF d
<1>4. deals' \in [Swap -> Deal] /\ deals'[w] = d /\ \A v \in Swap \ {w} : deals'[v] = deals[v]
  BY <1>2, <1>3, Changed
<1>5. ASSUME runs' \in [Swap -> Run], \A v \in Swap \ {w} : runs'[v] = runs[v],
             left' \in [Event -> Nat] /\ Crashes' = Crashes /\ Fewer
      PROVE  OnlyTo(w)
  BY <1>1, <1>4, <1>5 DEF OnlyTo, TypeOK
<1>6. CASE lost
  <2>1. Use("lost") /\ Fails(w)
    BY <1>6, Zenon DEF Fund
  <2>2. left' \in [Event -> Nat] /\ Crashes' = Crashes /\ Fewer /\ ~Untroubled'
    BY <2>1, Cut
  <2> QED
    BY <1>1, <1>2, <1>4, <1>5, <2>1, <2>2, Failed
<1>7. CASE ~lost
  <2>1. Moves(w, "race") /\ UNCHANGED left
    BY <1>7, Zenon DEF Fund
  <2>2. left' \in [Event -> Nat] /\ Crashes' = Crashes /\ Fewer
    BY <2>1, Kept
  <2> QED
    BY <1>1, <1>2, <1>4, <1>5, <2>1, <2>2, Moved
<1> QED
  BY <1>6, <1>7

\* A run that ends leaves the slot, the deposits and the stored keys alone.
LEMMA EndDoes ==
  ASSUME TypeOK, NEW w \in Swap, Claim(w) \/ Refund(w) \/ Leave(w)
  PROVE  /\ OnlyTo(w) /\ UNCHANGED minted /\ runs[w].at = "race"
         /\ deals'[w].slot = deals[w].slot /\ deals'[w].sent = deals[w].sent
         /\ runs'[w].at = "idle" /\ runs'[w].key = 0 /\ ~runs'[w].saved
         /\ files'[w].key = files[w].key
<1>1. Done(w) /\ UNCHANGED <<minted, up, left>> /\ runs[w].at = "race"
  BY DEF Claim, Refund, Leave, At
<1>2. left' \in [Event -> Nat] /\ Crashes' = Crashes /\ Fewer
  BY <1>1, Kept
<1>3. ASSUME NEW s \in {"COMPLETE", "REFUNDED"}
      PROVE  LET d == [deals[w] EXCEPT !.marks = deals[w].marks \cup {"back"}, !.state = s]
             IN  d \in Deal /\ d.slot = deals[w].slot /\ d.sent = deals[w].sent
  BY DEF TypeOK, Deal
<1>4. \/ \E d \in Deal : Changes(w, d) /\ d.slot = deals[w].slot /\ d.sent = deals[w].sent
      \/ UNCHANGED deals
  BY <1>3 DEF Claim, Refund, Leave
<1>5. /\ deals' \in [Swap -> Deal] /\ \A v \in Swap \ {w} : deals'[v] = deals[v]
      /\ deals'[w].slot = deals[w].slot /\ deals'[w].sent = deals[w].sent
  BY <1>4, Changed DEF TypeOK
<1>6. /\ runs' \in [Swap -> Run] /\ files' \in [Swap -> File]
      /\ \A v \in Swap \ {w} : runs'[v] = runs[v] /\ files'[v] = files[v]
  BY <1>1, Retired
<1>7. OnlyTo(w)
  BY <1>1, <1>2, <1>5, <1>6 DEF OnlyTo, TypeOK
<1>8. runs'[w].at = "idle" /\ runs'[w].key = 0 /\ ~runs'[w].saved /\ files'[w].key = files[w].key
  BY <1>1, Retired DEF NoRun
<1> QED
  BY <1>1, <1>5, <1>7, <1>8

-----------------------------------------------------------------------------
\* A step that touches one swap, on it and on every other.
LEMMA TypeOnly == ASSUME TypeOK, NEW w \in Swap, OnlyTo(w) PROVE TypeOK'
  BY DEF OnlyTo, TypeOK

\* Every step keeps the types.
LEMMA TypeStep == TypeOK /\ BotInv /\ [Next]_vars => TypeOK'
<1> SUFFICES ASSUME TypeOK, BotInv, [Next]_vars PROVE TypeOK' OBVIOUS
<1>1. ASSUME NEW w \in Swap, WorldStep(w) PROVE TypeOK'
  BY <1>1, World DEF TypeOK
<1>2. ASSUME NEW w \in Swap, Ping(w) \/ Throws(w) \/ TimesOut(w) \/ Join(w, TRUE) \/ Fund(w, TRUE)
      PROVE  TypeOK'
  BY <1>2, PingDoes, CutDoes, JoinDoes, FundDoes, TypeOnly
<1>3. ASSUME NEW w \in Swap, BotStep(w) PROVE TypeOK'
  BY <1>3, KeysDoes, LookDoes, JoinDoes, ReadyDoes, FundDoes, EndDoes, TypeOnly DEF BotStep
<1>4. CASE Crash
  <2>1. left' \in [Event -> Nat]
    BY <1>4, Spent DEF Crash, Event
  <2>2. runs' \in [Swap -> Run]
    BY <1>4 DEF Crash, NoRun, Run
  <2> QED
    BY <1>4, <2>1, <2>2, Zenon DEF Crash, TypeOK
<1>5. CASE ResumePending
  <2>1. runs' \in [Swap -> Run]
    BY <1>5, SMT DEF ResumePending, Start, NoRun, Run, TypeOK
  <2> QED
    BY <1>5, <2>1, Zenon DEF ResumePending, TypeOK
<1>6. CASE UNCHANGED vars
  BY <1>6, Zenon DEF vars, TypeOK
<1> QED
  BY <1>1, <1>2, <1>3, <1>4, <1>5, <1>6 DEF Next

\* The budget only shrinks, so that trouble once met is never forgotten.
LEMMA Trouble ==
  ASSUME TypeOK, BotInv, left' \in [Event -> Nat], Fewer
  PROVE  (\A e \in Event : left'[e] <= Budget[e]) /\ (Untroubled' => Untroubled)
<1>1. \A e \in Event : left[e] <= Budget[e] /\ left[e] \in Nat /\ left'[e] \in Nat /\ Budget[e] \in Nat
                       /\ left'[e] <= left[e]
  BY BotAssumption DEF BotInv, TypeOK, Fewer
<1>2. \A e \in Event : left'[e] <= Budget[e] /\ (left'[e] = Budget[e] => left[e] = Budget[e])
  BY <1>1
<1>3. {"throws", "timeout", "lost"} \subseteq Event
  BY DEF Event
<1> QED
  BY <1>2, <1>3, Zenon DEF Untroubled

\* Parts of the invariant about a swap that a step leaves alone.
LEMMA Left ==
  ASSUME TypeOK, TypeOK', NEW v \in Swap, deals'[v].slot = deals[v].slot,
         deals'[v].sent = deals[v].sent, runs'[v] = runs[v], files'[v] = files[v],
         minted <= minted', Crashes' = Crashes
  PROVE  /\ NotPaid(v) => NotPaid(v)'
         /\ RecordKept(v) => RecordKept(v)'
         /\ deals[v].sent <= 1 + Crashes => deals'[v].sent <= 1 + Crashes'
<1>1. /\ deals[v].slot \in Nat /\ runs[v].key \in Nat /\ files[v].key \in Nat
      /\ minted \in Nat /\ minted' \in Nat
  BY DEF TypeOK, Deal, Run, File
<1>2. \A n \in Nat : n <= minted => n <= minted'
  BY <1>1
<1>3. NotPaid(v) => NotPaid(v)'
  BY <1>1, <1>2, Zenon DEF NotPaid
<1>4. RecordKept(v) => RecordKept(v)'
  BY Zenon DEF RecordKept
<1> QED
  BY <1>3, <1>4, Zenon

\* Enough to show that a step on one swap keeps the invariant: show it of that swap.
LEMMA OneSwap ==
  ASSUME TypeOK, BotInv, NEW w \in Swap, OnlyTo(w), up,
         deals'[w].sent <= 1 + Crashes, NotPaid(w)',
         Untroubled' => RecordKept(w)'
  PROVE  BotInv'
<1>1. TypeOK' /\ up' /\ left' \in [Event -> Nat] /\ Fewer /\ minted <= minted' /\ Crashes' = Crashes
  BY TypeOnly, Zenon DEF OnlyTo
<1>2. (\A e \in Event : left'[e] <= Budget[e]) /\ (Untroubled' => Untroubled)
  BY <1>1, Trouble
<1>3. ASSUME NEW v \in Swap \ {w}
      PROVE  NotPaid(v)' /\ deals'[v].sent <= 1 + Crashes' /\ (RecordKept(v) => RecordKept(v)')
  BY <1>1, Left, Zenon DEF OnlyTo, BotInv, FundsOnce
<1>4. \A v \in Swap : NotPaid(v)' /\ deals'[v].sent <= 1 + Crashes'
  BY <1>1, <1>3, Zenon
<1>5. Untroubled' => \A v \in Swap : RecordKept(v)'
  BY <1>2, <1>3, Zenon DEF BotInv
<1> QED
  BY <1>1, <1>2, <1>4, <1>5, Zenon DEF BotInv, FundsOnce

-----------------------------------------------------------------------------
\* The numbers that the invariant compares.
LEMMA Numbers ==
  ASSUME TypeOK, NEW w \in Swap
  PROVE  /\ deals[w].slot \in Nat /\ deals[w].sent \in Nat
         /\ runs[w].key \in Nat /\ files[w].key \in Nat /\ minted \in Nat /\ Crashes \in Int
<1>1. deals[w].slot \in Nat /\ deals[w].sent \in Nat
  BY DEF TypeOK, Deal
<1>2. runs[w].key \in Nat /\ files[w].key \in Nat /\ minted \in Nat
  BY DEF TypeOK, Run, File
<1>3. Crashes \in Int
  BY BotAssumption DEF TypeOK, Crashes, Event
<1> QED
  BY <1>1, <1>2, <1>3

\* A run that starts over or ends has no key in hand: it cannot pay before it
\* has joined with fresh keys, which the coordinator refuses for a taken slot.
LEMMA OverInv ==
  ASSUME TypeOK, BotInv, NEW w \in Swap, OnlyTo(w), UNCHANGED minted,
         runs'[w].at \in {"idle", "keys"}, ~runs'[w].saved, runs'[w].key = 0,
         deals'[w].slot = 0 => deals'[w].sent = 0, deals'[w].slot <= minted,
         files'[w].key = files[w].key, files'[w].st # "none" => files[w].key # 0
  PROVE  NotPaid(w)'
<1>1. files[w].key <= minted /\ 0 <= minted
  BY Numbers DEF BotInv, NotPaid
<1> QED
  BY <1>1, Zenon DEF NotPaid

\* Each action on a swap keeps the invariant.
LEMMA PingInv == ASSUME TypeOK, BotInv, NEW w \in Swap, Ping(w) PROVE BotInv'
<1>1. up /\ NotPaid(w) /\ deals[w].sent <= 1 + Crashes
  BY Zenon DEF Ping, At, BotInv, FundsOnce
<1>2. NotPaid(w)'
  BY <1>1, PingDoes, Numbers DEF NotPaid, OnlyTo
<1>3. RecordKept(w)'
  BY <1>1, PingDoes, Zenon DEF RecordKept
<1> QED
  BY <1>1, <1>2, <1>3, PingDoes, OneSwap

\* A run cut short has lost its keys, not its record.
LEMMA CutInv == ASSUME TypeOK, BotInv, NEW w \in Swap, Throws(w) \/ TimesOut(w) PROVE BotInv'
<1>1. up /\ NotPaid(w) /\ deals[w].sent <= 1 + Crashes
  BY Zenon DEF Throws, TimesOut, At, BotInv, FundsOnce
<1>2. NotPaid(w)'
  BY <1>1, CutDoes, OverInv, Zenon DEF NotPaid
<1> QED
  BY <1>1, <1>2, CutDoes, OneSwap

\* Fresh keys are a new number, above every slot and every stored key.
LEMMA KeysInv == ASSUME TypeOK, BotInv, NEW w \in Swap, Keys(w) PROVE BotInv'
<1>1. up /\ NotPaid(w) /\ deals[w].sent <= 1 + Crashes /\ (Untroubled => RecordKept(w))
  BY Zenon DEF Keys, At, BotInv, FundsOnce
<1>2. OnlyTo(w) /\ UNCHANGED deals /\ Crashes' = Crashes /\ (Untroubled' => Untroubled)
  BY KeysDoes, Trouble, Zenon DEF OnlyTo
<1>3. minted + 1 # 0 /\ deals[w].slot <= minted + 1 /\ minted + 1 <= minted + 1
      /\ deals[w].slot # minted + 1 /\ runs[w].key <= minted + 1
  BY <1>1, Numbers DEF NotPaid
<1>4. CASE runs[w].saved
  <2>1. NotPaid(w)'
    BY <1>1, <1>2, <1>4, KeysDoes, Zenon DEF NotPaid
  <2>2. RecordKept(w) => RecordKept(w)'
    BY <1>2, <1>4, KeysDoes, Zenon DEF RecordKept
  <2> QED
    BY <1>1, <1>2, <2>1, <2>2, OneSwap
<1>5. CASE ~runs[w].saved
  <2>1. NotPaid(w)'
    BY <1>1, <1>2, <1>3, <1>5, KeysDoes, Zenon DEF NotPaid
  <2>2. RecordKept(w) => RecordKept(w)'
    BY <1>2, <1>5, KeysDoes, Zenon DEF RecordKept
  <2> QED
    BY <1>1, <1>2, <2>1, <2>2, OneSwap
<1> QED
  BY <1>4, <1>5

\* A resumed run goes on with the keys the slot was joined with.
LEMMA LookInv == ASSUME TypeOK, BotInv, NEW w \in Swap, Look(w) PROVE BotInv'
<1>1. up /\ NotPaid(w) /\ deals[w].sent <= 1 + Crashes /\ (Untroubled => RecordKept(w))
  BY Zenon DEF Look, At, BotInv, FundsOnce
<1>2. OnlyTo(w) /\ UNCHANGED <<deals, files, minted>> /\ Crashes' = Crashes /\ (Untroubled' => Untroubled)
      /\ runs[w].at = "look"
  BY LookDoes, Trouble, Zenon DEF OnlyTo
<1>3. CASE deals[w].slot = 0 /\ runs'[w].at = "join"
           /\ runs'[w].key = runs[w].key /\ runs'[w].saved = runs[w].saved
  <2>1. NotPaid(w)' /\ (RecordKept(w) => RecordKept(w)')
    BY <1>1, <1>2, <1>3, Zenon DEF NotPaid, RecordKept
  <2> QED
    BY <1>1, <1>2, <2>1, OneSwap
<1>4. CASE deals[w].slot = runs[w].key /\ runs'[w].at = "ready"
           /\ runs'[w].key = runs[w].key /\ runs'[w].saved = runs[w].saved
  <2>1. NotPaid(w)' /\ (RecordKept(w) => RecordKept(w)')
    BY <1>1, <1>2, <1>4, Zenon DEF NotPaid, RecordKept
  <2> QED
    BY <1>1, <1>2, <2>1, OneSwap
<1>5. CASE deals[w].slot \notin {0, runs[w].key}
           /\ runs'[w].at \in {"idle", "keys"} /\ ~runs'[w].saved /\ runs'[w].key = 0
  <2>1. NotPaid(w)'
    BY <1>1, <1>2, <1>5, OverInv, Zenon DEF NotPaid
  <2>2. ~RecordKept(w)
    BY <1>2, <1>5 DEF RecordKept
  <2> QED
    BY <1>1, <1>2, <2>1, <2>2, OneSwap
<1> QED
  BY <1>3, <1>4, <1>5, LookDoes

\* The slot is taken once: whoever joins it had not paid.
LEMMA JoinInv ==
  ASSUME TypeOK, BotInv, NEW w \in Swap, NEW lost \in BOOLEAN, Join(w, lost) PROVE BotInv'
<1>1. up /\ NotPaid(w) /\ deals[w].sent <= 1 + Crashes /\ (Untroubled => RecordKept(w))
  BY Zenon DEF Join, At, BotInv, FundsOnce
<1>2. OnlyTo(w) /\ UNCHANGED <<files, minted>> /\ Crashes' = Crashes /\ (Untroubled' => Untroubled)
      /\ runs[w].at = "join" /\ deals'[w].sent = deals[w].sent
  BY JoinDoes, Trouble, Zenon DEF OnlyTo
<1>3. CASE deals[w].slot \in {0, runs[w].key} /\ deals'[w].slot = runs[w].key
  <2>1. deals[w].slot = 0 /\ deals[w].sent = 0 /\ runs[w].key # 0 /\ runs[w].key <= minted
    BY <1>1, <1>2, <1>3, Zenon DEF NotPaid
  <2>2. 0 <= Crashes
    BY BotAssumption DEF TypeOK, BotInv, Crashes, Event
  <2>3. CASE runs'[w].at = "ready" /\ runs'[w].key = runs[w].key /\ runs'[w].saved = runs[w].saved
    <3>1. NotPaid(w)' /\ (RecordKept(w) => RecordKept(w)')
      BY <1>1, <1>2, <1>3, <2>1, <2>2, <2>3, Zenon DEF NotPaid, RecordKept
    <3> QED
      BY <1>1, <1>2, <3>1, OneSwap
  <2>4. CASE runs'[w].at \in {"idle", "keys"} /\ ~runs'[w].saved /\ runs'[w].key = 0 /\ ~Untroubled'
    <3>1. NotPaid(w)'
      BY <1>1, <1>2, <1>3, <2>1, <2>4, OverInv, Zenon DEF NotPaid
    <3> QED
      BY <1>1, <1>2, <2>4, <3>1, OneSwap
  <2>5. CASE deals'[w].slot = deals[w].slot
    BY <1>3, <2>1, <2>5
  <2> QED
    BY <2>3, <2>4, <2>5, JoinDoes
<1>4. CASE deals'[w].slot = deals[w].slot
           /\ runs'[w].at \in {"idle", "keys"} /\ ~runs'[w].saved /\ runs'[w].key = 0
  <2>1. NotPaid(w)' /\ (RecordKept(w) => RecordKept(w)')
    BY <1>1, <1>2, <1>4, OverInv, Zenon DEF NotPaid, RecordKept
  <2> QED
    BY <1>1, <1>2, <2>1, OneSwap
<1> QED
  BY <1>3, <1>4, JoinDoes

\* The wait changes nothing the invariant speaks of.
LEMMA ReadyInv == ASSUME TypeOK, BotInv, NEW w \in Swap, Ready(w) PROVE BotInv'
<1>1. up /\ NotPaid(w) /\ deals[w].sent <= 1 + Crashes /\ (Untroubled => RecordKept(w))
  BY Zenon DEF Ready, At, BotInv, FundsOnce
<1>2. OnlyTo(w) /\ UNCHANGED <<deals, files, minted>> /\ Crashes' = Crashes /\ (Untroubled' => Untroubled)
  BY ReadyDoes, Trouble, Zenon DEF OnlyTo
<1>3. NotPaid(w)' /\ (RecordKept(w) => RecordKept(w)')
  BY <1>1, <1>2, ReadyDoes, Zenon DEF NotPaid, RecordKept
<1> QED
  BY <1>1, <1>2, <1>3, OneSwap

\* The one step that pays: no deposit came before it in this life of the process.
LEMMA FundInv ==
  ASSUME TypeOK, BotInv, NEW w \in Swap, NEW lost \in BOOLEAN, Fund(w, lost) PROVE BotInv'
<1>1. up /\ NotPaid(w) /\ (Untroubled => RecordKept(w))
  BY Zenon DEF Fund, At, BotInv
<1>2. OnlyTo(w) /\ UNCHANGED <<files, minted>> /\ Crashes' = Crashes /\ (Untroubled' => Untroubled)
      /\ runs[w].at = "fund" /\ deals'[w].slot = deals[w].slot
  BY FundDoes, Trouble, Zenon DEF OnlyTo
<1>3. deals[w].sent <= Crashes /\ deals[w].slot # 0
  BY <1>1, <1>2 DEF NotPaid
<1>4. deals'[w].sent <= 1 + Crashes
  BY <1>3, FundDoes, Numbers
<1>5. CASE runs'[w].at = "race" /\ runs'[w].key = runs[w].key /\ runs'[w].saved = runs[w].saved
  <2>1. NotPaid(w)' /\ (RecordKept(w) => RecordKept(w)')
    BY <1>1, <1>2, <1>3, <1>5, Zenon DEF NotPaid, RecordKept
  <2> QED
    BY <1>1, <1>2, <1>4, <2>1, OneSwap
<1>6. CASE runs'[w].at \in {"idle", "keys"} /\ ~runs'[w].saved /\ runs'[w].key = 0 /\ ~Untroubled'
  <2>1. NotPaid(w)'
    BY <1>1, <1>2, <1>3, <1>6, OverInv, Zenon DEF NotPaid
  <2> QED
    BY <1>1, <1>2, <1>4, <1>6, <2>1, OneSwap
<1> QED
  BY <1>5, <1>6, FundDoes

\* A run that ends leaves its record behind.
LEMMA EndInv ==
  ASSUME TypeOK, BotInv, NEW w \in Swap, Claim(w) \/ Refund(w) \/ Leave(w) PROVE BotInv'
<1>1. up /\ NotPaid(w) /\ deals[w].sent <= 1 + Crashes /\ (Untroubled => RecordKept(w))
  BY Zenon DEF Claim, Refund, Leave, At, BotInv, FundsOnce
<1>2. OnlyTo(w) /\ UNCHANGED minted /\ Crashes' = Crashes /\ (Untroubled' => Untroubled)
      /\ runs[w].at = "race" /\ deals'[w].slot = deals[w].slot /\ deals'[w].sent = deals[w].sent
      /\ runs'[w].at = "idle" /\ runs'[w].key = 0 /\ ~runs'[w].saved /\ files'[w].key = files[w].key
  BY EndDoes, Trouble, Zenon DEF OnlyTo
<1>3. runs[w].key # 0
  BY <1>1, <1>2 DEF NotPaid
<1>4. files[w].key # 0
  BY <1>1, <1>2 DEF NotPaid
<1>5. NotPaid(w)' /\ (RecordKept(w) => RecordKept(w)')
  BY <1>1, <1>2, <1>4, OverInv, Zenon DEF NotPaid, RecordKept
<1> QED
  BY <1>1, <1>2, <1>5, OneSwap

\* The rest of the world leaves slots, deposits, runs and records alone.
LEMMA WorldInv == ASSUME TypeOK, BotInv, NEW w \in Swap, WorldStep(w) PROVE BotInv'
<1>1. /\ TypeOK' /\ UNCHANGED <<runs, files, minted, up>> /\ Crashes' = Crashes
      /\ left' \in [Event -> Nat] /\ Fewer
      /\ \A v \in Swap : deals'[v].slot = deals[v].slot /\ deals'[v].sent = deals[v].sent
  BY World DEF TypeOK, Fewer
<1>2. (\A e \in Event : left'[e] <= Budget[e]) /\ (Untroubled' => Untroubled)
  BY <1>1, Trouble
<1>3. minted <= minted'
  BY <1>1 DEF TypeOK
<1>4. \A v \in Swap : NotPaid(v)' /\ deals'[v].sent <= 1 + Crashes' /\ (RecordKept(v) => RecordKept(v)')
  BY <1>1, <1>3, Left, Zenon DEF BotInv, FundsOnce
<1>5. ~up' => \A v \in Swap : deals'[v].sent <= Crashes'
  BY <1>1, Zenon DEF BotInv
<1> QED
  BY <1>2, <1>4, <1>5, Zenon DEF BotInv, FundsOnce

\* A stop makes room for one more deposit, and takes the runs with it.
LEMMA CrashInv == ASSUME TypeOK, BotInv, Crash PROVE BotInv'
<1>1. ~up' /\ UNCHANGED <<deals, files, minted>> /\ Use("crash") /\ "crash" \in Event
  BY Zenon DEF Crash, Event
<1>2. left' \in [Event -> Nat] /\ Fewer /\ Crashes' = Crashes + 1
  BY <1>1, Spent DEF Fewer
<1>3. (\A e \in Event : left'[e] <= Budget[e]) /\ (Untroubled' => Untroubled)
  BY <1>2, Trouble
<1>4. ASSUME NEW v \in Swap
      PROVE  runs'[v].at = "idle" /\ runs'[v].key = 0 /\ ~runs'[v].saved
  <2>1. runs'[v] = NoRun
    BY DEF Crash
  <2> QED
    BY <2>1 DEF NoRun
<1>5. ASSUME NEW v \in Swap PROVE deals[v].sent <= Crashes' /\ deals[v].sent <= 1 + Crashes' /\ 0 <= minted
  BY <1>2, Numbers DEF BotInv, FundsOnce
<1>6. ASSUME NEW v \in Swap PROVE NotPaid(v)'
  BY <1>1, <1>4, <1>5, Zenon DEF BotInv, NotPaid
<1>7. ASSUME NEW v \in Swap, RecordKept(v) PROVE RecordKept(v)'
  BY <1>1, <1>4, <1>7, Zenon DEF RecordKept
<1> QED
  BY <1>1, <1>3, <1>5, <1>6, <1>7, Zenon DEF BotInv, FundsOnce

\* The resumed runs go by their records.
LEMMA ResumeInv == ASSUME TypeOK, BotInv, ResumePending PROVE BotInv'
<1>1. ~up /\ up' /\ UNCHANGED <<deals, files, minted, left>>
  BY Zenon DEF ResumePending
<1>2. left' \in [Event -> Nat] /\ Fewer /\ Crashes' = Crashes
  BY <1>1, Kept
<1>3. (\A e \in Event : left'[e] <= Budget[e]) /\ (Untroubled' => Untroubled)
  BY <1>2, Trouble
<1>4. ASSUME NEW v \in Swap
      PROVE  /\ runs'[v].at \in {"idle", "keys"} /\ runs'[v].key = 0
             /\ runs'[v].at = "keys" => runs'[v].saved
             /\ runs'[v].saved => files[v].st # "none"
  <2>1. runs'[v] = IF files[v].st = "open" THEN Start(TRUE, 0) ELSE NoRun
    BY Zenon DEF ResumePending
  <2>2. CASE files[v].st = "open"
    <3>1. runs'[v] = Start(TRUE, 0)
      BY <2>1, <2>2, Zenon
    <3>2. runs'[v].at = "keys" /\ runs'[v].key = 0 /\ runs'[v].saved
      BY <3>1 DEF Start
    <3> QED
      BY <2>2, <3>2
  <2>3. CASE files[v].st # "open"
    <3>1. runs'[v] = NoRun
      BY <2>1, <2>3, Zenon
    <3>2. runs'[v].at = "idle" /\ runs'[v].key = 0 /\ ~runs'[v].saved
      BY <3>1 DEF NoRun
    <3> QED
      BY <3>2
  <2> QED
    BY <2>2, <2>3
<1>5. ASSUME NEW v \in Swap PROVE deals[v].sent <= Crashes' /\ deals[v].sent <= 1 + Crashes' /\ 0 <= minted
  BY <1>1, <1>2, Numbers DEF BotInv, FundsOnce
<1>6. ASSUME NEW v \in Swap PROVE NotPaid(v)'
  BY <1>1, <1>4, <1>5, Zenon DEF BotInv, NotPaid
<1>7. ASSUME NEW v \in Swap, RecordKept(v) PROVE RecordKept(v)'
  BY <1>1, <1>4, <1>7, Zenon DEF RecordKept
<1> QED
  BY <1>1, <1>3, <1>5, <1>6, <1>7, Zenon DEF BotInv, FundsOnce

\* Every step of the system keeps the invariant.
LEMMA InvStep == TypeOK /\ BotInv /\ [Next]_vars => BotInv'
<1> SUFFICES ASSUME TypeOK, BotInv, [Next]_vars PROVE BotInv' OBVIOUS
<1>1. ASSUME NEW w \in Swap, WorldStep(w) PROVE BotInv'
  BY <1>1, WorldInv
<1>2. ASSUME NEW w \in Swap, Ping(w) \/ Throws(w) \/ TimesOut(w) \/ Join(w, TRUE) \/ Fund(w, TRUE)
      PROVE  BotInv'
  BY <1>2, PingInv, CutInv, JoinInv, FundInv
<1>3. ASSUME NEW w \in Swap, BotStep(w) PROVE BotInv'
  BY <1>3, KeysInv, LookInv, JoinInv, ReadyInv, FundInv, EndInv DEF BotStep
<1>4. CASE Crash \/ ResumePending
  BY <1>4, CrashInv, ResumeInv
<1>5. CASE UNCHANGED vars
  BY <1>5, Zenon DEF vars, BotInv, FundsOnce, NotPaid, RecordKept, Untroubled, Crashes
<1> QED
  BY <1>1, <1>2, <1>3, <1>4, <1>5 DEF Next

-----------------------------------------------------------------------------
\* The types and the inductive invariant, for any number of swaps and events.
THEOREM Invariant == Spec => [](TypeOK /\ BotInv)
<1>1. Init => TypeOK /\ BotInv
  BY InitType, InitInv
<1>2. TypeOK /\ BotInv /\ [Next]_vars => (TypeOK /\ BotInv)'
  BY TypeStep, InvStep
<1> QED
  BY <1>1, <1>2, PTL DEF Spec

\* Through any sequence of retries, lost answers and restarts, the wallet pays
\* a swap at most once, and once more per restart.
THEOREM PaysOnce == Spec => []FundsOnce
<1>1. BotInv => FundsOnce
  BY DEF BotInv
<1> QED
  BY <1>1, Invariant, PTL

\* As long as no run had to be retried, the keystore holds the keys of every
\* joined swap: a restart at any step can go on with it.
THEOREM KeysStored == Spec => []KeyIsStored
<1>1. BotInv => KeyIsStored
  BY Zenon DEF BotInv, KeyIsStored, KeysSafe, RecordKept
<1> QED
  BY <1>1, Invariant, PTL

-----------------------------------------------------------------------------
\* One step of the bot's on a swap, or on its behalf.
Works(w) == BotStep(w) \/ Join(w, TRUE) \/ Fund(w, TRUE) \/ Ping(w) \/ Throws(w) \/ TimesOut(w)

\* The bot changes neither the match nor what is known of the taker.
LEMMA WorksParties ==
  ASSUME TypeOK, NEW w \in Swap, Works(w)
  PROVE  \A v \in Swap : deals'[v].role = deals[v].role /\ deals'[v].peer = deals[v].peer
<1> DEFINE D == { d \in Deal : d.role = deals[w].role /\ d.peer = deals[w].peer }
<1>1. deals[w] \in Deal /\ runs[w].key \in Nat
  BY DEF TypeOK, Run
<1>2. [deals[w] EXCEPT !.slot = runs[w].key] \in D
  BY <1>1 DEF Deal
<1>3. [deals[w] EXCEPT !.sent = @ + 1] \in D
  BY <1>1 DEF Deal
<1>4. ASSUME NEW s \in {"COMPLETE", "REFUNDED"}
      PROVE  [deals[w] EXCEPT !.marks = @ \cup {"back"}, !.state = s] \in D
  BY <1>1 DEF Deal
<1>5. UNCHANGED deals \/ \E d \in D : Changes(w, d)
  <2>1. CASE \E lost \in BOOLEAN : Join(w, lost)
    BY <1>2, <2>1 DEF Join
  <2>2. CASE \E lost \in BOOLEAN : Fund(w, lost)
    BY <1>3, <2>2 DEF Fund
  <2>3. CASE Claim(w) \/ Refund(w)
    BY <1>4, <2>3 DEF Claim, Refund
  <2>4. CASE Keys(w) \/ Look(w) \/ Ready(w) \/ Leave(w) \/ Ping(w) \/ Throws(w) \/ TimesOut(w)
    BY <2>4, Zenon DEF Keys, Look, Ready, Leave, Ping, Throws, TimesOut
  <2> QED
    BY <2>1, <2>2, <2>3, <2>4 DEF Works, BotStep
<1>6. ASSUME NEW d \in D, Changes(w, d)
      PROVE  \A v \in Swap : deals'[v].role = deals[v].role /\ deals'[v].peer = deals[v].peer
  BY <1>6, Changed
<1> QED
  BY <1>5, <1>6

\* A match is for good, and a deposit of the taker's stays one that was made.
LEMMA WorldParties ==
  ASSUME TypeOK, NEW w \in Swap, WorldStep(w)
  PROVE  \A v \in Swap :
           /\ deals[v].role # "none" => deals'[v].role = deals[v].role
           /\ deals[v].peer \in {"funded", "gone"} => deals'[v].peer \in {"funded", "gone"}
<1> DEFINE D == { d \in Deal :
                   /\ deals[w].role # "none" => d.role = deals[w].role
                   /\ deals[w].peer \in {"funded", "gone"} => d.peer \in {"funded", "gone"} }
<1>1. deals[w] \in Deal
  BY DEF TypeOK
<1>2. \E d \in D : Changes(w, d)
  <2>1. ASSUME NEW r \in {"alice", "bob"}, Match(w, r) PROVE \E d \in D : Changes(w, d)
    <3>1. [deals[w] EXCEPT !.role = r] \in D
      BY <1>1, <2>1 DEF Deal, Match
    <3> QED
      BY <2>1, <3>1 DEF Match
  <2>2. CASE PeerJoins(w)
    <3>1. [deals[w] EXCEPT !.peer = "joined"] \in D
      BY <1>1, <2>2 DEF Deal, PeerJoins
    <3> QED
      BY <2>2, <3>1 DEF PeerJoins
  <2>3. CASE PeerFunds(w)
    <3>1. [deals[w] EXCEPT !.peer = "funded"] \in D
      BY <1>1 DEF Deal
    <3> QED
      BY <2>3, <3>1 DEF PeerFunds
  <2>4. CASE PeerCancels(w)
    <3>1. [deals[w] EXCEPT !.state = "CANCELED"] \in D
      BY <1>1 DEF Deal
    <3> QED
      BY <2>4, <3>1 DEF PeerCancels
  <2>5. CASE PeerRefunds(w)
    <3>1. [deals[w] EXCEPT !.peer = "gone", !.state = "REFUNDED"] \in D
      BY <1>1 DEF Deal
    <3> QED
      BY <2>5, <3>1 DEF PeerRefunds
  <2>6. CASE Sees(w)
    <3>1. [deals[w] EXCEPT !.marks = @ \cup {"seen"}] \in D
      BY <1>1 DEF Deal
    <3> QED
      BY <2>6, <3>1 DEF Sees
  <2>7. CASE TimelockPasses(w)
    <3>1. [deals[w] EXCEPT !.marks = @ \cup {"due"}] \in D
      BY <1>1 DEF Deal
    <3> QED
      BY <2>7, <3>1 DEF TimelockPasses
  <2>8. CASE PeerClaims(w)
    <3>1. [deals[w] EXCEPT !.marks = @ \cup {"shown"}] \in D
      BY <1>1 DEF Deal
    <3> QED
      BY <2>8, <3>1 DEF PeerClaims
  <2> QED
    BY <2>1, <2>2, <2>3, <2>4, <2>5, <2>6, <2>7, <2>8 DEF WorldStep
<1>3. ASSUME NEW d \in D, Changes(w, d)
      PROVE  \A v \in Swap :
               /\ deals[v].role # "none" => deals'[v].role = deals[v].role
               /\ deals[v].peer \in {"funded", "gone"} => deals'[v].peer \in {"funded", "gone"}
  BY <1>3, Changed
<1> QED
  BY <1>2, <1>3

\* A step of the bot's is on a matched swap, pays only from its fourth step,
\* and reaches that step only once the wait is over.
LEMMA WorksLocks ==
  ASSUME TypeOK, BotInv, BehindInv, NEW w \in Swap, Works(w)
  PROVE  /\ OnlyTo(w) /\ deals[w].role # "none"
         /\ deals'[w].sent = deals[w].sent \/ runs[w].at = "fund"
         /\ runs'[w].at # "fund" \/ Awaited(w)
<1>1. CASE Ping(w)
  BY <1>1, PingDoes DEF Ping
<1>2. CASE Throws(w) \/ TimesOut(w)
  BY <1>2, CutDoes DEF Throws, TimesOut, BehindInv, At
<1>3. CASE Keys(w)
  BY <1>3, KeysDoes DEF BehindInv
<1>4. CASE Look(w)
  BY <1>4, LookDoes DEF BehindInv
<1>5. ASSUME NEW lost \in BOOLEAN, Join(w, lost)
      PROVE  /\ OnlyTo(w) /\ deals[w].role # "none"
             /\ deals'[w].sent = deals[w].sent /\ runs'[w].at # "fund"
  BY <1>5, JoinDoes DEF BehindInv
<1>6. CASE Ready(w)
  BY <1>6, ReadyDoes DEF BehindInv, Ready
<1>7. ASSUME NEW lost \in BOOLEAN, Fund(w, lost)
      PROVE  /\ OnlyTo(w) /\ deals[w].role # "none"
             /\ runs[w].at = "fund" /\ runs'[w].at # "fund"
  BY <1>7, FundDoes DEF BehindInv
<1>8. CASE Claim(w) \/ Refund(w) \/ Leave(w)
  BY <1>8, EndDoes DEF BehindInv
<1> QED
  BY <1>1, <1>2, <1>3, <1>4, <1>5, <1>6, <1>7, <1>8 DEF Works, BotStep

\* Every step keeps the deposit of bob behind that of the taker.
LEMMA BehindStep == TypeOK /\ BotInv /\ BehindInv /\ [Next]_vars => BehindInv'
<1> SUFFICES ASSUME TypeOK, BotInv, BehindInv, [Next]_vars PROVE BehindInv' OBVIOUS
<1>1. ASSUME NEW w \in Swap, WorldStep(w) PROVE BehindInv'
  <2>1. /\ UNCHANGED <<runs, files>> /\ \A v \in Swap : deals'[v].sent = deals[v].sent
        /\ \A v \in Swap :
             /\ deals[v].role # "none" => deals'[v].role = deals[v].role
             /\ deals[v].peer \in {"funded", "gone"} => deals'[v].peer \in {"funded", "gone"}
    BY <1>1, World, WorldParties
  <2>2. \A v \in Swap : deals[v].role = "none" => ~(deals[v].sent > 0) /\ runs[v].at # "fund"
    BY DEF BehindInv
  <2> QED
    BY <2>1, <2>2, Zenon DEF BehindInv, FundsBehindPeer
<1>2. ASSUME NEW w \in Swap, Works(w) PROVE BehindInv'
  <2>1. /\ OnlyTo(w) /\ deals[w].role # "none"
        /\ deals'[w].sent = deals[w].sent \/ runs[w].at = "fund"
        /\ runs'[w].at # "fund" \/ Awaited(w)
        /\ \A v \in Swap : deals'[v].role = deals[v].role /\ deals'[v].peer = deals[v].peer
    BY <1>2, WorksLocks, WorksParties
  <2>2. \A v \in Swap \ {w} :
          deals'[v].sent = deals[v].sent /\ runs'[v] = runs[v] /\ files'[v] = files[v]
    BY <2>1, Zenon DEF OnlyTo
  <2>3. Awaited(w) /\ deals[w].role = "bob" => deals[w].peer \in {"funded", "gone"}
    BY DEF Awaited
  <2>4. FundsBehindPeer'
    BY <2>1, <2>2, Zenon DEF BehindInv, FundsBehindPeer
  <2>5. ASSUME NEW v \in Swap
        PROVE  /\ deals'[v].role = "none" =>
                    runs'[v].at = "idle" /\ files'[v].st = "none" /\ deals'[v].sent = 0
               /\ (deals'[v].role = "bob" /\ runs'[v].at = "fund") => deals'[v].peer \in {"funded", "gone"}
    <3>1. CASE v = w
      BY <2>1, <2>3, <3>1, Zenon
    <3>2. CASE v # w
      BY <2>1, <2>2, <3>2, Zenon DEF BehindInv
    <3> QED
      BY <3>1, <3>2
  <2> QED
    BY <2>4, <2>5, Zenon DEF BehindInv
<1>3. CASE Crash
  <2>1. \A v \in Swap : runs'[v].at = "idle"
    BY <1>3 DEF Crash, NoRun
  <2>2. UNCHANGED <<deals, files>> /\ \A v \in Swap : runs'[v].at # "fund"
    BY <1>3, <2>1 DEF Crash
  <2> QED
    BY <2>1, <2>2, Zenon DEF BehindInv, FundsBehindPeer
<1>4. CASE ResumePending
  <2>1. ASSUME NEW v \in Swap
        PROVE  /\ runs'[v].at \in {"idle", "keys"}
               /\ files[v].st = "none" => runs'[v].at = "idle"
    <3>1. runs'[v] = IF files[v].st = "open" THEN Start(TRUE, 0) ELSE NoRun
      BY <1>4, Zenon DEF ResumePending
    <3>2. \A r : (r = Start(TRUE, 0) => r.at = "keys") /\ (r = NoRun => r.at = "idle")
      BY DEF Start, NoRun
    <3> QED
      BY <3>1, <3>2
  <2>2. UNCHANGED <<deals, files>>
    BY <1>4, Zenon DEF ResumePending
  <2>3. \A v \in Swap : runs'[v].at # "fund"
    BY <2>1
  <2> QED
    BY <2>1, <2>2, <2>3, Zenon DEF BehindInv, FundsBehindPeer
<1>5. CASE UNCHANGED vars
  BY <1>5, Zenon DEF vars, BehindInv, FundsBehindPeer
<1> QED
  BY <1>1, <1>2, <1>3, <1>4, <1>5 DEF Next, Works

\* As bob, the seller of the second coin, the bot locks its deposit only behind
\* the taker's, whatever is retried, lost or restarted.
THEOREM LocksSecond == Spec => []FundsBehindPeer
<1>1. Init => BehindInv
  <2>1. ASSUME Init, NEW w \in Swap
        PROVE  /\ deals[w].role = "none" /\ deals[w].sent = 0
               /\ runs[w].at = "idle" /\ files[w].st = "none"
    <3>1. deals[w] = NoDeal /\ runs[w] = NoRun /\ files[w] = NoFile
      BY <2>1 DEF Init
    <3> QED
      BY <3>1 DEF NoDeal, NoRun, NoFile
  <2> QED
    BY <2>1 DEF BehindInv, FundsBehindPeer
<1>2. TypeOK /\ BotInv /\ BehindInv /\ [Next]_vars => BehindInv'
  BY BehindStep
<1>3. BehindInv => FundsBehindPeer
  BY DEF BehindInv
<1> QED
  BY <1>1, <1>2, <1>3, Invariant, PTL DEF Spec
=============================================================================
