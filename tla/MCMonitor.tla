----------------------------- MODULE MCMonitor -----------------------------
(***************************************************************************)
(* One swap whose owners may be away, and a second that settled long ago.  *)
(* Between two runs a few things change, as the scenario allows.           *)
(***************************************************************************)
EXTENDS Monitor

CONSTANTS s1, s2

Legs(x, y)  == [k \in Leg |-> IF k = "btc" THEN x ELSE y]
Both(x, y)  == [r \in Role |-> IF r = "alice" THEN x ELSE y]

Kept(state, dep, on, armed, pre) ==
  [state |-> state, dep |-> dep, on |-> on, armed |-> armed, pre |-> pre,
   short |-> "none", born |-> 0, settled |-> Never]

None    == Kept("none", Legs("none", "none"), Both(FALSE, FALSE), Both(FALSE, FALSE), FALSE)
Settled == [Kept("COMPLETE", Legs("spent", "spent"), Both(FALSE, FALSE), Both(TRUE, TRUE), TRUE) EXCEPT !.settled = 0]
Away    == Kept("FUNDED", Legs("open", "none"), Both(FALSE, TRUE), Both(FALSE, FALSE), FALSE)
Exposed == Kept("CLAIMED", Legs("open", "spent"), Both(TRUE, FALSE), Both(TRUE, FALSE), TRUE)
Joined  == Kept("READY", Legs("none", "none"), Both(TRUE, TRUE), Both(FALSE, FALSE), FALSE)

World(v, w) ==
  [admin |-> TRUE, swapsOk |-> TRUE, node |-> Legs(TRUE, TRUE), height |-> Legs(0, 0), disk |-> "ok",
   swaps |-> [s \in Swap |-> IF s = s1 THEN v ELSE w]]

Of(w, most) == [world |-> w, most |-> [e \in Event |-> IF e \in DOMAIN most THEN most[e] ELSE 0]]
Each(S, n)  == [e \in S |-> n]

MCScenarios ==
  { Of(World(v, None), Each({"away", "admin", "swaps"}, 2)) : v \in {Away, Exposed} }
    \cup { Of(World(Away, Settled), Each({"away", "settle", "prune"}, 2)),
           Of(World(Joined, None), Each({"block", "node", "admin"}, 2)),
           Of(World(Joined, None), Each({"disk", "short", "settle", "swaps"}, 2)) }
=============================================================================
