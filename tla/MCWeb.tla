------------------------------- MODULE MCWeb -------------------------------
(***************************************************************************)
(* One swap of the tab's own and one that comes from elsewhere: invited to *)
(* or in a backup file.  A scenario names the ways in and what may happen  *)
(* besides, each a bounded number of times.                                *)
(***************************************************************************)
EXTENDS WebApp

CONSTANTS s1, s2

Way(ways, invited, foreign, most) ==
  [ways |-> ways, invited |-> invited, foreign |-> foreign,
   most |-> [e \in Event |-> IF e \in DOMAIN most THEN most[e] ELSE 0]]

Once(S) == [e \in S |-> 1]

MCScenarios ==
  { Way({"create"}, {}, {}, Once({"back", "reload"})),
    Way({"create"}, {}, {}, Once({"home", "lost"})),
    Way({"take"}, {}, {}, Once({"back", "page"})),
    Way({"rfq"}, {}, {}, [e \in {"price"} |-> 2]),
    Way({"rfq"}, {}, {}, Once({"home", "price"})),
    Way({}, {s1}, {}, Once({"paste", "home", "reload"})),
    Way({}, {}, {s2}, Once({"drop", "home", "reload"})) }
=============================================================================
