------------------------------- MODULE MCRfq -------------------------------
(***************************************************************************)
(* Three makers: a and c sell, at different prices, b buys.  A scenario    *)
(* names who is up, how many swaps, whether time passes, and one event.    *)
(***************************************************************************)
EXTENDS RfqMarket

CONSTANTS a, b, c

Sides(x, y) == [k \in Side |-> IF k = "ask" THEN x ELSE y]

MCPrice   == [m \in Maker |-> CASE m = a -> Sides(2, 0) [] m = b -> Sides(0, 1) [] OTHER -> Sides(3, 0)]
MCCeiling == [m \in Maker |-> CASE m = a -> Sides(3, 0) [] m = b -> Sides(0, 3) [] OTHER -> Sides(4, 0)]
MCStock   == MCCeiling

Of(up, swap, tick, once) ==
  [up |-> up, most |-> [e \in Event |-> CASE e = "swap" -> swap [] e = "tick" -> tick
                                           [] e \in once -> 1 [] OTHER -> 0]]

MCScenarios ==
  {Of({a}, 3, 0, {e}) : e \in {"lost", "fails", "crash"}}    \* over-quoting, a full log
    \cup {Of({a, c}, 2, 0, {})}                              \* fills over two makers
    \cup {Of({b}, 1, 1, {"cancel"}), Of({a}, 2, 1, {"refund"})}
    \cup {Of({b}, 1, 1, {"pause", "resume"}), Of({a}, 2, 1, {"restart"})}
=============================================================================
