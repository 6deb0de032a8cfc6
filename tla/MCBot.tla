------------------------------- MODULE MCBot -------------------------------
(***************************************************************************)
(* Small instances of MakerBot for TLC: one match, on either side of the   *)
(* bot's quote.  Two swaps share nothing but the process that stops.       *)
(***************************************************************************)
EXTENDS MakerBot

Often(n, events) == [e \in Event |-> IF e \in events THEN n ELSE 0]
BotBudget   == Often(2, Event)
RetryBudget == Often(1, {"throws"})
=============================================================================
