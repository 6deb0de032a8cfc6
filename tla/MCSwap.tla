------------------------------ MODULE MCSwap ------------------------------
(***************************************************************************)
(* Small instances of SwapSystem for TLC: one swap, chains of at most      *)
(* eight blocks, each environment event at most once.                      *)
(***************************************************************************)
EXTENDS SwapSystem

PerLeg(b, q) == [l \in Leg |-> IF l = "btc" THEN b ELSE q]
Events(allowed) == [e \in Event |-> IF e \in allowed THEN 1 ELSE 0]

\* Two confirmations make a btc deposit safe, one a qbit deposit; the buyer's
\* window is the longer one.
MCTarget == PerLeg(2, 1)
MCWindow == PerLeg(6, 4)
MCNarrow == PerLeg(5, 4)

\* What the environment may do in a run.
QuietBudgets   == {Events({})}
ArmedBudgets   == {Events({"short"})}
RestartBudgets == {Events({"crash", "pollFails"}), Events({"crash", "deriveFails", "direct"}),
                   Events({"deposit"}), Events({"drop"})}
FaultBudgets   == {Events({"evict"}), Events({"reorg"})}
LostBudgets    == {Events({"lost"})}
=============================================================================
