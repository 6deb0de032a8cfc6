---------------------------- MODULE AtomicSwap ----------------------------
(***************************************************************************)
(* What a swap promises, with no coordinator, clients or mempools in it    *)
(* (README.md, "How a swap works"): each leg's deposit ends with its       *)
(* claimer or with its funder, never one leg each way, and a claim needs   *)
(* the preimage to be public.                                              *)
(***************************************************************************)
EXTENDS Naturals

Legs == {"btc", "qbit"}

VARIABLES
  outcome,   \* leg -> where its deposit ended
  public     \* the preimage is public

Init == outcome = [l \in Legs |-> "open"] /\ public = FALSE

\* The buyer claims, or is about to, while no leg has gone back.
Publish ==
  /\ ~public /\ public' = TRUE
  /\ \A l \in Legs : outcome[l] = "open"
  /\ UNCHANGED outcome

Claim(l) ==
  /\ public /\ outcome[l] = "open"
  /\ \A m \in Legs : outcome[m] # "refunded"
  /\ outcome' = [outcome EXCEPT ![l] = "claimed"]
  /\ UNCHANGED public

Refund(l) ==
  /\ outcome[l] = "open"
  /\ \A m \in Legs : outcome[m] # "claimed"
  /\ outcome' = [outcome EXCEPT ![l] = "refunded"]
  /\ UNCHANGED public

Next == Publish \/ \E l \in Legs : Claim(l) \/ Refund(l)

Spec == Init /\ [][Next]_<<outcome, public>>
=============================================================================
