----------------------------- MODULE WatchWallet -----------------------------
(***************************************************************************)
(* How a deposit is seen: findOutput of chain.js for a node with a         *)
(* watch-only wallet, or without one, at the grain of its awaits, beside   *)
(* the rotation of the wallet.  Scripts are named by their swaps.          *)
(***************************************************************************)
EXTENDS Naturals, FiniteSets

CONSTANTS
  Swap,        \* the swaps; here their scripts on the leg that is watched
  Threshold,   \* WATCH_PRUNE_THRESHOLD
  MaxGen       \* bound: the rotations of one process

ASSUME WatchWalletAssumption == Threshold \in Nat \ {0} /\ MaxGen \in Nat

VARIABLES
  watch,       \* the process: what it takes to be watched, by which wallet
  node,        \* the node: the wallets loaded, and what each has imported
  finder,      \* the findOutput under way
  pruner       \* the pruneWatch under way

wvars == <<watch, node, finder, pruner>>

Gen == 0..MaxGen            \* wallets: the one of the settings, then "-g1", ...

NoFind  == [pc |-> "idle", spk |-> {}, wallet |-> 0, healed |-> FALSE]
NoPrune == [on |-> FALSE, keep |-> {}, todo |-> {}]

\* A process that has just started has opened no wallet yet.
Unopened == [open |-> FALSE, set |-> {}, wallet |-> 0, gen |-> 0]

WatchInit ==
  /\ watch = Unopened
  /\ node = [loaded |-> {}, has |-> [g \in Gen |-> {}]]
  /\ finder = NoFind /\ pruner = NoPrune

Finding(pcs) == finder.pc \in pcs
Script       == CHOOSE i \in finder.spk : TRUE

\* findOutput, up to its first question: the wallet is opened once per process,
\* a script imported once, then the wallet's coins are listed.
Ask(i, healed) ==
  [spk |-> {i}, wallet |-> watch.wallet, healed |-> healed,
   pc |-> IF ~watch.open THEN "open" ELSE IF i \in watch.set THEN "list" ELSE "import"]

FindOutput(i) ==
  /\ Finding({"idle"})
  /\ finder' = Ask(i, FALSE)
  /\ UNCHANGED <<watch, node, pruner>>

\* Creating or loading it may fail because it exists or is loaded.
OpenWallet ==
  /\ Finding({"open"})
  /\ watch' = [watch EXCEPT !.open = TRUE, !.set = {}, !.wallet = 0]
  /\ node' = [node EXCEPT !.loaded = @ \cup {0}]
  /\ finder' = [finder EXCEPT !.pc = "import", !.wallet = 0]
  /\ UNCHANGED pruner

Ready == finder.wallet \in node.loaded

\* Import and mark: the mark is set in what is watched by then.
ImportSpk ==
  /\ Finding({"import"}) /\ Ready
  /\ node' = [node EXCEPT !.has[finder.wallet] = @ \cup finder.spk]
  /\ watch' = [watch EXCEPT !.set = @ \cup finder.spk]
  /\ finder' = [finder EXCEPT !.pc = "list", !.wallet = watch.wallet]
  /\ UNCHANGED pruner

\* The node has not loaded the wallet: once, the latch is dropped and the
\* wallet opened again; a second time findOutput throws.
SelfHeal ==
  /\ Finding({"import", "list"}) /\ ~Ready
  /\ IF finder.healed
     THEN watch' = watch /\ finder' = NoFind
     ELSE watch' = [watch EXCEPT !.open = FALSE] /\ finder' = [finder EXCEPT !.pc = "open", !.healed = TRUE]
  /\ UNCHANGED <<node, pruner>>

\* What listunspent shows: the deposits to the scripts the wallet has.
Listed(paid) == finder.spk \cap node.has[finder.wallet] \cap paid

ListUnspent ==
  /\ Finding({"list"}) /\ Ready
  /\ finder' = NoFind
  /\ UNCHANGED <<watch, node, pruner>>

-----------------------------------------------------------------------------
\* The rotation, with the scripts that cleanupWatch wants kept.

pruneWatch(keep) ==
  /\ ~pruner.on /\ watch.open
  /\ Cardinality(watch.set \ keep) >= Threshold
  /\ watch.gen < MaxGen
  /\ pruner' = [on |-> TRUE, keep |-> keep, todo |-> keep]
  /\ node' = [node EXCEPT !.loaded = @ \cup {watch.gen + 1}]
  /\ UNCHANGED <<watch, finder>>

\* An import the node refuses is skipped.
PruneImport(i) ==
  /\ i \in pruner.todo
  /\ pruner' = [pruner EXCEPT !.todo = @ \ {i}]
  /\ node' = IF watch.gen + 1 \in node.loaded
             THEN [node EXCEPT !.has[watch.gen + 1] = @ \cup {i}] ELSE node
  /\ UNCHANGED <<watch, finder>>

Rotate(set) == [open |-> TRUE, set |-> set, wallet |-> watch.gen + 1, gen |-> watch.gen + 1]

\* Mutant: what was watched before the rotation is still taken to be.
Rotated_KeepsOld == Rotate(watch.set \cup pruner.keep)

Rotated == Rotate(pruner.keep)

\* The new wallet takes over, whatever was imported into the old one meanwhile.
PruneEnd ==
  /\ pruner.on /\ pruner.todo = {}
  /\ watch' = Rotated
  /\ node' = [node EXCEPT !.loaded = @ \ {watch.wallet}]
  /\ pruner' = NoPrune
  /\ UNCHANGED finder

\* The node restarts without its wallets, the coordinator without its latch.
Unload ==
  /\ node' = [node EXCEPT !.loaded = {}]
  /\ UNCHANGED <<watch, finder, pruner>>

Reopen == watch' = Unopened /\ finder' = NoFind /\ pruner' = NoPrune
=============================================================================
