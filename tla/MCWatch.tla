------------------------------ MODULE MCWatch ------------------------------
(***************************************************************************)
(* Small instances of WatchTick for TLC: two ticks and a request at once.  *)
(***************************************************************************)
EXTENDS WatchTick

Events(e) == [x \in Event |-> IF x \in DOMAIN e THEN e[x] ELSE 0]

With(finish, e) == [finish |-> finish, events |-> Events(e)]

\* The parties' own spends beside the watchtower's; claims that fall out of the
\* mempool while the rate moves; node errors with nothing evicted; a swap that
\* ends in refunds.
Parties == With({1, 2}, [request |-> 1])
Outside == With({1, 2}, [direct |-> 1])
Evicted == With({1, 2}, [evict |-> 1, rate |-> 1])
Waiting == With({1}, [evict |-> 1, direct |-> 1])
Errors  == With(Which, [throw |-> 1, unanswered |-> 1])
Late    == With(Which, [block |-> 3])

MCScenarios == {Parties, Outside, Evicted, Waiting, Errors, Late}
=============================================================================
