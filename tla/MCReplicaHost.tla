---------------------------- MODULE MCReplicaHost ----------------------------
(* Constants for model checking the replica host. *)
EXTENDS ReplicaHost

CONSTANTS r1, r2

TwoRuns == {r1, r2}

\* Every kind of pack: with a reset, without, with missing scripts, and none.
SomeRequests ==
  {[pack |-> "auth-redis", execute |-> TRUE, limit |-> 2],
   [pack |-> "postgres", execute |-> TRUE, limit |-> 1],
   [pack |-> "catalog", execute |-> TRUE, limit |-> 1],
   [pack |-> "kafka", execute |-> TRUE, limit |-> 3],
   [pack |-> "postgres", execute |-> FALSE, limit |-> 3],
   [pack |-> NoPack, execute |-> TRUE, limit |-> 3]}

OnePack == {[pack |-> "auth-redis", execute |-> TRUE, limit |-> 3]}
Catalog == {[pack |-> "catalog", execute |-> TRUE, limit |-> 1]}
=============================================================================
