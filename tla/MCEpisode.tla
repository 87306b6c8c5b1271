------------------------------ MODULE MCEpisode ------------------------------
(* Constants for model checking an episode. *)
EXTENDS Episode

SomeIncidents ==
  {[family |-> "timeout cascade", pack |-> "auth-redis", severity |-> "P2", minutes |-> 6],
   [family |-> "pool exhaustion", pack |-> "postgres", severity |-> "P1", minutes |-> 10],
   [family |-> "deploy regression", pack |-> "catalog", severity |-> "P1", minutes |-> 15],
   [family |-> "memory leak", pack |-> NoPack, severity |-> "P0", minutes |-> 22]}

SomeScores == {<<20, 5>>, <<20, 18>>, <<6, 0>>, <<0, 0>>}
SomeLabels == {"P1", "P7", "LOW"}
=============================================================================
