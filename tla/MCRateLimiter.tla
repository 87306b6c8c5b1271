---------------------------- MODULE MCRateLimiter ----------------------------
(* Constants for model checking the rate limiter. *)
EXTENDS RateLimiter

NoFault       == {}
DatabaseFails == {"database"}
Restarts      == {"restart", "reboot"}
=============================================================================
