---------------------------- MODULE MCRateLimiter ----------------------------
(***************************************************************************)
(* Values for RateLimiter: the slowest rate at which an empty bucket fills *)
(* before its entry may go, two requests a minute and a burst of ten.      *)
(***************************************************************************)
EXTENDS RateLimiter
=============================================================================
