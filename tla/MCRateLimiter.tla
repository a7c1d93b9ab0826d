---------------------------- MODULE MCRateLimiter ----------------------------
(* Instances of RateLimiter for TLC: goroutines and IPs are interchangeable. *)
EXTENDS RateLimiter, TLC

Symmetry == Permutations(Requests) \cup Permutations(IPs)
=============================================================================
