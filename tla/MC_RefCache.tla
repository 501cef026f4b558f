----------------------------- MODULE MC_RefCache -----------------------------
(* Two processes, two commits and one uncommitted state of the checkout.     *)
EXTENDS RefCache, TLC

Interchangeable == Permutations(Procs) \cup Permutations(Commits)
=============================================================================
