-------------------------- MODULE MCBackgroundJobs --------------------------
(* TLC instances of BackgroundJobs. *)
EXTENDS BackgroundJobs, TLC

CONSTANTS w1, w2

Symmetry == Permutations(Workers)
=============================================================================
