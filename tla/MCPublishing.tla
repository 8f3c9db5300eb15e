---------------------------- MODULE MCPublishing ----------------------------
(* TLC instances of Publishing; the bounds are in the .cfg files. *)
EXTENDS Publishing, TLC
=============================================================================
