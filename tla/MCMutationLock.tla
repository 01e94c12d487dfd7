---------------------------- MODULE MCMutationLock ----------------------------
(* TLC instances of MutationLock. *)
EXTENDS MutationLock, TLC
=============================================================================
