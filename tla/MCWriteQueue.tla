---------------------------- MODULE MCWriteQueue ----------------------------
(* TLC instances of WriteQueue. *)
EXTENDS WriteQueue
=============================================================================
