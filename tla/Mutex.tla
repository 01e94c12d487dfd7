------------------------------- MODULE Mutex -------------------------------
(***************************************************************************)
(* What a lock per path promises: at most one task is inside the section   *)
(* guarded by a path (canonicalization/lock.py, "single-writer per         *)
(* action_path").                                                          *)
(***************************************************************************)
CONSTANTS Paths, Tasks

VARIABLE inside         \* per path: the tasks inside its section

MInit == inside = [p \in Paths |-> {}]

Enter(t, p) ==
  /\ inside[p] = {}
  /\ inside' = [inside EXCEPT ![p] = {t}]

Leave(t, p) ==
  /\ inside[p] = {t}
  /\ inside' = [inside EXCEPT ![p] = {}]

MNext == \E t \in Tasks, p \in Paths : Enter(t, p) \/ Leave(t, p)

MSpec == MInit /\ [][MNext]_inside
=============================================================================
