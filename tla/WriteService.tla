---------------------------- MODULE WriteService ----------------------------
(***************************************************************************)
(* What a write queue promises to the callers of submit() and              *)
(* try_submit(): the writes touch the database one at a time, a write      *)
(* begins at most once and only while its caller still waits for it, and   *)
(* the caller is told exactly one thing, which agrees with what was done.  *)
(* SQLiteWriteQueue (bsage/garden/write_queue.py), its bounded queue, its  *)
(* supervisor and its shutdown are how WriteQueue keeps this promise.      *)
(***************************************************************************)
CONSTANT Ops            \* one write per element: a call of submit or try_submit

VARIABLES status,       \* what the caller knows of its write
          effect        \* what the database has seen of it

svars == <<status, effect>>

Answers == {"ok", "failed", "cancelled", "refused"}

STypeOK ==
  /\ status \in [Ops -> {"idle", "open"} \cup Answers]
  /\ effect \in [Ops -> {"none", "running", "applied", "unknown"}]

SInit ==
  /\ status = [o \in Ops |-> "idle"]
  /\ effect = [o \in Ops |-> "none"]

Idle == \A o \in Ops : effect[o] # "running"

Open(o) ==
  /\ status[o] = "idle"
  /\ status' = [status EXCEPT ![o] = "open"]
  /\ UNCHANGED effect

Refuse(o) ==
  /\ status[o] = "idle"
  /\ status' = [status EXCEPT ![o] = "refused"]
  /\ UNCHANGED effect

Cancel(o) ==
  /\ status[o] = "open"
  /\ status' = [status EXCEPT ![o] = "cancelled"]
  /\ UNCHANGED effect

\* Writes that have not begun are given up together.
GiveUp(S) ==
  /\ \A o \in S : status[o] = "open" /\ effect[o] = "none"
  /\ status' = [o \in Ops |-> IF o \in S THEN "failed" ELSE status[o]]
  /\ UNCHANGED effect

Begin(o) ==
  /\ Idle
  /\ status[o] = "open" /\ effect[o] = "none"
  /\ effect' = [effect EXCEPT ![o] = "running"]
  /\ UNCHANGED status

\* The answer that goes with an end: only a write that was applied is "ok".
Agrees(end, answer) == (answer = "ok") = (end = "applied")

\* The running write ends, its caller (if it still waits) is told, and the writes of
\* next, at most one, begin at once.
End(o, next) ==
  /\ effect[o] = "running"
  /\ \A p \in next : status[p] = "open" /\ effect[p] = "none"
  /\ \A p, q \in next : p = q
  /\ \E end \in {"applied", "unknown"}, answer \in {"ok", "failed"} :
       /\ Agrees(end, answer)
       /\ effect' = [p \in Ops |-> CASE p = o       -> end
                                     [] p \in next  -> "running"
                                     [] OTHER       -> effect[p]]
       /\ status' = IF status[o] = "open" THEN [status EXCEPT ![o] = answer]
                                          ELSE status

SNext ==
  \/ \E o \in Ops : Open(o) \/ Refuse(o) \/ Cancel(o) \/ Begin(o)
  \/ \E S \in SUBSET Ops : GiveUp(S)
  \/ \E o \in Ops, next \in SUBSET Ops : End(o, next)

SSpec == SInit /\ [][SNext]_svars
=============================================================================
