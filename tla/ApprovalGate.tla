---------------------------- MODULE ApprovalGate ----------------------------
(***************************************************************************)
(* What Safe Mode promises of an approval, bsage/core/safe_mode.py         *)
(* (ApprovalInterface): a request ends as approved or rejected only by     *)
(* the first answer somebody gave to this very request, or as deferred;    *)
(* and it ends once.                                                       *)
(***************************************************************************)
CONSTANT Requests

VARIABLES said,      \* per request, the first answer that counts
          verdict    \* per request, what its caller was told

GInit == /\ said = [r \in Requests |-> "none"]
         /\ verdict = [r \in Requests |-> "none"]

\* An approver answers.
Say(r, b) ==
  /\ said[r] = "none" /\ verdict[r] = "none"
  /\ said' = [said EXCEPT ![r] = b]
  /\ UNCHANGED verdict

\* The caller is told what the approver said.
Tell(r) ==
  /\ verdict[r] = "none" /\ said[r] # "none"
  /\ verdict' = [verdict EXCEPT ![r] = said[r]]
  /\ UNCHANGED said

\* No human decision is available.
Defer(r) ==
  /\ verdict[r] = "none"
  /\ verdict' = [verdict EXCEPT ![r] = "deferred"]
  /\ UNCHANGED said

GNext == \E r \in Requests : (\E b \in {"yes", "no"} : Say(r, b)) \/ Tell(r) \/ Defer(r)

GSpec == GInit /\ [][GNext]_<<said, verdict>>
=============================================================================
