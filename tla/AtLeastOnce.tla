----------------------------- MODULE AtLeastOnce -----------------------------
(***************************************************************************)
(* What the audit outbox of bsage/garden/audit_outbox.py promises of each  *)
(* event: an event that was stored leaves the outbox only by a delivery    *)
(* that the collector received, or as a dead letter, and at most one of    *)
(* the two; until then it may be received any number of times.             *)
(***************************************************************************)
CONSTANTS Events

VARIABLES
  state,       \* per event: what became of it
  received     \* the events the collector has

States == {"new", "dropped", "stored", "delivered", "dead"}

AInit == state = [e \in Events |-> "new"] /\ received = {}

\* The events in s move on from a state to another.
Moves(s, from, to) ==
  /\ \A e \in s : state[e] = from
  /\ state' = [e \in Events |-> IF e \in s THEN to ELSE state[e]]

Store(e) == Moves({e}, "new", "stored") /\ UNCHANGED received
Drop(e) == Moves({e}, "new", "dropped") /\ UNCHANGED received

\* The collector receives a batch, of stored events only.
Receive(s) ==
  /\ \A e \in s : state[e] = "stored"
  /\ received' = received \cup s
  /\ UNCHANGED state

Settle(s) == s \subseteq received /\ Moves(s, "stored", "delivered") /\ UNCHANGED received

GiveUp(e) == Moves({e}, "stored", "dead") /\ UNCHANGED received

ANext ==
  \/ \E e \in Events : Store(e) \/ Drop(e) \/ GiveUp(e)
  \/ \E s \in SUBSET Events : Receive(s) \/ Settle(s)

ASpec == AInit /\ [][ANext]_<<state, received>>
=============================================================================
