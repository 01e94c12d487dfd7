--------------------------- MODULE ProposalReview ---------------------------
(***************************************************************************)
(* The review of proposals in CanonicalizationService,                     *)
(* bsage/garden/canonicalization/service.py, on top of ConceptActions:     *)
(* accept_proposal applies the action drafts a proposal links to, one      *)
(* after the other, while anybody may apply them too; reject_proposal and  *)
(* the expiry sweep write the same note, and no lock is held.              *)
(***************************************************************************)
EXTENDS ConceptActions

CONSTANTS Proposals,    \* the proposal notes
          Drafts,       \* per proposal, its action_drafts
          Reviewed,     \* the plans that come with proposals
          Reviewers,    \* the coroutines that review at the same time
          MaxReviews    \* bound: reviews

ASSUME DraftsAssumption == Drafts \in [Proposals -> Seq(Actions)]
ASSUME ReviewsAssumption == MaxReviews \in Nat /\ None # "accepted"

VARIABLES
  proposal,    \* per proposal, the status in its note
  cached,      \* per proposal, the status in the index's entry
  review,      \* per reviewer: what it is doing
  reviews      \* reviews so far

reviewVars == <<proposal, cached, review, reviews>>
allVars == <<vars, reviewVars>>

Verdicts == {"pending", "accepted", "rejected", "expired"}

\* of: the proposal; left: the drafts to apply; verdict: the status it will write.
Reviews == [at: {"idle", "apply", "wait", "write", "reload"}, of: Proposals \cup {None},
            left: Seq(Actions), verdict: Verdicts]
Off == [at |-> "idle", of |-> None, left |-> <<>>, verdict |-> "pending"]

ReviewTypeOK ==
  /\ TypeOK
  /\ proposal \in [Proposals -> Verdicts \cup {None}]
  /\ cached \in [Proposals -> Verdicts \cup {None}]
  /\ review \in [Reviewers -> Reviews]
  /\ reviews \in 0..MaxReviews

ReviewInit ==
  /\ Init
  /\ proposal = [p \in Proposals |-> IF plan \in Reviewed THEN "pending" ELSE None] /\ cached = proposal
  /\ review = [r \in Reviewers |-> Off]
  /\ reviews = 0

-----------------------------------------------------------------------------
Begins1(r, p) == review[r].at = "idle" /\ reviews < MaxReviews /\ reviews' = reviews + 1
Turns(r, rec) == review' = [review EXCEPT ![r] = rec]
Writing(p, verdict) == [at |-> "write", of |-> p, left |-> <<>>, verdict |-> verdict]

\* accept_proposal: a pending proposal.
Accept(r, p) ==
  /\ Begins1(r, p) /\ proposal[p] = "pending"
  /\ Turns(r, [at |-> "apply", of |-> p, left |-> Drafts[p], verdict |-> "accepted"])
  /\ UNCHANGED <<vars, proposal, cached>>

\* An action that was applied already counts as applied.
ApplyDraft(r) ==
  LET a == Head(review[r].left) IN
  /\ review[r].at = "apply" /\ review[r].left # <<>>
  /\ \/ /\ a \notin Running /\ status[a] = "applied"
        /\ Turns(r, [review[r] EXCEPT !.left = Tail(@)])
        /\ UNCHANGED vars
     \/ /\ Apply(a)
        /\ Turns(r, [review[r] EXCEPT !.at = "wait"])
  /\ UNCHANGED <<proposal, cached, reviews>>

ResumedMutant(r, s) == [review[r] EXCEPT !.at = "apply", !.left = Tail(@),
  !.verdict = IF s = "applied" THEN "accepted" ELSE @]

ResumedStatusMutant(r, s) == [review[r] EXCEPT !.at = "apply", !.left = Tail(@),
  !.verdict = IF s = "applied" THEN @ ELSE s]

\* The apply it waited for has returned with a status.
Resumed(r, s) == [review[r] EXCEPT !.at = "apply", !.left = Tail(@),
  !.verdict = IF s = "applied" THEN @ ELSE "pending"]

WaitsFor(r, a) == review[r].at = "wait" /\ Head(review[r].left) = a

\* An apply goes on; its end is what its caller waits for, an exception ends the review.
Work(a) ==
  /\ \/ Step(a)
        /\ review' = [r \in Reviewers |-> IF WaitsFor(r, a) /\ job'[a].at = "idle"
                                          THEN Resumed(r, status'[a]) ELSE review[r]]
     \/ StorageFails(a)
        /\ review' = [r \in Reviewers |-> IF WaitsFor(r, a) /\ job'[a].at = "idle"
                                          THEN Off ELSE review[r]]
  /\ UNCHANGED <<proposal, cached, reviews>>

\* Its result_actions are recorded either way.
Conclude(r) ==
  /\ review[r].at = "apply" /\ review[r].left = <<>>
  /\ Turns(r, Writing(review[r].of, review[r].verdict))
  /\ UNCHANGED <<vars, proposal, cached, reviews>>

\* reject_proposal
Reject(r, p) ==
  /\ Begins1(r, p) /\ proposal[p] = "pending"
  /\ Turns(r, Writing(p, "rejected"))
  /\ UNCHANGED <<vars, proposal, cached>>

\* expire_stale: the entry of the index itself is changed, then written.
Expire(r, p) ==
  /\ Begins1(r, p) /\ cached[p] = "pending"
  /\ cached' = [cached EXCEPT ![p] = "expired"]
  /\ Turns(r, Writing(p, "expired"))
  /\ UNCHANGED <<vars, proposal>>

WriteProposalMutant(r) ==
  /\ review[r].at = "write"
  /\ proposal' = [proposal EXCEPT ![review[r].of] = review[r].verdict]
  /\ Turns(r, Off)
  /\ UNCHANGED <<vars, cached, reviews>>

\* write_proposal
WriteProposal(r) ==
  /\ review[r].at = "write"
  /\ proposal' = [proposal EXCEPT ![review[r].of] = review[r].verdict]
  /\ Turns(r, [review[r] EXCEPT !.at = "reload"])
  /\ UNCHANGED <<vars, cached, reviews>>

\* The index reloads it, and its status is emitted.
ReloadProposal(r) ==
  /\ review[r].at = "reload"
  /\ cached' = [cached EXCEPT ![review[r].of] = proposal[review[r].of]]
  /\ Turns(r, Off)
  /\ UNCHANGED <<vars, proposal, reviews>>

\* A storage call of a review raises: the exception is the caller's.
ReviewFails(r) ==
  /\ review[r].at \in {"write", "reload"} /\ Fault
  /\ Turns(r, Off) /\ cut' = TRUE
  /\ UNCHANGED <<plan, notes, index, status, job, history, torn, proposal, cached, reviews>>

\* Somebody else applies an action.
Direct(a) == Apply(a) /\ UNCHANGED reviewVars

\* The process dies, with its reviews and applies.
Restart ==
  /\ Running # {} /\ Crash
  /\ review' = [r \in Reviewers |-> Off] /\ cached' = proposal
  /\ UNCHANGED <<proposal, reviews>>

Next ==
  \/ \E a \in Actions : Direct(a) \/ Work(a)
  \/ \E r \in Reviewers : \/ \E p \in Proposals : Accept(r, p) \/ Reject(r, p) \/ Expire(r, p)
                          \/ ApplyDraft(r) \/ Conclude(r) \/ WriteProposal(r) \/ ReloadProposal(r)
                          \/ ReviewFails(r)
  \/ Restart

Spec == ReviewInit /\ [][Next]_allVars

-----------------------------------------------------------------------------
\* Properties.

\* A proposal is accepted only with all of its actions applied, whoever applied them and
\* whatever else was decided of it meanwhile.
AcceptedIsApplied ==
  \A p \in Proposals : proposal[p] = "accepted" =>
    \A a \in ToSet(Drafts[p]) : status[a] = "applied"

\* What is called done was done: an applied action's effect is in the vault, an accepted
\* proposal's actions are applied.
EndsAreEarned == AppliedIsDone /\ AcceptedIsApplied

\* When nobody reviews, the sweep sees what the notes say, whichever reviews overlapped;
\* unless a write of one raised, which leaves the entry it had changed.
CacheAgrees == (\A r \in Reviewers : review[r].at = "idle") /\ ~cut => cached = proposal

\* What the index holds of concepts and of proposals is what the vault says of them.
CachesAgree == IndexAgrees /\ CacheAgrees
=============================================================================
