-------------------------- MODULE MCActionLifecycle --------------------------
\* Values for the constants of ActionLifecycle.
EXTENDS ActionLifecycle, TLC

CONSTANTS t1, t2, c1

\* Two drafts are never created for one concept in one second.
Apart == t1 :> 1 @@ t2 :> 2

\* Two ingests that run at once may be.
Together == t1 :> 1 @@ t2 :> 1
\* A draft is there when the process starts.
OneDraft == {<<c1, 1, 1>>}
NoDraft == {}
=============================================================================
