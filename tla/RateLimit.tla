----------------------------- MODULE RateLimit ------------------------------
(***************************************************************************)
(* The limiter in front of the gateway's API, bsage/gateway/rate_limit.py: *)
(* the times at which each client was let through in the last window, with *)
(* a cleanup, at most once a window, that forgets the clients that were    *)
(* quiet and, if there are still too many, those that were quiet longest.  *)
(***************************************************************************)
EXTENDS Lists, FiniteSets, SequencesExt, FiniteSetsExt

CONSTANTS Callers,       \* addresses, as the nearest proxy gives them
          Limit,         \* requests in a window: 60
          Window,        \* its length: 60 seconds
          MaxCallers,    \* the clients that are kept: 10,000
          Clocks         \* bound: the last moment, per beginning

ASSUME RateLimitAssumption == Limit \in Nat \ {0} /\ Window \in Nat \ {0} /\ MaxCallers \in Nat

VARIABLES
  now, until,     \* the clock, and its bound
  seen,           \* the clients that are kept, and when each was let through
  cleaned,        \* the last cleanup
  granted,        \* history: all the times at which each client was let through
  evicted,        \* history: when a client was last forgotten because there were too many
  refused         \* history: the client that was refused just now, if any

rateVars == <<now, until, seen, cleaned, granted, evicted, refused>>

RateInit ==
  /\ until \in Clocks /\ now = Window /\ cleaned = 0 /\ seen = <<>> /\ refused = {}
  /\ granted = [c \in Callers |-> <<>>] /\ evicted = [c \in Callers |-> 0]

Latest(times) == IF times = <<>> THEN 0 ELSE Last(times)

\* _maybe_cleanup: those that are left, and those of them that are dropped for the cap.
Quiet1(c) == Latest(seen[c]) + Window <= now
Dropped == LET kept == {c \in DOMAIN seen : ~Quiet1(c)}
               many == Cardinality(kept)
           IN IF many <= MaxCallers THEN {{}}
              ELSE {d \in kSubset(many - MaxCallers, kept) :
                      \A c \in d, e \in kept \ d : Latest(seen[c]) <= Latest(seen[e])}

DueCleanup == now - cleaned >= Window

\* The clients that are kept when one calls.
Kept(dropped) == IF DueCleanup THEN {c \in DOMAIN seen : ~Quiet1(c)} \ dropped ELSE DOMAIN seen

Within(times) == Filter(times, {t \in Nat : t + Window > now})

\* is_allowed: what is left of the client's window, with now in it if there is room.
IsAllowed(c, dropped) ==
  LET times == IF c \in Kept(dropped) THEN Within(seen[c]) ELSE <<>> IN
  IF Len(times) >= Limit THEN <<FALSE, times>> ELSE <<TRUE, Append(times, now)>>

\* A request of a client, which is let through or refused.
Dispatch(c) ==
  \E dropped \in IF DueCleanup THEN Dropped ELSE {{}} :
    LET answer == IsAllowed(c, dropped) IN
    /\ seen' = [d \in Kept(dropped) \cup {c} |-> IF d = c THEN answer[2] ELSE seen[d]]
    /\ cleaned' = IF DueCleanup THEN now ELSE cleaned
    /\ evicted' = [d \in Callers |-> IF d \in dropped THEN now ELSE evicted[d]]
    /\ granted' = IF answer[1] THEN [granted EXCEPT ![c] = Append(@, now)] ELSE granted
    /\ refused' = IF answer[1] THEN {} ELSE {c}
    /\ UNCHANGED <<now, until>>

Tick == now < until /\ now' = now + 1 /\ refused' = {}
        /\ UNCHANGED <<until, seen, cleaned, granted, evicted>>

RateNext == Tick \/ (now < until /\ \E c \in Callers : Dispatch(c))

-----------------------------------------------------------------------------
\* Properties.

Recent(c) == Within(granted[c])

\* Nobody is let through more often in a window than the limit, unless it was forgotten in
\* it; whoever is refused had all of it, in this window and not by an earlier refusal; right
\* after a cleanup nobody is kept who was quiet for a window; and nobody who was let through
\* in the window is forgotten, but for the cap.
LimitSound ==
  /\ \A c \in Callers : evicted[c] + Window <= now => Len(Recent(c)) <= Limit
  /\ \A c \in refused : Len(Recent(c)) >= Limit
  /\ cleaned = now => \A c \in DOMAIN seen : seen[c] # <<>> /\ Last(seen[c]) + Window > now
  /\ \A c \in Callers : Recent(c) # <<>> /\ evicted[c] + Window <= now => c \in DOMAIN seen
=============================================================================
