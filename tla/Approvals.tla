------------------------------ MODULE Approvals ------------------------------
(***************************************************************************)
(* The approval round trip over WebSockets: WebSocketApprovalInterface,    *)
(* bsage/interface/ws_interface.py, over ConnectionManager and the /ws     *)
(* endpoint, bsage/gateway/ws.py.                                          *)
(*                                                                         *)
(* The manager's lock is never held over an await, so it never delays      *)
(* anybody and is left out.  Uuids name requests: each is used once.       *)
(***************************************************************************)
EXTENDS Lists, FiniteSets, SequencesExt

CONSTANTS Clients,    \* the sockets: each is connected once
          Requests    \* the approval requests

VARIABLES
  conns,       \* the connections, in order
  closed,      \* sockets whose sends raise
  ask,         \* per request: where its caller is, and whom it has yet to send to
  future,      \* per request: _pending's future, "none" if there is no entry
  shown,       \* the requests that were sent to some client
  said,        \* history: the first answer that reached an open future
  verdict      \* what the caller was told

approvalVars == <<conns, closed, ask, future, shown, said, verdict>>

New == [at |-> "new", left |-> <<>>, dead |-> {}]
Asks == [at: {"new", "send", "wait", "over"}, left: Seq(Clients), dead: SUBSET Clients]

ApprovalTypeOK ==
  /\ conns \in Seq(Clients) /\ IsInjective(conns)
  /\ closed \subseteq Clients
  /\ ask \in [Requests -> Asks]
  /\ future \in [Requests -> {"none", "open", "yes", "no"}]
  /\ shown \subseteq Requests
  /\ said \in [Requests -> {"none", "yes", "no"}]
  /\ verdict \in [Requests -> {"none", "yes", "no", "deferred"}]

ApprovalInit ==
  /\ conns = <<>> /\ closed = {}
  /\ ask = [r \in Requests |-> New]
  /\ future = [r \in Requests |-> "none"]
  /\ shown = {}
  /\ said = [r \in Requests |-> "none"] /\ verdict = [r \in Requests |-> "none"]

-----------------------------------------------------------------------------
\* The connections.

Waits == UNCHANGED <<ask, future, shown, said, verdict>>

ConnectMutant(k) ==
  /\ k \notin closed
  /\ Len(conns) <= Cardinality(Clients) /\ conns' = Append(conns, k)
  /\ UNCHANGED closed /\ Waits

\* A client has authenticated and joins the pool.
Connect(k) ==
  /\ k \notin ToSet(conns) \cup closed
  /\ conns' = Append(conns, k)
  /\ UNCHANGED closed /\ Waits

\* The endpoint sees that its socket is closed.
Disconnect(k) ==
  /\ k \in ToSet(conns)
  /\ conns' = Filter(conns, Clients \ {k}) /\ closed' = closed \cup {k}
  /\ Waits

\* The socket breaks, which nobody has seen yet.
Breaks(k) ==
  /\ k \in ToSet(conns) \ closed
  /\ closed' = closed \cup {k}
  /\ UNCHANGED conns /\ Waits

-----------------------------------------------------------------------------
\* One request.

\* The caller is told; its entry is gone.
Ends(r, v) ==
  /\ ask' = [ask EXCEPT ![r] = [New EXCEPT !.at = "over"]]
  /\ future' = [future EXCEPT ![r] = "none"]
  /\ verdict' = [verdict EXCEPT ![r] = v]

\* request_approval: deferred at once when nobody is connected.
RequestApproval(r) ==
  /\ ask[r].at = "new"
  /\ IF conns = <<>>
     THEN Ends(r, "deferred")
     ELSE /\ future' = [future EXCEPT ![r] = "open"]
          /\ ask' = [ask EXCEPT ![r] = [at |-> "send", left |-> conns, dead |-> {}]]
          /\ UNCHANGED verdict
  /\ UNCHANGED <<conns, closed, shown, said>>

\* broadcast, to the connections there were when it began; a send to one that is closed
\* raises, and the dead ones are dropped after the last send.  One to a client that does
\* not read may take as long as the server leaves it connected.
Send(r) ==
  /\ ask[r].at = "send"
  /\ LET k == Head(ask[r].left)
         left == Tail(ask[r].left)
         dead == ask[r].dead \cup ({k} \cap closed)
     IN /\ shown' = IF k \in closed THEN shown ELSE shown \cup {r}
        /\ ask' = [ask EXCEPT ![r] = [at |-> IF left = <<>> THEN "wait" ELSE "send",
                                      left |-> left, dead |-> IF left = <<>> THEN {} ELSE dead]]
        /\ conns' = IF left = <<>> THEN Filter(conns, Clients \ dead) ELSE conns
  /\ UNCHANGED <<closed, future, said, verdict>>

HandleResponseMutant(r, b) ==
  /\ r \in shown
  /\ future[r] \notin {"none", b}
  /\ future' = [future EXCEPT ![r] = b]
  /\ said' = IF said[r] = "none" THEN [said EXCEPT ![r] = b] ELSE said
  /\ UNCHANGED <<conns, closed, ask, shown, verdict>>

\* handle_response: the first answer of a client; later ones, and those of requests that
\* are over, change nothing.
HandleResponse(r, b) ==
  /\ r \in shown
  /\ future[r] = "open"
  /\ future' = [future EXCEPT ![r] = b]
  /\ said' = [said EXCEPT ![r] = b]
  /\ UNCHANGED <<conns, closed, ask, shown, verdict>>

\* The caller resumes with the answer.
Resume(r) ==
  /\ ask[r].at = "wait" /\ future[r] \in {"yes", "no"}
  /\ Ends(r, future[r])
  /\ UNCHANGED <<conns, closed, shown, said>>

\* wait_for gives up; an answer of the same moment is lost.
TimesOut(r) ==
  /\ ask[r].at = "wait"
  /\ Ends(r, "deferred")
  /\ UNCHANGED <<conns, closed, shown, said>>

\* The process dies: the sockets are closed and the callers are gone.
Dies ==
  /\ conns' = <<>> /\ closed' = closed \cup ToSet(conns)
  /\ UNCHANGED <<shown, said>>
  /\ ask' = [r \in Requests |-> IF ask[r].at = "new" THEN ask[r] ELSE [New EXCEPT !.at = "over"]]
  /\ future' = [r \in Requests |-> "none"]
  /\ UNCHANGED verdict

\* What happens around the callers.
Around ==
  \/ \E k \in Clients : Connect(k) \/ Disconnect(k) \/ Breaks(k)
  \/ \E r \in Requests, b \in {"yes", "no"} : HandleResponse(r, b)

-----------------------------------------------------------------------------
\* Properties.

\* Every request ends as ApprovalGate promises, whatever is answered twice, late or by
\* several clients.
Gate == INSTANCE ApprovalGate
ImplementsGate == Gate!GSpec
=============================================================================
