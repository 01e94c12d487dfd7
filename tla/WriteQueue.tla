----------------------------- MODULE WriteQueue -----------------------------
(***************************************************************************)
(* SQLiteWriteQueue, bsage/garden/write_queue.py: one asyncio task (the    *)
(* writer) executes the write closures that submit() and try_submit() put  *)
(* on a bounded asyncio.Queue; a done-callback supervises the writer; and  *)
(* stop() sends a sentinel through the same queue.                         *)
(*                                                                         *)
(* An action is what one coroutine does between two suspensions of the     *)
(* event loop.  asyncio.Queue is modelled with its two-step put: a caller  *)
(* that finds the queue full waits in putters, get_nowait moves it to      *)
(* woken, and only when the loop runs it again does it look at the queue   *)
(* a second time.                                                          *)
(***************************************************************************)
EXTENDS Integers, Sequences, SequencesExt

CONSTANTS Ops,          \* the writes: one call of submit or try_submit each
          Stoppers,     \* the calls of stop()
          Stop,         \* the _STOP sentinel
          None,         \* no write
          MaxSize,      \* maxsize of the queue
          MaxDeaths     \* bound: how often the writer task dies

(* Definitions named ...Mutant are bugs this code could have had: the run of a       *)
(* property replaces the definition below by its mutant and must see it violated.    *)

ASSUME SizeAssumption == MaxSize \in Nat \ {0}
ASSUME DeathAssumption == MaxDeaths \in Nat
ASSUME KindAssumption ==
  Ops \cap Stoppers = {} /\ Stop \notin Ops /\ None \notin Ops

VARIABLES
  started,     \* start() has run: _queue and _writer_task exist
  stopping,    \* _stopping
  closed,      \* _closed
  writerTask,  \* _writer_task is not None
  queue,       \* the items of _queue
  putters,     \* callers suspended in _queue.put, in asyncio's order
  woken,       \* putters that get_nowait woke and the loop has not run yet
  writer,      \* where the writer task is
  cur,         \* the write the writer awaits, or None
  call,        \* per write: where its caller is, and then what it was told
  effect,      \* per write: what the database saw of it
  stop,        \* per call of stop(): where it is
  deaths       \* how often the writer died

queueVars == <<queue, putters, woken>>
flagVars == <<started, stopping, closed, writerTask>>
writerVars == <<writer, cur, deaths>>
vars == <<queueVars, flagVars, writerVars, call, effect, stop>>

Answered == {"ok", "failed", "cancelled", "refused"}
Working == {"run", "drain"}

TypeOK ==
  /\ started \in BOOLEAN /\ stopping \in BOOLEAN
  /\ closed \in BOOLEAN /\ writerTask \in BOOLEAN
  /\ queue \in Seq(Ops \cup {Stop}) /\ Len(queue) <= MaxSize
  /\ putters \in Seq(Ops \cup Stoppers)
  /\ woken \in Seq(Ops \cup Stoppers)
  /\ writer \in {"none", "idle", "run", "drain", "died", "gone", "exited"}
  /\ cur \in Ops \cup {None}
  /\ call \in [Ops -> {"new", "putting", "waiting"} \cup Answered]
  /\ effect \in [Ops -> {"none", "running", "applied", "unknown"}]
  /\ stop \in [Stoppers -> {"new", "putting", "joining", "done", "cancelled"}]
  /\ deaths \in 0..MaxDeaths

Init ==
  /\ started = FALSE /\ stopping = FALSE /\ closed = FALSE /\ writerTask = FALSE
  /\ queue = <<>> /\ putters = <<>> /\ woken = <<>>
  /\ writer = "none" /\ cur = None
  /\ call = [o \in Ops |-> "new"]
  /\ effect = [o \in Ops |-> "none"]
  /\ stop = [s \in Stoppers |-> "new"]
  /\ deaths = 0

-----------------------------------------------------------------------------
\* asyncio.Queue.

FullMutant == Len(queue) > MaxSize

Full == Len(queue) >= MaxSize

Smaller(m, n) == IF m <= n THEN m ELSE n

\* The writer takes the first n items: each get_nowait wakes one suspended putter.
TakeFirst(n) ==
  LET w == Smaller(n, Len(putters)) IN
  /\ queue' = SubSeq(queue, n + 1, Len(queue))
  /\ putters' = SubSeq(putters, w + 1, Len(putters))
  /\ woken' = woken \o SubSeq(putters, 1, w)

\* put_nowait
PutItem(item) == queue' = Append(queue, item)

\* A putter is cancelled.  One that was already woken passes the slot on.
LeavePut(x) ==
  /\ UNCHANGED queue
  /\ \/ \E i \in DOMAIN putters :
          /\ putters[i] = x
          /\ putters' = RemoveAt(putters, i)
          /\ UNCHANGED woken
     \/ \E i \in DOMAIN woken :
          LET w == IF Full THEN 0 ELSE Smaller(1, Len(putters)) IN
          /\ woken[i] = x
          /\ woken' = RemoveAt(woken, i) \o SubSeq(putters, 1, w)
          /\ putters' = SubSeq(putters, w + 1, Len(putters))

-----------------------------------------------------------------------------
\* start(), called once on a queue object: GraphStore and VectorStore build a new one
\* each time they open their database.
Start ==
  /\ ~started
  /\ ~writerTask
  /\ started' = TRUE /\ writerTask' = TRUE
  /\ closed' = FALSE /\ stopping' = FALSE
  /\ queue' = <<>>
  /\ writer' = "idle"
  /\ UNCHANGED <<putters, woken, cur, deaths, call, effect, stop>>

-----------------------------------------------------------------------------
\* Callers.

\* _make_pending raises QueueClosedError.
Rejecting == closed \/ ~started \/ stopping

Submit(o) ==
  /\ call[o] = "new"
  /\ \/ /\ Rejecting
        /\ call' = [call EXCEPT ![o] = "refused"]
        /\ UNCHANGED queueVars
     \/ /\ ~Rejecting /\ ~Full
        /\ PutItem(o)
        /\ call' = [call EXCEPT ![o] = "waiting"]
        /\ UNCHANGED <<putters, woken>>
     \/ /\ ~Rejecting /\ Full
        /\ putters' = Append(putters, o)
        /\ call' = [call EXCEPT ![o] = "putting"]
        /\ UNCHANGED <<queue, woken>>
  /\ UNCHANGED <<flagVars, writerVars, effect, stop>>

TrySubmit(o) ==
  /\ call[o] = "new"
  /\ \/ /\ Rejecting \/ Full                 \* QueueClosedError, QueueFullError
        /\ call' = [call EXCEPT ![o] = "refused"]
        /\ UNCHANGED queue
     \/ /\ ~Rejecting /\ ~Full
        /\ PutItem(o)
        /\ call' = [call EXCEPT ![o] = "waiting"]
  /\ UNCHANGED <<putters, woken, flagVars, writerVars, effect, stop>>

\* The caller's task is cancelled, in put or while it awaits its future.
CancelCall(o) ==
  /\ call[o] \in {"putting", "waiting"}
  /\ call' = [call EXCEPT ![o] = "cancelled"]
  /\ IF call[o] = "putting" THEN LeavePut(o) ELSE UNCHANGED queueVars
  /\ UNCHANGED <<flagVars, writerVars, effect, stop>>

\* The loop runs the longest-woken putter again: put's "while self.full()".
ResumePut ==
  /\ woken # <<>>
  /\ LET x == Head(woken) IN
       /\ woken' = Tail(woken)
       /\ \/ /\ Full
             /\ putters' = Append(putters, x)
             /\ UNCHANGED <<queue, call, stop>>
          \/ /\ ~Full /\ x \in Ops
             /\ PutItem(x)
             /\ call' = [call EXCEPT ![x] = "waiting"]
             /\ UNCHANGED <<putters, stop>>
          \/ /\ ~Full /\ x \in Stoppers
             /\ PutItem(Stop)
             /\ stop' = [stop EXCEPT ![x] = "joining"]
             /\ UNCHANGED <<putters, call>>
  /\ UNCHANGED <<flagVars, writerVars, effect>>

-----------------------------------------------------------------------------
\* The writer task.

RunnableMutant(i) == queue[i] # Stop

\* A queued write that _run_one does not skip: its future is not cancelled.
Runnable(i) == queue[i] # Stop /\ call[queue[i]] # "cancelled"

DrainsMutant(draining, n) == draining

\* The writer is in the drain once it took a sentinel.
Drains(draining, n) == draining \/ \E i \in 1..n : queue[i] = Stop

\* _writer_loop and _drain_remaining from here to the next suspension: items are taken
\* up to the first write that runs; a sentinel among them turns the loop into the drain;
\* with nothing left to run the loop waits and the drain ends the task.  eff is what
\* the database has seen up to now.
Advance(draining, eff) ==
  LET runnable == {i \in DOMAIN queue : Runnable(i)} IN
  \/ \E n \in runnable :
       /\ \A i \in runnable : n <= i
       /\ TakeFirst(n)
       /\ cur' = queue[n]
       /\ effect' = [eff EXCEPT ![queue[n]] = "running"]
       /\ writer' = IF Drains(draining, n) THEN "drain" ELSE "run"
  \/ /\ runnable = {}
     /\ TakeFirst(Len(queue))
     /\ cur' = None
     /\ effect' = eff
     /\ writer' = IF Drains(draining, Len(queue)) THEN "exited" ELSE "idle"

\* The loop is woken in get().
TakeNext ==
  /\ writer = "idle"
  /\ queue # <<>>
  /\ Advance(FALSE, effect)
  /\ UNCHANGED <<flagVars, call, stop, deaths>>

\* "if not pending.future.done()"
Answer(o, answer) ==
  call' = IF call[o] = "waiting" THEN [call EXCEPT ![o] = answer] ELSE call

OpReturns ==
  /\ writer \in Working
  /\ Answer(cur, "ok")
  /\ Advance(writer = "drain", [effect EXCEPT ![cur] = "applied"])
  /\ UNCHANGED <<flagVars, stop, deaths>>

\* The closure raises: the statements it ran before that may have been applied.
OpRaises ==
  /\ writer \in Working
  /\ Answer(cur, "failed")
  /\ Advance(writer = "drain", [effect EXCEPT ![cur] = "unknown"])
  /\ UNCHANGED <<flagVars, stop, deaths>>

\* CancelledError in the writer task: it is cancelled, the closure itself raises it, or
\* a stop() that awaits the task is cancelled, which cancels the task too.
WriterDies ==
  /\ writer \in Working \cup {"idle"}
  /\ deaths < MaxDeaths
  /\ deaths' = deaths + 1
  /\ writer' = "died"
  /\ cur' = None
  /\ IF writer = "idle"
     THEN UNCHANGED <<call, effect>>
     ELSE /\ Answer(cur, "failed")
          /\ effect' = [effect EXCEPT ![cur] = "unknown"]
  /\ UNCHANGED <<queueVars, flagVars, stop>>

OrphansMutant == {}

\* The queued writes whose futures the supervisor fails.
Orphans == {o \in Ops : call[o] = "waiting" /\ o \in ToSet(queue)}

SupervisesMutant == TRUE

SupervisesNeverMutant == FALSE

\* The supervisor acts: the writer did not end because of stop().
Supervises == ~(closed \/ stopping)

\* _on_writer_done, which the loop calls some time after the task ended.
OnWriterDone ==
  /\ writer = "died"
  /\ \/ /\ ~Supervises
        /\ writer' = "gone"
        /\ UNCHANGED <<queueVars, call>>
     \/ /\ Supervises
        /\ call' = [o \in Ops |-> IF o \in Orphans THEN "failed" ELSE call[o]]
        /\ TakeFirst(Len(queue))
        /\ writer' = "idle"
  /\ UNCHANGED <<flagVars, cur, deaths, effect, stop>>

-----------------------------------------------------------------------------
\* stop().

StopCall(s) ==
  /\ stop[s] = "new"
  /\ \/ /\ closed
        /\ stop' = [stop EXCEPT ![s] = "done"]
        /\ UNCHANGED <<queueVars, flagVars>>
     \/ /\ ~closed /\ ~started               \* no queue and no writer to wait for
        /\ stopping' = TRUE /\ closed' = TRUE
        /\ stop' = [stop EXCEPT ![s] = "done"]
        /\ UNCHANGED <<queueVars, started, writerTask>>
     \/ /\ ~closed /\ started /\ ~Full
        /\ stopping' = TRUE
        /\ PutItem(Stop)
        /\ stop' = [stop EXCEPT ![s] = "joining"]
        /\ UNCHANGED <<putters, woken, started, closed, writerTask>>
     \/ /\ ~closed /\ started /\ Full
        /\ stopping' = TRUE
        /\ putters' = Append(putters, s)
        /\ stop' = [stop EXCEPT ![s] = "putting"]
        /\ UNCHANGED <<queue, woken, started, closed, writerTask>>
  /\ UNCHANGED <<writerVars, call, effect>>

\* "await self._writer_task" returns: the task is over, however it ended.
StopJoins(s) ==
  /\ stop[s] = "joining"
  /\ writerTask => writer \in {"died", "gone", "exited"}
  /\ closed' = TRUE
  /\ writerTask' = FALSE
  /\ stop' = [stop EXCEPT ![s] = "done"]
  /\ UNCHANGED <<started, stopping, queueVars, writerVars, call, effect>>

\* stop() is cancelled while its put waits: the exception leaves it before _closed is
\* set, and _stopping stays.
CancelStop(s) ==
  /\ stop[s] = "putting"
  /\ stop' = [stop EXCEPT ![s] = "cancelled"]
  /\ LeavePut(s)
  /\ UNCHANGED <<flagVars, writerVars, call, effect>>

-----------------------------------------------------------------------------
WriterStep == TakeNext \/ OpReturns \/ OpRaises

Next ==
  \/ Start
  \/ \E o \in Ops : Submit(o) \/ TrySubmit(o) \/ CancelCall(o)
  \/ ResumePut
  \/ TakeNext \/ OpReturns \/ OpRaises
  \/ WriterDies \/ OnWriterDone
  \/ \E s \in Stoppers : StopCall(s) \/ StopJoins(s) \/ CancelStop(s)

Spec == Init /\ [][Next]_vars

\* The event loop runs every ready task: a woken putter, the writer when the queue has
\* an item or its write has ended, a scheduled done-callback, a stop() whose awaited
\* task is over.  A write is a SQLite statement: it ends.  Nothing makes a caller call.
Fairness ==
  /\ WF_vars(ResumePut)
  /\ WF_vars(WriterStep)
  /\ WF_vars(OnWriterDone)
  /\ \A s \in Stoppers : WF_vars(StopJoins(s))

FairSpec == Spec /\ Fairness
-----------------------------------------------------------------------------
\* Why the promise is kept: the inductive invariant of SerialProofs.

Line == woken \o putters

QueueInv ==
  /\ \A o \in Ops : o \in ToSet(queue) =>
       call[o] \in {"waiting", "cancelled"} /\ effect[o] = "none"
  /\ \A i, j \in DOMAIN queue : queue[i] = queue[j] /\ queue[i] # Stop => i = j

LineInv ==
  /\ \A o \in Ops : o \in ToSet(Line) => call[o] = "putting"
  /\ \A s \in Stoppers : s \in ToSet(Line) => stop[s] = "putting"
  /\ IsInjective(Line)

EffectInv ==
  /\ \A o \in Ops : call[o] \in {"new", "putting", "refused"} => effect[o] = "none"
  /\ \A o \in Ops : (effect[o] = "running") = (writer \in Working /\ cur = o)
  /\ writer \in Working => cur \in Ops /\ call[cur] \in {"waiting", "cancelled"}

\* After stop() returned nothing executes: the caller (GraphStore.close,
\* VectorStore.close) goes on to close the connection the writes use.
QuietAfterStop == closed => writer \notin Working \cup {"idle"}

StopInv ==
  /\ ~started => writer = "none"
  /\ started /\ ~writerTask => closed
  /\ \A s \in Stoppers : stop[s] \in {"putting", "joining"} => started
  /\ QuietAfterStop

IInv == TypeOK /\ QueueInv /\ LineInv /\ EffectInv /\ StopInv

-----------------------------------------------------------------------------
\* Properties.

\* What the caller knows: whether it is suspended in put or on its future it cannot tell.
Status == [o \in Ops |-> CASE call[o] = "new"                   -> "idle"
                           [] call[o] \in {"putting", "waiting"} -> "open"
                           [] OTHER                              -> call[o]]

Service == INSTANCE WriteService WITH status <- Status

\* The queue keeps its promise (WriteService): whatever waits, is woken late, cancelled,
\* drained or failed by the supervisor, writes touch the database one at a time, a write
\* begins only while its caller waits, never twice and never after the caller was told it
\* failed, and what the caller is told agrees with what was done and is never revised.
ImplementsService == Service!SSpec

\* The writer died while the queue was stopping: the supervisor leaves what it was doing.
DiedStopping == stopping /\ writer \in {"died", "gone"}

\* A write that was in the queue before stop() was called is always answered: the drain
\* loses none of them, and the supervisor answers those of a dead writer.
QueuedIsAnswered ==
  \A o \in Ops :
    (call[o] = "waiting" /\ ~stopping) ~> (call[o] \in Answered \/ DiedStopping)

\* Backpressure ends: a caller suspended in put is let in (or the queue is stopped),
\* although other callers may take the slot it was woken for.
BackpressureEnds ==
  \A o \in Ops : (call[o] = "putting") ~> (call[o] # "putting" \/ stopping)

\* stop() returns, with a full queue, behind other putters, or called twice ("Safe to call
\* twice", write_queue.py:140); unless what a late put left in the queue of a writer that
\* has ended fills it: a second stop() then waits for room that nobody makes.
StopReturns ==
  \A s \in Stoppers :
    (stop[s] \in {"putting", "joining"})
      ~> (\/ stop[s] \in {"done", "cancelled"} \/ DiedStopping
          \/ writer = "exited" /\ Len(queue) = MaxSize)

\* "stop() drains all enqueued ops before returning so no in-flight write is lost" and
\* "callers don't hang" (write_queue.py:26-27, 41-43): every call of submit() returns.
CallersReturn ==
  \A o \in Ops : (call[o] \in {"putting", "waiting"}) ~> (call[o] \in Answered)
=============================================================================
