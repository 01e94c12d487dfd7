---------------------------- MODULE SerialProofs ----------------------------
(***************************************************************************)
(* Proofs about what puts writes one after another.  WriteQueue, for every *)
(* number of writes, calls of stop(), queue size and deaths of the writer: *)
(* the inductive invariant IInv, the silence after stop(), and that        *)
(* WriteQueue implements WriteService.  And MutationLock, for any tasks    *)
(* and paths: the inductive invariant LockInv, the exactness of the        *)
(* registry, and that the lock implements Mutex.  And AuditOutbox, for any *)
(* finite set of events, any size of a batch, any number of retries and of *)
(* faults: the inductive invariant OutboxInv, of what the relay holds and  *)
(* what it made of the events; that what is settled stays; and that the    *)
(* outbox implements AtLeastOnce.                                          *)
(***************************************************************************)
EXTENDS WriteQueue, MutationLock, AuditOutbox, SequenceLemmas

Persons == Ops \cup Stoppers

-----------------------------------------------------------------------------
\* asyncio.Queue.

\* Taking items leaves the line of putters (the woken ones first) as it was.
LEMMA TakeFirstLemma ==
  ASSUME TypeOK, NEW n \in 0..Len(queue), TakeFirst(n)
  PROVE  /\ queue' \in Seq(Ops \cup {Stop}) /\ Len(queue') = Len(queue) - n
         /\ \A i \in 1..Len(queue') : queue'[i] = queue[i + n]
         /\ putters' \in Seq(Persons) /\ woken' \in Seq(Persons)
         /\ Line' = Line
<1> DEFINE w == Smaller(n, Len(putters))
<1>1. w \in 0..Len(putters)
  BY DEF TypeOK, Smaller
<1>2. /\ queue' = SubSeq(queue, n + 1, Len(queue))
      /\ putters' = SubSeq(putters, w + 1, Len(putters))
      /\ woken' = woken \o SubSeq(putters, 1, w)
  BY DEF TakeFirst
<1> HIDE DEF w
<1>3. putters \in Seq(Persons) /\ woken \in Seq(Persons) /\ queue \in Seq(Ops \cup {Stop})
  BY DEF TypeOK, Persons
<1>4. woken' \in Seq(Persons) /\ woken' \o putters' = woken \o putters
  BY <1>1, <1>2, <1>3, MoveLemma
<1>5. putters' \in Seq(Persons)
  BY <1>1, <1>2, <1>3, CutLemma
<1>6. /\ queue' \in Seq(Ops \cup {Stop}) /\ Len(queue') = Len(queue) - n
      /\ \A i \in 1..(Len(queue) - n) : queue'[i] = queue[i + n]
  BY <1>2, <1>3, CutLemma
<1>7. QED
  BY <1>4, <1>5, <1>6 DEF Line

\* A putter that is cancelled leaves the line, and the others stay in it.
LEMMA LeavePutLemma ==
  ASSUME TypeOK, LineInv, NEW x \in Persons, LeavePut(x)
  PROVE  /\ queue' = queue
         /\ putters' \in Seq(Persons) /\ woken' \in Seq(Persons)
         /\ IsInjective(Line') /\ ToSet(Line') = ToSet(Line) \ {x}
<1>1. putters \in Seq(Persons) /\ woken \in Seq(Persons)
  BY DEF TypeOK, Persons
<1>0. Line = woken \o putters
  BY DEF Line
<1>2. Line \in Seq(Persons) /\ IsInjective(Line)
  BY <1>1, ConcatProperties DEF Line, LineInv
<1>3. ASSUME NEW k \in 1..Len(Line), Line[k] = x, Line' = RemoveAt(Line, k)
      PROVE  IsInjective(Line') /\ ToSet(Line') = ToSet(Line) \ {x}
  BY <1>2, <1>3, RemoveDistinct
<1>4. ASSUME NEW i \in DOMAIN putters, putters[i] = x,
             putters' = RemoveAt(putters, i), woken' = woken
      PROVE  /\ putters' \in Seq(Persons) /\ woken' \in Seq(Persons)
             /\ IsInjective(Line') /\ ToSet(Line') = ToSet(Line) \ {x}
  <2>1. i \in 1..Len(putters)
    BY <1>1
  <2>2. /\ Len(woken) + i \in 1..Len(Line) /\ Line[Len(woken) + i] = x
        /\ woken' \o putters' = RemoveAt(Line, Len(woken) + i)
    BY <1>1, <1>4, <2>1, RemoveAtOfRight, <1>0
  <2>3. Line' = RemoveAt(Line, Len(woken) + i)
    BY <2>2 DEF Line
  <2>4. putters' \in Seq(Persons)
    BY <1>1, <1>4, <2>1, RemoveAtLemma
  <2>5. QED
    BY <1>1, <1>3, <1>4, <2>2, <2>3, <2>4
<1>5. ASSUME NEW i \in DOMAIN woken, NEW w \in 0..Len(putters), woken[i] = x,
             woken' = RemoveAt(woken, i) \o SubSeq(putters, 1, w),
             putters' = SubSeq(putters, w + 1, Len(putters))
      PROVE  /\ putters' \in Seq(Persons) /\ woken' \in Seq(Persons)
             /\ IsInjective(Line') /\ ToSet(Line') = ToSet(Line) \ {x}
  <2>1. i \in 1..Len(woken) /\ RemoveAt(woken, i) \in Seq(Persons)
    BY <1>1, RemoveAtLemma
  <2>2. woken' \in Seq(Persons) /\ woken' \o putters' = RemoveAt(woken, i) \o putters
    BY <1>1, <1>5, <2>1, MoveLemma
  <2>3. /\ i \in 1..Len(Line) /\ Line[i] = x
        /\ RemoveAt(woken, i) \o putters = RemoveAt(Line, i)
    BY <1>1, <1>5, <2>1, RemoveAtOfLeft, <1>0
  <2>4. Line' = RemoveAt(Line, i)
    BY <2>2, <2>3 DEF Line
  <2>5. putters' \in Seq(Persons)
    BY <1>1, <1>5, CutLemma
  <2>6. QED
    BY <1>3, <2>2, <2>3, <2>4, <2>5
<1>6. QED
  <2>1. CASE \E i \in DOMAIN putters :
               putters[i] = x /\ putters' = RemoveAt(putters, i) /\ UNCHANGED woken
    BY <1>4, <2>1 DEF LeavePut
  <2>2. CASE \E i \in DOMAIN woken :
               LET w == IF Full THEN 0 ELSE Smaller(1, Len(putters)) IN
               /\ woken[i] = x
               /\ woken' = RemoveAt(woken, i) \o SubSeq(putters, 1, w)
               /\ putters' = SubSeq(putters, w + 1, Len(putters))
    <3>1. (IF Full THEN 0 ELSE Smaller(1, Len(putters))) \in 0..Len(putters)
      BY <1>1 DEF Smaller
    <3>2. QED
      BY <1>5, <2>2, <3>1 DEF LeavePut
  <2>3. QED
    BY <2>1, <2>2 DEF LeavePut

\* A caller that finds the queue full joins the end of the line.
LEMMA JoinLineLemma ==
  ASSUME TypeOK, NEW x \in Persons, putters' = Append(putters, x), woken' = woken,
         IsInjective(Line), x \notin ToSet(Line)
  PROVE  /\ putters' \in Seq(Persons) /\ woken' \in Seq(Persons)
         /\ IsInjective(Line') /\ ToSet(Line') = ToSet(Line) \cup {x}
<1>1. putters \in Seq(Persons) /\ woken \in Seq(Persons)
  BY DEF TypeOK, Persons
<1>2. putters' \in Seq(Persons)
  BY <1>1, AppendProperties
<1>3. Line' = Append(Line, x)
  BY <1>1, AppendOfConcat DEF Line
<1>4. Line \in Seq(Persons)
  BY <1>1, ConcatProperties DEF Line
<1>5. QED
  BY <1>1, <1>2, <1>3, <1>4, AppendDistinct

\* The head of the woken putters leaves the line when it is run.
LEMMA WakeLemma ==
  ASSUME TypeOK, LineInv, woken # <<>>
  PROVE  /\ Head(woken) \in Persons /\ Head(woken) \in ToSet(Line)
         /\ Tail(woken) \in Seq(Persons)
         /\ IsInjective(Tail(woken) \o putters)
         /\ ToSet(Tail(woken) \o putters) = ToSet(Line) \ {Head(woken)}
<1>1. putters \in Seq(Persons) /\ woken \in Seq(Persons) /\ 1 \in 1..Len(woken)
  BY EmptySeq DEF TypeOK, Persons
<1>0. Line = woken \o putters
  BY DEF Line
<1>2. Head(woken) = woken[1] /\ Head(woken) \in Persons /\ Tail(woken) \in Seq(Persons)
  BY <1>1, HeadTailProperties
<1>3. /\ 1 \in 1..Len(Line) /\ Line[1] = woken[1]
      /\ Tail(woken) \o putters = RemoveAt(Line, 1)
  <2>1. Tail(woken) = RemoveAt(woken, 1)
    BY <1>1, TailIsRemoveAt
  <2>2. /\ 1 \in 1..Len(Line) /\ Line[1] = woken[1]
        /\ RemoveAt(woken, 1) \o putters = RemoveAt(Line, 1)
    BY <1>0, <1>1, RemoveAtOfLeft
  <2>3. QED
    BY <2>1, <2>2, Zenon
<1>4. Line \in Seq(Persons) /\ IsInjective(Line)
  BY <1>1, ConcatProperties DEF Line, LineInv
<1>5. Line[1] \in ToSet(Line)
  BY <1>3, <1>4, LenProperties DEF ToSet
<1>6. IsInjective(RemoveAt(Line, 1)) /\ ToSet(RemoveAt(Line, 1)) = ToSet(Line) \ {Line[1]}
  BY <1>3, <1>4, RemoveDistinct
<1>7. QED
  BY <1>2, <1>3, <1>5, <1>6, Zenon

\* The writer goes on to its next write: it is the one of an element of the queue that
\* still waits, and no other element of the queue is it.
LEMMA AdvanceLemma ==
  ASSUME TypeOK, QueueInv, NEW draining \in BOOLEAN,
         NEW eff \in [Ops -> {"none", "running", "applied", "unknown"}],
         Advance(draining, eff)
  PROVE  /\ queue' \in Seq(Ops \cup {Stop}) /\ Len(queue') <= MaxSize
         /\ ToSet(queue') \subseteq ToSet(queue)
         /\ \A i, j \in DOMAIN queue' : queue'[i] = queue'[j] /\ queue'[i] # Stop => i = j
         /\ putters' \in Seq(Persons) /\ woken' \in Seq(Persons) /\ Line' = Line
         /\ \/ /\ cur' \in Ops /\ cur' \in ToSet(queue) /\ cur' \notin ToSet(queue')
               /\ call[cur'] = "waiting"
               /\ effect' = [eff EXCEPT ![cur'] = "running"]
               /\ writer' \in Working
            \/ /\ cur' = None /\ effect' = eff /\ writer' \in {"idle", "exited"}
<1>1. queue \in Seq(Ops \cup {Stop}) /\ DOMAIN queue = 1..Len(queue) /\ Len(queue) \in Nat
  BY LenProperties DEF TypeOK
<1>2. ASSUME NEW n \in 0..Len(queue), TakeFirst(n)
      PROVE  /\ queue' \in Seq(Ops \cup {Stop}) /\ Len(queue') <= MaxSize
             /\ DOMAIN queue' = 1..(Len(queue) - n)
             /\ \A i \in 1..(Len(queue) - n) :
                  i + n \in 1..Len(queue) /\ queue'[i] = queue[i + n]
             /\ putters' \in Seq(Persons) /\ woken' \in Seq(Persons) /\ Line' = Line
  <2>1. /\ queue' \in Seq(Ops \cup {Stop}) /\ Len(queue') = Len(queue) - n
        /\ \A i \in 1..Len(queue') : queue'[i] = queue[i + n]
        /\ putters' \in Seq(Persons) /\ woken' \in Seq(Persons) /\ Line' = Line
    BY <1>2, TakeFirstLemma
  <2>2. MaxSize \in Nat /\ Len(queue) <= MaxSize
    BY SizeAssumption DEF TypeOK
  <2>3. DOMAIN queue' = 1..Len(queue')
    BY <2>1, LenProperties
  <2>4. Len(queue') <= MaxSize
    BY <1>1, <1>2, <2>1, <2>2
  <2>5. ASSUME NEW i \in 1..(Len(queue) - n)
        PROVE  i + n \in 1..Len(queue)
    BY <1>1, <1>2
  <2>6. QED
    BY <2>1, <2>3, <2>4, <2>5
<1>3. ASSUME NEW n \in 0..Len(queue), TakeFirst(n)
      PROVE  /\ ToSet(queue') \subseteq ToSet(queue)
             /\ \A i, j \in DOMAIN queue' :
                  queue'[i] = queue'[j] /\ queue'[i] # Stop => i = j
  <2>1. ASSUME NEW x \in ToSet(queue') PROVE x \in ToSet(queue)
    BY <2>1, <1>1, <1>2, <1>3 DEF ToSet
  <2>2. ASSUME NEW i \in DOMAIN queue', NEW j \in DOMAIN queue',
               queue'[i] = queue'[j], queue'[i] # Stop
        PROVE  i = j
    <3>1. /\ i \in 1..(Len(queue) - n) /\ j \in 1..(Len(queue) - n)
          /\ i + n \in DOMAIN queue /\ j + n \in DOMAIN queue
          /\ queue[i + n] = queue[j + n] /\ queue[i + n] # Stop
      BY <1>1, <1>2, <1>3, <2>2
    <3>2. i + n = j + n
      BY <3>1 DEF QueueInv
    <3>3. QED
      BY <1>1, <3>1, <3>2
  <2>3. QED
    BY <2>1, <2>2
<1>4. CASE \E n \in {i \in DOMAIN queue : Runnable(i)} :
             /\ TakeFirst(n)
             /\ cur' = queue[n]
             /\ effect' = [eff EXCEPT ![queue[n]] = "running"]
             /\ writer' = IF Drains(draining, n) THEN "drain" ELSE "run"
  <2>1. PICK n \in DOMAIN queue :
          /\ Runnable(n) /\ TakeFirst(n) /\ cur' = queue[n]
          /\ effect' = [eff EXCEPT ![queue[n]] = "running"]
          /\ writer' = IF Drains(draining, n) THEN "drain" ELSE "run"
    BY <1>4
  <2>2. n \in 0..Len(queue) /\ n \in 1..Len(queue)
    BY <1>1
  <2>3. cur' \in Ops /\ cur' \in ToSet(queue)
    BY <1>1, <2>1, <2>2, ElementOfSeq DEF Runnable, ToSet
  <2>4. call[cur'] = "waiting"
    BY <2>1, <2>3 DEF Runnable, QueueInv
  <2>5. cur' \notin ToSet(queue')
    <3>1. SUFFICES ASSUME cur' \in ToSet(queue') PROVE FALSE
      OBVIOUS
    <3>2. PICK i \in DOMAIN queue' : queue'[i] = cur'
      BY <3>1 DEF ToSet
    <3>3. i \in 1..(Len(queue) - n) /\ i + n \in DOMAIN queue /\ queue[i + n] = queue[n]
      BY <1>1, <1>2, <2>1, <2>2, <3>2
    <3>4. i + n = n
      BY <2>1, <3>3 DEF QueueInv, Runnable
    <3>5. QED
      BY <2>2, <3>3, <3>4
  <2>6. writer' \in Working
    BY <2>1 DEF Working
  <2>7. QED
    BY <1>2, <1>3, <2>1, <2>2, <2>3, <2>4, <2>5, <2>6
<1>5. CASE /\ TakeFirst(Len(queue))
           /\ cur' = None
           /\ effect' = eff
           /\ writer' = IF Drains(draining, Len(queue)) THEN "exited" ELSE "idle"
  BY <1>1, <1>5, <1>2, <1>3
<1>6. QED
  BY <1>4, <1>5 DEF Advance

\* put_nowait of a write that is not in the queue.
LEMMA PutOpLemma ==
  ASSUME TypeOK, QueueInv, ~Full, NEW o \in Ops, o \notin ToSet(queue), PutItem(o)
  PROVE  /\ queue' \in Seq(Ops \cup {Stop}) /\ Len(queue') <= MaxSize
         /\ ToSet(queue') = ToSet(queue) \cup {o}
         /\ \A i, j \in DOMAIN queue' : queue'[i] = queue'[j] /\ queue'[i] # Stop => i = j
<1>1. queue \in Seq(Ops \cup {Stop}) /\ DOMAIN queue = 1..Len(queue) /\ Len(queue) \in Nat
  BY LenProperties DEF TypeOK
<1>2. /\ queue' \in Seq(Ops \cup {Stop}) /\ Len(queue') = Len(queue) + 1
      /\ \A i \in 1..Len(queue) : queue'[i] = queue[i]
      /\ queue'[Len(queue) + 1] = o
  BY <1>1, AppendProperties DEF PutItem
<1>3. DOMAIN queue' = 1..(Len(queue) + 1)
  BY <1>2, LenProperties
<1>4. Len(queue') <= MaxSize
  BY <1>1, <1>2, SizeAssumption DEF Full
<1>5. \A i \in 1..Len(queue) : queue[i] # o
  BY <1>1 DEF ToSet
<1>6. ToSet(queue') = ToSet(queue) \cup {o}
  BY <1>1, <1>2, <1>3 DEF ToSet
<1>7. ASSUME NEW i \in DOMAIN queue', NEW j \in DOMAIN queue',
             queue'[i] = queue'[j], queue'[i] # Stop
      PROVE  i = j
  BY <1>1, <1>2, <1>7, <1>3, <1>5 DEF QueueInv
<1>8. QED
  BY <1>2, <1>4, <1>6, <1>7

\* put_nowait of the sentinel.
LEMMA PutStopLemma ==
  ASSUME TypeOK, QueueInv, ~Full, PutItem(Stop)
  PROVE  /\ queue' \in Seq(Ops \cup {Stop}) /\ Len(queue') <= MaxSize
         /\ ToSet(queue') = ToSet(queue) \cup {Stop}
         /\ \A i, j \in DOMAIN queue' : queue'[i] = queue'[j] /\ queue'[i] # Stop => i = j
<1>1. queue \in Seq(Ops \cup {Stop}) /\ DOMAIN queue = 1..Len(queue) /\ Len(queue) \in Nat
  BY LenProperties DEF TypeOK
<1>2. /\ queue' \in Seq(Ops \cup {Stop}) /\ Len(queue') = Len(queue) + 1
      /\ \A i \in 1..Len(queue) : queue'[i] = queue[i]
      /\ queue'[Len(queue) + 1] = Stop
  BY <1>1, AppendProperties DEF PutItem
<1>3. DOMAIN queue' = 1..(Len(queue) + 1)
  BY <1>2, LenProperties
<1>4. Len(queue') <= MaxSize
  BY <1>1, <1>2, SizeAssumption DEF Full
<1>5. ToSet(queue') = ToSet(queue) \cup {Stop}
  BY <1>1, <1>2, <1>3 DEF ToSet
<1>6. \A i, j \in DOMAIN queue' : queue'[i] = queue'[j] /\ queue'[i] # Stop => i = j
  BY <1>1, <1>2, <1>3 DEF QueueInv
<1>7. QED
  BY <1>2, <1>4, <1>5, <1>6

-----------------------------------------------------------------------------
\* The inductive invariant, action by action.

\* A queue that was just built satisfies the invariant.
LEMMA InitIInv == Init => IInv
<1> SUFFICES ASSUME Init PROVE IInv
  OBVIOUS
<1>0. /\ \A S : <<>> \in Seq(S) /\ Len(<<>>) = 0
      /\ 0 <= MaxSize /\ 0 \in 0..MaxDeaths
  BY EmptySeq, SizeAssumption, DeathAssumption
<1>1. TypeOK
  BY <1>0 DEF Init, TypeOK
<1>2. ToSet(queue) = {} /\ queue = <<>>
  BY DEF Init, ToSet
<1>3. QueueInv
  BY <1>2 DEF QueueInv
<1>4. Line = <<>> /\ ToSet(Line) = {}
  BY DEF Init, Line, ToSet
<1>5. LineInv
  BY <1>4 DEF LineInv, IsInjective
<1>6. EffectInv
  BY DEF Init, EffectInv, Working
<1>7. StopInv
  BY DEF Init, StopInv, QuietAfterStop
<1>8. QED
  BY <1>1, <1>3, <1>5, <1>6, <1>7 DEF IInv

\* start() keeps the invariant.
LEMMA StartIInv == IInv /\ Start => IInv'
<1> SUFFICES ASSUME IInv, Start PROVE IInv'
  OBVIOUS
<1> USE DEF IInv, Start
<1>0. \A S : <<>> \in Seq(S) /\ Len(<<>>) = 0 /\ 0 <= MaxSize
  BY EmptySeq, SizeAssumption
<1>1. TypeOK'
  BY <1>0 DEF TypeOK
<1>2. ToSet(queue') = {} /\ queue' = <<>>
  BY DEF ToSet
<1>3. QueueInv'
  BY <1>2 DEF QueueInv
<1>4. LineInv'
  BY DEF LineInv, Line
<1>5. EffectInv'
  BY DEF EffectInv, Working, StopInv
<1>6. StopInv'
  BY DEF StopInv, QuietAfterStop
<1>7. QED
  BY <1>1, <1>3, <1>4, <1>5, <1>6

\* submit() keeps the invariant: refused, let in at once, or suspended in put.
LEMMA SubmitIInv == ASSUME NEW o \in Ops PROVE IInv /\ Submit(o) => IInv'
<1> SUFFICES ASSUME IInv, Submit(o) PROVE IInv'
  OBVIOUS
<1>0. /\ TypeOK /\ QueueInv /\ LineInv /\ EffectInv /\ StopInv /\ call[o] = "new"
      /\ UNCHANGED <<flagVars, writerVars, effect, stop>>
  BY DEF IInv, Submit
<1>1. o \notin ToSet(queue) /\ o \notin ToSet(Line) /\ o \in Persons
  BY <1>0 DEF QueueInv, LineInv, Persons
<1>2. EffectInv' /\ StopInv'
  <2>1. EffectInv'
    BY <1>0 DEF EffectInv, Submit, TypeOK, writerVars
  <2>2. StopInv'
    BY <1>0 DEF StopInv, QuietAfterStop, flagVars, writerVars
  <2>3. QED
    BY <2>1, <2>2
<1>3. CASE /\ Rejecting
           /\ call' = [call EXCEPT ![o] = "refused"]
           /\ UNCHANGED queueVars
  <2>1. TypeOK'
    BY <1>0, <1>3 DEF TypeOK, flagVars, writerVars, queueVars, Answered
  <2>2. QueueInv'
    BY <1>0, <1>1, <1>3 DEF QueueInv, queueVars, TypeOK
  <2>3. LineInv'
    BY <1>0, <1>1, <1>3 DEF LineInv, Line, queueVars, TypeOK
  <2>4. QED
    BY <1>2, <2>1, <2>2, <2>3 DEF IInv
<1>4. CASE /\ ~Rejecting /\ ~Full
           /\ PutItem(o)
           /\ call' = [call EXCEPT ![o] = "waiting"]
           /\ UNCHANGED <<putters, woken>>
  <2>1. /\ queue' \in Seq(Ops \cup {Stop}) /\ Len(queue') <= MaxSize
        /\ ToSet(queue') = ToSet(queue) \cup {o}
        /\ \A i, j \in DOMAIN queue' : queue'[i] = queue'[j] /\ queue'[i] # Stop => i = j
    BY <1>0, <1>1, <1>4, PutOpLemma
  <2>2. TypeOK'
    BY <1>0, <1>4, <2>1 DEF TypeOK, flagVars, writerVars
  <2>3. QueueInv'
    BY <1>0, <1>4, <2>1 DEF QueueInv, TypeOK, EffectInv
  <2>4. LineInv'
    BY <1>0, <1>1, <1>4 DEF LineInv, Line, TypeOK
  <2>5. QED
    BY <1>2, <2>2, <2>3, <2>4 DEF IInv
<1>5. CASE /\ ~Rejecting /\ Full
           /\ putters' = Append(putters, o)
           /\ call' = [call EXCEPT ![o] = "putting"]
           /\ UNCHANGED <<queue, woken>>
  <2>1. /\ putters' \in Seq(Persons) /\ woken' \in Seq(Persons)
        /\ IsInjective(Line') /\ ToSet(Line') = ToSet(Line) \cup {o}
    BY <1>0, <1>1, <1>5, JoinLineLemma DEF LineInv
  <2>2. TypeOK'
    BY <1>0, <1>5, <2>1 DEF TypeOK, flagVars, writerVars, Persons
  <2>3. QueueInv'
    BY <1>0, <1>1, <1>5 DEF QueueInv, TypeOK
  <2>4. LineInv'
    BY <1>0, <1>5, <2>1, KindAssumption DEF LineInv, TypeOK
  <2>5. QED
    BY <1>2, <2>2, <2>3, <2>4 DEF IInv
<1>6. QED
  BY <1>3, <1>4, <1>5 DEF Submit

\* try_submit() keeps the invariant: refused or let in at once.
LEMMA TrySubmitIInv == ASSUME NEW o \in Ops PROVE IInv /\ TrySubmit(o) => IInv'
<1> SUFFICES ASSUME IInv, TrySubmit(o) PROVE IInv'
  OBVIOUS
<1>0. /\ TypeOK /\ QueueInv /\ LineInv /\ EffectInv /\ StopInv /\ call[o] = "new"
      /\ UNCHANGED <<putters, woken, flagVars, writerVars, effect, stop>>
  BY DEF IInv, TrySubmit
<1>1. o \notin ToSet(queue) /\ o \notin ToSet(Line)
  BY <1>0 DEF QueueInv, LineInv
<1>2. EffectInv' /\ StopInv'
  <2>1. EffectInv'
    BY <1>0 DEF EffectInv, TrySubmit, TypeOK, writerVars
  <2>2. StopInv'
    BY <1>0 DEF StopInv, QuietAfterStop, flagVars, writerVars
  <2>3. QED
    BY <2>1, <2>2
<1>3. CASE /\ call' = [call EXCEPT ![o] = "refused"]
           /\ UNCHANGED queue
  <2>1. TypeOK'
    BY <1>0, <1>3 DEF TypeOK, flagVars, writerVars, Answered
  <2>2. QueueInv'
    BY <1>0, <1>1, <1>3 DEF QueueInv, TypeOK
  <2>3. LineInv'
    BY <1>0, <1>1, <1>3 DEF LineInv, Line, TypeOK
  <2>4. QED
    BY <1>2, <2>1, <2>2, <2>3 DEF IInv
<1>4. CASE /\ ~Rejecting /\ ~Full
           /\ PutItem(o)
           /\ call' = [call EXCEPT ![o] = "waiting"]
  <2>1. /\ queue' \in Seq(Ops \cup {Stop}) /\ Len(queue') <= MaxSize
        /\ ToSet(queue') = ToSet(queue) \cup {o}
        /\ \A i, j \in DOMAIN queue' : queue'[i] = queue'[j] /\ queue'[i] # Stop => i = j
    BY <1>0, <1>1, <1>4, PutOpLemma
  <2>2. TypeOK'
    BY <1>0, <1>4, <2>1 DEF TypeOK, flagVars, writerVars
  <2>3. QueueInv'
    BY <1>0, <1>4, <2>1 DEF QueueInv, TypeOK, EffectInv
  <2>4. LineInv'
    BY <1>0, <1>1, <1>4 DEF LineInv, Line, TypeOK
  <2>5. QED
    BY <1>2, <2>2, <2>3, <2>4 DEF IInv
<1>5. QED
  BY <1>3, <1>4 DEF TrySubmit

\* The cancellation of a caller keeps the invariant, in put or on its future.
LEMMA CancelCallIInv == ASSUME NEW o \in Ops PROVE IInv /\ CancelCall(o) => IInv'
<1> SUFFICES ASSUME IInv, CancelCall(o) PROVE IInv'
  OBVIOUS
<1>0. /\ TypeOK /\ QueueInv /\ LineInv /\ EffectInv /\ StopInv
      /\ call[o] \in {"putting", "waiting"} /\ call' = [call EXCEPT ![o] = "cancelled"]
      /\ UNCHANGED <<flagVars, writerVars, effect, stop>>
  BY DEF IInv, CancelCall
<1>1. EffectInv' /\ StopInv'
  <2>1. EffectInv'
    BY <1>0 DEF EffectInv, TypeOK, writerVars, Working
  <2>2. StopInv'
    BY <1>0 DEF StopInv, QuietAfterStop, flagVars, writerVars
  <2>3. QED
    BY <2>1, <2>2
<1>2. CASE call[o] = "putting"
  <2>1. /\ queue' = queue
        /\ putters' \in Seq(Persons) /\ woken' \in Seq(Persons)
        /\ IsInjective(Line') /\ ToSet(Line') = ToSet(Line) \ {o}
    BY <1>0, <1>2, LeavePutLemma DEF CancelCall, Persons
  <2>2. TypeOK'
    BY <1>0, <2>1 DEF TypeOK, flagVars, writerVars, Persons, Answered
  <2>3. QueueInv'
    BY <1>0, <2>1 DEF QueueInv, TypeOK
  <2>4. LineInv'
    BY <1>0, <2>1 DEF LineInv, TypeOK
  <2>5. QED
    BY <1>1, <2>2, <2>3, <2>4 DEF IInv
<1>3. CASE call[o] = "waiting"
  <2>1. UNCHANGED queueVars
    BY <1>3 DEF CancelCall
  <2>2. TypeOK'
    BY <1>0, <2>1 DEF TypeOK, flagVars, writerVars, queueVars, Answered
  <2>3. QueueInv'
    BY <1>0, <2>1 DEF QueueInv, TypeOK, queueVars
  <2>4. LineInv'
    BY <1>0, <1>3, <2>1 DEF LineInv, Line, TypeOK, queueVars
  <2>5. QED
    BY <1>1, <2>2, <2>3, <2>4 DEF IInv
<1>4. QED
  BY <1>0, <1>2, <1>3

\* A woken putter keeps the invariant: it joins the line again or is let in.
LEMMA ResumePutIInv == IInv /\ ResumePut => IInv'
<1> SUFFICES ASSUME IInv, ResumePut PROVE IInv'
  OBVIOUS
<1> DEFINE x == Head(woken)
<1>0. /\ TypeOK /\ QueueInv /\ LineInv /\ EffectInv /\ StopInv
      /\ woken # <<>> /\ woken' = Tail(woken)
      /\ UNCHANGED <<flagVars, writerVars, effect>>
  BY DEF IInv, ResumePut
<1>1. /\ x \in Persons /\ x \in ToSet(Line)
      /\ Tail(woken) \in Seq(Persons)
      /\ IsInjective(Tail(woken) \o putters)
      /\ ToSet(Tail(woken) \o putters) = ToSet(Line) \ {x}
  BY <1>0, WakeLemma
<1>2. putters \in Seq(Persons) /\ woken' \in Seq(Persons)
  BY <1>0, <1>1 DEF TypeOK, Persons
<1> HIDE DEF x
<1>3. CASE /\ Full
           /\ putters' = Append(putters, x)
           /\ UNCHANGED <<queue, call, stop>>
  <2>1. putters' \in Seq(Persons)
    BY <1>1, <1>2, <1>3, AppendProperties
  <2>2. Line' = Append(Tail(woken) \o putters, x)
    BY <1>0, <1>1, <1>2, <1>3, AppendOfConcat DEF Line
  <2>3. Tail(woken) \o putters \in Seq(Persons) /\ x \notin ToSet(Tail(woken) \o putters)
    BY <1>1, <1>2, ConcatProperties
  <2>4. IsInjective(Line') /\ ToSet(Line') = ToSet(Tail(woken) \o putters) \cup {x}
    <3> DEFINE t == Tail(woken) \o putters
    <3>1. t \in Seq(Persons) /\ IsInjective(t) /\ x \in Persons /\ x \notin ToSet(t)
      BY <1>1, <2>3
    <3>2. Line' = Append(t, x)
      BY <2>2
    <3> HIDE DEF t
    <3>3. IsInjective(Append(t, x)) /\ ToSet(Append(t, x)) = ToSet(t) \cup {x}
      BY <3>1, AppendDistinct
    <3>4. QED
      BY <3>2, <3>3, Zenon DEF t
  <2>5. ToSet(Line') = ToSet(Line)
    BY <1>1, <2>4
  <2>6. TypeOK'
    BY <1>0, <1>2, <1>3, <2>1 DEF TypeOK, flagVars, writerVars, Persons
  <2>7. QueueInv'
    BY <1>0, <1>3 DEF QueueInv
  <2>8. LineInv'
    BY <1>0, <1>3, <2>4, <2>5 DEF LineInv
  <2>9. EffectInv'
    BY <1>0, <1>3 DEF EffectInv, writerVars
  <2>10. StopInv'
    BY <1>0, <1>3 DEF StopInv, QuietAfterStop, flagVars, writerVars
  <2>11. QED
    BY <2>6, <2>7, <2>8, <2>9, <2>10 DEF IInv
<1>4. CASE /\ ~Full /\ x \in Ops
           /\ PutItem(x)
           /\ call' = [call EXCEPT ![x] = "waiting"]
           /\ UNCHANGED <<putters, stop>>
  <2>1. call[x] = "putting" /\ x \notin ToSet(queue)
    BY <1>0, <1>1, <1>4 DEF LineInv, QueueInv
  <2>2. /\ queue' \in Seq(Ops \cup {Stop}) /\ Len(queue') <= MaxSize
        /\ ToSet(queue') = ToSet(queue) \cup {x}
        /\ \A i, j \in DOMAIN queue' : queue'[i] = queue'[j] /\ queue'[i] # Stop => i = j
    BY <1>0, <1>4, <2>1, PutOpLemma
  <2>3. Line' = Tail(woken) \o putters
    BY <1>0, <1>4 DEF Line
  <2>4. TypeOK'
    BY <1>0, <1>2, <1>4, <2>2 DEF TypeOK, flagVars, writerVars, Persons
  <2>5. QueueInv'
    BY <1>0, <1>4, <2>1, <2>2 DEF QueueInv, TypeOK, EffectInv
  <2>6. LineInv'
    BY <1>0, <1>1, <1>4, <2>3 DEF LineInv, TypeOK
  <2>7. EffectInv'
    BY <1>0, <1>4, <2>1 DEF EffectInv, writerVars, TypeOK
  <2>8. StopInv'
    BY <1>0, <1>4 DEF StopInv, QuietAfterStop, flagVars, writerVars
  <2>9. QED
    BY <2>4, <2>5, <2>6, <2>7, <2>8 DEF IInv
<1>5. CASE /\ ~Full /\ x \in Stoppers
           /\ PutItem(Stop)
           /\ stop' = [stop EXCEPT ![x] = "joining"]
           /\ UNCHANGED <<putters, call>>
  <2>1. stop[x] = "putting"
    BY <1>0, <1>1, <1>5 DEF LineInv
  <2>2. /\ queue' \in Seq(Ops \cup {Stop}) /\ Len(queue') <= MaxSize
        /\ ToSet(queue') = ToSet(queue) \cup {Stop}
        /\ \A i, j \in DOMAIN queue' : queue'[i] = queue'[j] /\ queue'[i] # Stop => i = j
    BY <1>0, <1>5, PutStopLemma
  <2>3. Line' = Tail(woken) \o putters
    BY <1>0, <1>5 DEF Line
  <2>4. TypeOK'
    BY <1>0, <1>2, <1>5, <2>2 DEF TypeOK, flagVars, writerVars, Persons
  <2>5. QueueInv'
    BY <1>0, <1>5, <2>2, KindAssumption DEF QueueInv
  <2>6. LineInv'
    BY <1>0, <1>1, <1>5, <2>3 DEF LineInv, TypeOK
  <2>7. EffectInv'
    BY <1>0, <1>5 DEF EffectInv, writerVars
  <2>8. StopInv'
    BY <1>0, <1>5, <2>1 DEF StopInv, QuietAfterStop, flagVars, writerVars, TypeOK
  <2>9. QED
    BY <2>4, <2>5, <2>6, <2>7, <2>8 DEF IInv
<1>6. QED
  BY <1>3, <1>4, <1>5 DEF ResumePut, x

\* A step of the writer keeps the invariant, whatever it answers to the write that ended
\* (answers) and whatever that write left in the database (eff).
LEMMA WriterStepLemma ==
  ASSUME IInv, writer \in Working \cup {"idle"},
         NEW draining \in BOOLEAN,
         NEW eff \in [Ops -> {"none", "running", "applied", "unknown"}],
         NEW answers \in [Ops -> {"new", "putting", "waiting"} \cup Answered],
         \A o \in Ops : o \in ToSet(queue) => answers[o] = call[o] /\ eff[o] = "none",
         \A o \in Ops : call[o] = "putting" => answers[o] = "putting",
         \A o \in Ops : eff[o] # "running",
         \A o \in Ops : answers[o] \in {"new", "putting", "refused"} => eff[o] = "none",
         Advance(draining, eff),
         call' = answers,
         UNCHANGED <<flagVars, stop, deaths>>
  PROVE  IInv'
<1>0. TypeOK /\ QueueInv /\ LineInv /\ EffectInv /\ StopInv
  BY DEF IInv
<1>1. /\ queue' \in Seq(Ops \cup {Stop}) /\ Len(queue') <= MaxSize
      /\ ToSet(queue') \subseteq ToSet(queue)
      /\ \A i, j \in DOMAIN queue' : queue'[i] = queue'[j] /\ queue'[i] # Stop => i = j
      /\ putters' \in Seq(Persons) /\ woken' \in Seq(Persons) /\ Line' = Line
      /\ \/ /\ cur' \in Ops /\ cur' \in ToSet(queue) /\ cur' \notin ToSet(queue')
            /\ call[cur'] = "waiting"
            /\ effect' = [eff EXCEPT ![cur'] = "running"]
            /\ writer' \in Working
         \/ /\ cur' = None /\ effect' = eff /\ writer' \in {"idle", "exited"}
  BY <1>0, AdvanceLemma
<1>2. TypeOK'
  BY <1>0, <1>1 DEF TypeOK, flagVars, Persons, Working
<1>3. QueueInv'
  BY <1>0, <1>1 DEF QueueInv
<1>4. LineInv'
  BY <1>0, <1>1 DEF LineInv
<1>5. EffectInv'
  BY <1>1, KindAssumption DEF EffectInv, Working
<1>6. StopInv'
  BY <1>0, <1>1 DEF StopInv, QuietAfterStop, flagVars, Working
<1>7. QED
  BY <1>2, <1>3, <1>4, <1>5, <1>6 DEF IInv

\* The writer that wakes in get() keeps the invariant.
LEMMA TakeNextIInv == IInv /\ TakeNext => IInv'
BY WriterStepLemma DEF IInv, TakeNext, QueueInv, EffectInv, Working, TypeOK

\* The write that ended, answered and with its trace in the database.
LEMMA WriteEnds ==
  ASSUME IInv, writer \in Working,
         NEW answer \in Answered \ {"refused"}, NEW end \in {"applied", "unknown"},
         Answer(cur, answer),
         Advance(writer = "drain", [effect EXCEPT ![cur] = end]),
         UNCHANGED <<flagVars, stop, deaths>>
  PROVE  IInv'
<1> DEFINE eff == [effect EXCEPT ![cur] = end]
           answers == IF call[cur] = "waiting" THEN [call EXCEPT ![cur] = answer] ELSE call
<1>0. TypeOK /\ QueueInv /\ EffectInv
  BY DEF IInv
<1>1. /\ cur \in Ops /\ call[cur] \in {"waiting", "cancelled"} /\ effect[cur] = "running"
      /\ cur \notin ToSet(queue)
  BY <1>0 DEF EffectInv, QueueInv
<1>2. /\ eff \in [Ops -> {"none", "running", "applied", "unknown"}]
      /\ eff[cur] = end
      /\ \A o \in Ops \ {cur} : eff[o] = effect[o]
  BY <1>0, <1>1 DEF TypeOK
<1>3. /\ answers \in [Ops -> {"new", "putting", "waiting"} \cup Answered]
      /\ answers[cur] \in {answer, "cancelled"}
      /\ \A o \in Ops \ {cur} : answers[o] = call[o]
  BY <1>0, <1>1 DEF TypeOK
<1>4. call' = answers /\ Advance(writer = "drain", eff)
  BY DEF Answer
<1> HIDE DEF eff, answers
<1>5. \A o \in Ops : o \in ToSet(queue) => answers[o] = call[o] /\ eff[o] = "none"
  BY <1>0, <1>1, <1>2, <1>3 DEF QueueInv
<1>6. \A o \in Ops : call[o] = "putting" => answers[o] = "putting"
  BY <1>1, <1>3
<1>7. \A o \in Ops : eff[o] # "running"
  BY <1>0, <1>1, <1>2 DEF EffectInv
<1>8. \A o \in Ops : answers[o] \in {"new", "putting", "refused"} => eff[o] = "none"
  BY <1>0, <1>1, <1>2, <1>3 DEF EffectInv, Answered
<1>9. (writer = "drain") \in BOOLEAN /\ writer \in Working \cup {"idle"}
  OBVIOUS
<1>10. QED
  BY <1>2, <1>3, <1>4, <1>5, <1>6, <1>7, <1>8, <1>9, WriterStepLemma

\* A write that returns keeps the invariant.
LEMMA OpReturnsIInv == IInv /\ OpReturns => IInv'
  BY WriteEnds DEF OpReturns, Answered

\* A write that raises keeps the invariant.
LEMMA OpRaisesIInv == IInv /\ OpRaises => IInv'
  BY WriteEnds DEF OpRaises, Answered

\* The death of the writer keeps the invariant: its write is answered, nothing runs.
LEMMA WriterDiesIInv == IInv /\ WriterDies => IInv'
<1> SUFFICES ASSUME IInv, WriterDies PROVE IInv'
  OBVIOUS
<1>0. /\ TypeOK /\ QueueInv /\ LineInv /\ EffectInv /\ StopInv
      /\ UNCHANGED <<queueVars, flagVars, stop>>
      /\ writer \in Working \cup {"idle"} /\ writer' = "died" /\ cur' = None
      /\ deaths < MaxDeaths /\ deaths' = deaths + 1
  BY DEF IInv, WriterDies
<1>1. deaths' \in 0..MaxDeaths
  BY <1>0, DeathAssumption DEF TypeOK
<1>2. StopInv'
  BY <1>0 DEF StopInv, QuietAfterStop, flagVars, Working
<1>3. CASE writer = "idle"
  <2>1. UNCHANGED <<call, effect>>
    BY <1>3 DEF WriterDies
  <2>2. TypeOK'
    BY <1>0, <1>1, <2>1 DEF TypeOK, queueVars, flagVars
  <2>3. QueueInv' /\ LineInv'
    BY <1>0, <2>1 DEF QueueInv, LineInv, Line, queueVars
  <2>4. EffectInv'
    BY <1>0, <1>3, <2>1 DEF EffectInv, Working
  <2>5. QED
    BY <1>2, <2>2, <2>3, <2>4 DEF IInv
<1>4. CASE writer \in Working
  <2>1. /\ cur \in Ops /\ call[cur] \in {"waiting", "cancelled"} /\ effect[cur] = "running"
        /\ cur \notin ToSet(queue)
    BY <1>0, <1>4 DEF EffectInv, QueueInv
  <2>2. Answer(cur, "failed") /\ effect' = [effect EXCEPT ![cur] = "unknown"]
    BY <1>4 DEF WriterDies, Working
  <2>3. /\ call' \in [Ops -> {"new", "putting", "waiting"} \cup Answered]
        /\ call'[cur] \in {"failed", "cancelled"}
        /\ \A o \in Ops \ {cur} : call'[o] = call[o]
    BY <1>0, <2>1, <2>2 DEF TypeOK, Answer, Answered
  <2>4. /\ effect' \in [Ops -> {"none", "running", "applied", "unknown"}]
        /\ effect'[cur] = "unknown"
        /\ \A o \in Ops \ {cur} : effect'[o] = effect[o]
    BY <1>0, <2>1, <2>2 DEF TypeOK
  <2>5. TypeOK'
    BY <1>0, <1>1, <2>3, <2>4 DEF TypeOK, queueVars, flagVars
  <2>6. QueueInv'
    BY <1>0, <2>1, <2>3, <2>4 DEF QueueInv, queueVars
  <2>7. LineInv'
    BY <1>0, <2>1, <2>3 DEF LineInv, Line, queueVars
  <2>8. EffectInv'
    BY <1>0, <2>1, <2>3, <2>4 DEF EffectInv, Working
  <2>9. QED
    BY <1>2, <2>5, <2>6, <2>7, <2>8 DEF IInv
<1>5. QED
  BY <1>0, <1>3, <1>4

\* The supervisor keeps the invariant: it empties the queue before a new writer runs.
LEMMA OnWriterDoneIInv == IInv /\ OnWriterDone => IInv'
<1> SUFFICES ASSUME IInv, OnWriterDone PROVE IInv'
  OBVIOUS
<1>0. /\ TypeOK /\ QueueInv /\ LineInv /\ EffectInv /\ StopInv
      /\ writer = "died"
      /\ UNCHANGED <<flagVars, cur, deaths, effect, stop>>
  BY DEF IInv, OnWriterDone
<1>1. CASE /\ ~Supervises
           /\ writer' = "gone"
           /\ UNCHANGED <<queueVars, call>>
  <2>1. TypeOK'
    BY <1>0, <1>1 DEF TypeOK, flagVars, queueVars
  <2>2. QueueInv' /\ LineInv'
    BY <1>0, <1>1 DEF QueueInv, LineInv, Line, queueVars
  <2>3. EffectInv' /\ StopInv'
    BY <1>0, <1>1 DEF EffectInv, StopInv, QuietAfterStop, flagVars, Working
  <2>4. QED
    BY <2>1, <2>2, <2>3 DEF IInv
<1>2. CASE /\ Supervises
           /\ call' = [o \in Ops |-> IF o \in Orphans THEN "failed" ELSE call[o]]
           /\ TakeFirst(Len(queue))
           /\ writer' = "idle"
  <2>1. Len(queue) \in 0..Len(queue)
    BY <1>0 DEF TypeOK
  <2>2. /\ queue' \in Seq(Ops \cup {Stop}) /\ Len(queue') = 0
        /\ putters' \in Seq(Persons) /\ woken' \in Seq(Persons) /\ Line' = Line
    BY <1>0, <1>2, <2>1, TakeFirstLemma
  <2>3. queue' = <<>> /\ ToSet(queue') = {} /\ DOMAIN queue' = {}
    BY <2>2, EmptySeq DEF ToSet
  <2>4. \A o \in Ops : call'[o] # call[o] => call[o] = "waiting" /\ call'[o] = "failed"
    BY <1>2 DEF Orphans
  <2>5. call' \in [Ops -> {"new", "putting", "waiting"} \cup Answered]
    BY <1>0, <1>2 DEF TypeOK, Answered
  <2>6. TypeOK'
    BY <1>0, <1>2, <2>2, <2>5, SizeAssumption DEF TypeOK, flagVars, Persons
  <2>7. QueueInv'
    BY <2>3 DEF QueueInv
  <2>8. LineInv'
    BY <1>0, <2>2, <2>4 DEF LineInv
  <2>9. EffectInv'
    BY <1>0, <1>2, <2>4 DEF EffectInv, Working
  <2>10. StopInv'
    BY <1>0, <1>2 DEF StopInv, QuietAfterStop, flagVars, Supervises
  <2>11. QED
    BY <2>6, <2>7, <2>8, <2>9, <2>10 DEF IInv
<1>3. QED
  BY <1>1, <1>2 DEF OnWriterDone

\* The call of stop() keeps the invariant: the sentinel is put or waits in the line.
LEMMA StopCallIInv == ASSUME NEW s \in Stoppers PROVE IInv /\ StopCall(s) => IInv'
<1> SUFFICES ASSUME IInv, StopCall(s) PROVE IInv'
  OBVIOUS
<1>0. /\ TypeOK /\ QueueInv /\ LineInv /\ EffectInv /\ StopInv /\ stop[s] = "new"
      /\ UNCHANGED <<writerVars, call, effect>>
  BY DEF IInv, StopCall
<1>1. s \notin ToSet(Line) /\ s \in Persons /\ s \notin Ops
  BY <1>0, KindAssumption DEF LineInv, Persons
<1>2. EffectInv'
  BY <1>0 DEF EffectInv, writerVars
<1>3. CASE /\ closed
           /\ stop' = [stop EXCEPT ![s] = "done"]
           /\ UNCHANGED <<queueVars, flagVars>>
  <2>1. TypeOK'
    BY <1>0, <1>3 DEF TypeOK, flagVars, writerVars, queueVars
  <2>2. QueueInv' /\ LineInv'
    BY <1>0, <1>1, <1>3 DEF QueueInv, LineInv, Line, queueVars, TypeOK
  <2>3. StopInv'
    BY <1>0, <1>3 DEF StopInv, QuietAfterStop, flagVars, writerVars, TypeOK
  <2>4. QED
    BY <1>2, <2>1, <2>2, <2>3 DEF IInv
<1>4. CASE /\ ~closed /\ ~started
           /\ stopping' = TRUE /\ closed' = TRUE
           /\ stop' = [stop EXCEPT ![s] = "done"]
           /\ UNCHANGED <<queueVars, started, writerTask>>
  <2>1. TypeOK'
    BY <1>0, <1>4 DEF TypeOK, writerVars, queueVars
  <2>2. QueueInv' /\ LineInv'
    BY <1>0, <1>1, <1>4 DEF QueueInv, LineInv, Line, queueVars, TypeOK
  <2>3. StopInv'
    BY <1>0, <1>4 DEF StopInv, QuietAfterStop, writerVars, TypeOK, Working
  <2>4. QED
    BY <1>2, <2>1, <2>2, <2>3 DEF IInv
<1>5. CASE /\ ~closed /\ started /\ ~Full
           /\ stopping' = TRUE
           /\ PutItem(Stop)
           /\ stop' = [stop EXCEPT ![s] = "joining"]
           /\ UNCHANGED <<putters, woken, started, closed, writerTask>>
  <2>1. /\ queue' \in Seq(Ops \cup {Stop}) /\ Len(queue') <= MaxSize
        /\ ToSet(queue') = ToSet(queue) \cup {Stop}
        /\ \A i, j \in DOMAIN queue' : queue'[i] = queue'[j] /\ queue'[i] # Stop => i = j
    BY <1>0, <1>5, PutStopLemma
  <2>2. TypeOK'
    BY <1>0, <1>5, <2>1 DEF TypeOK, writerVars
  <2>3. QueueInv'
    BY <1>0, <2>1, KindAssumption DEF QueueInv
  <2>4. LineInv'
    BY <1>0, <1>1, <1>5 DEF LineInv, Line, TypeOK
  <2>5. StopInv'
    BY <1>0, <1>5 DEF StopInv, QuietAfterStop, writerVars, TypeOK
  <2>6. QED
    BY <1>2, <2>2, <2>3, <2>4, <2>5 DEF IInv
<1>6. CASE /\ ~closed /\ started /\ Full
           /\ stopping' = TRUE
           /\ putters' = Append(putters, s)
           /\ stop' = [stop EXCEPT ![s] = "putting"]
           /\ UNCHANGED <<queue, woken, started, closed, writerTask>>
  <2>1. /\ putters' \in Seq(Persons) /\ woken' \in Seq(Persons)
        /\ IsInjective(Line') /\ ToSet(Line') = ToSet(Line) \cup {s}
    BY <1>0, <1>1, <1>6, JoinLineLemma DEF LineInv
  <2>2. TypeOK'
    BY <1>0, <1>6, <2>1 DEF TypeOK, writerVars, Persons
  <2>3. QueueInv'
    BY <1>0, <1>6 DEF QueueInv
  <2>4. LineInv'
    BY <1>0, <1>1, <1>6, <2>1 DEF LineInv, TypeOK
  <2>5. StopInv'
    BY <1>0, <1>6 DEF StopInv, QuietAfterStop, writerVars, TypeOK
  <2>6. QED
    BY <1>2, <2>2, <2>3, <2>4, <2>5 DEF IInv
<1>7. QED
  BY <1>3, <1>4, <1>5, <1>6 DEF StopCall

\* The return of stop() keeps the invariant: the writer it waited for is over.
LEMMA StopJoinsIInv == ASSUME NEW s \in Stoppers PROVE IInv /\ StopJoins(s) => IInv'
<1> SUFFICES ASSUME IInv, StopJoins(s) PROVE IInv'
  OBVIOUS
<1>0. /\ TypeOK /\ QueueInv /\ LineInv /\ EffectInv /\ StopInv
      /\ stop[s] = "joining" /\ stop' = [stop EXCEPT ![s] = "done"]
      /\ writerTask => writer \in {"died", "gone", "exited"}
      /\ closed' = TRUE /\ writerTask' = FALSE
      /\ UNCHANGED <<started, stopping, queueVars, writerVars, call, effect>>
  BY DEF IInv, StopJoins
<1>1. TypeOK'
  BY <1>0 DEF TypeOK, writerVars, queueVars
<1>2. QueueInv' /\ LineInv' /\ EffectInv'
  BY <1>0 DEF QueueInv, LineInv, Line, EffectInv, queueVars, writerVars, TypeOK
<1>3. StopInv'
  BY <1>0 DEF StopInv, QuietAfterStop, writerVars, TypeOK, Working
<1>4. QED
  BY <1>1, <1>2, <1>3 DEF IInv

\* The cancellation of stop() in put keeps the invariant.
LEMMA CancelStopIInv == ASSUME NEW s \in Stoppers PROVE IInv /\ CancelStop(s) => IInv'
<1> SUFFICES ASSUME IInv, CancelStop(s) PROVE IInv'
  OBVIOUS
<1>0. /\ TypeOK /\ QueueInv /\ LineInv /\ EffectInv /\ StopInv
      /\ stop[s] = "putting" /\ stop' = [stop EXCEPT ![s] = "cancelled"]
      /\ LeavePut(s)
      /\ UNCHANGED <<flagVars, writerVars, call, effect>>
  BY DEF IInv, CancelStop
<1>1. /\ queue' = queue
      /\ putters' \in Seq(Persons) /\ woken' \in Seq(Persons)
      /\ IsInjective(Line') /\ ToSet(Line') = ToSet(Line) \ {s}
  BY <1>0, LeavePutLemma DEF Persons
<1>2. TypeOK'
  BY <1>0, <1>1 DEF TypeOK, flagVars, writerVars, Persons
<1>3. QueueInv' /\ EffectInv'
  BY <1>0, <1>1 DEF QueueInv, EffectInv, writerVars
<1>4. LineInv'
  BY <1>0, <1>1 DEF LineInv, TypeOK
<1>5. StopInv'
  BY <1>0 DEF StopInv, QuietAfterStop, flagVars, writerVars, TypeOK
<1>6. QED
  BY <1>2, <1>3, <1>4, <1>5 DEF IInv

\* Every step keeps the invariant.
LEMMA StepIInv == IInv /\ [Next]_vars => IInv'
<1>1. IInv /\ UNCHANGED vars => IInv'
  BY DEF vars, queueVars, flagVars, writerVars, IInv, TypeOK, QueueInv, LineInv, Line,
         EffectInv, StopInv, QuietAfterStop
<1>2. QED
  BY <1>1, StartIInv, SubmitIInv, TrySubmitIInv, CancelCallIInv, ResumePutIInv,
     TakeNextIInv, OpReturnsIInv, OpRaisesIInv, WriterDiesIInv, OnWriterDoneIInv,
     StopCallIInv, StopJoinsIInv, CancelStopIInv DEF Next

\* The invariant holds in every state the queue reaches.
THEOREM Inductive == Spec => []IInv
<1>1. QED
  BY InitIInv, StepIInv, PTL DEF Spec

\* Every variable keeps its type; the queue never holds more than maxsize items.
THEOREM TypeCorrect == Spec => []TypeOK
BY Inductive DEF IInv

\* Once stop() has returned nothing executes a write any more.
THEOREM Quiet == Spec => []QuietAfterStop
<1>1. IInv => QuietAfterStop
  BY DEF IInv, StopInv
<1>2. QED
  BY <1>1, Inductive, PTL

-----------------------------------------------------------------------------
\* The refinement: each step of the queue is a step of the promise or none.

\* The abstract status of one write.
LEMMA StatusOf ==
  ASSUME TypeOK, NEW o \in Ops
  PROVE  /\ Status = [Status EXCEPT ![o] = Status[o]]
         /\ Status[o] = IF call[o] = "new" THEN "idle"
                        ELSE IF call[o] \in {"putting", "waiting"} THEN "open" ELSE call[o]
         /\ Status[o] = "idle" <=> call[o] = "new"
         /\ Status[o] = "open" <=> call[o] \in {"putting", "waiting"}
  BY DEF Status, TypeOK, Answered

\* The caller of one write learns something, or moves within submit().
LEMMA StatusStep ==
  ASSUME TypeOK, NEW o \in Ops,
         NEW to \in {"putting", "waiting"} \cup Answered,
         call' = [call EXCEPT ![o] = to]
  PROVE  Status' = [Status EXCEPT ![o] = IF to \in {"putting", "waiting"} THEN "open" ELSE to]
  BY DEF Status, TypeOK, Answered

\* submit(), try_submit() and a cancellation are Open, Refuse and Cancel of the promise.
LEMMA CallerRefines ==
  ASSUME IInv, NEW o \in Ops, Submit(o) \/ TrySubmit(o) \/ CancelCall(o)
  PROVE  [Service!SNext]_(Service!svars)
<1>0. TypeOK /\ effect' = effect
  BY DEF IInv, Submit, TrySubmit, CancelCall
<1>1. CASE call[o] = "new" /\ call' = [call EXCEPT ![o] = "refused"]
  BY <1>0, <1>1, StatusStep, StatusOf DEF Answered, Service!Refuse, Service!SNext
<1>2. CASE call[o] = "new" /\ \E to \in {"putting", "waiting"} : call' = [call EXCEPT ![o] = to]
  BY <1>0, <1>2, StatusStep, StatusOf DEF Answered, Service!Open, Service!SNext
<1>3. CASE call[o] \in {"putting", "waiting"} /\ call' = [call EXCEPT ![o] = "cancelled"]
  BY <1>0, <1>3, StatusStep, StatusOf DEF Answered, Service!Cancel, Service!SNext
<1>4. QED
  BY <1>1, <1>2, <1>3 DEF Submit, TrySubmit, CancelCall

\* A step that changes what no caller knows and nothing in the database.
LEMMA Stutter ==
  ASSUME Status' = Status, effect' = effect
  PROVE  [Service!SNext]_(Service!svars)
  BY DEF Service!svars

\* A woken putter does nothing the promise can see.
LEMMA ResumePutRefines ==
  ASSUME IInv, ResumePut
  PROVE  [Service!SNext]_(Service!svars)
<1>0. TypeOK /\ LineInv /\ effect' = effect /\ woken # <<>>
  BY DEF IInv, ResumePut
<1>1. CASE UNCHANGED call
  BY <1>0, <1>1, Stutter DEF Status
<1>2. CASE /\ Head(woken) \in Ops
           /\ call' = [call EXCEPT ![Head(woken)] = "waiting"]
  <2>1. call[Head(woken)] = "putting"
    BY <1>0, <1>2, WakeLemma DEF LineInv
  <2>2. Status' = [Status EXCEPT ![Head(woken)] = "open"]
    BY <1>0, <1>2, StatusStep
  <2>3. Status[Head(woken)] = "open"
    BY <1>0, <1>2, <2>1, StatusOf
  <2>4. Status' = Status
    BY <1>0, <1>2, <2>2, <2>3, StatusOf
  <2>5. QED
    BY <1>0, <2>4, Stutter
<1>3. QED
  BY <1>1, <1>2 DEF ResumePut

\* The writer that wakes in get() begins at most one write.
LEMMA TakeNextRefines ==
  ASSUME IInv, TakeNext
  PROVE  [Service!SNext]_(Service!svars)
<1>0. /\ TypeOK /\ QueueInv /\ EffectInv /\ writer = "idle" /\ Advance(FALSE, effect)
      /\ call' = call /\ Status' = Status
      /\ effect \in [Ops -> {"none", "running", "applied", "unknown"}]
  BY DEF IInv, TakeNext, TypeOK, Status
<1>1. CASE effect' = effect
  BY <1>0, <1>1, Stutter
<1>2. CASE \E o \in Ops : /\ o \in ToSet(queue) /\ call[o] = "waiting"
                          /\ effect' = [effect EXCEPT ![o] = "running"]
  BY <1>2, <1>0, StatusOf DEF QueueInv, EffectInv, Working, Service!Idle, Service!Begin, Service!SNext
<1>3. QED
  BY <1>0, AdvanceLemma, <1>1, <1>2

\* The end of a write, with the write that begins in the same step, if one does.
LEMMA EndRefines ==
  ASSUME IInv, writer \in Working,
         NEW answer \in {"ok", "failed"}, NEW end \in {"applied", "unknown"},
         Service!Agrees(end, answer),
         Answer(cur, answer),
         NEW next \in SUBSET Ops, \A p, q \in next : p = q,
         \A p \in next : p \in ToSet(queue) /\ call[p] = "waiting",
         effect' = [p \in Ops |-> CASE p = cur      -> end
                                    [] p \in next  -> "running"
                                    [] OTHER       -> effect[p]]
  PROVE  [Service!SNext]_(Service!svars)
<1>1. /\ TypeOK /\ QueueInv /\ cur \in Ops /\ effect[cur] = "running"
      /\ call[cur] \in {"waiting", "cancelled"}
  BY DEF IInv, EffectInv
<1>2. \A p \in next : Status[p] = "open" /\ effect[p] = "none"
  BY <1>1, StatusOf DEF QueueInv
<1>3. Status' = IF Status[cur] = "open" THEN [Status EXCEPT ![cur] = answer] ELSE Status
  <2>1. CASE call[cur] = "waiting"
    BY <1>1, <2>1, StatusStep, StatusOf DEF Answer, Answered
  <2>2. CASE call[cur] = "cancelled"
    BY <1>1, <2>2, StatusOf DEF Answer, Status
  <2>3. QED
    BY <1>1, <2>1, <2>2
<1>4. Service!End(cur, next)
  BY <1>1, <1>2, <1>3 DEF Service!End
<1>5. QED
  BY <1>1, <1>4 DEF Service!SNext

\* A write that returns or raises ends, and at most one other begins.
LEMMA WriteEndsRefines ==
  ASSUME IInv, writer \in Working,
         NEW answer \in {"ok", "failed"}, NEW end \in {"applied", "unknown"},
         Service!Agrees(end, answer),
         Answer(cur, answer),
         Advance(writer = "drain", [effect EXCEPT ![cur] = end])
  PROVE  [Service!SNext]_(Service!svars)
<1> DEFINE eff == [effect EXCEPT ![cur] = end]
<1>1. /\ TypeOK /\ QueueInv /\ cur \in Ops /\ cur \notin ToSet(queue)
      /\ eff \in [Ops -> {"none", "running", "applied", "unknown"}]
      /\ effect \in [Ops -> {"none", "running", "applied", "unknown"}]
  BY DEF IInv, EffectInv, QueueInv, TypeOK
<1>2. \/ effect' = eff
      \/ /\ cur' \in Ops /\ cur' \in ToSet(queue) /\ call[cur'] = "waiting"
         /\ effect' = [eff EXCEPT ![cur'] = "running"]
  BY <1>1, AdvanceLemma
<1>3. CASE effect' = eff
  <2> DEFINE nothing == {}
  <2>1. nothing \in SUBSET Ops /\ \A p \in Ops : p \notin nothing
    OBVIOUS
  <2> HIDE DEF nothing
  <2>2. effect' = [p \in Ops |-> CASE p = cur       -> end
                                   [] p \in nothing -> "running"
                                   [] OTHER        -> effect[p]]
    BY <1>1, <1>3, <2>1
  <2>3. \A p, q \in nothing : p = q
    BY <2>1
  <2>4. \A p \in nothing : p \in ToSet(queue) /\ call[p] = "waiting"
    BY <2>1
  <2>5. QED
    BY <2>1, <2>2, <2>3, <2>4, EndRefines
<1>4. CASE /\ cur' \in Ops /\ cur' \in ToSet(queue) /\ call[cur'] = "waiting"
           /\ effect' = [eff EXCEPT ![cur'] = "running"]
  <2>1. effect' = [p \in Ops |-> CASE p = cur       -> end
                                   [] p \in {cur'} -> "running"
                                   [] OTHER        -> effect[p]]
    BY <1>1, <1>4
  <2>2. {cur'} \in SUBSET Ops /\ \A p, q \in {cur'} : p = q
    BY <1>4
  <2>3. \A p \in {cur'} : p \in ToSet(queue) /\ call[p] = "waiting"
    BY <1>4
  <2>4. QED
    BY <2>1, <2>2, <2>3, EndRefines
<1>5. QED
  BY <1>2, <1>3, <1>4

\* The death of the writer ends its write without success, or is nothing.
LEMMA WriterDiesRefines ==
  ASSUME IInv, WriterDies
  PROVE  [Service!SNext]_(Service!svars)
<1>1. CASE writer = "idle"
  BY <1>1, Stutter DEF WriterDies, Status
<1>2. CASE writer \in Working
  <2>1. /\ Answer(cur, "failed") /\ effect' = [effect EXCEPT ![cur] = "unknown"]
        /\ effect \in [Ops -> {"none", "running", "applied", "unknown"}]
    BY <1>2 DEF WriterDies, Working, IInv, TypeOK
  <2> DEFINE nothing == {}
  <2>2. nothing \in SUBSET Ops /\ \A p \in Ops : p \notin nothing
    OBVIOUS
  <2> HIDE DEF nothing
  <2>3. effect' = [p \in Ops |-> CASE p = cur       -> "unknown"
                                   [] p \in nothing -> "running"
                                   [] OTHER        -> effect[p]]
    BY <2>1, <2>2
  <2>4. Service!Agrees("unknown", "failed")
    BY DEF Service!Agrees
  <2>5. \A p, q \in nothing : p = q
    BY <2>2
  <2>6. \A p \in nothing : p \in ToSet(queue) /\ call[p] = "waiting"
    BY <2>2
  <2>7. QED
    BY <1>2, <2>1, <2>2, <2>3, <2>4, <2>5, <2>6, EndRefines
<1>3. QED
  BY <1>1, <1>2 DEF WriterDies

\* The supervisor gives up the writes that wait in the queue, or does nothing.
LEMMA OnWriterDoneRefines ==
  ASSUME IInv, OnWriterDone
  PROVE  [Service!SNext]_(Service!svars)
<1>0. TypeOK /\ QueueInv /\ effect' = effect
  BY DEF IInv, OnWriterDone
<1>1. CASE UNCHANGED call
  BY <1>0, <1>1, Stutter DEF Status
<1>2. CASE call' = [o \in Ops |-> IF o \in Orphans THEN "failed" ELSE call[o]]
  <2>1. /\ Orphans \in SUBSET Ops
        /\ \A o \in Orphans : Status[o] = "open" /\ effect[o] = "none"
    BY <1>0, StatusOf DEF Orphans, QueueInv
  <2>2. Status' = [o \in Ops |-> IF o \in Orphans THEN "failed" ELSE Status[o]]
    BY <1>2 DEF Status
  <2>3. Service!GiveUp(Orphans)
    BY <1>0, <2>1, <2>2 DEF Service!GiveUp
  <2>4. QED
    BY <2>1, <2>3 DEF Service!SNext
<1>3. QED
  BY <1>1, <1>2 DEF OnWriterDone, queueVars

\* The queue keeps the promise of WriteService, whatever is cancelled, woken late or dies.
THEOREM Implements == Spec => ImplementsService
<1>1. Init => Service!SInit
  BY DEF Init, Service!SInit, Status
<1>2. IInv /\ [Next]_vars => [Service!SNext]_(Service!svars)
  <2> SUFFICES ASSUME IInv, [Next]_vars PROVE [Service!SNext]_(Service!svars)
    OBVIOUS
  <2>1. CASE Start \/ (\E s \in Stoppers : StopCall(s) \/ StopJoins(s) \/ CancelStop(s))
             \/ UNCHANGED vars
    BY <2>1, Stutter DEF Start, StopCall, StopJoins, CancelStop, vars, Status
  <2>2. CASE OpReturns
    BY <2>2, WriteEndsRefines DEF Service!Agrees, OpReturns
  <2>3. CASE OpRaises
    BY <2>3, WriteEndsRefines DEF Service!Agrees, OpRaises
  <2>4. QED
    BY <2>1, <2>2, <2>3, CallerRefines, ResumePutRefines, TakeNextRefines,
       WriterDiesRefines, OnWriterDoneRefines DEF Next
<1>3. QED
  BY <1>1, <1>2, Inductive, PTL DEF Spec, ImplementsService, Service!SSpec
-----------------------------------------------------------------------------
\* The line of a lock and the users of a holder.

\* Taking a task out of a line without repetition keeps the others and their order.
LEMMA WithoutLemma ==
  ASSUME NEW s \in Seq(Tasks), IsInjective(s), NEW t \in Tasks, NEW rest \in Without(s, t)
  PROVE  /\ rest \in Seq(Tasks) /\ IsInjective(rest)
         /\ ToSet(rest) = ToSet(s) \ {t}
         /\ Head(s) # t => rest # <<>> /\ Head(rest) = Head(s)
<1>1. PICK i \in DOMAIN s : s[i] = t /\ rest = RemoveAt(s, i)
  BY DEF Without
<1>2. i \in 1..Len(s) /\ Len(s) \in Nat
  BY LenProperties
<1>3. /\ rest \in Seq(Tasks) /\ Len(rest) = Len(s) - 1
      /\ \A j \in 1..(Len(s) - 1) : rest[j] = IF j < i THEN s[j] ELSE s[j + 1]
  BY <1>1, <1>2, RemoveAtLemma
<1>4. IsInjective(rest) /\ ToSet(rest) = ToSet(s) \ {s[i]}
  BY <1>1, <1>2, RemoveDistinct
<1>5. ASSUME Head(s) # t
      PROVE  rest # <<>> /\ Head(rest) = Head(s)
  BY <1>2, HeadTailProperties, EmptySeq, <1>1, <1>5, <1>3
<1>6. QED
  BY <1>1, <1>3, <1>4, <1>5

\* A task that waits in a line is in it, so the line is not empty.
LEMMA InLine ==
  ASSUME NEW s \in Seq(Tasks), NEW t \in ToSet(s)
  PROVE  s # <<>> /\ Head(s) \in ToSet(s) /\ Head(s) \in Tasks
BY LenProperties, EmptySeq, HeadTailProperties, ElementOfSeq DEF ToSet

\* The head of a line stays when another task joins its end.
LEMMA HeadOfAppend ==
  ASSUME NEW s \in Seq(Tasks), NEW t \in Tasks, s # <<>>
  PROVE  Append(s, t) # <<>> /\ Head(Append(s, t)) = Head(s)
BY HeadTailProperties, EmptySeq, AppendProperties

\* The users of a holder are finitely many.
LEMMA UsersFinite ==
  ASSUME NEW h
  PROVE  IsFiniteSet(Users(h)) /\ Cardinality(Users(h)) \in 0..Cardinality(Tasks)
BY HolderAssumption, FS_Subset, FS_CardinalityType DEF Users

\* A task becomes a user of h, and of no other holder.
LEMMA JoinUsers ==
  ASSUME LockTypeOK, NEW t \in Tasks, NEW h \in Holders, mine[t] = Nothing,
         mine' = [mine EXCEPT ![t] = h]
  PROVE  /\ Cardinality(Users(h)') = Cardinality(Users(h)) + 1
         /\ Cardinality(Users(h)') \in 0..Cardinality(Tasks)
         /\ \A g \in Holders \ {h} : Users(g)' = Users(g)
<1>1. Users(h)' = Users(h) \cup {t} /\ t \notin Users(h)
  BY NothingAssumption DEF Users, LockTypeOK
<1>2. \A g \in Holders \ {h} : Users(g)' = Users(g)
  BY NothingAssumption DEF Users, LockTypeOK
<1>3. Cardinality(Users(h) \cup {t}) = Cardinality(Users(h)) + 1
  BY <1>1, UsersFinite, FS_AddElement
<1>4. Users(h)' \in SUBSET Tasks
  BY DEF Users
<1>5. Cardinality(Users(h)') \in 0..Cardinality(Tasks)
  BY <1>4, HolderAssumption, FS_Subset, FS_CardinalityType
<1>6. QED
  BY <1>1, <1>2, <1>3, <1>5

\* A task stops being a user of h; h had no other user exactly if the count was one.
LEMMA LeaveUsers ==
  ASSUME LockTypeOK, RegistryInv, NEW t \in Tasks, NEW h \in Holders, mine[t] = h,
         mine' = [mine EXCEPT ![t] = Nothing]
  PROVE  /\ Cardinality(Users(h)') = users[h] - 1
         /\ Cardinality(Users(h)') \in 0..Cardinality(Tasks)
         /\ \A g \in Holders \ {h} : Users(g)' = Users(g)
         /\ users[h] - 1 = 0 <=> \A u \in Tasks \ {t} : mine[u] # h
<1>1. Users(h)' = Users(h) \ {t} /\ t \in Users(h)
  BY NothingAssumption DEF Users, LockTypeOK
<1>2. \A g \in Holders \ {h} : Users(g)' = Users(g)
  BY NothingAssumption DEF Users, LockTypeOK
<1>3. IsFiniteSet(Users(h) \ {t}) /\ Cardinality(Users(h) \ {t}) = Cardinality(Users(h)) - 1
  BY <1>1, UsersFinite, FS_RemoveElement
<1>4. Users(h)' \in SUBSET Tasks
  BY DEF Users
<1>5. Cardinality(Users(h)') \in 0..Cardinality(Tasks)
  BY <1>4, HolderAssumption, FS_Subset, FS_CardinalityType
<1>6. users[h] = Cardinality(Users(h))
  BY DEF RegistryInv
<1>7. Cardinality(Users(h) \ {t}) = 0 <=> Users(h) \ {t} = {}
  BY <1>3, FS_EmptySet
<1>8. Users(h) \ {t} = {} <=> \A u \in Tasks \ {t} : mine[u] # h
  BY DEF Users
<1>9. QED
  BY <1>1, <1>2, <1>3, <1>5, <1>6, <1>7, <1>8

-----------------------------------------------------------------------------
\* The inductive invariant, action by action.

\* Nobody uses a new lock.
LEMMA LockBegins == LockInit => LockInv
<1> SUFFICES ASSUME LockInit PROVE LockInv
  OBVIOUS
<1>1. \A h \in Holders : Users(h) = {} /\ ToSet(line[h]) = {} /\ IsInjective(line[h])
  BY NothingAssumption DEF LockInit, Users, ToSet, IsInjective
<1>2. 0 \in 0..Cardinality(Tasks)
  BY HolderAssumption, FS_CardinalityType
<1>3. LockTypeOK
  BY <1>2, EmptySeq DEF LockInit, LockTypeOK
<1>4. RegistryInv
  BY <1>1, FS_EmptySet DEF LockInit, RegistryInv
<1>5. OwnerInv
  BY DEF LockInit, OwnerInv
<1>6. LockLineInv
  BY <1>1 DEF LockInit, LockLineInv
<1>7. QED
  BY <1>3, <1>4, <1>5, <1>6 DEF LockInv

\* acquire() keeps the invariant: with a holder that is there or a new one, inside at
\* once or at the end of the line.
LEMMA AcquireKeeps ==
  ASSUME LockInv, NEW t \in Tasks, NEW p \in Paths, Acquire(t, p)
  PROVE  LockInv'
<1> USE NothingAssumption
<1>0. LockTypeOK /\ RegistryInv /\ OwnerInv /\ LockLineInv
  BY DEF LockInv
<1>1. pc[t] = "out" /\ mine[t] = Nothing /\ path[t] = Nothing /\ future[t] = "none"
  BY <1>0 DEF Acquire, RegistryInv, LockLineInv
<1>2. PICK h \in Holders :
       /\ IF registry[p] = Nothing THEN Unused(h) ELSE registry[p] = h
       /\ registry' = [registry EXCEPT ![p] = h]
       /\ users' = [users EXCEPT ![h] = @ + 1]
       /\ mine' = [mine EXCEPT ![t] = h]
       /\ path' = [path EXCEPT ![t] = p]
       /\ \/ /\ Free(h)
             /\ locked' = [locked EXCEPT ![h] = TRUE]
             /\ owner' = [owner EXCEPT ![h] = t]
             /\ pc' = [pc EXCEPT ![t] = "in"]
             /\ UNCHANGED <<line, future>>
          \/ /\ ~Free(h)
             /\ line' = [line EXCEPT ![h] = Append(@, t)]
             /\ future' = [future EXCEPT ![t] = "pending"]
             /\ pc' = [pc EXCEPT ![t] = "waiting"]
             /\ UNCHANGED <<locked, owner>>
  BY DEF Acquire
<1>3. /\ Cardinality(Users(h)') = Cardinality(Users(h)) + 1
      /\ Cardinality(Users(h)') \in 0..Cardinality(Tasks)
      /\ \A g \in Holders \ {h} : Users(g)' = Users(g)
  BY <1>0, <1>1, <1>2, JoinUsers
<1>4. users' \in [Holders -> 0..Cardinality(Tasks)]
      /\ \A g \in Holders : users'[g] = Cardinality(Users(g)')
  BY <1>0, <1>2, <1>3 DEF LockTypeOK, RegistryInv
<1>5. /\ registry' \in [Paths -> Holders \cup {Nothing}]
      /\ mine' \in [Tasks -> Holders \cup {Nothing}]
      /\ path' \in [Tasks -> Paths \cup {Nothing}]
      /\ mine'[t] = h /\ path'[t] = p /\ registry'[p] = h
      /\ \A u \in Tasks \ {t} : mine'[u] = mine[u] /\ path'[u] = path[u]
      /\ \A q \in Paths \ {p} : registry'[q] = registry[q]
  BY <1>0, <1>2 DEF LockTypeOK
<1>6. \A q \in Paths \ {p} : registry[q] # h
  BY <1>0, <1>2 DEF RegistryInv, Unused
<1>7. \A u \in Tasks \ {t} : pc[u] \in {"waiting", "in"} =>
         registry'[path[u]] = mine[u] /\ pc'[u] = pc[u]
  BY <1>0, <1>2, <1>5 DEF RegistryInv, LockTypeOK
<1>8. RegistryInv'
  <2>1. \A u \in Tasks : IF pc'[u] \in {"waiting", "in"}
                         THEN /\ mine'[u] \in Holders /\ path'[u] \in Paths
                              /\ registry'[path'[u]] = mine'[u]
                         ELSE pc'[u] = "out" /\ mine'[u] = Nothing /\ path'[u] = Nothing
    BY <1>0, <1>2, <1>5, <1>7 DEF RegistryInv, LockTypeOK
  <2>2. \A q \in Paths : registry'[q] # Nothing => \E u \in Tasks : path'[u] = q
    BY <1>0, <1>1, <1>5 DEF RegistryInv
  <2>3. \A q, r \in Paths : registry'[q] = registry'[r] /\ registry'[q] # Nothing => q = r
    BY <1>0, <1>5, <1>6 DEF RegistryInv
  <2>4. QED
    BY <1>4, <2>1, <2>2, <2>3 DEF RegistryInv
<1>9. CASE /\ Free(h)
           /\ locked' = [locked EXCEPT ![h] = TRUE]
           /\ owner' = [owner EXCEPT ![h] = t]
           /\ pc' = [pc EXCEPT ![t] = "in"]
           /\ UNCHANGED <<line, future>>
  <2>1. ~locked[h] /\ \A u \in Tasks : u \in ToSet(line[h]) => future[u] = "cancelled"
    BY <1>9 DEF Free
  <2>2. \A u \in Tasks : pc[u] = "in" => u # t /\ mine[u] # h /\ mine[u] \in Holders
    BY <1>0, <1>1, <2>1 DEF OwnerInv, RegistryInv
  <2>3. LockTypeOK'
    BY <1>0, <1>4, <1>5, <1>9 DEF LockTypeOK
  <2>4. OwnerInv'
    <3>1. /\ pc'[t] = "in" /\ locked'[h] /\ owner'[h] = t
          /\ \A u \in Tasks \ {t} : pc'[u] = pc[u]
          /\ \A g \in Holders \ {h} : locked'[g] = locked[g] /\ owner'[g] = owner[g]
      BY <1>0, <1>9 DEF LockTypeOK
    <3>2. \A u \in Tasks : pc'[u] = "in" => locked'[mine'[u]] /\ owner'[mine'[u]] = u
      BY <1>0, <1>5, <2>2, <3>1 DEF OwnerInv
    <3>3. \A g \in Holders : locked'[g] => \E u \in Tasks : pc'[u] = "in" /\ mine'[u] = g
      BY <1>0, <1>5, <2>2, <3>1 DEF OwnerInv
    <3>4. QED
      BY <3>2, <3>3 DEF OwnerInv
  <2>5. \A u \in Tasks : future[u] \in {"woken", "lost"} => mine[u] # h /\ u # t
    BY <1>0, <1>1, <2>1 DEF LockLineInv
  <2>6. \A u \in Tasks : future[u] \in {"woken", "lost"} => mine[u] \in Holders
    BY <1>0 DEF LockLineInv, RegistryInv
  <2>7. LockLineInv'
    BY <1>0, <1>1, <1>5, <1>9, <2>5, <2>6 DEF LockLineInv, LockTypeOK
  <2>8. QED
    BY <1>8, <2>3, <2>4, <2>7 DEF LockInv
<1>10. CASE /\ ~Free(h)
            /\ line' = [line EXCEPT ![h] = Append(@, t)]
            /\ future' = [future EXCEPT ![t] = "pending"]
            /\ pc' = [pc EXCEPT ![t] = "waiting"]
            /\ UNCHANGED <<locked, owner>>
  <2>1. line[h] \in Seq(Tasks) /\ IsInjective(line[h]) /\ t \notin ToSet(line[h])
    BY <1>0, <1>1 DEF LockTypeOK, LockLineInv
  <2>2. /\ Append(line[h], t) \in Seq(Tasks)
        /\ IsInjective(Append(line[h], t))
        /\ ToSet(Append(line[h], t)) = ToSet(line[h]) \cup {t}
    BY <2>1, AppendDistinct, AppendProperties
  <2>3. /\ line' \in [Holders -> Seq(Tasks)]
        /\ line'[h] = Append(line[h], t)
        /\ \A g \in Holders \ {h} : line'[g] = line[g]
    BY <1>0, <1>10, <2>2 DEF LockTypeOK
  <2>4. /\ future' \in [Tasks -> {"none", "pending", "woken", "cancelled", "lost"}]
        /\ future'[t] = "pending"
        /\ \A u \in Tasks \ {t} : future'[u] = future[u]
        /\ pc' \in [Tasks -> {"out", "waiting", "in", "raised"}]
        /\ pc'[t] = "waiting"
        /\ \A u \in Tasks \ {t} : pc'[u] = pc[u]
    BY <1>0, <1>10 DEF LockTypeOK
  <2>5. LockTypeOK'
    BY <1>0, <1>4, <1>5, <1>10, <2>3, <2>4 DEF LockTypeOK
  <2>6. OwnerInv'
    BY <1>1, <1>5, <1>10, <2>4, <1>0 DEF OwnerInv
  <2>7. \A g \in Holders : IsInjective(line'[g])
    <3>1. \A g \in Holders \ {h} : IsInjective(line'[g])
      BY <1>0, <2>3, Zenon DEF LockLineInv
    <3>2. IsInjective(line'[h])
      BY <2>2, <2>3, Zenon
    <3>3. QED
      BY <3>1, <3>2
  <2>8. \A g \in Holders, u \in Tasks :
           u \in ToSet(line'[g]) <=> pc'[u] = "waiting" /\ mine'[u] = g
    <3>1. ASSUME NEW g \in Holders, NEW u \in Tasks
          PROVE  u \in ToSet(line'[g]) <=> u \in ToSet(line[g]) \/ (g = h /\ u = t)
      BY <2>2, <2>3
    <3>2. \A g \in Holders, u \in Tasks :
            u \in ToSet(line[g]) <=> pc[u] = "waiting" /\ mine[u] = g
      BY <1>0 DEF LockLineInv
    <3>3. /\ pc'[t] = "waiting" /\ mine'[t] = h /\ pc[t] = "out"
          /\ \A u \in Tasks \ {t} : pc'[u] = pc[u] /\ mine'[u] = mine[u]
      BY <1>1, <1>5, <2>4
    <3>4. QED
      BY <3>1, <3>2, <3>3
  <2>9. \A u \in Tasks : pc'[u] = "waiting" <=> future'[u] # "none"
    BY <1>0, <2>4 DEF LockLineInv
  <2>10. ASSUME NEW u \in Tasks, future'[u] \in {"woken", "lost"}
         PROVE  /\ ~locked'[mine'[u]]
                /\ line'[mine'[u]] # <<>> /\ Head(line'[mine'[u]]) = u
    <3>1. /\ u # t /\ mine'[u] = mine[u] /\ mine[u] \in Holders /\ ~locked[mine[u]]
          /\ line[mine[u]] # <<>> /\ Head(line[mine[u]]) = u
      BY <1>0, <1>5, <2>4, <2>10 DEF LockLineInv, RegistryInv
    <3>2. CASE mine[u] = h
      BY <1>10, <2>1, <2>3, <3>1, <3>2, HeadOfAppend
    <3>3. CASE mine[u] # h
      BY <1>10, <2>3, <3>1, <3>3
    <3>4. QED
      BY <3>2, <3>3
  <2>11. LockLineInv'
    BY <2>7, <2>8, <2>9, <2>10 DEF LockLineInv
  <2>12. QED
    BY <1>8, <2>5, <2>6, <2>11 DEF LockInv
<1>11. QED
  BY <1>2, <1>9, <1>10

\* A waiter that was woken keeps the invariant: it was the head, nobody is inside.
LEMMA ObtainKeeps ==
  ASSUME LockInv, NEW t \in Tasks, Obtain(t)
  PROVE  LockInv'
<1> USE NothingAssumption
<1>0. LockTypeOK /\ RegistryInv /\ OwnerInv /\ LockLineInv
  BY DEF LockInv
<1> DEFINE h == mine[t]
<1>1. /\ pc[t] = "waiting" /\ future[t] = "woken" /\ h \in Holders
      /\ ~locked[h] /\ Head(line[h]) = t /\ t \in ToSet(line[h])
      /\ line[h] \in Seq(Tasks) /\ IsInjective(line[h])
  BY <1>0 DEF Obtain, RegistryInv, LockLineInv, LockTypeOK
<1>2. PICK rest \in Without(line[h], t) : line' = [line EXCEPT ![h] = rest]
  BY DEF Obtain
<1>3. /\ future' = [future EXCEPT ![t] = "none"]
      /\ locked' = [locked EXCEPT ![h] = TRUE]
      /\ owner' = [owner EXCEPT ![h] = t]
      /\ pc' = [pc EXCEPT ![t] = "in"]
      /\ UNCHANGED <<registry, users, path, mine>>
  BY DEF Obtain
<1> HIDE DEF h
<1>4. rest \in Seq(Tasks) /\ IsInjective(rest) /\ ToSet(rest) = ToSet(line[h]) \ {t}
  BY <1>1, WithoutLemma
<1>5. /\ line' \in [Holders -> Seq(Tasks)] /\ line'[h] = rest
      /\ \A g \in Holders \ {h} : line'[g] = line[g]
      /\ future' \in [Tasks -> {"none", "pending", "woken", "cancelled", "lost"}]
      /\ future'[t] = "none" /\ \A u \in Tasks \ {t} : future'[u] = future[u]
      /\ pc' \in [Tasks -> {"out", "waiting", "in", "raised"}]
      /\ pc'[t] = "in" /\ \A u \in Tasks \ {t} : pc'[u] = pc[u]
      /\ locked'[h] /\ owner'[h] = t
      /\ \A g \in Holders \ {h} : locked'[g] = locked[g] /\ owner'[g] = owner[g]
  BY <1>0, <1>1, <1>2, <1>3, <1>4 DEF LockTypeOK
<1>6. LockTypeOK'
  BY <1>0, <1>1, <1>3, <1>5 DEF LockTypeOK
<1>7. RegistryInv'
  BY <1>3, <1>1, <1>5, <1>0 DEF Users, RegistryInv
<1>8. OwnerInv'
  BY <1>0, <1>1, <1>3, <1>5 DEF OwnerInv, RegistryInv, h
<1>9. LockLineInv'
  <2>1. \A g \in Holders : ToSet(line'[g]) = IF g = h THEN ToSet(line[g]) \ {t}
                                                      ELSE ToSet(line[g])
    BY <1>4, <1>5, Zenon
  <2>2. \A g \in Holders : IsInjective(line'[g])
    BY <1>0, <1>5, <1>4 DEF LockLineInv
  <2>3. \A g \in Holders, u \in Tasks \ {t} :
          u \in ToSet(line'[g]) <=> pc'[u] = "waiting" /\ mine'[u] = g
    BY <1>0, <1>3, <1>5, <2>1 DEF LockLineInv
  <2>4. \A g \in Holders : t \in ToSet(line'[g]) <=> pc'[t] = "waiting" /\ mine'[t] = g
    BY <1>0, <1>5, <2>1 DEF LockLineInv, h
  <2>5. \A u \in Tasks : pc'[u] = "waiting" <=> future'[u] # "none"
    BY <1>0, <1>5 DEF LockLineInv
  <2>6. ASSUME NEW u \in Tasks, future'[u] \in {"woken", "lost"}
        PROVE  ~locked'[mine'[u]] /\ line'[mine'[u]] # <<>> /\ Head(line'[mine'[u]]) = u
    BY <1>0, <1>5, <2>6, <1>1, <1>3 DEF LockLineInv, RegistryInv
  <2>7. QED
    BY <2>2, <2>3, <2>4, <2>5, <2>6 DEF LockLineInv
<1>10. QED
  BY <1>6, <1>7, <1>8, <1>9 DEF LockInv

\* A cancellation keeps the invariant: the task stays in the line until it runs.
LEMMA CancelKeeps ==
  ASSUME LockInv, NEW t \in Tasks, Cancel(t)
  PROVE  LockInv'
<1>0. LockTypeOK /\ RegistryInv /\ OwnerInv /\ LockLineInv
  BY DEF LockInv
<1>1. /\ pc[t] = "waiting" /\ future[t] \in {"pending", "woken"}
      /\ future' = [future EXCEPT ![t] = IF @ = "pending" THEN "cancelled" ELSE "lost"]
      /\ UNCHANGED <<registry, users, locked, line, owner, pc, path, mine>>
  BY DEF Cancel
<1>2. /\ future' \in [Tasks -> {"none", "pending", "woken", "cancelled", "lost"}]
      /\ \A u \in Tasks : future'[u] = "none" <=> future[u] = "none"
      /\ \A u \in Tasks : future'[u] \in {"woken", "lost"} => future[u] \in {"woken", "lost"}
  BY <1>0, <1>1 DEF LockTypeOK
<1>3. LockTypeOK'
  BY <1>0, <1>1, <1>2 DEF LockTypeOK
<1>4. RegistryInv' /\ OwnerInv'
  BY <1>0, <1>1 DEF RegistryInv, OwnerInv, Users
<1>5. LockLineInv'
  BY <1>0, <1>1, <1>2 DEF LockLineInv
<1>6. QED
  BY <1>3, <1>4, <1>5 DEF LockInv

\* A task leaves its holder: the registry stays exact if the holder is dropped exactly
\* when no other task uses it.
LEMMA LeaveRegistry ==
  ASSUME LockTypeOK, RegistryInv, NEW t \in Tasks, pc[t] \in {"waiting", "in"},
         NEW drop \in BOOLEAN, drop <=> \A u \in Tasks \ {t} : mine[u] # mine[t],
         registry' = IF drop THEN [registry EXCEPT ![path[t]] = Nothing] ELSE registry,
         users' = [users EXCEPT ![mine[t]] = Left(mine[t])],
         pc' = [pc EXCEPT ![t] = "out"],
         mine' = [mine EXCEPT ![t] = Nothing],
         path' = [path EXCEPT ![t] = Nothing]
  PROVE  /\ RegistryInv'
         /\ registry' \in [Paths -> Holders \cup {Nothing}]
         /\ users' \in [Holders -> 0..Cardinality(Tasks)]
         /\ pc' \in [Tasks -> {"out", "waiting", "in", "raised"}]
         /\ path' \in [Tasks -> Paths \cup {Nothing}]
         /\ mine' \in [Tasks -> Holders \cup {Nothing}]
<1> USE NothingAssumption
<1>0. /\ mine[t] \in Holders /\ path[t] \in Paths
      /\ registry[path[t]] = mine[t]
  BY DEF RegistryInv
<1>1. PICK h \in Holders, p \in Paths : h = mine[t] /\ p = path[t] /\ registry[p] = h
  BY <1>0
<1>2. /\ Cardinality(Users(h)') = users[h] - 1
      /\ Cardinality(Users(h)') \in 0..Cardinality(Tasks)
      /\ \A g \in Holders \ {h} : Users(g)' = Users(g)
  BY <1>1, LeaveUsers
<1>3. /\ users' \in [Holders -> 0..Cardinality(Tasks)]
      /\ \A g \in Holders : users'[g] = Cardinality(Users(g)')
  BY <1>1, <1>2 DEF LockTypeOK, Left, RegistryInv
<1>4. /\ registry' \in [Paths -> Holders \cup {Nothing}]
      /\ pc' \in [Tasks -> {"out", "waiting", "in", "raised"}]
      /\ path' \in [Tasks -> Paths \cup {Nothing}]
      /\ mine' \in [Tasks -> Holders \cup {Nothing}]
      /\ pc'[t] = "out" /\ mine'[t] = Nothing /\ path'[t] = Nothing
      /\ \A u \in Tasks \ {t} : pc'[u] = pc[u] /\ mine'[u] = mine[u] /\ path'[u] = path[u]
      /\ registry'[p] = IF drop THEN Nothing ELSE h
      /\ \A q \in Paths \ {p} : registry'[q] = registry[q]
  BY <1>1 DEF LockTypeOK
<1>5. \A u \in Tasks \ {t} : pc[u] \in {"waiting", "in"} /\ path[u] = p => ~drop
  BY <1>1 DEF RegistryInv
<1>6. ~drop => \E u \in Tasks \ {t} : path[u] = p
  BY <1>1 DEF RegistryInv
<1>7. \A u \in Tasks : IF pc'[u] \in {"waiting", "in"}
                       THEN /\ mine'[u] \in Holders /\ path'[u] \in Paths
                            /\ registry'[path'[u]] = mine'[u]
                       ELSE pc'[u] = "out" /\ mine'[u] = Nothing /\ path'[u] = Nothing
  BY <1>1, <1>4, <1>5 DEF RegistryInv
<1>8. \A q \in Paths : registry'[q] # Nothing => \E u \in Tasks : path'[u] = q
  BY <1>4, <1>6, <1>1 DEF RegistryInv
<1>9. \A q, r \in Paths : registry'[q] = registry'[r] /\ registry'[q] # Nothing => q = r
  BY <1>1, <1>4 DEF RegistryInv
<1>10. RegistryInv'
  BY <1>3, <1>7, <1>8, <1>9 DEF RegistryInv
<1>11. QED
  BY <1>3, <1>4, <1>10

\* The wake-up reaches the head of the line, if it still waits, and nobody else.
LEMMA WokenLemma ==
  ASSUME NEW s \in Seq(Tasks),
         NEW f \in [Tasks -> {"none", "pending", "woken", "cancelled", "lost"}]
  PROVE  /\ Woken(s, f) \in [Tasks -> {"none", "pending", "woken", "cancelled", "lost"}]
         /\ \A u \in Tasks : \/ Woken(s, f)[u] = f[u]
                             \/ /\ s # <<>> /\ Head(s) = u /\ u \in ToSet(s)
                                /\ f[u] = "pending" /\ Woken(s, f)[u] = "woken"
BY LenProperties, EmptySeq, HeadTailProperties, InLine DEF ToSet, Woken

\* A cancelled waiter keeps the invariant: it leaves the line, the count and, if it was
\* the last user, the registry; its wake-up goes to the next waiter.
LEMMA GiveUpKeeps ==
  ASSUME LockInv, NEW t \in Tasks, GiveUp(t)
  PROVE  LockInv'
<1> USE NothingAssumption
<1> DEFINE Futures == {"none", "pending", "woken", "cancelled", "lost"}
<1>0. LockTypeOK /\ RegistryInv /\ OwnerInv /\ LockLineInv
  BY DEF LockInv
<1>1. /\ pc[t] = "waiting" /\ future[t] \in {"cancelled", "lost"}
      /\ mine[t] \in Holders /\ path[t] \in Paths
  BY <1>0 DEF GiveUp, RegistryInv
<1>2. PICK h \in Holders : h = mine[t]
  BY <1>1
<1>3. PICK rest \in Without(line[h], t) :
         /\ line' = [line EXCEPT ![h] = rest]
         /\ future' = IF locked[h] THEN [future EXCEPT ![t] = "none"]
                                   ELSE Woken(rest, [future EXCEPT ![t] = "none"])
  BY <1>2 DEF GiveUp
<1>4. /\ users' = [users EXCEPT ![mine[t]] = Left(mine[t])]
      /\ registry' = IF Drops(h) /\ ~locked[h]
                     THEN [registry EXCEPT ![path[t]] = Nothing] ELSE registry
      /\ pc' = [pc EXCEPT ![t] = "out"]
      /\ mine' = [mine EXCEPT ![t] = Nothing]
      /\ path' = [path EXCEPT ![t] = Nothing]
      /\ UNCHANGED <<locked, owner>>
  BY <1>2 DEF GiveUp
<1>5. /\ line[h] \in Seq(Tasks) /\ IsInjective(line[h])
  BY <1>0 DEF LockTypeOK, LockLineInv
<1>6. /\ rest \in Seq(Tasks) /\ IsInjective(rest)
      /\ ToSet(rest) = ToSet(line[h]) \ {t}
      /\ Head(line[h]) # t => rest # <<>> /\ Head(rest) = Head(line[h])
  BY <1>5, WithoutLemma
<1>7. (Drops(h) /\ ~locked[h]) <=> \A u \in Tasks \ {t} : mine[u] # mine[t]
  <2>1. users[h] - 1 = 0 <=> \A u \in Tasks \ {t} : mine[u] # h
    BY <1>2, <1>4, <1>0, LeaveUsers
  <2>2. locked[h] => \E u \in Tasks \ {t} : mine[u] = h
    BY <1>0, <1>1 DEF OwnerInv
  <2>3. QED
    BY <1>2, <2>1, <2>2 DEF Drops, Left
<1>8. /\ RegistryInv'
      /\ registry' \in [Paths -> Holders \cup {Nothing}]
      /\ users' \in [Holders -> 0..Cardinality(Tasks)]
      /\ pc' \in [Tasks -> {"out", "waiting", "in", "raised"}]
      /\ path' \in [Tasks -> Paths \cup {Nothing}]
      /\ mine' \in [Tasks -> Holders \cup {Nothing}]
  BY <1>4, <1>7, <1>0, <1>1, LeaveRegistry
<1>9. /\ future' \in [Tasks -> Futures] /\ future'[t] = "none"
      /\ \A u \in Tasks \ {t} :
           \/ future'[u] = future[u]
           \/ /\ ~locked[h] /\ rest # <<>> /\ Head(rest) = u /\ u \in ToSet(rest)
              /\ future[u] = "pending" /\ future'[u] = "woken"
  <2> DEFINE left == [future EXCEPT ![t] = "none"]
  <2>1. left \in [Tasks -> Futures] /\ left[t] = "none"
        /\ \A u \in Tasks \ {t} : left[u] = future[u]
    BY <1>0 DEF LockTypeOK
  <2>2. future' = IF locked[h] THEN left ELSE Woken(rest, left)
    BY <1>3
  <2> HIDE DEF left
  <2>3. CASE locked[h]
    BY <2>1, <2>2, <2>3
  <2>4. CASE ~locked[h]
    BY <1>6, <2>1, <2>2, <2>4, WokenLemma
  <2>5. QED
    BY <2>3, <2>4
<1>10. /\ line' \in [Holders -> Seq(Tasks)] /\ line'[h] = rest
       /\ \A g \in Holders \ {h} : line'[g] = line[g]
       /\ pc'[t] = "out" /\ \A u \in Tasks \ {t} : pc'[u] = pc[u]
       /\ mine'[t] = Nothing /\ \A u \in Tasks \ {t} : mine'[u] = mine[u]
  BY <1>0, <1>3, <1>4, <1>6 DEF LockTypeOK
<1>11. LockTypeOK'
  BY <1>0, <1>4, <1>8, <1>9, <1>10 DEF LockTypeOK
<1>12. OwnerInv'
  BY <1>0, <1>1, <1>4, <1>10 DEF OwnerInv
<1>13. LockLineInv'
  <2>1. \A g \in Holders : IsInjective(line'[g])
    BY <1>0, <1>10, <1>6 DEF LockLineInv
  <2>2. \A g \in Holders, u \in Tasks :
          u \in ToSet(line'[g]) <=> pc'[u] = "waiting" /\ mine'[u] = g
    BY <1>0, <1>2, <1>6, <1>10 DEF LockLineInv
  <2>3. \A u \in Tasks : pc'[u] = "waiting" <=> future'[u] # "none"
    BY <1>0, <1>9, <1>10 DEF LockLineInv
  <2>4. ASSUME NEW u \in Tasks, future'[u] \in {"woken", "lost"}
        PROVE  ~locked'[mine'[u]] /\ line'[mine'[u]] # <<>> /\ Head(line'[mine'[u]]) = u
    BY <1>4, <1>9, <1>10, <2>4, <1>0, <1>6 DEF LockLineInv, RegistryInv
  <2>5. QED
    BY <2>1, <2>2, <2>3, <2>4 DEF LockLineInv
<1>14. QED
  BY <1>8, <1>11, <1>12, <1>13 DEF LockInv

\* release() keeps the invariant, and finds the holder it came with and its own token.
LEMMA ReleaseKeeps ==
  ASSUME LockInv, NEW t \in Tasks, Release(t)
  PROVE  LockInv'
<1> USE NothingAssumption
<1> DEFINE Futures == {"none", "pending", "woken", "cancelled", "lost"}
<1>0. LockTypeOK /\ RegistryInv /\ OwnerInv /\ LockLineInv
  BY DEF LockInv
<1>1. /\ pc[t] = "in" /\ mine[t] \in Holders /\ path[t] \in Paths
      /\ registry[path[t]] = mine[t] /\ locked[mine[t]] /\ owner[mine[t]] = t
  BY <1>0 DEF Release, RegistryInv, OwnerInv
<1>2. PICK h \in Holders : h = mine[t]
  BY <1>1
<1>3. /\ owner' = [owner EXCEPT ![h] = Nothing]
      /\ users' = [users EXCEPT ![mine[t]] = Left(mine[t])]
      /\ locked' = [locked EXCEPT ![h] = FALSE]
      /\ future' = Woken(line[h], future)
      /\ registry' = IF Drops(h)
                     THEN [registry EXCEPT ![path[t]] = Nothing] ELSE registry
      /\ pc' = [pc EXCEPT ![t] = "out"]
      /\ mine' = [mine EXCEPT ![t] = Nothing]
      /\ path' = [path EXCEPT ![t] = Nothing]
      /\ line' = line
  BY <1>1, <1>2 DEF Release
<1>4. Drops(h) <=> \A u \in Tasks \ {t} : mine[u] # mine[t]
  BY <1>2, <1>3, <1>0, LeaveUsers DEF Drops, Left
<1>5. /\ RegistryInv'
      /\ registry' \in [Paths -> Holders \cup {Nothing}]
      /\ users' \in [Holders -> 0..Cardinality(Tasks)]
      /\ pc' \in [Tasks -> {"out", "waiting", "in", "raised"}]
      /\ path' \in [Tasks -> Paths \cup {Nothing}]
      /\ mine' \in [Tasks -> Holders \cup {Nothing}]
  BY <1>3, <1>4, <1>0, <1>1, LeaveRegistry
<1>6. /\ future' \in [Tasks -> Futures]
      /\ \A u \in Tasks :
           \/ future'[u] = future[u]
           \/ /\ line[h] # <<>> /\ Head(line[h]) = u /\ u \in ToSet(line[h])
              /\ future[u] = "pending" /\ future'[u] = "woken"
  BY <1>0, <1>3, WokenLemma DEF LockTypeOK
<1>7. /\ locked' \in [Holders -> BOOLEAN] /\ owner' \in [Holders -> Tasks \cup {Nothing}]
      /\ ~locked'[h]
      /\ \A g \in Holders \ {h} : locked'[g] = locked[g] /\ owner'[g] = owner[g]
      /\ pc'[t] = "out" /\ \A u \in Tasks \ {t} : pc'[u] = pc[u]
      /\ mine'[t] = Nothing /\ \A u \in Tasks \ {t} : mine'[u] = mine[u]
  BY <1>0, <1>3 DEF LockTypeOK
<1>8. LockTypeOK'
  BY <1>0, <1>3, <1>5, <1>6, <1>7 DEF LockTypeOK
<1>9. \A u \in Tasks \ {t} : pc[u] = "in" => mine[u] # h /\ mine[u] \in Holders
  BY <1>0, <1>1, <1>2 DEF OwnerInv, RegistryInv
<1>10. OwnerInv'
  BY <1>0, <1>7, <1>9, <1>2 DEF OwnerInv
<1>11. LockLineInv'
  <2>1. \A g \in Holders, u \in Tasks :
          u \in ToSet(line'[g]) <=> pc'[u] = "waiting" /\ mine'[u] = g
    BY <1>0, <1>1, <1>3, <1>7 DEF LockLineInv
  <2>2. \A u \in Tasks : pc'[u] = "waiting" <=> future'[u] # "none"
    BY <1>0, <1>1, <1>6, <1>7 DEF LockLineInv
  <2>3. ASSUME NEW u \in Tasks, future'[u] \in {"woken", "lost"}
        PROVE  ~locked'[mine'[u]] /\ line'[mine'[u]] # <<>> /\ Head(line'[mine'[u]]) = u
    <3>1. u # t /\ mine'[u] = mine[u] /\ mine[u] \in Holders
      BY <1>0, <1>1, <1>7, <2>2, <2>3 DEF RegistryInv
    <3>2. CASE future'[u] = future[u]
      <4>1. /\ ~locked[mine[u]] /\ line[mine[u]] # <<>> /\ Head(line[mine[u]]) = u
        BY <1>0, <2>3, <3>2 DEF LockLineInv
      <4>2. QED
        BY <1>1, <1>2, <1>3, <1>7, <3>1, <4>1
    <3>3. CASE future'[u] # future[u]
      BY <1>6, <3>3, <1>0, <1>3, <1>7, <3>1 DEF LockLineInv
    <3>4. QED
      BY <3>2, <3>3
  <2>4. \A g \in Holders : IsInjective(line'[g])
    BY <1>0, <1>3, Zenon DEF LockLineInv
  <2>5. QED
    BY <2>1, <2>2, <2>3, <2>4 DEF LockLineInv
<1>12. QED
  BY <1>5, <1>8, <1>10, <1>11 DEF LockInv

\* Every step, and every stutter, keeps the invariant.
LEMMA LockSteps == LockInv /\ [LockNext]_lockVars => LockInv'
<1> SUFFICES ASSUME LockInv, [LockNext]_lockVars PROVE LockInv'
  OBVIOUS
<1>1. ASSUME NEW t \in Tasks, NEW p \in Paths, Acquire(t, p) PROVE LockInv'
  BY <1>1, AcquireKeeps
<1>2. ASSUME NEW t \in Tasks, Obtain(t) PROVE LockInv'
  BY <1>2, ObtainKeeps
<1>3. ASSUME NEW t \in Tasks, Cancel(t) PROVE LockInv'
  BY <1>3, CancelKeeps
<1>4. ASSUME NEW t \in Tasks, GiveUp(t) PROVE LockInv'
  BY <1>4, GiveUpKeeps
<1>5. ASSUME NEW t \in Tasks, Release(t) PROVE LockInv'
  BY <1>5, ReleaseKeeps
<1>6. CASE UNCHANGED lockVars
  BY <1>6 DEF lockVars, LockInv, LockTypeOK, RegistryInv, OwnerInv, LockLineInv, Users
<1>7. QED
  BY <1>1, <1>2, <1>3, <1>4, <1>5, <1>6 DEF LockNext

\* The invariant holds in every reachable state.
THEOREM LockInductive == LockSpec => []LockInv
<1>1. QED
  BY LockBegins, LockSteps, PTL DEF LockSpec

\* The types hold in every reachable state.
THEOREM LockTypeCorrect == LockSpec => []LockTypeOK
BY LockInductive DEF LockInv

\* release() never raises, and the registry holds exactly the paths in use: guard()
\* neither leaks a holder nor drops one that somebody waits for.
THEOREM RegistryIsExact == LockSpec => []RegistryExact
<1>1. LockInv => RegistryExact
  BY NothingAssumption DEF LockInv, RegistryInv, RegistryExact
<1>2. QED
  BY <1>1, LockInductive, PTL

-----------------------------------------------------------------------------
\* The refinement.

\* A holder is under one path, so a task that takes it is alone inside that path.
LEMMA AloneInside ==
  ASSUME LockInv, NEW p \in Paths, NEW h \in Holders, registry[p] = h, ~locked[h]
  PROVE  Inside[p] = {}
BY DEF LockInv, RegistryInv, OwnerInv, Inside

\* The sections after a step that changes who is inside one of them.
LEMMA InsideBecomes ==
  ASSUME NEW p \in Paths, NEW S \in SUBSET Tasks,
         \A u \in Tasks : pc'[u] = "in" /\ path'[u] = p <=> u \in S,
         \A q \in Paths \ {p}, u \in Tasks :
           pc'[u] = "in" /\ path'[u] = q <=> pc[u] = "in" /\ path[u] = q
  PROVE  Inside' = [Inside EXCEPT ![p] = S]
<1>1. Inside'[p] = S /\ \A q \in Paths \ {p} : Inside'[q] = Inside[q]
  BY DEF Inside
<1>2. Inside' = [q \in Paths |-> Inside'[q]]
  BY DEF Inside
<1>3. [Inside EXCEPT ![p] = S] = [q \in Paths |-> IF q = p THEN S ELSE Inside[q]]
  BY DEF Inside
<1>4. QED
  BY <1>1, <1>2, <1>3

\* Every step of the lock is a step of the mutex, or none.
LEMMA StepRefines == LockInv /\ [LockNext]_lockVars => [M!MNext]_Inside
<1> SUFFICES ASSUME LockInv, [LockNext]_lockVars PROVE [M!MNext]_Inside
  OBVIOUS
<1> USE NothingAssumption
<1>0. LockTypeOK /\ RegistryInv /\ OwnerInv /\ LockLineInv
  BY DEF LockInv
<1>1. ASSUME NEW t \in Tasks, NEW p \in Paths, Acquire(t, p) PROVE [M!MNext]_Inside
  <2>1. pc[t] = "out" /\ path' = [path EXCEPT ![t] = p] /\ path[t] = Nothing
    BY <1>0, <1>1 DEF Acquire, RegistryInv
  <2>2. CASE pc' = [pc EXCEPT ![t] = "waiting"]
    BY <1>0, <2>1, <2>2 DEF Inside, LockTypeOK
  <2>3. CASE pc' = [pc EXCEPT ![t] = "in"]
    <3>1. PICK h \in Holders :
            /\ IF registry[p] = Nothing THEN Unused(h) ELSE registry[p] = h
            /\ Free(h)
      BY <1>0, <2>3, <1>1 DEF LockTypeOK, Acquire
    <3>2. Inside[p] = {}
      BY <1>0, <3>1, AloneInside DEF Inside, RegistryInv, Free
    <3>3. Inside' = [Inside EXCEPT ![p] = {t}]
      BY <1>0, <2>1, <2>3, <3>2, InsideBecomes DEF LockTypeOK, Inside
    <3>4. QED
      BY <3>2, <3>3 DEF M!MNext, M!Enter
  <2>4. QED
    BY <1>1, <2>2, <2>3 DEF Acquire
<1>2. ASSUME NEW t \in Tasks, Obtain(t) PROVE [M!MNext]_Inside
  <2>1. /\ pc[t] = "waiting" /\ path[t] \in Paths /\ mine[t] \in Holders
        /\ registry[path[t]] = mine[t] /\ ~locked[mine[t]]
        /\ pc' = [pc EXCEPT ![t] = "in"] /\ path' = path
    BY <1>0, <1>2 DEF Obtain, RegistryInv, LockLineInv
  <2>2. Inside[path[t]] = {}
    BY <2>1, AloneInside
  <2>3. PICK p \in Paths : p = path[t]
    BY <2>1
  <2>4. Inside' = [Inside EXCEPT ![p] = {t}]
    <3>1. /\ pc'[t] = "in" /\ path'[t] = p
          /\ \A u \in Tasks \ {t} : pc'[u] = pc[u] /\ path'[u] = path[u]
      BY <1>0, <2>1, <2>3 DEF LockTypeOK
    <3>2. \A u \in Tasks : ~(pc[u] = "in" /\ path[u] = p)
      BY <2>2, <2>3 DEF Inside
    <3>3. {t} \in SUBSET Tasks
      OBVIOUS
    <3>4. \A u \in Tasks : pc'[u] = "in" /\ path'[u] = p <=> u \in {t}
      BY <2>1, <2>3, <3>1, <3>2
    <3>5. \A q \in Paths \ {p}, u \in Tasks :
             pc'[u] = "in" /\ path'[u] = q <=> pc[u] = "in" /\ path[u] = q
      BY <2>1, <2>3, <3>1
    <3>6. QED
      BY <3>3, <3>4, <3>5, InsideBecomes
  <2>5. QED
    BY <2>2, <2>3, <2>4 DEF M!MNext, M!Enter
<1>3. ASSUME NEW t \in Tasks, Cancel(t) PROVE [M!MNext]_Inside
  BY <1>3 DEF Cancel, Inside
<1>4. ASSUME NEW t \in Tasks, GiveUp(t) PROVE [M!MNext]_Inside
  BY <1>4, <1>0 DEF GiveUp, Inside, LockTypeOK
<1>5. ASSUME NEW t \in Tasks, Release(t) PROVE [M!MNext]_Inside
  <2>1. /\ pc[t] = "in" /\ path[t] \in Paths /\ registry[path[t]] = mine[t]
        /\ mine[t] \in Holders /\ owner[mine[t]] = t
    BY <1>0, <1>5 DEF Release, RegistryInv, OwnerInv
  <2>2. pc' = [pc EXCEPT ![t] = "out"] /\ path' = [path EXCEPT ![t] = Nothing]
    BY <1>5, <2>1 DEF Release
  <2>3. \A u \in Tasks : pc[u] = "in" /\ path[u] = path[t] => u = t
    BY <1>0, <2>1 DEF RegistryInv, OwnerInv
  <2>4. PICK p \in Paths : p = path[t]
    BY <2>1
  <2>5. Inside[p] = {t}
    BY <2>1, <2>3, <2>4 DEF Inside
  <2>6. Inside' = [Inside EXCEPT ![p] = {}]
    BY <1>0, <2>2, <2>1, <2>4, <2>3, InsideBecomes DEF LockTypeOK
  <2>7. QED
    BY <2>4, <2>5, <2>6 DEF M!MNext, M!Leave
<1>6. CASE UNCHANGED lockVars
  BY <1>6 DEF lockVars, Inside
<1>7. QED
  BY <1>1, <1>2, <1>3, <1>4, <1>5, <1>6 DEF LockNext

\* At most one task is inside the section of a path at a time, and only it leaves:
\* apply, approve, reject and expire of one action never interleave.
THEOREM LockImplements == LockSpec => ImplementsMutex
<1>1. LockInit => M!MInit
  BY NothingAssumption DEF LockInit, M!MInit, Inside
<1>2. QED
  BY <1>1, LockInductive, StepRefines, PTL DEF LockSpec, ImplementsMutex, M!MSpec

-----------------------------------------------------------------------------
\* The audit outbox and its relay: the inductive invariant.

OutboxInv == RelayInvariant /\ OutcomesHold

-----------------------------------------------------------------------------
\* Rows and batches.

\* There is a row id left for an event that has none.
LEMMA IdLeft ==
  ASSUME NEW e \in Events, id[e] = 0
  PROVE  Cardinality(Rows) + 1 \in 0..Cardinality(Events)
BY EventsAssumption, FS_Subset, FS_CardinalityType DEF Rows

\* The first events of a set are some of it.
LEMMA FirstOnes ==
  ASSUME NEW s, NEW n
  PROVE  First(s, n) \subseteq s
BY DEF First

-----------------------------------------------------------------------------
\* The invariant.

\* An empty outbox before the gateway is up.
LEMMA OutboxBegins == OutboxInit => OutboxInv
<1> SUFFICES ASSUME OutboxInit PROVE OutboxInv
  OBVIOUS
<1>1. Cardinality(Events) \in Nat
  BY EventsAssumption, FS_CardinalityType
<1>2. OutboxTypeOK
  <2>1. 0 \in 0..Cardinality(Events) /\ 0 \in 0..MaxRetries /\ 0 \in 0..MaxFaults
    BY <1>1, SizesAssumption, FaultsAssumption
  <2>2. id \in [Events -> 0..Cardinality(Events)] /\ retries \in [Events -> 0..MaxRetries]
    BY <2>1 DEF OutboxInit
  <2>3. QED
    BY <2>1, <2>2 DEF OutboxInit, OutboxTypeOK
<1>3. TableShape /\ BatchPending /\ RetriesLeft
  BY SizesAssumption DEF OutboxInit, TableShape, BatchPending, RetriesLeft, Rows, Pending
<1>4. OutcomesHold
  BY DEF OutboxInit, OutcomesHold, DeliveredWasReceived, DeadForAReason
<1>5. QED
  BY <1>2, <1>3, <1>4 DEF OutboxInv, RelayInvariant

\* A fault leaves the count within its bound.
LEMMA FaultType ==
  ASSUME OutboxTypeOK, Fault
  PROVE  faults' \in 0..MaxFaults
BY FaultsAssumption DEF OutboxTypeOK, Fault

\* A new event: its row has a fresh id and nothing has become of it.
LEMMA InsertKeeps ==
  ASSUME OutboxInv, NEW e \in Events, Insert(e)
  PROVE  OutboxInv'
<1> USE DEF OutboxInv, RelayInvariant
<1>1. id[e] = 0 /\ e \notin Rows
  BY DEF Insert, New, Rows
<1>2. id' \in [Events -> 0..Cardinality(Events)] /\ id'[e] # 0
  BY <1>1, IdLeft, EventsAssumption, FS_Subset, FS_CardinalityType DEF Rows, Insert, OutboxTypeOK
<1>3. Rows' = Rows \cup {e}
  BY <1>2 DEF Insert, Rows, OutboxTypeOK
<1>4. OutboxTypeOK'
  BY <1>2 DEF Insert, OutboxTypeOK, process, history
<1>5. e \notin delivered /\ e \notin dead /\ e \notin dropped
  BY <1>1 DEF TableShape, Insert, New
<1>6. Pending' = Pending \cup {e}
  BY <1>3, <1>5 DEF Pending, Insert
<1>7. TableShape'
  BY <1>3, <1>5 DEF TableShape, Insert, process, history
<1>8. BatchPending'
  BY <1>6 DEF BatchPending, Insert, process, history
<1>9. RetriesLeft' /\ OutcomesHold'
  BY DEF RetriesLeft, OutcomesHold, DeliveredWasReceived, DeadForAReason, Insert, process, history
<1>10. QED
  BY <1>4, <1>7, <1>8, <1>9

\* A cut that sends or marks all of a batch, or nothing, and then forgets it.
LEMMA CutKeeps ==
  ASSUME OutboxInv, SendCut, MarkCut, Fault,
         at' \in {"off", "stopped", "wait"}, batch' = {}, retryable' = FALSE,
         open' \in BOOLEAN, at' # "off" => open',
         UNCHANGED <<id, dead, due, retries, enabled, refused, dropped>>
  PROVE  OutboxInv'
<1> USE DEF OutboxInv, RelayInvariant
<1>1. received \subseteq received' /\ received' \subseteq received \cup batch
  BY DEF SendCut
<1>2. /\ delivered \subseteq delivered' /\ delivered' \subseteq delivered \cup batch
      /\ delivered' \subseteq received
  BY DEF MarkCut, BatchPending, OutcomesHold, DeliveredWasReceived
<1>3. Rows' = Rows
  BY DEF Rows
<1>4. OutboxTypeOK'
  BY <1>1, <1>2, FaultType DEF OutboxTypeOK
<1>5. batch \subseteq Rows /\ batch \cap dead = {}
  BY DEF BatchPending, Pending
<1>6. TableShape'
  BY <1>1, <1>2, <1>3, <1>5 DEF TableShape
<1>7. BatchPending'
  BY DEF BatchPending
<1>8. RetriesLeft'
  BY DEF RetriesLeft
<1>9. OutcomesHold'
  BY <1>1, <1>2, <1>5 DEF OutcomesHold, DeliveredWasReceived, DeadForAReason
<1>10. QED
  BY <1>4, <1>6, <1>7, <1>8, <1>9

\* The gateway comes up, is closed, or drops an event; a back-off ends.
LEMMA ProcessKeeps ==
  ASSUME OutboxInv, Open \/ Close \/ \E e \in Events : Drop(e) \/ BackOffEnds(e)
  PROVE  OutboxInv'
<1> USE DEF OutboxInv, RelayInvariant
<1>1. Rows' = Rows /\ delivered' = delivered /\ dead' = dead /\ received' = received
      /\ refused' = refused /\ retries' = retries /\ batch' = batch /\ retryable' = retryable
  BY DEF Open, Close, Drop, BackOffEnds, Rows, table, process, history
<1>2. Pending' = Pending
  BY <1>1 DEF Pending
<1>3. OutboxTypeOK'
  BY FaultType DEF OutboxTypeOK, Open, Close, Drop, BackOffEnds, Rows, table, process, history
<1>4. TableShape'
  BY <1>1 DEF TableShape, Open, Close, Drop, New, BackOffEnds, Rows, table, process, history
<1>5. BatchPending'
  BY <1>1, <1>2 DEF BatchPending, Open, Close, Drop, BackOffEnds, process
<1>6. RetriesLeft' /\ OutcomesHold'
  BY <1>1 DEF RetriesLeft, OutcomesHold, DeliveredWasReceived, DeadForAReason
<1>7. QED
  BY <1>3, <1>4, <1>5, <1>6

\* A batch is read, sent, refused or marked.
LEMMA BatchKeeps ==
  ASSUME OutboxInv, Select \/ Send \/ SendRefused \/ Mark \/ Wake
  PROVE  OutboxInv'
<1> USE DEF OutboxInv, RelayInvariant
<1>1. Rows' = Rows /\ id' = id /\ dead' = dead /\ due' = due /\ retries' = retries /\ enabled' = enabled
      /\ open' = open /\ dropped' = dropped /\ faults' = faults
  BY DEF Select, Send, SendRefused, Mark, Wake, Rows, table, history
<1>2. batch' \subseteq Pending
  <2>1. CASE Select
    BY <2>1, FirstOnes DEF Select, Selectable
  <2>2. CASE Send \/ SendRefused \/ Mark \/ Wake
    BY <2>2 DEF Send, SendRefused, Mark, Wake, BatchPending
  <2>3. QED
    BY <2>1, <2>2
<1>3. /\ received \subseteq received' /\ received' \subseteq received \cup batch
      /\ refused \subseteq refused' /\ refused' \subseteq refused \cup batch
  BY DEF Select, Send, SendRefused, Mark, Wake, history
<1>4. /\ delivered' \subseteq delivered \cup batch /\ delivered' \subseteq received
      /\ ~Mark => delivered' = delivered
  BY DEF Select, Send, SendRefused, Mark, Wake, table, BatchPending, OutcomesHold, DeliveredWasReceived
<1>5. batch \subseteq Rows /\ batch \cap dead = {}
  BY DEF BatchPending, Pending
<1>6. OutboxTypeOK'
  <2>1. at' \in {"off", "stopped", "select", "send", "mark", "fail", "wait"} /\ retryable' \in BOOLEAN
    BY DEF Select, Send, SendRefused, Mark, Wake, OutboxTypeOK
  <2>2. batch' \subseteq Events
    BY <1>2 DEF Pending, Rows
  <2>3. QED
    BY <1>1, <1>3, <1>4, <2>1, <2>2 DEF OutboxTypeOK
<1>7. TableShape'
  BY <1>1, <1>3, <1>4, <1>5 DEF TableShape
<1>8. BatchPending'
  <2>1. batch' \subseteq Pending'
    BY <1>1, <1>2, <1>4 DEF Mark, Pending
  <2>2. /\ at' \in {"off", "stopped", "select", "wait"} => batch' = {}
        /\ at' = "mark" => batch' \subseteq received'
        /\ at' = "fail" /\ ~retryable' => batch' \subseteq refused'
        /\ at' # "off" => open'
    BY DEF Select, Send, SendRefused, Mark, Wake, BatchPending
  <2>3. QED
    BY <2>1, <2>2 DEF BatchPending
<1>9. RetriesLeft'
  BY <1>1 DEF RetriesLeft
<1>10. OutcomesHold'
  BY <1>1, <1>3, <1>4, <1>5 DEF OutcomesHold, DeliveredWasReceived, DeadForAReason
<1>11. QED
  BY <1>6, <1>7, <1>8, <1>9, <1>10

\* A refused row has one retry less, or is given up with a reason.
LEMMA FailureKeeps ==
  ASSUME OutboxInv, NEW e \in Events, RecordFailure(e)
  PROVE  OutboxInv'
<1> USE DEF OutboxInv, RelayInvariant
<1>1. e \in batch /\ e \in Pending /\ batch' = batch \ {e}
  BY FirstOnes DEF RecordFailure, BatchPending
<1>2. /\ Rows' = Rows /\ UNCHANGED <<id, delivered, received, refused, dropped, enabled, open, faults>>
  BY DEF RecordFailure, Rows, history
<1>3. retries[e] \in Nat /\ retries[e] < MaxRetries /\ MaxRetries \in Nat
  BY <1>1, SizesAssumption DEF RetriesLeft, Pending, OutboxTypeOK
<1>4. /\ retries' \in [Events -> 0..MaxRetries] /\ retries'[e] = retries[e] + 1
      /\ \A f \in Events \ {e} : retries'[f] = retries[f]
  BY <1>3 DEF RecordFailure, OutboxTypeOK
<1>5. dead' = (IF GivesUp(e) THEN dead \cup {e} ELSE dead)
  BY DEF RecordFailure
<1>6. OutboxTypeOK'
  BY <1>1, <1>2, <1>4, <1>5 DEF OutboxTypeOK, RecordFailure
<1>7. TableShape'
  BY <1>1, <1>2, <1>5 DEF TableShape, RecordFailure, Pending
<1>8. BatchPending'
  BY <1>1, <1>2, <1>5 DEF Pending, BatchPending, RecordFailure, OutboxTypeOK
<1>9. RetriesLeft'
  BY <1>3, <1>5, <1>4 DEF GivesUp, RetriesLeft
<1>10. DeliveredWasReceived'
  BY <1>1, <1>2, <1>5 DEF OutcomesHold, DeliveredWasReceived, Pending
<1>11. DeadForAReason'
  <2>1. e \in dead' => retries'[e] = MaxRetries \/ e \in refused
    BY <1>1, <1>3, <1>4, <1>5 DEF BatchPending, RecordFailure, GivesUp, Pending
  <2>2. \A f \in dead' : f # e => f \in dead /\ f \in Events /\ retries'[f] = retries[f]
    BY <1>4, <1>5 DEF OutboxTypeOK
  <2>3. QED
    BY <1>2, <2>1, <2>2 DEF OutcomesHold, DeadForAReason
<1>12. QED
  BY <1>6, <1>7, <1>8, <1>9, <1>10, <1>11 DEF OutcomesHold

\* A stop or a death cuts the loop, another exception its iteration.
LEMMA FaultsKeep ==
  ASSUME OutboxInv, StopRelay \/ Crash \/ IterationFails
  PROVE  OutboxInv'
<1>1. CASE StopRelay
  BY <1>1, CutKeeps DEF StopRelay, Idles, OutboxInv, RelayInvariant, OutboxTypeOK, BatchPending
<1>2. CASE Crash
  BY <1>2, CutKeeps DEF Crash, Idles
<1>3. CASE IterationFails
  BY <1>3, CutKeeps DEF IterationFails, OutboxInv, RelayInvariant, OutboxTypeOK, BatchPending
<1>4. QED
  BY <1>1, <1>2, <1>3

\* Every step keeps the invariant.
LEMMA OutboxSteps == OutboxInv /\ [OutboxNext]_outboxVars => OutboxInv'
<1> SUFFICES ASSUME OutboxInv, [OutboxNext]_outboxVars PROVE OutboxInv'
  OBVIOUS
<1>1. CASE \E e \in Events : Insert(e)
  BY <1>1, InsertKeeps
<1>2. CASE Open \/ Close \/ \E e \in Events : Drop(e) \/ BackOffEnds(e)
  BY <1>2, ProcessKeeps
<1>3. CASE Select \/ Send \/ SendRefused \/ Mark \/ Wake
  BY <1>3, BatchKeeps
<1>4. CASE \E e \in Events : RecordFailure(e)
  BY <1>4, FailureKeeps
<1>5. CASE StopRelay \/ Crash \/ IterationFails
  BY <1>5, FaultsKeep
<1>6. CASE UNCHANGED outboxVars
  BY <1>6 DEF outboxVars, table, process, history, OutboxInv, RelayInvariant, OutboxTypeOK, TableShape, BatchPending,
              RetriesLeft, OutcomesHold, DeliveredWasReceived, DeadForAReason, Rows, Pending
<1>7. QED
  BY <1>1, <1>2, <1>3, <1>4, <1>5, <1>6 DEF OutboxNext, Loop

\* The relay's hands and the table agree, and every outcome has its reason, at every step.
THEOREM OutboxInductive == OutboxSpec => []OutboxInv
BY OutboxBegins, OutboxSteps, PTL DEF OutboxSpec

\* What the relay holds is pending, and what it is about to mark was received.
THEOREM RelayHolds == OutboxSpec => []RelayInvariant
BY OutboxInductive DEF OutboxInv

\* Delivered means received; dead means refused often enough or for good.
THEOREM OutcomesForEver == OutboxSpec => []OutcomesHold
BY OutboxInductive DEF OutboxInv

-----------------------------------------------------------------------------
\* What is settled stays.

\* No step takes a row back from the delivered or the dead, nor sends one of them again.
LEMMA StepSettles ==
  ASSUME OutboxInv, [OutboxNext]_outboxVars
  PROVE  /\ delivered \subseteq delivered' /\ dead \subseteq dead'
         /\ \A e \in received' \ received : e \in Pending
<1>1. batch \subseteq Pending
  BY DEF OutboxInv, RelayInvariant, BatchPending
<1>2. CASE Open \/ Close \/ \E e \in Events : Insert(e) \/ Drop(e) \/ BackOffEnds(e)
  BY <1>2 DEF Open, Close, Insert, Drop, BackOffEnds, table, process, history
<1>3. CASE StopRelay \/ Crash \/ IterationFails
  BY <1>1, <1>3 DEF StopRelay, Crash, IterationFails, SendCut, MarkCut
<1>4. CASE Select \/ Send \/ SendRefused \/ Mark \/ Wake
  BY <1>1, <1>4 DEF Select, Send, SendRefused, Mark, Wake, table, history
<1>5. CASE \E e \in Events : RecordFailure(e)
  BY <1>5 DEF RecordFailure, history
<1>6. CASE UNCHANGED outboxVars
  BY <1>6 DEF outboxVars, table, history
<1>7. QED
  BY <1>2, <1>3, <1>4, <1>5, <1>6 DEF OutboxNext, Loop

\* A delivered or dead row keeps its state, and is never sent again, through crashes and
\* restarts.
THEOREM Settled == OutboxSpec => SettledForEver
<1>1. OutboxInv /\ [OutboxNext]_outboxVars =>
        [/\ delivered \subseteq delivered' /\ dead \subseteq dead'
         /\ \A e \in received' \ received : e \in Pending]_outboxVars
  BY StepSettles
<1>2. QED
  BY <1>1, OutboxInductive, PTL DEF OutboxSpec, SettledForEver

-----------------------------------------------------------------------------
\* The outbox implements AtLeastOnce.

\* The state of each event, by the sets it is in.
LEMMA StateIs ==
  ASSUME OutboxInv, NEW e \in Events
  PROVE  /\ stateOf[e] = "new" <=> e \notin dropped /\ e \notin Rows
         /\ stateOf[e] = "stored" <=> e \in Pending
         /\ e \in Pending => e \notin dropped
         /\ e \in delivered => e \notin dropped /\ stateOf[e] = "delivered"
<1>1. dropped \cap Rows = {} /\ delivered \subseteq Rows /\ dead \subseteq Rows /\ delivered \cap dead = {}
  BY DEF OutboxInv, RelayInvariant, TableShape, OutcomesHold, DeliveredWasReceived
<1>2. stateOf[e] = IF e \in dropped THEN "dropped" ELSE IF e \in delivered THEN "delivered"
                   ELSE IF e \in dead THEN "dead" ELSE IF id[e] # 0 THEN "stored" ELSE "new"
  BY DEF stateOf
<1>3. QED
  BY <1>1, <1>2 DEF Pending, Rows

\* A step that leaves these sets alone leaves every state alone.
LEMMA SameStates ==
  ASSUME UNCHANGED <<id, delivered, dead, dropped>>
  PROVE  stateOf' = stateOf
BY DEF stateOf

\* A set of pending rows that is marked delivered moves on from stored.
LEMMA DeliveredMoves ==
  ASSUME OutboxInv, NEW s \in SUBSET Pending, delivered' = delivered \cup s, UNCHANGED <<id, dead, dropped>>
  PROVE  Promise!Moves(s, "stored", "delivered")
BY StateIs DEF Pending, Rows, stateOf, Promise!Moves

\* A relay that is cut marks its batch, or has it sent, or neither.
LEMMA CutRefines ==
  ASSUME OutboxInv, SendCut, MarkCut, UNCHANGED <<id, dead, dropped>>
  PROVE  [Promise!ANext]_<<stateOf, received>>
<1>1. batch \subseteq Pending /\ batch \in SUBSET Events
  BY DEF OutboxInv, RelayInvariant, BatchPending, Pending, Rows
<1>2. CASE delivered' = delivered /\ received' = received
  BY <1>2, SameStates
<1>3. CASE delivered' = delivered /\ received' = received \cup batch
  BY <1>1, StateIs, <1>3, SameStates DEF Promise!Receive, Promise!ANext
<1>4. CASE at = "mark" /\ delivered' = delivered \cup batch /\ received' = received
  BY <1>1, <1>4, DeliveredMoves DEF Promise!Settle, OutboxInv, RelayInvariant, BatchPending, Promise!ANext
<1>5. QED
  BY <1>2, <1>3, <1>4 DEF SendCut, MarkCut

\* Every step of the outbox is one of the promise, or none.
LEMMA OutboxRefines == OutboxInv /\ [OutboxNext]_outboxVars => [Promise!ANext]_<<stateOf, received>>
<1> SUFFICES ASSUME OutboxInv, [OutboxNext]_outboxVars PROVE [Promise!ANext]_<<stateOf, received>>
  OBVIOUS
<1>1. CASE \E e \in Events : Insert(e)
  <2>1. PICK e \in Events : Insert(e)
    BY <1>1
  <2>2. stateOf[e] = "new" /\ e \notin delivered /\ e \notin dead /\ e \notin dropped
    BY <2>1, StateIs DEF Insert, New, Rows, OutboxInv, RelayInvariant, TableShape
  <2>3. id'[e] # 0 /\ \A f \in Events \ {e} : id'[f] = id[f]
    BY EventsAssumption, FS_Subset, FS_CardinalityType, <2>1 DEF Rows, Insert, OutboxInv, RelayInvariant,
       OutboxTypeOK
  <2>4. UNCHANGED <<delivered, dead, dropped, received>>
    BY <2>1 DEF Insert, history
  <2>5. stateOf' = [f \in Events |-> IF f \in {e} THEN "stored" ELSE stateOf[f]]
    BY <2>2, <2>3, <2>4 DEF stateOf
  <2>6. Promise!Store(e)
    BY <2>2, <2>4, <2>5 DEF Promise!Store, Promise!Moves
  <2>7. QED
    BY <2>6 DEF Promise!ANext
<1>2. CASE \E e \in Events : Drop(e)
  <2>1. PICK e \in Events : Drop(e)
    BY <1>2
  <2>2. stateOf[e] = "new"
    BY <2>1, StateIs DEF Drop, New, Rows
  <2>3. dropped' = dropped \cup {e} /\ UNCHANGED <<id, delivered, dead, received>>
    BY <2>1 DEF Drop, table
  <2>4. stateOf' = [f \in Events |-> IF f \in {e} THEN "dropped" ELSE stateOf[f]]
    BY <2>3 DEF stateOf
  <2>5. Promise!Drop(e)
    BY <2>2, <2>3, <2>4 DEF Promise!Drop, Promise!Moves
  <2>6. QED
    BY <2>5 DEF Promise!ANext
<1>3. CASE StopRelay \/ Crash \/ IterationFails
  BY <1>3, CutRefines DEF StopRelay, Crash, IterationFails
<1>4. CASE Send \/ SendRefused
  <2>1. batch \subseteq Pending /\ batch \in SUBSET Events /\ at = "send" /\ UNCHANGED <<id, delivered, dead, dropped>>
    BY <1>4 DEF Send, SendRefused, table, OutboxInv, RelayInvariant, BatchPending, Pending, Rows
  <2>2. SendCut /\ MarkCut
    BY <1>4, <2>1 DEF Send, SendRefused, SendCut, MarkCut
  <2>3. QED
    BY <2>1, <2>2, CutRefines
<1>5. CASE Mark
  BY <1>5, CutRefines DEF Mark, SendCut, MarkCut, history
<1>6. CASE \E e \in Events : RecordFailure(e)
  <2>1. PICK e \in Events : RecordFailure(e)
    BY <1>6
  <2>2. e \in Pending /\ UNCHANGED <<id, delivered, dropped, received>>
    BY <2>1, FirstOnes DEF RecordFailure, history, OutboxInv, RelayInvariant, BatchPending
  <2>3. CASE GivesUp(e)
    BY <2>1, <2>3, <2>2, StateIs DEF RecordFailure, Pending, stateOf, Promise!GiveUp, Promise!Moves,
       Promise!ANext
  <2>4. CASE ~GivesUp(e)
    BY <2>1, <2>2, <2>4, SameStates DEF RecordFailure
  <2>5. QED
    BY <2>3, <2>4
<1>7. CASE Open \/ Close \/ Select \/ Wake \/ UNCHANGED outboxVars \/ \E e \in Events : BackOffEnds(e)
  <2>1. UNCHANGED <<id, delivered, dead, dropped, received>>
    BY <1>7 DEF Open, Close, Select, Wake, BackOffEnds, outboxVars, table, history
  <2>2. QED
    BY <2>1, SameStates
<1>8. QED
  BY <1>1, <1>2, <1>3, <1>4, <1>5, <1>6, <1>7 DEF OutboxNext, Loop

\* Every event is delivered at least once or given up, never both, for any number of
\* events, batches, retries and faults.
THEOREM OutboxImplements == OutboxSpec => ImplementsAtLeastOnce
<1>1. OutboxInit => Promise!AInit
  BY DEF OutboxInit, Promise!AInit, stateOf
<1>2. QED
  BY <1>1, OutboxInductive, OutboxRefines, PTL DEF OutboxSpec, ImplementsAtLeastOnce, Promise!ASpec
=============================================================================
