---------------------------- MODULE MutationLock ----------------------------
(***************************************************************************)
(* AsyncIOMutationLock, bsage/garden/canonicalization/lock.py: a registry  *)
(* of reference-counted holders, one asyncio.Lock each, created by the     *)
(* first task that asks for a path and dropped by the last one that is     *)
(* done with it.                                                           *)
(*                                                                         *)
(* The registry lock guards blocks that never suspend, so nobody ever      *)
(* waits for it and each block is one step.  The steps are what a task     *)
(* does between two suspensions of the event loop; asyncio.Lock wakes a    *)
(* waiter by completing its future, and the waiter takes the lock only     *)
(* when the loop runs it.                                                  *)
(***************************************************************************)
EXTENDS Integers, Sequences, SequencesExt, FiniteSets

CONSTANTS Tasks,        \* the coroutines that enter guard()
          Paths,        \* the action paths
          Holders,      \* the _Holder objects (one per task is enough at a time)
          Nothing          \* no task, no path, no holder

\* Every task uses at most one holder at a time: a new one can always be created.
ASSUME HolderAssumption ==
  /\ IsFiniteSet(Tasks) /\ IsFiniteSet(Holders)
  /\ Cardinality(Holders) >= Cardinality(Tasks)
ASSUME NothingAssumption == Nothing \notin Tasks \cup Paths \cup Holders

\* Definitions named ...Mutant are bugs this code could have had: the run of a property
\* replaces the definition below by its mutant and must see the property violated.

VARIABLES
  registry,    \* _registry: the holder of a path, or Nothing
  users,       \* waiters of a holder: the tasks that wait for it or are inside
  locked,      \* _locked of its asyncio.Lock
  line,        \* _waiters of its asyncio.Lock: the tasks whose futures are in it
  owner,       \* current_token: the task it was given to
  future,      \* per task: the state of its future in the line
  pc,          \* per task: where it is
  path,        \* per task: the path it was called with
  mine         \* per task: its local variable holder

lockVars == <<registry, users, locked, line, owner, future, pc, path, mine>>

\* "lost" is a future that was completed and whose task was cancelled before it ran.
LockTypeOK ==
  /\ registry \in [Paths -> Holders \cup {Nothing}]
  /\ users \in [Holders -> 0..Cardinality(Tasks)]
  /\ locked \in [Holders -> BOOLEAN]
  /\ line \in [Holders -> Seq(Tasks)]
  /\ owner \in [Holders -> Tasks \cup {Nothing}]
  /\ future \in [Tasks -> {"none", "pending", "woken", "cancelled", "lost"}]
  /\ pc \in [Tasks -> {"out", "waiting", "in", "raised"}]
  /\ path \in [Tasks -> Paths \cup {Nothing}]
  /\ mine \in [Tasks -> Holders \cup {Nothing}]

LockInit ==
  /\ registry = [p \in Paths |-> Nothing]
  /\ users = [h \in Holders |-> 0]
  /\ locked = [h \in Holders |-> FALSE]
  /\ line = [h \in Holders |-> <<>>]
  /\ owner = [h \in Holders |-> Nothing]
  /\ future = [t \in Tasks |-> "none"]
  /\ pc = [t \in Tasks |-> "out"]
  /\ path = [t \in Tasks |-> Nothing]
  /\ mine = [t \in Tasks |-> Nothing]

-----------------------------------------------------------------------------
\* asyncio.Lock.

FreeMutant(h) == ~locked[h]

\* acquire() takes the lock at once.
Free(h) == ~locked[h] /\ \A t \in ToSet(line[h]) : future[t] = "cancelled"

\* _waiters.remove: the line without the future of t.
Without(s, t) == {RemoveAt(s, i) : i \in {j \in DOMAIN s : s[j] = t}}

\* _wake_up_first: the first future of the line, if it is not done, is completed.
Woken(s, futures) ==
  IF s # <<>> /\ futures[Head(s)] = "pending"
  THEN [futures EXCEPT ![Head(s)] = "woken"] ELSE futures

-----------------------------------------------------------------------------
\* A _Holder that nothing refers to: what a new one is made of.
Unused(h) == /\ \A p \in Paths : registry[p] # h
             /\ \A t \in Tasks : mine[t] # h

\* acquire() up to its first suspension, or to its return.
Acquire(t, p) ==
  /\ pc[t] = "out"
  /\ \E h \in Holders :
       /\ IF registry[p] = Nothing THEN Unused(h) ELSE registry[p] = h
       /\ registry' = [registry EXCEPT ![p] = h]
       /\ users' = [users EXCEPT ![h] = @ + 1]
       /\ mine' = [mine EXCEPT ![t] = h]
       /\ path' = [path EXCEPT ![t] = p]
       /\ \/ /\ Free(h)
             /\ locked' = [locked EXCEPT ![h] = TRUE]
             /\ owner' = [owner EXCEPT ![h] = t]
             /\ pc' = [pc EXCEPT ![t] = "in"]
             /\ UNCHANGED <<line, future>>
          \/ /\ ~Free(h)
             /\ line' = [line EXCEPT ![h] = Append(@, t)]
             /\ future' = [future EXCEPT ![t] = "pending"]
             /\ pc' = [pc EXCEPT ![t] = "waiting"]
             /\ UNCHANGED <<locked, owner>>

\* The token is not stored.
ObtainMutant(t) ==
  /\ pc[t] = "waiting" /\ future[t] = "woken"
  /\ \E rest \in Without(line[mine[t]], t) : line' = [line EXCEPT ![mine[t]] = rest]
  /\ future' = [future EXCEPT ![t] = "none"]
  /\ locked' = [locked EXCEPT ![mine[t]] = TRUE]
  /\ pc' = [pc EXCEPT ![t] = "in"]
  /\ UNCHANGED <<registry, users, owner, path, mine>>

\* The loop runs a task whose future was completed.
Obtain(t) ==
  /\ pc[t] = "waiting" /\ future[t] = "woken"
  /\ \E rest \in Without(line[mine[t]], t) : line' = [line EXCEPT ![mine[t]] = rest]
  /\ future' = [future EXCEPT ![t] = "none"]
  /\ locked' = [locked EXCEPT ![mine[t]] = TRUE]
  /\ owner' = [owner EXCEPT ![mine[t]] = t]
  /\ pc' = [pc EXCEPT ![t] = "in"]
  /\ UNCHANGED <<registry, users, path, mine>>

\* task.cancel() of a task that waits.
Cancel(t) ==
  /\ pc[t] = "waiting" /\ future[t] \in {"pending", "woken"}
  /\ future' = [future EXCEPT ![t] = IF @ = "pending" THEN "cancelled" ELSE "lost"]
  /\ UNCHANGED <<registry, users, locked, line, owner, pc, path, mine>>

LeftMutant(h) == users[h] - 2

\* waiters -= 1
Left(h) == users[h] - 1

DropsMutant(h) == Left(h) <= 1

\* The last user takes the holder out of the registry.
Drops(h) == Left(h) = 0

\* CancelledError in the task: asyncio.Lock passes the wake-up on, acquire() takes the
\* task out of the count.
GiveUp(t) ==
  LET h == mine[t]
      left == [future EXCEPT ![t] = "none"] IN
  /\ pc[t] = "waiting" /\ future[t] \in {"cancelled", "lost"}
  /\ \E rest \in Without(line[h], t) :
       /\ line' = [line EXCEPT ![h] = rest]
       /\ future' = IF locked[h] THEN left ELSE Woken(rest, left)
  /\ users' = [users EXCEPT ![h] = Left(h)]
  /\ registry' = IF Drops(h) /\ ~locked[h]
                 THEN [registry EXCEPT ![path[t]] = Nothing] ELSE registry
  /\ pc' = [pc EXCEPT ![t] = "out"]
  /\ mine' = [mine EXCEPT ![t] = Nothing]
  /\ path' = [path EXCEPT ![t] = Nothing]
  /\ UNCHANGED <<locked, owner>>

\* release(), in the finally of guard(): the holder is looked up again.
Release(t) ==
  LET h == registry[path[t]] IN
  /\ pc[t] = "in"
  /\ \/ /\ h = Nothing \/ owner[h] # t                      \* RuntimeError
        /\ pc' = [pc EXCEPT ![t] = "raised"]
        /\ UNCHANGED <<registry, users, locked, line, owner, future, path, mine>>
     \/ /\ h # Nothing /\ owner[h] = t
        /\ owner' = [owner EXCEPT ![h] = Nothing]
        /\ users' = [users EXCEPT ![h] = Left(h)]
        /\ locked' = [locked EXCEPT ![h] = FALSE]
        /\ future' = Woken(line[h], future)
        /\ registry' = IF Drops(h)
                       THEN [registry EXCEPT ![path[t]] = Nothing] ELSE registry
        /\ pc' = [pc EXCEPT ![t] = "out"]
        /\ mine' = [mine EXCEPT ![t] = Nothing]
        /\ path' = [path EXCEPT ![t] = Nothing]
        /\ UNCHANGED line

LockNext == \E t \in Tasks :
  \/ \E p \in Paths : Acquire(t, p)
  \/ Obtain(t) \/ Cancel(t) \/ GiveUp(t) \/ Release(t)

LockSpec == LockInit /\ [][LockNext]_lockVars

\* The loop runs every task whose future is done, and a section ends: apply, approve,
\* reject and expire do a finite number of storage calls inside it.
FairLockSpec == LockSpec /\ \A t \in Tasks : WF_lockVars(Obtain(t) \/ GiveUp(t) \/ Release(t))
-----------------------------------------------------------------------------
\* Why it excludes: the inductive invariant of SerialProofs.

Users(h) == {t \in Tasks : mine[t] = h}

\* A holder is in the registry exactly while it has users, under the path of them all.
RegistryInv ==
  /\ \A h \in Holders : users[h] = Cardinality(Users(h))
  /\ \A t \in Tasks : IF pc[t] \in {"waiting", "in"}
                      THEN /\ mine[t] \in Holders /\ path[t] \in Paths
                           /\ registry[path[t]] = mine[t]
                      ELSE pc[t] = "out" /\ mine[t] = Nothing /\ path[t] = Nothing
  /\ \A p \in Paths : registry[p] # Nothing => \E t \in Tasks : path[t] = p
  /\ \A p, q \in Paths : registry[p] = registry[q] /\ registry[p] # Nothing => p = q

\* A holder is locked exactly while its owner is inside.
OwnerInv ==
  /\ \A t \in Tasks : pc[t] = "in" => locked[mine[t]] /\ owner[mine[t]] = t
  /\ \A h \in Holders : locked[h] => \E t \in Tasks : pc[t] = "in" /\ mine[t] = h

\* The line of a holder is who waits for it, and only its head can have been woken.
LockLineInv ==
  /\ \A h \in Holders : IsInjective(line[h])
  /\ \A h \in Holders, t \in Tasks :
       t \in ToSet(line[h]) <=> pc[t] = "waiting" /\ mine[t] = h
  /\ \A t \in Tasks : pc[t] = "waiting" <=> future[t] # "none"
  /\ \A t \in Tasks : future[t] \in {"woken", "lost"} =>
       ~locked[mine[t]] /\ line[mine[t]] # <<>> /\ Head(line[mine[t]]) = t

LockInv == LockTypeOK /\ RegistryInv /\ OwnerInv /\ LockLineInv

-----------------------------------------------------------------------------
\* Properties.

\* "single-writer per action_path": the sections of a path exclude each other, although
\* its holder is dropped and made anew and waiters are cancelled before and after they
\* were woken.
Inside == [p \in Paths |-> {t \in Tasks : pc[t] = "in" /\ path[t] = p}]

M == INSTANCE Mutex WITH inside <- Inside

ImplementsMutex == M!MSpec

\* guard() leaves its section without an error, and idle paths leave the registry:
\* it holds exactly the paths that some task waits for or is inside of.
RegistryExact ==
  /\ \A t \in Tasks : pc[t] # "raised"
  /\ \A p \in Paths : registry[p] # Nothing <=> \E t \in Tasks : path[t] = p

\* A task that waits gets in, whoever is cancelled around it: no wake-up is lost.
EveryoneEnters ==
  \A t \in Tasks :
    pc[t] = "waiting" ~> (pc[t] = "in" \/ future[t] \in {"cancelled", "lost"})
=============================================================================
