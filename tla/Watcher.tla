------------------------------ MODULE Watcher -------------------------------
(***************************************************************************)
(* The canonicalization index and the file system: the watcher             *)
(* (garden/canonicalization/watcher.py) that carries changes made by       *)
(* others from the observer's thread to the event loop, the subscriber     *)
(* (index_subscriber.py) that has the index reload a path, and that reload *)
(* itself (index.py), whose steps run in threads and interleave.  The      *)
(* operator switches the watcher on and off while the program runs.        *)
(***************************************************************************)
EXTENDS Naturals, Sequences, FiniteSets

CONSTANTS Indexed,       \* paths the index keeps
          Seen,          \* further paths under the watched folders
          Outside,       \* further paths of the vault
          MaxWrites,     \* bound: changes
          MaxSwitches    \* bound: the watcher's starts and stops, and restarts

ASSUME WatcherAssumption == Indexed \cap Outside = {}

VARIABLES
  disk,       \* per path, a version or 0
  watched,    \* whether the observer runs
  installed,  \* whether there is an observer to run
  events,     \* in the observer's queue: [kind, src, dst]
  emits,      \* events that wait for the loop: a path each
  reloads,    \* under way: [path, id, at, got]
  shown,      \* what the index holds: per path, a version or 0
  astray,     \* history: paths a change of which was not told, or told to two reloads at once
  counts      \* bound: [writes, switches]; it numbers the versions

watcherVars == <<disk, watched, installed, events, emits, reloads, shown, astray, counts>>

Everywhere == Indexed \cup Seen \cup Outside

\* AppState.initialize: the index is rebuilt, then the watcher is started or not.
WatcherInit ==
  /\ disk = [p \in Everywhere |-> 0] /\ watched = FALSE /\ installed \in BOOLEAN
  /\ events = <<>> /\ emits = <<>> /\ reloads = {} /\ shown = [p \in Indexed |-> 0]
  /\ astray = {} /\ counts = [writes |-> 0, switches |-> 0]

-----------------------------------------------------------------------------
\* Changes by others.

Changed(d, e, missed) ==
  /\ counts.writes < MaxWrites /\ counts' = [counts EXCEPT !.writes = @ + 1]
  /\ disk' = d /\ events' = IF watched THEN Append(events, e) ELSE events
  /\ astray' = astray \cup missed
               \cup (IF watched THEN {} ELSE {p \in Indexed : d[p] # disk[p]})
  /\ UNCHANGED <<watched, installed, emits, reloads, shown>>

Saved(p) ==
  Changed([disk EXCEPT ![p] = counts.writes + 1],
          [kind |-> IF disk[p] = 0 THEN "created" ELSE "modified", src |-> p, dst |-> p], {})

Deleted(p) ==
  disk[p] # 0 /\ Changed([disk EXCEPT ![p] = 0], [kind |-> "deleted", src |-> p, dst |-> p], {})

\* The place it leaves is never told, nor is the one it comes to, if it comes from outside.
Renamed(p, q) ==
  /\ p # q /\ disk[p] # 0
  /\ Changed([disk EXCEPT ![q] = disk[p], ![p] = 0], [kind |-> "moved", src |-> p, dst |-> q],
             ({p} \cup IF p \in Outside THEN {q} ELSE {}) \cap Indexed)

-----------------------------------------------------------------------------
\* The watcher.

Switches1 == counts.switches < MaxSwitches /\ counts' = [counts EXCEPT !.switches = @ + 1]

\* start: nothing is read again.
StartWatcher ==
  /\ ~watched /\ installed /\ Switches1 /\ watched' = TRUE
  /\ UNCHANGED <<disk, installed, events, emits, reloads, shown, astray>>

\* stop: what the observer had not dispatched is dropped.
Undelivered == {events[i].src : i \in DOMAIN events} \cup {events[i].dst : i \in DOMAIN events}
StopWatcher ==
  /\ watched /\ Switches1 /\ watched' = FALSE /\ events' = <<>>
  /\ astray' = astray \cup (Undelivered \cap Indexed)
  /\ UNCHANGED <<disk, installed, emits, reloads, shown>>

\* The next process: rebuild_from_vault.
StartAgain ==
  /\ Switches1 /\ watched' = FALSE /\ events' = <<>> /\ emits' = <<>> /\ reloads' = {} /\ astray' = {}
  /\ shown' = [p \in Indexed |-> disk[p]] /\ UNCHANGED <<disk, installed>>

\* dispatch, in the observer's thread: a move is told by where it goes, if it comes from a
\* watched folder.
Told1(e) == IF e.kind = "moved" THEN {e.dst} \ Outside ELSE {e.src}
DispatchEvent ==
  /\ events # <<>> /\ events' = Tail(events)
  /\ LET e == Head(events) IN
     IF e.src \in Outside \/ Told1(e) = {} THEN UNCHANGED emits
     ELSE \E p \in Told1(e) : emits' = Append(emits, p)
  /\ UNCHANGED <<disk, watched, installed, reloads, shown, astray, counts>>

-----------------------------------------------------------------------------
\* The index: on_event and _reload_path.

Reload(p, id) == [path |-> p, id |-> id, at |-> "look", got |-> 0]
Turns(r, s) == reloads' = (reloads \ {r}) \cup s
Beside(p) == \E r \in reloads : r.path = p
FreshId == CHOOSE i \in 0..Cardinality(reloads) : \A r \in reloads : r.id # i

\* on_event: a task for each event; a path the index does not keep is passed over.
OnEvent ==
  /\ emits # <<>> /\ emits' = Tail(emits)
  /\ LET p == Head(emits) IN
     IF p \notin Indexed THEN UNCHANGED <<reloads, astray>>
     ELSE /\ reloads' = reloads \cup {Reload(p, FreshId)}
          /\ astray' = IF Beside(p) THEN astray \cup {p} ELSE astray
  /\ UNCHANGED <<disk, watched, installed, events, shown, counts>>

\* In a thread: whether it exists.
LooksUp(r) ==
  /\ r.at = "look" /\ Turns(r, {[r EXCEPT !.at = "drop", !.got = disk[r.path]]})
  /\ UNCHANGED <<disk, watched, installed, events, emits, shown, astray, counts>>

\* Back in the loop: the entry goes; that is all if nothing exists.
Drops(r) ==
  /\ r.at = "drop" /\ shown' = [shown EXCEPT ![r.path] = 0]
  /\ Turns(r, IF r.got = 0 THEN {} ELSE {[r EXCEPT !.at = "read"]})
  /\ UNCHANGED <<disk, watched, installed, events, emits, astray, counts>>

\* In a thread: what it holds, or nothing if it is gone by now.
Reads(r) ==
  /\ r.at = "read" /\ Turns(r, {[r EXCEPT !.at = "add", !.got = disk[r.path]]})
  /\ UNCHANGED <<disk, watched, installed, events, emits, shown, astray, counts>>

Adds(r) ==
  /\ r.at = "add" /\ shown' = [shown EXCEPT ![r.path] = IF r.got = 0 THEN @ ELSE r.got]
  /\ Turns(r, {})
  /\ UNCHANGED <<disk, watched, installed, events, emits, astray, counts>>

WatcherNext ==
  \/ \E p \in Everywhere : Saved(p) \/ Deleted(p) \/ \E q \in Everywhere : Renamed(p, q)
  \/ StartWatcher \/ StopWatcher \/ StartAgain \/ DispatchEvent \/ OnEvent
  \/ \E r \in reloads : LooksUp(r) \/ Drops(r) \/ Reads(r) \/ Adds(r)

-----------------------------------------------------------------------------
\* Properties.

\* Where the index differs from the disk, news of it is on the way, so that they agree once
\* all is dealt with; but for paths a change of which was never told (it was made while the
\* watcher was off, or dropped at a stop, or was a move that left the path, or one that came
\* to it from outside), or that were reloaded twice at once.
OnTheWay(p) ==
  \/ \E i \in DOMAIN events : p \in {events[i].src, events[i].dst}
  \/ \E i \in DOMAIN emits : emits[i] = p
  \/ Beside(p)

WatcherSound == \A p \in Indexed \ astray : shown[p] # disk[p] => OnTheWay(p)
=============================================================================
