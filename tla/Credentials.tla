---------------------------- MODULE Credentials -----------------------------
(***************************************************************************)
(* Credentials at rest, bsage/core/credential_store.py: one file each, in  *)
(* plain or under the process's primary key, read with that or a retired   *)
(* one; and the rotation that rewrites them all under the primary key, one *)
(* read and one write at a time, beside users that store and delete.       *)
(* The operator changes the keys by a restart, and drops a retired key     *)
(* after a rotation that completed.                                        *)
(***************************************************************************)
EXTENDS Naturals, Sequences, FiniteSets, SequencesExt

CONSTANTS Services,      \* names
          Keys,
          Plain,         \* no key
          Stores,        \* the files to begin with: per service, Gone or a key
          Gone,
          MaxUses,       \* bound: what users store and delete
          MaxRestarts    \* bound

ASSUME CredentialsAssumption ==
  /\ IsFiniteSet(Services) /\ Plain # Gone /\ Keys \cap {Plain, Gone} = {}
  /\ Stores \subseteq [Services -> Keys \cup {Plain, Gone}]

VARIABLES
  files,       \* per service, Gone or what is stored: [under: Keys or Plain, data]
  primary,     \* the key new files are written under, or Plain
  retired,     \* the keys that only decrypt
  turn,        \* the rotation: the services left, what it has read, if anything
  latest,      \* history: per service, what was stored last, or Gone
  crossed,     \* history: services stored or deleted while a rotation held what it had read
  clean,       \* history: no file is under another key than the primary one since a rotation
  spent        \* bound: [uses, restarts]

credentialVars == <<files, primary, retired, turn, latest, crossed, clean, spent>>

NoTurn == [on |-> FALSE, left |-> <<>>, read |-> {}]

CredentialsInit ==
  /\ \E store \in Stores : files = [s \in Services |-> IF store[s] = Gone THEN [under |-> Gone, data |-> 0]
                                                     ELSE [under |-> store[s], data |-> 1]]
  /\ latest = [s \in Services |-> files[s].data]
  /\ \E s \in Services : primary = files[s].under     \* the key they were written with
  /\ \A s \in Services : files[s].under \in {primary, Plain, Gone}
  /\ primary # Gone /\ retired = {} /\ turn = NoTurn /\ crossed = {} /\ clean = FALSE
  /\ spent = [uses |-> 0, restarts |-> 0]

Here(s) == files[s].under # Gone
Encrypts == primary # Plain

\* _decode: a plain file is read as it is; another one needs a key that fits.
Readable(s) == files[s].under = Plain \/ (Encrypts /\ files[s].under \in {primary} \cup retired)

\* _encode.
Encoded(data) == [under |-> primary, data |-> data]

Held1 == {r.of : r \in turn.read}
Uses1(s) == /\ spent.uses < MaxUses /\ spent' = [spent EXCEPT !.uses = @ + 1]
            /\ crossed' = crossed \cup ({s} \cap Held1) /\ UNCHANGED <<primary, retired, turn, clean>>

\* store.
StoreCredential(s) ==
  /\ Uses1(s) /\ files' = [files EXCEPT ![s] = Encoded(spent.uses + 2)]
  /\ latest' = [latest EXCEPT ![s] = spent.uses + 2]

\* delete.
DeleteCredential(s) ==
  /\ Here(s) /\ Uses1(s) /\ files' = [files EXCEPT ![s] = [under |-> Gone, data |-> 0]]
  /\ latest' = [latest EXCEPT ![s] = 0]

Turning(t) == turn' = t /\ UNCHANGED <<primary, retired, latest, crossed, spent>>

\* rotate_keys: the services there are, in the order of their names.
Rotate ==
  /\ ~turn.on /\ Encrypts
  /\ \E order \in SetToSeqs({s \in Services : Here(s)}) : Turning([on |-> TRUE, left |-> order, read |-> {}])
  /\ UNCHANGED <<files, clean>>

\* get: one that is gone, or that no key fits, ends the rotation.
ReadNext ==
  /\ turn.on /\ turn.read = {} /\ turn.left # <<>>
  /\ LET s == Head(turn.left) IN
     Turning(IF Here(s) /\ Readable(s) THEN [turn EXCEPT !.read = {[of |-> s, data |-> files[s].data]}]
             ELSE NoTurn)
  /\ UNCHANGED <<files, clean>>

WriteNext ==
  /\ turn.on /\ \E r \in turn.read : files' = [files EXCEPT ![r.of] = Encoded(r.data)]
  /\ Turning([turn EXCEPT !.read = {}, !.left = Tail(@)]) /\ UNCHANGED clean

Rotated ==
  /\ turn.on /\ turn.left = <<>> /\ clean' = TRUE /\ Turning(NoTurn) /\ UNCHANGED files

\* A restart: the same keys, a new one with the old one retired, or none retired any more
\* if the last rotation completed.
Restarts(k) ==
  /\ spent.restarts < MaxRestarts /\ spent' = [spent EXCEPT !.restarts = @ + 1]
  /\ \/ k = primary /\ UNCHANGED <<primary, retired, clean>>
     \/ k # primary /\ primary' = k /\ clean' = FALSE
        /\ retired' = (retired \cup {primary}) \ {Plain, k}
     \/ k = primary /\ clean /\ retired' = {} /\ UNCHANGED <<primary, clean>>
  /\ turn' = NoTurn /\ UNCHANGED <<files, latest, crossed>>

CredentialsNext ==
  \/ \E s \in Services : StoreCredential(s) \/ DeleteCredential(s)
  \/ Rotate \/ ReadNext \/ WriteNext \/ Rotated
  \/ \E k \in Keys : Restarts(k)

-----------------------------------------------------------------------------
\* Properties.

\* Every file can be read with the keys there are, through changes of keys, rotations that
\* were cut or overtaken, and users that store meanwhile; and it holds what was stored last,
\* or nothing if that was deleted, unless that happened between the rotation's reading of it
\* and its writing.
CredentialsSound ==
  \A s \in Services :
    /\ Here(s) => Readable(s)
    /\ files[s].data # latest[s] => s \in crossed
=============================================================================
