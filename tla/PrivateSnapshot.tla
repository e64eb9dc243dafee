-------------------------- MODULE PrivateSnapshot --------------------------
(***************************************************************************)
(* The user's private library as one value: what InMemoryPrivateRepository *)
(* keeps in memory, what exportSnapshot() copies and what the private      *)
(* store writes as a whole (packages/storage/src/private.ts).  Of an       *)
(* activity the model keeps its lifecycle, the sequence numbers of its     *)
(* samples and whether its derived revision exists; of the place journal,  *)
(* the set of entries.  An activity that does not exist has lifecycle      *)
(* "absent".                                                               *)
(***************************************************************************)
EXTENDS Integers

CONSTANTS Sessions,     \* ids the native tracker may issue; activity-<id>
          Notes         \* journal entries the user may write

Lifecycles == {"absent", "recording", "paused", "recovered", "finished"}

Activity == [lifecycle : Lifecycles, samples : SUBSET Nat, revised : BOOLEAN]
Snapshot == [activity : [Sessions -> Activity], journal : SUBSET Notes]

NoActivity    == [lifecycle |-> "absent", samples |-> {}, revised |-> FALSE]
EmptySnapshot == [activity |-> [s \in Sessions |-> NoActivity],
                  journal  |-> {}]

Recreated(snap, s, lifecycle) ==
  [snap EXCEPT !.activity[s] = [NoActivity EXCEPT !.lifecycle = lifecycle]]

(* createActivity and updateActivityLifecycle: either leaves the samples   *)
(* of the activity as they are, and a new activity has none.               *)
WithLifecycle(snap, s, lifecycle) ==
  [snap EXCEPT !.activity[s].lifecycle = lifecycle]

WithSamplesReplaced(snap, s, sequences) ==
  [snap EXCEPT !.activity[s].samples = sequences]

(* appendSamples: idempotent by sequence number.                           *)
WithSamples(snap, s, sequences) ==
  [snap EXCEPT !.activity[s].samples = @ \cup sequences]

(* saveDerivedRevision, when no revision of that activity exists yet.      *)
WithRevision(snap, s) == [snap EXCEPT !.activity[s].revised = TRUE]

(* savePlaceJournal of one entry.                                          *)
WithNote(snap, n) == [snap EXCEPT !.journal = @ \cup {n}]

=============================================================================
