---------------------------- MODULE ActiveSpool ----------------------------
(***************************************************************************)
(* The append-only JSONL file in which the native tracker keeps the        *)
(* observations of the hike being recorded, as OpenOutdoorActiveSpool      *)
(* (OpenOutdoorTrackerSpike.swift) reads and extends it.                   *)
(*                                                                         *)
(* Observations are numbered from 1 and written in order, so the decodable *)
(* part of the file is known by its length.  What the model keeps beside   *)
(* it is how the file ends, because every later append lands there:        *)
(*                                                                         *)
(*   "clean"    after a newline (or the file is empty)                     *)
(*   "bare"     after a complete observation whose newline is missing      *)
(*   "torn"     in a fragment that does not decode                         *)
(*   "corrupt"  somewhere before the end there is a line that does not     *)
(*              decode and that a newline terminates                       *)
(***************************************************************************)
EXTENDS Integers

CONSTANT BatchLimit     \* observations readBatch hands over at a time (256)

ASSUME BatchLimitAssumption == BatchLimit \in Nat \ {0}

Tails == {"clean", "bare", "torn", "corrupt"}

Spool == [present : BOOLEAN, good : Nat, tail : Tails]

NoSpool    == [present |-> FALSE, good |-> 0, tail |-> "clean"]
FreshSpool == [present |-> TRUE,  good |-> 0, tail |-> "clean"]

(* inspect() returns for this file: it exists, and a line that does not    *)
(* decode is forgiven only when it is the last one and has no newline.     *)
Readable(sp) == sp.present /\ sp.tail # "corrupt"

(* batchJSON(afterSequence) returns for this file.  It stops reading once  *)
(* the batch is full, so a bad line further on is not noticed yet.         *)
Deliverable(sp, after) ==
  sp.present /\ (sp.tail = "corrupt" => sp.good >= after + BatchLimit)

(* The last observation of that batch; no more than `after` if it is empty.*)
BatchEnd(sp, after) ==
  IF sp.good < after + BatchLimit THEN sp.good ELSE after + BatchLimit

(* The file after one more observation and its newline reached it.  The    *)
(* handle was opened with seekToEnd and nothing truncates a damaged tail,  *)
(* so the new line is glued to whatever the file ended in.                 *)
AppendLine(sp) ==
  CASE sp.tail = "clean" -> [sp EXCEPT !.good = @ + 1]
    [] sp.tail = "bare"  -> [sp EXCEPT !.good = @ - 1, !.tail = "corrupt"]
    [] OTHER             -> [sp EXCEPT !.tail = "corrupt"]

(* The file after only part of the new line reached it.                    *)
AppendFragment(sp) ==
  CASE sp.tail = "bare"    -> [sp EXCEPT !.good = @ - 1, !.tail = "torn"]
    [] sp.tail = "corrupt" -> sp
    [] OTHER               -> [sp EXCEPT !.tail = "torn"]

(* The file after everything but the newline reached it.                   *)
AppendBare(sp) ==
  IF sp.tail = "clean" THEN [sp EXCEPT !.good = @ + 1, !.tail = "bare"]
                       ELSE AppendFragment(sp)

(* What is on disk after an append that was cut short; `tearing` tells     *)
(* whether a write can end in the middle of a line.                        *)
InterruptedAppends(sp, tearing) ==
  {sp, AppendLine(sp)} \cup
    (IF tearing THEN {AppendFragment(sp), AppendBare(sp)} ELSE {})

=============================================================================
