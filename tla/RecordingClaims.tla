-------------------------- MODULE RecordingClaims --------------------------
(***************************************************************************)
(* What the documentation of the repository says of recording and          *)
(* RecordingPipeline does not satisfy under the faults the run names.      *)
(***************************************************************************)
EXTENDS RecordingPipeline

(* docs/reference/ARCHITECTURE.md:78: recovery "ignores only a torn final  *)
(* line".  The line must then still be final once recording goes on: the   *)
(* spool of the session being recorded stays readable.                     *)
SpoolStaysReadable ==
  manifest # NoSession /\ spool.present => Readable(spool)
=============================================================================
