------------------------ MODULE MCRecordingPipeline ------------------------
(***************************************************************************)
(* Small instances of RecordingPipeline.                                   *)
(***************************************************************************)
EXTENDS RecordingPipeline, TLC

OrderlyFaults == FaultKinds \ {"torn"}

SessionSymmetry == Permutations(Sessions)
=============================================================================
