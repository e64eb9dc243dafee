--------------------------- MODULE MCUpdateSigner ---------------------------
(* Three processes, one after another or at once, and two contents.        *)
EXTENDS UpdateSigner, TLC

AllFaults == {"crash", "disk", "hotspot", "stuck", "rebuild", "clock"}
PidSymmetry == Permutations(Pids)
=============================================================================
