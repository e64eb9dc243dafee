-------------------------- MODULE MCStatePackages --------------------------
(***************************************************************************)
(* Small instances of StatePackages: one state with a build's content and  *)
(* two updates, and one whose build was packaged after the update.         *)
(***************************************************************************)
EXTENDS StatePackages, TLC

CONSTANTS ny, c1, c2, c3

(* One state: a content pinned by the build, two signed updates.           *)
OneState == {ny}
ThreeContents == {c1, c2, c3}
AllOfNy == [c \in ThreeContents |-> ny]
Dates == c1 :> 1 @@ c2 :> 2 @@ c3 :> 3
Revisions == c1 :> 0 @@ c2 :> 1 @@ c3 :> 2
OneBuild == {c1}

(* Two contents of one state: the update was packaged before the build.    *)
TwoContents == {c1, c2}
BothOfNy == [c \in TwoContents |-> ny]
BuildIsNewer == c1 :> 2 @@ c2 :> 1
OneUpdate == c1 :> 0 @@ c2 :> 1

DiskFaults == {"io", "crash", "rot", "registry"}
WornFaults == {"io", "crash", "rot"}
=============================================================================
