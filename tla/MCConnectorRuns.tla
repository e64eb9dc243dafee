-------------------------- MODULE MCConnectorRuns --------------------------
(***************************************************************************)
(* A small instance of ConnectorRuns: a source of two assets that once     *)
(* changes, in the shape of its records too.  A run that loses one of the  *)
(* assets is within the failure rate, and outside the volume of the last.  *)
(***************************************************************************)
EXTENDS ConnectorRuns, TLC

CONSTANTS a1, a2

TwoEditions == 1..2
TwoAssets == {a1, a2}
AlwaysBoth == [e \in TwoEditions |-> TwoAssets]
Shapes == 1 :> "old" @@ 2 :> "new"
NewReviewed == {{}, {"new"}}

=============================================================================
