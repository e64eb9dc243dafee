-------------------------- MODULE PublishedCatalog --------------------------
(***************************************************************************)
(* What an activation of a reference catalog promises: the catalog that    *)
(* the app may rely on and the highest version it has accepted change      *)
(* together, in one step, and only upwards.  A copy that is interrupted,   *)
(* a candidate that is refused and a first launch that fails are no steps  *)
(* at all.                                                                 *)
(***************************************************************************)
EXTENDS Integers

CONSTANTS Catalogs,  \* catalog identities
          Version    \* catalog -> content version

VARIABLES shown,     \* the catalog that is confirmed
          floor      \* the highest content version accepted

Init == shown \in Catalogs /\ floor = Version[shown]

Publish(c) == /\ Version[c] > floor
              /\ shown' = c
              /\ floor' = Version[c]

Next == \E c \in Catalogs : Publish(c)

Spec == Init /\ [][Next]_<<shown, floor>>
=============================================================================
