-------------------------- MODULE MCLaptopTransfer --------------------------
(* Instances of LaptopTransfer for TLC.                                    *)
EXTENDS LaptopTransfer, TLC

Symmetry == Permutations(Laptops) \cup Permutations(Sessions)
=============================================================================
