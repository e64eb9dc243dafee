---------------------------- MODULE MCAppScreens ----------------------------
(* Two files to import into a store of one, two recording periods, three   *)
(* events.                                                                 *)
EXTENDS AppScreens, TLC
DatasetSymmetry == Permutations(Datasets)

(* The dataset operations touch nothing of the other two services: one     *)
(* that is in flight beside a run or a read says nothing new about any.    *)
OneWaits ==
  op.kind # "none" =>
    /\ location.reads = {} /\ events = <<>>
    /\ \A k \in 1 .. Periods : ~task[k].running
=============================================================================
