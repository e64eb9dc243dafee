---------------------------- MODULE HikePromise ----------------------------
(***************************************************************************)
(* What recording promises the user, without its machinery: an observation *)
(* that reached the device's storage is never forgotten; the library holds *)
(* a prefix of every hike that only grows; a hike ends either closed, with *)
(* all of it in the library and unchangeable from then on, or abandoned by *)
(* the user.  RecordingPipeline implements this (PromiseKept).             *)
(***************************************************************************)
EXTENDS Integers

CONSTANT Hikes

VARIABLES
  observed,   \* hike -> number of observations that reached the device
  saved,      \* hike -> the observations in the library
  status      \* hike -> new, open, closed or abandoned

vars == <<observed, saved, status>>

Prefix(n) == 1 .. n

Init ==
  /\ observed = [h \in Hikes |-> 0]
  /\ saved = [h \in Hikes |-> {}]
  /\ status = [h \in Hikes |-> "new"]

Open(h) ==
  /\ status[h] = "new"
  /\ \A other \in Hikes : status[other] # "open"
  /\ status' = [status EXCEPT ![h] = "open"]
  /\ UNCHANGED <<observed, saved>>

Observe(h) ==
  /\ status[h] = "open"
  /\ observed' = [observed EXCEPT ![h] = @ + 1]
  /\ UNCHANGED <<saved, status>>

Save(h) ==
  /\ status[h] \in {"open", "abandoned"}
  /\ \E n \in 0 .. observed[h] :
       /\ saved[h] \subseteq Prefix(n)
       /\ saved' = [saved EXCEPT ![h] = Prefix(n)]
  /\ UNCHANGED <<observed, status>>

Close(h) ==
  /\ status[h] = "open"
  /\ saved[h] = Prefix(observed[h])
  /\ status' = [status EXCEPT ![h] = "closed"]
  /\ UNCHANGED <<observed, saved>>

Abandon(h) ==
  /\ status[h] = "open"
  /\ status' = [status EXCEPT ![h] = "abandoned"]
  /\ UNCHANGED <<observed, saved>>

Next == \E h \in Hikes : Open(h) \/ Observe(h) \/ Save(h) \/ Close(h)
                           \/ Abandon(h)

Spec == Init /\ [][Next]_vars
=============================================================================
