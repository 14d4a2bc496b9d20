------------------------------- MODULE Locker -------------------------------
(***************************************************************************)
(* What the Locker interface of src/src/sync/mutex.go promises to a set G  *)
(* of goroutines: Lock blocks until the lock is free, and only Unlock      *)
(* frees it.  Mutex is shown to implement it.                              *)
(***************************************************************************)
CONSTANT G

VARIABLE status  \* status[g]: "out", "waiting" in Lock, or "held"

Init == status = [g \in G |-> "out"]

Free == \A g \in G : status[g] # "held"

(* Lock has to wait.                                                       *)
Wait(g) ==
  /\ status[g] = "out"
  /\ status' = [status EXCEPT ![g] = "waiting"]

(* Lock returns: at once, or after a wait.                                 *)
Lock(g) ==
  /\ status[g] \in {"out", "waiting"}
  /\ Free
  /\ status' = [status EXCEPT ![g] = "held"]

Unlock(g) ==
  /\ status[g] = "held"
  /\ status' = [status EXCEPT ![g] = "out"]

Next == \E g \in G : Wait(g) \/ Lock(g) \/ Unlock(g)

Spec == Init /\ [][Next]_status

=============================================================================
