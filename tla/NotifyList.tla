----------------------------- MODULE NotifyList -----------------------------
(***************************************************************************)
(* What sync.Cond promises of Wait, Signal and Broadcast                   *)
(* (src/src/sync/cond.go): a queue of goroutines in the order in which     *)
(* they called Wait.  "Wait cannot return unless awoken by Broadcast or    *)
(* Signal", "Signal wakes one goroutine", "Broadcast wakes all".           *)
(***************************************************************************)
EXTENDS Sequences

CONSTANT G  \* the goroutines

VARIABLES
  waiting,  \* the goroutines to be woken, the first one first
  inWait    \* the goroutines that are in Wait

vars == <<waiting, inWait>>

Init ==
  /\ waiting = <<>>
  /\ inWait = {}

Wait(g) ==
  /\ g \notin inWait
  /\ inWait' = inWait \cup {g}
  /\ waiting' = Append(waiting, g)

Signal ==
  /\ waiting # <<>>
  /\ waiting' = Tail(waiting)
  /\ UNCHANGED inWait

Broadcast ==
  /\ waiting' = <<>>
  /\ UNCHANGED inWait

Return(g) ==
  /\ g \in inWait
  /\ \A i \in DOMAIN waiting : waiting[i] # g
  /\ inWait' = inWait \ {g}
  /\ UNCHANGED waiting

Next == Signal \/ Broadcast \/ \E g \in G : Wait(g) \/ Return(g)

Spec == Init /\ [][Next]_vars

=============================================================================
