----------------------------- MODULE Semaphore -----------------------------
(***************************************************************************)
(* What src/src/sync/runtime.go promises of the runtime semaphores:        *)
(* "Semacquire waits until *s > 0 and then atomically decrements it",      *)
(* "Semrelease atomically increments *s".  Sema implements it.             *)
(***************************************************************************)
EXTENDS Naturals

CONSTANTS
  G,     \* the goroutines
  Addr,  \* the semaphores
  None   \* no semaphore

VARIABLES
  value,    \* value[a]: *a
  waitingOn \* waitingOn[g]: the semaphore whose Semacquire g waits in, or None

vars == <<value, waitingOn>>

Init ==
  /\ value = [a \in Addr |-> 0]
  /\ waitingOn = [g \in G |-> None]

Semrelease(a) ==
  /\ value' = [value EXCEPT ![a] = @ + 1]
  /\ UNCHANGED waitingOn

Wait(g, a) ==
  /\ waitingOn[g] = None
  /\ waitingOn' = [waitingOn EXCEPT ![g] = a]
  /\ UNCHANGED value

(* Semacquire returns: at once, or after a wait.                           *)
Semacquire(g, a) ==
  /\ waitingOn[g] \in {None, a}
  /\ value[a] > 0
  /\ value' = [value EXCEPT ![a] = @ - 1]
  /\ waitingOn' = [waitingOn EXCEPT ![g] = None]

Next ==
  \E a \in Addr : Semrelease(a) \/ \E g \in G : Wait(g, a) \/ Semacquire(g, a)

Spec == Init /\ [][Next]_vars

=============================================================================
