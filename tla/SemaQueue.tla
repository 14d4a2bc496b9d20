----------------------------- MODULE SemaQueue -----------------------------
(***************************************************************************)
(* What queue and dequeue of src/src/runtime/sema.go promise: one queue of *)
(* sudogs per address, entered at the tail, or at the head with lifo, and  *)
(* left at the head.  Sema is built on it; SemaTreap implements it.        *)
(***************************************************************************)
EXTENDS Sequences

CONSTANTS
  Sudog,  \* the sudogs
  Addr,   \* the addresses of one semaRoot
  Nil     \* no sudog

VARIABLES
  queueOf, \* queueOf[a]: the sudogs queued on a, the first one first
  found    \* what the last dequeue returned

Init ==
  /\ queueOf = [a \in Addr |-> <<>>]
  /\ found = Nil

Enqueue(s, a, lifo) ==
  /\ \A b \in Addr : \A i \in DOMAIN queueOf[b] : queueOf[b][i] # s
  /\ queueOf' = [queueOf EXCEPT ![a] = IF lifo THEN <<s>> \o @ ELSE Append(@, s)]
  /\ UNCHANGED found

Dequeue(a) ==
  IF queueOf[a] = <<>>
    THEN /\ found' = Nil
         /\ UNCHANGED queueOf
    ELSE /\ found' = Head(queueOf[a])
         /\ queueOf' = [queueOf EXCEPT ![a] = Tail(@)]

Next ==
  \E a \in Addr : Dequeue(a) \/ \E s \in Sudog, lifo \in BOOLEAN : Enqueue(s, a, lifo)

Spec == Init /\ [][Next]_<<queueOf, found>>

=============================================================================
