------------------------------- MODULE Deque -------------------------------
(***************************************************************************)
(* What src/src/sync/poolqueue.go promises: one producer pushes and pops   *)
(* at the head, anybody pops at the tail, each value is taken once and     *)
(* nothing gets lost.  PoolChain implements it.                            *)
(***************************************************************************)
EXTENDS Naturals, Sequences

CONSTANTS
  T,      \* the threads
  owner,  \* the producer
  Val,    \* the objects
  None    \* no object

VARIABLES
  out,   \* the objects in the hands of the users
  items, \* the objects in the deque, the oldest first
  hand   \* hand[t]: the object that a call of t has to put in or has taken out

vars == <<out, items, hand>>

Init ==
  /\ out = Val
  /\ items = <<>>
  /\ hand = [t \in T |-> None]

Give(v) ==
  /\ v \in out /\ out' = out \ {v}
  /\ hand[owner] = None /\ hand' = [hand EXCEPT ![owner] = v]
  /\ UNCHANGED items

PushHead ==
  /\ hand[owner] # None
  /\ items' = Append(items, hand[owner])
  /\ hand' = [hand EXCEPT ![owner] = None]
  /\ UNCHANGED out

PopHead ==
  /\ items # <<>> /\ hand[owner] = None
  /\ hand' = [hand EXCEPT ![owner] = items[Len(items)]]
  /\ items' = SubSeq(items, 1, Len(items) - 1)
  /\ UNCHANGED out

PopTail(t) ==
  /\ items # <<>> /\ hand[t] = None
  /\ hand' = [hand EXCEPT ![t] = Head(items)]
  /\ items' = Tail(items)
  /\ UNCHANGED out

Return(t) ==
  /\ hand[t] # None
  /\ out' = out \cup {hand[t]}
  /\ hand' = [hand EXCEPT ![t] = None]
  /\ UNCHANGED items

Next ==
  \/ \E v \in Val : Give(v)
  \/ PushHead \/ PopHead
  \/ \E t \in T : PopTail(t) \/ Return(t)

Spec == Init /\ [][Next]_vars

=============================================================================
