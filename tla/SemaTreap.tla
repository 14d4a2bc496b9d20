----------------------------- MODULE SemaTreap -----------------------------
(***************************************************************************)
(* The waiters of a semaRoot, src/src/runtime/sema.go: a treap of sudogs   *)
(* with distinct addresses, ordered by address and heap-ordered by a       *)
(* random ticket; the further waiters on an address hang off its tree node *)
(* in a list.  One root, as root.lock makes queue and dequeue atomic.      *)
(*                                                                         *)
(* The pointers are fields of one record, heap, that queue, dequeue and    *)
(* the rotations transform, assignment by assignment.                      *)
(***************************************************************************)
EXTENDS Naturals, Sequences, FiniteSets, SequencesExt

CONSTANTS
  Sudog,   \* the sudogs, one per goroutine
  Addr,    \* the addresses of the root, numbers
  Nil,     \* the nil pointer
  Tickets  \* the values of fastrand() | 1

ASSUME NilAssumption == Nil \notin Sudog
ASSUME AddrAssumption == Addr \subseteq Nat
ASSUME TicketsAssumption == Tickets \subseteq Nat \ {0}

VARIABLES
  heap,  \* root.treap and the fields of the sudogs; broken after a throw or panic
  found  \* what the last dequeue returned

vars == <<heap, found>>

Pointer == Sudog \cup {Nil}
Null == [s \in Sudog |-> Nil]

EmptyHeap ==
  [treap |-> Nil, broken |-> FALSE,
   elem |-> Null, prev |-> Null, next |-> Null, parent |-> Null,
   waitlink |-> Null, waittail |-> Null, ticket |-> [s \in Sudog |-> 0]]

TypeOK ==
  /\ heap.treap \in Pointer
  /\ heap.broken \in BOOLEAN
  /\ heap.elem \in [Sudog -> Addr \cup {Nil}]
  /\ \A field \in {"prev", "next", "parent", "waitlink", "waittail"} :
       heap[field] \in [Sudog -> Pointer]
  /\ heap.ticket \in [Sudog -> Tickets \cup {0}]
  /\ found \in Pointer

Init ==
  /\ heap = EmptyHeap
  /\ found = Nil

-----------------------------------------------------------------------------
(* if c != nil { c.parent = p }                                            *)
SetParent(h, c, p) == IF c = Nil THEN h ELSE [h EXCEPT !.parent[c] = p]

(* The slot of p that points to x, or root.treap, now points to y.         *)
Relink(h, p, x, y) ==
  CASE p = Nil -> [h EXCEPT !.treap = y]
    [] p # Nil /\ h.prev[p] = x -> [h EXCEPT !.prev[p] = y]
    [] p # Nil /\ h.prev[p] # x /\ h.next[p] = x -> [h EXCEPT !.next[p] = y]
    [] OTHER -> [h EXCEPT !.broken = TRUE]

(* (x a (y b c)) becomes (y (x a b) c).                                    *)
rotateLeft(h, x) ==
  LET p == h.parent[x]
      y == h.next[x]
      b == h.prev[y]
  IN  Relink(SetParent([h EXCEPT !.prev[y] = x, !.next[x] = b,
                                 !.parent = [@ EXCEPT ![x] = y, ![y] = p]], b, x),
             p, x, y)

(* (y (x a b) c) becomes (x a (y b c)).                                    *)
rotateRight(h, y) ==
  LET p == h.parent[y]
      x == h.prev[y]
      b == h.next[x]
  IN  Relink(SetParent([h EXCEPT !.next[x] = y, !.prev[y] = b,
                                 !.parent = [@ EXCEPT ![y] = x, ![x] = p]], b, y),
             p, y, x)

(* The search for addr: the node t that has it, or Nil, and the node last  *)
(* above it.                                                               *)
RECURSIVE Search(_, _, _, _)
Search(h, a, t, last) ==
  CASE t = Nil -> [node |-> Nil, last |-> last]
    [] t # Nil /\ h.elem[t] = a -> [node |-> t, last |-> last]
    [] OTHER -> Search(h, a, IF a < h.elem[t] THEN h.prev[t] ELSE h.next[t], t)

(* s takes the place of the node t in the tree.                            *)
Substitute(h, t, s, last) ==
  LET linked == [Relink(h, last, t, s) EXCEPT
                   !.ticket[s] = h.ticket[t], !.parent[s] = h.parent[t],
                   !.prev[s] = h.prev[t], !.next[s] = h.next[t]]
  IN  SetParent(SetParent(linked, h.prev[t], s), h.next[t], s)

-----------------------------------------------------------------------------
(* queue: a tree node for the address exists, and s goes before its list,  *)
QueueFirst(h, t, s, last) ==
  [Substitute(h, t, s, last) EXCEPT
     !.waitlink[s] = t,
     !.waittail = [@ EXCEPT ![s] = IF h.waittail[t] = Nil THEN t ELSE h.waittail[t], ![t] = Nil],
     !.parent[t] = Nil, !.prev[t] = Nil, !.next[t] = Nil]

(* Mutant of QueueLast: the sudogs behind the first one are lost.          *)
QueueLastOverwrites(h, t, s) == [h EXCEPT !.waitlink[t] = s, !.waittail[t] = s]

(* or to the end of the list,                                              *)
QueueLast(h, t, s) ==
  [h EXCEPT !.waitlink = [@ EXCEPT ![IF h.waittail[t] = Nil THEN t ELSE h.waittail[t]] = s,
                                   ![s] = Nil],
            !.waittail[t] = s]

(* or there is none, and s becomes a leaf, rotated up by its ticket.       *)
RECURSIVE RotateUp(_, _)
RotateUp(h, s) ==
  LET p == h.parent[s] IN
  IF p = Nil \/ h.ticket[p] <= h.ticket[s] \/ h.broken THEN h
  ELSE IF h.prev[p] = s THEN RotateUp(rotateRight(h, p), s)
  ELSE IF h.next[p] = s THEN RotateUp(rotateLeft(h, p), s)
  ELSE [h EXCEPT !.broken = TRUE]

QueueLeaf(h, s, a, last, ticket) ==
  LET hung == CASE last = Nil -> [h EXCEPT !.treap = s]
                [] last # Nil /\ a < h.elem[last] -> [h EXCEPT !.prev[last] = s]
                [] OTHER -> [h EXCEPT !.next[last] = s]
  IN  RotateUp([hung EXCEPT !.ticket[s] = ticket, !.parent[s] = last], s)

(* root.queue(addr, s, lifo), for a sudog that is on no queue.             *)
queue(s, a, lifo, ticket) ==
  LET h == [heap EXCEPT !.elem[s] = a, !.next[s] = Nil, !.prev[s] = Nil]
      at == Search(h, a, h.treap, Nil)
  IN
  /\ heap.elem[s] = Nil
  /\ heap' = IF at.node = Nil THEN QueueLeaf(h, s, a, at.last, ticket)
             ELSE IF lifo THEN QueueFirst(h, at.node, s, at.last)
             ELSE QueueLast(h, at.node, s)
  /\ UNCHANGED found

-----------------------------------------------------------------------------
(* Mutant of Promote: the tail of the list is forgotten.                   *)
PromoteNoTail(h, s, t, last) ==
  [Substitute(h, s, t, last) EXCEPT !.waittail[s] = Nil, !.waitlink[s] = Nil]

(* dequeue: the next waiter on the address replaces s in the tree,         *)
Promote(h, s, t, last) ==
  [Substitute(h, s, t, last) EXCEPT
     !.waittail = [@ EXCEPT ![t] = IF h.waitlink[t] # Nil THEN h.waittail[s] ELSE Nil, ![s] = Nil],
     !.waitlink[s] = Nil]

(* or s is rotated down until it is a leaf and cut off.                    *)
RECURSIVE RotateDown(_, _)
RotateDown(h, s) ==
  LET l == h.prev[s]
      r == h.next[s]
  IN
  IF (l = Nil /\ r = Nil) \/ h.broken THEN h
  ELSE IF r = Nil \/ (l # Nil /\ h.ticket[l] < h.ticket[r])
    THEN RotateDown(rotateRight(h, s), s)
    ELSE RotateDown(rotateLeft(h, s), s)

Cut(h, s) ==
  LET leaf == RotateDown(h, s) IN
  IF leaf.parent[s] = Nil THEN [leaf EXCEPT !.treap = Nil]
  ELSE IF leaf.prev[leaf.parent[s]] = s THEN [leaf EXCEPT !.prev[leaf.parent[s]] = Nil]
  ELSE [leaf EXCEPT !.next[leaf.parent[s]] = Nil]

(* The fields of the sudog that dequeue returns.                           *)
Detach(h, s) ==
  [h EXCEPT !.parent[s] = Nil, !.elem[s] = Nil, !.next[s] = Nil, !.prev[s] = Nil, !.ticket[s] = 0]

(* root.dequeue(addr).                                                     *)
dequeue(a) ==
  LET at == Search(heap, a, heap.treap, Nil)
      s == at.node
  IN
  /\ found' = s
  /\ heap' = IF s = Nil THEN heap
             ELSE IF heap.waitlink[s] # Nil THEN Detach(Promote(heap, s, heap.waitlink[s], at.last), s)
             ELSE Detach(Cut(heap, s), s)

Next ==
  \/ \E s \in Sudog, a \in Addr, lifo \in BOOLEAN, t \in Tickets : queue(s, a, lifo, t)
  \/ \E a \in Addr : dequeue(a)

Spec == Init /\ [][Next]_vars

-----------------------------------------------------------------------------
(* The nodes of the tree below t.                                          *)
RECURSIVE Below(_)
Below(t) == IF t = Nil THEN {} ELSE {t} \cup Below(heap.prev[t]) \cup Below(heap.next[t])

InTree == Below(heap.treap)

(* The list of waiters that starts with the tree node t.                   *)
RECURSIVE ListFrom(_)
ListFrom(t) == IF t = Nil THEN <<>> ELSE <<t>> \o ListFrom(heap.waitlink[t])

(* The tree is a search tree by address and a heap by ticket, its parent   *)
(* pointers are right, and no rotation met an impossible link.             *)
IsTreap ==
  /\ TypeOK
  /\ ~heap.broken
  /\ heap.treap # Nil => heap.parent[heap.treap] = Nil
  /\ \A t \in InTree :
       /\ heap.ticket[t] # 0
       /\ \A l \in Below(heap.prev[t]) : heap.elem[l] < heap.elem[t]
       /\ \A r \in Below(heap.next[t]) : heap.elem[r] > heap.elem[t]
       /\ \A c \in {heap.prev[t], heap.next[t]} \ {Nil} :
            heap.parent[c] = t /\ heap.ticket[c] >= heap.ticket[t]

(* The list of every tree node holds waiters on its address only, has the  *)
(* tail that waittail says, and no sudog of it is also in the tree.        *)
ListsEnd ==
  \A t \in InTree :
    LET list == ListFrom(t) IN
    /\ heap.waittail[t] = IF Len(list) = 1 THEN Nil ELSE Last(list)
    /\ \A i \in 2..Len(list) : heap.elem[list[i]] = heap.elem[t] /\ list[i] \notin InTree

(* What dequeue returns carries no ticket (semrelease1 throws "corrupted   *)
(* semaphore ticket" otherwise) and no pointer into the tree.              *)
FoundIsClean ==
  found # Nil /\ heap.elem[found] = Nil =>
    /\ heap.ticket[found] = 0
    /\ \A field \in {"prev", "next", "parent", "waitlink", "waittail"} : heap[field][found] = Nil

(* The pointers of the treap are consistent after every operation.         *)
TreapInv == IsTreap /\ ListsEnd /\ FoundIsClean

(* The treap implements one queue per address.                             *)
queues ==
  [a \in Addr |-> ListFrom(Search(heap, a, heap.treap, Nil).node)]

Queues == INSTANCE SemaQueue WITH queueOf <- queues

SemaQueueSpec == Queues!Spec

=============================================================================
