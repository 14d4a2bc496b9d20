----------------------------- MODULE SelectOrder -----------------------------
(***************************************************************************)
(* The two orders that selectgo (src/src/runtime/select.go) gives to the   *)
(* cases of a select before it looks at them: pollorder, a random shuffle, *)
(* and lockorder, a heap sort by the addresses of the channels, in which   *)
(* sellock and selunlock skip nil and the repetitions of a channel.        *)
(*                                                                         *)
(* An action is one iteration of an outer loop, or the whole of sellock or *)
(* selunlock.  Cases and array elements are numbered from 0.               *)
(***************************************************************************)
EXTENDS Naturals, Sequences, FiniteSets, Functions, SequencesExt

CONSTANTS
  NCases,  \* bound: the largest number of cases
  Keys     \* the addresses of the channels; 0 is nil

VARIABLES
  key,        \* key[o]: the address of the channel of case o
  pollorder,
  lockorder,
  phase,      \* the outer loop
  i,          \* its variable
  locked,     \* the channels in the order in which sellock locked them
  unlocked    \* the channels in the order in which selunlock unlocked them

vars == <<key, pollorder, lockorder, phase, i, locked, unlocked>>

ncases == Cardinality(DOMAIN key)
Slots == 0..(ncases - 1)
(* order0: the compiler and reflect_rselect clear it; the shuffle needs    *)
(* the 0 in its first slot.                                                *)
Blank == [s \in Slots |-> 0]

InitOrders ==
  /\ pollorder = Blank
  /\ lockorder = Blank
  /\ phase = "shuffle"
  /\ i = 1
  /\ locked = <<>>
  /\ unlocked = <<>>

Init ==
  /\ \E n \in 1..NCases : key \in [0..(n - 1) -> Keys]
  /\ InitOrders

(* The key of the case in slot s of order.                                 *)
At(order, s) == key[order[s]]

-----------------------------------------------------------------------------
(* pollorder[i] = pollorder[j]; pollorder[j] = i, for a random j <= i.     *)
Shuffle(j) ==
  /\ phase = "shuffle"
  /\ i < ncases
  /\ pollorder' = [pollorder EXCEPT ![i] = pollorder[j], ![j] = i]
  /\ i' = i + 1
  /\ UNCHANGED <<key, lockorder, phase, locked, unlocked>>

(* The loop whose variable runs from `from' is next.                       *)
Enter(from, to, first) ==
  /\ phase = from
  /\ phase' = to
  /\ i' = first
  /\ UNCHANGED <<key, pollorder, lockorder, locked, unlocked>>

EnterHeapify == i = ncases /\ Enter("shuffle", "heapify", 0)

(* Move case o up from slot j, past the smaller parents.                   *)
RECURSIVE SiftUp(_, _, _)
SiftUp(order, j, o) ==
  IF j > 0 /\ At(order, (j - 1) \div 2) < key[o]
  THEN SiftUp([order EXCEPT ![j] = order[(j - 1) \div 2]], (j - 1) \div 2, o)
  ELSE [order EXCEPT ![j] = o]

Heapify ==
  /\ phase = "heapify"
  /\ i < ncases
  /\ lockorder' = SiftUp(lockorder, i, pollorder[i])
  /\ i' = i + 1
  /\ UNCHANGED <<key, pollorder, phase, locked, unlocked>>

(* Mutant of LargerChild: always the left child.                           *)
LargerChildLeft(order, j, n) == j * 2 + 1

(* The child of slot j with the larger key, of those below n.              *)
LargerChild(order, j, n) ==
  LET k == j * 2 + 1 IN
  IF k + 1 < n /\ At(order, k) < At(order, k + 1) THEN k + 1 ELSE k

(* Move case o down from slot j of the heap of the first n slots.          *)
RECURSIVE SiftDown(_, _, _, _)
SiftDown(order, j, n, o) ==
  LET k == LargerChild(order, j, n) IN
  IF j * 2 + 1 < n /\ key[o] < At(order, k)
  THEN SiftDown([order EXCEPT ![j] = order[k]], k, n, o)
  ELSE [order EXCEPT ![j] = o]

EnterSort == i = ncases /\ Enter("heapify", "sort", ncases)

(* The largest goes to slot i - 1, whose case is put into the heap.        *)
Sort ==
  /\ phase = "sort"
  /\ i > 0
  /\ lockorder' = SiftDown([lockorder EXCEPT ![i - 1] = lockorder[0]], 0, i - 1, lockorder[i - 1])
  /\ i' = i - 1
  /\ UNCHANGED <<key, pollorder, phase, locked, unlocked>>

EnterLock == i = 0 /\ Enter("sort", "lock", 0)

(* The channels in the slots s that satisfy Take, the first slot first.    *)
Channels(Take(_)) ==
  LET slots == SelectSeq([n \in 1..ncases |-> n - 1], Take) IN
  [n \in 1..Len(slots) |-> At(lockorder, slots[n])]

(* A channel is locked where it differs from the one before, and from nil. *)
sellock ==
  /\ phase = "lock"
  /\ phase' = "unlock"
  /\ locked' = Channels(LAMBDA s : /\ At(lockorder, s) # 0
                                   /\ s > 0 => At(lockorder, s) # At(lockorder, s - 1))
  /\ UNCHANGED <<key, pollorder, lockorder, i, unlocked>>

(* From the last slot down to the first nil, once for each channel.        *)
selunlock ==
  /\ phase = "unlock"
  /\ phase' = "done"
  /\ unlocked' = Reverse(Channels(LAMBDA s :
       /\ \A t \in s..(ncases - 1) : At(lockorder, t) # 0
       /\ ~(s > 0 /\ At(lockorder, s) = At(lockorder, s - 1))))
  /\ UNCHANGED <<key, pollorder, lockorder, i, locked>>

Finished == phase = "done" /\ UNCHANGED vars

Next ==
  \/ \E j \in 0..i : Shuffle(j)
  \/ EnterHeapify \/ Heapify \/ EnterSort \/ Sort \/ EnterLock
  \/ sellock \/ selunlock \/ Finished

Spec == Init /\ [][Next]_vars

-----------------------------------------------------------------------------
(* The first n slots of order hold different cases out of S.               *)
Holds(order, n, S) ==
  /\ \A s \in 0..(n - 1) : order[s] \in S
  /\ \A s, t \in 0..(n - 1) : order[s] = order[t] => s = t

(* The first n slots are a heap; the slots from n on are sorted and no     *)
(* smaller than those before.                                              *)
IsHeap(n) == \A s \in 1..(n - 1) : At(lockorder, (s - 1) \div 2) >= At(lockorder, s)
SortedFrom(n) == \A s \in n..(ncases - 1) : \A t \in 0..(s - 1) : At(lockorder, t) <= At(lockorder, s)

(* The shuffle keeps a permutation of the cases it has seen.  The heap     *)
(* sort: while it builds the heap no parent is smaller than its child;     *)
(* while it sorts, the first i slots are a heap and the others are sorted  *)
(* and no smaller.  No case is lost or doubled on the way.  Then sellock   *)
(* takes each channel of the select once, in the order of the addresses,   *)
(* and selunlock gives back the same ones, the last one first.             *)
LocksInOrder ==
  /\ phase = "shuffle" => Holds(pollorder, i, 0..(i - 1))
  /\ phase = "heapify" => IsHeap(i) /\ Holds(lockorder, i, {pollorder[s] : s \in 0..(i - 1)})
  /\ phase = "sort" => IsHeap(i) /\ SortedFrom(i) /\ Holds(lockorder, ncases, Slots)
  /\ phase \in {"lock", "unlock", "done"} => SortedFrom(0) /\ Holds(lockorder, ncases, Slots)
  /\ phase \in {"unlock", "done"} =>
       /\ ToSet(locked) = {key[o] : o \in Slots} \ {0}
       /\ \A m, n \in DOMAIN locked : m < n => locked[m] < locked[n]
  /\ phase = "done" => unlocked = Reverse(locked)

=============================================================================
