----------------------------- MODULE PoolChain -----------------------------
(***************************************************************************)
(* The lock-free queues below sync.Pool (src/src/sync/poolqueue.go): a     *)
(* poolChain, a list of poolDequeues of growing size.  One thread, owner,  *)
(* pushes and pops at the head; every thread pops at the tail.             *)
(*                                                                         *)
(* An action is one atomic operation, with the plain accesses to a slot or *)
(* to c.head that the code takes to be private at that point.  Dequeue i   *)
(* is the i-th that was allocated, so d.next is 0 (nil) or d + 1 and       *)
(* d.prev is 0 or d - 1.  nil is not pushed (Put returns early), so there  *)
(* is no dequeueNil.                                                       *)
(***************************************************************************)
EXTENDS Integers, Sequences, Goroutines

CONSTANTS
  owner,        \* the thread that pushes; those of G pop at the tail only
  Obj,          \* the objects
  InitSize,     \* the size of the first dequeue (8)
  DequeueLimit, \* the largest size of a dequeue (2^30)
  Mod,          \* the number of indexes (2^32), at least twice as many
  MaxDequeues   \* bound: no dequeue is allocated beyond this one

VARIABLES
  chead,     \* c.head
  ctail,     \* c.tail
  headTail,  \* headTail[d]: the head and the tail index of dequeue d
  slots,     \* slots[d]: its slots, with typ (is it not nil?) and val
  next,      \* next[d]
  prev,      \* prev[d]
  dpc,       \* the next step of each thread
  at,        \* the dequeue a thread works on, and d2
  ptrs,      \* what it loaded from headTail
  slot,      \* the index of the slot it owns
  hand,      \* the value it pushes or has read from a slot
  out,       \* the objects in the hands of the users
  places     \* history: where the objects are, the oldest first

chainVars == <<chead, ctail, headTail, slots, next, prev, dpc, at, ptrs, slot, hand, out, places>>

T == G \cup {owner}
D == 1..MaxDequeues
Indexes == 0..(Mod - 1)

(* len(d.vals): every dequeue is twice the size of the one before.         *)
Size(d) ==
  LET s == InitSize * 2 ^ (d - 1) IN IF d > 1 /\ s >= DequeueLimit THEN DequeueLimit ELSE s

(* All sizes are powers of two below Mod.                                  *)
ASSUME SizeAssumption ==
  /\ MaxDequeues \in Nat \ {0} /\ Mod \in Nat
  /\ \A d \in D : Size(d) \in Nat \ {0} /\ Size(d) < Mod /\ Mod % Size(d) = 0
ASSUME ObjAssumption == None \notin Obj

Free == [typ |-> FALSE, val |-> None]
NoPtrs == [head |-> 0, tail |-> 0]

ChainInit ==
  /\ chead = 0 /\ ctail = 0
  /\ headTail = [d \in D |-> NoPtrs]
  /\ slots = [d \in D |-> [i \in 0..(Size(d) - 1) |-> Free]]
  /\ next = [d \in D |-> 0]
  /\ prev = [d \in D |-> 0]
  /\ dpc = [t \in T |-> "idle"]
  /\ at = [t \in T |-> [d |-> 0, d2 |-> 0]]
  /\ ptrs = [t \in T |-> NoPtrs]
  /\ slot = [t \in T |-> 0]
  /\ hand = [t \in T |-> None]
  /\ out = Obj
  /\ places = <<>>

-----------------------------------------------------------------------------
DGoto(t, from, to) ==
  /\ dpc[t] = from
  /\ dpc' = [dpc EXCEPT ![t] = to]

Visit(t, d, d2) == at' = [at EXCEPT ![t] = [d |-> d, d2 |-> d2]]

(* The call returns, with the object v if there is one.                    *)
DReturn(t, v) ==
  /\ dpc' = [dpc EXCEPT ![t] = "idle"]
  /\ at' = [at EXCEPT ![t] = [d |-> 0, d2 |-> 0]]
  /\ ptrs' = [ptrs EXCEPT ![t] = NoPtrs]
  /\ slot' = [slot EXCEPT ![t] = 0]
  /\ hand' = [hand EXCEPT ![t] = None]
  /\ out' = out \cup ({v} \ {None})

Index(d, i) == i % Size(d)

IsEmpty(q) == q.head = q.tail

KeepChain == UNCHANGED <<chead, ctail, next, prev>>
KeepLocals == UNCHANGED <<at, ptrs, slot, hand, out>>
KeepItems == UNCHANGED <<headTail, slots, places>>

(* atomic.LoadUint64(&d.headTail) gave q; the CAS on it moves to q2, if it *)
(* has not changed, and then the slot at index i is ours and others are    *)
(* the places left in the history.                                         *)
Loaded(t, q) ==
  /\ ptrs' = [ptrs EXCEPT ![t] = IF IsEmpty(q) THEN NoPtrs ELSE q]
  /\ UNCHANGED <<at, slot, hand, out>>

CompareAndSwapUint64(t, from, retry, to, q2, i, others) ==
  LET d == at[t].d
      ok == headTail[d] = ptrs[t]
  IN
  /\ DGoto(t, from, IF ok THEN to ELSE retry)
  /\ headTail' = IF ok THEN [headTail EXCEPT ![d] = q2] ELSE headTail
  /\ slot' = [slot EXCEPT ![t] = IF ok THEN Index(d, i) ELSE 0]
  /\ places' = IF ok THEN others ELSE places
  /\ ptrs' = [ptrs EXCEPT ![t] = NoPtrs]
  /\ KeepChain /\ UNCHANGED <<slots, at, hand, out>>

-----------------------------------------------------------------------------
(* pushHead of poolChain and of poolDequeue.                               *)

(* The first call also makes the first dequeue and stores c.tail.          *)
PushHead(v) ==
  LET d == IF chead = 0 THEN 1 ELSE chead IN
  /\ DGoto(owner, "idle", "push")
  /\ v \in out /\ out' = out \ {v}
  /\ hand' = [hand EXCEPT ![owner] = v]
  /\ chead' = d
  /\ ctail' = IF chead = 0 THEN d ELSE ctail
  /\ Visit(owner, d, 0)
  /\ KeepItems /\ UNCHANGED <<next, prev, ptrs, slot>>

(* Is there room between head and tail, ...                                *)
PushLoad ==
  LET d == at[owner].d
      q == headTail[d]
  IN
  /\ DGoto(owner, "push", IF (q.tail + Size(d)) % Mod = q.head THEN "grow" ELSE "pushSlot")
  /\ KeepChain /\ KeepLocals /\ KeepItems

(* Mutant of PushSlot: the slot is not looked at.                          *)
PushSlotBlind ==
  LET d == at[owner].d IN
  /\ DGoto(owner, "pushSlot", "pushAdd")
  /\ slots' = [slots EXCEPT ![d][Index(d, headTail[d].head)] = [typ |-> TRUE, val |-> hand[owner]]]
  /\ KeepChain /\ KeepLocals /\ UNCHANGED <<headTail, places>>

(* ... has popTail let go of the slot?  Then it is ours to write.  (Nobody *)
(* else moves head.)                                                       *)
PushSlot ==
  LET d == at[owner].d
      i == Index(d, headTail[d].head)
  IN
  /\ DGoto(owner, "pushSlot", IF slots[d][i].typ THEN "grow" ELSE "pushAdd")
  /\ slots' = IF slots[d][i].typ THEN slots
              ELSE [slots EXCEPT ![d][i] = [typ |-> TRUE, val |-> hand[owner]]]
  /\ KeepChain /\ KeepLocals /\ UNCHANGED <<headTail, places>>

PushAdd ==
  LET d == at[owner].d IN
  /\ dpc[owner] = "pushAdd"
  /\ headTail' = [headTail EXCEPT ![d].head = (@ + 1) % Mod]
  /\ places' = Append(places, [d |-> d, i |-> headTail[d].head])
  /\ DReturn(owner, None)
  /\ KeepChain /\ UNCHANGED slots

(* The dequeue is full: a new one becomes c.head and d.next, with prev.    *)
Grow ==
  LET d == at[owner].d IN
  /\ DGoto(owner, "grow", "push")
  /\ d < MaxDequeues
  /\ chead' = d + 1
  /\ prev' = [prev EXCEPT ![d + 1] = d]
  /\ next' = [next EXCEPT ![d] = d + 1]
  /\ Visit(owner, d + 1, 0)
  /\ KeepItems /\ UNCHANGED <<ctail, ptrs, slot, hand, out>>

-----------------------------------------------------------------------------
(* popHead, from the newest dequeue to the older ones.                     *)

PopHead ==
  /\ chead # 0
  /\ DGoto(owner, "idle", "pop")
  /\ Visit(owner, chead, 0)
  /\ KeepChain /\ KeepItems /\ UNCHANGED <<ptrs, slot, hand, out>>

PopHeadLoad ==
  LET q == headTail[at[owner].d] IN
  /\ DGoto(owner, "pop", IF IsEmpty(q) THEN "popPrev" ELSE "popCas")
  /\ Loaded(owner, q)
  /\ KeepChain /\ KeepItems

PopHeadCas ==
  LET q == ptrs[owner]
      h == (q.head - 1) % Mod
  IN CompareAndSwapUint64(owner, "popCas", "pop", "popTake", [q EXCEPT !.head = h], h,
                          SubSeq(places, 1, Len(places) - 1))

(* The slot is read and zeroed, which races with nobody.                   *)
PopHeadTake ==
  LET d == at[owner].d
      i == slot[owner]
  IN
  /\ dpc[owner] = "popTake"
  /\ slots' = [slots EXCEPT ![d][i] = Free]
  /\ DReturn(owner, slots[d][i].val)
  /\ KeepChain /\ UNCHANGED <<headTail, places>>

PopHeadPrev ==
  LET d == prev[at[owner].d] IN
  /\ dpc[owner] = "popPrev"
  /\ IF d = 0 THEN DReturn(owner, None)
     ELSE /\ DGoto(owner, "popPrev", "pop")
          /\ Visit(owner, d, 0)
          /\ UNCHANGED <<ptrs, slot, hand, out>>
  /\ KeepChain /\ KeepItems

-----------------------------------------------------------------------------
(* popTail, from the oldest dequeue to the newer ones.                     *)

PopTail(t) ==
  /\ ctail # 0
  /\ DGoto(t, "idle", "tail")
  /\ Visit(t, ctail, 0)
  /\ KeepChain /\ KeepItems /\ UNCHANGED <<ptrs, slot, hand, out>>

(* d2 := d.next, before the attempt on d.                                  *)
TailNext(t) ==
  LET d == at[t].d IN
  /\ DGoto(t, "tail", "tailLoad")
  /\ Visit(t, d, next[d])
  /\ KeepChain /\ KeepItems /\ UNCHANGED <<ptrs, slot, hand, out>>

TailLoad(t) ==
  LET q == headTail[at[t].d] IN
  /\ dpc[t] = "tailLoad"
  /\ IF IsEmpty(q) /\ at[t].d2 = 0 THEN DReturn(t, None)
     ELSE /\ DGoto(t, "tailLoad", IF IsEmpty(q) THEN "tailDrop" ELSE "tailCas")
          /\ Loaded(t, q)
  /\ KeepChain /\ KeepItems

TailCas(t) ==
  LET q == ptrs[t] IN
  CompareAndSwapUint64(t, "tailCas", "tailLoad", "tailRead",
                 [q EXCEPT !.tail = (@ + 1) % Mod], q.tail, Tail(places))

(* The value is read, slot.val = nil, and then slot.typ = nil gives the    *)
(* slot back to pushHead.                                                  *)
TailRead(t) ==
  LET d == at[t].d IN
  /\ DGoto(t, "tailRead", "tailClear")
  /\ hand' = [hand EXCEPT ![t] = slots[d][slot[t]].val]
  /\ slots' = [slots EXCEPT ![d][slot[t]].val = None]
  /\ KeepChain /\ UNCHANGED <<headTail, places, at, ptrs, slot, out>>

TailClear(t) ==
  /\ dpc[t] = "tailClear"
  /\ slots' = [slots EXCEPT ![at[t].d][slot[t]].typ = FALSE]
  /\ DReturn(t, hand[t])
  /\ KeepChain /\ UNCHANGED <<headTail, places>>

(* d is drained: one thread takes it off the chain, all go on to d2.       *)
TailDrop(t) ==
  LET d == at[t].d
      d2 == at[t].d2
  IN
  /\ DGoto(t, "tailDrop", IF ctail = d THEN "tailUnlink" ELSE "tail")
  /\ ctail' = IF ctail = d THEN d2 ELSE ctail
  /\ Visit(t, d2, 0)
  /\ KeepItems /\ UNCHANGED <<chead, next, prev, ptrs, slot, hand, out>>

TailUnlink(t) ==
  /\ DGoto(t, "tailUnlink", "tail")
  /\ prev' = [prev EXCEPT ![at[t].d] = 0]
  /\ KeepLocals /\ KeepItems /\ UNCHANGED <<chead, ctail, next>>

-----------------------------------------------------------------------------
HeadStep ==
  \/ (\E v \in Obj : PushHead(v)) \/ PushLoad \/ PushSlot \/ PushAdd \/ Grow
  \/ PopHead \/ PopHeadLoad \/ PopHeadCas \/ PopHeadTake \/ PopHeadPrev

TailStep(t) ==
  \/ PopTail(t) \/ TailNext(t) \/ TailLoad(t) \/ TailCas(t)
  \/ TailRead(t) \/ TailClear(t) \/ TailDrop(t) \/ TailUnlink(t)

ChainNext == HeadStep \/ \E t \in T : TailStep(t)

ChainSpec == ChainInit /\ [][ChainNext]_chainVars

-----------------------------------------------------------------------------
(* How many objects dequeue d holds, and how many of them are before the   *)
(* one at index i.                                                         *)
Filled(d) == (headTail[d].head - headTail[d].tail) % Mod

Before(p) == (p.i - headTail[p.d].tail) % Mod

SlotOf(p) == [d |-> p.d, i |-> Index(p.d, p.i)]

ObjectIn(s) == slots[s.d][s.i].val

(* The slot that a call has taken, until it gives it back; the object is   *)
(* there until it is read.                                                 *)
Taking == {"popTake", "tailRead", "tailClear"}

Taken(t) == [d |-> at[t].d, i |-> slot[t]]

Held(t) == IF dpc[t] \in {"popTake", "tailRead"} THEN ObjectIn(Taken(t)) ELSE hand[t]

Items == [n \in DOMAIN places |-> ObjectIn(SlotOf(places[n]))]
Hands == [t \in T |-> Held(t)]

Queue == INSTANCE Deque WITH Val <- Obj, items <- Items, hand <- Hands

Pushing == {"push", "pushSlot", "pushAdd", "grow"}
Popping == {"pop", "popCas", "popTake", "popPrev"}
PoppingTail == {"tail", "tailLoad", "tailCas", "tailRead", "tailClear", "tailDrop", "tailUnlink"}

ChainTypeOK ==
  /\ {chead, ctail} \subseteq 0..MaxDequeues
  /\ headTail \in [D -> [head : Indexes, tail : Indexes]]
  /\ DOMAIN slots = D
  /\ \A d \in D : slots[d] \in [0..(Size(d) - 1) -> [typ : BOOLEAN, val : Obj \cup {None}]]
  /\ {next, prev} \subseteq [D -> 0..MaxDequeues]
  /\ dpc \in [T -> {"idle"} \cup Pushing \cup Popping \cup PoppingTail]
  /\ at \in [T -> [d : 0..MaxDequeues, d2 : 0..MaxDequeues]]
  /\ ptrs \in [T -> [head : Indexes, tail : Indexes]]
  /\ slot \in [T -> Nat]
  /\ hand \in [T -> Obj \cup {None}]
  /\ out \subseteq Obj
  /\ places \in Seq([d : D, i : Indexes])

(* Only the dequeues from c.tail to c.head are in use.                     *)
LinksFit ==
  /\ ctail <= chead /\ (ctail = 0 => chead = 0)
  /\ \A d \in D : /\ next[d] = IF d < chead THEN d + 1 ELSE 0
                  /\ prev[d] \in {0, d - 1}
                  /\ Filled(d) <= Size(d)
                  /\ d < ctail \/ d > chead => Filled(d) = 0

(* What a call knows of the dequeue it works on, of those that it has      *)
(* passed (nobody pushes there any more) and of what it holds.             *)
CallFits(t) ==
  LET d == at[t].d IN
  /\ dpc[t] \in Pushing \cup Popping => t = owner
  /\ dpc[t] # "idle" => d \in 1..chead
  /\ dpc[t] \in Pushing => d = chead
  /\ dpc[t] \in {"pushSlot", "pushAdd"} => Filled(d) < Size(d)
  /\ dpc[t] \in Popping => \A x \in D : x > d => Filled(x) = 0
  /\ dpc[t] \in PoppingTail => \A x \in D : x < d => Filled(x) = 0
  /\ dpc[t] \in {"popPrev", "tailDrop"} => Filled(d) = 0
  /\ dpc[t] \in {"tailLoad", "tailCas"} => at[t].d2 \in {0, d + 1} /\ at[t].d2 <= chead
  /\ dpc[t] = "tailDrop" => at[t].d2 = d + 1 /\ at[t].d2 <= chead
  /\ dpc[t] \in {"popCas", "tailCas"} => ~IsEmpty(ptrs[t])
  /\ hand[t] # None <=> dpc[t] \in Pushing \cup {"tailClear"}

(* The places are those between the tail and the head of each dequeue, in  *)
(* their order.                                                            *)
PlacesFit ==
  /\ \A n \in DOMAIN places : Before(places[n]) < Filled(places[n].d)
  /\ \A m, n \in DOMAIN places :
       m < n => \/ places[m].d < places[n].d
                \/ places[m].d = places[n].d /\ Before(places[m]) < Before(places[n])
  /\ \A d \in D, i \in Indexes :
       Before([d |-> d, i |-> i]) < Filled(d) =>
         \E n \in DOMAIN places : places[n] = [d |-> d, i |-> i]

(* A slot has an object if it is in the deque or taken, not both; one that *)
(* is taken has one taker, and is not the one that is being pushed to.     *)
SlotsFit ==
  /\ \A n \in DOMAIN places :
       LET s == SlotOf(places[n]) IN slots[s.d][s.i].typ /\ ObjectIn(s) # None
  /\ \A t \in T : dpc[t] \in Taking =>
       /\ slot[t] < Size(at[t].d) /\ slots[at[t].d][slot[t]].typ
       /\ dpc[t] # "tailClear" => ObjectIn(Taken(t)) # None
       /\ \A n \in DOMAIN places : SlotOf(places[n]) # Taken(t)
       /\ \A u \in T : dpc[u] \in Taking /\ Taken(u) = Taken(t) => u = t
  /\ dpc[owner] = "pushAdd" =>
       LET s == SlotOf([d |-> chead, i |-> headTail[chead].head]) IN
       /\ slots[s.d][s.i].typ /\ ObjectIn(s) = hand[owner]
       /\ \A t \in T : dpc[t] \in Taking => Taken(t) # s

(* The inductive invariant: links, calls, places and slots fit.            *)
ChainInv ==
  /\ ChainTypeOK
  /\ LinksFit
  /\ \A t \in T : CallFits(t)
  /\ PlacesFit
  /\ SlotsFit

(* A poolChain is a deque: objects are popped in order, each by one call,  *)
(* and with the value that was pushed, whatever slots are reused, indexes  *)
(* wrap around and dequeues are dropped at the same time.                  *)
DequeSpec == Queue!Spec

=============================================================================
