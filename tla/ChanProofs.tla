----------------------------- MODULE ChanProofs -----------------------------
(***************************************************************************)
(* Proofs about module Chan for every set of goroutines, channels, buffer  *)
(* sizes and calls. WaitersInv, the part of ChanInv about the waiters, is  *)
(* inductive by itself; NoLockCycle, LoopEnds and GivesUpRightly follow.   *)
(* With the rest of ChanInv, every step of Chan is one of Channel, or has  *)
(* no effect there.                                                        *)
(***************************************************************************)
EXTENDS Chan, Counting, SequenceTheorems

(* A set of natural numbers has a least one.                               *)
LEMMA MinProperties ==
  ASSUME NEW S \in SUBSET Nat, S # {}
  PROVE  Min(S) \in S /\ \A x \in S : Min(S) <= x
  <1> DEFINE R == OpToRel(<, Nat)
  <1>1. IsWellFoundedOn(R, Nat)
    BY NatLessThanWellFounded
  <1>2. \A x, y \in Nat : y < x => <<y, x>> \in R
    BY DEF OpToRel
  <1> HIDE DEF R
  <1>3. \E x \in S : \A y \in S : <<y, x>> \notin R
    BY <1>1, WFMin
  <1>4. PICK x \in S : \A y \in S : <<y, x>> \notin R
    BY <1>3
  <1>5. \A y \in S : ~ (y < x)
    BY <1>2, <1>4
  <1>6. \A y \in S : x <= y
    BY <1>5
  <1> QED
    BY <1>6 DEF Min

(* What dequeueSudoG leaves of a queue.                                    *)
LEMMA KeepProperties ==
  ASSUME NEW S, NEW q \in Seq(S), NEW P \in SUBSET DOMAIN q
  PROVE  /\ Keep(q, P) \in Seq(S)
         /\ ToSet(Keep(q, P)) = {q[k] : k \in P}
         /\ IsInjective(q) => IsInjective(Keep(q, P))
  <1> DEFINE m == Cardinality(P)
             upto(k) == {j \in P : j <= k}
             rank(k) == Cardinality(upto(k))
             pos(n) == CHOOSE k \in P : rank(k) = n
             f == [k \in P |-> rank(k)]
  <1>1. P \in SUBSET (1..Len(q)) /\ Len(q) \in Nat /\ P \in SUBSET Nat
    OBVIOUS
  <1>2. IsFiniteSet(P) /\ m \in Nat
    <2>1. IsFiniteSet(1..Len(q))
      BY <1>1, FS_Interval
    <2> QED
      BY <1>1, <2>1, CountIsNat
  <1>3. \A k \in P : upto(k) \in SUBSET P /\ k \in upto(k) /\ IsFiniteSet(upto(k))
    BY <1>1, <1>2, FS_Subset
  <1>4. ASSUME NEW k \in P
        PROVE  rank(k) \in 1..m
    <2>1. upto(k) \in SUBSET P /\ upto(k) # {}
      BY <1>3
    <2>2. rank(k) \in Nat /\ rank(k) <= m /\ rank(k) # 0
      BY <1>2, <2>1, CountIsNat
    <2> QED
      BY <1>2, <2>2
  <1>5. ASSUME NEW j \in P, NEW k \in P, j < k
        PROVE  rank(j) < rank(k)
    <2>1. upto(j) \in SUBSET upto(k) /\ k \notin upto(j)
      BY <1>1, <1>5
    <2> QED
      BY <1>3, <2>1, CountProper
  <1> HIDE DEF rank, upto
  <1>6. \A j, k \in P : rank(j) = rank(k) => j = k
    BY <1>1, <1>4, <1>5
  <1>7. f \in Injection(P, 1..m)
    BY <1>4, <1>6 DEF Injection, IsInjective
  <1>8. IsFiniteSet(1..m) /\ Cardinality(1..m) = m
    BY <1>2, FS_Interval
  <1>9. f \in Surjection(P, 1..m)
    BY <1>7, <1>8, FS_Injection
  <1>10. \A n \in 1..m : \E k \in P : rank(k) = n
    BY <1>9 DEF Surjection
  <1>11. \A n \in 1..m : pos(n) \in P /\ rank(pos(n)) = n
    BY <1>10
  <1>12. \A k \in P : pos(rank(k)) = k
    BY <1>4, <1>6, <1>11
  <1>13. Keep(q, P) = [n \in 1..m |-> q[pos(n)]]
    BY DEF Keep, rank, upto
  <1> HIDE DEF pos, m
  <1>14. Keep(q, P) \in Seq(S)
    BY <1>1, <1>2, <1>11, <1>13
  <1>15. ToSet(Keep(q, P)) = {q[k] : k \in P}
    BY <1>4, <1>11, <1>12, <1>13 DEF ToSet
  <1>16. IsInjective(q) => IsInjective(Keep(q, P))
    <2>1. \A n \in 1..m : pos(n) \in DOMAIN q
      BY <1>11
    <2> QED
      BY <1>11, <1>13, <2>1 DEF IsInjective
  <1> QED
    BY <1>14, <1>15, <1>16

(* The members of a queue.                                                 *)
LEMMA ToSetProperties ==
  ASSUME NEW S, NEW q \in Seq(S)
  PROVE  /\ ToSet(q) \in SUBSET S
         /\ q = <<>> <=> ToSet(q) = {}
         /\ ToSet(<<>>) = {} /\ <<>> \in Seq(S) /\ IsInjective(<<>>)
         /\ \A x : x \in ToSet(q) <=> \E n \in 1..Len(q) : q[n] = x
  <1>1. DOMAIN q = 1..Len(q) /\ Len(q) \in Nat /\ \A n \in 1..Len(q) : q[n] \in S
    OBVIOUS
  <1>2. Len(q) = 0 <=> q = <<>>
    OBVIOUS
  <1>3. q # <<>> => q[1] \in ToSet(q)
    BY <1>1, <1>2 DEF ToSet
  <1>4. ToSet(<<>>) = {} /\ <<>> \in Seq(S) /\ IsInjective(<<>>)
    BY DEF ToSet, IsInjective
  <1> QED
    BY <1>1, <1>3, <1>4 DEF ToSet

(* What enqueue makes of a queue.                                          *)
LEMMA ConcatMembers ==
  ASSUME NEW S, NEW p \in Seq(S), NEW q \in Seq(S)
  PROVE  /\ p \o q \in Seq(S)
         /\ ToSet(p \o q) = ToSet(p) \cup ToSet(q)
         /\ IsInjective(p) /\ IsInjective(q) /\ ToSet(p) \cap ToSet(q) = {} => IsInjective(p \o q)
  <1>1. /\ p \o q \in Seq(S) /\ Len(p \o q) = Len(p) + Len(q)
        /\ Len(p) \in Nat /\ Len(q) \in Nat
        /\ \A i \in 1..(Len(p) + Len(q)) :
             (p \o q)[i] = IF i <= Len(p) THEN p[i] ELSE q[i - Len(p)]
    OBVIOUS
  <1>2. \A x : /\ x \in ToSet(p) <=> \E n \in 1..Len(p) : p[n] = x
               /\ x \in ToSet(q) <=> \E n \in 1..Len(q) : q[n] = x
               /\ x \in ToSet(p \o q) <=> \E n \in 1..(Len(p) + Len(q)) : (p \o q)[n] = x
    BY <1>1, ToSetProperties
  <1>3. ASSUME NEW x \in ToSet(p)
        PROVE  x \in ToSet(p \o q)
    <2>1. PICK n \in 1..Len(p) : p[n] = x
      BY <1>2
    <2>2. n \in 1..(Len(p) + Len(q)) /\ (p \o q)[n] = x
      BY <1>1, <2>1
    <2> QED
      BY <1>2, <2>2
  <1>4. ASSUME NEW x \in ToSet(q)
        PROVE  x \in ToSet(p \o q)
    <2>1. PICK n \in 1..Len(q) : q[n] = x
      BY <1>2
    <2>2. Len(p) + n \in 1..(Len(p) + Len(q)) /\ (p \o q)[Len(p) + n] = x
      BY <1>1, <2>1
    <2> QED
      BY <1>2, <2>2
  <1>5. ASSUME NEW x \in ToSet(p \o q)
        PROVE  x \in ToSet(p) \cup ToSet(q)
    <2>1. PICK n \in 1..(Len(p) + Len(q)) : (p \o q)[n] = x
      BY <1>2
    <2>2. IF n <= Len(p) THEN n \in 1..Len(p) /\ p[n] = x
                         ELSE n - Len(p) \in 1..Len(q) /\ q[n - Len(p)] = x
      BY <1>1, <2>1
    <2> QED
      BY <1>2, <2>2
  <1>6. ASSUME IsInjective(p), IsInjective(q), ToSet(p) \cap ToSet(q) = {}
        PROVE  IsInjective(p \o q)
    <2> SUFFICES ASSUME NEW i \in 1..(Len(p) + Len(q)), NEW j \in 1..(Len(p) + Len(q)),
                        (p \o q)[i] = (p \o q)[j]
                 PROVE  i = j
      BY <1>1 DEF IsInjective
    <2> DEFINE at(k) == IF k <= Len(p) THEN p[k] ELSE q[k - Len(p)]
    <2>1. at(i) = at(j)
      BY <1>1
    <2>2. \A k \in 1..(Len(p) + Len(q)) :
            IF k <= Len(p) THEN k \in DOMAIN p /\ p[k] \in ToSet(p)
                           ELSE k - Len(p) \in DOMAIN q /\ q[k - Len(p)] \in ToSet(q)
      BY <1>1 DEF ToSet
    <2>3. CASE i <= Len(p) /\ j <= Len(p)
      BY <1>6, <2>1, <2>2, <2>3 DEF IsInjective
    <2>4. CASE i > Len(p) /\ j > Len(p)
      <3>1. i - Len(p) = j - Len(p)
        BY <1>1, <1>6, <2>1, <2>2, <2>4 DEF IsInjective
      <3> QED
        BY <1>1, <3>1
    <2>5. CASE i <= Len(p) /\ j > Len(p)
      BY <1>1, <1>6, <2>1, <2>2, <2>5
    <2>6. CASE i > Len(p) /\ j <= Len(p)
      BY <1>1, <1>6, <2>1, <2>2, <2>6
    <2> QED
      BY <1>1, <2>3, <2>4, <2>5, <2>6
  <1> QED
    BY <1>1, <1>3, <1>4, <1>5, <1>6

(* What dequeue finds in a queue, and what it leaves.                      *)
LEMMA DequeueProperties ==
  ASSUME NEW q \in Seq(Sudogs)
  PROVE  /\ Found(q) <=> \E s \in ToSet(q) : Live(s)
         /\ Found(q) => Dequeued(q) \in ToSet(q) /\ Live(Dequeued(q))
         /\ AfterDequeue(q) \in Seq(Sudogs)
         /\ ToSet(AfterDequeue(q)) \in SUBSET ToSet(q)
         /\ \A s \in ToSet(q) : Live(s) => s = Dequeued(q) \/ s \in ToSet(AfterDequeue(q))
         /\ IsInjective(q) => IsInjective(AfterDequeue(q))
         /\ IsInjective(q) /\ Found(q) => Dequeued(q) \notin ToSet(AfterDequeue(q))
  <1> DEFINE I == {n \in 1..Len(q) : Live(q[n])}
             f == FirstLive(q)
             a == AfterDequeue(q)
  <1>1. Len(q) \in Nat /\ I \in SUBSET Nat /\ DOMAIN q = 1..Len(q)
    OBVIOUS
  <1>2. f = IF I # {} THEN Min(I) ELSE 0
    BY DEF FirstLive, SelectInSeq
  <1>3. I # {} => f \in I /\ \A n \in I : f <= n
    BY <1>1, <1>2, MinProperties
  <1>4. \A x : x \in ToSet(q) <=> \E n \in 1..Len(q) : q[n] = x
    BY ToSetProperties
  <1>5. CASE I = {}
    <2>1. ~Found(q) /\ a = <<>>
      BY <1>2, <1>5 DEF Found, AfterDequeue
    <2>2. \A s \in ToSet(q) : ~Live(s)
      BY <1>4, <1>5
    <2>3. a \in Seq(Sudogs) /\ ToSet(a) = {} /\ IsInjective(a)
      BY <2>1, ToSetProperties
    <2> QED
      BY <2>1, <2>2, <2>3
  <1>6. CASE I # {}
    <2> DEFINE l == Len(q)
    <2>1. f \in 1..l /\ Live(q[f]) /\ \A n \in I : f <= n
      BY <1>3, <1>6
    <2>2. Found(q) /\ Dequeued(q) = q[f] /\ a = SubSeq(q, f + 1, l)
      BY <1>1, <2>1 DEF Found, Dequeued, AfterDequeue
    <2>3. \A n \in (f + 1)..l : q[n] \in Sudogs
      BY <1>1, <2>1
    <2> HIDE DEF f, a
    <2>4. /\ a \in Seq(Sudogs)
          /\ Len(a) = IF f + 1 <= l THEN l - (f + 1) + 1 ELSE 0
          /\ \A n \in 1..(l - (f + 1) + 1) : a[n] = q[f + 1 + n - 1]
      BY <1>1, <2>1, <2>2, <2>3, SubSeqProperties
    <2>5. Len(a) = l - f /\ \A n \in 1..Len(a) : f + n \in 1..l /\ a[n] = q[f + n]
      <3>1. f \in Nat /\ l \in Nat /\ 1 <= f /\ f <= l
        BY <1>1, <2>1
      <3>2. Len(a) = l - f /\ l - (f + 1) + 1 = l - f
        BY <2>4, <3>1
      <3>3. ASSUME NEW n \in 1..(l - f)
            PROVE  f + n \in 1..l /\ a[n] = q[f + n]
        <4>1. n \in Nat /\ 1 <= n /\ n <= l - f /\ f + 1 + n - 1 = f + n
          BY <3>1, <3>3
        <4> QED
          BY <2>4, <3>1, <3>2, <4>1
      <3> QED
        BY <3>2, <3>3
    <2>6. \A x : x \in ToSet(a) <=> \E n \in 1..Len(a) : a[n] = x
      BY <2>4, ToSetProperties
    <2>7. \A s \in ToSet(a) : \E n \in (f + 1)..l : q[n] = s
      <3> SUFFICES ASSUME NEW s \in ToSet(a)
                   PROVE  \E n \in (f + 1)..l : q[n] = s
        OBVIOUS
      <3>1. PICK n \in 1..Len(a) : a[n] = s
        BY <2>6
      <3>2. f + n \in (f + 1)..l /\ q[f + n] = s
        BY <1>1, <2>1, <2>5, <3>1
      <3> QED
        BY <3>2
    <2>8. ASSUME NEW s \in ToSet(q), Live(s), s # q[f]
          PROVE  s \in ToSet(a)
      <3>1. PICK n \in 1..l : q[n] = s
        BY <1>4
      <3>2. n > f
        BY <1>1, <2>1, <2>8, <3>1
      <3>3. n - f \in 1..Len(a) /\ a[n - f] = q[f + (n - f)]
        BY <1>1, <2>1, <2>5, <3>2
      <3>4. a[n - f] = s
        BY <1>1, <2>1, <3>1, <3>3
      <3> QED
        BY <2>6, <3>3, <3>4
    <2>9. IsInjective(q) => IsInjective(a)
      <3> SUFFICES ASSUME IsInjective(q), NEW i \in 1..Len(a), NEW j \in 1..Len(a), a[i] = a[j]
                   PROVE  i = j
        BY <2>4 DEF IsInjective
      <3>1. f + i \in DOMAIN q /\ f + j \in DOMAIN q /\ q[f + i] = q[f + j]
        BY <1>1, <2>5
      <3>2. f + i = f + j
        BY <3>1 DEF IsInjective
      <3> QED
        BY <1>1, <2>1, <3>2
    <2>10. IsInjective(q) => q[f] \notin ToSet(a)
      BY <1>1, <2>1, <2>7 DEF IsInjective
    <2>11. ToSet(a) \in SUBSET ToSet(q) /\ q[f] \in ToSet(q)
      BY <1>1, <1>4, <2>1, <2>7
    <2> QED
      BY <2>1, <2>2, <2>4, <2>8, <2>9, <2>10, <2>11 DEF f, a
  <1> QED
    BY <1>5, <1>6

(* Nobody is found in an empty queue.                                      *)
LEMMA NothingFound == ~Found(<<>>)
  <1>1. <<>> \in Seq(Sudogs) /\ ToSet(<<>>) = {}
    BY DEF ToSet
  <1> QED
    BY <1>1, DequeueProperties

-----------------------------------------------------------------------------
(* What a call is.                                                         *)
LEMMA CallKinds ==
  ASSUME CallsAssumption, NEW o \in Calls
  PROVE  /\ o.block \in BOOLEAN /\ o.kind \in {"chan", "closechan", "selectgo"}
         /\ o.kind # "selectgo" => /\ DOMAIN o.cases = {1} /\ o.cases[1].c \in C \cup {0}
                                   /\ ToSet(o.cases) = {o.cases[1]} /\ o.cases \in Seq({o.cases[1]})
         /\ o.kind = "chan" => o.cases[1] \in Case
         /\ o.kind = "closechan" => o.cases[1] = [dir |-> "close", c |-> o.cases[1].c] /\ o.block
         /\ o.kind = "selectgo" => o.cases \in Seq(Case)
  <1>1. \A k : DOMAIN <<k>> = {1} /\ <<k>>[1] = k /\ ToSet(<<k>>) = {k} /\ <<k>> \in Seq({k})
    BY DEF ToSet
  <1>2. CASE o \in SendOrRecv
    <2>1. PICK k \in Case : o.cases = <<k>>
      BY <1>2 DEF SendOrRecv
    <2>2. o.kind = "chan" /\ o.block \in BOOLEAN
      BY <1>2 DEF SendOrRecv
    <2>3. k.c \in C \cup {0}
      BY DEF Case
    <2> QED
      BY <1>1, <2>1, <2>2, <2>3
  <1>3. CASE o \in Close
    <2>1. PICK c \in C \cup {0} : o.cases = <<[dir |-> "close", c |-> c]>>
      BY <1>3 DEF Close
    <2>2. o.kind = "closechan" /\ o.block /\ o.block \in BOOLEAN
      BY <1>3 DEF Close
    <2> DEFINE k == [dir |-> "close", c |-> c]
    <2>3. k.c = c
      OBVIOUS
    <2> HIDE DEF k
    <2>4. k.c \in C \cup {0} /\ k = [dir |-> "close", c |-> k.c] /\ o.cases = <<k>>
      BY <2>1, <2>3 DEF k
    <2> QED
      BY <1>1, <2>2, <2>4
  <1>4. CASE o \in Select
    BY <1>4 DEF Select
  <1> QED
    BY <1>2, <1>3, <1>4, CallsAssumption

(* What the call of g is.                                                  *)
LEMMA CallShape ==
  ASSUME CallsAssumption, NoneAssumption, TypeOK, NEW g \in G, call[g] # Idle
  PROVE  /\ call[g] \in Calls /\ call[g].block \in BOOLEAN
         /\ call[g].kind \in {"chan", "closechan", "selectgo"}
         /\ ~IsSelect(g) => /\ DOMAIN call[g].cases = {1} /\ The(g) \in C \cup {0}
                            /\ ToSet(call[g].cases) = {CaseOf(g, 1)}
                            /\ call[g].cases \in Seq({CaseOf(g, 1)})
         /\ call[g].kind = "chan" => CaseOf(g, 1) \in Case
         /\ call[g].kind = "closechan" =>
              CaseOf(g, 1) = [dir |-> "close", c |-> The(g)] /\ CaseOf(g, 1).dir = "close" /\ call[g].block
         /\ IsSelect(g) => call[g].cases \in Seq(Case)
  <1>1. call[g] \in Calls
    BY DEF TypeOK
  <1>2. ASSUME call[g].kind = "closechan"
        PROVE  CaseOf(g, 1) = [dir |-> "close", c |-> The(g)] /\ CaseOf(g, 1).dir = "close"
    <2>1. CaseOf(g, 1) = [dir |-> "close", c |-> The(g)]
      BY <1>1, <1>2, CallKinds DEF CaseOf, The
    <2> QED
      BY <2>1
  <1> QED
    BY <1>1, <1>2, CallKinds DEF IsSelect, CaseOf, The

USE SizeAssumption, CallsAssumption, NoneAssumption

(* What is known of a sudog in a queue.                                    *)
LEMMA QueuedFacts ==
  ASSUME WaitersInv, NEW c \in C, NEW d \in {"send", "recv"}, NEW s \in ToSet(Queue(c, d))
  PROVE  /\ s.g \in G /\ s.i \in Nat \ {0} /\ s = Sudog(s.g, s.i)
         /\ Waits(s, d, c) /\ call[s.g] # Idle /\ c \in ChansOf(s.g)
         /\ Live(s) <=> pc[s.g] = "parked"
         /\ ~IsSelect(s.g) => s.i = 1 /\ The(s.g) = c /\ CaseOf(s.g, 1).dir = d /\ pc[s.g] = "parked"
  <1>1. Queue(c, d) \in Seq(Sudogs)
    BY DEF WaitersInv, TypeOK, Hchan, Queue
  <1>2. s \in Sudogs
    BY <1>1, ToSetProperties
  <1>3. s.g \in G /\ s.i \in Nat \ {0} /\ s = Sudog(s.g, s.i)
    BY <1>2 DEF Sudogs, Sudog
  <1>4. Waits(s, d, c)
    BY DEF WaitersInv, WaitQueues, SudogsOfWaiters
  <1>5. CallFits(s.g) /\ WakeUpFits(s.g)
    BY <1>3 DEF WaitersInv, WaitQueues
  <1>6. call[s.g] # Idle
    BY <1>4, <1>5 DEF Waits, CallFits
  <1>7. CaseOf(s.g, s.i).c = c /\ CaseOf(s.g, s.i).dir = d /\ s.i \in DOMAIN call[s.g].cases
    BY <1>4 DEF Waits
  <1>8. c \in ChansOf(s.g)
    BY <1>7 DEF ChansOf
  <1>9. Live(s) <=> pc[s.g] = "parked"
    BY <1>4, <1>5 DEF Waits, CallFits, WakeUpFits, Live, InSelect
  <1>10. ~IsSelect(s.g) => s.i = 1
    BY <1>3, <1>6, <1>7, CallShape DEF WaitersInv
  <1> QED
    BY <1>3, <1>4, <1>5, <1>6, <1>7, <1>8, <1>9, <1>10 DEF The, CallFits, InSelect, Waits

-----------------------------------------------------------------------------
(* A closed channel stays closed, and nothing is put into it.              *)
Closes ==
  \A c \in C : /\ ch[c].closed => ch'[c].closed
               /\ ch'[c].closed => ch'[c].qcount \in 0..ch[c].qcount

(* The goroutine g moves, and it makes those in W ready: they slept on a   *)
(* channel, which is closed if they are not handed a case.                 *)
StepOf(g, to, W) ==
  /\ W \in SUBSET (G \ {g})
  /\ pc' \in [G -> PC] /\ pc'[g] = to
  /\ \A x \in W :
       /\ pc[x] = "parked"
       /\ \E i \in DOMAIN call[x].cases :
            CaseOf(x, i).c \in C /\ (param'[x] = 0 => ch'[CaseOf(x, i).c].closed)
  /\ \A x \in G \ {g} :
       /\ pc'[x] = IF x \in W THEN Resume(x) ELSE pc[x]
       /\ call'[x] = call[x]
       /\ selectDone'[x] <=> selectDone[x] \/ (x \in W /\ IsSelect(x))
       /\ x \notin W => param'[x] = param[x]
  /\ \A c \in C :
       \/ lock'[c] = lock[c]
       \/ lock[c] = g /\ lock'[c] = None
       \/ lock[c] = None /\ lock'[c] = g
  /\ Closes

(* The parts of the invariant that are about another goroutine than g.     *)
Fits(x) == CallFits(x) /\ LocksFit(x) /\ WakeUpFits(x) /\ SeenFits(x)

(* A goroutine that does not move has a call and cases as before.          *)
LEMMA SameCall ==
  ASSUME NEW x \in G, call'[x] = call[x]
  PROVE  /\ IsSelect(x)' <=> IsSelect(x)
         /\ The(x)' = The(x) /\ ChansOf(x)' = ChansOf(x)
         /\ DOMAIN call'[x].cases = DOMAIN call[x].cases
         /\ \A i : CaseOf(x, i)' = CaseOf(x, i)
  BY DEF IsSelect, The, ChansOf, CaseOf

(* The goroutines that do not move still fit: those that are made ready    *)
(* find what they expect, and what the others have read still stands.      *)
LEMMA OthersFit ==
  ASSUME WaitersInv, NEW g \in G, NEW to \in PC, NEW W, StepOf(g, to, W), Observe,
         NEW x \in G \ {g}
  PROVE  Fits(x)'
  <1>1. /\ call'[x] = call[x]
        /\ pc'[x] = IF x \in W THEN Resume(x) ELSE pc[x]
        /\ selectDone'[x] <=> selectDone[x] \/ (x \in W /\ IsSelect(x))
        /\ x \notin W => param'[x] = param[x]
    BY DEF StepOf
  <1>2. \A c \in C : lock'[c] = x <=> lock[c] = x
    BY DEF StepOf
  <1>3. \A c \in C : ch[c].closed => ch'[c].closed
    BY DEF StepOf, Closes
  <1>4. CallFits(x) /\ LocksFit(x) /\ WakeUpFits(x) /\ SeenFits(x)
    BY DEF WaitersInv, WaitQueues
  <1>5. /\ IsSelect(x)' <=> IsSelect(x)
        /\ The(x)' = The(x) /\ ChansOf(x)' = ChansOf(x)
        /\ DOMAIN call'[x].cases = DOMAIN call[x].cases
        /\ \A i : CaseOf(x, i)' = CaseOf(x, i)
    BY <1>1, SameCall
  <1>6. ChansOf(x) \subseteq C
    BY DEF ChansOf
  <1>7. CASE x \in W
    <2>1. pc[x] = "parked" /\ pc'[x] = Resume(x) /\ call[x] # Idle
      BY <1>1, <1>4, <1>7 DEF StepOf, CallFits
    <2>2. PICK i \in DOMAIN call[x].cases :
            CaseOf(x, i).c \in C /\ (param'[x] = 0 => ch'[CaseOf(x, i).c].closed)
      BY <1>7 DEF StepOf
    <2>3. CaseOf(x, i).c \in ChansOf(x)
      BY <2>2 DEF ChansOf
    <2>4. ~IsSelect(x) => The(x) = CaseOf(x, i).c
      BY <2>1, <2>2, CallShape DEF The, WaitersInv
    <2>5. pc'[x] = IF IsSelect(x) THEN "relock" ELSE "woken"
      BY <2>1 DEF Resume
    <2>6. \A c \in C : lock[c] # x
      BY <1>4, <2>1 DEF LocksFit, InSelect
    <2>7. ~selectDone[x]
      BY <1>4, <2>1 DEF WakeUpFits
    <2>8. CallFits(x)'
      BY <1>1, <1>5, <2>1, <2>2, <2>4, <2>5 DEF CallFits, InSelect, FastPath, SendPath, RecvPath
    <2>9. LocksFit(x)'
      BY <1>2, <1>5, <1>6, <2>5, <2>6 DEF LocksFit, InSelect
    <2>10. WakeUpFits(x)'
      BY <1>1, <1>5, <1>7, <2>2, <2>3, <2>4, <2>5, <2>7 DEF WakeUpFits
    <2>11. SeenFits(x)'
      BY <2>5 DEF SeenFits, FastPath, SendPath, RecvPath
    <2> QED
      BY <2>8, <2>9, <2>10, <2>11 DEF Fits
  <1>8. CASE x \notin W
    <2>1. pc'[x] = pc[x] /\ param'[x] = param[x] /\ (selectDone'[x] <=> selectDone[x])
      BY <1>1, <1>8
    <2>2. CallFits(x)'
      BY <1>1, <1>4, <1>5, <2>1 DEF CallFits
    <2>3. LocksFit(x)'
      <3>1. AllLocked(x)' <=> AllLocked(x)
        BY <1>2, <1>5, <1>6 DEF AllLocked
      <3>2. pc[x] = "release" => The(x) \in C
        BY <1>4 DEF CallFits
      <3>3. \A c \in C : lock'[c] = x => \/ pc'[x] = "release" /\ The(x)' = c
                                         \/ pc'[x] \in InSelect /\ c \in ChansOf(x)'
        BY <1>2, <1>4, <1>5, <2>1 DEF LocksFit
      <3>4. pc'[x] = "release" => lock'[The(x)'] = x
        BY <1>2, <1>4, <1>5, <2>1, <3>2 DEF LocksFit
      <3>5. pc'[x] \in {"sellock", "relock"} =>
              \A c, e \in ChansOf(x)' : lock'[c] = x /\ lock'[e] # x => c < e
        BY <1>2, <1>4, <1>5, <1>6, <2>1 DEF LocksFit
      <3> QED
        BY <1>4, <1>5, <2>1, <3>1, <3>3, <3>4, <3>5 DEF LocksFit
    <2>4. WakeUpFits(x)'
      <3>1. pc[x] \in {"release", "woken"} => The(x) \in C
        BY <1>4 DEF CallFits
      <3> QED
        BY <1>3, <1>4, <1>5, <1>6, <2>1, <3>1 DEF WakeUpFits
    <2>5. SeenFits(x)'
      <3> SUFFICES ASSUME pc'[x] \in FastPath
                   PROVE  /\ OpenNotReady(x)' => seen'[x]
                          /\ pc'[x] \in {"recvClosed", "sendClosedSecond"} => seen'[x] \/ ch'[The(x)'].closed
                          /\ pc'[x] = "sendFull" /\ Size[The(x)'] > 0 /\ ch'[The(x)'].closed =>
                               seen'[x] \/ ch'[The(x)'].qcount < Size[The(x)']
        BY DEF SeenFits
      <3> DEFINE c == The(x)
      <3>1. c \in C /\ CaseOf(x, 1).c = c /\ ~IsSelect(x)
        BY <1>4, <2>1 DEF CallFits, The
      <3>2. (OpenNotReady(x)' => seen'[x]) /\ (seen[x] => seen'[x])
        BY DEF Observe
      <3>3. /\ OpenNotReady(x) => seen[x]
            /\ pc[x] \in {"recvClosed", "sendClosedSecond"} => seen[x] \/ ch[c].closed
            /\ pc[x] = "sendFull" /\ Size[c] > 0 /\ ch[c].closed => seen[x] \/ ch[c].qcount < Size[c]
        BY <1>4, <2>1 DEF SeenFits
      <3>4. /\ ch[c].qcount \in 0..Size[c] /\ Size[c] \in Nat
            /\ ch'[c].closed => ch'[c].qcount \in 0..ch[c].qcount
        BY <3>1 DEF StepOf, Closes, WaitersInv, TypeOK, Hchan
      <3>5. ASSUME pc[x] = "sendFull", Size[c] > 0, ~ch[c].closed, ch[c].qcount = Size[c]
            PROVE  seen[x]
        <4>1. ch[c].recvq = <<>>
          BY <3>1, <3>4, <3>5 DEF WaitersInv, WaitQueues, QueueInvariants
        <4>2. ~Found(ch[c].recvq)
          BY <4>1, NothingFound
        <4>3. CaseOf(x, 1).dir = "send"
          BY <1>4, <3>5 DEF CallFits, SendPath
        <4>4. OpenNotReady(x)
          BY <3>1, <3>4, <3>5, <4>2, <4>3 DEF OpenNotReady, Ready
        <4> QED
          BY <3>3, <4>4
      <3>6. pc'[x] = "sendFull" /\ Size[c] > 0 /\ ch'[c].closed => seen'[x] \/ ch'[c].qcount < Size[c]
        <4>1. CASE ch[c].closed
          <5>2. ch[c].qcount < Size[c] /\ ch'[c].closed => ch'[c].qcount < Size[c]
            BY <3>1, <3>4
          <5> QED
            BY <2>1, <3>2, <3>3, <4>1, <5>2
        <4>2. CASE ~ch[c].closed
          <5>1. ch[c].qcount = Size[c] \/ ch[c].qcount < Size[c]
            BY <3>4
          <5>2. ch[c].qcount < Size[c] /\ ch'[c].closed => ch'[c].qcount < Size[c]
            BY <3>1, <3>4
          <5> QED
            BY <2>1, <3>2, <3>5, <4>2, <5>1, <5>2
        <4> QED
          BY <4>1, <4>2
      <3> QED
        BY <1>3, <1>5, <2>1, <3>1, <3>2, <3>3, <3>6
    <2> QED
      BY <2>2, <2>3, <2>4, <2>5 DEF Fits
  <1> QED
    BY <1>7, <1>8

-----------------------------------------------------------------------------
(* The queues lose sudogs only: stale ones, and those of the goroutines in *)
(* W, which must be gone unless they belong to a select.                   *)
Shrinks(W) ==
  \A c \in C : \A d \in {"send", "recv"} :
    /\ IsInjective(Queue(c, d)')
    /\ ToSet(Queue(c, d)') \in SUBSET ToSet(Queue(c, d))
    /\ \A s \in ToSet(Queue(c, d)) : s \in ToSet(Queue(c, d)') \/ ~Live(s) \/ s.g \in W
    /\ \A s \in ToSet(Queue(c, d)') : s.g \in W => IsSelect(s.g)

(* While the queues only shrink, they are queues of waiters, and those who *)
(* sleep stay in them.                                                     *)
LEMMA SudogsStep ==
  ASSUME WaitersInv, NEW g \in G, NEW to, NEW W, StepOf(g, to, W), Shrinks(W),
         to = "parked" => \A i \in DOMAIN call'[g].cases : CaseOf(g, i)'.c \notin C,
         \A c \in C, d \in {"send", "recv"} : \A s \in ToSet(Queue(c, d)') :
           s.g # g \/ (to = "relock" /\ call'[g] = call[g])
  PROVE  SudogsOfWaiters'
  <1> SUFFICES ASSUME NEW c \in C, NEW d \in {"send", "recv"}
               PROVE  /\ IsInjective(Queue(c, d)')
                      /\ \A s \in ToSet(Queue(c, d)') : Waits(s, d, c)'
                      /\ \A x \in G : pc'[x] = "parked" =>
                           \A i \in DOMAIN call'[x].cases :
                             CaseOf(x, i)' = [dir |-> d, c |-> c] => Sudog(x, i) \in ToSet(Queue(c, d)')
    BY Zenon DEF SudogsOfWaiters, Sudog
  <1>1. ASSUME NEW s \in ToSet(Queue(c, d)')
        PROVE  Waits(s, d, c)'
    <2>1. s \in ToSet(Queue(c, d)) /\ (s.g \in W => IsSelect(s.g))
      BY DEF Shrinks
    <2>2. Waits(s, d, c) /\ s.g \in G
      BY <2>1, QueuedFacts
    <2>3. call'[s.g] = call[s.g]
      BY <2>2 DEF StepOf
    <2>4. pc'[s.g] \in {"parked", "relock"}
      BY <2>1, <2>2 DEF StepOf, Resume, Waits
    <2> QED
      BY <2>2, <2>3, <2>4 DEF Waits, CaseOf
  <1>2. ASSUME NEW x \in G, pc'[x] = "parked", NEW i \in DOMAIN call'[x].cases,
               CaseOf(x, i)' = [dir |-> d, c |-> c]
        PROVE  Sudog(x, i) \in ToSet(Queue(c, d)')
    <2>1. x # g
      <3>1. CaseOf(x, i)'.c = c
        BY <1>2
      <3> QED
        BY <1>2, <3>1 DEF StepOf
    <2>2. x \notin W /\ pc[x] = "parked" /\ call'[x] = call[x]
      BY <1>2, <2>1 DEF StepOf, Resume
    <2>3. Sudog(x, i) \in ToSet(Queue(c, d))
      BY <1>2, <2>2 DEF WaitersInv, WaitQueues, SudogsOfWaiters, CaseOf
    <2>4. Sudog(x, i).g = x
      BY DEF Sudog
    <2>5. Live(Sudog(x, i))
      BY <2>2, <2>3, <2>4, QueuedFacts
    <2> QED
      BY <2>2, <2>3, <2>4, <2>5 DEF Shrinks
  <1> QED
    BY <1>1, <1>2 DEF Shrinks

(* Empty queues stay empty.                                                *)
LEMMA EmptyStays ==
  ASSUME WaitersInv, TypeOK', NEW W, Shrinks(W), NEW c \in C
  PROVE  /\ ch[c].recvq = <<>> => ch'[c].recvq = <<>>
         /\ ch[c].sendq = <<>> => ch'[c].sendq = <<>>
         /\ ToSet(ch'[c].recvq) \in SUBSET ToSet(ch[c].recvq)
         /\ ToSet(ch'[c].sendq) \in SUBSET ToSet(ch[c].sendq)
  <1>1. /\ ch[c].recvq \in Seq(Sudogs) /\ ch'[c].recvq \in Seq(Sudogs)
        /\ ch[c].sendq \in Seq(Sudogs) /\ ch'[c].sendq \in Seq(Sudogs)
    BY DEF WaitersInv, TypeOK, Hchan
  <1>2. /\ ToSet(ch'[c].recvq) \in SUBSET ToSet(ch[c].recvq)
        /\ ToSet(ch'[c].sendq) \in SUBSET ToSet(ch[c].sendq)
    BY DEF Shrinks, Queue
  <1> QED
    BY <1>1, <1>2, ToSetProperties

(* While the queues only shrink, the invariants at the head of chan.go     *)
(* hold, if the buffer stays as it is or the queues suit it.               *)
LEMMA QueuesStep ==
  ASSUME WaitersInv, TypeOK', NEW W, Shrinks(W),
         \A c \in C : \/ ch'[c].qcount = ch[c].qcount
                      \/ /\ Size[c] > 0 /\ ch'[c].qcount > 0 => ch'[c].recvq = <<>>
                         /\ ch'[c].qcount < Size[c] => ch'[c].sendq = <<>>
  PROVE  QueueInvariants'
  <1> SUFFICES ASSUME NEW c \in C
               PROVE  /\ ch'[c].sendq # <<>> /\ ch'[c].recvq # <<>> =>
                           /\ Size[c] = 0
                           /\ \E g \in G : \A s \in ToSet(ch'[c].recvq) \cup ToSet(ch'[c].sendq) : s.g = g
                      /\ Size[c] > 0 /\ ch'[c].qcount > 0 => ch'[c].recvq = <<>>
                      /\ ch'[c].qcount < Size[c] => ch'[c].sendq = <<>>
    BY DEF QueueInvariants
  <1>1. /\ ch[c].sendq # <<>> /\ ch[c].recvq # <<>> =>
             Size[c] = 0 /\ \E g \in G : \A s \in ToSet(ch[c].recvq) \cup ToSet(ch[c].sendq) : s.g = g
        /\ Size[c] > 0 /\ ch[c].qcount > 0 => ch[c].recvq = <<>>
        /\ ch[c].qcount < Size[c] => ch[c].sendq = <<>>
    BY DEF WaitersInv, WaitQueues, QueueInvariants
  <1>2. /\ ch[c].recvq = <<>> => ch'[c].recvq = <<>>
        /\ ch[c].sendq = <<>> => ch'[c].sendq = <<>>
        /\ ToSet(ch'[c].recvq) \in SUBSET ToSet(ch[c].recvq)
        /\ ToSet(ch'[c].sendq) \in SUBSET ToSet(ch[c].sendq)
    BY EmptyStays
  <1> QED
    BY <1>1, <1>2

(* While the queues only shrink, a closed channel has no waiters outside   *)
(* of the critical section of its close.                                   *)
LEMMA CloseStep ==
  ASSUME WaitersInv, TypeOK', NEW g \in G, NEW to, NEW W, StepOf(g, to, W), Shrinks(W),
         \A c \in C : ch'[c].closed => \/ ch'[c].recvq = <<>> /\ ch'[c].sendq = <<>>
                                       \/ ch[c].closed /\ ~(pc[g] = "release" /\ The(g) = c)
                                       \/ lock'[c] = g /\ to = "release"
  PROVE  CloseReleases'
  <1> SUFFICES ASSUME NEW c \in C, ch'[c].closed, ch[c].closed, ~(pc[g] = "release" /\ The(g) = c)
               PROVE  \/ ch'[c].recvq = <<>> /\ ch'[c].sendq = <<>>
                      \/ lock'[c] \in G /\ pc'[lock'[c]] = "release"
    BY DEF CloseReleases, StepOf
  <1>1. \/ ch[c].recvq = <<>> /\ ch[c].sendq = <<>>
        \/ lock[c] \in G /\ pc[lock[c]] = "release"
    BY DEF WaitersInv, WaitQueues, CloseReleases
  <1>2. CASE ch[c].recvq = <<>> /\ ch[c].sendq = <<>>
    BY <1>2, EmptyStays
  <1>3. CASE lock[c] \in G /\ pc[lock[c]] = "release"
    <2>1. lock[c] # g /\ lock[c] \notin W /\ lock[c] # None
      BY <1>3 DEF StepOf, WaitersInv, LocksFit, InSelect
    <2>2. lock'[c] = lock[c]
      BY <2>1 DEF StepOf
    <2> QED
      BY <1>3, <2>1, <2>2 DEF StepOf
  <1> QED
    BY <1>1, <1>2, <1>3

(* The invariant after a step of g in which the queues only shrink.        *)
LEMMA ShrinkingStep ==
  ASSUME WaitersInv, TypeOK', NEW g \in G, NEW to \in PC, NEW W, StepOf(g, to, W), Observe, Shrinks(W),
         Fits(g)',
         to = "parked" => \A i \in DOMAIN call'[g].cases : CaseOf(g, i)'.c \notin C,
         \A c \in C, d \in {"send", "recv"} : \A s \in ToSet(Queue(c, d)') :
           s.g # g \/ (to = "relock" /\ call'[g] = call[g]),
         \A c \in C :
           /\ \/ ch'[c].qcount = ch[c].qcount
              \/ /\ Size[c] > 0 /\ ch'[c].qcount > 0 => ch'[c].recvq = <<>>
                 /\ ch'[c].qcount < Size[c] => ch'[c].sendq = <<>>
           /\ ch'[c].closed => \/ ch'[c].recvq = <<>> /\ ch'[c].sendq = <<>>
                               \/ ch[c].closed /\ ~(pc[g] = "release" /\ The(g) = c)
                               \/ lock'[c] = g /\ to = "release"
  PROVE  WaitersInv'
  <1>1. SudogsOfWaiters'
    BY SudogsStep
  <1>2. QueueInvariants'
    BY QueuesStep
  <1>3. CloseReleases'
    BY CloseStep
  <1>4. \A x \in G : Fits(x)'
    BY OthersFit
  <1> QED
    BY <1>1, <1>2, <1>3, <1>4 DEF WaitersInv, WaitQueues, Fits

-----------------------------------------------------------------------------
(* The two halves of the type invariant.                                   *)
HchansOK == DOMAIN ch = C /\ \A c \in C : ch[c] \in Hchan(c)

OthersOK ==
  /\ lock \in [C -> G \cup {None}]
  /\ pc \in [G -> PC]
  /\ call \in [G -> Calls \cup {Idle}]
  /\ selectDone \in [G -> BOOLEAN]
  /\ param \in [G -> Nat]
  /\ elem \in [G -> G \cup {None}]
  /\ result \in [G -> Results]
  /\ seen \in [G -> BOOLEAN]

(* They are the type invariant.                                            *)
LEMMA TypeHalves ==
  /\ TypeOK <=> HchansOK /\ OthersOK
  /\ TypeOK' <=> HchansOK' /\ OthersOK'
  BY DEF TypeOK, HchansOK, OthersOK

(* The history variable is a truth value.                                  *)
LEMMA SeenType ==
  ASSUME Observe
  PROVE  seen' \in [G -> BOOLEAN]
  BY DEF Observe

(* After the unlock g has no lock, and no other lock has changed.          *)
LEMMA UnlockAll ==
  ASSUME OthersOK, NEW g \in G, Unlock(g)
  PROVE  /\ lock' \in [C -> G \cup {None}]
         /\ \A c \in C : lock'[c] # g /\ (lock'[c] = lock[c] \/ (lock[c] = g /\ lock'[c] = None))
  BY DEF OthersOK, Unlock

(* g returns, and has neither a lock nor a sudog left.                     *)
LEMMA RetFits ==
  ASSUME WaitersInv, NEW g \in G, pc[g] \notin {"idle", "relock"},
         pc'[g] = "ret", call'[g] = call[g], selectDone'[g] <=> selectDone[g],
         \A c \in C : lock'[c] # g
  PROVE  Fits(g)'
  <1>1. CallFits(g) /\ WakeUpFits(g)
    BY DEF WaitersInv, WaitQueues
  <1> QED
    BY <1>1 DEF Fits, CallFits, LocksFit, WakeUpFits, SeenFits, InSelect, FastPath, SendPath, RecvPath

(* A call that ends by itself.                                             *)
LEMMA EndStep ==
  ASSUME WaitersInv, NEW g \in G, NEW r \in Results, End(g, r), Observe, Closes,
         pc[g] \notin {"idle", "relock"}
  PROVE  OthersOK' /\ StepOf(g, "ret", {}) /\ Fits(g)'
  <1>1. OthersOK
    BY TypeHalves DEF WaitersInv
  <1>2. OthersOK'
    BY <1>1, UnlockAll, SeenType DEF OthersOK, End, gvars, PC
  <1>3. StepOf(g, "ret", {})
    BY <1>1, <1>2, UnlockAll DEF OthersOK, StepOf, End, gvars
  <1>4. Fits(g)'
    BY <1>1, <1>3, UnlockAll, RetFits DEF StepOf, End, gvars
  <1> QED
    BY <1>2, <1>3, <1>4

(* A step in which no channel changes.                                     *)
LEMMA QuietStep ==
  ASSUME WaitersInv, NEW g \in G, NEW to \in PC, StepOf(g, to, {}), Observe, ch' = ch,
         OthersOK', Fits(g)', pc[g] \notin {"parked", "release"},
         pc[g] = "relock" => to = "relock" /\ call'[g] = call[g],
         to = "parked" => \A i \in DOMAIN call'[g].cases : CaseOf(g, i)'.c \notin C
  PROVE  WaitersInv'
  <1>1. HchansOK /\ HchansOK'
    BY TypeHalves DEF WaitersInv, HchansOK
  <1>2. TypeOK'
    BY <1>1, TypeHalves
  <1>3. \A c, d : Queue(c, d)' = Queue(c, d)
    BY DEF Queue
  <1>4. Shrinks({})
    BY <1>3 DEF Shrinks, WaitersInv, WaitQueues, SudogsOfWaiters
  <1>5. ASSUME NEW c \in C, NEW d \in {"send", "recv"}, NEW s \in ToSet(Queue(c, d)')
        PROVE  s.g # g \/ (to = "relock" /\ call'[g] = call[g])
    <2>1. Waits(s, d, c)
      BY <1>3, QueuedFacts
    <2> QED
      BY <2>1 DEF Waits
  <1> QED
    BY <1>2, <1>4, <1>5, ShrinkingStep

(* What dequeue finds depends on the calls and on selectDone only.         *)
LEMMA FoundSame ==
  ASSUME call' = call, selectDone' = selectDone, NEW q
  PROVE  Found(q)' <=> Found(q)
  <1>1. \A s : Live(s)' <=> Live(s)
    BY DEF Live, IsSelect
  <1>2. FirstLive(q)' = FirstLive(q)
    BY <1>1 DEF FirstLive, SelectInSeq
  <1> QED
    BY <1>2 DEF Found

(* No channel is opened while none changes.                                *)
LEMMA SameClosed ==
  ASSUME WaitersInv, ch' = ch
  PROVE  Closes
  BY DEF Closes, WaitersInv, TypeOK, Hchan

(* g goes on in its call.                                                  *)
LEMMA GoOnStep ==
  ASSUME WaitersInv, NEW g \in G, NEW to \in PC, GoOn(g, to), Observe
  PROVE  OthersOK' /\ StepOf(g, to, {}) /\ OthersOK /\ Closes /\ ch' = ch
  <1>1. OthersOK
    BY TypeHalves DEF WaitersInv
  <1>2. OthersOK'
    BY <1>1, SeenType DEF OthersOK, GoOn, gvars
  <1>3. Closes
    BY SameClosed DEF GoOn
  <1> QED
    BY <1>1, <1>2, <1>3 DEF OthersOK, StepOf, GoOn, gvars

(* A load of a fast path that leads to the place "to".                     *)
LEMMA FastLoad ==
  ASSUME WaitersInv, NEW g \in G, NEW to \in FastPath \cup {"lock"}, GoOn(g, to), Observe,
         pc[g] \in FastPath,
         to \in SendPath => pc[g] \in SendPath,
         to \in RecvPath => pc[g] \in RecvPath,
         to \in {"recvClosed", "sendClosedSecond"} => ch[The(g)].closed \/ OpenNotReady(g),
         to = "sendFull" => ~ch[The(g)].closed
  PROVE  WaitersInv'
  <1>1. to \in PC /\ to \notin InSelect \cup {"idle", "nil", "release", "parked", "woken", "ret"}
    BY DEF PC, InSelect, FastPath, SendPath, RecvPath
  <1>2. OthersOK' /\ StepOf(g, to, {}) /\ OthersOK /\ ch' = ch
    BY <1>1, GoOnStep
  <1>3. pc[g] \notin InSelect \cup {"idle", "nil", "release", "parked", "woken", "ret", "relock"}
    BY DEF InSelect, FastPath, SendPath, RecvPath
  <1>4. CallFits(g) /\ LocksFit(g) /\ WakeUpFits(g) /\ SeenFits(g)
    BY DEF WaitersInv, WaitQueues
  <1>5. /\ pc'[g] = to /\ call' = call /\ lock' = lock /\ selectDone' = selectDone
    BY <1>2 DEF GoOn, gvars, StepOf
  <1>6. /\ IsSelect(g)' <=> IsSelect(g)
        /\ The(g)' = The(g) /\ \A i : CaseOf(g, i)' = CaseOf(g, i)
    BY <1>5, SameCall
  <1>7. CallFits(g)'
    BY <1>1, <1>3, <1>4, <1>5, <1>6 DEF CallFits
  <1>8. LocksFit(g)'
    BY <1>1, <1>3, <1>4, <1>5 DEF LocksFit, InSelect
  <1>9. WakeUpFits(g)'
    BY <1>1, <1>3, <1>4, <1>5 DEF WakeUpFits, InSelect
  <1>10. OpenNotReady(g)' <=> OpenNotReady(g)
    <2>1. \A q : Found(q)' <=> Found(q)
      BY <1>5, FoundSame
    <2> QED
      BY <1>2, <1>5, <1>6, <2>1 DEF OpenNotReady, Ready
  <1>11. SeenFits(g)'
    <2>1. seen'[g] <=> to \in FastPath /\ (seen[g] \/ OpenNotReady(g))
      BY <1>5, <1>10 DEF Observe
    <2> QED
      BY <1>2, <1>5, <1>6, <1>10, <2>1 DEF SeenFits
  <1> QED
    BY <1>1, <1>2, <1>3, <1>7, <1>8, <1>9, <1>11, QuietStep DEF Fits, InSelect

(* The fast path gives up, or a call on nil ends.                          *)
LEMMA EndQuietly ==
  ASSUME WaitersInv, NEW g \in G, NEW r \in Results, End(g, r), ch' = ch, Observe,
         pc[g] \notin {"idle", "relock", "parked", "release"}
  PROVE  WaitersInv'
  <1>1. OthersOK' /\ StepOf(g, "ret", {}) /\ Fits(g)'
    BY EndStep, SameClosed
  <1> QED
    BY <1>1, QuietStep DEF PC

(* An open channel that full finds full is not ready for a send.           *)
LEMMA FullNotReady ==
  ASSUME WaitersInv, NEW g \in G, CaseOf(g, 1).dir = "send", The(g) \in C,
         full(The(g)), ~ch[The(g)].closed
  PROVE  OpenNotReady(g)
  <1> DEFINE c == The(g)
  <1>1. /\ c \in C /\ c = CaseOf(g, 1).c /\ ch[c].qcount \in 0..Size[c] /\ Size[c] \in Nat
    BY DEF WaitersInv, TypeOK, Hchan, The
  <1>2. Size[c] > 0 /\ ch[c].qcount > 0 => ch[c].recvq = <<>>
    BY <1>1 DEF WaitersInv, WaitQueues, QueueInvariants
  <1>3. ch[c].recvq = <<>> /\ ch[c].qcount = Size[c]
    BY <1>1, <1>2 DEF full
  <1>4. ~Found(ch[c].recvq)
    BY <1>3, NothingFound
  <1> QED
    BY <1>1, <1>3, <1>4 DEF OpenNotReady, Ready

(* An open channel that empty finds empty is not ready for a receive.      *)
LEMMA EmptyNotReady ==
  ASSUME WaitersInv, NEW g \in G, CaseOf(g, 1).dir = "recv", The(g) \in C,
         empty(The(g)), ~ch[The(g)].closed
  PROVE  OpenNotReady(g)
  <1> DEFINE c == The(g)
  <1>1. /\ c \in C /\ c = CaseOf(g, 1).c /\ ch[c].qcount \in 0..Size[c] /\ Size[c] \in Nat
    BY DEF WaitersInv, TypeOK, Hchan, The
  <1>2. ch[c].qcount < Size[c] => ch[c].sendq = <<>>
    BY <1>1 DEF WaitersInv, WaitQueues, QueueInvariants
  <1>3. ch[c].sendq = <<>> /\ ch[c].qcount = 0
    BY <1>1, <1>2 DEF empty
  <1>4. ~Found(ch[c].sendq)
    BY <1>3, NothingFound
  <1> QED
    BY <1>1, <1>3, <1>4 DEF OpenNotReady, Ready

(* The steps of the fast paths.                                            *)
FastStep(g) ==
  \/ SendLoadClosed(g) \/ SendLoadFull(g) \/ SendLoadFullFirst(g) \/ SendLoadClosedSecond(g)
  \/ RecvLoadEmpty(g) \/ RecvLoadClosed(g) \/ RecvLoadEmptyAgain(g)

(* The fast paths change no channel, and what they have read goes with     *)
(* seen.                                                                   *)
LEMMA FastStepKeepsInv ==
  ASSUME WaitersInv, NEW g \in G, FastStep(g), Observe
  PROVE  WaitersInv'
  <1> USE DEF FastPath, SendPath, RecvPath
  <1>1. pc[g] \in FastPath
    BY DEF FastStep, SendLoadClosed, SendLoadFull, SendLoadFullFirst, SendLoadClosedSecond,
           RecvLoadEmpty, RecvLoadClosed, RecvLoadEmptyAgain
  <1>2. CallFits(g)
    BY DEF WaitersInv
  <1>3. /\ The(g) \in C
        /\ pc[g] \in SendPath => CaseOf(g, 1).dir = "send"
        /\ pc[g] \in RecvPath => CaseOf(g, 1).dir = "recv"
    BY <1>1, <1>2 DEF CallFits
  <1>4. Result("default", 0, None) \in Results /\ Result("closed", 1, None) \in Results
    BY DEF Result, Results
  <1>5. CASE SendLoadClosed(g)
    BY <1>5, FastLoad DEF SendLoadClosed
  <1>6. CASE SendLoadFull(g)
    <2>1. CASE GiveUp(g)
      BY <1>1, <1>4, <2>1, EndQuietly DEF GiveUp
    <2>2. CASE GoOn(g, "lock")
      BY <1>1, <2>2, FastLoad
    <2> QED
      BY <1>6, <2>1, <2>2 DEF SendLoadFull
  <1>7. CASE SendLoadFullFirst(g)
    <2>1. pc[g] = "sendFullFirst"
      BY <1>7 DEF SendLoadFullFirst
    <2>2. CASE full(The(g))
      <3>1. ch[The(g)].closed \/ OpenNotReady(g)
        BY <1>3, <2>1, <2>2, FullNotReady
      <3> QED
        BY <1>7, <2>1, <2>2, <3>1, FastLoad DEF SendLoadFullFirst
    <2>3. CASE ~full(The(g))
      BY <1>7, <2>1, <2>3, FastLoad DEF SendLoadFullFirst
    <2> QED
      BY <2>2, <2>3
  <1>8. CASE SendLoadClosedSecond(g)
    <2>1. CASE GiveUp(g)
      BY <1>1, <1>4, <2>1, EndQuietly DEF GiveUp
    <2>2. CASE GoOn(g, "lock")
      BY <1>1, <2>2, FastLoad
    <2> QED
      BY <1>8, <2>1, <2>2 DEF SendLoadClosedSecond
  <1>9. CASE RecvLoadEmpty(g)
    <2>1. pc[g] = "recvEmpty"
      BY <1>9 DEF RecvLoadEmpty
    <2>2. CASE empty(The(g))
      <3>1. ch[The(g)].closed \/ OpenNotReady(g)
        BY <1>3, <2>1, <2>2, EmptyNotReady
      <3> QED
        BY <1>9, <2>1, <2>2, <3>1, FastLoad DEF RecvLoadEmpty
    <2>3. CASE ~empty(The(g))
      BY <1>9, <2>1, <2>3, FastLoad DEF RecvLoadEmpty
    <2> QED
      BY <2>2, <2>3
  <1>10. CASE RecvLoadClosed(g)
    <2>1. CASE GiveUp(g)
      BY <1>1, <1>4, <2>1, EndQuietly DEF GiveUp
    <2>2. CASE GoOn(g, "recvAgain")
      BY <1>1, <1>10, <2>2, FastLoad DEF RecvLoadClosed
    <2> QED
      BY <1>10, <2>1, <2>2 DEF RecvLoadClosed
  <1>11. CASE RecvLoadEmptyAgain(g)
    <2>1. CASE End(g, Result("closed", 1, None)) /\ UNCHANGED ch
      BY <1>1, <1>4, <2>1, EndQuietly
    <2>2. CASE GoOn(g, "lock")
      BY <1>1, <2>2, FastLoad
    <2> QED
      BY <1>11, <2>1, <2>2 DEF RecvLoadEmptyAgain
  <1> QED
    BY <1>5, <1>6, <1>7, <1>8, <1>9, <1>10, <1>11 DEF FastStep

(* A call begins.                                                          *)
LEMMA CallKeepsInv ==
  ASSUME WaitersInv, NEW g \in G, NEW o \in Calls, Call(g, o), Observe
  PROVE  WaitersInv'
  <1> USE DEF FastPath, SendPath, RecvPath
  <1>1. PICK s \in Start(o) : Goto(g, "idle", s)
    BY DEF Call
  <1>2. s \in FastPath \cup {"sellock", "nil", "lock"} /\ s \in PC
    BY DEF Start, PC, InSelect
  <1>3. OthersOK
    BY TypeHalves DEF WaitersInv
  <1>4. /\ pc[g] = "idle" /\ pc' = [pc EXCEPT ![g] = s] /\ call' = [call EXCEPT ![g] = o]
        /\ ch' = ch /\ lock' = lock /\ result' = result
        /\ selectDone' = selectDone /\ param' = param /\ elem' = elem
    BY <1>1 DEF Goto, Call, gvars
  <1>5. OthersOK'
    BY <1>2, <1>3, <1>4, SeenType DEF OthersOK
  <1>6. StepOf(g, s, {})
    BY <1>3, <1>4, <1>5, SameClosed DEF StepOf, OthersOK
  <1>7. LocksFit(g) /\ WakeUpFits(g)
    BY DEF WaitersInv, WaitQueues
  <1>8. pc'[g] = s /\ call'[g] = o
    BY <1>3, <1>4 DEF OthersOK
  <1>9. CallFits(g)'
    <2>1. o # Idle
      BY NoneAssumption
    <2>2. /\ s = "sellock" => o.kind = "selectgo"
          /\ s = "nil" => o.kind # "selectgo" /\ o.cases[1].c = 0
          /\ s \in FastPath \cup {"lock"} => o.kind # "selectgo" /\ o.cases[1].c # 0
          /\ s \in SendPath => o.cases[1].dir = "send"
          /\ s \in RecvPath => o.cases[1].dir # "send" /\ ~o.block
      BY DEF Start
    <2>3. s \in RecvPath => o.cases[1].dir = "recv"
      BY <2>2, CallKinds DEF Case
    <2>4. s \in FastPath \cup {"lock"} => o.cases[1].c \in C
      BY <2>2, CallKinds
    <2> QED
      BY <1>2, <1>8, <2>1, <2>2, <2>3, <2>4 DEF CallFits, InSelect, IsSelect, The, CaseOf
  <1>10. LocksFit(g)'
    BY <1>2, <1>4, <1>7, <1>8 DEF LocksFit, InSelect, ChansOf
  <1>11. WakeUpFits(g)'
    BY <1>2, <1>4, <1>7, <1>8 DEF WakeUpFits
  <1>12. SeenFits(g)'
    <2>1. s \notin {"recvClosed", "sendClosedSecond", "sendFull"}
      BY DEF Start
    <2> QED
      BY <1>8, <2>1 DEF SeenFits, Observe
  <1> QED
    BY <1>2, <1>4, <1>5, <1>6, <1>9, <1>10, <1>11, <1>12, QuietStep DEF Fits

(* A call returns.                                                         *)
LEMMA ReturnKeepsInv ==
  ASSUME WaitersInv, NEW g \in G, Return(g), Observe
  PROVE  WaitersInv'
  <1>1. OthersOK
    BY TypeHalves DEF WaitersInv
  <1>2. /\ pc[g] = "ret" /\ pc' = [pc EXCEPT ![g] = "idle"] /\ call' = [call EXCEPT ![g] = Idle]
        /\ ch' = ch /\ lock' = lock /\ selectDone' = selectDone /\ param' = param
        /\ elem' = [elem EXCEPT ![g] = None] /\ result' = [result EXCEPT ![g] = Pending]
    BY DEF Return, Goto
  <1>3. Pending \in Results /\ "idle" \in PC
    BY DEF Pending, Results, PC
  <1>4. OthersOK'
    BY <1>1, <1>2, <1>3, SeenType DEF OthersOK
  <1>5. StepOf(g, "idle", {})
    BY <1>1, <1>2, <1>4, SameClosed DEF StepOf, OthersOK
  <1>6. LocksFit(g) /\ WakeUpFits(g)
    BY DEF WaitersInv, WaitQueues
  <1>7. pc'[g] = "idle" /\ call'[g] = Idle
    BY <1>1, <1>2 DEF OthersOK
  <1>8. Fits(g)'
    BY <1>2, <1>6, <1>7
    DEF Fits, CallFits, LocksFit, WakeUpFits, SeenFits, InSelect, FastPath, SendPath, RecvPath
  <1> QED
    BY <1>2, <1>3, <1>4, <1>5, <1>8, QuietStep

(* A call on nil.                                                          *)
LEMMA NilChanKeepsInv ==
  ASSUME WaitersInv, NEW g \in G, NilChan(g), Observe
  PROVE  WaitersInv'
  <1>1. pc[g] = "nil" /\ ch' = ch
    BY DEF NilChan
  <1>2. Result("default", 0, None) \in Results /\ Result("panic", 1, None) \in Results
    BY DEF Result, Results
  <1>3. CASE End(g, Result("panic", 1, None)) \/ End(g, Result("default", 0, None))
    BY <1>1, <1>2, <1>3, EndQuietly
  <1>4. CASE Goto(g, "nil", "parked") /\ UNCHANGED <<lock, call, gvars, result>>
    <2>1. GoOn(g, "parked") /\ "parked" \in PC
      BY <1>1, <1>4 DEF GoOn, Goto, PC
    <2>2. OthersOK' /\ StepOf(g, "parked", {}) /\ OthersOK
      BY <2>1, GoOnStep
    <2>3. pc'[g] = "parked" /\ call' = call /\ lock' = lock /\ selectDone' = selectDone
      BY <2>1, <2>2 DEF GoOn, gvars, StepOf
    <2>4. CallFits(g) /\ LocksFit(g) /\ WakeUpFits(g)
      BY DEF WaitersInv, WaitQueues
    <2>5. Fits(g)'
      BY <1>1, <2>3, <2>4
      DEF Fits, CallFits, LocksFit, WakeUpFits, SeenFits, InSelect, FastPath, SendPath, RecvPath
    <2>6. ~IsSelect(g) /\ The(g) = 0 /\ call[g] # Idle
      BY <1>1, <2>4 DEF CallFits
    <2>7. DOMAIN call[g].cases = {1}
      BY <2>6, CallShape DEF WaitersInv
    <2>8. \A i \in DOMAIN call'[g].cases : CaseOf(g, i)'.c \notin C
      BY <2>3, <2>6, <2>7 DEF CaseOf, The
    <2> QED
      BY <1>1, <2>1, <2>2, <2>5, <2>8, QuietStep
  <1> QED
    BY <1>3, <1>4 DEF NilChan

(* A goroutine whose sudog was taken out of its queue wakes up.            *)
LEMMA WakeUpKeepsInv ==
  ASSUME WaitersInv, NEW g \in G, WakeUp(g), Observe
  PROVE  WaitersInv'
  <1>1. OthersOK
    BY TypeHalves DEF WaitersInv
  <1> DEFINE r == IF param[g] # 0 THEN Completed(g)
                  ELSE IF CaseOf(g, 1).dir = "recv" THEN Result("closed", 1, None)
                  ELSE IF ch[The(g)].closed THEN Result("panic", 1, None) ELSE Result("throw", 1, None)
  <1>2. /\ pc[g] = "woken" /\ pc' = [pc EXCEPT ![g] = "ret"] /\ call' = call
        /\ ch' = ch /\ lock' = lock /\ selectDone' = selectDone /\ elem' = elem
        /\ param' = [param EXCEPT ![g] = 0] /\ result' = [result EXCEPT ![g] = r]
    BY DEF WakeUp, Goto
  <1>3. LocksFit(g) /\ WakeUpFits(g)
    BY DEF WaitersInv, WaitQueues
  <1>4. r \in Results
    <2>1. param[g] = 0 => ch[The(g)].closed
      BY <1>2, <1>3 DEF WakeUpFits
    <2>2. Completed(g) \in Results
      BY <1>1 DEF Completed, Result, Results, OthersOK
    <2>3. Result("closed", 1, None) \in Results /\ Result("panic", 1, None) \in Results
      BY DEF Result, Results
    <2> QED
      BY <2>1, <2>2, <2>3
  <1> HIDE DEF r
  <1>5. OthersOK'
    BY <1>1, <1>2, <1>4, SeenType DEF OthersOK, PC
  <1>6. StepOf(g, "ret", {})
    BY <1>1, <1>2, <1>5, SameClosed DEF StepOf, OthersOK
  <1>7. \A c \in C : lock'[c] # g
    BY <1>2, <1>3 DEF LocksFit, InSelect
  <1>8. Fits(g)'
    BY <1>2, <1>6, <1>7, RetFits DEF StepOf
  <1> QED
    BY <1>2, <1>5, <1>6, <1>8, QuietStep DEF PC

-----------------------------------------------------------------------------
(* The lock that comes next has the least address of those left.           *)
LEMMA NextLockLeast ==
  ASSUME NEW g \in G, ~AllLocked(g)
  PROVE  /\ NextLock(g) \in ChansOf(g) /\ lock[NextLock(g)] # g
         /\ \A c \in ChansOf(g) : lock[c] # g => NextLock(g) <= c
  <1> DEFINE S == {c \in ChansOf(g) : lock[c] # g}
  <1>1. S \in SUBSET Nat /\ S # {}
    BY DEF ChansOf, AllLocked
  <1> QED
    BY <1>1, MinProperties DEF NextLock

(* A select takes one more lock: its locks are still those of the least    *)
(* addresses.                                                              *)
LEMMA sellockKeepsInv ==
  ASSUME WaitersInv, NEW g \in G, sellock(g), Observe
  PROVE  WaitersInv'
  <1> DEFINE n == NextLock(g)
  <1>1. OthersOK
    BY TypeHalves DEF WaitersInv
  <1>2. n \in ChansOf(g) /\ lock[n] # g /\ \A c \in ChansOf(g) : lock[c] # g => n <= c
    BY NextLockLeast DEF sellock
  <1>3. ChansOf(g) \subseteq C /\ C \subseteq Nat
    BY DEF ChansOf
  <1> HIDE DEF n
  <1>4. /\ pc[g] \in {"sellock", "relock"} /\ pc' = pc /\ call' = call /\ ch' = ch
        /\ lock[n] = None /\ lock' = [lock EXCEPT ![n] = g] /\ result' = result
        /\ selectDone' = selectDone /\ param' = param /\ elem' = elem
    BY DEF sellock, gvars, n
  <1>5. OthersOK'
    BY <1>1, <1>4, SeenType DEF OthersOK
  <1>6. StepOf(g, pc[g], {})
    BY <1>1, <1>2, <1>3, <1>4, <1>5, SameClosed DEF StepOf, OthersOK
  <1>7. \A c \in C : lock'[c] = IF c = n THEN g ELSE lock[c]
    BY <1>1, <1>4 DEF OthersOK
  <1>8. CallFits(g) /\ LocksFit(g) /\ WakeUpFits(g)
    BY DEF WaitersInv, WaitQueues
  <1>9. LocksFit(g)'
    <2>1. ChansOf(g)' = ChansOf(g)
      BY <1>4 DEF ChansOf, CaseOf
    <2>2. \A c, d \in ChansOf(g) : lock'[c] = g /\ lock'[d] # g => c < d
      <3> SUFFICES ASSUME NEW c \in ChansOf(g), NEW d \in ChansOf(g), lock'[c] = g, lock'[d] # g
                   PROVE  c < d
        OBVIOUS
      <3>1. d # n /\ lock[d] # g /\ n <= d /\ c \in Nat /\ d \in Nat /\ n \in Nat
        BY <1>2, <1>3, <1>7
      <3>2. CASE c = n
        BY <3>1, <3>2
      <3>3. CASE c # n
        BY <1>3, <1>4, <1>7, <1>8, <3>1, <3>3 DEF LocksFit
      <3> QED
        BY <3>2, <3>3
    <2> QED
      BY <1>2, <1>4, <1>7, <1>8, <2>1, <2>2 DEF LocksFit, InSelect
  <1>10. CallFits(g)' /\ WakeUpFits(g)' /\ SeenFits(g)'
    BY <1>4, <1>8
    DEF CallFits, WakeUpFits, SeenFits, IsSelect, The, ChansOf, CaseOf, FastPath, SendPath, RecvPath
  <1> QED
    BY <1>1, <1>4, <1>5, <1>6, <1>9, <1>10, QuietStep DEF Fits, OthersOK

-----------------------------------------------------------------------------
(* A close that leaves the channel as it is, or sets c.closed.             *)
LEMMA closechanKeepsInv ==
  ASSUME WaitersInv, NEW g \in G, closechan(g), Observe
  PROVE  WaitersInv'
  <1> DEFINE c == The(g)
  <1>1. OthersOK /\ HchansOK
    BY TypeHalves DEF WaitersInv
  <1>2. pc[g] = "lock" /\ lock[c] = None
    BY DEF closechan, Locked
  <1>3. CallFits(g) /\ LocksFit(g) /\ WakeUpFits(g)
    BY DEF WaitersInv, WaitQueues
  <1>4. c \in C /\ ~IsSelect(g) /\ call[g] # Idle
    BY <1>2, <1>3 DEF CallFits
  <1>5. CASE End(g, Result("panic", 1, None)) /\ UNCHANGED ch
    BY <1>2, <1>5, EndQuietly DEF Result, Results
  <1>6. CASE /\ ~ch[c].closed
             /\ Goto(g, "lock", "release")
             /\ ch' = [ch EXCEPT ![c].closed = TRUE]
             /\ lock' = [lock EXCEPT ![c] = g]
             /\ result' = [result EXCEPT ![g] = Result("done", 1, None)]
             /\ UNCHANGED <<call, gvars>>
    <2>1. /\ pc' = [pc EXCEPT ![g] = "release"] /\ call' = call
          /\ selectDone' = selectDone /\ param' = param /\ elem' = elem
      BY <1>6 DEF Goto, gvars
    <2>2. OthersOK'
      BY <1>1, <1>4, <1>6, <2>1, SeenType DEF OthersOK, PC, Result, Results
    <2>3. /\ DOMAIN ch' = C
          /\ \A e \in C \ {c} : ch'[e] = ch[e]
          /\ ch'[c] = [ch[c] EXCEPT !.closed = TRUE] /\ ch[c] \in Hchan(c)
      BY <1>1, <1>4, <1>6 DEF HchansOK
    <2>4. /\ ch'[c] \in Hchan(c) /\ ch'[c].closed /\ ch'[c].qcount = ch[c].qcount
          /\ ch'[c].recvq = ch[c].recvq /\ ch'[c].sendq = ch[c].sendq
      BY <2>3 DEF Hchan
    <2>5. HchansOK'
      <3>1. \A e \in C : ch'[e] \in Hchan(e)
        BY <1>1, <2>3, <2>4 DEF HchansOK
      <3> QED
        BY <2>3, <3>1 DEF HchansOK, Hchan, Index
    <2>6. /\ \A e \in C : ch'[e].qcount = ch[e].qcount /\ ch[e].qcount \in Nat
          /\ \A e \in C, d \in {"send", "recv"} : Queue(e, d)' = Queue(e, d)
      <3>1. \A e \in C : /\ ch'[e].qcount = ch[e].qcount
                         /\ ch'[e].recvq = ch[e].recvq
                         /\ ch'[e].sendq = ch[e].sendq
        BY <2>3, <2>4
      <3>2. \A e \in C : ch[e].qcount \in Nat
        BY <1>1 DEF HchansOK, Hchan
      <3> QED
        BY <3>1, <3>2 DEF Queue
    <2>7. Closes
      <3>1. \A e \in C : ch'[e].qcount \in 0..ch[e].qcount
        BY <2>6
      <3> QED
        BY <2>3, <2>4, <3>1 DEF Closes
    <2>8. StepOf(g, "release", {})
      BY <1>1, <1>2, <1>6, <2>1, <2>2, <2>7 DEF StepOf, OthersOK
    <2>9. Shrinks({})
      BY <2>6 DEF Shrinks, WaitersInv, WaitQueues, SudogsOfWaiters
    <2>10. pc'[g] = "release" /\ The(g)' = c /\ lock'[c] = g /\ \A e \in C : lock'[e] = g => e = c
      BY <1>1, <1>2, <1>3, <1>4, <1>6, <2>1 DEF OthersOK, LocksFit, InSelect, The, CaseOf
    <2>11. Fits(g)'
      BY <1>2, <1>3, <1>4, <2>1, <2>4, <2>10
      DEF Fits, CallFits, LocksFit, WakeUpFits, SeenFits, InSelect, IsSelect, FastPath, SendPath, RecvPath
    <2>12. ASSUME NEW e \in C, NEW d \in {"send", "recv"}, NEW s \in ToSet(Queue(e, d)')
           PROVE  s.g # g
      BY <1>2, <2>6, QueuedFacts DEF Waits
    <2>13. TypeOK'
      BY <2>2, <2>5, TypeHalves
    <2>14. \A e \in C : ch'[e].closed => \/ ch[e].closed /\ ~(pc[g] = "release" /\ The(g) = e)
                                         \/ lock'[e] = g
      BY <1>2, <2>3, <2>10
    <2> QED
      BY <2>6, <2>8, <2>9, <2>11, <2>12, <2>13, <2>14, ShrinkingStep DEF PC
  <1> QED
    BY <1>5, <1>6 DEF closechan

(* The type of the channels, from that of each.                            *)
LEMMA HchansStep ==
  ASSUME DOMAIN ch' = C, \A c \in C : ch'[c] \in Hchan(c)
  PROVE  HchansOK'
  <1>1. \A c \in C : Hchan(c)' = Hchan(c)
    BY DEF Hchan, Index
  <1> QED
    BY <1>1 DEF HchansOK

(* The parts of a channel.                                                 *)
LEMMA HchanFields ==
  ASSUME HchansOK, NEW c \in C
  PROVE  /\ ch[c] \in Hchan(c) /\ ch[c].qcount \in 0..Size[c] /\ ch[c].qcount \in Nat /\ Size[c] \in Nat
         /\ ch[c].recvq \in Seq(Sudogs) /\ ch[c].sendq \in Seq(Sudogs)
         /\ \A d : Queue(c, d) \in Seq(Sudogs)
  BY DEF HchansOK, Hchan, Queue

(* A close releases the waiters.                                           *)
LEMMA ReleaseAllKeepsInv ==
  ASSUME WaitersInv, NEW g \in G, ReleaseAll(g), Observe
  PROVE  WaitersInv'
  <1> DEFINE c == The(g)
             h == ch[c]
             Q == ToSet(h.recvq \o h.sendq)
             freed == {s.g : s \in {s \in Q : Live(s)}}
  <1>1. OthersOK /\ HchansOK
    BY TypeHalves DEF WaitersInv
  <1>2. /\ pc[g] = "release"
        /\ ch' = [ch EXCEPT ![c] = [h EXCEPT !.recvq = <<>>, !.sendq = <<>>]]
        /\ pc' = [x \in G |-> IF x = g THEN "ret" ELSE IF x \in freed THEN Resume(x) ELSE pc[x]]
        /\ selectDone' = [x \in G |-> selectDone[x] \/ (x \in freed /\ IsSelect(x))]
        /\ param' = [x \in G |-> IF x \in freed THEN 0 ELSE param[x]]
        /\ Unlock(g) /\ call' = call /\ elem' = elem /\ result' = result
    BY DEF ReleaseAll
  <1>3. CallFits(g) /\ LocksFit(g) /\ WakeUpFits(g)
    BY DEF WaitersInv, WaitQueues
  <1>4. c \in C /\ h.closed /\ lock[c] = g
    BY <1>2, <1>3 DEF CallFits, LocksFit, WakeUpFits
  <1>5. Q = ToSet(Queue(c, "recv")) \cup ToSet(Queue(c, "send"))
    BY <1>1, <1>4, HchanFields, ConcatMembers DEF Queue
  <1>6. /\ \A s \in Q : Live(s) => s.g \in freed
        /\ \A x \in freed : \E s \in Q : Live(s) /\ s.g = x
    OBVIOUS
  <1> HIDE DEF Q, freed, h, c
  <1>7. \A s \in Q : /\ s.g \in G /\ c \in ChansOf(s.g) /\ s.i \in DOMAIN call[s.g].cases
                     /\ CaseOf(s.g, s.i).c = c
                     /\ Live(s) => pc[s.g] = "parked" /\ s.g \in freed
                     /\ ~IsSelect(s.g) => The(s.g) = c
    <2> SUFFICES ASSUME NEW d \in {"send", "recv"}, NEW s \in ToSet(Queue(c, d)), s \in Q
                 PROVE  /\ s.g \in G /\ c \in ChansOf(s.g) /\ s.i \in DOMAIN call[s.g].cases
                        /\ CaseOf(s.g, s.i).c = c
                        /\ Live(s) => pc[s.g] = "parked" /\ s.g \in freed
                        /\ ~IsSelect(s.g) => The(s.g) = c
      BY <1>5
    <2>1. /\ s.g \in G /\ c \in ChansOf(s.g) /\ (~IsSelect(s.g) => The(s.g) = c)
          /\ Waits(s, d, c) /\ (Live(s) <=> pc[s.g] = "parked")
      BY <1>4, QueuedFacts
    <2> QED
      BY <1>6, <2>1 DEF Waits
  <1>8. freed \in SUBSET (G \ {g})
    BY <1>2, <1>6, <1>7
  <1>9. /\ DOMAIN ch' = C
        /\ \A e \in C : ch'[e] = IF e = c THEN [h EXCEPT !.recvq = <<>>, !.sendq = <<>>] ELSE ch[e]
    BY <1>1, <1>2, <1>4 DEF HchansOK
  <1>10. /\ ch'[c] \in Hchan(c) /\ ch'[c].closed /\ ch'[c].qcount = h.qcount
         /\ ch'[c].recvq = <<>> /\ ch'[c].sendq = <<>>
    <2>1. h \in Hchan(c) /\ h = ch[c]
      BY <1>1, <1>4, HchanFields DEF h
    <2>2. ch'[c] = [h EXCEPT !.recvq = <<>>, !.sendq = <<>>]
      BY <1>4, <1>9
    <2>3. <<>> \in Seq(Sudogs)
      OBVIOUS
    <2> QED
      BY <1>4, <2>1, <2>2, <2>3 DEF Hchan
  <1>11. HchansOK'
    <2>1. \A e \in C : ch'[e] \in Hchan(e)
      BY <1>1, <1>9, <1>10, HchanFields
    <2> QED
      BY <1>9, <2>1, HchansStep
  <1>12. /\ \A x \in G : pc'[x] = IF x = g THEN "ret" ELSE IF x \in freed THEN Resume(x) ELSE pc[x]
         /\ \A x \in G : selectDone'[x] <=> selectDone[x] \/ (x \in freed /\ IsSelect(x))
         /\ \A x \in G : param'[x] = IF x \in freed THEN 0 ELSE param[x]
         /\ \A x \in G : pc'[x] \in PC
    <2>1. \A x : Resume(x) \in PC
      BY DEF Resume, PC, InSelect
    <2> QED
      BY <1>1, <1>2, <2>1 DEF OthersOK, PC
  <1>13. OthersOK'
    <2>1. selectDone' \in [G -> BOOLEAN]
      BY <1>2
    <2>2. pc' \in [G -> PC]
      BY <1>2, <1>12
    <2>3. param' \in [G -> Nat]
      BY <1>1, <1>2 DEF OthersOK
    <2>4. lock' \in [C -> G \cup {None}]
      BY <1>1, <1>2, UnlockAll
    <2> QED
      BY <1>1, <1>2, <2>1, <2>2, <2>3, <2>4, SeenType DEF OthersOK
  <1>14. Closes
    <2>1. \A e \in C : ch'[e].qcount = ch[e].qcount /\ ch[e].qcount \in Nat
      BY <1>1, <1>9, <1>10, HchanFields DEF h
    <2>2. \A e \in C : ch'[e].qcount \in 0..ch[e].qcount
      BY <2>1
    <2> QED
      BY <1>9, <1>10, <2>2 DEF Closes
  <1>15. StepOf(g, "ret", freed)
    <2>1. \A x \in freed : /\ pc[x] = "parked"
                           /\ \E i \in DOMAIN call[x].cases :
                                CaseOf(x, i).c \in C /\ (param'[x] = 0 => ch'[CaseOf(x, i).c].closed)
      <3> SUFFICES ASSUME NEW x \in freed
                   PROVE  /\ pc[x] = "parked"
                          /\ \E i \in DOMAIN call[x].cases :
                               CaseOf(x, i).c \in C /\ (param'[x] = 0 => ch'[CaseOf(x, i).c].closed)
        OBVIOUS
      <3>1. PICK s \in Q : Live(s) /\ s.g = x
        BY <1>6
      <3>2. pc[x] = "parked" /\ s.i \in DOMAIN call[x].cases /\ CaseOf(x, s.i).c = c
        BY <1>7, <3>1
      <3> QED
        BY <1>4, <1>10, <3>2
    <2>2. \A e \in C : lock'[e] = lock[e] \/ (lock[e] = g /\ lock'[e] = None)
      BY <1>1, <1>2, UnlockAll
    <2>3. \A x \in G \ {g} : /\ pc'[x] = IF x \in freed THEN Resume(x) ELSE pc[x]
                             /\ call'[x] = call[x]
                             /\ selectDone'[x] <=> selectDone[x] \/ (x \in freed /\ IsSelect(x))
                             /\ x \notin freed => param'[x] = param[x]
      BY <1>2, <1>12
    <2>4. pc' \in [G -> PC] /\ pc'[g] = "ret"
      BY <1>12, <1>13 DEF OthersOK
    <2> QED
      BY <1>8, <1>14, <2>1, <2>2, <2>3, <2>4 DEF StepOf
  <1>16. Fits(g)'
    <2>1. \A e \in C : lock'[e] # g
      BY <1>1, <1>2, UnlockAll
    <2>2. selectDone'[g] <=> selectDone[g]
      BY <1>8, <1>12
    <2> QED
      BY <1>2, <1>12, <2>1, <2>2, RetFits
  <1>17. Shrinks(freed)
    <2> SUFFICES ASSUME NEW e \in C, NEW d \in {"send", "recv"}
                 PROVE  /\ IsInjective(Queue(e, d)')
                        /\ ToSet(Queue(e, d)') \in SUBSET ToSet(Queue(e, d))
                        /\ \A s \in ToSet(Queue(e, d)) : s \in ToSet(Queue(e, d)') \/ ~Live(s) \/ s.g \in freed
                        /\ \A s \in ToSet(Queue(e, d)') : s.g \in freed => IsSelect(s.g)
      BY DEF Shrinks
    <2>1. CASE e = c
      <3>1. Queue(e, d)' = <<>>
        BY <1>10, <2>1 DEF Queue
      <3>2. IsInjective(<<>>) /\ ToSet(<<>>) = {}
        BY DEF IsInjective, ToSet
      <3>3. \A s \in ToSet(Queue(e, d)) : Live(s) => s.g \in freed
        BY <1>5, <1>7, <2>1
      <3> QED
        BY <3>1, <3>2, <3>3
    <2>2. CASE e # c
      <3>1. Queue(e, d)' = Queue(e, d)
        BY <1>9, <2>2 DEF Queue
      <3>2. IsInjective(Queue(e, d))
        BY DEF WaitersInv, WaitQueues, SudogsOfWaiters
      <3>3. ASSUME NEW s \in ToSet(Queue(e, d)), s.g \in freed, ~IsSelect(s.g)
            PROVE  FALSE
        <4>1. The(s.g) = e
          BY <3>3, QueuedFacts
        <4>2. The(s.g) = c
          BY <1>6, <1>7, <3>3
        <4> QED
          BY <2>2, <4>1, <4>2
      <3> QED
        BY <3>1, <3>2, <3>3
    <2> QED
      BY <2>1, <2>2
  <1>18. ASSUME NEW e \in C, NEW d \in {"send", "recv"}, NEW s \in ToSet(Queue(e, d)')
         PROVE  s.g # g
    <2>1. s \in ToSet(Queue(e, d))
      BY <1>17 DEF Shrinks
    <2> QED
      BY <1>2, <2>1, QueuedFacts DEF Waits
  <1>19. \A e \in C : ch'[e].qcount = ch[e].qcount
    BY <1>9, <1>10 DEF h
  <1>20. \A e \in C : ch'[e].closed => \/ ch'[e].recvq = <<>> /\ ch'[e].sendq = <<>>
                                       \/ ch[e].closed /\ ~(pc[g] = "release" /\ The(g) = e)
    BY <1>9, <1>10 DEF c
  <1> QED
    BY <1>11, <1>13, <1>15, <1>16, <1>17, <1>18, <1>19, <1>20, TypeHalves, ShrinkingStep DEF PC

(* A select that has been signalled leaves all its queues.                 *)
LEMMA SelectWakeUpKeepsInv ==
  ASSUME WaitersInv, NEW g \in G, SelectWakeUp(g), Observe
  PROVE  WaitersInv'
  <1> DEFINE leave(q) == Keep(q, {n \in DOMAIN q : q[n].g # g})
             to == IF param[g] # 0 THEN "ret" ELSE "loop"
  <1>1. OthersOK /\ HchansOK
    BY TypeHalves DEF WaitersInv
  <1>2. /\ pc[g] = "relock" /\ pc' = [pc EXCEPT ![g] = to] /\ AllLocked(g)
        /\ ch' = [c \in C |-> IF c \notin ChansOf(g) THEN ch[c]
                              ELSE [ch[c] EXCEPT !.recvq = leave(@), !.sendq = leave(@)]]
        /\ selectDone' = [selectDone EXCEPT ![g] = FALSE]
        /\ param' = [param EXCEPT ![g] = 0]
        /\ IF param[g] = 0 THEN UNCHANGED <<lock, result>>
           ELSE Unlock(g) /\ result' = [result EXCEPT ![g] = Completed(g)]
        /\ call' = call /\ elem' = elem
    BY DEF SelectWakeUp, Goto
  <1>3. CallFits(g) /\ LocksFit(g) /\ WakeUpFits(g)
    BY DEF WaitersInv, WaitQueues
  <1>4. ASSUME NEW q \in Seq(Sudogs)
        PROVE  /\ leave(q) \in Seq(Sudogs)
               /\ ToSet(leave(q)) = {s \in ToSet(q) : s.g # g}
               /\ IsInjective(q) => IsInjective(leave(q))
    <2> DEFINE P == {n \in DOMAIN q : q[n].g # g}
    <2>1. /\ Keep(q, P) \in Seq(Sudogs) /\ ToSet(Keep(q, P)) = {q[k] : k \in P}
          /\ IsInjective(q) => IsInjective(Keep(q, P))
      BY KeepProperties
    <2>2. {q[k] : k \in P} = {s \in ToSet(q) : s.g # g}
      BY DEF ToSet
    <2> QED
      BY <2>1, <2>2
  <1> HIDE DEF leave
  <1>5. ASSUME NEW c \in C
        PROVE  /\ ch'[c] \in Hchan(c) /\ ch'[c].qcount = ch[c].qcount /\ (ch'[c].closed <=> ch[c].closed)
               /\ ch'[c].recvq = IF c \in ChansOf(g) THEN leave(ch[c].recvq) ELSE ch[c].recvq
               /\ ch'[c].sendq = IF c \in ChansOf(g) THEN leave(ch[c].sendq) ELSE ch[c].sendq
    <2>1. ch[c] \in Hchan(c) /\ leave(ch[c].recvq) \in Seq(Sudogs) /\ leave(ch[c].sendq) \in Seq(Sudogs)
      BY <1>1, <1>4, HchanFields
    <2>2. CASE c \in ChansOf(g)
      <3>1. ch'[c] = [ch[c] EXCEPT !.recvq = leave(@), !.sendq = leave(@)]
        BY <1>2, <2>2
      <3> QED
        BY <2>1, <2>2, <3>1 DEF Hchan
    <2>3. CASE c \notin ChansOf(g)
      BY <1>2, <2>1, <2>3
    <2> QED
      BY <2>2, <2>3
  <1>6. HchansOK'
    BY <1>2, <1>5, HchansStep
  <1>7. OthersOK'
    <2>1. Completed(g) \in Results
      BY <1>1 DEF Completed, Result, Results, OthersOK
    <2>2. lock' \in [C -> G \cup {None}] /\ result' \in [G -> Results]
      <3>1. CASE param[g] = 0
        BY <1>1, <1>2, <3>1 DEF OthersOK
      <3>2. CASE param[g] # 0
        <4>1. lock' \in [C -> G \cup {None}]
          BY <1>1, <1>2, <3>2, UnlockAll
        <4>2. result' = [result EXCEPT ![g] = Completed(g)]
          BY <1>2, <3>2
        <4> QED
          BY <1>1, <2>1, <4>1, <4>2 DEF OthersOK
      <3> QED
        BY <3>1, <3>2
    <2> QED
      BY <1>1, <1>2, <2>2, SeenType DEF OthersOK, PC, InSelect
  <1>8. Closes
    <2>1. \A c \in C : ch'[c].qcount \in 0..ch[c].qcount
      BY <1>1, <1>5, HchanFields
    <2> QED
      BY <1>5, <2>1 DEF Closes
  <1>9. StepOf(g, to, {})
    <2>1. \A c \in C : lock'[c] = lock[c] \/ (lock[c] = g /\ lock'[c] = None)
      BY <1>1, <1>2, UnlockAll
    <2> QED
      BY <1>1, <1>2, <1>7, <1>8, <2>1 DEF StepOf, OthersOK
  <1>10. Shrinks({})
    <2> SUFFICES ASSUME NEW c \in C, NEW d \in {"send", "recv"}
                 PROVE  /\ IsInjective(Queue(c, d)')
                        /\ ToSet(Queue(c, d)') \in SUBSET ToSet(Queue(c, d))
                        /\ \A s \in ToSet(Queue(c, d)) : s \in ToSet(Queue(c, d)') \/ ~Live(s)
      BY DEF Shrinks
    <2>1. Queue(c, d) \in Seq(Sudogs) /\ IsInjective(Queue(c, d))
      BY <1>1, HchanFields DEF WaitersInv, WaitQueues, SudogsOfWaiters
    <2>2. Queue(c, d)' = IF c \in ChansOf(g) THEN leave(Queue(c, d)) ELSE Queue(c, d)
      BY <1>5 DEF Queue
    <2>3. \A s \in ToSet(Queue(c, d)) : s.g = g => ~Live(s)
      BY <1>2, QueuedFacts
    <2> QED
      BY <1>4, <2>1, <2>2, <2>3
  <1>11. ASSUME NEW c \in C, NEW d \in {"send", "recv"}, NEW s \in ToSet(Queue(c, d)')
         PROVE  s.g # g
    <2>1. Queue(c, d) \in Seq(Sudogs)
      BY <1>1, HchanFields
    <2>2. Queue(c, d)' = IF c \in ChansOf(g) THEN leave(Queue(c, d)) ELSE Queue(c, d)
      BY <1>5 DEF Queue
    <2>3. \A r \in ToSet(Queue(c, d)) : c \in ChansOf(r.g)
      BY QueuedFacts
    <2> QED
      BY <1>4, <2>1, <2>2, <2>3
  <1>12. Fits(g)'
    <2>1. pc'[g] = to /\ ~selectDone'[g] /\ call' = call /\ call[g] # Idle
      BY <1>1, <1>2, <1>3 DEF OthersOK, CallFits
    <2>2. IsSelect(g) /\ (IsSelect(g)' <=> IsSelect(g)) /\ ChansOf(g)' = ChansOf(g) /\ ChansOf(g) \subseteq C
      BY <1>2, <1>3 DEF CallFits, InSelect, IsSelect, ChansOf, CaseOf
    <2>3. CASE param[g] # 0
      <3>1. \A c \in C : lock'[c] # g
        BY <1>1, <1>2, <2>3, UnlockAll
      <3> QED
        BY <2>1, <2>3, <3>1
        DEF Fits, CallFits, LocksFit, WakeUpFits, SeenFits, InSelect, FastPath, SendPath, RecvPath
    <2>4. CASE param[g] = 0
      <3>1. lock' = lock /\ (AllLocked(g)' <=> AllLocked(g))
        BY <1>2, <2>2, <2>4 DEF AllLocked
      <3>2. \E c \in ChansOf(g) : ch'[c].closed
        BY <1>2, <1>3, <1>5, <2>2, <2>4 DEF WakeUpFits
      <3>3. CallFits(g)' /\ WakeUpFits(g)' /\ SeenFits(g)'
        BY <2>1, <2>2, <2>4, <3>2
        DEF CallFits, WakeUpFits, SeenFits, InSelect, FastPath, SendPath, RecvPath
      <3>4. LocksFit(g)'
        <4>1. \A c \in C : lock[c] = g => c \in ChansOf(g)
          BY <1>2, <1>3 DEF LocksFit
        <4>2. pc'[g] = "loop" /\ AllLocked(g)'
          BY <1>2, <2>1, <2>4, <3>1
        <4> QED
          BY <2>2, <3>1, <4>1, <4>2 DEF LocksFit, InSelect
      <3> QED
        BY <3>3, <3>4 DEF Fits
    <2> QED
      BY <2>3, <2>4
  <1>13. \A c \in C : ch'[c].closed => ch[c].closed /\ ~(pc[g] = "release" /\ The(g) = c)
    BY <1>2, <1>5
  <1> QED
    BY <1>5, <1>6, <1>7, <1>9, <1>10, <1>11, <1>12, <1>13, TypeHalves, ShrinkingStep DEF PC, InSelect

-----------------------------------------------------------------------------
(* q is p, or it is what dequeue leaves of p when it finds nobody.         *)
Trims(q, p) == q = p \/ (q = <<>> /\ ~Found(p))

(* The channels when some queues have been rid of their stale sudogs.      *)
Trimmed(chs) ==
  /\ DOMAIN chs = C
  /\ \A c \in C : /\ chs[c] \in Hchan(c)
                  /\ chs[c].closed <=> ch[c].closed
                  /\ chs[c].qcount = ch[c].qcount /\ chs[c].buf = ch[c].buf
                  /\ chs[c].sendx = ch[c].sendx /\ chs[c].recvx = ch[c].recvx
                  /\ Trims(chs[c].recvq, ch[c].recvq) /\ Trims(chs[c].sendq, ch[c].sendq)

(* The channels as they are.                                               *)
LEMMA TrimmedCh ==
  ASSUME WaitersInv
  PROVE  Trimmed(ch)
  BY DEF Trimmed, Trims, WaitersInv, TypeOK

(* Trying a case that is not ready removes stale sudogs only.              *)
LEMMA TriedTrims ==
  ASSUME WaitersInv, NEW K, \A k \in K : ~Ready(k)
  PROVE  Trimmed(Tried(K))
  <1> DEFINE chs == Tried(K)
  <1>1. HchansOK
    BY TypeHalves DEF WaitersInv
  <1>2. DOMAIN chs = C
    BY DEF Tried
  <1>3. ASSUME NEW c \in C
        PROVE  /\ chs[c] \in Hchan(c) /\ (chs[c].closed <=> ch[c].closed) /\ chs[c].qcount = ch[c].qcount
               /\ chs[c].buf = ch[c].buf /\ chs[c].sendx = ch[c].sendx /\ chs[c].recvx = ch[c].recvx
               /\ Trims(chs[c].recvq, ch[c].recvq) /\ Trims(chs[c].sendq, ch[c].sendq)
    <2> DEFINE s == [dir |-> "send", c |-> c]
               r == [dir |-> "recv", c |-> c]
    <2>1. s.c = c /\ s.dir = "send" /\ r.c = c /\ r.dir = "recv" /\ c # 0
      OBVIOUS
    <2> HIDE DEF s, r
    <2>2. s \in K => ~Found(ch[c].recvq)
      BY <2>1 DEF Ready
    <2>3. r \in K => ~Found(ch[c].sendq)
      BY <2>1 DEF Ready
    <2>4. chs[c] = [ch[c] EXCEPT !.recvq = IF s \in K THEN <<>> ELSE @,
                                 !.sendq = IF r \in K THEN <<>> ELSE @]
      BY DEF Tried, s, r
    <2>5. ch[c] \in Hchan(c) /\ <<>> \in Seq(Sudogs)
      BY <1>1, HchanFields
    <2> QED
      BY <2>2, <2>3, <2>4, <2>5 DEF Hchan, Trims
  <1> QED
    BY <1>2, <1>3 DEF Trimmed

(* Queues that are trimmed have shrunk.                                    *)
LEMMA TrimmedShrinks ==
  ASSUME WaitersInv, \A c \in C : Trims(ch'[c].recvq, ch[c].recvq) /\ Trims(ch'[c].sendq, ch[c].sendq)
  PROVE  Shrinks({})
  <1> SUFFICES ASSUME NEW c \in C, NEW d \in {"send", "recv"}
               PROVE  /\ IsInjective(Queue(c, d)')
                      /\ ToSet(Queue(c, d)') \in SUBSET ToSet(Queue(c, d))
                      /\ \A s \in ToSet(Queue(c, d)) : s \in ToSet(Queue(c, d)') \/ ~Live(s)
    BY DEF Shrinks
  <1>1. Queue(c, d) \in Seq(Sudogs) /\ IsInjective(Queue(c, d))
    BY HchanFields, TypeHalves DEF WaitersInv, WaitQueues, SudogsOfWaiters
  <1>2. Trims(Queue(c, d)', Queue(c, d))
    BY DEF Queue
  <1>3. CASE Queue(c, d)' = Queue(c, d)
    BY <1>1, <1>3
  <1>4. CASE Queue(c, d)' = <<>> /\ ~Found(Queue(c, d))
    <2>1. \A s \in ToSet(Queue(c, d)) : ~Live(s)
      BY <1>1, <1>4, DequeueProperties
    <2>2. IsInjective(<<>>) /\ ToSet(<<>>) = {}
      BY DEF IsInjective, ToSet
    <2> QED
      BY <1>4, <2>1, <2>2
  <1> QED
    BY <1>2, <1>3, <1>4 DEF Trims

(* A call that works on the channels and ends by itself.                   *)
LEMMA EndCase ==
  ASSUME WaitersInv, NEW g \in G, NEW r \in Results, End(g, r), Observe, HchansOK',
         pc[g] \in {"lock", "sellock", "loop"},
         \A c \in C :
           /\ ch'[c].closed <=> ch[c].closed
           /\ ch'[c].closed => ch'[c].qcount \in 0..ch[c].qcount
           /\ Trims(ch'[c].recvq, ch[c].recvq) /\ Trims(ch'[c].sendq, ch[c].sendq)
           /\ \/ ch'[c].qcount = ch[c].qcount
              \/ /\ Size[c] > 0 /\ ch'[c].qcount > 0 => ch'[c].recvq = <<>>
                 /\ ch'[c].qcount < Size[c] => ch'[c].sendq = <<>>
  PROVE  WaitersInv'
  <1>1. Closes
    BY DEF Closes
  <1>2. OthersOK' /\ StepOf(g, "ret", {}) /\ Fits(g)'
    BY <1>1, EndStep
  <1>3. Shrinks({})
    BY TrimmedShrinks
  <1>4. ASSUME NEW c \in C, NEW d \in {"send", "recv"}, NEW s \in ToSet(Queue(c, d)')
        PROVE  s.g # g
    <2>1. s \in ToSet(Queue(c, d))
      BY <1>3 DEF Shrinks
    <2> QED
      BY <2>1, QueuedFacts DEF Waits
  <1> QED
    BY <1>2, <1>3, <1>4, TypeHalves, ShrinkingStep DEF PC

(* A call that only finds that it cannot go on, and may not block.         *)
LEMMA GiveUpCase ==
  ASSUME WaitersInv, NEW g \in G, NEW r \in Results, End(g, r), Observe,
         pc[g] \in {"lock", "sellock", "loop"}, Trimmed(ch')
  PROVE  WaitersInv'
  <1>1. HchansOK'
    BY HchansStep DEF Trimmed
  <1>2. \A c \in C : ch[c].qcount \in Nat
    BY HchanFields, TypeHalves DEF WaitersInv
  <1>3. \A c \in C : ch[c].qcount \in 0..ch[c].qcount
    BY <1>2
  <1> QED
    BY <1>1, <1>3, EndCase DEF Trimmed

(* A place in a buffer that has some is followed by another one.           *)
LEMMA IncInRange ==
  ASSUME NEW c, Size[c] \in Nat, Size[c] > 0, NEW x \in Index(c)
  PROVE  x \in 0..(Size[c] - 1) /\ Inc(c, x) \in Index(c)
  <1> DEFINE n == Size[c]
  <1>1. x \in 0..(n - 1)
    BY DEF Index
  <1>2. x + 1 # n => x + 1 \in 0..(n - 1)
    BY <1>1
  <1>3. 0 \in 0..(n - 1)
    OBVIOUS
  <1> QED
    BY <1>1, <1>2, <1>3 DEF Index, Inc

(* g puts its value into the buffer, or takes one.                         *)
LEMMA BufferCase ==
  ASSUME WaitersInv, NEW g \in G, NEW i \in Nat, NEW c \in C, NEW chs, Trimmed(chs), Observe,
         pc[g] \in {"lock", "sellock", "loop"},
         \/ SendOnClosed(g, i, c, chs) \/ SendToBuffer(g, i, c, chs)
         \/ RecvOnClosed(g, i, c, chs) \/ RecvFromBuffer(g, i, c, chs)
  PROVE  WaitersInv'
  <1>1. /\ chs[c] \in Hchan(c) /\ DOMAIN chs = C /\ (chs[c].closed <=> ch[c].closed)
        /\ chs[c].qcount = ch[c].qcount /\ ch[c].qcount \in 0..Size[c] /\ Size[c] \in Nat
        /\ Trims(chs[c].recvq, ch[c].recvq) /\ Trims(chs[c].sendq, ch[c].sendq)
    BY HchanFields, TypeHalves DEF WaitersInv, Trimmed
  <1>2. /\ Size[c] > 0 /\ ch[c].qcount > 0 => ch[c].recvq = <<>>
        /\ ch[c].qcount < Size[c] => ch[c].sendq = <<>>
    BY DEF WaitersInv, WaitQueues, QueueInvariants
  <1>3. \A v \in G \cup {None} :
          /\ Result("panic", i, None) \in Results /\ Result("sent", i, None) \in Results
          /\ Result("closed", i, None) \in Results /\ Result("received", i, v) \in Results
    BY DEF Result, Results
  <1>4. CASE SendOnClosed(g, i, c, chs) \/ RecvOnClosed(g, i, c, chs)
    BY <1>3, <1>4, GiveUpCase DEF SendOnClosed, RecvOnClosed
  <1>5. ASSUME NEW h, ch' = [chs EXCEPT ![c] = h], h \in Hchan(c), h.closed <=> ch[c].closed,
               NEW r \in Results, End(g, r),
               ch[c].closed => h.qcount \in 0..ch[c].qcount,
               Trims(h.recvq, ch[c].recvq), Trims(h.sendq, ch[c].sendq),
               Size[c] > 0 /\ h.qcount > 0 => h.recvq = <<>>,
               h.qcount < Size[c] => h.sendq = <<>>
        PROVE  WaitersInv'
    <2>1. /\ DOMAIN ch' = C
          /\ \A e \in C : ch'[e] = IF e = c THEN h ELSE chs[e]
      BY <1>1, <1>5
    <2>2. HchansOK'
      BY <1>5, <2>1, HchansStep DEF Trimmed
    <2>3. \A e \in C : ch[e].qcount \in 0..ch[e].qcount
      BY HchanFields, TypeHalves DEF WaitersInv
    <2>4. \A e \in C :
           /\ ch'[e].closed <=> ch[e].closed
           /\ ch'[e].closed => ch'[e].qcount \in 0..ch[e].qcount
           /\ Trims(ch'[e].recvq, ch[e].recvq) /\ Trims(ch'[e].sendq, ch[e].sendq)
           /\ \/ ch'[e].qcount = ch[e].qcount
              \/ /\ Size[e] > 0 /\ ch'[e].qcount > 0 => ch'[e].recvq = <<>>
                 /\ ch'[e].qcount < Size[e] => ch'[e].sendq = <<>>
      <3> SUFFICES ASSUME NEW e \in C
                   PROVE  /\ ch'[e].closed <=> ch[e].closed
                          /\ ch'[e].closed => ch'[e].qcount \in 0..ch[e].qcount
                          /\ Trims(ch'[e].recvq, ch[e].recvq) /\ Trims(ch'[e].sendq, ch[e].sendq)
                          /\ \/ ch'[e].qcount = ch[e].qcount
                             \/ /\ Size[e] > 0 /\ ch'[e].qcount > 0 => ch'[e].recvq = <<>>
                                /\ ch'[e].qcount < Size[e] => ch'[e].sendq = <<>>
        OBVIOUS
      <3>1. CASE e = c
        BY <1>5, <2>1, <3>1
      <3>2. CASE e # c
        BY <2>1, <2>3, <3>2 DEF Trimmed
      <3> QED
        BY <3>1, <3>2
    <2> QED
      BY <1>5, <2>2, <2>4, EndCase
  <1>6. CASE SendToBuffer(g, i, c, chs)
    <2> DEFINE k == [chs[c] EXCEPT !.recvq = <<>>]
               h == Put(k, c, g)
    <2>1. /\ ch' = [chs EXCEPT ![c] = h] /\ End(g, Result("sent", i, None))
          /\ ~chs[c].closed /\ ~Found(chs[c].recvq) /\ chs[c].qcount < Size[c]
      BY <1>6 DEF SendToBuffer
    <2>2. /\ k \in Hchan(c) /\ k.closed = chs[c].closed /\ k.qcount = chs[c].qcount
          /\ k.recvq = <<>> /\ k.sendq = chs[c].sendq
      <3>1. <<>> \in Seq(Sudogs)
        OBVIOUS
      <3> QED
        BY <1>1, <3>1 DEF Hchan
    <2> HIDE DEF k
    <2>3. /\ h \in Hchan(c) /\ h.closed = k.closed /\ h.qcount = k.qcount + 1
          /\ h.recvq = k.recvq /\ h.sendq = k.sendq
      <3>1. k.sendx \in 0..(Size[c] - 1) /\ Inc(c, k.sendx) \in Index(c)
        <4>1. k.sendx \in Index(c)
          BY <2>2 DEF Hchan
        <4>2. Size[c] \in Nat /\ Size[c] > 0
          BY <1>1, <2>1
        <4> QED
          BY <4>1, <4>2, IncInRange
      <3>2. [k.buf EXCEPT ![k.sendx] = g] \in [0..(Size[c] - 1) -> G \cup {None}]
        BY <2>2 DEF Hchan
      <3>3. k.qcount + 1 \in 0..Size[c]
        BY <1>1, <2>1, <2>2
      <3> QED
        BY <2>2, <3>1, <3>2, <3>3 DEF Put, Hchan
    <2> HIDE DEF h
    <2>4. Trims(h.recvq, ch[c].recvq) /\ Trims(h.sendq, ch[c].sendq)
      BY <1>1, <2>1, <2>2, <2>3 DEF Trims
    <2>5. h.qcount < Size[c] => h.sendq = <<>>
      BY <1>1, <1>2, <2>2, <2>3 DEF Trims
    <2> QED
      BY <1>1, <1>3, <1>5, <2>1, <2>2, <2>3, <2>4, <2>5
  <1>7. CASE RecvFromBuffer(g, i, c, chs)
    <2> DEFINE k == [chs[c] EXCEPT !.sendq = <<>>]
               h == Take(k, c)
               v == chs[c].buf[chs[c].recvx]
    <2>1. /\ ch' = [chs EXCEPT ![c] = h] /\ End(g, Result("received", i, v))
          /\ ~Found(chs[c].sendq) /\ chs[c].qcount > 0
      BY <1>7 DEF RecvFromBuffer
    <2>2. /\ k \in Hchan(c) /\ k.closed = chs[c].closed /\ k.qcount = chs[c].qcount
          /\ k.sendq = <<>> /\ k.recvq = chs[c].recvq /\ k.recvx = chs[c].recvx
      <3>1. <<>> \in Seq(Sudogs)
        OBVIOUS
      <3> QED
        BY <1>1, <3>1 DEF Hchan
    <2>3. k.recvx \in 0..(Size[c] - 1) /\ Inc(c, k.recvx) \in Index(c)
      <3>1. k.recvx \in Index(c)
        BY <2>2 DEF Hchan
      <3>2. Size[c] \in Nat /\ Size[c] > 0
        BY <1>1, <2>1
      <3> QED
        BY <3>1, <3>2, IncInRange
    <2>4. v \in G \cup {None}
      BY <1>1, <2>2, <2>3 DEF Hchan
    <2> HIDE DEF k, v
    <2>5. /\ h \in Hchan(c) /\ h.closed = k.closed /\ h.qcount = k.qcount - 1
          /\ h.recvq = k.recvq /\ h.sendq = k.sendq
      <3>1. [k.buf EXCEPT ![k.recvx] = None] \in [0..(Size[c] - 1) -> G \cup {None}]
        BY <2>2 DEF Hchan
      <3>2. k.qcount - 1 \in 0..Size[c]
        BY <1>1, <2>1, <2>2
      <3> QED
        BY <2>2, <2>3, <3>1, <3>2 DEF Take, Hchan
    <2> HIDE DEF h
    <2>6. Trims(h.recvq, ch[c].recvq) /\ Trims(h.sendq, ch[c].sendq)
      BY <1>1, <2>1, <2>2, <2>5 DEF Trims
    <2>7. Size[c] > 0 /\ h.qcount > 0 => h.recvq = <<>>
      BY <1>1, <1>2, <2>1, <2>2, <2>5 DEF Trims
    <2>8. h.qcount \in 0..ch[c].qcount
      BY <1>1, <2>1, <2>2, <2>5
    <2> QED
      BY <1>1, <1>3, <1>5, <2>1, <2>2, <2>4, <2>5, <2>6, <2>7, <2>8
  <1> QED
    BY <1>4, <1>6, <1>7

(* A call that ends another one, whose sudog s it has dequeued.            *)
LEMMA CompleteStep ==
  ASSUME WaitersInv, NEW g \in G, NEW r \in Results, NEW v \in G \cup {None}, NEW s, Complete(g, r, s, v),
         Observe, Closes, pc[g] \in {"lock", "sellock", "loop"},
         s.g \in G, s.i \in Nat \ {0}, pc[s.g] = "parked",
         s.i \in DOMAIN call[s.g].cases, CaseOf(s.g, s.i).c \in C
  PROVE  OthersOK' /\ StepOf(g, "ret", {s.g}) /\ Fits(g)'
  <1> DEFINE x == s.g
  <1>1. OthersOK
    BY TypeHalves DEF WaitersInv
  <1>2. x \in G /\ x # g /\ pc[x] = "parked"
    OBVIOUS
  <1>3. /\ pc' = [pc EXCEPT ![g] = "ret", ![x] = Resume(x)]
        /\ selectDone' = [selectDone EXCEPT ![x] = IsSelect(x)]
        /\ param' = [param EXCEPT ![x] = s.i]
        /\ elem' = [elem EXCEPT ![x] = v]
        /\ result' = [result EXCEPT ![g] = r]
        /\ Unlock(g) /\ call' = call
    BY DEF Complete
  <1>4. Resume(x) \in PC /\ "ret" \in PC /\ IsSelect(x) \in BOOLEAN
    BY DEF Resume, PC, InSelect, IsSelect
  <1>5. ~selectDone[x]
    BY <1>2 DEF WaitersInv, WaitQueues, WakeUpFits
  <1>6. OthersOK'
    <2>1. lock' \in [C -> G \cup {None}]
      BY <1>1, <1>3, UnlockAll
    <2>2. pc' \in [G -> PC]
      BY <1>1, <1>3, <1>4 DEF OthersOK
    <2>3. selectDone' \in [G -> BOOLEAN]
      BY <1>1, <1>3, <1>4, Zenon DEF OthersOK
    <2> QED
      BY <1>1, <1>3, <2>1, <2>2, <2>3, SeenType DEF OthersOK
  <1>7. \A y \in G : /\ pc'[y] = IF y = x THEN Resume(x) ELSE IF y = g THEN "ret" ELSE pc[y]
                     /\ param'[y] = IF y = x THEN s.i ELSE param[y]
    BY <1>1, <1>2, <1>3 DEF OthersOK
  <1>8. \A y \in G : selectDone'[y] <=> selectDone[y] \/ (y = x /\ IsSelect(y))
    <2>1. \A y \in G : y # x => selectDone'[y] = selectDone[y]
      BY <1>1, <1>3 DEF OthersOK
    <2>2. selectDone'[x] = IsSelect(x)
      BY <1>1, <1>2, <1>3 DEF OthersOK
    <2> QED
      BY <1>5, <2>1, <2>2
  <1>9. \A c \in C : lock'[c] # g /\ (lock'[c] = lock[c] \/ (lock[c] = g /\ lock'[c] = None))
    BY <1>1, <1>3, UnlockAll
  <1>10. StepOf(g, "ret", {x})
    <2>1. \A y \in {x} : /\ pc[y] = "parked"
                         /\ \E i \in DOMAIN call[y].cases :
                              CaseOf(y, i).c \in C /\ (param'[y] = 0 => ch'[CaseOf(y, i).c].closed)
      BY <1>2, <1>7
    <2>2. \A y \in G \ {g} :
            /\ pc'[y] = IF y \in {x} THEN Resume(y) ELSE pc[y]
            /\ call'[y] = call[y]
            /\ selectDone'[y] <=> selectDone[y] \/ (y \in {x} /\ IsSelect(y))
            /\ y \notin {x} => param'[y] = param[y]
      BY <1>3, <1>7, <1>8
    <2>3. pc' \in [G -> PC] /\ pc'[g] = "ret" /\ {x} \in SUBSET (G \ {g})
      BY <1>2, <1>6, <1>7 DEF OthersOK
    <2> QED
      BY <1>9, <2>1, <2>2, <2>3 DEF StepOf
  <1>11. Fits(g)'
    BY <1>2, <1>3, <1>7, <1>8, <1>9, RetFits
  <1> QED
    BY <1>6, <1>10, <1>11

(* g meets the sudog that it finds in the queue q, a trimmed one of c.     *)
LEMMA HandOverCase ==
  ASSUME WaitersInv, NEW g \in G, NEW r \in Results, NEW v \in G \cup {None},
         NEW c \in C, NEW d \in {"send", "recv"}, NEW q, Trims(q, Queue(c, d)), Found(q),
         Complete(g, r, Dequeued(q), v), Observe, HchansOK',
         pc[g] \in {"lock", "sellock", "loop"},
         \A e \in C : (ch'[e].closed <=> ch[e].closed) /\ ch'[e].qcount = ch[e].qcount,
         Queue(c, d)' = AfterDequeue(q),
         \A e \in C, f \in {"send", "recv"} :
           e # c \/ f # d => Trims(Queue(e, f)', Queue(e, f))
  PROVE  WaitersInv'
  <1> DEFINE s == Dequeued(q)
  <1>1. q = Queue(c, d)
    BY NothingFound DEF Trims
  <1>2. \A e \in C, f \in {"send", "recv"} : Queue(e, f) \in Seq(Sudogs) /\ IsInjective(Queue(e, f))
    BY HchanFields, TypeHalves DEF WaitersInv, WaitQueues, SudogsOfWaiters
  <1>3. /\ s \in ToSet(q) /\ Live(s)
        /\ ToSet(AfterDequeue(q)) \in SUBSET ToSet(q)
        /\ \A t \in ToSet(q) : Live(t) => t = s \/ t \in ToSet(AfterDequeue(q))
        /\ IsInjective(AfterDequeue(q)) /\ s \notin ToSet(AfterDequeue(q))
    BY <1>1, <1>2, DequeueProperties
  <1> HIDE DEF s
  <1>4. /\ s.g \in G /\ s.i \in Nat \ {0} /\ s = Sudog(s.g, s.i) /\ Waits(s, d, c) /\ pc[s.g] = "parked"
        /\ ~IsSelect(s.g) => s.i = 1 /\ The(s.g) = c /\ CaseOf(s.g, 1).dir = d
    BY <1>1, <1>3, QueuedFacts
  <1>5. Closes
    <2>1. \A e \in C : ch'[e].qcount \in 0..ch[e].qcount
      BY HchanFields, TypeHalves DEF WaitersInv
    <2> QED
      BY <2>1 DEF Closes
  <1>6. OthersOK' /\ StepOf(g, "ret", {s.g}) /\ Fits(g)'
    <2>1. s.i \in DOMAIN call[s.g].cases /\ CaseOf(s.g, s.i).c \in C
      BY <1>4 DEF Waits
    <2>2. Complete(g, r, s, v)
      BY DEF s
    <2> QED
      BY <1>4, <1>5, <2>1, <2>2, CompleteStep
  <1>7. Shrinks({s.g})
    <2> SUFFICES ASSUME NEW e \in C, NEW f \in {"send", "recv"}
                 PROVE  /\ IsInjective(Queue(e, f)')
                        /\ ToSet(Queue(e, f)') \in SUBSET ToSet(Queue(e, f))
                        /\ \A t \in ToSet(Queue(e, f)) : t \in ToSet(Queue(e, f)') \/ ~Live(t) \/ t.g = s.g
                        /\ \A t \in ToSet(Queue(e, f)') : t.g = s.g => IsSelect(t.g)
      BY DEF Shrinks
    <2>1. ASSUME NEW t \in ToSet(Queue(e, f)), t.g = s.g, ~IsSelect(t.g)
          PROVE  e = c /\ f = d /\ t = s
      <3>1. t = Sudog(t.g, t.i) /\ t.i = 1 /\ The(t.g) = e /\ CaseOf(t.g, 1).dir = f
        BY <2>1, QueuedFacts
      <3>2. s.i = 1 /\ The(s.g) = c /\ CaseOf(s.g, 1).dir = d /\ s = Sudog(s.g, s.i)
        BY <1>4, <2>1
      <3> QED
        BY <2>1, <3>1, <3>2
    <2>2. CASE e = c /\ f = d
      BY <1>1, <1>3, <2>1, <2>2
    <2>3. CASE e # c \/ f # d
      <3>1. Trims(Queue(e, f)', Queue(e, f))
        BY <2>3
      <3>2. CASE Queue(e, f)' = Queue(e, f)
        BY <1>2, <2>1, <2>3, <3>2
      <3>3. CASE Queue(e, f)' = <<>> /\ ~Found(Queue(e, f))
        <4>1. \A t \in ToSet(Queue(e, f)) : ~Live(t)
          BY <1>2, <3>3, DequeueProperties
        <4>2. IsInjective(<<>>) /\ ToSet(<<>>) = {}
          BY DEF IsInjective, ToSet
        <4> QED
          BY <3>3, <4>1, <4>2
      <3> QED
        BY <3>1, <3>2, <3>3 DEF Trims
    <2> QED
      BY <2>2, <2>3
  <1>8. ASSUME NEW e \in C, NEW f \in {"send", "recv"}, NEW t \in ToSet(Queue(e, f)')
        PROVE  t.g # g
    <2>1. t \in ToSet(Queue(e, f))
      BY <1>7 DEF Shrinks
    <2> QED
      BY <2>1, QueuedFacts DEF Waits
  <1>9. TypeOK'
    BY <1>6, TypeHalves
  <1> QED
    BY <1>6, <1>7, <1>8, <1>9, ShrinkingStep DEF PC

(* The value of the sender goes to the receiver, or into the buffer from   *)
(* which the receiver takes the oldest one.                                *)
LEMMA MeetCase ==
  ASSUME WaitersInv, NEW g \in G, NEW i \in Nat, NEW c \in C, NEW chs, Trimmed(chs), Observe,
         pc[g] \in {"lock", "sellock", "loop"},
         SendToReceiver(g, i, c, chs) \/ RecvFromSender(g, i, c, chs)
  PROVE  WaitersInv'
  <1>1. /\ DOMAIN chs = C
        /\ \A e \in C : /\ chs[e] \in Hchan(e) /\ (chs[e].closed <=> ch[e].closed)
                        /\ chs[e].qcount = ch[e].qcount /\ ch[e].qcount \in 0..Size[e] /\ Size[e] \in Nat
                        /\ Trims(chs[e].recvq, ch[e].recvq) /\ Trims(chs[e].sendq, ch[e].sendq)
                        /\ ch[e].recvq \in Seq(Sudogs) /\ ch[e].sendq \in Seq(Sudogs)
    BY HchanFields, TypeHalves DEF WaitersInv, Trimmed
  <1>2. <<>> \in Seq(Sudogs)
    OBVIOUS
  <1>3. \A q : Found(q) /\ (Trims(q, ch[c].recvq) \/ Trims(q, ch[c].sendq)) => q \in Seq(Sudogs)
    BY <1>1, <1>2 DEF Trims
  <1>4. \A v \in G \cup {None} : Result("sent", i, None) \in Results /\ Result("received", i, v) \in Results
    BY DEF Result, Results
  <1>5. CASE SendToReceiver(g, i, c, chs)
    <2> DEFINE q == chs[c].recvq
    <2>1. /\ Found(q) /\ ch' = [chs EXCEPT ![c].recvq = AfterDequeue(q)]
          /\ Complete(g, Result("sent", i, None), Dequeued(q), g)
      BY <1>5 DEF SendToReceiver
    <2>2. AfterDequeue(q) \in Seq(Sudogs)
      BY <1>1, <1>3, <2>1, DequeueProperties
    <2> DEFINE a == AfterDequeue(q)
    <2> HIDE DEF a
    <2>3. \A e \in C : ch'[e] = IF e = c THEN [chs[c] EXCEPT !.recvq = a] ELSE chs[e]
      BY <1>1, <2>1 DEF a
    <2>4. \A e \in C : /\ ch'[e] \in Hchan(e) /\ ch'[e].closed = chs[e].closed
                       /\ ch'[e].qcount = chs[e].qcount /\ ch'[e].sendq = chs[e].sendq
                       /\ ch'[e].recvq = IF e = c THEN a ELSE chs[e].recvq
      <3>1. ch'[c] = [chs[c] EXCEPT !.recvq = a] /\ chs[c] \in Hchan(c) /\ a \in Seq(Sudogs)
        BY <1>1, <2>2, <2>3 DEF a
      <3>2. /\ ch'[c] \in Hchan(c) /\ ch'[c].closed = chs[c].closed /\ ch'[c].qcount = chs[c].qcount
            /\ ch'[c].sendq = chs[c].sendq /\ ch'[c].recvq = a
        BY <3>1 DEF Hchan
      <3> QED
        BY <1>1, <2>3, <3>2
    <2>5. DOMAIN ch' = C
      BY <1>1, <2>1
    <2>6. HchansOK'
      BY <2>4, <2>5, HchansStep
    <2>7. Trims(q, Queue(c, "recv")) /\ Queue(c, "recv")' = AfterDequeue(q)
      BY <1>1, <2>4 DEF Queue, a
    <2>8. \A e \in C, f \in {"send", "recv"} :
            e # c \/ f # "recv" => Trims(Queue(e, f)', Queue(e, f))
      BY <1>1, <2>4 DEF Queue
    <2>9. \A e \in C : (ch'[e].closed <=> ch[e].closed) /\ ch'[e].qcount = ch[e].qcount
      BY <1>1, <2>4
    <2> QED
      BY <1>4, <2>1, <2>6, <2>7, <2>8, <2>9, HandOverCase
  <1>6. CASE RecvFromSender(g, i, c, chs)
    <2> DEFINE q == chs[c].sendq
               a == AfterDequeue(q)
               s == Dequeued(q)
               h == [chs[c] EXCEPT !.sendq = a]
               k == IF Size[c] = 0 THEN h ELSE Swap(h, c, s.g)
               v == IF Size[c] = 0 THEN s.g ELSE h.buf[h.recvx]
    <2>1. /\ Found(q) /\ ch' = [chs EXCEPT ![c] = k]
          /\ Complete(g, Result("received", i, v), s, None)
      BY <1>6 DEF RecvFromSender
    <2>2. a \in Seq(Sudogs) /\ s \in ToSet(q) /\ q \in Seq(Sudogs)
      BY <1>1, <1>3, <2>1, DequeueProperties
    <2>3. Trims(q, Queue(c, "send"))
      BY <1>1 DEF Queue
    <2> HIDE DEF q, a, s
    <2>4. s.g \in G
      <3>1. s \in Sudogs
        BY <2>2, ToSetProperties
      <3> QED
        BY <3>1 DEF Sudogs
    <2>5. /\ h \in Hchan(c) /\ h.closed = chs[c].closed /\ h.qcount = chs[c].qcount
          /\ h.recvq = chs[c].recvq /\ h.sendq = a /\ h.recvx = chs[c].recvx
      BY <1>1, <2>2 DEF Hchan
    <2> HIDE DEF h
    <2>6. /\ k \in Hchan(c) /\ k.closed = h.closed /\ k.qcount = h.qcount
          /\ k.recvq = h.recvq /\ k.sendq = h.sendq /\ v \in G \cup {None}
      <3>1. CASE Size[c] = 0
        BY <2>4, <2>5, <3>1
      <3>2. CASE Size[c] # 0
        <4>1. h.recvx \in Index(c) /\ h.buf \in [0..(Size[c] - 1) -> G \cup {None}]
          BY <2>5 DEF Hchan
        <4>2. h.recvx \in 0..(Size[c] - 1) /\ Inc(c, h.recvx) \in Index(c)
          BY <1>1, <3>2, <4>1, IncInRange
        <4>3. [h.buf EXCEPT ![h.recvx] = s.g] \in [0..(Size[c] - 1) -> G \cup {None}]
          BY <2>4, <4>1
        <4>4. v \in G \cup {None}
          BY <3>2, <4>1, <4>2
        <4>5. /\ Swap(h, c, s.g) \in Hchan(c) /\ Swap(h, c, s.g).closed = h.closed
              /\ Swap(h, c, s.g).qcount = h.qcount
              /\ Swap(h, c, s.g).recvq = h.recvq /\ Swap(h, c, s.g).sendq = h.sendq
          BY <2>5, <4>2, <4>3 DEF Swap, Hchan
        <4> QED
          BY <3>2, <4>4, <4>5
      <3> QED
        BY <3>1, <3>2
    <2> HIDE DEF k, v
    <2>7. \A e \in C : ch'[e] = IF e = c THEN k ELSE chs[e]
      BY <1>1, <2>1
    <2>8. DOMAIN ch' = C
      BY <1>1, <2>1
    <2>9. HchansOK'
      <3>1. \A e \in C : ch'[e] \in Hchan(e)
        BY <1>1, <2>6, <2>7
      <3> QED
        BY <2>8, <3>1, HchansStep
    <2>10. Queue(c, "send")' = AfterDequeue(q)
      BY <2>5, <2>6, <2>7 DEF Queue, a
    <2>11. \A e \in C, f \in {"send", "recv"} :
            e # c \/ f # "send" => Trims(Queue(e, f)', Queue(e, f))
      BY <1>1, <2>5, <2>6, <2>7 DEF Queue
    <2>12. \A e \in C : (ch'[e].closed <=> ch[e].closed) /\ ch'[e].qcount = ch[e].qcount
      BY <1>1, <2>5, <2>6, <2>7
    <2>13. Complete(g, Result("received", i, v), Dequeued(q), None)
      BY <2>1 DEF s
    <2> QED
      BY <1>4, <2>1, <2>3, <2>6, <2>9, <2>10, <2>11, <2>12, <2>13, HandOverCase
  <1> QED
    BY <1>5, <1>6

(* A case that is ready goes ahead, whatever has been tried before it.     *)
LEMMA ReadyCase ==
  ASSUME WaitersInv, NEW g \in G, NEW i \in Nat, NEW c \in C, NEW chs, Trimmed(chs), Observe,
         pc[g] \in {"lock", "sellock", "loop"},
         SendCase(g, i, c, chs) \/ RecvCase(g, i, c, chs)
  PROVE  WaitersInv'
  BY BufferCase, MeetCase DEF SendCase, RecvCase

(* The critical section of a send or a receive that does not park.         *)
LEMMA LockedKeepsInv ==
  ASSUME WaitersInv, NEW g \in G, chansend(g) \/ chanrecv(g) \/ WouldBlock(g), Observe
  PROVE  WaitersInv'
  <1>1. pc[g] = "lock" /\ The(g) \in C
    <2>1. pc[g] = "lock"
      BY DEF chansend, chanrecv, WouldBlock, Locked
    <2> QED
      BY <2>1 DEF WaitersInv, CallFits
  <1>2. CASE chansend(g) \/ chanrecv(g)
    BY <1>1, <1>2, TrimmedCh, ReadyCase DEF chansend, chanrecv
  <1>3. CASE WouldBlock(g)
    <2>1. Trimmed(Tried({CaseOf(g, 1)}))
      <3>1. ~Ready(CaseOf(g, 1))
        BY <1>3 DEF WouldBlock
      <3> QED
        BY <3>1, TriedTrims
    <2>2. Trimmed(ch')
      BY <1>3, <2>1 DEF WouldBlock
    <2>3. End(g, Result("default", 0, None)) /\ Result("default", 0, None) \in Results
      BY <1>3 DEF WouldBlock, Result, Results
    <2> QED
      BY <1>1, <2>2, <2>3, GiveUpCase
  <1> QED
    BY <1>2, <1>3

(* A select whose case i goes ahead, or that has a default.                *)
LEMMA SelectCaseKeepsInv ==
  ASSUME WaitersInv, NEW g \in G, NEW i \in DOMAIN call[g].cases, NEW K, SelectCase(g, i, K), Observe
  PROVE  WaitersInv'
  <1>1. pc[g] \in {"sellock", "loop"} /\ Ready(CaseOf(g, i)) /\ \A k \in K : ~Ready(k)
    BY DEF SelectCase
  <1>2. call[g] # Idle /\ IsSelect(g)
    BY <1>1 DEF WaitersInv, CallFits, InSelect
  <1>3. call[g].cases \in Seq(Case)
    BY <1>2, CallShape DEF WaitersInv
  <1>4. i \in Nat /\ CaseOf(g, i) \in Case
    BY <1>3 DEF CaseOf
  <1>5. CaseOf(g, i).c \in C
    BY <1>1, <1>4 DEF Ready, Case
  <1>6. Trimmed(Tried(K))
    BY <1>1, TriedTrims
  <1> QED
    BY <1>1, <1>4, <1>5, <1>6, ReadyCase DEF SelectCase

(* A select that has a default, and of which no case is ready.             *)
LEMMA SelectDefaultKeepsInv ==
  ASSUME WaitersInv, NEW g \in G, SelectDefault(g), Observe
  PROVE  WaitersInv'
  <1>1. \A k \in ToSet(call[g].cases) : ~Ready(k)
    BY DEF SelectDefault, NoneReady, ToSet, CaseOf
  <1>2. Trimmed(ch') /\ pc[g] \in {"sellock", "loop"}
    BY <1>1, TriedTrims DEF SelectDefault, NoneReady
  <1>3. End(g, Result("default", 0, None)) /\ Result("default", 0, None) \in Results
    BY DEF SelectDefault, Result, Results
  <1> QED
    BY <1>2, <1>3, GiveUpCase

-----------------------------------------------------------------------------
(* The cases of g in direction d on c, and the sudogs that are enqueued.   *)
CasesOn(g, d, c) == {i \in DOMAIN call[g].cases : CaseOf(g, i) = [dir |-> d, c |-> c]}

NewSudogs(g, order, d, c) ==
  LET mine == Keep(order, {n \in DOMAIN order : CaseOf(g, order[n]) = [dir |-> d, c |-> c]})
  IN [n \in DOMAIN mine |-> Sudog(g, mine[n])]

(* The order is one of all the cases of g, each of them once.              *)
Orders(g, order) ==
  /\ DOMAIN call[g].cases \in SUBSET (Nat \ {0})
  /\ order \in Seq(DOMAIN call[g].cases)
  /\ IsInjective(order)
  /\ ToSet(order) = DOMAIN call[g].cases

(* Each case of g gets one sudog, in the queue of its channel.             *)
LEMMA NewSudogsProperties ==
  ASSUME NEW g \in G, NEW order, Orders(g, order), NEW d, NEW c
  PROVE  /\ NewSudogs(g, order, d, c) \in Seq(Sudogs)
         /\ IsInjective(NewSudogs(g, order, d, c))
         /\ ToSet(NewSudogs(g, order, d, c)) = {Sudog(g, i) : i \in CasesOn(g, d, c)}
  <1> DEFINE D == DOMAIN call[g].cases
             P == {n \in DOMAIN order : CaseOf(g, order[n]) = [dir |-> d, c |-> c]}
             mine == Keep(order, P)
             new == [n \in DOMAIN mine |-> Sudog(g, mine[n])]
  <1>1. D \in SUBSET (Nat \ {0}) /\ order \in Seq(D) /\ IsInjective(order) /\ ToSet(order) = D
    BY DEF Orders
  <1>2. mine \in Seq(D) /\ ToSet(mine) = {order[k] : k \in P} /\ IsInjective(mine)
    <2>1. P \in SUBSET DOMAIN order
      OBVIOUS
    <2> HIDE DEF P, D
    <2> QED
      BY <1>1, <2>1, KeepProperties
  <1>3. ToSet(mine) = CasesOn(g, d, c)
    <2>1. \A i \in CasesOn(g, d, c) : \E k \in P : order[k] = i
      <3> SUFFICES ASSUME NEW i \in CasesOn(g, d, c)
                   PROVE  \E k \in P : order[k] = i
        OBVIOUS
      <3>1. i \in ToSet(order)
        BY <1>1 DEF CasesOn
      <3>2. PICK k \in DOMAIN order : order[k] = i
        BY <1>1, <3>1 DEF ToSet
      <3> QED
        BY <3>2 DEF CasesOn
    <2>2. \A k \in P : order[k] \in CasesOn(g, d, c)
      BY <1>1 DEF CasesOn
    <2> HIDE DEF mine, P
    <2>3. \A i : i \in ToSet(mine) <=> i \in CasesOn(g, d, c)
      BY <1>2, <2>1, <2>2
    <2> QED
      BY <2>3
  <1>4. NewSudogs(g, order, d, c) = new
    BY DEF NewSudogs
  <1> HIDE DEF mine, P
  <1>5. DOMAIN mine = 1..Len(mine) /\ Len(mine) \in Nat /\ \A n \in 1..Len(mine) : mine[n] \in D
    BY <1>2
  <1>6. \A i \in D : Sudog(g, i) \in Sudogs
    BY <1>1 DEF Sudog, Sudogs
  <1>7. \A i, j : Sudog(g, i) = Sudog(g, j) => i = j
    <2>1. \A i : Sudog(g, i).i = i
      BY DEF Sudog
    <2> QED
      BY <2>1
  <1>8. new \in Seq(Sudogs)
    BY <1>5, <1>6
  <1>9. IsInjective(new)
    BY <1>2, <1>7 DEF IsInjective
  <1>10. ToSet(new) = {Sudog(g, i) : i \in ToSet(mine)}
    BY <1>2, <1>5 DEF ToSet
  <1> QED
    BY <1>3, <1>4, <1>8, <1>9, <1>10

(* What the channels are when g has enqueued its sudogs.                   *)
LEMMA EnqueueFields ==
  ASSUME WaitersInv, NEW g \in G, NEW order, Orders(g, order), NEW chs, Trimmed(chs), NEW c \in C
  PROVE  LET h == Enqueue(g, order, chs)[c] IN
         /\ h \in Hchan(c) /\ h.qcount = ch[c].qcount /\ (h.closed <=> ch[c].closed)
         /\ h.recvq = chs[c].recvq \o NewSudogs(g, order, "recv", c)
         /\ h.sendq = chs[c].sendq \o NewSudogs(g, order, "send", c)
  <1> DEFINE h == Enqueue(g, order, chs)[c]
             r == NewSudogs(g, order, "recv", c)
             s == NewSudogs(g, order, "send", c)
  <1>1. h = [chs[c] EXCEPT !.recvq = chs[c].recvq \o r, !.sendq = chs[c].sendq \o s]
    BY DEF Enqueue, NewSudogs
  <1>2. r \in Seq(Sudogs) /\ s \in Seq(Sudogs)
    BY NewSudogsProperties
  <1> HIDE DEF h, r, s
  <1>3. /\ chs[c] \in Hchan(c) /\ (chs[c].closed <=> ch[c].closed) /\ chs[c].qcount = ch[c].qcount
    BY DEF Trimmed
  <1>4. chs[c].recvq \in Seq(Sudogs) /\ chs[c].sendq \in Seq(Sudogs)
    BY <1>3 DEF Hchan
  <1>5. chs[c].recvq \o r \in Seq(Sudogs) /\ chs[c].sendq \o s \in Seq(Sudogs)
    BY <1>2, <1>4
  <1>6. /\ h \in Hchan(c) /\ h.qcount = chs[c].qcount /\ h.closed = chs[c].closed
        /\ h.recvq = chs[c].recvq \o r /\ h.sendq = chs[c].sendq \o s
    BY <1>1, <1>3, <1>5 DEF Hchan
  <1> QED
    BY <1>3, <1>6 DEF h, r, s

(* Not ready, g enqueues its sudogs and parks.                             *)
ParksIn(g, order) ==
  /\ pc[g] \in {"lock", "sellock", "loop"}
  /\ call[g] # Idle
  /\ Orders(g, order)
  /\ \A i \in DOMAIN call[g].cases : ~Ready(CaseOf(g, i))
  /\ ch' = Enqueue(g, order, Tried(ToSet(call[g].cases)))
  /\ pc' = [pc EXCEPT ![g] = "parked"]
  /\ Unlock(g)
  /\ UNCHANGED <<call, gvars, result>>

(* What is left in the queues of the channels that g parks on: if it waits *)
(* in one of them, there is nothing to meet in the other.                  *)
LEMMA ParkedQueues ==
  ASSUME WaitersInv, NEW g \in G, NEW order, ParksIn(g, order), NEW c \in C
  PROVE  LET p(d) == IF d = "recv" THEN Tried(ToSet(call[g].cases))[c].recvq
                                 ELSE Tried(ToSet(call[g].cases))[c].sendq
         IN /\ ch'[c] \in Hchan(c) /\ ch'[c].qcount = ch[c].qcount /\ (ch'[c].closed <=> ch[c].closed)
            /\ \A d \in {"send", "recv"} :
                 /\ Queue(c, d)' = p(d) \o NewSudogs(g, order, d, c)
                 /\ Trims(p(d), Queue(c, d)) /\ p(d) \in Seq(Sudogs)
            /\ CasesOn(g, "send", c) # {} => ~ch[c].closed /\ ch[c].qcount = Size[c] /\ p("recv") = <<>>
            /\ CasesOn(g, "recv", c) # {} => ~ch[c].closed /\ ch[c].qcount = 0 /\ p("send") = <<>>
  <1> DEFINE K == ToSet(call[g].cases)
             chs == Tried(K)
             p(d) == IF d = "recv" THEN chs[c].recvq ELSE chs[c].sendq
  <1>1. Orders(g, order) /\ ch' = Enqueue(g, order, chs)
        /\ \A i \in DOMAIN call[g].cases : ~Ready(CaseOf(g, i))
    BY DEF ParksIn
  <1>2. \A k \in K : ~Ready(k)
    BY <1>1 DEF ToSet, CaseOf
  <1>3. Trimmed(chs)
    BY <1>2, TriedTrims
  <1>4. /\ ch[c].qcount \in 0..Size[c] /\ Size[c] \in Nat
        /\ ch[c].recvq \in Seq(Sudogs) /\ ch[c].sendq \in Seq(Sudogs)
    BY HchanFields, TypeHalves DEF WaitersInv
  <1>5. ASSUME NEW d \in {"send", "recv"}, CasesOn(g, d, c) # {}
        PROVE  [dir |-> d, c |-> c] \in K /\ ~Ready([dir |-> d, c |-> c])
    <2>1. PICK i \in DOMAIN call[g].cases : CaseOf(g, i) = [dir |-> d, c |-> c]
      BY <1>5 DEF CasesOn
    <2>2. call[g].cases[i] \in K
      BY DEF ToSet
    <2> QED
      BY <1>1, <2>1, <2>2 DEF CaseOf
  <1>6. chs[c] = [ch[c] EXCEPT !.recvq = IF [dir |-> "send", c |-> c] \in K THEN <<>> ELSE @,
                               !.sendq = IF [dir |-> "recv", c |-> c] \in K THEN <<>> ELSE @]
    BY DEF Tried
  <1>7. ch[c] \in Hchan(c)
    BY HchanFields, TypeHalves DEF WaitersInv
  <1>8. /\ chs[c].recvq = IF [dir |-> "send", c |-> c] \in K THEN <<>> ELSE ch[c].recvq
        /\ chs[c].sendq = IF [dir |-> "recv", c |-> c] \in K THEN <<>> ELSE ch[c].sendq
    BY <1>6, <1>7 DEF Hchan
  <1> HIDE DEF chs, K
  <1>9. CasesOn(g, "send", c) # {} => ~ch[c].closed /\ ch[c].qcount = Size[c] /\ p("recv") = <<>>
    <2> DEFINE k == [dir |-> "send", c |-> c]
    <2>1. k.dir = "send" /\ k.c = c /\ c # 0
      OBVIOUS
    <2>2. ~Ready(k) => ~ch[c].closed /\ ~(ch[c].qcount < Size[c])
      BY <2>1 DEF Ready
    <2> QED
      BY <1>4, <1>5, <1>8, <2>2
  <1>10. CasesOn(g, "recv", c) # {} => ~ch[c].closed /\ ch[c].qcount = 0 /\ p("send") = <<>>
    <2> DEFINE k == [dir |-> "recv", c |-> c]
    <2>1. k.dir = "recv" /\ k.c = c /\ c # 0
      OBVIOUS
    <2>2. ~Ready(k) => ~ch[c].closed /\ ~(ch[c].qcount > 0)
      BY <2>1 DEF Ready
    <2> QED
      BY <1>4, <1>5, <1>8, <2>2
  <1>11. /\ ch'[c] \in Hchan(c) /\ ch'[c].qcount = ch[c].qcount /\ (ch'[c].closed <=> ch[c].closed)
         /\ ch'[c].recvq = chs[c].recvq \o NewSudogs(g, order, "recv", c)
         /\ ch'[c].sendq = chs[c].sendq \o NewSudogs(g, order, "send", c)
    <2> DEFINE h == Enqueue(g, order, chs)[c]
    <2>1. /\ h \in Hchan(c) /\ h.qcount = ch[c].qcount /\ (h.closed <=> ch[c].closed)
          /\ h.recvq = chs[c].recvq \o NewSudogs(g, order, "recv", c)
          /\ h.sendq = chs[c].sendq \o NewSudogs(g, order, "send", c)
      BY <1>1, <1>3, EnqueueFields
    <2>2. ch'[c] = h
      BY <1>1
    <2> HIDE DEF h
    <2> QED
      BY <2>1, <2>2
  <1>12. \A d \in {"send", "recv"} :
           /\ Queue(c, d)' = p(d) \o NewSudogs(g, order, d, c)
           /\ Trims(p(d), Queue(c, d)) /\ p(d) \in Seq(Sudogs)
    <2>1. Trims(chs[c].recvq, ch[c].recvq) /\ Trims(chs[c].sendq, ch[c].sendq)
      BY <1>3 DEF Trimmed
    <2>2. chs[c].recvq \in Seq(Sudogs) /\ chs[c].sendq \in Seq(Sudogs)
      BY <1>3 DEF Trimmed, Hchan
    <2> QED
      BY <1>11, <2>1, <2>2 DEF Queue
  <1> QED
    BY <1>9, <1>10, <1>11, <1>12 DEF chs, K

(* Concatenation with an empty sequence.                                   *)
LEMMA EmptyConcat ==
  ASSUME NEW S, NEW q \in Seq(S)
  PROVE  <<>> \o q = q /\ q \o <<>> = q /\ <<>> \o <<>> = <<>>
  OBVIOUS

(* Whoever parks is in the queues of all its cases, and could meet nobody  *)
(* in them.                                                                *)
LEMMA ParkCase ==
  ASSUME WaitersInv, NEW g \in G, NEW order, ParksIn(g, order), Observe
  PROVE  WaitersInv'
  <1> DEFINE chs == Tried(ToSet(call[g].cases))
             p(c, d) == IF d = "recv" THEN chs[c].recvq ELSE chs[c].sendq
             new(c, d) == NewSudogs(g, order, d, c)
  <1>1. OthersOK /\ HchansOK
    BY TypeHalves DEF WaitersInv
  <1>2. /\ pc[g] \in {"lock", "sellock", "loop"} /\ call[g] # Idle
        /\ pc' = [pc EXCEPT ![g] = "parked"]
        /\ Unlock(g) /\ call' = call /\ selectDone' = selectDone /\ param' = param
        /\ elem' = elem /\ result' = result
    BY DEF ParksIn, gvars
  <1>3. /\ \A c \in C :
             /\ ch'[c] \in Hchan(c) /\ ch'[c].qcount = ch[c].qcount /\ (ch'[c].closed <=> ch[c].closed)
             /\ CasesOn(g, "send", c) # {} => ~ch[c].closed /\ ch[c].qcount = Size[c] /\ p(c, "recv") = <<>>
             /\ CasesOn(g, "recv", c) # {} => ~ch[c].closed /\ ch[c].qcount = 0 /\ p(c, "send") = <<>>
        /\ \A c \in C, d \in {"send", "recv"} :
             /\ Queue(c, d)' = p(c, d) \o new(c, d)
             /\ Trims(p(c, d), Queue(c, d)) /\ p(c, d) \in Seq(Sudogs)
    BY ParkedQueues
  <1>4. \A c, d : /\ new(c, d) \in Seq(Sudogs) /\ IsInjective(new(c, d))
                  /\ ToSet(new(c, d)) = {Sudog(g, i) : i \in CasesOn(g, d, c)}
    BY NewSudogsProperties DEF ParksIn
  <1>5. DOMAIN ch' = C
    BY DEF ParksIn, Enqueue
  <1> HIDE DEF p, new
  <1>6. \A c \in C, d \in {"send", "recv"} :
          CasesOn(g, d, c) = {} => new(c, d) = <<>> /\ Queue(c, d)' = p(c, d)
    <2> SUFFICES ASSUME NEW c \in C, NEW d \in {"send", "recv"}, CasesOn(g, d, c) = {}
                 PROVE  new(c, d) = <<>> /\ Queue(c, d)' = p(c, d)
      OBVIOUS
    <2>1. ToSet(new(c, d)) = {}
      BY <1>4
    <2>2. new(c, d) = <<>>
      BY <1>4, <2>1, ToSetProperties
    <2> QED
      BY <1>3, <2>2, EmptyConcat
  <1>7. \A c \in C, d \in {"send", "recv"} : Queue(c, d) \in Seq(Sudogs) /\ IsInjective(Queue(c, d))
    BY <1>1, HchanFields DEF WaitersInv, WaitQueues, SudogsOfWaiters
  <1>8. \A c \in C, d \in {"send", "recv"} :
          /\ IsInjective(p(c, d)) /\ ToSet(p(c, d)) \in SUBSET ToSet(Queue(c, d))
          /\ \A s \in ToSet(Queue(c, d)) : Live(s) => s \in ToSet(p(c, d))
          /\ \A s \in ToSet(p(c, d)) : s.g # g /\ Waits(s, d, c)
          /\ Queue(c, d) = <<>> => p(c, d) = <<>>
          /\ p(c, d) = Queue(c, d) \/ p(c, d) = <<>>
    <2> SUFFICES ASSUME NEW c \in C, NEW d \in {"send", "recv"}
                 PROVE  /\ IsInjective(p(c, d)) /\ ToSet(p(c, d)) \in SUBSET ToSet(Queue(c, d))
                        /\ \A s \in ToSet(Queue(c, d)) : Live(s) => s \in ToSet(p(c, d))
                        /\ \A s \in ToSet(p(c, d)) : s.g # g /\ Waits(s, d, c)
                        /\ Queue(c, d) = <<>> => p(c, d) = <<>>
                        /\ p(c, d) = Queue(c, d) \/ p(c, d) = <<>>
      OBVIOUS
    <2>1. \A s \in ToSet(Queue(c, d)) : s.g # g /\ Waits(s, d, c)
      BY <1>2, QueuedFacts DEF Waits
    <2>2. CASE p(c, d) = Queue(c, d)
      BY <1>7, <2>1, <2>2
    <2>3. CASE p(c, d) = <<>> /\ ~Found(Queue(c, d))
      <3>1. \A s \in ToSet(Queue(c, d)) : ~Live(s)
        BY <1>7, <2>3, DequeueProperties
      <3>2. IsInjective(<<>>) /\ ToSet(<<>>) = {}
        BY DEF IsInjective, ToSet
      <3> QED
        BY <2>3, <3>1, <3>2
    <2> QED
      BY <1>3, <2>2, <2>3 DEF Trims
  <1>9. \A c \in C, d \in {"send", "recv"} :
          /\ ToSet(Queue(c, d)') = ToSet(p(c, d)) \cup {Sudog(g, i) : i \in CasesOn(g, d, c)}
          /\ IsInjective(Queue(c, d)')
    <2> SUFFICES ASSUME NEW c \in C, NEW d \in {"send", "recv"}
                 PROVE  /\ ToSet(Queue(c, d)') = ToSet(p(c, d)) \cup {Sudog(g, i) : i \in CasesOn(g, d, c)}
                        /\ IsInjective(Queue(c, d)')
      OBVIOUS
    <2>1. \A s \in ToSet(new(c, d)) : s.g = g
      BY <1>4 DEF Sudog
    <2>2. ToSet(p(c, d)) \cap ToSet(new(c, d)) = {}
      BY <1>8, <2>1
    <2>3. p(c, d) \in Seq(Sudogs) /\ new(c, d) \in Seq(Sudogs) /\ Queue(c, d)' = p(c, d) \o new(c, d)
      BY <1>3, <1>4
    <2>4. /\ ToSet(p(c, d) \o new(c, d)) = ToSet(p(c, d)) \cup ToSet(new(c, d))
          /\ IsInjective(p(c, d) \o new(c, d))
      BY <1>4, <1>8, <2>2, <2>3, ConcatMembers
    <2> QED
      BY <1>4, <2>3, <2>4
  <1>10. \A c \in C : lock'[c] # g /\ (lock'[c] = lock[c] \/ (lock[c] = g /\ lock'[c] = None))
    BY <1>1, <1>2, UnlockAll
  <1>11. Closes
    <2>1. \A c \in C : ch'[c].qcount \in 0..ch[c].qcount
      BY <1>1, <1>3, HchanFields
    <2> QED
      BY <1>3, <2>1 DEF Closes
  <1>12. OthersOK' /\ TypeOK'
    <2>1. lock' \in [C -> G \cup {None}]
      BY <1>1, <1>2, UnlockAll
    <2>2. OthersOK'
      BY <1>1, <1>2, <2>1, SeenType DEF OthersOK, PC
    <2>3. HchansOK'
      BY <1>3, <1>5, HchansStep
    <2> QED
      BY <2>2, <2>3, TypeHalves
  <1>13. StepOf(g, "parked", {})
    BY <1>1, <1>2, <1>10, <1>11, <1>12 DEF OthersOK, StepOf
  <1>14. pc'[g] = "parked" /\ \A x \in G \ {g} : pc'[x] = pc[x]
    BY <1>13 DEF StepOf
  <1>15. Fits(g)'
    <2>1. WakeUpFits(g) /\ CallFits(g)
      BY DEF WaitersInv, WaitQueues
    <2> QED
      BY <1>2, <1>10, <1>14, <2>1
      DEF Fits, CallFits, LocksFit, WakeUpFits, SeenFits, InSelect, FastPath, SendPath, RecvPath
  <1>16. \A x \in G : Fits(x)'
    BY <1>13, <1>15, OthersFit DEF PC
  <1>17. SudogsOfWaiters'
    <2> SUFFICES ASSUME NEW c \in C, NEW d \in {"send", "recv"}
                 PROVE  /\ IsInjective(Queue(c, d)')
                        /\ \A s \in ToSet(Queue(c, d)') : Waits(s, d, c)'
                        /\ \A x \in G : pc'[x] = "parked" =>
                             \A i \in DOMAIN call'[x].cases :
                               CaseOf(x, i)' = [dir |-> d, c |-> c] => Sudog(x, i) \in ToSet(Queue(c, d)')
      BY Zenon DEF SudogsOfWaiters, Sudog
    <2>1. \A x, i : CaseOf(x, i)' = CaseOf(x, i)
      BY <1>2 DEF CaseOf
    <2>2. ASSUME NEW s \in ToSet(p(c, d))
          PROVE  Waits(s, d, c)'
      <3>1. s.g \in G \ {g} /\ Waits(s, d, c)
        BY <1>8, QueuedFacts
      <3>2. pc'[s.g] = pc[s.g]
        BY <1>14, <3>1
      <3> QED
        BY <1>2, <2>1, <3>1, <3>2 DEF Waits
    <2>3. ASSUME NEW i \in CasesOn(g, d, c)
          PROVE  Waits(Sudog(g, i), d, c)'
      <3>1. Sudog(g, i).g = g /\ Sudog(g, i).i = i
        BY DEF Sudog
      <3>2. i \in DOMAIN call'[g].cases /\ CaseOf(g, i)' = [dir |-> d, c |-> c]
        BY <1>2, <2>1 DEF CasesOn
      <3> QED
        BY <1>14, <3>1, <3>2 DEF Waits, Sudog
    <2>4. ASSUME NEW x \in G, pc'[x] = "parked", NEW i \in DOMAIN call'[x].cases,
                 CaseOf(x, i)' = [dir |-> d, c |-> c]
          PROVE  Sudog(x, i) \in ToSet(Queue(c, d)')
      <3>1. i \in DOMAIN call[x].cases /\ CaseOf(x, i) = [dir |-> d, c |-> c]
        BY <1>2, <2>1, <2>4
      <3>2. CASE x = g
        BY <1>9, <3>1, <3>2 DEF CasesOn
      <3>3. CASE x # g
        <4>1. pc[x] = "parked"
          BY <1>14, <2>4, <3>3
        <4>2. Sudog(x, i) \in ToSet(Queue(c, d))
          BY <3>1, <4>1 DEF WaitersInv, WaitQueues, SudogsOfWaiters
        <4>3. Sudog(x, i).g = x
          BY DEF Sudog
        <4>4. Live(Sudog(x, i))
          BY <4>1, <4>2, <4>3, QueuedFacts
        <4> QED
          BY <1>8, <1>9, <4>2, <4>4
      <3> QED
        BY <3>2, <3>3
    <2> QED
      BY <1>9, <2>2, <2>3, <2>4
  <1>18. QueueInvariants'
    <2> SUFFICES ASSUME NEW c \in C
                 PROVE  /\ ch'[c].sendq # <<>> /\ ch'[c].recvq # <<>> =>
                             /\ Size[c] = 0
                             /\ \E x \in G : \A s \in ToSet(ch'[c].recvq) \cup ToSet(ch'[c].sendq) : s.g = x
                        /\ Size[c] > 0 /\ ch'[c].qcount > 0 => ch'[c].recvq = <<>>
                        /\ ch'[c].qcount < Size[c] => ch'[c].sendq = <<>>
      BY DEF QueueInvariants
    <2> DEFINE S == CasesOn(g, "send", c) # {}
               R == CasesOn(g, "recv", c) # {}
    <2>1. /\ ch[c].sendq # <<>> /\ ch[c].recvq # <<>> =>
               Size[c] = 0 /\ \E x \in G : \A s \in ToSet(ch[c].recvq) \cup ToSet(ch[c].sendq) : s.g = x
          /\ Size[c] > 0 /\ ch[c].qcount > 0 => ch[c].recvq = <<>>
          /\ ch[c].qcount < Size[c] => ch[c].sendq = <<>>
      BY DEF WaitersInv, WaitQueues, QueueInvariants
    <2>2. /\ S => ch[c].qcount = Size[c] /\ p(c, "recv") = <<>>
          /\ R => ch[c].qcount = 0 /\ p(c, "send") = <<>>
          /\ ~S => ch'[c].sendq = p(c, "send")
          /\ ~R => ch'[c].recvq = p(c, "recv")
          /\ ch'[c].qcount = ch[c].qcount /\ ch[c].qcount \in Nat /\ Size[c] \in Nat
      BY <1>1, <1>3, <1>6, HchanFields DEF Queue
    <2>3. /\ ch[c].recvq = <<>> => p(c, "recv") = <<>>
          /\ ch[c].sendq = <<>> => p(c, "send") = <<>>
          /\ p(c, "recv") = ch[c].recvq \/ p(c, "recv") = <<>>
          /\ p(c, "send") = ch[c].sendq \/ p(c, "send") = <<>>
      BY <1>8 DEF Queue
    <2>4. S /\ R => Size[c] = 0 /\ \A s \in ToSet(ch'[c].recvq) \cup ToSet(ch'[c].sendq) : s.g = g
      <3> SUFFICES ASSUME S, R
                   PROVE  Size[c] = 0 /\ \A s \in ToSet(ch'[c].recvq) \cup ToSet(ch'[c].sendq) : s.g = g
        OBVIOUS
      <3>1. /\ ToSet(ch'[c].recvq) = ToSet(p(c, "recv")) \cup {Sudog(g, i) : i \in CasesOn(g, "recv", c)}
            /\ ToSet(ch'[c].sendq) = ToSet(p(c, "send")) \cup {Sudog(g, i) : i \in CasesOn(g, "send", c)}
        BY <1>9 DEF Queue
      <3>2. ToSet(p(c, "recv")) = {} /\ ToSet(p(c, "send")) = {}
        BY <2>2 DEF ToSet
      <3>3. \A i : Sudog(g, i).g = g
        BY DEF Sudog
      <3> QED
        BY <2>2, <3>1, <3>2, <3>3
    <2> HIDE DEF S, R
    <2> QED
      BY <2>1, <2>2, <2>3, <2>4
  <1>19. CloseReleases'
    <2> SUFFICES ASSUME NEW c \in C, ch'[c].closed
                 PROVE  \/ ch'[c].recvq = <<>> /\ ch'[c].sendq = <<>>
                        \/ lock'[c] \in G /\ pc'[lock'[c]] = "release"
      BY DEF CloseReleases
    <2>1. ch[c].closed /\ CasesOn(g, "send", c) = {} /\ CasesOn(g, "recv", c) = {}
      BY <1>3
    <2>2. \/ ch[c].recvq = <<>> /\ ch[c].sendq = <<>>
          \/ lock[c] \in G /\ pc[lock[c]] = "release"
      BY <2>1 DEF WaitersInv, WaitQueues, CloseReleases
    <2>3. CASE ch[c].recvq = <<>> /\ ch[c].sendq = <<>>
      <3>1. p(c, "recv") = <<>> /\ p(c, "send") = <<>>
        BY <1>8, <2>3 DEF Queue
      <3> QED
        BY <1>6, <2>1, <3>1 DEF Queue
    <2>4. CASE lock[c] \in G /\ pc[lock[c]] = "release"
      <3>1. lock[c] # g
        BY <1>2, <2>4
      <3> QED
        BY <1>10, <1>14, <2>4, <3>1
    <2> QED
      BY <2>2, <2>3, <2>4
  <1> QED
    BY <1>12, <1>16, <1>17, <1>18, <1>19 DEF WaitersInv, WaitQueues, Fits

(* A send or a receive parks: it has one case.                             *)
LEMMA ParkKeepsInv ==
  ASSUME WaitersInv, NEW g \in G, Park(g), Observe
  PROVE  WaitersInv'
  <1>1. /\ pc[g] = "lock" /\ ~Ready(CaseOf(g, 1))
        /\ ch' = Enqueue(g, <<1>>, Tried({CaseOf(g, 1)}))
        /\ pc' = [pc EXCEPT ![g] = "parked"] /\ lock' = lock
        /\ UNCHANGED <<call, gvars, result>>
    BY DEF Park, Locked, Goto
  <1>2. CallFits(g) /\ LocksFit(g)
    BY DEF WaitersInv
  <1>3. call[g] # Idle /\ ~IsSelect(g) /\ \A c \in C : lock[c] # g
    BY <1>1, <1>2 DEF CallFits, LocksFit, InSelect
  <1>4. DOMAIN call[g].cases = {1} /\ ToSet(call[g].cases) = {CaseOf(g, 1)}
    BY <1>3, CallShape DEF WaitersInv
  <1>5. Orders(g, <<1>>)
    <2>1. <<1>> \in Seq({1}) /\ ToSet(<<1>>) = {1} /\ IsInjective(<<1>>)
      BY DEF ToSet, IsInjective
    <2> QED
      BY <1>4, <2>1 DEF Orders
  <1>6. Unlock(g)
    <2>1. lock \in [C -> G \cup {None}]
      BY DEF WaitersInv, TypeOK
    <2> QED
      BY <1>1, <1>3, <2>1 DEF Unlock
  <1>7. ParksIn(g, <<1>>)
    BY <1>1, <1>3, <1>4, <1>5, <1>6 DEF ParksIn
  <1> QED
    BY <1>7, ParkCase

(* A select parks on its channels.                                         *)
LEMMA SelectParkKeepsInv ==
  ASSUME WaitersInv, NEW g \in G, NEW order \in SetToSeqs(DOMAIN call[g].cases), SelectPark(g, order),
         Observe
  PROVE  WaitersInv'
  <1> DEFINE D == DOMAIN call[g].cases
             n == Cardinality(D)
  <1>1. /\ pc[g] \in {"sellock", "loop"}
        /\ \A i \in D : ~Ready(CaseOf(g, i))
        /\ ch' = Enqueue(g, order, Tried(ToSet(call[g].cases)))
        /\ pc' = [pc EXCEPT ![g] = "parked"] /\ Unlock(g)
        /\ UNCHANGED <<call, gvars, result>>
    BY DEF SelectPark, NoneReady
  <1>2. call[g] # Idle /\ IsSelect(g)
    BY <1>1 DEF WaitersInv, CallFits, InSelect
  <1>3. call[g].cases \in Seq(Case)
    BY <1>2, CallShape DEF WaitersInv
  <1>4. D = 1..Len(call[g].cases) /\ Len(call[g].cases) \in Nat
    BY <1>3
  <1>5. IsFiniteSet(D) /\ n \in Nat /\ D \in SUBSET (Nat \ {0})
    <2>1. IsFiniteSet(D)
      BY <1>4, FS_Interval
    <2> QED
      BY <1>4, <2>1, FS_CardinalityType
  <1>6. order \in [1..n -> D] /\ \A i, j \in 1..n : i # j => order[i] # order[j]
    BY DEF SetToSeqs
  <1> HIDE DEF D
  <1>7. order \in Seq(D) /\ IsInjective(order)
    BY <1>5, <1>6 DEF IsInjective
  <1>8. ToSet(order) = D
    <2>1. order \in Injection(1..n, D)
      BY <1>6, <1>7 DEF Injection
    <2>2. IsFiniteSet(1..n) /\ Cardinality(1..n) = n
      BY <1>5, FS_Interval
    <2>3. order \in Surjection(1..n, D)
      BY <1>5, <2>1, <2>2, FS_Injection
    <2> QED
      BY <1>6, <2>3 DEF Surjection, ToSet
  <1>9. Orders(g, order)
    BY <1>5, <1>7, <1>8 DEF Orders, D
  <1>10. ParksIn(g, order)
    BY <1>1, <1>2, <1>9 DEF ParksIn, D
  <1> QED
    BY <1>10, ParkCase

-----------------------------------------------------------------------------
(* The invariant holds when nothing has been called.                       *)
LEMMA InitInv ==
  ASSUME Init
  PROVE  WaitersInv
  <1>1. \A c \in C : Size[c] \in Nat
    BY SizeAssumption
  <1>2. \A c \in C : /\ ch[c] = makechan(Size[c]) /\ ch[c].recvq = <<>> /\ ch[c].sendq = <<>>
                     /\ ch[c].qcount = 0 /\ ~ch[c].closed
    BY DEF Init, makechan
  <1>3. HchansOK
    <2>1. <<>> \in Seq(Sudogs)
      OBVIOUS
    <2>2. \A c \in C : ch[c] \in Hchan(c)
      <3> SUFFICES ASSUME NEW c \in C
                   PROVE  ch[c] \in Hchan(c)
        OBVIOUS
      <3>1. 0 \in Index(c) /\ 0 \in 0..Size[c]
        BY <1>1 DEF Index
      <3> DEFINE b == [i \in 0..(Size[c] - 1) |-> None]
      <3>2. b \in [0..(Size[c] - 1) -> G \cup {None}]
        OBVIOUS
      <3>3. ch[c] = [closed |-> FALSE, buf |-> b, sendx |-> 0, recvx |-> 0, qcount |-> 0,
                     recvq |-> <<>>, sendq |-> <<>>]
        BY <1>2 DEF makechan
      <3> HIDE DEF b
      <3> QED
        BY <2>1, <3>1, <3>2, <3>3 DEF Hchan
    <2> QED
      BY <2>2 DEF HchansOK, Init
  <1>4. OthersOK
    BY DEF OthersOK, Init, Results, Pending, PC
  <1>5. TypeOK
    BY <1>3, <1>4, TypeHalves
  <1>6. \A g \in G : CallFits(g) /\ LocksFit(g) /\ SeenFits(g) /\ WakeUpFits(g)
    BY NoneAssumption
    DEF Init, CallFits, LocksFit, SeenFits, WakeUpFits, InSelect, FastPath, SendPath, RecvPath
  <1>7. QueueInvariants /\ CloseReleases
    BY <1>2 DEF QueueInvariants, CloseReleases
  <1>8. SudogsOfWaiters
    <2>1. ToSet(<<>>) = {} /\ IsInjective(<<>>)
      BY DEF ToSet, IsInjective
    <2>2. \A c \in C : \A d \in {"send", "recv"} : Queue(c, d) = <<>>
      BY <1>2 DEF Queue
    <2>3. \A g \in G : pc[g] = "idle"
      BY DEF Init
    <2> QED
      BY <2>1, <2>2, <2>3 DEF SudogsOfWaiters
  <1> QED
    BY <1>5, <1>6, <1>7, <1>8 DEF WaitersInv, WaitQueues

(* Nothing moves.                                                          *)
LEMMA StutterKeepsInv ==
  ASSUME WaitersInv, UNCHANGED vars
  PROVE  WaitersInv'
  <1>1. /\ ch' = ch /\ lock' = lock /\ pc' = pc /\ call' = call /\ selectDone' = selectDone
        /\ param' = param /\ elem' = elem /\ result' = result /\ seen' = seen
    BY DEF vars
  <1>2. TypeOK'
    BY <1>1 DEF WaitersInv, TypeOK, Hchan, Index
  <1>3. \A q : Found(q)' <=> Found(q)
    BY <1>1, FoundSame
  <1>4. \A g \in G : Fits(g)'
    <2> SUFFICES ASSUME NEW g \in G
                 PROVE  Fits(g)'
      OBVIOUS
    <2>1. CallFits(g) /\ LocksFit(g) /\ WakeUpFits(g) /\ SeenFits(g)
      BY DEF WaitersInv, WaitQueues
    <2>2. /\ IsSelect(g)' <=> IsSelect(g)
          /\ The(g)' = The(g) /\ ChansOf(g)' = ChansOf(g) /\ \A i : CaseOf(g, i)' = CaseOf(g, i)
      BY <1>1, SameCall
    <2>3. CallFits(g)'
      BY <1>1, <2>1, <2>2 DEF CallFits
    <2>4. LocksFit(g)'
      BY <1>1, <2>1, <2>2 DEF LocksFit, AllLocked
    <2>5. WakeUpFits(g)'
      BY <1>1, <2>1, <2>2 DEF WakeUpFits
    <2>6. OpenNotReady(g)' <=> OpenNotReady(g)
      BY <1>1, <1>3, <2>2 DEF OpenNotReady, Ready
    <2>7. SeenFits(g)'
      BY <1>1, <2>1, <2>2, <2>6 DEF SeenFits
    <2> QED
      BY <2>3, <2>4, <2>5, <2>7 DEF Fits
  <1>5. QueueInvariants' /\ CloseReleases'
    BY <1>1 DEF WaitersInv, WaitQueues, QueueInvariants, CloseReleases
  <1>6. SudogsOfWaiters'
    <2>1. SudogsOfWaiters
      BY DEF WaitersInv, WaitQueues
    <2> QED
      BY <1>1, <2>1 DEF SudogsOfWaiters, Waits, Queue, CaseOf
  <1> QED
    BY <1>2, <1>4, <1>5, <1>6 DEF WaitersInv, WaitQueues, Fits

(* Each step of a goroutine keeps the invariant.                           *)
LEMMA StepKeepsInv ==
  ASSUME WaitersInv, NEW g \in G, Step(g), Observe
  PROVE  WaitersInv'
  <1>1. CASE SingleStep(g)
    BY <1>1, NilChanKeepsInv, FastStepKeepsInv, LockedKeepsInv, ParkKeepsInv, WakeUpKeepsInv,
       closechanKeepsInv, ReleaseAllKeepsInv DEF SingleStep, FastStep
  <1>2. CASE SelectStep(g)
    BY <1>2, sellockKeepsInv, SelectCaseKeepsInv, SelectDefaultKeepsInv, SelectParkKeepsInv,
       SelectWakeUpKeepsInv DEF SelectStep
  <1>3. CASE Return(g)
    BY <1>3, ReturnKeepsInv
  <1> QED
    BY <1>1, <1>2, <1>3 DEF Step

(* The invariant is inductive.                                             *)
LEMMA NextKeepsInv ==
  ASSUME WaitersInv, [Next]_vars
  PROVE  WaitersInv'
  <1>1. CASE Next
    BY <1>1, StepKeepsInv, CallKeepsInv DEF Next, NextWith
  <1>2. CASE UNCHANGED vars
    BY <1>2, StutterKeepsInv
  <1> QED
    BY <1>1, <1>2

(* Nobody sleeps on a channel who could go on, each sudog in a queue is of *)
(* a goroutine that is still in the call, a closed channel has no waiters, *)
(* and a goroutine wakes up to what it was woken for, for any goroutines,  *)
(* channels, buffer sizes and cases.                                       *)
LEMMA WaitersInvariance == Spec => []WaitersInv
  <1>1. Init => WaitersInv
    BY InitInv
  <1>2. WaitersInv /\ [Next]_vars => WaitersInv'
    BY NextKeepsInv
  <1> QED
    BY <1>1, <1>2, PTL DEF Spec

-----------------------------------------------------------------------------
(* sellock: of two goroutines that each wait for a lock of the other, both *)
(* would have taken the greater address first.                             *)
THEOREM SelectsDoNotDeadlock == Spec => []NoLockCycle
  <1>1. WaitersInv => NoLockCycle
    <2> SUFFICES ASSUME WaitersInv, NEW g \in G, NEW h \in G, NEW c \in C, NEW d \in C,
                        lock[c] = g, lock[d] = h, c # d,
                        pc[g] \in {"sellock", "relock"}, ~AllLocked(g), NextLock(g) = d,
                        pc[h] \in {"sellock", "relock"}, ~AllLocked(h), NextLock(h) = c
                 PROVE  FALSE
      BY DEF NoLockCycle
    <2>1. LocksFit(g) /\ LocksFit(h)
      BY DEF WaitersInv
    <2>2. c \in ChansOf(g) /\ d \in ChansOf(h)
      BY <2>1 DEF LocksFit
    <2>3. d \in ChansOf(g) /\ lock[d] # g /\ c \in ChansOf(h) /\ lock[c] # h
      BY NextLockLeast
    <2>4. c < d /\ d < c
      BY <2>1, <2>2, <2>3 DEF LocksFit
    <2>5. c \in Nat /\ d \in Nat
      BY SizeAssumption
    <2> QED
      BY <2>4, <2>5
  <1> QED
    BY <1>1, WaitersInvariance, PTL

(* What the step of another goroutine does to g is to make it ready.       *)
LEMMA OnlyMadeReady ==
  ASSUME WaitersInv, NEW h \in G, Step(h) \/ \E o \in Calls : Call(h, o), NEW g \in G \ {h}
  PROVE  pc'[g] \in {pc[g], "relock", "woken"}
  <1>1. pc \in [G -> PC]
    BY DEF WaitersInv, TypeOK
  <1>2. \A r : End(h, r) => pc'[g] = pc[g]
    BY <1>1 DEF End
  <1>3. \A r, s, v : Complete(h, r, s, v) => pc'[g] \in {pc[g], "relock", "woken"}
    BY <1>1 DEF Complete, Resume
  <1>4. \A i, c, chs : SendCase(h, i, c, chs) \/ RecvCase(h, i, c, chs) =>
                         pc'[g] \in {pc[g], "relock", "woken"}
    BY <1>2, <1>3 DEF SendCase, RecvCase, SendOnClosed, SendToReceiver, SendToBuffer,
       RecvOnClosed, RecvFromSender, RecvFromBuffer
  <1>5. \A a, b : Goto(h, a, b) \/ GoOn(h, b) => pc'[g] = pc[g]
    BY <1>1 DEF Goto, GoOn
  <1>6. FastStep(h) => pc'[g] = pc[g]
    BY <1>2, <1>5 DEF FastStep, GiveUp, SendLoadClosed, SendLoadFull, SendLoadFullFirst,
       SendLoadClosedSecond, RecvLoadEmpty, RecvLoadClosed, RecvLoadEmptyAgain
  <1>7. ReleaseAll(h) => pc'[g] \in {pc[g], "relock", "woken"}
    BY DEF ReleaseAll, Resume
  <1>8. NilChan(h) \/ chansend(h) \/ chanrecv(h) \/ WouldBlock(h) \/ Park(h) \/ WakeUp(h) \/ closechan(h) =>
          pc'[g] \in {pc[g], "relock", "woken"}
    BY <1>2, <1>4, <1>5 DEF NilChan, chansend, chanrecv, WouldBlock, Park, WakeUp, closechan
  <1>9. SelectStep(h) => pc'[g] \in {pc[g], "relock", "woken"}
    BY <1>1, <1>2, <1>4, <1>5
    DEF SelectStep, sellock, SelectCase, SelectDefault, SelectPark, SelectWakeUp
  <1>10. Return(h) \/ (\E o \in Calls : Call(h, o)) => pc'[g] = pc[g]
    BY <1>5 DEF Return, Call
  <1> QED
    BY <1>6, <1>7, <1>8, <1>9, <1>10 DEF Step, SingleStep, FastStep

(* A select that a close has woken does not go to sleep again: the channel *)
(* is still closed, so that one of its cases is ready.                     *)
THEOREM ClosedSelectEnds == Spec => LoopEnds
  <1>1. ASSUME WaitersInv, Next, NEW g \in G, pc[g] = "loop"
        PROVE  pc'[g] # "parked"
    <2>1. PICK h \in G : Step(h) \/ \E o \in Calls : Call(h, o)
      BY <1>1 DEF Next, NextWith
    <2>2. CASE h # g
      BY <1>1, <2>1, <2>2, OnlyMadeReady
    <2>3. CASE h = g
      <3>1. pc \in [G -> PC]
        BY <1>1 DEF WaitersInv, TypeOK
      <3>2. ~(\E o \in Calls : Call(g, o)) /\ ~Return(g)
        BY <1>1 DEF Call, Goto, Return
      <3>3. ~SingleStep(g)
        BY <1>1 DEF SingleStep, NilChan, SendLoadClosed, SendLoadFull, SendLoadFullFirst,
           SendLoadClosedSecond, RecvLoadEmpty, RecvLoadClosed, RecvLoadEmptyAgain, chansend,
           chanrecv, WouldBlock, Park, WakeUp, closechan, ReleaseAll, Locked, Goto
      <3>4. SelectStep(g)
        BY <2>1, <2>3, <3>2, <3>3 DEF Step
      <3>5. ~NoneReady(g)
        <4>1. PICK c \in ChansOf(g) : ch[c].closed
          BY <1>1 DEF WaitersInv, WaitQueues, WakeUpFits
        <4>2. PICK i \in DOMAIN call[g].cases : CaseOf(g, i).c = c
          BY DEF ChansOf
        <4>3. c \in C /\ c # 0
          BY SizeAssumption DEF ChansOf
        <4>4. Ready(CaseOf(g, i))
          BY <4>1, <4>2, <4>3 DEF Ready
        <4> QED
          BY <4>4 DEF NoneReady
      <3>6. ~sellock(g) /\ ~SelectWakeUp(g) /\ ~SelectDefault(g) /\ ~(\E order : SelectPark(g, order))
        BY <1>1, <3>5 DEF sellock, SelectWakeUp, Goto, SelectDefault, SelectPark
      <3>7. PICK i, K : SelectCase(g, i, K)
        BY <3>4, <3>6 DEF SelectStep
      <3>8. \A r : End(g, r) => pc'[g] = "ret"
        BY <3>1 DEF End
      <3>9. \A r, s, v : Complete(g, r, s, v) => pc'[g] \in {"ret", "relock", "woken"}
        BY <3>1 DEF Complete, Resume
      <3> QED
        BY <3>7, <3>8, <3>9 DEF SelectCase, SendCase, RecvCase, SendOnClosed, SendToReceiver,
           SendToBuffer, RecvOnClosed, RecvFromSender, RecvFromBuffer
    <2> QED
      BY <2>2, <2>3
  <1>2. WaitersInv /\ [Next]_vars => [\A g \in G : pc[g] = "loop" => pc'[g] # "parked"]_vars
    BY <1>1
  <1> QED
    BY <1>2, WaitersInvariance, PTL DEF Spec, LoopEnds

(* A non-blocking receive, or send to a buffer, that gives up without the  *)
(* lock does so only if there was a moment for it, in whichever order the  *)
(* two loads of a send are made.                                           *)
THEOREM FastPathIsRight == Spec => GivesUpRightly
  <1>1. ASSUME WaitersInv, Next, NEW g \in G, GivesUp(g),
               CaseOf(g, 1).dir = "recv" \/ Size[The(g)] > 0
        PROVE  seen[g]
    <2>1. PICK h \in G : Step(h) \/ \E o \in Calls : Call(h, o)
      BY <1>1 DEF Next, NextWith
    <2>2. pc[g] \in FastPath /\ pc'[g] = "ret" /\ result'[g].how = "default"
      BY <1>1 DEF GivesUp
    <2>3. h = g
      BY <1>1, <2>1, <2>2, OnlyMadeReady DEF FastPath, SendPath, RecvPath
    <2>4. pc \in [G -> PC] /\ result \in [G -> Results] /\ CallFits(g) /\ SeenFits(g)
      BY <1>1 DEF WaitersInv, TypeOK
    <2>5. The(g) \in C /\ (pc[g] \in SendPath => CaseOf(g, 1).dir = "send")
      BY <2>2, <2>4 DEF CallFits
    <2>6. /\ OpenNotReady(g) => seen[g]
          /\ pc[g] \in {"recvClosed", "sendClosedSecond"} => seen[g] \/ ch[The(g)].closed
          /\ pc[g] = "sendFull" /\ Size[The(g)] > 0 /\ ch[The(g)].closed =>
               seen[g] \/ ch[The(g)].qcount < Size[The(g)]
      BY <2>2, <2>4 DEF SeenFits
    <2>7. FastStep(g)
      BY <2>1, <2>2, <2>3 DEF FastPath, SendPath, RecvPath, FastStep, Step, SingleStep, SelectStep, NilChan,
         chansend, chanrecv, WouldBlock, Park, WakeUp, closechan, ReleaseAll, Locked, Goto, sellock,
         SelectCase, SelectDefault, SelectPark, NoneReady, SelectWakeUp, Return, Call
    <2>8. \A to : GoOn(g, to) => pc'[g] = to
      BY <2>4 DEF GoOn
    <2>9. \A i : End(g, Result("closed", i, None)) => result'[g].how = "closed"
      BY <2>4 DEF End, Result
    <2>10. CASE SendLoadFull(g)
      <3>1. pc[g] = "sendFull" /\ full(The(g))
        BY <2>2, <2>8, <2>10 DEF SendLoadFull
      <3>2. CaseOf(g, 1).dir = "send" /\ Size[The(g)] > 0
        BY <1>1, <2>5, <3>1 DEF SendPath
      <3>3. ch[The(g)].qcount = Size[The(g)] /\ Size[The(g)] \in Nat
        <4>1. Size[The(g)] \in Nat
          BY <2>5, SizeAssumption
        <4>2. Size[The(g)] # 0
          BY <3>2, <4>1
        <4> QED
          BY <3>1, <4>1, <4>2 DEF full
      <3>4. CASE ch[The(g)].closed
        BY <2>6, <3>1, <3>2, <3>3, <3>4
      <3>5. CASE ~ch[The(g)].closed
        BY <1>1, <2>5, <2>6, <3>1, <3>2, <3>5, FullNotReady
      <3> QED
        BY <3>4, <3>5
    <2>11. CASE SendLoadClosedSecond(g) \/ RecvLoadClosed(g)
      BY <2>2, <2>6, <2>8, <2>11 DEF SendLoadClosedSecond, RecvLoadClosed
    <2>12. ~SendLoadClosed(g) /\ ~SendLoadFullFirst(g) /\ ~RecvLoadEmpty(g) /\ ~RecvLoadEmptyAgain(g)
      BY <2>2, <2>8, <2>9 DEF SendLoadClosed, SendLoadFullFirst, RecvLoadEmpty, RecvLoadEmptyAgain
    <2> QED
      BY <2>7, <2>10, <2>11, <2>12 DEF FastStep
  <1>2. WaitersInv /\ [Next]_vars =>
          [\A g \in G : GivesUp(g) /\ (CaseOf(g, 1).dir = "recv" \/ Size[The(g)] > 0) => seen[g]]_vars
    BY <1>1
  <1> QED
    BY <1>2, WaitersInvariance, PTL DEF Spec, GivesUpRightly

-----------------------------------------------------------------------------
(* The places of a buffer, counted from recvx: they stay in it, and those  *)
(* of its values differ.                                                   *)
LEMMA PlaceProperties ==
  ASSUME NEW c, Size[c] \in Nat, Size[c] > 0, NEW h, h.recvx \in 0..(Size[c] - 1)
  PROVE  /\ \A k \in 1..(Size[c] + 1) : Place(h, c, k) \in 0..(Size[c] - 1)
         /\ \A k, l \in 1..Size[c] : Place(h, c, k) = Place(h, c, l) => k = l
         /\ Place(h, c, 1) = h.recvx /\ Place(h, c, Size[c] + 1) = h.recvx
         /\ \A k \in 1..Size[c] : Place(h, c, k + 1) = Inc(c, Place(h, c, k))
  <1> DEFINE n == Size[c]
             x == h.recvx
             at(k) == IF x + k - 1 < n THEN x + k - 1 ELSE x + k - 1 - n
  <1>1. \A k \in Nat : Place(h, c, k) = at(k)
    BY DEF Place
  <1>2. n \in Nat /\ n > 0 /\ x \in 0..(n - 1)
    OBVIOUS
  <1> HIDE DEF n, x
  <1>3. \A k \in 1..(n + 1) : at(k) \in 0..(n - 1)
    BY <1>2
  <1>4. \A k, l \in 1..n : at(k) = at(l) => k = l
    BY <1>2
  <1>5. at(1) = x /\ at(n + 1) = x
    BY <1>2
  <1>6. \A k \in 1..n : at(k + 1) = IF at(k) + 1 = n THEN 0 ELSE at(k) + 1
    BY <1>2
  <1>7. \A y : Inc(c, y) = IF y + 1 = n THEN 0 ELSE y + 1
    BY DEF Inc, n
  <1> HIDE DEF at
  <1> QED
    BY <1>1, <1>3, <1>4, <1>5, <1>6, <1>7 DEF n, x

(* When recvx moves on by one, so do the places.                           *)
LEMMA NextPlace ==
  ASSUME NEW c, Size[c] \in Nat, Size[c] > 0, NEW h, h.recvx \in 0..(Size[c] - 1),
         NEW k, k.recvx = Inc(c, h.recvx)
  PROVE  /\ k.recvx \in 0..(Size[c] - 1)
         /\ \A i \in 1..Size[c] : Place(k, c, i) = Place(h, c, i + 1)
         /\ Place(k, c, Size[c] + 1) = k.recvx
  <1> DEFINE n == Size[c]
             x == h.recvx
             y == IF x + 1 = n THEN 0 ELSE x + 1
  <1>1. /\ \A i \in Nat : Place(h, c, i) = IF x + i - 1 < n THEN x + i - 1 ELSE x + i - 1 - n
        /\ \A i \in Nat : Place(k, c, i) = IF y + i - 1 < n THEN y + i - 1 ELSE y + i - 1 - n
        /\ k.recvx = y
    BY DEF Place, Inc
  <1>2. n \in Nat /\ n > 0 /\ x \in 0..(n - 1)
    OBVIOUS
  <1> HIDE DEF n, x
  <1>3. y \in 0..(n - 1)
    BY <1>2
  <1>4. ASSUME NEW i \in 1..n
        PROVE  Place(k, c, i) = Place(h, c, i + 1)
    BY <1>1, <1>2
  <1>5. Place(k, c, n + 1) = y
    BY <1>1, <1>2
  <1> QED
    BY <1>1, <1>3, <1>4, <1>5 DEF n, x

(* sendx comes after the last value in h.                                  *)
Ring(h, c) == Size[c] > 0 => h.sendx = Place(h, c, h.qcount + 1)

Vals == G \cup {None}

(* The values in a channel.                                                *)
LEMMA ValuesType ==
  ASSUME NEW c \in C, NEW h \in Hchan(c)
  PROVE  /\ h.qcount \in 0..Size[c] /\ Size[c] \in Nat /\ h.qcount \in Nat
         /\ Values(h, c) \in Seq(Vals) /\ Len(Values(h, c)) = h.qcount
         /\ \A n \in 1..h.qcount : Values(h, c)[n] = h.buf[Place(h, c, n)]
         /\ Values(h, c) = <<>> <=> h.qcount = 0
         /\ Size[c] > 0 => /\ h.recvx \in 0..(Size[c] - 1) /\ h.sendx \in 0..(Size[c] - 1)
                           /\ h.buf \in [0..(Size[c] - 1) -> Vals]
  <1> DEFINE V == Values(h, c)
             q == h.qcount
  <1>1. /\ q \in 0..Size[c] /\ Size[c] \in Nat /\ q \in Nat
        /\ h.recvx \in Index(c) /\ h.sendx \in Index(c) /\ h.buf \in [0..(Size[c] - 1) -> Vals]
    <2>1. /\ q \in 0..Size[c] /\ h.recvx \in Index(c) /\ h.sendx \in Index(c)
          /\ h.buf \in [0..(Size[c] - 1) -> G \cup {None}]
      BY DEF Hchan
    <2>2. Size[c] \in Nat
      OBVIOUS
    <2> QED
      BY <2>1, <2>2 DEF Vals
  <1>2. Size[c] > 0 => h.recvx \in 0..(Size[c] - 1) /\ h.sendx \in 0..(Size[c] - 1)
    BY <1>1, IncInRange
  <1>3. V = [n \in 1..q |-> h.buf[Place(h, c, n)]]
    BY DEF Values
  <1>4. ASSUME NEW n \in 1..q
        PROVE  h.buf[Place(h, c, n)] \in Vals
    <2>1. Size[c] > 0 /\ n \in 1..(Size[c] + 1)
      BY <1>1
    <2>2. Place(h, c, n) \in 0..(Size[c] - 1)
      BY <1>1, <1>2, <2>1, PlaceProperties
    <2> QED
      BY <1>1, <2>2
  <1> HIDE DEF V, q
  <1>5. V \in Seq(Vals) /\ Len(V) = q /\ \A n \in 1..q : V[n] = h.buf[Place(h, c, n)]
    BY <1>1, <1>3, <1>4
  <1>6. V = <<>> <=> q = 0
    BY <1>5, <1>1, EmptySeq
  <1> QED
    BY <1>1, <1>2, <1>5, <1>6 DEF V, q

(* A value that is put into the buffer becomes the last one.               *)
LEMMA PutProperties ==
  ASSUME NEW c \in C, NEW h \in Hchan(c), Ring(h, c), h.qcount < Size[c], NEW v \in Vals,
         Put(h, c, v) \in Hchan(c)
  PROVE  Values(Put(h, c, v), c) = Append(Values(h, c), v) /\ Ring(Put(h, c, v), c)
  <1> DEFINE k == Put(h, c, v)
             q == h.qcount
             n == Size[c]
             x == h.sendx
  <1>1. /\ q \in Nat /\ n \in Nat /\ n > 0 /\ q < n /\ h.buf \in [0..(n - 1) -> Vals]
        /\ h.recvx \in 0..(n - 1) /\ x \in 0..(n - 1) /\ x = Place(h, c, q + 1)
        /\ Values(h, c) \in Seq(Vals) /\ Len(Values(h, c)) = q
        /\ \A i \in 1..q : Values(h, c)[i] = h.buf[Place(h, c, i)]
    BY ValuesType DEF Ring
  <1>2. /\ k.qcount = q + 1 /\ k.recvx = h.recvx /\ k.sendx = Inc(c, x)
        /\ k.buf = [h.buf EXCEPT ![x] = v]
    BY DEF Put, Hchan
  <1>3. /\ Values(k, c) \in Seq(Vals) /\ Len(Values(k, c)) = q + 1
        /\ \A i \in 1..(q + 1) : Values(k, c)[i] = k.buf[Place(k, c, i)]
    <2>1. k \in Hchan(c)
      OBVIOUS
    <2> HIDE DEF k
    <2>2. /\ Values(k, c) \in Seq(Vals) /\ Len(Values(k, c)) = k.qcount
          /\ \A i \in 1..k.qcount : Values(k, c)[i] = k.buf[Place(k, c, i)]
      BY <2>1, ValuesType
    <2> QED
      BY <1>2, <2>2
  <1> HIDE DEF k, q, n, x
  <1>4. \A i : Place(k, c, i) = Place(h, c, i)
    BY <1>2 DEF Place
  <1>5. \A i \in 1..q : Place(h, c, i) \in 0..(n - 1) /\ Place(h, c, i) # x
    <2>1. \A i \in 1..q : i \in 1..n /\ i # q + 1
      BY <1>1
    <2>2. q + 1 \in 1..n /\ \A i \in 1..n : i \in 1..(n + 1)
      BY <1>1
    <2> QED
      BY <1>1, <2>1, <2>2, PlaceProperties DEF n
  <1>6. \A i \in 1..(q + 1) : Values(k, c)[i] = Append(Values(h, c), v)[i]
    <2> SUFFICES ASSUME NEW i \in 1..(q + 1)
                 PROVE  Values(k, c)[i] = Append(Values(h, c), v)[i]
      OBVIOUS
    <2>1. CASE i \in 1..q
      <3>1. Append(Values(h, c), v)[i] = h.buf[Place(h, c, i)]
        BY <1>1, <2>1, AppendProperties
      <3>2. k.buf[Place(h, c, i)] = h.buf[Place(h, c, i)]
        BY <1>1, <1>2, <1>5, <2>1
      <3> QED
        BY <1>3, <1>4, <3>1, <3>2
    <2>2. CASE i = q + 1
      <3>1. Append(Values(h, c), v)[q + 1] = v
        BY <1>1, AppendProperties
      <3>2. k.buf[x] = v
        BY <1>1, <1>2
      <3> QED
        BY <1>1, <1>3, <1>4, <2>2, <3>1, <3>2
    <2> QED
      BY <1>1, <2>1, <2>2
  <1>7. Append(Values(h, c), v) \in Seq(Vals) /\ Len(Append(Values(h, c), v)) = q + 1
    BY <1>1, AppendProperties
  <1>8. Values(k, c) = Append(Values(h, c), v)
    BY <1>3, <1>6, <1>7, SeqEqual
  <1>9. Ring(k, c)
    <2>1. q + 1 \in 1..n
      BY <1>1
    <2>2. Place(h, c, q + 1 + 1) = Inc(c, x)
      BY <1>1, <2>1, PlaceProperties DEF n
    <2> QED
      BY <1>2, <1>4, <2>2 DEF Ring
  <1> QED
    BY <1>8, <1>9 DEF k

(* The value that is taken from the buffer is the first one.               *)
LEMMA TakeProperties ==
  ASSUME NEW c \in C, NEW h \in Hchan(c), Ring(h, c), h.qcount > 0, Take(h, c) \in Hchan(c)
  PROVE  /\ Values(h, c) # <<>> /\ Head(Values(h, c)) = h.buf[h.recvx]
         /\ Values(Take(h, c), c) = Tail(Values(h, c)) /\ Ring(Take(h, c), c)
  <1> DEFINE k == Take(h, c)
             q == h.qcount
             n == Size[c]
             x == h.recvx
             V == Values(h, c)
  <1>1. /\ q \in Nat /\ n \in Nat /\ n > 0 /\ q > 0 /\ q <= n /\ h.buf \in [0..(n - 1) -> Vals]
        /\ x \in 0..(n - 1) /\ h.sendx = Place(h, c, q + 1)
        /\ V \in Seq(Vals) /\ Len(V) = q /\ V # <<>>
        /\ \A i \in 1..q : V[i] = h.buf[Place(h, c, i)]
    BY ValuesType DEF Ring
  <1>2. /\ k.qcount = q - 1 /\ k.recvx = Inc(c, x) /\ k.sendx = h.sendx
        /\ k.buf = [h.buf EXCEPT ![x] = None]
    BY DEF Take, Hchan
  <1>3. /\ Values(k, c) \in Seq(Vals) /\ Len(Values(k, c)) = q - 1
        /\ \A i \in 1..(q - 1) : Values(k, c)[i] = k.buf[Place(k, c, i)]
    <2>1. k \in Hchan(c)
      OBVIOUS
    <2> HIDE DEF k
    <2>2. /\ Values(k, c) \in Seq(Vals) /\ Len(Values(k, c)) = k.qcount
          /\ \A i \in 1..k.qcount : Values(k, c)[i] = k.buf[Place(k, c, i)]
      BY <2>1, ValuesType
    <2> QED
      BY <1>2, <2>2
  <1> HIDE DEF k, q, n, V
  <1>4. \A i \in 1..n : Place(k, c, i) = Place(h, c, i + 1)
    <2>1. Size[c] \in Nat /\ Size[c] > 0 /\ h.recvx \in 0..(Size[c] - 1) /\ k.recvx = Inc(c, h.recvx)
      BY <1>1, <1>2 DEF n
    <2> QED
      BY <2>1, NextPlace DEF n
  <1>5. /\ Place(h, c, 1) = x
        /\ \A i \in 1..(q - 1) : Place(h, c, i + 1) # x /\ Place(h, c, i + 1) \in 0..(n - 1)
    <2>1. Place(h, c, 1) = x
      BY <1>1, PlaceProperties DEF n
    <2>2. \A i \in 1..(q - 1) : i + 1 \in 1..n /\ i + 1 # 1
      BY <1>1
    <2>3. 1 \in 1..n /\ \A i \in 1..n : i \in 1..(n + 1)
      BY <1>1
    <2> QED
      BY <1>1, <2>1, <2>2, <2>3, PlaceProperties DEF n
  <1>6. Head(V) = h.buf[x]
    BY <1>1, <1>5
  <1>7. Tail(V) \in Seq(Vals) /\ Len(Tail(V)) = q - 1 /\ \A i \in 1..(q - 1) : Tail(V)[i] = V[i + 1]
    BY <1>1, HeadTailProperties
  <1>8. \A i \in 1..(q - 1) : Values(k, c)[i] = Tail(V)[i]
    <2> SUFFICES ASSUME NEW i \in 1..(q - 1)
                 PROVE  Values(k, c)[i] = Tail(V)[i]
      OBVIOUS
    <2>1. i \in 1..n /\ i + 1 \in 1..q
      BY <1>1
    <2>2. k.buf[Place(h, c, i + 1)] = h.buf[Place(h, c, i + 1)]
      BY <1>1, <1>2, <1>5
    <2> QED
      BY <1>1, <1>3, <1>4, <1>7, <2>1, <2>2
  <1>9. Values(k, c) = Tail(V)
    BY <1>3, <1>7, <1>8, SeqEqual
  <1>10. Ring(k, c)
    <2>1. q \in 1..n /\ q - 1 + 1 = q
      BY <1>1
    <2> QED
      BY <1>1, <1>2, <1>4, <2>1 DEF Ring
  <1> QED
    BY <1>1, <1>6, <1>9, <1>10 DEF k, V

(* When the buffer is full, the first value leaves and another one takes   *)
(* its slot, which becomes the last.                                       *)
LEMMA SwapProperties ==
  ASSUME NEW c \in C, NEW h \in Hchan(c), h.qcount = Size[c], Size[c] > 0, NEW v \in Vals,
         Swap(h, c, v) \in Hchan(c)
  PROVE  /\ Head(Append(Values(h, c), v)) = h.buf[h.recvx]
         /\ Values(Swap(h, c, v), c) = Tail(Append(Values(h, c), v)) /\ Ring(Swap(h, c, v), c)
  <1> DEFINE k == Swap(h, c, v)
             n == Size[c]
             x == h.recvx
             V == Values(h, c)
             A == Append(V, v)
  <1>1. /\ n \in Nat /\ n > 0 /\ h.qcount = n /\ h.buf \in [0..(n - 1) -> Vals]
        /\ x \in 0..(n - 1)
        /\ V \in Seq(Vals) /\ Len(V) = n
        /\ \A i \in 1..n : V[i] = h.buf[Place(h, c, i)]
    BY ValuesType
  <1>2. /\ k.qcount = n /\ k.recvx = Inc(c, x) /\ k.sendx = Inc(c, x)
        /\ k.buf = [h.buf EXCEPT ![x] = v]
    BY DEF Swap, Hchan
  <1>3. /\ Values(k, c) \in Seq(Vals) /\ Len(Values(k, c)) = n
        /\ \A i \in 1..n : Values(k, c)[i] = k.buf[Place(k, c, i)]
    <2>1. k \in Hchan(c)
      OBVIOUS
    <2> HIDE DEF k
    <2>2. /\ Values(k, c) \in Seq(Vals) /\ Len(Values(k, c)) = k.qcount
          /\ \A i \in 1..k.qcount : Values(k, c)[i] = k.buf[Place(k, c, i)]
      BY <2>1, ValuesType
    <2> QED
      BY <1>2, <2>2
  <1>4. /\ A \in Seq(Vals) /\ A # <<>> /\ Len(A) = n + 1
        /\ \A i \in 1..n : A[i] = V[i]
        /\ A[n + 1] = v
    BY <1>1, AppendProperties
  <1> HIDE DEF k, n, V, A
  <1>5. /\ \A i \in 1..n : Place(k, c, i) = Place(h, c, i + 1)
        /\ Place(k, c, n + 1) = k.recvx
    BY <1>1, <1>2, NextPlace DEF n
  <1>6. /\ Place(h, c, 1) = x /\ Place(h, c, n + 1) = x
        /\ \A i \in 1..(n - 1) : Place(h, c, i + 1) # x /\ Place(h, c, i + 1) \in 0..(n - 1)
    <2>1. Place(h, c, 1) = x /\ Place(h, c, n + 1) = x
      BY <1>1, PlaceProperties DEF n
    <2>2. \A i \in 1..(n - 1) : i + 1 \in 1..n /\ i + 1 # 1
      BY <1>1
    <2>3. 1 \in 1..n /\ \A i \in 1..n : i \in 1..(n + 1)
      BY <1>1
    <2> QED
      BY <1>1, <2>1, <2>2, <2>3, PlaceProperties DEF n
  <1>7. Head(A) = h.buf[x]
    <2>1. 1 \in 1..n
      BY <1>1
    <2> QED
      BY <1>1, <1>4, <1>6, <2>1
  <1>8. Tail(A) \in Seq(Vals) /\ Len(Tail(A)) = n /\ \A i \in 1..n : Tail(A)[i] = A[i + 1]
    <2>1. Len(A) - 1 = n
      BY <1>1, <1>4
    <2>2. /\ Tail(A) \in Seq(Vals) /\ Len(Tail(A)) = n
          /\ \A i \in 1..Len(Tail(A)) : Tail(A)[i] = A[i + 1]
      BY <1>4, <2>1, HeadTailProperties
    <2> QED
      BY <2>2
  <1>9. \A i \in 1..n : Values(k, c)[i] = Tail(A)[i]
    <2> SUFFICES ASSUME NEW i \in 1..n
                 PROVE  Values(k, c)[i] = Tail(A)[i]
      OBVIOUS
    <2>1. CASE i < n
      <3>1. i \in 1..(n - 1) /\ i + 1 \in 1..n
        BY <1>1, <2>1
      <3>2. k.buf[Place(h, c, i + 1)] = h.buf[Place(h, c, i + 1)]
        BY <1>1, <1>2, <1>6, <3>1
      <3> QED
        BY <1>1, <1>3, <1>4, <1>5, <1>8, <3>1, <3>2
    <2>2. CASE i = n
      <3>1. k.buf[x] = v
        BY <1>1, <1>2
      <3> QED
        BY <1>3, <1>4, <1>5, <1>6, <1>8, <2>2, <3>1
    <2>3. n \in Nat
      BY <1>1
    <2>4. i < n \/ i = n
      BY <2>3
    <2> QED
      BY <2>1, <2>2, <2>4
  <1>10. Values(k, c) = Tail(A)
    BY <1>3, <1>8, <1>9, SeqEqual
  <1>11. Ring(k, c)
    BY <1>2, <1>5 DEF Ring, n
  <1> QED
    BY <1>7, <1>10, <1>11 DEF k, V, A

-----------------------------------------------------------------------------
(* Nothing of what x is to return changes.                                 *)
Same(x) ==
  /\ pc'[x] = pc[x] /\ call'[x] = call[x] /\ param'[x] = param[x]
  /\ elem'[x] = elem[x] /\ result'[x] = result[x]

(* While x does not move it has the result that it had.                    *)
LEMMA SameOutcome ==
  ASSUME ChanInv, Closes, NEW x \in G, Same(x)
  PROVE  OutcomeFits(x)' /\ Outcome(x)' = Outcome(x)
  <1>1. OutcomeFits(x) /\ CallFits(x) /\ WakeUpFits(x) /\ WaitersInv /\ HchansOK
    BY TypeHalves DEF ChanInv, WaitersInv, WaitQueues
  <1>2. /\ pc'[x] = pc[x] /\ call'[x] = call[x] /\ param'[x] = param[x]
        /\ elem'[x] = elem[x] /\ result'[x] = result[x]
    BY DEF Same
  <1>3. The(x)' = The(x) /\ \A i : CaseOf(x, i)' = CaseOf(x, i)
    BY <1>2, SameCall
  <1>4. Outcome(x)' = Outcome(x)
    BY <1>2, <1>3 DEF Outcome, Completed
  <1>5. pc[x] \in {"recvAgain", "woken"} => The(x) \in C
    BY <1>1 DEF CallFits, FastPath, RecvPath
  <1>6. pc'[x] = "recvAgain" => ch'[The(x)'].closed
    BY <1>1, <1>2, <1>3, <1>5 DEF OutcomeFits, Closes
  <1>7. ASSUME pc'[x] = "woken", param'[x] = 0, CaseOf(x, 1)'.dir = "recv"
        PROVE  ch'[The(x)'].qcount = 0
    <2>1. ch[The(x)].closed /\ ch[The(x)].qcount = 0 /\ The(x) \in C
      BY <1>1, <1>2, <1>3, <1>5, <1>7 DEF OutcomeFits, WakeUpFits
    <2>2. ch'[The(x)].qcount \in 0..0
      BY <2>1 DEF Closes
    <2> QED
      BY <1>3, <2>2
  <1>8. /\ pc'[x] \in {"ret", "release"} <=> result'[x] # Pending
        /\ param'[x] # 0 => pc'[x] \in {"woken", "relock"} /\ param'[x] \in DOMAIN call'[x].cases
        /\ pc'[x] \in FastPath => ~call'[x].block
    BY <1>1, <1>2 DEF OutcomeFits
  <1> QED
    BY <1>4, <1>6, <1>7, <1>8 DEF OutcomeFits

(* A call that has not ended and has not been signalled has no result.     *)
LEMMA NoOutcome ==
  ASSUME ChanInv, NEW x \in G, pc[x] \notin {"ret", "release", "woken", "relock"}
  PROVE  Outcome(x) = Pending /\ result[x] = Pending /\ param[x] = 0
  BY DEF ChanInv, OutcomeFits, Outcome

(* What the call ends with that the caller ends by itself.                 *)
LEMMA EndOutcome ==
  ASSUME ChanInv, NEW g \in G, NEW r, r # Pending, End(g, r), Closes,
         pc[g] \notin {"ret", "release", "woken", "relock"}
  PROVE  /\ \A x \in G : OutcomeFits(x)'
         /\ \A x \in G \ {g} : Outcome(x)' = Outcome(x)
         /\ Outcome(g) = Pending /\ Outcome(g)' = r /\ call' = call
  <1>1. OthersOK
    BY TypeHalves DEF ChanInv, WaitersInv
  <1>2. /\ pc'[g] = "ret" /\ result'[g] = r /\ param'[g] = param[g] /\ call' = call
        /\ \A x \in G \ {g} : Same(x)
    BY <1>1 DEF End, gvars, OthersOK, Same
  <1>3. param[g] = 0 /\ Outcome(g) = Pending
    BY NoOutcome
  <1>4. Outcome(g)' = r
    BY <1>2, <1>3 DEF Outcome
  <1>5. OutcomeFits(g)'
    BY <1>2, <1>3 DEF OutcomeFits, FastPath, SendPath, RecvPath
  <1> QED
    BY <1>2, <1>3, <1>4, <1>5, SameOutcome

(* What a call ends with that has been handed its case.                    *)
Handed(s, d, v) == IF d = "send" THEN Result("sent", s.i, None) ELSE Result("received", s.i, v)

(* The results of two calls that end together.                             *)
LEMMA CompleteOutcome ==
  ASSUME ChanInv, NEW g \in G, NEW r, r # Pending, NEW s, NEW v, Complete(g, r, s, v), Closes,
         pc[g] \in {"lock", "sellock", "loop"},
         s.g \in G, s.i \in Nat \ {0}, pc[s.g] = "parked", s.i \in DOMAIN call[s.g].cases
  PROVE  /\ \A x \in G : OutcomeFits(x)'
         /\ \A x \in G \ {g, s.g} : Outcome(x)' = Outcome(x)
         /\ Outcome(g) = Pending /\ Outcome(g)' = r
         /\ Outcome(s.g) = Pending /\ Outcome(s.g)' = Handed(s, CaseOf(s.g, s.i).dir, v)
         /\ call' = call
  <1> DEFINE y == s.g
  <1>1. OthersOK
    BY TypeHalves DEF ChanInv, WaitersInv
  <1>2. y \in G /\ y # g
    OBVIOUS
  <1>3. /\ pc' = [pc EXCEPT ![g] = "ret", ![y] = Resume(y)]
        /\ param' = [param EXCEPT ![y] = s.i]
        /\ elem' = [elem EXCEPT ![y] = v]
        /\ result' = [result EXCEPT ![g] = r] /\ call' = call
    BY DEF Complete
  <1> HIDE DEF y
  <1>4. /\ pc'[g] = "ret" /\ result'[g] = r /\ param'[g] = param[g]
        /\ pc'[y] = Resume(y) /\ result'[y] = result[y] /\ param'[y] = s.i /\ elem'[y] = v
        /\ \A x \in G \ {g, y} : Same(x)
    BY <1>1, <1>2, <1>3 DEF OthersOK, Same
  <1>5. param[g] = 0 /\ Outcome(g) = Pending /\ Outcome(y) = Pending /\ result[y] = Pending
    BY <1>2, NoOutcome DEF y
  <1>6. Outcome(g)' = r /\ OutcomeFits(g)'
    BY <1>4, <1>5 DEF Outcome, OutcomeFits, FastPath, SendPath, RecvPath
  <1>7. Outcome(y)' = Handed(s, CaseOf(y, s.i).dir, v)
    BY <1>3, <1>4 DEF Outcome, Completed, Handed, CaseOf
  <1>8. OutcomeFits(y)'
    BY <1>3, <1>4, <1>5 DEF OutcomeFits, Resume, FastPath, SendPath, RecvPath, y
  <1> QED
    BY <1>3, <1>4, <1>5, <1>6, <1>7, <1>8, SameOutcome DEF y

(* A step in a call that has no result yet.                                *)
LEMMA MoveOutcome ==
  ASSUME ChanInv, NEW g \in G, NEW to, pc' = [pc EXCEPT ![g] = to], UNCHANGED <<call, gvars, result>>,
         Closes, pc[g] \notin {"ret", "release", "woken", "relock"},
         to \notin {"ret", "release", "woken"}, to = "recvAgain" => ch'[The(g)].closed,
         to \in FastPath => pc[g] \in FastPath
  PROVE  /\ \A x \in G : OutcomeFits(x)' /\ Outcome(x)' = Outcome(x)
         /\ call' = call
  <1>1. OthersOK
    BY TypeHalves DEF ChanInv, WaitersInv
  <1>2. /\ pc'[g] = to /\ result'[g] = result[g] /\ param'[g] = param[g] /\ call' = call /\ elem' = elem
        /\ \A x \in G \ {g} : Same(x)
    BY <1>1 DEF gvars, OthersOK, Same
  <1>3. param[g] = 0 /\ result[g] = Pending
    BY NoOutcome
  <1>4. Outcome(g)' = Outcome(g)
    BY <1>2, <1>3 DEF Outcome
  <1>5. OutcomeFits(g)'
    BY <1>2, <1>3 DEF OutcomeFits, The, CaseOf, ChanInv
  <1> QED
    BY <1>2, <1>4, <1>5, SameOutcome

-----------------------------------------------------------------------------
(* The buffers are as they were, and so is what is closed.                 *)
SameBuffers(chs) ==
  \A c \in C : /\ chs[c].closed = ch[c].closed
               /\ chs[c].qcount = ch[c].qcount /\ chs[c].buf = ch[c].buf
               /\ chs[c].sendx = ch[c].sendx /\ chs[c].recvx = ch[c].recvx

(* Then the channels hold the same values.                                 *)
LEMMA SameValues ==
  ASSUME ChanInv, NEW chs, SameBuffers(chs), NEW c \in C
  PROVE  /\ Values(chs[c], c) = Values(ch[c], c) /\ Ring(chs[c], c)
         /\ chs[c].closed = ch[c].closed /\ chs[c].qcount = ch[c].qcount
         /\ chs[c].qcount \in 0..ch[c].qcount
  <1>1. /\ chs[c].closed = ch[c].closed
        /\ chs[c].qcount = ch[c].qcount /\ chs[c].buf = ch[c].buf
        /\ chs[c].sendx = ch[c].sendx /\ chs[c].recvx = ch[c].recvx
    BY DEF SameBuffers
  <1>2. \A n : Place(chs[c], c, n) = Place(ch[c], c, n)
    BY <1>1 DEF Place
  <1>3. Values(chs[c], c) = Values(ch[c], c)
    BY <1>1, <1>2 DEF Values
  <1>4. Ring(chs[c], c)
    BY <1>1, <1>2 DEF Ring, ChanInv, RingFits
  <1>5. ch[c].qcount \in 0..ch[c].qcount
    BY HchanFields, TypeHalves DEF ChanInv, WaitersInv
  <1> QED
    BY <1>1, <1>3, <1>4, <1>5

(* Removing stale sudogs changes no buffer.                                *)
LEMMA TrimmedSame ==
  ASSUME ChanInv, NEW chs, Trimmed(chs)
  PROVE  SameBuffers(chs)
  <1>1. \A c \in C : chs[c].closed = ch[c].closed
    <2>1. \A c \in C : chs[c] \in Hchan(c) /\ ch[c] \in Hchan(c)
      BY HchanFields, TypeHalves DEF Trimmed, ChanInv, WaitersInv
    <2>2. \A c \in C : chs[c].closed \in BOOLEAN /\ ch[c].closed \in BOOLEAN
      BY <2>1 DEF Hchan
    <2> QED
      BY <2>2, Zenon DEF Trimmed
  <1> QED
    BY <1>1 DEF Trimmed, SameBuffers

-----------------------------------------------------------------------------
(* What Channel calls its channels, and its result of no call.             *)
LEMMA AbsNames == Abs!C = C /\ Abs!Pending = Pending
  BY DEF Abs!C, C, Abs!Pending, Pending

(* One result changes, or none.                                            *)
LEMMA ResultsStep ==
  ASSUME NEW g \in G, NEW r, \A x \in G \ {g} : Outcome(x)' = Outcome(x), Outcome(g)' = r
  PROVE  [x \in G |-> Outcome(x)]' = [[x \in G |-> Outcome(x)] EXCEPT ![g] = r]
  OBVIOUS

(* One channel changes.                                                    *)
LEMMA QueuesChange ==
  ASSUME NEW c \in C, NEW q, \A e \in C \ {c} : Values(ch'[e], e) = Values(ch[e], e),
         Values(ch'[c], c) = q
  PROVE  [e \in C |-> Values(ch[e], e)]' = [[e \in C |-> Values(ch[e], e)] EXCEPT ![c] = q]
  OBVIOUS

(* What each step does to the rest of the invariant and in Channel.        *)
Keeps == (\A x \in G : OutcomeFits(x)') /\ RingFits' /\ [Abs!Next]_(Abs!vars)

(* A step that has no effect.                                              *)
LEMMA StutterKeeps ==
  ASSUME ChanInv, SameBuffers(ch'), call' = call,
         \A x \in G : OutcomeFits(x)' /\ Outcome(x)' = Outcome(x)
  PROVE  Keeps
  <1>1. \A c \in C : /\ Values(ch'[c], c) = Values(ch[c], c) /\ Ring(ch'[c], c)
                     /\ ch'[c].closed = ch[c].closed
    BY SameValues
  <1>2. RingFits'
    BY <1>1 DEF Ring, RingFits
  <1>3. /\ [c \in C |-> ch[c].closed]' = [c \in C |-> ch[c].closed]
        /\ [c \in C |-> Values(ch[c], c)]' = [c \in C |-> Values(ch[c], c)]
        /\ [x \in G |-> Outcome(x)]' = [x \in G |-> Outcome(x)]
    BY <1>1
  <1>4. UNCHANGED Abs!vars
    BY <1>3 DEF Abs!vars
  <1> QED
    BY <1>2, <1>4 DEF Keeps

-----------------------------------------------------------------------------
(* Case i of g, in whose call nothing has happened yet, is a d on c.       *)
HasCase(g, i, d, c) ==
  /\ call[g] # Idle /\ i \in DOMAIN call[g].cases
  /\ CaseOf(g, i) = [dir |-> d, c |-> c]
  /\ Outcome(g) = Pending

(* Such a case is one that Channel has.                                    *)
LEMMA HasIt ==
  ASSUME ChanInv, NEW g \in G, NEW i, NEW d, NEW c, HasCase(g, i, d, c)
  PROVE  Abs!Has(g, i, d, c)
  BY AbsNames DEF Abs!Has, HasCase, CaseOf

(* A case that takes effect is a step of Channel.                          *)
LEMMA CaseIsStep ==
  ASSUME NEW g \in G, NEW i, NEW d, NEW c, HasCase(g, i, d, c), Abs!CaseStep(g, i)
  PROVE  Abs!Next
  BY DEF Abs!Next, HasCase

(* So is a close.                                                          *)
LEMMA CloseIsStep ==
  ASSUME NEW g \in G, NEW c \in C, Abs!Close(g, c)
  PROVE  Abs!Next
  BY AbsNames DEF Abs!Next

(* g ends with r, and hands v to the goroutine of s, in the queue of c for *)
(* the direction d.                                                        *)
Met(g, r, s, d, c, v) ==
  /\ s.g \in G /\ s.g # g /\ HasCase(s.g, s.i, d, c)
  /\ \A x \in G : OutcomeFits(x)'
  /\ \A x \in G \ {g, s.g} : Outcome(x)' = Outcome(x)
  /\ Outcome(g)' = r /\ Outcome(s.g)' = Handed(s, d, v)
  /\ call' = call

(* g meets the one that it finds in the queue of c for the direction d,    *)
(* while the other channels have only lost stale sudogs.                   *)
LEMMA MeetOutcome ==
  ASSUME ChanInv, NEW g \in G, NEW i, NEW c \in C, NEW e, HasCase(g, i, e, c),
         pc[g] \in {"lock", "sellock", "loop"},
         NEW d \in {"send", "recv"}, NEW q, Trims(q, Queue(c, d)), Found(q),
         NEW r, r # Pending, NEW v, Complete(g, r, Dequeued(q), v), Closes
  PROVE  Queue(c, d) # <<>> /\ \E s : s = Dequeued(q) /\ Met(g, r, s, d, c, v)
  <1>1. WaitersInv
    BY DEF ChanInv
  <1>2. q = Queue(c, d) /\ q # <<>>
    BY NothingFound DEF Trims
  <1>3. q \in Seq(Sudogs)
    BY <1>1, <1>2, HchanFields, TypeHalves DEF WaitersInv
  <1>4. PICK s : s = Dequeued(q)
    OBVIOUS
  <1>5. s \in ToSet(q) /\ Live(s)
    BY <1>3, <1>4, DequeueProperties
  <1>6. s.g \in G /\ s.i \in Nat \ {0} /\ Waits(s, d, c) /\ call[s.g] # Idle /\ pc[s.g] = "parked"
    BY <1>1, <1>2, <1>5, QueuedFacts
  <1>7. /\ s.i \in DOMAIN call[s.g].cases /\ CaseOf(s.g, s.i) = [dir |-> d, c |-> c]
        /\ CaseOf(s.g, s.i).dir = d
    BY <1>6 DEF Waits
  <1>8. /\ \A x \in G : OutcomeFits(x)'
        /\ \A x \in G \ {g, s.g} : Outcome(x)' = Outcome(x)
        /\ Outcome(g)' = r /\ Outcome(s.g)' = Handed(s, d, v)
        /\ call' = call
    <2>1. Complete(g, r, s, v)
      BY <1>4
    <2>2. /\ \A x \in G : OutcomeFits(x)'
          /\ \A x \in G \ {g, s.g} : Outcome(x)' = Outcome(x)
          /\ Outcome(g)' = r
          /\ Outcome(s.g)' = Handed(s, CaseOf(s.g, s.i).dir, v)
          /\ call' = call
      BY <1>6, <1>7, <2>1, CompleteOutcome
    <2> QED
      BY <1>7, <2>2
  <1> QED
    BY <1>2, <1>4, <1>6, <1>7, <1>8, NoOutcome DEF HasCase, Met

(* Two results change.                                                     *)
LEMMA TwoResults ==
  ASSUME NEW g \in G, NEW h \in G, g # h, NEW r, NEW s,
         \A x \in G \ {g, h} : Outcome(x)' = Outcome(x), Outcome(g)' = r, Outcome(h)' = s
  PROVE  [x \in G |-> Outcome(x)]' = [[x \in G |-> Outcome(x)] EXCEPT ![g] = r, ![h] = s]
  OBVIOUS

(* A receiver and a sender that meet on c, with nothing between them or    *)
(* with all of a full buffer.                                              *)
LEMMA ExchangeIsStep ==
  ASSUME ChanInv, NEW g \in G, NEW h \in G, g # h, NEW c \in C, NEW i, NEW j,
         HasCase(g, i, "recv", c), HasCase(h, j, "send", c), ~ch[c].closed,
         Len(Values(ch[c], c)) \in {0, Size[c]}, call' = call,
         \A e \in C : ch'[e].closed = ch[e].closed,
         \A e \in C \ {c} : Values(ch'[e], e) = Values(ch[e], e),
         Values(ch'[c], c) = Tail(Append(Values(ch[c], c), h)),
         \A x \in G \ {g, h} : Outcome(x)' = Outcome(x),
         Outcome(g)' = Result("received", i, Head(Append(Values(ch[c], c), h))),
         Outcome(h)' = Result("sent", j, None)
  PROVE  Abs!Next
  <1>1. Abs!Has(g, i, "recv", c) /\ Abs!Has(h, j, "send", c)
    BY HasIt
  <1>2. [e \in C |-> ch[e].closed]' = [e \in C |-> ch[e].closed]
    OBVIOUS
  <1>3. [e \in C |-> Values(ch[e], e)]'
          = [[e \in C |-> Values(ch[e], e)] EXCEPT ![c] = Tail(Append(Values(ch[c], c), h))]
    BY QueuesChange
  <1>4. [x \in G |-> Outcome(x)]'
          = [[x \in G |-> Outcome(x)] EXCEPT
               ![g] = Result("received", i, Head(Append(Values(ch[c], c), h))),
               ![h] = Result("sent", j, None)]
    BY TwoResults
  <1>5. Abs!Exchange(g, i, h, j, c)
    BY <1>1, <1>2, <1>3, <1>4 DEF Abs!Exchange, Result
  <1>6. Abs!CaseStep(g, i)
    BY <1>5, AbsNames DEF Abs!CaseStep, HasCase
  <1> QED
    BY <1>6, CaseIsStep

(* What a step that is not of a release finds locked.                      *)
LockFree(g, c) == lock[c] = None \/ (lock[c] = g /\ pc[g] # "release")

(* Nobody waits on a channel that is closed and not about to be released.  *)
LEMMA WaitersOpen ==
  ASSUME WaitersInv, NEW g, NEW c \in C, LockFree(g, c), NEW d \in {"send", "recv"},
         Queue(c, d) # <<>>
  PROVE  ~ch[c].closed
  BY DEF WaitersInv, WaitQueues, CloseReleases, LockFree, Queue

(* One channel becomes h, while the others have only lost stale sudogs.    *)
LEMMA ChannelChanges ==
  ASSUME ChanInv, WaitersInv', NEW chs, Trimmed(chs), NEW c \in C, NEW h, ch' = [chs EXCEPT ![c] = h],
         h.closed = ch[c].closed, h.closed => h.qcount \in 0..ch[c].qcount, Ring(h, c)
  PROVE  /\ ch'[c] = h /\ h \in Hchan(c) /\ RingFits' /\ Closes
         /\ \A e \in C : ch'[e].closed = ch[e].closed
         /\ \A e \in C \ {c} : Values(ch'[e], e) = Values(ch[e], e)
  <1>1. DOMAIN chs = C
    BY DEF Trimmed
  <1>2. ch'[c] = h /\ \A e \in C \ {c} : ch'[e] = chs[e]
    BY <1>1
  <1>3. h \in Hchan(c)
    BY <1>2 DEF WaitersInv, TypeOK, Hchan, Index
  <1>4. \A e \in C : /\ Values(chs[e], e) = Values(ch[e], e) /\ Ring(chs[e], e)
                     /\ chs[e].closed = ch[e].closed /\ chs[e].qcount \in 0..ch[e].qcount
    BY TrimmedSame, SameValues
  <1>5. RingFits'
    BY <1>2, <1>4 DEF RingFits, Ring
  <1>6. Closes
    BY <1>2, <1>4 DEF Closes
  <1> QED
    BY <1>2, <1>3, <1>4, <1>5, <1>6

(* What becomes of c when dequeue finds nobody in a queue of it.           *)
LEMMA Emptied ==
  ASSUME ChanInv, NEW chs, Trimmed(chs), NEW c \in C, NEW h,
         h = [chs[c] EXCEPT !.recvq = <<>>] \/ h = [chs[c] EXCEPT !.sendq = <<>>]
  PROVE  /\ h \in Hchan(c) /\ Values(h, c) = Values(ch[c], c) /\ Ring(h, c)
         /\ h.closed = ch[c].closed /\ h.qcount = ch[c].qcount
         /\ h.closed = chs[c].closed /\ h.qcount = chs[c].qcount
         /\ h.buf = chs[c].buf /\ h.recvx = chs[c].recvx
  <1>1. chs[c] \in Hchan(c) /\ SameBuffers(chs) /\ DOMAIN chs = C
    BY TrimmedSame DEF Trimmed
  <1>2. <<>> \in Seq(Sudogs)
    OBVIOUS
  <1>3. /\ h \in Hchan(c) /\ h.closed = chs[c].closed /\ h.qcount = chs[c].qcount
        /\ h.buf = chs[c].buf /\ h.sendx = chs[c].sendx /\ h.recvx = chs[c].recvx
    BY <1>1, <1>2 DEF Hchan
  <1> DEFINE new == [chs EXCEPT ![c] = h]
  <1>4. new[c] = h /\ \A e \in C \ {c} : new[e] = chs[e]
    BY <1>1
  <1> HIDE DEF new
  <1>5. SameBuffers(new)
    BY <1>1, <1>3, <1>4 DEF SameBuffers
  <1> QED
    BY <1>3, <1>4, <1>5, SameValues

(* A send into the buffer.                                                 *)
LEMMA SendToBufferKeeps ==
  ASSUME ChanInv, WaitersInv', NEW g \in G, NEW i, NEW c \in C, NEW chs, Trimmed(chs),
         HasCase(g, i, "send", c), pc[g] \in {"lock", "sellock", "loop"}, SendToBuffer(g, i, c, chs)
  PROVE  Keeps
  <1> DEFINE h == [chs[c] EXCEPT !.recvq = <<>>]
             k == Put(h, c, g)
             r == Result("sent", i, None)
  <1>1. ~chs[c].closed /\ chs[c].qcount < Size[c] /\ ch' = [chs EXCEPT ![c] = k] /\ End(g, r)
    BY DEF SendToBuffer
  <1>2. h = [chs[c] EXCEPT !.recvq = <<>>]
    OBVIOUS
  <1> HIDE DEF h
  <1>3. /\ h \in Hchan(c) /\ Values(h, c) = Values(ch[c], c) /\ Ring(h, c)
        /\ h.closed = ch[c].closed /\ h.qcount = ch[c].qcount
        /\ h.closed = chs[c].closed /\ h.qcount = chs[c].qcount
    BY <1>2, Emptied
  <1>4. ~ch[c].closed /\ ~h.closed /\ h.qcount < Size[c]
    BY <1>1, <1>3
  <1>5. k.closed = h.closed /\ k \in Hchan(c)
    <2>1. k.closed = h.closed
      BY <1>3 DEF Put, Hchan
    <2>2. ch'[c] = k
      BY <1>1 DEF Trimmed
    <2> QED
      BY <2>1, <2>2 DEF WaitersInv, TypeOK, Hchan, Index
  <1>6. Values(k, c) = Append(Values(ch[c], c), g) /\ Ring(k, c)
    <2>1. g \in Vals
      BY DEF Vals
    <2> QED
      BY <1>1, <1>3, <1>4, <1>5, <2>1, PutProperties
  <1> HIDE DEF k, r
  <1>7. /\ ch'[c] = k /\ RingFits' /\ Closes
        /\ \A e \in C : ch'[e].closed = ch[e].closed
        /\ \A e \in C \ {c} : Values(ch'[e], e) = Values(ch[e], e)
    <2>1. k.closed = ch[c].closed /\ (k.closed => k.qcount \in 0..ch[c].qcount)
      BY <1>1, <1>3, <1>4, <1>5
    <2> QED
      BY <1>1, <1>6, <2>1, ChannelChanges
  <1>8. /\ \A x \in G : OutcomeFits(x)'
        /\ \A x \in G \ {g} : Outcome(x)' = Outcome(x)
        /\ Outcome(g)' = r /\ call' = call
    <2>1. r # Pending
      BY DEF r, Result, Pending
    <2> QED
      BY <1>1, <1>7, <2>1, EndOutcome
  <1>9. Abs!Send(g, i, c)
    <2>1. Abs!Has(g, i, "send", c)
      BY HasIt
    <2>2. [e \in C |-> ch[e].closed]' = [e \in C |-> ch[e].closed]
      BY <1>7
    <2>3. [e \in C |-> Values(ch[e], e)]'
            = [[e \in C |-> Values(ch[e], e)] EXCEPT ![c] = Append(Values(ch[c], c), g)]
      BY <1>6, <1>7, QueuesChange
    <2>4. [x \in G |-> Outcome(x)]' = [[x \in G |-> Outcome(x)] EXCEPT ![g] = r]
      BY <1>8, ResultsStep
    <2>5. ~ch[c].closed /\ Len(Values(ch[c], c)) < Size[c]
      BY <1>1, <1>3, <1>4, ValuesType
    <2> QED
      BY <1>8, <2>1, <2>2, <2>3, <2>4, <2>5 DEF Abs!Send, Abs!With, Result, r
  <1>10. Abs!Next
    <2>1. Abs!CaseStep(g, i)
      BY <1>9, AbsNames DEF Abs!CaseStep
    <2> QED
      BY <2>1, CaseIsStep
  <1> QED
    BY <1>7, <1>8, <1>10 DEF Keeps

(* A receive from the buffer.                                              *)
LEMMA RecvFromBufferKeeps ==
  ASSUME ChanInv, WaitersInv', NEW g \in G, NEW i, NEW c \in C, NEW chs, Trimmed(chs),
         HasCase(g, i, "recv", c), pc[g] \in {"lock", "sellock", "loop"}, RecvFromBuffer(g, i, c, chs)
  PROVE  Keeps
  <1> DEFINE h == [chs[c] EXCEPT !.sendq = <<>>]
             k == Take(h, c)
  <1>1. /\ chs[c].qcount > 0 /\ ch' = [chs EXCEPT ![c] = k]
        /\ End(g, Result("received", i, chs[c].buf[chs[c].recvx]))
    BY DEF RecvFromBuffer
  <1>2. h = [chs[c] EXCEPT !.sendq = <<>>]
    OBVIOUS
  <1> HIDE DEF h
  <1>3. /\ h \in Hchan(c) /\ Values(h, c) = Values(ch[c], c) /\ Ring(h, c)
        /\ h.closed = ch[c].closed /\ h.qcount = ch[c].qcount
        /\ h.closed = chs[c].closed /\ h.qcount = chs[c].qcount
        /\ h.buf = chs[c].buf /\ h.recvx = chs[c].recvx
    BY <1>2, Emptied
  <1>4. h.qcount > 0
    BY <1>1, <1>3
  <1>5. k.closed = h.closed /\ k.qcount = h.qcount - 1 /\ k \in Hchan(c)
    <2>1. k.closed = h.closed /\ k.qcount = h.qcount - 1
      BY <1>3 DEF Take, Hchan
    <2>2. ch'[c] = k
      BY <1>1 DEF Trimmed
    <2> QED
      BY <2>1, <2>2 DEF WaitersInv, TypeOK, Hchan, Index
  <1>6. PICK v : v = Head(Values(ch[c], c))
    OBVIOUS
  <1> DEFINE r == Result("received", i, v)
  <1>7. /\ Values(k, c) = Tail(Values(ch[c], c)) /\ Ring(k, c) /\ Values(ch[c], c) # <<>>
        /\ chs[c].buf[chs[c].recvx] = v
    BY <1>1, <1>3, <1>4, <1>5, <1>6, TakeProperties
  <1>8. End(g, r)
    BY <1>1, <1>7
  <1> HIDE DEF k, r
  <1>9. /\ ch'[c] = k /\ RingFits' /\ Closes
        /\ \A e \in C : ch'[e].closed = ch[e].closed
        /\ \A e \in C \ {c} : Values(ch'[e], e) = Values(ch[e], e)
    <2>1. h.qcount \in Nat /\ h.qcount > 0
      BY <1>1, <1>3, ValuesType
    <2>2. k.closed = ch[c].closed /\ k.qcount \in 0..ch[c].qcount
      BY <1>3, <1>5, <2>1
    <2> QED
      BY <1>1, <1>7, <2>2, ChannelChanges
  <1>10. /\ \A x \in G : OutcomeFits(x)'
         /\ \A x \in G \ {g} : Outcome(x)' = Outcome(x)
         /\ Outcome(g)' = r /\ call' = call
    <2>1. r # Pending
      BY DEF r, Result, Pending
    <2> QED
      BY <1>8, <1>9, <2>1, EndOutcome
  <1>11. Abs!Receive(g, i, c)
    <2>1. Abs!Has(g, i, "recv", c)
      BY HasIt
    <2>2. [e \in C |-> ch[e].closed]' = [e \in C |-> ch[e].closed]
      BY <1>9
    <2>3. [e \in C |-> Values(ch[e], e)]'
            = [[e \in C |-> Values(ch[e], e)] EXCEPT ![c] = Tail(Values(ch[c], c))]
      BY <1>7, <1>9, QueuesChange
    <2>4. [x \in G |-> Outcome(x)]' = [[x \in G |-> Outcome(x)] EXCEPT ![g] = r]
      BY <1>10, ResultsStep
    <2> QED
      BY <1>6, <1>7, <1>10, <2>1, <2>2, <2>3, <2>4 DEF Abs!Receive, Abs!With, Result, r
  <1>12. Abs!Next
    <2>1. Abs!CaseStep(g, i)
      BY <1>11, AbsNames DEF Abs!CaseStep
    <2> QED
      BY <2>1, CaseIsStep
  <1> QED
    BY <1>9, <1>10, <1>12 DEF Keeps

(* One call ends, and no channel changes.                                  *)
LEMMA OneEnds ==
  ASSUME ChanInv, NEW g \in G, NEW r, r # Pending, End(g, r), SameBuffers(ch'),
         pc[g] \notin {"ret", "release", "woken", "relock"}
  PROVE  /\ (\A x \in G : OutcomeFits(x)') /\ RingFits' /\ call' = call
         /\ [c \in C |-> ch[c].closed]' = [c \in C |-> ch[c].closed]
         /\ [c \in C |-> Values(ch[c], c)]' = [c \in C |-> Values(ch[c], c)]
         /\ [x \in G |-> Outcome(x)]' = [[x \in G |-> Outcome(x)] EXCEPT ![g] = r]
         /\ Outcome(g) = Pending
  <1>1. \A c \in C : /\ Values(ch'[c], c) = Values(ch[c], c) /\ Ring(ch'[c], c)
                     /\ ch'[c].closed = ch[c].closed /\ ch'[c].qcount \in 0..ch[c].qcount
    BY SameValues
  <1>2. RingFits' /\ Closes
    BY <1>1 DEF Ring, RingFits, Closes
  <1>3. /\ \A x \in G : OutcomeFits(x)'
        /\ \A x \in G \ {g} : Outcome(x)' = Outcome(x)
        /\ Outcome(g) = Pending /\ Outcome(g)' = r /\ call' = call
    BY <1>2, EndOutcome
  <1>4. [x \in G |-> Outcome(x)]' = [[x \in G |-> Outcome(x)] EXCEPT ![g] = r]
    BY <1>3, ResultsStep
  <1> QED
    BY <1>1, <1>2, <1>3, <1>4

(* The result of one call changes, which finds a closed channel.           *)
OnlyResult(g, r) ==
  /\ call' = call
  /\ [c \in C |-> ch[c].closed]' = [c \in C |-> ch[c].closed]
  /\ [c \in C |-> Values(ch[c], c)]' = [c \in C |-> Values(ch[c], c)]
  /\ [x \in G |-> Outcome(x)]' = [[x \in G |-> Outcome(x)] EXCEPT ![g] = r]

(* A case that finds its channel closed.                                   *)
LEMMA ClosedIsStep ==
  ASSUME ChanInv, NEW g \in G, NEW i, NEW c \in C, NEW d, HasCase(g, i, d, c), ch[c].closed,
         \/ d = "send" /\ OnlyResult(g, Result("panic", i, None))
         \/ d = "close" /\ i = 1 /\ OnlyResult(g, Result("panic", 1, None))
         \/ d = "recv" /\ ch[c].qcount = 0 /\ OnlyResult(g, Result("closed", i, None))
  PROVE  Abs!Next
  <1>1. Abs!Has(g, i, d, c)
    BY HasIt
  <1>2. CASE d = "send"
    <2>1. Abs!SendClosed(g, i, c)
      BY <1>1, <1>2 DEF Abs!SendClosed, Abs!With, Result, OnlyResult
    <2>2. Abs!CaseStep(g, i)
      BY <2>1, AbsNames DEF Abs!CaseStep
    <2> QED
      BY <2>2, CaseIsStep
  <1>3. CASE d = "recv"
    <2>1. ch[c].closed /\ ch[c].qcount = 0
      BY <1>3
    <2>2. Values(ch[c], c) = <<>>
      BY <2>1, HchanFields, TypeHalves, ValuesType DEF ChanInv, WaitersInv
    <2>3. Abs!ReceiveClosed(g, i, c)
      BY <1>1, <1>3, <2>1, <2>2 DEF Abs!ReceiveClosed, Abs!With, Result, OnlyResult
    <2>4. Abs!CaseStep(g, i)
      BY <2>3, AbsNames DEF Abs!CaseStep
    <2> QED
      BY <2>4, CaseIsStep
  <1>4. CASE d = "close"
    <2>1. Abs!ClosePanics(g, c)
      BY <1>1, <1>4 DEF Abs!ClosePanics, Abs!With, Result, OnlyResult
    <2> QED
      BY <2>1, AbsNames DEF Abs!Next
  <1> QED
    BY <1>2, <1>3, <1>4

(* A call ends that finds its channel closed.                              *)
LEMMA OnClosedKeeps ==
  ASSUME ChanInv, NEW g \in G, NEW i, NEW c \in C, NEW d, HasCase(g, i, d, c), SameBuffers(ch'),
         pc[g] \notin {"ret", "release", "woken", "relock"}, ch[c].closed,
         \/ d = "send" /\ End(g, Result("panic", i, None))
         \/ d = "close" /\ i = 1 /\ End(g, Result("panic", 1, None))
         \/ d = "recv" /\ ch[c].qcount = 0 /\ End(g, Result("closed", i, None))
  PROVE  Keeps
  <1> DEFINE r == IF d = "recv" THEN Result("closed", i, None) ELSE Result("panic", i, None)
  <1>1. End(g, r) /\ r # Pending
    BY DEF Result, Pending
  <1>2. (\A x \in G : OutcomeFits(x)') /\ RingFits' /\ OnlyResult(g, r)
    <2> HIDE DEF r
    <2> QED
      BY <1>1, OneEnds DEF OnlyResult
  <1>3. Abs!Next
    BY <1>2, ClosedIsStep
  <1> QED
    BY <1>2, <1>3 DEF Keeps

(* A call gives up that may not block.                                     *)
LEMMA DefaultKeeps ==
  ASSUME ChanInv, NEW g \in G, End(g, Result("default", 0, None)), SameBuffers(ch'),
         pc[g] \notin {"idle", "ret", "release", "woken", "relock"}, ~call[g].block
  PROVE  Keeps
  <1>1. Result("default", 0, None) # Pending
    BY DEF Result, Pending
  <1>2. /\ (\A x \in G : OutcomeFits(x)') /\ RingFits' /\ OnlyResult(g, Result("default", 0, None))
        /\ Outcome(g) = Pending
    BY <1>1, OneEnds DEF OnlyResult
  <1>3. call[g] # Idle
    BY DEF ChanInv, WaitersInv, CallFits
  <1>4. Abs!Default(g)
    BY <1>2, <1>3, AbsNames DEF Abs!Default, Abs!With, Result, OnlyResult
  <1>5. Abs!Next
    BY <1>4 DEF Abs!Next
  <1> QED
    BY <1>2, <1>5 DEF Keeps

(* A send to a receiver that waits.                                        *)
LEMMA SendToReceiverKeeps ==
  ASSUME ChanInv, WaitersInv', NEW g \in G, NEW i, NEW c \in C, NEW chs, Trimmed(chs), LockFree(g, c),
         HasCase(g, i, "send", c), pc[g] \in {"lock", "sellock", "loop"}, SendToReceiver(g, i, c, chs)
  PROVE  Keeps
  <1> DEFINE q == chs[c].recvq
             h == [chs[c] EXCEPT !.recvq = AfterDequeue(q)]
             r == Result("sent", i, None)
  <1>1. /\ Found(q) /\ ch' = [chs EXCEPT ![c] = h]
        /\ Complete(g, r, Dequeued(q), g)
    BY DEF SendToReceiver
  <1>2. /\ WaitersInv /\ chs[c] \in Hchan(c) /\ SameBuffers(chs) /\ Trims(q, Queue(c, "recv"))
        /\ DOMAIN chs = C
    BY TrimmedSame DEF Trimmed, ChanInv, Queue
  <1>3. /\ h.closed = chs[c].closed /\ h.qcount = chs[c].qcount /\ h.buf = chs[c].buf
        /\ h.sendx = chs[c].sendx /\ h.recvx = chs[c].recvx
    BY <1>2 DEF Hchan
  <1> HIDE DEF h
  <1>4. SameBuffers(ch')
    <2>1. ch'[c] = h /\ \A e \in C \ {c} : ch'[e] = chs[e]
      BY <1>1, <1>2
    <2> QED
      BY <1>2, <1>3, <2>1 DEF SameBuffers
  <1>5. /\ RingFits' /\ Closes
        /\ \A e \in C : ch'[e].closed = ch[e].closed
        /\ \A e \in C : Values(ch'[e], e) = Values(ch[e], e)
    <2>1. \A e \in C : /\ Values(ch'[e], e) = Values(ch[e], e) /\ Ring(ch'[e], e)
                       /\ ch'[e].closed = ch[e].closed /\ ch'[e].qcount \in 0..ch[e].qcount
      BY <1>4, SameValues
    <2> QED
      BY <2>1 DEF Ring, RingFits, Closes
  <1> HIDE DEF q, r
  <1>6. r # Pending
    BY DEF r, Result, Pending
  <1>7. Queue(c, "recv") # <<>> /\ \E s : s = Dequeued(q) /\ Met(g, r, s, "recv", c, g)
    BY <1>1, <1>2, <1>5, <1>6, MeetOutcome
  <1>8. PICK s : Met(g, r, s, "recv", c, g)
    BY <1>7
  <1>9. /\ s.g \in G /\ s.g # g /\ HasCase(s.g, s.i, "recv", c)
        /\ \A x \in G : OutcomeFits(x)'
        /\ \A x \in G \ {g, s.g} : Outcome(x)' = Outcome(x)
        /\ Outcome(g)' = r /\ Outcome(s.g)' = Handed(s, "recv", g)
        /\ call' = call
    BY <1>8 DEF Met
  <1>10. Values(ch[c], c) = <<>> /\ ~ch[c].closed
    <2>1. ch[c].qcount \in 0..Size[c] /\ Size[c] \in Nat /\ ch[c] \in Hchan(c)
      BY <1>2, HchanFields, TypeHalves DEF WaitersInv
    <2>2. ~(Size[c] > 0 /\ ch[c].qcount > 0)
      BY <1>2, <1>7 DEF WaitersInv, WaitQueues, QueueInvariants, Queue
    <2>3. ch[c].qcount = 0
      BY <2>1, <2>2
    <2> QED
      BY <1>2, <1>7, <2>1, <2>3, ValuesType, WaitersOpen
  <1>11. Abs!Next
    <2>1. /\ Len(Values(ch[c], c)) \in {0, Size[c]}
          /\ Tail(Append(Values(ch[c], c), g)) = <<>> /\ Head(Append(Values(ch[c], c), g)) = g
      <3>1. \A x : Append(<<>>, x) = <<x>> /\ Tail(<<x>>) = <<>> /\ Head(<<x>>) = x
        OBVIOUS
      <3>2. Len(<<>>) = 0
        OBVIOUS
      <3> QED
        BY <1>10, <3>1, <3>2
    <2>2. Values(ch'[c], c) = Tail(Append(Values(ch[c], c), g))
      BY <1>5, <1>10, <2>1
    <2>3. Outcome(s.g)' = Result("received", s.i, Head(Append(Values(ch[c], c), g)))
      BY <1>9, <2>1 DEF Handed
    <2>4. Outcome(g)' = Result("sent", i, None)
      BY <1>9 DEF r
    <2> QED
      BY <1>5, <1>9, <1>10, <2>1, <2>2, <2>3, <2>4, ExchangeIsStep
  <1> QED
    BY <1>5, <1>9, <1>11 DEF Keeps

(* A receive from a sender that waits.                                     *)
LEMMA RecvFromSenderKeeps ==
  ASSUME ChanInv, WaitersInv', NEW g \in G, NEW i, NEW c \in C, NEW chs, Trimmed(chs), LockFree(g, c),
         HasCase(g, i, "recv", c), pc[g] \in {"lock", "sellock", "loop"}, RecvFromSender(g, i, c, chs)
  PROVE  Keeps
  <1> DEFINE q == chs[c].sendq
             h == [chs[c] EXCEPT !.sendq = AfterDequeue(q)]
             k(s) == IF Size[c] = 0 THEN h ELSE Swap(h, c, s.g)
             v(s) == IF Size[c] = 0 THEN s.g ELSE h.buf[h.recvx]
  <1>1. /\ Found(q) /\ ch' = [chs EXCEPT ![c] = k(Dequeued(q))]
        /\ Complete(g, Result("received", i, v(Dequeued(q))), Dequeued(q), None)
    BY DEF RecvFromSender
  <1>2. /\ WaitersInv /\ chs[c] \in Hchan(c) /\ SameBuffers(chs) /\ Trims(q, Queue(c, "send"))
        /\ DOMAIN chs = C
    BY TrimmedSame DEF Trimmed, ChanInv, Queue
  <1>3. AfterDequeue(q) \in Seq(Sudogs)
    <2>1. q \in Seq(Sudogs)
      BY <1>2 DEF Hchan
    <2> QED
      BY <2>1, DequeueProperties
  <1>4. /\ h \in Hchan(c) /\ h.closed = chs[c].closed /\ h.qcount = chs[c].qcount
        /\ h.buf = chs[c].buf /\ h.sendx = chs[c].sendx /\ h.recvx = chs[c].recvx
    BY <1>2, <1>3 DEF Hchan
  <1> HIDE DEF h, q
  <1>5. /\ Values(h, c) = Values(ch[c], c) /\ Ring(h, c)
        /\ h.closed = ch[c].closed /\ h.qcount = ch[c].qcount
    <2> DEFINE new == [chs EXCEPT ![c] = h]
    <2>1. new[c] = h /\ \A e \in C \ {c} : new[e] = chs[e]
      BY <1>2
    <2> HIDE DEF new
    <2>2. SameBuffers(new)
      BY <1>2, <1>4, <2>1 DEF SameBuffers
    <2> QED
      BY <2>1, <2>2, SameValues
  <1>6. PICK s : s = Dequeued(q)
    OBVIOUS
  <1>7. PICK r : r = Result("received", i, v(s))
    OBVIOUS
  <1>8. ch' = [chs EXCEPT ![c] = k(s)] /\ Complete(g, r, Dequeued(q), None)
    BY <1>1, <1>6, <1>7
  <1>9. /\ s.g \in G /\ ch[c].qcount = Size[c] /\ Size[c] \in Nat /\ ~ch[c].closed
        /\ ch[c] \in Hchan(c)
    <2>1. q = Queue(c, "send") /\ q # <<>>
      BY <1>1, <1>2, NothingFound DEF Trims
    <2>2. q \in Seq(Sudogs)
      BY <1>2, <2>1, HchanFields, TypeHalves DEF WaitersInv
    <2>3. s \in ToSet(q)
      BY <1>1, <1>6, <2>2, DequeueProperties
    <2>4. s.g \in G
      BY <1>2, <2>1, <2>3, QueuedFacts
    <2>5. ch[c].qcount \in 0..Size[c] /\ Size[c] \in Nat /\ ch[c] \in Hchan(c)
      BY <1>2, HchanFields, TypeHalves DEF WaitersInv
    <2>6. ~(ch[c].qcount < Size[c])
      BY <1>2, <2>1 DEF WaitersInv, WaitQueues, QueueInvariants, Queue
    <2>7. ch[c].qcount = Size[c]
      BY <2>5, <2>6
    <2> QED
      BY <1>2, <2>1, <2>4, <2>5, <2>7, WaitersOpen
  <1>10. /\ Values(k(s), c) = Tail(Append(Values(ch[c], c), s.g)) /\ Ring(k(s), c)
         /\ v(s) = Head(Append(Values(ch[c], c), s.g))
         /\ k(s).closed = h.closed
    <2>1. CASE Size[c] = 0
      <3>1. Values(h, c) = <<>>
        BY <1>4, <1>5, <1>9, <2>1, ValuesType
      <3>2. \A x : Append(<<>>, x) = <<x>> /\ Tail(<<x>>) = <<>> /\ Head(<<x>>) = x
        OBVIOUS
      <3> QED
        BY <1>5, <2>1, <3>1, <3>2
    <2>2. CASE Size[c] # 0
      <3>1. k(s) = Swap(h, c, s.g) /\ v(s) = h.buf[h.recvx]
        BY <2>2
      <3>2. k(s).closed = h.closed
        BY <1>4, <3>1 DEF Swap, Hchan
      <3>3. Swap(h, c, s.g) \in Hchan(c)
        <4>1. ch'[c] = k(s)
          BY <1>2, <1>8
        <4> QED
          BY <3>1, <4>1 DEF WaitersInv, TypeOK, Hchan, Index
      <3>4. s.g \in Vals /\ Size[c] > 0
        BY <1>9, <2>2 DEF Vals
      <3> QED
        BY <1>4, <1>5, <1>9, <3>1, <3>2, <3>3, <3>4, SwapProperties
    <2> QED
      BY <2>1, <2>2
  <1>11. /\ ch'[c] = k(s) /\ RingFits' /\ Closes
         /\ \A e \in C : ch'[e].closed = ch[e].closed
         /\ \A e \in C \ {c} : Values(ch'[e], e) = Values(ch[e], e)
    <2>1. k(s).closed = ch[c].closed /\ ~k(s).closed
      BY <1>5, <1>9, <1>10
    <2> HIDE DEF k
    <2> QED
      BY <1>8, <1>10, <2>1, ChannelChanges
  <1>12. /\ s.g # g /\ HasCase(s.g, s.i, "send", c)
         /\ \A x \in G : OutcomeFits(x)'
         /\ \A x \in G \ {g, s.g} : Outcome(x)' = Outcome(x)
         /\ Outcome(g)' = r /\ Outcome(s.g)' = Handed(s, "send", None)
         /\ call' = call
    <2>1. r # Pending
      BY <1>7 DEF Result, Pending
    <2>2. \E t : t = Dequeued(q) /\ Met(g, r, t, "send", c, None)
      BY <1>1, <1>2, <1>8, <1>11, <2>1, MeetOutcome
    <2> QED
      BY <1>6, <2>2 DEF Met
  <1>13. Abs!Next
    <2>1. Len(Values(ch[c], c)) \in {0, Size[c]}
      BY <1>9, ValuesType
    <2>2. Values(ch'[c], c) = Tail(Append(Values(ch[c], c), s.g))
      BY <1>10, <1>11
    <2>3. Outcome(g)' = Result("received", i, Head(Append(Values(ch[c], c), s.g)))
      BY <1>7, <1>10, <1>12
    <2>4. Outcome(s.g)' = Result("sent", s.i, None)
      BY <1>12 DEF Handed
    <2> QED
      BY <1>9, <1>11, <1>12, <2>1, <2>2, <2>3, <2>4, ExchangeIsStep
  <1> QED
    BY <1>11, <1>12, <1>13 DEF Keeps

(* A case that goes ahead takes effect.                                    *)
LEMMA ReadyCaseKeeps ==
  ASSUME ChanInv, WaitersInv', NEW g \in G, NEW i, NEW c \in C, NEW chs, Trimmed(chs), LockFree(g, c),
         NEW d, HasCase(g, i, d, c), pc[g] \in {"lock", "sellock", "loop"},
         \/ d = "send" /\ SendCase(g, i, c, chs)
         \/ d = "recv" /\ RecvCase(g, i, c, chs)
  PROVE  Keeps
  <1>1. chs[c].closed = ch[c].closed /\ chs[c].qcount = ch[c].qcount
    BY TrimmedSame DEF SameBuffers
  <1>2. CASE ch' = chs
    <2>1. SameBuffers(ch')
      BY <1>2, TrimmedSame
    <2>2. CASE d = "send" /\ SendOnClosed(g, i, c, chs)
      BY <1>1, <2>1, <2>2, OnClosedKeeps DEF SendOnClosed
    <2>3. CASE d = "recv" /\ RecvOnClosed(g, i, c, chs)
      BY <1>1, <2>1, <2>3, OnClosedKeeps DEF RecvOnClosed
    <2>4. CASE ~SendOnClosed(g, i, c, chs) /\ ~RecvOnClosed(g, i, c, chs)
      BY <2>4, SendToReceiverKeeps, SendToBufferKeeps, RecvFromSenderKeeps, RecvFromBufferKeeps
      DEF SendCase, RecvCase
    <2> QED
      BY <2>2, <2>3, <2>4, SendToReceiverKeeps, SendToBufferKeeps, RecvFromSenderKeeps, RecvFromBufferKeeps
      DEF SendCase, RecvCase
  <1>3. CASE ch' # chs
    BY <1>3, SendToReceiverKeeps, SendToBufferKeeps, RecvFromSenderKeeps, RecvFromBufferKeeps
    DEF SendCase, RecvCase, SendOnClosed, RecvOnClosed
  <1> QED
    BY <1>2, <1>3

-----------------------------------------------------------------------------
(* The one case of a call that is not a select.                            *)
LEMMA OneCase ==
  ASSUME ChanInv, NEW g \in G, call[g] # Idle, ~IsSelect(g), Outcome(g) = Pending
  PROVE  /\ HasCase(g, 1, CaseOf(g, 1).dir, The(g))
         /\ CaseOf(g, 1).dir \in {"send", "recv", "close"}
         /\ CaseOf(g, 1).dir = "close" <=> call[g].kind = "closechan"
  <1>1. WaitersInv /\ TypeOK
    BY DEF ChanInv, WaitersInv
  <1>2. DOMAIN call[g].cases = {1} /\ call[g].kind \in {"chan", "closechan"}
    BY <1>1, CallShape DEF IsSelect
  <1>3. CASE call[g].kind = "chan"
    <2>1. CaseOf(g, 1) \in Case
      BY <1>1, <1>3, CallShape
    <2> QED
      BY <1>2, <1>3, <2>1 DEF HasCase, Case, The
  <1>4. CASE call[g].kind = "closechan"
    <2>1. CaseOf(g, 1) = [dir |-> "close", c |-> The(g)]
      BY <1>1, <1>4, CallShape
    <2>2. CaseOf(g, 1).dir = "close"
      BY <2>1
    <2> QED
      BY <1>2, <1>4, <2>1, <2>2 DEF HasCase
  <1> QED
    BY <1>2, <1>3, <1>4

(* Enqueueing sudogs changes no buffer.                                    *)
LEMMA EnqueueSame ==
  ASSUME ChanInv, NEW chs, Trimmed(chs), NEW g, NEW order
  PROVE  SameBuffers(Enqueue(g, order, chs))
  <1> DEFINE new == Enqueue(g, order, chs)
  <1>1. \A c \in C : \E r, s : new[c] = [chs[c] EXCEPT !.recvq = r, !.sendq = s]
    BY DEF Enqueue
  <1>2. \A c \in C : chs[c] \in Hchan(c)
    BY DEF Trimmed
  <1>3. SameBuffers(chs)
    BY TrimmedSame
  <1> HIDE DEF new
  <1>4. \A c \in C : /\ new[c].closed = chs[c].closed
                     /\ new[c].qcount = chs[c].qcount /\ new[c].buf = chs[c].buf
                     /\ new[c].sendx = chs[c].sendx /\ new[c].recvx = chs[c].recvx
    BY <1>1, <1>2 DEF Hchan
  <1> QED
    BY <1>3, <1>4 DEF SameBuffers, new

(* No buffer changes where no channel does.                                *)
LEMMA SameChannels ==
  ASSUME WaitersInv, ch' = ch
  PROVE  SameBuffers(ch') /\ Closes
  BY SameClosed DEF SameBuffers

(* A step of g in its call which has no effect yet.                        *)
LEMMA MoveKeeps ==
  ASSUME ChanInv, NEW g \in G, NEW to, pc' = [pc EXCEPT ![g] = to], UNCHANGED <<call, gvars, result>>,
         SameBuffers(ch'), pc[g] \notin {"ret", "release", "woken", "relock"},
         to \notin {"ret", "release", "woken"}, to = "recvAgain" => ch'[The(g)].closed,
         to \in FastPath => pc[g] \in FastPath
  PROVE  Keeps
  <1>1. Closes
    <2>1. \A c \in C : ch'[c].closed = ch[c].closed /\ ch'[c].qcount \in 0..ch[c].qcount
      BY SameValues
    <2> QED
      BY <2>1 DEF Closes
  <1>2. (\A x \in G : OutcomeFits(x)' /\ Outcome(x)' = Outcome(x)) /\ call' = call
    BY <1>1, MoveOutcome
  <1> QED
    BY <1>2, StutterKeeps

(* The fast paths give up, or find a channel that is closed and empty.     *)
LEMMA FastStepKeeps ==
  ASSUME ChanInv, NEW g \in G, FastStep(g)
  PROVE  Keeps
  <1>1. pc[g] \in FastPath
    BY DEF FastStep, SendLoadClosed, SendLoadFull, SendLoadFullFirst, SendLoadClosedSecond,
       RecvLoadEmpty, RecvLoadClosed, RecvLoadEmptyAgain, FastPath, SendPath, RecvPath
  <1>2. /\ WaitersInv /\ CallFits(g) /\ ~call[g].block
        /\ pc[g] \notin {"idle", "ret", "release", "woken", "relock"}
    BY <1>1 DEF ChanInv, WaitersInv, OutcomeFits, FastPath, SendPath, RecvPath
  <1>3. Outcome(g) = Pending /\ call[g] # Idle /\ ~IsSelect(g) /\ The(g) \in C
    BY <1>1, <1>2, NoOutcome DEF CallFits
  <1>4. CASE GiveUp(g)
    BY <1>2, <1>4, DefaultKeeps, SameChannels DEF GiveUp
  <1>5. ASSUME NEW to \in FastPath \cup {"lock"}, GoOn(g, to), to = "recvAgain" => ch[The(g)].closed
        PROVE  Keeps
    <2>1. to \notin {"ret", "release", "woken"}
      BY DEF FastPath, SendPath, RecvPath
    <2>2. ch' = ch /\ SameBuffers(ch')
      BY <1>2, <1>5, SameChannels DEF GoOn
    <2> QED
      BY <1>1, <1>2, <1>5, <2>1, <2>2, MoveKeeps DEF GoOn
  <1>6. {"sendFull", "sendClosedSecond", "recvClosed", "recvAgain", "lock"} \subseteq FastPath \cup {"lock"}
    BY DEF FastPath, SendPath, RecvPath
  <1>7. CASE RecvLoadEmptyAgain(g) /\ empty(The(g))
    <2>1. End(g, Result("closed", 1, None)) /\ ch' = ch /\ pc[g] = "recvAgain"
      BY <1>7 DEF RecvLoadEmptyAgain
    <2>2. CaseOf(g, 1).dir = "recv" /\ HasCase(g, 1, "recv", The(g))
      BY <1>2, <1>3, <2>1, OneCase DEF CallFits, RecvPath
    <2>3. ch[The(g)].closed
      BY <2>1 DEF ChanInv, OutcomeFits
    <2>4. ch[The(g)].qcount = 0
      <3>1. ch[The(g)].qcount \in 0..Size[The(g)]
        BY <1>2, <1>3, HchanFields, TypeHalves DEF WaitersInv
      <3> QED
        BY <1>7, <3>1 DEF empty
    <2> QED
      BY <1>2, <1>3, <2>1, <2>2, <2>3, <2>4, OnClosedKeeps, SameChannels
  <1>8. CASE RecvLoadClosed(g) /\ ~GiveUp(g)
    BY <1>5, <1>6, <1>8 DEF RecvLoadClosed
  <1> QED
    BY <1>4, <1>5, <1>6, <1>7, <1>8 DEF FastStep, SendLoadClosed, SendLoadFull, SendLoadFullFirst,
       SendLoadClosedSecond, RecvLoadEmpty, RecvLoadClosed, RecvLoadEmptyAgain

(* A call on a nil channel.                                                *)
LEMMA NilChanKeeps ==
  ASSUME ChanInv, NEW g \in G, NilChan(g)
  PROVE  Keeps
  <1>1. pc[g] = "nil" /\ ch' = ch /\ SameBuffers(ch') /\ WaitersInv /\ CallFits(g)
    BY SameChannels DEF NilChan, ChanInv, WaitersInv
  <1>2. Outcome(g) = Pending /\ call[g] # Idle /\ ~IsSelect(g) /\ The(g) = 0
    BY <1>1, NoOutcome DEF CallFits
  <1>3. CASE call[g].kind = "closechan"
    <2>1. End(g, Result("panic", 1, None))
      BY <1>3 DEF NilChan
    <2>2. Result("panic", 1, None) # Pending
      BY DEF Result, Pending
    <2>3. (\A x \in G : OutcomeFits(x)') /\ RingFits' /\ OnlyResult(g, Result("panic", 1, None))
      BY <1>1, <2>1, <2>2, OneEnds DEF OnlyResult
    <2>4. Abs!Has(g, 1, "close", 0)
      BY <1>2, <1>3, OneCase, HasIt
    <2>5. Abs!ClosePanics(g, 0)
      BY <2>3, <2>4, AbsNames DEF Abs!ClosePanics, Abs!With, Result, OnlyResult
    <2>6. Abs!Next
      BY <2>5, AbsNames DEF Abs!Next
    <2> QED
      BY <2>3, <2>6 DEF Keeps
  <1>4. CASE call[g].kind # "closechan" /\ ~call[g].block
    <2>1. End(g, Result("default", 0, None))
      BY <1>4 DEF NilChan
    <2> QED
      BY <1>1, <1>4, <2>1, DefaultKeeps
  <1>5. CASE call[g].kind # "closechan" /\ call[g].block
    <2>1. pc' = [pc EXCEPT ![g] = "parked"] /\ UNCHANGED <<call, gvars, result>>
      BY <1>5 DEF NilChan, Goto
    <2>2. "parked" \notin FastPath
      BY DEF FastPath, SendPath, RecvPath
    <2> QED
      BY <1>1, <2>1, <2>2, MoveKeeps
  <1> QED
    BY <1>3, <1>4, <1>5

(* The critical section of a send or a receive.                            *)
LEMMA LockedKeeps ==
  ASSUME ChanInv, WaitersInv', NEW g \in G, chansend(g) \/ chanrecv(g) \/ WouldBlock(g) \/ Park(g)
  PROVE  Keeps
  <1>1. pc[g] = "lock" /\ lock[The(g)] = None
    BY DEF chansend, chanrecv, WouldBlock, Park, Locked
  <1>2. WaitersInv /\ CallFits(g)
    BY DEF ChanInv, WaitersInv
  <1>3. Outcome(g) = Pending /\ call[g] # Idle /\ ~IsSelect(g) /\ The(g) \in C
    BY <1>1, <1>2, NoOutcome DEF CallFits
  <1>4. HasCase(g, 1, CaseOf(g, 1).dir, The(g)) /\ LockFree(g, The(g))
    BY <1>1, <1>3, OneCase DEF LockFree
  <1>5. CASE chansend(g) \/ chanrecv(g)
    <2>1. Trimmed(ch)
      BY <1>2, TrimmedCh
    <2>2. CASE chansend(g)
      BY <1>1, <1>3, <1>4, <2>1, <2>2, ReadyCaseKeeps DEF chansend, Locked
    <2>3. CASE chanrecv(g)
      BY <1>1, <1>3, <1>4, <2>1, <2>3, ReadyCaseKeeps DEF chanrecv, Locked
    <2> QED
      BY <1>5, <2>2, <2>3
  <1>6. CASE WouldBlock(g) \/ Park(g)
    <2>1. ~Ready(CaseOf(g, 1))
      BY <1>6 DEF WouldBlock, Park
    <2>2. Trimmed(Tried({CaseOf(g, 1)}))
      BY <1>2, <2>1, TriedTrims
    <2>3. CASE WouldBlock(g)
      <3>1. SameBuffers(ch')
        BY <2>2, <2>3, TrimmedSame DEF WouldBlock
      <3> QED
        BY <1>1, <2>3, <3>1, DefaultKeeps DEF WouldBlock
    <2>4. CASE Park(g)
      <3>1. SameBuffers(ch')
        BY <2>2, <2>4, EnqueueSame DEF Park
      <3>2. pc' = [pc EXCEPT ![g] = "parked"] /\ UNCHANGED <<call, gvars, result>>
        BY <2>4 DEF Park, Goto
      <3>3. "parked" \notin FastPath
        BY DEF FastPath, SendPath, RecvPath
      <3> QED
        BY <1>1, <3>1, <3>2, <3>3, MoveKeeps
    <2> QED
      BY <1>6, <2>3, <2>4
  <1> QED
    BY <1>5, <1>6

(* g has the result of the case that somebody else has completed.          *)
LEMMA TakeOutcome ==
  ASSUME ChanInv, NEW g \in G, pc[g] \in {"woken", "relock"}, param[g] # 0,
         pc' = [pc EXCEPT ![g] = "ret"], result' = [result EXCEPT ![g] = Completed(g)],
         param' = [param EXCEPT ![g] = 0], call' = call, elem' = elem, SameBuffers(ch')
  PROVE  Keeps
  <1>1. OthersOK
    BY TypeHalves DEF ChanInv, WaitersInv
  <1>2. /\ pc'[g] = "ret" /\ result'[g] = Completed(g) /\ param'[g] = 0
        /\ \A x \in G \ {g} : Same(x)
    BY <1>1 DEF OthersOK, Same
  <1>3. Outcome(g) = Completed(g) /\ Outcome(g)' = Completed(g)
    BY <1>2 DEF Outcome
  <1>4. Completed(g) # Pending
    BY DEF Completed, Result, Pending
  <1>5. OutcomeFits(g)'
    BY <1>2, <1>4 DEF OutcomeFits, FastPath, SendPath, RecvPath
  <1>6. Closes
    <2>1. \A c \in C : ch'[c].closed = ch[c].closed /\ ch'[c].qcount \in 0..ch[c].qcount
      BY SameValues
    <2> QED
      BY <2>1 DEF Closes
  <1> QED
    BY <1>2, <1>3, <1>5, <1>6, SameOutcome, StutterKeeps

(* A parked goroutine goes on.                                             *)
LEMMA WakeUpKeeps ==
  ASSUME ChanInv, NEW g \in G, WakeUp(g)
  PROVE  Keeps
  <1>1. /\ pc[g] = "woken" /\ pc' = [pc EXCEPT ![g] = "ret"] /\ param' = [param EXCEPT ![g] = 0]
        /\ ch' = ch /\ call' = call /\ elem' = elem
    BY DEF WakeUp, Goto
  <1>2. /\ WaitersInv /\ OthersOK /\ CallFits(g) /\ WakeUpFits(g) /\ OutcomeFits(g)
    BY TypeHalves DEF ChanInv, WaitersInv, WaitQueues
  <1>3. SameBuffers(ch') /\ Closes
    BY <1>1, <1>2, SameChannels
  <1>4. CASE param[g] # 0
    <2>1. result' = [result EXCEPT ![g] = Completed(g)]
      BY <1>4 DEF WakeUp
    <2> QED
      BY <1>1, <1>3, <1>4, <2>1, TakeOutcome
  <1>5. CASE param[g] = 0
    <2>1. /\ call[g] # Idle /\ ~IsSelect(g) /\ The(g) \in C /\ ch[The(g)].closed
          /\ CaseOf(g, 1).dir = "recv" => ch[The(g)].qcount = 0
      BY <1>1, <1>2, <1>5 DEF CallFits, WakeUpFits, OutcomeFits
    <2>2. Outcome(g) = Pending
      BY <1>1, <1>2, <1>5 DEF Outcome, OutcomeFits
    <2>3. HasCase(g, 1, CaseOf(g, 1).dir, The(g)) /\ CaseOf(g, 1).dir \in {"send", "recv", "close"}
      BY <2>1, <2>2, OneCase
    <2> DEFINE r == IF CaseOf(g, 1).dir = "recv" THEN Result("closed", 1, None) ELSE Result("panic", 1, None)
    <2>4. PICK s : s = r
      OBVIOUS
    <2>5. result' = [result EXCEPT ![g] = s] /\ s # Pending
      BY <1>5, <2>1, <2>4 DEF WakeUp, Result, Pending
    <2>6. /\ pc'[g] = "ret" /\ result'[g] = s /\ param'[g] = 0
          /\ \A x \in G \ {g} : Same(x)
      BY <1>1, <1>2, <2>5 DEF OthersOK, Same
    <2>7. OutcomeFits(g)' /\ Outcome(g)' = s
      BY <2>5, <2>6 DEF OutcomeFits, Outcome, FastPath, SendPath, RecvPath
    <2>8. /\ \A x \in G : OutcomeFits(x)'
          /\ \A x \in G \ {g} : Outcome(x)' = Outcome(x)
      BY <1>3, <2>6, <2>7, SameOutcome
    <2>9. RingFits' /\ OnlyResult(g, s)
      <3>1. \A c \in C : /\ Values(ch'[c], c) = Values(ch[c], c) /\ Ring(ch'[c], c)
                         /\ ch'[c].closed = ch[c].closed
        BY <1>3, SameValues
      <3>2. [x \in G |-> Outcome(x)]' = [[x \in G |-> Outcome(x)] EXCEPT ![g] = s]
        BY <2>7, <2>8, ResultsStep
      <3> QED
        BY <1>1, <3>1, <3>2 DEF OnlyResult, Ring, RingFits
    <2>10. Abs!Next
      BY <2>1, <2>3, <2>4, <2>9, ClosedIsStep
    <2> QED
      BY <2>8, <2>9, <2>10 DEF Keeps
  <1> QED
    BY <1>4, <1>5

(* What a change of c.closed leaves alone.                                 *)
LEMMA ClosedField ==
  ASSUME NEW c, NEW h \in Hchan(c), NEW k, k = [h EXCEPT !.closed = TRUE]
  PROVE  /\ k.closed = TRUE /\ k.qcount = h.qcount /\ k.buf = h.buf
         /\ k.sendx = h.sendx /\ k.recvx = h.recvx
  BY DEF Hchan

(* What a change of the queues leaves alone.                               *)
LEMMA QueueFields ==
  ASSUME NEW c, NEW h \in Hchan(c), NEW k, \E r, s : k = [h EXCEPT !.recvq = r, !.sendq = s]
  PROVE  /\ k.closed = h.closed /\ k.qcount = h.qcount /\ k.buf = h.buf
         /\ k.sendx = h.sendx /\ k.recvx = h.recvx
  BY DEF Hchan

(* A close takes effect when it sets c.closed.                             *)
LEMMA closechanKeeps ==
  ASSUME ChanInv, NEW g \in G, closechan(g)
  PROVE  Keeps
  <1> DEFINE c == The(g)
             r == Result("done", 1, None)
  <1>1. pc[g] = "lock" /\ CaseOf(g, 1).dir = "close"
    BY DEF closechan, Locked
  <1>2. WaitersInv /\ CallFits(g) /\ OthersOK /\ HchansOK
    BY TypeHalves DEF ChanInv, WaitersInv
  <1>3. Outcome(g) = Pending /\ call[g] # Idle /\ ~IsSelect(g) /\ c \in C
    BY <1>1, <1>2, NoOutcome DEF CallFits
  <1>4. HasCase(g, 1, "close", c)
    BY <1>1, <1>3, OneCase
  <1> HIDE DEF c
  <1>5. CASE ch[c].closed
    <2>1. End(g, Result("panic", 1, None)) /\ ch' = ch
      BY <1>5 DEF closechan, c
    <2> QED
      BY <1>1, <1>2, <1>3, <1>4, <1>5, <2>1, OnClosedKeeps, SameChannels
  <1>6. CASE ~ch[c].closed
    <2>1. /\ pc' = [pc EXCEPT ![g] = "release"]
          /\ ch' = [ch EXCEPT ![c].closed = TRUE]
          /\ result' = [result EXCEPT ![g] = r]
          /\ call' = call /\ param' = param /\ elem' = elem
      BY <1>6 DEF closechan, Goto, gvars, c
    <2>2. r # Pending
      BY DEF r, Result, Pending
    <2> HIDE DEF r
    <2>3. \A e \in C : ch'[e] = IF e = c THEN [ch[c] EXCEPT !.closed = TRUE] ELSE ch[e]
      BY <1>2, <2>1 DEF HchansOK
    <2>4. \A e \in C : /\ ch'[e].closed = IF e = c THEN TRUE ELSE ch[e].closed
                       /\ ch'[e].qcount = ch[e].qcount /\ ch'[e].buf = ch[e].buf
                       /\ ch'[e].sendx = ch[e].sendx /\ ch'[e].recvx = ch[e].recvx
      <3>1. ch'[c] = [ch[c] EXCEPT !.closed = TRUE] /\ ch[c] \in Hchan(c)
        BY <1>2, <1>3, <2>3 DEF HchansOK, c
      <3>2. /\ ch'[c].closed = TRUE /\ ch'[c].qcount = ch[c].qcount /\ ch'[c].buf = ch[c].buf
            /\ ch'[c].sendx = ch[c].sendx /\ ch'[c].recvx = ch[c].recvx
        BY <3>1, ClosedField
      <3> QED
        BY <2>3, <3>2
    <2>5. \A e \in C : Values(ch'[e], e) = Values(ch[e], e) /\ Ring(ch'[e], e)
      <3> SUFFICES ASSUME NEW e \in C
                   PROVE  Values(ch'[e], e) = Values(ch[e], e) /\ Ring(ch'[e], e)
        OBVIOUS
      <3>1. \A n : Place(ch'[e], e, n) = Place(ch[e], e, n)
        BY <2>4 DEF Place
      <3>2. Values(ch'[e], e) = Values(ch[e], e)
        BY <2>4, <3>1 DEF Values
      <3>3. Ring(ch[e], e)
        BY DEF Ring, ChanInv, RingFits
      <3>4. ch'[e].sendx = ch[e].sendx /\ ch'[e].qcount = ch[e].qcount
        BY <2>4
      <3>5. Ring(ch'[e], e)
        BY <3>1, <3>3, <3>4 DEF Ring
      <3> QED
        BY <3>2, <3>5
    <2>6. RingFits' /\ Closes
      <3>1. \A e \in C : ch[e].qcount \in 0..ch[e].qcount
        BY <1>2, HchanFields
      <3> QED
        BY <2>4, <2>5, <3>1 DEF RingFits, Ring, Closes
    <2>7. /\ pc'[g] = "release" /\ result'[g] = r /\ param'[g] = param[g]
          /\ \A x \in G \ {g} : Same(x)
      BY <1>2, <2>1 DEF OthersOK, Same
    <2>8. param[g] = 0
      BY <1>1, NoOutcome
    <2>9. OutcomeFits(g)' /\ Outcome(g)' = r
      BY <2>2, <2>7, <2>8 DEF OutcomeFits, Outcome, FastPath, SendPath, RecvPath
    <2>10. /\ \A x \in G : OutcomeFits(x)'
           /\ \A x \in G \ {g} : Outcome(x)' = Outcome(x)
      BY <2>6, <2>7, <2>9, SameOutcome
    <2>11. PICK e \in C : e = c
      BY <1>3 DEF c
    <2>12. Abs!Close(g, e)
      <3>1. [x \in C |-> ch[x].closed]' = [[x \in C |-> ch[x].closed] EXCEPT ![e] = TRUE]
        BY <2>4, <2>11
      <3>2. [x \in C |-> Values(ch[x], x)]' = [x \in C |-> Values(ch[x], x)]
        BY <2>5
      <3>3. [x \in G |-> Outcome(x)]' = [[x \in G |-> Outcome(x)] EXCEPT ![g] = r]
        BY <2>9, <2>10, ResultsStep
      <3>4. Abs!Has(g, 1, "close", e)
        BY <1>4, <2>11, HasIt
      <3> QED
        BY <1>6, <2>1, <2>11, <3>1, <3>2, <3>3, <3>4 DEF Abs!Close, Abs!With, Result, r
    <2>13. Abs!Next
      BY <2>12, CloseIsStep
    <2> QED
      BY <2>6, <2>10, <2>13 DEF Keeps
  <1> QED
    BY <1>5, <1>6

(* The release of the waiters has no effect of its own: they find it out   *)
(* when they run.                                                          *)
LEMMA ReleaseAllKeeps ==
  ASSUME ChanInv, NEW g \in G, ReleaseAll(g)
  PROVE  Keeps
  <1> DEFINE c == The(g)
             h == ch[c]
             Q == ToSet(h.recvq \o h.sendq)
             freed == {s.g : s \in {s \in Q : Live(s)}}
  <1>1. /\ pc[g] = "release"
        /\ ch' = [ch EXCEPT ![c] = [h EXCEPT !.recvq = <<>>, !.sendq = <<>>]]
        /\ pc' = [x \in G |-> IF x = g THEN "ret" ELSE IF x \in freed THEN Resume(x) ELSE pc[x]]
        /\ param' = [x \in G |-> IF x \in freed THEN 0 ELSE param[x]]
        /\ call' = call /\ elem' = elem /\ result' = result
    BY DEF ReleaseAll
  <1>2. WaitersInv /\ CallFits(g) /\ OthersOK /\ HchansOK /\ OutcomeFits(g)
    BY TypeHalves DEF ChanInv, WaitersInv
  <1>3. c \in C
    BY <1>1, <1>2 DEF CallFits
  <1>4. ASSUME NEW x \in freed
        PROVE  /\ x \in G /\ pc[x] = "parked"
               /\ ~IsSelect(x) /\ CaseOf(x, 1).dir = "recv" => The(x) = c /\ ch[c].qcount = 0
    <2>1. PICK s \in Q : Live(s) /\ s.g = x
      OBVIOUS
    <2>2. Q = ToSet(Queue(c, "recv")) \cup ToSet(Queue(c, "send"))
      BY <1>2, <1>3, HchanFields, ConcatMembers DEF Queue
    <2>3. PICK d \in {"recv", "send"} : s \in ToSet(Queue(c, d))
      BY <2>1, <2>2
    <2>4. /\ s.g \in G /\ (Live(s) <=> pc[s.g] = "parked")
          /\ ~IsSelect(s.g) => s.i = 1 /\ The(s.g) = c /\ CaseOf(s.g, 1).dir = d
      BY <1>2, <1>3, <2>3, QueuedFacts
    <2>5. ASSUME d = "recv"
          PROVE  ch[c].qcount = 0
      <3>1. ch[c].recvq # <<>> /\ ch[c].qcount \in 0..Size[c] /\ Size[c] \in Nat
        BY <1>2, <1>3, <2>3, <2>5, HchanFields, ToSetProperties DEF Queue
      <3>2. ~(Size[c] > 0 /\ ch[c].qcount > 0)
        BY <1>2, <1>3, <3>1 DEF WaitersInv, WaitQueues, QueueInvariants
      <3> QED
        BY <3>1, <3>2
    <2> QED
      BY <2>1, <2>4, <2>5
  <1> HIDE DEF freed, h, c
  <1>5. /\ pc'[g] = "ret" /\ param'[g] = param[g] /\ result'[g] = result[g] /\ g \notin freed
        /\ \A x \in G \ {g} : x \notin freed => Same(x)
        /\ \A x \in freed : pc'[x] = Resume(x) /\ param'[x] = 0 /\ result'[x] = result[x]
    BY <1>1, <1>2, <1>4 DEF OthersOK, Same
  <1>6. /\ \A e \in C : ch'[e] = IF e = c THEN [h EXCEPT !.recvq = <<>>, !.sendq = <<>>] ELSE ch[e]
        /\ h \in Hchan(c) /\ h = ch[c]
    BY <1>1, <1>2, <1>3, HchanFields DEF HchansOK, c, h
  <1>7. SameBuffers(ch') /\ Closes
    <2>1. SameBuffers(ch')
      <3>1. /\ ch'[c].closed = ch[c].closed /\ ch'[c].qcount = ch[c].qcount /\ ch'[c].buf = ch[c].buf
            /\ ch'[c].sendx = ch[c].sendx /\ ch'[c].recvx = ch[c].recvx
        <4>1. c \in C
          BY <1>3 DEF c
        <4>2. ch'[c] = [h EXCEPT !.recvq = <<>>, !.sendq = <<>>]
          BY <1>6, <4>1
        <4>3. h \in Hchan(c)
          BY <1>6
        <4> DEFINE k == ch'[c]
        <4> HIDE DEF k
        <4>4. \E r, s : k = [h EXCEPT !.recvq = r, !.sendq = s]
          BY <4>2 DEF k
        <4>5. /\ k.closed = h.closed /\ k.qcount = h.qcount /\ k.buf = h.buf
              /\ k.sendx = h.sendx /\ k.recvx = h.recvx
          BY <4>3, <4>4, QueueFields
        <4> QED
          BY <1>6, <4>5 DEF k
      <3> QED
        BY <1>6, <3>1 DEF SameBuffers
    <2>2. \A e \in C : ch'[e].closed = ch[e].closed /\ ch'[e].qcount \in 0..ch[e].qcount
      BY <2>1, SameValues
    <2> QED
      BY <2>1, <2>2 DEF Closes
  <1>8. OutcomeFits(g)' /\ Outcome(g)' = Outcome(g)
    <2>1. param[g] = 0 /\ result[g] # Pending
      BY <1>1, <1>2 DEF OutcomeFits
    <2> QED
      BY <1>5, <2>1 DEF OutcomeFits, Outcome, FastPath, SendPath, RecvPath
  <1>9. ASSUME NEW x \in freed
        PROVE  OutcomeFits(x)' /\ Outcome(x)' = Outcome(x)
    <2>1. x \in G /\ Outcome(x) = Pending /\ result[x] = Pending
      BY <1>4, NoOutcome
    <2>2. pc'[x] = Resume(x) /\ param'[x] = 0 /\ result'[x] = Pending
      BY <1>5, <2>1
    <2>3. Outcome(x)' = Outcome(x)
      BY <2>1, <2>2 DEF Outcome
    <2>4. ASSUME pc'[x] = "woken", CaseOf(x, 1)'.dir = "recv"
          PROVE  ch'[The(x)'].qcount = 0
      <3>1. The(x)' = The(x) /\ CaseOf(x, 1)' = CaseOf(x, 1)
        BY <1>1 DEF The, CaseOf
      <3>2. The(x) = c /\ ch[c].qcount = 0 /\ c \in C
        BY <1>3, <1>4, <2>2, <2>4, <3>1 DEF Resume, c
      <3> QED
        BY <1>7, <3>1, <3>2 DEF SameBuffers
    <2> QED
      BY <2>2, <2>3, <2>4 DEF OutcomeFits, Resume, FastPath, SendPath, RecvPath
  <1>10. \A x \in G : OutcomeFits(x)' /\ Outcome(x)' = Outcome(x)
    BY <1>5, <1>7, <1>8, <1>9, SameOutcome
  <1> QED
    BY <1>1, <1>7, <1>10, StutterKeeps

-----------------------------------------------------------------------------
(* A select takes a lock, or is made ready and leaves its queues.          *)
LEMMA SelectQuietly ==
  ASSUME ChanInv, NEW g \in G, sellock(g) \/ SelectWakeUp(g)
  PROVE  Keeps
  <1>1. WaitersInv /\ OthersOK /\ HchansOK /\ OutcomeFits(g)
    BY TypeHalves DEF ChanInv, WaitersInv
  <1>2. CASE sellock(g)
    <2>1. \A x \in G : Same(x)
      BY <1>2 DEF sellock, gvars, Same
    <2>2. SameBuffers(ch') /\ Closes /\ call' = call
      BY <1>1, <1>2, SameChannels DEF sellock
    <2> QED
      BY <2>1, <2>2, SameOutcome, StutterKeeps
  <1>3. CASE SelectWakeUp(g)
    <2> DEFINE to == IF param[g] # 0 THEN "ret" ELSE "loop"
    <2>1. /\ pc[g] = "relock" /\ pc' = [pc EXCEPT ![g] = to]
          /\ param' = [param EXCEPT ![g] = 0] /\ call' = call /\ elem' = elem
          /\ param[g] = 0 => result' = result
          /\ param[g] # 0 => result' = [result EXCEPT ![g] = Completed(g)]
      BY <1>3 DEF SelectWakeUp, Goto
    <2>2. SameBuffers(ch') /\ Closes
      <3>1. \A c \in C : ch'[c] = ch[c] \/ \E r, s : ch'[c] = [ch[c] EXCEPT !.recvq = r, !.sendq = s]
        BY <1>3 DEF SelectWakeUp
      <3>2. SameBuffers(ch')
        <4>1. ASSUME NEW c \in C
              PROVE  /\ ch'[c].closed = ch[c].closed /\ ch'[c].qcount = ch[c].qcount
                     /\ ch'[c].buf = ch[c].buf
                     /\ ch'[c].sendx = ch[c].sendx /\ ch'[c].recvx = ch[c].recvx
          <5>1. CASE ch'[c] = ch[c]
            BY <5>1
          <5>2. CASE \E r, s : ch'[c] = [ch[c] EXCEPT !.recvq = r, !.sendq = s]
            <6> DEFINE h == ch[c]
                       k == ch'[c]
            <6>1. h \in Hchan(c)
              BY <1>1 DEF HchansOK
            <6>2. \E r, s : k = [h EXCEPT !.recvq = r, !.sendq = s]
              BY <5>2
            <6> HIDE DEF h, k
            <6>3. /\ k.closed = h.closed /\ k.qcount = h.qcount /\ k.buf = h.buf
                  /\ k.sendx = h.sendx /\ k.recvx = h.recvx
              BY <6>1, <6>2, QueueFields
            <6> QED
              BY <6>3 DEF h, k
          <5> QED
            BY <3>1, <5>1, <5>2
        <4> QED
          BY <4>1 DEF SameBuffers
      <3>3. \A c \in C : ch'[c].closed = ch[c].closed /\ ch'[c].qcount \in 0..ch[c].qcount
        BY <3>2, SameValues
      <3> QED
        BY <3>2, <3>3 DEF Closes
    <2>3. CASE param[g] # 0
      BY <2>1, <2>2, <2>3, TakeOutcome
    <2>4. CASE param[g] = 0
      <3>1. pc'[g] = "loop" /\ param'[g] = 0 /\ result'[g] = result[g] /\ \A x \in G \ {g} : Same(x)
        BY <1>1, <2>1, <2>4 DEF OthersOK, Same
      <3>2. OutcomeFits(g)' /\ Outcome(g)' = Outcome(g)
        BY <1>1, <2>1, <2>4, <3>1 DEF OutcomeFits, Outcome, FastPath, SendPath, RecvPath
      <3> QED
        BY <2>1, <2>2, <3>1, <3>2, SameOutcome, StutterKeeps
    <2> QED
      BY <2>3, <2>4
  <1> QED
    BY <1>2, <1>3

(* A select goes ahead with a case, gives up or parks.                     *)
LEMMA SelectKeeps ==
  ASSUME ChanInv, WaitersInv', NEW g \in G, call[g] # Idle,
         \/ \E i \in DOMAIN call[g].cases, K \in SUBSET ToSet(call[g].cases) : SelectCase(g, i, K)
         \/ SelectDefault(g)
         \/ \E order \in SetToSeqs(DOMAIN call[g].cases) : SelectPark(g, order)
  PROVE  Keeps
  <1>1. WaitersInv /\ pc[g] \in {"sellock", "loop"} /\ AllLocked(g)
    BY DEF ChanInv, SelectCase, SelectDefault, SelectPark, NoneReady
  <1>2. IsSelect(g) /\ Outcome(g) = Pending
    BY <1>1, NoOutcome DEF WaitersInv, CallFits, InSelect
  <1>3. ASSUME NEW i \in DOMAIN call[g].cases, NEW K, SelectCase(g, i, K)
        PROVE  Keeps
    <2>1. Ready(CaseOf(g, i)) /\ \A k \in K : ~Ready(k)
      BY <1>3 DEF SelectCase
    <2>2. call[g].cases \in Seq(Case)
      BY <1>1, <1>2, CallShape DEF WaitersInv
    <2>3. CaseOf(g, i) \in Case
      BY <2>2 DEF CaseOf
    <2>4. PICK d \in {"send", "recv"}, c \in C : CaseOf(g, i) = [dir |-> d, c |-> c]
      BY <2>1, <2>3 DEF Ready, Case
    <2>5. CaseOf(g, i).dir = d /\ CaseOf(g, i).c = c
      BY <2>4
    <2>6. HasCase(g, i, d, c)
      BY <1>2, <2>4 DEF HasCase
    <2>7. LockFree(g, c)
      BY <1>1, <2>5 DEF LockFree, AllLocked, ChansOf
    <2>8. Trimmed(Tried(K))
      BY <1>1, <2>1, TriedTrims
    <2>9. \/ d = "send" /\ SendCase(g, i, c, Tried(K))
          \/ d = "recv" /\ RecvCase(g, i, c, Tried(K))
      BY <1>3, <2>5 DEF SelectCase
    <2> QED
      BY <1>1, <2>6, <2>7, <2>8, <2>9, ReadyCaseKeeps
  <1>4. ASSUME SelectDefault(g) \/ \E order : SelectPark(g, order)
        PROVE  Keeps
    <2>1. \A k \in ToSet(call[g].cases) : ~Ready(k)
      BY <1>4 DEF SelectDefault, SelectPark, NoneReady, ToSet, CaseOf
    <2>2. Trimmed(Tried(ToSet(call[g].cases)))
      BY <1>1, <2>1, TriedTrims
    <2>3. CASE SelectDefault(g)
      <3>1. SameBuffers(ch')
        BY <2>2, <2>3, TrimmedSame DEF SelectDefault
      <3> QED
        BY <1>1, <2>3, <3>1, DefaultKeeps DEF SelectDefault
    <2>4. CASE \E order : SelectPark(g, order)
      <3>1. SameBuffers(ch')
        BY <2>2, <2>4, EnqueueSame DEF SelectPark
      <3>2. pc' = [pc EXCEPT ![g] = "parked"] /\ UNCHANGED <<call, gvars, result>>
        BY <2>4 DEF SelectPark
      <3>3. "parked" \notin FastPath
        BY DEF FastPath, SendPath, RecvPath
      <3> QED
        BY <1>1, <3>1, <3>2, <3>3, MoveKeeps
    <2> QED
      BY <1>4, <2>3, <2>4
  <1> QED
    BY <1>3, <1>4

-----------------------------------------------------------------------------
(* A call returns.                                                         *)
LEMMA ReturnKeeps ==
  ASSUME ChanInv, NEW g \in G, Return(g)
  PROVE  Keeps
  <1>1. WaitersInv /\ OthersOK /\ OutcomeFits(g)
    BY TypeHalves DEF ChanInv, WaitersInv
  <1>2. /\ pc[g] = "ret" /\ pc' = [pc EXCEPT ![g] = "idle"] /\ call' = [call EXCEPT ![g] = Idle]
        /\ elem' = [elem EXCEPT ![g] = None] /\ result' = [result EXCEPT ![g] = Pending]
        /\ ch' = ch /\ param' = param
    BY DEF Return, Goto
  <1>3. SameBuffers(ch') /\ Closes
    BY <1>1, <1>2, SameChannels
  <1>4. /\ pc'[g] = "idle" /\ result'[g] = Pending /\ param'[g] = param[g]
        /\ \A x \in G \ {g} : Same(x)
    BY <1>1, <1>2 DEF OthersOK, Same
  <1>5. param[g] = 0 /\ result[g] # Pending
    BY <1>1, <1>2 DEF OutcomeFits
  <1>6. OutcomeFits(g)' /\ Outcome(g)' = Pending /\ Outcome(g) # Pending
    BY <1>4, <1>5 DEF OutcomeFits, Outcome, FastPath, SendPath, RecvPath
  <1>7. /\ \A x \in G : OutcomeFits(x)'
        /\ \A x \in G \ {g} : Outcome(x)' = Outcome(x)
    BY <1>3, <1>4, <1>6, SameOutcome
  <1>8. Abs!End(g)
    <2>1. [x \in G |-> Outcome(x)]' = [[x \in G |-> Outcome(x)] EXCEPT ![g] = Pending]
      BY <1>6, <1>7, ResultsStep
    <2>2. /\ [c \in C |-> ch[c].closed]' = [c \in C |-> ch[c].closed]
          /\ [c \in C |-> Values(ch[c], c)]' = [c \in C |-> Values(ch[c], c)]
      BY <1>2
    <2> QED
      BY <1>2, <1>6, <2>1, <2>2, AbsNames DEF Abs!End
  <1>9. RingFits'
    BY <1>2 DEF ChanInv, RingFits, Place
  <1>10. Abs!Next
    BY <1>8 DEF Abs!Next
  <1> QED
    BY <1>7, <1>9, <1>10 DEF Keeps

(* A call begins.                                                          *)
LEMMA CallKeeps ==
  ASSUME ChanInv, NEW g \in G, NEW o \in Calls, Call(g, o)
  PROVE  Keeps
  <1>1. WaitersInv /\ OthersOK /\ OutcomeFits(g) /\ CallFits(g)
    BY TypeHalves DEF ChanInv, WaitersInv
  <1>2. PICK s \in Start(o) : Goto(g, "idle", s)
    BY DEF Call
  <1>3. /\ pc[g] = "idle" /\ pc' = [pc EXCEPT ![g] = s] /\ call' = [call EXCEPT ![g] = o]
        /\ ch' = ch /\ param' = param /\ elem' = elem /\ result' = result
    BY <1>2 DEF Call, Goto, gvars
  <1>4. SameBuffers(ch') /\ Closes
    BY <1>1, <1>3, SameChannels
  <1>5. /\ pc'[g] = s /\ call'[g] = o /\ result'[g] = result[g] /\ param'[g] = param[g]
        /\ \A x \in G \ {g} : Same(x)
    BY <1>1, <1>3 DEF OthersOK, Same
  <1>6. param[g] = 0 /\ result[g] = Pending /\ Outcome(g) = Pending
    BY <1>3, NoOutcome
  <1>7. s \notin {"ret", "release", "woken", "recvAgain"} /\ (s \in FastPath => ~o.block)
    BY DEF Start, FastPath, SendPath, RecvPath
  <1>8. OutcomeFits(g)' /\ Outcome(g)' = Outcome(g)
    BY <1>5, <1>6, <1>7 DEF OutcomeFits, Outcome
  <1>9. \A x \in G : OutcomeFits(x)' /\ Outcome(x)' = Outcome(x)
    BY <1>4, <1>5, <1>8, SameOutcome
  <1>10. Abs!Begin(g)
    <2>1. /\ [x \in G |-> Outcome(x)]' = [x \in G |-> Outcome(x)]
          /\ [c \in C |-> ch[c].closed]' = [c \in C |-> ch[c].closed]
          /\ [c \in C |-> Values(ch[c], c)]' = [c \in C |-> Values(ch[c], c)]
      BY <1>3, <1>9
    <2>2. call[g] = Idle
      BY <1>1, <1>3 DEF CallFits
    <2> QED
      BY <1>3, <2>1, <2>2 DEF Abs!Begin
  <1>11. RingFits'
    BY <1>3 DEF ChanInv, RingFits, Place
  <1>12. Abs!Next
    BY <1>10 DEF Abs!Next
  <1> QED
    BY <1>9, <1>11, <1>12 DEF Keeps

-----------------------------------------------------------------------------
(* Every step keeps the invariant and is a step of Channel, or none.       *)
LEMMA NextKeeps ==
  ASSUME ChanInv, [Next]_vars
  PROVE  ChanInv' /\ [Abs!Next]_(Abs!vars)
  <1>1. WaitersInv'
    BY NextKeepsInv DEF ChanInv
  <1>2. ASSUME Next
        PROVE  Keeps
    <2>1. PICK g \in G : Step(g) \/ \E o \in Calls : Call(g, o)
      BY <1>2 DEF Next, NextWith
    <2>2. CASE SingleStep(g)
      BY <1>1, <2>2, NilChanKeeps, FastStepKeeps, LockedKeeps, WakeUpKeeps, closechanKeeps, ReleaseAllKeeps
      DEF SingleStep, FastStep
    <2>3. CASE call[g] # Idle /\ SelectStep(g)
      BY <1>1, <2>3, SelectQuietly, SelectKeeps DEF SelectStep
    <2>4. CASE Return(g)
      BY <2>4, ReturnKeeps
    <2>5. CASE \E o \in Calls : Call(g, o)
      BY <2>5, CallKeeps
    <2> QED
      BY <2>1, <2>2, <2>3, <2>4, <2>5 DEF Step
  <1>3. ASSUME UNCHANGED vars
        PROVE  Keeps
    <2>1. ch' = ch /\ call' = call /\ \A x \in G : Same(x)
      BY <1>3 DEF vars, Same
    <2>2. SameBuffers(ch') /\ Closes
      BY <2>1, SameChannels DEF ChanInv
    <2> QED
      BY <2>1, <2>2, SameOutcome, StutterKeeps
  <1> QED
    BY <1>1, <1>2, <1>3 DEF Keeps, ChanInv

(* At the beginning all channels are empty, and nobody is in a call.       *)
LEMMA InitKeeps ==
  ASSUME Init
  PROVE  ChanInv /\ Abs!Init
  <1>1. WaitersInv
    BY InitInv
  <1>2. \A c \in C : ch[c] = makechan(Size[c])
    BY DEF Init
  <1>3. ASSUME NEW c \in C
        PROVE  /\ ~ch[c].closed /\ ch[c].closed = FALSE
               /\ ch[c].qcount = 0 /\ ch[c].sendx = 0 /\ ch[c].recvx = 0
    <2> DEFINE size == Size[c]
    <2>1. ch[c] = makechan(size)
      BY <1>2
    <2> HIDE DEF size
    <2>2. ch[c].closed = FALSE
      BY <2>1 DEF makechan
    <2>3. ch[c].qcount = 0 /\ ch[c].sendx = 0 /\ ch[c].recvx = 0
      BY <2>1 DEF makechan
    <2> QED
      BY <2>2, <2>3
  <1>4. RingFits
    <2> SUFFICES ASSUME NEW c \in C, Size[c] > 0
                 PROVE  ch[c].sendx = Place(ch[c], c, ch[c].qcount + 1)
      BY DEF RingFits
    <2>1. ch[c].qcount = 0 /\ ch[c].sendx = 0 /\ ch[c].recvx = 0
      BY <1>3
    <2> QED
      BY <2>1 DEF Place
  <1>5. \A g \in G : OutcomeFits(g) /\ Outcome(g) = Pending
    BY DEF Init, OutcomeFits, Outcome, FastPath, SendPath, RecvPath
  <1>6. \A c \in C : Values(ch[c], c) = <<>>
    BY <1>1, <1>3, HchanFields, TypeHalves, ValuesType DEF WaitersInv
  <1>7. Abs!Init
    <2>1. call = [g \in G |-> Idle]
      BY DEF Init
    <2> QED
      BY <1>3, <1>5, <1>6, <2>1, AbsNames DEF Abs!Init
  <1> QED
    BY <1>1, <1>4, <1>5, <1>7 DEF ChanInv

(* The inductive invariant: nobody sleeps on a channel who could go on,    *)
(* each sudog in a queue is of a goroutine that is still in the call, a    *)
(* closed channel has no waiters, a goroutine wakes up to what it was      *)
(* woken for, and the indices of the buffer fit its count.                 *)
THEOREM ChanInvariance == Spec => []ChanInv
  <1>1. Init => ChanInv
    BY InitKeeps
  <1>2. ChanInv /\ [Next]_vars => ChanInv'
    BY NextKeeps
  <1> QED
    BY <1>1, <1>2, PTL DEF Spec

(* The channels, and select on them, are bounded queues whose calls take   *)
(* effect in one step.                                                     *)
THEOREM ChannelsAreQueues == Spec => ChannelSpec
  <1>1. Init => Abs!Init
    BY InitKeeps
  <1>2. ChanInv /\ [Next]_vars => [Abs!Next]_(Abs!vars)
    BY NextKeeps
  <1> QED
    BY <1>1, <1>2, ChanInvariance, PTL DEF Spec, ChannelSpec, Abs!Spec

=============================================================================
