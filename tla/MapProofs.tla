----------------------------- MODULE MapProofs -----------------------------
(***************************************************************************)
(* Proofs about the two lock-free structures of package sync.              *)
(*                                                                         *)
(* PoolChain, for any number of threads, objects and dequeues and all      *)
(* sizes that divide the number of indexes: ChainInv is inductive, and     *)
(* PoolChain implements Deque.  First some arithmetic of indexes, then     *)
(* what a CAS does to the places of the objects, then one lemma per        *)
(* action, which is a step of Deque for the reasons that keep ChainInv.    *)
(*                                                                         *)
(* Map, for all sets of goroutines, keys and values and every bound on the *)
(* entries: MapInv is inductive, and Map implements PlainMap.  MapInv      *)
(* comes in two parts.  Core is about the maps and the goroutines; Hist is *)
(* about removed entries and the history variable, and a step preserves it *)
(* and is a step of PlainMap for the same reasons (Follows).  For each     *)
(* part an action is described by what it does to the maps, to the         *)
(* pointers and to its own goroutine, and there is one lemma per action.   *)
(***************************************************************************)
EXTENDS Map, PoolChain, TLAPS

-----------------------------------------------------------------------------
(* poolChain.                                                              *)
(* What the quotient and the remainder are.                                *)
LEMMA Division ==
  ASSUME NEW s \in Nat \ {0}, NEW x \in Nat
  PROVE  x = s * (x \div s) + (x % s) /\ x \div s \in Nat /\ x % s \in 0..(s - 1)
  OBVIOUS

(* The multiples of s.                                                     *)
LEMMA Multiples ==
  ASSUME NEW s \in Nat \ {0}, NEW q \in Int
  PROVE  (q <= 0 => s * q <= 0) /\ (q >= 1 => s * q >= s)
  OBVIOUS

(* Numbers that are less than s apart have different remainders, ...       *)
LEMMA NotCongruent ==
  ASSUME NEW s \in Nat \ {0}, NEW x \in Nat, NEW y \in Nat, 0 < y - x, y - x < s
  PROVE  x % s # y % s
  <1> SUFFICES ASSUME x % s = y % s
               PROVE  FALSE
    OBVIOUS
  <1> DEFINE q == y \div s - x \div s
  <1>1. x \div s \in Nat /\ y \div s \in Nat
    BY Division
  <1> q \in Int
    BY <1>1
  <1>2. s * q = s * (y \div s) - s * (x \div s)
    BY <1>1
  <1>3. y - x = s * q
    <2>1. /\ x = s * (x \div s) + (x % s) /\ x % s \in Int /\ s * (x \div s) \in Int
          /\ y = s * (y \div s) + (y % s) /\ y % s \in Int /\ s * (y \div s) \in Int
      BY Division
    <2> HIDE DEF q
    <2> QED
      BY <1>2, <2>1
  <1>4. (q <= 0 => s * q <= 0) /\ (q >= 1 => s * q >= s)
    BY <1>1, Multiples
  <1> QED
    BY <1>1, <1>3, <1>4

(* ... and adding a multiple of s changes no remainder.                    *)
LEMMA Periodic ==
  ASSUME NEW s \in Nat \ {0}, NEW m \in Nat, m % s = 0, NEW x \in Nat
  PROVE  (x + m) % s = x % s
  <1> DEFINE q == (x + m) \div s - x \div s - m \div s
             r == (x % s) - ((x + m) % s)
  <1>1. /\ x \div s \in Nat /\ m \div s \in Nat /\ (x + m) \div s \in Nat
        /\ x % s \in 0..(s - 1) /\ (x + m) % s \in 0..(s - 1)
        /\ x = s * (x \div s) + (x % s)
        /\ m = s * (m \div s)
        /\ x + m = s * ((x + m) \div s) + ((x + m) % s)
    <2>1. x + m \in Nat
      OBVIOUS
    <2>2. x \div s \in Nat /\ x % s \in 0..(s - 1) /\ x = s * (x \div s) + (x % s)
      BY Division
    <2>3. m \div s \in Nat /\ m = s * (m \div s)
      <3>1. m = s * (m \div s) + (m % s) /\ m \div s \in Nat
        BY Division
      <3> QED
        BY <3>1
    <2>4. (x + m) \div s \in Nat /\ (x + m) % s \in 0..(s - 1) /\ x + m = s * ((x + m) \div s) + ((x + m) % s)
      BY <2>1, Division
    <2> QED
      BY <2>2, <2>3, <2>4
  <1>2. q \in Int /\ s * q = s * ((x + m) \div s) - s * (x \div s) - s * (m \div s)
    BY <1>1
  <1>3. r \in Int /\ r = s * q
    <2>1. s * ((x + m) \div s) \in Int /\ s * (x \div s) \in Int /\ s * (m \div s) \in Int
      BY <1>1
    <2> HIDE DEF q
    <2> QED
      BY <1>1, <1>2, <2>1
  <1>4. (q <= 0 => s * q <= 0) /\ (q >= 1 => s * q >= s) /\ (-q <= 0 => s * (-q) <= 0)
        /\ (-q >= 1 => s * (-q) >= s)
    BY <1>2, Multiples
  <1>5. s * (-q) = -(s * q)
    BY <1>2
  <1>6. r > -s /\ r < s
    BY <1>1
  <1>7. r = 0
    <2> HIDE DEF q, r
    <2> QED
      BY <1>2, <1>3, <1>4, <1>5, <1>6
  <1> QED
    BY <1>1, <1>7

(* Distances on the ring of indexes.                                       *)
LEMMA Gap ==
  ASSUME NEW a \in Indexes, NEW b \in Indexes
  PROVE  /\ (b - a) % Mod = IF b >= a THEN b - a ELSE b - a + Mod
         /\ (b - a) % Mod \in Indexes
         /\ (a + 1) % Mod = IF a = Mod - 1 THEN 0 ELSE a + 1
         /\ (a - 1) % Mod = IF a = 0 THEN Mod - 1 ELSE a - 1
         /\ (a + 1) % Mod \in Indexes /\ (a - 1) % Mod \in Indexes
  <1> USE SizeAssumption DEF Indexes
  <1>1. Mod \in Nat /\ Mod > 0
    OBVIOUS
  <1>2. (b - a) % Mod = IF b >= a THEN b - a ELSE b - a + Mod
    <2>1. CASE b >= a
      BY <1>1, <2>1
    <2>2. CASE b < a
      BY <1>1, <2>2
    <2> QED
      BY <2>1, <2>2
  <1>3. (a + 1) % Mod = IF a = Mod - 1 THEN 0 ELSE a + 1
    BY <1>1
  <1>4. (a - 1) % Mod = IF a = 0 THEN Mod - 1 ELSE a - 1
    BY <1>1
  <1> QED
    BY <1>1, <1>2, <1>3, <1>4

(* The sizes of dequeues.                                                  *)
LEMMA SizeIs ==
  ASSUME NEW d \in D
  PROVE  /\ Size(d) \in Nat \ {0} /\ Size(d) < Mod /\ Mod % Size(d) = 0 /\ Mod \in Nat
         /\ \A a \in Indexes : Index(d, a) \in 0..(Size(d) - 1)
  <1>1. Size(d) \in Nat \ {0} /\ Size(d) < Mod /\ Mod % Size(d) = 0 /\ Mod \in Nat
    BY SizeAssumption
  <1>2. ASSUME NEW a \in Indexes
        PROVE  a % Size(d) \in 0..(Size(d) - 1)
    <2>1. a \in Nat
      BY <1>1 DEF Indexes
    <2> QED
      BY <1>1, <2>1, Division
  <1> QED
    BY <1>1, <1>2 DEF Index

(* Indexes that are closer together than the size have different slots.    *)
LEMMA OtherSlot ==
  ASSUME NEW d \in D, NEW a \in Indexes, NEW b \in Indexes, a # b, (b - a) % Mod < Size(d)
  PROVE  Index(d, a) # Index(d, b)
  <1>1. Size(d) \in Nat \ {0} /\ Size(d) < Mod /\ Mod % Size(d) = 0 /\ Mod \in Nat
    BY SizeIs
  <1>2. (b - a) % Mod = IF b >= a THEN b - a ELSE b - a + Mod
    BY Gap
  <1>3. a \in Nat /\ b \in Nat /\ a < Mod /\ b < Mod /\ b + Mod \in Nat
    BY <1>1 DEF Indexes
  <1>4. CASE b >= a
    BY <1>1, <1>2, <1>3, <1>4, NotCongruent DEF Index
  <1>5. CASE b < a
    <2>1. 0 < (b + Mod) - a /\ (b + Mod) - a < Size(d)
      BY <1>1, <1>2, <1>3, <1>5
    <2>2. a % Size(d) # (b + Mod) % Size(d)
      BY <1>1, <1>3, <2>1, NotCongruent
    <2>3. (b + Mod) % Size(d) = b % Size(d)
      BY <1>1, <1>3, Periodic
    <2> QED
      BY <2>2, <2>3 DEF Index
  <1> QED
    BY <1>3, <1>4, <1>5

(* Facts about a dequeue and the places of objects in it.                  *)
LEMMA Typed ==
  ASSUME ChainTypeOK
  PROVE  /\ chead \in 0..MaxDequeues /\ ctail \in 0..MaxDequeues /\ MaxDequeues \in Nat
         /\ \A d \in D : headTail[d].head \in Indexes /\ headTail[d].tail \in Indexes /\ Filled(d) \in Indexes
         /\ \A x \in [d : D, i : Indexes] : Before(x) \in Indexes
         /\ Indexes \subseteq Nat
         /\ Len(places) \in Nat /\ DOMAIN places = 1..Len(places)
         /\ \A n \in DOMAIN places : places[n] \in [d : D, i : Indexes]
  <1>1. \A d \in D : headTail[d].head \in Indexes /\ headTail[d].tail \in Indexes
    BY DEF ChainTypeOK
  <1>2. \A d \in D : Filled(d) \in Indexes
    BY <1>1, Gap DEF Filled
  <1>3. \A x \in [d : D, i : Indexes] : Before(x) \in Indexes
    BY <1>1, Gap DEF Before
  <1>4. Len(places) \in Nat /\ DOMAIN places = 1..Len(places)
        /\ \A n \in DOMAIN places : places[n] \in [d : D, i : Indexes]
    <2> DEFINE S == [d : D, i : Indexes]
    <2>1. places \in Seq(S)
      BY DEF ChainTypeOK
    <2> HIDE DEF S
    <2>2. Len(places) \in Nat /\ DOMAIN places = 1..Len(places) /\ places \in [1..Len(places) -> S]
      BY <2>1
    <2>3. \A n \in DOMAIN places : places[n] \in S
      BY <2>2
    <2> QED
      BY <2>2, <2>3 DEF S
  <1> QED
    BY <1>1, <1>2, <1>3, <1>4, SizeAssumption DEF ChainTypeOK, Indexes

(* Where indexes are, counted from the tail of their dequeue.              *)
LEMMA Distances ==
  ASSUME ChainTypeOK, NEW d \in D
  PROVE  /\ Before([d |-> d, i |-> headTail[d].tail]) = 0
         /\ Before([d |-> d, i |-> headTail[d].head]) = Filled(d)
         /\ Filled(d) > 0 => Before([d |-> d, i |-> (headTail[d].head - 1) % Mod]) = Filled(d) - 1
         /\ Filled(d) = 0 <=> headTail[d].head = headTail[d].tail
         /\ \A i, j \in Indexes :
              Before([d |-> d, i |-> i]) <= Before([d |-> d, i |-> j]) =>
                (j - i) % Mod = Before([d |-> d, i |-> j]) - Before([d |-> d, i |-> i])
         /\ \A i, j \in Indexes : Before([d |-> d, i |-> i]) = Before([d |-> d, i |-> j]) => i = j
  <1> USE SizeAssumption DEF Indexes
  <1> DEFINE h == headTail[d].head
             t == headTail[d].tail
  <1>1. h \in Indexes /\ t \in Indexes /\ Mod \in Nat
    BY Typed
  <1>2. \A i \in Indexes : Before([d |-> d, i |-> i]) = (i - t) % Mod
    BY DEF Before
  <1>3. Filled(d) = (h - t) % Mod
    BY DEF Filled
  <1> HIDE DEF h, t
  <1>4. \A i \in Indexes : (i - t) % Mod = IF i >= t THEN i - t ELSE i - t + Mod
    BY <1>1, Gap
  <1>5. \A i, j \in Indexes : (j - i) % Mod = IF j >= i THEN j - i ELSE j - i + Mod
    BY Gap
  <1>6. (h - 1) % Mod = (IF h = 0 THEN Mod - 1 ELSE h - 1) /\ (h - 1) % Mod \in Indexes
    BY <1>1, Gap
  <1>7. Filled(d) > 0 => (((h - 1) % Mod) - t) % Mod = Filled(d) - 1
    <2>1. (((h - 1) % Mod) - t) % Mod =
            IF (h - 1) % Mod >= t THEN ((h - 1) % Mod) - t ELSE ((h - 1) % Mod) - t + Mod
      BY <1>4, <1>6
    <2> QED
      BY <1>1, <1>3, <1>4, <1>6, <2>1
  <1>8. /\ (t - t) % Mod = 0
        /\ Filled(d) = 0 <=> h = t
    BY <1>1, <1>3, <1>4
  <1>9. \A i, j \in Indexes : (i - t) % Mod <= (j - t) % Mod => (j - i) % Mod = ((j - t) % Mod) - ((i - t) % Mod)
    BY <1>1, <1>4, <1>5
  <1>10. \A i, j \in Indexes : (i - t) % Mod = (j - t) % Mod => i = j
    BY <1>1, <1>4
  <1>11. /\ Before([d |-> d, i |-> t]) = 0
         /\ Before([d |-> d, i |-> h]) = Filled(d)
         /\ Filled(d) > 0 => Before([d |-> d, i |-> (h - 1) % Mod]) = Filled(d) - 1
    BY <1>1, <1>2, <1>3, <1>6, <1>7, <1>8
  <1> QED
    BY <1>2, <1>8, <1>9, <1>10, <1>11 DEF h, t

(* The oldest object is at the tail of the first dequeue that has any.     *)
LEMMA FirstPlace ==
  ASSUME ChainTypeOK, PlacesFit, NEW d \in D, Filled(d) > 0, \A x \in D : x < d => Filled(x) = 0
  PROVE  /\ Len(places) > 0
         /\ places[1] = [d |-> d, i |-> headTail[d].tail]
  <1> DEFINE t == [d |-> d, i |-> headTail[d].tail]
  <1>1. Before(t) = 0 /\ t \in [d : D, i : Indexes] /\ Filled(d) \in Nat
    BY Distances, Typed
  <1>2. PICK n \in DOMAIN places : places[n] = t
    BY <1>1, Typed DEF PlacesFit
  <1>3. /\ Len(places) \in Nat /\ DOMAIN places = 1..Len(places)
        /\ 1 \in DOMAIN places /\ places[1] \in [d : D, i : Indexes] /\ Before(places[1]) \in Nat
    BY <1>2, Typed
  <1>4. ASSUME n # 1
        PROVE  FALSE
    <2>1. \/ places[1].d < d
          \/ Before(places[1]) < 0
      BY <1>1, <1>2, <1>3, <1>4 DEF PlacesFit
    <2>2. places[1].d \in D /\ Before(places[1]) < Filled(places[1].d)
      BY <1>3 DEF PlacesFit
    <2> QED
      BY <1>3, <2>1, <2>2
  <1> QED
    BY <1>2, <1>3, <1>4

(* The youngest one is below the head of the last dequeue that has any.    *)
LEMMA LastPlace ==
  ASSUME ChainTypeOK, PlacesFit, NEW d \in D, Filled(d) > 0, \A x \in D : x > d => Filled(x) = 0
  PROVE  /\ Len(places) > 0
         /\ places[Len(places)] = [d |-> d, i |-> (headTail[d].head - 1) % Mod]
  <1> DEFINE h == [d |-> d, i |-> (headTail[d].head - 1) % Mod]
             m == Len(places)
  <1>1. Before(h) = Filled(d) - 1 /\ h \in [d : D, i : Indexes] /\ Filled(d) \in Nat
    BY Distances, Typed, Gap
  <1>2. PICK n \in DOMAIN places : places[n] = h
    BY <1>1, Typed, Gap DEF PlacesFit
  <1>3. /\ m \in Nat /\ DOMAIN places = 1..m /\ m > 0
        /\ m \in DOMAIN places /\ places[m] \in [d : D, i : Indexes] /\ Before(places[m]) \in Nat
    BY <1>2, Typed
  <1>4. ASSUME n # m
        PROVE  FALSE
    <2>1. \/ d < places[m].d
          \/ d = places[m].d /\ Filled(d) - 1 < Before(places[m])
      <3>1. n < m
        BY <1>2, <1>3, <1>4
      <3> QED
        BY <1>1, <1>2, <1>3, <3>1 DEF PlacesFit
    <2>2. places[m].d \in D /\ Before(places[m]) < Filled(places[m].d)
      BY <1>3 DEF PlacesFit
    <2> QED
      BY <1>1, <1>3, <2>1, <2>2
  <1> QED
    BY <1>2, <1>3, <1>4

(* Every object has a slot of its own, and none is in the one at the head. *)
LEMMA DistinctSlots ==
  ASSUME ChainTypeOK, LinksFit, PlacesFit
  PROVE  /\ \A m, n \in DOMAIN places : SlotOf(places[m]) = SlotOf(places[n]) => m = n
         /\ \A d \in D, n \in DOMAIN places :
              Filled(d) < Size(d) => SlotOf(places[n]) # SlotOf([d |-> d, i |-> headTail[d].head])
  <1>1. ASSUME NEW a \in [d : D, i : Indexes], NEW b \in [d : D, i : Indexes], a.d = b.d,
               Before(a) < Before(b), Before(b) <= Filled(a.d), Before(b) - Before(a) < Size(a.d)
        PROVE  SlotOf(a) # SlotOf(b)
    <2> DEFINE d == a.d
    <2>1. d \in D /\ a = [d |-> d, i |-> a.i] /\ b = [d |-> d, i |-> b.i] /\ a.i \in Indexes /\ b.i \in Indexes
      BY <1>1
    <2>2. Before(a) \in Nat /\ Before(b) \in Nat
      BY Typed
    <2> HIDE DEF d
    <2>3. (b.i - a.i) % Mod = Before(b) - Before(a)
      <3> DEFINE k == a.i
                 l == b.i
      <3>1. k \in Indexes /\ l \in Indexes /\ Before(a) = Before([d |-> d, i |-> k])
            /\ Before(b) = Before([d |-> d, i |-> l])
        BY <2>1
      <3> HIDE DEF k, l
      <3>2. (l - k) % Mod = Before([d |-> d, i |-> l]) - Before([d |-> d, i |-> k])
        <4>1. Before([d |-> d, i |-> k]) <= Before([d |-> d, i |-> l])
          BY <1>1, <2>2, <3>1
        <4>2. d \in D /\ k \in Indexes /\ l \in Indexes
          BY <2>1, <3>1
        <4>3. \A i, j \in Indexes :
                Before([d |-> d, i |-> i]) <= Before([d |-> d, i |-> j]) =>
                  (j - i) % Mod = Before([d |-> d, i |-> j]) - Before([d |-> d, i |-> i])
          BY <4>2, Distances
        <4> QED
          BY <4>1, <4>2, <4>3
      <3> QED
        BY <3>1, <3>2 DEF k, l
    <2>4. a.i # b.i
      BY <1>1, <2>1, <2>2
    <2>5. Index(d, a.i) # Index(d, b.i)
      BY <1>1, <2>1, <2>3, <2>4, OtherSlot DEF d
    <2> QED
      BY <1>1, <2>5 DEF SlotOf, d
  <1>2. \A d \in D : Filled(d) \in Nat /\ Filled(d) <= Size(d) /\ Size(d) \in Nat
    BY Typed, SizeIs DEF LinksFit
  <1>3. \A n \in DOMAIN places : /\ places[n] \in [d : D, i : Indexes] /\ Before(places[n]) \in Nat
                                /\ Before(places[n]) < Filled(places[n].d)
    BY Typed DEF PlacesFit
  <1>4. ASSUME NEW m \in DOMAIN places, NEW n \in DOMAIN places, m < n
        PROVE  SlotOf(places[m]) # SlotOf(places[n])
    <2>1. CASE places[m].d # places[n].d
      BY <2>1 DEF SlotOf
    <2>2. CASE places[m].d = places[n].d
      <3>1. Before(places[m]) < Before(places[n])
        BY <1>3, <1>4, <2>2 DEF PlacesFit, D
      <3>2. places[n].d \in D
        BY <1>3
      <3>3. Before(places[n]) <= Filled(places[n].d)
            /\ Before(places[n]) - Before(places[m]) < Size(places[n].d)
        BY <1>2, <1>3, <3>2
      <3> QED
        BY <1>1, <1>3, <2>2, <3>1, <3>3
    <2> QED
      BY <2>1, <2>2
  <1>5. \A m, n \in DOMAIN places : m < n \/ n < m \/ m = n
    BY Typed
  <1>6. ASSUME NEW d \in D, NEW n \in DOMAIN places, Filled(d) < Size(d)
        PROVE  SlotOf(places[n]) # SlotOf([d |-> d, i |-> headTail[d].head])
    <2> DEFINE h == [d |-> d, i |-> headTail[d].head]
    <2>1. h \in [d : D, i : Indexes] /\ Before(h) = Filled(d)
      BY Typed, Distances
    <2>2. CASE places[n].d # d
      BY <2>2 DEF SlotOf
    <2>3. CASE places[n].d = d
      <3>1. Before(places[n]) < Before(h) /\ Before(h) <= Filled(d) /\ Before(h) - Before(places[n]) < Size(d)
        BY <1>2, <1>3, <1>6, <2>1, <2>3
      <3> QED
        BY <1>1, <1>3, <2>1, <2>3, <3>1
    <2> QED
      BY <2>2, <2>3
  <1> QED
    BY <1>4, <1>5, <1>6

(* What a step of the tail or of the head does to distances.               *)
LEMMA RingMoves ==
  ASSUME NEW t \in Indexes, NEW i \in Indexes
  PROVE  /\ (i - ((t + 1) % Mod)) % Mod = IF i = t THEN Mod - 1 ELSE ((i - t) % Mod) - 1
         /\ (i - t) % Mod < Mod - 1 => (((i + 1) % Mod) - t) % Mod = ((i - t) % Mod) + 1
         /\ i # t => (((i - 1) % Mod) - t) % Mod = ((i - t) % Mod) - 1
         /\ (i - t) % Mod = 0 <=> i = t
  <1> USE SizeAssumption DEF Indexes
  <1> DEFINE t1 == (t + 1) % Mod
             ia == (i + 1) % Mod
             ib == (i - 1) % Mod
  <1>1. /\ t1 = (IF t = Mod - 1 THEN 0 ELSE t + 1) /\ t1 \in Indexes
        /\ ia = (IF i = Mod - 1 THEN 0 ELSE i + 1) /\ ia \in Indexes
        /\ ib = (IF i = 0 THEN Mod - 1 ELSE i - 1) /\ ib \in Indexes
        /\ (i - t) % Mod = IF i >= t THEN i - t ELSE i - t + Mod
        /\ Mod \in Nat
    BY Gap
  <1> HIDE DEF t1, ia, ib
  <1>2. /\ (i - t1) % Mod = IF i >= t1 THEN i - t1 ELSE i - t1 + Mod
        /\ (ia - t) % Mod = IF ia >= t THEN ia - t ELSE ia - t + Mod
        /\ (ib - t) % Mod = IF ib >= t THEN ib - t ELSE ib - t + Mod
    BY <1>1, Gap
  <1>3. (i - t1) % Mod = IF i = t THEN Mod - 1 ELSE ((i - t) % Mod) - 1
    BY <1>1, <1>2
  <1>4. (i - t) % Mod < Mod - 1 => (ia - t) % Mod = ((i - t) % Mod) + 1
    BY <1>1, <1>2
  <1>5. i # t => (ib - t) % Mod = ((i - t) % Mod) - 1
    BY <1>1, <1>2
  <1>6. (i - t) % Mod = 0 <=> i = t
    BY <1>1
  <1> QED
    BY <1>3, <1>4, <1>5, <1>6 DEF t1, ia, ib

Place == [d : D, i : Indexes]

(* popTail takes the first place away.                                     *)
LEMMA TailPlaces ==
  ASSUME ChainTypeOK, PlacesFit, NEW d \in D, Filled(d) > 0, \A x \in D : x < d => Filled(x) = 0,
         headTail' = [headTail EXCEPT ![d] = [headTail[d] EXCEPT !.tail = (headTail[d].tail + 1) % Mod]],
         places' = Tail(places)
  PROVE  /\ PlacesFit'
         /\ places' \in Seq(Place) /\ DOMAIN places' = 1..(Len(places) - 1)
         /\ \A n \in DOMAIN places' : places'[n] = places[n + 1]
         /\ headTail' \in [D -> [head : Indexes, tail : Indexes]]
         /\ \A x \in D : Filled(x)' = IF x = d THEN Filled(x) - 1 ELSE Filled(x)
  <1> DEFINE h == headTail[d].head
             t == headTail[d].tail
             t1 == (t + 1) % Mod
             Before1(x) == (x.i - headTail'[x.d].tail) % Mod
             Filled1(x) == (headTail'[x].head - headTail'[x].tail) % Mod
  <1>1. h \in Indexes /\ t \in Indexes /\ t1 \in Indexes /\ Indexes \subseteq Nat
        /\ (\A x \in D : Filled(x) \in Indexes)
        /\ Len(places) \in Nat /\ DOMAIN places = 1..Len(places)
        /\ (\A x \in Place : Before(x) \in Indexes)
        /\ \A n \in DOMAIN places : places[n] \in Place /\ places[n].d \in D
    BY Typed, Gap DEF Place
  <1>2. Len(places) > 0 /\ places[1] = [d |-> d, i |-> t] /\ Before(places[1]) = 0
    BY FirstPlace, Distances
  <1>3. /\ places' \in Seq(Place) /\ Len(places') = Len(places) - 1 /\ DOMAIN places' = 1..(Len(places) - 1)
        /\ \A n \in DOMAIN places' : places'[n] = places[n + 1]
    <2>1. places \in Seq(Place) /\ places # <<>>
      BY <1>2 DEF ChainTypeOK, Place
    <2>2. /\ Tail(places) \in Seq(Place) /\ Len(Tail(places)) = Len(places) - 1
          /\ \A n \in 1..Len(Tail(places)) : Tail(places)[n] = places[n + 1]
      BY <2>1
    <2> QED
      BY <2>2
  <1>4. /\ headTail \in [D -> [head : Indexes, tail : Indexes]]
        /\ [headTail[d] EXCEPT !.tail = t1] \in [head : Indexes, tail : Indexes]
        /\ [headTail[d] EXCEPT !.tail = t1].head = h /\ [headTail[d] EXCEPT !.tail = t1].tail = t1
    <2>1. headTail \in [D -> [head : Indexes, tail : Indexes]]
          /\ headTail[d] \in [head : Indexes, tail : Indexes]
      BY DEF ChainTypeOK
    <2>2. t1 \in Indexes
      BY <1>1
    <2> HIDE DEF t1
    <2> QED
      BY <2>1, <2>2
  <1>5. /\ headTail' \in [D -> [head : Indexes, tail : Indexes]]
        /\ headTail'[d].head = h /\ headTail'[d].tail = t1
        /\ \A x \in D \ {d} : headTail'[x] = headTail[x]
    BY <1>4
  <1>6. /\ \A x \in Place : x.d = d => Before(x) = (x.i - t) % Mod /\ Before1(x) = (x.i - t1) % Mod
        /\ \A x \in Place : x.d # d => Before1(x) = Before(x)
        /\ \A x \in D : x # d => Filled1(x) = Filled(x)
        /\ Filled1(d) = (h - t1) % Mod
        /\ Filled(d) = (h - t) % Mod
    BY <1>5 DEF Before, Filled, Place
  <1>7. \A x \in D : Filled(x)' = Filled1(x)
    BY DEF Filled
  <1>8. /\ PlacesFit' <=>
             /\ \A n \in DOMAIN places' : Before1(places'[n]) < Filled1(places'[n].d)
             /\ \A m, n \in DOMAIN places' :
                  m < n => \/ places'[m].d < places'[n].d
                           \/ places'[m].d = places'[n].d /\ Before1(places'[m]) < Before1(places'[n])
             /\ \A x \in D, i \in Indexes :
                  Before1([d |-> x, i |-> i]) < Filled1(x) =>
                    \E n \in DOMAIN places' : places'[n] = [d |-> x, i |-> i]
    BY DEF PlacesFit, Before, Filled
  <1> HIDE DEF h, t, t1, Before1, Filled1
  <1>9. /\ Filled1(d) = Filled(d) - 1
        /\ \A x \in Place : x.d = d => Before1(x) = IF x.i = t THEN Mod - 1 ELSE Before(x) - 1
    <2>1. \A i \in Indexes : (i - t1) % Mod = IF i = t THEN Mod - 1 ELSE ((i - t) % Mod) - 1
      BY <1>1, RingMoves DEF t1
    <2>2. h # t
      <3>1. Filled(d) = 0 <=> headTail[d].head = headTail[d].tail
        BY Distances
      <3> QED
        BY <3>1 DEF h, t
    <2>3. \A x \in Place : x.i \in Indexes
      BY DEF Place
    <2> QED
      BY <1>1, <1>6, <2>1, <2>2, <2>3
  <1>10. \A n \in DOMAIN places : n # 1 /\ places[n].d = d => places[n].i # t
    <2>1. ASSUME NEW n \in DOMAIN places, n # 1, places[n].d = d, places[n].i = t
          PROVE  FALSE
      <3>1. places[n] = places[1] /\ 1 \in DOMAIN places /\ 1 < n /\ places[n] \in Place
        BY <1>1, <1>2, <2>1 DEF Place
      <3>2. Before(places[n]) \in Nat /\ Before(places[1]) = Before(places[n]) /\ places[n].d \in Nat
        BY <1>1, <3>1 DEF D
      <3> QED
        BY <2>1, <3>1, <3>2 DEF PlacesFit
    <2> QED
      BY <2>1
  <1>11. ASSUME NEW n \in DOMAIN places'
         PROVE  /\ n + 1 \in DOMAIN places /\ n + 1 # 1 /\ places'[n] = places[n + 1] /\ places'[n] \in Place
                /\ Before1(places'[n]) = IF places'[n].d = d THEN Before(places'[n]) - 1 ELSE Before(places'[n])
    <2>1. n + 1 \in DOMAIN places /\ n + 1 # 1 /\ places'[n] = places[n + 1] /\ places'[n] \in Place
      BY <1>1, <1>3
    <2>2. places'[n].d = d => places'[n].i # t
      BY <1>10, <2>1
    <2> QED
      BY <1>6, <1>9, <2>1, <2>2
  <1>12. ASSUME NEW n \in DOMAIN places'
         PROVE  Before1(places'[n]) < Filled1(places'[n].d)
    <2> DEFINE x == places[n + 1]
    <2>1. x \in Place /\ x.d \in D /\ Before(x) < Filled(x.d) /\ places'[n] = x
      BY <1>11 DEF PlacesFit, Place
    <2>2. Before(x) \in Nat /\ Filled(x.d) \in Nat
      BY <1>1, <2>1
    <2>3. Before1(x) = IF x.d = d THEN Before(x) - 1 ELSE Before(x)
      BY <1>11, <2>1
    <2>4. Filled1(x.d) = IF x.d = d THEN Filled(x.d) - 1 ELSE Filled(x.d)
      BY <1>6, <1>9, <2>1
    <2> HIDE DEF x
    <2> QED
      BY <2>1, <2>2, <2>3, <2>4
  <1>13. ASSUME NEW m \in DOMAIN places', NEW n \in DOMAIN places', m < n
         PROVE  \/ places'[m].d < places'[n].d
                \/ places'[m].d = places'[n].d /\ Before1(places'[m]) < Before1(places'[n])
    <2> DEFINE x == places[m + 1]
               y == places[n + 1]
    <2>1. /\ places'[m] = x /\ x \in Place /\ Before1(x) = IF x.d = d THEN Before(x) - 1 ELSE Before(x)
          /\ places'[n] = y /\ y \in Place /\ Before1(y) = IF y.d = d THEN Before(y) - 1 ELSE Before(y)
      BY <1>11
    <2>2. Before(x) \in Nat /\ Before(y) \in Nat
      BY <1>1, <2>1
    <2>3. m + 1 < n + 1 /\ m + 1 \in DOMAIN places /\ n + 1 \in DOMAIN places
      BY <1>1, <1>3, <1>11, <1>13
    <2>4. x.d < y.d \/ (x.d = y.d /\ Before(x) < Before(y))
      <3>1. \A k, l \in DOMAIN places : k < l => \/ places[k].d < places[l].d
                                                 \/ places[k].d = places[l].d
                                                    /\ Before(places[k]) < Before(places[l])
        BY DEF PlacesFit
      <3> QED
        BY <2>3, <3>1
    <2> HIDE DEF x, y
    <2> QED
      BY <2>1, <2>2, <2>4
  <1>14. ASSUME NEW x \in D, NEW i \in Indexes, Before1([d |-> x, i |-> i]) < Filled1(x)
         PROVE  \E n \in DOMAIN places' : places'[n] = [d |-> x, i |-> i]
    <2> DEFINE y == [d |-> x, i |-> i]
    <2>1. y \in Place /\ y.d = x /\ y.i = i
      BY DEF Place
    <2>2. Before(y) \in Nat /\ Filled(x) \in Nat /\ Filled(x) <= Mod - 1 /\ Mod \in Nat
      BY <1>1, <2>1, SizeAssumption DEF Indexes
    <2>3. Before1(y) < Filled1(x)
      BY <1>14
    <2> HIDE DEF y
    <2>4. Before(y) < Filled(x) /\ (x = d => i # t)
      BY <1>6, <1>9, <2>1, <2>2, <2>3
    <2>5. PICK n \in DOMAIN places : places[n] = y
      BY <2>4 DEF PlacesFit, y
    <2>6. n # 1
      BY <1>2, <2>1, <2>4, <2>5
    <2>7. n - 1 \in DOMAIN places' /\ places'[n - 1] = places[n]
      BY <1>1, <1>3, <2>5, <2>6
    <2> QED
      BY <2>5, <2>7 DEF y
  <1> QED
    BY <1>3, <1>5, <1>6, <1>7, <1>8, <1>9, <1>12, <1>13, <1>14

(* popHead takes the last place away.                                      *)
LEMMA HeadPlaces ==
  ASSUME ChainTypeOK, PlacesFit, NEW d \in D, Filled(d) > 0, \A x \in D : x > d => Filled(x) = 0,
         headTail' = [headTail EXCEPT ![d] = [headTail[d] EXCEPT !.head = (headTail[d].head - 1) % Mod]],
         places' = SubSeq(places, 1, Len(places) - 1)
  PROVE  /\ PlacesFit'
         /\ places' \in Seq(Place) /\ DOMAIN places' = 1..(Len(places) - 1)
         /\ \A n \in DOMAIN places' : places'[n] = places[n]
         /\ headTail' \in [D -> [head : Indexes, tail : Indexes]]
         /\ \A x \in D : Filled(x)' = IF x = d THEN Filled(x) - 1 ELSE Filled(x)
  <1> DEFINE h == headTail[d].head
             t == headTail[d].tail
             h1 == (h - 1) % Mod
             Filled1(x) == (headTail'[x].head - headTail'[x].tail) % Mod
             last == Len(places)
  <1>1. h \in Indexes /\ t \in Indexes /\ h1 \in Indexes /\ Indexes \subseteq Nat
        /\ (\A x \in D : Filled(x) \in Indexes)
        /\ last \in Nat /\ DOMAIN places = 1..last
        /\ (\A x \in Place : Before(x) \in Indexes)
        /\ \A n \in DOMAIN places : places[n] \in Place /\ places[n].d \in D
    BY Typed, Gap DEF Place
  <1>2. last > 0 /\ places[last] = [d |-> d, i |-> h1] /\ Before(places[last]) = Filled(d) - 1
    BY LastPlace, Distances
  <1>3. /\ places' \in Seq(Place) /\ DOMAIN places' = 1..(last - 1)
        /\ \A n \in DOMAIN places' : places'[n] = places[n] /\ n \in DOMAIN places /\ n < last
    <2>1. places \in Seq(Place)
      BY DEF ChainTypeOK, Place
    <2>2. /\ places' \in Seq(Place) /\ Len(places') = last - 1
          /\ \A n \in 1..(last - 1) : places'[n] = places[n]
      <3> DEFINE k == last - 1
      <3>1. k \in Nat /\ \A i \in 1..k : places[i] \in Place
        BY <1>1, <1>2
      <3>2. places' = SubSeq(places, 1, k)
        OBVIOUS
      <3> HIDE DEF k
      <3>3. /\ SubSeq(places, 1, k) \in Seq(Place)
            /\ Len(SubSeq(places, 1, k)) = IF 1 <= k THEN k - 1 + 1 ELSE 0
            /\ \A i \in 1..(k - 1 + 1) : SubSeq(places, 1, k)[i] = places[1 + i - 1]
        BY <3>1
      <3>4. k - 1 + 1 = k /\ (\A i \in 1..k : 1 + i - 1 = i) /\ (~(1 <= k) => k = 0)
        BY <3>1
      <3> QED
        BY <3>2, <3>3, <3>4 DEF k
    <2>3. DOMAIN places' = 1..(last - 1)
      BY <2>2
    <2> QED
      BY <1>1, <2>2, <2>3
  <1>4. /\ headTail \in [D -> [head : Indexes, tail : Indexes]]
        /\ [headTail[d] EXCEPT !.head = h1] \in [head : Indexes, tail : Indexes]
        /\ [headTail[d] EXCEPT !.head = h1].head = h1 /\ [headTail[d] EXCEPT !.head = h1].tail = t
    <2>1. headTail \in [D -> [head : Indexes, tail : Indexes]]
          /\ headTail[d] \in [head : Indexes, tail : Indexes]
      BY DEF ChainTypeOK
    <2>2. h1 \in Indexes
      BY <1>1
    <2> HIDE DEF h1
    <2> QED
      BY <2>1, <2>2
  <1>5. /\ headTail' \in [D -> [head : Indexes, tail : Indexes]]
        /\ headTail'[d].head = h1 /\ headTail'[d].tail = t
        /\ \A x \in D \ {d} : headTail'[x] = headTail[x]
    BY <1>4
  <1>6. /\ \A x \in D : headTail'[x].tail = headTail[x].tail
        /\ \A x \in D : x # d => Filled1(x) = Filled(x)
        /\ Filled1(d) = (h1 - t) % Mod
        /\ Filled(d) = (h - t) % Mod
    BY <1>5 DEF Filled
  <1>7. \A x \in D : Filled(x)' = Filled1(x)
    BY DEF Filled
  <1>8. /\ PlacesFit' <=>
             /\ \A n \in DOMAIN places' : Before(places'[n]) < Filled1(places'[n].d)
             /\ \A m, n \in DOMAIN places' :
                  m < n => \/ places'[m].d < places'[n].d
                           \/ places'[m].d = places'[n].d /\ Before(places'[m]) < Before(places'[n])
             /\ \A x \in D, i \in Indexes :
                  Before([d |-> x, i |-> i]) < Filled1(x) =>
                    \E n \in DOMAIN places' : places'[n] = [d |-> x, i |-> i]
    <2>1. \A n \in DOMAIN places' : places'[n].d \in D
      BY <1>1, <1>3
    <2>2. \A n \in DOMAIN places' : headTail'[places'[n].d].tail = headTail[places'[n].d].tail
      BY <1>6, <2>1
    <2>3. \A n \in DOMAIN places' : (Before(places[n]))' = Before(places'[n])
                                    /\ (Filled(places[n].d))' = Filled1(places'[n].d)
      BY <2>2 DEF Before, Filled
    <2>4. \A x \in D, i \in Indexes : (Before([d |-> x, i |-> i]))' = Before([d |-> x, i |-> i])
                                      /\ (Filled(x))' = Filled1(x)
      BY <1>6 DEF Before, Filled
    <2> HIDE DEF Filled1
    <2>5. (\A n \in DOMAIN places : Before(places[n]) < Filled(places[n].d))' <=>
            \A n \in DOMAIN places' : Before(places'[n]) < Filled1(places'[n].d)
      BY <2>3
    <2>6. (\A m, n \in DOMAIN places :
             m < n => \/ places[m].d < places[n].d
                      \/ places[m].d = places[n].d /\ Before(places[m]) < Before(places[n]))' <=>
            \A m, n \in DOMAIN places' :
              m < n => \/ places'[m].d < places'[n].d
                       \/ places'[m].d = places'[n].d /\ Before(places'[m]) < Before(places'[n])
      <3>1. ASSUME NEW m \in DOMAIN places', NEW n \in DOMAIN places'
            PROVE  (m < n => \/ places[m].d < places[n].d
                             \/ places[m].d = places[n].d /\ Before(places[m]) < Before(places[n]))' <=>
                   (m < n => \/ places'[m].d < places'[n].d
                             \/ places'[m].d = places'[n].d /\ Before(places'[m]) < Before(places'[n]))
        BY <2>3
      <3> QED
        BY <3>1, Zenon
    <2>7. (\A x \in D, i \in Indexes :
             Before([d |-> x, i |-> i]) < Filled(x) =>
               \E n \in DOMAIN places : places[n] = [d |-> x, i |-> i])' <=>
            \A x \in D, i \in Indexes :
              Before([d |-> x, i |-> i]) < Filled1(x) =>
                \E n \in DOMAIN places' : places'[n] = [d |-> x, i |-> i]
      BY <2>4
    <2> QED
      BY <2>5, <2>6, <2>7 DEF PlacesFit
  <1> HIDE DEF h, t, h1, Filled1, last
  <1>9. Filled1(d) = Filled(d) - 1
    <2>1. h # t
      <3>1. Filled(d) = 0 <=> headTail[d].head = headTail[d].tail
        BY Distances
      <3> QED
        BY <3>1 DEF h, t
    <2>2. (h1 - t) % Mod = ((h - t) % Mod) - 1
      BY <1>1, <2>1, RingMoves DEF h1
    <2> QED
      BY <1>6, <2>2
  <1>10. \A m, n \in DOMAIN places : m < n => \/ places[m].d < places[n].d
                                              \/ places[m].d = places[n].d
                                                 /\ Before(places[m]) < Before(places[n])
    BY DEF PlacesFit
  <1>11. ASSUME NEW n \in DOMAIN places'
         PROVE  Before(places'[n]) < Filled1(places'[n].d)
    <2> DEFINE x == places[n]
    <2>1. n \in DOMAIN places /\ n < last /\ last \in DOMAIN places
      BY <1>1, <1>2, <1>3
    <2>2. x \in Place /\ x.d \in D /\ Before(x) < Filled(x.d) /\ places'[n] = x
      BY <1>1, <1>3, <2>1 DEF PlacesFit
    <2>3. Before(x) \in Nat /\ Filled(x.d) \in Nat /\ Filled(d) \in Nat
      BY <1>1, <2>2
    <2>4. x.d = d => Before(x) < Filled(d) - 1
      <3>1. x.d < places[last].d \/ (x.d = places[last].d /\ Before(x) < Before(places[last]))
        BY <1>10, <2>1
      <3>2. places[last].d = d /\ d \in Nat
        BY <1>2 DEF D
      <3> QED
        BY <1>2, <3>1, <3>2
    <2> HIDE DEF x
    <2> QED
      BY <1>6, <1>9, <2>2, <2>3, <2>4
  <1>12. ASSUME NEW x \in D, NEW i \in Indexes, Before([d |-> x, i |-> i]) < Filled1(x)
         PROVE  \E n \in DOMAIN places' : places'[n] = [d |-> x, i |-> i]
    <2> DEFINE y == [d |-> x, i |-> i]
    <2>1. y \in Place /\ y.d = x
      BY DEF Place
    <2>2. Before(y) \in Nat /\ Filled(x) \in Nat /\ Before(y) < Filled1(x)
      BY <1>1, <1>12, <2>1
    <2> HIDE DEF y
    <2>3. Before(y) < Filled(x) /\ (x = d => Before(y) # Filled(d) - 1)
      BY <1>6, <1>9, <2>1, <2>2
    <2>4. PICK n \in DOMAIN places : places[n] = y
      BY <2>3 DEF PlacesFit, y
    <2>5. n # last
      BY <1>2, <2>1, <2>3, <2>4
    <2>6. n \in DOMAIN places'
      BY <1>1, <1>3, <2>4, <2>5
    <2> QED
      BY <1>3, <2>4, <2>6 DEF y
  <1>13. ASSUME NEW m \in DOMAIN places', NEW n \in DOMAIN places', m < n
         PROVE  \/ places'[m].d < places'[n].d
                \/ places'[m].d = places'[n].d /\ Before(places'[m]) < Before(places'[n])
    BY <1>3, <1>10, <1>13
  <1> QED
    BY <1>3, <1>5, <1>6, <1>7, <1>8, <1>9, <1>11, <1>12, <1>13 DEF last

(* pushHead adds one.                                                      *)
LEMMA PushPlaces ==
  ASSUME ChainTypeOK, PlacesFit, NEW d \in D, Filled(d) < Mod - 1, \A x \in D : x > d => Filled(x) = 0,
         headTail' = [headTail EXCEPT ![d] = [headTail[d] EXCEPT !.head = (headTail[d].head + 1) % Mod]],
         places' = Append(places, [d |-> d, i |-> headTail[d].head])
  PROVE  /\ PlacesFit'
         /\ places' \in Seq(Place) /\ DOMAIN places' = 1..(Len(places) + 1)
         /\ \A n \in DOMAIN places : places'[n] = places[n]
         /\ places'[Len(places) + 1] = [d |-> d, i |-> headTail[d].head]
         /\ headTail' \in [D -> [head : Indexes, tail : Indexes]]
         /\ \A x \in D : Filled(x)' = IF x = d THEN Filled(x) + 1 ELSE Filled(x)
  <1> DEFINE h == headTail[d].head
             t == headTail[d].tail
             h1 == (h + 1) % Mod
             new == [d |-> d, i |-> h]
             Filled1(x) == (headTail'[x].head - headTail'[x].tail) % Mod
             last == Len(places)
  <1>1. h \in Indexes /\ t \in Indexes /\ h1 \in Indexes /\ Indexes \subseteq Nat
        /\ (\A x \in D : Filled(x) \in Indexes)
        /\ last \in Nat /\ DOMAIN places = 1..last
        /\ (\A x \in Place : Before(x) \in Indexes)
        /\ \A n \in DOMAIN places : places[n] \in Place /\ places[n].d \in D
    BY Typed, Gap DEF Place
  <1>2. new \in Place /\ Before(new) = Filled(d)
    BY <1>1, Distances DEF Place
  <1>3. /\ places' \in Seq(Place) /\ DOMAIN places' = 1..(last + 1)
        /\ \A n \in DOMAIN places : places'[n] = places[n]
        /\ places'[last + 1] = new
    <2>1. places \in Seq(Place)
      BY DEF ChainTypeOK, Place
    <2>2. places' = Append(places, new)
      OBVIOUS
    <2> HIDE DEF new
    <2>3. /\ Append(places, new) \in Seq(Place) /\ Len(Append(places, new)) = last + 1
          /\ \A n \in 1..last : Append(places, new)[n] = places[n]
          /\ Append(places, new)[last + 1] = new
      BY <1>2, <2>1
    <2>4. DOMAIN Append(places, new) = 1..(last + 1)
      BY <2>3
    <2> QED
      BY <1>1, <2>2, <2>3, <2>4
  <1>4. /\ headTail \in [D -> [head : Indexes, tail : Indexes]]
        /\ [headTail[d] EXCEPT !.head = h1] \in [head : Indexes, tail : Indexes]
        /\ [headTail[d] EXCEPT !.head = h1].head = h1 /\ [headTail[d] EXCEPT !.head = h1].tail = t
    <2>1. headTail \in [D -> [head : Indexes, tail : Indexes]]
          /\ headTail[d] \in [head : Indexes, tail : Indexes]
      BY DEF ChainTypeOK
    <2>2. h1 \in Indexes
      BY <1>1
    <2> HIDE DEF h1
    <2> QED
      BY <2>1, <2>2
  <1>5. /\ headTail' \in [D -> [head : Indexes, tail : Indexes]]
        /\ headTail'[d].head = h1 /\ headTail'[d].tail = t
        /\ \A x \in D \ {d} : headTail'[x] = headTail[x]
    BY <1>4
  <1>6. /\ \A x \in D : headTail'[x].tail = headTail[x].tail
        /\ \A x \in D : x # d => Filled1(x) = Filled(x)
        /\ Filled1(d) = (h1 - t) % Mod
        /\ Filled(d) = (h - t) % Mod
    BY <1>5 DEF Filled
  <1>7. \A x \in D : Filled(x)' = Filled1(x)
    BY DEF Filled
  <1>8. \A n \in DOMAIN places' : \/ n \in DOMAIN places /\ places'[n] = places[n]
                                  \/ n = last + 1 /\ places'[n] = new
    BY <1>1, <1>3
  <1>9. /\ PlacesFit' <=>
             /\ \A n \in DOMAIN places' : Before(places'[n]) < Filled1(places'[n].d)
             /\ \A m, n \in DOMAIN places' :
                  m < n => \/ places'[m].d < places'[n].d
                           \/ places'[m].d = places'[n].d /\ Before(places'[m]) < Before(places'[n])
             /\ \A x \in D, i \in Indexes :
                  Before([d |-> x, i |-> i]) < Filled1(x) =>
                    \E n \in DOMAIN places' : places'[n] = [d |-> x, i |-> i]
    <2>1. \A n \in DOMAIN places' : places'[n].d \in D
      BY <1>1, <1>8
    <2>2. \A n \in DOMAIN places' : headTail'[places'[n].d].tail = headTail[places'[n].d].tail
      BY <1>6, <2>1
    <2>3. \A n \in DOMAIN places' : (Before(places[n]))' = Before(places'[n])
                                    /\ (Filled(places[n].d))' = Filled1(places'[n].d)
      BY <2>2 DEF Before, Filled
    <2>4. \A x \in D, i \in Indexes : (Before([d |-> x, i |-> i]))' = Before([d |-> x, i |-> i])
                                      /\ (Filled(x))' = Filled1(x)
      BY <1>6 DEF Before, Filled
    <2> HIDE DEF Filled1
    <2> QED
      BY <2>3, <2>4 DEF PlacesFit
  <1>10. new.d = d /\ d \in D /\ \A x \in Place : x.d = d /\ Before(x) = Before(new) => x = new
    <2>1. \A i, j \in Indexes : Before([d |-> d, i |-> i]) = Before([d |-> d, i |-> j]) => i = j
      BY Distances
    <2> QED
      BY <1>1, <2>1 DEF Place
  <1> HIDE DEF h, t, h1, Filled1, last, new
  <1>11. Filled1(d) = Filled(d) + 1
    <2>1. (h1 - t) % Mod = ((h - t) % Mod) + 1
      BY <1>1, <1>6, RingMoves DEF h1
    <2> QED
      BY <1>6, <2>1
  <1>12. \A n \in DOMAIN places : /\ places[n] \in Place /\ places[n].d \in D /\ Before(places[n]) \in Nat
                                 /\ Before(places[n]) < Filled(places[n].d) /\ Filled(places[n].d) \in Nat
    BY <1>1 DEF PlacesFit
  <1>13. ASSUME NEW n \in DOMAIN places'
         PROVE  Before(places'[n]) < Filled1(places'[n].d)
    <2>1. CASE n \in DOMAIN places /\ places'[n] = places[n]
      BY <1>6, <1>11, <1>12, <2>1
    <2>2. CASE places'[n] = new
      BY <1>1, <1>2, <1>10, <1>11, <2>2
    <2> QED
      BY <1>8, <2>1, <2>2
  <1>14. ASSUME NEW m \in DOMAIN places', NEW n \in DOMAIN places', m < n
         PROVE  \/ places'[m].d < places'[n].d
                \/ places'[m].d = places'[n].d /\ Before(places'[m]) < Before(places'[n])
    <2>1. m \in DOMAIN places /\ places'[m] = places[m]
      BY <1>1, <1>3, <1>14
    <2>2. CASE n \in DOMAIN places /\ places'[n] = places[n]
      BY <1>14, <2>1, <2>2 DEF PlacesFit
    <2>3. CASE places'[n] = new
      <3>1. Filled(places[m].d) > 0
        BY <1>12, <2>1
      <3>2. ~(places[m].d > d)
        BY <1>12, <2>1, <3>1
      <3>3. places[m].d < d \/ (places[m].d = d /\ Before(places[m]) < Filled(d))
        BY <1>12, <2>1, <3>2 DEF D
      <3> QED
        BY <1>2, <1>10, <2>1, <2>3, <3>3
    <2> QED
      BY <1>8, <2>2, <2>3
  <1>15. ASSUME NEW x \in D, NEW i \in Indexes, Before([d |-> x, i |-> i]) < Filled1(x)
         PROVE  \E n \in DOMAIN places' : places'[n] = [d |-> x, i |-> i]
    <2> DEFINE y == [d |-> x, i |-> i]
    <2>1. y \in Place /\ y.d = x
      BY DEF Place
    <2>2. Before(y) \in Nat /\ Filled(x) \in Nat /\ Before(y) < Filled1(x)
      BY <1>1, <1>15, <2>1
    <2> HIDE DEF y
    <2>3. CASE Before(y) < Filled(x)
      <3>1. PICK n \in DOMAIN places : places[n] = y
        BY <2>3 DEF PlacesFit, y
      <3>2. n \in DOMAIN places' /\ places'[n] = y
        BY <1>1, <1>3, <3>1
      <3> QED
        BY <3>2 DEF y
    <2>4. CASE x = d /\ Before(y) = Filled(x)
      <3>1. y = new
        BY <1>2, <1>10, <2>1, <2>4
      <3>2. last + 1 \in DOMAIN places' /\ places'[last + 1] = y
        BY <1>1, <1>3, <3>1
      <3> QED
        BY <3>2 DEF y
    <2> QED
      BY <1>6, <1>11, <2>2, <2>3, <2>4
  <1> QED
    BY <1>3, <1>5, <1>6, <1>7, <1>9, <1>11, <1>13, <1>14, <1>15 DEF last, new, h

-----------------------------------------------------------------------------
(* What a step of thread t leaves to the others.                           *)
OnlyThread(t) ==
  \A u \in T \ {t} : /\ dpc'[u] = dpc[u] /\ at'[u] = at[u] /\ ptrs'[u] = ptrs[u]
                     /\ slot'[u] = slot[u] /\ hand'[u] = hand[u]

ChainLocalsOK ==
  /\ dpc \in [T -> {"idle"} \cup Pushing \cup Popping \cup PoppingTail]
  /\ at \in [T -> [d : 0..MaxDequeues, d2 : 0..MaxDequeues]]
  /\ ptrs \in [T -> [head : Indexes, tail : Indexes]]
  /\ slot \in [T -> Nat]
  /\ hand \in [T -> Obj \cup {None}]

SlotsOK ==
  /\ DOMAIN slots = D
  /\ \A d \in D : slots[d] \in [0..(Size(d) - 1) -> [typ : BOOLEAN, val : Obj \cup {None}]]

(* The functions on threads, as a step of t updates them.                  *)
LEMMA Domains ==
  ASSUME ChainTypeOK, NEW t \in T
  PROVE  /\ dpc = [dpc EXCEPT ![t] = dpc[t]]
         /\ at = [at EXCEPT ![t] = at[t]]
         /\ ptrs = [ptrs EXCEPT ![t] = ptrs[t]]
         /\ slot = [slot EXCEPT ![t] = slot[t]]
         /\ hand = [hand EXCEPT ![t] = hand[t]]
         /\ at[t].d \in 0..MaxDequeues /\ at[t].d2 \in 0..MaxDequeues
         /\ at[t] \in [d : 0..MaxDequeues, d2 : 0..MaxDequeues]
         /\ ptrs[t] \in [head : Indexes, tail : Indexes]
         /\ slot[t] \in Nat
         /\ hand[t] \in Obj \cup {None}
  BY DEF ChainTypeOK

Locals(t, pc, a, q, i, v) ==
  /\ dpc' = [dpc EXCEPT ![t] = pc]
  /\ at' = [at EXCEPT ![t] = a]
  /\ ptrs' = [ptrs EXCEPT ![t] = q]
  /\ slot' = [slot EXCEPT ![t] = i]
  /\ hand' = [hand EXCEPT ![t] = v]

(* A step of t, by what it makes of the state of its call.                 *)
LEMMA LocalsMove ==
  ASSUME ChainTypeOK, NEW t \in T,
         NEW pc \in {"idle"} \cup Pushing \cup Popping \cup PoppingTail,
         NEW a \in [d : 0..MaxDequeues, d2 : 0..MaxDequeues],
         NEW q \in [head : Indexes, tail : Indexes], NEW i \in Nat, NEW v \in Obj \cup {None},
         Locals(t, pc, a, q, i, v)
  PROVE  /\ OnlyThread(t) /\ ChainLocalsOK'
         /\ dpc'[t] = pc /\ at'[t] = a /\ ptrs'[t] = q /\ slot'[t] = i /\ hand'[t] = v
  <1>1. ChainLocalsOK
    BY DEF ChainTypeOK, ChainLocalsOK
  <1>2. dpc' \in [T -> {"idle"} \cup Pushing \cup Popping \cup PoppingTail]
    BY <1>1 DEF ChainLocalsOK, Locals
  <1>3. at' \in [T -> [d : 0..MaxDequeues, d2 : 0..MaxDequeues]]
    BY <1>1 DEF ChainLocalsOK, Locals
  <1>4. ptrs' \in [T -> [head : Indexes, tail : Indexes]]
    BY <1>1 DEF ChainLocalsOK, Locals
  <1>5. slot' \in [T -> Nat] /\ hand' \in [T -> Obj \cup {None}]
    BY <1>1 DEF ChainLocalsOK, Locals
  <1>6. OnlyThread(t)
    BY <1>1 DEF ChainLocalsOK, Locals, OnlyThread
  <1>7. dpc'[t] = pc /\ at'[t] = a /\ ptrs'[t] = q /\ slot'[t] = i /\ hand'[t] = v
    BY <1>1 DEF ChainLocalsOK, Locals
  <1>8. ChainLocalsOK'
    BY <1>2, <1>3, <1>4, <1>5, SizeAssumption DEF ChainLocalsOK, Pushing, Popping, PoppingTail
  <1> QED
    BY <1>6, <1>7, <1>8

(* The indexes that are 0 are indexes.                                     *)
LEMMA NoPtrsTyped == /\ NoPtrs \in [head : Indexes, tail : Indexes] /\ 0 \in 0..MaxDequeues
                     /\ [d |-> 0, d2 |-> 0] \in [d : 0..MaxDequeues, d2 : 0..MaxDequeues]
  <1>1. 1 \in D /\ Mod \in Nat /\ MaxDequeues \in Nat
    BY SizeAssumption DEF D
  <1>2. Mod > 0
    BY <1>1, SizeIs
  <1> QED
    BY <1>1, <1>2 DEF NoPtrs, Indexes

(* One slot is written.                                                    *)
WritesSlot(d, i, e) == slots' = [slots EXCEPT ![d][i] = e]

(* What it does to the array of its dequeue.                               *)
LEMMA SlotWrite ==
  ASSUME ChainTypeOK, NEW d \in D, NEW i \in 0..(Size(d) - 1),
         NEW e \in [typ : BOOLEAN, val : Obj \cup {None}],
         WritesSlot(d, i, e)
  PROVE  /\ SlotsOK'
         /\ slots'[d][i] = e
         /\ \A x \in D : \A j \in 0..(Size(x) - 1) : x # d \/ j # i => slots'[x][j] = slots[x][j]
  <1>1. DOMAIN slots = D
        /\ \A x \in D : slots[x] \in [0..(Size(x) - 1) -> [typ : BOOLEAN, val : Obj \cup {None}]]
    BY DEF ChainTypeOK
  <1>2. DOMAIN slots' = D /\ slots'[d] = [slots[d] EXCEPT ![i] = e]
        /\ \A x \in D : x # d => slots'[x] = slots[x]
    BY <1>1 DEF WritesSlot
  <1>3. slots'[d] \in [0..(Size(d) - 1) -> [typ : BOOLEAN, val : Obj \cup {None}]]
    BY <1>1, <1>2
  <1>4. SlotsOK'
    BY <1>1, <1>2, <1>3 DEF SlotsOK
  <1>5. slots'[d][i] = e /\ \A j \in 0..(Size(d) - 1) : j # i => slots'[d][j] = slots[d][j]
    BY <1>1, <1>2
  <1> QED
    BY <1>2, <1>4, <1>5

(* A step of t leaves what the others know, if it adds no object anywhere  *)
(* but in the newest dequeue, when it is a step of the owner.              *)
LEMMA OthersFit ==
  ASSUME ChainInv, NEW t \in T, OnlyThread(t), chead' \in Nat, chead <= chead',
         t # owner => chead' = chead,
         \A x \in D : Filled(x)' \in Nat,
         \A x \in D : Filled(x)' <= Filled(x) \/ (t = owner /\ x = chead)
  PROVE  \A u \in T \ {t} : CallFits(u)'
  <1> SUFFICES ASSUME NEW u \in T \ {t}
               PROVE  CallFits(u)'
    OBVIOUS
  <1>1. CallFits(u) /\ ChainTypeOK
    BY DEF ChainInv
  <1>2. dpc'[u] = dpc[u] /\ at'[u] = at[u] /\ ptrs'[u] = ptrs[u] /\ hand'[u] = hand[u]
    BY DEF OnlyThread
  <1>0. PICK d \in 0..MaxDequeues : at[u].d = d
    BY <1>1, Domains
  <1>3. chead \in Nat /\ d \in Nat /\ at[u].d2 \in Nat /\ chead <= MaxDequeues /\ MaxDequeues \in Nat
        /\ \A x \in D : Filled(x) \in Nat
    BY <1>1, Typed, Domains
  <1>4. dpc[u] # "idle" => d \in D
    BY <1>0, <1>1, <1>3 DEF CallFits, D
  <1>5. \A x \in D : Filled(x) = 0 /\ ~(t = owner /\ x = chead) => Filled(x)' = 0
    BY <1>3
  <1>6. /\ dpc[u] \in Pushing \cup Popping => u = owner
        /\ dpc[u] # "idle" => d \in 1..chead
        /\ dpc[u] \in Pushing => d = chead
        /\ dpc[u] \in {"pushSlot", "pushAdd"} => Filled(d) < Size(d)
        /\ dpc[u] \in Popping => \A x \in D : x > d => Filled(x) = 0
        /\ dpc[u] \in PoppingTail => \A x \in D : x < d => Filled(x) = 0
        /\ dpc[u] \in {"popPrev", "tailDrop"} => Filled(d) = 0
        /\ dpc[u] \in {"tailLoad", "tailCas"} => at[u].d2 \in {0, d + 1} /\ at[u].d2 <= chead
        /\ dpc[u] = "tailDrop" => at[u].d2 = d + 1 /\ at[u].d2 <= chead
        /\ dpc[u] \in {"popCas", "tailCas"} => ~IsEmpty(ptrs[u])
        /\ hand[u] # None <=> dpc[u] \in Pushing \cup {"tailClear"}
    BY <1>0, <1>1 DEF CallFits
  <1>7. /\ dpc[u] \in {"pushSlot", "pushAdd"} => Filled(d)' < Size(d)
        /\ dpc[u] \in Pushing => d = chead'
        /\ dpc[u] \in Popping => \A x \in D : x > d => Filled(x)' = 0
    <2>1. CASE u = owner
      <3>1. t # owner /\ chead' = chead
        BY <2>1
      <3>2. dpc[u] \in {"pushSlot", "pushAdd"} => Filled(d)' < Size(d)
        <4>1. d \in D => Size(d) \in Nat
          BY SizeIs
        <4> QED
          BY <1>3, <1>4, <1>6, <3>1, <4>1
      <3> QED
        BY <1>5, <1>6, <3>1, <3>2
    <2>2. CASE u # owner
      BY <1>6, <2>2 DEF Pushing, Popping
    <2> QED
      BY <2>1, <2>2
  <1>8. dpc[u] # "idle" => d \in 1..chead'
    BY <1>3, <1>6
  <1>9. dpc[u] \in PoppingTail => \A x \in D : x < d => Filled(x)' = 0
    <2>1. ASSUME dpc[u] \in PoppingTail, NEW x \in D, x < d
          PROVE  Filled(x)' = 0
      <3>1. dpc[u] # "idle"
        BY <2>1 DEF PoppingTail
      <3>2. x # chead
        BY <1>3, <1>6, <2>1, <3>1 DEF D
      <3> QED
        BY <1>5, <1>6, <2>1, <3>2
    <2> QED
      BY <2>1
  <1>10. dpc[u] \in {"popPrev", "tailDrop"} => Filled(d)' = 0
    <2>1. CASE dpc[u] = "popPrev"
      <3>1. u = owner /\ d \in D
        BY <1>4, <1>6, <2>1 DEF Popping
      <3> QED
        BY <1>5, <1>6, <2>1, <3>1
    <2>2. CASE dpc[u] = "tailDrop"
      <3>1. d # chead /\ d \in D
        BY <1>3, <1>4, <1>6, <2>2
      <3> QED
        BY <1>5, <1>6, <2>2, <3>1
    <2> QED
      BY <2>1, <2>2
  <1>11. /\ dpc[u] \in {"tailLoad", "tailCas"} => at[u].d2 \in {0, d + 1} /\ at[u].d2 <= chead'
         /\ dpc[u] = "tailDrop" => at[u].d2 = d + 1 /\ at[u].d2 <= chead'
    BY <1>3, <1>6
  <1> QED
    BY <1>0, <1>2, <1>6, <1>7, <1>8, <1>9, <1>10, <1>11 DEF CallFits

(* Where nothing is pushed and no dequeue is linked, LinksFit stays.       *)
LEMMA LinksKept ==
  ASSUME ChainInv, KeepChain, \A x \in D : Filled(x)' \in Nat /\ Filled(x)' <= Filled(x)
  PROVE  LinksFit'
  <1>1. \A x \in D : Filled(x) \in Nat /\ (Filled(x) = 0 => Filled(x)' = 0) /\ Size(x) \in Nat
    BY Typed, SizeIs DEF ChainInv
  <1>2. LinksFit /\ chead' = chead /\ ctail' = ctail /\ next' = next /\ prev' = prev
    BY DEF ChainInv, KeepChain
  <1>3. /\ ctail <= chead /\ (ctail = 0 => chead = 0)
        /\ \A d \in D : /\ next[d] = IF d < chead THEN d + 1 ELSE 0
                        /\ prev[d] \in {0, d - 1}
                        /\ Filled(d) <= Size(d)
                        /\ d < ctail \/ d > chead => Filled(d) = 0
    BY <1>2 DEF LinksFit
  <1>4. \A d \in D : Filled(d)' <= Size(d) /\ (d < ctail \/ d > chead => Filled(d)' = 0)
    BY <1>1, <1>3
  <1> QED
    BY <1>2, <1>3, <1>4 DEF LinksFit

(* Slots, as places of the array of a dequeue.                             *)
SlotSet == {s \in [d : D, i : Nat] : s.i \in 0..(Size(s.d) - 1)}

(* Every place has a slot, and so has a call that has taken one.           *)
LEMMA SlotsAre ==
  ASSUME ChainTypeOK
  PROVE  /\ \A x \in Place : SlotOf(x) \in SlotSet
         /\ \A n \in DOMAIN places : SlotOf(places[n]) \in SlotSet
         /\ \A t \in T : at[t].d \in D /\ slot[t] < Size(at[t].d) => Taken(t) \in SlotSet
         /\ \A s \in SlotSet : slots[s.d][s.i] \in [typ : BOOLEAN, val : Obj \cup {None}]
            /\ s = [d |-> s.d, i |-> s.i]
  <1>1. \A x \in Place : SlotOf(x) \in SlotSet
    BY SizeIs DEF Place, SlotOf, SlotSet
  <1>2. \A n \in DOMAIN places : places[n] \in Place
    BY Typed DEF Place
  <1>3. \A t \in T : at[t].d \in D /\ slot[t] < Size(at[t].d) => Taken(t) \in SlotSet
    <2>1. \A t \in T : slot[t] \in Nat
      BY DEF ChainTypeOK
    <2>2. \A d \in D : Size(d) \in Nat
      BY SizeIs
    <2> QED
      BY <2>1, <2>2 DEF Taken, SlotSet
  <1>4. \A s \in SlotSet : slots[s.d][s.i] \in [typ : BOOLEAN, val : Obj \cup {None}]
                           /\ s = [d |-> s.d, i |-> s.i]
    <2> SUFFICES ASSUME NEW s \in SlotSet
                 PROVE  slots[s.d][s.i] \in [typ : BOOLEAN, val : Obj \cup {None}] /\ s = [d |-> s.d, i |-> s.i]
      OBVIOUS
    <2>1. s.d \in D /\ s.i \in 0..(Size(s.d) - 1) /\ s = [d |-> s.d, i |-> s.i]
      BY DEF SlotSet
    <2>2. slots[s.d] \in [0..(Size(s.d) - 1) -> [typ : BOOLEAN, val : Obj \cup {None}]]
      BY <2>1 DEF ChainTypeOK
    <2> QED
      BY <2>1, <2>2
  <1> QED
    BY <1>1, <1>2, <1>3, <1>4

(* SlotsFit, with what the types say about it.                             *)
LEMMA SlotFacts ==
  ASSUME ChainInv
  PROVE  /\ \A n \in DOMAIN places : /\ SlotOf(places[n]) \in SlotSet /\ places[n] \in Place
                                     /\ slots[SlotOf(places[n]).d][SlotOf(places[n]).i].typ
                                     /\ ObjectIn(SlotOf(places[n])) # None
         /\ \A t \in T : dpc[t] \in Taking =>
              /\ at[t].d \in D /\ slot[t] \in 0..(Size(at[t].d) - 1) /\ Taken(t) \in SlotSet
              /\ slots[Taken(t).d][Taken(t).i].typ
              /\ dpc[t] # "tailClear" => ObjectIn(Taken(t)) # None
              /\ \A n \in DOMAIN places : SlotOf(places[n]) # Taken(t)
              /\ \A u \in T : dpc[u] \in Taking /\ Taken(u) = Taken(t) => u = t
         /\ dpc[owner] = "pushAdd" =>
              /\ chead \in D /\ [d |-> chead, i |-> headTail[chead].head] \in Place
              /\ LET s == SlotOf([d |-> chead, i |-> headTail[chead].head]) IN
                 /\ s \in SlotSet /\ slots[s.d][s.i].typ /\ ObjectIn(s) = hand[owner]
                 /\ \A t \in T : dpc[t] \in Taking => Taken(t) # s
                 /\ \A n \in DOMAIN places : SlotOf(places[n]) # s
  <1>1. ChainTypeOK /\ LinksFit /\ PlacesFit /\ SlotsFit /\ (\A t \in T : CallFits(t))
    BY DEF ChainInv
  <1>2. \A n \in DOMAIN places : /\ SlotOf(places[n]) \in SlotSet /\ places[n] \in Place
                                 /\ slots[SlotOf(places[n]).d][SlotOf(places[n]).i].typ
                                 /\ ObjectIn(SlotOf(places[n])) # None
    BY <1>1, SlotsAre, Typed DEF SlotsFit, Place
  <1>3. ASSUME NEW t \in T, dpc[t] # "idle"
        PROVE  at[t].d \in D /\ chead \in D
    <2>1. at[t].d \in 1..chead /\ chead \in 0..MaxDequeues /\ MaxDequeues \in Nat
      BY <1>1, <1>3, Typed DEF CallFits
    <2> QED
      BY <2>1 DEF D
  <1>4. ASSUME NEW t \in T, dpc[t] \in Taking
        PROVE  /\ at[t].d \in D /\ slot[t] \in 0..(Size(at[t].d) - 1) /\ Taken(t) \in SlotSet
               /\ slots[Taken(t).d][Taken(t).i].typ
               /\ dpc[t] # "tailClear" => ObjectIn(Taken(t)) # None
               /\ \A n \in DOMAIN places : SlotOf(places[n]) # Taken(t)
               /\ \A u \in T : dpc[u] \in Taking /\ Taken(u) = Taken(t) => u = t
    <2>1. at[t].d \in D
      BY <1>3, <1>4 DEF Taking
    <2>2. /\ slot[t] < Size(at[t].d) /\ slots[at[t].d][slot[t]].typ
          /\ dpc[t] # "tailClear" => ObjectIn(Taken(t)) # None
          /\ \A n \in DOMAIN places : SlotOf(places[n]) # Taken(t)
          /\ \A u \in T : dpc[u] \in Taking /\ Taken(u) = Taken(t) => u = t
      BY <1>1, <1>4 DEF SlotsFit
    <2>3. Taken(t) \in SlotSet
      BY <1>1, <2>1, <2>2, SlotsAre
    <2>4. slot[t] \in 0..(Size(at[t].d) - 1) /\ slots[Taken(t).d][Taken(t).i].typ
      BY <2>2, <2>3 DEF SlotSet, Taken
    <2> QED
      BY <2>1, <2>2, <2>3, <2>4
  <1>5. ASSUME dpc[owner] = "pushAdd"
        PROVE  /\ chead \in D /\ [d |-> chead, i |-> headTail[chead].head] \in Place
               /\ LET s == SlotOf([d |-> chead, i |-> headTail[chead].head]) IN
                  /\ s \in SlotSet /\ slots[s.d][s.i].typ /\ ObjectIn(s) = hand[owner]
                  /\ \A t \in T : dpc[t] \in Taking => Taken(t) # s
                  /\ \A n \in DOMAIN places : SlotOf(places[n]) # s
    <2> DEFINE s == SlotOf([d |-> chead, i |-> headTail[chead].head])
    <2>1. owner \in T
      BY DEF T
    <2>2. chead \in D /\ at[owner].d = chead /\ Filled(chead) < Size(chead)
      BY <1>1, <1>3, <1>5, <2>1 DEF CallFits, Pushing
    <2>3. [d |-> chead, i |-> headTail[chead].head] \in Place
      BY <1>1, <2>2, Typed DEF Place
    <2>4. s \in SlotSet
      BY <1>1, <2>3, SlotsAre
    <2>5. /\ slots[s.d][s.i].typ /\ ObjectIn(s) = hand[owner]
          /\ \A t \in T : dpc[t] \in Taking => Taken(t) # s
      BY <1>1, <1>5 DEF SlotsFit
    <2>6. \A n \in DOMAIN places : SlotOf(places[n]) # s
      BY <1>1, <2>2, DistinctSlots
    <2> QED
      BY <2>2, <2>3, <2>4, <2>5, <2>6
  <1> QED
    BY <1>2, <1>4, <1>5

-----------------------------------------------------------------------------
(* Steps that move no object.                                              *)
LEMMA QuietFits ==
  ASSUME ChainInv, NEW t \in T, OnlyThread(t), KeepItems,
         dpc[t] \notin Taking, dpc'[t] \notin Taking \cup {"pushAdd"}, t # owner => chead' = chead
  PROVE  /\ SlotsOK' /\ headTail' \in [D -> [head : Indexes, tail : Indexes]]
         /\ places' \in Seq([d : D, i : Indexes])
         /\ PlacesFit' /\ SlotsFit'
         /\ \A x \in D : Filled(x)' = Filled(x) /\ Filled(x) \in Nat
         /\ Items' = Items /\ \A u \in T \ {t} : Held(u)' = Held(u)
         /\ Held(t)' = hand'[t] /\ Held(t) = hand[t]
  <1>1. headTail' = headTail /\ slots' = slots /\ places' = places
    BY DEF KeepItems
  <1>2. /\ SlotsOK' /\ headTail' \in [D -> [head : Indexes, tail : Indexes]]
        /\ places' \in Seq([d : D, i : Indexes])
    BY <1>1 DEF ChainInv, ChainTypeOK, SlotsOK
  <1>3. PlacesFit'
    BY <1>1 DEF ChainInv, PlacesFit, Before, Filled
  <1>4. \A x \in D : Filled(x)' = Filled(x) /\ Filled(x) \in Nat
    BY <1>1, Typed DEF ChainInv, Filled
  <1>5. /\ Items' = Items
        /\ \A n \in DOMAIN places : ObjectIn(SlotOf(places[n]))' = ObjectIn(SlotOf(places[n]))
    BY <1>1 DEF Items, ObjectIn, SlotOf, Index
  <1>6. \A u \in T \ {t} : Taken(u)' = Taken(u) /\ ObjectIn(Taken(u))' = ObjectIn(Taken(u))
    BY <1>1 DEF Taken, ObjectIn, OnlyThread
  <1>7. \A u \in T \ {t} : Held(u)' = Held(u)
    BY <1>6 DEF Held, OnlyThread
  <1>8. Held(t)' = hand'[t] /\ Held(t) = hand[t]
    BY DEF Held, Taking
  <1>9. \A u \in T : dpc'[u] \in Taking => u # t /\ dpc[u] \in Taking /\ dpc'[u] = dpc[u]
    BY DEF OnlyThread
  <1>10. dpc'[owner] = "pushAdd" => owner # t /\ dpc[owner] = "pushAdd" /\ hand'[owner] = hand[owner]
         /\ chead' = chead
    BY DEF OnlyThread, T
  <1>11. SlotsFit
    BY DEF ChainInv
  <1>12. \A n \in DOMAIN places' :
           LET s == SlotOf(places'[n]) IN slots'[s.d][s.i].typ /\ slots'[s.d][s.i].val # None
    BY <1>1, <1>11 DEF SlotsFit, ObjectIn
  <1>13. ASSUME NEW u \in T, dpc'[u] \in Taking
         PROVE  /\ slot'[u] < Size(at'[u].d) /\ slots'[at'[u].d][slot'[u]].typ
                /\ dpc'[u] # "tailClear" => ObjectIn(Taken(u))' # None
                /\ \A n \in DOMAIN places' : SlotOf(places'[n]) # Taken(u)'
                /\ \A w \in T : dpc'[w] \in Taking /\ Taken(w)' = Taken(u)' => w = u
    <2>1. u # t /\ dpc[u] \in Taking /\ dpc'[u] = dpc[u] /\ slot'[u] = slot[u] /\ at'[u] = at[u]
      BY <1>9, <1>13 DEF OnlyThread
    <2>2. \A w \in T : dpc'[w] \in Taking /\ Taken(w)' = Taken(u)' => w = u
      BY <1>6, <1>9, <1>11, <2>1 DEF SlotsFit
    <2> QED
      BY <1>1, <1>6, <1>11, <2>1, <2>2 DEF SlotsFit
  <1>14. ASSUME dpc'[owner] = "pushAdd"
         PROVE  LET s == SlotOf([d |-> chead', i |-> headTail'[chead'].head]) IN
                /\ slots'[s.d][s.i].typ /\ slots'[s.d][s.i].val = hand'[owner]
                /\ \A u \in T : dpc'[u] \in Taking => Taken(u)' # s
    BY <1>1, <1>6, <1>9, <1>10, <1>11, <1>14 DEF SlotsFit, ObjectIn
  <1>15. SlotsFit'
    BY <1>12, <1>13, <1>14 DEF SlotsFit, ObjectIn, SlotOf, Index
  <1> QED
    BY <1>2, <1>3, <1>4, <1>5, <1>7, <1>8, <1>15

(* A step that takes the object at the place m.                            *)
LEMMA TakeFits ==
  ASSUME ChainInv, NEW t \in T, OnlyThread(t), slots' = slots, chead' = chead, NEW m \in DOMAIN places,
         dpc'[t] \in {"popTake", "tailRead"}, dpc[t] \notin Taking,
         at'[t].d = places[m].d, slot'[t] = Index(places[m].d, places[m].i),
         \A n \in DOMAIN places' : \E k \in DOMAIN places \ {m} : places'[n] = places[k],
         t # owner => headTail'[chead].head = headTail[chead].head
  PROVE  /\ SlotsOK' /\ SlotsFit'
         /\ Held(t)' = ObjectIn(SlotOf(places[m])) /\ Held(t) = hand[t]
         /\ \A u \in T \ {t} : Held(u)' = Held(u)
         /\ \A n \in DOMAIN places : slots'[SlotOf(places[n]).d][SlotOf(places[n]).i].val = ObjectIn(SlotOf(places[n]))
  <1>1. SlotsOK'
    BY DEF ChainInv, ChainTypeOK, SlotsOK
  <1>2. /\ \A n \in DOMAIN places : /\ slots[SlotOf(places[n]).d][SlotOf(places[n]).i].typ
                                    /\ ObjectIn(SlotOf(places[n])) # None
        /\ \A u \in T : dpc[u] \in Taking =>
             /\ slot[u] < Size(at[u].d) /\ slots[at[u].d][slot[u]].typ
             /\ dpc[u] # "tailClear" => ObjectIn(Taken(u)) # None
             /\ \A n \in DOMAIN places : SlotOf(places[n]) # Taken(u)
             /\ \A w \in T : dpc[w] \in Taking /\ Taken(w) = Taken(u) => w = u
    BY SlotFacts DEF ChainInv, SlotsFit
  <1>3. Taken(t)' = SlotOf(places[m]) /\ ObjectIn(Taken(t))' = ObjectIn(SlotOf(places[m]))
    BY DEF Taken, SlotOf, ObjectIn
  <1>4. \A u \in T \ {t} : /\ Taken(u)' = Taken(u) /\ ObjectIn(Taken(u))' = ObjectIn(Taken(u))
                           /\ dpc'[u] = dpc[u]
                           /\ slot'[u] = slot[u] /\ at'[u] = at[u] /\ hand'[u] = hand[u]
    BY DEF Taken, ObjectIn, OnlyThread
  <1>5. \A u \in T \ {t} : Held(u)' = Held(u)
    BY <1>4 DEF Held
  <1>6. Held(t)' = ObjectIn(SlotOf(places[m])) /\ Held(t) = hand[t]
    BY <1>3 DEF Held, Taking
  <1>7. \A n \in DOMAIN places : slots'[SlotOf(places[n]).d][SlotOf(places[n]).i].val = ObjectIn(SlotOf(places[n]))
    BY DEF ObjectIn
  <1>8. \A n \in DOMAIN places : SlotOf(places[n]) = SlotOf(places[m]) => n = m
    BY DistinctSlots DEF ChainInv
  <1>9. \A n \in DOMAIN places' :
          LET s == SlotOf(places'[n]) IN /\ slots'[s.d][s.i].typ /\ slots'[s.d][s.i].val # None
                                         /\ s # SlotOf(places[m])
                                         /\ \E k \in DOMAIN places : s = SlotOf(places[k])
    BY <1>2, <1>8 DEF ObjectIn
  <1>10. ASSUME NEW u \in T, dpc'[u] \in Taking
         PROVE  /\ slot'[u] < Size(at'[u].d) /\ slots'[at'[u].d][slot'[u]].typ
                /\ dpc'[u] # "tailClear" => ObjectIn(Taken(u))' # None
                /\ \A n \in DOMAIN places' : SlotOf(places'[n]) # Taken(u)'
                /\ \A w \in T : dpc'[w] \in Taking /\ Taken(w)' = Taken(u)' => w = u
    <2>1. CASE u = t
      <3>1. /\ \A n \in DOMAIN places' : SlotOf(places'[n]) # Taken(u)'
            /\ ObjectIn(Taken(u))' # None
        BY <1>2, <1>3, <1>9, <2>1
      <3>2. \A w \in T : dpc'[w] \in Taking /\ Taken(w)' = Taken(u)' => w = u
        BY <1>2, <1>3, <1>4, <2>1
      <3>3. slot'[u] < Size(at'[u].d)
        <4>1. places[m].d \in D /\ places[m].i \in Indexes
          BY Typed DEF ChainInv
        <4>2. Index(places[m].d, places[m].i) \in 0..(Size(places[m].d) - 1) /\ Size(places[m].d) \in Nat
          BY <4>1, SizeIs
        <4> QED
          BY <2>1, <4>2
      <3>4. slots'[at'[u].d][slot'[u]].typ
        BY <1>2, <2>1 DEF SlotOf
      <3> QED
        BY <3>1, <3>2, <3>3, <3>4
    <2>2. CASE u # t
      <3>1. dpc[u] \in Taking
        BY <1>4, <1>10, <2>2
      <3>2. /\ slot'[u] < Size(at'[u].d) /\ slots'[at'[u].d][slot'[u]].typ
            /\ dpc'[u] # "tailClear" => ObjectIn(Taken(u))' # None
        BY <1>2, <1>4, <2>2, <3>1
      <3>3. \A n \in DOMAIN places' : SlotOf(places'[n]) # Taken(u)'
        BY <1>2, <1>4, <1>9, <2>2, <3>1
      <3>4. \A w \in T : dpc'[w] \in Taking /\ Taken(w)' = Taken(u)' => w = u
        BY <1>2, <1>3, <1>4, <2>2, <3>1
      <3> QED
        BY <3>2, <3>3, <3>4
    <2> QED
      BY <2>1, <2>2
  <1>11. ASSUME dpc'[owner] = "pushAdd"
         PROVE  LET s == SlotOf([d |-> chead', i |-> headTail'[chead'].head]) IN
                /\ slots'[s.d][s.i].typ /\ slots'[s.d][s.i].val = hand'[owner]
                /\ \A u \in T : dpc'[u] \in Taking => Taken(u)' # s
    <2> DEFINE s == SlotOf([d |-> chead, i |-> headTail[chead].head])
    <2>1. owner \in T /\ owner # t
      BY <1>11 DEF T
    <2>2. dpc[owner] = "pushAdd" /\ hand'[owner] = hand[owner]
      BY <1>4, <1>11, <2>1
    <2>3. /\ slots[s.d][s.i].typ /\ ObjectIn(s) = hand[owner]
          /\ \A u \in T : dpc[u] \in Taking => Taken(u) # s
          /\ \A n \in DOMAIN places : SlotOf(places[n]) # s
      BY <2>2, SlotFacts
    <2>4. SlotOf([d |-> chead', i |-> headTail'[chead'].head]) = s
      BY <2>1
    <2> HIDE DEF s
    <2>5. \A u \in T : dpc'[u] \in Taking => Taken(u)' # s
      BY <1>3, <1>4, <2>3
    <2> QED
      BY <2>2, <2>3, <2>4, <2>5 DEF ObjectIn
  <1>12. SlotsFit'
    BY <1>9, <1>10, <1>11 DEF SlotsFit, ObjectIn, SlotOf, Index
  <1> QED
    BY <1>1, <1>5, <1>6, <1>7, <1>12

(* A step that writes to the slot that its call has taken.                 *)
LEMMA OwnSlotFits ==
  ASSUME ChainInv, NEW t \in T, OnlyThread(t), UNCHANGED <<headTail, places, chead>>,
         dpc[t] \in Taking, dpc'[t] \notin {"pushAdd", "popTake", "tailRead"},
         dpc'[t] = "tailClear" => at'[t] = at[t] /\ slot'[t] = slot[t],
         NEW e \in [typ : BOOLEAN, val : Obj \cup {None}], dpc'[t] = "tailClear" => e.typ,
         WritesSlot(at[t].d, slot[t], e)
  PROVE  /\ SlotsOK' /\ headTail' \in [D -> [head : Indexes, tail : Indexes]]
         /\ places' \in Seq([d : D, i : Indexes])
         /\ PlacesFit' /\ SlotsFit'
         /\ \A x \in D : Filled(x)' = Filled(x) /\ Filled(x) \in Nat
         /\ Items' = Items /\ \A u \in T \ {t} : Held(u)' = Held(u)
         /\ Held(t)' = hand'[t]
         /\ slots[at[t].d][slot[t]] \in [typ : BOOLEAN, val : Obj \cup {None}] /\ at[t].d \in D
  <1>1. headTail' = headTail /\ places' = places /\ chead' = chead
    OBVIOUS
  <1>2. at[t].d \in D /\ slot[t] \in 0..(Size(at[t].d) - 1) /\ Taken(t) \in SlotSet
    BY SlotFacts
  <1>3. slots[at[t].d][slot[t]] \in [typ : BOOLEAN, val : Obj \cup {None}]
    BY <1>2 DEF ChainInv, ChainTypeOK
  <1>4. /\ SlotsOK' /\ slots'[at[t].d][slot[t]] = e
        /\ \A x \in D : \A j \in 0..(Size(x) - 1) : x # at[t].d \/ j # slot[t] => slots'[x][j] = slots[x][j]
    <2>1. PICK d \in D : d = at[t].d
      BY <1>2
    <2>2. PICK i \in 0..(Size(d) - 1) : i = slot[t]
      BY <1>2, <2>1
    <2>3. /\ SlotsOK' /\ slots'[d][i] = e
          /\ \A x \in D : \A j \in 0..(Size(x) - 1) : x # d \/ j # i => slots'[x][j] = slots[x][j]
      BY <2>1, <2>2, SlotWrite DEF ChainInv
    <2> QED
      BY <2>1, <2>2, <2>3
  <1>5. \A s \in SlotSet : s # Taken(t) => slots'[s.d][s.i] = slots[s.d][s.i]
    BY <1>2, <1>4 DEF SlotSet, Taken
  <1>6. PlacesFit' /\ headTail' \in [D -> [head : Indexes, tail : Indexes]]
        /\ places' \in Seq([d : D, i : Indexes])
    BY <1>1 DEF ChainInv, ChainTypeOK, PlacesFit, Before, Filled
  <1>7. \A x \in D : Filled(x)' = Filled(x) /\ Filled(x) \in Nat
    BY <1>1, Typed DEF ChainInv, Filled
  <1>8. \A n \in DOMAIN places :
          LET s == SlotOf(places[n]) IN /\ slots'[s.d][s.i] = slots[s.d][s.i] /\ slots[s.d][s.i].typ
                                        /\ ObjectIn(s) # None /\ s # Taken(t)
    BY <1>5, SlotFacts
  <1>9. Items' = Items
    BY <1>1, <1>8 DEF Items, ObjectIn, SlotOf, Index
  <1>10. \A u \in T \ {t} : /\ Taken(u)' = Taken(u) /\ dpc'[u] = dpc[u]
                            /\ slot'[u] = slot[u] /\ at'[u] = at[u] /\ hand'[u] = hand[u]
    BY DEF Taken, OnlyThread
  <1>11. \A u \in T \ {t} : dpc[u] \in Taking => /\ Taken(u) # Taken(t) /\ Taken(u) \in SlotSet
                                                 /\ slots'[at[u].d][slot[u]] = slots[at[u].d][slot[u]]
                                                 /\ ObjectIn(Taken(u))' = ObjectIn(Taken(u))
    <2> SUFFICES ASSUME NEW u \in T \ {t}, dpc[u] \in Taking
                 PROVE  /\ Taken(u) # Taken(t) /\ Taken(u) \in SlotSet
                        /\ slots'[at[u].d][slot[u]] = slots[at[u].d][slot[u]]
                        /\ ObjectIn(Taken(u))' = ObjectIn(Taken(u))
      OBVIOUS
    <2>1. Taken(u) # Taken(t) /\ Taken(u) \in SlotSet
      BY SlotFacts
    <2>2. slots'[at[u].d][slot[u]] = slots[at[u].d][slot[u]]
      BY <1>5, <2>1 DEF Taken
    <2>3. ObjectIn(Taken(u))' = ObjectIn(Taken(u))
      BY <1>10, <2>2 DEF ObjectIn, Taken
    <2> QED
      BY <2>1, <2>2, <2>3
  <1>12. \A u \in T \ {t} : Held(u)' = Held(u)
    BY <1>10, <1>11 DEF Held, Taking
  <1>13. Held(t)' = hand'[t]
    BY DEF Held
  <1>14. \A n \in DOMAIN places' :
           LET s == SlotOf(places'[n]) IN slots'[s.d][s.i].typ /\ slots'[s.d][s.i].val # None
    BY <1>1, <1>8 DEF ObjectIn
  <1>15. dpc'[t] \in Taking => dpc'[t] = "tailClear" /\ Taken(t)' = Taken(t) /\ slot'[t] = slot[t]
         /\ at'[t] = at[t]
    BY DEF Taking, Taken
  <1>16. ASSUME NEW u \in T, dpc'[u] \in Taking
         PROVE  /\ slot'[u] < Size(at'[u].d) /\ slots'[at'[u].d][slot'[u]].typ
                /\ dpc'[u] # "tailClear" => ObjectIn(Taken(u))' # None
                /\ \A n \in DOMAIN places' : SlotOf(places'[n]) # Taken(u)'
                /\ \A w \in T : dpc'[w] \in Taking /\ Taken(w)' = Taken(u)' => w = u
    <2>1. dpc[u] \in Taking /\ Taken(u)' = Taken(u) /\ slot'[u] = slot[u] /\ at'[u] = at[u]
      BY <1>10, <1>15, <1>16
    <2>2. /\ slot[u] < Size(at[u].d) /\ slots[at[u].d][slot[u]].typ
          /\ dpc[u] # "tailClear" => ObjectIn(Taken(u)) # None
          /\ \A n \in DOMAIN places : SlotOf(places[n]) # Taken(u)
          /\ \A w \in T : dpc[w] \in Taking /\ Taken(w) = Taken(u) => w = u
      BY <2>1 DEF ChainInv, SlotsFit
    <2>3. \A w \in T : dpc'[w] \in Taking /\ Taken(w)' = Taken(u)' => w = u
      BY <1>10, <1>15, <2>1, <2>2
    <2>4. /\ slots'[at'[u].d][slot'[u]].typ
          /\ dpc'[u] # "tailClear" => ObjectIn(Taken(u))' # None
      <3>1. CASE u = t
        BY <1>4, <1>15, <1>16, <3>1
      <3>2. CASE u # t
        BY <1>10, <1>11, <2>1, <2>2, <3>2
      <3> QED
        BY <3>1, <3>2
    <2> QED
      BY <1>1, <2>1, <2>2, <2>3, <2>4
  <1>17. ASSUME dpc'[owner] = "pushAdd"
         PROVE  LET s == SlotOf([d |-> chead', i |-> headTail'[chead'].head]) IN
                /\ slots'[s.d][s.i].typ /\ slots'[s.d][s.i].val = hand'[owner]
                /\ \A u \in T : dpc'[u] \in Taking => Taken(u)' # s
    <2> DEFINE s == SlotOf([d |-> chead, i |-> headTail[chead].head])
    <2>1. dpc[owner] = "pushAdd" /\ hand'[owner] = hand[owner]
      BY <1>10, <1>17 DEF T
    <2>2. /\ slots[s.d][s.i].typ /\ ObjectIn(s) = hand[owner] /\ s \in SlotSet
          /\ \A u \in T : dpc[u] \in Taking => Taken(u) # s
      BY <2>1, SlotFacts
    <2>3. slots'[s.d][s.i] = slots[s.d][s.i]
      BY <1>5, <2>2
    <2>4. \A u \in T : dpc'[u] \in Taking => Taken(u)' # s
      BY <1>10, <1>15, <2>2
    <2> QED
      BY <1>1, <2>1, <2>2, <2>3, <2>4 DEF ObjectIn
  <1>18. SlotsFit'
    BY <1>14, <1>16, <1>17 DEF SlotsFit, ObjectIn, SlotOf, Index
  <1> QED
    BY <1>2, <1>3, <1>4, <1>6, <1>7, <1>9, <1>12, <1>13, <1>18

-----------------------------------------------------------------------------
(* The parts of ChainInv, after a step of t.                               *)
LEMMA Assembled ==
  ASSUME ChainInv, NEW t \in T, OnlyThread(t), ChainLocalsOK', SlotsOK',
         headTail' \in [D -> [head : Indexes, tail : Indexes]],
         places' \in Seq([d : D, i : Indexes]),
         chead' \in 0..MaxDequeues, ctail' \in 0..MaxDequeues,
         next' \in [D -> 0..MaxDequeues], prev' \in [D -> 0..MaxDequeues],
         out' \subseteq Obj,
         chead <= chead', t # owner => chead' = chead,
         \A x \in D : Filled(x)' \in Nat,
         \A x \in D : Filled(x)' <= Filled(x) \/ (t = owner /\ x = chead),
         LinksFit', CallFits(t)', PlacesFit', SlotsFit'
  PROVE  ChainInv'
  <1>1. ChainTypeOK'
    BY SizeAssumption DEF ChainTypeOK, ChainLocalsOK, SlotsOK
  <1>2. \A u \in T \ {t} : CallFits(u)'
    <2>1. chead' \in Nat
      BY SizeAssumption
    <2> QED
      BY <2>1, OthersFit
  <1> QED
    BY <1>1, <1>2 DEF ChainInv

-----------------------------------------------------------------------------
(* Steps of the deque.                                                     *)
Step == [Queue!Next]_(Queue!vars)

(* A step of t changes what t has in hand.                                 *)
LEMMA HandsAre ==
  ASSUME NEW t \in T, \A u \in T \ {t} : Held(u)' = Held(u)
  PROVE  Hands' = [Hands EXCEPT ![t] = Held(t)'] /\ Hands[t] = Held(t)
  BY DEF Hands

(* A step that moves no object is no step of the deque; ...                *)
LEMMA StutterStep ==
  ASSUME NEW t \in T, \A u \in T \ {t} : Held(u)' = Held(u), Held(t)' = Held(t),
         Items' = Items, out' = out
  PROVE  Step
  <1>1. Hands' = Hands
    BY DEF Hands
  <1> QED
    BY <1>1 DEF Step, Queue!vars

(* ... pushHead is called with an object, ...                              *)
LEMMA GiveStep ==
  ASSUME \A u \in T \ {owner} : Held(u)' = Held(u), NEW v \in Obj, v \in out, out' = out \ {v},
         Held(owner) = None, Held(owner)' = v, Items' = Items
  PROVE  Step
  <1>1. Hands' = [Hands EXCEPT ![owner] = v] /\ Hands[owner] = None
    BY HandsAre DEF T
  <1> QED
    BY <1>1 DEF Step, Queue!Next, Queue!Give

(* ... and a pop returns one.                                              *)
LEMMA ReturnStep ==
  ASSUME NEW t \in T, \A u \in T \ {t} : Held(u)' = Held(u), Held(t) # None, Held(t)' = None,
         out' = out \cup {Held(t)}, Items' = Items
  PROVE  Step
  <1>1. Hands' = [Hands EXCEPT ![t] = None] /\ Hands[t] = Held(t)
    BY HandsAre
  <1> QED
    BY <1>1 DEF Step, Queue!Next, Queue!Return

(* A step that moves no object is one of them, or no step.                 *)
LEMMA QuietStep ==
  ASSUME ChainInv, NEW t \in T,
         NEW pc \in {"idle"} \cup Pushing \cup Popping \cup PoppingTail,
         NEW a \in [d : 0..MaxDequeues, d2 : 0..MaxDequeues],
         NEW q \in [head : Indexes, tail : Indexes], NEW i \in Nat, NEW v \in Obj \cup {None},
         Locals(t, pc, a, q, i, v), KeepItems, dpc[t] \notin Taking, pc \notin Taking \cup {"pushAdd"},
         chead' \in 0..MaxDequeues, ctail' \in 0..MaxDequeues,
         next' \in [D -> 0..MaxDequeues], prev' \in [D -> 0..MaxDequeues],
         out' \subseteq Obj,
         chead <= chead', t # owner => chead' = chead,
         LinksFit', CallFits(t)'
  PROVE  /\ ChainInv'
         /\ v = hand[t] /\ out' = out => Step
         /\ Items' = Items /\ Held(t) = hand[t] /\ Held(t)' = v
         /\ \A u \in T \ {t} : Held(u)' = Held(u)
  <1>1. OnlyThread(t) /\ ChainLocalsOK' /\ dpc'[t] = pc /\ hand'[t] = v
    BY LocalsMove DEF ChainInv
  <1>2. /\ SlotsOK' /\ headTail' \in [D -> [head : Indexes, tail : Indexes]]
        /\ places' \in Seq([d : D, i : Indexes])
        /\ PlacesFit' /\ SlotsFit'
        /\ \A x \in D : Filled(x)' = Filled(x) /\ Filled(x) \in Nat
        /\ Items' = Items /\ \A u \in T \ {t} : Held(u)' = Held(u)
        /\ Held(t)' = hand'[t] /\ Held(t) = hand[t]
    BY <1>1, QuietFits
  <1>3. ChainInv'
    <2>1. \A x \in D : Filled(x)' \in Nat /\ Filled(x)' <= Filled(x)
      BY <1>2
    <2> QED
      BY <1>1, <1>2, <2>1, Assembled
  <1>4. v = hand[t] /\ out' = out => Step
    BY <1>1, <1>2, StutterStep
  <1> QED
    BY <1>1, <1>2, <1>3, <1>4

(* The same, when the chain does not change either.                        *)
LEMMA LocalQuietStep ==
  ASSUME ChainInv, NEW t \in T,
         NEW pc \in {"idle"} \cup Pushing \cup Popping \cup PoppingTail,
         NEW a \in [d : 0..MaxDequeues, d2 : 0..MaxDequeues],
         NEW q \in [head : Indexes, tail : Indexes], NEW i \in Nat,
         Locals(t, pc, a, q, i, hand[t]), KeepItems, KeepChain, out' = out,
         dpc[t] \notin Taking, pc \notin Taking \cup {"pushAdd"},
         CallFits(t)'
  PROVE  ChainInv' /\ Step
  <1>1. PICK v \in Obj \cup {None} : v = hand[t]
    BY Domains DEF ChainInv
  <1>2. /\ chead' \in 0..MaxDequeues /\ ctail' \in 0..MaxDequeues
        /\ next' \in [D -> 0..MaxDequeues] /\ prev' \in [D -> 0..MaxDequeues]
        /\ out' \subseteq Obj /\ chead <= chead' /\ chead' = chead
    BY SizeAssumption DEF ChainInv, ChainTypeOK, KeepChain
  <1>3. \A x \in D : Filled(x)' \in Nat /\ Filled(x)' <= Filled(x)
    BY Typed DEF ChainInv, KeepItems, Filled, Indexes
  <1>4. LinksFit'
    BY <1>3, LinksKept
  <1>5. Locals(t, pc, a, q, i, v)
    BY <1>1
  <1> QED
    BY <1>1, <1>2, <1>4, <1>5, QuietStep

(* What CallFits says, with types.                                         *)
LEMMA CallFacts ==
  ASSUME ChainInv, NEW t \in T
  PROVE  /\ ChainTypeOK /\ LinksFit /\ CallFits(t)
         /\ at[t].d \in 0..MaxDequeues /\ at[t].d2 \in 0..MaxDequeues
         /\ at[t] \in [d : 0..MaxDequeues, d2 : 0..MaxDequeues]
         /\ ptrs[t] \in [head : Indexes, tail : Indexes] /\ slot[t] \in Nat /\ hand[t] \in Obj \cup {None}
         /\ chead \in Nat /\ ctail \in Nat /\ MaxDequeues \in Nat \ {0} /\ chead <= MaxDequeues
         /\ NoPtrs \in [head : Indexes, tail : Indexes]
         /\ \A x \in D : Filled(x) \in Nat
         /\ dpc[t] # "idle" => at[t].d \in D
  <1>1. ChainTypeOK /\ LinksFit /\ CallFits(t)
    BY DEF ChainInv
  <1>2. /\ at[t].d \in 0..MaxDequeues /\ at[t].d2 \in 0..MaxDequeues
        /\ at[t] \in [d : 0..MaxDequeues, d2 : 0..MaxDequeues]
        /\ ptrs[t] \in [head : Indexes, tail : Indexes] /\ slot[t] \in Nat /\ hand[t] \in Obj \cup {None}
        /\ NoPtrs \in [head : Indexes, tail : Indexes]
    BY <1>1, Domains, NoPtrsTyped
  <1>3. /\ chead \in Nat /\ ctail \in Nat /\ MaxDequeues \in Nat \ {0} /\ chead <= MaxDequeues
        /\ \A x \in D : Filled(x) \in Nat
    BY <1>1, Typed, SizeAssumption
  <1>4. dpc[t] # "idle" => at[t].d \in 1..chead
    BY <1>1 DEF CallFits
  <1>5. dpc[t] # "idle" => at[t].d \in D
    BY <1>3, <1>4 DEF D
  <1> QED
    BY <1>1, <1>2, <1>3, <1>5

-----------------------------------------------------------------------------
(* The steps of popTail.                                                   *)
(* popTail starts at c.tail, which is not past any object.                 *)
LEMMA PopTailFits ==
  ASSUME ChainInv, NEW t \in T, PopTail(t)
  PROVE  ChainInv' /\ Step
  <1>1. ChainTypeOK /\ LinksFit /\ CallFits(t) /\ dpc[t] = "idle" /\ hand[t] = None
        /\ ptrs[t] \in [head : Indexes, tail : Indexes]
        /\ slot[t] \in Nat
    BY Domains DEF ChainInv, PopTail, DGoto, CallFits, Pushing
  <1>2. PICK a \in [d : 0..MaxDequeues, d2 : 0..MaxDequeues] : a = [d |-> ctail, d2 |-> 0]
    BY <1>1, NoPtrsTyped, Typed
  <1>3. Locals(t, "tail", a, ptrs[t], slot[t], hand[t])
    BY <1>1, <1>2, Domains DEF PopTail, DGoto, Visit, Locals
  <1>4. /\ KeepItems /\ KeepChain /\ out' = out
        /\ dpc[t] \notin Taking /\ "tail" \notin Taking \cup {"pushAdd"}
        /\ "tail" \in {"idle"} \cup Pushing \cup Popping \cup PoppingTail
    BY <1>1 DEF PopTail, Taking, PoppingTail
  <1>5. dpc'[t] = "tail" /\ at'[t] = a /\ hand'[t] = None
    BY <1>1, <1>3, Domains DEF Locals, ChainTypeOK
  <1>6. CallFits(t)'
    <2>1. ctail \in 1..chead /\ (\A x \in D : x < ctail => Filled(x)' = 0) /\ chead' = chead
      BY <1>1, <1>4, Typed DEF LinksFit, PopTail, KeepItems, KeepChain, Filled
    <2> QED
      BY <1>2, <1>5, <2>1 DEF CallFits, Pushing, Popping, PoppingTail
  <1> QED
    BY <1>1, <1>3, <1>4, <1>6, LocalQuietStep

(* d2 is read before the attempt on d.                                     *)
LEMMA TailNextFits ==
  ASSUME ChainInv, NEW t \in T, TailNext(t)
  PROVE  ChainInv' /\ Step
  <1>1. dpc[t] = "tail" /\ at[t].d \in D /\ CallFits(t) /\ LinksFit /\ ChainTypeOK
    BY CallFacts DEF TailNext, DGoto
  <1>2. PICK d \in D : d = at[t].d
    BY <1>1
  <1>3. next[d] = (IF d < chead THEN d + 1 ELSE 0) /\ next[d] \in 0..MaxDequeues /\ d \in 1..chead
        /\ d \in 0..MaxDequeues
    BY <1>1, <1>2, CallFacts DEF LinksFit, ChainTypeOK, CallFits, D
  <1>4. PICK a \in [d : 0..MaxDequeues, d2 : 0..MaxDequeues] : a = [d |-> d, d2 |-> next[d]]
    BY <1>3
  <1>5. Locals(t, "tailLoad", a, ptrs[t], slot[t], hand[t])
    BY <1>1, <1>2, <1>4, Domains DEF TailNext, DGoto, Visit, Locals
  <1>6. /\ KeepItems /\ KeepChain /\ out' = out
        /\ dpc[t] \notin Taking /\ "tailLoad" \notin Taking \cup {"pushAdd"}
        /\ "tailLoad" \in {"idle"} \cup Pushing \cup Popping \cup PoppingTail
    BY <1>1 DEF TailNext, Taking, PoppingTail
  <1>7. dpc'[t] = "tailLoad" /\ at'[t] = a /\ hand'[t] = hand[t]
    BY <1>1, <1>5, Domains DEF Locals, ChainTypeOK
  <1>8. CallFits(t)'
    <2>1. (\A x \in D : x < d => Filled(x)' = 0) /\ chead' = chead /\ hand[t] = None
      BY <1>1, <1>2, <1>6 DEF CallFits, KeepItems, KeepChain, Filled, PoppingTail, Pushing
    <2>2. a.d2 \in {0, d + 1} /\ a.d2 <= chead /\ a.d = d
      BY <1>3, <1>4, CallFacts
    <2> QED
      BY <1>3, <1>7, <2>1, <2>2 DEF CallFits, Pushing, Popping, PoppingTail
  <1> QED
    BY <1>5, <1>6, <1>8, CallFacts, LocalQuietStep

(* An empty dequeue that had a next one is drained for good.               *)
LEMMA TailLoadFits ==
  ASSUME ChainInv, NEW t \in T, TailLoad(t)
  PROVE  ChainInv' /\ Step
  <1>1. dpc[t] = "tailLoad" /\ at[t].d \in D /\ CallFits(t) /\ LinksFit /\ ChainTypeOK
    BY CallFacts DEF TailLoad
  <1>2. PICK d \in D : d = at[t].d
    BY <1>1
  <1>3. /\ d \in 1..chead /\ (\A x \in D : x < d => Filled(x) = 0) /\ hand[t] = None
        /\ at[t].d2 \in {0, d + 1} /\ at[t].d2 <= chead
    BY <1>1, <1>2 DEF CallFits, PoppingTail, Pushing
  <1>4. /\ KeepItems /\ KeepChain
        /\ chead' = chead /\ \A x \in D : Filled(x)' = Filled(x)
        /\ dpc[t] \notin Taking /\ {"idle", "tailDrop", "tailCas"} \cap (Taking \cup {"pushAdd"}) = {}
        /\ {"idle", "tailDrop", "tailCas"} \subseteq {"idle"} \cup Pushing \cup Popping \cup PoppingTail
    BY <1>1 DEF TailLoad, Taking, PoppingTail, KeepItems, KeepChain, Filled
  <1>5. PICK q \in [head : Indexes, tail : Indexes] : q = headTail[d]
    BY <1>1 DEF ChainTypeOK
  <1>6. Filled(d) = 0 <=> IsEmpty(q)
    <2>1. Filled(d) = 0 <=> headTail[d].head = headTail[d].tail
      BY <1>1, Distances
    <2> QED
      BY <1>5, <2>1 DEF IsEmpty
  <1>7. CASE IsEmpty(q) /\ at[t].d2 = 0
    <2>1. PICK a \in [d : 0..MaxDequeues, d2 : 0..MaxDequeues] : a = [d |-> 0, d2 |-> 0]
      BY NoPtrsTyped
    <2>2. Locals(t, "idle", a, NoPtrs, 0, hand[t]) /\ out' = out
      BY <1>1, <1>2, <1>3, <1>5, <1>7, <2>1, Domains DEF TailLoad, DReturn, Locals
    <2>3. dpc'[t] = "idle" /\ at'[t] = a /\ hand'[t] = None
      BY <1>1, <1>3, <2>2, Domains DEF Locals, ChainTypeOK
    <2>4. CallFits(t)'
      BY <2>1, <2>3 DEF CallFits, Pushing, Popping, PoppingTail
    <2> QED
      BY <1>4, <2>2, <2>4, CallFacts, LocalQuietStep
  <1>8. CASE ~(IsEmpty(q) /\ at[t].d2 = 0)
    <2> DEFINE pc == IF IsEmpty(q) THEN "tailDrop" ELSE "tailCas"
    <2>1. PICK q1 \in [head : Indexes, tail : Indexes] : q1 = IF IsEmpty(q) THEN NoPtrs ELSE q
      BY CallFacts
    <2>2. Locals(t, pc, at[t], q1, slot[t], hand[t]) /\ out' = out
      BY <1>1, <1>2, <1>5, <1>8, <2>1, Domains DEF TailLoad, DGoto, Loaded, Locals
    <2>3. dpc'[t] = pc /\ at'[t] = at[t] /\ hand'[t] = None /\ ptrs'[t] = q1
      BY <1>1, <1>3, <2>2, Domains DEF Locals, ChainTypeOK
    <2>4. CallFits(t)'
      BY <1>2, <1>3, <1>4, <1>6, <1>8, <2>1, <2>3, CallFacts DEF CallFits, Pushing, Popping, PoppingTail
    <2> QED
      BY <1>4, <2>2, <2>4, CallFacts, LocalQuietStep
  <1> QED
    BY <1>7, <1>8

(* Only drained dequeues are taken off the chain.                          *)
LEMMA TailDropFits ==
  ASSUME ChainInv, NEW t \in T, TailDrop(t)
  PROVE  ChainInv' /\ Step
  <1>1. dpc[t] = "tailDrop" /\ at[t].d \in D /\ CallFits(t) /\ LinksFit /\ ChainTypeOK
    BY CallFacts DEF TailDrop, DGoto
  <1>2. PICK d \in D : d = at[t].d
    BY <1>1
  <1>3. /\ d \in 1..chead /\ (\A x \in D : x < d => Filled(x) = 0) /\ hand[t] = None
        /\ at[t].d2 = d + 1 /\ d + 1 <= chead /\ Filled(d) = 0
    BY <1>1, <1>2 DEF CallFits, PoppingTail, Pushing
  <1>4. PICK a \in [d : 0..MaxDequeues, d2 : 0..MaxDequeues] : a = [d |-> d + 1, d2 |-> 0]
    <2>1. d + 1 \in 0..MaxDequeues /\ 0 \in 0..MaxDequeues
      BY <1>3, CallFacts
    <2> QED
      BY <2>1
  <1>5. PICK pc \in {"tailUnlink", "tail"} : pc = IF ctail = d THEN "tailUnlink" ELSE "tail"
    OBVIOUS
  <1>6. Locals(t, pc, a, ptrs[t], slot[t], hand[t])
    BY <1>1, <1>2, <1>3, <1>4, <1>5, Domains DEF TailDrop, DGoto, Visit, Locals
  <1>7. /\ KeepItems /\ UNCHANGED <<chead, next, prev, out>>
        /\ ctail' = IF ctail = d THEN d + 1 ELSE ctail
        /\ (\A x \in D : Filled(x)' = Filled(x))
        /\ dpc[t] \notin Taking /\ pc \notin Taking \cup {"pushAdd"}
        /\ pc \in {"idle"} \cup Pushing \cup Popping \cup PoppingTail
    BY <1>1, <1>2, <1>3 DEF TailDrop, Taking, PoppingTail, KeepItems, Filled
  <1>8. dpc'[t] = pc /\ at'[t] = a /\ hand'[t] = None
    BY <1>1, <1>3, <1>6, Domains DEF Locals, ChainTypeOK
  <1>9. CallFits(t)'
    <2>1. a.d = d + 1 /\ chead' = chead /\ \A x \in D : x < d + 1 => Filled(x)' = 0
      BY <1>3, <1>4, <1>7 DEF D
    <2>2. a.d \in 1..chead'
      BY <1>3, <2>1, CallFacts
    <2> QED
      BY <1>8, <2>1, <2>2 DEF CallFits, Pushing, Popping, PoppingTail
  <1>10. LinksFit'
    <2>1. /\ ctail <= chead /\ (ctail = 0 => chead = 0)
          /\ \A x \in D : /\ next[x] = IF x < chead THEN x + 1 ELSE 0
                          /\ prev[x] \in {0, x - 1}
                          /\ Filled(x) <= Size(x)
                          /\ x < ctail \/ x > chead => Filled(x) = 0
      BY <1>1 DEF LinksFit
    <2>2. \A x \in D : x < ctail' => Filled(x) = 0
      BY <1>3, <1>7, <2>1 DEF D
    <2>3. ctail' <= chead /\ (ctail' = 0 => chead = 0)
      BY <1>3, <1>7, <2>1, CallFacts
    <2> QED
      BY <1>7, <2>1, <2>2, <2>3 DEF LinksFit
  <1>11. /\ chead' \in 0..MaxDequeues /\ ctail' \in 0..MaxDequeues
         /\ next' \in [D -> 0..MaxDequeues] /\ prev' \in [D -> 0..MaxDequeues]
         /\ out' \subseteq Obj /\ chead <= chead' /\ chead' = chead /\ out' = out
    BY <1>1, <1>3, <1>7, CallFacts DEF ChainTypeOK
  <1>12. PICK v \in Obj \cup {None} : v = hand[t]
    BY CallFacts
  <1>13. Locals(t, pc, a, ptrs[t], slot[t], v)
    BY <1>6, <1>12
  <1> QED
    BY <1>7, <1>9, <1>10, <1>11, <1>12, <1>13, CallFacts, QuietStep

(* prev may be cut off: popHead has nothing to look for there.             *)
LEMMA TailUnlinkFits ==
  ASSUME ChainInv, NEW t \in T, TailUnlink(t)
  PROVE  ChainInv' /\ Step
  <1>1. dpc[t] = "tailUnlink" /\ at[t].d \in D /\ CallFits(t) /\ LinksFit /\ ChainTypeOK
    BY CallFacts DEF TailUnlink, DGoto
  <1>2. PICK d \in D : d = at[t].d
    BY <1>1
  <1>3. /\ d \in 1..chead /\ (\A x \in D : x < d => Filled(x) = 0) /\ hand[t] = None
    BY <1>1, <1>2 DEF CallFits, PoppingTail, Pushing
  <1>4. Locals(t, "tail", at[t], ptrs[t], slot[t], hand[t])
    BY <1>1, Domains DEF TailUnlink, DGoto, KeepLocals, Locals
  <1>5. /\ KeepItems /\ UNCHANGED <<chead, ctail, next, out>>
        /\ prev' = [prev EXCEPT ![d] = 0]
        /\ (\A x \in D : Filled(x)' = Filled(x))
        /\ dpc[t] \notin Taking /\ "tail" \notin Taking \cup {"pushAdd"}
        /\ "tail" \in {"idle"} \cup Pushing \cup Popping \cup PoppingTail
    BY <1>1, <1>2 DEF TailUnlink, Taking, PoppingTail, KeepItems, KeepLocals, Filled
  <1>6. dpc'[t] = "tail" /\ at'[t] = at[t] /\ hand'[t] = None
    BY <1>1, <1>3, <1>4, Domains DEF Locals, ChainTypeOK
  <1>7. CallFits(t)'
    BY <1>2, <1>3, <1>5, <1>6 DEF CallFits, Pushing, Popping, PoppingTail
  <1>8. prev' \in [D -> 0..MaxDequeues] /\ \A x \in D : prev'[x] \in {0, prev[x]}
    BY <1>1, <1>5, NoPtrsTyped DEF ChainTypeOK
  <1>9. LinksFit'
    BY <1>1, <1>5, <1>8 DEF LinksFit
  <1>10. /\ chead' \in 0..MaxDequeues /\ ctail' \in 0..MaxDequeues /\ next' \in [D -> 0..MaxDequeues]
         /\ out' \subseteq Obj /\ chead <= chead' /\ chead' = chead /\ out' = out
    BY <1>1, <1>5, CallFacts DEF ChainTypeOK
  <1>11. PICK v \in Obj \cup {None} : v = hand[t]
    BY CallFacts
  <1>12. Locals(t, "tail", at[t], ptrs[t], slot[t], v)
    BY <1>4, <1>11
  <1> QED
    BY <1>5, <1>7, <1>8, <1>9, <1>10, <1>11, <1>12, CallFacts, QuietStep

(* The sequence of the objects.                                            *)
LEMMA ItemsAre ==
  ASSUME ChainInv
  PROVE  /\ Items \in Seq(Obj \cup {None}) /\ Len(Items) = Len(places) /\ Len(places) \in Nat
         /\ DOMAIN Items = 1..Len(places) /\ DOMAIN places = 1..Len(places)
         /\ \A n \in DOMAIN places : Items[n] = ObjectIn(SlotOf(places[n])) /\ Items[n] \in Obj
  <1>1. Len(places) \in Nat /\ DOMAIN places = 1..Len(places)
    BY Typed DEF ChainInv
  <1>2. \A n \in DOMAIN places : ObjectIn(SlotOf(places[n])) \in Obj
    <2>1. \A n \in DOMAIN places : SlotOf(places[n]) \in SlotSet /\ ObjectIn(SlotOf(places[n])) # None
      BY SlotFacts
    <2>2. \A s \in SlotSet : slots[s.d][s.i] \in [typ : BOOLEAN, val : Obj \cup {None}]
      BY SlotsAre DEF ChainInv
    <2> QED
      BY <2>1, <2>2 DEF ObjectIn
  <1>3. Items \in [1..Len(places) -> Obj \cup {None}]
    BY <1>1, <1>2 DEF Items
  <1>4. Items \in Seq(Obj \cup {None}) /\ Len(Items) = Len(places)
    BY <1>1, <1>3
  <1> QED
    BY <1>1, <1>2, <1>4 DEF Items

SameObjects ==
  \A n \in DOMAIN places : slots'[SlotOf(places[n]).d][SlotOf(places[n]).i].val = ObjectIn(SlotOf(places[n]))

(* A sequence is a function on 1..Len(s).                                  *)
LEMMA SequencesAreFunctions ==
  ASSUME NEW S, NEW s \in Seq(S)
  PROVE  s \in [1..Len(s) -> S] /\ DOMAIN s = 1..Len(s) /\ Len(s) \in Nat
  OBVIOUS

(* The oldest object is gone, ...                                          *)
LEMMA ItemsTail ==
  ASSUME ChainInv, SameObjects, Len(places) > 0, DOMAIN places' = 1..(Len(places) - 1),
         \A n \in DOMAIN places' : places'[n] = places[n + 1]
  PROVE  Items' = Tail(Items) /\ Items # <<>> /\ Head(Items) = ObjectIn(SlotOf(places[1]))
  <1>1. /\ Items \in Seq(Obj \cup {None}) /\ Len(Items) = Len(places) /\ Len(places) \in Nat
        /\ DOMAIN places = 1..Len(places)
        /\ \A n \in DOMAIN places : Items[n] = ObjectIn(SlotOf(places[n]))
    BY ItemsAre
  <1>2. Items # <<>> /\ Head(Items) = Items[1]
    BY <1>1
  <1>3. Tail(Items) \in Seq(Obj \cup {None}) /\ Len(Tail(Items)) = Len(places) - 1
        /\ \A n \in 1..(Len(places) - 1) : Tail(Items)[n] = Items[n + 1]
    BY <1>1, <1>2
  <1>4. \A n \in 1..(Len(places) - 1) : n + 1 \in DOMAIN places
    BY <1>1
  <1>5. Items' = [n \in 1..(Len(places) - 1) |-> Items[n + 1]]
    BY <1>1, <1>4 DEF Items, SameObjects, ObjectIn, SlotOf, Index
  <1>6. Tail(Items) = [n \in 1..(Len(places) - 1) |-> Items[n + 1]]
    <2>1. Tail(Items) \in [1..(Len(places) - 1) -> Obj \cup {None}]
      BY <1>3, SequencesAreFunctions
    <2> QED
      BY <1>3, <2>1
  <1> QED
    BY <1>1, <1>2, <1>5, <1>6

(* ... or the youngest, ...                                                *)
LEMMA ItemsFront ==
  ASSUME ChainInv, SameObjects, Len(places) > 0, DOMAIN places' = 1..(Len(places) - 1),
         \A n \in DOMAIN places' : places'[n] = places[n]
  PROVE  /\ Items' = SubSeq(Items, 1, Len(Items) - 1) /\ Items # <<>>
         /\ Items[Len(Items)] = ObjectIn(SlotOf(places[Len(places)]))
  <1>1. /\ Items \in Seq(Obj \cup {None}) /\ Len(Items) = Len(places) /\ Len(places) \in Nat
        /\ DOMAIN places = 1..Len(places)
        /\ \A n \in DOMAIN places : Items[n] = ObjectIn(SlotOf(places[n]))
    BY ItemsAre
  <1>2. Items # <<>> /\ Items[Len(Items)] = ObjectIn(SlotOf(places[Len(places)]))
    BY <1>1
  <1>3. Items' = [n \in 1..(Len(places) - 1) |-> Items[n]]
    BY <1>1 DEF Items, SameObjects, ObjectIn, SlotOf, Index
  <1>4. SubSeq(Items, 1, Len(Items) - 1) = [n \in 1..(Len(places) - 1) |-> Items[n]]
    BY <1>1
  <1> QED
    BY <1>2, <1>3, <1>4

(* ... or there is a new one.                                              *)
LEMMA ItemsAppend ==
  ASSUME ChainInv, SameObjects, DOMAIN places' = 1..(Len(places) + 1), NEW v \in Obj,
         \A n \in DOMAIN places : places'[n] = places[n],
         LET s == SlotOf(places'[Len(places) + 1]) IN slots'[s.d][s.i].val = v
  PROVE  Items' = Append(Items, v)
  <1>1. /\ Items \in Seq(Obj \cup {None}) /\ Len(Items) = Len(places) /\ Len(places) \in Nat
        /\ DOMAIN places = 1..Len(places)
        /\ \A n \in DOMAIN places : Items[n] = ObjectIn(SlotOf(places[n]))
    BY ItemsAre
  <1>2. Items' = [n \in 1..(Len(places) + 1) |-> IF n = Len(places) + 1 THEN v ELSE Items[n]]
    BY <1>1 DEF Items, SameObjects, ObjectIn, SlotOf, Index
  <1>3. Append(Items, v) = [n \in 1..(Len(places) + 1) |-> IF n = Len(places) + 1 THEN v ELSE Items[n]]
    <2>1. /\ Append(Items, v) \in Seq(Obj \cup {None}) /\ Len(Append(Items, v)) = Len(places) + 1
          /\ \A n \in 1..Len(places) : Append(Items, v)[n] = Items[n]
          /\ Append(Items, v)[Len(places) + 1] = v
      BY <1>1
    <2>2. Append(Items, v) \in [1..(Len(places) + 1) -> Obj \cup {None}]
      BY <2>1, SequencesAreFunctions
    <2>3. \A n \in 1..(Len(places) + 1) : n \in 1..Len(places) \/ n = Len(places) + 1
      BY <1>1
    <2>4. \A n \in 1..(Len(places) + 1) : Append(Items, v)[n] = IF n = Len(places) + 1 THEN v ELSE Items[n]
      BY <2>1, <2>3
    <2> QED
      BY <2>2, <2>4
  <1> QED
    BY <1>2, <1>3

(* One CAS takes the oldest object, ...                                    *)
LEMMA TailCasFits ==
  ASSUME ChainInv, NEW t \in T, TailCas(t)
  PROVE  ChainInv' /\ Step
  <1>1. dpc[t] = "tailCas" /\ at[t].d \in D /\ CallFits(t) /\ LinksFit /\ ChainTypeOK /\ PlacesFit
    BY CallFacts DEF TailCas, CompareAndSwapUint64, DGoto, ChainInv
  <1>2. PICK d \in D : d = at[t].d
    BY <1>1
  <1>3. /\ d \in 1..chead /\ (\A x \in D : x < d => Filled(x) = 0) /\ hand[t] = None
        /\ at[t].d2 \in {0, d + 1} /\ at[t].d2 <= chead /\ ~IsEmpty(ptrs[t])
    BY <1>1, <1>2 DEF CallFits, PoppingTail, Pushing
  <1>4. /\ KeepChain /\ UNCHANGED <<slots, at, hand, out>>
        /\ ptrs' = [ptrs EXCEPT ![t] = NoPtrs]
        /\ dpc[t] \notin Taking
        /\ {"tailLoad", "tailRead"} \subseteq {"idle"} \cup Pushing \cup Popping \cup PoppingTail
    BY <1>1 DEF TailCas, CompareAndSwapUint64, Taking, PoppingTail
  <1>5. CASE headTail[d] # ptrs[t]
    <2>1. /\ Locals(t, "tailLoad", at[t], NoPtrs, 0, hand[t])
          /\ KeepItems
      BY <1>1, <1>2, <1>4, <1>5, Domains DEF TailCas, CompareAndSwapUint64, DGoto, Locals, KeepItems
    <2>2. dpc'[t] = "tailLoad" /\ at'[t] = at[t] /\ hand'[t] = None /\ chead' = chead
          /\ \A x \in D : Filled(x)' = Filled(x)
      BY <1>1, <1>3, <1>4, <2>1, Domains DEF Locals, ChainTypeOK, KeepItems, KeepChain, Filled
    <2>3. CallFits(t)'
      BY <1>2, <1>3, <2>2 DEF CallFits, Pushing, Popping, PoppingTail
    <2>4. "tailLoad" \notin Taking \cup {"pushAdd"}
      BY DEF Taking
    <2> QED
      BY <1>4, <2>1, <2>3, <2>4, CallFacts, LocalQuietStep
  <1>6. CASE headTail[d] = ptrs[t]
    <2> DEFINE h == headTail[d].tail
    <2>1. h \in Indexes /\ Index(d, h) \in Nat
      BY <1>1, Typed, SizeIs
    <2>2. /\ Locals(t, "tailRead", at[t], NoPtrs, Index(d, h), hand[t])
          /\ headTail' = [headTail EXCEPT ![d] = [headTail[d] EXCEPT !.tail = (headTail[d].tail + 1) % Mod]]
          /\ places' = Tail(places)
      BY <1>1, <1>2, <1>4, <1>6, Domains DEF TailCas, CompareAndSwapUint64, DGoto, Locals
    <2>3. Filled(d) > 0
      <3>1. Filled(d) \in Nat /\ (Filled(d) = 0 <=> headTail[d].head = headTail[d].tail)
        BY <1>1, Distances, CallFacts
      <3> QED
        BY <1>3, <1>6, <3>1 DEF IsEmpty
    <2>4. /\ PlacesFit'
          /\ places' \in Seq(Place) /\ DOMAIN places' = 1..(Len(places) - 1)
          /\ (\A n \in DOMAIN places' : places'[n] = places[n + 1])
          /\ headTail' \in [D -> [head : Indexes, tail : Indexes]]
          /\ \A x \in D : Filled(x)' = IF x = d THEN Filled(x) - 1 ELSE Filled(x)
      BY <1>1, <1>3, <2>2, <2>3, TailPlaces
    <2>5. Len(places) > 0 /\ places[1] = [d |-> d, i |-> h] /\ Len(places) \in Nat
          /\ DOMAIN places = 1..Len(places)
      BY <1>1, <1>3, <2>3, FirstPlace, Typed
    <2>6. \A x \in D : Filled(x)' \in Nat /\ Filled(x)' <= Filled(x)
      BY <2>3, <2>4, CallFacts
    <2>7. OnlyThread(t) /\ ChainLocalsOK' /\ dpc'[t] = "tailRead" /\ at'[t] = at[t]
          /\ slot'[t] = Index(d, h) /\ hand'[t] = hand[t]
      BY <1>1, <1>4, <2>1, <2>2, LocalsMove, CallFacts
    <2>8. LinksFit'
      BY <1>4, <2>6, LinksKept
    <2>9. chead' = chead
      BY <1>4 DEF KeepChain
    <2>10. CallFits(t)'
      BY <1>2, <1>3, <2>4, <2>7, <2>9 DEF CallFits, Pushing, Popping, PoppingTail, D
    <2>11. 1 \in DOMAIN places
           /\ (\A n \in DOMAIN places' : \E k \in DOMAIN places \ {1} : places'[n] = places[k])
      BY <2>4, <2>5
    <2>12. headTail'[chead].head = headTail[chead].head
      <3>1. chead \in D
        BY <1>3, CallFacts DEF D
      <3>2. headTail \in [D -> [head : Indexes, tail : Indexes]]
        BY <1>1 DEF ChainTypeOK
      <3> QED
        BY <2>2, <3>1, <3>2
    <2>13. at'[t].d = places[1].d /\ slot'[t] = Index(places[1].d, places[1].i)
      BY <1>2, <2>5, <2>7
    <2>14. /\ SlotsOK' /\ SlotsFit'
           /\ Held(t)' = ObjectIn(SlotOf(places[1])) /\ Held(t) = hand[t]
           /\ \A u \in T \ {t} : Held(u)' = Held(u)
           /\ SameObjects
      <3>1. slots' = slots /\ dpc'[t] \in {"popTake", "tailRead"}
        BY <1>4, <2>7
      <3> QED
        BY <1>4, <2>7, <2>9, <2>11, <2>12, <2>13, <3>1, TakeFits DEF SameObjects
    <2>15. ChainInv'
      <3>1. /\ chead' \in 0..MaxDequeues /\ ctail' \in 0..MaxDequeues /\ next' \in [D -> 0..MaxDequeues]
            /\ prev' \in [D -> 0..MaxDequeues] /\ out' \subseteq Obj /\ chead <= chead'
        BY <1>1, <1>4, CallFacts DEF ChainTypeOK, KeepChain
      <3>2. places' \in Seq([d : D, i : Indexes])
        BY <2>4 DEF Place
      <3> QED
        BY <2>4, <2>6, <2>7, <2>8, <2>9, <2>10, <2>14, <3>1, <3>2, Assembled
    <2>16. Step
      <3>1. Items' = Tail(Items) /\ Items # <<>> /\ Head(Items) = ObjectIn(SlotOf(places[1]))
        BY <2>4, <2>5, <2>14, ItemsTail
      <3>2. Hands' = [Hands EXCEPT ![t] = Head(Items)] /\ Hands[t] = None
        BY <1>3, <2>14, <3>1, HandsAre
      <3> QED
        BY <1>4, <3>1, <3>2 DEF Step, Queue!Next, Queue!PopTail
    <2> QED
      BY <2>15, <2>16
  <1> QED
    BY <1>5, <1>6

(* ... whose slot is read, ...                                             *)
LEMMA TailReadFits ==
  ASSUME ChainInv, NEW t \in T, TailRead(t)
  PROVE  ChainInv' /\ Step
  <1>1. dpc[t] = "tailRead" /\ at[t].d \in D /\ CallFits(t) /\ ChainTypeOK /\ dpc[t] \in Taking
    BY CallFacts DEF TailRead, DGoto, Taking
  <1>2. PICK d \in D : d = at[t].d
    BY <1>1
  <1>3. PICK i \in 0..(Size(d) - 1) : i = slot[t]
    BY <1>1, <1>2, SlotFacts
  <1>4. /\ d \in 1..chead /\ (\A x \in D : x < d => Filled(x) = 0) /\ hand[t] = None
    BY <1>1, <1>2 DEF CallFits, PoppingTail, Pushing
  <1>5. PICK c \in [typ : BOOLEAN, val : Obj \cup {None}] : c = slots[d][i] /\ c.typ /\ c.val # None
                          /\ Held(t) = c.val
    <2>1. slots[d][i] \in [typ : BOOLEAN, val : Obj \cup {None}]
      BY <1>1 DEF ChainTypeOK
    <2>2. slots[d][i].typ /\ slots[d][i].val # None /\ ObjectIn(Taken(t)) = slots[d][i].val
      BY <1>1, <1>2, <1>3, SlotFacts DEF Taken, ObjectIn
    <2> QED
      BY <1>1, <2>1, <2>2 DEF Held
  <1>6. PICK e \in [typ : BOOLEAN, val : Obj \cup {None}] : e = [c EXCEPT !.val = None] /\ e.typ
    <2>1. [c EXCEPT !.val = None] \in [typ : BOOLEAN, val : Obj \cup {None}] /\ [c EXCEPT !.val = None].typ
      BY <1>5
    <2> QED
      BY <2>1
  <1>7. /\ Locals(t, "tailClear", at[t], ptrs[t], slot[t], c.val)
        /\ WritesSlot(at[t].d, slot[t], e)
        /\ KeepChain /\ UNCHANGED <<headTail, places, chead, out>>
        /\ "tailClear" \in {"idle"} \cup Pushing \cup Popping \cup PoppingTail
    <2>1. /\ Locals(t, "tailClear", at[t], ptrs[t], slot[t], c.val)
      BY <1>1, <1>2, <1>3, <1>5, Domains DEF TailRead, DGoto, Locals
    <2>2. WritesSlot(at[t].d, slot[t], e)
      BY <1>1, <1>2, <1>3, <1>5, <1>6 DEF TailRead, WritesSlot
    <2> QED
      BY <2>1, <2>2 DEF TailRead, KeepChain, PoppingTail
  <1>8. c.val \in Obj \cup {None}
    BY <1>5
  <1>9. OnlyThread(t) /\ ChainLocalsOK' /\ dpc'[t] = "tailClear" /\ at'[t] = at[t] /\ slot'[t] = slot[t]
        /\ hand'[t] = c.val
    BY <1>1, <1>7, <1>8, LocalsMove, CallFacts
  <1>10. /\ SlotsOK' /\ headTail' \in [D -> [head : Indexes, tail : Indexes]]
         /\ places' \in Seq([d : D, i : Indexes])
         /\ PlacesFit' /\ SlotsFit'
         /\ (\A x \in D : Filled(x)' = Filled(x) /\ Filled(x) \in Nat)
         /\ Items' = Items /\ (\A u \in T \ {t} : Held(u)' = Held(u))
         /\ Held(t)' = hand'[t]
    BY <1>1, <1>6, <1>7, <1>9, OwnSlotFits
  <1>11. \A x \in D : Filled(x)' \in Nat /\ Filled(x)' <= Filled(x)
    BY <1>10
  <1>12. LinksFit'
    BY <1>7, <1>11, LinksKept
  <1>13. CallFits(t)'
    BY <1>2, <1>4, <1>5, <1>7, <1>9, <1>10 DEF CallFits, Pushing, Popping, PoppingTail
  <1>14. ChainInv'
    <2>1. /\ chead' \in 0..MaxDequeues /\ ctail' \in 0..MaxDequeues /\ next' \in [D -> 0..MaxDequeues]
          /\ prev' \in [D -> 0..MaxDequeues] /\ out' \subseteq Obj /\ chead <= chead' /\ chead' = chead
      BY <1>1, <1>7, CallFacts DEF ChainTypeOK, KeepChain
    <2> QED
      BY <1>9, <1>10, <1>11, <1>12, <1>13, <2>1, Assembled
  <1>15. Step
    BY <1>5, <1>7, <1>9, <1>10, StutterStep
  <1> QED
    BY <1>14, <1>15

(* ... and given back to pushHead.                                         *)
LEMMA TailClearFits ==
  ASSUME ChainInv, NEW t \in T, TailClear(t)
  PROVE  ChainInv' /\ Step
  <1>1. dpc[t] = "tailClear" /\ at[t].d \in D /\ CallFits(t) /\ ChainTypeOK /\ dpc[t] \in Taking
    BY CallFacts DEF TailClear, Taking
  <1>2. PICK d \in D : d = at[t].d
    BY <1>1
  <1>3. PICK i \in 0..(Size(d) - 1) : i = slot[t]
    BY <1>1, <1>2, SlotFacts
  <1>4. hand[t] # None /\ hand[t] \in Obj /\ Held(t) = hand[t]
    BY <1>1, CallFacts DEF CallFits, Held
  <1>5. PICK c \in [typ : BOOLEAN, val : Obj \cup {None}] : c = slots[d][i]
    BY <1>1 DEF ChainTypeOK
  <1>6. PICK e \in [typ : BOOLEAN, val : Obj \cup {None}] : e = [c EXCEPT !.typ = FALSE]
    BY <1>5
  <1>7. PICK a \in [d : 0..MaxDequeues, d2 : 0..MaxDequeues] : a = [d |-> 0, d2 |-> 0]
    BY NoPtrsTyped
  <1>8. /\ Locals(t, "idle", a, NoPtrs, 0, None)
        /\ WritesSlot(at[t].d, slot[t], e)
        /\ KeepChain /\ UNCHANGED <<headTail, places, chead>> /\ out' = out \cup {hand[t]}
    <2>1. Locals(t, "idle", a, NoPtrs, 0, None)
      BY <1>1, <1>7 DEF TailClear, DReturn, Locals
    <2>2. WritesSlot(at[t].d, slot[t], e)
      BY <1>1, <1>2, <1>3, <1>5, <1>6 DEF TailClear, WritesSlot
    <2> QED
      BY <1>4, <2>1, <2>2 DEF TailClear, DReturn, KeepChain
  <1>9. OnlyThread(t) /\ ChainLocalsOK' /\ dpc'[t] = "idle" /\ at'[t] = a /\ hand'[t] = None
    BY <1>1, <1>8, LocalsMove, CallFacts
  <1>10. /\ SlotsOK' /\ headTail' \in [D -> [head : Indexes, tail : Indexes]]
         /\ places' \in Seq([d : D, i : Indexes])
         /\ PlacesFit' /\ SlotsFit'
         /\ (\A x \in D : Filled(x)' = Filled(x) /\ Filled(x) \in Nat)
         /\ Items' = Items /\ (\A u \in T \ {t} : Held(u)' = Held(u))
         /\ Held(t)' = hand'[t]
    BY <1>1, <1>6, <1>8, <1>9, OwnSlotFits
  <1>11. \A x \in D : Filled(x)' \in Nat /\ Filled(x)' <= Filled(x)
    BY <1>10
  <1>12. LinksFit'
    BY <1>8, <1>11, LinksKept
  <1>13. CallFits(t)'
    BY <1>9 DEF CallFits, Pushing, Popping, PoppingTail
  <1>14. ChainInv'
    <2>1. /\ chead' \in 0..MaxDequeues /\ ctail' \in 0..MaxDequeues /\ next' \in [D -> 0..MaxDequeues]
          /\ prev' \in [D -> 0..MaxDequeues] /\ out' \subseteq Obj /\ chead <= chead' /\ chead' = chead
      BY <1>1, <1>4, <1>8, CallFacts DEF ChainTypeOK, KeepChain
    <2> QED
      BY <1>9, <1>10, <1>11, <1>12, <1>13, <2>1, Assembled
  <1>15. Step
    BY <1>4, <1>8, <1>9, <1>10, ReturnStep
  <1> QED
    BY <1>14, <1>15

-----------------------------------------------------------------------------
(* The steps of the owner.                                                 *)
(* Pushes go to the newest dequeue.                                        *)
LEMMA OwnerFacts ==
  ASSUME ChainInv
  PROVE  /\ owner \in T
         /\ dpc[owner] \in Pushing => at[owner].d = chead /\ chead \in D /\ chead \in 1..chead
            /\ hand[owner] # None
         /\ \A x \in D : x > chead => Filled(x) = 0
  <1>1. owner \in T
    BY DEF T
  <1>2. CallFits(owner) /\ LinksFit
    BY <1>1, CallFacts
  <1>3. dpc[owner] \in Pushing => at[owner].d = chead /\ chead \in 1..chead /\ hand[owner] # None
    BY <1>2 DEF CallFits, Pushing
  <1>4. dpc[owner] \in Pushing => at[owner].d \in D
    BY <1>1, CallFacts DEF Pushing
  <1> QED
    BY <1>1, <1>2, <1>3, <1>4 DEF LinksFit

(* pushHead has one object in hand, until it is in the deque.              *)
LEMMA PushHeadFits ==
  ASSUME ChainInv, NEW v \in Obj, PushHead(v)
  PROVE  ChainInv' /\ Step
  <1>1. /\ owner \in T /\ dpc[owner] = "idle" /\ hand[owner] = None /\ LinksFit /\ ChainTypeOK
        /\ \A x \in D : x > chead => Filled(x) = 0
    BY OwnerFacts, CallFacts DEF PushHead, DGoto, CallFits, Pushing
  <1>2. PICK d \in D : d = IF chead = 0 THEN 1 ELSE chead
    BY <1>1, CallFacts DEF D
  <1>3. d \in 0..MaxDequeues /\ 0 \in 0..MaxDequeues
    BY NoPtrsTyped DEF D
  <1>4. PICK a \in [d : 0..MaxDequeues, d2 : 0..MaxDequeues] : a = [d |-> d, d2 |-> 0]
    BY <1>3
  <1>5. Locals(owner, "push", a, ptrs[owner], slot[owner], v)
    BY <1>1, <1>2, <1>4, Domains DEF PushHead, DGoto, Visit, Locals
  <1>6. /\ KeepItems /\ UNCHANGED <<next, prev>> /\ chead' = d /\ ctail' = (IF chead = 0 THEN d ELSE ctail)
        /\ v \in out /\ out' = out \ {v} /\ v # None
        /\ (\A x \in D : Filled(x)' = Filled(x))
        /\ dpc[owner] \notin Taking /\ "push" \notin Taking \cup {"pushAdd"}
        /\ "push" \in {"idle"} \cup Pushing \cup Popping \cup PoppingTail
    BY <1>1, <1>2, ObjAssumption DEF PushHead, Taking, Pushing, KeepItems, Filled
  <1>7. dpc'[owner] = "push" /\ at'[owner] = a /\ hand'[owner] = v
    BY <1>1, <1>5, Domains DEF Locals, ChainTypeOK
  <1>8. CallFits(owner)'
    <2>1. d \in 1..d /\ d \in Nat
      BY DEF D
    <2> QED
      BY <1>4, <1>6, <1>7, <2>1 DEF CallFits, Pushing, Popping, PoppingTail
  <1>9. LinksFit'
    <2>1. /\ ctail <= chead /\ (ctail = 0 => chead = 0)
          /\ \A x \in D : /\ next[x] = IF x < chead THEN x + 1 ELSE 0
                          /\ prev[x] \in {0, x - 1}
                          /\ Filled(x) <= Size(x)
                          /\ x < ctail \/ x > chead => Filled(x) = 0
      BY <1>1 DEF LinksFit
    <2>2. chead = 0 => \A x \in D : ~(x < chead) /\ ~(x < d) /\ x > chead
      BY <1>2 DEF D
    <2>3. /\ ctail' <= chead' /\ (ctail' = 0 => chead' = 0)
          /\ \A x \in D : next[x] = IF x < chead' THEN x + 1 ELSE 0
      BY <1>2, <1>6, <2>1, <2>2 DEF D
    <2>4. \A x \in D : x < ctail' \/ x > chead' => Filled(x) = 0
      BY <1>2, <1>6, <2>1, <2>2
    <2> QED
      BY <1>6, <2>1, <2>3, <2>4 DEF LinksFit
  <1>10. /\ chead' \in 0..MaxDequeues /\ ctail' \in 0..MaxDequeues /\ next' \in [D -> 0..MaxDequeues]
         /\ prev' \in [D -> 0..MaxDequeues] /\ out' \subseteq Obj /\ chead <= chead'
    BY <1>1, <1>2, <1>3, <1>6, CallFacts DEF ChainTypeOK, D
  <1>11. /\ ChainInv' /\ Items' = Items /\ Held(owner) = hand[owner] /\ Held(owner)' = v
         /\ \A u \in T \ {owner} : Held(u)' = Held(u)
    <2>1. v \in Obj \cup {None}
      OBVIOUS
    <2> QED
      BY <1>1, <1>5, <1>6, <1>8, <1>9, <1>10, <2>1, CallFacts, QuietStep
  <1>12. Step
    BY <1>1, <1>6, <1>11, GiveStep
  <1> QED
    BY <1>11, <1>12

(* The test of pushHead sees that the dequeue is not full.                 *)
LEMMA FullRing ==
  ASSUME NEW h \in Indexes, NEW t \in Indexes, NEW s \in Nat, s < Mod, (h - t) % Mod = s
  PROVE  (t + s) % Mod = h
  <1> USE SizeAssumption DEF Indexes
  <1>1. /\ (h - t) % Mod = IF h >= t THEN h - t ELSE h - t + Mod
        /\ Mod \in Nat
    BY Gap
  <1>2. CASE h >= t
    BY <1>1, <1>2
  <1>3. CASE h < t
    <2>1. t + s = h + Mod
      BY <1>1, <1>3
    <2>2. (h + Mod) % Mod = h
      BY <1>1
    <2> QED
      BY <2>1, <2>2
  <1> QED
    BY <1>1, <1>2, <1>3

(* There is room, and there will be: nobody else pushes.                   *)
LEMMA PushLoadFits ==
  ASSUME ChainInv, PushLoad
  PROVE  ChainInv' /\ Step
  <1>1. /\ owner \in T /\ dpc[owner] = "push" /\ hand[owner] # None /\ LinksFit /\ ChainTypeOK
        /\ at[owner].d = chead /\ chead \in D /\ chead \in 1..chead
    BY OwnerFacts, CallFacts DEF PushLoad, DGoto, Pushing
  <1>2. PICK d \in D : d = chead
    BY <1>1
  <1>3. PICK pc \in {"grow", "pushSlot"} :
          pc = IF (headTail[d].tail + Size(d)) % Mod = headTail[d].head THEN "grow" ELSE "pushSlot"
    OBVIOUS
  <1>4. Locals(owner, pc, at[owner], ptrs[owner], slot[owner], hand[owner])
    BY <1>1, <1>2, <1>3, Domains DEF PushLoad, DGoto, KeepLocals, Locals
  <1>5. /\ KeepItems /\ KeepChain /\ out' = out /\ chead' = chead
        /\ (\A x \in D : Filled(x)' = Filled(x))
        /\ dpc[owner] \notin Taking /\ pc \notin Taking \cup {"pushAdd"}
        /\ pc \in {"idle"} \cup Pushing \cup Popping \cup PoppingTail
    BY <1>1 DEF PushLoad, Taking, Pushing, KeepItems, KeepChain, KeepLocals, Filled
  <1>6. dpc'[owner] = pc /\ at'[owner] = at[owner] /\ hand'[owner] = hand[owner]
    BY <1>1, <1>4, Domains DEF Locals, ChainTypeOK
  <1>7. pc = "pushSlot" => Filled(d) < Size(d)
    <2>1. Filled(d) <= Size(d) /\ Filled(d) \in Nat /\ Size(d) \in Nat /\ Size(d) < Mod
      BY <1>1, CallFacts, SizeIs DEF LinksFit
    <2>2. headTail[d].head \in Indexes /\ headTail[d].tail \in Indexes
      BY <1>1, Typed
    <2>3. Filled(d) = Size(d) => (headTail[d].tail + Size(d)) % Mod = headTail[d].head
      BY <2>1, <2>2, FullRing DEF Filled
    <2> QED
      BY <1>3, <2>1, <2>3
  <1>8. CallFits(owner)'
    BY <1>1, <1>2, <1>5, <1>6, <1>7 DEF CallFits, Pushing, Popping, PoppingTail
  <1> QED
    BY <1>1, <1>4, <1>5, <1>8, CallFacts, LocalQuietStep

(* A new dequeue is empty.                                                 *)
LEMMA GrowFits ==
  ASSUME ChainInv, Grow
  PROVE  ChainInv' /\ Step
  <1>1. /\ owner \in T /\ dpc[owner] = "grow" /\ hand[owner] # None /\ LinksFit /\ ChainTypeOK
        /\ at[owner].d = chead /\ chead \in D /\ chead \in 1..chead
    BY OwnerFacts, CallFacts DEF Grow, DGoto, Pushing
  <1>2. PICK d \in D : d = chead
    BY <1>1
  <1>3. d < MaxDequeues /\ d + 1 \in D /\ d + 1 \in 0..MaxDequeues /\ 0 \in 0..MaxDequeues /\ d \in Nat
    BY <1>1, <1>2, SizeAssumption DEF Grow, D
  <1>4. PICK a \in [d : 0..MaxDequeues, d2 : 0..MaxDequeues] : a = [d |-> d + 1, d2 |-> 0]
    BY <1>3
  <1>5. Locals(owner, "push", a, ptrs[owner], slot[owner], hand[owner])
    BY <1>1, <1>2, <1>4, Domains DEF Grow, DGoto, Visit, Locals
  <1>6. /\ KeepItems /\ UNCHANGED <<ctail, out>> /\ chead' = d + 1
        /\ prev' = [prev EXCEPT ![d + 1] = d] /\ next' = [next EXCEPT ![d] = d + 1]
        /\ (\A x \in D : Filled(x)' = Filled(x))
        /\ dpc[owner] \notin Taking /\ "push" \notin Taking \cup {"pushAdd"}
        /\ "push" \in {"idle"} \cup Pushing \cup Popping \cup PoppingTail
    BY <1>1, <1>2 DEF Grow, Taking, Pushing, KeepItems, Filled
  <1>7. dpc'[owner] = "push" /\ at'[owner] = a /\ hand'[owner] = hand[owner]
    BY <1>1, <1>5, Domains DEF Locals, ChainTypeOK
  <1>8. CallFits(owner)'
    <2>1. d + 1 \in 1..(d + 1)
      BY <1>3
    <2> QED
      BY <1>1, <1>4, <1>6, <1>7, <2>1 DEF CallFits, Pushing, Popping, PoppingTail
  <1>9. /\ next' \in [D -> 0..MaxDequeues] /\ prev' \in [D -> 0..MaxDequeues]
        /\ \A x \in D : /\ next'[x] = (IF x = d THEN d + 1 ELSE next[x])
                        /\ prev'[x] = (IF x = d + 1 THEN d ELSE prev[x])
    <2>1. next \in [D -> 0..MaxDequeues] /\ prev \in [D -> 0..MaxDequeues] /\ d \in 0..MaxDequeues
      BY <1>1, <1>3 DEF ChainTypeOK, D
    <2> QED
      BY <1>3, <1>6, <2>1
  <1>10. LinksFit'
    <2>1. /\ ctail <= d /\ (ctail = 0 => d = 0)
          /\ \A x \in D : /\ next[x] = IF x < d THEN x + 1 ELSE 0
                          /\ prev[x] \in {0, x - 1}
                          /\ Filled(x) <= Size(x)
                          /\ x < ctail \/ x > d => Filled(x) = 0
      BY <1>1, <1>2 DEF LinksFit
    <2>2. \A x \in D : /\ next'[x] = IF x < d + 1 THEN x + 1 ELSE 0
                       /\ prev'[x] \in {0, x - 1}
                       /\ x < ctail \/ x > d + 1 => Filled(x) = 0
      <3> SUFFICES ASSUME NEW x \in D
                   PROVE  /\ next'[x] = IF x < d + 1 THEN x + 1 ELSE 0
                          /\ prev'[x] \in {0, x - 1}
                          /\ x < ctail \/ x > d + 1 => Filled(x) = 0
        OBVIOUS
      <3>1. x \in Nat /\ ctail \in Nat
        BY <1>1, CallFacts DEF D
      <3>2. next'[x] = IF x < d + 1 THEN x + 1 ELSE 0
        BY <1>3, <1>9, <2>1, <3>1
      <3>3. prev'[x] \in {0, x - 1}
        <4>1. CASE x = d + 1
          BY <1>3, <1>9, <4>1
        <4>2. CASE x # d + 1
          BY <1>9, <2>1, <4>2
        <4> QED
          BY <4>1, <4>2
      <3>4. x < ctail \/ x > d + 1 => Filled(x) = 0
        BY <1>3, <2>1, <3>1
      <3> QED
        BY <3>2, <3>3, <3>4
    <2>3. ctail <= d + 1 /\ (ctail = 0 => d + 1 = 0)
      BY <1>1, <1>2, <1>3, <2>1, CallFacts
    <2> QED
      BY <1>6, <2>1, <2>2, <2>3 DEF LinksFit
  <1>11. /\ chead' \in 0..MaxDequeues /\ ctail' \in 0..MaxDequeues
         /\ out' \subseteq Obj /\ out' = out /\ chead <= chead'
    BY <1>1, <1>2, <1>3, <1>6, CallFacts DEF ChainTypeOK, D
  <1>12. PICK v \in Obj \cup {None} : v = hand[owner]
    BY <1>1, CallFacts
  <1>13. Locals(owner, "push", a, ptrs[owner], slot[owner], v)
    BY <1>5, <1>12
  <1> QED
    BY <1>1, <1>6, <1>8, <1>9, <1>10, <1>11, <1>12, <1>13, CallFacts, QuietStep

(* popHead starts at the newest dequeue, ...                               *)
LEMMA PopHeadFits ==
  ASSUME ChainInv, PopHead
  PROVE  ChainInv' /\ Step
  <1>1. /\ owner \in T /\ dpc[owner] = "idle" /\ hand[owner] = None /\ LinksFit /\ ChainTypeOK
        /\ (\A x \in D : x > chead => Filled(x) = 0) /\ chead # 0
    BY OwnerFacts, CallFacts DEF PopHead, DGoto, CallFits, Pushing
  <1>2. chead \in 0..MaxDequeues /\ 0 \in 0..MaxDequeues /\ chead \in 1..chead
    BY <1>1, CallFacts
  <1>3. PICK a \in [d : 0..MaxDequeues, d2 : 0..MaxDequeues] : a = [d |-> chead, d2 |-> 0]
    BY <1>2
  <1>4. Locals(owner, "pop", a, ptrs[owner], slot[owner], hand[owner])
    BY <1>1, <1>3, Domains DEF PopHead, DGoto, Visit, Locals
  <1>5. /\ KeepItems /\ KeepChain /\ out' = out /\ chead' = chead
        /\ (\A x \in D : Filled(x)' = Filled(x))
        /\ dpc[owner] \notin Taking /\ "pop" \notin Taking \cup {"pushAdd"}
        /\ "pop" \in {"idle"} \cup Pushing \cup Popping \cup PoppingTail
    BY <1>1 DEF PopHead, Taking, Popping, KeepItems, KeepChain, Filled
  <1>6. dpc'[owner] = "pop" /\ at'[owner] = a /\ hand'[owner] = None
    BY <1>1, <1>4, Domains DEF Locals, ChainTypeOK
  <1>7. CallFits(owner)'
    BY <1>1, <1>2, <1>3, <1>5, <1>6 DEF CallFits, Pushing, Popping, PoppingTail
  <1> QED
    BY <1>1, <1>4, <1>5, <1>7, CallFacts, LocalQuietStep

(* ... and looks for one that is not empty.                                *)
LEMMA PopHeadLoadFits ==
  ASSUME ChainInv, PopHeadLoad
  PROVE  ChainInv' /\ Step
  <1>1. /\ owner \in T /\ dpc[owner] = "pop" /\ CallFits(owner) /\ ChainTypeOK /\ at[owner].d \in D
    BY OwnerFacts, CallFacts DEF PopHeadLoad, DGoto
  <1>2. PICK d \in D : d = at[owner].d
    BY <1>1
  <1>3. d \in 1..chead /\ (\A x \in D : x > d => Filled(x) = 0) /\ hand[owner] = None
    BY <1>1, <1>2 DEF CallFits, Popping, Pushing
  <1>4. PICK q \in [head : Indexes, tail : Indexes] : q = headTail[d]
    BY <1>1 DEF ChainTypeOK
  <1>5. PICK pc \in {"popPrev", "popCas"} : pc = IF IsEmpty(q) THEN "popPrev" ELSE "popCas"
    OBVIOUS
  <1>6. PICK q1 \in [head : Indexes, tail : Indexes] : q1 = IF IsEmpty(q) THEN NoPtrs ELSE q
    BY <1>1, CallFacts
  <1>7. Locals(owner, pc, at[owner], q1, slot[owner], hand[owner])
    BY <1>1, <1>2, <1>4, <1>5, <1>6, Domains DEF PopHeadLoad, DGoto, Loaded, Locals
  <1>8. /\ KeepItems /\ KeepChain /\ out' = out /\ chead' = chead
        /\ (\A x \in D : Filled(x)' = Filled(x))
        /\ dpc[owner] \notin Taking /\ pc \notin Taking \cup {"pushAdd"}
        /\ pc \in {"idle"} \cup Pushing \cup Popping \cup PoppingTail
    BY <1>1 DEF PopHeadLoad, Loaded, Taking, Popping, KeepItems, KeepChain, Filled
  <1>9. dpc'[owner] = pc /\ at'[owner] = at[owner] /\ hand'[owner] = None /\ ptrs'[owner] = q1
    BY <1>1, <1>3, <1>7, Domains DEF Locals, ChainTypeOK
  <1>10. IsEmpty(q) => Filled(d) = 0
    <2>1. Filled(d) = 0 <=> headTail[d].head = headTail[d].tail
      BY <1>1, Distances
    <2> QED
      BY <1>4, <2>1 DEF IsEmpty
  <1>11. CallFits(owner)'
    BY <1>2, <1>3, <1>5, <1>6, <1>8, <1>9, <1>10 DEF CallFits, Pushing, Popping, PoppingTail
  <1> QED
    BY <1>1, <1>7, <1>8, <1>11, CallFacts, LocalQuietStep

(* It goes back by one dequeue, and returns at the oldest.                 *)
LEMMA PopHeadPrevFits ==
  ASSUME ChainInv, PopHeadPrev
  PROVE  ChainInv' /\ Step
  <1>1. /\ owner \in T /\ dpc[owner] = "popPrev" /\ CallFits(owner) /\ LinksFit /\ ChainTypeOK
        /\ at[owner].d \in D
    BY OwnerFacts, CallFacts DEF PopHeadPrev
  <1>2. PICK x \in D : x = at[owner].d
    BY <1>1
  <1>3. x \in 1..chead /\ (\A y \in D : y > x => Filled(y) = 0) /\ Filled(x) = 0 /\ hand[owner] = None
    BY <1>1, <1>2 DEF CallFits, Popping, Pushing
  <1>4. PICK d \in 0..MaxDequeues : d = prev[x] /\ d \in {0, x - 1}
    BY <1>1 DEF ChainTypeOK, LinksFit
  <1>5. /\ KeepItems /\ KeepChain /\ chead' = chead
        /\ (\A y \in D : Filled(y)' = Filled(y))
        /\ dpc[owner] \notin Taking /\ {"idle", "pop"} \cap (Taking \cup {"pushAdd"}) = {}
        /\ {"idle", "pop"} \subseteq {"idle"} \cup Pushing \cup Popping \cup PoppingTail
    BY <1>1 DEF PopHeadPrev, Taking, Popping, KeepItems, KeepChain, Filled
  <1>6. PICK a \in [d : 0..MaxDequeues, d2 : 0..MaxDequeues] : a = [d |-> d, d2 |-> 0]
    BY NoPtrsTyped
  <1>7. CASE d = 0
    <2>1. Locals(owner, "idle", a, NoPtrs, 0, hand[owner]) /\ out' = out
      BY <1>1, <1>2, <1>3, <1>4, <1>6, <1>7, Domains DEF PopHeadPrev, DReturn, Locals
    <2>2. dpc'[owner] = "idle" /\ hand'[owner] = None
      BY <1>1, <1>3, <2>1, Domains DEF Locals, ChainTypeOK
    <2>3. CallFits(owner)'
      BY <2>2 DEF CallFits, Pushing, Popping, PoppingTail
    <2> QED
      BY <1>1, <1>5, <2>1, <2>3, CallFacts, LocalQuietStep
  <1>8. CASE d # 0
    <2>1. Locals(owner, "pop", a, ptrs[owner], slot[owner], hand[owner]) /\ out' = out
      BY <1>1, <1>2, <1>4, <1>6, <1>8, Domains DEF PopHeadPrev, DGoto, Visit, Locals
    <2>2. dpc'[owner] = "pop" /\ at'[owner] = a /\ hand'[owner] = None
      BY <1>1, <1>3, <2>1, Domains DEF Locals, ChainTypeOK
    <2>3. d = x - 1 /\ d \in 1..chead /\ \A y \in D : y > d => Filled(y) = 0
      BY <1>1, <1>3, <1>4, <1>8, CallFacts DEF D
    <2>4. CallFits(owner)'
      BY <1>5, <1>6, <2>2, <2>3 DEF CallFits, Pushing, Popping, PoppingTail
    <2> QED
      BY <1>1, <1>5, <2>1, <2>4, CallFacts, LocalQuietStep
  <1> QED
    BY <1>7, <1>8

(* A slot is written only when no object is in it and nobody has it.       *)
LEMMA PushSlotFits ==
  ASSUME ChainInv, PushSlot
  PROVE  ChainInv' /\ Step
  <1>1. /\ owner \in T /\ dpc[owner] = "pushSlot" /\ hand[owner] # None /\ ChainTypeOK /\ LinksFit
        /\ at[owner].d = chead /\ chead \in D /\ chead \in 1..chead /\ CallFits(owner)
    BY OwnerFacts, CallFacts DEF PushSlot, DGoto, Pushing
  <1>2. PICK d \in D : d = chead
    BY <1>1
  <1>3. headTail[d].head \in Indexes /\ Filled(d) < Size(d)
    BY <1>1, <1>2, Typed DEF CallFits
  <1>4. PICK i \in 0..(Size(d) - 1) : i = Index(d, headTail[d].head)
    BY <1>3, SizeIs
  <1>5. /\ KeepChain /\ UNCHANGED <<headTail, places, out, chead>>
        /\ (\A x \in D : Filled(x)' = Filled(x))
        /\ dpc[owner] \notin Taking
        /\ {"grow", "pushAdd"} \subseteq {"idle"} \cup Pushing \cup Popping \cup PoppingTail
    BY <1>1 DEF PushSlot, Taking, Pushing, KeepChain, KeepLocals, Filled
  <1>6. CASE slots[d][i].typ
    <2>1. /\ Locals(owner, "grow", at[owner], ptrs[owner], slot[owner], hand[owner])
          /\ KeepItems
      BY <1>1, <1>2, <1>4, <1>6, Domains DEF PushSlot, DGoto, KeepLocals, Locals, KeepItems
    <2>2. dpc'[owner] = "grow" /\ at'[owner] = at[owner] /\ hand'[owner] = hand[owner]
      BY <1>1, <2>1, Domains DEF Locals, ChainTypeOK
    <2>3. CallFits(owner)'
      BY <1>1, <1>5, <2>2 DEF CallFits, Pushing, Popping, PoppingTail
    <2>4. "grow" \notin Taking \cup {"pushAdd"}
      BY DEF Taking
    <2> QED
      BY <1>1, <1>5, <2>1, <2>3, <2>4, CallFacts, LocalQuietStep
  <1>7. CASE ~slots[d][i].typ
    <2>1. PICK v \in Obj \cup {None} : v = hand[owner]
      BY <1>1, CallFacts
    <2>2. PICK e \in [typ : BOOLEAN, val : Obj \cup {None}] : e = [typ |-> TRUE, val |-> v]
      OBVIOUS
    <2>3. /\ Locals(owner, "pushAdd", at[owner], ptrs[owner], slot[owner], v)
          /\ WritesSlot(d, i, e)
      BY <1>1, <1>2, <1>4, <1>7, <2>1, <2>2, Domains DEF PushSlot, DGoto, KeepLocals, Locals, WritesSlot
    <2>4. OnlyThread(owner) /\ ChainLocalsOK' /\ dpc'[owner] = "pushAdd" /\ at'[owner] = at[owner]
          /\ hand'[owner] = v
      BY <1>1, <1>5, <2>3, LocalsMove, CallFacts
    <2>5. /\ SlotsOK' /\ slots'[d][i] = e
          /\ \A x \in D : \A j \in 0..(Size(x) - 1) : x # d \/ j # i => slots'[x][j] = slots[x][j]
      BY <1>1, <2>3, SlotWrite
    <2> DEFINE new == [d |-> d, i |-> i]
    <2>6. \A s \in SlotSet : slots[s.d][s.i].typ => s # new /\ slots'[s.d][s.i] = slots[s.d][s.i]
      BY <1>7, <2>5 DEF SlotSet
    <2> HIDE DEF new
    <2>7. \A n \in DOMAIN places :
            LET s == SlotOf(places[n]) IN /\ s # new /\ slots'[s.d][s.i] = slots[s.d][s.i]
                                          /\ slots[s.d][s.i].typ /\ ObjectIn(s) # None
      BY <2>6, SlotFacts
    <2>8. \A u \in T : dpc[u] \in Taking =>
            /\ Taken(u) # new
            /\ slot[u] < Size(at[u].d) /\ slots'[at[u].d][slot[u]] = slots[at[u].d][slot[u]]
            /\ slots[at[u].d][slot[u]].typ
            /\ dpc[u] # "tailClear" => slots[at[u].d][slot[u]].val # None
            /\ \A n \in DOMAIN places : SlotOf(places[n]) # Taken(u)
            /\ \A w \in T : dpc[w] \in Taking /\ Taken(w) = Taken(u) => w = u
      <3> SUFFICES ASSUME NEW u \in T, dpc[u] \in Taking
                   PROVE  /\ Taken(u) # new
                          /\ slot[u] < Size(at[u].d) /\ slots'[at[u].d][slot[u]] = slots[at[u].d][slot[u]]
                          /\ slots[at[u].d][slot[u]].typ
                          /\ dpc[u] # "tailClear" => slots[at[u].d][slot[u]].val # None
                          /\ \A n \in DOMAIN places : SlotOf(places[n]) # Taken(u)
                          /\ \A w \in T : dpc[w] \in Taking /\ Taken(w) = Taken(u) => w = u
        OBVIOUS
      <3>1. /\ at[u].d \in D /\ slot[u] \in 0..(Size(at[u].d) - 1) /\ Taken(u) \in SlotSet
            /\ slots[Taken(u).d][Taken(u).i].typ
            /\ dpc[u] # "tailClear" => ObjectIn(Taken(u)) # None
            /\ \A n \in DOMAIN places : SlotOf(places[n]) # Taken(u)
            /\ \A w \in T : dpc[w] \in Taking /\ Taken(w) = Taken(u) => w = u
        BY SlotFacts
      <3>2. Taken(u) # new /\ slots'[Taken(u).d][Taken(u).i] = slots[Taken(u).d][Taken(u).i]
        BY <2>6, <3>1
      <3>3. Taken(u).d = at[u].d /\ Taken(u).i = slot[u]
        BY DEF Taken
      <3>4. slot[u] < Size(at[u].d)
        BY <3>1, SizeIs
      <3> QED
        BY <3>1, <3>2, <3>3, <3>4 DEF ObjectIn
    <2>9. \A u \in T \ {owner} : /\ Taken(u)' = Taken(u) /\ dpc'[u] = dpc[u]
                                 /\ slot'[u] = slot[u] /\ at'[u] = at[u] /\ hand'[u] = hand[u]
      BY <2>4 DEF Taken, OnlyThread
    <2>10. \A u \in T : dpc'[u] \in Taking => u # owner /\ dpc[u] \in Taking
      BY <2>4, <2>9 DEF Taking
    <2>11. Items' = Items
      BY <1>5, <2>7 DEF Items, ObjectIn, SlotOf, Index
    <2>12. \A u \in T \ {owner} : Held(u)' = Held(u)
      <3>1. ASSUME NEW u \in T \ {owner}, dpc[u] \in Taking
            PROVE  ObjectIn(Taken(u))' = ObjectIn(Taken(u))
        <4>1. slots'[at[u].d][slot[u]] = slots[at[u].d][slot[u]]
          BY <2>8, <3>1
        <4>2. at'[u] = at[u] /\ slot'[u] = slot[u]
          BY <2>9
        <4> QED
          BY <4>1, <4>2 DEF ObjectIn, Taken
      <3> QED
        BY <2>9, <3>1 DEF Held, Taking
    <2>13. Held(owner)' = Held(owner)
      BY <1>1, <2>1, <2>4 DEF Held
    <2>14. /\ headTail' \in [D -> [head : Indexes, tail : Indexes]] /\ places' \in Seq([d : D, i : Indexes])
           /\ PlacesFit' /\ \A x \in D : Filled(x)' \in Nat /\ Filled(x)' <= Filled(x)
      <3>1. headTail' = headTail /\ places' = places
        BY <1>5
      <3>2. PlacesFit'
        BY <3>1 DEF ChainInv, PlacesFit, Before, Filled
      <3>3. \A x \in D : Filled(x)' \in Nat /\ Filled(x)' <= Filled(x)
        BY <1>1, <1>5, CallFacts
      <3> QED
        BY <1>1, <3>1, <3>2, <3>3 DEF ChainTypeOK
    <2>15. LinksFit'
      BY <1>5, <2>14, LinksKept
    <2>16. CallFits(owner)'
      BY <1>1, <1>2, <1>3, <1>5, <2>1, <2>4 DEF CallFits, Pushing, Popping, PoppingTail
    <2>17. SlotsFit'
      <3>1. \A n \in DOMAIN places' :
              LET s == SlotOf(places'[n]) IN slots'[s.d][s.i].typ /\ slots'[s.d][s.i].val # None
        BY <1>5, <2>7 DEF ObjectIn
      <3>2. ASSUME NEW u \in T, dpc'[u] \in Taking
            PROVE  /\ slot'[u] < Size(at'[u].d) /\ slots'[at'[u].d][slot'[u]].typ
                   /\ dpc'[u] # "tailClear" => ObjectIn(Taken(u))' # None
                   /\ \A n \in DOMAIN places' : SlotOf(places'[n]) # Taken(u)'
                   /\ \A w \in T : dpc'[w] \in Taking /\ Taken(w)' = Taken(u)' => w = u
        <4>1. ObjectIn(Taken(u))' = slots'[at[u].d][slot[u]].val
          BY <2>9, <2>10, <3>2 DEF ObjectIn, Taken
        <4> QED
          BY <1>5, <2>8, <2>9, <2>10, <3>2, <4>1
      <3>3. LET s == SlotOf([d |-> chead', i |-> headTail'[chead'].head]) IN
            /\ slots'[s.d][s.i].typ /\ slots'[s.d][s.i].val = hand'[owner]
            /\ \A u \in T : dpc'[u] \in Taking => Taken(u)' # s
        <4>1. SlotOf([d |-> chead', i |-> headTail'[chead'].head]) = new /\ new.d = d /\ new.i = i
          BY <1>2, <1>4, <1>5 DEF SlotOf, new
        <4>2. \A u \in T : dpc'[u] \in Taking => Taken(u)' # new
          BY <2>8, <2>9, <2>10
        <4> QED
          BY <2>2, <2>4, <2>5, <4>1, <4>2
      <3> QED
        BY <3>1, <3>2, <3>3 DEF SlotsFit, ObjectIn, SlotOf, Index
    <2>18. ChainInv'
      <3>1. /\ chead' \in 0..MaxDequeues /\ ctail' \in 0..MaxDequeues /\ next' \in [D -> 0..MaxDequeues]
            /\ prev' \in [D -> 0..MaxDequeues] /\ out' \subseteq Obj /\ chead <= chead'
        BY <1>1, <1>5, CallFacts DEF ChainTypeOK, KeepChain
      <3> QED
        BY <1>1, <2>4, <2>5, <2>14, <2>15, <2>16, <2>17, <3>1, Assembled
    <2>19. Step
      BY <1>1, <1>5, <2>11, <2>12, <2>13, StutterStep
    <2> QED
      BY <2>18, <2>19
  <1> QED
    BY <1>6, <1>7

(* The object is in its slot before the head moves over it.                *)
LEMMA PushAddFits ==
  ASSUME ChainInv, PushAdd
  PROVE  ChainInv' /\ Step
  <1>1. /\ owner \in T /\ dpc[owner] = "pushAdd" /\ hand[owner] # None /\ ChainTypeOK /\ LinksFit /\ PlacesFit
        /\ at[owner].d = chead /\ chead \in D /\ chead \in 1..chead /\ CallFits(owner)
        /\ \A x \in D : x > chead => Filled(x) = 0
    BY OwnerFacts, CallFacts DEF PushAdd, Pushing, ChainInv
  <1>2. PICK d \in D : d = chead
    BY <1>1
  <1>3. PICK v \in Obj : v = hand[owner]
    BY <1>1, CallFacts
  <1>4. PICK a \in [d : 0..MaxDequeues, d2 : 0..MaxDequeues] : a = [d |-> 0, d2 |-> 0]
    BY NoPtrsTyped
  <1>5. /\ Locals(owner, "idle", a, NoPtrs, 0, None)
        /\ KeepChain /\ slots' = slots /\ chead' = chead /\ out' = out
        /\ headTail' = [headTail EXCEPT ![d] = [headTail[d] EXCEPT !.head = (headTail[d].head + 1) % Mod]]
        /\ places' = Append(places, [d |-> d, i |-> headTail[d].head])
    BY <1>1, <1>2, <1>4 DEF PushAdd, DReturn, Locals, KeepChain
  <1>6. Filled(d) < Mod - 1 /\ Filled(d) < Size(d)
    <2>1. Filled(d) < Size(d) /\ Filled(d) \in Nat
      BY <1>1, <1>2, CallFacts DEF CallFits
    <2> QED
      BY <2>1, SizeIs
  <1>7. /\ PlacesFit'
        /\ places' \in Seq(Place) /\ DOMAIN places' = 1..(Len(places) + 1)
        /\ (\A n \in DOMAIN places : places'[n] = places[n])
        /\ places'[Len(places) + 1] = [d |-> d, i |-> headTail[d].head]
        /\ headTail' \in [D -> [head : Indexes, tail : Indexes]]
        /\ \A x \in D : Filled(x)' = IF x = d THEN Filled(x) + 1 ELSE Filled(x)
    BY <1>1, <1>2, <1>5, <1>6, PushPlaces
  <1>8. OnlyThread(owner) /\ ChainLocalsOK' /\ dpc'[owner] = "idle" /\ at'[owner] = a /\ hand'[owner] = None
    BY <1>1, <1>5, LocalsMove, CallFacts
  <1>9. PICK new \in SlotSet : /\ new = SlotOf([d |-> d, i |-> headTail[d].head])
                               /\ slots[new.d][new.i].typ /\ ObjectIn(new) = v
                               /\ \A u \in T : dpc[u] \in Taking => Taken(u) # new
    BY <1>1, <1>2, <1>3, SlotFacts
  <1>10. \A n \in DOMAIN places' : \/ n \in DOMAIN places /\ places'[n] = places[n]
                                   \/ n = Len(places) + 1 /\ SlotOf(places'[n]) = new
    BY <1>1, <1>7, <1>9, Typed
  <1>11. \A u \in T \ {owner} : /\ Taken(u)' = Taken(u) /\ dpc'[u] = dpc[u]
                                /\ slot'[u] = slot[u] /\ at'[u] = at[u] /\ hand'[u] = hand[u]
    BY <1>8 DEF Taken, OnlyThread
  <1>12. \A u \in T : dpc'[u] \in Taking => u # owner /\ dpc[u] \in Taking
    BY <1>8, <1>11 DEF Taking
  <1>13. SlotsFit'
    <2>1. ASSUME NEW n \in DOMAIN places'
          PROVE  LET s == SlotOf(places'[n]) IN slots'[s.d][s.i].typ /\ slots'[s.d][s.i].val # None
      <3>1. CASE n \in DOMAIN places /\ places'[n] = places[n]
        BY <1>5, <3>1, SlotFacts DEF ObjectIn
      <3>2. CASE SlotOf(places'[n]) = new
        BY <1>5, <1>9, <3>2, ObjAssumption DEF ObjectIn
      <3> QED
        BY <1>10, <3>1, <3>2
    <2>2. ASSUME NEW u \in T, dpc'[u] \in Taking
          PROVE  /\ slot'[u] < Size(at'[u].d) /\ slots'[at'[u].d][slot'[u]].typ
                 /\ dpc'[u] # "tailClear" => ObjectIn(Taken(u))' # None
                 /\ \A n \in DOMAIN places' : SlotOf(places'[n]) # Taken(u)'
                 /\ \A w \in T : dpc'[w] \in Taking /\ Taken(w)' = Taken(u)' => w = u
      <3>1. /\ slot[u] < Size(at[u].d) /\ slots[at[u].d][slot[u]].typ
            /\ dpc[u] # "tailClear" => ObjectIn(Taken(u)) # None
            /\ \A n \in DOMAIN places : SlotOf(places[n]) # Taken(u)
            /\ \A w \in T : dpc[w] \in Taking /\ Taken(w) = Taken(u) => w = u
        BY <1>12, <2>2 DEF ChainInv, SlotsFit
      <3>2. ObjectIn(Taken(u))' = ObjectIn(Taken(u)) /\ Taken(u)' = Taken(u)
        BY <1>5, <1>11, <1>12, <2>2 DEF ObjectIn, Taken
      <3>3. \A n \in DOMAIN places' : SlotOf(places'[n]) # Taken(u)
        BY <1>9, <1>10, <1>12, <2>2, <3>1
      <3>4. \A w \in T : dpc'[w] \in Taking /\ Taken(w)' = Taken(u)' => w = u
        BY <1>11, <1>12, <3>1, <3>2
      <3> QED
        BY <1>5, <1>11, <1>12, <2>2, <3>1, <3>2, <3>3, <3>4
    <2> QED
      BY <1>8, <2>1, <2>2 DEF SlotsFit, ObjectIn, SlotOf, Index
  <1>a. \A x \in D : Filled(x) \in Nat
    BY <1>1, CallFacts
  <1>14. \A x \in D : Filled(x)' \in Nat /\ (Filled(x)' <= Filled(x) \/ x = chead)
    BY <1>2, <1>7, <1>a
  <1>15. LinksFit'
    <2>1. /\ ctail <= chead /\ (ctail = 0 => chead = 0)
          /\ \A x \in D : /\ next[x] = IF x < chead THEN x + 1 ELSE 0
                          /\ prev[x] \in {0, x - 1}
                          /\ Filled(x) <= Size(x)
                          /\ x < ctail \/ x > chead => Filled(x) = 0
      BY <1>1 DEF LinksFit
    <2>2. chead' = chead /\ ctail' = ctail /\ next' = next /\ prev' = prev
      BY <1>5 DEF KeepChain
    <2>3. ASSUME NEW x \in D
          PROVE  Filled(x)' <= Size(x) /\ (x < ctail \/ x > chead => Filled(x)' = 0)
      <3>1. CASE x = d
        <4>1. Filled(d)' <= Size(d)
          <5>1. Filled(d) \in Nat /\ Size(d) \in Nat /\ Filled(d)' = Filled(d) + 1
            BY <1>7, <1>a, SizeIs
          <5> QED
            BY <1>6, <5>1
        <4>2. ~(d < ctail) /\ ~(d > chead)
          BY <1>1, <1>2, <2>1, CallFacts
        <4> QED
          BY <3>1, <4>1, <4>2
      <3>2. CASE x # d
        BY <1>7, <2>1, <3>2
      <3> QED
        BY <3>1, <3>2
    <2> QED
      BY <2>1, <2>2, <2>3 DEF LinksFit
  <1>16. CallFits(owner)'
    BY <1>8 DEF CallFits, Pushing, Popping, PoppingTail
  <1>17. ChainInv'
    <2>1. /\ chead' \in 0..MaxDequeues /\ ctail' \in 0..MaxDequeues /\ next' \in [D -> 0..MaxDequeues]
          /\ prev' \in [D -> 0..MaxDequeues] /\ out' \subseteq Obj /\ chead <= chead'
      BY <1>1, <1>5, CallFacts DEF ChainTypeOK, KeepChain
    <2>2. SlotsOK' /\ places' \in Seq([d : D, i : Indexes])
      BY <1>1, <1>5, <1>7 DEF SlotsOK, ChainTypeOK, Place
    <2> QED
      BY <1>1, <1>7, <1>8, <1>13, <1>14, <1>15, <1>16, <2>1, <2>2, Assembled
  <1>18. Step
    <2>1. SameObjects
      BY <1>5 DEF SameObjects, ObjectIn
    <2>2. LET s == SlotOf(places'[Len(places) + 1]) IN slots'[s.d][s.i].val = v
      BY <1>5, <1>7, <1>9 DEF ObjectIn
    <2>3. Items' = Append(Items, v)
      BY <1>7, <2>1, <2>2, ItemsAppend
    <2>4. \A u \in T \ {owner} : Held(u)' = Held(u)
      <3>1. \A u \in T \ {owner} : ObjectIn(Taken(u))' = ObjectIn(Taken(u))
        BY <1>5, <1>11 DEF ObjectIn, Taken
      <3> QED
        BY <1>11, <3>1 DEF Held
    <2>5. Held(owner) = v /\ Held(owner)' = None
      BY <1>1, <1>3, <1>8 DEF Held
    <2>6. Hands' = [Hands EXCEPT ![owner] = None] /\ Hands[owner] = v
      BY <1>1, <2>4, <2>5, HandsAre
    <2>7. v # None
      BY ObjAssumption
    <2> QED
      BY <1>5, <2>3, <2>6, <2>7 DEF Step, Queue!Next, Queue!PushHead
  <1> QED
    BY <1>17, <1>18

(* One CAS takes the youngest object, ...                                  *)
LEMMA PopHeadCasFits ==
  ASSUME ChainInv, PopHeadCas
  PROVE  ChainInv' /\ Step
  <1>1. /\ owner \in T /\ dpc[owner] = "popCas" /\ CallFits(owner) /\ LinksFit /\ ChainTypeOK /\ PlacesFit
        /\ at[owner].d \in D
    BY OwnerFacts, CallFacts DEF PopHeadCas, CompareAndSwapUint64, DGoto, ChainInv
  <1>2. PICK d \in D : d = at[owner].d
    BY <1>1
  <1>3. d \in 1..chead /\ (\A x \in D : x > d => Filled(x) = 0) /\ hand[owner] = None /\ ~IsEmpty(ptrs[owner])
    BY <1>1, <1>2 DEF CallFits, Popping, Pushing
  <1>4. /\ KeepChain /\ UNCHANGED <<slots, at, hand, out>> /\ chead' = chead
        /\ ptrs' = [ptrs EXCEPT ![owner] = NoPtrs]
        /\ dpc[owner] \notin Taking
        /\ {"pop", "popTake"} \subseteq {"idle"} \cup Pushing \cup Popping \cup PoppingTail
    BY <1>1 DEF PopHeadCas, CompareAndSwapUint64, Taking, Popping, KeepChain
  <1>5. CASE headTail[d] # ptrs[owner]
    <2>1. /\ Locals(owner, "pop", at[owner], NoPtrs, 0, hand[owner])
          /\ KeepItems
      BY <1>1, <1>2, <1>4, <1>5, Domains DEF PopHeadCas, CompareAndSwapUint64, DGoto, Locals, KeepItems
    <2>2. dpc'[owner] = "pop" /\ at'[owner] = at[owner] /\ hand'[owner] = None
          /\ \A x \in D : Filled(x)' = Filled(x)
      BY <1>1, <1>3, <1>4, <2>1, Domains DEF Locals, ChainTypeOK, KeepItems, Filled
    <2>3. CallFits(owner)'
      BY <1>2, <1>3, <1>4, <2>2 DEF CallFits, Pushing, Popping, PoppingTail
    <2>4. "pop" \notin Taking \cup {"pushAdd"}
      BY DEF Taking
    <2> QED
      BY <1>1, <1>4, <2>1, <2>3, <2>4, CallFacts, LocalQuietStep
  <1>6. CASE headTail[d] = ptrs[owner]
    <2> DEFINE h == (headTail[d].head - 1) % Mod
               last == Len(places)
    <2>1. h \in Indexes /\ Index(d, h) \in Nat
      <3>1. h \in Indexes
        BY <1>1, Typed, Gap
      <3> QED
        BY <3>1, SizeIs
    <2>2. /\ Locals(owner, "popTake", at[owner], NoPtrs, Index(d, h), hand[owner])
          /\ headTail' = [headTail EXCEPT ![d] = [headTail[d] EXCEPT !.head = (headTail[d].head - 1) % Mod]]
          /\ places' = SubSeq(places, 1, Len(places) - 1)
      BY <1>1, <1>2, <1>4, <1>6, Domains DEF PopHeadCas, CompareAndSwapUint64, DGoto, Locals
    <2>3. Filled(d) > 0
      <3>1. Filled(d) \in Nat /\ (Filled(d) = 0 <=> headTail[d].head = headTail[d].tail)
        BY <1>1, Distances, CallFacts
      <3> QED
        BY <1>3, <1>6, <3>1 DEF IsEmpty
    <2>4. /\ PlacesFit'
          /\ places' \in Seq(Place) /\ DOMAIN places' = 1..(last - 1)
          /\ (\A n \in DOMAIN places' : places'[n] = places[n])
          /\ headTail' \in [D -> [head : Indexes, tail : Indexes]]
          /\ \A x \in D : Filled(x)' = IF x = d THEN Filled(x) - 1 ELSE Filled(x)
      BY <1>1, <1>3, <2>2, <2>3, HeadPlaces
    <2>5. last > 0 /\ places[last] = [d |-> d, i |-> h] /\ last \in Nat /\ DOMAIN places = 1..last
      BY <1>1, <1>3, <2>3, LastPlace, Typed
    <2>6. \A x \in D : Filled(x)' \in Nat /\ Filled(x)' <= Filled(x)
      <3>1. \A x \in D : Filled(x) \in Nat
        BY <1>1, CallFacts
      <3> QED
        BY <2>3, <2>4, <3>1
    <2>7. OnlyThread(owner) /\ ChainLocalsOK' /\ dpc'[owner] = "popTake" /\ at'[owner] = at[owner]
          /\ slot'[owner] = Index(d, h) /\ hand'[owner] = hand[owner]
      BY <1>1, <1>4, <2>1, <2>2, LocalsMove, CallFacts
    <2>8. LinksFit'
      BY <1>4, <2>6, LinksKept
    <2>10. CallFits(owner)'
      BY <1>2, <1>3, <1>4, <2>4, <2>7 DEF CallFits, Pushing, Popping, PoppingTail, D
    <2> HIDE DEF last
    <2>11. last \in DOMAIN places
           /\ (\A n \in DOMAIN places' : \E k \in DOMAIN places \ {last} : places'[n] = places[k])
      BY <2>4, <2>5
    <2>13. at'[owner].d = places[last].d /\ slot'[owner] = Index(places[last].d, places[last].i)
      BY <1>2, <2>5, <2>7
    <2>12. PICK m \in DOMAIN places : m = last
      BY <2>11
    <2>14. /\ SlotsOK' /\ SlotsFit'
           /\ Held(owner)' = ObjectIn(SlotOf(places[m])) /\ Held(owner) = hand[owner]
           /\ \A u \in T \ {owner} : Held(u)' = Held(u)
           /\ SameObjects
      <3>1. slots' = slots /\ dpc'[owner] \in {"popTake", "tailRead"}
        BY <1>4, <2>7
      <3> QED
        BY <1>1, <1>4, <2>7, <2>11, <2>12, <2>13, <3>1, TakeFits DEF SameObjects
    <2>15. ChainInv'
      <3>1. /\ chead' \in 0..MaxDequeues /\ ctail' \in 0..MaxDequeues /\ next' \in [D -> 0..MaxDequeues]
            /\ prev' \in [D -> 0..MaxDequeues] /\ out' \subseteq Obj /\ chead <= chead'
        <4>1. chead \in Nat
          BY <1>1, CallFacts
        <4> QED
          <5>1. /\ chead \in 0..MaxDequeues /\ ctail \in 0..MaxDequeues /\ next \in [D -> 0..MaxDequeues]
                /\ prev \in [D -> 0..MaxDequeues] /\ out \subseteq Obj
            BY <1>1 DEF ChainTypeOK
          <5>2. ctail' = ctail /\ next' = next /\ prev' = prev /\ out' = out /\ chead' = chead
            BY <1>4 DEF KeepChain
          <5> QED
            BY <4>1, <5>1, <5>2
      <3>2. places' \in Seq([d : D, i : Indexes])
        BY <2>4 DEF Place
      <3> QED
        BY <1>1, <1>4, <2>4, <2>6, <2>7, <2>8, <2>10, <2>14, <3>1, <3>2, Assembled
    <2>16. Step
      <3>1. /\ Items' = SubSeq(Items, 1, Len(Items) - 1) /\ Items # <<>>
            /\ Items[Len(Items)] = ObjectIn(SlotOf(places[last]))
        BY <2>4, <2>5, <2>14, ItemsFront DEF last
      <3>2. Hands' = [Hands EXCEPT ![owner] = Items[Len(Items)]] /\ Hands[owner] = None
        BY <1>1, <1>3, <2>12, <2>14, <3>1, HandsAre
      <3> QED
        BY <1>4, <3>1, <3>2 DEF Step, Queue!Next, Queue!PopHead
    <2> QED
      BY <2>15, <2>16
  <1> QED
    BY <1>5, <1>6

(* ... which is read and given to the caller.                              *)
LEMMA PopHeadTakeFits ==
  ASSUME ChainInv, PopHeadTake
  PROVE  ChainInv' /\ Step
  <1>1. /\ owner \in T /\ dpc[owner] = "popTake" /\ at[owner].d \in D /\ CallFits(owner) /\ ChainTypeOK
        /\ dpc[owner] \in Taking
    BY OwnerFacts, CallFacts DEF PopHeadTake, Taking
  <1>2. PICK d \in D : d = at[owner].d
    BY <1>1
  <1>3. PICK i \in 0..(Size(d) - 1) : i = slot[owner]
    BY <1>1, <1>2, SlotFacts
  <1>4. PICK v \in Obj : v = slots[d][i].val /\ Held(owner) = v
    <2>1. slots[d][i] \in [typ : BOOLEAN, val : Obj \cup {None}]
      BY <1>1 DEF ChainTypeOK
    <2>2. slots[d][i].val # None /\ ObjectIn(Taken(owner)) = slots[d][i].val
      BY <1>1, <1>2, <1>3, SlotFacts DEF Taken, ObjectIn
    <2> QED
      BY <1>1, <2>1, <2>2 DEF Held
  <1>5. PICK e \in [typ : BOOLEAN, val : Obj \cup {None}] : e = Free
    BY DEF Free
  <1>6. PICK a \in [d : 0..MaxDequeues, d2 : 0..MaxDequeues] : a = [d |-> 0, d2 |-> 0]
    BY NoPtrsTyped
  <1>7. /\ Locals(owner, "idle", a, NoPtrs, 0, None)
        /\ WritesSlot(at[owner].d, slot[owner], e)
        /\ KeepChain /\ UNCHANGED <<headTail, places, chead>> /\ out' = out \cup {v}
    <2>1. Locals(owner, "idle", a, NoPtrs, 0, None)
      BY <1>1, <1>6 DEF PopHeadTake, DReturn, Locals
    <2>2. WritesSlot(at[owner].d, slot[owner], e)
      BY <1>5 DEF PopHeadTake, WritesSlot
    <2>3. v # None
      BY ObjAssumption
    <2> QED
      BY <1>2, <1>3, <1>4, <2>1, <2>2, <2>3 DEF PopHeadTake, DReturn, KeepChain
  <1>9. OnlyThread(owner) /\ ChainLocalsOK' /\ dpc'[owner] = "idle" /\ at'[owner] = a /\ hand'[owner] = None
    <2>1. NoPtrs \in [head : Indexes, tail : Indexes] /\ 0 \in Nat /\ None \in Obj \cup {None}
      BY NoPtrsTyped
    <2>2. "idle" \in {"idle"} \cup Pushing \cup Popping \cup PoppingTail
      OBVIOUS
    <2> QED
      BY <1>1, <1>7, <2>1, <2>2, LocalsMove
  <1>10. /\ SlotsOK' /\ headTail' \in [D -> [head : Indexes, tail : Indexes]]
         /\ places' \in Seq([d : D, i : Indexes])
         /\ PlacesFit' /\ SlotsFit'
         /\ (\A x \in D : Filled(x)' = Filled(x) /\ Filled(x) \in Nat)
         /\ Items' = Items /\ (\A u \in T \ {owner} : Held(u)' = Held(u))
         /\ Held(owner)' = hand'[owner]
    BY <1>1, <1>7, <1>9, OwnSlotFits
  <1>11. \A x \in D : Filled(x)' \in Nat /\ Filled(x)' <= Filled(x)
    BY <1>10
  <1>12. LinksFit'
    BY <1>7, <1>11, LinksKept
  <1>13. CallFits(owner)'
    BY <1>9 DEF CallFits, Pushing, Popping, PoppingTail
  <1>14. ChainInv'
    <2>1. /\ chead' \in 0..MaxDequeues /\ ctail' \in 0..MaxDequeues /\ next' \in [D -> 0..MaxDequeues]
          /\ prev' \in [D -> 0..MaxDequeues] /\ out' \subseteq Obj /\ chead <= chead' /\ chead' = chead
      BY <1>1, <1>7, CallFacts DEF ChainTypeOK, KeepChain
    <2> QED
      BY <1>1, <1>9, <1>10, <1>11, <1>12, <1>13, <2>1, Assembled
  <1>15. Step
    <2>1. v # None
      BY ObjAssumption
    <2> QED
      BY <1>1, <1>4, <1>7, <1>9, <1>10, <2>1, ReturnStep
  <1> QED
    BY <1>14, <1>15

-----------------------------------------------------------------------------
(* At first there are no dequeues and no objects in them.                  *)
LEMMA ChainStart == ChainInit => ChainInv /\ Queue!Init
  <1> SUFFICES ASSUME ChainInit
               PROVE  ChainInv /\ Queue!Init
    OBVIOUS
  <1>1. NoPtrs \in [head : Indexes, tail : Indexes] /\ NoPtrs.head = 0 /\ NoPtrs.tail = 0
    BY NoPtrsTyped DEF NoPtrs
  <1>2. MaxDequeues \in Nat /\ 0 \in 0..MaxDequeues
        /\ [d |-> 0, d2 |-> 0] \in [d : 0..MaxDequeues, d2 : 0..MaxDequeues]
    BY NoPtrsTyped, SizeAssumption
  <1>3. ChainTypeOK
    BY <1>1, <1>2 DEF ChainInit, ChainTypeOK, Free
  <1>4. \A d \in D : Filled(d) = 0 /\ Size(d) \in Nat
    <2>1. \A d \in D : headTail[d].head = headTail[d].tail
      BY <1>1 DEF ChainInit
    <2> QED
      BY <1>3, <2>1, Distances, SizeIs
  <1>5. LinksFit
    BY <1>4 DEF LinksFit, ChainInit, D
  <1>6. \A t \in T : CallFits(t)
    BY DEF ChainInit, CallFits, Pushing, Popping, PoppingTail
  <1>7. PlacesFit
    <2>1. \A x \in D, i \in Indexes : ~(Before([d |-> x, i |-> i]) < Filled(x))
      <3> SUFFICES ASSUME NEW x \in D, NEW i \in Indexes
                   PROVE  ~(Before([d |-> x, i |-> i]) < Filled(x))
        OBVIOUS
      <3>1. Before([d |-> x, i |-> i]) \in Nat
        BY <1>3, Typed
      <3> QED
        BY <1>4, <3>1
    <2> QED
      BY <2>1 DEF PlacesFit, ChainInit
  <1>8. SlotsFit
    BY DEF SlotsFit, ChainInit, Taking, T
  <1>9. Queue!Init
    <2>1. Items = <<>>
      BY DEF Items, ChainInit
    <2>2. Hands = [t \in T |-> None]
      BY DEF Hands, Held, ChainInit
    <2> QED
      BY <2>1, <2>2 DEF Queue!Init, ChainInit
  <1> QED
    BY <1>3, <1>5, <1>6, <1>7, <1>8, <1>9 DEF ChainInv

(* Every step keeps ChainInv and is one of the deque, or none of it.       *)
LEMMA ChainStep == ChainInv /\ [ChainNext]_chainVars => ChainInv' /\ Step
  <1> SUFFICES ASSUME ChainInv, [ChainNext]_chainVars
               PROVE  ChainInv' /\ Step
    OBVIOUS
  <1>1. CASE HeadStep
    BY <1>1, PushHeadFits, PushLoadFits, PushSlotFits, PushAddFits, GrowFits,
       PopHeadFits, PopHeadLoadFits, PopHeadCasFits, PopHeadTakeFits, PopHeadPrevFits DEF HeadStep
  <1>2. ASSUME NEW t \in T, TailStep(t)
        PROVE  ChainInv' /\ Step
    BY <1>2, PopTailFits, TailNextFits, TailLoadFits, TailCasFits,
       TailReadFits, TailClearFits, TailDropFits, TailUnlinkFits DEF TailStep
  <1>3. CASE UNCHANGED chainVars
    <2>1. ChainInv'
      BY <1>3 DEF chainVars, ChainInv, ChainTypeOK, LinksFit, CallFits, PlacesFit, SlotsFit,
                  Filled, Before, SlotOf, Index, Taken, ObjectIn
    <2>2. Items' = Items /\ Hands' = Hands /\ out' = out
      BY <1>3 DEF chainVars, Items, Hands, Held, SlotOf, Index, Taken, ObjectIn
    <2> QED
      BY <2>1, <2>2 DEF Step, Queue!vars
  <1> QED
    BY <1>1, <1>2, <1>3 DEF ChainNext

(* ChainInv is inductive: the objects are the ones between tail and head   *)
(* of each dequeue, oldest dequeue first, each in a slot of its own that   *)
(* no call has, and no call waits at a dequeue that something was pushed   *)
(* to after it was passed.                                                 *)
THEOREM ChainInvariance == ChainSpec => []ChainInv
  <1>1. ChainInit => ChainInv
    BY ChainStart
  <1>2. ChainInv /\ [ChainNext]_chainVars => ChainInv'
    BY ChainStep
  <1> QED
    BY <1>1, <1>2, PTL DEF ChainSpec

(* The lock-free queues below sync.Pool are a deque: pushHead, popHead and *)
(* popTail each take effect at one atomic operation, no object is lost or  *)
(* handed out twice, and a pop returns what was pushed, for any number of  *)
(* consumers and dequeues, however the indexes wrap around.                *)
THEOREM ChainIsADeque == ChainSpec => DequeSpec
  <1>1. ChainInit => Queue!Init
    BY ChainStart
  <1>2. ChainInv /\ [ChainNext]_chainVars => [Queue!Next]_(Queue!vars)
    BY ChainStep DEF Step
  <1> QED
    BY <1>1, <1>2, ChainInvariance, PTL DEF ChainSpec, DequeSpec, Queue!Spec

-----------------------------------------------------------------------------
(* Map.                                                                    *)
USE NoneAssumption, NoneAssumptions, ValAssumption
    DEF Nil, Expunged, Entry, MPC, WithEntry

-----------------------------------------------------------------------------
(* MapInv without the history variable, in parts.                          *)

LocalsOK ==
  /\ mpc \in [G -> MPC]
  /\ call \in [G -> Calls \cup {None}]
  /\ entry \in [G -> Entry \cup {None}]
  /\ result \in [G -> {<<>>} \cup {<<v>> : v \in Val \cup {None}}]

MapsOK ==
  /\ mu \in G \cup {None}
  /\ read \in [m : [Key -> Entry \cup {None}], amended : BOOLEAN]
  /\ dirty \in [Key -> Entry \cup {None}] \cup {None}
  /\ misses \in Nat
  /\ p \in [Key -> [Entry -> Val \cup {Nil, Expunged}]]
  /\ todo \in SUBSET Key

Core == LocalsOK /\ MapsOK /\ CallsMatch /\ CopyInv /\ MapsFit /\ EntriesKnown

(* g moves to s, with the call c and the entry e in hand and the result r. *)
Moves(g, s, c, e, r) ==
  /\ mpc'[g] = s /\ call'[g] = c /\ entry'[g] = e /\ result'[g] = r
  /\ \A h \in G \ {g} :
       mpc'[h] = mpc[h] /\ call'[h] = call[h] /\ entry'[h] = entry[h] /\ result'[h] = result[h]

(* The pointer of entry e of key k becomes q.                              *)
Writes(k, e, q) ==
  \A j \in Key, f \in Entry : p'[j][f] = IF j = k /\ f = e THEN q ELSE p[j][f]

-----------------------------------------------------------------------------
(* What a call is made of.                                                 *)
LEMMA CallFields ==
  ASSUME NEW c \in Calls
  PROVE  /\ c.key \in Key
         /\ c # None
         /\ c.op \in {"Load", "LoadAndDelete", "Range", "Store", "LoadOrStore"}
         /\ c.op \in {"Store", "LoadOrStore"} => c.val \in Val
  BY DEF Calls

(* A goroutine that goes on with its call.                                 *)
LEMMA GoOnMoves ==
  ASSUME LocalsOK, NEW g \in G, NEW c \in Calls, NEW s \in MPC, NEW e \in Entry \cup {None},
         MGoOn(g, c, s, e)
  PROVE  LocalsOK' /\ Moves(g, s, c, e, result[g])
  BY DEF LocalsOK, MGoOn, Moves

(* A goroutine whose call returns.                                         *)
LEMMA ReturnMoves ==
  ASSUME LocalsOK, NEW g \in G, NEW v \in Val \cup {None}, MReturn(g, v)
  PROVE  LocalsOK' /\ Moves(g, "returned", None, None, <<v>>)
  <1>1. mpc' \in [G -> MPC] /\ call' \in [G -> Calls \cup {None}] /\ entry' \in [G -> Entry \cup {None}]
    BY DEF LocalsOK, MReturn
  <1>2. <<v>> \in {<<>>} \cup {<<u>> : u \in Val \cup {None}}
    OBVIOUS
  <1>3. result' \in [G -> {<<>>} \cup {<<u>> : u \in Val \cup {None}}]
    BY <1>2 DEF LocalsOK, MReturn
  <1>4. Moves(g, "returned", None, None, <<v>>)
    BY DEF LocalsOK, MReturn, Moves
  <1> QED
    BY <1>1, <1>3, <1>4 DEF LocalsOK

(* A write to a pointer.                                                   *)
LEMMA PutWrites ==
  ASSUME MapsOK, NEW k \in Key, NEW e \in Entry, NEW q \in Val \cup {Nil, Expunged},
         p' = [p EXCEPT ![k][e] = q]
  PROVE  p' \in [Key -> [Entry -> Val \cup {Nil, Expunged}]] /\ Writes(k, e, q)
  BY DEF MapsOK, Writes

(* The value behind a pointer.                                             *)
LEMMA ValueType ==
  ASSUME NEW q \in Val \cup {Nil, Expunged}
  PROVE  /\ Value(q) \in Val \cup {None}
         /\ Value(q) = None <=> q \in {Nil, Expunged}
         /\ Value(q) # None => Value(q) = q
  BY DEF Value

-----------------------------------------------------------------------------
(* The goroutines.  What a step of g must see to, so that the goroutines   *)
(* still match: g itself is where s, c and e say, the lock of the others   *)
(* is left alone, and what they know of their entries stays true.          *)

Matches(g, s, c, e, r) ==
  /\ s = "returned" <=> r # <<>>
  /\ s \in {"entryLocked", "copy"} <=> mu' = g
  /\ s \in {"idle", "returned"} <=> c = None
  /\ s \in WithEntry <=> e # None
  /\ c # None => c.op \in OpsAt(s)
  /\ s \in {"delete", "tryStore", "tryLoadOrStore"} => p'[c.key][e] = Expunged \/ e = read'.m[c.key]
  /\ s = "entryLocked" => p'[c.key][e] # Expunged /\ e = read'.m[c.key]

OthersLock(g) == \A h \in G \ {g} : mu' = h <=> mu = h

SameExpunged == \A k \in Key, e \in Entry : p'[k][e] = Expunged <=> p[k][e] = Expunged

KnownStays ==
  \A k \in Key, e \in Entry :
    p[k][e] = Expunged \/ e = read.m[k] => p'[k][e] = Expunged \/ e = read'.m[k]

(* Then the calls match their steps, and what they know stays true.        *)
LEMMA GoroutinesMatch ==
  ASSUME LocalsOK, CallsMatch, EntriesKnown, NEW g \in G, NEW s, NEW c, NEW e, NEW r,
         Moves(g, s, c, e, r), Matches(g, s, c, e, r), OthersLock(g), KnownStays,
         mu \in {None, g} \/ (read' = read /\ SameExpunged)
  PROVE  CallsMatch' /\ EntriesKnown'
  <1>1. CallsMatch'
    BY DEF CallsMatch, Moves, Matches, OthersLock
  <1>2. ASSUME NEW h \in G
        PROVE  /\ mpc'[h] \in {"delete", "tryStore", "tryLoadOrStore"} =>
                    p'[call'[h].key][entry'[h]] = Expunged \/ entry'[h] = read'.m[call'[h].key]
               /\ mpc'[h] = "entryLocked" =>
                    p'[call'[h].key][entry'[h]] # Expunged /\ entry'[h] = read'.m[call'[h].key]
    <2>1. CASE h = g
      BY <2>1 DEF Moves, Matches
    <2>2. CASE h # g
      <3>1. mpc'[h] = mpc[h] /\ call'[h] = call[h] /\ entry'[h] = entry[h]
        BY <2>2 DEF Moves
      <3>2. mpc[h] \in {"delete", "tryStore", "tryLoadOrStore", "entryLocked"} => call[h].key \in Key /\ entry[h] \in Entry
        <4> SUFFICES ASSUME mpc[h] \in {"delete", "tryStore", "tryLoadOrStore", "entryLocked"}
                     PROVE  call[h].key \in Key /\ entry[h] \in Entry
          OBVIOUS
        <4>1. call[h] \in Calls
          BY DEF CallsMatch, LocalsOK
        <4> QED
          BY <4>1, CallFields DEF CallsMatch, LocalsOK
      <3>3. mpc[h] \in {"delete", "tryStore", "tryLoadOrStore"} =>
              p[call[h].key][entry[h]] = Expunged \/ entry[h] = read.m[call[h].key]
        BY DEF EntriesKnown, The
      <3>4. mpc[h] = "entryLocked" =>
              p[call[h].key][entry[h]] # Expunged /\ entry[h] = read.m[call[h].key]
        BY DEF EntriesKnown, The
      <3>5. mpc[h] = "entryLocked" => read' = read /\ SameExpunged
        BY <2>2 DEF CallsMatch
      <3> QED
        BY <3>1, <3>2, <3>3, <3>4, <3>5 DEF KnownStays, SameExpunged
    <2> QED
      BY <2>1, <2>2
  <1>3. EntriesKnown'
    BY <1>2 DEF EntriesKnown, The
  <1> QED
    BY <1>1, <1>3

-----------------------------------------------------------------------------
(* The maps.  What the lock means for dirtyLocked: with m.mu free nobody   *)
(* is in it, and nothing is left to copy.                                  *)
LEMMA NobodyCopies ==
  ASSUME Core, mu = None
  PROVE  todo = {} /\ \A h \in G : mpc[h] # "copy"
  BY DEF Core, CallsMatch, CopyInv

(* The goroutine in dirtyLocked is alone there, with m.mu.                 *)
LEMMA AloneCopies ==
  ASSUME Core, NEW g \in G, mpc[g] = "copy"
  PROVE  mu = g /\ \A h \in G : mpc[h] = "copy" => h = g
  BY DEF Core, CallsMatch

(* Nobody enters or leaves dirtyLocked.                                    *)
SameCopier ==
  \A h \in G : /\ mpc'[h] = "copy" <=> mpc[h] = "copy"
               /\ mpc[h] = "copy" => call'[h] = call[h]

(* A step of a goroutine that is not in dirtyLocked and does not get there.*)
LEMMA MovesOutside ==
  ASSUME NEW g \in G, NEW s, NEW c, NEW e, NEW r, Moves(g, s, c, e, r), mpc[g] # "copy", s # "copy"
  PROVE  SameCopier
  BY DEF Moves, SameCopier

(* The maps stay.                                                          *)
LEMMA MapsStay ==
  ASSUME Core, SameCopier, SameExpunged, read' = read, dirty' = dirty, todo' = todo
  PROVE  CopyInv' /\ MapsFit' /\ KnownStays
  <1> read.m \in [Key -> Entry \cup {None}] /\ dirty \in [Key -> Entry \cup {None}] \cup {None}
    BY DEF Core, MapsOK
  <1>1. CopyInv'
    BY DEF Core, CopyInv, SameCopier
  <1>2. ASSUME NEW k \in Key, read.m[k] # None
        PROVE  p'[k][read.m[k]] = Expunged <=> p[k][read.m[k]] = Expunged
    BY <1>2 DEF SameExpunged
  <1>3. ASSUME NEW k \in Key, Lookup(dirty, k) # None
        PROVE  p'[k][dirty[k]] # Expunged
    BY <1>3 DEF SameExpunged, Lookup, Core, MapsFit
  <1>4. MapsFit'
    BY <1>2, <1>3 DEF Core, MapsFit, SameCopier, Lookup
  <1> QED
    BY <1>1, <1>4 DEF KnownStays, SameExpunged

(* The dirty map loses a key that read.m does not have, or nothing.        *)
Shrinks(d) ==
  /\ dirty # None /\ d \in [Key -> Entry \cup {None}]
  /\ \A k \in Key : d[k] = dirty[k] \/ (d[k] = None /\ read.m[k] = None)

(* The dirty map does not become the read map.                             *)
LEMMA DirtyShrinks ==
  ASSUME Core, mu = None, SameCopier, SameExpunged, NEW d, Shrinks(d),
         read' = read, dirty' = d, todo' = todo
  PROVE  CopyInv' /\ MapsFit' /\ KnownStays
  <1> read.m \in [Key -> Entry \cup {None}] /\ dirty \in [Key -> Entry \cup {None}] \cup {None}
    BY DEF Core, MapsOK
  <1> d # None
    BY DEF Shrinks
  <1>1. CopyInv'
    BY NobodyCopies DEF CopyInv, SameCopier
  <1>2. ASSUME NEW k \in Key, read.m[k] # None
        PROVE  p'[k][read.m[k]] = Expunged <=> p[k][read.m[k]] = Expunged
    BY <1>2 DEF SameExpunged
  <1>3. ASSUME NEW k \in Key, d[k] # None
        PROVE  p'[k][d[k]] # Expunged
    BY <1>3 DEF SameExpunged, Lookup, Core, MapsFit, Shrinks
  <1>4. MapsFit'
    BY <1>2, <1>3 DEF Core, MapsFit, SameCopier, Lookup, Shrinks
  <1> QED
    BY <1>1, <1>4 DEF KnownStays, SameExpunged

(* The dirty map becomes the read map.                                     *)
LEMMA DirtyPromoted ==
  ASSUME Core, mu = None, SameCopier, SameExpunged, NEW d, Shrinks(d), Promote(d), todo' = todo
  PROVE  CopyInv' /\ MapsFit' /\ KnownStays
  <1> read.m \in [Key -> Entry \cup {None}] /\ dirty \in [Key -> Entry \cup {None}] \cup {None}
    BY DEF Core, MapsOK
  <1> d # None
    BY DEF Shrinks
  <1>0. read'.m = d /\ read'.amended = FALSE /\ dirty' = None
    BY DEF Promote
  <1>1. CopyInv'
    BY NobodyCopies DEF CopyInv, SameCopier
  <1>2. ASSUME NEW k \in Key, d[k] # None
        PROVE  p'[k][d[k]] # Expunged
    BY <1>2 DEF SameExpunged, Lookup, Core, MapsFit, Shrinks
  <1>3. MapsFit'
    BY <1>0, <1>2 DEF MapsFit, Lookup
  <1>4. ASSUME NEW k \in Key, NEW e \in Entry, e = read.m[k], p[k][e] # Expunged
        PROVE  d[k] = e
    BY <1>4, NobodyCopies DEF Core, MapsFit, Shrinks
  <1> QED
    BY <1>0, <1>1, <1>3, <1>4 DEF KnownStays, SameExpunged

(* A step that leaves the maps as they are.                                *)
LEMMA LocalStep ==
  ASSUME Core, LocalsOK', MapsOK', NEW g \in G, NEW s, NEW c, NEW e, NEW r,
         Moves(g, s, c, e, r), Matches(g, s, c, e, r), OthersLock(g), mpc[g] # "copy", s # "copy",
         SameExpunged, read' = read, dirty' = dirty, todo' = todo
  PROVE  Core'
  <1>1. CopyInv' /\ MapsFit' /\ KnownStays
    BY MovesOutside, MapsStay
  <1>2. CallsMatch' /\ EntriesKnown'
    BY <1>1, GoroutinesMatch DEF Core
  <1> QED
    BY <1>1, <1>2 DEF Core

(* A step under m.mu after which the dirty map has d, or the read map does.*)
LEMMA MissStep ==
  ASSUME Core, LocalsOK', MapsOK', mu = None, mu' = mu, NEW g \in G, NEW s, NEW c, NEW e, NEW r,
         Moves(g, s, c, e, r), Matches(g, s, c, e, r), mpc[g] # "copy", s # "copy",
         SameExpunged, NEW d, Shrinks(d), (read' = read /\ dirty' = d) \/ Promote(d), todo' = todo
  PROVE  Core'
  <1>1. CopyInv' /\ MapsFit' /\ KnownStays
    BY MovesOutside, DirtyShrinks, DirtyPromoted
  <1>2. CallsMatch' /\ EntriesKnown'
    BY <1>1, GoroutinesMatch DEF Core, OthersLock
  <1> QED
    BY <1>1, <1>2 DEF Core

-----------------------------------------------------------------------------
(* The steps without the lock.                                             *)

(* A call goes on, without a change to the maps.                           *)
LEMMA GoOnCore ==
  ASSUME Core, NEW g \in G, NEW c \in Calls, NEW s \in MPC, NEW e \in Entry \cup {None},
         MGoOn(g, c, s, e), mpc[g] \notin {"copy", "entryLocked", "returned"}, UNCHANGED <<mu, read, dirty, misses, p, todo>>,
         s \in {"load", "delete", "deleteRemoved", "tryStore", "tryLoadOrStore", "lock"},
         s \in WithEntry <=> e # None, c.op \in OpsAt(s),
         s \in {"delete", "tryStore", "tryLoadOrStore"} => e = read.m[c.key]
  PROVE  Core'
  <1>1. LocalsOK' /\ Moves(g, s, c, e, result[g])
    BY GoOnMoves DEF Core
  <1>2. MapsOK'
    BY DEF Core, MapsOK
  <1>3. Matches(g, s, c, e, result[g])
    BY CallFields DEF Matches, Core, CallsMatch
  <1>4. OthersLock(g) /\ SameExpunged
    BY DEF OthersLock, SameExpunged
  <1> QED
    BY <1>1, <1>2, <1>3, <1>4, LocalStep

(* A call returns, without a change to the maps.                           *)
LEMMA ReturnCore ==
  ASSUME Core, NEW g \in G, NEW v \in Val \cup {None}, MReturn(g, v), mpc[g] # "copy",
         MapsOK', SameExpunged, mu' = IF mpc[g] = "entryLocked" THEN None ELSE mu,
         UNCHANGED <<read, dirty, todo>>
  PROVE  Core'
  <1>1. LocalsOK' /\ Moves(g, "returned", None, None, <<v>>)
    BY ReturnMoves DEF Core
  <1>2. Matches(g, "returned", None, None, <<v>>)
    BY DEF Matches, Core, CallsMatch
  <1>3. OthersLock(g)
    BY DEF OthersLock, Core, CallsMatch
  <1> QED
    BY <1>1, <1>2, <1>3, LocalStep

(* The entries that the maps have.                                         *)
LEMMA ReadEntries ==
  ASSUME Core, NEW k \in Key
  PROVE  /\ read.m[k] \in Entry \cup {None}
         /\ dirty # None => dirty[k] \in Entry \cup {None}
         /\ Lookup(dirty, k) \in Entry \cup {None}
         /\ \A e \in Entry : p[k][e] \in Val \cup {Nil, Expunged}
  <1>1. read.m \in [Key -> Entry \cup {None}] /\ dirty \in [Key -> Entry \cup {None}] \cup {None}
    BY DEF Core, MapsOK
  <1>2. p[k] \in [Entry -> Val \cup {Nil, Expunged}]
    BY DEF Core, MapsOK
  <1> QED
    BY <1>1, <1>2 DEF Lookup

(* A lookup in read.m.                                                     *)
LEMMA FoundCore ==
  ASSUME Core, NEW g \in G, NEW c \in Calls, NEW s \in {"load", "delete", "deleteRemoved"},
         Found(g, c, read.m[c.key], s), mpc[g] \notin {"copy", "entryLocked", "returned"},
         c.op \in OpsAt(s), UNCHANGED <<mu, read, dirty, misses, p, todo>>
  PROVE  Core'
  <1>0. read.m[c.key] \in Entry \cup {None}
    BY CallFields, ReadEntries
  <1>1. CASE read.m[c.key] = None
    <2>1. MapsOK' /\ SameExpunged
      BY DEF Core, MapsOK, SameExpunged
    <2> QED
      BY <1>1, <2>1, ReturnCore DEF Found
  <1>2. CASE read.m[c.key] # None
    BY <1>0, <1>2, GoOnCore DEF Found
  <1> QED
    BY <1>1, <1>2

(* The first step of a call.                                               *)
LEMMA InvokeCore ==
  ASSUME Core, NEW g \in G, NEW c \in Calls, Invoke(g, c)
  PROVE  Core'
  <1> mpc[g] = "idle" /\ UNCHANGED <<mu, read, dirty, misses, p, todo>>
    BY DEF Invoke, Load, LoadAndDelete, Range, Store, LoadOrStore, MBegin, KeepMaps
  <1> c.key \in Key /\ read.m[c.key] \in Entry \cup {None}
    BY CallFields, ReadEntries
  <1>1. ASSUME c.op = "Load", Find(g, c, "load") PROVE Core'
    BY <1>1, FoundCore, GoOnCore DEF Find, OpsAt
  <1>2. ASSUME c.op = "LoadAndDelete", Find(g, c, "delete") PROVE Core'
    BY <1>2, FoundCore, GoOnCore DEF Find, OpsAt
  <1>3. CASE Range(g, c)
    BY <1>3, FoundCore, GoOnCore DEF Range, MBegin, OpsAt
  <1>4. ASSUME c.op = "Store", FindToStore(g, c, "tryStore") PROVE Core'
    BY <1>4, GoOnCore DEF FindToStore, OpsAt
  <1>5. ASSUME c.op = "LoadOrStore", FindToStore(g, c, "tryLoadOrStore") PROVE Core'
    BY <1>5, GoOnCore DEF FindToStore, OpsAt
  <1> QED
    BY <1>1, <1>2, <1>3, <1>4, <1>5 DEF Invoke, Load, LoadAndDelete, Store, LoadOrStore, MBegin

-----------------------------------------------------------------------------
(* The steps at an entry.                                                  *)

(* What a goroutine with an entry in hand has there.                       *)
LEMMA InHand ==
  ASSUME Core, NEW g \in G, mpc[g] \in WithEntry
  PROVE  /\ call[g] \in Calls /\ call[g].key \in Key /\ entry[g] \in Entry
         /\ The(g) \in Val \cup {Nil, Expunged}
         /\ mpc[g] \in {"tryStore", "tryLoadOrStore", "entryLocked"} => call[g].val \in Val
  <1>1. call[g] \in Calls /\ entry[g] \in Entry
    BY DEF Core, LocalsOK, CallsMatch
  <1>2. call[g].key \in Key
    BY <1>1, CallFields
  <1>3. mpc[g] \in {"tryStore", "tryLoadOrStore", "entryLocked"} => call[g].op \in {"Store", "LoadOrStore"}
    BY <1>1, CallFields DEF Core, CallsMatch, OpsAt
  <1> QED
    BY <1>1, <1>2, <1>3, ReadEntries, CallFields DEF The

(* A write that keeps the pointer away from expunged.                      *)
LEMMA PutKeeps ==
  ASSUME Core, NEW g \in G, call[g].key \in Key, NEW e \in Entry, NEW q \in Val \cup {Nil}, Put(g, e, q),
         p[call[g].key][e] # Expunged
  PROVE  p' \in [Key -> [Entry -> Val \cup {Nil, Expunged}]] /\ SameExpunged
  <1>1. p' \in [Key -> [Entry -> Val \cup {Nil, Expunged}]] /\ Writes(call[g].key, e, q)
    BY PutWrites DEF Put, Core
  <1> QED
    BY <1>1 DEF Writes, SameExpunged

(* Store and LoadOrStore at an entry that is not expunged.                 *)
LEMMA StoreKeeps ==
  ASSUME Core, NEW g \in G, call[g].key \in Key, call[g].val \in Val, NEW e \in Entry,
         p[call[g].key][e] # Expunged, StoreTo(g, e) \/ LoadOrStoreTo(g, e)
  PROVE  /\ p' \in [Key -> [Entry -> Val \cup {Nil, Expunged}]] /\ SameExpunged
         /\ \E v \in Val \cup {None} : MReturn(g, v)
  <1>1. p[call[g].key][e] \in Val \cup {Nil, Expunged}
    BY ReadEntries
  <1>2. UNCHANGED p \/ Put(g, e, call[g].val)
    BY DEF StoreTo, LoadOrStoreTo
  <1>3. UNCHANGED p => p' \in [Key -> [Entry -> Val \cup {Nil, Expunged}]] /\ SameExpunged
    BY DEF Core, MapsOK, SameExpunged
  <1>4. \E v \in Val \cup {None} : MReturn(g, v)
    BY <1>1, ValueType DEF StoreTo, LoadOrStoreTo
  <1> QED
    BY <1>2, <1>3, <1>4, PutKeeps

(* load, delete, tryStore and tryLoadOrStore preserve Core.                *)
LEMMA EntryStepCore ==
  ASSUME Core, NEW g \in G, EntryStep(g)
  PROVE  Core'
  <1> mpc[g] \in {"load", "delete", "deleteRemoved", "tryStore", "tryLoadOrStore"}
      /\ UNCHANGED <<mu, read, dirty, misses, todo>>
    BY DEF EntryStep, load, delete, tryStore, tryLoadOrStore, AtEntry, KeepMaps
  <1>1. /\ call[g] \in Calls /\ call[g].key \in Key /\ entry[g] \in Entry
        /\ The(g) \in Val \cup {Nil, Expunged} /\ Value(The(g)) \in Val \cup {None}
    BY InHand, ValueType
  <1>2. ASSUME p' \in [Key -> [Entry -> Val \cup {Nil, Expunged}]], SameExpunged,
               NEW v \in Val \cup {None}, MReturn(g, v)
        PROVE  Core'
    <2>1. MapsOK'
      BY <1>2 DEF Core, MapsOK
    <2> QED
      BY <1>2, <2>1, ReturnCore
  <1>3. UNCHANGED p => p' \in [Key -> [Entry -> Val \cup {Nil, Expunged}]] /\ SameExpunged
    BY DEF Core, MapsOK, SameExpunged
  <1>4. CASE load(g)
    BY <1>1, <1>2, <1>3, <1>4 DEF load
  <1>5. CASE delete(g)
    <2>1. Value(The(g)) # None => The(g) # Expunged
      BY <1>1, ValueType
    <2> QED
      BY <1>1, <1>2, <1>3, <1>5, <2>1, PutKeeps DEF delete, The
  <1>6. ASSUME GoLock(g) PROVE Core'
    BY <1>1, <1>6, GoOnCore, CallFields DEF GoLock, OpsAt
  <1>7. ASSUME The(g) # Expunged, mpc[g] \in {"tryStore", "tryLoadOrStore"},
               StoreTo(g, entry[g]) \/ LoadOrStoreTo(g, entry[g])
        PROVE  Core'
    BY <1>1, <1>2, <1>7, StoreKeeps, InHand DEF The
  <1> QED
    BY <1>4, <1>5, <1>6, <1>7 DEF EntryStep, tryStore, tryLoadOrStore, AtEntry

(* The caller has got the result.                                          *)
LEMMA ReturnedCore ==
  ASSUME Core, NEW g \in G, MReturned(g)
  PROVE  Core'
  <1>1. LocalsOK' /\ MapsOK' /\ SameExpunged
    BY DEF Core, LocalsOK, MapsOK, SameExpunged, MReturned, KeepMaps
  <1>2. Moves(g, "idle", None, None, <<>>)
    BY DEF Core, LocalsOK, CallsMatch, MReturned, Moves
  <1>3. Matches(g, "idle", None, None, <<>>) /\ OthersLock(g)
    BY DEF Core, CallsMatch, MReturned, Matches, OthersLock
  <1> QED
    BY <1>1, <1>2, <1>3, LocalStep DEF MReturned, KeepMaps

-----------------------------------------------------------------------------
(* The critical sections of m.mu.                                          *)

(* A goroutine before m.mu has a call, and no entry in hand.               *)
LEMMA AtLock ==
  ASSUME Core, NEW g \in G, mpc[g] = "lock"
  PROVE  call[g] \in Calls /\ call[g].key \in Key /\ entry[g] = None
  BY CallFields DEF Core, LocalsOK, CallsMatch

(* The dirty map without key k, which read.m does not have.                *)
LEMMA DirtyWithout ==
  ASSUME Core, NEW k \in Key, dirty # None, read.m[k] = None
  PROVE  Shrinks(dirty) /\ Shrinks([dirty EXCEPT ![k] = None])
  BY DEF Core, MapsOK, Shrinks

(* missLocked, after a lookup under the lock or a store.                   *)
LEMMA MissCore ==
  ASSUME Core, mu = None, mu' = mu, NEW g \in G, NEW s, NEW c, NEW e, NEW r,
         LocalsOK', Moves(g, s, c, e, r), Matches(g, s, c, e, r),
         mpc[g] # "copy", s # "copy", p' \in [Key -> [Entry -> Val \cup {Nil, Expunged}]], SameExpunged,
         NEW d, Shrinks(d), missLocked(d) \/ Promote(d), todo' = todo
  PROVE  Core'
  <1>1. (read' = read /\ dirty' = d) \/ Promote(d)
    BY DEF missLocked
  <1>2. misses' \in Nat
    BY DEF Core, MapsOK, missLocked, Promote
  <1>3. /\ read' \in [m : [Key -> Entry \cup {None}], amended : BOOLEAN]
        /\ dirty' \in [Key -> Entry \cup {None}] \cup {None}
    <2>1. CASE read' = read /\ dirty' = d
      BY <2>1 DEF Core, MapsOK, Shrinks
    <2>2. CASE Promote(d)
      <3>1. [m |-> d, amended |-> FALSE] \in [m : [Key -> Entry \cup {None}], amended : BOOLEAN]
        BY DEF Shrinks
      <3> QED
        BY <2>2, <3>1 DEF Promote
    <2> QED
      BY <1>1, <2>1, <2>2
  <1>4. MapsOK'
    BY <1>2, <1>3 DEF Core, MapsOK
  <1> QED
    BY <1>1, <1>4, MissStep

(* The same for a lookup.                                                  *)
LEMMA FoundMissCore ==
  ASSUME Core, mu = None, NEW g \in G, mpc[g] = "lock",
         NEW s \in {"load", "deleteRemoved"}, call[g].op \in OpsAt(s),
         NEW e \in Entry \cup {None}, Found(g, call[g], e, s),
         NEW d, Shrinks(d), missLocked(d) \/ Promote(d), UNCHANGED <<mu, p, todo>>
  PROVE  Core'
  <1>1. p' \in [Key -> [Entry -> Val \cup {Nil, Expunged}]] /\ SameExpunged
    BY DEF Core, MapsOK, SameExpunged
  <1>2. CASE e = None
    <2>1. LocalsOK' /\ Moves(g, "returned", None, None, <<None>>)
      BY <1>2, ReturnMoves DEF Found, Core
    <2>2. Matches(g, "returned", None, None, <<None>>)
      BY DEF Matches
    <2> QED
      BY <1>1, <2>1, <2>2, MissCore
  <1>3. CASE e # None
    <2>1. LocalsOK' /\ Moves(g, s, call[g], e, result[g])
      BY <1>3, GoOnMoves, AtLock DEF Found, Core
    <2>2. Matches(g, s, call[g], e, result[g])
      BY <1>3, AtLock DEF Matches, Core, CallsMatch
    <2> QED
      BY <1>1, <2>1, <2>2, MissCore
  <1> QED
    BY <1>2, <1>3

(* Load, LoadAndDelete and Range under the lock.                           *)
LEMMA LookupLockedCore ==
  ASSUME Core, NEW g \in G, LoadLocked(g) \/ LoadAndDeleteLocked(g) \/ RangeLocked(g)
  PROVE  Core'
  <1> mpc[g] = "lock" /\ mu = None /\ UNCHANGED <<mu, p, todo>>
    BY DEF LoadLocked, LoadAndDeleteLocked, RangeLocked, MLocks
  <1> DEFINE k == call[g].key
  <1>1. call[g] \in Calls /\ k \in Key /\ read.m[k] \in Entry \cup {None}
    BY AtLock, ReadEntries
  <1>2. read.amended => dirty # None /\ dirty[k] \in Entry \cup {None}
    BY <1>1, ReadEntries DEF Core, MapsFit
  <1>3. ASSUME KeepMaps, NEW s \in {"load", "delete"}, call[g].op \in OpsAt(s),
               Found(g, call[g], read.m[k], s)
        PROVE  Core'
    <2>1. UNCHANGED <<mu, read, dirty, misses, p, todo>>
      BY <1>3 DEF KeepMaps
    <2>2. mpc[g] \notin {"copy", "entryLocked", "returned"} /\ s \in {"load", "delete", "deleteRemoved"}
      BY <1>3
    <2> QED
      BY <1>1, <1>3, <2>1, <2>2, FoundCore
  <1>4. CASE LoadLocked(g)
    <2>1. call[g].op \in OpsAt("load")
      BY <1>4 DEF LoadLocked, MLocks, OpsAt
    <2>2. CASE read.m[k] = None /\ read.amended
      <3>1. Shrinks(dirty)
        BY <1>1, <1>2, <2>2, DirtyWithout
      <3> QED
        BY <1>2, <1>4, <2>1, <2>2, <3>1, FoundMissCore DEF LoadLocked
    <2> QED
      BY <1>3, <1>4, <2>1, <2>2 DEF LoadLocked
  <1>5. CASE LoadAndDeleteLocked(g)
    <2>1. call[g].op \in OpsAt("delete") /\ call[g].op \in OpsAt("deleteRemoved")
      BY <1>5 DEF LoadAndDeleteLocked, MLocks, OpsAt
    <2>2. CASE read.m[k] = None /\ read.amended
      <3> DEFINE d == [dirty EXCEPT ![k] = None]
      <3>1. Shrinks(d)
        BY <1>1, <1>2, <2>2, DirtyWithout
      <3>2. Found(g, call[g], dirty[k], "deleteRemoved") /\ missLocked(d)
        BY <1>5, <2>2 DEF LoadAndDeleteLocked
      <3>3. dirty[k] \in Entry \cup {None}
        BY <1>2, <2>2
      <3> HIDE DEF d, k
      <3> QED
        BY <2>1, <3>1, <3>2, <3>3, FoundMissCore
    <2> QED
      BY <1>3, <1>5, <2>1, <2>2 DEF LoadAndDeleteLocked
  <1>6. CASE RangeLocked(g)
    <2>1. call[g].op \in OpsAt("load")
      BY <1>6 DEF RangeLocked, MLocks, OpsAt
    <2>2. CASE read.amended
      <3>1. Shrinks(dirty)
        BY <1>2, <2>2 DEF Shrinks, Core, MapsOK
      <3> QED
        BY <1>2, <1>6, <2>1, <2>2, <3>1, FoundMissCore DEF RangeLocked
    <2> QED
      BY <1>3, <1>6, <2>1, <2>2 DEF RangeLocked
  <1> QED
    BY <1>4, <1>5, <1>6

(* A value for an entry that was found under the lock.                     *)
LEMMA EntryLockedCore ==
  ASSUME Core, NEW g \in G, EntryLocked(g)
  PROVE  Core'
  <1>1. mpc[g] = "entryLocked" /\ mu' = None /\ UNCHANGED <<read, dirty, misses, todo>>
    BY DEF EntryLocked, KeepMaps
  <1>2. call[g].key \in Key /\ call[g].val \in Val /\ entry[g] \in Entry
    BY <1>1, InHand
  <1>3. p[call[g].key][entry[g]] # Expunged
    BY <1>1 DEF Core, EntriesKnown, The
  <1>4. /\ p' \in [Key -> [Entry -> Val \cup {Nil, Expunged}]] /\ SameExpunged
        /\ \E v \in Val \cup {None} : MReturn(g, v)
    BY <1>2, <1>3, StoreKeeps DEF EntryLocked
  <1>5. MapsOK'
    BY <1>1, <1>4 DEF Core, MapsOK
  <1> QED
    BY <1>1, <1>4, <1>5, ReturnCore

(* A value for an entry that is in the dirty map only.                     *)
LEMMA DirtyEntryLockedCore ==
  ASSUME Core, NEW g \in G, DirtyEntryLocked(g)
  PROVE  Core'
  <1> DEFINE k == call[g].key
             e == Lookup(dirty, k)
  <1>1. mpc[g] = "lock" /\ mu = None /\ UNCHANGED <<mu, todo>> /\ read.m[k] = None /\ e # None
    BY DEF DirtyEntryLocked, MLocks
  <1>2. call[g].key \in Key /\ call[g].val \in Val /\ e \in Entry
    BY <1>1, AtLock, CallFields, ReadEntries DEF DirtyEntryLocked, MLocks
  <1>3. p[k][e] # Expunged /\ dirty # None
    BY <1>1, <1>2 DEF Core, MapsFit, Lookup
  <1>4. /\ p' \in [Key -> [Entry -> Val \cup {Nil, Expunged}]] /\ SameExpunged
        /\ \E v \in Val \cup {None} : MReturn(g, v)
    BY <1>2, <1>3, StoreKeeps DEF DirtyEntryLocked
  <1>5. CASE KeepMaps
    <2>1. MapsOK'
      BY <1>1, <1>4, <1>5 DEF Core, MapsOK, KeepMaps
    <2> QED
      BY <1>1, <1>4, <1>5, <2>1, ReturnCore DEF KeepMaps
  <1>6. CASE missLocked(dirty)
    <2>0. PICK v \in Val \cup {None} : MReturn(g, v)
      BY <1>4
    <2>1. LocalsOK' /\ Moves(g, "returned", None, None, <<v>>)
      BY <2>0, ReturnMoves DEF Core
    <2>2. Matches(g, "returned", None, None, <<v>>)
      BY <1>1 DEF Matches
    <2>3. Shrinks(dirty)
      BY <1>1, <1>2, <1>3, DirtyWithout
    <2> QED
      BY <1>1, <1>4, <1>6, <2>1, <2>2, <2>3, MissCore
  <1> QED
    BY <1>5, <1>6 DEF DirtyEntryLocked

(* An entry of read.m is unexpunged and comes into the dirty map.          *)
LEMMA UnexpungeCore ==
  ASSUME Core, NEW g \in G, Unexpunge(g)
  PROVE  Core'
  <1> DEFINE k == call[g].key
             e == read.m[k]
  <1>1. /\ mpc[g] = "lock" /\ mu = None /\ mu' = g /\ UNCHANGED <<read, misses, todo>>
        /\ call[g].op \in {"Store", "LoadOrStore"} /\ e # None /\ MGoOn(g, call[g], "entryLocked", e)
    BY DEF Unexpunge, MLocks
  <1>2. call[g] \in Calls /\ k \in Key /\ e \in Entry
    BY <1>1, AtLock, ReadEntries
  <1>3. LocalsOK' /\ Moves(g, "entryLocked", call[g], e, result[g])
    BY <1>1, <1>2, GoOnMoves DEF Core
  <1>4. OthersLock(g) /\ SameCopier
    BY <1>1, <1>3, MovesOutside DEF OthersLock
  <1>5. ASSUME p'[k][e] # Expunged
        PROVE  Matches(g, "entryLocked", call[g], e, result[g])
    BY <1>1, <1>2, <1>5 DEF Matches, OpsAt, Core, CallsMatch
  <1>6. CASE p[k][e] # Expunged
    <2>1. UNCHANGED <<p, dirty>>
      BY <1>6 DEF Unexpunge
    <2>2. MapsOK' /\ SameExpunged
      BY <1>1, <2>1 DEF Core, MapsOK, SameExpunged
    <2> QED
      BY <1>1, <1>3, <1>4, <1>5, <1>6, <2>1, <2>2, LocalStep
  <1>7. CASE p[k][e] = Expunged
    <2>1. Put(g, e, Nil) /\ dirty' = [dirty EXCEPT ![k] = e]
      BY <1>7 DEF Unexpunge
    <2>2. p' \in [Key -> [Entry -> Val \cup {Nil, Expunged}]] /\ Writes(k, e, Nil)
      BY <1>2, <2>1, PutWrites DEF Put, Core
    <2>3. dirty # None /\ read.amended /\ todo = {}
      BY <1>1, <1>2, <1>7, NobodyCopies DEF Core, MapsFit
    <2>4. /\ dirty' \in [Key -> Entry \cup {None}] /\ dirty'[k] = e
          /\ \A j \in Key \ {k} : dirty'[j] = dirty[j]
      BY <1>2, <2>1, <2>3 DEF Core, MapsOK
    <2>5. MapsOK'
      BY <1>1, <2>2, <2>4 DEF Core, MapsOK
    <2>6. KnownStays
      BY <1>1, <2>2 DEF KnownStays, Writes
    <2>7. CallsMatch' /\ EntriesKnown'
      BY <1>1, <1>2, <1>3, <1>4, <1>5, <2>2, <2>6, GoroutinesMatch DEF Core, Writes
    <2>8. CopyInv'
      BY <1>1, <1>4, <2>3, NobodyCopies DEF CopyInv, SameCopier
    <2>9. ASSUME NEW j \in Key
          PROVE  /\ read.m[j] # None => dirty'[j] = IF p'[j][read.m[j]] = Expunged THEN None ELSE read.m[j]
                 /\ dirty'[j] # None => p'[j][dirty'[j]] # Expunged
      <3>1. CASE j = k
        BY <1>2, <2>2, <2>4, <3>1 DEF Writes
      <3>2. CASE j # k
        <4>1. \A f \in Entry : p'[j][f] = p[j][f]
          BY <2>2, <3>2 DEF Writes
        <4> QED
          BY <2>3, <2>4, <3>2, <4>1, ReadEntries DEF Core, MapsFit, Lookup
      <3> QED
        BY <3>1, <3>2
    <2>10. MapsFit'
      BY <1>1, <2>3, <2>4, <2>9 DEF MapsFit, Lookup
    <2> QED
      BY <1>3, <2>5, <2>7, <2>8, <2>10 DEF Core
  <1> QED
    BY <1>6, <1>7

(* dirtyLocked begins.                                                     *)
LEMMA StoreNewCore ==
  ASSUME Core, NEW g \in G, StoreNew(g)
  PROVE  Core'
  <1> DEFINE k == call[g].key
  <1>1. /\ mpc[g] = "lock" /\ mu = None /\ mu' = g /\ UNCHANGED <<read, misses, p>>
        /\ call[g].op \in {"Store", "LoadOrStore"} /\ MGoOn(g, call[g], "copy", None)
        /\ read.m[k] = None /\ Lookup(dirty, k) = None
    BY DEF StoreNew, MLocks
  <1>2. call[g] \in Calls /\ k \in Key
    BY <1>1, AtLock
  <1>3. LocalsOK' /\ Moves(g, "copy", call[g], None, result[g])
    BY <1>1, <1>2, GoOnMoves DEF Core
  <1>4. OthersLock(g) /\ SameExpunged /\ KnownStays
    BY <1>1 DEF OthersLock, SameExpunged, KnownStays
  <1>5. Matches(g, "copy", call[g], None, result[g])
    BY <1>1, <1>2 DEF Matches, OpsAt, Core, CallsMatch
  <1>6. CallsMatch' /\ EntriesKnown'
    BY <1>1, <1>3, <1>4, <1>5, GoroutinesMatch DEF Core
  <1>7. /\ mpc'[g] = "copy" /\ call'[g] = call[g]
        /\ \A h \in G : mpc'[h] = "copy" => h = g
    BY <1>1, <1>3, NobodyCopies DEF Moves
  <1>8. CASE ~read.amended /\ dirty = None
    <2>1. dirty' = Empty /\ todo' = KeysOf(read.m)
      BY <1>8 DEF StoreNew
    <2>2. /\ dirty' \in [Key -> Entry \cup {None}] /\ dirty' # None
          /\ \A j \in Key : dirty'[j] = None
      BY <2>1 DEF Empty
    <2>3. todo' \in SUBSET Key /\ \A j \in Key : j \in todo' <=> read.m[j] # None
      <3>1. read.m # None
        BY DEF Core, MapsOK
      <3> QED
        BY <2>1, <3>1 DEF KeysOf, Lookup
    <2>4. MapsOK'
      BY <1>1, <2>2, <2>3 DEF Core, MapsOK
    <2>5. CopyInv'
      BY <1>1, <1>2, <1>7, <2>2, <2>3 DEF CopyInv
    <2>6. MapsFit'
      BY <1>1, <1>7, <2>2, <2>3 DEF MapsFit, Lookup
    <2> QED
      BY <1>3, <1>6, <2>4, <2>5, <2>6 DEF Core
  <1>9. CASE ~(~read.amended /\ dirty = None)
    <2>1. UNCHANGED <<dirty, todo>>
      BY <1>9 DEF StoreNew
    <2>2. todo = {} /\ dirty # None
      BY <1>1, <1>9, NobodyCopies DEF Core, MapsFit
    <2>3. MapsOK'
      BY <1>1, <2>1 DEF Core, MapsOK
    <2>4. CopyInv'
      BY <1>1, <1>2, <1>7, <2>1, <2>2 DEF CopyInv, Lookup
    <2>5. MapsFit'
      BY <1>1, <1>7, <2>1 DEF Core, MapsFit, Lookup
    <2> QED
      BY <1>3, <1>6, <2>3, <2>4, <2>5 DEF Core
  <1> QED
    BY <1>8, <1>9

(* A round of dirtyLocked.                                                 *)
LEMMA CopyCore ==
  ASSUME Core, NEW g \in G, NEW k \in Key, Copy(g, k)
  PROVE  Core'
  <1> DEFINE e == read.m[k]
  <1>1. /\ mpc[g] = "copy" /\ k \in todo /\ todo' = todo \ {k}
        /\ UNCHANGED <<mu, read, misses, mpc, call, entry, result>>
    BY DEF Copy
  <1>2. mu = g /\ \A h \in G : mpc[h] = "copy" => h = g
    BY <1>1, AloneCopies
  <1>3. e # None /\ dirty # None /\ dirty[k] = None /\ e \in Entry /\ k # call[g].key
    BY <1>1, ReadEntries DEF Core, CopyInv
  <1>4. LocalsOK' /\ CallsMatch'
    BY <1>1 DEF Core, LocalsOK, CallsMatch
  <1>5. read' = read /\ \A h \in G : mpc'[h] = mpc[h] /\ call'[h] = call[h] /\ entry'[h] = entry[h]
    BY <1>1
  <1>6. \A h \in G : mpc[h] # "entryLocked"
    BY <1>1, <1>2 DEF Core, CallsMatch
  <1>7. /\ p' \in [Key -> [Entry -> Val \cup {Nil, Expunged}]]
        /\ \A j \in Key \ {k}, f \in Entry : p'[j][f] = p[j][f]
        /\ \A f \in Entry : p[k][f] = Expunged => p'[k][f] = Expunged
        /\ dirty' \in [Key -> Entry \cup {None}] /\ dirty' # None
        /\ \A j \in Key \ {k} : dirty'[j] = dirty[j]
        /\ dirty'[k] = IF p'[k][e] = Expunged THEN None ELSE e
    <2>1. CASE Value(p[k][e]) = None
      <3>1. p' = [p EXCEPT ![k][e] = Expunged] /\ dirty' = dirty
        BY <2>1 DEF Copy
      <3>2. p' \in [Key -> [Entry -> Val \cup {Nil, Expunged}]] /\ Writes(k, e, Expunged)
        BY <1>3, <3>1, PutWrites DEF Core
      <3>3. dirty \in [Key -> Entry \cup {None}]
        BY <1>3 DEF Core, MapsOK
      <3> QED
        BY <1>3, <3>1, <3>2, <3>3 DEF Writes
    <2>2. CASE Value(p[k][e]) # None
      <3>1. p' = p /\ dirty' = [dirty EXCEPT ![k] = e]
        BY <2>2 DEF Copy
      <3>2. p[k][e] # Expunged
        BY <2>2 DEF Value
      <3>3. dirty \in [Key -> Entry \cup {None}]
        BY <1>3 DEF Core, MapsOK
      <3> QED
        BY <1>3, <3>1, <3>2, <3>3 DEF Core, MapsOK
    <2> QED
      BY <2>1, <2>2
  <1>8. MapsOK'
    BY <1>1, <1>7 DEF Core, MapsOK
  <1>9. EntriesKnown'
    <2> SUFFICES ASSUME NEW h \in G, mpc[h] \in {"delete", "tryStore", "tryLoadOrStore"}
                 PROVE  p'[call[h].key][entry[h]] = Expunged \/ entry[h] = read.m[call[h].key]
      BY <1>5, <1>6 DEF EntriesKnown, The
    <2>1. call[h].key \in Key /\ entry[h] \in Entry
      BY InHand
    <2>2. p[call[h].key][entry[h]] = Expunged \/ entry[h] = read.m[call[h].key]
      BY DEF Core, EntriesKnown, The
    <2> QED
      BY <1>7, <2>1, <2>2
  <1>10. CopyInv'
    <2>1. call[g] \in Calls
      BY <1>1 DEF Core, LocalsOK, CallsMatch
    <2>2. call[g].key \in Key
      BY <2>1, CallFields
    <2> QED
      BY <1>1, <1>2, <1>3, <1>5, <1>7, <2>2 DEF Core, MapsOK, CopyInv
  <1>11. ASSUME NEW j \in Key
         PROVE  /\ read.m[j] # None /\ j \notin todo' =>
                     dirty'[j] = IF p'[j][read.m[j]] = Expunged THEN None ELSE read.m[j]
                /\ dirty'[j] # None => p'[j][dirty'[j]] # Expunged
                /\ read.m[j] = None /\ ~read.amended => dirty'[j] = None
    <2>1. CASE j = k
      BY <1>3, <1>7, <2>1
    <2>2. CASE j # k
      <3>1. dirty'[j] = dirty[j] /\ \A f \in Entry : p'[j][f] = p[j][f]
        BY <1>7, <2>2
      <3>2. j \notin todo' => j \notin todo
        BY <1>1, <2>2
      <3> QED
        BY <1>3, <3>1, <3>2, ReadEntries DEF Core, MapsFit, Lookup
    <2> QED
      BY <2>1, <2>2
  <1>12. MapsFit'
    BY <1>1, <1>5, <1>7, <1>11 DEF Core, MapsFit, Lookup
  <1> QED
    BY <1>4, <1>8, <1>9, <1>10, <1>12 DEF Core

(* dirtyLocked is done: the new entry, which nobody can reach yet, comes   *)
(* into the dirty map.                                                     *)
LEMMA AddEntryCore ==
  ASSUME Core, NEW g \in G, AddEntry(g)
  PROVE  Core'
  <1> DEFINE k == call[g].key
             free == Entry \ InUse(k)
             e == CHOOSE x \in free : TRUE
  <1>1. /\ mpc[g] = "copy" /\ todo = {} /\ free # {} /\ read' = [read EXCEPT !.amended = TRUE]
        /\ dirty' = [dirty EXCEPT ![k] = e] /\ Put(g, e, call[g].val) /\ MReturn(g, None)
        /\ mu' = None /\ UNCHANGED <<misses, todo>>
    BY DEF AddEntry, StoreTo
  <1>2. e \in Entry /\ e \notin InUse(k)
    BY <1>1
  <1> HIDE DEF e, free
  <1>3. mu = g /\ \A h \in G : mpc[h] = "copy" => h = g
    BY <1>1, AloneCopies
  <1>4. call[g] \in Calls /\ k \in Key /\ call[g].val \in Val
    <2>1. call[g] \in Calls /\ call[g].op \in {"Store", "LoadOrStore"}
      BY <1>1 DEF Core, LocalsOK, CallsMatch, OpsAt
    <2> QED
      BY <2>1, CallFields
  <1>5. dirty # None /\ dirty \in [Key -> Entry \cup {None}] /\ read.m[k] = None
    BY <1>1 DEF Core, CopyInv, MapsOK
  <1>6. read'.m = read.m /\ read'.amended /\ read' \in [m : [Key -> Entry \cup {None}], amended : BOOLEAN]
    BY <1>1 DEF Core, MapsOK
  <1>7. /\ dirty' \in [Key -> Entry \cup {None}] /\ dirty'[k] = e /\ dirty' # None
        /\ \A j \in Key \ {k} : dirty'[j] = dirty[j]
    BY <1>1, <1>2, <1>4, <1>5
  <1>8. p' \in [Key -> [Entry -> Val \cup {Nil, Expunged}]] /\ Writes(k, e, call[g].val)
    BY <1>1, <1>2, <1>4, PutWrites DEF Put, Core
  <1>9. LocalsOK' /\ Moves(g, "returned", None, None, <<None>>)
    BY <1>1, ReturnMoves DEF Core
  <1>10. MapsOK'
    BY <1>1, <1>6, <1>7, <1>8 DEF Core, MapsOK
  <1>11. \A h \in G : mpc'[h] \notin {"copy", "entryLocked"}
    BY <1>3, <1>9 DEF Core, CallsMatch, Moves
  <1>12. CallsMatch'
    BY <1>1, <1>3, <1>9 DEF Core, CallsMatch, Moves
  <1>13. EntriesKnown'
    <2> SUFFICES ASSUME NEW h \in G, mpc'[h] \in {"delete", "tryStore", "tryLoadOrStore"}
                 PROVE  p'[call'[h].key][entry'[h]] = Expunged \/ entry'[h] = read.m[call'[h].key]
      BY <1>6, <1>11 DEF EntriesKnown, The
    <2>1. mpc[h] = mpc'[h] /\ call'[h] = call[h] /\ entry'[h] = entry[h]
      BY <1>9 DEF Moves
    <2>2. call[h] # None /\ call[h].key \in Key /\ entry[h] \in Entry
      BY <2>1, InHand
    <2>3. p[call[h].key][entry[h]] = Expunged \/ entry[h] = read.m[call[h].key]
      BY <2>1 DEF Core, EntriesKnown, The
    <2>4. call[h].key = k => entry[h] # e
      BY <1>2, <2>2 DEF InUse
    <2>5. p'[call[h].key][entry[h]] = p[call[h].key][entry[h]]
      BY <1>8, <2>2, <2>4 DEF Writes
    <2> QED
      BY <2>1, <2>3, <2>5
  <1>14. CopyInv'
    BY <1>1, <1>11 DEF CopyInv
  <1>15. ASSUME NEW j \in Key
         PROVE  /\ read.m[j] # None => dirty'[j] = IF p'[j][read.m[j]] = Expunged THEN None ELSE read.m[j]
                /\ dirty'[j] # None => p'[j][dirty'[j]] # Expunged
    <2>1. CASE j = k
      BY <1>2, <1>4, <1>5, <1>7, <1>8, <2>1 DEF Writes
    <2>2. CASE j # k
      <3>1. dirty'[j] = dirty[j] /\ \A f \in Entry : p'[j][f] = p[j][f]
        BY <1>7, <1>8, <2>2 DEF Writes
      <3> QED
        BY <1>1, <1>5, <3>1, ReadEntries DEF Core, MapsFit, Lookup
    <2> QED
      BY <2>1, <2>2
  <1>16. MapsFit'
    BY <1>6, <1>7, <1>15 DEF MapsFit, Lookup
  <1> QED
    BY <1>9, <1>10, <1>12, <1>13, <1>14, <1>16 DEF Core

(* Every step preserves the part of MapInv without the history.            *)
LEMMA StepCore ==
  ASSUME Core, MapNext
  PROVE  Core'
  <1>1. PICK g \in G : (\E c \in Calls : Invoke(g, c)) \/ EntryStep(g) \/ LockedStep(g) \/ MReturned(g)
    BY DEF MapNext, MapNextWith
  <1> QED
    BY <1>1, InvokeCore, EntryStepCore, ReturnedCore, LookupLockedCore, UnexpungeCore, EntryLockedCore,
       DirtyEntryLockedCore, StoreNewCore, CopyCore, AddEntryCore DEF LockedStep

-----------------------------------------------------------------------------
(* The history.  An entry of key j that no call has in hand.               *)
Fresh(j, f) == \A h \in G : call[h] # None /\ call[h].key = j => entry[h] # f

(* The entry of key k after the step.                                      *)
NextCurrent(k) == IF read'.m[k] # None THEN read'.m[k] ELSE Lookup(dirty', k)

(* The maps take in fresh entries only, and a key keeps its entry, gets    *)
(* its first one, or loses one that is expunged or whose key is in K.      *)
MapsMove(K) ==
  \A j \in Key :
    /\ \A f \in {read'.m[j], Lookup(dirty', j)} : f \in {None, read.m[j], Lookup(dirty, j)} \/ Fresh(j, f)
    /\ \/ NextCurrent(j) = Current(j)
       \/ Current(j) = None
       \/ NextCurrent(j) = None /\ (j \in K \/ p[j][Current(j)] = Expunged)

(* The pointers that a step of g may change.                               *)
PointersMove(g) ==
  \A j \in Key, f \in Entry :
    \/ p'[j][f] = p[j][f]
    \/ f = Current(j) /\ f = NextCurrent(j)
    \/ Removed(g) /\ j = call[g].key /\ f = entry[g] /\ p'[j][f] = Nil
    \/ Fresh(j, f)

(* What the others have in hand: an entry that was removed stays as it is; *)
(* any other may lose its value, or its place when its key is unmapped.    *)
HandsStay(g) ==
  \A h \in G \ {g} :
    LET k == call[h].key
        e == entry[h]
    IN
    /\ Removed(h) => p'[k][e] = The(h) /\ e \notin {read'.m[k], Lookup(dirty', k)}
    /\ mpc[h] \in WithEntry \ {"deleteRemoved"} =>
         \/ e = NextCurrent(k)
         \/ /\ Value(p'[k][e]) \in {Value(The(h)), None}
            /\ e = Current(k) => held'[k] = None

(* What a goroutine has in hand is not fresh.                              *)
LEMMA HandNotFresh ==
  ASSUME Core, NEW h \in G, mpc[h] \in WithEntry
  PROVE  ~Fresh(call[h].key, entry[h])
  BY InHand, CallFields DEF Fresh

(* What the others have in hand, when the maps and the pointers move so.   *)
LEMMA HandsAsTheMapsMove ==
  ASSUME Core, RemovedAlone, NEW g \in G, NEW K, MapsMove(K), PointersMove(g)
  PROVE  HandsStay(g)
  <1> SUFFICES ASSUME NEW h \in G \ {g}, mpc[h] \in WithEntry
               PROVE  LET k == call[h].key
                          e == entry[h]
                      IN
                      /\ Removed(h) => p'[k][e] = The(h) /\ e \notin {read'.m[k], Lookup(dirty', k)}
                      /\ mpc[h] # "deleteRemoved" =>
                           \/ e = NextCurrent(k)
                           \/ /\ Value(p'[k][e]) \in {Value(The(h)), None}
                              /\ e = Current(k) => held'[k] = None
    BY DEF HandsStay, Removed
  <1> DEFINE k == call[h].key
             e == entry[h]
  <1>1. k \in Key /\ e \in Entry /\ e # None /\ ~Fresh(k, e) /\ The(h) = p[k][e]
    BY InHand, HandNotFresh DEF The
  <1>2. \/ p'[k][e] = p[k][e]
        \/ e = Current(k) /\ e = NextCurrent(k)
        \/ Removed(g) /\ k = call[g].key /\ e = entry[g] /\ p'[k][e] = Nil
    BY <1>1 DEF PointersMove
  <1>3. e \in {read'.m[k], Lookup(dirty', k)} => e \in {read.m[k], Lookup(dirty, k)}
    BY <1>1 DEF MapsMove
  <1>4. Removed(h) => p'[k][e] = p[k][e] /\ e \notin {read'.m[k], Lookup(dirty', k)}
    BY <1>2, <1>3 DEF RemovedAlone, Current
  <1>5. e = Current(k) => e = NextCurrent(k) \/ NextCurrent(k) = None
    BY <1>1 DEF MapsMove
  <1>6. NextCurrent(k) = None => held'[k] = None
    BY <1>1 DEF held, Current, NextCurrent, Lookup
  <1>7. Value(Nil) = None
    BY DEF Value
  <1> QED
    BY <1>1, <1>2, <1>4, <1>5, <1>6, <1>7

(* The entry that g comes to have in hand.                                 *)
Arrives(s, c, e) ==
  /\ s \in WithEntry \ {"deleteRemoved"} => e = NextCurrent(c.key)
  /\ s = "deleteRemoved" =>
       /\ e \in {read.m[c.key], Lookup(dirty, c.key)}
       /\ e \notin {read'.m[c.key], Lookup(dirty', c.key)}
       /\ p'[c.key][e] # Expunged

(* A removed entry stays with the call that removed it.                    *)
LEMMA RemovedStays ==
  ASSUME Core, RemovedAlone, NEW g \in G, NEW s, NEW c, NEW e, NEW r,
         Moves(g, s, c, e, r), Arrives(s, c, e), HandsStay(g)
  PROVE  RemovedAlone'
  <1>1. ASSUME NEW h \in G, Removed(h)'
        PROVE  /\ p'[call'[h].key][entry'[h]] # Expunged
               /\ entry'[h] \notin {read'.m[call'[h].key], Lookup(dirty', call'[h].key)}
    <2>1. CASE h = g
      BY <1>1, <2>1 DEF Moves, Arrives, Removed
    <2>2. CASE h # g
      <3>1. Removed(h) /\ call'[h] = call[h] /\ entry'[h] = entry[h]
        BY <1>1, <2>2 DEF Moves, Removed
      <3> QED
        BY <2>2, <3>1 DEF HandsStay, RemovedAlone
    <2> QED
      BY <2>1, <2>2
  <1>2. ASSUME NEW h \in G, NEW i \in G, h # i, Removed(h)', Removed(i)', call'[h].key = call'[i].key
        PROVE  entry'[h] # entry'[i]
    <2>1. ASSUME NEW j \in G \ {g}, Removed(j)'
          PROVE  /\ Removed(j) /\ call'[j] = call[j] /\ entry'[j] = entry[j]
                 /\ entry[j] \notin {read.m[call[j].key], Lookup(dirty, call[j].key)}
      BY <2>1 DEF Moves, Removed, RemovedAlone
    <2>2. CASE h # g /\ i # g
      BY <1>2, <2>1, <2>2 DEF RemovedAlone
    <2>3. CASE h = g \/ i = g
      <3>1. Removed(g)' => entry'[g] \in {read.m[call'[g].key], Lookup(dirty, call'[g].key)}
        BY DEF Moves, Arrives, Removed
      <3> QED
        BY <1>2, <2>1, <2>3, <3>1
    <2> QED
      BY <2>2, <2>3
  <1> QED
    BY <1>1, <1>2 DEF RemovedAlone, The

Quiet == {"idle", "returned", "deleteRemoved"}

(* An entry in hand still has a value of its key during the call.          *)
LEMMA SeenStays ==
  ASSUME Core, SeenKnown, Core', Observe, NEW g \in G, NEW s, NEW c, NEW e, NEW r,
         Moves(g, s, c, e, r), Arrives(s, c, e), HandsStay(g)
  PROVE  SeenKnown'
  <1>1. ASSUME NEW h \in G, mpc'[h] \in Quiet PROVE seen'[h] = {}
    BY <1>1 DEF Observe, Quiet
  <1>2. ASSUME NEW h \in G, mpc'[h] \notin Quiet
        PROVE  seen'[h] = (IF mpc[h] = "idle" THEN {} ELSE seen[h]) \cup {held'[call'[h].key]}
    BY <1>2 DEF Observe, Quiet
  <1>3. ASSUME NEW h \in G, mpc'[h] \notin Quiet, mpc'[h] \in WithEntry
        PROVE  \/ entry'[h] = NextCurrent(call'[h].key)
               \/ None \in seen'[h] /\ Value(p'[call'[h].key][entry'[h]]) \in seen'[h]
    <2>1. CASE h = g
      BY <1>3, <2>1 DEF Moves, Arrives, Quiet
    <2>2. CASE h # g
      <3> DEFINE k == call[h].key
      <3>1. mpc'[h] = mpc[h] /\ call'[h] = call[h] /\ entry'[h] = entry[h]
        BY <2>2 DEF Moves
      <3>2. seen'[h] = seen[h] \cup {held'[k]}
        BY <1>2, <1>3, <3>1 DEF Quiet
      <3>3. /\ k \in Key /\ entry[h] \in Entry /\ The(h) = p[k][entry[h]]
        BY <1>3, <3>1, InHand DEF The
      <3>4. /\ held[k] \in seen[h]
            /\ entry[h] = Current(k) \/ (None \in seen[h] /\ Value(The(h)) \in seen[h])
        BY <1>3, <3>1 DEF SeenKnown, Quiet
      <3>5. \/ entry[h] = NextCurrent(k)
            \/ /\ Value(p'[k][entry[h]]) \in {Value(The(h)), None}
               /\ entry[h] = Current(k) => held'[k] = None
        BY <1>3, <2>2, <3>1 DEF HandsStay, Quiet
      <3>6. entry[h] = Current(k) => held[k] = Value(The(h))
        BY <3>3 DEF held
      <3> QED
        BY <3>1, <3>2, <3>3, <3>4, <3>5, <3>6
    <2> QED
      BY <2>1, <2>2
  <1> QED
    BY <1>1, <1>2, <1>3 DEF SeenKnown, The, Current, NextCurrent, Quiet

-----------------------------------------------------------------------------
(* The plain map.  The others, as it sees them.                            *)
AsBefore(g) ==
  \A h \in G \ {g} :
    /\ pending'[h] = pending[h] /\ answered'[h] = answered[h]
    /\ seen'[h] = IF seen[h] = {} THEN {} ELSE seen[h] \cup {held'[pending[h].key]}
    /\ seen[h] # {} => held[pending[h].key] \in seen[h] /\ pending[h].key \in Key

(* The plain map sees no step of the others.                               *)
LEMMA OthersAsBefore ==
  ASSUME Core, SeenKnown, Observe, NEW g \in G, NEW s, NEW c, NEW e, NEW r,
         Moves(g, s, c, e, r), HandsStay(g)
  PROVE  AsBefore(g)
  <1> SUFFICES ASSUME NEW h \in G \ {g}
               PROVE  /\ pending'[h] = pending[h] /\ answered'[h] = answered[h]
                      /\ seen'[h] = IF seen[h] = {} THEN {} ELSE seen[h] \cup {held'[pending[h].key]}
                      /\ seen[h] # {} => held[pending[h].key] \in seen[h] /\ pending[h].key \in Key
    BY DEF AsBefore
  <1>1. mpc'[h] = mpc[h] /\ call'[h] = call[h] /\ entry'[h] = entry[h] /\ result'[h] = result[h]
    BY DEF Moves
  <1>2. Removed(h) => p'[call[h].key][entry[h]] = p[call[h].key][entry[h]]
    BY DEF HandsStay, The
  <1>3. pending'[h] = pending[h] /\ answered'[h] = answered[h]
    BY <1>1, <1>2 DEF pending, answered, Removed, The
  <1>4. CASE mpc[h] \in Quiet
    <2>1. seen[h] = {} /\ seen'[h] = {}
      BY <1>1, <1>4 DEF Quiet, SeenKnown, Observe
    <2> QED
      BY <1>3, <2>1
  <1>5. CASE mpc[h] \notin Quiet
    <2>1. pending[h] = call[h] /\ call[h] \in Calls
      BY <1>5 DEF pending, Removed, Quiet, Core, LocalsOK, CallsMatch
    <2>2. held[call[h].key] \in seen[h]
      BY <1>5 DEF Quiet, SeenKnown
    <2>3. seen'[h] = seen[h] \cup {held'[call[h].key]}
      BY <1>1, <1>5 DEF Quiet, Observe
    <2> QED
      BY <1>3, <2>1, <2>2, <2>3, CallFields
  <1> QED
    BY <1>3, <1>4, <1>5

(* g itself: a call that goes on, and one that is done.                    *)
LEMMA SelfGoesOn ==
  ASSUME Core, SeenKnown, Observe, NEW g \in G, NEW s, NEW e,
         Moves(g, s, call[g], e, result[g]), mpc[g] \notin Quiet, s \notin Quiet, held' = held
  PROVE  pending'[g] = pending[g] /\ answered'[g] = answered[g] /\ seen'[g] = seen[g]
  <1>1. mpc'[g] = s /\ call'[g] = call[g] /\ result'[g] = result[g]
    BY DEF Moves
  <1>2. pending'[g] = pending[g] /\ answered'[g] = answered[g]
    BY <1>1 DEF pending, answered, Removed, Quiet
  <1>3. seen'[g] = seen[g] \cup {held[call[g].key]}
    BY <1>1 DEF Observe, Quiet
  <1>4. held[call[g].key] \in seen[g]
    BY DEF SeenKnown, Quiet
  <1> QED
    BY <1>2, <1>3, <1>4

(* The call returns.                                                       *)
LEMMA SelfReturns ==
  ASSUME Core, Observe, NEW g \in G, NEW v, Moves(g, "returned", None, None, <<v>>)
  PROVE  pending'[g] = None /\ answered'[g] = <<v>> /\ seen'[g] = {}
  BY DEF Moves, pending, answered, Removed, Observe

(* The call of LoadAndDelete has removed its entry.                        *)
LEMMA SelfRemoves ==
  ASSUME Core, Observe, NEW g \in G, NEW e, Moves(g, "deleteRemoved", call[g], e, result[g])
  PROVE  pending'[g] = None /\ answered'[g] = <<Value(p'[call[g].key][e])>> /\ seen'[g] = {}
  BY DEF Moves, pending, answered, Removed, Observe, The

(* What the plain map sees are functions.                                  *)
LEMMA PlainFunctions ==
  ASSUME Observe, seen \in [G -> SUBSET (Val \cup {None})]
  PROVE  /\ pending = [h \in G |-> pending[h]] /\ pending' = [h \in G |-> pending'[h]]
         /\ answered = [h \in G |-> answered[h]] /\ answered' = [h \in G |-> answered'[h]]
         /\ seen = [h \in G |-> seen[h]] /\ seen' = [h \in G |-> seen'[h]]
         /\ held = [k \in Key |-> held[k]] /\ held' = [k \in Key |-> held'[k]]
  <1>1. pending = [h \in G |-> pending[h]] /\ pending' = [h \in G |-> pending'[h]]
    BY DEF pending
  <1>2. answered = [h \in G |-> answered[h]] /\ answered' = [h \in G |-> answered'[h]]
    BY DEF answered
  <1>3. seen = [h \in G |-> seen[h]] /\ seen' = [h \in G |-> seen'[h]]
    BY DEF Observe
  <1>4. held = [k \in Key |-> held[k]] /\ held' = [k \in Key |-> held'[k]]
    BY DEF held
  <1> QED
    BY <1>1, <1>2, <1>3, <1>4

(* One goroutine changes, and the others do not see another value.         *)
LEMMA OnlySelf ==
  ASSUME NEW g \in G, AsBefore(g), seen \in [G -> SUBSET (Val \cup {None})], Observe, held' = held
  PROVE  /\ pending' = [pending EXCEPT ![g] = pending'[g]]
         /\ answered' = [answered EXCEPT ![g] = answered'[g]]
         /\ seen' = [seen EXCEPT ![g] = seen'[g]]
  <1>1. ASSUME NEW h \in G \ {g}
        PROVE  pending'[h] = pending[h] /\ answered'[h] = answered[h] /\ seen'[h] = seen[h]
    <2>1. seen[h] # {} => seen'[h] = seen[h] \cup {held[pending[h].key]} /\ held[pending[h].key] \in seen[h]
      BY DEF AsBefore
    <2>2. seen[h] = {} => seen'[h] = {}
      BY DEF AsBefore
    <2>3. seen'[h] = seen[h]
      BY <2>1, <2>2
    <2> QED
      BY <2>3 DEF AsBefore
  <1>2. pending' = [pending EXCEPT ![g] = pending'[g]]
    BY <1>1, PlainFunctions
  <1>3. answered' = [answered EXCEPT ![g] = answered'[g]]
    BY <1>1, PlainFunctions
  <1>4. seen' = [seen EXCEPT ![g] = seen'[g]]
    BY <1>1, PlainFunctions
  <1> QED
    BY <1>2, <1>3, <1>4

(* The step is none of the plain map.                                      *)
LEMMA PlainStutter ==
  ASSUME NEW g \in G, AsBefore(g), seen \in [G -> SUBSET (Val \cup {None})], Observe, held' = held,
         pending'[g] = pending[g], answered'[g] = answered[g], seen'[g] = seen[g]
  PROVE  UNCHANGED Plain!vars
  <1>1. pending' = pending
    BY OnlySelf, PlainFunctions
  <1>2. answered' = answered
    BY OnlySelf, PlainFunctions
  <1>3. seen' = seen
    BY OnlySelf, PlainFunctions
  <1> QED
    BY <1>1, <1>2, <1>3 DEF Plain!vars

(* A call begins.                                                          *)
LEMMA PlainBegin ==
  ASSUME NEW g \in G, AsBefore(g), seen \in [G -> SUBSET (Val \cup {None})], Observe, held' = held,
         NEW c \in Calls, pending[g] = None, answered[g] = <<>>,
         pending'[g] = c, answered'[g] = answered[g], seen'[g] = {held[c.key]}
  PROVE  Plain!Next
  <1>1. Plain!Begin(g, c)
    BY OnlySelf, PlainFunctions DEF Plain!Begin
  <1> QED
    BY <1>1 DEF Plain!Next

(* A call finds at once that there is nothing.                             *)
LEMMA PlainAbsent ==
  ASSUME NEW g \in G, AsBefore(g), seen \in [G -> SUBSET (Val \cup {None})], Observe, held' = held,
         NEW c \in Calls, pending[g] = None, answered[g] = <<>>,
         c.op \in {"Load", "Range", "LoadAndDelete"}, held[c.key] = None,
         pending'[g] = None, answered'[g] = <<None>>, seen'[g] = seen[g]
  PROVE  Plain!Next
  <1>1. pending' = pending
    BY OnlySelf, PlainFunctions
  <1>2. seen' = seen
    BY OnlySelf, PlainFunctions
  <1>3. Plain!BeginAbsent(g, c)
    BY <1>1, <1>2, OnlySelf DEF Plain!BeginAbsent
  <1> QED
    BY <1>3 DEF Plain!Next

(* A call answers with a value it has seen, and changes nothing.           *)
LEMMA PlainAnswer ==
  ASSUME NEW g \in G, AsBefore(g), seen \in [G -> SUBSET (Val \cup {None})], Observe, held' = held,
         NEW v \in seen[g], pending[g] # None,
         \/ pending[g].op \in {"Load", "Range"}
         \/ pending[g].op = "LoadOrStore" /\ v # None
         \/ pending[g].op = "LoadAndDelete" /\ v = None,
         pending'[g] = None, answered'[g] = <<v>>, seen'[g] = {}
  PROVE  Plain!Next
  <1>1. Plain!Answer(g, v)
    BY OnlySelf DEF Plain!Answer
  <1> QED
    BY <1>1 DEF Plain!Next

(* The caller has got the result.                                          *)
LEMMA PlainReturn ==
  ASSUME NEW g \in G, AsBefore(g), seen \in [G -> SUBSET (Val \cup {None})], Observe, held' = held,
         answered[g] # <<>>, pending'[g] = pending[g], answered'[g] = <<>>, seen'[g] = seen[g]
  PROVE  Plain!Next
  <1>1. Plain!Return(g)
    BY OnlySelf, PlainFunctions DEF Plain!Return
  <1> QED
    BY <1>1 DEF Plain!Next

(* The value of key k becomes v.                                           *)
HeldBecomes(k, v) == \A j \in Key : held'[j] = IF j = k THEN v ELSE held[j]

(* A call takes effect.                                                    *)
LEMMA PlainEffect ==
  ASSUME NEW g \in G, AsBefore(g), seen \in [G -> SUBSET (Val \cup {None})], Observe,
         pending[g] # None, pending[g].key \in Key, NEW v, HeldBecomes(pending[g].key, v), NEW r,
         \/ pending[g].op = "Store" /\ v = pending[g].val /\ r = None
         \/ /\ pending[g].op = "LoadOrStore" /\ held[pending[g].key] = None
            /\ v = pending[g].val /\ r = None
         \/ /\ pending[g].op = "LoadAndDelete" /\ held[pending[g].key] # None
            /\ v = None /\ r = held[pending[g].key],
         pending'[g] = None, answered'[g] = <<r>>, seen'[g] = {}
  PROVE  Plain!Next
  <1> DEFINE k == pending[g].key
  <1>1. held' = [held EXCEPT ![k] = v]
    BY PlainFunctions DEF HeldBecomes
  <1>2. answered' = [answered EXCEPT ![g] = <<r>>]
    BY PlainFunctions DEF AsBefore
  <1>3. pending' = [pending EXCEPT ![g] = None]
    BY PlainFunctions DEF AsBefore
  <1>4. ASSUME NEW h \in G \ {g}
        PROVE  seen'[h] = IF seen[h] # {} /\ pending[h].key = k THEN seen[h] \cup {v} ELSE seen[h]
    <2>1. CASE seen[h] = {}
      BY <2>1 DEF AsBefore
    <2>2. CASE seen[h] # {}
      <3>1. /\ seen'[h] = seen[h] \cup {held'[pending[h].key]}
            /\ held[pending[h].key] \in seen[h] /\ pending[h].key \in Key
        BY <2>2 DEF AsBefore
      <3>2. held'[pending[h].key] = IF pending[h].key = k THEN v ELSE held[pending[h].key]
        BY <3>1 DEF HeldBecomes
      <3> QED
        BY <2>2, <3>1, <3>2
    <2> QED
      BY <2>1, <2>2
  <1>5. seen' = [h \in G |-> IF h = g THEN {}
                             ELSE IF seen[h] # {} /\ pending[h].key = k
                             THEN seen[h] \cup {v} ELSE seen[h]]
    BY <1>4, PlainFunctions
  <1>6. Plain!Write(g, v, r)
    BY <1>1, <1>2, <1>3, <1>5 DEF Plain!Write
  <1>7. Plain!Effect(g)
    BY <1>6 DEF Plain!Effect
  <1> QED
    BY <1>7 DEF Plain!Next

-----------------------------------------------------------------------------
(* What is to be shown of each step, given Core before and after it.       *)
Hist == RemovedAlone /\ SeenKnown /\ seen \in [G -> SUBSET (Val \cup {None})]

Follows == RemovedAlone' /\ SeenKnown' /\ (Plain!Next \/ UNCHANGED Plain!vars)

(* The invariants of the history, and the others.                          *)
LEMMA HistoryFollows ==
  ASSUME Core, Hist, Core', Observe, NEW g \in G, NEW s, NEW c, NEW e, NEW r, Moves(g, s, c, e, r),
         Arrives(s, c, e), NEW K, MapsMove(K), PointersMove(g)
  PROVE  RemovedAlone' /\ SeenKnown' /\ AsBefore(g)
  BY HandsAsTheMapsMove, RemovedStays, SeenStays, OthersAsBefore DEF Hist

(* A goroutine in a call that has not taken effect.                        *)
LEMMA InCall ==
  ASSUME Core, NEW g \in G, mpc[g] \notin Quiet
  PROVE  call[g] \in Calls /\ call[g].key \in Key /\ call[g] # None /\ pending[g] = call[g]
  BY CallFields DEF Core, LocalsOK, CallsMatch, Quiet, pending, Removed

(* A call goes on: no step of the plain map.                               *)
LEMMA GoesOnFollows ==
  ASSUME Core, Hist, Core', Observe, NEW g \in G, NEW s, NEW e, Moves(g, s, call[g], e, result[g]),
         Arrives(s, call[g], e), NEW K, MapsMove(K), PointersMove(g),
         mpc[g] \notin Quiet, s \notin Quiet, held' = held
  PROVE  Follows
  <1>1. RemovedAlone' /\ SeenKnown' /\ AsBefore(g)
    BY HistoryFollows
  <1>2. UNCHANGED Plain!vars
    BY <1>1, SelfGoesOn, PlainStutter DEF Hist
  <1> QED
    BY <1>1, <1>2 DEF Follows

(* A call returns what it has seen: an Answer.                             *)
LEMMA AnswerFollows ==
  ASSUME Core, Hist, Core', Observe, NEW g \in G, NEW v \in seen[g],
         Moves(g, "returned", None, None, <<v>>), NEW K, MapsMove(K), PointersMove(g),
         mpc[g] \notin Quiet, held' = held,
         \/ call[g].op \in {"Load", "Range"}
         \/ call[g].op = "LoadOrStore" /\ v # None
         \/ call[g].op = "LoadAndDelete" /\ v = None
  PROVE  Follows
  <1>1. RemovedAlone' /\ SeenKnown' /\ AsBefore(g)
    BY HistoryFollows DEF Arrives
  <1>2. Plain!Next
    BY <1>1, SelfReturns, InCall, PlainAnswer DEF Hist
  <1> QED
    BY <1>1, <1>2 DEF Follows

(* A call returns and changes the value of its key: an Effect.             *)
LEMMA EffectFollows ==
  ASSUME Core, Hist, Core', Observe, NEW g \in G, NEW v, NEW r,
         Moves(g, "returned", None, None, <<r>>), NEW K, MapsMove(K), PointersMove(g),
         mpc[g] \notin Quiet, HeldBecomes(call[g].key, v),
         \/ call[g].op = "Store" /\ v = call[g].val /\ r = None
         \/ call[g].op = "LoadOrStore" /\ held[call[g].key] = None /\ v = call[g].val /\ r = None
         \/ call[g].op = "LoadAndDelete" /\ held[call[g].key] # None /\ v = None /\ r = held[call[g].key]
  PROVE  Follows
  <1>1. RemovedAlone' /\ SeenKnown' /\ AsBefore(g)
    BY HistoryFollows DEF Arrives
  <1>2. pending[g] = call[g] /\ call[g] # None /\ call[g].key \in Key
    BY InCall
  <1>3. pending'[g] = None /\ answered'[g] = <<r>> /\ seen'[g] = {}
    BY SelfReturns
  <1>4. Plain!Next
    BY <1>1, <1>2, <1>3, PlainEffect DEF Hist
  <1> QED
    BY <1>1, <1>4 DEF Follows

(* A step that leaves the maps and the pointers alone.                     *)
LEMMA NothingMoves ==
  ASSUME NEW g \in G, UNCHANGED <<read, dirty, p>>
  PROVE  /\ MapsMove({}) /\ PointersMove(g) /\ held' = held
         /\ \A j \in Key : NextCurrent(j) = Current(j)
  <1>1. read' = read /\ dirty' = dirty /\ p' = p
    OBVIOUS
  <1>2. \A j \in Key : NextCurrent(j) = Current(j) /\ Lookup(dirty', j) = Lookup(dirty, j)
    BY <1>1 DEF NextCurrent, Current
  <1>3. held' = held
    BY <1>1 DEF held, Current, Lookup
  <1> QED
    BY <1>1, <1>2, <1>3 DEF MapsMove, PointersMove

(* A call begins.                                                          *)
LEMMA InvokeFollows ==
  ASSUME Core, Hist, Core', Observe, NEW g \in G, NEW c \in Calls, Invoke(g, c)
  PROVE  Follows
  <1> DEFINE e == read.m[c.key]
  <1>1. mpc[g] = "idle" /\ UNCHANGED <<mu, read, dirty, misses, p, todo>>
    BY DEF Invoke, Load, LoadAndDelete, Range, Store, LoadOrStore, MBegin, KeepMaps
  <1>2. c.key \in Key /\ c # None /\ e \in Entry \cup {None}
    BY CallFields, ReadEntries
  <1>3. \/ \E s \in {"load", "delete", "tryStore", "tryLoadOrStore"} : e # None /\ MGoOn(g, c, s, e)
        \/ MGoOn(g, c, "lock", None)
        \/ /\ e = None /\ ~read.amended /\ c.op \in {"Load", "Range", "LoadAndDelete"}
           /\ MReturn(g, None)
    BY DEF Invoke, Load, LoadAndDelete, Range, Store, LoadOrStore, MBegin, Find, FindToStore, Found
  <1>4. /\ MapsMove({}) /\ PointersMove(g) /\ held' = held
        /\ \A j \in Key : NextCurrent(j) = Current(j)
    BY <1>1, NothingMoves
  <1>5. pending[g] = None /\ answered[g] = <<>> /\ seen[g] = {} /\ result[g] = <<>>
    BY <1>1 DEF pending, answered, Removed, Core, CallsMatch, Hist, SeenKnown
  <1>6. ASSUME NEW s \in {"load", "delete", "tryStore", "tryLoadOrStore", "lock"},
               NEW f \in Entry \cup {None}, s # "lock" => f = e /\ e # None, MGoOn(g, c, s, f)
        PROVE  Follows
    <2>1. Moves(g, s, c, f, result[g])
      BY <1>6, GoOnMoves DEF Core
    <2>2. Arrives(s, c, f)
      BY <1>2, <1>4, <1>6 DEF Arrives, Current
    <2>3. RemovedAlone' /\ SeenKnown' /\ AsBefore(g)
      BY <1>4, <2>1, <2>2, HistoryFollows
    <2>4. pending'[g] = c /\ answered'[g] = <<>> /\ seen'[g] = {held[c.key]}
      BY <1>1, <1>4, <1>5, <2>1 DEF Moves, pending, answered, Removed, Observe
    <2>5. Plain!Next
      BY <1>4, <1>5, <2>3, <2>4, PlainBegin DEF Hist
    <2> QED
      BY <2>3, <2>5 DEF Follows
  <1>7. ASSUME e = None, ~read.amended, c.op \in {"Load", "Range", "LoadAndDelete"}, MReturn(g, None)
        PROVE  Follows
    <2>1. Moves(g, "returned", None, None, <<None>>)
      BY <1>7, ReturnMoves DEF Core
    <2>2. RemovedAlone' /\ SeenKnown' /\ AsBefore(g)
      BY <1>4, <2>1, HistoryFollows DEF Arrives
    <2>3. held[c.key] = None
      BY <1>2, <1>7 DEF held, Current, Core, MapsFit
    <2>4. pending'[g] = None /\ answered'[g] = <<None>> /\ seen'[g] = {}
      BY <2>1, SelfReturns
    <2>5. Plain!Next
      BY <1>4, <1>5, <1>7, <2>2, <2>3, <2>4, PlainAbsent DEF Hist
    <2> QED
      BY <2>2, <2>5 DEF Follows
  <1> QED
    BY <1>2, <1>3, <1>6, <1>7

(* What the map holds, when no key gets its first entry and the pointer of *)
(* an entry that stays is written, or none is.                             *)
NoneNew == \A j \in Key : Current(j) = None => NextCurrent(j) = None

(* The value of a key before and after the step.                           *)
LEMMA HeldNext ==
  ASSUME NEW j \in Key
  PROVE  /\ held[j] = IF Current(j) = None THEN None ELSE Value(p[j][Current(j)])
         /\ held'[j] = IF NextCurrent(j) = None THEN None ELSE Value(p'[j][NextCurrent(j)])
  BY DEF held, Current, NextCurrent, Lookup

(* The entry of a key.                                                     *)
LEMMA CurrentType ==
  ASSUME Core, NEW j \in Key
  PROVE  Current(j) \in Entry \cup {None}
  BY ReadEntries DEF Current

(* A key keeps its value.                                                  *)
LEMMA HeldStays ==
  ASSUME Core, NEW j \in Key, NEW K, MapsMove(K), NoneNew, j \notin K,
         Current(j) # None => Value(p'[j][Current(j)]) = Value(p[j][Current(j)])
  PROVE  held'[j] = held[j]
  <1>1. \/ NextCurrent(j) = Current(j)
        \/ NextCurrent(j) = None /\ (Current(j) = None \/ p[j][Current(j)] = Expunged)
    BY DEF MapsMove, NoneNew
  <1> QED
    BY <1>1, HeldNext DEF Value

(* A pointer is written.                                                   *)
LEMMA WriteMoves ==
  ASSUME Core, NEW g \in G, MapsMove({}), NoneNew, NEW k \in Key, NEW e \in Entry, NEW q,
         e = Current(k), e = NextCurrent(k), Writes(k, e, q)
  PROVE  PointersMove(g) /\ HeldBecomes(k, Value(q))
  <1>1. PointersMove(g)
    BY DEF PointersMove, Writes
  <1>2. held'[k] = Value(q)
    BY HeldNext DEF Writes
  <1>3. ASSUME NEW j \in Key \ {k} PROVE held'[j] = held[j]
    <2>1. Current(j) # None => p'[j][Current(j)] = p[j][Current(j)]
      BY CurrentType DEF Writes
    <2> QED
      BY <2>1, HeldStays
  <1> QED
    BY <1>1, <1>2, <1>3 DEF HeldBecomes

(* No pointer is written.                                                  *)
LEMMA NoWriteMoves ==
  ASSUME Core, NEW g \in G, MapsMove({}), NoneNew, p' = p, Hist, Observe
  PROVE  PointersMove(g) /\ held' = held
  <1>1. PointersMove(g)
    BY DEF PointersMove
  <1>2. \A j \in Key : held'[j] = held[j]
    BY HeldStays
  <1> QED
    BY <1>1, <1>2, PlainFunctions DEF Hist

(* An entry in hand has a value that the key had during the call.          *)
LEMMA InHandSeen ==
  ASSUME Core, Hist, NEW g \in G, mpc[g] \in WithEntry \ {"deleteRemoved"}
  PROVE  Value(The(g)) \in seen[g]
  <1>1. call[g].key \in Key /\ entry[g] \in Entry /\ The(g) = p[call[g].key][entry[g]]
    BY InHand DEF The
  <1>2. /\ held[call[g].key] \in seen[g]
        /\ entry[g] = Current(call[g].key) \/ Value(The(g)) \in seen[g]
    BY DEF Hist, SeenKnown
  <1> QED
    BY <1>1, <1>2, HeldNext

(* Store and LoadOrStore at the entry of their key.                        *)
LEMMA StoreFollows ==
  ASSUME Core, Hist, Core', Observe, NEW g \in G, mpc[g] \notin Quiet, MapsMove({}), NoneNew,
         NEW e \in Entry, e = Current(call[g].key), e = NextCurrent(call[g].key),
         p[call[g].key][e] # Expunged, call[g].val \in Val,
         \/ call[g].op = "Store" /\ StoreTo(g, e)
         \/ call[g].op = "LoadOrStore" /\ LoadOrStoreTo(g, e)
  PROVE  Follows
  <1> DEFINE k == call[g].key
             q == p[k][e]
  <1>1. k \in Key /\ q \in Val \cup {Nil} /\ held[k] = Value(q) /\ held[k] \in seen[g]
    <2>1. k \in Key
      BY InCall
    <2>2. held[k] \in seen[g]
      BY DEF Hist, SeenKnown, Quiet
    <2>3. q \in Val \cup {Nil, Expunged}
      BY <2>1, ReadEntries
    <2>4. held[k] = Value(q)
      BY <2>1, HeldNext
    <2> QED
      BY <2>1, <2>2, <2>3, <2>4
  <1>2. ASSUME Put(g, e, call[g].val), MReturn(g, None), call[g].op = "Store" \/ held[k] = None,
               call[g].op \in {"Store", "LoadOrStore"}
        PROVE  Follows
    <2>1. Writes(k, e, call[g].val)
      BY <1>1, <1>2, PutWrites DEF Put, Core
    <2>2. PointersMove(g) /\ HeldBecomes(k, call[g].val)
      <3>1. Value(call[g].val) = call[g].val
        BY DEF Value
      <3>2. PointersMove(g) /\ HeldBecomes(k, Value(call[g].val))
        BY <1>1, <2>1, WriteMoves
      <3> QED
        BY <3>1, <3>2
    <2>3. Moves(g, "returned", None, None, <<None>>)
      BY <1>2, ReturnMoves DEF Core
    <2> QED
      BY <1>2, <2>2, <2>3, EffectFollows
  <1>3. CASE call[g].op = "Store"
    BY <1>2, <1>3 DEF StoreTo
  <1>4. CASE call[g].op = "LoadOrStore" /\ q = Nil
    BY <1>1, <1>2, <1>4 DEF LoadOrStoreTo, Value
  <1>5. CASE call[g].op = "LoadOrStore" /\ q # Nil
    <2>1. p' = p /\ MReturn(g, Value(q)) /\ Value(q) # None /\ Value(q) \in Val \cup {None}
      BY <1>1, <1>5, ValueType DEF LoadOrStoreTo
    <2>2. PointersMove(g) /\ held' = held
      BY <2>1, NoWriteMoves
    <2>3. Moves(g, "returned", None, None, <<Value(q)>>)
      BY <2>1, ReturnMoves DEF Core
    <2> QED
      BY <1>1, <1>5, <2>1, <2>2, <2>3, AnswerFollows
  <1> QED
    BY <1>3, <1>4, <1>5

(* The maps stay as they are.                                              *)
LEMMA MapsKept ==
  ASSUME read' = read, dirty' = dirty
  PROVE  MapsMove({}) /\ NoneNew /\ \A j \in Key : NextCurrent(j) = Current(j)
  <1>1. \A j \in Key : NextCurrent(j) = Current(j) /\ Lookup(dirty', j) = Lookup(dirty, j)
    BY DEF NextCurrent, Current
  <1> QED
    BY <1>1 DEF MapsMove, NoneNew

(* The steps at an entry.                                                  *)
LEMMA EntryStepFollows ==
  ASSUME Core, Hist, Core', Observe, NEW g \in G, EntryStep(g)
  PROVE  Follows
  <1> DEFINE k == call[g].key
             e == entry[g]
  <1>1. /\ mpc[g] \in {"load", "delete", "deleteRemoved", "tryStore", "tryLoadOrStore"}
        /\ read' = read /\ dirty' = dirty
    BY DEF EntryStep, load, delete, tryStore, tryLoadOrStore, AtEntry, KeepMaps
  <1>2. /\ k \in Key /\ e \in Entry /\ The(g) = p[k][e]
        /\ The(g) \in Val \cup {Nil, Expunged} /\ Value(The(g)) \in Val \cup {None}
    BY <1>1, InHand, ValueType DEF The
  <1>3. MapsMove({}) /\ NoneNew /\ NextCurrent(k) = Current(k)
    BY <1>1, <1>2, MapsKept
  <1>4. call[g].op \in OpsAt(mpc[g])
    BY <1>1, InHand, CallFields DEF Core, CallsMatch
  <1>5. mpc[g] \in {"delete", "tryStore", "tryLoadOrStore"} /\ The(g) # Expunged => e = Current(k)
    BY <1>2 DEF Core, EntriesKnown, Current
  <1>6. p' = p => PointersMove(g) /\ held' = held
    BY <1>3, NoWriteMoves
  <1>7. MReturn(g, Value(The(g))) => Moves(g, "returned", None, None, <<Value(The(g))>>)
    BY <1>2, ReturnMoves DEF Core
  <1>8. CASE load(g)
    <2>1. mpc[g] = "load" /\ MReturn(g, Value(The(g))) /\ p' = p
      BY <1>8 DEF load, AtEntry
    <2>2. call[g].op \in {"Load", "Range"}
      BY <1>4, <2>1 DEF OpsAt
    <2>3. Value(The(g)) \in seen[g]
      BY <2>1, InHandSeen
    <2> QED
      BY <1>3, <1>6, <1>7, <2>1, <2>2, <2>3, AnswerFollows DEF Quiet
  <1>9. CASE delete(g) /\ mpc[g] = "delete"
    <2>1. MReturn(g, Value(The(g))) /\ call[g].op = "LoadAndDelete" /\ Value(The(g)) \in seen[g]
      BY <1>4, <1>9, InHandSeen DEF delete, OpsAt
    <2>2. CASE Value(The(g)) = None
      <3>1. p' = p
        BY <1>9, <2>2 DEF delete
      <3> QED
        BY <1>3, <1>6, <1>7, <1>9, <2>1, <2>2, <3>1, AnswerFollows DEF Quiet
    <2>3. CASE Value(The(g)) # None
      <3>1. Put(g, e, Nil) /\ The(g) # Expunged
        BY <1>9, <2>3 DEF delete, Value
      <3>2. e = Current(k) /\ held[k] = Value(The(g))
        BY <1>2, <1>5, <1>9, <3>1, HeldNext
      <3>3. Writes(k, e, Nil)
        BY <1>2, <3>1, PutWrites DEF Put, Core
      <3>4. PointersMove(g) /\ HeldBecomes(k, None)
        BY <1>2, <1>3, <3>2, <3>3, WriteMoves DEF Value
      <3> QED
        BY <1>3, <1>7, <1>9, <2>1, <2>3, <3>2, <3>4, EffectFollows DEF Quiet
    <2> QED
      BY <2>2, <2>3
  <1>10. CASE delete(g) /\ mpc[g] = "deleteRemoved"
    <2>1. MReturn(g, Value(The(g))) /\ Moves(g, "returned", None, None, <<Value(The(g))>>)
      BY <1>7, <1>10 DEF delete
    <2>2. e \notin {read.m[k], Lookup(dirty, k)} /\ seen[g] = {}
      BY <1>10 DEF Hist, RemovedAlone, Removed, SeenKnown
    <2>3. p' = p \/ Writes(k, e, Nil)
      BY <1>2, <1>10, PutWrites DEF delete, Put, Core
    <2>4. PointersMove(g)
      BY <1>10, <2>3 DEF PointersMove, Writes, Removed
    <2>5. ASSUME NEW j \in Key PROVE held'[j] = held[j]
      <3>1. Current(j) # None => p'[j][Current(j)] = p[j][Current(j)]
        BY <2>2, <2>3, CurrentType DEF Writes, Current
      <3> QED
        BY <1>3, <3>1, HeldStays
    <2>6. held' = held
      BY <2>5, PlainFunctions DEF Hist
    <2>7. RemovedAlone' /\ SeenKnown' /\ AsBefore(g)
      BY <1>3, <2>1, <2>4, HistoryFollows DEF Arrives
    <2>8. pending'[g] = pending[g] /\ answered'[g] = answered[g] /\ seen'[g] = seen[g]
      BY <1>10, <2>1, <2>2, SelfReturns DEF pending, answered, Removed
    <2> QED
      BY <2>6, <2>7, <2>8, PlainStutter DEF Follows, Hist
  <1>11. ASSUME GoLock(g), mpc[g] \in {"tryStore", "tryLoadOrStore"} PROVE Follows
    <2>1. p' = p /\ Moves(g, "lock", call[g], None, result[g])
      BY <1>1, <1>11, InHand, GoOnMoves DEF GoLock, Core
    <2> QED
      BY <1>3, <1>6, <1>11, <2>1, GoesOnFollows DEF Arrives, Quiet
  <1>12. ASSUME The(g) # Expunged,
                \/ mpc[g] = "tryStore" /\ StoreTo(g, e)
                \/ mpc[g] = "tryLoadOrStore" /\ LoadOrStoreTo(g, e)
         PROVE  Follows
    <2>1. \/ call[g].op = "Store" /\ StoreTo(g, e)
          \/ call[g].op = "LoadOrStore" /\ LoadOrStoreTo(g, e)
      BY <1>4, <1>12 DEF OpsAt
    <2>2. call[g].val \in Val /\ e = Current(k) /\ mpc[g] \notin Quiet
      BY <1>5, <1>12, InHand DEF Quiet
    <2> QED
      BY <1>2, <1>3, <1>12, <2>1, <2>2, StoreFollows
  <1> QED
    BY <1>8, <1>9, <1>10, <1>11, <1>12 DEF EntryStep, delete, tryStore, tryLoadOrStore, AtEntry

(* The caller has got the result.                                          *)
LEMMA ReturnedFollows ==
  ASSUME Core, Hist, Core', Observe, NEW g \in G, MReturned(g)
  PROVE  Follows
  <1>1. mpc[g] = "returned" /\ UNCHANGED <<read, dirty, p>>
    BY DEF MReturned, KeepMaps
  <1>2. Moves(g, "idle", None, None, <<>>)
    BY DEF Core, LocalsOK, CallsMatch, MReturned, Moves
  <1>3. MapsMove({}) /\ PointersMove(g) /\ held' = held
    BY <1>1, NothingMoves
  <1>4. RemovedAlone' /\ SeenKnown' /\ AsBefore(g)
    BY <1>2, <1>3, HistoryFollows DEF Arrives
  <1>5. pending'[g] = pending[g] /\ answered'[g] = <<>> /\ answered[g] # <<>> /\ seen'[g] = seen[g]
    <2>1. call[g] = None /\ result[g] # <<>> /\ seen[g] = {}
      BY <1>1 DEF Core, CallsMatch, Hist, SeenKnown
    <2> QED
      BY <1>1, <1>2, <2>1 DEF Moves, pending, answered, Removed, Observe
  <1> QED
    BY <1>3, <1>4, <1>5, PlainReturn DEF Follows, Hist

(* The dirty map may have lost keys, and may have become the read map.     *)
LEMMA MapsShrunk ==
  ASSUME Core, mu = None, NEW d, Shrinks(d), (read' = read /\ dirty' = d) \/ Promote(d)
  PROVE  /\ MapsMove({j \in Key : d[j] # dirty[j]}) /\ NoneNew
         /\ \A j \in Key : d[j] # None => NextCurrent(j) = d[j] /\ Current(j) = d[j]
         /\ \A j \in Key : d[j] = None /\ read.m[j] = None =>
              NextCurrent(j) = None /\ read'.m[j] = None /\ Lookup(dirty', j) = None
  <1> SUFFICES ASSUME NEW j \in Key
               PROVE  /\ \A f \in {read'.m[j], Lookup(dirty', j)} : f \in {None, read.m[j], Lookup(dirty, j)}
                      /\ \/ NextCurrent(j) = Current(j)
                         \/ NextCurrent(j) = None /\ (d[j] # dirty[j] \/ p[j][Current(j)] = Expunged)
                      /\ Current(j) = None => NextCurrent(j) = None
                      /\ d[j] # None => NextCurrent(j) = d[j] /\ Current(j) = d[j]
                      /\ d[j] = None /\ read.m[j] = None =>
                           NextCurrent(j) = None /\ read'.m[j] = None /\ Lookup(dirty', j) = None
    BY DEF MapsMove, NoneNew
  <1>1. dirty # None /\ d # None /\ Lookup(dirty, j) = dirty[j] /\ Lookup(d, j) = d[j] /\ todo = {}
    BY NobodyCopies DEF Shrinks, Lookup
  <1>2. d[j] = dirty[j] \/ (d[j] = None /\ read.m[j] = None)
    BY DEF Shrinks
  <1>3. read.m[j] # None => dirty[j] = IF p[j][read.m[j]] = Expunged THEN None ELSE read.m[j]
    BY <1>1 DEF Core, MapsFit
  <1>4. CASE read' = read /\ dirty' = d
    BY <1>1, <1>2, <1>3, <1>4 DEF NextCurrent, Current
  <1>5. CASE Promote(d)
    <2>1. read'.m = d /\ Lookup(dirty', j) = None
      BY <1>5 DEF Promote, Lookup
    <2> QED
      BY <1>1, <1>2, <1>3, <2>1 DEF NextCurrent, Current
  <1> QED
    BY <1>4, <1>5

(* A lookup under the lock, which finds e: g goes on with it, or the map   *)
(* has nothing for the key.                                                *)
LEMMA FoundFollows ==
  ASSUME Core, Hist, Core', Observe, NEW g \in G, mpc[g] = "lock", p' = p, MapsMove({}), NoneNew,
         NEW s \in {"load", "delete"}, call[g].op \in {"Load", "Range", "LoadAndDelete"},
         NEW e \in Entry \cup {None}, Found(g, call[g], e, s),
         e # None => e = NextCurrent(call[g].key),
         e = None => held[call[g].key] = None
  PROVE  Follows
  <1>1. PointersMove(g) /\ held' = held
    BY NoWriteMoves
  <1>2. mpc[g] \notin Quiet /\ call[g] \in Calls
    BY AtLock DEF Quiet
  <1>3. CASE e = None
    <2>1. Moves(g, "returned", None, None, <<None>>)
      BY <1>3, ReturnMoves DEF Found, Core
    <2>2. None \in seen[g]
      BY <1>2, <1>3 DEF Hist, SeenKnown, Quiet
    <2> QED
      BY <1>1, <1>2, <2>1, <2>2, AnswerFollows
  <1>4. CASE e # None
    <2>1. Moves(g, s, call[g], e, result[g])
      BY <1>2, <1>4, GoOnMoves DEF Found, Core
    <2>2. Arrives(s, call[g], e)
      BY <1>4 DEF Arrives
    <2> QED
      BY <1>1, <1>2, <2>1, <2>2, GoesOnFollows DEF Quiet
  <1> QED
    BY <1>3, <1>4

(* LoadAndDelete removes its key from the dirty map, which takes effect.   *)
LEMMA RemoveFollows ==
  ASSUME Core, Hist, Core', Observe, NEW g \in G, mpc[g] = "lock", mu = None, p' = p,
         call[g].op = "LoadAndDelete", read.m[call[g].key] = None, dirty # None,
         NEW e \in Entry, e = dirty[call[g].key], MGoOn(g, call[g], "deleteRemoved", e),
         NEW d, d = [dirty EXCEPT ![call[g].key] = None],
         (read' = read /\ dirty' = d) \/ Promote(d)
  PROVE  Follows
  <1> DEFINE k == call[g].key
  <1>1. call[g] \in Calls /\ k \in Key /\ mpc[g] \notin Quiet
    BY AtLock DEF Quiet
  <1>2. Shrinks(d)
    BY <1>1, DirtyWithout
  <1>3. d[k] = None /\ \A j \in Key : d[j] # dirty[j] => j = k
    BY <1>1 DEF Core, MapsOK
  <1>4. /\ MapsMove({j \in Key : d[j] # dirty[j]}) /\ NoneNew
        /\ NextCurrent(k) = None /\ read'.m[k] = None /\ Lookup(dirty', k) = None
    BY <1>1, <1>2, <1>3, MapsShrunk
  <1>5. PointersMove(g)
    BY DEF PointersMove
  <1>6. Moves(g, "deleteRemoved", call[g], e, result[g])
    BY <1>1, GoOnMoves DEF Core
  <1>7. p[k][e] # Expunged /\ Lookup(dirty, k) = e /\ e = Current(k)
    BY <1>1 DEF Core, MapsFit, Lookup, Current
  <1>8. Arrives("deleteRemoved", call[g], e)
    BY <1>4, <1>7 DEF Arrives
  <1>9. RemovedAlone' /\ SeenKnown' /\ AsBefore(g)
    BY <1>4, <1>5, <1>6, <1>8, HistoryFollows
  <1>10. pending'[g] = None /\ answered'[g] = <<Value(p[k][e])>> /\ seen'[g] = {} /\ pending[g] = call[g]
    BY <1>1, <1>6, SelfRemoves, InCall
  <1>11. held[k] = Value(p[k][e]) /\ held'[k] = None
    BY <1>1, <1>4, <1>7, HeldNext
  <1>12. ASSUME NEW j \in Key \ {k} PROVE held'[j] = held[j]
    BY <1>3, <1>4, HeldStays
  <1>13. HeldBecomes(k, None)
    BY <1>11, <1>12 DEF HeldBecomes
  <1>14. CASE held[k] # None
    <2>1. Plain!Next
      BY <1>1, <1>9, <1>10, <1>11, <1>13, <1>14, PlainEffect DEF Hist
    <2> QED
      BY <1>9, <2>1 DEF Follows
  <1>15. CASE held[k] = None
    <2>1. held' = held
      BY <1>11, <1>12, <1>15, PlainFunctions DEF Hist
    <2>2. None \in seen[g]
      BY <1>1, <1>15 DEF Hist, SeenKnown, Quiet
    <2>3. Plain!Next
      BY <1>1, <1>9, <1>10, <1>11, <1>15, <2>1, <2>2, PlainAnswer DEF Hist
    <2> QED
      BY <1>9, <2>3 DEF Follows
  <1> QED
    BY <1>14, <1>15

(* Load, LoadAndDelete and Range under the lock.                           *)
LEMMA LookupLockedFollows ==
  ASSUME Core, Hist, Core', Observe, NEW g \in G,
         LoadLocked(g) \/ LoadAndDeleteLocked(g) \/ RangeLocked(g)
  PROVE  Follows
  <1> DEFINE k == call[g].key
  <1>1. mpc[g] = "lock" /\ mu = None /\ p' = p /\ call[g].op \in {"Load", "LoadAndDelete", "Range"}
    BY DEF LoadLocked, LoadAndDeleteLocked, RangeLocked, MLocks
  <1>2. k \in Key /\ read.m[k] \in Entry \cup {None}
    BY <1>1, AtLock, ReadEntries
  <1>3. read.amended => dirty # None /\ dirty[k] \in Entry \cup {None} /\ Lookup(dirty, k) = dirty[k]
    BY <1>2, ReadEntries DEF Core, MapsFit, Lookup
  <1>4. ASSUME KeepMaps, NEW s \in {"load", "delete"}, Found(g, call[g], read.m[k], s),
               read.m[k] # None \/ ~read.amended
        PROVE  Follows
    <2>1. MapsMove({}) /\ NoneNew /\ NextCurrent(k) = Current(k)
      BY <1>2, <1>4, MapsKept DEF KeepMaps
    <2>2. read.m[k] # None => read.m[k] = NextCurrent(k)
      BY <2>1 DEF Current
    <2>3. read.m[k] = None => held[k] = None
      BY <1>2, <1>4, HeldNext DEF Current, Core, MapsFit
    <2> QED
      BY <1>1, <1>2, <1>4, <2>1, <2>2, <2>3, FoundFollows
  <1>5. ASSUME read.amended, Found(g, call[g], dirty[k], "load"),
               (read' = read /\ dirty' = dirty) \/ Promote(dirty)
        PROVE  Follows
    <2>1. Shrinks(dirty)
      BY <1>3, <1>5 DEF Shrinks, Core, MapsOK
    <2>2. {j \in Key : dirty[j] # dirty[j]} = {}
      OBVIOUS
    <2>3. MapsMove({}) /\ NoneNew /\ (dirty[k] # None => dirty[k] = NextCurrent(k))
      BY <1>1, <1>2, <1>5, <2>1, <2>2, MapsShrunk
    <2>4. dirty[k] = None => held[k] = None
      <3>1. SUFFICES ASSUME dirty[k] = None PROVE held[k] = None
        OBVIOUS
      <3>2. read.m[k] # None => p[k][read.m[k]] = Expunged
        BY <1>1, <1>2, <1>3, <1>5, <3>1, NobodyCopies DEF Core, MapsFit
      <3> QED
        BY <1>2, <1>3, <1>5, <3>1, <3>2, HeldNext DEF Current, Value
    <2> QED
      BY <1>1, <1>3, <1>5, <2>3, <2>4, FoundFollows
  <1>6. CASE LoadLocked(g)
    BY <1>4, <1>5, <1>6 DEF LoadLocked, missLocked
  <1>7. CASE RangeLocked(g)
    BY <1>4, <1>5, <1>7 DEF RangeLocked
  <1>8. CASE LoadAndDeleteLocked(g)
    <2>1. CASE read.m[k] = None /\ read.amended
      <3> DEFINE d == [dirty EXCEPT ![k] = None]
      <3>1. Found(g, call[g], dirty[k], "deleteRemoved") /\ ((read' = read /\ dirty' = d) \/ Promote(d))
        BY <1>8, <2>1 DEF LoadAndDeleteLocked, missLocked
      <3>2. call[g].op = "LoadAndDelete"
        BY <1>8 DEF LoadAndDeleteLocked, MLocks
      <3>3. CASE dirty[k] # None
        BY <1>1, <1>3, <2>1, <3>1, <3>2, <3>3, RemoveFollows DEF Found
      <3>4. CASE dirty[k] = None
        <4>1. d = dirty /\ Shrinks(dirty) /\ {j \in Key : dirty[j] # dirty[j]} = {}
          BY <1>2, <1>3, <2>1, <3>4 DEF Shrinks, Core, MapsOK
        <4>2. MapsMove({}) /\ NoneNew
          BY <1>1, <3>1, <4>1, MapsShrunk
        <4>3. held[k] = None
          BY <1>2, <1>3, <2>1, <3>4, HeldNext DEF Current
        <4>4. Found(g, call[g], None, "delete")
          BY <3>1, <3>4 DEF Found
        <4> QED
          BY <1>1, <3>2, <4>2, <4>3, <4>4, FoundFollows
      <3> QED
        BY <3>3, <3>4
    <2>2. CASE ~(read.m[k] = None /\ read.amended)
      BY <1>4, <1>8, <2>2 DEF LoadAndDeleteLocked
    <2> QED
      BY <2>1, <2>2
  <1> QED
    BY <1>6, <1>7, <1>8

(* A value for an entry that was found under the lock.                     *)
LEMMA EntryLockedFollows ==
  ASSUME Core, Hist, Core', Observe, NEW g \in G, EntryLocked(g)
  PROVE  Follows
  <1>1. mpc[g] = "entryLocked" /\ read' = read /\ dirty' = dirty
    BY DEF EntryLocked, KeepMaps
  <1>2. call[g].key \in Key /\ call[g].val \in Val /\ entry[g] \in Entry
    BY <1>1, InHand
  <1>3. p[call[g].key][entry[g]] # Expunged /\ entry[g] = Current(call[g].key)
    BY <1>1, <1>2 DEF Core, EntriesKnown, The, Current
  <1>4. MapsMove({}) /\ NoneNew /\ NextCurrent(call[g].key) = Current(call[g].key)
    BY <1>1, <1>2, MapsKept
  <1>5. call[g].op \in {"Store", "LoadOrStore"}
    BY <1>1, InHand, CallFields DEF Core, CallsMatch, OpsAt
  <1> QED
    BY <1>1, <1>2, <1>3, <1>4, <1>5, StoreFollows DEF EntryLocked, Quiet

(* A value for an entry that is in the dirty map only.                     *)
LEMMA DirtyEntryLockedFollows ==
  ASSUME Core, Hist, Core', Observe, NEW g \in G, DirtyEntryLocked(g)
  PROVE  Follows
  <1> DEFINE k == call[g].key
             e == Lookup(dirty, k)
  <1>1. /\ mpc[g] = "lock" /\ mu = None /\ read.m[k] = None /\ e # None
        /\ \/ call[g].op = "Store" /\ StoreTo(g, e) /\ KeepMaps
           \/ call[g].op = "LoadOrStore" /\ LoadOrStoreTo(g, e) /\ missLocked(dirty)
    BY DEF DirtyEntryLocked, MLocks
  <1>2. call[g].key \in Key /\ call[g].val \in Val /\ e \in Entry
    BY <1>1, AtLock, CallFields, ReadEntries
  <1>3. p[k][e] # Expunged /\ dirty # None /\ e = dirty[k] /\ e = Current(k)
    BY <1>1, <1>2 DEF Core, MapsFit, Lookup, Current
  <1>4. Shrinks(dirty) /\ {j \in Key : dirty[j] # dirty[j]} = {}
    BY <1>1, <1>2, <1>3, DirtyWithout
  <1>5. (read' = read /\ dirty' = dirty) \/ Promote(dirty)
    BY <1>1 DEF KeepMaps, missLocked
  <1>6. MapsMove({}) /\ NoneNew /\ NextCurrent(k) = e
    BY <1>1, <1>2, <1>3, <1>4, <1>5, MapsShrunk
  <1> HIDE DEF e
  <1> QED
    BY <1>1, <1>2, <1>3, <1>6, StoreFollows DEF Quiet

(* The dirty map gets an entry that the key has already: read.m does not   *)
(* change, and the dirty map only takes in entries of read.m.              *)
LEMMA DirtyFilled ==
  ASSUME read' = read, NEW k \in Key,
         \A j \in Key \ {k} : Lookup(dirty', j) = Lookup(dirty, j),
         Lookup(dirty', k) \in {Lookup(dirty, k), read.m[k]}, read.m[k] # None
  PROVE  MapsMove({}) /\ NoneNew /\ \A j \in Key : NextCurrent(j) = Current(j)
  <1>1. \A j \in Key : NextCurrent(j) = Current(j)
    BY DEF NextCurrent, Current
  <1>2. \A j \in Key : Lookup(dirty', j) \in {read.m[j], Lookup(dirty, j)}
    OBVIOUS
  <1> QED
    BY <1>1, <1>2 DEF MapsMove, NoneNew

(* An entry of read.m is unexpunged: no step of the plain map.             *)
LEMMA UnexpungeFollows ==
  ASSUME Core, Hist, Core', Observe, NEW g \in G, Unexpunge(g)
  PROVE  Follows
  <1> DEFINE k == call[g].key
             e == read.m[k]
  <1>1. /\ mpc[g] = "lock" /\ mu = None /\ read' = read
        /\ e # None /\ MGoOn(g, call[g], "entryLocked", e)
    BY DEF Unexpunge, MLocks
  <1>2. call[g] \in Calls /\ k \in Key /\ e \in Entry
    BY <1>1, AtLock, ReadEntries
  <1>3. Moves(g, "entryLocked", call[g], e, result[g])
    BY <1>1, <1>2, GoOnMoves DEF Core
  <1>4. mpc[g] \notin Quiet /\ "entryLocked" \notin Quiet
    BY <1>1 DEF Quiet
  <1>5. CASE p[k][e] # Expunged
    <2>1. p' = p /\ dirty' = dirty
      BY <1>5 DEF Unexpunge
    <2>2. MapsMove({}) /\ PointersMove(g) /\ held' = held /\ NextCurrent(k) = Current(k)
      BY <1>1, <1>2, <2>1, NothingMoves
    <2>3. Arrives("entryLocked", call[g], e)
      BY <1>1, <2>2 DEF Arrives, Current
    <2> HIDE DEF e
    <2> QED
      BY <1>3, <1>4, <2>2, <2>3, GoesOnFollows
  <1>6. CASE p[k][e] = Expunged
    <2>1. Put(g, e, Nil) /\ dirty' = [dirty EXCEPT ![k] = e] /\ dirty # None
      BY <1>1, <1>2, <1>6 DEF Unexpunge, Core, MapsFit
    <2>2. dirty' # None /\ \A j \in Key : dirty'[j] = IF j = k THEN e ELSE dirty[j]
      BY <1>2, <2>1 DEF Core, MapsOK
    <2>3. Lookup(dirty', k) = e /\ \A j \in Key \ {k} : Lookup(dirty', j) = Lookup(dirty, j)
      BY <1>2, <2>1, <2>2 DEF Lookup
    <2>4. MapsMove({}) /\ NoneNew /\ NextCurrent(k) = Current(k) /\ Current(k) = e
      BY <1>1, <1>2, <2>3, DirtyFilled DEF Current
    <2>5. Writes(k, e, Nil)
      BY <1>2, <2>1, PutWrites DEF Put, Core
    <2>6. PointersMove(g) /\ HeldBecomes(k, Value(Nil))
      BY <1>2, <2>4, <2>5, WriteMoves
    <2>7. held[k] = Value(Nil)
      BY <1>1, <1>2, <1>6, <2>4, HeldNext DEF Value
    <2>8. held' = held
      BY <1>2, <2>6, <2>7, PlainFunctions DEF HeldBecomes, Hist
    <2>9. Arrives("entryLocked", call[g], e)
      BY <2>4 DEF Arrives
    <2> HIDE DEF e
    <2> QED
      BY <1>3, <1>4, <2>4, <2>6, <2>8, <2>9, GoesOnFollows
  <1> QED
    BY <1>5, <1>6

(* dirtyLocked begins: no step of the plain map.                           *)
LEMMA StoreNewFollows ==
  ASSUME Core, Hist, Core', Observe, NEW g \in G, StoreNew(g)
  PROVE  Follows
  <1>1. mpc[g] = "lock" /\ read' = read /\ p' = p /\ MGoOn(g, call[g], "copy", None)
    BY DEF StoreNew, MLocks
  <1>2. Moves(g, "copy", call[g], None, result[g])
    BY <1>1, AtLock, GoOnMoves DEF Core
  <1>3. \A j \in Key : Lookup(dirty', j) = Lookup(dirty, j)
    <2>1. dirty' = dirty \/ (dirty = None /\ dirty' = Empty)
      BY DEF StoreNew
    <2> QED
      BY <2>1 DEF Lookup, Empty
  <1>4. MapsMove({}) /\ NoneNew
    BY <1>1, <1>3 DEF MapsMove, NoneNew, NextCurrent, Current
  <1>5. PointersMove(g) /\ held' = held
    BY <1>1, <1>4, NoWriteMoves
  <1> QED
    BY <1>1, <1>2, <1>4, <1>5, GoesOnFollows DEF Quiet, Arrives

(* A round of dirtyLocked: no step of the plain map.                       *)
LEMMA CopyFollows ==
  ASSUME Core, Hist, Core', Observe, NEW g \in G, NEW k \in Key, Copy(g, k)
  PROVE  Follows
  <1> DEFINE e == read.m[k]
  <1>1. /\ mpc[g] = "copy" /\ k \in todo /\ read' = read
        /\ UNCHANGED <<mpc, call, entry, result>>
    BY DEF Copy
  <1>2. e # None /\ dirty # None /\ dirty[k] = None /\ e \in Entry
    BY <1>1, ReadEntries DEF Core, CopyInv
  <1>3. Moves(g, "copy", call[g], None, result[g])
    BY <1>1 DEF Moves, Core, CallsMatch
  <1>4. \/ Value(p[k][e]) = None /\ p' = [p EXCEPT ![k][e] = Expunged] /\ dirty' = dirty
        \/ p' = p /\ dirty' = [dirty EXCEPT ![k] = e]
    BY DEF Copy
  <1>5. Lookup(dirty', k) \in {Lookup(dirty, k), e} /\ \A j \in Key \ {k} : Lookup(dirty', j) = Lookup(dirty, j)
    <2>1. CASE dirty' = dirty
      BY <2>1
    <2>2. CASE dirty' = [dirty EXCEPT ![k] = e]
      <3>1. dirty' # None /\ \A j \in Key : dirty'[j] = IF j = k THEN e ELSE dirty[j]
        BY <1>2, <2>2 DEF Core, MapsOK
      <3> QED
        BY <1>2, <3>1 DEF Lookup
    <2> QED
      BY <1>4, <2>1, <2>2
  <1>6. MapsMove({}) /\ NoneNew /\ NextCurrent(k) = Current(k) /\ Current(k) = e
    BY <1>1, <1>2, <1>5, DirtyFilled DEF Current
  <1>7. PointersMove(g) /\ held' = held
    <2>1. CASE p' = p
      BY <1>6, <2>1, NoWriteMoves
    <2>2. CASE Value(p[k][e]) = None /\ p' = [p EXCEPT ![k][e] = Expunged]
      <3>1. Writes(k, e, Expunged)
        BY <1>2, <2>2, PutWrites DEF Core
      <3>2. PointersMove(g) /\ HeldBecomes(k, Value(Expunged))
        BY <1>2, <1>6, <3>1, WriteMoves
      <3>3. held[k] = None /\ Value(Expunged) = None
        BY <1>2, <1>6, <2>2, HeldNext DEF Value
      <3> QED
        BY <3>2, <3>3, PlainFunctions DEF HeldBecomes, Hist
    <2> QED
      BY <1>4, <2>1, <2>2
  <1> QED
    BY <1>1, <1>3, <1>6, <1>7, GoesOnFollows DEF Quiet, Arrives

(* The new entry takes its place: the call takes effect.                   *)
LEMMA AddEntryFollows ==
  ASSUME Core, Hist, Core', Observe, NEW g \in G, AddEntry(g)
  PROVE  Follows
  <1> DEFINE k == call[g].key
             free == Entry \ InUse(k)
             e == CHOOSE x \in free : TRUE
  <1>1. /\ mpc[g] = "copy" /\ todo = {} /\ free # {} /\ read' = [read EXCEPT !.amended = TRUE]
        /\ dirty' = [dirty EXCEPT ![k] = e] /\ Put(g, e, call[g].val) /\ MReturn(g, None)
    BY DEF AddEntry, StoreTo
  <1>2. e \in Entry /\ e \notin InUse(k)
    BY <1>1
  <1> HIDE DEF e, free
  <1>3. /\ call[g] \in Calls /\ k \in Key /\ call[g].val \in Val /\ mpc[g] \notin Quiet
        /\ call[g].op \in {"Store", "LoadOrStore"}
    <2>1. call[g] \in Calls /\ call[g].op \in {"Store", "LoadOrStore"}
      BY <1>1 DEF Core, LocalsOK, CallsMatch, OpsAt
    <2> QED
      BY <1>1, <2>1, CallFields DEF Quiet
  <1>4. dirty # None /\ dirty \in [Key -> Entry \cup {None}] /\ read.m[k] = None /\ dirty[k] = None
    BY <1>1 DEF Core, CopyInv, MapsOK
  <1>5. read'.m = read.m
    BY <1>1 DEF Core, MapsOK
  <1>6. dirty' # None /\ \A j \in Key : dirty'[j] = IF j = k THEN e ELSE dirty[j]
    BY <1>1, <1>2, <1>3, <1>4
  <1>7. Lookup(dirty', k) = e /\ \A j \in Key \ {k} : Lookup(dirty', j) = Lookup(dirty, j)
    BY <1>3, <1>4, <1>6 DEF Lookup
  <1>8. /\ Current(k) = None /\ NextCurrent(k) = e
        /\ \A j \in Key \ {k} : NextCurrent(j) = Current(j)
    BY <1>3, <1>4, <1>5, <1>7 DEF Current, NextCurrent, Lookup
  <1>9. Fresh(k, e)
    BY <1>2 DEF Fresh, InUse
  <1>10. MapsMove({})
    <2> SUFFICES ASSUME NEW j \in Key
                 PROVE  /\ read'.m[j] = read.m[j]
                        /\ Lookup(dirty', j) = Lookup(dirty, j) \/ Fresh(j, Lookup(dirty', j))
                        /\ NextCurrent(j) = Current(j) \/ Current(j) = None
      BY DEF MapsMove
    <2> QED
      BY <1>5, <1>7, <1>8, <1>9
  <1>11. Writes(k, e, call[g].val)
    BY <1>1, <1>2, <1>3, PutWrites DEF Put, Core
  <1>12. PointersMove(g)
    BY <1>9, <1>11 DEF PointersMove, Writes
  <1>13. HeldBecomes(k, call[g].val) /\ held[k] = None
    <2>1. Value(call[g].val) = call[g].val /\ e # None
      BY <1>2, <1>3 DEF Value
    <2>2. held'[k] = call[g].val /\ held[k] = None
      BY <1>2, <1>3, <1>8, <1>11, <2>1, HeldNext DEF Writes
    <2>3. ASSUME NEW j \in Key \ {k} PROVE held'[j] = held[j]
      <3>1. Current(j) # None => p'[j][Current(j)] = p[j][Current(j)]
        BY <1>11, CurrentType DEF Writes
      <3> QED
        BY <1>8, <3>1, HeldNext
    <2> QED
      BY <2>2, <2>3 DEF HeldBecomes
  <1>14. Moves(g, "returned", None, None, <<None>>)
    BY <1>1, ReturnMoves DEF Core
  <1> QED
    BY <1>3, <1>10, <1>12, <1>13, <1>14, EffectFollows

-----------------------------------------------------------------------------
(* Every step.                                                             *)
LEMMA StepFollows ==
  ASSUME Core, Hist, Core', MapNext
  PROVE  Follows
  <1>1. PICK g \in G : (\E c \in Calls : Invoke(g, c)) \/ EntryStep(g) \/ LockedStep(g) \/ MReturned(g)
    BY DEF MapNext, MapNextWith
  <1>2. Observe
    BY DEF MapNext, MapNextWith
  <1> QED
    BY <1>1, <1>2, InvokeFollows, EntryStepFollows, ReturnedFollows, LookupLockedFollows, UnexpungeFollows,
       EntryLockedFollows, DirtyEntryLockedFollows, StoreNewFollows, CopyFollows, AddEntryFollows DEF LockedStep

(* What the history variable collects.                                     *)
HeldOK == \A k \in Key : held[k] \in Val \cup {None}

(* The value of every key is a value or None.                              *)
LEMMA HeldType == Core => HeldOK
  BY ReadEntries, ValueType DEF HeldOK, held, Current

(* So is what a call has seen.                                             *)
LEMMA SeenType ==
  ASSUME Core', seen \in [G -> SUBSET (Val \cup {None})], Observe
  PROVE  seen' \in [G -> SUBSET (Val \cup {None})]
  <1>1. HeldOK'
    BY HeldType, PTL
  <1>2. ASSUME NEW g \in G, mpc'[g] \notin {"idle", "returned", "deleteRemoved"}
        PROVE  held'[call'[g].key] \in Val \cup {None}
    <2>1. call'[g] \in Calls
      BY <1>2 DEF Core, LocalsOK, CallsMatch
    <2> QED
      BY <1>1, <2>1, CallFields DEF HeldOK
  <1> QED
    BY <1>2 DEF Observe

(* MapInv in the parts that the lemmas are about.                          *)
LEMMA MapInvParts == MapInv <=> Core /\ Hist
  BY DEF MapInv, MapTypeOK, Core, LocalsOK, MapsOK, Hist

(* At the start.                                                           *)
LEMMA InitMap == MapInit => MapInv /\ Plain!Init
  <1> SUFFICES ASSUME MapInit PROVE MapInv /\ Plain!Init
    OBVIOUS
  <1>1. Empty \in [Key -> Entry \cup {None}] /\ Empty # None /\ \A k \in Key : Empty[k] = None
    BY DEF Empty
  <1>2. MapTypeOK
    BY <1>1 DEF MapInit, MapTypeOK
  <1>3. CallsMatch /\ EntriesKnown /\ RemovedAlone /\ SeenKnown
    BY DEF MapInit, CallsMatch, EntriesKnown, RemovedAlone, Removed, SeenKnown
  <1>4. CopyInv /\ MapsFit
    BY <1>1 DEF MapInit, CopyInv, MapsFit, Lookup
  <1>5. \A k \in Key : Current(k) = None
    BY <1>1 DEF MapInit, Current, Lookup
  <1>6. held = [k \in Key |-> None]
    BY <1>5 DEF held
  <1>7. Plain!Init
    BY <1>6 DEF MapInit, Plain!Init, pending, answered, Removed
  <1> QED
    BY <1>2, <1>3, <1>4, <1>7 DEF MapInv

(* Every step preserves MapInv, and is one of the plain map or none.       *)
LEMMA StepMap == MapInv /\ [MapNext]_mapVars => MapInv' /\ [UNCHANGED mapVars \/ Plain!Next]_(Plain!vars)
  <1> SUFFICES ASSUME MapInv, [MapNext]_mapVars
               PROVE  MapInv' /\ [UNCHANGED mapVars \/ Plain!Next]_(Plain!vars)
    OBVIOUS
  <1>1. Core /\ Hist
    BY MapInvParts
  <1>2. CASE MapNext
    <2>1. Core'
      BY <1>1, <1>2, StepCore
    <2>2. Follows
      BY <1>1, <1>2, <2>1, StepFollows
    <2>3. seen' \in [G -> SUBSET (Val \cup {None})]
      BY <1>1, <1>2, <2>1, SeenType DEF MapNext, MapNextWith, Hist
    <2>4. Core' /\ Hist'
      BY <2>1, <2>2, <2>3 DEF Hist, Follows
    <2>5. MapInv'
      BY <2>4, MapInvParts, PTL
    <2> QED
      BY <2>2, <2>5 DEF Follows
  <1>3. CASE UNCHANGED mapVars
    <2> USE <1>3 DEF mapVars
    <2>1. MapTypeOK' /\ CallsMatch' /\ CopyInv'
      BY DEF MapInv, MapTypeOK, CallsMatch, CopyInv
    <2>2. MapsFit' /\ EntriesKnown'
      BY DEF MapInv, MapsFit, EntriesKnown, The, Lookup
    <2>3. RemovedAlone'
      BY DEF MapInv, RemovedAlone, Removed, The, Lookup
    <2>4. held' = held
      BY DEF held, Current, Lookup
    <2>5. SeenKnown'
      BY <2>4 DEF MapInv, SeenKnown, The, Current, Lookup
    <2> QED
      BY <2>1, <2>2, <2>3, <2>5 DEF MapInv
  <1> QED
    BY <1>2, <1>3

(* MapInv is an invariant of sync.Map: the read map and the dirty map fit  *)
(* together whatever the calls do to them, and an entry that a call has in *)
(* hand is never one that a store would be lost in.                        *)
THEOREM MapInvariance == MapSpec => []MapInv
  BY InitMap, StepMap, PTL DEF MapSpec

(* sync.Map is linearizable: with any number of goroutines, keys and       *)
(* values, every Load, Store, LoadOrStore, LoadAndDelete, Delete and Range *)
(* of map.go takes effect in one step between its begin and its return, or *)
(* answers with a value that its key had in that time.                     *)
THEOREM MapIsLinearizable == MapSpec => Linearizable
  BY InitMap, StepMap, PTL DEF MapSpec, Linearizable

(* The same in the words of module PlainMap.                               *)
THEOREM MapImplementsPlainMap == MapSpec => Plain!Spec
  <1>1. [UNCHANGED mapVars \/ Plain!Next]_(Plain!vars) => [Plain!Next]_(Plain!vars)
    BY DEF mapVars, Plain!vars, held, Current, Lookup, pending, answered, Removed, The
  <1> QED
    BY <1>1, InitMap, StepMap, PTL DEF MapSpec, Plain!Spec

=============================================================================
