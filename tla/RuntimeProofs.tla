--------------------------- MODULE RuntimeProofs ---------------------------
(***************************************************************************)
(* Proofs about two of the modules that MCRuntime runs: the life of a      *)
(* descriptor (module FD) and the timers (module Timers).                  *)
(*                                                                         *)
(* First fdMutex: FdMutexInv is inductive; it relates the word to what the *)
(* goroutines do, and each step changes both in the same way.  Then the    *)
(* poller: it does not throw, and nobody is left parked; the parts of      *)
(* FDInv are proved one after the other, for each kind of step.            *)
(*                                                                         *)
(* The timers: TimersInv is inductive; a step concerns one goroutine, one  *)
(* timer and one P, and need be looked at for these only (TouchedOnly).    *)
(* From it follows that each step is one of TimerService, or none.         *)
(***************************************************************************)
EXTENDS FD, Timers, Counting, FunctionTheorems, WellFoundedInduction


-----------------------------------------------------------------------------
(* The tokens that f owes, one pair for each.                              *)
Pairs(f) == UNION {{<<g, n>> : n \in 1..f[g]} : g \in G}

(* The pairs of one goroutine are as many as the tokens it owes.           *)
LEMMA PairsOfOne ==
  ASSUME NEW g, NEW k \in Nat
  PROVE  /\ IsFiniteSet({<<g, n>> : n \in 1..k})
         /\ Cardinality({<<g, n>> : n \in 1..k}) = k
  <1> DEFINE pair == [n \in 1..k |-> <<g, n>>]
  <1>1. IsFiniteSet(1..k) /\ Cardinality(1..k) = k
    BY FS_Interval
  <1>2. ExistsBijection(1..k, {<<g, n>> : n \in 1..k})
    <2>1. pair \in [1..k -> {<<g, n>> : n \in 1..k}]
      OBVIOUS
    <2>2. \A a, b \in 1..k : pair[a] = pair[b] => a = b
      OBVIOUS
    <2>3. \A t \in {<<g, n>> : n \in 1..k} : \E n \in 1..k : pair[n] = t
      OBVIOUS
    <2> HIDE DEF pair
    <2>4. pair \in Bijection(1..k, {<<g, n>> : n \in 1..k})
      BY <2>1, <2>2, <2>3, Fun_IsBij
    <2> QED
      BY <2>4, Fun_ExistsBij
  <1>3. /\ IsFiniteSet({<<g, n>> : n \in 1..k})
        /\ Cardinality({<<g, n>> : n \in 1..k}) = Cardinality(1..k)
    BY <1>1, <1>2, FS_Bijection
  <1> QED
    BY <1>1, <1>3

(* There are finitely many of them, and none if nobody owes any.           *)
LEMMA PairsFinite ==
  ASSUME NEW f \in [G -> Nat]
  PROVE  IsFiniteSet(Pairs(f)) /\ Cardinality(Pairs(f)) \in Nat
  <1> DEFINE mine(g) == {<<g, n>> : n \in 1..f[g]}
             all == {mine(g) : g \in G}
  <1>1. IsFiniteSet(all)
    <2> DEFINE F == [g \in G |-> mine(g)]
    <2>1. F \in [G -> all] /\ \A T \in all : \E g \in G : F[g] = T
      OBVIOUS
    <2> HIDE DEF F, all
    <2>2. F \in Surjection(G, all)
      BY <2>1, Fun_IsSurj
    <2> QED
      BY <2>2, GAssumption, FS_Surjection
  <1>2. \A T \in all : IsFiniteSet(T)
    BY PairsOfOne
  <1>3. IsFiniteSet(UNION all)
    BY <1>1, <1>2, FS_UNION
  <1> QED
    BY <1>3, FS_CardinalityType DEF Pairs

(* When one goroutine owes more or less, so does everybody together.       *)
LEMMA PairsChange ==
  ASSUME NEW f \in [G -> Nat], NEW h \in [G -> Nat], NEW g \in G,
         OthersStay(G, f, h, g)
  PROVE  Cardinality(Pairs(h)) = Cardinality(Pairs(f)) + h[g] - f[g]
  <1> DEFINE rest == UNION {{<<x, n>> : n \in 1..f[x]} : x \in G \ {g}}
             was == {<<g, n>> : n \in 1..f[g]}
             is == {<<g, n>> : n \in 1..h[g]}
  <1>1. /\ IsFiniteSet(was) /\ Cardinality(was) = f[g]
        /\ IsFiniteSet(is) /\ Cardinality(is) = h[g]
    BY PairsOfOne
  <1>2. Pairs(f) = rest \cup was
    BY DEF Pairs
  <1>3. Pairs(h) = rest \cup is
    BY DEF Pairs, OthersStay
  <1>4. rest \cap was = {} /\ rest \cap is = {}
    OBVIOUS
  <1>5. IsFiniteSet(rest) /\ Cardinality(rest) \in Nat
    BY <1>2, PairsFinite, CountIsNat
  <1>a. IsFiniteSet(Pairs(f)) /\ IsFiniteSet(Pairs(h))
    BY PairsFinite
  <1> HIDE DEF rest, was, is
  <1>6. Cardinality(Pairs(f)) = Cardinality(rest) + f[g]
    BY <1>1, <1>2, <1>4, <1>a, CountDisjoint
  <1>7. Cardinality(Pairs(h)) = Cardinality(rest) + h[g]
    BY <1>1, <1>3, <1>4, <1>a, CountDisjoint
  <1> QED
    BY <1>5, <1>6, <1>7

-----------------------------------------------------------------------------
(* Only g moves.                                                           *)
Moves(g) ==
  /\ OthersStay(G, fpc, fpc', g) /\ OthersStay(G, role, role', g)
  /\ OthersStay(G, owe, owe', g) /\ OthersStay(G, next, next', g)

(* What a goroutine contributes to the counts.                             *)
One(b) == IF b THEN 1 ELSE 0
Uses(g, m) == fpc[g] = "use" /\ role[g] = m
Sleeps(g, m) == fpc[g] = "sleep" /\ role[g] = m
Destroys(g) == fpc[g] = "destroy" \/ next[g] = "destroy"

Fits(g) ==
  /\ fpc[g] \in {"sleep", "lock"} => role[g] \in Mode
  /\ fpc[g] = "use" => role[g] \in Mode \cup {"misc"}
  /\ fpc[g] \in {"evict", "csema"} \/ next[g] = "evict" => role[g] = "close"
  /\ fpc[g] = "release" <=> owe[g] # Nobody
  /\ next[g] # "idle" => fpc[g] = "release"

(* The counts when g moves.                                                *)
LEMMA CountsMove ==
  ASSUME FdMutexTypeOK, FdMutexTypeOK', NEW g \in G, Moves(g)
  PROVE  /\ Cardinality({x \in G : Holds(x)})'
              = Cardinality({x \in G : Holds(x)}) + One(Holds(g)') - One(Holds(g))
         /\ \A m \in Mode :
              /\ Cardinality(Users(m))' = Cardinality(Users(m)) + One(Uses(g, m)') - One(Uses(g, m))
              /\ Cardinality(Sleepers(m))'
                   = Cardinality(Sleepers(m)) + One(Sleeps(g, m)') - One(Sleeps(g, m))
              /\ Cardinality(Owed(m))' = Cardinality(Owed(m)) + owe'[g][m] - owe[g][m]
         /\ Cardinality(Destroyers)' = Cardinality(Destroyers) + One(Destroys(g)') - One(Destroys(g))
  <1>1. \A x \in G \ {g} : /\ fpc'[x] = fpc[x] /\ role'[x] = role[x]
                           /\ owe'[x] = owe[x] /\ next'[x] = next[x]
    BY DEF Moves, OthersStay
  <1>2. Cardinality({x \in G : Holds(x)})'
          = Cardinality({x \in G : Holds(x)}) + One(Holds(g)') - One(Holds(g))
    <2> DEFINE A == {x \in G : Holds(x)}
               B == {x \in G : Holds(x)'}
    <2>1. A \in SUBSET G /\ B \in SUBSET G
      OBVIOUS
    <2>2. A \ {g} = B \ {g}
      BY <1>1 DEF Holds
    <2>3. Cardinality(B) = Cardinality(A) + In(g, B) - In(g, A)
      BY <2>1, <2>2, GAssumption, CountStep
    <2>4. (g \in A <=> Holds(g)) /\ (g \in B <=> Holds(g)')
      OBVIOUS
    <2> QED
      BY <2>3, <2>4 DEF In, One
  <1>3. ASSUME NEW m \in Mode
        PROVE  Cardinality(Users(m))' = Cardinality(Users(m)) + One(Uses(g, m)') - One(Uses(g, m))
    <2>1. Users(m) \in SUBSET G /\ Users(m)' \in SUBSET G
      BY DEF Users
    <2>2. Users(m) \ {g} = Users(m)' \ {g}
      BY <1>1 DEF Users
    <2>3. Cardinality(Users(m)') = Cardinality(Users(m)) + In(g, Users(m)') - In(g, Users(m))
      BY <2>1, <2>2, GAssumption, CountStep
    <2>4. (g \in Users(m) <=> Uses(g, m)) /\ (g \in Users(m)' <=> Uses(g, m)')
      BY DEF Users, Uses
    <2> QED
      BY <2>3, <2>4 DEF In, One
  <1>4. ASSUME NEW m \in Mode
        PROVE  Cardinality(Sleepers(m))'
                 = Cardinality(Sleepers(m)) + One(Sleeps(g, m)') - One(Sleeps(g, m))
    <2>1. Sleepers(m) \in SUBSET G /\ Sleepers(m)' \in SUBSET G
      BY DEF Sleepers
    <2>2. Sleepers(m) \ {g} = Sleepers(m)' \ {g}
      BY <1>1 DEF Sleepers
    <2>3. Cardinality(Sleepers(m)') = Cardinality(Sleepers(m)) + In(g, Sleepers(m)') - In(g, Sleepers(m))
      BY <2>1, <2>2, GAssumption, CountStep
    <2>4. (g \in Sleepers(m) <=> Sleeps(g, m)) /\ (g \in Sleepers(m)' <=> Sleeps(g, m)')
      BY DEF Sleepers, Sleeps
    <2> QED
      BY <2>3, <2>4 DEF In, One
  <1>5. ASSUME NEW m \in Mode
        PROVE  Cardinality(Owed(m))' = Cardinality(Owed(m)) + owe'[g][m] - owe[g][m]
    <2> DEFINE f == [x \in G |-> owe[x][m]]
               h == [x \in G |-> owe'[x][m]]
    <2>1. f \in [G -> Nat] /\ h \in [G -> Nat]
      BY DEF FdMutexTypeOK
    <2>2. OthersStay(G, f, h, g)
      BY <1>1 DEF OthersStay
    <2>3. Cardinality(Pairs(h)) = Cardinality(Pairs(f)) + h[g] - f[g]
      BY <2>1, <2>2, PairsChange
    <2>4. Pairs(f) = Owed(m) /\ Pairs(h) = Owed(m)'
      BY DEF Pairs, Owed
    <2> QED
      BY <2>3, <2>4
  <1>6. Cardinality(Destroyers)' = Cardinality(Destroyers) + One(Destroys(g)') - One(Destroys(g))
    <2>1. Destroyers \in SUBSET G /\ Destroyers' \in SUBSET G
      BY DEF Destroyers
    <2>2. Destroyers \ {g} = Destroyers' \ {g}
      BY <1>1 DEF Destroyers
    <2>3. Cardinality(Destroyers') = Cardinality(Destroyers) + In(g, Destroyers') - In(g, Destroyers)
      BY <2>1, <2>2, GAssumption, CountStep
    <2>4. (g \in Destroyers <=> Destroys(g)) /\ (g \in Destroyers' <=> Destroys(g)')
      BY DEF Destroyers, Destroys
    <2> QED
      BY <2>3, <2>4 DEF In, One
  <1> QED
    BY <1>2, <1>3, <1>4, <1>5, <1>6

(* The counts are natural numbers, and whoever is counted makes them       *)
(* positive.                                                               *)
LEMMA CountsAreNat ==
  ASSUME FdMutexTypeOK
  PROVE  /\ Cardinality({x \in G : Holds(x)}) \in Nat
         /\ \A g \in G : Holds(g) => Cardinality({x \in G : Holds(x)}) > 0
         /\ \A m \in Mode : /\ Cardinality(Users(m)) \in Nat
                            /\ Cardinality(Sleepers(m)) \in Nat
                            /\ Cardinality(Owed(m)) \in Nat
                            /\ \A g \in G : Uses(g, m) => Cardinality(Users(m)) > 0
         /\ Cardinality(Destroyers) \in Nat
         /\ \A g \in G : Destroys(g) => Cardinality(Destroyers) > 0
  <1>1. /\ Cardinality({x \in G : Holds(x)}) \in Nat
        /\ \A g \in G : Holds(g) => Cardinality({x \in G : Holds(x)}) > 0
    <2> DEFINE A == {x \in G : Holds(x)}
    <2>1. A \in SUBSET G
      OBVIOUS
    <2>2. Cardinality(A) \in Nat /\ (Cardinality(A) = 0 <=> A = {})
      BY <2>1, GAssumption, CountIsNat
    <2>3. \A g \in G : Holds(g) => g \in A
      OBVIOUS
    <2> QED
      BY <2>2, <2>3
  <1>2. \A m \in Mode : /\ Cardinality(Users(m)) \in Nat
                        /\ \A g \in G : Uses(g, m) => Cardinality(Users(m)) > 0
    <2> SUFFICES ASSUME NEW m \in Mode
                 PROVE  /\ Cardinality(Users(m)) \in Nat
                        /\ \A g \in G : Uses(g, m) => Cardinality(Users(m)) > 0
      OBVIOUS
    <2>1. Users(m) \in SUBSET G
      BY DEF Users
    <2>2. Cardinality(Users(m)) \in Nat /\ (Cardinality(Users(m)) = 0 <=> Users(m) = {})
      BY <2>1, GAssumption, CountIsNat
    <2>3. \A g \in G : Uses(g, m) => g \in Users(m)
      BY DEF Uses, Users
    <2> QED
      BY <2>2, <2>3
  <1>3. \A m \in Mode : Cardinality(Sleepers(m)) \in Nat
    BY GAssumption, CountIsNat DEF Sleepers
  <1>4. \A m \in Mode : Cardinality(Owed(m)) \in Nat
    <2> SUFFICES ASSUME NEW m \in Mode
                 PROVE  Cardinality(Owed(m)) \in Nat
      OBVIOUS
    <2>1. [x \in G |-> owe[x][m]] \in [G -> Nat]
      BY DEF FdMutexTypeOK
    <2>2. Pairs([x \in G |-> owe[x][m]]) = Owed(m)
      BY DEF Pairs, Owed
    <2> QED
      BY <2>1, <2>2, PairsFinite
  <1>5. /\ Cardinality(Destroyers) \in Nat
        /\ \A g \in G : Destroys(g) => Cardinality(Destroyers) > 0
    <2>1. Destroyers \in SUBSET G
      BY DEF Destroyers
    <2>2. Cardinality(Destroyers) \in Nat /\ (Cardinality(Destroyers) = 0 <=> Destroyers = {})
      BY <2>1, GAssumption, CountIsNat
    <2>3. \A g \in G : Destroys(g) => g \in Destroyers
      BY DEF Destroys, Destroyers
    <2> QED
      BY <2>2, <2>3
  <1> QED
    BY <1>1, <1>2, <1>3, <1>4, <1>5
(* The word, the semaphores and sysfd change as what g contributes to the  *)
(* counts does.                                                            *)
RefsMove(g) == fdmu'.refs = fdmu.refs + One(Holds(g)') - One(Holds(g))

LocksMove(g) ==
  \A m \in Mode :
    One(m \in fdmu'.locked) - One(m \in fdmu.locked) = One(Uses(g, m)') - One(Uses(g, m))

SleepersMove(g) ==
  /\ fdmu'.closed => fdmu'.wait = Nobody
  /\ \A m \in Mode :
       fdmu'.wait[m] + rwsema'[m] + owe'[g][m]
         = fdmu.wait[m] + rwsema[m] + owe[g][m] + One(Sleeps(g, m)') - One(Sleeps(g, m))

DestroyMoves(g) ==
  One(Destroys(g)') - One(Destroys(g)) + One(~sysfd') - One(~sysfd)
    = One(NoReference(fdmu')) - One(NoReference(fdmu))

(* FdMutexInv after such a step.                                           *)
LEMMA FdMutexChange ==
  ASSUME FdMutexInv, FdMutexTypeOK', sysfd \in BOOLEAN, sysfd' \in BOOLEAN,
         NEW g \in G, Moves(g), Fits(g)',
         RefsMove(g), LocksMove(g), SleepersMove(g), DestroyMoves(g)
  PROVE  FdMutexInv'
  <1>1. /\ FdMutexTypeOK /\ CallsFit /\ RefsCounted /\ LocksCounted
        /\ SleepersCounted /\ DestroyedOnce
    BY DEF FdMutexInv
  <1>2. CallsFit'
    BY <1>1 DEF CallsFit, Fits, Moves, OthersStay
  <1>3. RefsCounted'
    BY <1>1, CountsMove DEF RefsCounted, RefsMove
  <1>4. LocksCounted'
    <2> SUFFICES ASSUME NEW m \in Mode
                 PROVE  Cardinality(Users(m))' = IF m \in fdmu'.locked THEN 1 ELSE 0
      BY DEF LocksCounted
    <2>1. Cardinality(Users(m))' = Cardinality(Users(m)) + One(Uses(g, m)') - One(Uses(g, m))
      BY <1>1, CountsMove
    <2>2. Cardinality(Users(m)) = IF m \in fdmu.locked THEN 1 ELSE 0
      BY <1>1 DEF LocksCounted
    <2> QED
      BY <2>1, <2>2 DEF One, LocksMove
  <1>5. SleepersCounted'
    <2> SUFFICES ASSUME NEW m \in Mode
                 PROVE  Cardinality(Sleepers(m))'
                          = fdmu'.wait[m] + rwsema'[m] + Cardinality(Owed(m))'
      BY DEF SleepersCounted, SleepersMove
    <2>1. Cardinality(Sleepers(m))'
            = Cardinality(Sleepers(m)) + One(Sleeps(g, m)') - One(Sleeps(g, m))
      BY <1>1, CountsMove
    <2>2. Cardinality(Owed(m))' = Cardinality(Owed(m)) + owe'[g][m] - owe[g][m]
      BY <1>1, CountsMove
    <2>3. Cardinality(Sleepers(m)) = fdmu.wait[m] + rwsema[m] + Cardinality(Owed(m))
      BY <1>1 DEF SleepersCounted
    <2>4. Cardinality(Sleepers(m)) \in Nat /\ Cardinality(Owed(m)) \in Nat
      BY <1>1, CountsAreNat
    <2>5. /\ fdmu.wait[m] \in Nat /\ rwsema[m] \in Nat /\ owe[g][m] \in Nat
          /\ fdmu'.wait[m] \in Nat /\ rwsema'[m] \in Nat /\ owe'[g][m] \in Nat
      BY <1>1 DEF FdMutexTypeOK
    <2>6. fdmu'.wait[m] + rwsema'[m] + owe'[g][m]
            = fdmu.wait[m] + rwsema[m] + owe[g][m] + One(Sleeps(g, m)') - One(Sleeps(g, m))
      BY DEF SleepersMove
    <2> QED
      BY <2>1, <2>2, <2>3, <2>4, <2>5, <2>6 DEF One
  <1>6. DestroyedOnce'
    <2>1. Cardinality(Destroyers)' = Cardinality(Destroyers) + One(Destroys(g)') - One(Destroys(g))
      BY <1>1, CountsMove
    <2>2. Cardinality(Destroyers) + One(~sysfd) = One(NoReference(fdmu))
      BY <1>1 DEF DestroyedOnce, One
    <2>3. Cardinality(Destroyers) \in Nat
      BY <1>1, CountsAreNat
    <2>4. Cardinality(Destroyers)' + One(~sysfd') = One(NoReference(fdmu'))
      BY <2>1, <2>2, <2>3 DEF One, DestroyMoves
    <2> QED
      BY <2>4 DEF DestroyedOnce, One
  <1> QED
    BY <1>1, <1>2, <1>3, <1>4, <1>5, <1>6 DEF FdMutexInv

-----------------------------------------------------------------------------
(* A goroutine at this step has this much to do with the word.             *)
LEMMA AtStep ==
  ASSUME FdMutexInv, NEW g \in G
  PROVE  /\ FdMutexTypeOK /\ Fits(g)
         /\ fpc[g] # "release" => owe[g] = Nobody /\ next[g] = "idle"
         /\ fpc[g] \in {"idle", "lock", "sleep", "csema"} => ~Holds(g) /\ ~Destroys(g)
         /\ fpc[g] \in {"use", "evict"} => Holds(g) /\ ~Destroys(g)
         /\ fdmu.closed => fdmu.wait = Nobody
         /\ Holds(g) => fdmu.refs > 0 /\ ~NoReference(fdmu)
         /\ \A m \in Mode : Uses(g, m) => m \in fdmu.locked
         /\ Destroys(g) => NoReference(fdmu) /\ sysfd
  <1>1. FdMutexTypeOK /\ Fits(g)
    BY DEF FdMutexInv, CallsFit, Fits
  <1>2. fpc[g] # "release" => owe[g] = Nobody /\ next[g] = "idle"
    BY <1>1 DEF Fits
  <1>3. fpc[g] \in {"idle", "lock", "sleep", "csema"} => ~Holds(g) /\ ~Destroys(g)
    BY <1>2 DEF Holds, Destroys
  <1>4. fpc[g] \in {"use", "evict"} => Holds(g) /\ ~Destroys(g)
    BY <1>1, <1>2 DEF Holds, Destroys, Fits
  <1>5. fdmu.closed => fdmu.wait = Nobody
    BY DEF FdMutexInv, SleepersCounted
  <1>6. Holds(g) => fdmu.refs > 0 /\ ~NoReference(fdmu)
    BY <1>1, CountsAreNat DEF FdMutexInv, RefsCounted, NoReference
  <1>7. \A m \in Mode : Uses(g, m) => m \in fdmu.locked
    BY <1>1, CountsAreNat DEF FdMutexInv, LocksCounted
  <1>8. Destroys(g) => NoReference(fdmu) /\ sysfd
    <2>1. Cardinality(Destroyers) + (IF sysfd THEN 0 ELSE 1) = IF NoReference(fdmu) THEN 1 ELSE 0
      BY DEF FdMutexInv, DestroyedOnce
    <2> QED
      BY <1>1, <2>1, CountsAreNat
  <1> QED
    BY <1>1, <1>2, <1>3, <1>4, <1>5, <1>6, <1>7, <1>8

(* The word of fdMutex with its types.                                     *)
Word == [closed : BOOLEAN, locked : SUBSET Mode, refs : Nat, wait : [Mode -> Nat]]

(* g goes to s, in role k, with the tokens o to release before it goes on  *)
(* at n; what it keeps is as good as what it changes.                      *)
Becomes(g, s, k, o, n) ==
  /\ fpc' = [fpc EXCEPT ![g] = s]
  /\ role' = [role EXCEPT ![g] = k]
  /\ owe' = [owe EXCEPT ![g] = o]
  /\ next' = [next EXCEPT ![g] = n]

(* Then the types are kept, and the others stay where they are.            *)
LEMMA BecomesTyped ==
  ASSUME FdMutexTypeOK, NEW g \in G, fdmu' \in Word, rwsema' \in [Mode -> Nat],
         NEW s \in FPC, NEW k \in Mode \cup {"misc", "close", None},
         NEW o \in [Mode -> Nat], NEW n \in {"idle", "evict", "destroy"},
         Becomes(g, s, k, o, n)
  PROVE  /\ FdMutexTypeOK' /\ Moves(g)
         /\ fpc'[g] = s /\ role'[g] = k /\ owe'[g] = o /\ next'[g] = n
  BY DEF FdMutexTypeOK, Word, Becomes, Moves, OthersStay

(* A step that leaves what g owes alone, ...                               *)
LEMMA KeepOwedBecomes ==
  ASSUME FdMutexTypeOK, KeepOwed, NEW g \in G, NEW s, NEW k,
         fpc' = [fpc EXCEPT ![g] = s], role' = [role EXCEPT ![g] = k]
  PROVE  Becomes(g, s, k, owe[g], next[g])
  BY DEF FdMutexTypeOK, KeepOwed, Becomes

(* ... and one that FGoto describes.                                       *)
LEMMA FGotoBecomes ==
  ASSUME FdMutexTypeOK, KeepOwed, NEW g \in G, NEW from, NEW s, FGoto(g, from, s)
  PROVE  /\ fpc[g] \in from
         /\ Becomes(g, s, IF s = "idle" THEN None ELSE role[g], owe[g], next[g])
  BY DEF FdMutexTypeOK, KeepOwed, FGoto, Becomes

-----------------------------------------------------------------------------
(* incref: one more reference, for another call.                           *)
LEMMA IncrefKeeps ==
  ASSUME FdMutexInv, sysfd \in BOOLEAN, NEW g \in G, incref(g), UNCHANGED sysfd
  PROVE  FdMutexInv'
  <1>1. /\ FdMutexTypeOK /\ Fits(g) /\ fpc[g] = "idle" /\ ~fdmu.closed
        /\ owe[g] = Nobody /\ next[g] = "idle" /\ ~Holds(g) /\ ~Destroys(g)
    BY AtStep DEF incref
  <1>2. /\ fdmu' \in Word /\ rwsema' = rwsema
        /\ fdmu'.refs = fdmu.refs + 1 /\ fdmu'.closed = fdmu.closed
        /\ fdmu'.locked = fdmu.locked /\ fdmu'.wait = fdmu.wait
    <2>1. fdmu' = [fdmu EXCEPT !.refs = fdmu.refs + 1] /\ rwsema' = rwsema
      BY <1>1 DEF incref
    <2>2. fdmu \in Word
      BY <1>1 DEF FdMutexTypeOK, Word
    <2> QED
      BY <2>1, <2>2 DEF Word
  <1>3. Becomes(g, "use", "misc", Nobody, "idle")
    BY <1>1, KeepOwedBecomes DEF incref
  <1>4. Nobody \in [Mode -> Nat] /\ rwsema \in [Mode -> Nat]
    BY <1>1 DEF Nobody, FdMutexTypeOK
  <1>5. /\ FdMutexTypeOK' /\ Moves(g)
        /\ fpc'[g] = "use" /\ role'[g] = "misc" /\ owe'[g] = Nobody /\ next'[g] = "idle"
    BY <1>1, <1>2, <1>3, <1>4, BecomesTyped DEF FPC
  <1>6. Fits(g)' /\ Holds(g)' /\ ~Destroys(g)'
    BY <1>5 DEF Fits, Holds, Destroys
  <1>7. \A m \in Mode : ~Uses(g, m) /\ ~Uses(g, m)' /\ ~Sleeps(g, m) /\ ~Sleeps(g, m)'
    BY <1>1, <1>5 DEF Uses, Sleeps, Mode
  <1>8. ~NoReference(fdmu) /\ ~NoReference(fdmu')
    BY <1>1, <1>2 DEF NoReference
  <1>9. RefsMove(g)
    BY <1>1, <1>2, <1>6 DEF One, RefsMove, FdMutexTypeOK
  <1>10. LocksMove(g)
    BY <1>2, <1>7 DEF One, LocksMove
  <1>11. SleepersMove(g)
    BY <1>1, <1>2, <1>5, <1>7 DEF One, SleepersMove, FdMutexTypeOK
  <1>12. DestroyMoves(g)
    BY <1>1, <1>6, <1>8 DEF One, DestroyMoves
  <1> QED
    BY <1>5, <1>6, <1>9, <1>10, <1>11, <1>12, FdMutexChange

(* increfAndClose: all waiters are taken out of the word at once.          *)
LEMMA IncrefAndCloseKeeps ==
  ASSUME FdMutexInv, sysfd \in BOOLEAN, NEW g \in G, increfAndClose(g), UNCHANGED sysfd
  PROVE  FdMutexInv'
  <1> DEFINE woken == fdmu.wait = Nobody
  <1>1. /\ FdMutexTypeOK /\ Fits(g) /\ fpc[g] = "idle" /\ ~fdmu.closed
        /\ owe[g] = Nobody /\ next[g] = "idle" /\ ~Holds(g) /\ ~Destroys(g)
    BY AtStep DEF increfAndClose
  <1>2. /\ fdmu' \in Word /\ rwsema' = rwsema
        /\ fdmu'.refs = fdmu.refs + 1 /\ fdmu'.closed
        /\ fdmu'.locked = fdmu.locked /\ fdmu'.wait = Nobody
    <2>1. /\ fdmu' = [fdmu EXCEPT !.closed = TRUE, !.refs = fdmu.refs + 1, !.wait = Nobody]
          /\ rwsema' = rwsema
      BY <1>1 DEF increfAndClose
    <2>2. fdmu \in Word /\ Nobody \in [Mode -> Nat]
      BY <1>1 DEF FdMutexTypeOK, Word, Nobody
    <2>3. fdmu' = [closed |-> TRUE, locked |-> fdmu.locked, refs |-> fdmu.refs + 1, wait |-> Nobody]
      BY <2>1, <2>2 DEF Word
    <2>4. fdmu.locked \in SUBSET Mode /\ fdmu.refs + 1 \in Nat
      BY <2>2 DEF Word
    <2>5. fdmu' \in Word
      BY <2>2, <2>3, <2>4 DEF Word
    <2> QED
      BY <2>1, <2>3, <2>5
  <1>3. Becomes(g, IF woken THEN "evict" ELSE "release", "close", fdmu.wait,
                IF woken THEN "idle" ELSE "evict")
    BY DEF increfAndClose, Becomes
  <1>4. fdmu.wait \in [Mode -> Nat] /\ rwsema \in [Mode -> Nat]
    BY <1>1 DEF FdMutexTypeOK
  <1>5. /\ FdMutexTypeOK' /\ Moves(g)
        /\ fpc'[g] = (IF woken THEN "evict" ELSE "release") /\ role'[g] = "close"
        /\ owe'[g] = fdmu.wait /\ next'[g] = (IF woken THEN "idle" ELSE "evict")
    BY <1>1, <1>2, <1>3, <1>4, BecomesTyped DEF FPC
  <1>6. Fits(g)' /\ Holds(g)' /\ ~Destroys(g)'
    BY <1>5 DEF Fits, Holds, Destroys
  <1>7. \A m \in Mode : ~Uses(g, m) /\ ~Uses(g, m)' /\ ~Sleeps(g, m) /\ ~Sleeps(g, m)'
    BY <1>1, <1>5 DEF Uses, Sleeps, Mode
  <1>8. ~NoReference(fdmu) /\ ~NoReference(fdmu')
    BY <1>1, <1>2 DEF NoReference, FdMutexTypeOK
  <1>9. RefsMove(g)
    BY <1>1, <1>2, <1>6 DEF One, RefsMove, FdMutexTypeOK
  <1>10. LocksMove(g)
    BY <1>2, <1>7 DEF One, LocksMove
  <1>11. SleepersMove(g)
    <2> SUFFICES ASSUME NEW m \in Mode
                 PROVE  fdmu'.wait[m] + rwsema'[m] + owe'[g][m]
                          = fdmu.wait[m] + rwsema[m] + owe[g][m] + One(Sleeps(g, m)') - One(Sleeps(g, m))
      BY <1>2 DEF SleepersMove
    <2>1. fdmu.wait[m] \in Nat /\ rwsema[m] \in Nat /\ Nobody[m] = 0
      BY <1>4 DEF Nobody
    <2> QED
      BY <1>1, <1>2, <1>5, <1>7, <2>1 DEF One
  <1>12. DestroyMoves(g)
    BY <1>1, <1>6, <1>8 DEF One, DestroyMoves
  <1> QED
    BY <1>5, <1>6, <1>9, <1>10, <1>11, <1>12, FdMutexChange

(* Semrelease: a token that was owed is there for a sleeper.               *)
LEMMA SemreleaseKeeps ==
  ASSUME FdMutexInv, sysfd \in BOOLEAN, NEW g \in G, Semrelease(g), UNCHANGED sysfd
  PROVE  FdMutexInv'
  <1> DEFINE m == IF owe[g]["r"] > 0 THEN "r" ELSE "w"
             o == [owe[g] EXCEPT ![m] = @ - 1]
             to == IF o = Nobody THEN next[g] ELSE "release"
             k == IF to = "idle" THEN None ELSE role[g]
             n == IF o = Nobody THEN "idle" ELSE next[g]
  <1>1. /\ FdMutexTypeOK /\ Fits(g) /\ fpc[g] = "release"
        /\ fdmu.closed => fdmu.wait = Nobody
    BY AtStep DEF Semrelease
  <1>2. owe[g] \in [Mode -> Nat] /\ owe[g] # Nobody /\ rwsema \in [Mode -> Nat]
    BY <1>1 DEF FdMutexTypeOK, Fits
  <1>3. m \in Mode /\ owe[g][m] > 0
    BY <1>2 DEF Mode, Nobody
  <1>4. /\ o \in [Mode -> Nat] /\ o[m] = owe[g][m] - 1
        /\ \A i \in Mode \ {m} : o[i] = owe[g][i]
    BY <1>2, <1>3
  <1>5. fdmu' = fdmu /\ rwsema' = [rwsema EXCEPT ![m] = @ + 1] /\ Becomes(g, to, k, o, n)
    BY <1>1 DEF Semrelease, ReleaseThen, FGoto, Becomes, FdMutexTypeOK
  <1> HIDE DEF m, o
  <1>6. /\ next[g] \in {"idle", "evict", "destroy"}
        /\ role[g] \in Mode \cup {"misc", "close", None}
        /\ fdmu \in Word
    BY <1>1 DEF FdMutexTypeOK, Word
  <1>7. /\ FdMutexTypeOK' /\ Moves(g)
        /\ fpc'[g] = to /\ role'[g] = k /\ owe'[g] = o /\ next'[g] = n
    <2>1. rwsema' \in [Mode -> Nat]
      BY <1>2, <1>3, <1>5
    <2>2. to \in FPC /\ n \in {"idle", "evict", "destroy"} /\ k \in Mode \cup {"misc", "close", None}
      BY <1>6 DEF FPC
    <2> HIDE DEF to, k, n
    <2> QED
      BY <1>1, <1>4, <1>5, <1>6, <2>1, <2>2, BecomesTyped
  <1>8. Fits(g)'
    BY <1>1, <1>6, <1>7 DEF Fits
  <1>9. (Holds(g)' <=> Holds(g)) /\ (Destroys(g)' <=> Destroys(g))
    BY <1>1, <1>6, <1>7 DEF Holds, Destroys, Fits
  <1>10. \A i \in Mode : ~Uses(g, i) /\ ~Uses(g, i)' /\ ~Sleeps(g, i) /\ ~Sleeps(g, i)'
    BY <1>1, <1>6, <1>7 DEF Uses, Sleeps
  <1>11. RefsMove(g)
    BY <1>1, <1>5, <1>9 DEF One, RefsMove, FdMutexTypeOK
  <1>12. LocksMove(g)
    BY <1>5, <1>10 DEF One, LocksMove
  <1>13. SleepersMove(g)
    <2> SUFFICES ASSUME NEW i \in Mode
                 PROVE  fdmu'.wait[i] + rwsema'[i] + owe'[g][i]
                          = fdmu.wait[i] + rwsema[i] + owe[g][i] + One(Sleeps(g, i)') - One(Sleeps(g, i))
      BY <1>1, <1>5 DEF SleepersMove
    <2>1. fdmu.wait[i] \in Nat /\ rwsema[i] \in Nat /\ owe[g][i] \in Nat
      BY <1>1 DEF FdMutexTypeOK
    <2>2. rwsema'[i] + o[i] = rwsema[i] + owe[g][i]
      BY <1>2, <1>3, <1>4, <1>5, <2>1
    <2>3. rwsema'[i] \in Nat /\ o[i] \in Nat
      BY <1>4, <1>7 DEF FdMutexTypeOK
    <2> QED
      BY <1>5, <1>7, <1>10, <2>1, <2>2, <2>3 DEF One
  <1>14. DestroyMoves(g)
    BY <1>5, <1>9 DEF One, DestroyMoves
  <1> QED
    BY <1>7, <1>8, <1>11, <1>12, <1>13, <1>14, FdMutexChange

(* A word with other fields.                                               *)
LEMMA WordWith ==
  ASSUME NEW w \in Word
  PROVE  /\ \A n \in Nat : [w EXCEPT !.refs = n] \in Word
         /\ \A n \in Nat, L \in SUBSET Mode : [w EXCEPT !.locked = L, !.refs = n] \in Word
         /\ \A q \in [Mode -> Nat] : [w EXCEPT !.wait = q] \in Word
         /\ \A n \in Nat, L \in SUBSET Mode, q \in [Mode -> Nat] :
              [w EXCEPT !.locked = L, !.refs = n, !.wait = q] \in Word
         /\ [w EXCEPT !.closed = FALSE] \in Word
  BY DEF Word

(* decref by a call that is neither Read nor Write, or by Close.           *)
LEMMA DecrefKeeps ==
  ASSUME FdMutexInv, sysfd \in BOOLEAN, NEW g \in G, UNCHANGED sysfd,
         \/ role[g] = "misc" /\ decref(g, {"use"}, "idle")
         \/ role[g] = "close" /\ decref(g, {"evict"}, "csema")
  PROVE  FdMutexInv'
  <1> DEFINE w == [fdmu EXCEPT !.refs = fdmu.refs - 1]
             s == IF role[g] = "misc" THEN "idle" ELSE "csema"
             to == IF NoReference(w) THEN "destroy" ELSE s
             k == IF to = "idle" THEN None ELSE role[g]
  <1>1. /\ FdMutexTypeOK /\ Fits(g) /\ fpc[g] \in {"use", "evict"}
        /\ role[g] \in {"misc", "close"} /\ fdmu' = w /\ rwsema' = rwsema
        /\ FGoto(g, {"use", "evict"}, to) /\ KeepOwed
    BY AtStep DEF decref, FGoto
  <1>2. /\ owe[g] = Nobody /\ next[g] = "idle" /\ Holds(g) /\ ~Destroys(g)
        /\ fdmu.refs > 0 /\ ~NoReference(fdmu)
        /\ fdmu.closed => fdmu.wait = Nobody
    BY <1>1, AtStep
  <1>3. /\ fdmu \in Word /\ fdmu.refs \in Nat /\ rwsema \in [Mode -> Nat]
        /\ fdmu.wait \in [Mode -> Nat] /\ Nobody \in [Mode -> Nat]
    BY <1>1 DEF FdMutexTypeOK, Word, Nobody
  <1>4. w \in Word
    <2>1. fdmu.refs - 1 \in Nat
      BY <1>2, <1>3
    <2> QED
      BY <1>3, <2>1, WordWith
  <1>5. /\ w.refs = fdmu.refs - 1 /\ w.closed = fdmu.closed
        /\ w.locked = fdmu.locked /\ w.wait = fdmu.wait
    BY <1>3 DEF Word
  <1> HIDE DEF w
  <1>6. Becomes(g, to, k, Nobody, "idle")
    BY <1>1, <1>2, FGotoBecomes
  <1>7. /\ FdMutexTypeOK' /\ Moves(g)
        /\ fpc'[g] = to /\ role'[g] = k /\ owe'[g] = Nobody /\ next'[g] = "idle"
    <2>1. to \in FPC /\ k \in Mode \cup {"misc", "close", None}
      BY <1>1 DEF FPC
    <2> HIDE DEF to, k
    <2> QED
      BY <1>1, <1>3, <1>4, <1>6, <2>1, BecomesTyped
  <1>8. Fits(g)' /\ ~Holds(g)' /\ (Destroys(g)' <=> NoReference(w))
    BY <1>1, <1>7 DEF Fits, Holds, Destroys
  <1>9. \A m \in Mode : ~Uses(g, m) /\ ~Uses(g, m)' /\ ~Sleeps(g, m) /\ ~Sleeps(g, m)'
    BY <1>1, <1>7 DEF Uses, Sleeps, Mode
  <1>10. RefsMove(g)
    BY <1>1, <1>2, <1>3, <1>5, <1>8 DEF One, RefsMove
  <1>11. LocksMove(g)
    BY <1>1, <1>5, <1>9 DEF One, LocksMove
  <1>12. SleepersMove(g)
    BY <1>1, <1>2, <1>3, <1>5, <1>7, <1>9 DEF One, SleepersMove
  <1>13. DestroyMoves(g)
    BY <1>1, <1>2, <1>8 DEF One, DestroyMoves
  <1> QED
    BY <1>7, <1>8, <1>10, <1>11, <1>12, <1>13, FdMutexChange

(* rwlock on a closed descriptor.                                          *)
LEMMA RwlockClosedKeeps ==
  ASSUME FdMutexInv, sysfd \in BOOLEAN, NEW g \in G, NEW m \in Mode, rwlockClosed(g, m),
         UNCHANGED sysfd
  PROVE  FdMutexInv'
  <1>1. /\ FdMutexTypeOK /\ Fits(g) /\ fpc[g] \in {"idle", "lock"}
        /\ owe[g] = Nobody /\ next[g] = "idle" /\ ~Holds(g) /\ ~Destroys(g)
        /\ fdmu.closed => fdmu.wait = Nobody
        /\ fdmu' = fdmu /\ rwsema' = rwsema
    BY AtStep DEF rwlockClosed, RWLock
  <1>2. Becomes(g, "idle", None, Nobody, "idle")
    BY <1>1, FGotoBecomes DEF rwlockClosed
  <1>3. /\ FdMutexTypeOK' /\ Moves(g)
        /\ fpc'[g] = "idle" /\ role'[g] = None /\ owe'[g] = Nobody /\ next'[g] = "idle"
    <2>1. fdmu \in Word /\ rwsema \in [Mode -> Nat] /\ Nobody \in [Mode -> Nat]
      BY <1>1 DEF FdMutexTypeOK, Word, Nobody
    <2> QED
      BY <1>1, <1>2, <2>1, BecomesTyped DEF FPC
  <1>4. Fits(g)' /\ ~Holds(g)' /\ ~Destroys(g)'
    BY <1>3 DEF Fits, Holds, Destroys
  <1>5. \A i \in Mode : ~Uses(g, i) /\ ~Uses(g, i)' /\ ~Sleeps(g, i) /\ ~Sleeps(g, i)'
    BY <1>1, <1>3 DEF Uses, Sleeps
  <1>6. RefsMove(g) /\ LocksMove(g) /\ DestroyMoves(g)
    BY <1>1, <1>4, <1>5 DEF One, RefsMove, LocksMove, DestroyMoves, FdMutexTypeOK
  <1>7. SleepersMove(g)
    BY <1>1, <1>3, <1>5 DEF One, SleepersMove, FdMutexTypeOK
  <1> QED
    BY <1>3, <1>4, <1>6, <1>7, FdMutexChange

(* rwlock that gets the lock, and a reference with it.                     *)
LEMMA RwlockFreeKeeps ==
  ASSUME FdMutexInv, sysfd \in BOOLEAN, NEW g \in G, NEW m \in Mode, rwlockFree(g, m),
         UNCHANGED sysfd
  PROVE  FdMutexInv'
  <1> DEFINE w == [fdmu EXCEPT !.locked = fdmu.locked \cup {m}, !.refs = fdmu.refs + 1]
  <1>1. /\ FdMutexTypeOK /\ Fits(g) /\ fpc[g] \in {"idle", "lock"}
        /\ owe[g] = Nobody /\ next[g] = "idle" /\ ~Holds(g) /\ ~Destroys(g)
        /\ ~fdmu.closed /\ m \notin fdmu.locked
        /\ fdmu' = w /\ rwsema' = rwsema
    BY AtStep DEF rwlockFree, RWLock
  <1>2. /\ fdmu \in Word /\ fdmu.refs \in Nat /\ fdmu.locked \in SUBSET Mode
        /\ rwsema \in [Mode -> Nat] /\ fdmu.wait \in [Mode -> Nat] /\ Nobody \in [Mode -> Nat]
    BY <1>1 DEF FdMutexTypeOK, Word, Nobody
  <1>3. w \in Word
    <2>1. fdmu.refs + 1 \in Nat /\ fdmu.locked \cup {m} \in SUBSET Mode
      BY <1>2
    <2> QED
      BY <1>2, <2>1, WordWith
  <1>4. /\ w.refs = fdmu.refs + 1 /\ w.closed = fdmu.closed
        /\ w.locked = fdmu.locked \cup {m} /\ w.wait = fdmu.wait
    BY <1>2 DEF Word
  <1> HIDE DEF w
  <1>5. Becomes(g, "use", m, Nobody, "idle")
    <2>1. fpc' = [fpc EXCEPT ![g] = "use"] /\ role' = [role EXCEPT ![g] = m] /\ KeepOwed
      BY DEF rwlockFree
    <2> QED
      BY <1>1, <2>1, KeepOwedBecomes
  <1>6. /\ FdMutexTypeOK' /\ Moves(g)
        /\ fpc'[g] = "use" /\ role'[g] = m /\ owe'[g] = Nobody /\ next'[g] = "idle"
    BY <1>1, <1>2, <1>3, <1>5, BecomesTyped DEF FPC
  <1>7. Fits(g)' /\ Holds(g)' /\ ~Destroys(g)'
    BY <1>6 DEF Fits, Holds, Destroys
  <1>8. \A i \in Mode : /\ ~Uses(g, i) /\ (Uses(g, i)' <=> i = m)
                        /\ ~Sleeps(g, i) /\ ~Sleeps(g, i)'
    BY <1>1, <1>6 DEF Uses, Sleeps
  <1>9. ~NoReference(fdmu) /\ ~NoReference(fdmu')
    BY <1>1, <1>4 DEF NoReference
  <1>10. RefsMove(g)
    BY <1>1, <1>2, <1>4, <1>7 DEF One, RefsMove
  <1>11. LocksMove(g)
    BY <1>1, <1>4, <1>8 DEF One, LocksMove
  <1>12. SleepersMove(g)
    BY <1>1, <1>2, <1>4, <1>6, <1>8 DEF One, SleepersMove
  <1>13. DestroyMoves(g)
    BY <1>1, <1>7, <1>9 DEF One, DestroyMoves
  <1> QED
    BY <1>6, <1>7, <1>10, <1>11, <1>12, <1>13, FdMutexChange

(* rwlock that finds the lock taken: g is one more waiter.                 *)
LEMMA RwlockWaitKeeps ==
  ASSUME FdMutexInv, sysfd \in BOOLEAN, NEW g \in G, NEW m \in Mode, rwlockWait(g, m),
         UNCHANGED sysfd
  PROVE  FdMutexInv'
  <1> DEFINE q == [fdmu.wait EXCEPT ![m] = fdmu.wait[m] + 1]
             w == [fdmu EXCEPT !.wait = q]
  <1>1. /\ FdMutexTypeOK /\ Fits(g) /\ fpc[g] \in {"idle", "lock"}
        /\ owe[g] = Nobody /\ next[g] = "idle" /\ ~Holds(g) /\ ~Destroys(g)
        /\ ~fdmu.closed /\ rwsema' = rwsema
    BY AtStep DEF rwlockWait, RWLock
  <1>2. /\ fdmu \in Word /\ fdmu.refs \in Nat
        /\ rwsema \in [Mode -> Nat] /\ fdmu.wait \in [Mode -> Nat] /\ Nobody \in [Mode -> Nat]
    BY <1>1 DEF FdMutexTypeOK, Word, Nobody
  <1>3. q \in [Mode -> Nat] /\ q[m] = fdmu.wait[m] + 1 /\ \A i \in Mode \ {m} : q[i] = fdmu.wait[i]
    BY <1>2
  <1>4. fdmu' = w
    BY <1>1, <1>2 DEF rwlockWait
  <1> HIDE DEF q
  <1>5. w \in Word
    BY <1>2, <1>3, WordWith
  <1>6. /\ w.refs = fdmu.refs /\ w.closed = fdmu.closed
        /\ w.locked = fdmu.locked /\ w.wait = q
    BY <1>2 DEF Word
  <1> HIDE DEF w
  <1>7. Becomes(g, "sleep", m, Nobody, "idle")
    BY <1>1, KeepOwedBecomes DEF rwlockWait
  <1>8. /\ FdMutexTypeOK' /\ Moves(g)
        /\ fpc'[g] = "sleep" /\ role'[g] = m /\ owe'[g] = Nobody /\ next'[g] = "idle"
    BY <1>1, <1>2, <1>4, <1>5, <1>7, BecomesTyped DEF FPC
  <1>9. Fits(g)' /\ ~Holds(g)' /\ ~Destroys(g)'
    BY <1>8 DEF Fits, Holds, Destroys, Mode
  <1>10. \A i \in Mode : /\ ~Uses(g, i) /\ ~Uses(g, i)'
                         /\ ~Sleeps(g, i) /\ (Sleeps(g, i)' <=> i = m)
    BY <1>1, <1>8 DEF Uses, Sleeps
  <1>11. NoReference(fdmu) <=> NoReference(fdmu')
    BY <1>4, <1>6 DEF NoReference
  <1>12. RefsMove(g)
    BY <1>1, <1>2, <1>4, <1>6, <1>9 DEF One, RefsMove
  <1>13. LocksMove(g)
    BY <1>4, <1>6, <1>10 DEF One, LocksMove
  <1>14. SleepersMove(g)
    <2> SUFFICES ASSUME NEW i \in Mode
                 PROVE  fdmu'.wait[i] + rwsema'[i] + owe'[g][i]
                          = fdmu.wait[i] + rwsema[i] + owe[g][i] + One(Sleeps(g, i)') - One(Sleeps(g, i))
      BY <1>1, <1>4, <1>6 DEF SleepersMove
    <2>1. fdmu.wait[i] \in Nat /\ rwsema[i] \in Nat /\ Nobody[i] = 0
      BY <1>2 DEF Nobody
    <2>2. q[i] = fdmu.wait[i] + One(Sleeps(g, i)') - One(Sleeps(g, i))
      BY <1>3, <1>10, <2>1 DEF One
    <2> QED
      BY <1>1, <1>4, <1>6, <1>8, <2>1, <2>2 DEF One
  <1>15. DestroyMoves(g)
    BY <1>1, <1>9, <1>11 DEF One, DestroyMoves
  <1> QED
    BY <1>8, <1>9, <1>12, <1>13, <1>14, <1>15, FdMutexChange

(* Semacquire of a sleeper takes a token and tries the lock again.         *)
LEMMA SemacquireKeeps ==
  ASSUME FdMutexInv, sysfd \in BOOLEAN, NEW g \in G, Semacquire(g), UNCHANGED sysfd
  PROVE  FdMutexInv'
  <1> DEFINE m == role[g]
  <1>1. /\ FdMutexTypeOK /\ Fits(g) /\ fpc[g] = "sleep" /\ m \in Mode
        /\ owe[g] = Nobody /\ next[g] = "idle" /\ ~Holds(g) /\ ~Destroys(g)
        /\ fdmu.closed => fdmu.wait = Nobody
    BY AtStep DEF Semacquire, Fits
  <1>2. /\ fdmu' = fdmu /\ rwsema' = [rwsema EXCEPT ![m] = rwsema[m] - 1] /\ rwsema[m] > 0
        /\ FGoto(g, {"sleep"}, "lock") /\ KeepOwed
    BY DEF Semacquire
  <1>3. /\ fdmu \in Word /\ rwsema \in [Mode -> Nat] /\ Nobody \in [Mode -> Nat]
        /\ fdmu.wait \in [Mode -> Nat] /\ role[g] \in Mode \cup {"misc", "close", None}
        /\ fdmu.refs \in Nat
    BY <1>1 DEF FdMutexTypeOK, Word, Nobody
  <1>4. Becomes(g, "lock", m, Nobody, "idle")
    BY <1>1, <1>2, FGotoBecomes
  <1> HIDE DEF m
  <1>5. rwsema' \in [Mode -> Nat]
    BY <1>1, <1>2, <1>3
  <1>6. /\ FdMutexTypeOK' /\ Moves(g)
        /\ fpc'[g] = "lock" /\ role'[g] = m /\ owe'[g] = Nobody /\ next'[g] = "idle"
    BY <1>1, <1>2, <1>3, <1>4, <1>5, BecomesTyped DEF FPC
  <1>7. Fits(g)' /\ ~Holds(g)' /\ ~Destroys(g)'
    BY <1>1, <1>6 DEF Fits, Holds, Destroys, Mode
  <1>8. \A i \in Mode : /\ ~Uses(g, i) /\ ~Uses(g, i)'
                        /\ (Sleeps(g, i) <=> i = m) /\ ~Sleeps(g, i)'
    BY <1>1, <1>6 DEF Uses, Sleeps, m
  <1>9. RefsMove(g) /\ LocksMove(g) /\ DestroyMoves(g)
    BY <1>1, <1>2, <1>3, <1>7, <1>8 DEF One, RefsMove, LocksMove, DestroyMoves
  <1>10. SleepersMove(g)
    <2> SUFFICES ASSUME NEW i \in Mode
                 PROVE  fdmu'.wait[i] + rwsema'[i] + owe'[g][i]
                          = fdmu.wait[i] + rwsema[i] + owe[g][i] + One(Sleeps(g, i)') - One(Sleeps(g, i))
      BY <1>1, <1>2 DEF SleepersMove
    <2>1. fdmu.wait[i] \in Nat /\ rwsema[i] \in Nat /\ Nobody[i] = 0
      BY <1>3 DEF Nobody
    <2>2. rwsema'[i] = rwsema[i] + One(Sleeps(g, i)') - One(Sleeps(g, i))
      BY <1>1, <1>2, <1>3, <1>8, <2>1 DEF One
    <2> QED
      BY <1>1, <1>2, <1>6, <2>1, <2>2 DEF One
  <1> QED
    BY <1>6, <1>7, <1>9, <1>10, FdMutexChange

(* rwunlock: the lock, the reference, and one waiter who is owed a token.  *)
LEMMA RwunlockKeeps ==
  ASSUME FdMutexInv, sysfd \in BOOLEAN, NEW g \in G, rwunlock(g), UNCHANGED sysfd
  PROVE  FdMutexInv'
  <1> DEFINE m == role[g]
             n == IF fdmu.wait[m] > 0 THEN 1 ELSE 0
             q == [fdmu.wait EXCEPT ![m] = fdmu.wait[m] - n]
             w == [fdmu EXCEPT !.locked = fdmu.locked \ {m}, !.refs = fdmu.refs - 1, !.wait = q]
             o == [Nobody EXCEPT ![m] = n]
             s == IF NoReference(w) THEN "destroy" ELSE "idle"
             to == IF o = Nobody THEN s ELSE "release"
             k == IF to = "idle" THEN None ELSE m
             then == IF o = Nobody THEN "idle" ELSE s
  <1>1. /\ FdMutexTypeOK /\ Fits(g) /\ fpc[g] = "use" /\ m \in Mode
        /\ owe[g] = Nobody /\ next[g] = "idle" /\ Holds(g) /\ ~Destroys(g)
        /\ fdmu.refs > 0 /\ ~NoReference(fdmu) /\ m \in fdmu.locked
        /\ fdmu.closed => fdmu.wait = Nobody
    BY AtStep DEF rwunlock, Uses
  <1>2. /\ fdmu \in Word /\ rwsema \in [Mode -> Nat] /\ Nobody \in [Mode -> Nat]
        /\ fdmu.wait \in [Mode -> Nat] /\ fdmu.refs \in Nat /\ fdmu.locked \in SUBSET Mode
    BY <1>1 DEF FdMutexTypeOK, Word, Nobody
  <1>3. fdmu' = w /\ rwsema' = rwsema /\ ReleaseThen(g, {"use"}, o, s)
    <2>1. fdmu' = [fdmu EXCEPT !.locked = fdmu.locked \ {m}, !.refs = fdmu.refs - 1,
                               !.wait[m] = fdmu.wait[m] - n]
      BY DEF rwunlock
    <2>2. fdmu' = w
      BY <2>1, <1>2 DEF Word
    <2>3. ReleaseThen(g, {"use"}, o, IF NoReference(fdmu') THEN "destroy" ELSE "idle")
      BY DEF rwunlock
    <2> QED
      BY <2>2, <2>3 DEF rwunlock
  <1>4. Becomes(g, to, k, o, then)
    BY <1>3 DEF ReleaseThen, FGoto, Becomes
  <1>5. /\ q \in [Mode -> Nat] /\ o \in [Mode -> Nat]
        /\ \A i \in Mode : q[i] + o[i] = fdmu.wait[i] /\ o[i] = (IF i = m THEN n ELSE 0)
        /\ o = Nobody <=> n = 0
        /\ fdmu.closed => q = Nobody
    <2>1. n \in Nat /\ fdmu.wait[m] - n \in Nat /\ fdmu.wait[m] \in Nat
      BY <1>1, <1>2
    <2>2. \A i \in Mode : fdmu.wait[i] \in Nat /\ Nobody[i] = 0
      BY <1>2 DEF Nobody
    <2>3. q \in [Mode -> Nat] /\ o \in [Mode -> Nat]
      BY <1>2, <2>1
    <2>4. \A i \in Mode : q[i] + o[i] = fdmu.wait[i] /\ o[i] = (IF i = m THEN n ELSE 0)
      BY <1>1, <1>2, <2>1, <2>2
    <2>5. o = Nobody <=> n = 0
      BY <1>1, <1>2, <2>2, <2>3, <2>4
    <2>6. fdmu.closed => q = Nobody
      BY <1>1, <1>2, <2>2
    <2> QED
      BY <2>3, <2>4, <2>5, <2>6
  <1> HIDE DEF q, o
  <1>6. w \in Word
    <2>1. fdmu.refs - 1 \in Nat /\ fdmu.locked \ {m} \in SUBSET Mode
      BY <1>1, <1>2
    <2> QED
      BY <1>2, <1>5, <2>1, WordWith
  <1>7. /\ w.refs = fdmu.refs - 1 /\ w.closed = fdmu.closed
        /\ w.locked = fdmu.locked \ {m} /\ w.wait = q
    BY <1>2 DEF Word
  <1> HIDE DEF w, m
  <1>8. /\ FdMutexTypeOK' /\ Moves(g)
        /\ fpc'[g] = to /\ role'[g] = k /\ owe'[g] = o /\ next'[g] = then
    <2>1. to \in FPC /\ k \in Mode \cup {"misc", "close", None} /\ then \in {"idle", "evict", "destroy"}
      BY <1>1 DEF FPC
    <2>2. fdmu' \in Word /\ rwsema' \in [Mode -> Nat] /\ o \in [Mode -> Nat]
      BY <1>2, <1>3, <1>5, <1>6
    <2>3. FdMutexTypeOK
      BY <1>1
    <2> HIDE DEF to, k, then, s, n
    <2> QED
      BY <1>4, <2>1, <2>2, <2>3, BecomesTyped
  <1>9. Fits(g)' /\ ~Holds(g)' /\ (Destroys(g)' <=> NoReference(w))
    BY <1>1, <1>8 DEF Fits, Holds, Destroys, Mode
  <1>10. \A i \in Mode : /\ (Uses(g, i) <=> i = m) /\ ~Uses(g, i)'
                         /\ ~Sleeps(g, i) /\ ~Sleeps(g, i)'
    BY <1>1, <1>8 DEF Uses, Sleeps, m
  <1>11. RefsMove(g)
    BY <1>1, <1>2, <1>3, <1>7, <1>9 DEF One, RefsMove
  <1>12. LocksMove(g)
    BY <1>1, <1>3, <1>7, <1>10 DEF One, LocksMove
  <1>13. SleepersMove(g)
    <2> SUFFICES ASSUME NEW i \in Mode
                 PROVE  fdmu'.wait[i] + rwsema'[i] + owe'[g][i]
                          = fdmu.wait[i] + rwsema[i] + owe[g][i] + One(Sleeps(g, i)') - One(Sleeps(g, i))
      BY <1>3, <1>5, <1>7 DEF SleepersMove
    <2>1. /\ fdmu.wait[i] \in Nat /\ rwsema[i] \in Nat /\ Nobody[i] = 0
          /\ q[i] \in Nat /\ o[i] \in Nat
      BY <1>2, <1>5 DEF Nobody
    <2> QED
      BY <1>1, <1>3, <1>5, <1>7, <1>8, <1>10, <2>1 DEF One
  <1>14. DestroyMoves(g)
    BY <1>1, <1>3, <1>9 DEF One, DestroyMoves
  <1> QED
    BY <1>8, <1>9, <1>11, <1>12, <1>13, <1>14, FdMutexChange

(* destroy: the one call that was left to do so.                           *)
LEMMA DestroyKeeps ==
  ASSUME FdMutexInv, sysfd \in BOOLEAN, NEW g \in G, destroy(g)
  PROVE  FdMutexInv' /\ sysfd' \in BOOLEAN
  <1> DEFINE to == IF role[g] = "close" THEN "csema" ELSE "idle"
             k == IF to = "idle" THEN None ELSE role[g]
  <1>1. /\ FdMutexTypeOK /\ Fits(g) /\ fpc[g] = "destroy" /\ sysfd /\ NoReference(fdmu)
        /\ owe[g] = Nobody /\ next[g] = "idle"
        /\ fdmu.closed => fdmu.wait = Nobody
    BY AtStep DEF destroy, FGoto, Destroys
  <1>2. ~Holds(g) /\ Destroys(g)
    BY <1>1 DEF Holds, Destroys
  <1>3. /\ fdmu' = fdmu /\ rwsema' = rwsema /\ sysfd' = FALSE
        /\ FGoto(g, {"destroy"}, to) /\ KeepOwed
    BY DEF destroy
  <1>4. Becomes(g, to, k, Nobody, "idle")
    BY <1>1, <1>3, FGotoBecomes
  <1>5. /\ fdmu \in Word /\ rwsema \in [Mode -> Nat] /\ Nobody \in [Mode -> Nat]
        /\ fdmu.wait \in [Mode -> Nat] /\ fdmu.refs \in Nat
    BY <1>1 DEF FdMutexTypeOK, Word, Nobody
  <1>6. /\ FdMutexTypeOK' /\ Moves(g)
        /\ fpc'[g] = to /\ role'[g] = k /\ owe'[g] = Nobody /\ next'[g] = "idle"
    <2>1. to \in FPC /\ k \in Mode \cup {"misc", "close", None}
      BY <1>1 DEF FPC, FdMutexTypeOK
    <2> HIDE DEF to, k
    <2> QED
      BY <1>1, <1>3, <1>4, <1>5, <2>1, BecomesTyped
  <1>7. Fits(g)' /\ ~Holds(g)' /\ ~Destroys(g)'
    BY <1>6 DEF Fits, Holds, Destroys
  <1>8. \A i \in Mode : ~Uses(g, i) /\ ~Uses(g, i)' /\ ~Sleeps(g, i) /\ ~Sleeps(g, i)'
    BY <1>1, <1>6 DEF Uses, Sleeps
  <1>9. RefsMove(g) /\ LocksMove(g)
    BY <1>2, <1>3, <1>5, <1>7, <1>8 DEF One, RefsMove, LocksMove
  <1>10. SleepersMove(g)
    BY <1>1, <1>3, <1>5, <1>6, <1>8 DEF One, SleepersMove
  <1>11. DestroyMoves(g)
    BY <1>1, <1>2, <1>3, <1>7 DEF One, DestroyMoves
  <1> QED
    BY <1>3, <1>6, <1>7, <1>9, <1>10, <1>11, FdMutexChange

(* The end of Close.                                                       *)
LEMMA ClosedKeeps ==
  ASSUME FdMutexInv, sysfd \in BOOLEAN, NEW g \in G, Closed(g)
  PROVE  FdMutexInv' /\ sysfd' \in BOOLEAN
  <1>1. /\ FdMutexTypeOK /\ Fits(g) /\ fpc[g] = "csema"
        /\ owe[g] = Nobody /\ next[g] = "idle" /\ ~Holds(g) /\ ~Destroys(g)
        /\ fdmu.closed => fdmu.wait = Nobody
        /\ fdmu' = fdmu /\ rwsema' = rwsema /\ sysfd' = sysfd
    BY AtStep DEF Closed, FGoto
  <1>2. Becomes(g, "idle", None, Nobody, "idle")
    BY <1>1, FGotoBecomes DEF Closed
  <1>3. /\ fdmu \in Word /\ rwsema \in [Mode -> Nat] /\ Nobody \in [Mode -> Nat]
        /\ fdmu.wait \in [Mode -> Nat] /\ fdmu.refs \in Nat
    BY <1>1 DEF FdMutexTypeOK, Word, Nobody
  <1>4. /\ FdMutexTypeOK' /\ Moves(g)
        /\ fpc'[g] = "idle" /\ role'[g] = None /\ owe'[g] = Nobody /\ next'[g] = "idle"
    BY <1>1, <1>2, <1>3, BecomesTyped DEF FPC
  <1>5. Fits(g)' /\ ~Holds(g)' /\ ~Destroys(g)'
    BY <1>4 DEF Fits, Holds, Destroys
  <1>6. \A i \in Mode : ~Uses(g, i) /\ ~Uses(g, i)' /\ ~Sleeps(g, i) /\ ~Sleeps(g, i)'
    BY <1>1, <1>4 DEF Uses, Sleeps
  <1>7. RefsMove(g) /\ LocksMove(g) /\ DestroyMoves(g)
    BY <1>1, <1>3, <1>5, <1>6 DEF One, RefsMove, LocksMove, DestroyMoves
  <1>8. SleepersMove(g)
    BY <1>1, <1>3, <1>4, <1>6 DEF One, SleepersMove
  <1> QED
    BY <1>1, <1>4, <1>5, <1>7, <1>8, FdMutexChange

(* Open: nobody is in a call, so the counts are all zero.                  *)
LEMMA OpenKeeps ==
  ASSUME FdMutexInv, sysfd \in BOOLEAN, Open(MaxSeq)
  PROVE  FdMutexInv' /\ sysfd' \in BOOLEAN
  <1>1. /\ FdMutexTypeOK /\ CallsFit /\ RefsCounted /\ LocksCounted /\ SleepersCounted
    BY DEF FdMutexInv
  <1>2. /\ \A g \in G : fpc[g] = "idle"
        /\ UNCHANGED <<rwsema, role, fpc, owe, next>>
        /\ fdmu' = [fdmu EXCEPT !.closed = FALSE] /\ sysfd'
        /\ sysfd' \in BOOLEAN
    BY DEF Open
  <1>3. fdmu \in Word
    BY <1>1 DEF FdMutexTypeOK, Word
  <1>4. /\ fdmu' \in Word /\ fdmu'.closed = FALSE /\ fdmu'.refs = fdmu.refs
        /\ fdmu'.locked = fdmu.locked /\ fdmu'.wait = fdmu.wait
    BY <1>2, <1>3, WordWith DEF Word
  <1>5. FdMutexTypeOK' /\ CallsFit'
    BY <1>1, <1>2, <1>4 DEF FdMutexTypeOK, CallsFit, Word
  <1>6. RefsCounted' /\ LocksCounted' /\ SleepersCounted'
    BY <1>1, <1>2, <1>4 DEF RefsCounted, LocksCounted, SleepersCounted, Holds, Users, Sleepers, Owed
  <1>7. DestroyedOnce'
    <2>1. Destroyers' = {}
      BY <1>1, <1>2 DEF Destroyers, CallsFit
    <2>2. Cardinality(Destroyers') = 0
      BY <2>1, FS_EmptySet
    <2> QED
      BY <1>2, <1>4, <2>2 DEF DestroyedOnce, NoReference
  <1> QED
    BY <1>2, <1>5, <1>6, <1>7 DEF FdMutexInv

(* The poller does not touch what FdMutexInv is about.                     *)
LEMMA PollerKeeps ==
  ASSUME FdMutexInv, sysfd \in BOOLEAN, UNCHANGED <<fdmuVars, sysfd>>
  PROVE  FdMutexInv' /\ sysfd' \in BOOLEAN
  <1>1. UNCHANGED <<fdmu, rwsema, role, fpc, owe, next, sysfd>>
    BY DEF fdmuVars
  <1>2. FdMutexTypeOK' /\ CallsFit'
    BY <1>1 DEF FdMutexInv, FdMutexTypeOK, CallsFit
  <1>3. RefsCounted' /\ LocksCounted' /\ SleepersCounted' /\ DestroyedOnce'
    BY <1>1 DEF FdMutexInv, RefsCounted, LocksCounted, SleepersCounted, DestroyedOnce, NoReference,
                Holds, Users, Sleepers, Owed, Destroyers
  <1> QED
    BY <1>1, <1>2, <1>3 DEF FdMutexInv

(* A descriptor that is not used yet.                                      *)
LEMMA FdMutexInitially == FDInit => FdMutexInv /\ sysfd \in BOOLEAN
  <1> SUFFICES ASSUME FDInit
               PROVE  FdMutexInv /\ sysfd \in BOOLEAN
    OBVIOUS
  <1>1. /\ fdmu = [closed |-> FALSE, locked |-> {}, refs |-> 0, wait |-> Nobody]
        /\ rwsema = Nobody /\ role = [g \in G |-> None] /\ fpc = [g \in G |-> "idle"]
        /\ owe = [g \in G |-> Nobody] /\ next = [g \in G |-> "idle"] /\ sysfd = TRUE
    BY DEF FDInit, FdMutexInit
  <1>2. Nobody \in [Mode -> Nat] /\ \A m \in Mode : Nobody[m] = 0
    BY DEF Nobody
  <1>3. FdMutexTypeOK
    BY <1>1, <1>2 DEF FdMutexTypeOK, FPC
  <1>4. CallsFit
    BY <1>1 DEF CallsFit
  <1>5. Cardinality({}) = 0
    BY FS_EmptySet
  <1>6. RefsCounted
    <2>1. {g \in G : Holds(g)} = {}
      BY <1>1 DEF Holds
    <2> QED
      BY <1>1, <1>5, <2>1 DEF RefsCounted
  <1>7. LocksCounted
    <2>1. \A m \in Mode : Users(m) = {}
      BY <1>1 DEF Users
    <2> QED
      BY <1>1, <1>5, <2>1 DEF LocksCounted
  <1>8. SleepersCounted
    <2>1. \A m \in Mode : Sleepers(m) = {} /\ Owed(m) = {}
      BY <1>1, <1>2 DEF Sleepers, Owed
    <2>2. ~fdmu.closed /\ \A m \in Mode : fdmu.wait[m] = 0 /\ rwsema[m] = 0
      BY <1>1, <1>2
    <2> QED
      BY <1>5, <2>1, <2>2 DEF SleepersCounted
  <1>9. DestroyedOnce
    <2>1. Destroyers = {}
      BY <1>1 DEF Destroyers
    <2> QED
      BY <1>1, <1>5, <2>1 DEF DestroyedOnce, NoReference
  <1> QED
    BY <1>1, <1>3, <1>4, <1>6, <1>7, <1>8, <1>9 DEF FdMutexInv

(* A step of the system keeps the invariant of fdMutex.                    *)
LEMMA FdMutexStep ==
  ASSUME FdMutexInv, sysfd \in BOOLEAN, [FDNext]_fdVars
  PROVE  FdMutexInv' /\ sysfd' \in BOOLEAN
  <1>1. ASSUME NEW g \in G, CallStep(g, Mode, MaxSeq)
        PROVE  FdMutexInv' /\ sysfd' \in BOOLEAN
    <2>1. CASE Enter(g, Mode)
      <3>1. sysfd' = sysfd
        BY <2>1 DEF Enter, KeepFd
      <3> QED
        BY <2>1, <3>1, IncrefKeeps, IncrefAndCloseKeeps, SemacquireKeeps, SemreleaseKeeps,
           RwlockClosedKeeps, RwlockFreeKeeps, RwlockWaitKeeps DEF Enter
    <2>2. CASE Leave(g)
      <3>1. sysfd' = sysfd
        BY <2>2 DEF Leave, KeepFd
      <3>2. \/ rwunlock(g)
            \/ role[g] = "misc" /\ decref(g, {"use"}, "idle")
            \/ role[g] = "close" /\ decref(g, {"evict"}, "csema")
        BY <2>2 DEF Leave
      <3> QED
        BY <3>1, <3>2, RwunlockKeeps, DecrefKeeps
    <2>3. CASE destroy(g) \/ Closed(g)
      BY <2>3, DestroyKeeps, ClosedKeeps
    <2>4. CASE UNCHANGED <<fdmuVars, sysfd>>
      BY <2>4, PollerKeeps
    <2> QED
      BY <1>1, <2>1, <2>2, <2>3, <2>4
      DEF CallStep, ReadWrite, SetDeadline, SetDeadlineClosing, Evict, KeepFd
  <1>2. CASE RuntimeStep(Mode) \/ UNCHANGED fdVars
    BY <1>2, PollerKeeps DEF RuntimeStep, KeepFd, fdVars
  <1> QED
    BY <1>1, <1>2, OpenKeeps DEF FDNext, FDNextWith

-----------------------------------------------------------------------------
(* fdMutex counts the references, the locks and the sleepers of every      *)
(* call; Close finds them all, and fd is destroyed by one call, after the  *)
(* last one has dropped its reference.                                     *)
THEOREM FdMutexIsExact == FDSpec => []FdMutexInv
  <1> DEFINE Inv == FdMutexInv /\ sysfd \in BOOLEAN
  <1>1. FDInit => Inv
    BY FdMutexInitially
  <1>2. Inv /\ [FDNext]_fdVars => Inv'
    BY FdMutexStep
  <1> QED
    BY <1>1, <1>2, PTL DEF FDSpec

-----------------------------------------------------------------------------
(* The deadlines and their timers.                                         *)
timing == <<closing, seq, deadline, pdtimer, fired>>

TimingOK ==
  /\ closing \in BOOLEAN
  /\ seq \in [Modes -> Nat]
  /\ deadline \in [Modes -> Int]
  /\ pdtimer \in [Modes -> [f : BOOLEAN, armed : BOOLEAN, seq : Nat, combo : BOOLEAN]]
  /\ fired \in SUBSET [mode : Modes, combo : BOOLEAN, seq : Nat]

Timing == TimingOK /\ TimersFit /\ FiredFit

(* What TimersFit and FiredFit say of the mode m.                          *)
TimerFits(m) ==
  /\ pdtimer[m].f <=> ~closing /\ Wants(deadline, m)
  /\ pdtimer[m].armed => pdtimer[m].f
  /\ pdtimer[m].f =>
       /\ pdtimer[m].seq = seq[m]
       /\ pdtimer[m].combo <=> m = "r" /\ Combo(deadline)
       /\ pdtimer[m].armed \/ [mode |-> m, combo |-> pdtimer[m].combo, seq |-> seq[m]] \in fired

CallFits(c) ==
  /\ c.seq <= seq[c.mode]
  /\ c.seq = seq[c.mode] =>
       pdtimer[c.mode].f /\ ~pdtimer[c.mode].armed /\ pdtimer[c.mode].combo = c.combo

(* Timing, now and after a step, part by part.                             *)
LEMMA TimingParts ==
  /\ Timing <=> TimingOK /\ (\A m \in Modes : TimerFits(m)) /\ (\A c \in fired : CallFits(c))
  /\ Timing' <=> TimingOK' /\ (\A m \in Modes : TimerFits(m)') /\ (\A c \in fired' : CallFits(c)')
  BY DEF Timing, TimersFit, FiredFit, TimerFits, CallFits, Stale, Mode, Modes

(* Steps that do not touch them.                                           *)
LEMMA TimingUnchanged ==
  ASSUME Timing, UNCHANGED timing
  PROVE  Timing'
  BY DEF Timing, timing, TimingOK, TimersFit, FiredFit, Stale, Wants, Combo

(* pollSetDeadline: a timer that stays wanted as it is stays; another one  *)
(* gets a new seq, unless it has already gone off.                         *)
LEMMA TimingSetDeadline ==
  ASSUME Timing, NEW g \in G, NEW d \in Int, NEW M \in SUBSET Modes, pollSetDeadline(g, d, M)
  PROVE  Timing'
  <1> DEFINE new == [m \in Modes |-> IF m \in M THEN d ELSE deadline[m]]
             changed(m) == pdtimer[m].f /\ (new[m] # deadline[m] \/ Combo(new) # Combo(deadline))
             s(m) == seq[m] + (IF changed(m) THEN 1 ELSE 0)
             set(m) == [f |-> TRUE, armed |-> TRUE, seq |-> s(m), combo |-> m = "r" /\ Combo(new)]
  <1>1. TimingOK /\ (\A m \in Modes : TimerFits(m)) /\ (\A c \in fired : CallFits(c))
    BY TimingParts
  <1>2. /\ ~closing /\ closing' = closing /\ fired' = fired /\ deadline' = new
        /\ seq' = [m \in Modes |-> s(m)]
        /\ pdtimer' = [m \in Modes |-> IF pdtimer[m].f /\ ~changed(m) THEN pdtimer[m]
                                     ELSE IF Wants(new, m) THEN set(m) ELSE NoTimer]
    BY DEF pollSetDeadline, Retimed
  <1>3. new \in [Modes -> Int]
    BY <1>1 DEF TimingOK
  <1> HIDE DEF new
  <1>4. ASSUME NEW m \in Modes
        PROVE  /\ s(m) \in Nat /\ s(m) >= seq[m] /\ (s(m) = seq[m] <=> ~changed(m))
               /\ pdtimer[m] \in [f : BOOLEAN, armed : BOOLEAN, seq : Nat, combo : BOOLEAN]
               /\ pdtimer'[m] \in [f : BOOLEAN, armed : BOOLEAN, seq : Nat, combo : BOOLEAN]
               /\ seq'[m] = s(m)
    <2>1. s(m) \in Nat /\ s(m) >= seq[m] /\ (s(m) = seq[m] <=> ~changed(m))
      BY <1>1 DEF TimingOK
    <2>2. pdtimer[m] \in [f : BOOLEAN, armed : BOOLEAN, seq : Nat, combo : BOOLEAN]
      BY <1>1 DEF TimingOK
    <2>3. seq'[m] = s(m)
      BY <1>2
    <2>4. pdtimer'[m] \in {pdtimer[m], set(m), NoTimer}
      BY <1>2
    <2>5. set(m) \in [f : BOOLEAN, armed : BOOLEAN, seq : Nat, combo : BOOLEAN]
      BY <2>1 DEF Combo
    <2>6. NoTimer \in [f : BOOLEAN, armed : BOOLEAN, seq : Nat, combo : BOOLEAN]
      BY DEF NoTimer
    <2>7. pdtimer'[m] \in [f : BOOLEAN, armed : BOOLEAN, seq : Nat, combo : BOOLEAN]
      BY <2>2, <2>4, <2>5, <2>6
    <2> QED
      BY <2>1, <2>2, <2>3, <2>7
  <1>5. TimingOK'
    BY <1>1, <1>2, <1>3, <1>4 DEF TimingOK
  <1>6. ASSUME NEW m \in Modes
        PROVE  TimerFits(m)'
    <2>1. CASE pdtimer[m].f /\ ~changed(m)
      <3>1. pdtimer'[m] = pdtimer[m] /\ seq'[m] = seq[m] /\ new[m] = deadline[m] /\ Combo(new) = Combo(deadline)
        BY <1>1, <1>2, <1>4, <2>1 DEF TimingOK
      <3> QED
        BY <1>1, <1>2, <3>1 DEF TimerFits, Wants
    <2>2. CASE ~(pdtimer[m].f /\ ~changed(m)) /\ Wants(new, m)
      <3>1. pdtimer'[m] = set(m)
        BY <1>2, <2>2
      <3> QED
        BY <1>2, <1>4, <2>2, <3>1 DEF TimerFits
    <2>3. CASE ~(pdtimer[m].f /\ ~changed(m)) /\ ~Wants(new, m)
      <3>1. pdtimer'[m] = NoTimer
        BY <1>2, <2>3
      <3> QED
        BY <1>2, <2>3, <3>1 DEF TimerFits, NoTimer
    <2> QED
      BY <2>1, <2>2, <2>3
  <1>7. ASSUME NEW c \in fired
        PROVE  CallFits(c)'
    <2>1. c.mode \in Modes /\ c.seq \in Nat /\ seq[c.mode] \in Nat /\ CallFits(c)
      BY <1>1 DEF TimingOK
    <2>2. seq'[c.mode] = s(c.mode) /\ c.seq <= seq'[c.mode]
      BY <1>4, <2>1 DEF CallFits
    <2>3. ASSUME c.seq = seq'[c.mode]
          PROVE  /\ pdtimer'[c.mode] = pdtimer[c.mode]
                 /\ pdtimer[c.mode].f /\ ~pdtimer[c.mode].armed /\ pdtimer[c.mode].combo = c.combo
      <3>1. c.seq = seq[c.mode] /\ ~changed(c.mode)
        BY <1>4, <2>1, <2>2, <2>3 DEF CallFits
      <3> QED
        BY <1>2, <2>1, <3>1 DEF CallFits
    <2> QED
      BY <2>2, <2>3 DEF CallFits
  <1> QED
    BY <1>2, <1>5, <1>6, <1>7, TimingParts

(* pollUnblock: no timer is left, and calls that are on their way are old. *)
LEMMA TimingUnblock ==
  ASSUME Timing, NEW g \in G, pollUnblock(g)
  PROVE  Timing'
  <1>1. TimingOK /\ (\A c \in fired : CallFits(c))
    BY TimingParts
  <1>2. /\ closing' = TRUE /\ fired' = fired /\ deadline' = deadline
        /\ seq' = [m \in Modes |-> seq[m] + 1]
        /\ pdtimer' = [m \in Modes |-> NoTimer]
    BY DEF pollUnblock
  <1>3. TimingOK'
    BY <1>1, <1>2 DEF TimingOK, NoTimer
  <1>4. \A m \in Modes : TimerFits(m)'
    BY <1>2 DEF TimerFits, NoTimer
  <1>5. ASSUME NEW c \in fired
        PROVE  CallFits(c)'
    <2>1. c.mode \in Modes /\ c.seq \in Nat /\ seq[c.mode] \in Nat /\ c.seq <= seq[c.mode]
      BY <1>1 DEF TimingOK, CallFits
    <2>2. seq'[c.mode] = seq[c.mode] + 1
      BY <1>2, <2>1
    <2> QED
      BY <2>1, <2>2 DEF CallFits
  <1> QED
    BY <1>2, <1>3, <1>4, <1>5, TimingParts

(* pollOpen of a pollDesc that was closing.                                *)
LEMMA TimingOpen ==
  ASSUME Timing, closing, pollOpen
  PROVE  Timing'
  <1>1. TimingOK /\ (\A m \in Modes : TimerFits(m)) /\ (\A c \in fired : CallFits(c))
    BY TimingParts
  <1>2. /\ closing' = FALSE /\ fired' = fired /\ deadline' = [m \in Modes |-> 0]
        /\ seq' = [m \in Modes |-> seq[m] + 1] /\ pdtimer' = pdtimer
    BY DEF pollOpen
  <1>3. TimingOK'
    <2>1. seq \in [Modes -> Nat]
      BY <1>1 DEF TimingOK
    <2>2. seq' \in [Modes -> Nat] /\ deadline' \in [Modes -> Int]
      BY <1>2, <2>1
    <2> QED
      BY <1>1, <1>2, <2>2 DEF TimingOK
  <1>4. \A m \in Modes : TimerFits(m)'
    <2>1. \A m \in Modes : ~pdtimer[m].f /\ ~pdtimer[m].armed
      BY <1>1 DEF TimerFits
    <2>2. \A m \in Modes : pdtimer'[m] = pdtimer[m] /\ deadline'[m] = 0
      BY <1>2
    <2> QED
      BY <2>1, <2>2 DEF TimerFits, Wants
  <1>5. ASSUME NEW c \in fired
        PROVE  CallFits(c)'
    <2>1. c.mode \in Modes /\ c.seq \in Nat /\ seq[c.mode] \in Nat /\ c.seq <= seq[c.mode]
      BY <1>1 DEF TimingOK, CallFits
    <2>2. seq'[c.mode] = seq[c.mode] + 1
      BY <1>2, <2>1
    <2> QED
      BY <2>1, <2>2 DEF CallFits
  <1> QED
    BY <1>2, <1>3, <1>4, <1>5, TimingParts

(* A timer goes off.                                                       *)
LEMMA TimingFire ==
  ASSUME Timing, NEW m \in Modes, Fire(m)
  PROVE  Timing'
  <1> DEFINE c == [mode |-> m, combo |-> pdtimer[m].combo, seq |-> pdtimer[m].seq]
  <1>1. TimingOK /\ (\A n \in Modes : TimerFits(n)) /\ (\A b \in fired : CallFits(b))
    BY TimingParts
  <1>2. /\ pdtimer[m].armed /\ pdtimer' = [pdtimer EXCEPT ![m].armed = FALSE]
        /\ fired' = fired \cup {c} /\ UNCHANGED <<closing, seq, deadline>>
    BY DEF Fire
  <1>3. /\ pdtimer[m] \in [f : BOOLEAN, armed : BOOLEAN, seq : Nat, combo : BOOLEAN]
        /\ pdtimer[m].f /\ pdtimer[m].seq = seq[m] /\ seq[m] \in Nat
    BY <1>1, <1>2 DEF TimingOK, TimerFits
  <1>4. /\ pdtimer'[m] = [pdtimer[m] EXCEPT !.armed = FALSE]
        /\ \A n \in Modes \ {m} : pdtimer'[n] = pdtimer[n]
        /\ pdtimer' \in [Modes -> [f : BOOLEAN, armed : BOOLEAN, seq : Nat, combo : BOOLEAN]]
    BY <1>1, <1>2, <1>3 DEF TimingOK
  <1>5. /\ pdtimer'[m].f /\ ~pdtimer'[m].armed /\ pdtimer'[m].seq = seq[m]
        /\ pdtimer'[m].combo = pdtimer[m].combo
    BY <1>3, <1>4
  <1>6. TimingOK'
    BY <1>1, <1>2, <1>3, <1>4 DEF TimingOK
  <1>7. \A n \in Modes : TimerFits(n)'
    BY <1>1, <1>2, <1>3, <1>4, <1>5 DEF TimerFits
  <1>8. CallFits(c)'
    BY <1>2, <1>3, <1>5 DEF CallFits
  <1>9. ASSUME NEW b \in fired
        PROVE  CallFits(b)'
    <2>1. CallFits(b) /\ b.mode \in Modes
      BY <1>1 DEF TimingOK
    <2>2. CASE b.mode = m
      BY <1>2, <2>1, <2>2 DEF CallFits
    <2>3. CASE b.mode # m
      BY <1>2, <1>4, <2>1, <2>3 DEF CallFits
    <2> QED
      BY <2>2, <2>3
  <1> QED
    BY <1>2, <1>6, <1>7, <1>8, <1>9, TimingParts

(* netpolldeadlineimpl: what has expired has no timer, and nobody else is  *)
(* on the way for it.                                                      *)
LEMMA TimingExpires ==
  ASSUME Timing, NEW c \in fired, netpolldeadlineimpl(c)
  PROVE  Timing'
  <1>1. TimingOK /\ (\A m \in Modes : TimerFits(m)) /\ (\A b \in fired : CallFits(b))
    BY TimingParts
  <1>2. c \in [mode : Modes, combo : BOOLEAN, seq : Nat] /\ CallFits(c)
    BY <1>1 DEF TimingOK
  <1>3. fired' = fired \ {c} /\ UNCHANGED <<closing, seq>>
    BY DEF netpolldeadlineimpl
  <1>4. CASE Stale(c)
    <2>1. UNCHANGED <<deadline, pdtimer>>
      BY <1>4 DEF netpolldeadlineimpl
    <2>2. c.seq # seq[c.mode]
      BY <1>4 DEF Stale
    <2>3. TimingOK'
      BY <1>1, <1>3, <2>1 DEF TimingOK
    <2>4. \A m \in Modes : TimerFits(m)'
      BY <1>1, <1>3, <2>1, <2>2 DEF TimerFits, Wants, Combo
    <2>5. \A b \in fired' : CallFits(b)'
      BY <1>1, <1>3, <2>1 DEF CallFits
    <2> QED
      BY <2>3, <2>4, <2>5, TimingParts
  <1>5. CASE ~Stale(c)
    <2> DEFINE E == Expires(c)
    <2>1. /\ deadline' = [m \in Modes |-> IF m \in E THEN -1 ELSE deadline[m]]
          /\ pdtimer' = [m \in Modes |-> IF m \in E THEN [pdtimer[m] EXCEPT !.f = FALSE] ELSE pdtimer[m]]
      BY <1>5 DEF netpolldeadlineimpl
    <2>2. /\ c.seq = seq[c.mode] /\ pdtimer[c.mode].f /\ ~pdtimer[c.mode].armed
          /\ pdtimer[c.mode].combo = c.combo
          /\ E = IF c.combo THEN Modes ELSE {c.mode}
      BY <1>2, <1>5 DEF Stale, CallFits, Expires
    <2> HIDE DEF E
    <2>3. /\ c.mode \in E /\ E \in SUBSET Modes
          /\ \A m \in E : ~pdtimer[m].armed /\ (m # c.mode => ~pdtimer[m].f)
          /\ ~c.combo => \/ c.mode = "w"
                         \/ c.mode = "r" /\ ~Combo(deadline)
      BY <1>1, <1>2, <2>2 DEF TimerFits, Wants, Modes
    <2>4. TimingOK'
      <3>1. /\ deadline \in [Modes -> Int]
            /\ pdtimer \in [Modes -> [f : BOOLEAN, armed : BOOLEAN, seq : Nat, combo : BOOLEAN]]
        BY <1>1 DEF TimingOK
      <3>2. deadline' \in [Modes -> Int]
        BY <2>1, <3>1
      <3>3. pdtimer' \in [Modes -> [f : BOOLEAN, armed : BOOLEAN, seq : Nat, combo : BOOLEAN]]
        BY <2>1, <3>1
      <3> QED
        BY <1>1, <1>3, <3>2, <3>3 DEF TimingOK
    <2>5. ASSUME NEW m \in Modes
          PROVE  TimerFits(m)'
      <3>1. CASE m \in E
        <4>1. pdtimer[m] \in [f : BOOLEAN, armed : BOOLEAN, seq : Nat, combo : BOOLEAN]
          BY <1>1 DEF TimingOK
        <4>2. ~pdtimer'[m].f /\ ~pdtimer'[m].armed /\ deadline'[m] = -1
          BY <2>1, <2>3, <3>1, <4>1
        <4> QED
          BY <4>2 DEF TimerFits, Wants
      <3>2. CASE m \notin E
        <4>1. pdtimer'[m] = pdtimer[m] /\ deadline'[m] = deadline[m] /\ deadline'[c.mode] = -1
          BY <1>2, <2>1, <2>3, <3>2
        <4>2. ~c.combo /\ m # c.mode
          BY <2>2, <2>3, <3>2
        <4>3. ~Combo(deadline)
          BY <1>1, <1>2, <2>2, <2>3, <4>2 DEF TimerFits, Wants, Modes
        <4>4. ~Combo(deadline')
          BY <1>1, <1>2, <4>1, <4>2 DEF Combo, Modes, TimingOK
        <4>5. [mode |-> m, combo |-> pdtimer[m].combo, seq |-> seq[m]] # c
          BY <4>2
        <4> QED
          BY <1>1, <1>3, <4>1, <4>3, <4>4, <4>5 DEF TimerFits, Wants
      <3> QED
        BY <3>1, <3>2
    <2>6. ASSUME NEW b \in fired'
          PROVE  CallFits(b)'
      <3>1. /\ b \in fired /\ b # c /\ CallFits(b)
            /\ b \in [mode : Modes, combo : BOOLEAN, seq : Nat]
        BY <1>1, <1>3 DEF TimingOK
      <3>2. b.seq = seq[b.mode] => b.mode \notin E
        BY <1>2, <2>2, <2>3, <3>1 DEF CallFits
      <3> QED
        BY <1>3, <2>1, <3>1, <3>2 DEF CallFits
    <2> QED
      BY <2>4, <2>5, <2>6, TimingParts
  <1> QED
    BY <1>4, <1>5

-----------------------------------------------------------------------------
(* The rest of the types.                                                  *)
GatesOK ==
  /\ lock \in G \cup {"timer", None}
  /\ gate \in [Modes -> G \cup {None, "ready", "wait"}]
  /\ npc \in [G -> NPC]

WorkOK ==
  /\ pending \in SUBSET Modes /\ everr \in BOOLEAN /\ netpollWaiters \in Int
  /\ poller \in [stage : {"wait", "event", "ready"}, modes : SUBSET Modes, err : BOOLEAN]
  /\ event \in [modes : SUBSET Modes, err : BOOLEAN]
  /\ arrivals \in Nat /\ data \in [Modes -> BOOLEAN]

(* FDInv in the parts that are proved.                                     *)
Gates == GatesOK /\ PollCallsFit /\ GatesFit
Work == WorkOK /\ WorkFits
Rest == Timing /\ Gates /\ Work /\ ClosingFits /\ NothingMissed

(* FDInv, now and after a step, part by part.                              *)
LEMMA FDInvParts ==
  /\ FDInv <=> FdMutexInv /\ sysfd \in BOOLEAN /\ Rest
  /\ FDInv' <=> FdMutexInv' /\ sysfd' \in BOOLEAN /\ Rest'
  BY DEF FDInv, PollTypeOK, TimingOK, GatesOK, WorkOK, Timing, Gates, Work, Rest

(* Two calls that have the lock of a mode are one.                         *)
LEMMA OneUser ==
  ASSUME FdMutexInv, NEW m \in Mode, NEW g \in G, NEW h \in G, Uses(g, m), Uses(h, m)
  PROVE  g = h
  <1> SUFFICES ASSUME g # h PROVE FALSE
    OBVIOUS
  <1> DEFINE A == Users(m) \ {h}
  <1>1. Users(m) \in SUBSET G /\ g \in Users(m) /\ h \in Users(m) /\ g \in A /\ h \notin A
    BY DEF Users, Uses
  <1>2. IsFiniteSet(Users(m)) /\ Cardinality(Users(m)) \in Nat /\ Cardinality(Users(m)) <= 1
    BY <1>1, GAssumption, CountIsNat DEF FdMutexInv, LocksCounted
  <1>3. A \in SUBSET Users(m) /\ Cardinality(A) \in Nat /\ Cardinality(A) # 0
    BY <1>1, <1>2, CountIsNat
  <1>4. Cardinality(A) < Cardinality(Users(m))
    BY <1>1, <1>2, <1>3, CountProper
  <1> QED
    BY <1>2, <1>3, <1>4

(* A call that is in Read or Write has the lock of its mode to itself.     *)
LEMMA OneCall ==
  ASSUME FdMutexInv, PollCallsFit, NEW g \in G, fpc[g] = "use", role[g] \in Mode
  PROVE  \A h \in G : h # g /\ npc[h] \in IOPC => role[h] \in Mode /\ role[h] # role[g]
  BY OneUser DEF PollCallsFit, Uses

(* Nobody is at the poller while there is no reference.                    *)
LEMMA NobodyThere ==
  ASSUME FDInv, NoReference(fdmu)
  PROVE  /\ \A g \in G : npc[g] = "idle" /\ ~Closes(g)
         /\ closing /\ Unused
  <1>1. FdMutexInv /\ FdMutexTypeOK /\ PollCallsFit /\ GatesFit /\ ClosingFits /\ PollTypeOK
    BY DEF FDInv, FdMutexInv
  <1>2. \A g \in G : ~Holds(g)
    BY <1>1, AtStep
  <1>3. \A g \in G : fpc[g] \notin {"use", "evict"} /\ next[g] # "evict"
    BY <1>1, <1>2 DEF Holds, FdMutexInv, CallsFit
  <1>4. \A g \in G : npc[g] = "idle" /\ ~Closes(g)
    BY <1>1, <1>3 DEF PollCallsFit, Closes
  <1>5. closing
    BY <1>1, <1>4 DEF ClosingFits, NoReference
  <1>6. Unused
    BY <1>1, <1>4 DEF GatesFit, Unused, PollTypeOK, Mode, Modes
  <1> QED
    BY <1>4, <1>5, <1>6

-----------------------------------------------------------------------------
(* g, which is not in Read or Write, goes to s; the gates stay as they are.*)
CallerGoes(g, s) ==
  /\ npc[g] \notin IOPC /\ s \in {"idle", "done", "unblock"}
  /\ npc' = [npc EXCEPT ![g] = s]
  /\ gate' = gate
  /\ OthersStay(G, fpc, fpc', g) /\ OthersStay(G, role, role', g)

(* Then the steps and the gates still fit each other.                      *)
LEMMA CallerGates ==
  ASSUME Gates, NEW g \in G, NEW s, CallerGoes(g, s),
         lock' \in G \cup {"timer", None},
         \A h \in G : lock' = h <=> (IF h = g THEN s = "unblock" ELSE lock = h),
         s = "unblock" => fpc'[g] = "evict" \/ (fpc'[g] = "use" /\ role'[g] = "misc"),
         s # "idle" => fpc'[g] \in {"use", "evict"}
  PROVE  Gates'
  <1>1. /\ npc \in [G -> NPC] /\ npc' \in [G -> NPC] /\ npc'[g] = s
        /\ \A h \in G \ {g} : npc'[h] = npc[h] /\ fpc'[h] = fpc[h] /\ role'[h] = role[h]
    BY DEF Gates, GatesOK, CallerGoes, OthersStay, NPC
  <1>2. s \notin IOPC /\ npc[g] \notin IOPC /\ gate' = gate
    BY DEF CallerGoes, IOPC
  <1>3. GatesOK'
    BY <1>1, <1>2 DEF Gates, GatesOK
  <1>4. PollCallsFit'
    <2> SUFFICES ASSUME NEW h \in G
                 PROVE  /\ npc'[h] \in IOPC => fpc'[h] = "use" /\ role'[h] \in Mode
                        /\ npc'[h] = "unblock" <=> lock' = h
                        /\ npc'[h] = "unblock" =>
                             fpc'[h] = "evict" \/ (fpc'[h] = "use" /\ role'[h] = "misc")
                        /\ npc'[h] # "idle" => fpc'[h] \in {"use", "evict"}
      BY DEF PollCallsFit
    <2>1. CASE h = g
      BY <1>1, <1>2, <2>1
    <2>2. CASE h # g
      BY <1>1, <2>2 DEF Gates, PollCallsFit
    <2> QED
      BY <2>1, <2>2
  <1>5. GatesFit'
    <2>1. \A h \in G : npc[h] \in IOPC => h # g
      BY <1>2
    <2>2. ASSUME NEW m \in Mode
          PROVE  /\ gate[m] = "wait" =>
                      \E h \in G : role'[h] = m /\ npc'[h] \in {"recheck", "commit", "swap"}
                 /\ gate[m] \in G => npc'[gate[m]] = "parked" /\ role'[gate[m]] = m
      <3>1. gate[m] = "wait" => \E h \in G : role[h] = m /\ npc[h] \in {"recheck", "commit", "swap"}
        BY DEF Gates, GatesFit
      <3>2. gate[m] \in G => npc[gate[m]] = "parked" /\ role[gate[m]] = m
        BY DEF Gates, GatesFit
      <3> QED
        BY <1>1, <2>1, <3>1, <3>2 DEF IOPC
    <2>3. \A h \in G : npc'[h] = "parked" => h # g /\ npc[h] = "parked" /\ role'[h] = role[h]
      BY <1>1, <1>2 DEF IOPC
    <2>4. \A h \in G : npc'[h] = "parked" => gate[role'[h]] = h
      BY <2>3 DEF Gates, GatesFit
    <2> QED
      BY <1>2, <2>2, <2>4 DEF GatesFit
  <1> QED
    BY <1>3, <1>4, <1>5 DEF Gates

(* Such a step, when it keeps what the calls in Read and Write wait for,   *)
(* or tells them.                                                          *)
LEMMA CallerMissesNothing ==
  ASSUME Gates, NothingMissed, NEW g \in G, NEW s, CallerGoes(g, s),
         UNCHANGED <<poller, event, everr, data>>,
         \/ UNCHANGED <<closing, deadline, pending>>
         \/ \A m \in Mode : closing' \/ deadline'[m] < 0 => m \in pending'
  PROVE  NothingMissed'
  <1>1. /\ npc \in [G -> NPC] /\ npc'[g] = s
        /\ \A h \in G \ {g} : npc'[h] = npc[h] /\ role'[h] = role[h]
        /\ gate' = gate /\ s \notin IOPC
    BY DEF Gates, GatesOK, CallerGoes, OthersStay, IOPC
  <1> SUFFICES ASSUME NEW h \in G, NEW m \in Mode, role'[h] = m
               PROVE  /\ npc'[h] \in IOPC \ {"reset", "io"} /\ gate'[m] # "ready" /\ data'[m] =>
                           m \in event'.modes \cup poller'.modes
                      /\ Committed(h)' =>
                           /\ closing' \/ deadline'[m] < 0 => m \in pending'
                           /\ m = "r" /\ everr' => m \in poller'.modes
    BY DEF NothingMissed
  <1>2. CASE h = g
    BY <1>1, <1>2 DEF Committed, IOPC
  <1>3. CASE h # g
    <2>1. npc'[h] = npc[h] /\ role[h] = m
      BY <1>1, <1>3
    <2>2. Committed(h)' <=> Committed(h)
      BY <1>1, <1>3 DEF Committed
    <2> QED
      BY <1>1, <2>1, <2>2 DEF NothingMissed
  <1> QED
    BY <1>2, <1>3

(* Who closes, and whether it has begun, is as before.                     *)
LEMMA ClosingUnchanged ==
  ASSUME ClosingFits, closing' = closing, fdmu'.closed = fdmu.closed,
         \A g \in G : /\ Closes(g)' <=> Closes(g)
                      /\ Closes(g) => (npc'[g] = "idle" <=> npc[g] = "idle")
  PROVE  ClosingFits'
  BY DEF ClosingFits

-----------------------------------------------------------------------------
(* g, which has the lock of m, goes to s and leaves v in the gate.         *)
IOGoes(g, m, s, v) ==
  /\ fpc[g] = "use" /\ role[g] = m /\ npc[g] \notin {"parked", "unblock"}
  /\ npc' = [npc EXCEPT ![g] = s]
  /\ gate' = [gate EXCEPT ![m] = v]
  /\ s \in IOPC \cup {"done"}
  /\ v \in {None, "ready", "wait", g}
  /\ v = "wait" => s \in {"recheck", "commit", "swap"}
  /\ s = "parked" <=> v = g
  /\ UNCHANGED <<fdmuVars, sysfd, timing, lock, pending, poller, event, arrivals, everr>>
  /\ \A n \in Modes \ {m} : data'[n] = data[n]

(* What it has to know when it waits, and when it waits for good.          *)
IOKnows(m, s, v) ==
  /\ s \in IOPC \ {"reset", "io"} /\ v # "ready" /\ data'[m] => m \in event.modes \cup poller.modes
  /\ s = "parked" \/ (s = "commit" /\ v = "wait") =>
       /\ closing \/ deadline[m] < 0 => m \in pending
       /\ m = "r" /\ everr => m \in poller.modes

(* Then the poller keeps its invariant.                                    *)
LEMMA IOGoesOn ==
  ASSUME FDInv, NEW g \in G, NEW m \in Mode, NEW s, NEW v, IOGoes(g, m, s, v), IOKnows(m, s, v),
         netpollWaiters' \in Int, data' \in [Modes -> BOOLEAN]
  PROVE  Rest'
  <1>1. FdMutexInv /\ CallsFit /\ Timing /\ Gates /\ Work /\ ClosingFits /\ NothingMissed
    BY FDInvParts DEF Rest, FdMutexInv
  <1>2. /\ npc \in [G -> NPC] /\ gate \in [Modes -> G \cup {None, "ready", "wait"}]
        /\ m \in Modes
    BY <1>1 DEF Gates, GatesOK, Mode, Modes
  <1>3. /\ npc'[g] = s /\ \A h \in G \ {g} : npc'[h] = npc[h]
        /\ gate'[m] = v /\ \A n \in Modes \ {m} : gate'[n] = gate[n]
    BY <1>2 DEF IOGoes
  <1>4. UNCHANGED <<fdmu, fpc, role, next, lock, closing, deadline, pending, poller, event, everr>>
    BY DEF IOGoes, fdmuVars, timing
  <1>5. \A h \in G : h # g /\ npc[h] \in IOPC => role[h] \in Mode /\ role[h] # m
    BY <1>1, OneCall DEF IOGoes, Gates
  <1>6. Timing'
    BY <1>1, TimingUnchanged DEF IOGoes
  <1>7. Work'
    <2>1. UNCHANGED <<pending, everr, poller, event, arrivals, lock>>
      BY DEF IOGoes
    <2> QED
      BY <1>1, <2>1 DEF Work, WorkOK, WorkFits
  <1>8. GatesOK'
    <2>1. npc' \in [G -> NPC]
      BY <1>2 DEF IOGoes, NPC
    <2>2. gate' \in [Modes -> G \cup {None, "ready", "wait"}]
      BY <1>2 DEF IOGoes
    <2> QED
      BY <1>1, <1>4, <2>1, <2>2 DEF Gates, GatesOK
  <1>9. PollCallsFit'
    <2> SUFFICES ASSUME NEW h \in G
                 PROVE  /\ npc'[h] \in IOPC => fpc[h] = "use" /\ role[h] \in Mode
                        /\ npc'[h] = "unblock" <=> lock = h
                        /\ npc'[h] = "unblock" => fpc[h] = "evict" \/ (fpc[h] = "use" /\ role[h] = "misc")
                        /\ npc'[h] # "idle" => fpc[h] \in {"use", "evict"}
      BY <1>4 DEF PollCallsFit
    <2>1. CASE h = g
      BY <1>1, <1>3, <2>1 DEF IOGoes, Gates, PollCallsFit, IOPC
    <2>2. CASE h # g
      BY <1>1, <1>3, <2>2 DEF Gates, PollCallsFit
    <2> QED
      BY <2>1, <2>2
  <1>10. GatesFit'
    <2>1. ASSUME NEW n \in Mode
          PROVE  /\ gate'[n] = "wait" =>
                      \E h \in G : role[h] = n /\ npc'[h] \in {"recheck", "commit", "swap"}
                 /\ gate'[n] \in G => npc'[gate'[n]] = "parked" /\ role[gate'[n]] = n
      <3>1. CASE n = m
        BY <1>3, <3>1, GateAssumption, NoneAssumption DEF IOGoes
      <3>2. CASE n # m
        <4>1. gate'[n] = gate[n]
          BY <1>3, <3>2 DEF Mode, Modes
        <4>2. \A h \in G : role[h] = n => npc'[h] = npc[h]
          BY <1>3, <3>2 DEF IOGoes
        <4> QED
          BY <1>1, <4>1, <4>2 DEF Gates, GatesFit
      <3> QED
        BY <3>1, <3>2
    <2>2. ASSUME NEW h \in G, npc'[h] = "parked"
          PROVE  gate'[role[h]] = h
      <3>1. CASE h = g
        BY <1>3, <2>2, <3>1 DEF IOGoes
      <3>2. CASE h # g
        <4>1. npc[h] = "parked" /\ role[h] \in Modes /\ role[h] # m
          BY <1>3, <1>5, <2>2, <3>2 DEF IOPC, Mode, Modes
        <4> QED
          BY <1>1, <1>3, <4>1 DEF Gates, GatesFit
      <3> QED
        BY <3>1, <3>2
    <2> QED
      BY <1>4, <2>1, <2>2 DEF GatesFit
  <1>11. ClosingFits'
    <2>1. ~Closes(g)
      BY <1>1 DEF IOGoes, Closes, CallsFit
    <2>2. \A h \in G : /\ Closes(h)' <=> Closes(h)
                       /\ Closes(h) => (npc'[h] = "idle" <=> npc[h] = "idle")
      BY <1>3, <1>4, <2>1 DEF Closes
    <2>3. ClosingFits /\ closing' = closing /\ fdmu' = fdmu
      BY <1>1, <1>4
    <2> QED
      BY <2>2, <2>3 DEF ClosingFits
  <1>12. NothingMissed'
    <2> SUFFICES ASSUME NEW h \in G, NEW n \in Mode, role[h] = n
                 PROVE  /\ npc'[h] \in IOPC \ {"reset", "io"} /\ gate'[n] # "ready" /\ data'[n] =>
                             n \in event.modes \cup poller.modes
                        /\ npc'[h] = "parked" \/ (npc'[h] = "commit" /\ gate'[n] = "wait") =>
                             /\ closing \/ deadline[n] < 0 => n \in pending
                             /\ n = "r" /\ everr => n \in poller.modes
      BY <1>4 DEF NothingMissed, Committed
    <2>1. CASE h = g
      BY <1>3, <2>1 DEF IOGoes, IOKnows
    <2>2. CASE h # g /\ npc[h] \in IOPC
      <3>1. npc'[h] = npc[h] /\ n # m /\ gate'[n] = gate[n] /\ data'[n] = data[n]
        BY <1>3, <1>5, <2>2 DEF IOGoes, Mode, Modes
      <3> QED
        BY <1>1, <3>1 DEF NothingMissed, Committed
    <2>3. CASE h # g /\ npc[h] \notin IOPC
      BY <1>3, <2>3 DEF IOPC
    <2> QED
      BY <2>1, <2>2, <2>3
  <1> QED
    BY <1>6, <1>7, <1>8, <1>9, <1>10, <1>11, <1>12 DEF Rest, Gates

(* The gate of m as the call that has the lock of m finds it.              *)
LEMMA GateOf ==
  ASSUME FDInv, NEW g \in G, NEW m \in Mode, fpc[g] = "use", role[g] = m
  PROVE  /\ m \in Modes /\ gate[m] \in G \cup {None, "ready", "wait"}
         /\ gate[m] = "wait" => npc[g] \in {"recheck", "commit", "swap"}
         /\ gate[m] \in G => gate[m] = g /\ npc[g] = "parked"
         /\ gate = [gate EXCEPT ![m] = gate[m]]
         /\ data \in [Modes -> BOOLEAN] /\ netpollWaiters \in Int
  <1>1. FdMutexInv /\ PollCallsFit /\ GatesFit /\ PollTypeOK
    BY DEF FDInv
  <1>2. \A h \in G : h # g /\ npc[h] \in IOPC => role[h] # m
    BY <1>1, OneCall
  <1>3. m \in Modes
    BY DEF Mode, Modes
  <1>4. /\ gate \in [Modes -> G \cup {None, "ready", "wait"}]
        /\ data \in [Modes -> BOOLEAN] /\ netpollWaiters \in Int
    BY <1>1 DEF PollTypeOK
  <1>5. gate[m] \in G \cup {None, "ready", "wait"} /\ gate = [gate EXCEPT ![m] = gate[m]]
    BY <1>3, <1>4
  <1>6. gate[m] = "wait" => npc[g] \in {"recheck", "commit", "swap"}
    BY <1>1, <1>2 DEF GatesFit, IOPC
  <1>7. gate[m] \in G => gate[m] = g /\ npc[g] = "parked"
    BY <1>1, <1>2 DEF GatesFit, IOPC
  <1> QED
    BY <1>3, <1>4, <1>5, <1>6, <1>7

(* A step that checks for errors on its way.                               *)
LEMMA CheckErrGoes ==
  ASSUME FDInv, NEW g \in G, NEW m \in Mode, fpc[g] = "use", role[g] = m,
         NEW from \in {"idle", "wait"}, NEW ok, CheckErr(g, m, from, ok),
         \/ from = "idle" /\ ok = "reset"
         \/ from = "wait" /\ ok = "block",
         UNCHANGED <<fdmuVars, sysfd>>
  PROVE  Rest'
  <1> DEFINE s == IF netpollcheckerr(m) THEN "done" ELSE ok
  <1>1. /\ npc[g] = from /\ npc' = [npc EXCEPT ![g] = s]
        /\ gate' = gate /\ netpollWaiters' = netpollWaiters /\ data' = data
        /\ UNCHANGED <<timing, lock, pending, poller, event, arrivals, everr>>
    BY DEF CheckErr, NGoto, KeepLocked, KeepKernel, timing
  <1>2. /\ gate[m] \in {None, "ready"} /\ gate' = [gate EXCEPT ![m] = gate[m]]
        /\ data' \in [Modes -> BOOLEAN] /\ netpollWaiters' \in Int
    BY <1>1, GateOf
  <1>3. s \in {"done", "reset", "block"} /\ (s = "block" => npc[g] = "wait")
    BY <1>1
  <1> HIDE DEF s
  <1>4. IOGoes(g, m, s, gate[m])
    BY <1>1, <1>2, <1>3, NoneAssumption, GateAssumption DEF IOGoes, IOPC
  <1>5. IOKnows(m, s, gate[m])
    BY <1>1, <1>3 DEF IOKnows, FDInv, NothingMissed, IOPC
  <1> QED
    BY <1>2, <1>4, <1>5, IOGoesOn

(* Reset forgets a notification: the system call comes next.               *)
LEMMA ResetGoes ==
  ASSUME FDInv, NEW g \in G, NEW m \in Mode, fpc[g] = "use", role[g] = m, Reset(g, m),
         UNCHANGED <<fdmuVars, sysfd>>
  PROVE  Rest'
  <1> DEFINE s == "io"
             v == None
  <1>1. /\ npc' = [npc EXCEPT ![g] = s]
        /\ UNCHANGED <<timing, lock, pending, poller, event, arrivals, everr>>
    BY DEF Reset, NGoto, KeepLocked, KeepKernel, timing
  <1>2. /\ m \in Modes /\ gate[m] \in G \cup {None, "ready", "wait"}
        /\ gate[m] = "wait" => npc[g] \in {"recheck", "commit", "swap"}
        /\ gate[m] \in G => gate[m] = g /\ npc[g] = "parked"
        /\ gate = [gate EXCEPT ![m] = gate[m]]
        /\ data \in [Modes -> BOOLEAN] /\ netpollWaiters \in Int
    BY GateOf
  <1>3. npc[g] = "reset" /\ s = "io" /\ v = None
    BY DEF Reset, NGoto
  <1>4. gate' = [gate EXCEPT ![m] = v] /\ data' = data
    BY DEF Reset, KeepKernel
  <1>5. data' \in [Modes -> BOOLEAN] /\ netpollWaiters' \in Int
    BY <1>2, <1>4 DEF Reset
  <1> HIDE DEF s, v
  <1>7. IOGoes(g, m, s, v)
    BY <1>1, <1>2, <1>3, <1>4, <1>5, NoneAssumption, GateAssumption DEF IOGoes, IOPC
  <1>8. IOKnows(m, s, v)
    BY <1>3, <1>4, <1>5 DEF IOKnows, FDInv, NothingMissed, Committed, IOPC
  <1> QED
    BY <1>5, <1>7, <1>8, IOGoesOn

(* A system call that would block leaves nothing to read or write.         *)
LEMMA SyscallGoes ==
  ASSUME FDInv, NEW g \in G, NEW m \in Mode, fpc[g] = "use", role[g] = m, Syscall(g, m),
         UNCHANGED <<fdmuVars, sysfd>>
  PROVE  Rest'
  <1> DEFINE s == IF data[m] THEN "done" ELSE "wait"
             v == gate[m]
  <1>1. /\ npc' = [npc EXCEPT ![g] = s]
        /\ UNCHANGED <<timing, lock, pending, poller, event, arrivals, everr>>
    BY DEF Syscall, NGoto, KeepLocked, KeepKernel, timing
  <1>2. /\ m \in Modes /\ gate[m] \in G \cup {None, "ready", "wait"}
        /\ gate[m] = "wait" => npc[g] \in {"recheck", "commit", "swap"}
        /\ gate[m] \in G => gate[m] = g /\ npc[g] = "parked"
        /\ gate = [gate EXCEPT ![m] = gate[m]]
        /\ data \in [Modes -> BOOLEAN] /\ netpollWaiters \in Int
    BY GateOf
  <1>3. npc[g] = "io" /\ v \in {None, "ready"} /\ s \in {"done", "wait"}
    BY <1>2, NoneAssumption, GateAssumption DEF Syscall, NGoto
  <1>4. gate' = [gate EXCEPT ![m] = v] /\ netpollWaiters' = netpollWaiters
    BY <1>2 DEF Syscall
  <1>5. /\ data' \in [Modes -> BOOLEAN] /\ netpollWaiters' \in Int
        /\ \A n \in Modes \ {m} : data'[n] = data[n]
        /\ s = "wait" => ~data'[m]
    <2>1. PICK left \in BOOLEAN : data' = [data EXCEPT ![m] = @ /\ left]
      BY DEF Syscall
    <2>2. data'[m] = (data[m] /\ left) /\ data[m] \in BOOLEAN
      BY <1>2, <2>1
    <2>3. data' \in [Modes -> BOOLEAN] /\ \A n \in Modes \ {m} : data'[n] = data[n]
      BY <1>2, <2>1
    <2> QED
      BY <1>2, <1>4, <2>2, <2>3
  <1> HIDE DEF s, v
  <1>7. IOGoes(g, m, s, v)
    BY <1>1, <1>2, <1>3, <1>4, <1>5, NoneAssumption, GateAssumption DEF IOGoes, IOPC
  <1>8. IOKnows(m, s, v)
    BY <1>3, <1>4, <1>5 DEF IOKnows, FDInv, NothingMissed, Committed, IOPC
  <1> QED
    BY <1>5, <1>7, <1>8, IOGoesOn

(* netpollblock takes a notification, or says that it waits.               *)
LEMMA NetpollblockGoes ==
  ASSUME FDInv, NEW g \in G, NEW m \in Mode, fpc[g] = "use", role[g] = m, netpollblock(g, m),
         UNCHANGED <<fdmuVars, sysfd>>
  PROVE  Rest'
  <1> DEFINE s == IF gate[m] = "ready" THEN "io" ELSE "recheck"
             v == IF gate[m] = "ready" THEN None ELSE "wait"
  <1>1. /\ npc' = [npc EXCEPT ![g] = s]
        /\ UNCHANGED <<timing, lock, pending, poller, event, arrivals, everr>>
    BY DEF netpollblock, NGoto, KeepLocked, KeepKernel, timing
  <1>2. /\ m \in Modes /\ gate[m] \in G \cup {None, "ready", "wait"}
        /\ gate[m] = "wait" => npc[g] \in {"recheck", "commit", "swap"}
        /\ gate[m] \in G => gate[m] = g /\ npc[g] = "parked"
        /\ gate = [gate EXCEPT ![m] = gate[m]]
        /\ data \in [Modes -> BOOLEAN] /\ netpollWaiters \in Int
    BY GateOf
  <1>3. /\ npc[g] = "block" /\ gate[m] \in {None, "ready"}
        /\ \/ gate[m] = "ready" /\ s = "io" /\ v = None
           \/ gate[m] = None /\ gate[m] # "ready" /\ s = "recheck" /\ v = "wait"
    BY GateAssumption DEF netpollblock, NGoto
  <1>4. gate' = [gate EXCEPT ![m] = v] /\ data' = data
    BY DEF netpollblock, KeepKernel
  <1>5. data' \in [Modes -> BOOLEAN] /\ netpollWaiters' \in Int
    BY <1>2, <1>4 DEF netpollblock
  <1> HIDE DEF s, v
  <1>7. IOGoes(g, m, s, v)
    BY <1>1, <1>2, <1>3, <1>4, <1>5, NoneAssumption, GateAssumption DEF IOGoes, IOPC
  <1>8. IOKnows(m, s, v)
    BY <1>3, <1>4, <1>5 DEF IOKnows, FDInv, NothingMissed, Committed, IOPC
  <1> QED
    BY <1>5, <1>7, <1>8, IOGoesOn

(* Recheck goes on only when there is no error.                            *)
LEMMA RecheckGoes ==
  ASSUME FDInv, NEW g \in G, NEW m \in Mode, fpc[g] = "use", role[g] = m, Recheck(g, m),
         UNCHANGED <<fdmuVars, sysfd>>
  PROVE  Rest'
  <1> DEFINE s == IF netpollcheckerr(m) THEN "swap" ELSE "commit"
             v == gate[m]
  <1>1. /\ npc' = [npc EXCEPT ![g] = s]
        /\ UNCHANGED <<timing, lock, pending, poller, event, arrivals, everr>>
    BY DEF Recheck, NGoto, KeepLocked, KeepKernel, timing
  <1>2. /\ m \in Modes /\ gate[m] \in G \cup {None, "ready", "wait"}
        /\ gate[m] = "wait" => npc[g] \in {"recheck", "commit", "swap"}
        /\ gate[m] \in G => gate[m] = g /\ npc[g] = "parked"
        /\ gate = [gate EXCEPT ![m] = gate[m]]
        /\ data \in [Modes -> BOOLEAN] /\ netpollWaiters \in Int
    BY GateOf
  <1>3. /\ npc[g] = "recheck" /\ v \in {None, "ready", "wait"} /\ v = gate[m]
        /\ \/ s = "swap"
           \/ s = "commit" /\ ~closing /\ ~(deadline[m] < 0) /\ ~(m = "r" /\ everr)
    BY <1>2 DEF Recheck, NGoto, netpollcheckerr
  <1>4. gate' = [gate EXCEPT ![m] = v] /\ data' = data
    BY <1>2 DEF Recheck, KeepKernel
  <1>5. data' \in [Modes -> BOOLEAN] /\ netpollWaiters' \in Int
    BY <1>2, <1>4 DEF Recheck
  <1> HIDE DEF s, v
  <1>7. IOGoes(g, m, s, v)
    BY <1>1, <1>2, <1>3, <1>4, <1>5, NoneAssumption, GateAssumption DEF IOGoes, IOPC
  <1>8. IOKnows(m, s, v)
    BY <1>3, <1>4, <1>5 DEF IOKnows, FDInv, NothingMissed, Committed, IOPC
  <1> QED
    BY <1>5, <1>7, <1>8, IOGoesOn

(* netpollblockcommit parks a goroutine whose gate is as it was.           *)
LEMMA CommitGoes ==
  ASSUME FDInv, NEW g \in G, NEW m \in Mode, fpc[g] = "use", role[g] = m, netpollblockcommit(g, m),
         UNCHANGED <<fdmuVars, sysfd>>
  PROVE  Rest'
  <1> DEFINE s == IF gate[m] = "wait" THEN "parked" ELSE "swap"
             v == IF gate[m] = "wait" THEN g ELSE gate[m]
  <1>1. /\ npc' = [npc EXCEPT ![g] = s]
        /\ UNCHANGED <<timing, lock, pending, poller, event, arrivals, everr>>
    BY DEF netpollblockcommit, NGoto, KeepLocked, KeepKernel, timing
  <1>2. /\ m \in Modes /\ gate[m] \in G \cup {None, "ready", "wait"}
        /\ gate[m] = "wait" => npc[g] \in {"recheck", "commit", "swap"}
        /\ gate[m] \in G => gate[m] = g /\ npc[g] = "parked"
        /\ gate = [gate EXCEPT ![m] = gate[m]]
        /\ data \in [Modes -> BOOLEAN] /\ netpollWaiters \in Int
    BY GateOf
  <1>3. /\ npc[g] = "commit"
        /\ \/ gate[m] = "wait" /\ s = "parked" /\ v = g
           \/ gate[m] \in {None, "ready"} /\ gate[m] # "wait" /\ s = "swap" /\ v = gate[m]
    BY <1>2, GateAssumption DEF netpollblockcommit, NGoto
  <1>4. gate' = [gate EXCEPT ![m] = v] /\ data' = data
    BY <1>2 DEF netpollblockcommit, KeepKernel
  <1>5. data' \in [Modes -> BOOLEAN] /\ netpollWaiters' \in Int
    BY <1>2, <1>4 DEF netpollblockcommit
  <1> HIDE DEF s, v
  <1>7. IOGoes(g, m, s, v)
    BY <1>1, <1>2, <1>3, <1>4, <1>5, NoneAssumption, GateAssumption DEF IOGoes, IOPC
  <1>8. IOKnows(m, s, v)
    BY <1>3, <1>4, <1>5 DEF IOKnows, FDInv, NothingMissed, Committed, IOPC
  <1> QED
    BY <1>5, <1>7, <1>8, IOGoesOn

(* Swap takes what is in the gate.                                         *)
LEMMA SwapGoes ==
  ASSUME FDInv, NEW g \in G, NEW m \in Mode, fpc[g] = "use", role[g] = m, Swap(g, m),
         UNCHANGED <<fdmuVars, sysfd>>
  PROVE  Rest'
  <1> DEFINE s == IF gate[m] = "ready" THEN "io" ELSE "wait"
             v == None
  <1>1. /\ npc' = [npc EXCEPT ![g] = s]
        /\ UNCHANGED <<timing, lock, pending, poller, event, arrivals, everr>>
    BY DEF Swap, NGoto, KeepLocked, KeepKernel, timing
  <1>2. /\ m \in Modes /\ gate[m] \in G \cup {None, "ready", "wait"}
        /\ gate[m] = "wait" => npc[g] \in {"recheck", "commit", "swap"}
        /\ gate[m] \in G => gate[m] = g /\ npc[g] = "parked"
        /\ gate = [gate EXCEPT ![m] = gate[m]]
        /\ data \in [Modes -> BOOLEAN] /\ netpollWaiters \in Int
    BY GateOf
  <1>3. /\ npc[g] = "swap" /\ v = None
        /\ \/ gate[m] = "ready" /\ s = "io"
           \/ gate[m] # "ready" /\ s = "wait"
    BY DEF Swap, NGoto
  <1>4. gate' = [gate EXCEPT ![m] = v] /\ data' = data
    BY DEF Swap, KeepKernel
  <1>5. data' \in [Modes -> BOOLEAN] /\ netpollWaiters' \in Int
    BY <1>2, <1>4 DEF Swap
  <1> HIDE DEF s, v
  <1>7. IOGoes(g, m, s, v)
    BY <1>1, <1>2, <1>3, <1>4, <1>5, NoneAssumption, GateAssumption DEF IOGoes, IOPC
  <1>8. IOKnows(m, s, v)
    BY <1>3, <1>4, <1>5 DEF IOKnows, FDInv, NothingMissed, Committed, IOPC
  <1> QED
    BY <1>5, <1>7, <1>8, IOGoesOn

(* A step of Read or Write.                                                *)
LEMMA ReadWriteKeeps ==
  ASSUME FDInv, NEW g \in G, ReadWrite(g)
  PROVE  Rest'
  <1> DEFINE m == role[g]
  <1>1. fpc[g] = "use" /\ m \in Mode /\ IOStep(g, m) /\ UNCHANGED <<fdmuVars, sysfd>>
    BY DEF ReadWrite, KeepFd
  <1>2. CASE CheckErr(g, m, "idle", "reset") \/ CheckErr(g, m, "wait", "block")
    BY <1>1, <1>2, CheckErrGoes
  <1>3. CASE Reset(g, m) \/ Syscall(g, m) \/ netpollblock(g, m) \/ Recheck(g, m)
    BY <1>1, <1>3, ResetGoes, SyscallGoes, NetpollblockGoes, RecheckGoes
  <1>4. CASE netpollblockcommit(g, m) \/ Swap(g, m)
    BY <1>1, <1>4, CommitGoes, SwapGoes
  <1> QED
    BY <1>1, <1>2, <1>3, <1>4 DEF IOStep, pollReset, pollWait

-----------------------------------------------------------------------------
(* The calls around Read and Write.                                        *)

(* A call that has no reference yet, or no more, is not at the poller.     *)
LEMMA EnterGoes ==
  ASSUME FDInv, NEW g \in G, Enter(g, Mode)
  PROVE  /\ CallerGoes(g, "idle") /\ npc[g] = "idle" /\ UNCHANGED pdVars
         /\ OthersStay(G, next, next', g)
         /\ \/ fdmu'.closed = fdmu.closed /\ (Closes(g)' <=> Closes(g))
            \/ ~fdmu.closed /\ fdmu'.closed /\ Closes(g)'
  <1>1. FdMutexTypeOK /\ CallsFit /\ PollCallsFit /\ PollTypeOK
    BY DEF FDInv, FdMutexInv
  <1>2. /\ fpc \in [G -> FPC] /\ role \in [G -> Mode \cup {"misc", "close", None}]
        /\ next \in [G -> {"idle", "evict", "destroy"}] /\ fdmu \in Word /\ npc \in [G -> NPC]
    BY <1>1 DEF FdMutexTypeOK, PollTypeOK, Word
  <1>3. UNCHANGED pdVars
    BY DEF Enter
  <1>4. fpc[g] \in {"idle", "lock", "sleep", "release"}
    BY DEF Enter, incref, increfAndClose, Semacquire, Semrelease, rwlockClosed, rwlockFree, rwlockWait, RWLock
  <1>5. npc[g] = "idle"
    BY <1>1, <1>4 DEF PollCallsFit
  <1>6. OthersStay(G, fpc, fpc', g) /\ OthersStay(G, role, role', g) /\ OthersStay(G, next, next', g)
    BY <1>2 DEF Enter, incref, increfAndClose, Semacquire, Semrelease, rwlockClosed, rwlockFree, rwlockWait,
                FGoto, ReleaseThen, KeepOwed, OthersStay
  <1>7. CallerGoes(g, "idle")
    BY <1>2, <1>3, <1>5, <1>6 DEF CallerGoes, pdVars, IOPC
  <1>8. \/ fdmu'.closed = fdmu.closed /\ (Closes(g)' <=> Closes(g))
        \/ ~fdmu.closed /\ fdmu'.closed /\ Closes(g)'
    <2>1. CASE increfAndClose(g)
      BY <1>2, <2>1 DEF increfAndClose, Closes, Word
    <2>2. CASE Semrelease(g)
      <3> DEFINE o == [owe[g] EXCEPT ![IF owe[g]["r"] > 0 THEN "r" ELSE "w"] = @ - 1]
      <3>1. /\ fdmu' = fdmu /\ fpc[g] = "release"
            /\ fpc' = [fpc EXCEPT ![g] = IF o = Nobody THEN next[g] ELSE "release"]
            /\ next' = [next EXCEPT ![g] = IF o = Nobody THEN "idle" ELSE next[g]]
        BY <2>2 DEF Semrelease, ReleaseThen, FGoto
      <3> HIDE DEF o
      <3> QED
        BY <1>2, <3>1 DEF Closes
    <2>3. CASE incref(g) \/ Semacquire(g)
      <3>1. next' = next /\ fpc[g] \in {"idle", "sleep"} /\ fpc'[g] \in {"use", "lock"}
        BY <1>2, <2>3 DEF incref, Semacquire, FGoto, KeepOwed
      <3>2. fdmu'.closed = fdmu.closed
        BY <1>2, <2>3 DEF incref, Semacquire, Word
      <3> QED
        BY <3>1, <3>2 DEF Closes
    <2>4. ASSUME NEW m \in Mode, rwlockClosed(g, m) \/ rwlockFree(g, m) \/ rwlockWait(g, m)
          PROVE  fdmu'.closed = fdmu.closed /\ (Closes(g)' <=> Closes(g))
      <3>1. next' = next /\ fpc'[g] \in {"idle", "use", "sleep"}
        BY <1>2, <2>4 DEF rwlockClosed, rwlockFree, rwlockWait, FGoto, KeepOwed
      <3>2. fdmu'.closed = fdmu.closed
        BY <1>2, <2>4 DEF rwlockClosed, rwlockFree, rwlockWait, Word
      <3>3. fpc[g] \in {"idle", "lock"}
        BY <2>4 DEF rwlockClosed, rwlockFree, rwlockWait, RWLock
      <3> QED
        BY <3>1, <3>2, <3>3 DEF Closes
    <2> QED
      BY <2>1, <2>2, <2>3, <2>4 DEF Enter
  <1> QED
    BY <1>3, <1>5, <1>6, <1>7, <1>8

(* A step of a call at which the poller does not change.                   *)
LEMMA EnterKeeps ==
  ASSUME FDInv, NEW g \in G, Enter(g, Mode)
  PROVE  Rest'
  <1>1. Timing /\ Gates /\ Work /\ ClosingFits /\ NothingMissed
    BY FDInvParts DEF Rest
  <1>2. /\ CallerGoes(g, "idle") /\ npc[g] = "idle" /\ UNCHANGED pdVars
        /\ OthersStay(G, next, next', g)
        /\ \/ fdmu'.closed = fdmu.closed /\ (Closes(g)' <=> Closes(g))
           \/ ~fdmu.closed /\ fdmu'.closed /\ Closes(g)'
    BY EnterGoes
  <1>3. UNCHANGED <<lock, pending, closing, everr, seq, gate, deadline, pdtimer, fired,
                    netpollWaiters, poller, event, arrivals, data, npc>>
    BY <1>2 DEF pdVars
  <1>4. Timing'
    BY <1>1, <1>3, TimingUnchanged DEF timing
  <1>5. Work'
    BY <1>1, <1>3 DEF Work, WorkOK, WorkFits
  <1>6. Gates'
    <2>1. lock' \in G \cup {"timer", None}
      BY <1>1, <1>3 DEF Gates, GatesOK
    <2>2. \A h \in G : lock' = h <=> (IF h = g THEN FALSE ELSE lock = h)
      BY <1>1, <1>2, <1>3 DEF Gates, PollCallsFit
    <2> QED
      BY <1>1, <1>2, <2>1, <2>2, CallerGates
  <1>7. NothingMissed'
    BY <1>1, <1>2, <1>3, CallerMissesNothing
  <1>8. ClosingFits'
    <2>1. \A h \in G \ {g} : Closes(h)' <=> Closes(h)
      BY <1>2 DEF CallerGoes, OthersStay, Closes
    <2>2. CASE fdmu'.closed = fdmu.closed /\ (Closes(g)' <=> Closes(g))
      <3>1. \A h \in G : /\ Closes(h)' <=> Closes(h)
                         /\ Closes(h) => (npc'[h] = "idle" <=> npc[h] = "idle")
        BY <1>3, <2>1, <2>2
      <3> QED
        BY <1>1, <1>3, <2>2, <3>1, ClosingUnchanged
    <2>3. CASE ~fdmu.closed /\ fdmu'.closed /\ Closes(g)'
      <3>1. ~closing /\ \A h \in G : ~Closes(h)
        BY <1>1, <2>3 DEF ClosingFits
      <3>2. \A h \in G : Closes(h)' <=> h = g
        BY <2>1, <2>3, <3>1
      <3>3. ~closing' /\ npc'[g] = "idle"
        BY <1>2, <1>3, <3>1
      <3> QED
        BY <2>3, <3>2, <3>3 DEF ClosingFits
    <2> QED
      BY <1>2, <2>2, <2>3
  <1> QED
    BY <1>4, <1>5, <1>6, <1>7, <1>8 DEF Rest

(* The end of Close.                                                       *)
LEMMA ClosedGoes ==
  ASSUME FDInv, NEW g \in G, Closed(g)
  PROVE  Rest'
  <1>1. Timing /\ Gates /\ Work /\ ClosingFits /\ NothingMissed
    BY FDInvParts DEF Rest
  <1>2. /\ fpc \in [G -> FPC] /\ role \in [G -> Mode \cup {"misc", "close", None}]
        /\ npc \in [G -> NPC] /\ PollCallsFit
    BY DEF FDInv, FdMutexInv, FdMutexTypeOK, PollTypeOK
  <1>3. UNCHANGED <<lock, pending, closing, everr, seq, gate, deadline, pdtimer, fired,
                    netpollWaiters, poller, event, arrivals, data, npc, fdmu, next>>
    BY DEF Closed, pdVars, KeepOwed
  <1>4. fpc[g] = "csema" /\ fpc' = [fpc EXCEPT ![g] = "idle"] /\ role' = [role EXCEPT ![g] = None]
    BY DEF Closed, FGoto
  <1>5. npc[g] = "idle"
    BY <1>2, <1>4 DEF PollCallsFit
  <1>6. CallerGoes(g, "idle")
    BY <1>2, <1>3, <1>4, <1>5 DEF CallerGoes, OthersStay, IOPC
  <1>7. Timing' /\ Work'
    BY <1>1, <1>3, TimingUnchanged DEF timing, Work, WorkOK, WorkFits
  <1>8. Gates'
    <2>1. lock' \in G \cup {"timer", None}
      BY <1>1, <1>3 DEF Gates, GatesOK
    <2>2. \A h \in G : lock' = h <=> (IF h = g THEN FALSE ELSE lock = h)
      BY <1>2, <1>3, <1>5 DEF PollCallsFit
    <2> QED
      BY <1>1, <1>6, <2>1, <2>2, CallerGates
  <1>9. NothingMissed'
    BY <1>1, <1>3, <1>6, CallerMissesNothing
  <1>10. ClosingFits'
    <2>1. \A h \in G : Closes(h)' <=> Closes(h)
      BY <1>2, <1>3, <1>4 DEF Closes
    <2> QED
      BY <1>1, <1>3, <2>1 DEF ClosingFits
  <1> QED
    BY <1>7, <1>8, <1>9, <1>10 DEF Rest

(* A caller that neither closes nor has begun to.                          *)
LEMMA CallerClosesNot ==
  ASSUME FDInv, NEW g \in G, fpc[g] = "use"
  PROVE  ~Closes(g)
  BY DEF FDInv, FdMutexInv, CallsFit, Closes

(* pollSetDeadline: whoever waits for what is over now is unblocked.       *)
LEMMA SetDeadlineKeeps ==
  ASSUME FDInv, NEW g \in G, NEW d \in Int, NEW M \in SUBSET Modes, SetDeadline(g, d, M)
  PROVE  Rest'
  <1> DEFINE new == [m \in Modes |-> IF m \in M THEN d ELSE deadline[m]]
             past == {m \in Modes : new[m] < 0}
             s == IF past = {} THEN "done" ELSE "unblock"
  <1>1. Timing /\ Gates /\ Work /\ ClosingFits /\ NothingMissed
    BY FDInvParts DEF Rest
  <1>2. /\ fpc[g] = "use" /\ role[g] = "misc" /\ pollSetDeadline(g, d, M)
        /\ UNCHANGED <<fdmu, fpc, role, next>>
    BY DEF SetDeadline, fdmuVars
  <1>3. /\ npc[g] = "idle" /\ npc' = [npc EXCEPT ![g] = s]
        /\ lock = None /\ lock' = (IF past = {} THEN None ELSE g) /\ pending' = past
        /\ ~closing /\ closing' = closing /\ deadline' = new
        /\ UNCHANGED <<gate, netpollWaiters, poller, event, arrivals, data, everr>>
    BY <1>2 DEF pollSetDeadline, NGoto, Begin, KeepKernel
  <1>4. Timing'
    BY <1>1, <1>2, TimingSetDeadline
  <1>5. CallerGoes(g, s)
    BY <1>2, <1>3 DEF CallerGoes, OthersStay, IOPC
  <1>6. past \in SUBSET Modes /\ \A m \in Modes : new[m] < 0 <=> m \in past
    OBVIOUS
  <1> HIDE DEF new, past
  <1>7. Work'
    <2>1. lock' = None <=> pending' = {}
      BY <1>3, NoneAssumption
    <2> QED
      BY <1>1, <1>3, <1>6, <2>1 DEF Work, WorkOK, WorkFits
  <1>8. Gates'
    <2>1. lock' \in G \cup {"timer", None}
      BY <1>3
    <2>2. \A h \in G : lock' = h <=> (IF h = g THEN s = "unblock" ELSE lock = h)
      BY <1>3, NoneAssumption
    <2>3. fpc'[g] = "use" /\ role'[g] = "misc"
      BY <1>2
    <2> QED
      BY <1>1, <1>5, <2>1, <2>2, <2>3, CallerGates
  <1>9. NothingMissed'
    <2>1. \A m \in Mode : closing' \/ deadline'[m] < 0 => m \in pending'
      BY <1>3, <1>6 DEF Mode, Modes
    <2> QED
      BY <1>1, <1>3, <1>5, <2>1, CallerMissesNothing
  <1>10. ClosingFits'
    <2>1. ~Closes(g)
      BY <1>2, CallerClosesNot
    <2>2. npc \in [G -> NPC]
      BY <1>1 DEF Gates, GatesOK
    <2>3. \A h \in G : Closes(h) => npc'[h] = npc[h]
      BY <1>3, <2>1, <2>2
    <2>4. \A h \in G : Closes(h)' <=> Closes(h)
      BY <1>2 DEF Closes
    <2> QED
      BY <1>1, <1>2, <1>3, <2>3, <2>4, ClosingUnchanged
  <1> QED
    BY <1>4, <1>7, <1>8, <1>9, <1>10 DEF Rest

(* pollSetDeadline on a descriptor that is closing does nothing.           *)
LEMMA SetDeadlineClosingKeeps ==
  ASSUME FDInv, NEW g \in G, SetDeadlineClosing(g)
  PROVE  Rest'
  <1>1. Timing /\ Gates /\ Work /\ ClosingFits /\ NothingMissed
    BY FDInvParts DEF Rest
  <1>2. /\ fpc[g] = "use" /\ role[g] = "misc" /\ npc[g] = "idle" /\ npc' = [npc EXCEPT ![g] = "done"]
        /\ lock = None /\ netpollWaiters' = netpollWaiters
        /\ UNCHANGED <<lock, pending, closing, seq, deadline, pdtimer, fired, gate,
                       poller, event, arrivals, data, everr, fdmu, fpc, role, next>>
    BY DEF SetDeadlineClosing, NGoto, KeepLocked, KeepKernel, fdmuVars
  <1>3. CallerGoes(g, "done")
    BY <1>2 DEF CallerGoes, OthersStay, IOPC
  <1>4. Timing' /\ Work'
    BY <1>1, <1>2, TimingUnchanged DEF timing, Work, WorkOK, WorkFits
  <1>5. Gates'
    <2>1. lock' \in G \cup {"timer", None}
      BY <1>2
    <2>2. \A h \in G : lock' = h <=> (IF h = g THEN FALSE ELSE lock = h)
      BY <1>2, NoneAssumption
    <2> QED
      BY <1>1, <1>2, <1>3, <2>1, <2>2, CallerGates
  <1>6. NothingMissed'
    BY <1>1, <1>2, <1>3, CallerMissesNothing
  <1>7. ClosingFits'
    <2>1. ~Closes(g)
      BY <1>2, CallerClosesNot
    <2>2. npc \in [G -> NPC]
      BY <1>1 DEF Gates, GatesOK
    <2>3. \A h \in G : Closes(h) => npc'[h] = npc[h]
      BY <1>2, <2>1, <2>2
    <2>4. \A h \in G : Closes(h)' <=> Closes(h)
      BY <1>2 DEF Closes
    <2> QED
      BY <1>1, <1>2, <2>3, <2>4, ClosingUnchanged
  <1> QED
    BY <1>4, <1>5, <1>6, <1>7 DEF Rest

(* pollUnblock of Close: everybody who waits is unblocked.                 *)
LEMMA EvictKeeps ==
  ASSUME FDInv, NEW g \in G, Evict(g)
  PROVE  Rest'
  <1>1. Timing /\ Gates /\ Work /\ ClosingFits /\ NothingMissed
    BY FDInvParts DEF Rest
  <1>2. /\ fpc[g] = "evict" /\ pollUnblock(g) /\ UNCHANGED <<fdmu, fpc, role, next>>
    BY DEF Evict, fdmuVars
  <1>3. /\ npc[g] = "idle" /\ npc' = [npc EXCEPT ![g] = "unblock"]
        /\ lock = None /\ lock' = g /\ pending' = Modes /\ closing' = TRUE
        /\ UNCHANGED <<gate, netpollWaiters, poller, event, arrivals, data, everr>>
    BY <1>2 DEF pollUnblock, NGoto, Begin, KeepKernel, Modes
  <1>4. Timing'
    BY <1>1, <1>2, TimingUnblock
  <1>5. CallerGoes(g, "unblock")
    BY <1>2, <1>3 DEF CallerGoes, OthersStay, IOPC
  <1>6. Work'
    <2>1. lock' # None /\ pending' # {}
      BY <1>3, NoneAssumption DEF Modes
    <2> QED
      BY <1>1, <1>3, <2>1 DEF Work, WorkOK, WorkFits
  <1>7. Gates'
    <2>1. lock' \in G \cup {"timer", None}
      BY <1>3
    <2>2. \A h \in G : lock' = h <=> (IF h = g THEN TRUE ELSE lock = h)
      BY <1>3, NoneAssumption
    <2>3. fpc'[g] = "evict"
      BY <1>2
    <2> QED
      BY <1>1, <1>5, <2>1, <2>2, <2>3, CallerGates
  <1>8. NothingMissed'
    <2>1. \A m \in Mode : m \in pending'
      BY <1>3 DEF Mode, Modes
    <2> QED
      BY <1>1, <1>3, <1>5, <2>1, CallerMissesNothing
  <1>9. ClosingFits'
    <2>1. Closes(g)
      BY <1>2 DEF Closes
    <2>2. fdmu.closed /\ \A h \in G : Closes(h) => h = g
      BY <1>1, <2>1 DEF ClosingFits
    <2>3. npc'[g] = "unblock"
      BY <1>1, <1>3 DEF Gates, GatesOK
    <2>4. \A h \in G : Closes(h)' <=> Closes(h)
      BY <1>2 DEF Closes
    <2> QED
      BY <1>2, <1>3, <2>2, <2>3, <2>4 DEF ClosingFits
  <1> QED
    BY <1>4, <1>6, <1>7, <1>8, <1>9 DEF Rest

(* A call drops its reference when it is through with the poller; Close    *)
(* has unblocked everybody by then.                                        *)
LEMMA LeaveGoes ==
  ASSUME FDInv, NEW g \in G, Leave(g)
  PROVE  /\ CallerGoes(g, "idle") /\ npc[g] \in {"idle", "done"}
         /\ fdmu'.closed = fdmu.closed
         /\ ~Closes(g)' /\ (Closes(g) => npc[g] # "idle")
         /\ OthersStay(G, next, next', g)
  <1>1. FdMutexTypeOK /\ CallsFit /\ PollTypeOK
    BY DEF FDInv, FdMutexInv
  <1>2. /\ fpc \in [G -> FPC] /\ role \in [G -> Mode \cup {"misc", "close", None}]
        /\ next \in [G -> {"idle", "evict", "destroy"}] /\ fdmu \in Word /\ npc \in [G -> NPC]
    BY <1>1 DEF FdMutexTypeOK, PollTypeOK, Word
  <1>3. npc[g] \in {"idle", "done"} /\ npc' = [npc EXCEPT ![g] = "idle"] /\ gate' = gate
    BY DEF Leave
  <1>4. CASE rwunlock(g)
    <2> DEFINE m == role[g]
               n == IF fdmu.wait[m] > 0 THEN 1 ELSE 0
               o == [Nobody EXCEPT ![m] = n]
               w == [fdmu EXCEPT !.locked = @ \ {m}, !.refs = @ - 1, !.wait[m] = @ - n]
               s == IF NoReference(w) THEN "destroy" ELSE "idle"
               to == IF o = Nobody THEN s ELSE "release"
               nx == IF o = Nobody THEN "idle" ELSE s
    <2>1. /\ fpc[g] = "use" /\ fdmu' = w
          /\ fpc' = [fpc EXCEPT ![g] = to]
          /\ role' = [role EXCEPT ![g] = IF to = "idle" THEN None ELSE @]
          /\ next' = [next EXCEPT ![g] = nx]
      BY <1>4 DEF rwunlock, ReleaseThen, FGoto
    <2>2. w.closed = fdmu.closed
      BY <1>2 DEF Word
    <2>3. to \in {"destroy", "idle", "release"} /\ nx \in {"idle", "destroy"}
      OBVIOUS
    <2> HIDE DEF w, to, nx
    <2>4. ~Closes(g) /\ ~Closes(g)'
      BY <1>1, <1>2, <2>1, <2>3 DEF Closes, CallsFit
    <2>5. OthersStay(G, fpc, fpc', g) /\ OthersStay(G, role, role', g) /\ OthersStay(G, next, next', g)
      BY <1>2, <2>1 DEF OthersStay
    <2> QED
      BY <1>3, <2>1, <2>2, <2>4, <2>5 DEF CallerGoes, IOPC
  <1>5. ASSUME NEW from, NEW to \in {"idle", "csema"}, decref(g, {from}, to),
               \/ from = "use"
               \/ from = "evict" /\ npc[g] = "done"
        PROVE  /\ CallerGoes(g, "idle") /\ fdmu'.closed = fdmu.closed
               /\ ~Closes(g)' /\ (Closes(g) => npc[g] # "idle")
               /\ OthersStay(G, next, next', g)
    <2> DEFINE w == [fdmu EXCEPT !.refs = @ - 1]
               s == IF NoReference(w) THEN "destroy" ELSE to
    <2>1. /\ fpc[g] = from /\ fdmu' = w /\ next' = next
          /\ fpc' = [fpc EXCEPT ![g] = s]
          /\ role' = [role EXCEPT ![g] = IF s = "idle" THEN None ELSE @]
      BY <1>5 DEF decref, FGoto, KeepOwed
    <2>2. w.closed = fdmu.closed
      BY <1>2 DEF Word
    <2>3. s \in {"destroy", "idle", "csema"}
      OBVIOUS
    <2> HIDE DEF w, s
    <2>4. ~Closes(g)' /\ (Closes(g) => npc[g] # "idle")
      BY <1>1, <1>2, <1>5, <2>1, <2>3 DEF Closes, CallsFit
    <2>5. OthersStay(G, fpc, fpc', g) /\ OthersStay(G, role, role', g) /\ OthersStay(G, next, next', g)
      BY <1>2, <2>1 DEF OthersStay
    <2> QED
      BY <1>3, <2>1, <2>2, <2>4, <2>5 DEF CallerGoes, IOPC
  <1> QED
    BY <1>3, <1>4, <1>5 DEF Leave

(* So the poller keeps its invariant.                                      *)
LEMMA LeaveKeeps ==
  ASSUME FDInv, NEW g \in G, Leave(g)
  PROVE  Rest'
  <1>1. Timing /\ Gates /\ Work /\ ClosingFits /\ NothingMissed
    BY FDInvParts DEF Rest
  <1>2. /\ CallerGoes(g, "idle") /\ npc[g] \in {"idle", "done"}
        /\ fdmu'.closed = fdmu.closed
        /\ ~Closes(g)' /\ (Closes(g) => npc[g] # "idle")
        /\ OthersStay(G, next, next', g)
    BY LeaveGoes
  <1>3. UNCHANGED <<lock, pending, closing, seq, deadline, pdtimer, fired, gate, netpollWaiters,
                    poller, event, arrivals, data, everr>>
    BY DEF Leave, KeepLocked, KeepKernel
  <1>4. Timing' /\ Work'
    BY <1>1, <1>3, TimingUnchanged DEF timing, Work, WorkOK, WorkFits
  <1>5. Gates'
    <2>1. lock' \in G \cup {"timer", None}
      BY <1>1, <1>3 DEF Gates, GatesOK
    <2>2. \A h \in G : lock' = h <=> (IF h = g THEN FALSE ELSE lock = h)
      BY <1>1, <1>2, <1>3 DEF Gates, PollCallsFit
    <2> QED
      BY <1>1, <1>2, <2>1, <2>2, CallerGates
  <1>6. NothingMissed'
    BY <1>1, <1>2, <1>3, CallerMissesNothing
  <1>7. ClosingFits'
    <2>1. npc \in [G -> NPC]
      BY <1>1 DEF Gates, GatesOK
    <2>2. \A h \in G \ {g} : (Closes(h)' <=> Closes(h)) /\ npc'[h] = npc[h]
      BY <1>2, <2>1 DEF CallerGoes, OthersStay, Closes
    <2> QED
      BY <1>1, <1>2, <1>3, <2>2 DEF ClosingFits
  <1> QED
    BY <1>4, <1>5, <1>6, <1>7 DEF Rest

(* pollClose: nobody is at the poller any more.                            *)
LEMMA DestroyGoes ==
  ASSUME FDInv, NEW g \in G, destroy(g)
  PROVE  Rest'
  <1>1. Timing /\ Gates /\ Work /\ ClosingFits /\ FdMutexInv
    BY FDInvParts DEF Rest
  <1>2. fpc[g] = "destroy"
    BY DEF destroy, FGoto
  <1>3. /\ fpc \in [G -> FPC] /\ role \in [G -> Mode \cup {"misc", "close", None}]
        /\ npc \in [G -> NPC]
    BY <1>1 DEF FdMutexInv, FdMutexTypeOK, Gates, GatesOK
  <1>4. \A h \in G : npc[h] = "idle" /\ ~Closes(h)
    BY <1>1, <1>2, AtStep, NobodyThere DEF Destroys
  <1>5. /\ UNCHANGED <<lock, pending, closing, seq, deadline, pdtimer, fired, gate, netpollWaiters,
                       poller, arrivals, data, everr, npc, fdmu, next>>
        /\ event' = NoEvent
    BY DEF destroy, pollClose, KeepLocked, KeepOwed
  <1>6. /\ OthersStay(G, fpc, fpc', g) /\ OthersStay(G, role, role', g)
        /\ fpc'[g] \in {"csema", "idle"}
    BY <1>3 DEF destroy, FGoto, OthersStay
  <1>7. CallerGoes(g, "idle")
    BY <1>3, <1>4, <1>5, <1>6 DEF CallerGoes, IOPC
  <1>8. Timing' /\ Work'
    BY <1>1, <1>5, TimingUnchanged DEF timing, Work, WorkOK, WorkFits, NoEvent
  <1>9. Gates'
    <2>1. lock' \in G \cup {"timer", None}
      BY <1>1, <1>5 DEF Gates, GatesOK
    <2>2. \A h \in G : lock' = h <=> (IF h = g THEN FALSE ELSE lock = h)
      BY <1>1, <1>4, <1>5 DEF Gates, PollCallsFit
    <2> QED
      BY <1>1, <1>7, <2>1, <2>2, CallerGates
  <1>10. NothingMissed'
    BY <1>4, <1>5 DEF NothingMissed, Committed, IOPC
  <1>11. ClosingFits'
    <2>1. \A h \in G : Closes(h)' <=> Closes(h)
      BY <1>4, <1>5, <1>6 DEF Closes, OthersStay
    <2> QED
      BY <1>1, <1>5, <2>1, ClosingUnchanged
  <1> QED
    BY <1>8, <1>9, <1>10, <1>11 DEF Rest

(* A descriptor that is destroyed has no call that uses it.                *)
LEMMA DestroyedIsUnused ==
  ASSUME FdMutexInv, sysfd = FALSE
  PROVE  NoReference(fdmu)
  <1>1. Cardinality(Destroyers) \in Nat
    BY CountsAreNat DEF FdMutexInv
  <1>2. Cardinality(Destroyers) + 1 = IF NoReference(fdmu) THEN 1 ELSE 0
    BY DEF FdMutexInv, DestroyedOnce
  <1> QED
    BY <1>1, <1>2

(* pollOpen: the pollDesc begins anew, but for the calls of old timers.    *)
LEMMA OpenGoes ==
  ASSUME FDInv, Open(MaxSeq)
  PROVE  Rest'
  <1>1. Timing /\ Gates /\ Work /\ FdMutexInv /\ CallsFit
    BY FDInvParts DEF Rest, FdMutexInv
  <1>2. sysfd = FALSE
    BY FDInvParts DEF Open
  <1>3. closing /\ \A h \in G : npc[h] = "idle" /\ ~Closes(h)
    BY <1>1, <1>2, DestroyedIsUnused, NobodyThere
  <1>4. /\ pollOpen /\ fdmu' = [fdmu EXCEPT !.closed = FALSE] /\ UNCHANGED <<role, fpc, next>>
    BY DEF Open
  <1>5. /\ closing' = FALSE /\ everr' = FALSE /\ gate' = [m \in Modes |-> None]
        /\ event' = NoEvent /\ data' = [m \in Modes |-> FALSE] /\ lock = None
        /\ UNCHANGED <<lock, pending, netpollWaiters, poller, arrivals, npc>>
    BY <1>4 DEF pollOpen
  <1>6. Timing'
    BY <1>1, <1>3, <1>4, TimingOpen
  <1>7. Work'
    BY <1>1, <1>5 DEF Work, WorkOK, WorkFits, NoEvent
  <1>8. Gates'
    <2>1. GatesOK'
      BY <1>1, <1>5 DEF Gates, GatesOK
    <2>2. PollCallsFit'
      BY <1>1, <1>4, <1>5 DEF Gates, PollCallsFit
    <2>3. \A m \in Mode : gate'[m] = None
      BY <1>5 DEF Mode, Modes
    <2>4. GatesFit'
      BY <1>3, <1>5, <2>3, NoneAssumption, GateAssumption DEF GatesFit
    <2> QED
      BY <2>1, <2>2, <2>4 DEF Gates
  <1>9. NothingMissed'
    BY <1>3, <1>5 DEF NothingMissed, Committed, IOPC
  <1>10. ClosingFits'
    <2>1. fdmu \in Word
      BY <1>1 DEF FdMutexInv, FdMutexTypeOK, Word
    <2>2. ~fdmu'.closed
      BY <1>4, <2>1 DEF Word
    <2>3. \A h \in G : ~Closes(h)'
      BY <1>3, <1>4 DEF Closes
    <2> QED
      BY <1>5, <2>2, <2>3 DEF ClosingFits
  <1> QED
    BY <1>6, <1>7, <1>8, <1>9, <1>10 DEF Rest

-----------------------------------------------------------------------------
(* The gate of m is opened and has v in it now: whoever is parked there    *)
(* goes on.  A caller who has unblocked everybody is done.                 *)
Opened(m, v) ==
  /\ lock' \in {lock, None}
  /\ gate' = [gate EXCEPT ![m] = v] /\ v \in {None, "ready"}
  /\ npc' \in [G -> NPC]
  /\ \A h \in G : npc'[h] = IF h = gate[m] THEN "swap"
                            ELSE IF npc[h] = "unblock" /\ lock' = None THEN "done" ELSE npc[h]

(* The steps and the gates still fit each other, and the same are idle.    *)
LEMMA OpenedGates ==
  ASSUME Gates, NEW m \in Modes, NEW v, Opened(m, v), UNCHANGED <<fpc, role>>
  PROVE  /\ Gates'
         /\ \A h \in G : npc'[h] = "idle" <=> npc[h] = "idle"
  <1>1. /\ npc \in [G -> NPC] /\ gate \in [Modes -> G \cup {None, "ready", "wait"}]
        /\ lock \in G \cup {"timer", None}
        /\ PollCallsFit /\ GatesFit
    BY DEF Gates, GatesOK
  <1>2. /\ gate'[m] = v /\ \A n \in Modes \ {m} : gate'[n] = gate[n]
        /\ v \notin G /\ v # "wait"
    BY <1>1, NoneAssumption, GateAssumption DEF Opened
  <1>3. gate[m] \in G => npc[gate[m]] = "parked" /\ role[gate[m]] = m
    BY <1>1 DEF GatesFit, Mode, Modes
  <1>4. ASSUME NEW h \in G
        PROVE  /\ npc'[h] \in IOPC => fpc'[h] = "use" /\ role'[h] \in Mode
               /\ npc'[h] = "unblock" <=> lock' = h
               /\ npc'[h] = "unblock" =>
                    fpc'[h] = "evict" \/ (fpc'[h] = "use" /\ role'[h] = "misc")
               /\ npc'[h] # "idle" => fpc'[h] \in {"use", "evict"}
    <2>1. /\ npc[h] \in IOPC => fpc[h] = "use" /\ role[h] \in Mode
          /\ npc[h] = "unblock" <=> lock = h
          /\ npc[h] = "unblock" =>
               fpc[h] = "evict" \/ (fpc[h] = "use" /\ role[h] = "misc")
          /\ npc[h] # "idle" => fpc[h] \in {"use", "evict"}
      BY <1>1 DEF PollCallsFit
    <2>2. CASE h = gate[m]
      <3>1. npc[h] = "parked" /\ npc'[h] = "swap"
        BY <1>3, <2>2 DEF Opened
      <3> QED
        BY <2>1, <3>1, NoneAssumption DEF Opened, IOPC
    <2>3. CASE h # gate[m]
      BY <2>1, <2>3, NoneAssumption DEF Opened, IOPC
    <2> QED
      BY <2>2, <2>3
  <1>5. ASSUME NEW n \in Mode
        PROVE  /\ gate'[n] = "wait" =>
                    \E h \in G : role'[h] = n /\ npc'[h] \in {"recheck", "commit", "swap"}
               /\ gate'[n] \in G => npc'[gate'[n]] = "parked" /\ role'[gate'[n]] = n
    <2>1. CASE n = m
      BY <1>2, <2>1
    <2>2. CASE n # m
      <3>1. gate'[n] = gate[n]
        BY <1>2, <2>2 DEF Mode, Modes
      <3>2. ASSUME gate[n] = "wait"
            PROVE  \E h \in G : role'[h] = n /\ npc'[h] \in {"recheck", "commit", "swap"}
        <4>1. PICK h \in G : role[h] = n /\ npc[h] \in {"recheck", "commit", "swap"}
          BY <1>1, <3>2 DEF GatesFit
        <4>2. h # gate[m]
          BY <1>3, <2>2, <4>1
        <4> QED
          BY <4>1, <4>2 DEF Opened
      <3>3. ASSUME gate[n] \in G
            PROVE  npc'[gate[n]] = "parked" /\ role'[gate[n]] = n
        <4>1. npc[gate[n]] = "parked" /\ role[gate[n]] = n
          BY <1>1, <3>3 DEF GatesFit
        <4>2. gate[n] # gate[m]
          BY <1>3, <2>2, <3>3, <4>1
        <4> QED
          BY <3>3, <4>1, <4>2 DEF Opened
      <3> QED
        BY <3>1, <3>2, <3>3
    <2> QED
      BY <2>1, <2>2
  <1>6. ASSUME NEW h \in G, npc'[h] = "parked"
        PROVE  gate'[role'[h]] = h
    <2>1. npc[h] = "parked" /\ h # gate[m]
      BY <1>6 DEF Opened
    <2>2. role[h] \in Mode /\ gate[role[h]] = h
      BY <1>1, <2>1 DEF PollCallsFit, GatesFit, IOPC
    <2>3. role[h] \in Modes \ {m}
      BY <2>1, <2>2 DEF Mode, Modes
    <2> QED
      BY <1>2, <2>2, <2>3
  <1>7. GatesOK'
    <2>1. gate' \in [Modes -> G \cup {None, "ready", "wait"}]
      BY <1>1 DEF Opened
    <2> QED
      BY <1>1, <2>1 DEF GatesOK, Opened
  <1>8. \A h \in G : npc'[h] = "idle" <=> npc[h] = "idle"
    BY <1>3 DEF Opened
  <1> QED
    BY <1>4, <1>5, <1>6, <1>7, <1>8 DEF Gates, PollCallsFit, GatesFit

(* What the others wait for is kept.                                       *)
LEMMA OpenedMissesNothing ==
  ASSUME Gates, NothingMissed, NEW m \in Modes, NEW v, Opened(m, v),
         UNCHANGED <<role, closing, deadline, everr, data, event>>,
         pending \ {m} \in SUBSET pending', poller.modes \ {m} \in SUBSET poller'.modes,
         v = None => gate[m] # "ready" /\ poller' = poller
  PROVE  NothingMissed'
  <1>1. /\ npc \in [G -> NPC] /\ gate \in [Modes -> G \cup {None, "ready", "wait"}]
        /\ PollCallsFit /\ GatesFit
    BY DEF Gates, GatesOK
  <1>2. /\ gate'[m] = v /\ \A n \in Modes \ {m} : gate'[n] = gate[n]
        /\ v # "wait"
    BY <1>1, NoneAssumption, GateAssumption DEF Opened
  <1>3. gate[m] \in G => npc[gate[m]] = "parked" /\ role[gate[m]] = m /\ gate[m] # "ready"
    BY <1>1, GateAssumption DEF GatesFit, Mode, Modes
  <1> SUFFICES ASSUME NEW h \in G, NEW n \in Mode, role[h] = n
               PROVE  /\ npc'[h] \in IOPC \ {"reset", "io"} /\ gate'[n] # "ready" /\ data[n] =>
                           n \in event.modes \cup poller'.modes
                      /\ npc'[h] = "parked" \/ (npc'[h] = "commit" /\ gate'[n] = "wait") =>
                           /\ closing \/ deadline[n] < 0 => n \in pending'
                           /\ n = "r" /\ everr => n \in poller'.modes
    BY DEF NothingMissed, Committed
  <1>4. /\ npc[h] \in IOPC \ {"reset", "io"} /\ gate[n] # "ready" /\ data[n] =>
             n \in event.modes \cup poller.modes
        /\ npc[h] = "parked" \/ (npc[h] = "commit" /\ gate[n] = "wait") =>
             /\ closing \/ deadline[n] < 0 => n \in pending
             /\ n = "r" /\ everr => n \in poller.modes
    BY DEF NothingMissed, Committed
  <1>5. n \in Modes /\ (npc[h] = "parked" => gate[n] = h)
    BY <1>1 DEF GatesFit, Mode, Modes
  <1>6. CASE h = gate[m]
    BY <1>2, <1>3, <1>4, <1>6 DEF Opened, IOPC
  <1>7. CASE h # gate[m]
    <2>1. npc'[h] \in IOPC => npc'[h] = npc[h]
      BY <1>7 DEF Opened, IOPC
    <2>2. CASE n = m
      BY <1>2, <1>4, <1>5, <1>7, <2>1, <2>2 DEF Opened, IOPC
    <2>3. CASE n # m
      <3>1. gate'[n] = gate[n] /\ (n \in pending => n \in pending') /\ (n \in poller.modes => n \in poller'.modes)
        BY <1>2, <1>5, <2>3
      <3> QED
        BY <1>4, <2>1, <3>1 DEF IOPC
    <2> QED
      BY <2>2, <2>3
  <1> QED
    BY <1>6, <1>7

(* Together: such a step of the poller keeps the invariant.                *)
LEMMA OpenedKeeps ==
  ASSUME FDInv, NEW m \in Modes, NEW v, Opened(m, v),
         UNCHANGED <<fdmuVars, sysfd, timing, everr, data, event>>,
         pending \ {m} \in SUBSET pending', poller.modes \ {m} \in SUBSET poller'.modes,
         v = None => gate[m] # "ready" /\ poller' = poller,
         Work'
  PROVE  Rest'
  <1>1. Timing /\ Gates /\ Work /\ ClosingFits /\ NothingMissed
    BY FDInvParts DEF Rest
  <1>2. UNCHANGED <<fdmu, fpc, role, next, closing, deadline>>
    BY DEF fdmuVars, timing
  <1>3. Timing'
    BY <1>1, TimingUnchanged
  <1>4. Gates' /\ \A h \in G : npc'[h] = "idle" <=> npc[h] = "idle"
    BY <1>1, <1>2, OpenedGates
  <1>5. NothingMissed'
    BY <1>1, <1>2, OpenedMissesNothing
  <1>6. ClosingFits'
    <2>1. \A h \in G : Closes(h)' <=> Closes(h)
      BY <1>2 DEF Closes
    <2> QED
      BY <1>1, <1>2, <1>4, <2>1, ClosingUnchanged
  <1> QED
    BY <1>3, <1>4, <1>5, <1>6 DEF Rest

(* netpollunblock for the holder of the lock.                              *)
LEMMA NetpollunblockGoes ==
  ASSUME FDInv, netpollunblock, UNCHANGED <<fdmuVars, sysfd>>
  PROVE  Rest'
  <1> DEFINE m == IF "r" \in pending THEN "r" ELSE "w"
             n == pending \ {m}
             last == n = {} /\ lock \in G
             v == IF gate[m] = "ready" THEN "ready" ELSE None
             p == IF last THEN [npc EXCEPT ![lock] = "done"] ELSE npc
  <1>1. Timing /\ Gates /\ Work
    BY FDInvParts DEF Rest
  <1>2. /\ npc \in [G -> NPC] /\ gate \in [Modes -> G \cup {None, "ready", "wait"}]
        /\ lock \in G \cup {"timer", None} /\ PollCallsFit /\ GatesFit
    BY <1>1 DEF Gates, GatesOK
  <1>3. /\ lock # None /\ gate' = [gate EXCEPT ![m] = v] /\ npc' = Unblocked(p, m)
        /\ netpollWaiters' = netpollWaiters - (IF Wakes(m) THEN 1 ELSE 0)
        /\ pending' = n /\ lock' = (IF n = {} THEN None ELSE lock)
        /\ UNCHANGED <<timing, poller, event, arrivals, data, everr>>
    <2>1. GateUnblocked(m, FALSE) = [gate EXCEPT ![m] = v]
      BY DEF GateUnblocked
    <2> HIDE DEF v
    <2> QED
      BY <2>1 DEF netpollunblock, KeepKernel, timing
  <1>4. m \in Modes /\ pending \in SUBSET Modes /\ pending \ {m} \in SUBSET pending'
    BY <1>1, <1>3 DEF Modes, Work, WorkOK
  <1>5. Opened(m, v)
    <2>1. p \in [G -> NPC] /\ \A h \in G : p[h] = IF last /\ h = lock THEN "done" ELSE npc[h]
      BY <1>2 DEF NPC
    <2>2. \A h \in G : npc[h] = "unblock" /\ lock' = None <=> last /\ h = lock
      BY <1>2, <1>3, NoneAssumption DEF PollCallsFit
    <2>3. /\ npc' \in [G -> NPC]
          /\ \A h \in G : npc'[h] = IF h = gate[m] THEN "swap" ELSE p[h]
      <3> HIDE DEF p, m
      <3> QED
        BY <1>3, <2>1 DEF Unblocked, Wakes, NPC, IOPC
    <2> QED
      BY <1>3, <2>1, <2>2, <2>3 DEF Opened
  <1>6. Work'
    <2>1. pending' \in SUBSET Modes /\ netpollWaiters' \in Int
      BY <1>1, <1>3, <1>4 DEF Work, WorkOK
    <2>2. lock' = None <=> pending' = {}
      BY <1>3
    <2> QED
      BY <1>1, <1>3, <2>1, <2>2 DEF Work, WorkOK, WorkFits
  <1>7. v = None => gate[m] # "ready" /\ poller' = poller
    BY <1>3, GateAssumption
  <1>8. UNCHANGED <<timing, everr, data, event>> /\ poller.modes \ {m} \in SUBSET poller'.modes
    BY <1>3
  <1> HIDE DEF m, v
  <1> QED
    BY <1>4, <1>5, <1>6, <1>7, <1>8, OpenedKeeps

(* netpollready leaves a notification.                                     *)
LEMMA NetpollreadyGoes ==
  ASSUME FDInv, netpollready, UNCHANGED <<fdmuVars, sysfd>>
  PROVE  Rest'
  <1> DEFINE m == IF "r" \in poller.modes THEN "r" ELSE "w"
             rest == poller.modes \ {m}
  <1>1. Timing /\ Gates /\ Work
    BY FDInvParts DEF Rest
  <1>2. /\ npc \in [G -> NPC] /\ gate \in [Modes -> G \cup {None, "ready", "wait"}]
        /\ lock \in G \cup {"timer", None} /\ PollCallsFit /\ GatesFit
        /\ poller \in [stage : {"wait", "event", "ready"}, modes : SUBSET Modes, err : BOOLEAN]
    BY <1>1 DEF Gates, GatesOK, Work, WorkOK
  <1>3. /\ gate' = [gate EXCEPT ![m] = "ready"] /\ npc' = Unblocked(npc, m)
        /\ poller.stage = "ready"
        /\ poller' = (IF rest = {} THEN [stage |-> "wait", modes |-> {}, err |-> FALSE]
                      ELSE [poller EXCEPT !.modes = rest])
        /\ UNCHANGED <<lock, pending, timing, netpollWaiters, event, arrivals, data, everr>>
    BY DEF netpollready, GateUnblocked, KeepLocked, timing
  <1>4. m \in Modes
    BY DEF Modes
  <1>5. /\ poller' \in [stage : {"wait", "event", "ready"}, modes : SUBSET Modes, err : BOOLEAN]
        /\ poller'.modes = rest /\ (poller'.stage = "wait" => rest = {}) /\ poller'.stage # "event"
    <2>1. CASE rest = {}
      BY <1>3, <2>1
    <2>2. CASE rest # {}
      <3>1. rest \in SUBSET Modes
        BY <1>2
      <3> HIDE DEF rest
      <3> QED
        BY <1>2, <1>3, <2>2, <3>1
    <2> QED
      BY <2>1, <2>2
  <1>6. Opened(m, "ready")
    <2>1. /\ npc' \in [G -> NPC]
          /\ \A h \in G : npc'[h] = IF h = gate[m] THEN "swap" ELSE npc[h]
      <3> HIDE DEF m
      <3> QED
        BY <1>2, <1>3 DEF Unblocked, Wakes, NPC, IOPC
    <2>2. \A h \in G : ~(npc[h] = "unblock" /\ lock' = None)
      BY <1>2, <1>3, NoneAssumption DEF PollCallsFit
    <2> QED
      BY <1>3, <2>1, <2>2 DEF Opened
  <1>7. Work'
    BY <1>1, <1>3, <1>5 DEF Work, WorkOK, WorkFits
  <1>8. "ready" # None
    BY GateAssumption
  <1>9. pending \ {m} \in SUBSET pending' /\ poller.modes \ {m} \in SUBSET poller'.modes
    BY <1>3, <1>5
  <1> HIDE DEF m, rest
  <1> QED
    BY <1>3, <1>4, <1>6, <1>7, <1>8, <1>9, OpenedKeeps

(* A step that leaves the goroutines and the gates as they are.            *)
LEMMA NobodyMoves ==
  ASSUME FDInv, UNCHANGED <<fdmuVars, sysfd, gate, npc, closing>>,
         lock' = lock \/ (lock = None /\ lock' = "timer"),
         Timing', Work', NothingMissed'
  PROVE  Rest'
  <1>1. Gates /\ ClosingFits
    BY FDInvParts DEF Rest
  <1>2. UNCHANGED <<fdmu, fpc, role, next, gate, npc, closing>>
    BY DEF fdmuVars
  <1>3. Gates'
    <2>1. lock' \in G \cup {"timer", None} /\ \A h \in G : lock' = h <=> lock = h
      BY <1>1, NoneAssumption, GateAssumption DEF Gates, GatesOK
    <2>2. GatesOK'
      BY <1>1, <1>2, <2>1 DEF Gates, GatesOK
    <2>3. PollCallsFit'
      BY <1>1, <1>2, <2>1 DEF Gates, PollCallsFit
    <2>4. GatesFit'
      BY <1>1, <1>2 DEF Gates, GatesFit
    <2> QED
      BY <2>2, <2>3, <2>4 DEF Gates
  <1>4. ClosingFits'
    BY <1>1, <1>2 DEF ClosingFits, Closes
  <1> QED
    BY <1>3, <1>4 DEF Rest

(* netpolldeadlineimpl: whoever waits for what has expired is unblocked.   *)
LEMMA NetpolldeadlineimplGoes ==
  ASSUME FDInv, NEW c \in fired, netpolldeadlineimpl(c), UNCHANGED <<fdmuVars, sysfd>>
  PROVE  Rest'
  <1> DEFINE E == Expires(c)
  <1>1. Timing /\ Gates /\ Work /\ NothingMissed
    BY FDInvParts DEF Rest
  <1>2. Timing'
    BY <1>1, TimingExpires
  <1>3. /\ lock = None /\ pending = {}
        /\ UNCHANGED <<closing, gate, netpollWaiters, npc, poller, event, arrivals, data, everr>>
    BY <1>1 DEF netpolldeadlineimpl, KeepKernel, Work, WorkFits
  <1>4. E \in SUBSET Modes /\ E # {}
    BY <1>1 DEF Timing, TimingOK, Expires, Modes
  <1> HIDE DEF E
  <1>5. \/ UNCHANGED <<lock, pending, deadline>>
        \/ /\ lock' = "timer" /\ pending' = E
           /\ deadline' = [m \in Modes |-> IF m \in E THEN -1 ELSE deadline[m]]
    BY <1>4 DEF netpolldeadlineimpl, Begin, E
  <1>6. Work'
    <2>1. pending' \in SUBSET Modes /\ (lock' = None <=> pending' = {})
      BY <1>3, <1>4, <1>5, GateAssumption
    <2> QED
      BY <1>1, <1>3, <2>1 DEF Work, WorkOK, WorkFits
  <1>7. NothingMissed'
    <2> SUFFICES ASSUME NEW h \in G, NEW m \in Mode, role[h] = m
                 PROVE  /\ npc[h] \in IOPC \ {"reset", "io"} /\ gate[m] # "ready" /\ data[m] =>
                             m \in event.modes \cup poller.modes
                        /\ npc[h] = "parked" \/ (npc[h] = "commit" /\ gate[m] = "wait") =>
                             /\ closing \/ deadline'[m] < 0 => m \in pending'
                             /\ m = "r" /\ everr => m \in poller.modes
      BY <1>3 DEF NothingMissed, Committed, fdmuVars
    <2>1. /\ npc[h] \in IOPC \ {"reset", "io"} /\ gate[m] # "ready" /\ data[m] =>
               m \in event.modes \cup poller.modes
          /\ npc[h] = "parked" \/ (npc[h] = "commit" /\ gate[m] = "wait") =>
               /\ closing \/ deadline[m] < 0 => m \in pending
               /\ m = "r" /\ everr => m \in poller.modes
      BY <1>1 DEF NothingMissed, Committed
    <2>2. m \in Modes
      BY DEF Mode, Modes
    <2>3. closing \/ deadline'[m] < 0 => closing \/ deadline[m] < 0 \/ m \in pending'
      BY <1>5, <2>2
    <2> QED
      BY <1>3, <2>1, <2>3
  <1>8. lock' = lock \/ (lock = None /\ lock' = "timer")
    BY <1>3, <1>5
  <1> QED
    BY <1>2, <1>3, <1>6, <1>7, <1>8, NobodyMoves

(* epollwait and SetEverr: the event is with netpoll now.                  *)
LEMMA NetpollGoes ==
  ASSUME FDInv, epollwait \/ SetEverr, UNCHANGED <<fdmuVars, sysfd>>
  PROVE  Rest'
  <1>1. Timing /\ Gates /\ Work /\ NothingMissed
    BY FDInvParts DEF Rest
  <1>2. UNCHANGED <<lock, pending, closing, seq, deadline, pdtimer, fired, gate, netpollWaiters, npc,
                    arrivals, data>>
    BY DEF epollwait, SetEverr, KeepLocked
  <1>3. Timing'
    BY <1>1, <1>2, TimingUnchanged DEF timing
  <1>4. /\ poller \in [stage : {"wait", "event", "ready"}, modes : SUBSET Modes, err : BOOLEAN]
        /\ event \in [modes : SUBSET Modes, err : BOOLEAN] /\ everr \in BOOLEAN /\ Modes = Mode
    BY <1>1 DEF Work, WorkOK, Modes, Mode
  <1>5. /\ poller' \in [stage : {"wait", "event", "ready"}, modes : SUBSET Modes, err : BOOLEAN]
        /\ event' \in [modes : SUBSET Modes, err : BOOLEAN] /\ everr' \in BOOLEAN
        /\ event.modes \cup poller.modes = event'.modes \cup poller'.modes
        /\ poller'.stage # "wait"
        /\ poller'.stage = "event" /\ poller'.err => poller'.modes = Modes
        /\ event'.err => event'.modes = Modes
        /\ everr' => "r" \in poller'.modes \/ (everr /\ poller.modes = {})
    <2>1. CASE epollwait
      BY <1>1, <1>4, <2>1 DEF epollwait, NoEvent, Work, WorkFits, Modes
    <2>2. CASE SetEverr
      <3>1. /\ poller' = [poller EXCEPT !.stage = "ready"] /\ event' = event /\ everr' = poller.err
            /\ poller.stage = "event"
        BY <2>2 DEF SetEverr
      <3>2. /\ poller' \in [stage : {"wait", "event", "ready"}, modes : SUBSET Modes, err : BOOLEAN]
            /\ poller'.stage = "ready" /\ poller'.modes = poller.modes
        BY <1>4, <3>1
      <3> QED
        BY <1>1, <1>4, <3>1, <3>2 DEF Work, WorkFits, Modes
    <2> QED
      BY <2>1, <2>2
  <1>6. Work'
    BY <1>1, <1>2, <1>4, <1>5 DEF Work, WorkOK, WorkFits
  <1>7. NothingMissed'
    <2> SUFFICES ASSUME NEW h \in G, NEW m \in Mode, role[h] = m
                 PROVE  /\ npc[h] \in IOPC \ {"reset", "io"} /\ gate[m] # "ready" /\ data[m] =>
                             m \in event'.modes \cup poller'.modes
                        /\ npc[h] = "parked" \/ (npc[h] = "commit" /\ gate[m] = "wait") =>
                             /\ closing \/ deadline[m] < 0 => m \in pending
                             /\ m = "r" /\ everr' => m \in poller'.modes
      BY <1>2 DEF NothingMissed, Committed, fdmuVars
    <2>1. /\ npc[h] \in IOPC \ {"reset", "io"} /\ gate[m] # "ready" /\ data[m] =>
               m \in event.modes \cup poller.modes
          /\ npc[h] = "parked" \/ (npc[h] = "commit" /\ gate[m] = "wait") =>
               /\ closing \/ deadline[m] < 0 => m \in pending
               /\ m = "r" /\ everr => m \in poller.modes
      BY <1>1 DEF NothingMissed, Committed
    <2> QED
      BY <1>5, <2>1
  <1> QED
    BY <1>2, <1>3, <1>6, <1>7, NobodyMoves

(* The descriptor gets ready: that is an event.                            *)
LEMMA ArriveGoes ==
  ASSUME FDInv, NEW M \in SUBSET Modes, NEW err \in BOOLEAN, err => M = Modes, Arrive(M, err),
         UNCHANGED <<fdmuVars, sysfd>>
  PROVE  Rest'
  <1>1. Timing /\ Gates /\ Work /\ NothingMissed
    BY FDInvParts DEF Rest
  <1>2. /\ UNCHANGED <<lock, pending, closing, seq, deadline, pdtimer, fired, gate, netpollWaiters, npc,
                       poller, everr>>
        /\ arrivals' = arrivals + 1
        /\ data' = [m \in Modes |-> data[m] \/ m \in M]
        /\ event' = [modes |-> event.modes \cup M, err |-> err /\ (event = NoEvent \/ event.err)]
    BY DEF Arrive, KeepLocked
  <1>3. Timing'
    BY <1>1, <1>2, TimingUnchanged DEF timing
  <1>4. /\ event \in [modes : SUBSET Modes, err : BOOLEAN] /\ data \in [Modes -> BOOLEAN]
        /\ arrivals \in Nat /\ Modes = Mode
    BY <1>1 DEF Work, WorkOK, Modes, Mode
  <1>5. /\ event' \in [modes : SUBSET Modes, err : BOOLEAN] /\ event'.modes = event.modes \cup M
        /\ event'.err => event'.modes = Modes
    BY <1>2, <1>4
  <1>6. data' \in [Modes -> BOOLEAN] /\ arrivals' \in Nat
    BY <1>2, <1>4
  <1>7. Work'
    BY <1>1, <1>2, <1>4, <1>5, <1>6 DEF Work, WorkOK, WorkFits
  <1>8. NothingMissed'
    <2> SUFFICES ASSUME NEW h \in G, NEW m \in Mode, role[h] = m
                 PROVE  /\ npc[h] \in IOPC \ {"reset", "io"} /\ gate[m] # "ready" /\ data'[m] =>
                             m \in event'.modes \cup poller.modes
                        /\ npc[h] = "parked" \/ (npc[h] = "commit" /\ gate[m] = "wait") =>
                             /\ closing \/ deadline[m] < 0 => m \in pending
                             /\ m = "r" /\ everr => m \in poller.modes
      BY <1>2 DEF NothingMissed, Committed, fdmuVars
    <2>1. /\ npc[h] \in IOPC \ {"reset", "io"} /\ gate[m] # "ready" /\ data[m] =>
               m \in event.modes \cup poller.modes
          /\ npc[h] = "parked" \/ (npc[h] = "commit" /\ gate[m] = "wait") =>
               /\ closing \/ deadline[m] < 0 => m \in pending
               /\ m = "r" /\ everr => m \in poller.modes
      BY <1>1 DEF NothingMissed, Committed
    <2>2. data'[m] = (data[m] \/ m \in M)
      BY <1>2, <1>4
    <2> QED
      BY <1>5, <2>1, <2>2
  <1> QED
    BY <1>2, <1>3, <1>7, <1>8, NobodyMoves

(* A timer goes off: nobody notices before its function has the lock.      *)
LEMMA FireGoes ==
  ASSUME FDInv, NEW m \in Modes, Fire(m), UNCHANGED <<fdmuVars, sysfd>>
  PROVE  Rest'
  <1>1. Timing /\ Gates /\ Work /\ NothingMissed
    BY FDInvParts DEF Rest
  <1>2. UNCHANGED <<lock, pending, closing, deadline, gate, netpollWaiters, npc, role,
                    poller, event, arrivals, data, everr>>
    BY DEF Fire, KeepKernel, fdmuVars
  <1>3. Timing'
    BY <1>1, TimingFire
  <1>4. Work'
    BY <1>1, <1>2 DEF Work, WorkOK, WorkFits
  <1>5. NothingMissed'
    BY <1>1, <1>2 DEF NothingMissed, Committed
  <1> QED
    BY <1>2, <1>3, <1>4, <1>5, NobodyMoves

(* What the runtime does by itself.                                        *)
LEMMA RuntimeStepKeeps ==
  ASSUME FDInv, RuntimeStep(Mode)
  PROVE  Rest'
  <1>1. UNCHANGED <<fdmuVars, sysfd>> /\ Mode = Modes
    BY DEF RuntimeStep, KeepFd, Mode, Modes
  <1>2. CASE PollerStep
    BY <1>1, <1>2, NetpollunblockGoes, NetpollreadyGoes, NetpolldeadlineimplGoes, NetpollGoes DEF PollerStep
  <1>3. CASE \E m \in Mode : Fire(m)
    BY <1>1, <1>3, FireGoes
  <1>4. CASE \E m \in Mode : Arrive({m}, FALSE)
    BY <1>1, <1>4, ArriveGoes
  <1>5. CASE Arrive(Mode, TRUE)
    BY <1>1, <1>5, ArriveGoes
  <1> QED
    BY <1>2, <1>3, <1>4, <1>5 DEF RuntimeStep

-----------------------------------------------------------------------------
(* A descriptor that is not used yet has nothing to do.                    *)
LEMMA FDInitially == FDInit => FDInv
  <1> SUFFICES ASSUME FDInit PROVE FDInv
    OBVIOUS
  <1>1. /\ lock = None /\ pending = {} /\ closing = FALSE /\ everr = FALSE
        /\ seq = [m \in Modes |-> 1] /\ gate = [m \in Modes |-> None]
        /\ deadline = [m \in Modes |-> 0] /\ pdtimer = [m \in Modes |-> NoTimer]
        /\ fired = {} /\ netpollWaiters = 0
        /\ poller = [stage |-> "wait", modes |-> {}, err |-> FALSE]
        /\ event = NoEvent /\ arrivals = 0 /\ data = [m \in Modes |-> FALSE]
        /\ npc = [g \in G |-> "idle"]
    BY DEF FDInit, PollInit
  <1>2. /\ fdmu = [closed |-> FALSE, locked |-> {}, refs |-> 0, wait |-> Nobody]
        /\ role = [g \in G |-> None] /\ fpc = [g \in G |-> "idle"] /\ next = [g \in G |-> "idle"]
    BY DEF FDInit, FdMutexInit
  <1>3. Timing
    <2>1. TimingOK
      <3>1. NoTimer \in [f : BOOLEAN, armed : BOOLEAN, seq : Nat, combo : BOOLEAN]
        BY DEF NoTimer
      <3>2. /\ pdtimer \in [Modes -> [f : BOOLEAN, armed : BOOLEAN, seq : Nat, combo : BOOLEAN]]
            /\ seq \in [Modes -> Nat] /\ deadline \in [Modes -> Int]
        BY <1>1, <3>1
      <3> QED
        BY <1>1, <3>2 DEF TimingOK
    <2>2. TimersFit /\ FiredFit
      BY <1>1 DEF TimersFit, FiredFit, NoTimer, Wants, Mode, Modes
    <2> QED
      BY <2>1, <2>2 DEF Timing
  <1>4. Gates
    <2>1. GatesOK
      BY <1>1 DEF GatesOK, NPC
    <2>2. PollCallsFit
      BY <1>1, NoneAssumption DEF PollCallsFit, IOPC
    <2>3. \A m \in Mode : gate[m] = None
      BY <1>1 DEF Mode, Modes
    <2>4. GatesFit
      BY <1>1, <2>3, NoneAssumption, GateAssumption DEF GatesFit
    <2> QED
      BY <2>1, <2>2, <2>4 DEF Gates
  <1>5. Work
    <2>1. WorkOK
      <3>1. /\ poller \in [stage : {"wait", "event", "ready"}, modes : SUBSET Modes, err : BOOLEAN]
            /\ event \in [modes : SUBSET Modes, err : BOOLEAN]
        BY <1>1 DEF NoEvent
      <3>2. data \in [Modes -> BOOLEAN]
        BY <1>1
      <3>3. pending \in SUBSET Modes /\ netpollWaiters \in Int /\ arrivals \in Nat
        BY <1>1
      <3>4. everr \in BOOLEAN
        BY <1>1, Zenon
      <3> QED
        BY <3>1, <3>2, <3>3, <3>4 DEF WorkOK
    <2>2. WorkFits
      BY <1>1 DEF WorkFits, NoEvent
    <2> QED
      BY <2>1, <2>2 DEF Work
  <1>6. ClosingFits /\ NothingMissed
    BY <1>1, <1>2 DEF ClosingFits, Closes, NothingMissed, Committed, IOPC
  <1> QED
    BY <1>3, <1>4, <1>5, <1>6, FdMutexInitially, FDInvParts DEF Rest

(* The invariant of the descriptor: fdMutex counts its calls, and every    *)
(* call, timer and event that the poller works on fits the others.         *)
THEOREM FDInvariance == FDSpec => []FDInv
  <1>1. FDInv /\ [FDNext]_fdVars => FDInv'
    <2> SUFFICES ASSUME FDInv, [FDNext]_fdVars
                 PROVE  FDInv'
      OBVIOUS
    <2>1. FdMutexInv' /\ sysfd' \in BOOLEAN
      BY FDInvParts, FdMutexStep
    <2>2. ASSUME NEW g \in G, CallStep(g, Mode, MaxSeq)
          PROVE  Rest'
      <3>1. CASE Enter(g, Mode) \/ ReadWrite(g) \/ SetDeadlineClosing(g)
        BY <3>1, EnterKeeps, ReadWriteKeeps, SetDeadlineClosingKeeps
      <3>2. CASE Evict(g) \/ Leave(g) \/ destroy(g) \/ Closed(g)
        BY <3>2, EvictKeeps, LeaveKeeps, DestroyGoes, ClosedGoes
      <3>3. CASE \E d \in Deadline \cup {0, -1}, M \in SUBSET Mode \ {{}} : SetDeadline(g, d, M)
        <4>1. Deadline \cup {0, -1} \in SUBSET Int /\ Mode = Modes
          BY DeadlineAssumption DEF Mode, Modes
        <4> QED
          BY <3>3, <4>1, SetDeadlineKeeps
      <3> QED
        BY <2>2, <3>1, <3>2, <3>3 DEF CallStep
    <2>3. CASE UNCHANGED fdVars
      <3>1. UNCHANGED <<fdmuVars, sysfd, gate, npc, closing, lock>>
        BY <2>3 DEF fdVars, pdVars
      <3>2. Timing /\ Work /\ NothingMissed
        BY FDInvParts DEF Rest
      <3>3. Timing' /\ Work' /\ NothingMissed'
        BY <2>3, <3>2, TimingUnchanged
        DEF fdVars, pdVars, fdmuVars, timing, Work, WorkOK, WorkFits, NothingMissed, Committed
      <3>4. Rest'
        BY <3>1, <3>3, NobodyMoves
      <3> QED
        BY <2>1, <3>4, FDInvParts
    <2>4. Rest' => FDInv'
      BY <2>1, FDInvParts
    <2> QED
      BY <2>2, <2>3, <2>4, OpenGoes, RuntimeStepKeeps DEF FDNext, FDNextWith
  <1> QED
    BY <1>1, FDInitially, PTL DEF FDSpec

(* The poller does not throw, whatever the calls and the timers do.        *)
THEOREM PollerNeverThrows == FDSpec => []NoThrow
  <1>1. FDInv => NoThrow
    <2> SUFFICES ASSUME FDInv PROVE NoThrow
      OBVIOUS
    <2>1. /\ FdMutexInv /\ PollCallsFit /\ GatesFit /\ ClosingFits /\ TimersFit /\ FiredFit
          /\ PollTypeOK /\ sysfd \in BOOLEAN
      BY DEF FDInv
    <2>2. ASSUME NEW g \in G
          PROVE  /\ npc[g] = "block" => gate[role[g]] \in {None, "ready"}
                 /\ npc[g] = "swap" => gate[role[g]] \notin G
      <3> SUFFICES ASSUME npc[g] \in {"block", "swap"}
                   PROVE  /\ npc[g] = "block" => gate[role[g]] \in {None, "ready"}
                          /\ npc[g] = "swap" => gate[role[g]] \notin G
        OBVIOUS
      <3>1. fpc[g] = "use" /\ role[g] \in Mode
        BY <2>1 DEF PollCallsFit, IOPC
      <3> QED
        BY <3>1, GateOf
    <2>3. ASSUME NEW g \in G
          PROVE  /\ fpc[g] = "evict" /\ npc[g] = "idle" => ~closing
                 /\ fpc[g] = "destroy" => closing /\ Unused
      <3>1. fpc[g] = "evict" /\ npc[g] = "idle" => ~closing
        BY <2>1 DEF ClosingFits, Closes
      <3>2. fpc[g] = "destroy" => closing /\ Unused
        BY <2>1, AtStep, NobodyThere DEF Destroys
      <3> QED
        BY <3>1, <3>2
    <2>4. ~sysfd => Unused
      BY <2>1, DestroyedIsUnused, NobodyThere
    <2>5. ASSUME NEW c \in fired, ~Stale(c)
          PROVE  pdtimer[c.mode].f /\ \A m \in Expires(c) : deadline[m] > 0
      <3>1. c.mode \in Mode /\ Mode = Modes /\ deadline \in [Modes -> Int]
        BY <2>1 DEF PollTypeOK, Mode, Modes
      <3>2. pdtimer[c.mode].f /\ pdtimer[c.mode].combo = c.combo
        BY <2>1, <2>5 DEF FiredFit
      <3>3. Wants(deadline, c.mode) /\ (c.combo => Combo(deadline))
        BY <2>1, <3>1, <3>2 DEF TimersFit
      <3> QED
        BY <3>1, <3>2, <3>3 DEF Expires, Wants, Combo, Modes
    <2> QED
      BY <2>2, <2>3, <2>4, <2>5 DEF NoThrow
  <1> QED
    BY <1>1, FDInvariance, PTL

(* Nobody is left parked on a connection that is closing, whose deadline   *)
(* has passed or that is ready: somebody is on the way.                    *)
THEOREM NobodyLeftParked == FDSpec => []WokenInTime
  <1>1. FDInv => WokenInTime
    <2> SUFFICES ASSUME FDInv PROVE WokenInTime
      OBVIOUS
    <2>1. /\ GatesFit /\ TimersFit /\ NothingMissed /\ PollTypeOK
      BY DEF FDInv
    <2>2. ASSUME NEW m \in Mode, gate[m] \in G
          PROVE  /\ closing \/ deadline[m] < 0 => m \in pending
                 /\ data[m] \/ (m = "r" /\ everr) => m \in event.modes \cup poller.modes
      <3>1. npc[gate[m]] = "parked" /\ role[gate[m]] = m /\ gate[m] # "ready"
        BY <2>1, <2>2, GateAssumption DEF GatesFit
      <3> QED
        BY <2>1, <2>2, <3>1 DEF NothingMissed, Committed, IOPC
    <2>3. ASSUME NEW m \in Mode, deadline[m] > 0, ~closing
          PROVE  \E n \in Mode :
                   /\ m = n \/ pdtimer[n].combo
                   /\ pdtimer[n].f /\ pdtimer[n].seq = seq[n]
                   /\ pdtimer[n].armed \/ [mode |-> n, combo |-> pdtimer[n].combo, seq |-> seq[n]] \in fired
      <3>1. CASE Wants(deadline, m)
        BY <2>1, <2>3, <3>1 DEF TimersFit
      <3>2. CASE ~Wants(deadline, m)
        <4>1. Combo(deadline) /\ "r" \in Mode
          BY <2>3, <3>2 DEF Wants, Mode
        <4>2. Wants(deadline, "r")
          BY <4>1 DEF Wants, Combo
        <4>3. pdtimer["r"].f /\ pdtimer["r"].combo
          BY <2>1, <2>3, <4>1, <4>2 DEF TimersFit
        <4> QED
          BY <2>1, <4>1, <4>3 DEF TimersFit
      <3> QED
        BY <3>1, <3>2
    <2> QED
      BY <2>2, <2>3 DEF WokenInTime
  <1> QED
    BY <1>1, FDInvariance, PTL

-----------------------------------------------------------------------------
(* The timers.                                                             *)

(* The first timer of a heap has the least when of all, and its when is    *)
(* the same under whens that agree on the heap.                            *)
LEMMA FirstIsLeast ==
  ASSUME NEW h \in SUBSET Timer, NEW w \in [Timer -> Nat]
  PROVE  /\ FirstWhen(h, w) \in Nat
         /\ \A t \in h : FirstWhen(h, w) <= w[t]
         /\ \A v : (\A t \in h : v[t] = w[t]) => FirstWhen(h, v) = FirstWhen(h, w)
  <1>1. CASE h = {}
    BY <1>1 DEF FirstWhen
  <1>2. CASE h # {}
    <2> DEFINE times == {w[t] : t \in h}
    <2>1. times # {} /\ times \subseteq Nat
      BY <1>2
    <2>2. PICK n \in times : \A m \in times : ~(<<m, n>> \in OpToRel(<, Nat))
      <3>1. IsWellFoundedOn(OpToRel(<, Nat), Nat)
        BY NatLessThanWellFounded
      <3> HIDE DEF times
      <3> QED
        BY <2>1, <3>1, WFMin
    <2>3. PICK s \in h : w[s] = n
      OBVIOUS
    <2>4. \A t \in h : w[s] <= w[t]
      <3>1. n \in Nat /\ \A t \in h : w[t] \in Nat /\ w[t] \in times
        BY <2>1
      <3> HIDE DEF times
      <3>2. \A t \in h : ~(w[t] < n)
        BY <2>2, <3>1 DEF OpToRel
      <3> QED
        BY <2>3, <3>1, <3>2
    <2>5. s \in Least(h, w)
      BY <2>4 DEF Least
    <2> DEFINE f == CHOOSE t \in Least(h, w) : TRUE
    <2>6. f \in Least(h, w)
      BY <2>5
    <2>7. f \in h /\ \A t \in h : w[f] <= w[t]
      BY <2>6 DEF Least
    <2>8. FirstWhen(h, w) = w[f]
      BY <1>2 DEF FirstWhen
    <2>9. ASSUME NEW v, \A t \in h : v[t] = w[t]
          PROVE  FirstWhen(h, v) = FirstWhen(h, w)
      <3>1. Least(h, v) = Least(h, w)
        BY <2>9 DEF Least
      <3>2. FirstWhen(h, v) = v[f]
        BY <1>2, <3>1 DEF FirstWhen
      <3> QED
        BY <2>7, <2>8, <2>9, <3>2
    <2> HIDE DEF f
    <2> QED
      BY <2>7, <2>8, <2>9
  <1> QED
    BY <1>1, <1>2

-----------------------------------------------------------------------------
(* u has t for itself.                                                     *)
Owns(u) == upc[u] \in Adding \cup Modifying

(* A step concerns at most the goroutine u, the timer t and the P q: t is  *)
(* the timer of u, and nobody else has it or moves it.                     *)
Touches(u, t, q) ==
  /\ now <= now'
  /\ \A v \in G \ {u} : upc'[v] = upc[v] /\ uarg'[v] = uarg[v] /\ answer'[v] = answer[v]
  /\ u \in G => uarg'[u].t \in {None, t} /\ (Owns(u) => uarg[u].t = t)
  /\ \A v \in G \ {u} : Owns(v) => uarg[v].t # t
  /\ \A s \in Timer \ {t} : status'[s] = status[s] /\ when'[s] = when[s] /\ pp'[s] = pp[s]
  /\ \A p \in P \ {q} :
       /\ heap'[p] = heap[p] /\ rpc'[p] = rpc[p] /\ rarg'[p] = rarg[p]
       /\ timer0When'[p] = timer0When[p]
       /\ t \in heap[p] => when'[t] = when[t]
       /\ t \notin rarg[p].moved
  /\ q \in P => heap'[q] \ {t} = heap[q] \ {t} /\ rarg'[q].moved \subseteq rarg[q].moved \cup {t}

(* adjustTimers counts what becomes of u and t.                            *)
AdjustMoves(u, t, p) ==
  adjustTimers'[p] = adjustTimers[p] + In(t, Earlier(p))' - In(t, Earlier(p))
                       + In(u, Telling(p))' - In(u, Telling(p)) + PutRight(p)' - PutRight(p)

(* Then nothing need be shown of the others.                               *)
LEMMA TouchedOnly ==
  ASSUME TimersInv, TimersTypeOK', NEW u, NEW t, NEW q, Touches(u, t, q),
         u \in G => UserFits(u)', t \in Timer => StatusFits(t)',
         q \in P => RoundFits(q)' /\ (rpc'[q] # "clear" => timer0When'[q] = FirstWhen(heap'[q], when')),
         \A p \in P : LockFits(p)' /\ AdjustMoves(u, t, p)
  PROVE  TimersInv'
  <1> USE GAssumption, NoneAssumption, TimersAssumption
  <1>1. ASSUME NEW v \in G
        PROVE  UserFits(v)'
    <2>1. CASE v = u
      BY <2>1
    <2>2. CASE v # u
      <3>1. /\ upc'[v] = upc[v] /\ uarg'[v] = uarg[v] /\ answer'[v] = answer[v]
            /\ Owns(v) => uarg[v].t # t
        BY <2>2 DEF Touches
      <3>2. UserFits(v)
        BY DEF TimersInv
      <3>3. CASE ~Owns(v)
        BY <3>1, <3>2, <3>3 DEF UserFits, Owns
      <3>4. CASE Owns(v)
        <4> DEFINE s == uarg[v].t
        <4>1. s \in Timer /\ s # t
          BY <3>1, <3>2, <3>4 DEF UserFits, Owns, Adding, Modifying
        <4>2. status'[s] = status[s] /\ pp'[s] = pp[s]
          BY <4>1 DEF Touches
        <4>3. ASSUME NEW x \in G \ {v}, uarg'[x].t = s
              PROVE  uarg[x].t = s /\ upc'[x] = upc[x]
          <5>1. x # u
            BY <4>1, <4>3 DEF Touches
          <5> QED
            BY <4>3, <5>1 DEF Touches
        <4> HIDE DEF s
        <4> QED
          BY <3>1, <3>2, <3>4, <4>1, <4>2, <4>3 DEF UserFits, Owns, s, InHeap, Modified
      <3> QED
        BY <3>3, <3>4
    <2> QED
      BY <2>1, <2>2
  <1>2. ASSUME NEW s \in Timer
        PROVE  StatusFits(s)'
    <2>1. CASE s = t
      BY <2>1
    <2>2. CASE s # t
      <3>1. status'[s] = status[s] /\ pp'[s] = pp[s]
        BY <2>2 DEF Touches
      <3>2. StatusFits(s)
        BY DEF TimersInv
      <3>3. \A p \in P : s \in heap'[p] <=> s \in heap[p]
        BY <2>2 DEF Touches
      <3>4. ASSUME NEW v \in G, Owns(v), uarg[v].t = s
            PROVE  uarg'[v].t = s /\ upc'[v] = upc[v]
        <4>1. v # u
          BY <2>2, <3>4 DEF Touches
        <4> QED
          BY <3>4, <4>1 DEF Touches
      <3>5. status[s] = "Waiting" /\ pp[s] = None => \E v \in G : upc'[v] \in Adding /\ uarg'[v].t = s
        BY <3>2, <3>4 DEF StatusFits, Owns
      <3>6. status[s] = "Modifying" => \E v \in G : upc'[v] \in Modifying /\ uarg'[v].t = s
        BY <3>2, <3>4 DEF StatusFits, Owns, Modifier
      <3>7. (status[s] = "Modifying") => Modifier(s)' # {}
        BY <3>6 DEF Modifier
      <3> QED
        BY <3>1, <3>2, <3>3, <3>5, <3>7 DEF StatusFits
    <2> QED
      BY <2>1, <2>2
  <1>3. ASSUME NEW p \in P
        PROVE  RoundFits(p)'
    <2>1. CASE p = q
      BY <2>1
    <2>2. CASE p # q
      <3>1. /\ heap'[p] = heap[p] /\ rpc'[p] = rpc[p] /\ rarg'[p] = rarg[p]
            /\ t \notin rarg[p].moved /\ now <= now'
        BY <2>2 DEF Touches
      <3>2. RoundFits(p) /\ now \in Nat /\ now' \in Nat /\ rarg[p].now \in Nat /\ rarg[p].moved \subseteq Timer
        BY DEF TimersInv, TimersTypeOK
      <3>3. ASSUME NEW s \in rarg[p].moved
            PROVE  status'[s] = "Moving" /\ \A r \in P \ {p} : s \notin rarg'[r].moved
        <4>1. s # t /\ s \in Timer
          BY <3>1, <3>2
        <4>2. status'[s] = status[s]
          BY <4>1 DEF Touches
        <4>3. ASSUME NEW r \in P \ {p}
              PROVE  s \notin rarg'[r].moved
          <5>1. s \notin rarg[r].moved
            BY <3>2 DEF RoundFits
          <5>2. rarg'[r].moved \subseteq rarg[r].moved \cup {t}
            BY DEF Touches
          <5> QED
            BY <4>1, <5>1, <5>2
        <4> QED
          BY <3>2, <4>2, <4>3 DEF RoundFits
      <3> QED
        BY <3>1, <3>2, <3>3 DEF RoundFits
    <2> QED
      BY <2>1, <2>2
  <1>4. ASSUME NEW p \in P
        PROVE  CountsFit(p)'
    <2>1. rpc'[p] # "clear" => timer0When'[p] = FirstWhen(heap'[p], when')
      <3>1. CASE p = q
        BY <3>1
      <3>2. CASE p # q
        <4>1. /\ heap'[p] = heap[p] /\ rpc'[p] = rpc[p] /\ timer0When'[p] = timer0When[p]
              /\ \A s \in heap[p] : when'[s] = when[s]
              /\ heap[p] \in SUBSET Timer /\ when \in [Timer -> Nat]
          BY <3>2 DEF Touches, TimersInv, TimersTypeOK
        <4>2. FirstWhen(heap[p], when') = FirstWhen(heap[p], when)
          BY <4>1, FirstIsLeast
        <4> QED
          BY <4>1, <4>2 DEF TimersInv, CountsFit
      <3> QED
        BY <3>1, <3>2
    <2>2. /\ Earlier(p) \in SUBSET Timer /\ Earlier(p)' \in SUBSET Timer
          /\ Earlier(p) \ {t} = Earlier(p)' \ {t}
      <3>1. heap[p] \subseteq Timer /\ heap'[p] \subseteq Timer
        BY DEF TimersInv, TimersTypeOK
      <3>2. heap'[p] \ {t} = heap[p] \ {t}
        BY DEF Touches
      <3>3. \A s \in Timer \ {t} : status'[s] = status[s]
        BY DEF Touches
      <3> QED
        BY <3>1, <3>2, <3>3 DEF Earlier
    <2>3. /\ Telling(p) \in SUBSET G /\ Telling(p)' \in SUBSET G
          /\ Telling(p) \ {u} = Telling(p)' \ {u}
      <3>1. ASSUME NEW v \in G \ {u}
            PROVE  v \in Telling(p) <=> v \in Telling(p)'
        <4>1. upc'[v] = upc[v] /\ uarg'[v] = uarg[v] /\ (Owns(v) => uarg[v].t # t)
          BY DEF Touches
        <4>2. upc[v] \in Modifying => uarg[v].t \in Timer
          BY DEF TimersInv, UserFits, Modifying
        <4>3. upc[v] \in Modifying => pp'[uarg[v].t] = pp[uarg[v].t]
          BY <4>1, <4>2 DEF Touches, Owns
        <4> QED
          BY <4>1, <4>3 DEF Telling, Modifying
      <3> QED
        BY <3>1 DEF Telling
    <2>4. Cardinality(Earlier(p))' = Cardinality(Earlier(p)) + In(t, Earlier(p))' - In(t, Earlier(p))
      BY <2>2, CountStep
    <2>5. Cardinality(Telling(p))' = Cardinality(Telling(p)) + In(u, Telling(p))' - In(u, Telling(p))
      BY <2>3, CountStep
    <2>6. Cardinality(Earlier(p)) \in Nat /\ Cardinality(Telling(p)) \in Nat
      BY <2>2, <2>3, CountIsNat
    <2>7. In(t, Earlier(p)) \in Int /\ In(u, Telling(p)) \in Int
          /\ In(t, Earlier(p))' \in Int /\ In(u, Telling(p))' \in Int
      BY DEF In
    <2>8. PutRight(p) \in Nat /\ PutRight(p)' \in Nat
      BY DEF PutRight, TimersInv, TimersTypeOK
    <2>9. adjustTimers[p] = Cardinality(Earlier(p)) + Cardinality(Telling(p)) + PutRight(p)
      BY DEF TimersInv, CountsFit
    <2>10. adjustTimers'[p] = Cardinality(Earlier(p))' + Cardinality(Telling(p))' + PutRight(p)'
      BY <2>4, <2>5, <2>6, <2>7, <2>8, <2>9 DEF AdjustMoves
    <2> QED
      BY <2>1, <2>10 DEF CountsFit
  <1> QED
    BY <1>1, <1>2, <1>3, <1>4 DEF TimersInv

-----------------------------------------------------------------------------
(* Who holds a timer is alone with it, and nobody moves it.                *)
LEMMA HoldsAlone ==
  ASSUME TimersInv, NEW u \in G, Owns(u)
  PROVE  /\ uarg[u].t \in Timer /\ uarg[u].p \in P
         /\ \A v \in G \ {u} : Owns(v) => uarg[v].t # uarg[u].t
         /\ \A p \in P : uarg[u].t \notin rarg[p].moved
  <1>1. UserFits(u)
    BY DEF TimersInv
  <1>2. uarg[u].t \in Timer /\ uarg[u].p \in P /\ status[uarg[u].t] # "Moving"
    BY <1>1 DEF UserFits, Owns, Adding, Modifying
  <1>3. ASSUME NEW v \in G \ {u}, Owns(v), uarg[v].t = uarg[u].t
        PROVE  FALSE
    <2>1. UserFits(v)
      BY DEF TimersInv
    <2> QED
      BY <1>1, <1>3, <2>1 DEF UserFits, Owns
  <1> QED
    BY <1>2, <1>3 DEF TimersInv, RoundFits

(* Nobody holds a timer that is in a heap or in none, unless its status    *)
(* says so.                                                                *)
LEMMA NotHeld ==
  ASSUME TimersInv, NEW t \in Timer, status[t] # "Modifying", status[t] = "Waiting" => pp[t] # None
  PROVE  \A v \in G : Owns(v) => uarg[v].t # t
  <1>1. \A v \in G : UserFits(v)
    BY DEF TimersInv
  <1> QED
    BY <1>1 DEF UserFits, Owns

(* A timer at another status than timerMoving is in the list moved of no   *)
(* adjusttimers.                                                           *)
LEMMA NotMoved ==
  ASSUME TimersInv, NEW t \in Timer, status[t] # "Moving"
  PROVE  \A p \in P : t \notin rarg[p].moved
  BY DEF TimersInv, RoundFits

(* The locks are left alone.                                               *)
LEMMA LocksKept ==
  ASSUME TimersInv, timersLock' = timersLock,
         \A p \in P : rpc'[p] \in Checking <=> rpc[p] \in Checking,
         \A v \in G : /\ upc'[v] = "clean" <=> upc[v] = "clean"
                      /\ upc[v] = "clean" => uarg'[v].p = uarg[v].p
  PROVE  \A p \in P : LockFits(p)'
  BY DEF TimersInv, LockFits

(* No count changes.                                                       *)
LEMMA CountsKept ==
  ASSUME TimersTypeOK, NEW u, NEW t, NEW p \in P, adjustTimers'[p] = adjustTimers[p],
         t \in Earlier(p)' <=> t \in Earlier(p), u \in Telling(p)' <=> u \in Telling(p),
         PutRight(p)' = PutRight(p)
  PROVE  AdjustMoves(u, t, p)
  <1>1. In(t, Earlier(p))' = In(t, Earlier(p)) /\ In(u, Telling(p))' = In(u, Telling(p))
    BY DEF In
  <1>2. In(t, Earlier(p)) \in Int /\ In(u, Telling(p)) \in Int /\ PutRight(p) \in Int /\ adjustTimers[p] \in Int
    BY DEF In, PutRight, TimersTypeOK
  <1> QED
    BY <1>1, <1>2 DEF AdjustMoves

-----------------------------------------------------------------------------
(* The first half of addtimer, before the lock: the timer is known to its  *)
(* goroutine only.                                                         *)
LEMMA addtimerKeeps ==
  ASSUME TimersInv, NEW u \in G, NEW p \in P, NEW t \in Timer, NEW w \in Nat, NEW per \in Nat,
         addtimer(u, p, t, w, per)
  PROVE  TimersInv'
  <1> USE NoneAssumption, TimersAssumption
  <1>1. TimersTypeOK /\ UserFits(u) /\ StatusFits(t)
    BY DEF TimersInv
  <1>2. TimersTypeOK'
    BY <1>1 DEF TimersTypeOK, addtimer, UGoto, KeepRunners, NoArg, SetStatus, Status, Adding
  <1>3. /\ upc[u] = "idle" /\ upc' = [upc EXCEPT ![u] = "addLock"]
        /\ status' = [status EXCEPT ![t] = "Waiting"] /\ when' = [when EXCEPT ![t] = w]
        /\ uarg' = [uarg EXCEPT ![u] = uarg'[u]] /\ uarg'[u].t = t /\ uarg'[u].p = p
        /\ answer' = [answer EXCEPT ![u] = <<FALSE>>]
        /\ UNCHANGED <<rpc, rarg, now, nextwhen, pp, heap, timersLock, adjustTimers, deletedTimers, timer0When>>
    BY <1>1 DEF addtimer, UGoto, KeepRunners, NoArg, SetStatus, TimersTypeOK
  <1>4. /\ pp[t] = None /\ status[t] = "NoStatus" /\ \A r \in P : t \notin heap[r]
        /\ \A v \in G : uarg[v].t # t
    BY <1>1 DEF StatusFits, addtimer, Fresh, TimersTypeOK
  <1>5. \A r \in P : t \notin rarg[r].moved
    BY <1>4, NotMoved
  <1>6. Touches(u, t, None)
    BY <1>1, <1>3, <1>4, <1>5 DEF Touches, TimersTypeOK, Owns, Adding, Modifying
  <1>7. UserFits(u)'
    BY <1>1, <1>3, <1>4 DEF UserFits, TimersTypeOK, Adding, Modifying
  <1>8. StatusFits(t)'
    <2>1. upc'[u] \in Adding /\ uarg'[u].t = t
      BY <1>1, <1>3 DEF TimersTypeOK, Adding
    <2> QED
      BY <1>1, <1>3, <1>4, <2>1 DEF StatusFits, TimersTypeOK, Modified
  <1>9. \A r \in P : LockFits(r)'
    BY <1>1, <1>3, LocksKept DEF TimersTypeOK
  <1>10. ASSUME NEW r \in P
         PROVE  AdjustMoves(u, t, r)
    <2>1. adjustTimers' = adjustTimers /\ PutRight(r)' = PutRight(r)
      BY <1>3 DEF PutRight
    <2>2. u \notin Telling(r) /\ u \notin Telling(r)'
      BY <1>1, <1>3 DEF Telling, TimersTypeOK
    <2>3. t \notin Earlier(r) /\ t \notin Earlier(r)'
      BY <1>3, <1>4 DEF Earlier
    <2> QED
      BY <1>1, <2>1, <2>2, <2>3, CountsKept
  <1> QED
    BY <1>2, <1>6, <1>7, <1>8, <1>9, <1>10, TouchedOnly

(* addtimer takes the lock of its P.                                       *)
LEMMA LockToAddKeeps ==
  ASSUME TimersInv, NEW u \in G, LockToAdd(u)
  PROVE  TimersInv'
  <1> USE NoneAssumption, TimersAssumption
  <1>1. TimersTypeOK /\ UserFits(u) /\ Owns(u)
    BY DEF TimersInv, Owns, LockToAdd, UGoto, Adding
  <1>2. PICK t \in Timer, q \in P :
          /\ t = uarg[u].t /\ q = uarg[u].p
          /\ \A v \in G \ {u} : Owns(v) => uarg[v].t # t
          /\ \A p \in P : t \notin rarg[p].moved
    BY <1>1, HoldsAlone
  <1>3. /\ upc[u] = "addLock" /\ upc' = [upc EXCEPT ![u] = "clean"]
        /\ timersLock[q] = None /\ timersLock' = [timersLock EXCEPT ![q] = u]
        /\ UNCHANGED <<rpc, rarg, when, pp, heap, timer0When>>
        /\ UNCHANGED <<now, status, nextwhen, period, adjustTimers, deletedTimers, uarg, answer>>
    BY <1>2 DEF LockToAdd, UGoto, KeepRunners, KeepHeaps
  <1>4. TimersTypeOK'
    BY <1>1, <1>2, <1>3 DEF TimersTypeOK, Adding
  <1>5. Touches(u, t, None)
    BY <1>1, <1>2, <1>3 DEF Touches, TimersTypeOK
  <1>6. UserFits(u)'
    BY <1>1, <1>2, <1>3 DEF UserFits, TimersTypeOK, Adding, Modifying
  <1>7. StatusFits(t)'
    <2>1. status[t] = "Waiting" /\ upc'[u] \in Adding /\ StatusFits(t)
      BY <1>1, <1>2, <1>3 DEF TimersInv, UserFits, TimersTypeOK, Adding
    <2> QED
      BY <1>2, <1>3, <2>1 DEF StatusFits, Modified
  <1>8. ASSUME NEW p \in P
        PROVE  LockFits(p)'
    <2>1. LockFits(p)
      BY DEF TimersInv
    <2>2. CASE p = q
      BY <1>1, <1>2, <1>3, <2>1, <2>2 DEF LockFits, TimersTypeOK
    <2>3. CASE p # q
      BY <1>1, <1>2, <1>3, <2>1, <2>3 DEF LockFits, TimersTypeOK
    <2> QED
      BY <2>2, <2>3
  <1>9. ASSUME NEW p \in P
        PROVE  AdjustMoves(u, t, p)
    <2>1. adjustTimers' = adjustTimers /\ PutRight(p)' = PutRight(p) /\ Earlier(p)' = Earlier(p)
      BY <1>3 DEF PutRight, Earlier
    <2>2. u \notin Telling(p) /\ u \notin Telling(p)'
      BY <1>1, <1>3 DEF Telling, TimersTypeOK
    <2> QED
      BY <1>1, <2>1, <2>2, CountsKept
  <1> QED
    BY <1>4, <1>5, <1>6, <1>7, <1>8, <1>9, TouchedOnly

(* A step for the P p, whose heap may change, and of no goroutine.         *)
ForRound(p, t) ==
  /\ UNCHANGED <<upc, uarg, answer, now, rpc>>
  /\ \A r \in P \ {p} : rarg'[r] = rarg[r]
  /\ rarg'[p].now = rarg[p].now
  /\ \/ rarg'[p].todo \subseteq rarg[p].todo \ {t}
     \/ rpc[p] = "adjust" /\ rarg'[p].todo \subseteq heap[p] \ {t}
  /\ rarg'[p].moved = rarg[p].moved /\ rarg'[p].earlier = rarg[p].earlier
  /\ rpc[p] # "clear"

(* A timer in state timerDeleted is taken out of the heap, by cleantimers, *)
(* adjusttimers or runtimer.                                               *)
LEMMA RemoveKeeps ==
  ASSUME TimersInv, TimersTypeOK', NEW p \in P, NEW t \in heap[p], Remove(p, t),
         ForRound(p, t), UNCHANGED timersLock
  PROVE  TimersInv'
  <1> USE NoneAssumption, TimersAssumption
  <1>1. TimersTypeOK /\ RoundFits(p) /\ t \in Timer
    BY DEF TimersInv, TimersTypeOK
  <1>2. StatusFits(t)
    BY <1>1 DEF TimersInv
  <1>3. /\ status[t] = "Deleted" /\ status' = [status EXCEPT ![t] = "Removed"]
        /\ heap' = [heap EXCEPT ![p] = heap[p] \ {t}] /\ when' = when
        /\ timer0When' = [timer0When EXCEPT ![p] = FirstWhen(heap[p] \ {t}, when)]
        /\ pp' = [pp EXCEPT ![t] = None]
        /\ UNCHANGED <<nextwhen, adjustTimers>>
    BY DEF Remove, SetStatus, dodeltimer, SetHeap
  <1>4. /\ pp[t] = p /\ \A r \in P \ {p} : t \notin heap[r]
        /\ \A v \in G : Owns(v) => uarg[v].t # t
        /\ \A r \in P : t \notin rarg[r].moved
    BY <1>1, <1>2, <1>3, NotHeld, NotMoved DEF StatusFits
  <1>5. Touches(None, t, p)
    BY <1>1, <1>3, <1>4 DEF Touches, TimersTypeOK, ForRound
  <1>6. StatusFits(t)'
    BY <1>1, <1>2, <1>3, <1>4 DEF StatusFits, TimersTypeOK, Modified
  <1>7. RoundFits(p)'
    BY <1>1, <1>3, <1>4 DEF RoundFits, TimersTypeOK, ForRound
  <1>8. timer0When'[p] = FirstWhen(heap'[p], when')
    BY <1>1, <1>3 DEF TimersTypeOK
  <1>9. \A r \in P : LockFits(r)'
    BY LocksKept DEF ForRound
  <1>10. ASSUME NEW r \in P
         PROVE  AdjustMoves(None, t, r)
    <2>1. PutRight(r)' = PutRight(r) /\ adjustTimers' = adjustTimers
      BY <1>3 DEF PutRight, ForRound
    <2>2. t \notin Earlier(r) /\ t \notin Earlier(r)'
      BY <1>1, <1>3 DEF Earlier, TimersTypeOK
    <2>3. None \notin Telling(r) /\ None \notin Telling(r)'
      BY DEF Telling
    <2> QED
      BY <1>1, <2>1, <2>2, <2>3, CountsKept
  <1> QED
    BY <1>5, <1>6, <1>7, <1>8, <1>9, <1>10, TouchedOnly

(* A modified timer is put at its new time, by cleantimers or runtimer.    *)
LEMMA MoveKeeps ==
  ASSUME TimersInv, TimersTypeOK', NEW p \in P, NEW t \in heap[p], Move(p, t),
         ForRound(p, t), UNCHANGED timersLock
  PROVE  TimersInv'
  <1> USE NoneAssumption, TimersAssumption
  <1>1. TimersTypeOK /\ RoundFits(p) /\ t \in Timer
    BY DEF TimersInv, TimersTypeOK
  <1>2. /\ StatusFits(t) /\ now \in Nat /\ rarg \in [P -> [now : Nat, todo : SUBSET Timer, moved : SUBSET Timer,
                                                      deleted : Nat, earlier : Nat]]
        /\ status \in [Timer -> Status] /\ heap \in [P -> SUBSET Timer] /\ when \in [Timer -> Nat]
        /\ adjustTimers \in [P -> Int] /\ timer0When \in [P -> Nat]
    BY <1>1 DEF TimersInv, TimersTypeOK
  <1>3. /\ status[t] \in Modified /\ status' = [status EXCEPT ![t] = "Waiting"]
        /\ heap' = heap /\ when' = [when EXCEPT ![t] = nextwhen[t]]
        /\ timer0When' = [timer0When EXCEPT ![p] = FirstWhen(heap[p], when')]
        /\ adjustTimers' = [adjustTimers EXCEPT ![p] = @ - (IF status[t] = "ModifiedEarlier" THEN 1 ELSE 0)]
        /\ UNCHANGED pp
    BY <1>1 DEF Move, SetStatus, SetHeap, TimersTypeOK, IfThen
  <1>4. /\ pp[t] = p /\ \A r \in P \ {p} : t \notin heap[r]
        /\ \A v \in G : Owns(v) => uarg[v].t # t
        /\ \A r \in P : t \notin rarg[r].moved
    BY <1>1, <1>2, <1>3, NotHeld, NotMoved DEF StatusFits, Modified
  <1>5. Touches(None, t, p)
    BY <1>1, <1>2, <1>3, <1>4 DEF Touches, ForRound
  <1>6. StatusFits(t)'
    BY <1>1, <1>2, <1>3, <1>4 DEF StatusFits, Modified
  <1>7. RoundFits(p)'
    BY <1>1, <1>2, <1>3, <1>4 DEF RoundFits, ForRound
  <1>8. timer0When'[p] = FirstWhen(heap'[p], when')
    BY <1>1, <1>2, <1>3 
  <1>9. \A r \in P : LockFits(r)'
    BY LocksKept DEF ForRound
  <1>10. ASSUME NEW r \in P
         PROVE  AdjustMoves(None, t, r)
    <2>1. PutRight(r)' = PutRight(r) /\ PutRight(r) \in Int /\ adjustTimers[r] \in Int
      BY <1>1, <1>2, <1>3 DEF PutRight, ForRound
    <2>2. t \notin Earlier(r)' /\ (t \in Earlier(r) <=> r = p /\ status[t] = "ModifiedEarlier")
      BY <1>1, <1>2, <1>3, <1>4 DEF Earlier
    <2>3. None \notin Telling(r) /\ None \notin Telling(r)'
      BY DEF Telling
    <2>4. adjustTimers'[r] = adjustTimers[r] - (IF r = p /\ status[t] = "ModifiedEarlier" THEN 1 ELSE 0)
      BY <1>1, <1>2, <1>3 
    <2> QED
      BY <2>1, <2>2, <2>3, <2>4 DEF AdjustMoves, In
  <1> QED
    BY <1>5, <1>6, <1>7, <1>8, <1>9, <1>10, TouchedOnly

(* cleantimers and runtimer, whose thread has the lock.                    *)
LEMMA FirstTypeOK ==
  ASSUME TimersTypeOK, NEW p \in P, NEW t \in Timer, Remove(p, t) \/ Move(p, t),
         UNCHANGED <<now, period, timersLock, upc, uarg, rpc, answer>>,
         rarg' \in [P -> [now : Nat, todo : SUBSET Timer, moved : SUBSET Timer, deleted : Nat, earlier : Nat]]
  PROVE  TimersTypeOK'
  <1>1. FirstWhen(heap[p] \ {t}, when) \in Nat
        /\ FirstWhen(heap[p], [when EXCEPT ![t] = nextwhen[t]]) \in Nat
    BY FirstIsLeast DEF TimersTypeOK
  <1>2. CASE Remove(p, t)
    <2>1. /\ status' = [status EXCEPT ![t] = "Removed"]
          /\ heap' = [heap EXCEPT ![p] = heap[p] \ {t}] /\ when' = when
          /\ timer0When' = [timer0When EXCEPT ![p] = FirstWhen(heap[p] \ {t}, when)]
          /\ pp' = [pp EXCEPT ![t] = None]
          /\ deletedTimers' = [deletedTimers EXCEPT ![p] = @ - 1]
          /\ UNCHANGED <<nextwhen, adjustTimers>>
      BY <1>2 DEF Remove, SetStatus, dodeltimer, SetHeap
    <2>2. /\ status' \in [Timer -> Status] /\ when' \in [Timer -> Nat] /\ nextwhen' \in [Timer -> Nat]
          /\ pp' \in [Timer -> P \cup {None}] /\ heap' \in [P -> SUBSET Timer]
          /\ timer0When' \in [P -> Nat]
      BY <1>1, <2>1 DEF TimersTypeOK, Status
    <2>3. adjustTimers' \in [P -> Int] /\ deletedTimers' \in [P -> Int]
      BY <2>1 DEF TimersTypeOK
    <2> QED
      BY <2>2, <2>3 DEF TimersTypeOK
  <1>3. CASE Move(p, t)
    <2>1. /\ status' = [status EXCEPT ![t] = "Waiting"]
          /\ heap' = [heap EXCEPT ![p] = heap[p]] /\ when' = [when EXCEPT ![t] = nextwhen[t]]
          /\ timer0When' = [timer0When EXCEPT ![p] = FirstWhen(heap[p], [when EXCEPT ![t] = nextwhen[t]])]
          /\ nextwhen' = [nextwhen EXCEPT ![t] = 0]
          /\ adjustTimers' = [adjustTimers EXCEPT ![p] = @ - (IF status[t] = "ModifiedEarlier" THEN 1 ELSE 0)]
          /\ UNCHANGED <<pp, deletedTimers>>
      BY <1>3 DEF Move, SetStatus, SetHeap, NextwhenUsed, IfThen
    <2>2. /\ status' \in [Timer -> Status] /\ when' \in [Timer -> Nat] /\ nextwhen' \in [Timer -> Nat]
          /\ pp' \in [Timer -> P \cup {None}] /\ heap' \in [P -> SUBSET Timer]
          /\ timer0When' \in [P -> Nat]
      BY <1>1, <2>1 DEF TimersTypeOK, Status
    <2>3. adjustTimers' \in [P -> Int] /\ deletedTimers' \in [P -> Int]
      BY <2>1 DEF TimersTypeOK
    <2> QED
      BY <2>2, <2>3 DEF TimersTypeOK
  <1> QED
    BY <1>2, <1>3

(* The same for the first timer of a heap, when the caller has nothing     *)
(* else to look at.                                                        *)
LEMMA FirstKeeps ==
  ASSUME TimersInv, NEW p \in P, NEW t \in First(p), Remove(p, t) \/ Move(p, t), rarg[p].todo = {}, rpc[p] # "clear",
         UNCHANGED <<now, period, timersLock, upc, uarg, answer, rpc, rarg>>
  PROVE  TimersInv'
  <1>1. TimersTypeOK /\ t \in heap[p] /\ t \in Timer
    BY DEF TimersInv, TimersTypeOK, First, Least
  <1>2. TimersTypeOK'
    BY <1>1, FirstTypeOK DEF TimersTypeOK
  <1>3. ForRound(p, t)
    BY <1>1 DEF ForRound
  <1> QED
    BY <1>1, <1>2, <1>3, RemoveKeeps, MoveKeeps

(* A round of the loop of cleantimers, for addtimer.                       *)
LEMMA cleantimersKeeps ==
  ASSUME TimersInv, NEW u \in G, cleantimers(u)
  PROVE  TimersInv'
  <1> USE NoneAssumption, TimersAssumption
  <1>1. TimersTypeOK /\ Owns(u) /\ upc[u] = "clean"
    BY DEF TimersInv, Owns, cleantimers, Adding
  <1>2. PICK p \in P : p = uarg[u].p
    BY <1>1, HoldsAlone
  <1>3. timersLock[p] = u /\ u # p
    BY <1>1, <1>2 DEF TimersInv, LockFits
  <1>4. rpc[p] \notin Checking /\ RoundFits(p)
    BY <1>3 DEF TimersInv, LockFits
  <1>5. rarg[p].todo = {} /\ rpc[p] # "clear"
    BY <1>4 DEF RoundFits, Checking
  <1>6. PICK t \in First(p) : Remove(p, t) \/ Move(p, t)
    BY <1>2 DEF cleantimers
  <1> QED
    BY <1>5, <1>6, FirstKeeps DEF cleantimers, KeepUsers, KeepRunners

(* A round of the loop of runtimer that runs no timer.                     *)
LEMMA runtimerKeeps ==
  ASSUME TimersInv, NEW p \in P, NEW t \in Timer, runtimer(p, t)
  PROVE  TimersInv'
  <1>1. rpc[p] = "run" /\ RoundFits(p)
    BY DEF TimersInv, runtimer
  <1>2. rarg[p].todo = {}
    BY <1>1 DEF RoundFits
  <1> QED
    BY <1>1, <1>2, FirstKeeps DEF runtimer, KeepUsers, KeepRunners

(* The second half of addtimer: doaddtimer and the unlock.                 *)
LEMMA AddTimerKeeps ==
  ASSUME TimersInv, NEW u \in G, AddTimer(u)
  PROVE  TimersInv'
  <1> USE NoneAssumption, TimersAssumption
  <1>1. TimersTypeOK /\ UserFits(u) /\ Owns(u)
    BY DEF TimersInv, Owns, AddTimer, UGoto, Adding
  <1>2. PICK t \in Timer, p \in P :
          /\ t = uarg[u].t /\ p = uarg[u].p
          /\ \A v \in G \ {u} : Owns(v) => uarg[v].t # t
          /\ \A r \in P : t \notin rarg[r].moved
    BY <1>1, HoldsAlone
  <1>3. /\ upc[u] = "clean" /\ upc' = [upc EXCEPT ![u] = "idle"]
        /\ heap' = [heap EXCEPT ![p] = heap[p] \cup {t}] /\ when' = when
        /\ timer0When' = [timer0When EXCEPT ![p] = FirstWhen(heap[p] \cup {t}, when)]
        /\ pp' = [pp EXCEPT ![t] = p]
        /\ timersLock' = [timersLock EXCEPT ![p] = None]
        /\ uarg' = [uarg EXCEPT ![u] = NoArg] /\ answer' = [answer EXCEPT ![u] = <<>>]
        /\ UNCHANGED <<rpc, rarg, now, status, nextwhen, period, adjustTimers, deletedTimers>>
    <2>1. [when EXCEPT ![t] = when[t]] = when
      BY <1>1 DEF TimersTypeOK
    <2> QED
      BY <1>2, <2>1 DEF AddTimer, UGoto, doaddtimer, SetHeap, KeepRunners
  <1>4. FirstWhen(heap[p] \cup {t}, when) \in Nat
    <2>1. heap[p] \cup {t} \in SUBSET Timer /\ when \in [Timer -> Nat]
      BY <1>1 DEF TimersTypeOK
    <2> QED
      BY <2>1, FirstIsLeast
  <1>5. TimersTypeOK'
    BY <1>1, <1>3, <1>4 DEF TimersTypeOK, NoArg, Status
  <1>6. /\ status[t] = "Waiting" /\ pp[t] = None /\ \A r \in P : t \notin heap[r]
        /\ timersLock[p] = u /\ rpc[p] \notin Checking
    BY <1>1, <1>2, <1>3 DEF TimersInv, UserFits, Adding, StatusFits, LockFits
  <1>7. Touches(u, t, p)
    BY <1>1, <1>2, <1>3, <1>6 DEF Touches, TimersTypeOK, NoArg
  <1>8. UserFits(u)'
    BY <1>1, <1>3 DEF UserFits, TimersTypeOK, NoArg, Adding, Modifying
  <1>9. StatusFits(t)'
    BY <1>1, <1>3, <1>6 DEF StatusFits, TimersTypeOK, Modified
  <1>10. RoundFits(p)'
    <2>1. RoundFits(p) /\ now \in Nat /\ heap[p] \subseteq heap'[p]
      BY <1>1, <1>3 DEF TimersInv, TimersTypeOK
    <2> QED
      BY <1>3, <2>1 DEF RoundFits
  <1>11. timer0When'[p] = FirstWhen(heap'[p], when')
    BY <1>1, <1>3 DEF TimersTypeOK
  <1>12. ASSUME NEW r \in P
         PROVE  LockFits(r)'
    <2>1. LockFits(r) /\ timersLock[r] \in P \cup G \cup {None}
      BY <1>1 DEF TimersInv, TimersTypeOK
    <2>2. CASE r = p
      BY <1>1, <1>3, <1>6, <2>1, <2>2 DEF LockFits, TimersTypeOK
    <2>3. CASE r # p
      BY <1>1, <1>2, <1>3, <2>1, <2>3 DEF LockFits, TimersTypeOK
    <2> QED
      BY <2>2, <2>3
  <1>13. ASSUME NEW r \in P
         PROVE  AdjustMoves(u, t, r)
    <2>1. adjustTimers' = adjustTimers /\ PutRight(r)' = PutRight(r)
      BY <1>3 DEF PutRight
    <2>2. t \notin Earlier(r) /\ t \notin Earlier(r)'
      BY <1>3, <1>6 DEF Earlier
    <2>3. u \notin Telling(r) /\ u \notin Telling(r)'
      BY <1>1, <1>3 DEF Telling, TimersTypeOK
    <2> QED
      BY <1>1, <2>1, <2>2, <2>3, CountsKept
  <1> QED
    BY <1>5, <1>7, <1>8, <1>9, <1>10, <1>11, <1>12, <1>13, TouchedOnly

-----------------------------------------------------------------------------
(* A goroutine whose step no one else need know of.                        *)
LEMMA CallGoesOn ==
  ASSUME TimersInv, TimersTypeOK', NEW u \in G, NEW to \in {"idle", "return"},
         upc[u] \in {"idle", "deleted", "return"}, upc' = [upc EXCEPT ![u] = to],
         \A v \in G \ {u} : uarg'[v] = uarg[v] /\ answer'[v] = answer[v],
         uarg'[u].t = None, to = "idle" <=> answer'[u] = <<>>,
         UNCHANGED <<now, status, when, pp, heap, timersLock, rpc, rarg, timer0When, adjustTimers>>
  PROVE  TimersInv'
  <1> USE NoneAssumption, TimersAssumption
  <1>1. TimersTypeOK
    BY DEF TimersInv
  <1>2. now \in Nat /\ upc \in [G -> {"idle", "deleted", "return"} \cup Adding \cup Modifying]
        /\ None \notin Timer /\ \A p \in P : rarg[p].moved \subseteq Timer /\ heap[p] \subseteq Timer
    BY <1>1 DEF TimersTypeOK
  <1>3. \A v \in G : Owns(v) => uarg[v].t \in Timer
    BY HoldsAlone
  <1>4. Touches(u, None, None)
    BY <1>2, <1>3 DEF Touches, Owns, Adding, Modifying
  <1>5. UserFits(u)'
    BY <1>2 DEF UserFits, Adding, Modifying
  <1>6. \A p \in P : LockFits(p)'
    BY <1>2, LocksKept
  <1>7. ASSUME NEW p \in P
        PROVE  AdjustMoves(u, None, p)
    <2>1. PutRight(p)' = PutRight(p) /\ Earlier(p)' = Earlier(p)
      BY DEF PutRight, Earlier
    <2>2. u \notin Telling(p) /\ u \notin Telling(p)'
      BY <1>2 DEF Telling
    <2> QED
      BY <1>1, <2>1, <2>2, CountsKept
  <1> QED
    BY <1>4, <1>5, <1>6, <1>7, TouchedOnly

(* A deltimer or modtimer returns its answer.                              *)
LEMMA UReturnKeeps ==
  ASSUME TimersInv, NEW u \in G, UReturn(u)
  PROVE  TimersInv'
  <1>1. TimersTypeOK /\ UserFits(u)
    BY DEF TimersInv
  <1>2. /\ upc[u] = "return" /\ upc' = [upc EXCEPT ![u] = "idle"] /\ answer' = [answer EXCEPT ![u] = <<>>]
        /\ UNCHANGED <<rpc, rarg, when, pp, heap, timer0When>>
        /\ UNCHANGED <<now, status, nextwhen, period, timersLock, adjustTimers, deletedTimers, uarg>>
    BY DEF UReturn, UGoto, KeepRunners, KeepHeaps
  <1>3. TimersTypeOK'
    BY <1>1, <1>2 DEF TimersTypeOK
  <1>4. uarg'[u].t = None /\ answer'[u] = <<>> /\ \A v \in G \ {u} : uarg'[v] = uarg[v] /\ answer'[v] = answer[v]
    BY <1>1, <1>2 DEF UserFits, TimersTypeOK
  <1> QED
    BY <1>2, <1>3, <1>4, CallGoesOn

(* A deltimer that finds nothing to stop.                                  *)
LEMMA deltimerIdleKeeps ==
  ASSUME TimersInv, NEW u \in G, NEW t \in Timer, deltimerIdle(u, t)
  PROVE  TimersInv'
  <1>1. TimersTypeOK /\ UserFits(u)
    BY DEF TimersInv
  <1>2. /\ upc[u] = "idle" /\ upc' = [upc EXCEPT ![u] = "return"] /\ answer' = [answer EXCEPT ![u] = <<FALSE>>]
        /\ UNCHANGED <<rpc, rarg, when, pp, heap, timer0When>>
        /\ UNCHANGED <<now, status, nextwhen, period, timersLock, adjustTimers, deletedTimers, uarg>>
    BY DEF deltimerIdle, UGoto, KeepRunners, KeepHeaps
  <1>3. TimersTypeOK'
    BY <1>1, <1>2 DEF TimersTypeOK
  <1>4. uarg'[u].t = None /\ answer'[u] # <<>> /\ \A v \in G \ {u} : uarg'[v] = uarg[v] /\ answer'[v] = answer[v]
    BY <1>1, <1>2 DEF UserFits, TimersTypeOK
  <1> QED
    BY <1>2, <1>3, <1>4, CallGoesOn

(* A deltimer counts the timer it has deleted, on the P it saw it on,      *)
(* wherever it is by now.                                                  *)
LEMMA CountDeletedKeeps ==
  ASSUME TimersInv, NEW u \in G, CountDeleted(u)
  PROVE  TimersInv'
  <1>1. TimersTypeOK /\ UserFits(u)
    BY DEF TimersInv
  <1>2. /\ upc[u] = "deleted" /\ upc' = [upc EXCEPT ![u] = "return"]
        /\ deletedTimers' = [deletedTimers EXCEPT ![uarg[u].p] = @ + 1]
        /\ uarg' = [uarg EXCEPT ![u] = NoArg]
        /\ UNCHANGED <<rpc, rarg, when, pp, heap, timer0When>>
        /\ UNCHANGED <<now, status, nextwhen, period, timersLock, adjustTimers, answer>>
    BY DEF CountDeleted, UGoto, KeepRunners, KeepHeaps
  <1>3. TimersTypeOK'
    <2>1. uarg[u].p \in P
      BY <1>1, <1>2 DEF UserFits
    <2>2. deletedTimers' \in [P -> Int]
      BY <1>1, <1>2, <2>1 DEF TimersTypeOK
    <2>3. uarg' \in [G -> [t : Timer \cup {None}, p : P \cup {None}, when : Nat, period : Nat, old : Status]]
      BY <1>1, <1>2 DEF TimersTypeOK, NoArg, Status
    <2> QED
      BY <1>1, <1>2, <2>2, <2>3 DEF TimersTypeOK
  <1>4. uarg'[u].t = None /\ answer'[u] # <<>> /\ \A v \in G \ {u} : uarg'[v] = uarg[v] /\ answer'[v] = answer[v]
    BY <1>1, <1>2 DEF UserFits, TimersTypeOK, NoArg
  <1> QED
    BY <1>2, <1>3, <1>4, CallGoesOn

(* A goroutine moves the status of t, its timer, and no heap.              *)
LEMMA SwapStep ==
  ASSUME TimersInv, TimersTypeOK', NEW u \in G, NEW t \in Timer, NEW to,
         UNCHANGED <<now, when, pp, heap, timersLock, rpc, rarg, timer0When>>,
         upc' = [upc EXCEPT ![u] = to], upc[u] # "clean", to # "clean",
         \A v \in G \ {u} : uarg'[v] = uarg[v] /\ answer'[v] = answer[v],
         \A s \in Timer \ {t} : status'[s] = status[s],
         \A v \in G \ {u} : Owns(v) => uarg[v].t # t,
         uarg'[u].t \in {None, t}, Owns(u) => uarg[u].t = t, \A p \in P : t \notin rarg[p].moved,
         UserFits(u)', StatusFits(t)', \A p \in P : AdjustMoves(u, t, p)
  PROVE  TimersInv'
  <1> USE NoneAssumption, TimersAssumption
  <1>1. now \in Nat /\ upc \in [G -> {"idle", "deleted", "return"} \cup Adding \cup Modifying]
    BY DEF TimersInv, TimersTypeOK
  <1>2. Touches(u, t, None)
    BY <1>1 DEF Touches
  <1>3. \A p \in P : LockFits(p)'
    BY <1>1, LocksKept
  <1> QED
    BY <1>2, <1>3, TouchedOnly

(* The swap to timerModifying in deltimer: from now on the timer is the    *)
(* goroutine's.                                                            *)
LEMMA deltimerKeeps ==
  ASSUME TimersInv, NEW u \in G, NEW t \in Timer, deltimer(u, t)
  PROVE  TimersInv'
  <1> USE NoneAssumption, TimersAssumption
  <1> DEFINE to == IF status[t] = "ModifiedEarlier" THEN "uncount" ELSE "deleting"
  <1>1. TimersTypeOK /\ UserFits(u) /\ StatusFits(t)
    BY DEF TimersInv
  <1>2. /\ upc[u] = "idle" /\ upc' = [upc EXCEPT ![u] = to]
        /\ status[t] \in InHeap /\ status' = [status EXCEPT ![t] = "Modifying"]
        /\ uarg' = [uarg EXCEPT ![u] = uarg'[u]]
        /\ uarg'[u] = [t |-> t, p |-> pp[t], when |-> 0, period |-> 0, old |-> status[t]]
        /\ answer' = [answer EXCEPT ![u] = <<TRUE>>]
        /\ UNCHANGED <<rpc, rarg, when, pp, heap, timer0When>>
        /\ UNCHANGED <<now, nextwhen, period, timersLock, adjustTimers, deletedTimers>>
    BY <1>1 DEF deltimer, UGoto, KeepRunners, KeepHeaps, SetStatus, NoArg, TimersTypeOK
  <1>T. to \in {"uncount", "deleting"} /\ (to = "uncount" <=> status[t] = "ModifiedEarlier")
    OBVIOUS
  <1> HIDE DEF to
  <1>3. pp[t] \in P
    <2>1. ~(status[t] = "Waiting" /\ pp[t] = None)
      BY <1>1 DEF StatusFits, deltimer, Shared
    <2> QED
      BY <1>1, <1>2, <2>1 DEF StatusFits, InHeap, TimersTypeOK
  <1>4. /\ \A v \in G : Owns(v) => uarg[v].t # t
        /\ \A p \in P : t \notin rarg[p].moved
    BY <1>2, <1>3, NotHeld, NotMoved DEF InHeap, Modified
  <1>5. TimersTypeOK'
    <2>1. status' \in [Timer -> Status] /\ upc' \in [G -> {"idle", "deleted", "return"} \cup Adding \cup Modifying]
      BY <1>1, <1>2, <1>T DEF TimersTypeOK, Status, Modifying
    <2>2. uarg'[u] \in [t : Timer \cup {None}, p : P \cup {None}, when : Nat, period : Nat, old : Status]
      BY <1>1, <1>2, <1>3 DEF TimersTypeOK
    <2> QED
      BY <1>1, <1>2, <2>1, <2>2 DEF TimersTypeOK
  <1>6. UserFits(u)'
    <2>1. \A v \in G \ {u} : upc[v] \in Modifying => uarg[v].t # t
      BY <1>4 DEF Owns
    <2> QED
      BY <1>1, <1>2, <1>3, <1>T, <2>1 DEF UserFits, TimersTypeOK, Adding, Modifying
  <1>7. StatusFits(t)'
    <2>1. u \in Modifier(t)' /\ status'[t] = "Modifying"
      BY <1>1, <1>2, <1>T DEF Modifier, Modifying, TimersTypeOK
    <2> QED
      BY <1>1, <1>2, <2>1 DEF StatusFits, Modified
  <1>8. ASSUME NEW p \in P
        PROVE  AdjustMoves(u, t, p)
    <2>1. PutRight(p)' = PutRight(p) /\ PutRight(p) \in Int /\ adjustTimers[p] \in Int
      BY <1>1, <1>2 DEF PutRight, TimersTypeOK
    <2>2. t \notin Earlier(p)' /\ (t \in Earlier(p) <=> pp[t] = p /\ status[t] = "ModifiedEarlier")
      BY <1>1, <1>2 DEF Earlier, TimersTypeOK, StatusFits
    <2>3. u \notin Telling(p) /\ (u \in Telling(p)' <=> pp[t] = p /\ status[t] = "ModifiedEarlier")
      BY <1>1, <1>2, <1>T DEF Telling, TimersTypeOK
    <2> QED
      BY <1>2, <2>1, <2>2, <2>3 DEF AdjustMoves, In
  <1>9. /\ ~Owns(u) /\ uarg'[u].t = t
        /\ \A v \in G \ {u} : uarg'[v] = uarg[v] /\ answer'[v] = answer[v]
        /\ \A s \in Timer \ {t} : status'[s] = status[s]
    BY <1>1, <1>2 DEF Owns, Adding, Modifying, TimersTypeOK
  <1> QED
    BY <1>2, <1>T, <1>4, <1>5, <1>6, <1>7, <1>8, <1>9, SwapStep

(* deltimer discounts a timer that was to go off earlier.                  *)
LEMMA UncountKeeps ==
  ASSUME TimersInv, NEW u \in G, Uncount(u)
  PROVE  TimersInv'
  <1> USE NoneAssumption, TimersAssumption
  <1>1. TimersTypeOK /\ UserFits(u) /\ Owns(u) /\ upc[u] = "uncount"
    BY DEF TimersInv, Owns, Uncount, UGoto, Modifying
  <1>2. PICK t \in Timer, p \in P :
          /\ t = uarg[u].t /\ p = uarg[u].p
          /\ \A v \in G \ {u} : Owns(v) => uarg[v].t # t
          /\ \A r \in P : t \notin rarg[r].moved
    BY <1>1, HoldsAlone
  <1>3. status[t] = "Modifying" /\ pp[t] = p /\ uarg[u].old = "ModifiedEarlier" /\ StatusFits(t)
    BY <1>1, <1>2 DEF UserFits, Modifying, Adding, TimersInv
  <1>4. /\ upc' = [upc EXCEPT ![u] = "deleting"] /\ adjustTimers' = [adjustTimers EXCEPT ![p] = @ - 1]
        /\ UNCHANGED <<rpc, rarg, when, pp, heap, timer0When>>
        /\ UNCHANGED <<now, status, nextwhen, period, timersLock, deletedTimers, uarg, answer>>
    BY <1>2 DEF Uncount, UGoto, KeepRunners, KeepHeaps
  <1>5. TimersTypeOK'
    <2>1. /\ adjustTimers' \in [P -> Int]
          /\ upc' \in [G -> {"idle", "deleted", "return"} \cup Adding \cup Modifying]
      BY <1>1, <1>4 DEF TimersTypeOK, Modifying
    <2> QED
      BY <1>1, <1>4, <2>1 DEF TimersTypeOK
  <1>6. UserFits(u)'
    BY <1>1, <1>2, <1>3, <1>4 DEF UserFits, TimersTypeOK, Adding, Modifying
  <1>7. StatusFits(t)'
    <2>1. u \in Modifier(t)'
      BY <1>1, <1>2, <1>4 DEF Modifier, Modifying, TimersTypeOK
    <2> QED
      BY <1>3, <1>4, <2>1 DEF StatusFits, Modified
  <1>8. ASSUME NEW r \in P
        PROVE  AdjustMoves(u, t, r)
    <2>1. PutRight(r)' = PutRight(r) /\ PutRight(r) \in Int /\ adjustTimers[r] \in Int
      BY <1>1, <1>4 DEF PutRight, TimersTypeOK
    <2>2. t \notin Earlier(r)' /\ t \notin Earlier(r)
      BY <1>3, <1>4 DEF Earlier
    <2>3. u \notin Telling(r)' /\ (u \in Telling(r) <=> r = p)
      BY <1>1, <1>2, <1>3, <1>4 DEF Telling, TimersTypeOK
    <2>4. adjustTimers'[r] = adjustTimers[r] - (IF r = p THEN 1 ELSE 0)
      BY <1>1, <1>4, <2>1 DEF TimersTypeOK
    <2> QED
      BY <2>1, <2>2, <2>3, <2>4 DEF AdjustMoves, In
  <1> QED
    BY <1>1, <1>2, <1>4, <1>5, <1>6, <1>7, <1>8, SwapStep

(* deltimer sets timerDeleted.                                             *)
LEMMA SetDeletedKeeps ==
  ASSUME TimersInv, NEW u \in G, SetDeleted(u)
  PROVE  TimersInv'
  <1> USE NoneAssumption, TimersAssumption
  <1>1. TimersTypeOK /\ UserFits(u) /\ Owns(u) /\ upc[u] = "deleting"
    BY DEF TimersInv, Owns, SetDeleted, UGoto, Modifying
  <1>2. PICK t \in Timer, p \in P :
          /\ t = uarg[u].t /\ p = uarg[u].p
          /\ \A v \in G \ {u} : Owns(v) => uarg[v].t # t
          /\ \A r \in P : t \notin rarg[r].moved
    BY <1>1, HoldsAlone
  <1>3. /\ status[t] = "Modifying" /\ pp[t] = p /\ StatusFits(t)
    BY <1>1, <1>2 DEF UserFits, Modifying, Adding, TimersInv
  <1>4. /\ upc' = [upc EXCEPT ![u] = "deleted"] /\ status' = [status EXCEPT ![t] = "Deleted"]
        /\ nextwhen' = [nextwhen EXCEPT ![t] = 0]
        /\ UNCHANGED <<rpc, rarg, when, pp, heap, timer0When>>
        /\ UNCHANGED <<now, period, timersLock, adjustTimers, deletedTimers, uarg, answer>>
    BY <1>2 DEF SetDeleted, UGoto, KeepRunners, KeepHeaps, SetStatus, NextwhenUsed
  <1>5. TimersTypeOK'
    <2>1. /\ status' \in [Timer -> Status]
          /\ upc' \in [G -> {"idle", "deleted", "return"} \cup Adding \cup Modifying]
      BY <1>1, <1>4 DEF TimersTypeOK, Status
    <2> QED
      BY <1>1, <1>4, <2>1 DEF TimersTypeOK
  <1>6. UserFits(u)'
    BY <1>1, <1>2, <1>4 DEF UserFits, TimersTypeOK, Adding, Modifying
  <1>7. StatusFits(t)'
    BY <1>1, <1>3, <1>4 DEF StatusFits, TimersTypeOK, Modified
  <1>8. ASSUME NEW r \in P
        PROVE  AdjustMoves(u, t, r)
    <2>1. PutRight(r)' = PutRight(r) /\ PutRight(r) \in Int /\ adjustTimers[r] \in Int
      BY <1>1, <1>4 DEF PutRight, TimersTypeOK
    <2>2. t \notin Earlier(r)' /\ t \notin Earlier(r)
      BY <1>1, <1>3, <1>4 DEF Earlier, TimersTypeOK
    <2>3. u \notin Telling(r)' /\ u \notin Telling(r)
      BY <1>1, <1>4 DEF Telling, TimersTypeOK
    <2> QED
      BY <1>4, <2>1, <2>2, <2>3 DEF AdjustMoves, In
  <1>9. \A s \in Timer \ {t} : status'[s] = status[s]
    BY <1>1, <1>4 DEF TimersTypeOK
  <1> QED
    BY <1>1, <1>2, <1>4, <1>5, <1>6, <1>7, <1>8, <1>9, SwapStep

(* The swap to timerModifying in modtimer.                                 *)
LEMMA modtimerKeeps ==
  ASSUME TimersInv, NEW u \in G, NEW p \in P, NEW t \in Timer, NEW w \in Nat, NEW per \in Nat,
         modtimer(u, p, t, w, per)
  PROVE  TimersInv'
  <1> USE NoneAssumption, TimersAssumption
  <1> DEFINE to == IF status[t] \in {"NoStatus", "Removed"} THEN "modAdd" ELSE IF status[t] = "Deleted" THEN "undelete" ELSE "modify"
  <1>1. TimersTypeOK /\ UserFits(u) /\ StatusFits(t)
    BY DEF TimersInv
  <1>A. PICK c \in [t : Timer \cup {None}, p : P \cup {None}, when : Nat, period : Nat, old : Status] :
          c = [t |-> t, p |-> p, when |-> w, period |-> per, old |-> status[t]]
    <2>1. status[t] \in Status
      BY <1>1 DEF TimersTypeOK
    <2> QED
      BY <2>1
  <1>B. PICK b \in {<<TRUE>>, <<FALSE>>} : b = <<status[t] \in InHeap>>
    <2>1. CASE status[t] \in InHeap
      <3>1. (status[t] \in InHeap) = TRUE
        BY <2>1
      <3> QED
        BY <3>1
    <2>2. CASE status[t] \notin InHeap
      <3>1. (status[t] \in InHeap) = FALSE
        BY <2>2
      <3> QED
        BY <3>1
    <2> QED
      BY <2>1, <2>2
  <1>2. /\ upc[u] = "idle" /\ upc' = [upc EXCEPT ![u] = to]
        /\ status[t] \in InHeap \cup {"NoStatus", "Removed", "Deleted"} /\ status' = [status EXCEPT ![t] = "Modifying"]
        /\ uarg' = [uarg EXCEPT ![u] = c] /\ answer' = [answer EXCEPT ![u] = b]
        /\ UNCHANGED <<rpc, rarg, when, pp, heap, timer0When>>
        /\ UNCHANGED <<now, nextwhen, period, timersLock, adjustTimers, deletedTimers>>
    <2>1. upc[u] = "idle" /\ upc' = [upc EXCEPT ![u] = to]
      BY DEF modtimer, UGoto, InHeap, Modified
    <2> HIDE DEF to
    <2>2. answer' = [answer EXCEPT ![u] = b]
      BY <1>B DEF modtimer
    <2> QED
      BY <1>A, <2>1, <2>2 DEF modtimer, KeepRunners, KeepHeaps, SetStatus
  <1> HIDE DEF to
  <1>3. IF status[t] \in {"NoStatus", "Removed"} THEN pp[t] = None ELSE pp[t] \in P
    <2>1. ~(status[t] = "Waiting" /\ pp[t] = None)
      BY <1>1 DEF StatusFits, modtimer, Shared
    <2> QED
      BY <1>1, <1>2, <2>1 DEF StatusFits, InHeap, TimersTypeOK
  <1>4. /\ \A v \in G : Owns(v) => uarg[v].t # t
        /\ \A r \in P : t \notin rarg[r].moved
    BY <1>2, <1>3, NotHeld, NotMoved DEF InHeap, Modified
  <1>5. TimersTypeOK'
    <2>1. status' \in [Timer -> Status] /\ upc' \in [G -> {"idle", "deleted", "return"} \cup Adding \cup Modifying]
      BY <1>1, <1>2 DEF TimersTypeOK, Status, Modifying, to
    <2>4. uarg' \in [G -> [t : Timer \cup {None}, p : P \cup {None}, when : Nat, period : Nat, old : Status]]
          /\ answer' \in [G -> {<<>>, <<TRUE>>, <<FALSE>>}]
      BY <1>1, <1>2 DEF TimersTypeOK
    <2> QED
      BY <1>1, <1>2, <2>1, <2>4 DEF TimersTypeOK
  <1>6. UserFits(u)'
    <2>1. \A v \in G \ {u} : upc[v] \in Modifying => uarg[v].t # t
      BY <1>4 DEF Owns
    <2>2. /\ upc'[u] = to /\ answer'[u] # <<>> /\ status'[t] = "Modifying" /\ pp' = pp
          /\ uarg'[u] = c /\ \A v \in G \ {u} : uarg'[v] = uarg[v] /\ upc'[v] = upc[v]
      <3>1. /\ upc \in [G -> {"idle", "deleted", "return"} \cup Adding \cup Modifying]
            /\ status \in [Timer -> Status] /\ DOMAIN uarg = G /\ DOMAIN answer = G
        BY <1>1 DEF TimersTypeOK
      <3>2. answer'[u] = b
        <4>1. answer' = [answer EXCEPT ![u] = b]
          BY <1>2
        <4> QED
          BY <3>1, <4>1
      <3>3. b # <<>>
        <4>1. <<TRUE>> # <<>> /\ <<FALSE>> # <<>>
          OBVIOUS
        <4> QED
          BY <4>1, Zenon
      <3> QED
        BY <1>2, <3>1, <3>2, <3>3
    <2>3. uarg'[u].t = t /\ uarg'[u].p = p /\ uarg'[u].old = status[t]
      BY <1>A, <2>2
    <2> QED
      BY <1>2, <1>3, <2>1, <2>2, <2>3 DEF UserFits, Adding, Modifying, to
  <1>7. StatusFits(t)'
    <2>1. u \in Modifier(t)' /\ status'[t] = "Modifying"
      BY <1>1, <1>2, <1>A DEF Modifier, Modifying, TimersTypeOK, to
    <2> QED
      BY <1>1, <1>2, <2>1 DEF StatusFits, Modified
  <1>8. ASSUME NEW r \in P
        PROVE  AdjustMoves(u, t, r)
    <2>1. PutRight(r)' = PutRight(r) /\ PutRight(r) \in Int /\ adjustTimers[r] \in Int
      BY <1>1, <1>2 DEF PutRight, TimersTypeOK
    <2>2. t \notin Earlier(r)' /\ (t \in Earlier(r) <=> pp[t] = r /\ status[t] = "ModifiedEarlier")
      BY <1>1, <1>2 DEF Earlier, TimersTypeOK, StatusFits
    <2>3. u \notin Telling(r) /\ (u \in Telling(r)' <=> pp[t] = r /\ status[t] = "ModifiedEarlier")
      <3>1. upc'[u] = to /\ uarg'[u].t = t /\ uarg'[u].old = status[t] /\ pp' = pp
        BY <1>1, <1>2, <1>A DEF TimersTypeOK
      <3> QED
        BY <1>2, <3>1 DEF Telling, to
    <2> QED
      BY <1>2, <2>1, <2>2, <2>3 DEF AdjustMoves, In
  <1>9. /\ ~Owns(u) /\ uarg'[u].t = t /\ to # "clean"
        /\ \A v \in G \ {u} : uarg'[v] = uarg[v] /\ answer'[v] = answer[v]
        /\ \A s \in Timer \ {t} : status'[s] = status[s]
    BY <1>1, <1>2, <1>A DEF Owns, Adding, Modifying, TimersTypeOK, to
  <1> QED
    BY <1>2, <1>4, <1>5, <1>6, <1>7, <1>8, <1>9, SwapStep

(* modtimer discounts a timer that was deleted.                            *)
LEMMA UndeleteKeeps ==
  ASSUME TimersInv, NEW u \in G, Undelete(u)
  PROVE  TimersInv'
  <1> USE NoneAssumption, TimersAssumption
  <1>1. TimersTypeOK /\ UserFits(u) /\ Owns(u) /\ upc[u] = "undelete"
    BY DEF TimersInv, Owns, Undelete, UGoto, Modifying
  <1>2. PICK t \in Timer :
          /\ t = uarg[u].t
          /\ \A v \in G \ {u} : Owns(v) => uarg[v].t # t
          /\ \A r \in P : t \notin rarg[r].moved
    BY <1>1, HoldsAlone
  <1>3. status[t] = "Modifying" /\ pp[t] \in P /\ uarg[u].old = "Deleted" /\ StatusFits(t)
    BY <1>1, <1>2 DEF UserFits, Modifying, Adding, TimersInv
  <1>4. /\ upc' = [upc EXCEPT ![u] = "modify"] /\ deletedTimers' = [deletedTimers EXCEPT ![pp[t]] = @ - 1]
        /\ UNCHANGED <<rpc, rarg, when, pp, heap, timer0When>>
        /\ UNCHANGED <<now, status, nextwhen, period, timersLock, adjustTimers, uarg, answer>>
    BY <1>2 DEF Undelete, UGoto, KeepRunners, KeepHeaps
  <1>5. TimersTypeOK'
    <2>1. /\ deletedTimers' \in [P -> Int]
          /\ upc' \in [G -> {"idle", "deleted", "return"} \cup Adding \cup Modifying]
      BY <1>1, <1>3, <1>4 DEF TimersTypeOK, Modifying
    <2> QED
      BY <1>1, <1>4, <2>1 DEF TimersTypeOK
  <1>6. UserFits(u)'
    BY <1>1, <1>2, <1>3, <1>4 DEF UserFits, TimersTypeOK, Adding, Modifying
  <1>7. StatusFits(t)'
    <2>1. u \in Modifier(t)'
      BY <1>1, <1>2, <1>4 DEF Modifier, Modifying, TimersTypeOK
    <2> QED
      BY <1>3, <1>4, <2>1 DEF StatusFits, Modified
  <1>8. ASSUME NEW r \in P
        PROVE  AdjustMoves(u, t, r)
    <2>1. PutRight(r)' = PutRight(r) /\ PutRight(r) \in Int /\ adjustTimers[r] \in Int
      BY <1>1, <1>4 DEF PutRight, TimersTypeOK
    <2>2. Earlier(r)' = Earlier(r)
      BY <1>4 DEF Earlier
    <2>3. u \notin Telling(r)' /\ u \notin Telling(r)
      BY <1>3, <1>4 DEF Telling
    <2> QED
      BY <1>4, <2>1, <2>2, <2>3 DEF AdjustMoves, In
  <1> QED
    BY <1>1, <1>2, <1>4, <1>5, <1>6, <1>7, <1>8, SwapStep

(* modtimer of a timer in a heap: adjustTimers counts it before its status *)
(* says that it was set to an earlier time.                                *)
LEMMA ModifyKeeps ==
  ASSUME TimersInv, NEW u \in G, Modify(u)
  PROVE  TimersInv'
  <1> USE NoneAssumption, TimersAssumption
  <1>1. TimersTypeOK /\ UserFits(u) /\ Owns(u) /\ upc[u] = "modify"
    BY DEF TimersInv, Owns, Modify, UGoto, Modifying
  <1>2. PICK t \in Timer :
          /\ t = uarg[u].t
          /\ \A v \in G \ {u} : Owns(v) => uarg[v].t # t
          /\ \A r \in P : t \notin rarg[r].moved
    BY <1>1, HoldsAlone
  <1>3. PICK p \in P : p = pp[t]
    BY <1>1, <1>2 DEF UserFits, Modifying, Adding
  <1>4. PICK new \in Modified : new = IF uarg[u].when < when[t] THEN "ModifiedEarlier" ELSE "ModifiedLater"
    BY DEF Modified
  <1>5. /\ upc' = [upc EXCEPT ![u] = "modSet"]
        /\ adjustTimers' = [adjustTimers EXCEPT ![p] =
             @ + (IF new = "ModifiedEarlier" THEN 1 ELSE 0) - (IF uarg[u].old = "ModifiedEarlier" THEN 1 ELSE 0)]
        /\ nextwhen' = [nextwhen EXCEPT ![t] = uarg[u].when] /\ period' = [period EXCEPT ![t] = uarg[u].period]
        /\ uarg' = [uarg EXCEPT ![u].old = new]
        /\ UNCHANGED <<rpc, rarg, when, pp, heap, timer0When>>
        /\ UNCHANGED <<now, status, timersLock, deletedTimers, answer>>
    BY <1>2, <1>3, <1>4 DEF Modify, UGoto, KeepRunners, KeepHeaps, IfThen
  <1>6. TimersTypeOK'
    <2>1. /\ adjustTimers' \in [P -> Int]
          /\ upc' \in [G -> {"idle", "deleted", "return"} \cup Adding \cup Modifying]
      BY <1>1, <1>5 DEF TimersTypeOK, Modifying
    <2>2. /\ uarg' \in [G -> [t : Timer \cup {None}, p : P \cup {None}, when : Nat, period : Nat, old : Status]]
          /\ nextwhen' \in [Timer -> Nat] /\ period' \in [Timer -> Nat]
      <3>1. new \in Status /\ uarg[u].when \in Nat /\ uarg[u].period \in Nat
        BY <1>1 DEF TimersTypeOK, Status
      <3>2. [uarg[u] EXCEPT !.old = new]
              \in [t : Timer \cup {None}, p : P \cup {None}, when : Nat, period : Nat, old : Status]
        <4>1. uarg[u] \in [t : Timer \cup {None}, p : P \cup {None}, when : Nat, period : Nat, old : Status]
          BY <1>1 DEF TimersTypeOK
        <4> QED
          BY <3>1, <4>1
      <3> QED
        BY <1>1, <1>5, <3>1, <3>2 DEF TimersTypeOK
    <2> QED
      BY <1>1, <1>5, <2>1, <2>2 DEF TimersTypeOK
  <1>7. /\ upc'[u] = "modSet" /\ uarg'[u].t = t /\ uarg'[u].p = uarg[u].p /\ uarg'[u].old = new
        /\ \A v \in G \ {u} : uarg'[v] = uarg[v] /\ upc'[v] = upc[v]
    BY <1>1, <1>2, <1>5 DEF TimersTypeOK
  <1>8. UserFits(u)'
    BY <1>1, <1>2, <1>3, <1>5, <1>7 DEF UserFits, Adding, Modifying, InHeap
  <1>9. StatusFits(t)'
    <2>1. StatusFits(t) /\ status[t] = "Modifying" /\ u \in Modifier(t)'
      BY <1>1, <1>2, <1>7 DEF TimersInv, UserFits, Modifying, Modifier, Adding
    <2> QED
      BY <1>5, <2>1 DEF StatusFits, Modified
  <1>10. ASSUME NEW r \in P
         PROVE  AdjustMoves(u, t, r)
    <2>1. PutRight(r)' = PutRight(r) /\ PutRight(r) \in Int /\ adjustTimers[r] \in Int
      BY <1>1, <1>5 DEF PutRight, TimersTypeOK
    <2>2. Earlier(r)' = Earlier(r)
      BY <1>5 DEF Earlier
    <2>3. /\ u \in Telling(r)' <=> r = p /\ new = "ModifiedEarlier"
          /\ u \in Telling(r) <=> r = p /\ uarg[u].old = "ModifiedEarlier"
      BY <1>1, <1>2, <1>3, <1>5, <1>7 DEF Telling
    <2>4. adjustTimers'[r] = adjustTimers[r] + (IF r = p /\ new = "ModifiedEarlier" THEN 1 ELSE 0)
                                - (IF r = p /\ uarg[u].old = "ModifiedEarlier" THEN 1 ELSE 0)
      <3>1. adjustTimers \in [P -> Int]
        BY <1>1 DEF TimersTypeOK
      <3>2. CASE r = p
        BY <1>5, <3>1, <3>2
      <3>3. CASE r # p
        BY <1>5, <3>1, <3>3
      <3> QED
        BY <3>2, <3>3
    <2> QED
      BY <2>1, <2>2, <2>3, <2>4 DEF AdjustMoves, In
  <1> QED
    BY <1>1, <1>2, <1>5, <1>6, <1>7, <1>8, <1>9, <1>10, SwapStep

(* modtimer gives the timer its new status.                                *)
LEMMA SetModifiedKeeps ==
  ASSUME TimersInv, NEW u \in G, SetModified(u)
  PROVE  TimersInv'
  <1> USE NoneAssumption, TimersAssumption
  <1>1. TimersTypeOK /\ UserFits(u) /\ Owns(u) /\ upc[u] = "modSet"
    BY DEF TimersInv, Owns, SetModified, UGoto, Modifying
  <1>2. PICK t \in Timer :
          /\ t = uarg[u].t
          /\ \A v \in G \ {u} : Owns(v) => uarg[v].t # t
          /\ \A r \in P : t \notin rarg[r].moved
    BY <1>1, HoldsAlone
  <1>3. PICK new \in InHeap : new = uarg[u].old
    BY <1>1 DEF UserFits, Modifying, Adding
  <1>4. /\ upc' = [upc EXCEPT ![u] = "return"] /\ status' = [status EXCEPT ![t] = new]
        /\ uarg' = [uarg EXCEPT ![u] = NoArg]
        /\ UNCHANGED <<rpc, rarg, when, pp, heap, timer0When>>
        /\ UNCHANGED <<now, nextwhen, period, timersLock, adjustTimers, deletedTimers, answer>>
    BY <1>2, <1>3 DEF SetModified, UGoto, KeepRunners, KeepHeaps, SetStatus
  <1>5. TimersTypeOK'
    <2>1. /\ status' \in [Timer -> Status]
          /\ upc' \in [G -> {"idle", "deleted", "return"} \cup Adding \cup Modifying]
      BY <1>1, <1>3, <1>4 DEF TimersTypeOK, Status, InHeap
    <2>2. uarg' \in [G -> [t : Timer \cup {None}, p : P \cup {None}, when : Nat, period : Nat, old : Status]]
      BY <1>1, <1>4 DEF TimersTypeOK, NoArg, Status
    <2> QED
      BY <1>1, <1>4, <2>1, <2>2 DEF TimersTypeOK
  <1>6. /\ upc'[u] = "return" /\ uarg'[u].t = None /\ answer'[u] # <<>>
        /\ \A v \in G \ {u} : uarg'[v] = uarg[v] /\ upc'[v] = upc[v]
        /\ pp[t] \in P /\ status[t] = "Modifying" /\ StatusFits(t)
    BY <1>1, <1>2, <1>4 DEF TimersTypeOK, NoArg, UserFits, Modifying, Adding, TimersInv
  <1>7. UserFits(u)'
    BY <1>6 DEF UserFits, Adding, Modifying
  <1>8. StatusFits(t)'
    <2>1. status'[t] = new /\ new \in {"Waiting"} \cup Modified
      BY <1>1, <1>3, <1>4 DEF TimersTypeOK, InHeap
    <2> QED
      BY <1>4, <1>6, <2>1 DEF StatusFits, Modified
  <1>9. ASSUME NEW r \in P
        PROVE  AdjustMoves(u, t, r)
    <2>1. PutRight(r)' = PutRight(r) /\ PutRight(r) \in Int /\ adjustTimers[r] \in Int
      BY <1>1, <1>4 DEF PutRight, TimersTypeOK
    <2>2. t \notin Earlier(r) /\ (t \in Earlier(r)' <=> r = pp[t] /\ new = "ModifiedEarlier")
      BY <1>1, <1>4, <1>6 DEF Earlier, StatusFits, TimersTypeOK
    <2>3. u \notin Telling(r)' /\ (u \in Telling(r) <=> r = pp[t] /\ new = "ModifiedEarlier")
      BY <1>1, <1>2, <1>3, <1>4, <1>6 DEF Telling
    <2> QED
      BY <1>4, <2>1, <2>2, <2>3 DEF AdjustMoves, In
  <1>10. \A s \in Timer \ {t} : status'[s] = status[s]
    BY <1>1, <1>4 DEF TimersTypeOK
  <1> QED
    BY <1>1, <1>2, <1>4, <1>5, <1>6, <1>7, <1>8, <1>9, <1>10, SwapStep

(* modtimer of a timer in no heap adds it.                                 *)
LEMMA ModAddKeeps ==
  ASSUME TimersInv, NEW u \in G, ModAdd(u)
  PROVE  TimersInv'
  <1> USE NoneAssumption, TimersAssumption
  <1>1. TimersTypeOK /\ UserFits(u) /\ Owns(u) /\ upc[u] = "modAdd"
    BY DEF TimersInv, Owns, ModAdd, UGoto, Modifying
  <1>2. PICK t \in Timer, p \in P :
          /\ t = uarg[u].t /\ p = uarg[u].p
          /\ \A v \in G \ {u} : Owns(v) => uarg[v].t # t
          /\ \A r \in P : t \notin rarg[r].moved
    BY <1>1, HoldsAlone
  <1>3. PICK w \in Nat, per \in Nat : w = uarg[u].when /\ per = uarg[u].period
    BY <1>1 DEF TimersTypeOK
  <1>4. /\ upc' = [upc EXCEPT ![u] = "modSet"] /\ timersLock[p] = None
        /\ heap' = [heap EXCEPT ![p] = heap[p] \cup {t}] /\ when' = [when EXCEPT ![t] = w]
        /\ timer0When' = [timer0When EXCEPT ![p] = FirstWhen(heap[p] \cup {t}, [when EXCEPT ![t] = w])]
        /\ pp' = [pp EXCEPT ![t] = p]
        /\ period' = [period EXCEPT ![t] = per]
        /\ uarg' = [uarg EXCEPT ![u].old = "Waiting"]
        /\ UNCHANGED <<rpc, rarg, now, status, nextwhen, timersLock, adjustTimers, deletedTimers, answer>>
    BY <1>2, <1>3 DEF ModAdd, UGoto, doaddtimer, SetHeap, KeepRunners
  <1>5. TimersTypeOK'
    <2>1. FirstWhen(heap[p] \cup {t}, [when EXCEPT ![t] = w]) \in Nat
      <3>1. heap[p] \cup {t} \in SUBSET Timer /\ [when EXCEPT ![t] = w] \in [Timer -> Nat]
        BY <1>1 DEF TimersTypeOK
      <3> QED
        BY <3>1, FirstIsLeast
    <2>2. /\ uarg' \in [G -> [t : Timer \cup {None}, p : P \cup {None}, when : Nat, period : Nat, old : Status]]
          /\ upc' \in [G -> {"idle", "deleted", "return"} \cup Adding \cup Modifying]
      <3>1. "Waiting" \in Status /\ "modSet" \in Modifying
        BY DEF Status, Modifying
      <3>2. [uarg[u] EXCEPT !.old = "Waiting"]
              \in [t : Timer \cup {None}, p : P \cup {None}, when : Nat, period : Nat, old : Status]
        <4>1. uarg[u] \in [t : Timer \cup {None}, p : P \cup {None}, when : Nat, period : Nat, old : Status]
          BY <1>1 DEF TimersTypeOK
        <4> QED
          BY <3>1, <4>1
      <3> QED
        BY <1>1, <1>4, <3>1, <3>2 DEF TimersTypeOK
    <2>3. /\ when' \in [Timer -> Nat] /\ period' \in [Timer -> Nat] /\ pp' \in [Timer -> P \cup {None}]
          /\ heap' \in [P -> SUBSET Timer] /\ timer0When' \in [P -> Nat]
      BY <1>1, <1>4, <2>1 DEF TimersTypeOK
    <2> QED
      BY <1>1, <1>4, <2>2, <2>3 DEF TimersTypeOK
  <1>6. /\ status[t] = "Modifying" /\ pp[t] = None /\ \A r \in P : t \notin heap[r]
        /\ rpc[p] \notin Checking /\ upc[u] \notin Adding
    BY <1>1, <1>2, <1>4 DEF TimersInv, UserFits, Adding, Modifying, StatusFits, LockFits
  <1>7. /\ upc'[u] = "modSet" /\ uarg'[u].t = t /\ uarg'[u].p = p /\ uarg'[u].old = "Waiting"
        /\ \A v \in G \ {u} : uarg'[v] = uarg[v] /\ upc'[v] = upc[v]
        /\ pp'[t] = p
    BY <1>1, <1>2, <1>4 DEF TimersTypeOK
  <1>8. Touches(u, t, p)
    BY <1>1, <1>2, <1>4, <1>6, <1>7 DEF Touches, TimersTypeOK
  <1>9. UserFits(u)'
    BY <1>1, <1>2, <1>4, <1>6, <1>7 DEF UserFits, Adding, Modifying, InHeap
  <1>10. StatusFits(t)'
    <2>1. u \in Modifier(t)'
      BY <1>7 DEF Modifier, Modifying
    <2> QED
      BY <1>1, <1>4, <1>6, <2>1 DEF StatusFits, TimersTypeOK, Modified
  <1>11. RoundFits(p)'
    <2>1. RoundFits(p) /\ heap[p] \subseteq heap'[p]
      BY <1>1, <1>4 DEF TimersInv, TimersTypeOK
    <2> QED
      BY <1>4, <2>1 DEF RoundFits
  <1>12. timer0When'[p] = FirstWhen(heap'[p], when')
    BY <1>1, <1>4 DEF TimersTypeOK
  <1>13. \A r \in P : LockFits(r)'
    BY <1>1, <1>4, <1>7, LocksKept DEF TimersTypeOK
  <1>14. ASSUME NEW r \in P
         PROVE  AdjustMoves(u, t, r)
    <2>1. adjustTimers' = adjustTimers /\ PutRight(r)' = PutRight(r)
      BY <1>4 DEF PutRight
    <2>2. t \notin Earlier(r) /\ t \notin Earlier(r)'
      BY <1>4, <1>6 DEF Earlier
    <2>3. u \notin Telling(r) /\ u \notin Telling(r)'
      BY <1>1, <1>7 DEF Telling
    <2> QED
      BY <1>1, <2>1, <2>2, <2>3, CountsKept
  <1> QED
    BY <1>5, <1>8, <1>9, <1>10, <1>11, <1>12, <1>13, <1>14, TouchedOnly

-----------------------------------------------------------------------------
(* A checkTimers takes the lock of its heap, gives it up, or neither.      *)
LEMMA LockStep ==
  ASSUME TimersInv, NEW p \in P, UNCHANGED <<upc, uarg>>,
         \A r \in P \ {p} : rpc'[r] = rpc[r] /\ timersLock'[r] = timersLock[r],
         \/ timersLock[p] = None /\ timersLock'[p] = p /\ rpc'[p] \in Checking
         \/ rpc[p] \in Checking /\ timersLock'[p] = None /\ rpc'[p] \notin Checking
         \/ timersLock'[p] = timersLock[p] /\ (rpc'[p] \in Checking <=> rpc[p] \in Checking)
  PROVE  \A r \in P : LockFits(r)'
  <1> USE NoneAssumption, TimersAssumption
  <1> SUFFICES ASSUME NEW r \in P
               PROVE  LockFits(r)'
    OBVIOUS
  <1>1. LockFits(r)
    BY DEF TimersInv
  <1>2. CASE r # p
    BY <1>1, <1>2 DEF LockFits
  <1>3. CASE r = p
    BY <1>1, <1>3 DEF LockFits
  <1> QED
    BY <1>2, <1>3

(* A checkTimers goes on, and changes no timer.                            *)
LEMMA RoundStep ==
  ASSUME TimersInv, TimersTypeOK', NEW p \in P,
         UNCHANGED <<now, status, when, pp, heap, adjustTimers, upc, uarg, answer>>,
         \A r \in P \ {p} : /\ rpc'[r] = rpc[r] /\ rarg'[r] = rarg[r]
                            /\ timersLock'[r] = timersLock[r] /\ timer0When'[r] = timer0When[r],
         rarg'[p].moved = rarg[p].moved, PutRight(p)' = PutRight(p), RoundFits(p)',
         rpc'[p] # "clear" => timer0When'[p] = FirstWhen(heap[p], when),
         \A r \in P : LockFits(r)'
  PROVE  TimersInv'
  <1> USE NoneAssumption, TimersAssumption
  <1>1. TimersTypeOK
    BY DEF TimersInv
  <1>2. /\ now \in Nat /\ None \notin Timer
        /\ \A r \in P : rarg[r].moved \subseteq Timer /\ heap[r] \subseteq Timer
    BY <1>1 DEF TimersTypeOK
  <1>3. \A v \in G : Owns(v) => uarg[v].t # None
    BY HoldsAlone
  <1>4. Touches(None, None, p)
    BY <1>2, <1>3 DEF Touches
  <1>5. ASSUME NEW r \in P
        PROVE  AdjustMoves(None, None, r)
    <2>1. PutRight(r)' = PutRight(r)
      BY DEF PutRight
    <2>2. None \notin Earlier(r) /\ None \notin Earlier(r)'
      BY <1>2 DEF Earlier
    <2>3. None \notin Telling(r) /\ None \notin Telling(r)'
      BY DEF Telling
    <2> QED
      BY <1>1, <2>1, <2>2, <2>3, CountsKept
  <1> QED
    BY <1>4, <1>5, TouchedOnly

(* checkTimers finds, without the lock, that there is something to do.     *)
LEMMA checkTimersKeeps ==
  ASSUME TimersInv, NEW p \in P, checkTimers(p)
  PROVE  TimersInv'
  <1>1. TimersTypeOK /\ RoundFits(p) /\ CountsFit(p)
    BY DEF TimersInv
  <1>2. PICK r \in [now : Nat, todo : SUBSET Timer, moved : SUBSET Timer, deleted : Nat, earlier : Nat] :
          r = [rarg[p] EXCEPT !.now = now]
    <2>1. now \in Nat /\ rarg[p] \in [now : Nat, todo : SUBSET Timer, moved : SUBSET Timer,
                                        deleted : Nat, earlier : Nat]
      BY <1>1 DEF TimersTypeOK
    <2> QED
      BY <2>1
  <1>3. /\ rpc[p] = "idle" /\ rpc' = [rpc EXCEPT ![p] = "lock"]
        /\ rarg' = [rarg EXCEPT ![p] = r]
        /\ UNCHANGED <<upc, uarg, answer, when, pp, heap, timer0When, timersLock>>
        /\ UNCHANGED <<now, status, nextwhen, period, adjustTimers, deletedTimers>>
    BY <1>2 DEF checkTimers, RGoto, KeepUsers, KeepTimers, KeepHeaps
  <1>4. TimersTypeOK'
    BY <1>1, <1>3 DEF TimersTypeOK
  <1>5. /\ rpc'[p] = "lock" /\ rarg'[p] = r
        /\ \A q \in P \ {p} : rpc'[q] = rpc[q] /\ rarg'[q] = rarg[q]
    BY <1>1, <1>3 DEF TimersTypeOK
  <1>6. /\ r.now = now /\ now \in Nat /\ r.todo = rarg[p].todo /\ r.moved = rarg[p].moved
        /\ r.earlier = rarg[p].earlier
    BY <1>1, <1>2 DEF TimersTypeOK
  <1>7. RoundFits(p)'
    BY <1>1, <1>3, <1>5, <1>6 DEF RoundFits
  <1>8. \A q \in P : LockFits(q)'
    BY <1>3, <1>5, LockStep DEF Checking
  <1>9. PutRight(p)' = PutRight(p) /\ timer0When[p] = FirstWhen(heap[p], when)
    BY <1>1, <1>3, <1>5 DEF PutRight, CountsFit
  <1> QED
    BY <1>3, <1>4, <1>5, <1>6, <1>7, <1>8, <1>9, RoundStep

(* checkTimers takes the lock, and adjusttimers begins if there is         *)
(* something to adjust.                                                    *)
LEMMA LockTimersKeeps ==
  ASSUME TimersInv, NEW p \in P, LockTimers(p)
  PROVE  TimersInv'
  <1> DEFINE todo == IF adjustTimers[p] = 0 THEN {} ELSE heap[p]
             to == IF heap[p] = {} \/ adjustTimers[p] = 0 THEN "run" ELSE "adjust"
  <1>1. TimersTypeOK /\ RoundFits(p) /\ CountsFit(p)
    BY DEF TimersInv
  <1>2. PICK r \in [now : Nat, todo : SUBSET Timer, moved : SUBSET Timer, deleted : Nat, earlier : Nat] :
          r = [rarg[p] EXCEPT !.todo = todo]
    <2>1. todo \in SUBSET Timer
          /\ rarg[p] \in [now : Nat, todo : SUBSET Timer, moved : SUBSET Timer, deleted : Nat, earlier : Nat]
      BY <1>1 DEF TimersTypeOK
    <2> QED
      BY <2>1
  <1>3. /\ rpc[p] = "lock" /\ rpc' = [rpc EXCEPT ![p] = to]
        /\ rarg' = [rarg EXCEPT ![p] = r]
        /\ timersLock[p] = None /\ timersLock' = [timersLock EXCEPT ![p] = p]
        /\ UNCHANGED <<upc, uarg, answer, when, pp, heap, timer0When>>
        /\ UNCHANGED <<now, status, nextwhen, period, adjustTimers, deletedTimers>>
    BY <1>2 DEF LockTimers, RGoto, KeepUsers, KeepTimers, KeepHeaps
  <1>4. /\ r.now = rarg[p].now /\ r.todo = todo /\ r.moved = rarg[p].moved
        /\ r.earlier = rarg[p].earlier
    BY <1>1, <1>2 DEF TimersTypeOK
  <1>5. to \in {"run", "adjust"} /\ todo \subseteq heap[p] /\ (todo # {} => to = "adjust")
    OBVIOUS
  <1> HIDE DEF to, todo
  <1>6. TimersTypeOK'
    BY <1>1, <1>3, <1>5 DEF TimersTypeOK, Checking
  <1>7. /\ rpc'[p] = to /\ rarg'[p] = r /\ timersLock'[p] = p
        /\ \A q \in P \ {p} : rpc'[q] = rpc[q] /\ rarg'[q] = rarg[q] /\ timersLock'[q] = timersLock[q]
    BY <1>1, <1>3 DEF TimersTypeOK
  <1>8. RoundFits(p)'
    BY <1>1, <1>3, <1>4, <1>5, <1>7 DEF RoundFits
  <1>9. \A q \in P : LockFits(q)'
    BY <1>3, <1>5, <1>7, LockStep DEF Checking
  <1>10. PutRight(p)' = PutRight(p) /\ timer0When[p] = FirstWhen(heap[p], when)
    BY <1>1, <1>3, <1>5, <1>7 DEF PutRight, CountsFit
  <1> QED
    BY <1>3, <1>4, <1>6, <1>7, <1>8, <1>9, <1>10, RoundStep

(* adjusttimers is done and runtimer begins.                               *)
LEMMA AdjustDoneKeeps ==
  ASSUME TimersInv, NEW p \in P, AdjustDone(p)
  PROVE  TimersInv'
  <1>1. TimersTypeOK /\ RoundFits(p) /\ CountsFit(p)
    BY DEF TimersInv
  <1>2. PICK rnow \in {rarg[p].now, now} : rarg' = [rarg EXCEPT ![p].now = rnow]
    BY DEF AdjustDone
  <1>3. PICK r \in [now : Nat, todo : SUBSET Timer, moved : SUBSET Timer, deleted : Nat, earlier : Nat] :
          r = [rarg[p] EXCEPT !.now = rnow]
    <2>1. now \in Nat /\ rarg[p] \in [now : Nat, todo : SUBSET Timer, moved : SUBSET Timer,
                                        deleted : Nat, earlier : Nat]
      BY <1>1 DEF TimersTypeOK
    <2> QED
      BY <2>1
  <1>4. /\ rpc[p] = "adjust" /\ rpc' = [rpc EXCEPT ![p] = "run"]
        /\ rarg' = [rarg EXCEPT ![p] = r] /\ rarg[p].todo = {} /\ rarg[p].moved = {}
        /\ UNCHANGED <<upc, uarg, answer, when, pp, heap, timer0When, timersLock>>
        /\ UNCHANGED <<now, status, nextwhen, period, adjustTimers, deletedTimers>>
    BY <1>2, <1>3 DEF AdjustDone, RGoto, KeepUsers, KeepTimers, KeepHeaps
  <1>5. TimersTypeOK'
    BY <1>1, <1>4 DEF TimersTypeOK, Checking
  <1>6. /\ rpc'[p] = "run" /\ rarg'[p] = r
        /\ \A q \in P \ {p} : rpc'[q] = rpc[q] /\ rarg'[q] = rarg[q]
    BY <1>1, <1>4 DEF TimersTypeOK
  <1>7. /\ r.now <= now /\ r.todo = rarg[p].todo /\ r.moved = rarg[p].moved
        /\ r.earlier = rarg[p].earlier
    BY <1>1, <1>3 DEF TimersTypeOK, RoundFits
  <1>8. RoundFits(p)'
    BY <1>1, <1>4, <1>6, <1>7 DEF RoundFits
  <1>9. \A q \in P : LockFits(q)'
    BY <1>4, <1>6, LockStep DEF Checking
  <1>10. PutRight(p)' = PutRight(p) /\ timer0When[p] = FirstWhen(heap[p], when)
    BY <1>1, <1>4, <1>6 DEF PutRight, CountsFit
  <1> QED
    BY <1>4, <1>5, <1>6, <1>7, <1>8, <1>9, <1>10, RoundStep

(* runOneTimer takes the lock again after the call of f.                   *)
LEMMA RelockKeeps ==
  ASSUME TimersInv, NEW p \in P, Relock(p)
  PROVE  TimersInv'
  <1>1. TimersTypeOK /\ RoundFits(p) /\ CountsFit(p)
    BY DEF TimersInv
  <1>2. /\ rpc[p] = "f" /\ rpc' = [rpc EXCEPT ![p] = "run"]
        /\ timersLock[p] = None /\ timersLock' = [timersLock EXCEPT ![p] = p]
        /\ UNCHANGED <<upc, uarg, answer, when, pp, heap, timer0When, rarg>>
        /\ UNCHANGED <<now, status, nextwhen, period, adjustTimers, deletedTimers>>
    BY DEF Relock, RGoto, KeepUsers, KeepTimers, KeepHeaps
  <1>3. TimersTypeOK'
    BY <1>1, <1>2 DEF TimersTypeOK, Checking
  <1>4. /\ rpc'[p] = "run" /\ timersLock'[p] = p
        /\ \A q \in P \ {p} : rpc'[q] = rpc[q] /\ timersLock'[q] = timersLock[q]
    BY <1>1, <1>2 DEF TimersTypeOK
  <1>5. RoundFits(p)'
    BY <1>1, <1>2, <1>4 DEF RoundFits
  <1>6. \A q \in P : LockFits(q)'
    BY <1>2, <1>4, LockStep DEF Checking
  <1>7. PutRight(p)' = PutRight(p) /\ timer0When[p] = FirstWhen(heap[p], when)
    BY <1>1, <1>2, <1>4 DEF PutRight, CountsFit
  <1> QED
    BY <1>2, <1>3, <1>4, <1>5, <1>6, <1>7, RoundStep

(* runtimer finds no timer that is due; checkTimers clears the deleted     *)
(* ones or unlocks.                                                        *)
LEMMA RunDoneKeeps ==
  ASSUME TimersInv, NEW p \in P, RunDone(p)
  PROVE  TimersInv'
  <1>1. TimersTypeOK /\ RoundFits(p) /\ CountsFit(p)
    BY DEF TimersInv
  <1>2. PICK to \in {"unlock", "clear"} :
          /\ rpc[p] = "run" /\ rpc' = [rpc EXCEPT ![p] = to]
          /\ rarg' = IF to = "unlock" THEN rarg ELSE [rarg EXCEPT ![p].todo = heap[p]]
    BY DEF RunDone, RGoto
  <1>3. PICK r \in [now : Nat, todo : SUBSET Timer, moved : SUBSET Timer, deleted : Nat, earlier : Nat] :
          r = IF to = "unlock" THEN rarg[p] ELSE [rarg[p] EXCEPT !.todo = heap[p]]
    <2>1. heap[p] \in SUBSET Timer
          /\ rarg[p] \in [now : Nat, todo : SUBSET Timer, moved : SUBSET Timer, deleted : Nat, earlier : Nat]
      BY <1>1 DEF TimersTypeOK
    <2> QED
      BY <2>1
  <1>4. /\ rarg' = [rarg EXCEPT ![p] = r]
        /\ UNCHANGED <<upc, uarg, answer, when, pp, heap, timer0When, timersLock>>
        /\ UNCHANGED <<now, status, nextwhen, period, adjustTimers, deletedTimers>>
    <2>1. rarg = [rarg EXCEPT ![p] = rarg[p]]
      BY <1>1 DEF TimersTypeOK
    <2> QED
      BY <1>2, <1>3, <2>1 DEF RunDone, KeepUsers, KeepTimers, KeepHeaps
  <1>5. TimersTypeOK'
    <2>1. rpc' \in [P -> {"idle", "lock", "f"} \cup Checking]
      BY <1>1, <1>2 DEF TimersTypeOK, Checking
    <2>2. rarg' \in [P -> [now : Nat, todo : SUBSET Timer, moved : SUBSET Timer, deleted : Nat, earlier : Nat]]
      BY <1>1, <1>4 DEF TimersTypeOK
    <2> QED
      BY <1>1, <1>4, <2>1, <2>2 DEF TimersTypeOK
  <1>6. /\ rpc'[p] = to /\ rarg'[p] = r
        /\ \A q \in P \ {p} : rpc'[q] = rpc[q] /\ rarg'[q] = rarg[q]
    BY <1>1, <1>2, <1>4 DEF TimersTypeOK
  <1>7. /\ r.now = rarg[p].now /\ r.moved = rarg[p].moved /\ r.earlier = rarg[p].earlier
        /\ r.todo = IF to = "unlock" THEN rarg[p].todo ELSE heap[p]
    BY <1>1, <1>3 DEF TimersTypeOK
  <1>8. /\ rarg[p].todo = {} /\ rarg[p].moved = {} /\ rarg[p].earlier = 0 /\ rarg[p].now <= now
    BY <1>1, <1>2 DEF RoundFits
  <1>9. RoundFits(p)'
    BY <1>4, <1>6, <1>7, <1>8 DEF RoundFits
  <1>10. \A q \in P : LockFits(q)'
    BY <1>2, <1>4, <1>6, LockStep DEF Checking
  <1>11. PutRight(p)' = PutRight(p) /\ timer0When[p] = FirstWhen(heap[p], when)
    BY <1>1, <1>2, <1>6, <1>7, <1>8 DEF PutRight, CountsFit
  <1> QED
    BY <1>4, <1>5, <1>6, <1>7, <1>9, <1>10, <1>11, RoundStep

(* The end of checkTimers.                                                 *)
LEMMA UnlockKeeps ==
  ASSUME TimersInv, NEW p \in P, Unlock(p)
  PROVE  TimersInv'
  <1>1. TimersTypeOK /\ RoundFits(p) /\ CountsFit(p)
    BY DEF TimersInv
  <1>2. /\ rpc[p] = "unlock" /\ rpc' = [rpc EXCEPT ![p] = "idle"]
        /\ timersLock' = [timersLock EXCEPT ![p] = None]
        /\ rarg' = [rarg EXCEPT ![p] = NoRound]
        /\ UNCHANGED <<upc, uarg, answer, when, pp, heap, timer0When>>
        /\ UNCHANGED <<now, status, nextwhen, period, adjustTimers, deletedTimers>>
    BY DEF Unlock, RGoto, KeepUsers, KeepTimers, KeepHeaps
  <1>3. TimersTypeOK'
    <2>1. NoRound \in [now : Nat, todo : SUBSET Timer, moved : SUBSET Timer, deleted : Nat, earlier : Nat]
      BY DEF NoRound
    <2> QED
      BY <1>1, <1>2, <2>1 DEF TimersTypeOK
  <1>4. /\ rpc'[p] = "idle" /\ timersLock'[p] = None /\ rarg'[p] = NoRound
        /\ \A q \in P \ {p} : rpc'[q] = rpc[q] /\ rarg'[q] = rarg[q] /\ timersLock'[q] = timersLock[q]
    BY <1>1, <1>2 DEF TimersTypeOK
  <1>5. NoRound.now = 0 /\ NoRound.todo = {} /\ NoRound.moved = {} /\ NoRound.earlier = 0
    BY DEF NoRound
  <1>6. rarg[p].moved = {} /\ now \in Nat
    BY <1>1, <1>2 DEF RoundFits, TimersTypeOK
  <1>7. RoundFits(p)'
    BY <1>2, <1>4, <1>5, <1>6 DEF RoundFits
  <1>8. \A q \in P : LockFits(q)'
    BY <1>2, <1>4, LockStep DEF Checking
  <1>9. PutRight(p)' = PutRight(p) /\ timer0When[p] = FirstWhen(heap[p], when)
    BY <1>1, <1>2, <1>4 DEF PutRight, CountsFit
  <1> QED
    BY <1>2, <1>3, <1>4, <1>5, <1>6, <1>7, <1>8, <1>9, RoundStep

-----------------------------------------------------------------------------
(* A round of the loop of adjusttimers.                                    *)
LEMMA adjusttimersKeeps ==
  ASSUME TimersInv, NEW p \in P, NEW t \in Timer, adjusttimers(p, t)
  PROVE  TimersInv'
  <1> USE NoneAssumption, TimersAssumption
  <1>1. TimersTypeOK /\ RoundFits(p) /\ CountsFit(p) /\ StatusFits(t)
    BY DEF TimersInv
  <1>2. /\ rpc[p] = "adjust" /\ t \in rarg[p].todo /\ t \in heap[p]
        /\ UNCHANGED <<upc, uarg, answer, now, period, timersLock, rpc>>
    BY <1>1 DEF adjusttimers, KeepUsers, RoundFits
  <1>3. /\ rarg[p] \in [now : Nat, todo : SUBSET Timer, moved : SUBSET Timer, deleted : Nat, earlier : Nat]
        /\ rarg \in [P -> [now : Nat, todo : SUBSET Timer, moved : SUBSET Timer, deleted : Nat, earlier : Nat]]
    BY <1>1 DEF TimersTypeOK
  <1>4. /\ pp[t] = p /\ \A r \in P \ {p} : t \notin heap[r]
    BY <1>1, <1>2 DEF StatusFits
  <1>S. StillToVisit(p, t) \subseteq SUBSET (heap[p] \ {t})
    BY <1>1, <1>2 DEF StillToVisit, RoundFits
  <1>5. CASE status[t] = "Waiting" \/ Remove(p, t)
    <2>1. PICK todo \in SUBSET (heap[p] \ {t}) : rarg' = [rarg EXCEPT ![p].todo = todo]
      <3>1. CASE status[t] = "Waiting"
        <4>1. rarg' = [rarg EXCEPT ![p].todo = @ \ {t}]
          BY <3>1 DEF adjusttimers, Remove, Modified
        <4>2. rarg' = [rarg EXCEPT ![p].todo = rarg[p].todo \ {t}]
          BY <4>1
        <4>3. rarg[p].todo \ {t} \in SUBSET (heap[p] \ {t})
          BY <1>1 DEF RoundFits
        <4> QED
          BY <4>2, <4>3
      <3>2. CASE Remove(p, t)
        <4>1. \E todo \in StillToVisit(p, t) : rarg' = [rarg EXCEPT ![p].todo = todo]
          BY <3>2 DEF adjusttimers, Remove, Modified
        <4> QED
          BY <1>S, <4>1
      <3> QED
        BY <1>5, <3>1, <3>2
    <2>2. PICK r \in [now : Nat, todo : SUBSET Timer, moved : SUBSET Timer, deleted : Nat, earlier : Nat] :
            r = [rarg[p] EXCEPT !.todo = todo]
      <3>1. todo \subseteq Timer
        BY <1>1 DEF TimersTypeOK
      <3> QED
        BY <1>3, <3>1
    <2>3. rarg' = [rarg EXCEPT ![p] = r]
      BY <2>1, <2>2
    <2>4. rarg' \in [P -> [now : Nat, todo : SUBSET Timer, moved : SUBSET Timer, deleted : Nat, earlier : Nat]]
      BY <1>3, <2>3
    <2>5. /\ r.now = rarg[p].now /\ r.todo \subseteq heap[p] \ {t} /\ r.moved = rarg[p].moved
          /\ r.earlier = rarg[p].earlier
      BY <1>3, <2>2
    <2>6. rarg'[p] = r /\ \A q \in P \ {p} : rarg'[q] = rarg[q]
      BY <1>3, <2>3
    <2>7. CASE status[t] = "Waiting"
      <3>1. UNCHANGED <<when, pp, heap, timer0When, status, nextwhen, adjustTimers, deletedTimers>>
        BY <2>7 DEF adjusttimers, Remove, Modified, KeepHeaps
      <3>2. TimersTypeOK'
        BY <1>1, <1>2, <2>4, <3>1 DEF TimersTypeOK
      <3>3. RoundFits(p)'
        BY <1>1, <1>2, <2>5, <2>6, <3>1 DEF RoundFits
      <3>4. \A q \in P : LockFits(q)'
        BY <1>2, LockStep
      <3>5. PutRight(p)' = PutRight(p) /\ timer0When[p] = FirstWhen(heap[p], when)
        BY <1>1, <1>2 DEF PutRight, CountsFit
      <3> QED
        BY <1>2, <2>5, <2>6, <3>1, <3>2, <3>3, <3>4, <3>5, RoundStep
    <2>8. CASE Remove(p, t)
      <3>1. TimersTypeOK'
        BY <1>1, <1>2, <2>4, <2>8, FirstTypeOK
      <3>2. ForRound(p, t)
        BY <1>2, <2>5, <2>6 DEF ForRound
      <3> QED
        BY <1>2, <2>8, <3>1, <3>2, RemoveKeeps
    <2> QED
      BY <1>5, <2>7, <2>8
  <1>6. CASE status[t] \in Modified
    <2> DEFINE earlier == IF status[t] = "ModifiedEarlier" THEN 1 ELSE 0
    <2>V. PICK todo \in SUBSET (heap[p] \ {t}) :
            rarg' = [rarg EXCEPT ![p].todo = todo, ![p].moved = @ \cup {t}]
      <3>1. \E todo \in IF status[t] = "ModifiedEarlier" /\ adjustTimers[p] <= 1 THEN {{}} ELSE StillToVisit(p, t) :
              rarg' = [rarg EXCEPT ![p].todo = todo, ![p].moved = @ \cup {t}]
        BY <1>6 DEF adjusttimers, Remove, Modified
      <3> QED
        BY <1>S, <3>1
    <2>1. PICK r \in [now : Nat, todo : SUBSET Timer, moved : SUBSET Timer, deleted : Nat, earlier : Nat] :
            r = [rarg[p] EXCEPT !.todo = todo, !.moved = @ \cup {t}]
      <3>1. todo \subseteq Timer
        BY <1>1 DEF TimersTypeOK
      <3> QED
        BY <1>3, <3>1
    <2>2. /\ r.now = rarg[p].now /\ r.todo \subseteq heap[p] \ {t} /\ r.moved = rarg[p].moved \cup {t}
          /\ r.earlier = rarg[p].earlier
      BY <1>3, <2>1
    <2>3. /\ status' = [status EXCEPT ![t] = "Moving"]
          /\ heap' = [heap EXCEPT ![p] = heap[p] \ {t}] /\ when' = when
          /\ timer0When' = [timer0When EXCEPT ![p] = FirstWhen(heap[p] \ {t}, when)]
          /\ pp' = [pp EXCEPT ![t] = None]
          /\ adjustTimers' = [adjustTimers EXCEPT ![p] = @ - earlier]
          /\ UNCHANGED <<nextwhen, deletedTimers>>
      BY <1>6 DEF adjusttimers, Remove, Modified, SetStatus, dodeltimer, SetHeap, IfThen
    <2>4. rarg' = [rarg EXCEPT ![p] = r]
      BY <1>3, <2>1, <2>V
    <2> HIDE DEF earlier
    <2>5. rarg'[p] = r /\ \A q \in P \ {p} : rarg'[q] = rarg[q]
      BY <1>3, <2>4
    <2>6. TimersTypeOK'
      <3>1. FirstWhen(heap[p] \ {t}, when) \in Nat
        BY <1>1, FirstIsLeast DEF TimersTypeOK
      <3>2. /\ status' \in [Timer -> Status] /\ heap' \in [P -> SUBSET Timer]
            /\ timer0When' \in [P -> Nat] /\ pp' \in [Timer -> P \cup {None}]
        BY <1>1, <2>3, <3>1 DEF TimersTypeOK, Status
      <3>3. adjustTimers' \in [P -> Int]
        <4>1. adjustTimers \in [P -> Int] /\ earlier \in Int
          BY <1>1 DEF TimersTypeOK, earlier
        <4> QED
          BY <2>3, <4>1
      <3>4. rarg' \in [P -> [now : Nat, todo : SUBSET Timer, moved : SUBSET Timer, deleted : Nat, earlier : Nat]]
        BY <1>3, <2>4
      <3> QED
        BY <1>1, <1>2, <2>3, <3>2, <3>3, <3>4 DEF TimersTypeOK
    <2>7. /\ \A v \in G : Owns(v) => uarg[v].t # t
          /\ \A q \in P : t \notin rarg[q].moved
      BY <1>6, NotHeld, NotMoved DEF Modified
    <2>8. /\ status'[t] = "Moving" /\ pp'[t] = None /\ heap'[p] = heap[p] \ {t}
          /\ \A s \in Timer \ {t} : status'[s] = status[s] /\ pp'[s] = pp[s]
          /\ \A q \in P \ {p} : heap'[q] = heap[q] /\ timer0When'[q] = timer0When[q]
          /\ timer0When'[p] = FirstWhen(heap[p] \ {t}, when)
      BY <1>1, <2>3 DEF TimersTypeOK
    <2>9. Touches(None, t, p)
      <3>1. now \in Nat
        BY <1>1 DEF TimersTypeOK
      <3> QED
        BY <1>2, <2>2, <2>3, <2>5, <2>7, <2>8, <3>1 DEF Touches
    <2>10. StatusFits(t)'
      BY <1>4, <2>8 DEF StatusFits, Modified
    <2>11. RoundFits(p)'
      <3>1. ASSUME NEW s \in r.moved
            PROVE  status'[s] = "Moving" /\ \A q \in P \ {p} : s \notin rarg'[q].moved
        <4>1. CASE s = t
          BY <2>5, <2>7, <2>8, <4>1
        <4>2. CASE s # t
          BY <1>1, <1>3, <2>2, <2>5, <2>8, <4>2 DEF RoundFits
        <4> QED
          BY <4>1, <4>2
      <3> QED
        BY <1>1, <1>2, <2>2, <2>5, <2>8, <3>1 DEF RoundFits
    <2>12. \A q \in P : LockFits(q)'
      BY <1>2, LockStep
    <2>13. ASSUME NEW q \in P
           PROVE  AdjustMoves(None, t, q)
      <3>1. PutRight(q)' = PutRight(q) /\ PutRight(q) \in Int /\ adjustTimers[q] \in Int /\ adjustTimers \in [P -> Int]
        <4>1. adjustTimers \in [P -> Int] /\ PutRight(q) \in Int
          BY <1>1, <1>3 DEF PutRight, TimersTypeOK
        <4>2. PutRight(q)' = PutRight(q)
          BY <1>2, <2>2, <2>5 DEF PutRight
        <4> QED
          BY <4>1, <4>2
      <3>2. t \notin Earlier(q)' /\ (t \in Earlier(q) <=> q = p /\ status[t] = "ModifiedEarlier")
        BY <1>2, <1>4, <2>8 DEF Earlier
      <3>3. None \notin Telling(q) /\ None \notin Telling(q)'
        BY DEF Telling
      <3>4. adjustTimers'[q] = adjustTimers[q] - (IF q = p /\ status[t] = "ModifiedEarlier" THEN 1 ELSE 0)
        <4>1. CASE q = p
          BY <2>3, <3>1, <4>1 DEF earlier
        <4>2. CASE q # p
          BY <2>3, <3>1, <4>2
        <4> QED
          BY <4>1, <4>2
      <3> QED
        BY <3>1, <3>2, <3>3, <3>4 DEF AdjustMoves, In
    <2> QED
      BY <2>6, <2>8, <2>9, <2>10, <2>11, <2>12, <2>13, <2>3, TouchedOnly
  <1> QED
    BY <1>5, <1>6 DEF adjusttimers

(* A timer that adjusttimers has taken out is put back at its new time.    *)
LEMMA addAdjustedTimersKeeps ==
  ASSUME TimersInv, NEW p \in P, NEW t \in Timer, addAdjustedTimers(p, t)
  PROVE  TimersInv'
  <1> USE NoneAssumption, TimersAssumption
  <1>1. TimersTypeOK /\ RoundFits(p) /\ CountsFit(p) /\ StatusFits(t)
    BY DEF TimersInv
  <1>2. PICK w \in Nat : w = nextwhen[t]
    BY <1>1 DEF TimersTypeOK
  <1>3. rarg \in [P -> [now : Nat, todo : SUBSET Timer, moved : SUBSET Timer, deleted : Nat, earlier : Nat]]
    BY <1>1 DEF TimersTypeOK
  <1>4. PICK r \in [now : Nat, todo : SUBSET Timer, moved : SUBSET Timer, deleted : Nat, earlier : Nat] :
          r = [rarg[p] EXCEPT !.moved = @ \ {t}]
    <2>1. rarg[p] \in [now : Nat, todo : SUBSET Timer, moved : SUBSET Timer, deleted : Nat, earlier : Nat]
      BY <1>3
    <2> QED
      BY <2>1
  <1>5. /\ rpc[p] = "adjust" /\ rarg[p].todo = {} /\ t \in rarg[p].moved
        /\ heap' = [heap EXCEPT ![p] = heap[p] \cup {t}] /\ when' = [when EXCEPT ![t] = w]
        /\ timer0When' = [timer0When EXCEPT ![p] = FirstWhen(heap[p] \cup {t}, [when EXCEPT ![t] = w])]
        /\ pp' = [pp EXCEPT ![t] = p] /\ nextwhen' = [nextwhen EXCEPT ![t] = 0]
        /\ status' = [status EXCEPT ![t] = "Waiting"] /\ rarg' = [rarg EXCEPT ![p] = r]
        /\ UNCHANGED <<upc, uarg, answer, now, period, timersLock, adjustTimers, deletedTimers, rpc>>
    BY <1>2, <1>4 DEF addAdjustedTimers, doaddtimer, SetHeap, NextwhenUsed, SetStatus, KeepUsers
  <1>6. /\ r.now = rarg[p].now /\ r.todo = rarg[p].todo /\ r.moved = rarg[p].moved \ {t}
        /\ r.earlier = rarg[p].earlier
    BY <1>3, <1>4
  <1>7. /\ status[t] = "Moving" /\ pp[t] = None /\ \A q \in P : t \notin heap[q]
        /\ \A q \in P \ {p} : t \notin rarg[q].moved
        /\ \A v \in G : Owns(v) => uarg[v].t # t
    BY <1>1, <1>5, NotHeld DEF RoundFits, StatusFits
  <1>8. TimersTypeOK'
    <2>1. FirstWhen(heap[p] \cup {t}, [when EXCEPT ![t] = w]) \in Nat
      <3>1. heap[p] \cup {t} \in SUBSET Timer /\ [when EXCEPT ![t] = w] \in [Timer -> Nat]
        BY <1>1 DEF TimersTypeOK
      <3> QED
        BY <3>1, FirstIsLeast
    <2>2. /\ status' \in [Timer -> Status] /\ heap' \in [P -> SUBSET Timer]
          /\ timer0When' \in [P -> Nat] /\ pp' \in [Timer -> P \cup {None}]
      BY <1>1, <1>5, <2>1 DEF TimersTypeOK, Status
    <2>3. /\ when' \in [Timer -> Nat] /\ nextwhen' \in [Timer -> Nat]
          /\ rarg' \in [P -> [now : Nat, todo : SUBSET Timer, moved : SUBSET Timer, deleted : Nat, earlier : Nat]]
      BY <1>1, <1>5 DEF TimersTypeOK
    <2> QED
      BY <1>1, <1>5, <2>2, <2>3 DEF TimersTypeOK
  <1>9. /\ status'[t] = "Waiting" /\ pp'[t] = p /\ heap'[p] = heap[p] \cup {t}
        /\ \A s \in Timer \ {t} : status'[s] = status[s] /\ pp'[s] = pp[s] /\ when'[s] = when[s]
        /\ \A q \in P \ {p} : heap'[q] = heap[q] /\ timer0When'[q] = timer0When[q] /\ rarg'[q] = rarg[q]
        /\ timer0When'[p] = FirstWhen(heap'[p], when') /\ rarg'[p] = r
    BY <1>1, <1>5 DEF TimersTypeOK
  <1>10. Touches(None, t, p)
    <2>1. now \in Nat
      BY <1>1 DEF TimersTypeOK
    <2> QED
      BY <1>5, <1>6, <1>7, <1>9, <2>1 DEF Touches
  <1>11. StatusFits(t)'
    BY <1>7, <1>9 DEF StatusFits, Modified
  <1>12. RoundFits(p)'
    BY <1>1, <1>3, <1>5, <1>6, <1>9 DEF RoundFits
  <1>13. \A q \in P : LockFits(q)'
    BY <1>5, LockStep
  <1>14. ASSUME NEW q \in P
         PROVE  AdjustMoves(None, t, q)
    <2>1. adjustTimers' = adjustTimers /\ PutRight(q)' = PutRight(q)
      BY <1>5, <1>6, <1>9 DEF PutRight
    <2>2. t \notin Earlier(q) /\ t \notin Earlier(q)'
      BY <1>7, <1>9 DEF Earlier
    <2>3. None \notin Telling(q) /\ None \notin Telling(q)'
      BY DEF Telling
    <2> QED
      BY <1>1, <2>1, <2>2, <2>3, CountsKept
  <1> QED
    BY <1>8, <1>9, <1>10, <1>11, <1>12, <1>13, <1>14, TouchedOnly

-----------------------------------------------------------------------------
(* The next time of a ticker is a time.                                    *)
LEMMA NextPeriodIsTime ==
  ASSUME TimersTypeOK, NEW t \in Timer, NEW n \in Nat, when[t] <= n, period[t] > 0
  PROVE  NextPeriod(t, n) \in Nat
  <1>1. PICK w \in Nat, per \in Nat \ {0} : w = when[t] /\ per = period[t]
    BY DEF TimersTypeOK
  <1>2. PICK k \in Nat : k = 1 + (n - w) \div per
    <2>1. n - w \in Nat
      BY <1>1
    <2>2. (n - w) \div per \in Nat
      BY <2>1
    <2> QED
      BY <2>2
  <1>3. per * k \in Nat
    OBVIOUS
  <1> QED
    BY <1>1, <1>2, <1>3 DEF NextPeriod

(* runOneTimer takes the timer out, or sets it to its next period, and     *)
(* unlocks.                                                                *)
LEMMA runOneTimerKeeps ==
  ASSUME TimersInv, NEW p \in P, NEW t \in Timer, runOneTimer(p, t)
  PROVE  TimersInv'
  <1> USE NoneAssumption, TimersAssumption
  <1>1. TimersTypeOK /\ RoundFits(p) /\ CountsFit(p) /\ StatusFits(t)
    BY DEF TimersInv
  <1>2. /\ t \in heap[p] /\ status[t] = "Waiting" /\ when[t] <= rarg[p].now
        /\ rpc[p] = "run" /\ rpc' = [rpc EXCEPT ![p] = "f"]
        /\ timersLock' = [timersLock EXCEPT ![p] = None]
        /\ UNCHANGED <<upc, uarg, answer, now, nextwhen, period, adjustTimers, deletedTimers, rarg>>
    BY DEF runOneTimer, RGoto, KeepUsers, First, Least
  <1>3. /\ pp[t] = p /\ \A r \in P \ {p} : t \notin heap[r]
        /\ \A v \in G : Owns(v) => uarg[v].t # t
        /\ \A r \in P : t \notin rarg[r].moved
    BY <1>1, <1>2, NotHeld, NotMoved DEF StatusFits
  <1>4. /\ rpc'[p] = "f" /\ timersLock'[p] = None
        /\ \A q \in P \ {p} : rpc'[q] = rpc[q] /\ timersLock'[q] = timersLock[q]
    BY <1>1, <1>2 DEF TimersTypeOK
  <1>5. \A q \in P : LockFits(q)'
    BY <1>2, <1>4, LockStep DEF Checking
  <1>6. /\ rpc' \in [P -> {"idle", "lock", "f"} \cup Checking]
        /\ timersLock' \in [P -> P \cup G \cup {None}]
    BY <1>1, <1>2 DEF TimersTypeOK
  <1>7. rarg[p].todo = {} /\ rarg[p].moved = {} /\ rarg[p].earlier = 0 /\ rarg[p].now <= now /\ now \in Nat
    BY <1>1, <1>2 DEF RoundFits, TimersTypeOK
  <1>8. RoundFits(p)'
    BY <1>2, <1>4, <1>7 DEF RoundFits
  <1>9. ASSUME NEW q \in P, t \notin Earlier(q)'
        PROVE  AdjustMoves(None, t, q)
    <2>1. PutRight(q)' = PutRight(q)
      BY <1>2, <1>4 DEF PutRight
    <2>2. t \notin Earlier(q)
      BY <1>2 DEF Earlier
    <2>3. None \notin Telling(q) /\ None \notin Telling(q)'
      BY DEF Telling
    <2> QED
      BY <1>1, <1>2, <1>9, <2>1, <2>2, <2>3, CountsKept
  <1>10. CASE period[t] > 0
    <2>1. PICK w \in Nat : w = NextPeriod(t, rarg[p].now)
      <3>1. rarg[p].now \in Nat
        BY <1>1 DEF TimersTypeOK
      <3> QED
        BY <1>1, <1>2, <1>10, <3>1, NextPeriodIsTime
    <2>2. /\ heap' = [heap EXCEPT ![p] = heap[p]] /\ when' = [when EXCEPT ![t] = w]
          /\ timer0When' = [timer0When EXCEPT ![p] = FirstWhen(heap[p], [when EXCEPT ![t] = w])]
          /\ UNCHANGED <<pp, status>>
      BY <1>10, <2>1 DEF runOneTimer, SetHeap
    <2>3. /\ heap' = heap /\ timer0When'[p] = FirstWhen(heap'[p], when')
          /\ \A s \in Timer \ {t} : when'[s] = when[s]
          /\ \A q \in P \ {p} : timer0When'[q] = timer0When[q]
      BY <1>1, <2>2 DEF TimersTypeOK
    <2>4. TimersTypeOK'
      <3>1. FirstWhen(heap[p], [when EXCEPT ![t] = w]) \in Nat
        <4>1. heap[p] \in SUBSET Timer /\ [when EXCEPT ![t] = w] \in [Timer -> Nat]
          BY <1>1 DEF TimersTypeOK
        <4> QED
          BY <4>1, FirstIsLeast
      <3>2. timer0When' \in [P -> Nat] /\ when' \in [Timer -> Nat]
        BY <1>1, <2>2, <3>1 DEF TimersTypeOK
      <3> QED
        BY <1>1, <1>2, <1>6, <2>2, <2>3, <3>2 DEF TimersTypeOK
    <2>5. Touches(None, t, p)
      BY <1>2, <1>3, <1>4, <1>7, <2>2, <2>3 DEF Touches
    <2>6. StatusFits(t)'
      BY <1>2, <1>3, <2>2, <2>3, <1>1 DEF StatusFits, Modified
    <2>7. ASSUME NEW q \in P
          PROVE  AdjustMoves(None, t, q)
      <3>1. t \notin Earlier(q)'
        BY <1>2, <2>2 DEF Earlier
      <3> QED
        BY <1>9, <3>1
    <2> QED
      BY <1>5, <1>8, <2>3, <2>4, <2>5, <2>6, <2>7, TouchedOnly
  <1>11. CASE ~(period[t] > 0)
    <2>1. /\ heap' = [heap EXCEPT ![p] = heap[p] \ {t}] /\ when' = when
          /\ timer0When' = [timer0When EXCEPT ![p] = FirstWhen(heap[p] \ {t}, when)]
          /\ pp' = [pp EXCEPT ![t] = None] /\ status' = [status EXCEPT ![t] = "NoStatus"]
      BY <1>11 DEF runOneTimer, dodeltimer, SetHeap, SetStatus
    <2>2. /\ heap'[p] = heap[p] \ {t} /\ timer0When'[p] = FirstWhen(heap'[p], when')
          /\ status'[t] = "NoStatus" /\ pp'[t] = None
          /\ \A s \in Timer \ {t} : status'[s] = status[s] /\ pp'[s] = pp[s]
          /\ \A q \in P \ {p} : timer0When'[q] = timer0When[q] /\ heap'[q] = heap[q]
      BY <1>1, <2>1 DEF TimersTypeOK
    <2>3. TimersTypeOK'
      <3>1. FirstWhen(heap[p] \ {t}, when) \in Nat
        BY <1>1, FirstIsLeast DEF TimersTypeOK
      <3>2. /\ status' \in [Timer -> Status] /\ heap' \in [P -> SUBSET Timer]
            /\ timer0When' \in [P -> Nat] /\ pp' \in [Timer -> P \cup {None}]
        BY <1>1, <2>1, <3>1 DEF TimersTypeOK, Status
      <3> QED
        BY <1>1, <1>2, <1>6, <2>1, <3>2 DEF TimersTypeOK
    <2>4. Touches(None, t, p)
      BY <1>2, <1>3, <1>4, <1>7, <2>1, <2>2 DEF Touches
    <2>5. StatusFits(t)'
      BY <1>3, <2>2 DEF StatusFits, Modified
    <2>6. ASSUME NEW q \in P
          PROVE  AdjustMoves(None, t, q)
      <3>1. t \notin Earlier(q)'
        BY <2>2 DEF Earlier
      <3> QED
        BY <1>9, <3>1
    <2> QED
      BY <1>5, <1>8, <2>2, <2>3, <2>4, <2>5, <2>6, TouchedOnly
  <1> QED
    BY <1>10, <1>11

(* The end of clearDeletedTimers: the counts are put right at once.        *)
LEMMA ClearDoneKeeps ==
  ASSUME TimersInv, NEW p \in P, ClearDone(p)
  PROVE  TimersInv'
  <1> USE NoneAssumption, TimersAssumption
  <1>1. TimersTypeOK /\ RoundFits(p)
    BY DEF TimersInv
  <1>2. PICK k \in Nat, d \in Nat : k = rarg[p].earlier /\ d = rarg[p].deleted
    BY <1>1 DEF TimersTypeOK
  <1>3. /\ rpc[p] = "clear" /\ rpc' = [rpc EXCEPT ![p] = "unlock"] /\ rarg[p].todo = {}
        /\ deletedTimers' = [deletedTimers EXCEPT ![p] = @ - d]
        /\ adjustTimers' = [adjustTimers EXCEPT ![p] = @ - k]
        /\ timer0When' = [timer0When EXCEPT ![p] = FirstWhen(heap[p], when)]
        /\ UNCHANGED <<upc, uarg, answer, now, status, when, nextwhen, period, pp, heap, timersLock, rarg>>
    BY <1>2 DEF ClearDone, RGoto, KeepUsers
  <1>4. TimersTypeOK'
    <2>1. FirstWhen(heap[p], when) \in Nat
      BY <1>1, FirstIsLeast DEF TimersTypeOK
    <2>2. adjustTimers' \in [P -> Int] /\ deletedTimers' \in [P -> Int]
      <3>1. adjustTimers \in [P -> Int] /\ deletedTimers \in [P -> Int]
        BY <1>1 DEF TimersTypeOK
      <3> QED
        BY <1>3, <3>1
    <2>3. timer0When' \in [P -> Nat] /\ rpc' \in [P -> {"idle", "lock", "f"} \cup Checking]
      BY <1>1, <1>3, <2>1 DEF TimersTypeOK, Checking
    <2> QED
      BY <1>1, <1>3, <2>2, <2>3 DEF TimersTypeOK
  <1>5. /\ rpc'[p] = "unlock" /\ timer0When'[p] = FirstWhen(heap[p], when)
        /\ adjustTimers'[p] = adjustTimers[p] - k /\ adjustTimers[p] \in Int
        /\ \A q \in P \ {p} : /\ rpc'[q] = rpc[q] /\ timer0When'[q] = timer0When[q]
                              /\ adjustTimers'[q] = adjustTimers[q]
    BY <1>1, <1>3 DEF TimersTypeOK
  <1>6. /\ now \in Nat /\ None \notin Timer
        /\ \A r \in P : rarg[r].moved \subseteq Timer /\ heap[r] \subseteq Timer
    BY <1>1 DEF TimersTypeOK
  <1>7. \A v \in G : Owns(v) => uarg[v].t # None
    BY HoldsAlone
  <1>8. Touches(None, None, p)
    BY <1>3, <1>5, <1>6, <1>7 DEF Touches
  <1>9. RoundFits(p)'
    BY <1>1, <1>3, <1>5 DEF RoundFits
  <1>10. \A q \in P : LockFits(q)'
    BY <1>3, <1>5, LockStep DEF Checking
  <1>11. ASSUME NEW r \in P
         PROVE  AdjustMoves(None, None, r)
    <2>1. None \notin Earlier(r) /\ None \notin Earlier(r)' /\ None \notin Telling(r) /\ None \notin Telling(r)'
      BY <1>3, <1>6 DEF Earlier, Telling
    <2>2. CASE r = p
      <3>1. PutRight(p) = k /\ PutRight(p)' = 0
        BY <1>2, <1>3, <1>5 DEF PutRight
      <3> QED
        BY <1>5, <2>1, <2>2, <3>1 DEF AdjustMoves, In
    <2>3. CASE r # p
      <3>1. PutRight(r)' = PutRight(r)
        BY <1>3, <1>5, <2>3 DEF PutRight
      <3> QED
        BY <1>1, <1>5, <2>1, <2>3, <3>1, CountsKept
    <2> QED
      BY <2>2, <2>3
  <1> QED
    BY <1>3, <1>4, <1>5, <1>8, <1>9, <1>10, <1>11, TouchedOnly

(* The time goes on.                                                       *)
LEMMA TickKeeps ==
  ASSUME TimersInv, Tick
  PROVE  TimersInv'
  <1> USE NoneAssumption, TimersAssumption
  <1>1. TimersTypeOK
    BY DEF TimersInv
  <1>2. /\ now \in Nat /\ now' = now + 1
        /\ UNCHANGED <<upc, uarg, answer, rpc, rarg, when, pp, heap, timer0When>>
        /\ UNCHANGED <<status, nextwhen, period, timersLock, adjustTimers, deletedTimers>>
    BY <1>1 DEF Tick, KeepUsers, KeepRunners, KeepHeaps, TimersTypeOK
  <1>3. TimersTypeOK'
    <2>1. now' \in Nat
      BY <1>2
    <2> QED
      BY <1>1, <1>2, <2>1 DEF TimersTypeOK
  <1>4. /\ None \notin Timer
        /\ \A r \in P : rarg[r].moved \subseteq Timer /\ heap[r] \subseteq Timer
    BY <1>1 DEF TimersTypeOK
  <1>5. \A v \in G : Owns(v) => uarg[v].t # None
    BY HoldsAlone
  <1>6. None \notin P
    OBVIOUS
  <1>7. Touches(None, None, None)
    BY <1>2, <1>4, <1>5 DEF Touches
  <1>8. \A q \in P : LockFits(q)'
    BY <1>2, LocksKept
  <1>9. ASSUME NEW r \in P
        PROVE  AdjustMoves(None, None, r)
    <2>1. PutRight(r)' = PutRight(r) /\ Earlier(r)' = Earlier(r) /\ Telling(r)' = Telling(r)
      BY <1>2 DEF PutRight, Earlier, Telling
    <2> QED
      BY <1>1, <1>2, <2>1, CountsKept
  <1> QED
    BY <1>3, <1>4, <1>6, <1>7, <1>8, <1>9, TouchedOnly

-----------------------------------------------------------------------------
(* A round of clearDeletedTimers, which leaves the heap, but for t, and    *)
(* the counts alone.                                                       *)
LEMMA ClearStep ==
  ASSUME TimersInv, NEW p \in P, NEW t \in heap[p], NEW s \in {"Waiting", "Removed"}, NEW k \in {0, 1},
         NEW r \in [now : Nat, todo : SUBSET Timer, moved : SUBSET Timer, deleted : Nat, earlier : Nat],
         rpc[p] = "clear", status[t] \in Modified \cup {"Waiting", "Deleted"},
         status' = [status EXCEPT ![t] = s],
         \/ s = "Waiting" /\ heap' = heap /\ pp' = pp
         \/ s = "Removed" /\ heap' = [heap EXCEPT ![p] = @ \ {t}] /\ pp' = [pp EXCEPT ![t] = None],
         \A x \in Timer \ {t} : when'[x] = when[x],
         when' \in [Timer -> Nat], nextwhen' \in [Timer -> Nat],
         rarg' = [rarg EXCEPT ![p] = r],
         r.now = rarg[p].now, r.todo = rarg[p].todo \ {t}, r.moved = rarg[p].moved, r.earlier = rarg[p].earlier + k,
         k = 1 <=> status[t] = "ModifiedEarlier",
         UNCHANGED <<upc, uarg, answer, now, period, timersLock, adjustTimers, deletedTimers, timer0When, rpc>>
  PROVE  TimersInv'
  <1> USE NoneAssumption, TimersAssumption
  <1>1. TimersTypeOK /\ RoundFits(p) /\ t \in Timer
    BY DEF TimersInv, TimersTypeOK
  <1>2. StatusFits(t)
    BY <1>1 DEF TimersInv
  <1>3. /\ pp[t] = p /\ \A q \in P \ {p} : t \notin heap[q]
        /\ \A v \in G : Owns(v) => uarg[v].t # t
        /\ \A q \in P : t \notin rarg[q].moved
    BY <1>1, <1>2, NotHeld, NotMoved DEF StatusFits, Modified
  <1>4. /\ status'[t] = s /\ \A x \in Timer \ {t} : status'[x] = status[x] /\ pp'[x] = pp[x]
        /\ heap'[p] = IF s = "Waiting" THEN heap[p] ELSE heap[p] \ {t}
        /\ pp'[t] = IF s = "Waiting" THEN p ELSE None
        /\ rarg'[p] = r
        /\ \A q \in P \ {p} : heap'[q] = heap[q] /\ rarg'[q] = rarg[q]
    BY <1>1, <1>3 DEF TimersTypeOK
  <1>5. TimersTypeOK'
    <2>1. /\ status' \in [Timer -> Status] /\ heap' \in [P -> SUBSET Timer]
          /\ pp' \in [Timer -> P \cup {None}]
      <3>1. /\ status \in [Timer -> Status] /\ heap \in [P -> SUBSET Timer]
            /\ pp \in [Timer -> P \cup {None}] /\ s \in Status
        BY <1>1 DEF TimersTypeOK, Status
      <3> QED
        BY <1>1, <3>1
    <2>2. rarg' \in [P -> [now : Nat, todo : SUBSET Timer, moved : SUBSET Timer, deleted : Nat, earlier : Nat]]
      BY <1>1 DEF TimersTypeOK
    <2> QED
      BY <1>1, <2>1, <2>2 DEF TimersTypeOK
  <1>6. Touches(None, t, p)
    <2>1. now \in Nat
      BY <1>1 DEF TimersTypeOK
    <2> QED
      BY <1>3, <1>4, <2>1 DEF Touches
  <1>7. StatusFits(t)'
    BY <1>2, <1>3, <1>4 DEF StatusFits, Modified
  <1>8. RoundFits(p)'
    BY <1>1, <1>4 DEF RoundFits
  <1>9. \A q \in P : LockFits(q)'
    BY LockStep
  <1>10. ASSUME NEW q \in P
         PROVE  AdjustMoves(None, t, q)
    <2>1. None \notin Telling(q) /\ None \notin Telling(q)'
      BY DEF Telling
    <2>2. t \notin Earlier(q)'
      BY <1>4 DEF Earlier
    <2>3. t \in Earlier(q) <=> q = p /\ k = 1
      BY <1>3 DEF Earlier
    <2>4. adjustTimers[q] \in Int /\ rarg[q].earlier \in Nat
      BY <1>1 DEF TimersTypeOK
    <2>5. CASE q = p
      <3>1. PutRight(p)' = PutRight(p) + k /\ PutRight(p) \in Nat
        BY <1>4, <2>4, <2>5 DEF PutRight
      <3> QED
        BY <2>1, <2>2, <2>3, <2>4, <2>5, <3>1 DEF AdjustMoves, In
    <2>6. CASE q # p
      <3>1. PutRight(q)' = PutRight(q)
        BY <1>4, <2>6 DEF PutRight
      <3> QED
        BY <1>1, <2>1, <2>2, <2>3, <2>6, <3>1, CountsKept
    <2> QED
      BY <2>5, <2>6
  <1> QED
    BY <1>1, <1>5, <1>6, <1>7, <1>8, <1>9, <1>10, TouchedOnly

(* A round of the loop of clearDeletedTimers, which owes the counts.       *)
LEMMA clearDeletedTimersKeeps ==
  ASSUME TimersInv, NEW p \in P, NEW t \in Timer, clearDeletedTimers(p, t)
  PROVE  TimersInv'
  <1> USE NoneAssumption, TimersAssumption
  <1>1. TimersTypeOK /\ RoundFits(p) /\ CountsFit(p)
    BY DEF TimersInv
  <1>2. /\ rpc[p] = "clear" /\ t \in rarg[p].todo /\ t \in heap[p]
        /\ UNCHANGED <<upc, uarg, answer, now, period, timersLock, adjustTimers, deletedTimers, timer0When, rpc>>
    BY <1>1 DEF clearDeletedTimers, KeepUsers, RoundFits
  <1>3. PICK a \in [now : Nat, todo : SUBSET Timer, moved : SUBSET Timer, deleted : Nat, earlier : Nat] : a = rarg[p]
    BY <1>1 DEF TimersTypeOK
  <1>4. CASE status[t] = "Waiting"
    <2>1. PICK r \in [now : Nat, todo : SUBSET Timer, moved : SUBSET Timer, deleted : Nat, earlier : Nat] :
            r = [a EXCEPT !.todo = @ \ {t}]
      OBVIOUS
    <2>2. rarg' = [rarg EXCEPT ![p] = r] /\ UNCHANGED <<status, when, nextwhen, pp, heap>>
      BY <1>3, <1>4, <2>1 DEF clearDeletedTimers, Modified
    <2>3. /\ status' = [status EXCEPT ![t] = "Waiting"]
          /\ when' \in [Timer -> Nat] /\ nextwhen' \in [Timer -> Nat]
      BY <1>1, <1>4, <2>2 DEF TimersTypeOK
    <2>4. /\ r.now = a.now /\ r.todo = a.todo \ {t} /\ r.moved = a.moved /\ r.earlier = a.earlier + 0
      BY <2>1
    <2>5. 0 \in {0, 1} /\ "Waiting" \in {"Waiting", "Removed"} /\ ~(0 = 1) /\ status[t] # "ModifiedEarlier"
      BY <1>4
    <2> QED
      BY <1>2, <1>3, <1>4, <2>2, <2>3, <2>4, <2>5, ClearStep
  <1>5. CASE status[t] \in Modified
    <2>1. PICK k \in {0, 1} : k = IF status[t] = "ModifiedEarlier" THEN 1 ELSE 0
      OBVIOUS
    <2>2. PICK r \in [now : Nat, todo : SUBSET Timer, moved : SUBSET Timer, deleted : Nat, earlier : Nat] :
            r = [a EXCEPT !.todo = @ \ {t}, !.earlier = @ + k]
      <3>1. a.earlier + k \in Nat /\ a.todo \ {t} \in SUBSET Timer
        OBVIOUS
      <3> QED
        BY <3>1
    <2>3. /\ rarg' = [rarg EXCEPT ![p].todo = @ \ {t}, ![p].earlier = @ + k]
          /\ status' = [status EXCEPT ![t] = "Waiting"]
          /\ when' = [when EXCEPT ![t] = nextwhen[t]] /\ nextwhen' = [nextwhen EXCEPT ![t] = 0]
          /\ UNCHANGED <<pp, heap>>
      BY <1>5, <2>1 DEF clearDeletedTimers, Modified, SetStatus, NextwhenUsed, IfThen
    <2>4. rarg' = [rarg EXCEPT ![p] = r]
      BY <1>1, <1>3, <2>2, <2>3 DEF TimersTypeOK
    <2>5. /\ when' \in [Timer -> Nat] /\ nextwhen' \in [Timer -> Nat]
          /\ \A x \in Timer \ {t} : when'[x] = when[x]
      BY <1>1, <2>3 DEF TimersTypeOK
    <2>6. /\ r.now = a.now /\ r.todo = a.todo \ {t} /\ r.moved = a.moved /\ r.earlier = a.earlier + k
      BY <2>2
    <2>7. "Waiting" \in {"Waiting", "Removed"} /\ (k = 1 <=> status[t] = "ModifiedEarlier")
          /\ status[t] \in Modified \cup {"Waiting", "Deleted"}
      BY <1>5, <2>1
    <2>8. heap' = heap /\ pp' = pp /\ status' = [status EXCEPT ![t] = "Waiting"]
      BY <2>3
    <2> QED
      BY <1>2, <1>3, <2>4, <2>5, <2>6, <2>7, <2>8, ClearStep
  <1>6. CASE status[t] = "Deleted"
    <2>1. PICK r \in [now : Nat, todo : SUBSET Timer, moved : SUBSET Timer, deleted : Nat, earlier : Nat] :
            r = [a EXCEPT !.todo = @ \ {t}, !.deleted = @ + 1]
      <3>1. a.deleted + 1 \in Nat /\ a.todo \ {t} \in SUBSET Timer
        OBVIOUS
      <3> QED
        BY <3>1
    <2>2. /\ rarg' = [rarg EXCEPT ![p].todo = @ \ {t}, ![p].deleted = @ + 1]
          /\ status' = [status EXCEPT ![t] = "Removed"]
          /\ pp' = [pp EXCEPT ![t] = None] /\ heap' = [heap EXCEPT ![p] = @ \ {t}]
          /\ UNCHANGED <<when, nextwhen>>
      BY <1>6 DEF clearDeletedTimers, Modified, SetStatus
    <2>3. rarg' = [rarg EXCEPT ![p] = r]
      BY <1>1, <1>3, <2>1, <2>2 DEF TimersTypeOK
    <2>4. when' \in [Timer -> Nat] /\ nextwhen' \in [Timer -> Nat]
      BY <1>1, <2>2 DEF TimersTypeOK
    <2>5. /\ r.now = a.now /\ r.todo = a.todo \ {t} /\ r.moved = a.moved /\ r.earlier = a.earlier + 0
      BY <2>1
    <2>6. 0 \in {0, 1} /\ "Removed" \in {"Waiting", "Removed"} /\ ~(0 = 1) /\ status[t] # "ModifiedEarlier"
      BY <1>6
    <2> QED
      BY <1>2, <1>3, <1>6, <2>2, <2>3, <2>4, <2>5, <2>6, ClearStep
  <1> QED
    BY <1>4, <1>5, <1>6 DEF clearDeletedTimers

-----------------------------------------------------------------------------
(* No timer has been added yet.                                            *)
LEMMA TimersInitFits == TimersInit => TimersInv
  <1> SUFFICES ASSUME TimersInit
               PROVE  TimersInv
    OBVIOUS
  <1> USE NoneAssumption, TimersAssumption DEF TimersInit
  <1>1. TimersTypeOK
    BY DEF TimersTypeOK, NoArg, NoRound, Status
  <1>2. \A u \in G : UserFits(u)
    BY DEF UserFits, NoArg, Adding, Modifying
  <1>3. \A t \in Timer : StatusFits(t)
    BY DEF StatusFits, Modified
  <1>4. ASSUME NEW p \in P
        PROVE  RoundFits(p) /\ LockFits(p) /\ CountsFit(p)
    <2>1. RoundFits(p) /\ LockFits(p)
      BY DEF RoundFits, LockFits, NoRound, Checking
    <2>2. Earlier(p) = {} /\ Telling(p) = {} /\ PutRight(p) = 0
      BY DEF Earlier, Telling, PutRight
    <2>3. Cardinality({}) = 0
      BY FS_EmptySet
    <2>4. timer0When[p] = FirstWhen(heap[p], when)
      BY DEF FirstWhen
    <2> QED
      BY <2>1, <2>2, <2>3, <2>4 DEF CountsFit
  <1> QED
    BY <1>1, <1>2, <1>3, <1>4 DEF TimersInv

(* No step of a call, of a checkTimers or of the clock breaks the          *)
(* invariant.                                                              *)
LEMMA TimersInvInductive == TimersInv /\ [TimersNext]_timerVars => TimersInv'
  <1> SUFFICES ASSUME TimersInv, [TimersNext]_timerVars
               PROVE  TimersInv'
    OBVIOUS
  <1> USE TimersAssumption
  <1>1. ASSUME NEW u \in G, UserStep(u, Settings)
        PROVE  TimersInv'
    <2>1. ASSUME NEW c \in Settings, addtimer(u, c.p, c.t, c.when, c.period) \/ modtimer(u, c.p, c.t, c.when, c.period)
          PROVE  TimersInv'
      <3>1. c.p \in P /\ c.t \in Timer /\ c.when \in Nat /\ c.period \in Nat
        BY DEF Settings
      <3> QED
        BY <2>1, <3>1, addtimerKeeps, modtimerKeeps
    <2>2. ASSUME NEW t \in {c.t : c \in Settings}, deltimerIdle(u, t) \/ deltimer(u, t)
          PROVE  TimersInv'
      <3>1. t \in Timer
        BY DEF Settings
      <3> QED
        BY <2>2, <3>1, deltimerIdleKeeps, deltimerKeeps
    <2> QED
      BY <1>1, <2>1, <2>2, LockToAddKeeps, cleantimersKeeps, AddTimerKeeps, UncountKeeps, SetDeletedKeeps, CountDeletedKeeps,
         ModAddKeeps, UndeleteKeeps, ModifyKeeps, SetModifiedKeeps, UReturnKeeps DEF UserStep
  <1>2. ASSUME NEW p \in P, RunnerStep(p)
        PROVE  TimersInv'
    BY <1>2, checkTimersKeeps, LockTimersKeeps, AdjustDoneKeeps, RelockKeeps, RunDoneKeeps, ClearDoneKeeps,
       UnlockKeeps,
       adjusttimersKeeps, addAdjustedTimersKeeps, runtimerKeeps, runOneTimerKeeps, clearDeletedTimersKeeps
    DEF RunnerStep
  <1>3. CASE UNCHANGED timerVars
    <2>1. TimersTypeOK'
      BY <1>3 DEF timerVars, TimersInv, TimersTypeOK
    <2>2. ASSUME NEW u \in G
          PROVE  UserFits(u)'
      BY <1>3 DEF timerVars, TimersInv, UserFits
    <2>3. ASSUME NEW t \in Timer
          PROVE  StatusFits(t)'
      BY <1>3 DEF timerVars, TimersInv, StatusFits, Modifier
    <2>4. ASSUME NEW p \in P
          PROVE  RoundFits(p)' /\ LockFits(p)'
      BY <1>3 DEF timerVars, TimersInv, RoundFits, LockFits
    <2>5. ASSUME NEW p \in P
          PROVE  CountsFit(p)'
      BY <1>3 DEF timerVars, TimersInv, CountsFit, Earlier, Telling, PutRight
    <2> QED
      BY <2>1, <2>2, <2>3, <2>4, <2>5 DEF TimersInv
  <1> QED
    BY <1>1, <1>2, <1>3, TickKeeps DEF TimersNext, TimersNextWith

(* What checkTimers finds the timers that are due by, whatever addtimer,   *)
(* deltimer and modtimer do at the same time: pp, the heaps, the statuses  *)
(* and the locks agree, and adjustTimers and timer0When are exact.         *)
THEOREM TimersInvariance == TimersSpec => []TimersInv
  BY TimersInitFits, TimersInvInductive, PTL DEF TimersSpec

-----------------------------------------------------------------------------
(* The call that has the status of t at timerModifying tells what t is set *)
(* to, which then changes with no step of others.                          *)
SetBy(u, t) ==
  IF upc[u] \in {"uncount", "deleting"} THEN None
  ELSE IF upc[u] = "modSet"
  THEN [when |-> IF uarg[u].old = "Waiting" THEN when[t] ELSE nextwhen[t], period |-> period[t]]
  ELSE [when |-> uarg[u].when, period |-> uarg[u].period]

(* The one element of a set is the one that CHOOSE finds.                  *)
LEMMA OneModifier ==
  ASSUME NEW S, NEW u \in S, \A v \in S : v = u
  PROVE  (CHOOSE v \in S : TRUE) = u
  OBVIOUS

(* A timer at timerModifying is set to what its one call says.             *)
LEMMA SetByCall ==
  ASSUME TimersInv, NEW u \in G, NEW t \in Timer, upc[u] \in Modifying, uarg[u].t = t
  PROVE  SetTo(t) = SetBy(u, t)
  <1>1. UserFits(u)
    BY DEF TimersInv
  <1>2. status[t] = "Modifying" /\ \A v \in Modifier(t) : v = u
    BY <1>1 DEF UserFits, Modifying, Adding, Modifier
  <1>3. (CHOOSE v \in Modifier(t) : TRUE) = u
    <2>1. u \in Modifier(t)
      BY DEF Modifier
    <2> QED
      BY <1>2, <2>1, OneModifier
  <1> QED
    BY <1>2, <1>3 DEF SetTo, SetBy, Modified

(* The same after a step.                                                  *)
LEMMA SetByCallNext ==
  ASSUME TimersInv', NEW u \in G, NEW t \in Timer, upc'[u] \in Modifying, uarg'[u].t = t
  PROVE  SetTo(t)' = SetBy(u, t)'
  <1>1. UserFits(u)'
    BY DEF TimersInv
  <1>2. status'[t] = "Modifying" /\ \A v \in Modifier(t)' : v = u
    BY <1>1 DEF UserFits, Modifying, Adding, Modifier
  <1>3. (CHOOSE v \in Modifier(t)' : TRUE) = u
    <2>1. u \in Modifier(t)'
      BY DEF Modifier
    <2> QED
      BY <1>2, <2>1, OneModifier
  <1> QED
    BY <1>2, <1>3 DEF SetTo, SetBy, Modified

(* What a timer is set to stays if its fields and its call do.             *)
LEMMA SetToKept ==
  ASSUME TimersInv, TimersInv', NEW t \in Timer,
         status'[t] = status[t], when'[t] = when[t], nextwhen'[t] = nextwhen[t], period'[t] = period[t],
         \A v \in Modifier(t) : upc'[v] = upc[v] /\ uarg'[v] = uarg[v]
  PROVE  SetTo(t)' = SetTo(t)
  <1>1. CASE status[t] # "Modifying"
    BY <1>1 DEF SetTo
  <1>2. CASE status[t] = "Modifying"
    <2>1. StatusFits(t)
      BY DEF TimersInv
    <2>2. PICK v \in G : v \in Modifier(t)
      BY <1>2, <2>1 DEF StatusFits, Modifier
    <2>3. /\ upc[v] \in Modifying /\ uarg[v].t = t
          /\ upc'[v] = upc[v] /\ uarg'[v] = uarg[v]
      BY <2>2 DEF Modifier
    <2>4. SetTo(t) = SetBy(v, t) /\ SetTo(t)' = SetBy(v, t)'
      BY <2>3, SetByCall, SetByCallNext
    <2> QED
      BY <2>3, <2>4 DEF SetBy
  <1> QED
    BY <1>1, <1>2

-----------------------------------------------------------------------------
(* What a step is to the service: a call that takes effect, ...            *)
LEMMA Calls ==
  ASSUME NEW u \in G, NEW t \in Timer, NEW b,
         SetTo(t)' \in [when : When, period : Period] \cup {None},
         answer[u] = <<>>, answer' = [answer EXCEPT ![u] = <<b>>], b = (SetTo(t) # None),
         \A s \in Timer \ {t} : SetTo(s)' = SetTo(s), now' = now
  PROVE  Service!Next
  <1>1. Service!Call(u, t)
    BY DEF Service!Call
  <1> QED
    BY <1>1 DEF Service!Next

(* ... one that returns, ...                                               *)
LEMMA Returns ==
  ASSUME NEW u \in G, answer[u] # <<>>, answer' = [answer EXCEPT ![u] = <<>>],
         \A s \in Timer : SetTo(s)' = SetTo(s), now' = now
  PROVE  Service!Next
  <1>1. Service!Return(u)
    BY DEF Service!Return
  <1> QED
    BY <1>1 DEF Service!Next

(* ... or nothing.                                                         *)
LEMMA Stutters ==
  ASSUME \A s \in Timer : SetTo(s)' = SetTo(s), UNCHANGED <<now, answer>>
  PROVE  UNCHANGED Service!vars
  BY DEF Service!vars

(* A timer is set when it is in a heap or moved, unless it is deleted.     *)
LEMMA SetInHeap ==
  ASSUME TimersTypeOK, NEW t \in Timer
  PROVE  /\ status[t] \in InHeap => SetTo(t) # None /\ SetTo(t) \in [when : Nat, period : Nat]
         /\ status[t] \in {"NoStatus", "Deleted", "Removed"} => SetTo(t) = None
  <1> USE TimersAssumption
  <1>1. when[t] \in Nat /\ nextwhen[t] \in Nat /\ period[t] \in Nat
    BY DEF TimersTypeOK
  <1>2. [when |-> when[t], period |-> period[t]] \in [when : Nat, period : Nat]
        /\ [when |-> nextwhen[t], period |-> period[t]] \in [when : Nat, period : Nat]
    BY <1>1
  <1>3. status[t] \in InHeap => SetTo(t) \in {[when |-> when[t], period |-> period[t]],
                                                   [when |-> nextwhen[t], period |-> period[t]]}
    BY DEF SetTo, InHeap, Modified
  <1>4. status[t] \in {"NoStatus", "Deleted", "Removed"} => SetTo(t) = None
    BY DEF SetTo, Modified
  <1> QED
    BY <1>2, <1>3, <1>4

(* The steps of a call of u leave what other timers are set to.            *)
LEMMA CallKeeps ==
  ASSUME TimersInv, TimersInv', NEW u \in G, NEW s \in Timer,
         \A v \in G \ {u} : upc'[v] = upc[v] /\ uarg'[v] = uarg[v],
         upc[u] \in Modifying => uarg[u].t # s,
         status'[s] = status[s], when'[s] = when[s], nextwhen'[s] = nextwhen[s], period'[s] = period[s]
  PROVE  SetTo(s)' = SetTo(s)
  <1>1. \A v \in Modifier(s) : v \in G \ {u}
    BY DEF Modifier
  <1> QED
    BY <1>1, SetToKept

(* Those of a checkTimers, too.                                            *)
LEMMA RoundKeeps ==
  ASSUME TimersInv, TimersInv', NEW s \in Timer, UNCHANGED <<upc, uarg>>,
         status'[s] = status[s], when'[s] = when[s], nextwhen'[s] = nextwhen[s], period'[s] = period[s]
  PROVE  SetTo(s)' = SetTo(s)
  BY SetToKept

(* No step that leaves the timers and the calls alone is seen.             *)
LEMMA Unseen ==
  ASSUME TimersInv, TimersInv', UNCHANGED <<status, when, nextwhen, period, upc, uarg, now, answer>>
  PROVE  UNCHANGED Service!vars
  <1>1. \A s \in Timer : SetTo(s)' = SetTo(s)
    BY RoundKeeps
  <1> QED
    BY <1>1, Stutters

(* addtimer sets the timer.                                                *)
LEMMA addtimerCalls ==
  ASSUME TimersInv, TimersInv', NEW u \in G, NEW p \in P, NEW t \in Timer, NEW w \in When, NEW per \in Period,
         addtimer(u, p, t, w, per)
  PROVE  Service!Next
  <1>1. TimersTypeOK /\ UserFits(u) /\ TimersTypeOK'
    BY DEF TimersInv
  <1>2. /\ upc[u] = "idle" /\ upc' = [upc EXCEPT ![u] = "addLock"] /\ status[t] = "NoStatus"
        /\ status' = [status EXCEPT ![t] = "Waiting"] /\ when' = [when EXCEPT ![t] = w]
        /\ period' = [period EXCEPT ![t] = per] /\ nextwhen' = nextwhen
        /\ answer' = [answer EXCEPT ![u] = <<FALSE>>] /\ now' = now
        /\ \A v \in G \ {u} : uarg'[v] = uarg[v]
    BY <1>1 DEF addtimer, UGoto, SetStatus, Fresh, TimersTypeOK
  <1>3. /\ status'[t] = "Waiting" /\ when'[t] = w /\ period'[t] = per
        /\ \A v \in G \ {u} : upc'[v] = upc[v]
        /\ \A s \in Timer \ {t} : status'[s] = status[s] /\ when'[s] = when[s] /\ period'[s] = period[s]
    BY <1>1, <1>2 DEF TimersTypeOK
  <1>4. \A s \in Timer \ {t} : SetTo(s)' = SetTo(s)
    <2>1. upc[u] \notin Modifying /\ \A s \in Timer \ {t} : nextwhen'[s] = nextwhen[s]
      BY <1>2 DEF Modifying
    <2> QED
      BY <1>2, <1>3, <2>1, CallKeeps
  <1>5. SetTo(t)' = [when |-> w, period |-> per]
    BY <1>3 DEF SetTo
  <1>6. SetTo(t)' \in [when : When, period : Period] \cup {None}
    BY <1>5
  <1>7. FALSE = (SetTo(t) # None)
    BY <1>1, <1>2, SetInHeap
  <1>8. answer[u] = <<>>
    BY <1>1, <1>2 DEF UserFits
  <1> QED
    BY <1>2, <1>4, <1>6, <1>7, <1>8, Calls

(* The lock of addtimer is not seen from outside.                          *)
LEMMA LockToAddUnseen ==
  ASSUME TimersInv, TimersInv', NEW u \in G, LockToAdd(u)
  PROVE  UNCHANGED Service!vars
  <1>1. \A v \in G \ {u} : upc'[v] = upc[v]
    BY DEF LockToAdd, UGoto, TimersInv, TimersTypeOK
  <1>2. upc[u] \notin Modifying
    BY DEF LockToAdd, UGoto, Modifying
  <1>3. UNCHANGED <<status, when, nextwhen, period, uarg, now, answer>>
    BY DEF LockToAdd, KeepHeaps
  <1>4. \A s \in Timer : SetTo(s)' = SetTo(s)
    BY <1>1, <1>2, <1>3, CallKeeps
  <1> QED
    BY <1>3, <1>4, Stutters

(* The second half of addtimer returns.                                    *)
LEMMA AddTimerReturns ==
  ASSUME TimersInv, TimersInv', NEW u \in G, AddTimer(u)
  PROVE  Service!Next
  <1>1. TimersTypeOK /\ UserFits(u) /\ upc[u] = "clean"
    BY DEF TimersInv, AddTimer, UGoto
  <1>2. uarg[u].t \in Timer
    BY <1>1 DEF UserFits
  <1>3. when' = when
    BY <1>1, <1>2 DEF AddTimer, doaddtimer, SetHeap, TimersTypeOK
  <1>4. /\ UNCHANGED <<status, nextwhen, period, now>> /\ upc' = [upc EXCEPT ![u] = "idle"]
        /\ answer' = [answer EXCEPT ![u] = <<>>] /\ uarg' = [uarg EXCEPT ![u] = NoArg]
    BY DEF AddTimer, UGoto
  <1>5. \A v \in G \ {u} : upc'[v] = upc[v] /\ uarg'[v] = uarg[v]
    BY <1>1, <1>4 DEF TimersTypeOK
  <1>6. \A s \in Timer : SetTo(s)' = SetTo(s)
    BY <1>1, <1>3, <1>4, <1>5, CallKeeps DEF Modifying
  <1>7. answer[u] # <<>>
    BY <1>1 DEF UserFits
  <1> QED
    BY <1>4, <1>6, <1>7, Returns

(* A deltimer or modtimer returns.                                         *)
LEMMA UReturnReturns ==
  ASSUME TimersInv, TimersInv', NEW u \in G, UReturn(u)
  PROVE  Service!Next
  <1>1. TimersTypeOK /\ UserFits(u) /\ upc[u] = "return"
    BY DEF TimersInv, UReturn, UGoto
  <1>2. /\ UNCHANGED <<status, when, nextwhen, period, now, uarg>> /\ upc' = [upc EXCEPT ![u] = "idle"]
        /\ answer' = [answer EXCEPT ![u] = <<>>]
    BY DEF UReturn, UGoto, KeepHeaps
  <1>3. \A v \in G \ {u} : upc'[v] = upc[v]
    BY <1>1, <1>2 DEF TimersTypeOK
  <1>4. \A s \in Timer : SetTo(s)' = SetTo(s)
    BY <1>1, <1>2, <1>3, CallKeeps DEF Modifying
  <1>5. answer[u] # <<>>
    BY <1>1 DEF UserFits
  <1> QED
    BY <1>2, <1>4, <1>5, Returns

(* A deltimer that finds nothing to stop answers false, and the timer was  *)
(* not set.                                                                *)
LEMMA deltimerIdleCalls ==
  ASSUME TimersInv, TimersInv', NEW u \in G, NEW t \in Timer, deltimerIdle(u, t)
  PROVE  Service!Next
  <1>1. TimersTypeOK /\ UserFits(u) /\ upc[u] = "idle"
    BY DEF TimersInv, deltimerIdle, UGoto
  <1>2. /\ UNCHANGED <<status, when, nextwhen, period, now, uarg>> /\ upc' = [upc EXCEPT ![u] = "return"]
        /\ answer' = [answer EXCEPT ![u] = <<FALSE>>] /\ status[t] \in {"Deleted", "Removed", "NoStatus"}
    BY DEF deltimerIdle, UGoto, KeepHeaps
  <1>3. \A v \in G \ {u} : upc'[v] = upc[v]
    BY <1>1, <1>2 DEF TimersTypeOK
  <1>4. \A s \in Timer : SetTo(s)' = SetTo(s)
    BY <1>1, <1>2, <1>3, CallKeeps DEF Modifying
  <1>5. SetTo(t) = None
    BY <1>1, <1>2, SetInHeap
  <1>6. SetTo(t)' \in [when : When, period : Period] \cup {None} /\ FALSE = (SetTo(t) # None)
    BY <1>4, <1>5
  <1>7. answer[u] = <<>>
    BY <1>1 DEF UserFits
  <1> QED
    BY <1>2, <1>4, <1>6, <1>7, Calls

(* The swap of deltimer stops the timer, which was set: it answers true.   *)
LEMMA deltimerCalls ==
  ASSUME TimersInv, TimersInv', NEW u \in G, NEW t \in Timer, deltimer(u, t)
  PROVE  Service!Next
  <1> DEFINE to == IF status[t] = "ModifiedEarlier" THEN "uncount" ELSE "deleting"
  <1>1. TimersTypeOK /\ UserFits(u) /\ upc[u] = "idle"
    BY DEF TimersInv, deltimer, UGoto
  <1>2. /\ UNCHANGED <<when, nextwhen, period, now>> /\ upc' = [upc EXCEPT ![u] = to]
        /\ status' = [status EXCEPT ![t] = "Modifying"] /\ status[t] \in InHeap
        /\ answer' = [answer EXCEPT ![u] = <<TRUE>>]
        /\ uarg'[u].t = t /\ \A v \in G \ {u} : uarg'[v] = uarg[v]
    BY <1>1 DEF deltimer, UGoto, KeepHeaps, SetStatus, TimersTypeOK, NoArg
  <1>T. to \in {"uncount", "deleting"}
    OBVIOUS
  <1> HIDE DEF to
  <1>3. /\ upc'[u] = to /\ \A v \in G \ {u} : upc'[v] = upc[v]
        /\ \A s \in Timer \ {t} : status'[s] = status[s]
    BY <1>1, <1>2 DEF TimersTypeOK
  <1>4. \A s \in Timer \ {t} : SetTo(s)' = SetTo(s)
    BY <1>1, <1>2, <1>3, CallKeeps DEF Modifying
  <1>5. SetTo(t)' = None
    BY <1>2, <1>3, <1>T, SetByCallNext DEF SetBy, Modifying
  <1>6. SetTo(t) # None
    BY <1>1, <1>2, SetInHeap
  <1>7. SetTo(t)' \in [when : When, period : Period] \cup {None} /\ TRUE = (SetTo(t) # None)
    BY <1>5, <1>6
  <1>8. answer[u] = <<>>
    BY <1>1 DEF UserFits
  <1> QED
    BY <1>2, <1>4, <1>7, <1>8, Calls

(* The swap of modtimer sets the timer, and its answer tells whether the   *)
(* timer was set before.                                                   *)
LEMMA modtimerCalls ==
  ASSUME TimersInv, TimersInv', NEW u \in G, NEW p \in P, NEW t \in Timer, NEW w \in When, NEW per \in Period,
         modtimer(u, p, t, w, per)
  PROVE  Service!Next
  <1> DEFINE to == IF status[t] \in {"NoStatus", "Removed"} THEN "modAdd" ELSE IF status[t] = "Deleted" THEN "undelete" ELSE "modify"
  <1>1. TimersTypeOK /\ UserFits(u) /\ upc[u] = "idle"
    BY DEF TimersInv, modtimer, UGoto
  <1>2. /\ UNCHANGED <<when, nextwhen, period, now>> /\ upc' = [upc EXCEPT ![u] = to]
        /\ status' = [status EXCEPT ![t] = "Modifying"] /\ status[t] \in InHeap \cup {"NoStatus", "Removed", "Deleted"}
        /\ answer' = [answer EXCEPT ![u] = <<status[t] \in InHeap>>]
        /\ uarg' = [uarg EXCEPT ![u] = [t |-> t, p |-> p, when |-> w, period |-> per, old |-> status[t]]]
    BY DEF modtimer, UGoto, KeepHeaps, SetStatus, InHeap, Modified
  <1>3. uarg'[u].t = t /\ uarg'[u].when = w /\ uarg'[u].period = per /\ \A v \in G \ {u} : uarg'[v] = uarg[v]
    <2>1. DOMAIN uarg = G
      BY <1>1 DEF TimersTypeOK
    <2> QED
      BY <1>2, <2>1
  <1>4. /\ upc'[u] = to /\ \A v \in G \ {u} : upc'[v] = upc[v]
        /\ \A s \in Timer \ {t} : status'[s] = status[s]
    <2>1. DOMAIN upc = G /\ DOMAIN status = Timer
      BY <1>1 DEF TimersTypeOK
    <2> HIDE DEF to
    <2> QED
      BY <1>2, <2>1
  <1>5. \A s \in Timer \ {t} : SetTo(s)' = SetTo(s)
    <2>1. upc[u] \notin Modifying
      BY <1>1 DEF Modifying
    <2>2. \A s \in Timer \ {t} : when'[s] = when[s] /\ nextwhen'[s] = nextwhen[s] /\ period'[s] = period[s]
      BY <1>2
    <2> QED
      BY <1>3, <1>4, <2>1, <2>2, CallKeeps
  <1>6. to \in {"modAdd", "undelete", "modify"}
    OBVIOUS
  <1> HIDE DEF to
  <1>7. SetTo(t)' = [when |-> w, period |-> per]
    BY <1>3, <1>4, <1>6, SetByCallNext DEF SetBy, Modifying
  <1>8. SetTo(t)' \in [when : When, period : Period] \cup {None}
    BY <1>7
  <1>9. (status[t] \in InHeap) = (SetTo(t) # None)
    <2>1. CASE status[t] \in InHeap
      <3>1. SetTo(t) # None
        BY <1>1, <2>1, SetInHeap
      <3>2. (status[t] \in InHeap) = TRUE /\ (SetTo(t) # None) = TRUE
        BY <2>1, <3>1
      <3> QED
        BY <3>2
    <2>2. CASE status[t] \notin InHeap
      <3>1. SetTo(t) = None
        BY <1>1, <1>2, <2>2, SetInHeap
      <3>2. (status[t] \in InHeap) = FALSE /\ (SetTo(t) # None) = FALSE
        BY <2>2, <3>1
      <3> QED
        BY <3>2
    <2> QED
      BY <2>1, <2>2
  <1>10. answer[u] = <<>>
    BY <1>1 DEF UserFits
  <1> QED
    BY <1>2, <1>5, <1>8, <1>9, <1>10, Calls

-----------------------------------------------------------------------------
(* The steps of a deltimer or modtimer after the swap change nothing, ...  *)
LEMMA UncountUnseen ==
  ASSUME TimersInv, TimersInv', NEW u \in G, Uncount(u)
  PROVE  UNCHANGED Service!vars
  <1>1. TimersTypeOK /\ upc[u] = "uncount"
    BY DEF TimersInv, Uncount, UGoto
  <1>2. PICK t \in Timer : t = uarg[u].t
    BY <1>1, HoldsAlone DEF Owns, Modifying
  <1>3. upc' = [upc EXCEPT ![u] = "deleting"] /\ UNCHANGED <<now, status, when, nextwhen, period, uarg, answer>>
    BY DEF Uncount, UGoto, KeepHeaps
  <1>4. upc'[u] = "deleting" /\ \A v \in G \ {u} : upc'[v] = upc[v]
    BY <1>1, <1>3 DEF TimersTypeOK
  <1>5. \A s \in Timer \ {t} : SetTo(s)' = SetTo(s)
    BY <1>2, <1>3, <1>4, CallKeeps
  <1>6. SetTo(t) = SetBy(u, t) /\ SetTo(t)' = SetBy(u, t)'
    BY <1>1, <1>2, <1>3, <1>4, SetByCall, SetByCallNext DEF Modifying
  <1>7. SetBy(u, t)' = SetBy(u, t)
    BY <1>1, <1>3, <1>4 DEF SetBy
  <1> QED
    BY <1>3, <1>5, <1>6, <1>7, Stutters

(* ... whether they discount the timer, ...                                *)
LEMMA UndeleteUnseen ==
  ASSUME TimersInv, TimersInv', NEW u \in G, Undelete(u)
  PROVE  UNCHANGED Service!vars
  <1>1. TimersTypeOK /\ upc[u] = "undelete"
    BY DEF TimersInv, Undelete, UGoto
  <1>2. PICK t \in Timer : t = uarg[u].t
    BY <1>1, HoldsAlone DEF Owns, Modifying
  <1>3. upc' = [upc EXCEPT ![u] = "modify"] /\ UNCHANGED <<now, status, when, nextwhen, period, uarg, answer>>
    BY DEF Undelete, UGoto, KeepHeaps
  <1>4. upc'[u] = "modify" /\ \A v \in G \ {u} : upc'[v] = upc[v]
    BY <1>1, <1>3 DEF TimersTypeOK
  <1>5. \A s \in Timer \ {t} : SetTo(s)' = SetTo(s)
    BY <1>2, <1>3, <1>4, CallKeeps
  <1>6. SetTo(t) = SetBy(u, t) /\ SetTo(t)' = SetBy(u, t)'
    BY <1>1, <1>2, <1>3, <1>4, SetByCall, SetByCallNext DEF Modifying
  <1>7. SetBy(u, t)' = SetBy(u, t)
    BY <1>1, <1>3, <1>4 DEF SetBy
  <1> QED
    BY <1>3, <1>5, <1>6, <1>7, Stutters

(* ... or give it its new status.                                          *)
LEMMA SetDeletedUnseen ==
  ASSUME TimersInv, TimersInv', NEW u \in G, SetDeleted(u)
  PROVE  UNCHANGED Service!vars
  <1>1. TimersTypeOK /\ TimersTypeOK' /\ upc[u] = "deleting"
    BY DEF TimersInv, SetDeleted, UGoto
  <1>2. PICK t \in Timer : t = uarg[u].t
    BY <1>1, HoldsAlone DEF Owns, Modifying
  <1>3. /\ status' = [status EXCEPT ![t] = "Deleted"] /\ nextwhen' = [nextwhen EXCEPT ![t] = 0]
        /\ upc' = [upc EXCEPT ![u] = "deleted"] /\ UNCHANGED <<now, when, period, uarg, answer>>
    BY <1>2 DEF SetDeleted, UGoto, SetStatus, NextwhenUsed, KeepHeaps
  <1>4. /\ \A v \in G \ {u} : upc'[v] = upc[v]
        /\ status'[t] = "Deleted"
        /\ \A s \in Timer \ {t} : status'[s] = status[s] /\ nextwhen'[s] = nextwhen[s]
    BY <1>1, <1>3 DEF TimersTypeOK
  <1>5. \A s \in Timer \ {t} : SetTo(s)' = SetTo(s)
    BY <1>2, <1>3, <1>4, CallKeeps
  <1>6. SetTo(t) = None
    BY <1>1, <1>2, SetByCall DEF SetBy, Modifying
  <1>7. SetTo(t)' = None
    BY <1>4 DEF SetTo, Modified
  <1> QED
    BY <1>3, <1>5, <1>6, <1>7, Stutters

(* The count of a deltimer is not seen from outside.                       *)
LEMMA CountDeletedUnseen ==
  ASSUME TimersInv, TimersInv', NEW u \in G, CountDeleted(u)
  PROVE  UNCHANGED Service!vars
  <1>1. TimersTypeOK /\ upc[u] = "deleted"
    BY DEF TimersInv, CountDeleted, UGoto
  <1>2. /\ upc' = [upc EXCEPT ![u] = "return"] /\ uarg' = [uarg EXCEPT ![u] = NoArg]
        /\ UNCHANGED <<now, status, when, nextwhen, period, answer>>
    BY DEF CountDeleted, UGoto, KeepHeaps
  <1>3. \A v \in G \ {u} : upc'[v] = upc[v] /\ uarg'[v] = uarg[v]
    BY <1>1, <1>2 DEF TimersTypeOK
  <1>4. \A s \in Timer : SetTo(s)' = SetTo(s)
    BY <1>1, <1>2, <1>3, CallKeeps DEF Modifying
  <1> QED
    BY <1>2, <1>4, Stutters

(* That modtimer adds the timer to a heap does not change what it is set   *)
(* to.                                                                     *)
LEMMA ModAddUnseen ==
  ASSUME TimersInv, TimersInv', NEW u \in G, ModAdd(u)
  PROVE  UNCHANGED Service!vars
  <1>1. TimersTypeOK /\ upc[u] = "modAdd"
    BY DEF TimersInv, ModAdd, UGoto
  <1>2. PICK t \in Timer : t = uarg[u].t
    BY <1>1, HoldsAlone DEF Owns, Modifying
  <1>3. /\ when' = [when EXCEPT ![t] = uarg[u].when] /\ period' = [period EXCEPT ![t] = uarg[u].period]
        /\ upc' = [upc EXCEPT ![u] = "modSet"] /\ uarg' = [uarg EXCEPT ![u].old = "Waiting"]
        /\ UNCHANGED <<now, status, nextwhen, answer>>
    BY <1>2 DEF ModAdd, UGoto, doaddtimer, SetHeap
  <1>4. /\ upc'[u] = "modSet" /\ uarg'[u].t = t /\ uarg'[u].old = "Waiting"
        /\ \A v \in G \ {u} : upc'[v] = upc[v] /\ uarg'[v] = uarg[v]
        /\ when'[t] = uarg[u].when /\ period'[t] = uarg[u].period
        /\ \A s \in Timer \ {t} : when'[s] = when[s] /\ period'[s] = period[s]
    BY <1>1, <1>2, <1>3 DEF TimersTypeOK
  <1>5. \A s \in Timer \ {t} : SetTo(s)' = SetTo(s)
    BY <1>2, <1>3, <1>4, CallKeeps
  <1>6. SetTo(t) = [when |-> uarg[u].when, period |-> uarg[u].period]
    BY <1>1, <1>2, SetByCall DEF SetBy, Modifying
  <1>7. SetTo(t)' = SetBy(u, t)'
    BY <1>4, SetByCallNext DEF Modifying
  <1>8. SetTo(t)' = SetTo(t)
    BY <1>4, <1>6, <1>7 DEF SetBy
  <1> QED
    BY <1>3, <1>5, <1>8, Stutters

(* Neither does that it notes the new time.                                *)
LEMMA ModifyUnseen ==
  ASSUME TimersInv, TimersInv', NEW u \in G, Modify(u)
  PROVE  UNCHANGED Service!vars
  <1>1. TimersTypeOK /\ upc[u] = "modify"
    BY DEF TimersInv, Modify, UGoto
  <1>2. PICK t \in Timer : t = uarg[u].t
    BY <1>1, HoldsAlone DEF Owns, Modifying
  <1>3. PICK new \in Modified : new = IF uarg[u].when < when[t] THEN "ModifiedEarlier" ELSE "ModifiedLater"
    BY DEF Modified
  <1>4. /\ nextwhen' = [nextwhen EXCEPT ![t] = uarg[u].when] /\ period' = [period EXCEPT ![t] = uarg[u].period]
        /\ upc' = [upc EXCEPT ![u] = "modSet"] /\ uarg' = [uarg EXCEPT ![u].old = new]
        /\ UNCHANGED <<now, status, when, answer>>
    BY <1>2, <1>3 DEF Modify, UGoto, KeepHeaps
  <1>5. /\ upc'[u] = "modSet" /\ uarg'[u].t = t /\ uarg'[u].old = new
        /\ \A v \in G \ {u} : upc'[v] = upc[v] /\ uarg'[v] = uarg[v]
        /\ nextwhen'[t] = uarg[u].when /\ period'[t] = uarg[u].period
        /\ \A s \in Timer \ {t} : nextwhen'[s] = nextwhen[s] /\ period'[s] = period[s]
    BY <1>1, <1>2, <1>4 DEF TimersTypeOK
  <1>6. \A s \in Timer \ {t} : SetTo(s)' = SetTo(s)
    BY <1>2, <1>4, <1>5, CallKeeps
  <1>7. SetTo(t) = [when |-> uarg[u].when, period |-> uarg[u].period]
    BY <1>1, <1>2, SetByCall DEF SetBy, Modifying
  <1>8. SetTo(t)' = SetBy(u, t)'
    BY <1>5, SetByCallNext DEF Modifying
  <1>9. SetTo(t)' = SetTo(t)
    BY <1>5, <1>7, <1>8 DEF SetBy, Modified
  <1> QED
    BY <1>4, <1>6, <1>9, Stutters

(* Neither does the new status.                                            *)
LEMMA SetModifiedUnseen ==
  ASSUME TimersInv, TimersInv', NEW u \in G, SetModified(u)
  PROVE  UNCHANGED Service!vars
  <1>1. TimersTypeOK /\ UserFits(u) /\ upc[u] = "modSet"
    BY DEF TimersInv, SetModified, UGoto
  <1>2. PICK t \in Timer : t = uarg[u].t
    BY <1>1, HoldsAlone DEF Owns, Modifying
  <1>3. PICK new \in InHeap : new = uarg[u].old
    BY <1>1 DEF UserFits, Modifying, Adding
  <1>4. /\ status' = [status EXCEPT ![t] = new] /\ upc' = [upc EXCEPT ![u] = "return"]
        /\ uarg' = [uarg EXCEPT ![u] = NoArg] /\ UNCHANGED <<now, when, nextwhen, period, answer>>
    BY <1>2, <1>3 DEF SetModified, UGoto, SetStatus, KeepHeaps
  <1>5. /\ \A v \in G \ {u} : upc'[v] = upc[v] /\ uarg'[v] = uarg[v]
        /\ status'[t] = new /\ \A s \in Timer \ {t} : status'[s] = status[s]
    BY <1>1, <1>4 DEF TimersTypeOK
  <1>6. \A s \in Timer \ {t} : SetTo(s)' = SetTo(s)
    BY <1>2, <1>4, <1>5, CallKeeps
  <1>7. SetTo(t) = SetBy(u, t)
    BY <1>1, <1>2, SetByCall DEF Modifying
  <1>8. SetTo(t)' = SetTo(t)
    BY <1>1, <1>3, <1>4, <1>5, <1>7 DEF SetBy, SetTo, InHeap, Modified
  <1> QED
    BY <1>4, <1>6, <1>8, Stutters

(* ... nor does it when a timer is removed, or put where it belongs, ...   *)
LEMMA Tidied ==
  ASSUME TimersInv, TimersInv', NEW t \in Timer, UNCHANGED <<upc, uarg, now, period, answer>>,
         \A s \in Timer \ {t} : status'[s] = status[s] /\ when'[s] = when[s] /\ nextwhen'[s] = nextwhen[s],
         \/ status[t] = "Deleted" /\ status'[t] = "Removed"
         \/ status[t] \in Modified \cup {"Moving"} /\ status'[t] = "Waiting" /\ when'[t] = nextwhen[t]
         \/ status[t] \in Modified /\ status'[t] = "Moving" /\ nextwhen'[t] = nextwhen[t]
  PROVE  UNCHANGED Service!vars
  <1>1. \A s \in Timer \ {t} : SetTo(s)' = SetTo(s)
    BY RoundKeeps
  <1>2. SetTo(t)' = SetTo(t)
    BY DEF SetTo, Modified
  <1> QED
    BY <1>1, <1>2, Stutters

(* Taking a deleted timer out of the heap, or moving one to its new time,  *)
(* does not change what it is set to.                                      *)
LEMMA RemoveOrMoveUnseen ==
  ASSUME TimersInv, TimersInv', NEW p \in P, NEW t \in Timer, Remove(p, t) \/ Move(p, t),
         UNCHANGED <<upc, uarg, now, period, answer>>
  PROVE  UNCHANGED Service!vars
  <1>1. TimersTypeOK
    BY DEF TimersInv
  <1>2. CASE Remove(p, t)
    <2>1. /\ status[t] = "Deleted" /\ status' = [status EXCEPT ![t] = "Removed"] /\ UNCHANGED <<when, nextwhen>>
      BY <1>2 DEF Remove, SetStatus, dodeltimer, SetHeap
    <2> QED
      BY <1>1, <2>1, Tidied DEF TimersTypeOK
  <1>3. CASE Move(p, t)
    <2>1. /\ status[t] \in Modified /\ status' = [status EXCEPT ![t] = "Waiting"]
          /\ when' = [when EXCEPT ![t] = nextwhen[t]] /\ nextwhen' = [nextwhen EXCEPT ![t] = 0]
      BY <1>3 DEF Move, SetStatus, SetHeap, NextwhenUsed
    <2> QED
      BY <1>1, <2>1, Tidied DEF TimersTypeOK
  <1> QED
    BY <1>2, <1>3

(* Neither does a round of adjusttimers, ...                               *)
LEMMA adjusttimersUnseen ==
  ASSUME TimersInv, TimersInv', NEW p \in P, NEW t \in Timer, adjusttimers(p, t)
  PROVE  UNCHANGED Service!vars
  <1>1. TimersTypeOK /\ UNCHANGED <<upc, uarg, now, period, answer>>
    BY DEF TimersInv, adjusttimers, KeepUsers
  <1>2. CASE status[t] = "Waiting"
    <2>1. UNCHANGED <<status, when, nextwhen>>
      BY <1>2 DEF adjusttimers, Remove, Modified, KeepHeaps
    <2> QED
      BY <1>1, <2>1, Unseen
  <1>3. CASE Remove(p, t)
    BY <1>1, <1>3, RemoveOrMoveUnseen
  <1>4. CASE status[t] \in Modified
    <2>1. /\ status' = [status EXCEPT ![t] = "Moving"] /\ UNCHANGED <<when, nextwhen>>
      BY <1>4 DEF adjusttimers, Remove, Modified, SetStatus, dodeltimer, SetHeap
    <2> QED
      BY <1>1, <1>4, <2>1, Tidied DEF TimersTypeOK
  <1> QED
    BY <1>2, <1>3, <1>4 DEF adjusttimers

(* ... putting the timer back, ...                                         *)
LEMMA addAdjustedTimersUnseen ==
  ASSUME TimersInv, TimersInv', NEW p \in P, NEW t \in Timer, addAdjustedTimers(p, t)
  PROVE  UNCHANGED Service!vars
  <1>1. TimersTypeOK /\ RoundFits(p)
    BY DEF TimersInv
  <1>2. status[t] = "Moving"
    BY <1>1 DEF RoundFits, addAdjustedTimers
  <1>3. /\ status' = [status EXCEPT ![t] = "Waiting"] /\ when' = [when EXCEPT ![t] = nextwhen[t]]
        /\ nextwhen' = [nextwhen EXCEPT ![t] = 0] /\ UNCHANGED <<upc, uarg, now, period, answer>>
    BY DEF addAdjustedTimers, SetStatus, doaddtimer, SetHeap, NextwhenUsed, KeepUsers
  <1> QED
    BY <1>1, <1>2, <1>3, Tidied DEF TimersTypeOK

(* ... or a round of clearDeletedTimers.                                   *)
LEMMA clearDeletedTimersUnseen ==
  ASSUME TimersInv, TimersInv', NEW p \in P, NEW t \in Timer, clearDeletedTimers(p, t)
  PROVE  UNCHANGED Service!vars
  <1>1. TimersTypeOK /\ UNCHANGED <<upc, uarg, now, period, answer>>
    BY DEF TimersInv, clearDeletedTimers, KeepUsers
  <1>2. CASE status[t] = "Waiting"
    <2>1. UNCHANGED <<status, when, nextwhen>>
      BY <1>2 DEF clearDeletedTimers, Modified
    <2> QED
      BY <1>1, <2>1, Unseen
  <1>3. CASE status[t] \in Modified
    <2>1. /\ status' = [status EXCEPT ![t] = "Waiting"] /\ when' = [when EXCEPT ![t] = nextwhen[t]]
          /\ nextwhen' = [nextwhen EXCEPT ![t] = 0]
      BY <1>3 DEF clearDeletedTimers, Modified, SetStatus, NextwhenUsed
    <2> QED
      BY <1>1, <1>3, <2>1, Tidied DEF TimersTypeOK
  <1>4. CASE status[t] = "Deleted"
    <2>1. status' = [status EXCEPT ![t] = "Removed"] /\ UNCHANGED <<when, nextwhen>>
      BY <1>4 DEF clearDeletedTimers, Modified, SetStatus
    <2> QED
      BY <1>1, <1>4, <2>1, Tidied DEF TimersTypeOK
  <1> QED
    BY <1>2, <1>3, <1>4 DEF clearDeletedTimers

-----------------------------------------------------------------------------
(* ... but a timer that is run goes off, a ticker as often as is past.     *)
LEMMA Periods ==
  ASSUME NEW a \in Nat, NEW b \in Nat \ {0}
  PROVE  a \div b \in 0..a
  <1>1. PICK q \in Int : q = a \div b
    OBVIOUS
  <1>2. b * q <= a /\ a < b * q + b
    BY <1>1
  <1>3. q >= 0
    <2>1. SUFFICES ASSUME q <= -1
                   PROVE  FALSE
      OBVIOUS
    <2>2. b * q + b <= 0
      BY <2>1
    <2> QED
      BY <1>2, <2>2
  <1>4. q <= b * q
    BY <1>3
  <1> QED
    BY <1>1, <1>2, <1>3, <1>4

(* runOneTimer runs a timer that is set and due, and sets it to its next   *)
(* period if it has one.                                                   *)
LEMMA runOneTimerGoesOff ==
  ASSUME TimersInv, TimersInv', NEW p \in P, NEW t \in Timer, runOneTimer(p, t)
  PROVE  Service!Next
  <1> USE TimersAssumption
  <1>1. TimersTypeOK /\ RoundFits(p)
    BY DEF TimersInv
  <1>2. PICK w \in Nat, per \in Nat, n \in Nat : w = when[t] /\ per = period[t] /\ n = rarg[p].now
    BY <1>1 DEF TimersTypeOK
  <1>3. /\ status[t] = "Waiting" /\ w <= n /\ n <= now /\ now \in Nat
        /\ UNCHANGED <<upc, uarg, answer, now, nextwhen, period>>
    BY <1>1, <1>2 DEF runOneTimer, KeepUsers, RoundFits, TimersTypeOK
  <1>4. SetTo(t) = [when |-> w, period |-> per] /\ SetTo(t) # None
    BY <1>1, <1>2, <1>3, SetInHeap DEF SetTo, InHeap
  <1>5. CASE per > 0
    <2>1. PICK k \in 1..(now + 1) : NextPeriod(t, n) = w + k * per
      <3>1. n - w \in Nat /\ per \in Nat \ {0}
        BY <1>3, <1>5
      <3>2. PICK q \in 0..(n - w) : q = (n - w) \div per
        BY <3>1, Periods
      <3>3. 1 + q \in 1..(now + 1)
        BY <1>3, <3>1, <3>2
      <3>4. NextPeriod(t, n) = w + per * (1 + q)
        BY <1>2, <3>2 DEF NextPeriod
      <3>5. per * (1 + q) = (1 + q) * per
        BY <3>2
      <3> QED
        BY <3>3, <3>4, <3>5
    <2>2. status' = status /\ when' = [when EXCEPT ![t] = w + k * per]
      BY <1>2, <1>5, <2>1 DEF runOneTimer, SetHeap
    <2>3. when'[t] = w + k * per /\ \A s \in Timer \ {t} : when'[s] = when[s]
      BY <1>1, <2>2 DEF TimersTypeOK
    <2>4. \A s \in Timer \ {t} : SetTo(s)' = SetTo(s)
      BY <1>3, <2>2, <2>3, RoundKeeps
    <2>5. SetTo(t)' = [when |-> w + k * per, period |-> per]
      BY <1>2, <1>3, <2>2, <2>3 DEF SetTo
    <2>6. SetTo(t)' = [SetTo(t) EXCEPT !.when = @ + k * SetTo(t).period]
      BY <1>4, <2>5
    <2>7. [s \in Timer |-> SetTo(s)]' =
            [[s \in Timer |-> SetTo(s)] EXCEPT ![t] = [SetTo(t) EXCEPT !.when = @ + k * SetTo(t).period]]
      BY <2>4, <2>6
    <2>8. SetTo(t).when <= now /\ SetTo(t).period > 0
      BY <1>3, <1>4, <1>5
    <2>9. Service!GoesOff(t)
      BY <1>3, <1>4, <2>7, <2>8 DEF Service!GoesOff
    <2> QED
      BY <2>9 DEF Service!Next
  <1>6. CASE per = 0
    <2>1. when' = when /\ status' = [status EXCEPT ![t] = "NoStatus"]
      BY <1>2, <1>6 DEF runOneTimer, dodeltimer, SetHeap, SetStatus
    <2>2. status'[t] = "NoStatus" /\ \A s \in Timer \ {t} : status'[s] = status[s]
      BY <1>1, <2>1 DEF TimersTypeOK
    <2>3. \A s \in Timer \ {t} : SetTo(s)' = SetTo(s)
      BY <1>3, <2>1, <2>2, RoundKeeps
    <2>4. SetTo(t)' = None
      BY <2>2 DEF SetTo, Modified
    <2>5. SetTo(t).when <= now /\ SetTo(t).period = 0
      BY <1>3, <1>4, <1>6
    <2>6. [s \in Timer |-> SetTo(s)]' = [[s \in Timer |-> SetTo(s)] EXCEPT ![t] = None]
      BY <2>3, <2>4
    <2>7. Service!GoesOff(t)
      BY <1>3, <1>4, <2>5, <2>6 DEF Service!GoesOff
    <2> QED
      BY <2>7 DEF Service!Next
  <1> QED
    BY <1>5, <1>6

(* At the beginning no timer is set and no call is on.                     *)
LEMMA TimersInitServes == TimersInit => Service!Init
  BY DEF TimersInit, Service!Init, SetTo, Modified

(* Every step of the timers is a step of the service, or is not seen from  *)
(* outside.                                                                *)
LEMMA TimersStepServes ==
  ASSUME TimersInv, TimersInv', [TimersNext]_timerVars
  PROVE  [Service!Next]_(Service!vars)
  <1> USE TimersAssumption
  <1>1. ASSUME NEW u \in G, UserStep(u, Settings)
        PROVE  [Service!Next]_(Service!vars)
    <2>1. ASSUME NEW c \in Settings, addtimer(u, c.p, c.t, c.when, c.period) \/ modtimer(u, c.p, c.t, c.when, c.period)
          PROVE  Service!Next
      <3>1. c.p \in P /\ c.t \in Timer /\ c.when \in When /\ c.period \in Period
        BY DEF Settings
      <3> QED
        BY <2>1, <3>1, addtimerCalls, modtimerCalls
    <2>2. ASSUME NEW t \in {c.t : c \in Settings}, deltimerIdle(u, t) \/ deltimer(u, t)
          PROVE  Service!Next
      <3>1. t \in Timer
        BY DEF Settings
      <3> QED
        BY <2>2, <3>1, deltimerIdleCalls, deltimerCalls
    <2>3. ASSUME cleantimers(u)
          PROVE  UNCHANGED Service!vars
      <3>1. upc[u] = "clean" /\ UNCHANGED <<upc, uarg, now, period, answer>>
        BY <2>3 DEF cleantimers, KeepUsers
      <3>2. uarg[u].p \in P
        BY <3>1, HoldsAlone DEF Owns, Adding
      <3>3. PICK t \in First(uarg[u].p) : Remove(uarg[u].p, t) \/ Move(uarg[u].p, t)
        BY <2>3 DEF cleantimers
      <3>4. t \in Timer
        BY <3>2, <3>3 DEF First, Least, TimersInv, TimersTypeOK
      <3> QED
        BY <3>1, <3>2, <3>3, <3>4, RemoveOrMoveUnseen
    <2> QED
      BY <1>1, <2>1, <2>2, <2>3, LockToAddUnseen, AddTimerReturns, UncountUnseen, SetDeletedUnseen,
         CountDeletedUnseen, ModAddUnseen, UndeleteUnseen, ModifyUnseen, SetModifiedUnseen, UReturnReturns DEF UserStep
  <1>2. ASSUME NEW p \in P, RunnerStep(p)
        PROVE  [Service!Next]_(Service!vars)
    <2>1. ASSUME checkTimers(p) \/ LockTimers(p) \/ AdjustDone(p) \/ Relock(p) \/ RunDone(p) \/ ClearDone(p) \/ Unlock(p)
          PROVE  UNCHANGED Service!vars
      <3>1. UNCHANGED <<status, when, nextwhen, period, upc, uarg, now, answer>>
        BY <2>1 DEF checkTimers, LockTimers, AdjustDone, Relock, RunDone, ClearDone, Unlock,
                   KeepUsers, KeepTimers, KeepHeaps
      <3> QED
        BY <3>1, Unseen
    <2>2. ASSUME NEW t \in Timer, runtimer(p, t)
          PROVE  UNCHANGED Service!vars
      BY <2>2, RemoveOrMoveUnseen DEF runtimer, KeepUsers
    <2> QED
      BY <1>2, <2>1, <2>2, adjusttimersUnseen, addAdjustedTimersUnseen, runOneTimerGoesOff, clearDeletedTimersUnseen
      DEF RunnerStep
  <1>3. CASE Tick
    <2>1. now' = now + 1 /\ UNCHANGED <<status, when, nextwhen, period, upc, uarg, answer>>
      BY <1>3 DEF Tick, KeepUsers, KeepHeaps
    <2>2. \A s \in Timer : SetTo(s)' = SetTo(s)
      BY <2>1, RoundKeeps
    <2>3. Service!Tick
      BY <2>1, <2>2 DEF Service!Tick
    <2> QED
      BY <2>3 DEF Service!Next
  <1>4. CASE UNCHANGED timerVars
    BY <1>4, Unseen DEF timerVars
  <1> QED
    BY <1>1, <1>2, <1>3, <1>4 DEF TimersNext, TimersNextWith

(* A timer goes off only when its time has come, never after a deltimer    *)
(* that answered true, and once per addtimer or modtimer, or at most once  *)
(* per period; and deltimer and modtimer tell whether the timer was still  *)
(* set.                                                                    *)
THEOREM TimersServe == TimersSpec => TimerSpec
  BY TimersInitServes, TimersInitFits, TimersInvInductive, TimersStepServes, PTL
  DEF TimersSpec, TimerSpec, Service!Spec

=============================================================================
