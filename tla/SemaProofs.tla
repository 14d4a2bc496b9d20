----------------------------- MODULE SemaProofs -----------------------------
(***************************************************************************)
(* Proofs about module Sema for every set of goroutines and of addresses:  *)
(* SleepersAccounted is inductive, NoMissedWakeup follows with its help,   *)
(* the semaphores are those that package sync is promised, and sync.Mutex  *)
(* on one of them is module Mutex (MutexSema).                             *)
(***************************************************************************)
EXTENDS MutexSema, Counting

USE GAssumption, NoneAssumption, AddrAssumption
    DEF Acquiring, SemReleasing, SPC, Deciding

-----------------------------------------------------------------------------
(* What queue and dequeue do to a sequence.                                *)
LEMMA Append1 ==
  ASSUME NEW S, NEW s \in Seq(S), NEW x \in S
  PROVE  /\ Append(s, x) \in Seq(S) /\ DOMAIN Append(s, x) = 1..(Len(s) + 1)
         /\ \A i \in DOMAIN s : i \in 1..Len(s) /\ Append(s, x)[i] = s[i]
         /\ Append(s, x)[Len(s) + 1] = x
  OBVIOUS

(* The same with lifo.                                                     *)
LEMMA Prepend1 ==
  ASSUME NEW S, NEW s \in Seq(S), NEW x \in S
  PROVE  /\ <<x>> \o s \in Seq(S) /\ DOMAIN (<<x>> \o s) = 1..(Len(s) + 1)
         /\ \A i \in DOMAIN s : i + 1 \in DOMAIN (<<x>> \o s) /\ (<<x>> \o s)[i + 1] = s[i]
         /\ \A i \in 2..(Len(s) + 1) : i - 1 \in DOMAIN s /\ (<<x>> \o s)[i] = s[i - 1]
         /\ (<<x>> \o s)[1] = x
  OBVIOUS

(* The first one leaves.                                                   *)
LEMMA Tail1 ==
  ASSUME NEW S, NEW s \in Seq(S), s # <<>>
  PROVE  /\ Tail(s) \in Seq(S) /\ Head(s) \in S /\ 1 \in DOMAIN s /\ s[1] = Head(s)
         /\ \A i \in DOMAIN Tail(s) : i + 1 \in DOMAIN s /\ Tail(s)[i] = s[i + 1]
         /\ \A i \in DOMAIN s : i # 1 => i - 1 \in DOMAIN Tail(s) /\ Tail(s)[i - 1] = s[i]
  OBVIOUS

-----------------------------------------------------------------------------
(* Only the goroutine g moves, to the place "to".                          *)
Moves(g, to) ==
  /\ spc' \in [G -> SPC] /\ spc'[g] = to
  /\ \A h \in G \ {g} : spc'[h] = spc[h]

(* The call of g becomes c.                                                *)
Calls(g, c) ==
  /\ call' \in [G -> Call \cup {NoCall}] /\ call'[g] = c
  /\ \A h \in G \ {g} : call'[h] = call[h]

(* A step of g that keeps to its own program counter.                      *)
LEMMA StepMoves ==
  ASSUME SemaTypeOK, NEW g \in G, NEW from, NEW to \in SPC, Step(g, from, to)
  PROVE  Moves(g, to) /\ spc[g] = from
  BY DEF SemaTypeOK, Step, Moves

(* g returns from its call.                                                *)
LEMMA ReturnMoves ==
  ASSUME SemaTypeOK, NEW g \in G, NEW from, Return(g, from)
  PROVE  Moves(g, "idle") /\ Calls(g, NoCall) /\ spc[g] = from
  BY DEF SemaTypeOK, Return, Step, Moves, Calls

(* g stays in its call.                                                    *)
LEMMA CallKept ==
  ASSUME SemaTypeOK, NEW g \in G, call' = call
  PROVE  Calls(g, call[g])
  BY DEF SemaTypeOK, Calls

(* val keeps its type.                                                     *)
LEMMA TokenType ==
  ASSUME SemaTypeOK, NEW a \in Addr,
         TakeToken(a) \/ NoToken(a) \/ val' = [val EXCEPT ![a] = @ + 1]
  PROVE  val' \in [Addr -> Nat]
  BY DEF SemaTypeOK, TakeToken, NoToken

(* The count of the waiters, when nobody but g comes or goes.              *)
LEMMA WaitingStep ==
  ASSUME NEW g \in G, Waiting' \ {g} = Waiting \ {g}
  PROVE  /\ Cardinality(Waiting') = Cardinality(Waiting) + In(g, Waiting') - In(g, Waiting)
         /\ Cardinality(Waiting) \in Nat /\ Cardinality(Waiting') \in Nat
         /\ g \in Waiting => Cardinality(Waiting) > 0
  <1>1. Waiting \in SUBSET G /\ Waiting' \in SUBSET G
    BY DEF Waiting
  <1>2. Cardinality(Waiting') = Cardinality(Waiting) + In(g, Waiting') - In(g, Waiting)
    BY <1>1, CountStep
  <1>3. /\ Cardinality(Waiting) \in Nat /\ Cardinality(Waiting') \in Nat
        /\ Cardinality(Waiting) = 0 <=> Waiting = {}
    BY <1>1, CountIsNat
  <1> QED
    BY <1>2, <1>3

-----------------------------------------------------------------------------
(* A step that neither begins nor ends a sleep, and leaves queue and woken *)
(* alone: the sleepers are where they were.                                *)
Quiet(g, to, c) ==
  /\ Moves(g, to) /\ Calls(g, c)
  /\ spc[g] \notin {"parked", "wake"} /\ to \notin {"parked", "wake"}
  /\ queue' = queue /\ woken' = woken

(* The sleepers and their count after a quiet step.                        *)
LEMMA QuietStep ==
  ASSUME SleepersAccounted, NEW g \in G, NEW to, NEW c, Quiet(g, to, c)
  PROVE  /\ OnePlace' /\ OneWaker' /\ SleepersKnown'
         /\ Cardinality(Waiting') = nwait + In(to, Deciding) - In(spc[g], Deciding)
         /\ nwait \in Nat /\ Cardinality(Waiting') \in Nat
  <1> USE DEF Quiet
  <1>1. OnePlace' /\ OneWaker'
    BY DEF SleepersAccounted, OnePlace, OneWaker
  <1>2. \A h \in G, a \in Addr : Queued(h, a)' <=> Queued(h, a)
    BY DEF Queued
  <1>3. \A h \in G : Taken(h)' <=> Taken(h)
    BY DEF Taken
  <1>4. ASSUME NEW h \in G, NEW a \in Addr, Queued(h, a)'
        PROVE  spc'[h] = "parked" /\ call'[h].addr = a /\ ~Taken(h)'
    <2>1. spc[h] = "parked" /\ call[h].addr = a /\ ~Taken(h)
      BY <1>2, <1>4 DEF SleepersAccounted, SleepersKnown
    <2> QED
      BY <1>3, <2>1 DEF Moves, Calls
  <1>5. ASSUME NEW h \in G, spc'[h] = "wake"
        PROVE  spc'[woken'[h]] = "parked" /\ call'[woken'[h]].addr = call'[h].addr
    <2>1. h # g /\ spc[h] = "wake" /\ woken[h] \in G /\ spc[woken[h]] = "parked" /\ woken[h] # g
      BY <1>5 DEF SleepersAccounted, SemaTypeOK, CallsKnown, SleepersKnown, Moves
    <2> QED
      BY <2>1 DEF SleepersAccounted, SleepersKnown, Moves, Calls
  <1>6. ASSUME NEW h \in G, spc'[h] = "parked"
        PROVE  (\E a \in Addr : Queued(h, a)') \/ Taken(h)'
    <2>1. spc[h] = "parked"
      BY <1>6 DEF Moves
    <2> QED
      BY <1>2, <1>3, <2>1 DEF SleepersAccounted, SleepersKnown
  <1>7. SleepersKnown'
    BY <1>4, <1>5, <1>6 DEF SleepersKnown
  <1>8. \A a \in Addr : ~Queued(g, a)
    BY DEF SleepersAccounted, SleepersKnown
  <1>9. Waiting' \ {g} = Waiting \ {g}
    BY <1>2 DEF Waiting, Moves
  <1>10. (g \in Waiting <=> spc[g] \in Deciding) /\ (g \in Waiting' <=> to \in Deciding)
    BY <1>2, <1>8 DEF Waiting, Moves
  <1>11. /\ Cardinality(Waiting') = Cardinality(Waiting) + In(g, Waiting') - In(g, Waiting)
         /\ Cardinality(Waiting) \in Nat /\ Cardinality(Waiting') \in Nat
    BY <1>9, WaitingStep
  <1>12. nwait = Cardinality(Waiting)
    BY DEF SleepersAccounted
  <1> QED
    BY <1>1, <1>7, <1>10, <1>11, <1>12 DEF In

(* The lock follows the goroutine that decides whether to sleep.           *)
LocksAs(g, to) ==
  \/ lock' = lock /\ (to \in Deciding <=> spc[g] \in Deciding)
  \/ lock = None /\ lock' = g /\ to \in Deciding
  \/ spc[g] \in Deciding /\ lock' = None /\ to \notin Deciding

(* g keeps a ticket only when it is made ready.                            *)
TicketsAs(g, to) ==
  /\ ticket' \in [G -> BOOLEAN] /\ (ticket'[g] => to = "ready")
  /\ \A h \in G \ {g} : ticket'[h] = ticket[h]

(* root.lock is held by the goroutine that decides, and by nobody else.    *)
LEMMA LockStep ==
  ASSUME SleepersAccounted, NEW g \in G, NEW to, Moves(g, to), LocksAs(g, to)
  PROVE  RootLocked' /\ lock' \in G \cup {None}
  <1>1. lock \in G \cup {None} /\ \A h \in G : lock = h <=> spc[h] \in Deciding
    BY DEF SleepersAccounted, SemaTypeOK, RootLocked
  <1>2. \A h \in G : spc'[h] = IF h = g THEN to ELSE spc[h]
    BY DEF Moves
  <1>3. lock' \in G \cup {None}
    BY <1>1 DEF LocksAs
  <1>4. ASSUME NEW h \in G
        PROVE  lock' = h <=> spc'[h] \in Deciding
    <2>1. CASE lock' = lock /\ (to \in Deciding <=> spc[g] \in Deciding)
      BY <1>1, <1>2, <2>1
    <2>2. CASE lock = None /\ lock' = g /\ to \in Deciding
      BY <1>1, <1>2, <2>2
    <2>3. CASE spc[g] \in Deciding /\ lock' = None /\ to \notin Deciding
      BY <1>1, <1>2, <2>3
    <2> QED
      BY <2>1, <2>2, <2>3 DEF LocksAs
  <1> QED
    BY <1>3, <1>4 DEF RootLocked

(* A quiet step that keeps to the rules of the lock, the tickets and the   *)
(* count keeps SleepersAccounted.                                          *)
LEMMA QuietKeeps ==
  ASSUME SleepersAccounted, NEW g \in G, NEW to, NEW c, Quiet(g, to, c), LocksAs(g, to), TicketsAs(g, to),
         to = "idle" <=> c = NoCall, val' \in [Addr -> Nat],
         nwait' = nwait + In(to, Deciding) - In(spc[g], Deciding)
  PROVE  SleepersAccounted'
  <1>1. /\ OnePlace' /\ OneWaker' /\ SleepersKnown'
        /\ nwait' = Cardinality(Waiting') /\ Cardinality(Waiting') \in Nat
    BY QuietStep
  <1>2. RootLocked' /\ lock' \in G \cup {None}
    BY LockStep DEF Quiet
  <1>3. SemaTypeOK'
    BY <1>1, <1>2 DEF SleepersAccounted, SemaTypeOK, Quiet, Moves, Calls, TicketsAs
  <1>4. CallsKnown'
    BY DEF SleepersAccounted, CallsKnown, Quiet, Moves, Calls, TicketsAs
  <1> QED
    BY <1>1, <1>2, <1>3, <1>4 DEF SleepersAccounted

(* A goroutine that is not idle has an address.                            *)
LEMMA InCall ==
  ASSUME SleepersAccounted, NEW g \in G, spc[g] # "idle"
  PROVE  call[g] \in Call /\ call[g].addr \in Addr /\ call[g] # NoCall
  BY DEF SleepersAccounted, SemaTypeOK, CallsKnown, Call

(* At the start nobody sleeps.                                             *)
LEMMA InitAccounted == SemaInit => SleepersAccounted
  <1> SUFFICES ASSUME SemaInit PROVE SleepersAccounted
    OBVIOUS
  <1>1. SemaTypeOK /\ RootLocked /\ CallsKnown
    BY DEF SemaInit, SemaTypeOK, RootLocked, CallsKnown
  <1>2. OnePlace /\ OneWaker /\ \A g \in G, a \in Addr : ~Queued(g, a)
    BY DEF SemaInit, OnePlace, OneWaker, Queued
  <1>3. SleepersKnown
    BY <1>2 DEF SemaInit, SleepersKnown
  <1>4. Waiting = {}
    BY <1>2 DEF SemaInit, Waiting
  <1>5. Cardinality(Waiting) = 0
    BY <1>4, FS_EmptySet
  <1> QED
    BY <1>1, <1>2, <1>3, <1>5 DEF SleepersAccounted, SemaInit

(* The steps of semacquire1 that are quiet.                                *)
LEMMA AcquireAccounted ==
  ASSUME SleepersAccounted, NEW g \in G,
         \/ LockRoot(g) \/ CheckHit(g) \/ CheckMiss(g) \/ Undo(g)
         \/ ReadyTicket(g) \/ ReadyToken(g) \/ ReadyMiss(g)
         \/ \E a \in Addr : EasyAcquire(g, a) \/ \E flag \in BOOLEAN : EasyMiss(g, a, flag)
  PROVE  SleepersAccounted'
  <1>1. SemaTypeOK /\ CallsKnown
    BY DEF SleepersAccounted
  <1>2. nwait \in Nat /\ val \in [Addr -> Nat] /\ spc \in [G -> SPC]
    BY <1>1 DEF SemaTypeOK
  <1>3. \A to : ticket' = ticket /\ (spc[g] = "ready" => ~ticket[g]) => TicketsAs(g, to)
    BY <1>1 DEF SemaTypeOK, CallsKnown, TicketsAs
  <1>4. ASSUME NEW a \in Addr, EasyAcquire(g, a)
        PROVE  SleepersAccounted'
    <2>1. Quiet(g, "idle", call[g]) /\ spc[g] = "idle"
      BY <1>1, <1>4, CallKept DEF EasyAcquire, Quiet, Moves, SemaTypeOK
    <2>2. call[g] = NoCall
      BY <1>1, <2>1 DEF CallsKnown
    <2>3. TicketsAs(g, "idle") /\ val' \in [Addr -> Nat]
      BY <1>1, <1>3, <1>4, <2>1, TokenType DEF EasyAcquire
    <2> QED
      BY <1>2, <1>4, <2>1, <2>2, <2>3, QuietKeeps DEF EasyAcquire, LocksAs, In
  <1>5. ASSUME NEW a \in Addr, NEW flag \in BOOLEAN, EasyMiss(g, a, flag)
        PROVE  SleepersAccounted'
    <2> DEFINE c == [addr |-> a, flag |-> flag]
    <2>1. c \in Call /\ c # NoCall
      BY DEF Call, NoCall
    <2>4. Calls(g, c)
      BY <1>1, <1>5, <2>1 DEF EasyMiss, Calls, SemaTypeOK
    <2>2. Quiet(g, "lockRoot", c) /\ spc[g] = "idle"
      BY <1>1, <1>5, <2>4, StepMoves DEF EasyMiss, Quiet
    <2>3. TicketsAs(g, "lockRoot") /\ val' \in [Addr -> Nat]
      BY <1>1, <1>3, <1>5, <2>2, TokenType DEF EasyMiss
    <2> QED
      BY <1>2, <1>5, <2>1, <2>2, <2>3, QuietKeeps DEF EasyMiss, LocksAs, In
  <1>6. CASE LockRoot(g)
    <2>1. Quiet(g, "check", call[g]) /\ spc[g] = "lockRoot"
      BY <1>1, <1>6, StepMoves, CallKept DEF LockRoot, Quiet
    <2>2. call[g] # NoCall
      BY <2>1, InCall
    <2>3. TicketsAs(g, "check")
      BY <1>3, <1>6, <2>1 DEF LockRoot
    <2> QED
      BY <1>2, <1>6, <2>1, <2>2, <2>3, QuietKeeps DEF LockRoot, LocksAs, In
  <1>7. ASSUME NEW to \in {"undo", "enqueue"}, Step(g, "check", to),
               TakeToken(call[g].addr) \/ NoToken(call[g].addr),
               UNCHANGED <<nwait, lock, queue, call, ticket, woken>>
        PROVE  SleepersAccounted'
    <2>1. Quiet(g, to, call[g]) /\ spc[g] = "check"
      BY <1>1, <1>7, StepMoves, CallKept DEF Quiet
    <2>2. call[g] # NoCall /\ call[g].addr \in Addr
      BY <2>1, InCall
    <2>3. TicketsAs(g, to) /\ val' \in [Addr -> Nat]
      BY <1>1, <1>3, <1>7, <2>1, <2>2, TokenType
    <2> QED
      BY <1>2, <1>7, <2>1, <2>2, <2>3, QuietKeeps DEF LocksAs, In
  <1>8. CASE Undo(g)
    <2>1. Quiet(g, "idle", NoCall) /\ spc[g] = "undo"
      BY <1>1, <1>8, ReturnMoves DEF Undo, Quiet
    <2>3. TicketsAs(g, "idle")
      BY <1>3, <1>8, <2>1 DEF Undo
    <2> QED
      BY <1>2, <1>8, <2>1, <2>3, QuietKeeps DEF Undo, LocksAs, In
  <1>9. CASE ReadyTicket(g)
    <2>1. Quiet(g, "idle", NoCall) /\ spc[g] = "ready"
      BY <1>1, <1>9, ReturnMoves DEF ReadyTicket, Quiet
    <2>3. TicketsAs(g, "idle")
      BY <1>1, <1>9 DEF ReadyTicket, SemaTypeOK, TicketsAs
    <2> QED
      BY <1>2, <1>9, <2>1, <2>3, QuietKeeps DEF ReadyTicket, LocksAs, In
  <1>10. CASE ReadyToken(g)
    <2>1. Quiet(g, "idle", NoCall) /\ spc[g] = "ready"
      BY <1>1, <1>10, ReturnMoves DEF ReadyToken, Quiet
    <2>2. call[g].addr \in Addr
      BY <2>1, InCall
    <2>3. TicketsAs(g, "idle") /\ val' \in [Addr -> Nat]
      BY <1>1, <1>3, <1>10, <2>1, <2>2, TokenType DEF ReadyToken
    <2> QED
      BY <1>2, <1>10, <2>1, <2>3, QuietKeeps DEF ReadyToken, LocksAs, In
  <1>11. CASE ReadyMiss(g)
    <2>1. Quiet(g, "lockRoot", call[g]) /\ spc[g] = "ready"
      BY <1>1, <1>11, StepMoves, CallKept DEF ReadyMiss, Quiet
    <2>2. call[g] # NoCall
      BY <2>1, InCall
    <2>3. TicketsAs(g, "lockRoot")
      BY <1>3, <1>11, <2>1 DEF ReadyMiss
    <2> QED
      BY <1>2, <1>11, <2>1, <2>2, <2>3, QuietKeeps DEF ReadyMiss, NoToken, LocksAs, In
  <1> QED
    BY <1>4, <1>5, <1>6, <1>7, <1>8, <1>9, <1>10, <1>11 DEF CheckHit, CheckMiss

(* The steps of semrelease1 that are quiet.                                *)
LEMMA ReleaseAccounted ==
  ASSUME SleepersAccounted, NEW g \in G,
         \/ NobodyWaits(g) \/ SomebodyWaits(g) \/ DequeueNobody(g)
         \/ \E a \in Addr, flag \in BOOLEAN : Release(g, a, flag)
  PROVE  SleepersAccounted'
  <1>1. SemaTypeOK /\ CallsKnown
    BY DEF SleepersAccounted
  <1>2. nwait \in Nat /\ val \in [Addr -> Nat] /\ spc \in [G -> SPC]
    BY <1>1 DEF SemaTypeOK
  <1>3. \A to : ticket' = ticket /\ spc[g] # "ready" => TicketsAs(g, to)
    BY <1>1 DEF SemaTypeOK, CallsKnown, TicketsAs
  <1>4. ASSUME NEW a \in Addr, NEW flag \in BOOLEAN, Release(g, a, flag)
        PROVE  SleepersAccounted'
    <2> DEFINE c == [addr |-> a, flag |-> flag]
    <2>1. c \in Call /\ c # NoCall
      BY DEF Call, NoCall
    <2>4. Calls(g, c)
      BY <1>1, <1>4, <2>1 DEF Release, Calls, SemaTypeOK
    <2>2. Quiet(g, "nwaitLoad", c) /\ spc[g] = "idle"
      BY <1>1, <1>4, <2>4, StepMoves DEF Release, Quiet
    <2>3. TicketsAs(g, "nwaitLoad") /\ val' \in [Addr -> Nat]
      BY <1>1, <1>3, <1>4, <2>2, TokenType DEF Release
    <2> QED
      BY <1>2, <1>4, <2>1, <2>2, <2>3, QuietKeeps DEF Release, LocksAs, In
  <1>5. ASSUME NEW from \in {"nwaitLoad", "lockRelease"}, Return(g, from),
               UNCHANGED <<val, nwait, lock, queue, ticket, woken>>
        PROVE  SleepersAccounted'
    <2>1. Quiet(g, "idle", NoCall) /\ spc[g] = from
      BY <1>1, <1>5, ReturnMoves DEF Quiet
    <2>2. TicketsAs(g, "idle")
      BY <1>3, <1>5, <2>1
    <2> QED
      BY <1>2, <1>5, <2>1, <2>2, QuietKeeps DEF LocksAs, In
  <1>6. CASE SomebodyWaits(g)
    <2>1. Quiet(g, "lockRelease", call[g]) /\ spc[g] = "nwaitLoad"
      BY <1>1, <1>6, StepMoves, CallKept DEF SomebodyWaits, Quiet
    <2>2. call[g] # NoCall
      BY <2>1, InCall
    <2>3. TicketsAs(g, "lockRelease")
      BY <1>3, <1>6, <2>1 DEF SomebodyWaits
    <2> QED
      BY <1>2, <1>6, <2>1, <2>2, <2>3, QuietKeeps DEF SomebodyWaits, LocksAs, In
  <1> QED
    BY <1>4, <1>5, <1>6 DEF NobodyWaits, DequeueNobody

-----------------------------------------------------------------------------
(* g joins the queue of a, at either end.                                  *)
LEMMA QueueJoined ==
  ASSUME SemaTypeOK, OnePlace, NEW g \in G, NEW a \in Addr, NEW lifo,
         \A b \in Addr : ~Queued(g, b),
         queue' = [queue EXCEPT ![a] = IF lifo THEN <<g>> \o @ ELSE Append(@, g)]
  PROVE  /\ queue' \in [Addr -> Seq(G)] /\ OnePlace'
         /\ \A h \in G, b \in Addr : Queued(h, b)' <=> Queued(h, b) \/ (h = g /\ b = a)
  <1>1. queue[a] \in Seq(G) /\ queue \in [Addr -> Seq(G)]
    BY DEF SemaTypeOK
  <1>2. \A b \in Addr :
          queue'[b] = IF b # a THEN queue[b] ELSE IF lifo THEN <<g>> \o queue[a] ELSE Append(queue[a], g)
    BY <1>1
  <1>3. \A b \in Addr : \A i \in DOMAIN queue[b] : queue[b][i] # g
    BY DEF Queued
  <1>4. CASE ~lifo
    <2>1. /\ queue'[a] \in Seq(G) /\ DOMAIN queue'[a] = 1..(Len(queue[a]) + 1)
          /\ \A i \in DOMAIN queue[a] : i \in 1..Len(queue[a]) /\ queue'[a][i] = queue[a][i]
          /\ queue'[a][Len(queue[a]) + 1] = g
      BY <1>1, <1>2, <1>4, Append1
    <2>2. DOMAIN queue[a] = 1..Len(queue[a]) /\ Len(queue[a]) \in Nat
      BY <1>1
    <2>3. queue' \in [Addr -> Seq(G)]
      BY <1>1, <1>2, <2>1
    <2>4. OnePlace'
      BY <1>2, <1>3, <2>1, <2>2 DEF OnePlace
    <2>5. ASSUME NEW h \in G, NEW b \in Addr
          PROVE  Queued(h, b)' <=> Queued(h, b) \/ (h = g /\ b = a)
      BY <1>2, <2>1, <2>2 DEF Queued
    <2> QED
      BY <2>3, <2>4, <2>5
  <1>5. CASE lifo
    <2>1. /\ queue'[a] \in Seq(G) /\ DOMAIN queue'[a] = 1..(Len(queue[a]) + 1)
          /\ \A i \in DOMAIN queue[a] : i + 1 \in DOMAIN queue'[a] /\ queue'[a][i + 1] = queue[a][i]
          /\ \A i \in 2..(Len(queue[a]) + 1) : i - 1 \in DOMAIN queue[a] /\ queue'[a][i] = queue[a][i - 1]
          /\ queue'[a][1] = g
      BY <1>1, <1>2, <1>5, Prepend1
    <2>2. DOMAIN queue[a] = 1..Len(queue[a]) /\ Len(queue[a]) \in Nat
      BY <1>1
    <2>3. queue' \in [Addr -> Seq(G)]
      BY <1>1, <1>2, <2>1
    <2>6. \A i \in DOMAIN queue'[a] : i \in Nat /\ (i = 1 \/ i \in 2..(Len(queue[a]) + 1))
      BY <2>1, <2>2
    <2>7. ASSUME NEW b \in Addr, NEW c \in Addr, NEW i \in DOMAIN queue'[b], NEW j \in DOMAIN queue'[c],
                 queue'[b][i] = queue'[c][j]
          PROVE  b = c /\ i = j
      <3>1. CASE b # a /\ c # a
        BY <1>2, <2>7, <3>1 DEF OnePlace
      <3>2. CASE b = a /\ c # a
        BY <1>2, <1>3, <2>1, <2>6, <2>7, <3>2 DEF OnePlace
      <3>3. CASE b # a /\ c = a
        BY <1>2, <1>3, <2>1, <2>6, <2>7, <3>3 DEF OnePlace
      <3>4. CASE b = a /\ c = a
        <4>1. i = 1 <=> j = 1
          BY <1>3, <2>1, <2>6, <2>7, <3>4
        <4>2. CASE i # 1 /\ j # 1
          <5>1. i - 1 \in DOMAIN queue[a] /\ j - 1 \in DOMAIN queue[a] /\ queue[a][i - 1] = queue[a][j - 1]
            BY <2>1, <2>6, <2>7, <3>4, <4>2
          <5>2. i - 1 = j - 1
            BY <5>1 DEF OnePlace
          <5> QED
            BY <2>6, <3>4, <5>2
        <4> QED
          BY <3>4, <4>1, <4>2
      <3> QED
        BY <3>1, <3>2, <3>3, <3>4
    <2>4. OnePlace'
      BY <2>7 DEF OnePlace
    <2>5. ASSUME NEW h \in G, NEW b \in Addr
          PROVE  Queued(h, b)' <=> Queued(h, b) \/ (h = g /\ b = a)
      <3>1. CASE b # a
        BY <1>2, <3>1 DEF Queued
      <3>2. CASE b = a
        <4>1. ASSUME NEW i \in DOMAIN queue'[a], queue'[a][i] = h
              PROVE  h = g \/ \E j \in DOMAIN queue[a] : queue[a][j] = h
          BY <2>1, <2>6, <4>1
        <4>2. ASSUME NEW i \in DOMAIN queue[a], queue[a][i] = h
              PROVE  \E j \in DOMAIN queue'[a] : queue'[a][j] = h
          BY <2>1, <4>2
        <4>3. 1 \in DOMAIN queue'[a] /\ queue'[a][1] = g
          BY <2>1, <2>2
        <4> QED
          BY <3>2, <4>1, <4>2, <4>3 DEF Queued
      <3> QED
        BY <3>1, <3>2
    <2> QED
      BY <2>3, <2>4, <2>5
  <1> QED
    BY <1>4, <1>5

(* The first of the queue of a leaves it.                                  *)
LEMMA QueueLeft ==
  ASSUME SemaTypeOK, OnePlace, NEW a \in Addr, queue[a] # <<>>,
         queue' = [queue EXCEPT ![a] = Tail(@)]
  PROVE  /\ queue' \in [Addr -> Seq(G)] /\ OnePlace'
         /\ Head(queue[a]) \in G /\ Queued(Head(queue[a]), a)
         /\ \A h \in G, b \in Addr : Queued(h, b)' <=> Queued(h, b) /\ h # Head(queue[a])
  <1>1. queue[a] \in Seq(G) /\ queue \in [Addr -> Seq(G)]
    BY DEF SemaTypeOK
  <1>2. \A b \in Addr : queue'[b] = IF b # a THEN queue[b] ELSE Tail(queue[a])
    BY <1>1
  <1>3. /\ queue'[a] \in Seq(G) /\ Head(queue[a]) \in G /\ 1 \in DOMAIN queue[a] /\ queue[a][1] = Head(queue[a])
        /\ \A i \in DOMAIN queue'[a] : i + 1 \in DOMAIN queue[a] /\ queue'[a][i] = queue[a][i + 1]
        /\ \A i \in DOMAIN queue[a] : i # 1 => i - 1 \in DOMAIN queue'[a] /\ queue'[a][i - 1] = queue[a][i]
    BY <1>1, <1>2, Tail1
  <1>4. DOMAIN queue[a] \in SUBSET (Nat \ {0}) /\ DOMAIN queue'[a] \in SUBSET (Nat \ {0})
    BY <1>1, <1>3
  <1>5. queue' \in [Addr -> Seq(G)]
    BY <1>1, <1>2, <1>3
  <1>6. OnePlace'
    BY <1>2, <1>3, <1>4 DEF OnePlace
  <1>7. \A b \in Addr : \A i \in DOMAIN queue[b] : queue[b][i] = Head(queue[a]) => b = a /\ i = 1
    BY <1>3 DEF OnePlace
  <1>8. ASSUME NEW h \in G, NEW b \in Addr
        PROVE  Queued(h, b)' <=> Queued(h, b) /\ h # Head(queue[a])
    <2>1. CASE b # a
      BY <1>2, <1>7, <2>1 DEF Queued
    <2>2. CASE b = a
      <3>1. ASSUME NEW i \in DOMAIN queue'[a], queue'[a][i] = h
            PROVE  h # Head(queue[a]) /\ \E j \in DOMAIN queue[a] : queue[a][j] = h
        <4>1. i + 1 \in DOMAIN queue[a] /\ queue[a][i + 1] = h /\ i + 1 # 1
          BY <1>3, <1>4, <3>1
        <4> QED
          BY <1>7, <4>1
      <3>2. ASSUME NEW i \in DOMAIN queue[a], queue[a][i] = h, h # Head(queue[a])
            PROVE  \E j \in DOMAIN queue'[a] : queue'[a][j] = h
        BY <1>3, <3>2
      <3> QED
        BY <2>2, <3>1, <3>2 DEF Queued
    <2> QED
      BY <2>1, <2>2
  <1> QED
    BY <1>3, <1>5, <1>6, <1>8 DEF Queued

(* The goroutine that found no token goes to sleep.                        *)
LEMMA EnqueueAccounted ==
  ASSUME SleepersAccounted, NEW g \in G, Enqueue(g)
  PROVE  SleepersAccounted'
  <1> DEFINE a == call[g].addr
  <1>1. /\ SemaTypeOK /\ RootLocked /\ CallsKnown /\ OnePlace /\ OneWaker /\ SleepersKnown
        /\ nwait = Cardinality(Waiting)
    BY DEF SleepersAccounted
  <1>2. Moves(g, "parked") /\ spc[g] = "enqueue"
    BY <1>1, StepMoves DEF Enqueue
  <1>3. a \in Addr
    BY <1>2, InCall
  <1>4. \A b \in Addr : ~Queued(g, b)
    BY <1>1, <1>2 DEF SleepersKnown
  <1>5. /\ queue' \in [Addr -> Seq(G)] /\ OnePlace'
        /\ \A h \in G, b \in Addr : Queued(h, b)' <=> Queued(h, b) \/ (h = g /\ b = a)
    <2>1. queue' = [queue EXCEPT ![a] = IF call[g].flag THEN <<g>> \o @ ELSE Append(@, g)]
      BY DEF Enqueue
    <2> HIDE DEF a
    <2> QED
      BY <1>1, <1>3, <1>4, <2>1, QueueJoined
  <1>6. UNCHANGED <<val, nwait, call, ticket, woken>> /\ lock' = None
    BY DEF Enqueue
  <1>7. \A h \in G : Taken(h)' <=> Taken(h)
    BY <1>6 DEF Taken
  <1>8. RootLocked' /\ lock' \in G \cup {None}
    BY <1>2, <1>6, LockStep DEF LocksAs
  <1>9. SemaTypeOK'
    BY <1>1, <1>2, <1>5, <1>6, <1>8 DEF SemaTypeOK, Moves
  <1>10. CallsKnown'
    BY <1>1, <1>2, <1>6 DEF CallsKnown, Moves
  <1>11. OneWaker'
    BY <1>1, <1>6 DEF OneWaker
  <1>12. ~Taken(g)
    BY <1>1, <1>2 DEF Taken, SleepersKnown, CallsKnown
  <1>13. SleepersKnown'
    <2>1. ASSUME NEW h \in G, NEW b \in Addr, Queued(h, b)'
          PROVE  spc'[h] = "parked" /\ call'[h].addr = b /\ ~Taken(h)'
      BY <1>1, <1>2, <1>5, <1>6, <1>7, <1>12, <2>1 DEF SleepersKnown, Moves
    <2>2. ASSUME NEW h \in G, spc'[h] = "wake"
          PROVE  spc'[woken'[h]] = "parked" /\ call'[woken'[h]].addr = call'[h].addr
      <3>1. spc[h] = "wake" /\ woken[h] \in G
        BY <1>1, <1>2, <2>2 DEF CallsKnown, SemaTypeOK, Moves
      <3> QED
        BY <1>1, <1>2, <1>6, <3>1 DEF SleepersKnown, Moves
    <2>3. ASSUME NEW h \in G, spc'[h] = "parked"
          PROVE  (\E b \in Addr : Queued(h, b)') \/ Taken(h)'
      <3>1. h = g \/ spc[h] = "parked"
        BY <1>2, <2>3 DEF Moves
      <3>2. CASE h = g
        BY <1>3, <1>5, <3>2
      <3>3. CASE spc[h] = "parked"
        BY <1>1, <1>5, <1>7, <3>3 DEF SleepersKnown
      <3> QED
        BY <3>1, <3>2, <3>3
    <2> QED
      BY <2>1, <2>2, <2>3 DEF SleepersKnown
  <1>14. Waiting' = Waiting
    BY <1>2, <1>3, <1>5 DEF Waiting, Moves
  <1> QED
    BY <1>1, <1>5, <1>6, <1>8, <1>9, <1>10, <1>11, <1>13, <1>14 DEF SleepersAccounted

(* The releaser takes the first sleeper off the queue.                     *)
LEMMA DequeueAccounted ==
  ASSUME SleepersAccounted, NEW g \in G, Dequeue(g)
  PROVE  SleepersAccounted'
  <1> DEFINE a == call[g].addr
             s == Head(queue[a])
  <1>1. /\ SemaTypeOK /\ RootLocked /\ CallsKnown /\ OnePlace /\ OneWaker /\ SleepersKnown
        /\ nwait = Cardinality(Waiting)
    BY DEF SleepersAccounted
  <1>2. Moves(g, "wake") /\ spc[g] = "lockRelease"
    BY <1>1, StepMoves DEF Dequeue
  <1>3. a \in Addr
    BY <1>2, InCall
  <1>4. /\ queue' \in [Addr -> Seq(G)] /\ OnePlace' /\ s \in G /\ Queued(s, a)
        /\ \A h \in G, b \in Addr : Queued(h, b)' <=> Queued(h, b) /\ h # s
    <2>1. queue' = [queue EXCEPT ![a] = Tail(@)] /\ queue[a] # <<>>
      BY DEF Dequeue
    <2> HIDE DEF a
    <2> QED
      BY <1>1, <1>3, <2>1, QueueLeft
  <1>5. /\ UNCHANGED <<val, lock, call, ticket>> /\ nwait' = nwait - 1
        /\ woken' \in [G -> G \cup {None}] /\ woken'[g] = s
        /\ \A h \in G \ {g} : woken'[h] = woken[h]
    BY <1>1, <1>4 DEF Dequeue, SemaTypeOK
  <1>6. spc[s] = "parked" /\ call[s].addr = a /\ ~Taken(s) /\ s # None /\ s # g
    BY <1>1, <1>2, <1>3, <1>4 DEF SleepersKnown
  <1>7. woken[g] = None
    BY <1>1, <1>2 DEF CallsKnown
  <1> HIDE DEF a, s
  <1>8. \A h \in G : Taken(h)' <=> Taken(h) \/ h = s
    BY <1>5, <1>7 DEF Taken
  <1>9. RootLocked' /\ lock' \in G \cup {None}
    BY <1>2, <1>5, LockStep DEF LocksAs
  <1>10. Waiting' \ {s} = Waiting \ {s} /\ s \in Waiting /\ s \notin Waiting'
    BY <1>2, <1>3, <1>4, <1>6 DEF Waiting, Moves
  <1>11. /\ Cardinality(Waiting') = Cardinality(Waiting) + In(s, Waiting') - In(s, Waiting)
         /\ Cardinality(Waiting) \in Nat /\ Cardinality(Waiting') \in Nat
    BY <1>4, <1>10, WaitingStep
  <1>12. nwait' = Cardinality(Waiting') /\ nwait' \in Nat
    BY <1>1, <1>5, <1>10, <1>11 DEF In
  <1>13. SemaTypeOK'
    BY <1>1, <1>2, <1>4, <1>5, <1>9, <1>12 DEF SemaTypeOK, Moves
  <1>14. CallsKnown'
    BY <1>1, <1>2, <1>5, <1>6 DEF CallsKnown, Moves
  <1>15. OneWaker'
    BY <1>1, <1>5, <1>6 DEF OneWaker, Taken
  <1>16. SleepersKnown'
    <2>1. ASSUME NEW h \in G, NEW b \in Addr, Queued(h, b)'
          PROVE  spc'[h] = "parked" /\ call'[h].addr = b /\ ~Taken(h)'
      BY <1>1, <1>2, <1>4, <1>5, <1>8, <2>1 DEF SleepersKnown, Moves
    <2>2. ASSUME NEW h \in G, spc'[h] = "wake"
          PROVE  spc'[woken'[h]] = "parked" /\ call'[woken'[h]].addr = call'[h].addr
      <3>1. CASE h = g
        BY <1>2, <1>5, <1>6, <3>1 DEF Moves, a
      <3>2. CASE h # g
        <4>1. spc[h] = "wake" /\ woken'[h] = woken[h] /\ woken[h] \in G
          BY <1>1, <1>2, <1>5, <2>2, <3>2 DEF CallsKnown, SemaTypeOK, Moves
        <4>2. spc[woken[h]] = "parked" /\ call[woken[h]].addr = call[h].addr
          BY <1>1, <4>1 DEF SleepersKnown
        <4> QED
          BY <1>2, <1>5, <4>1, <4>2 DEF Moves
      <3> QED
        BY <3>1, <3>2
    <2>3. ASSUME NEW h \in G, spc'[h] = "parked"
          PROVE  (\E b \in Addr : Queued(h, b)') \/ Taken(h)'
      <3>1. spc[h] = "parked"
        BY <1>2, <2>3 DEF Moves
      <3> QED
        BY <1>1, <1>4, <1>8, <3>1 DEF SleepersKnown
    <2> QED
      BY <2>1, <2>2, <2>3 DEF SleepersKnown
  <1> QED
    BY <1>4, <1>9, <1>12, <1>13, <1>14, <1>15, <1>16 DEF SleepersAccounted

(* The releaser makes the sleeper ready, with a ticket or without.         *)
LEMMA WakeAccounted ==
  ASSUME SleepersAccounted, NEW g \in G, Wake(g)
  PROVE  SleepersAccounted'
  <1> DEFINE s == woken[g]
  <1>1. /\ SemaTypeOK /\ RootLocked /\ CallsKnown /\ OnePlace /\ OneWaker /\ SleepersKnown
        /\ nwait = Cardinality(Waiting)
    BY DEF SleepersAccounted
  <1>2. spc[g] = "wake" /\ s \in G /\ spc[s] = "parked" /\ s # g
    BY <1>1 DEF Wake, CallsKnown, SemaTypeOK, SleepersKnown
  <1>3. call[g].addr \in Addr
    BY <1>2, InCall
  <1>4. val' \in [Addr -> Nat]
    BY <1>1, <1>3, TokenType DEF Wake, HandsOff, SemaTypeOK
  <1>5. /\ spc' \in [G -> SPC] /\ spc'[g] = "idle" /\ spc'[s] = "ready"
        /\ \A h \in G \ {g, s} : spc'[h] = spc[h]
    BY <1>1, <1>2 DEF Wake, SemaTypeOK
  <1>6. Calls(g, NoCall)
    BY <1>1 DEF Wake, Calls, SemaTypeOK
  <1>7. /\ woken' \in [G -> G \cup {None}] /\ woken'[g] = None
        /\ \A h \in G \ {g} : woken'[h] = woken[h]
    BY <1>1 DEF Wake, SemaTypeOK
  <1>8. ticket' \in [G -> BOOLEAN] /\ \A h \in G \ {s} : ticket'[h] = ticket[h]
    BY <1>1, <1>2 DEF Wake, SemaTypeOK
  <1>9. UNCHANGED <<nwait, lock, queue>>
    BY DEF Wake
  <1> HIDE DEF s
  <1>10. Taken(s) /\ \A h \in G : Taken(h)' <=> Taken(h) /\ h # s
    BY <1>1, <1>2, <1>7 DEF Taken, OneWaker, s
  <1>11. \A h \in G, a \in Addr : Queued(h, a)' <=> Queued(h, a)
    BY <1>9 DEF Queued
  <1>12. \A a \in Addr : ~Queued(s, a) /\ ~Queued(g, a)
    BY <1>1, <1>2, <1>10 DEF SleepersKnown
  <1>13. SemaTypeOK'
    BY <1>1, <1>4, <1>5, <1>6, <1>7, <1>8, <1>9 DEF SemaTypeOK, Calls
  <1>14. RootLocked'
    BY <1>1, <1>2, <1>5, <1>9 DEF RootLocked
  <1>15. CallsKnown'
    <2>1. call'[s] = call[s] /\ call[s] # NoCall
      BY <1>1, <1>2, <1>6 DEF Calls, CallsKnown
    <2>2. woken'[s] = None
      BY <1>1, <1>2, <1>7 DEF CallsKnown
    <2>3. ~ticket'[g]
      BY <1>1, <1>2, <1>8 DEF CallsKnown
    <2> QED
      BY <1>1, <1>2, <1>5, <1>6, <1>7, <1>8, <2>1, <2>2, <2>3 DEF CallsKnown, Calls
  <1>16. OnePlace'
    BY <1>1, <1>9 DEF OnePlace
  <1>17. OneWaker'
    BY <1>1, <1>7 DEF OneWaker
  <1>18. SleepersKnown'
    <2>1. ASSUME NEW h \in G, NEW b \in Addr, Queued(h, b)'
          PROVE  spc'[h] = "parked" /\ call'[h].addr = b /\ ~Taken(h)'
      <3>1. h \notin {g, s} /\ Queued(h, b)
        BY <1>11, <1>12, <2>1
      <3> QED
        BY <1>1, <1>5, <1>6, <1>10, <3>1 DEF SleepersKnown, Calls
    <2>2. ASSUME NEW h \in G, spc'[h] = "wake"
          PROVE  spc'[woken'[h]] = "parked" /\ call'[woken'[h]].addr = call'[h].addr
      <3>1. h \notin {g, s} /\ spc[h] = "wake" /\ woken'[h] = woken[h] /\ woken[h] \in G /\ woken[h] # s
        BY <1>1, <1>5, <1>7, <2>2 DEF CallsKnown, SemaTypeOK, OneWaker, s
      <3>2. spc[woken[h]] = "parked" /\ call[woken[h]].addr = call[h].addr
        BY <1>1, <3>1 DEF SleepersKnown
      <3>3. woken[h] # g
        BY <1>2, <3>2
      <3> QED
        BY <1>5, <1>6, <3>1, <3>2, <3>3 DEF Calls
    <2>3. ASSUME NEW h \in G, spc'[h] = "parked"
          PROVE  (\E b \in Addr : Queued(h, b)') \/ Taken(h)'
      <3>1. h \notin {g, s} /\ spc[h] = "parked"
        BY <1>2, <1>5, <2>3
      <3> QED
        BY <1>1, <1>10, <1>11, <3>1 DEF SleepersKnown
    <2> QED
      BY <2>1, <2>2, <2>3 DEF SleepersKnown
  <1>19. Waiting' = Waiting
    BY <1>2, <1>5, <1>11, <1>12 DEF Waiting
  <1> QED
    BY <1>1, <1>9, <1>13, <1>14, <1>15, <1>16, <1>17, <1>18, <1>19 DEF SleepersAccounted

(* Every sleeper of a semaRoot is on exactly one queue or in the hands of  *)
(* exactly one releaser, and nwait counts them, for any number of          *)
(* goroutines and addresses.                                               *)
THEOREM SleepersAreAccounted == SemaSpec => []SleepersAccounted
  <1>1. ASSUME SleepersAccounted, SemaNext
        PROVE  SleepersAccounted'
    BY <1>1, AcquireAccounted, ReleaseAccounted, EnqueueAccounted, DequeueAccounted, WakeAccounted
       DEF SemaNext, Invoke, AcquireReturns, AcquireStep, ReleaseStep
  <1>2. ASSUME SleepersAccounted, UNCHANGED semavars
        PROVE  SleepersAccounted'
    BY <1>2 DEF semavars, SleepersAccounted, SemaTypeOK, RootLocked, CallsKnown, OnePlace, OneWaker,
                SleepersKnown, Queued, Taken, Waiting
  <1> QED
    BY InitAccounted, <1>1, <1>2, PTL DEF SemaSpec

-----------------------------------------------------------------------------
(* No wake-up is missed.                                                   *)
NotMissed(a) == MaySleep(a) => val[a] <= Cardinality(InFlight(a))

(* The number of goroutines in flight.                                     *)
LEMMA InFlightIsNat ==
  ASSUME NEW a
  PROVE  Cardinality(InFlight(a)) \in Nat /\ Cardinality(InFlight(a))' \in Nat
  <1>1. InFlight(a) \in SUBSET G /\ InFlight(a)' \in SUBSET G
    BY DEF InFlight
  <1> QED
    BY <1>1, CountIsNat

(* The goroutines in flight, when nobody but g comes or goes.              *)
LEMMA InFlightStep ==
  ASSUME NEW a, NEW g \in G, InFlight(a)' \ {g} = InFlight(a) \ {g}
  PROVE  Cardinality(InFlight(a))' = Cardinality(InFlight(a)) + In(g, InFlight(a)') - In(g, InFlight(a))
  <1>1. InFlight(a) \in SUBSET G /\ InFlight(a)' \in SUBSET G
    BY DEF InFlight
  <1> QED
    BY <1>1, CountStep

(* In a step of g alone.                                                   *)
LEMMA OthersInFlight ==
  ASSUME NEW g \in G, NEW to, NEW c, Moves(g, to), Calls(g, c),
         \A h \in G \ {g} : ticket'[h] = ticket[h], NEW a \in Addr
  PROVE  /\ InFlight(a)' \ {g} = InFlight(a) \ {g}
         /\ g \in InFlight(a)' <=> c.addr = a /\ (to \in SemReleasing \/ (to = "ready" /\ ~ticket'[g]))
  BY DEF InFlight, Moves, Calls

(* Nobody comes to where it may sleep but by the last check.               *)
LEMMA MaySleepStep ==
  ASSUME NEW g \in G, NEW to, NEW c, Moves(g, to), Calls(g, c), to # "enqueue", queue' = queue, NEW a \in Addr
  PROVE  MaySleep(a)' => MaySleep(a)
  BY DEF MaySleep, Moves, Calls

(* A step of g alone after which nobody new may sleep on a, and which pays *)
(* for its token with the goroutine in flight.                             *)
LEMMA PaidFor ==
  ASSUME SemaTypeOK, SemaTypeOK', NEW a \in Addr, NotMissed(a), MaySleep(a)' => MaySleep(a), NEW g \in G,
         InFlight(a)' \ {g} = InFlight(a) \ {g},
         val'[a] + In(g, InFlight(a)) <= val[a] + In(g, InFlight(a)')
  PROVE  NotMissed(a)'
  <1>1. Cardinality(InFlight(a))' = Cardinality(InFlight(a)) + In(g, InFlight(a)') - In(g, InFlight(a))
    BY InFlightStep
  <1>2. Cardinality(InFlight(a)) \in Nat /\ Cardinality(InFlight(a))' \in Nat
    BY InFlightIsNat
  <1>3. val[a] \in Nat /\ val'[a] \in Nat
    BY DEF SemaTypeOK
  <1>4. In(g, InFlight(a)) \in {0, 1} /\ In(g, InFlight(a)') \in {0, 1}
    BY DEF In
  <1> QED
    BY <1>1, <1>2, <1>3, <1>4 DEF NotMissed

(* Without a token there is nothing to miss.                               *)
LEMMA NoneLeft ==
  ASSUME NEW a, val'[a] = 0
  PROVE  NotMissed(a)'
  <1>1. Cardinality(InFlight(a))' \in Nat
    BY InFlightIsNat
  <1> QED
    BY <1>1 DEF NotMissed

(* A token taken, or not there.                                            *)
LEMMA TokenStep ==
  ASSUME SemaTypeOK, NEW a \in Addr, NEW b \in Addr
  PROVE  /\ TakeToken(a) => val'[b] = (IF b = a THEN val[b] - 1 ELSE val[b]) /\ val[a] > 0
         /\ NoToken(a) => val'[b] = val[b] /\ val[a] = 0
         /\ val[b] \in Nat
  BY DEF SemaTypeOK, TakeToken, NoToken

(* The steps of semacquire1 but Enqueue: whoever leaves the flight took a  *)
(* token or found none.                                                    *)
LEMMA AcquireNotMissed ==
  ASSUME SleepersAccounted, SleepersAccounted', NEW a \in Addr, NotMissed(a), NEW g \in G,
         \/ LockRoot(g) \/ CheckHit(g) \/ CheckMiss(g) \/ Undo(g)
         \/ ReadyTicket(g) \/ ReadyToken(g) \/ ReadyMiss(g)
         \/ \E b \in Addr : EasyAcquire(g, b) \/ \E flag \in BOOLEAN : EasyMiss(g, b, flag)
  PROVE  NotMissed(a)'
  <1>1. SemaTypeOK /\ CallsKnown /\ SemaTypeOK'
    BY DEF SleepersAccounted
  <1>0. val[a] \in Nat /\ val'[a] \in Nat
    BY <1>1 DEF SemaTypeOK
  <1>2. \A h \in G \ {g} : ticket'[h] = ticket[h]
    BY <1>1 DEF SemaTypeOK, LockRoot, CheckHit, CheckMiss, Undo, ReadyTicket, ReadyToken, ReadyMiss,
                EasyAcquire, EasyMiss
  <1>3. queue' = queue
    BY DEF LockRoot, CheckHit, CheckMiss, Undo, ReadyTicket, ReadyToken, ReadyMiss, EasyAcquire, EasyMiss
  <1>4. ASSUME NEW to \in SPC \ {"enqueue"}, NEW c, Moves(g, to), Calls(g, c),
               val'[a] + In(g, InFlight(a)) <= val[a] + In(g, InFlight(a)')
        PROVE  NotMissed(a)'
    BY <1>1, <1>2, <1>3, <1>4, MaySleepStep, OthersInFlight, PaidFor
  <1>5. g \in InFlight(a) <=> call[g].addr = a /\ (spc[g] \in SemReleasing \/ (spc[g] = "ready" /\ ~ticket[g]))
    BY DEF InFlight
  <1>6. ASSUME NEW to, NEW c, Moves(g, to), Calls(g, c), to \notin SemReleasing \cup {"ready"}
        PROVE  g \notin InFlight(a)'
    BY <1>2, <1>6, OthersInFlight
  <1>7. ASSUME NEW b \in Addr, EasyAcquire(g, b)
        PROVE  NotMissed(a)'
    <2>1. Moves(g, "idle") /\ Calls(g, call[g]) /\ spc[g] = "idle"
      BY <1>1, <1>7, CallKept DEF EasyAcquire, Moves, SemaTypeOK
    <2>2. val'[a] <= val[a]
      BY <1>1, <1>7, TokenStep DEF EasyAcquire
    <2>3. g \notin InFlight(a) /\ g \notin InFlight(a)'
      BY <1>5, <1>6, <2>1
    <2> QED
      BY <1>0, <1>4, <2>1, <2>2, <2>3 DEF In
  <1>8. ASSUME NEW b \in Addr, NEW flag \in BOOLEAN, EasyMiss(g, b, flag)
        PROVE  NotMissed(a)'
    <2> DEFINE c == [addr |-> b, flag |-> flag]
    <2>1. Calls(g, c)
      BY <1>1, <1>8 DEF EasyMiss, Calls, SemaTypeOK, Call
    <2>2. Moves(g, "lockRoot") /\ spc[g] = "idle"
      BY <1>1, <1>8, StepMoves DEF EasyMiss
    <2>3. val'[a] = val[a] /\ val[a] \in Nat
      BY <1>1, <1>8, TokenStep DEF EasyMiss
    <2>4. g \notin InFlight(a) /\ g \notin InFlight(a)'
      BY <1>5, <1>6, <2>1, <2>2
    <2> QED
      BY <1>4, <2>1, <2>2, <2>3, <2>4 DEF In
  <1>9. CASE LockRoot(g)
    <2>1. Moves(g, "check") /\ Calls(g, call[g]) /\ spc[g] = "lockRoot"
      BY <1>1, <1>9, StepMoves, CallKept DEF LockRoot
    <2>2. val'[a] = val[a] /\ val[a] \in Nat
      BY <1>1, <1>9 DEF LockRoot, SemaTypeOK
    <2>3. g \notin InFlight(a) /\ g \notin InFlight(a)'
      BY <1>5, <1>6, <2>1
    <2> QED
      BY <1>4, <2>1, <2>2, <2>3 DEF In
  <1>10. CASE CheckHit(g)
    <2>1. Moves(g, "undo") /\ Calls(g, call[g]) /\ spc[g] = "check"
      BY <1>1, <1>10, StepMoves, CallKept DEF CheckHit
    <2>2. val'[a] <= val[a]
      BY <1>1, <1>10, <2>1, TokenStep, InCall DEF CheckHit
    <2>3. g \notin InFlight(a) /\ g \notin InFlight(a)'
      BY <1>5, <1>6, <2>1
    <2> QED
      BY <1>0, <1>4, <2>1, <2>2, <2>3 DEF In
  <1>11. CASE CheckMiss(g)
    <2>1. Moves(g, "enqueue") /\ Calls(g, call[g]) /\ spc[g] = "check"
      BY <1>1, <1>11, StepMoves, CallKept DEF CheckMiss
    <2>2. val'[a] = val[a] /\ val[a] \in Nat /\ val[call[g].addr] = 0
      BY <1>1, <1>11, <2>1, TokenStep, InCall DEF CheckMiss
    <2>3. CASE a = call[g].addr
      BY <2>2, <2>3, NoneLeft
    <2>4. CASE a # call[g].addr
      <3>1. g \notin InFlight(a) /\ g \notin InFlight(a)'
        BY <1>5, <1>6, <2>1
      <3>2. MaySleep(a)' => MaySleep(a)
        BY <1>3, <2>1, <2>4 DEF MaySleep, Moves, Calls
      <3>3. InFlight(a)' \ {g} = InFlight(a) \ {g}
        BY <1>2, <2>1, OthersInFlight
      <3>4. val'[a] + In(g, InFlight(a)) <= val[a] + In(g, InFlight(a)')
        BY <2>2, <3>1 DEF In
      <3> QED
        BY <1>1, <3>2, <3>3, <3>4, PaidFor
    <2> QED
      BY <2>3, <2>4
  <1>12. CASE Undo(g)
    <2>1. Moves(g, "idle") /\ Calls(g, NoCall) /\ spc[g] = "undo"
      BY <1>1, <1>12, ReturnMoves DEF Undo
    <2>2. val'[a] = val[a] /\ val[a] \in Nat
      BY <1>1, <1>12 DEF Undo, SemaTypeOK
    <2>3. g \notin InFlight(a) /\ g \notin InFlight(a)'
      BY <1>5, <1>6, <2>1
    <2> QED
      BY <1>4, <2>1, <2>2, <2>3 DEF In
  <1>13. CASE ReadyTicket(g)
    <2>1. Moves(g, "idle") /\ Calls(g, NoCall) /\ spc[g] = "ready" /\ ticket[g]
      BY <1>1, <1>13, ReturnMoves DEF ReadyTicket
    <2>2. val'[a] = val[a] /\ val[a] \in Nat
      BY <1>1, <1>13 DEF ReadyTicket, SemaTypeOK
    <2>3. g \notin InFlight(a) /\ g \notin InFlight(a)'
      BY <1>5, <1>6, <2>1
    <2> QED
      BY <1>4, <2>1, <2>2, <2>3 DEF In
  <1>14. CASE ReadyToken(g)
    <2>1. Moves(g, "idle") /\ Calls(g, NoCall) /\ spc[g] = "ready"
      BY <1>1, <1>14, ReturnMoves DEF ReadyToken
    <2>2. val'[a] = (IF a = call[g].addr THEN val[a] - 1 ELSE val[a]) /\ val[a] \in Nat
      BY <1>1, <1>14, <2>1, TokenStep, InCall DEF ReadyToken
    <2>3. g \in InFlight(a) => a = call[g].addr
      BY <1>5
    <2>4. g \notin InFlight(a)'
      BY <1>6, <2>1
    <2> QED
      BY <1>4, <2>1, <2>2, <2>3, <2>4 DEF In
  <1>15. CASE ReadyMiss(g)
    <2>1. Moves(g, "lockRoot") /\ Calls(g, call[g]) /\ spc[g] = "ready"
      BY <1>1, <1>15, StepMoves, CallKept DEF ReadyMiss
    <2>2. val'[a] = val[a] /\ val[a] \in Nat /\ val[call[g].addr] = 0
      BY <1>1, <1>15, <2>1, TokenStep, InCall DEF ReadyMiss
    <2>3. CASE a = call[g].addr
      BY <2>2, <2>3, NoneLeft
    <2>4. CASE a # call[g].addr
      <3>1. g \notin InFlight(a) /\ g \notin InFlight(a)'
        BY <1>5, <1>6, <2>1, <2>4
      <3> QED
        BY <1>4, <2>1, <2>2, <3>1 DEF In
    <2> QED
      BY <2>3, <2>4
  <1> QED
    BY <1>7, <1>8, <1>9, <1>10, <1>11, <1>12, <1>13, <1>14, <1>15

(* Whoever may sleep is counted in nwait.                                  *)
LEMMA MaySleepCounted ==
  ASSUME SleepersAccounted, NEW a \in Addr, MaySleep(a)
  PROVE  nwait # 0
  <1>1. SemaTypeOK /\ nwait = Cardinality(Waiting)
    BY DEF SleepersAccounted
  <1>2. CASE queue[a] # <<>>
    <2>1. queue[a] \in Seq(G)
      BY <1>1 DEF SemaTypeOK
    <2>2. Head(queue[a]) \in G /\ 1 \in DOMAIN queue[a] /\ queue[a][1] = Head(queue[a])
      BY <1>2, <2>1, Tail1
    <2>3. Head(queue[a]) \in Waiting
      BY <2>2 DEF Waiting, Queued
    <2> QED
      BY <1>1, <2>3, CountIsNat DEF Waiting
  <1>3. CASE \E g \in G : spc[g] = "enqueue"
    <2>1. Waiting # {}
      BY <1>3 DEF Waiting
    <2>2. Waiting \in SUBSET G
      BY DEF Waiting
    <2> QED
      BY <1>1, <2>1, <2>2, CountIsNat
  <1> QED
    BY <1>2, <1>3 DEF MaySleep

(* The steps of semrelease1 but Wake, and Enqueue: a releaser leaves only  *)
(* when it knows that nobody sleeps.                                       *)
LEMMA ReleaseNotMissed ==
  ASSUME SleepersAccounted, SleepersAccounted', NEW a \in Addr, NotMissed(a), NEW g \in G,
         \/ NobodyWaits(g) \/ SomebodyWaits(g) \/ DequeueNobody(g) \/ Enqueue(g) \/ Dequeue(g)
         \/ \E b \in Addr, flag \in BOOLEAN : Release(g, b, flag)
  PROVE  NotMissed(a)'
  <1>1. SemaTypeOK /\ CallsKnown /\ SemaTypeOK'
    BY DEF SleepersAccounted
  <1>2. \A h \in G \ {g} : ticket'[h] = ticket[h]
    BY DEF NobodyWaits, SomebodyWaits, DequeueNobody, Enqueue, Dequeue, Release
  <1>3. val[a] \in Nat /\ val'[a] \in Nat
    BY <1>1 DEF SemaTypeOK
  <1>4. ASSUME NEW to, NEW c, Moves(g, to), Calls(g, c), MaySleep(a)' => MaySleep(a),
               val'[a] + In(g, InFlight(a)) <= val[a] + In(g, InFlight(a)')
        PROVE  NotMissed(a)'
    BY <1>1, <1>2, <1>4, OthersInFlight, PaidFor
  <1>5. g \in InFlight(a) <=> call[g].addr = a /\ (spc[g] \in SemReleasing \/ (spc[g] = "ready" /\ ~ticket[g]))
    BY DEF InFlight
  <1>6. ASSUME NEW to, NEW c, Moves(g, to), Calls(g, c), to # "ready"
        PROVE  g \in InFlight(a)' <=> c.addr = a /\ to \in SemReleasing
    BY <1>2, <1>6, OthersInFlight
  <1>7. ASSUME NEW b \in Addr, NEW flag \in BOOLEAN, Release(g, b, flag)
        PROVE  NotMissed(a)'
    <2> DEFINE c == [addr |-> b, flag |-> flag]
    <2>1. Calls(g, c)
      BY <1>1, <1>7 DEF Release, Calls, SemaTypeOK, Call
    <2>2. Moves(g, "nwaitLoad") /\ spc[g] = "idle"
      BY <1>1, <1>7, StepMoves DEF Release
    <2>3. val'[a] = IF a = b THEN val[a] + 1 ELSE val[a]
      BY <1>1, <1>7 DEF Release, SemaTypeOK
    <2>4. g \notin InFlight(a) /\ (g \in InFlight(a)' <=> a = b)
      BY <1>5, <1>6, <2>1, <2>2
    <2>5. MaySleep(a)' => MaySleep(a)
      BY <1>7, <2>1, <2>2, MaySleepStep DEF Release
    <2> QED
      BY <1>3, <1>4, <2>1, <2>2, <2>3, <2>4, <2>5 DEF In
  <1>8. CASE NobodyWaits(g)
    <2>1. Moves(g, "idle") /\ Calls(g, NoCall)
      BY <1>1, <1>8, ReturnMoves DEF NobodyWaits
    <2>2. MaySleep(a)' => MaySleep(a)
      BY <1>8, <2>1, MaySleepStep DEF NobodyWaits
    <2> QED
      BY <1>8, <2>2, MaySleepCounted DEF NobodyWaits, NotMissed
  <1>9. CASE SomebodyWaits(g)
    <2>1. Moves(g, "lockRelease") /\ Calls(g, call[g]) /\ spc[g] = "nwaitLoad"
      BY <1>1, <1>9, StepMoves, CallKept DEF SomebodyWaits
    <2>2. MaySleep(a)' => MaySleep(a)
      BY <1>9, <2>1, MaySleepStep DEF SomebodyWaits
    <2>3. g \in InFlight(a)' <=> g \in InFlight(a)
      BY <1>5, <1>6, <2>1
    <2>4. val'[a] = val[a]
      BY <1>9 DEF SomebodyWaits
    <2> QED
      BY <1>3, <1>4, <2>1, <2>2, <2>3, <2>4 DEF In
  <1>10. CASE DequeueNobody(g)
    <2>1. Moves(g, "idle") /\ Calls(g, NoCall) /\ spc[g] = "lockRelease"
      BY <1>1, <1>10, ReturnMoves DEF DequeueNobody
    <2>2. MaySleep(a)' => MaySleep(a)
      BY <1>10, <2>1, MaySleepStep DEF DequeueNobody
    <2>3. CASE a = call[g].addr \/ nwait = 0
      <3>1. \A h \in G : spc[h] # "enqueue"
        BY <1>10 DEF DequeueNobody, SleepersAccounted, RootLocked
      <3>2. ~MaySleep(a)
        BY <1>10, <2>3, <3>1, MaySleepCounted DEF DequeueNobody, MaySleep
      <3> QED
        BY <2>2, <3>2 DEF NotMissed
    <2>4. CASE a # call[g].addr
      <3>1. g \notin InFlight(a) /\ val'[a] = val[a]
        BY <1>5, <1>10, <2>4 DEF DequeueNobody
      <3>2. In(g, InFlight(a)) = 0 /\ In(g, InFlight(a)') \in {0, 1}
        BY <3>1 DEF In
      <3> QED
        BY <1>3, <1>4, <2>1, <2>2, <3>1, <3>2
    <2> QED
      BY <2>3, <2>4
  <1>11. CASE Enqueue(g)
    <2>1. Moves(g, "parked") /\ Calls(g, call[g]) /\ spc[g] = "enqueue"
      BY <1>1, <1>11, StepMoves, CallKept DEF Enqueue
    <2>2. MaySleep(a)' => MaySleep(a)
      <3>1. CASE a = call[g].addr
        BY <2>1, <3>1 DEF MaySleep
      <3>2. CASE a # call[g].addr
        <4>1. queue'[a] = queue[a]
          BY <1>1, <1>11, <3>2 DEF Enqueue, SemaTypeOK
        <4> QED
          BY <2>1, <4>1 DEF MaySleep, Moves, Calls
      <3> QED
        BY <3>1, <3>2
    <2>3. g \notin InFlight(a)' /\ g \notin InFlight(a)
      BY <1>5, <1>6, <2>1
    <2>4. val'[a] = val[a]
      BY <1>11 DEF Enqueue
    <2> QED
      BY <1>3, <1>4, <2>1, <2>2, <2>3, <2>4 DEF In
  <1>12. CASE Dequeue(g)
    <2>1. Moves(g, "wake") /\ Calls(g, call[g]) /\ spc[g] = "lockRelease"
      BY <1>1, <1>12, StepMoves, CallKept DEF Dequeue
    <2>2. MaySleep(a)' => MaySleep(a)
      <3>1. queue'[a] = queue[a] \/ queue[a] # <<>>
        BY <1>1, <1>12 DEF Dequeue, SemaTypeOK
      <3> QED
        BY <2>1, <3>1 DEF MaySleep, Moves, Calls
    <2>3. g \in InFlight(a)' <=> g \in InFlight(a)
      BY <1>5, <1>6, <2>1
    <2>4. val'[a] = val[a]
      BY <1>12 DEF Dequeue
    <2> QED
      BY <1>3, <1>4, <2>1, <2>2, <2>3, <2>4 DEF In
  <1> QED
    BY <1>7, <1>8, <1>9, <1>10, <1>11, <1>12

(* The releaser leaves, and the sleeper it wakes takes its place or has    *)
(* the token already.                                                      *)
LEMMA WakeNotMissed ==
  ASSUME SleepersAccounted, NEW a \in Addr, NotMissed(a), NEW g \in G, Wake(g)
  PROVE  NotMissed(a)'
  <1> DEFINE s == woken[g]
             A == InFlight(a)
             B == InFlight(a) \ {g}
  <1>1. SemaTypeOK /\ CallsKnown /\ SleepersKnown
    BY DEF SleepersAccounted
  <1>2. /\ spc[g] = "wake" /\ s \in G /\ spc[s] = "parked" /\ s # g /\ ~ticket[s] /\ ~ticket[g]
        /\ call[s].addr = call[g].addr
    BY <1>1 DEF Wake, CallsKnown, SemaTypeOK, SleepersKnown
  <1>3. call[g].addr \in Addr
    BY <1>2, InCall
  <1>4. /\ spc'[g] = "idle" /\ spc'[s] = "ready"
        /\ \A h \in G \ {g, s} : spc'[h] = spc[h]
    BY <1>1, <1>2 DEF Wake, SemaTypeOK
  <1>5. Calls(g, NoCall)
    BY <1>1 DEF Wake, Calls, SemaTypeOK
  <1>6. ticket' \in [G -> BOOLEAN] /\ \A h \in G \ {s} : ticket'[h] = ticket[h]
    BY <1>1, <1>2 DEF Wake, SemaTypeOK
  <1>7. MaySleep(a)' => MaySleep(a)
    BY <1>4, <1>5 DEF MaySleep, Calls, Wake
  <1>8. A \in SUBSET G /\ B \in SUBSET G /\ InFlight(a)' \in SUBSET G
    BY DEF InFlight
  <1>9. Cardinality(B) = Cardinality(A) + In(g, B) - In(g, A)
    BY <1>8, CountStep
  <1>10. InFlight(a)' \ {s} = B \ {s}
    BY <1>2, <1>4, <1>5, <1>6 DEF InFlight, Calls
  <1>11. Cardinality(InFlight(a))' = Cardinality(B) + In(s, InFlight(a)') - In(s, B)
    BY <1>2, <1>8, <1>10, CountStep
  <1>12. Cardinality(A) \in Nat /\ Cardinality(B) \in Nat /\ Cardinality(InFlight(a))' \in Nat
    BY <1>8, CountIsNat
  <1>13. s \notin B /\ g \notin B /\ (g \in A <=> a = call[g].addr)
    BY <1>2 DEF InFlight
  <1>14. s \in InFlight(a)' <=> a = call[g].addr /\ ~ticket'[s]
    BY <1>2, <1>4, <1>5 DEF InFlight, Calls
  <1>15. Cardinality(InFlight(a))'
           = Cardinality(A) - In(g, A) + In(s, InFlight(a)')
    BY <1>9, <1>11, <1>12, <1>13 DEF In
  <1>16. val[a] \in Nat
    BY <1>1 DEF SemaTypeOK
  <1>17. CASE HandsOff(g) /\ ticket' = [ticket EXCEPT ![s] = TRUE]
    <2>1. val'[a] = IF a = call[g].addr THEN val[a] - 1 ELSE val[a]
      BY <1>1, <1>3, <1>17, TokenStep DEF HandsOff
    <2> QED
      BY <1>7, <1>12, <1>13, <1>15, <1>16, <2>1 DEF NotMissed, In
  <1>18. CASE val' = val /\ ticket' = ticket
    <2>1. s \in InFlight(a)' <=> g \in A
      BY <1>2, <1>13, <1>14, <1>18
    <2> QED
      BY <1>7, <1>12, <1>15, <1>16, <1>18, <2>1 DEF NotMissed, In
  <1> QED
    BY <1>17, <1>18 DEF Wake, NoToken

(* While goroutines sleep on a semaphore, or are past the last check       *)
(* before the sleep, each of its tokens is the business of a releaser that *)
(* has not finished or of a waiter it woke: no wake-up is missed, however  *)
(* many goroutines and addresses share the semaRoot.                       *)
THEOREM NoWakeupIsMissed == SemaSpec => []NoMissedWakeup
  <1>1. SemaInit => NoMissedWakeup
    BY DEF SemaInit, NoMissedWakeup, MaySleep
  <1>2. NoMissedWakeup <=> \A a \in Addr : NotMissed(a)
    BY DEF NoMissedWakeup, NotMissed
  <1>3. NoMissedWakeup' <=> \A a \in Addr : NotMissed(a)'
    BY DEF NoMissedWakeup, NotMissed
  <1>4. ASSUME SleepersAccounted, SleepersAccounted', NoMissedWakeup, SemaNext
        PROVE  NoMissedWakeup'
    <2>1. ASSUME NEW a \in Addr
          PROVE  NotMissed(a)'
      BY <1>2, <1>4, AcquireNotMissed, ReleaseNotMissed, WakeNotMissed
         DEF SemaNext, Invoke, AcquireReturns, AcquireStep, ReleaseStep
    <2> QED
      BY <1>3, <2>1
  <1>5. ASSUME NoMissedWakeup, UNCHANGED semavars
        PROVE  NoMissedWakeup'
    BY <1>5 DEF semavars, NoMissedWakeup, MaySleep, InFlight
  <1> QED
    BY SleepersAreAccounted, <1>1, <1>4, <1>5, PTL DEF SemaSpec

-----------------------------------------------------------------------------
(* What g waits for after a step of g alone.                               *)
LEMMA WaitsOnStep ==
  ASSUME NEW g \in G, NEW to, NEW c, Moves(g, to), Calls(g, c),
         \A h \in G \ {g} : ticket'[h] = ticket[h]
  PROVE  waitsOn' = [waitsOn EXCEPT ![g] =
                       IF to \in Acquiring \ {"undo"} /\ ~ticket'[g] THEN c.addr ELSE None]
  BY DEF waitsOn, Moves, Calls

(* Every step is one of the promised operations or none.                   *)
LEMMA PromiseStep ==
  ASSUME SleepersAccounted, [SemaNext]_semavars
  PROVE  [Promise!Next]_(Promise!vars)
  <1>1. SemaTypeOK /\ CallsKnown
    BY DEF SleepersAccounted
  <1>2. waitsOn \in [G -> Addr \cup {None}]
    BY <1>1, InCall DEF waitsOn
  <1>3. \A g \in G : waitsOn[g] = IF spc[g] \in Acquiring \ {"undo"} /\ ~ticket[g] THEN call[g].addr ELSE None
    BY DEF waitsOn
  <1>4. ASSUME NEW g \in G, NEW a \in Addr, TakeToken(a), waitsOn[g] \in {None, a},
               waitsOn' = [waitsOn EXCEPT ![g] = None]
        PROVE  Promise!Next
    BY <1>4 DEF TakeToken, Promise!Next, Promise!Semacquire
  <1>5. ASSUME NEW g \in G, waitsOn' = [waitsOn EXCEPT ![g] = waitsOn[g]], val' = val
        PROVE  UNCHANGED Promise!vars
    BY <1>2, <1>5 DEF Promise!vars
  <1>6. ASSUME NEW g \in G, NEW a \in Addr, EasyAcquire(g, a)
        PROVE  Promise!Next
    <2>1. Moves(g, "idle") /\ Calls(g, call[g]) /\ spc[g] = "idle"
      BY <1>1, <1>6, CallKept DEF EasyAcquire, Moves, SemaTypeOK
    <2>2. waitsOn' = [waitsOn EXCEPT ![g] = None]
      BY <1>6, <2>1, WaitsOnStep DEF EasyAcquire
    <2> QED
      BY <1>3, <1>4, <1>6, <2>1, <2>2 DEF EasyAcquire
  <1>7. ASSUME NEW g \in G, NEW a \in Addr, NEW flag \in BOOLEAN, EasyMiss(g, a, flag)
        PROVE  Promise!Next
    <2> DEFINE c == [addr |-> a, flag |-> flag]
    <2>1. Calls(g, c)
      BY <1>1, <1>7 DEF EasyMiss, Calls, SemaTypeOK, Call
    <2>2. Moves(g, "lockRoot") /\ spc[g] = "idle"
      BY <1>1, <1>7, StepMoves DEF EasyMiss
    <2>3. waitsOn' = [waitsOn EXCEPT ![g] = a]
      BY <1>1, <1>7, <2>1, <2>2, WaitsOnStep DEF EasyMiss, CallsKnown
    <2>4. waitsOn[g] = None
      BY <1>3, <2>2
    <2> QED
      BY <1>7, <2>3, <2>4 DEF EasyMiss, NoToken, Promise!Next, Promise!Wait
  <1>8. ASSUME NEW g \in G, NEW a \in Addr, NEW flag \in BOOLEAN, Release(g, a, flag)
        PROVE  Promise!Next
    <2> DEFINE c == [addr |-> a, flag |-> flag]
    <2>1. Calls(g, c)
      BY <1>1, <1>8 DEF Release, Calls, SemaTypeOK, Call
    <2>2. Moves(g, "nwaitLoad") /\ spc[g] = "idle"
      BY <1>1, <1>8, StepMoves DEF Release
    <2>3. waitsOn' = [waitsOn EXCEPT ![g] = None]
      BY <1>8, <2>1, <2>2, WaitsOnStep DEF Release
    <2>4. waitsOn' = waitsOn
      BY <1>2, <1>3, <2>2, <2>3
    <2> QED
      BY <1>8, <2>4 DEF Release, Promise!Next, Promise!Semrelease
  <1>9. ASSUME NEW g \in G, CheckHit(g)
        PROVE  Promise!Next
    <2>1. Moves(g, "undo") /\ Calls(g, call[g]) /\ spc[g] = "check"
      BY <1>1, <1>9, StepMoves, CallKept DEF CheckHit
    <2>2. call[g].addr \in Addr /\ waitsOn[g] \in {None, call[g].addr}
      BY <1>3, <2>1, InCall
    <2>3. waitsOn' = [waitsOn EXCEPT ![g] = None]
      BY <1>9, <2>1, WaitsOnStep DEF CheckHit
    <2> QED
      BY <1>4, <1>9, <2>2, <2>3 DEF CheckHit
  <1>10. ASSUME NEW g \in G, ReadyToken(g)
         PROVE  Promise!Next
    <2>1. Moves(g, "idle") /\ Calls(g, NoCall) /\ spc[g] = "ready"
      BY <1>1, <1>10, ReturnMoves DEF ReadyToken
    <2>2. call[g].addr \in Addr /\ waitsOn[g] \in {None, call[g].addr}
      BY <1>3, <2>1, InCall
    <2>3. waitsOn' = [waitsOn EXCEPT ![g] = None]
      BY <1>10, <2>1, WaitsOnStep DEF ReadyToken
    <2> QED
      BY <1>4, <1>10, <2>2, <2>3 DEF ReadyToken
  <1>11. ASSUME NEW g \in G, LockRoot(g) \/ CheckMiss(g) \/ Enqueue(g) \/ ReadyMiss(g)
         PROVE  UNCHANGED Promise!vars
    <2>1. PICK to \in Acquiring \ {"undo"} : Moves(g, to)
      BY <1>1, <1>11, StepMoves DEF LockRoot, CheckMiss, Enqueue, ReadyMiss
    <2>2. /\ Calls(g, call[g]) /\ ticket' = ticket /\ val' = val
          /\ spc[g] \in Acquiring \ {"undo"}
      BY <1>1, <1>11, CallKept DEF LockRoot, CheckMiss, Enqueue, ReadyMiss, NoToken, Step
    <2>3. waitsOn' = [waitsOn EXCEPT ![g] = waitsOn[g]]
      BY <1>3, <2>1, <2>2, WaitsOnStep
    <2> QED
      BY <1>5, <2>2, <2>3
  <1>12. ASSUME NEW g \in G, Undo(g) \/ ReadyTicket(g) \/ NobodyWaits(g) \/ DequeueNobody(g)
         PROVE  UNCHANGED Promise!vars
    <2>1. Moves(g, "idle") /\ Calls(g, NoCall) /\ val' = val
      BY <1>1, <1>12, ReturnMoves DEF Undo, ReadyTicket, NobodyWaits, DequeueNobody
    <2>2. \A h \in G \ {g} : ticket'[h] = ticket[h]
      BY <1>1, <1>12 DEF Undo, ReadyTicket, NobodyWaits, DequeueNobody, SemaTypeOK
    <2>3. waitsOn[g] = None
      BY <1>3, <1>12 DEF Undo, ReadyTicket, NobodyWaits, DequeueNobody, Return, Step
    <2>4. waitsOn' = [waitsOn EXCEPT ![g] = waitsOn[g]]
      BY <2>1, <2>2, <2>3, WaitsOnStep
    <2> QED
      BY <1>5, <2>1, <2>4
  <1>13. ASSUME NEW g \in G, SomebodyWaits(g) \/ Dequeue(g)
         PROVE  UNCHANGED Promise!vars
    <2>1. PICK to \in SemReleasing : Moves(g, to)
      BY <1>1, <1>13, StepMoves DEF SomebodyWaits, Dequeue
    <2>2. Calls(g, call[g]) /\ ticket' = ticket /\ val' = val /\ waitsOn[g] = None
      BY <1>1, <1>3, <1>13, CallKept DEF SomebodyWaits, Dequeue, Step
    <2>3. waitsOn' = [waitsOn EXCEPT ![g] = waitsOn[g]]
      BY <2>1, <2>2, WaitsOnStep
    <2> QED
      BY <1>5, <2>2, <2>3
  <1>14. ASSUME NEW g \in G, Wake(g)
         PROVE  Promise!Next \/ UNCHANGED Promise!vars
    <2> DEFINE s == woken[g]
    <2>1. /\ spc[g] = "wake" /\ s \in G /\ spc[s] = "parked" /\ s # g /\ ~ticket[s]
          /\ call[s].addr = call[g].addr
      BY <1>1, <1>14 DEF Wake, CallsKnown, SemaTypeOK, SleepersAccounted, SleepersKnown
    <2>2. call[g].addr \in Addr
      BY <2>1, InCall
    <2>3. /\ spc'[g] = "idle" /\ spc'[s] = "ready"
          /\ \A h \in G \ {g, s} : spc'[h] = spc[h]
      BY <1>1, <1>14, <2>1 DEF Wake, SemaTypeOK
    <2>4. Calls(g, NoCall)
      BY <1>1, <1>14 DEF Wake, Calls, SemaTypeOK
    <2>5. \A h \in G \ {s} : ticket'[h] = ticket[h]
      BY <1>1, <1>14, <2>1 DEF Wake, SemaTypeOK
    <2>6. waitsOn' = [waitsOn EXCEPT ![s] = IF ticket'[s] THEN None ELSE call[g].addr]
      BY <2>1, <2>3, <2>4, <2>5 DEF waitsOn, Calls
    <2>7. waitsOn[s] = call[g].addr
      BY <1>3, <2>1
    <2>8. CASE HandsOff(g) /\ ticket' = [ticket EXCEPT ![s] = TRUE]
      <3>1. ticket'[s] = TRUE
        BY <1>1, <2>1, <2>8 DEF SemaTypeOK
      <3> QED
        BY <1>4, <2>1, <2>2, <2>6, <2>7, <2>8, <3>1 DEF HandsOff
    <2>9. CASE val' = val /\ ticket' = ticket
      BY <1>5, <2>1, <2>6, <2>7, <2>9
    <2> QED
      BY <1>14, <2>8, <2>9 DEF Wake, NoToken
  <1>15. CASE UNCHANGED semavars
    BY <1>15 DEF semavars, Promise!vars, waitsOn
  <1> QED
    BY <1>6, <1>7, <1>8, <1>9, <1>10, <1>11, <1>12, <1>13, <1>14, <1>15
       DEF SemaNext, Invoke, AcquireReturns, AcquireStep, ReleaseStep

(* semacquire1 and semrelease1 are the Semacquire and Semrelease that      *)
(* src/src/sync/runtime.go promises: every return of Semacquire is paid    *)
(* for by one token, and a handoff neither invents nor loses one.          *)
THEOREM SemaIsSemaphore == SemaSpec => SemaphoreSpec
  <1>1. SemaInit => Promise!Init
    BY DEF SemaInit, Promise!Init, waitsOn
  <1> QED
    BY SleepersAreAccounted, PromiseStep, <1>1, PTL DEF SemaSpec, SemaphoreSpec, Promise!Spec

-----------------------------------------------------------------------------
(* sync.Mutex on such a semaphore (module MutexSema): where a goroutine    *)
(* is, and whether it has waited, as module Mutex sees it.                 *)
absPc ==
  [g \in G |-> IF HasToken(g) THEN "awake"
               ELSE IF spc[g] \in SemReleasing THEN "idle"
               ELSE pc[g]]

absWaited == [g \in G |-> waited[g] \/ HasToken(g)]

(* The calls of the semaphore are those of Lock and of Unlock.             *)
MutexSemaInv ==
  /\ SleepersAccounted
  /\ pc \in [G -> Code!PC]
  /\ waited \in [G -> BOOLEAN]
  /\ \A g \in G : /\ spc[g] \in Acquiring => pc[g] = "semacquire"
                  /\ spc[g] \in SemReleasing => pc[g] \in Code!Releasing

(* The mutex and the semaphore start unused.                               *)
LEMMA MutexSemaInit == Init => MutexSemaInv /\ Abs!Init
  <1> SUFFICES ASSUME Init PROVE MutexSemaInv /\ Abs!Init
    OBVIOUS
  <1>1. SleepersAccounted
    BY InitAccounted DEF Init
  <1>2. \A g \in G : spc[g] = "idle" /\ pc[g] = "idle" /\ ~waited[g] /\ ~HasToken(g)
    BY DEF Init, SemaInit, Code!Init, HasToken
  <1>3. pc \in [G -> Code!PC] /\ waited \in [G -> BOOLEAN]
    BY DEF Init, Code!Init, Code!PC
  <1>4. MutexSemaInv
    BY <1>1, <1>2, <1>3 DEF MutexSemaInv
  <1>5. val[m] = 0
    BY OneSemaphore DEF Init, SemaInit
  <1> QED
    BY <1>2, <1>4, <1>5 DEF Init, Code!Init, Abs!Init, Code!Unlocked, Abs!Unlocked

(* A step of mutex.go leaves the semaphore alone and is one of Mutex.      *)
LEMMA CodeStep ==
  ASSUME MutexSemaInv, NEW g \in G, MutexStep(g)
  PROVE  MutexSemaInv' /\ Abs!Next
  <1>1. UNCHANGED semavars /\ SleepersAccounted'
    <2>1. UNCHANGED semavars /\ SleepersAccounted
      BY DEF MutexStep, MutexSemaInv
    <2> QED
      BY <2>1 DEF semavars, SleepersAccounted, SemaTypeOK, RootLocked, CallsKnown, OnePlace, OneWaker,
                  SleepersKnown, Queued, Taken, Waiting
  <1>2. ASSUME NEW from \in Code!PC \ {"semacquire", "semrelease", "semreleaseHandoff"},
               NEW to \in Code!PC, Code!Goto(g, from, to)
        PROVE  /\ Abs!Goto(g, from, to)
               /\ pc' \in [G -> Code!PC]
               /\ spc[g] = "idle" /\ ~HasToken(g) /\ ~HasToken(g)'
               /\ \A h \in G : /\ spc'[h] \in Acquiring => pc'[h] = "semacquire"
                               /\ spc'[h] \in SemReleasing => pc'[h] \in Code!Releasing
    <2>1. spc[g] = "idle" /\ spc' = spc /\ ticket' = ticket
      BY <1>1, <1>2 DEF MutexSemaInv, Code!Goto, Code!Releasing, semavars, SleepersAccounted, SemaTypeOK
    <2>2. \A h \in G : HasToken(h)' = HasToken(h)
      BY <2>1 DEF HasToken
    <2>3. ~HasToken(g)
      BY <2>1 DEF HasToken
    <2> QED
      BY <1>2, <2>1, <2>2, <2>3 DEF Code!Goto, Abs!Goto, MutexSemaInv
  <1>3. ASSUME ~HasToken(g), waited' = [waited EXCEPT ![g] = FALSE]
        PROVE  absWaited' = [absWaited EXCEPT ![g] = FALSE] /\ waited' \in [G -> BOOLEAN]
    BY <1>1, <1>3 DEF absWaited, HasToken, semavars, MutexSemaInv
  <1>4. ASSUME waited' = waited
        PROVE  absWaited' = absWaited /\ waited' \in [G -> BOOLEAN]
    BY <1>1, <1>4 DEF absWaited, HasToken, semavars, MutexSemaInv
  <1>5. val'[m] = val[m]
    BY <1>1 DEF semavars
  <1>6. ASSUME NEW from \in Code!PC \ {"semacquire", "semrelease", "semreleaseHandoff"},
               NEW to \in Code!PC, Code!Goto(g, from, to),
               \/ waited' = waited
               \/ waited' = [waited EXCEPT ![g] = FALSE]
        PROVE  /\ MutexSemaInv'
               /\ Abs!Goto(g, from, to)
               /\ waited' = waited => absWaited' = absWaited
               /\ waited' = [waited EXCEPT ![g] = FALSE] =>
                    absWaited' = [absWaited EXCEPT ![g] = FALSE]
    <2>1. waited' \in [G -> BOOLEAN]
      BY <1>2, <1>3, <1>4, <1>6
    <2> QED
      BY <1>1, <1>2, <1>3, <1>4, <1>6, <2>1 DEF MutexSemaInv
  <1>7. Code!ForgetLocals(g) /\ absWaited' = [absWaited EXCEPT ![g] = FALSE] => Abs!ForgetLocals(g)
    BY DEF Code!ForgetLocals, Abs!ForgetLocals, Code!Unlocked, Abs!Unlocked, absWaited
  <1>8. ASSUME Code!LockContended(g) PROVE MutexSemaInv' /\ Abs!LockContended(g)
    BY <1>5, <1>6, <1>8 DEF Code!LockContended, Abs!LockContended, Code!locals, Abs!locals, absWaited,
       Code!PC, Code!SlowLock, Code!InLoop, Code!Unlocked, Abs!Unlocked
  <1>9. ASSUME Code!LoadOld(g) PROVE MutexSemaInv' /\ Abs!LoadOld(g)
    BY <1>5, <1>6, <1>9 DEF Code!LoadOld, Abs!LoadOld, absWaited, Code!PC, Code!SlowLock, Code!InLoop
  <1>10. ASSUME Code!CompareAndSwap(g) PROVE MutexSemaInv' /\ Abs!CompareAndSwap(g)
    <2>1. PICK to : to = Code!AfterCAS(g)
      OBVIOUS
    <2>2. to \in {"throw", "load", "semacquire", "cs"} /\ to = Abs!AfterCAS(g)
      BY <2>1 DEF Code!AfterCAS, Abs!AfterCAS
    <2>3. /\ Code!Goto(g, "loop", to)
          /\ state' = IF to \in {"semacquire", "cs"}
                       THEN Abs!NewWord(old[g], starving[g], awoke[g]) ELSE state
          /\ IF to = "cs" THEN Code!ForgetLocals(g) ELSE UNCHANGED Code!locals
      BY <1>10, <2>1 DEF Code!CompareAndSwap, Code!NewWord, Abs!NewWord
    <2>4. waited' = waited \/ waited' = [waited EXCEPT ![g] = FALSE]
      BY <2>3 DEF Code!ForgetLocals, Code!locals
    <2>5. "loop" \in Code!PC \ {"semacquire", "semrelease", "semreleaseHandoff"} /\ to \in Code!PC
      BY <2>2 DEF Code!PC, Code!SlowLock, Code!InLoop
    <2>6. /\ MutexSemaInv' /\ Abs!Goto(g, "loop", to)
          /\ waited' = waited => absWaited' = absWaited
          /\ waited' = [waited EXCEPT ![g] = FALSE] => absWaited' = [absWaited EXCEPT ![g] = FALSE]
      BY <1>6, <2>3, <2>4, <2>5
    <2>7. IF to = "cs" THEN Abs!ForgetLocals(g) ELSE UNCHANGED Abs!locals
      BY <1>7, <2>3, <2>6 DEF Code!ForgetLocals, Code!locals, Abs!locals, absWaited
    <2>8. Abs!Goto(g, "loop", Abs!AfterCAS(g))
      BY <2>2, <2>6 DEF Abs!Goto
    <2>9. /\ state' = IF Abs!AfterCAS(g) \in {"semacquire", "cs"}
                       THEN Abs!NewWord(old[g], starving[g], awoke[g]) ELSE state
          /\ IF Abs!AfterCAS(g) = "cs" THEN Abs!ForgetLocals(g) ELSE UNCHANGED Abs!locals
      BY <2>2, <2>3, <2>7
    <2> QED
      BY <1>5, <2>6, <2>8, <2>9 DEF Abs!CompareAndSwap
  <1>11. ASSUME Code!LockFast(g) PROVE MutexSemaInv' /\ Abs!LockFast(g)
    BY <1>5, <1>6, <1>11 DEF Code!LockFast, Abs!LockFast, Code!locals, Abs!locals, absWaited,
       Code!PC, Code!SlowLock, Code!InLoop, Code!Unlocked, Abs!Unlocked
  <1>12. ASSUME Code!Spin(g) PROVE MutexSemaInv' /\ Abs!Spin(g)
    BY <1>5, <1>6, <1>12 DEF Code!Spin, Abs!Spin, Code!CanSpin, Abs!CanSpin, Code!MayClaimWoken,
       Abs!MayClaimWoken, absWaited, Code!PC, Code!SlowLock, Code!InLoop
  <1>13. ASSUME NEW late \in BOOLEAN, Code!AwakeNormal(g, late)
         PROVE  MutexSemaInv' /\ Abs!AwakeNormal(g, late)
    BY <1>5, <1>6, <1>13 DEF Code!AwakeNormal, Abs!AwakeNormal, absWaited, Code!PC, Code!SlowLock, Code!InLoop
  <1>14. ASSUME NEW late \in BOOLEAN, Code!AwakeStarving(g, late)
         PROVE  MutexSemaInv' /\ Abs!AwakeStarving(g, late)
    <2>1. PICK to : to = IF Code!HandoffBroken THEN "throw" ELSE "handoff"
      OBVIOUS
    <2>2. /\ Code!Goto(g, "awake", to) /\ "awake" \in Code!PC /\ to \in Code!PC
          /\ waited' = waited
      BY <1>14, <2>1 DEF Code!AwakeStarving, Code!PC, Code!SlowLock, Code!InLoop
    <2>3. MutexSemaInv' /\ Abs!Goto(g, "awake", to) /\ absWaited' = absWaited
      BY <1>6, <2>2
    <2>4. Abs!Goto(g, "awake", IF Abs!HandoffBroken THEN "throw" ELSE "handoff")
      BY <2>1, <2>3 DEF Abs!Goto, Code!HandoffBroken, Abs!HandoffBroken
    <2> QED
      BY <1>5, <1>14, <2>3, <2>4 DEF Code!AwakeStarving, Abs!AwakeStarving, absWaited
  <1>15. ASSUME Code!Handoff(g) PROVE MutexSemaInv' /\ Abs!Handoff(g)
    <2> DEFINE carry == state.locked \/ ~state.starving \/ state.waiters = 0
    <2>1. PICK to : to = IF carry THEN "throw" ELSE "cs"
      OBVIOUS
    <2>2. /\ Code!Goto(g, "handoff", to) /\ "handoff" \in Code!PC /\ to \in Code!PC
          /\ Code!ForgetLocals(g) /\ waited' = [waited EXCEPT ![g] = FALSE]
      BY <1>15, <2>1 DEF Code!Handoff, Code!ForgetLocals, Code!PC, Code!SlowLock, Code!InLoop
    <2>3. MutexSemaInv' /\ Abs!Goto(g, "handoff", to) /\ Abs!ForgetLocals(g)
      BY <1>6, <1>7, <2>2
    <2>4. Abs!Goto(g, "handoff", IF carry THEN "throw" ELSE "cs")
      BY <2>1, <2>3 DEF Abs!Goto
    <2> QED
      BY <1>5, <1>15, <2>3, <2>4 DEF Code!Handoff, Abs!Handoff, Code!ExitsStarvation, Abs!ExitsStarvation
  <1>16. ASSUME Code!Unlock(g) PROVE MutexSemaInv' /\ Abs!Unlock(g)
    <2> DEFINE new == [state EXCEPT !.locked = FALSE]
    <2>1. PICK to : to = IF state.locked THEN Abs!AfterUnlock(new) ELSE "throw"
      OBVIOUS
    <2>2. /\ Code!AfterUnlock(new) = Abs!AfterUnlock(new)
          /\ Abs!AfterUnlock(new) \in {"idle", "semreleaseHandoff", "unlockSlow"}
      BY DEF Code!AfterUnlock, Abs!AfterUnlock, Code!Unlocked, Abs!Unlocked
    <2>3. /\ Code!Goto(g, "cs", to) /\ "cs" \in Code!PC /\ to \in Code!PC
          /\ waited' = waited
      BY <1>16, <2>1, <2>2 DEF Code!Unlock, Code!Goto, Code!PC, Code!Releasing
    <2>4. MutexSemaInv' /\ Abs!Goto(g, "cs", to) /\ absWaited' = absWaited
      BY <1>6, <2>3
    <2>5. Abs!Goto(g, "cs", IF state.locked THEN Abs!AfterUnlock(new) ELSE "throw")
      BY <2>1, <2>4 DEF Abs!Goto
    <2> QED
      BY <1>5, <1>16, <2>2, <2>4, <2>5 DEF Code!Unlock, Abs!Unlock, absWaited
  <1>17. ASSUME Code!UnlockReturn(g) PROVE MutexSemaInv' /\ Abs!UnlockReturn(g)
    <2>1. Code!Goto(g, "unlockSlow", "idle") /\ Code!ForgetLocals(g) /\ waited' = [waited EXCEPT ![g] = FALSE]
      BY <1>17 DEF Code!UnlockReturn, Code!ForgetLocals
    <2>2. MutexSemaInv' /\ Abs!Goto(g, "unlockSlow", "idle") /\ Abs!ForgetLocals(g)
      BY <1>6, <1>7, <2>1 DEF Code!PC
    <2> QED
      BY <1>5, <1>17, <2>2 DEF Code!UnlockReturn, Abs!UnlockReturn, Code!NobodyToWake, Abs!NobodyToWake
  <1>18. ASSUME Code!UnlockCAS(g) PROVE MutexSemaInv' /\ Abs!UnlockCAS(g)
    <2>1. Code!Goto(g, "unlockSlow", "semrelease") /\ Code!ForgetLocals(g) /\ waited' = [waited EXCEPT ![g] = FALSE]
      BY <1>18 DEF Code!UnlockCAS, Code!ForgetLocals
    <2>2. MutexSemaInv' /\ Abs!Goto(g, "unlockSlow", "semrelease") /\ Abs!ForgetLocals(g)
      BY <1>6, <1>7, <2>1 DEF Code!PC, Code!Releasing
    <2> QED
      BY <1>5, <1>18, <2>2 DEF Code!UnlockCAS, Abs!UnlockCAS, Code!NobodyToWake, Abs!NobodyToWake,
         Code!WakeWord, Abs!WakeWord
  <1>19. ASSUME Code!UnlockFailedCAS(g) PROVE MutexSemaInv' /\ Abs!UnlockFailedCAS(g)
    BY <1>5, <1>6, <1>19 DEF Code!UnlockFailedCAS, Abs!UnlockFailedCAS, Code!NobodyToWake, Abs!NobodyToWake,
       Code!locals, Abs!locals, absWaited, Code!PC
  <1>20. ASSUME Code!UnlockLoad(g) PROVE MutexSemaInv' /\ Abs!UnlockLoad(g)
    BY <1>5, <1>6, <1>20 DEF Code!UnlockLoad, Abs!UnlockLoad, absWaited, Code!PC
  <1> QED
    BY <1>8, <1>9, <1>10, <1>11, <1>12, <1>13, <1>14, <1>15, <1>16, <1>17, <1>18, <1>19, <1>20
       DEF MutexStep, Code!LockStep, Code!UnlockStep, Abs!Next, Abs!LockStep, Abs!UnlockStep

(* The semaphore acts for one goroutine: g takes a token, or is given one. *)
LEMMA TokenTaken ==
  ASSUME MutexSemaInv, NEW g \in G, pc[g] = "semacquire", ~HasToken(g), spc[g] \notin SemReleasing,
         TakeToken(m),
         absPc' = [absPc EXCEPT ![g] = "awake"], absWaited' = [absWaited EXCEPT ![g] = TRUE],
         UNCHANGED <<state, old, starving, awoke, iter>>
  PROVE  Abs!Next
  <1>1. val'[m] = val[m] - 1 /\ val[m] > 0
    BY OneSemaphore DEF TakeToken, MutexSemaInv, SleepersAccounted, SemaTypeOK
  <1>2. Abs!SemacquireMutex(g)
    BY <1>1 DEF Abs!SemacquireMutex, Abs!Goto, absPc, absWaited
  <1> QED
    BY <1>2 DEF Abs!Next, Abs!SemaStep

(* What a step of g alone in the semaphore is to the mutex.                *)
LEMMA OnlyOneMoves ==
  ASSUME MutexSemaInv, SleepersAccounted', NEW g \in G, NEW to \in SPC, Moves(g, to),
         pc' \in [G -> Code!PC], waited' \in [G -> BOOLEAN],
         \A h \in G \ {g} : ticket'[h] = ticket[h] /\ pc'[h] = pc[h] /\ waited'[h] = waited[h],
         to \in Acquiring => pc'[g] = "semacquire",
         to \in SemReleasing => pc'[g] \in Code!Releasing
  PROVE  /\ MutexSemaInv'
         /\ HasToken(g)' <=> to = "undo" \/ (to = "ready" /\ ticket'[g])
         /\ absPc' = [absPc EXCEPT ![g] = IF HasToken(g)' THEN "awake"
                                          ELSE IF to \in SemReleasing THEN "idle" ELSE pc'[g]]
         /\ absWaited' = [absWaited EXCEPT ![g] = waited'[g] \/ HasToken(g)']
  <1>1. spc'[g] = to /\ \A h \in G \ {g} : spc'[h] = spc[h]
    BY DEF Moves
  <1>2. MutexSemaInv'
    BY <1>1 DEF MutexSemaInv
  <1>3. HasToken(g)' <=> to = "undo" \/ (to = "ready" /\ ticket'[g])
    BY <1>1 DEF HasToken
  <1>4. \A h \in G \ {g} : HasToken(h)' <=> HasToken(h)
    BY <1>1 DEF HasToken
  <1> QED
    BY <1>1, <1>2, <1>3, <1>4 DEF absPc, absWaited

(* A step that changes nothing that the mutex sees.                        *)
LEMMA Unseen ==
  ASSUME MutexSemaInv, NEW g \in G, val' = val,
         absPc' = [absPc EXCEPT ![g] = absPc[g]],
         absWaited' = [absWaited EXCEPT ![g] = absWaited[g]],
         UNCHANGED <<state, old, starving, awoke, iter>>
  PROVE  UNCHANGED Abs!vars
  <1>1. absPc' = absPc /\ absWaited' = absWaited
    BY DEF absPc, absWaited
  <1> QED
    BY <1>1 DEF Abs!vars, absPc, absWaited

(* A step of runtime_SemacquireMutex takes the token, for g, or is unseen. *)
LEMMA SemacquireStep ==
  ASSUME MutexSemaInv, NEW g \in G, SemacquireMutex(g)
  PROVE  MutexSemaInv' /\ [Abs!Next]_(Abs!vars)
  <1>1. /\ SemaTypeOK /\ CallsKnown /\ SleepersAccounted
        /\ pc \in [G -> Code!PC] /\ waited \in [G -> BOOLEAN]
        /\ pc[g] = "semacquire" /\ spc[g] \notin SemReleasing /\ m \in Addr
    BY OneSemaphore DEF MutexSemaInv, SleepersAccounted, SemacquireMutex, Code!Releasing
  <1>2. call[g] # NoCall => call[g].addr = m
    BY <1>1, OneSemaphore DEF SemaTypeOK, Call
  <1>3. SleepersAccounted'
    <2>1. waited[g] \in BOOLEAN
      BY <1>1
    <2>2. (\E a \in Addr : EasyAcquire(g, a) \/ \E flag \in BOOLEAN : EasyMiss(g, a, flag))
          \/ AcquireReturns(g) \/ AcquireStep(g)
      BY <1>1, <2>1 DEF SemacquireMutex
    <2> QED
      BY <1>1, <2>2, AcquireAccounted, EnqueueAccounted DEF AcquireReturns, AcquireStep
  <1>4. /\ HasToken(g) <=> spc[g] = "undo" \/ (spc[g] = "ready" /\ ticket[g])
        /\ absPc[g] = IF HasToken(g) THEN "awake" ELSE "semacquire"
        /\ absWaited[g] = (waited[g] \/ HasToken(g))
    BY <1>1 DEF HasToken, absPc, absWaited
  <1>5. CASE EasyAcquire(g, m) /\ Awake(g)
    <2>1. Moves(g, "idle") /\ ticket' = ticket /\ TakeToken(m) /\ spc[g] = "idle"
      BY <1>1, <1>5 DEF EasyAcquire, Moves, SemaTypeOK
    <2>2. /\ pc' = [pc EXCEPT ![g] = "awake"] /\ waited' = [waited EXCEPT ![g] = TRUE]
          /\ pc' \in [G -> Code!PC] /\ waited' \in [G -> BOOLEAN]
          /\ UNCHANGED <<state, old, starving, awoke, iter>>
      BY <1>1, <1>5 DEF Awake, Code!PC, Code!SlowLock
    <2>3. MutexSemaInv' /\ ~HasToken(g)' /\ ~HasToken(g)
          /\ absPc' = [absPc EXCEPT ![g] = "awake"] /\ absWaited' = [absWaited EXCEPT ![g] = TRUE]
      BY <1>1, <1>3, <1>4, <2>1, <2>2, OnlyOneMoves
    <2> QED
      BY <1>1, <2>1, <2>2, <2>3, TokenTaken
  <1>6. CASE AcquireReturns(g) /\ Awake(g)
    <2>1. Moves(g, "idle") /\ spc[g] \in {"undo", "ready"}
      BY <1>1, <1>6, ReturnMoves DEF AcquireReturns, Undo, ReadyTicket, ReadyToken
    <2>2. \A h \in G \ {g} : ticket'[h] = ticket[h]
      BY <1>1, <1>6 DEF AcquireReturns, Undo, ReadyTicket, ReadyToken, SemaTypeOK
    <2>3. /\ pc' = [pc EXCEPT ![g] = "awake"] /\ waited' = [waited EXCEPT ![g] = TRUE]
          /\ pc' \in [G -> Code!PC] /\ waited' \in [G -> BOOLEAN]
          /\ pc'[g] = "awake" /\ waited'[g] = TRUE
          /\ \A h \in G \ {g} : pc'[h] = pc[h] /\ waited'[h] = waited[h]
          /\ UNCHANGED <<state, old, starving, awoke, iter>>
      BY <1>1, <1>6 DEF Awake, Code!PC, Code!SlowLock
    <2>4. MutexSemaInv'
          /\ absPc' = [absPc EXCEPT ![g] = "awake"] /\ absWaited' = [absWaited EXCEPT ![g] = TRUE]
      <3>1. /\ MutexSemaInv' /\ ~HasToken(g)'
            /\ absPc' = [absPc EXCEPT ![g] = IF HasToken(g)' THEN "awake" ELSE pc'[g]]
            /\ absWaited' = [absWaited EXCEPT ![g] = waited'[g] \/ HasToken(g)']
        <4>1. /\ "idle" \in SPC
              /\ \A h \in G \ {g} : ticket'[h] = ticket[h] /\ pc'[h] = pc[h] /\ waited'[h] = waited[h]
          BY <2>2, <2>3
        <4>2. PICK to \in SPC : to = "idle"
          BY <4>1
        <4>3. /\ Moves(g, to) /\ pc' \in [G -> Code!PC] /\ waited' \in [G -> BOOLEAN]
              /\ to \notin Acquiring /\ to \notin SemReleasing
          BY <2>1, <2>3, <4>2
        <4>4. /\ MutexSemaInv'
              /\ HasToken(g)' <=> to = "undo" \/ (to = "ready" /\ ticket'[g])
              /\ absPc' = [absPc EXCEPT ![g] = IF HasToken(g)' THEN "awake"
                                               ELSE IF to \in SemReleasing THEN "idle" ELSE pc'[g]]
              /\ absWaited' = [absWaited EXCEPT ![g] = waited'[g] \/ HasToken(g)']
          BY <1>3, <4>1, <4>3, OnlyOneMoves
        <4> QED
          BY <4>2, <4>3, <4>4
      <3> QED
        BY <2>3, <3>1
    <2>5. CASE Undo(g) \/ ReadyTicket(g)
      <3>1. HasToken(g) /\ val' = val
        BY <1>4, <2>5 DEF Undo, ReadyTicket, Return, Step
      <3> QED
        BY <1>4, <2>3, <2>4, <3>1, Unseen
    <2>6. CASE ReadyToken(g)
      <3>1. ~HasToken(g) /\ TakeToken(m)
        BY <1>1, <1>2, <1>4, <2>6 DEF ReadyToken, Return, Step, CallsKnown
      <3> QED
        BY <1>1, <2>3, <2>4, <3>1, TokenTaken
    <2> QED
      BY <1>6, <2>5, <2>6 DEF AcquireReturns
  <1>7. CASE (EasyMiss(g, m, waited[g]) \/ AcquireStep(g)) /\ UNCHANGED mutexvars
    <2>1. PICK to \in Acquiring : Moves(g, to) /\ (to = "undo" <=> CheckHit(g)) /\ to # "ready"
      BY <1>1, <1>7, StepMoves DEF EasyMiss, AcquireStep, LockRoot, CheckHit, CheckMiss, Enqueue, ReadyMiss, Step
    <2>2. ticket' = ticket /\ UNCHANGED <<state, pc, old, starving, awoke, iter, waited>>
      BY <1>7 DEF EasyMiss, AcquireStep, LockRoot, CheckHit, CheckMiss, Enqueue, ReadyMiss, mutexvars
    <2>3. ~HasToken(g)
      BY <1>1, <1>4, <1>7 DEF EasyMiss, AcquireStep, LockRoot, CheckHit, CheckMiss, Enqueue, ReadyMiss, Step
    <2>4. /\ MutexSemaInv' /\ (HasToken(g)' <=> CheckHit(g))
          /\ absPc' = [absPc EXCEPT ![g] = IF CheckHit(g) THEN "awake" ELSE "semacquire"]
          /\ absWaited' = [absWaited EXCEPT ![g] = waited[g] \/ CheckHit(g)]
      BY <1>1, <1>3, <2>1, <2>2, OnlyOneMoves
    <2>5. CASE CheckHit(g)
      <3>1. TakeToken(m)
        BY <1>1, <1>2, <2>5 DEF CheckHit, Step, CallsKnown
      <3> QED
        BY <1>1, <2>2, <2>3, <2>4, <2>5, <3>1, TokenTaken
    <2>6. CASE ~CheckHit(g)
      <3>1. val' = val
        BY <1>7, <2>6 DEF EasyMiss, AcquireStep, LockRoot, CheckMiss, Enqueue, ReadyMiss, NoToken
      <3> QED
        BY <1>4, <2>2, <2>3, <2>4, <2>6, <3>1, Unseen
    <2> QED
      BY <2>5, <2>6
  <1> QED
    BY <1>5, <1>6, <1>7 DEF SemacquireMutex

(* A step of runtime_Semrelease raises m.sema, gives a token to a waiter   *)
(* whose mutex it hands off, or is unseen.                                 *)
LEMMA SemreleaseStep ==
  ASSUME MutexSemaInv, NEW g \in G, Semrelease(g)
  PROVE  MutexSemaInv' /\ [Abs!Next]_(Abs!vars)
  <1>1. /\ SemaTypeOK /\ CallsKnown /\ SleepersKnown /\ SleepersAccounted
        /\ pc \in [G -> Code!PC] /\ waited \in [G -> BOOLEAN]
        /\ pc[g] \in Code!Releasing /\ spc[g] \notin Acquiring /\ m \in Addr
        /\ UNCHANGED <<state, old, starving, awoke, iter, waited>>
    BY OneSemaphore DEF MutexSemaInv, SleepersAccounted, Semrelease, Code!Releasing
  <1>2. call[g] # NoCall => call[g].addr = m
    BY <1>1, OneSemaphore DEF SemaTypeOK, Call
  <1>3. SleepersAccounted'
    <2>1. (pc[g] = "semreleaseHandoff") \in BOOLEAN
      OBVIOUS
    <2>2. (\E a \in Addr, flag \in BOOLEAN : Release(g, a, flag)) \/ ReleaseStep(g)
      BY <1>1, <2>1 DEF Semrelease
    <2> QED
      BY <1>1, <2>2, ReleaseAccounted, DequeueAccounted, WakeAccounted DEF ReleaseStep
  <1>4. /\ ~HasToken(g)
        /\ absPc[g] = IF spc[g] \in SemReleasing THEN "idle" ELSE pc[g]
        /\ absWaited[g] = (waited[g] \/ HasToken(g))
    BY <1>1 DEF HasToken, absPc, absWaited
  <1>5. CASE Release(g, m, pc[g] = "semreleaseHandoff") /\ pc' = pc
    <2>1. Moves(g, "nwaitLoad") /\ ticket' = ticket /\ spc[g] = "idle"
      BY <1>1, <1>5, StepMoves DEF Release
    <2>2. val'[m] = val[m] + 1
      BY <1>1, <1>5 DEF Release, SemaTypeOK
    <2>3. MutexSemaInv' /\ ~HasToken(g)'
          /\ absPc' = [absPc EXCEPT ![g] = "idle"] /\ absWaited' = [absWaited EXCEPT ![g] = waited[g]]
      BY <1>1, <1>3, <1>5, <2>1, OnlyOneMoves
    <2>4. absWaited' = absWaited
      BY <1>4, <2>3 DEF absWaited
    <2>5. absPc[g] \in Abs!Releasing
      BY <1>1, <1>4, <2>1 DEF Code!Releasing, Abs!Releasing
    <2>6. Abs!Semrelease(g)
      BY <1>1, <2>2, <2>3, <2>4, <2>5 DEF Abs!Semrelease, Abs!locals, absPc, absWaited
    <2> QED
      BY <2>3, <2>6 DEF Abs!Next, Abs!SemaStep
  <1>6. CASE /\ NobodyWaits(g) \/ SomebodyWaits(g) \/ DequeueNobody(g) \/ Dequeue(g)
             /\ pc' = IF spc'[g] = "idle" THEN [pc EXCEPT ![g] = "idle"] ELSE pc
    <2>1. PICK to \in SemReleasing \cup {"idle"} : Moves(g, to)
      BY <1>1, <1>6, StepMoves, ReturnMoves DEF NobodyWaits, SomebodyWaits, DequeueNobody, Dequeue
    <2>2. ticket' = ticket /\ val' = val /\ spc[g] \in SemReleasing /\ spc'[g] = to
      BY <1>1, <1>6, <2>1 DEF NobodyWaits, SomebodyWaits, DequeueNobody, Dequeue, Return, Step, Moves
    <2>3. /\ pc' \in [G -> Code!PC] /\ \A h \in G \ {g} : pc'[h] = pc[h]
          /\ pc'[g] = IF to = "idle" THEN "idle" ELSE pc[g]
      BY <1>1, <1>6, <2>2 DEF Code!PC
    <2>4. MutexSemaInv' /\ ~HasToken(g)'
          /\ absPc' = [absPc EXCEPT ![g] = "idle"] /\ absWaited' = [absWaited EXCEPT ![g] = waited[g]]
      BY <1>1, <1>3, <2>1, <2>2, <2>3, OnlyOneMoves
    <2> QED
      BY <1>1, <1>4, <2>2, <2>4, Unseen
  <1>7. CASE Wake(g) /\ pc' = IF spc'[g] = "idle" THEN [pc EXCEPT ![g] = "idle"] ELSE pc
    <2>1. PICK s \in G : s = woken[g] /\ spc[g] = "wake" /\ spc[s] = "parked" /\ s # g /\ ~ticket[s]
                       /\ call[g].addr = m
      BY <1>1, <1>2, <1>7 DEF Wake, CallsKnown, SemaTypeOK, SleepersKnown
    <2>2. /\ spc'[g] = "idle" /\ spc'[s] = "ready"
          /\ \A h \in G \ {g, s} : spc'[h] = spc[h]
      BY <1>1, <1>7, <2>1 DEF Wake, SemaTypeOK
    <2>3. \A h \in G \ {s} : ticket'[h] = ticket[h]
      BY <1>1, <1>7, <2>1 DEF Wake, SemaTypeOK
    <2>4. /\ pc' = [pc EXCEPT ![g] = "idle"] /\ pc' \in [G -> Code!PC] /\ pc[s] = "semacquire"
      BY <1>1, <1>7, <2>1, <2>2 DEF MutexSemaInv, Code!PC
    <2>5. MutexSemaInv'
      BY <1>1, <1>3, <2>1, <2>2, <2>4 DEF MutexSemaInv
    <2>6. /\ ~HasToken(g)' /\ ~HasToken(s) /\ (HasToken(s)' <=> ticket'[s])
          /\ \A h \in G \ {g, s} : HasToken(h)' <=> HasToken(h)
      BY <1>1, <2>1, <2>2, <2>3 DEF HasToken
    <2>7. /\ absPc' = [absPc EXCEPT ![s] = IF HasToken(s)' THEN "awake" ELSE "semacquire"]
          /\ absWaited' = [absWaited EXCEPT ![s] = waited[s] \/ HasToken(s)']
      BY <1>1, <1>4, <2>1, <2>2, <2>4, <2>6 DEF absPc, absWaited
    <2>8. absPc[s] = "semacquire" /\ absWaited[s] = waited[s]
      BY <1>1, <2>1, <2>4, <2>6 DEF absPc, absWaited
    <2>9. CASE HandsOff(g) /\ ticket' = [ticket EXCEPT ![s] = TRUE]
      <3>1. ticket'[s] = TRUE /\ TakeToken(m)
        BY <1>1, <2>1, <2>9 DEF SemaTypeOK, HandsOff
      <3> QED
        BY <1>1, <2>1, <2>4, <2>5, <2>6, <2>7, <3>1, TokenTaken
    <2>10. CASE val' = val /\ ticket' = ticket
      BY <1>1, <2>1, <2>5, <2>6, <2>7, <2>8, <2>10, Unseen
    <2> QED
      BY <1>7, <2>1, <2>9, <2>10 DEF Wake, NoToken
  <1> QED
    BY <1>5, <1>6, <1>7 DEF Semrelease, ReleaseStep

(* sync.Mutex on the semaphores of runtime/sema.go behaves as the Mutex on *)
(* a counting semaphore, for which mutual exclusion and the rest is        *)
(* proved: SemacquireMutex takes effect when a token is taken by or for    *)
(* the waiter, Semrelease when it raises m.sema.                           *)
THEOREM MutexOnSemaIsMutex == Spec => MutexSpec
  <1>1. ASSUME MutexSemaInv, Next
        PROVE  MutexSemaInv' /\ [Abs!Next]_(Abs!vars)
    BY <1>1, CodeStep, SemacquireStep, SemreleaseStep DEF Next
  <1>2. ASSUME MutexSemaInv, UNCHANGED vars
        PROVE  MutexSemaInv' /\ UNCHANGED Abs!vars
    <2>1. UNCHANGED semavars /\ UNCHANGED mutexvars
      BY <1>2 DEF vars
    <2>2. SleepersAccounted'
      BY <1>2, <2>1 DEF MutexSemaInv, semavars, SleepersAccounted, SemaTypeOK, RootLocked, CallsKnown,
                        OnePlace, OneWaker, SleepersKnown, Queued, Taken, Waiting
    <2> QED
      BY <1>2, <2>1, <2>2 DEF MutexSemaInv, mutexvars, semavars, Abs!vars, HasToken
  <1> QED
    BY MutexSemaInit, <1>1, <1>2, PTL DEF Spec, MutexSpec, Abs!Spec

=============================================================================
