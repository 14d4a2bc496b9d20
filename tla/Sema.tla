-------------------------------- MODULE Sema --------------------------------
(***************************************************************************)
(* The sleep and wake-up primitive of src/src/runtime/sema.go: semacquire1 *)
(* and semrelease1 on the addresses Addr, which hash to one semaRoot and   *)
(* so share its lock and its count nwait.  (Roots share nothing.)          *)
(*                                                                         *)
(* An action is one atomic operation on *addr or root.nwait, or a critical *)
(* section of root.lock between two of them.  cansemacquire is one step:   *)
(* its loop ends with a load of 0 or a successful CAS, and a failed CAS    *)
(* changes nothing.  The tree of the waiters is a sequence per address:    *)
(* module SemaTreap shows that queue and dequeue are operations on these.  *)
(***************************************************************************)
EXTENDS Naturals, Sequences, Goroutines

CONSTANTS
  Addr,   \* the addresses of one semaRoot; None is no address either
  MaxVal  \* bound: no release on a semaphore that has this value

ASSUME AddrAssumption == None \notin Addr
ASSUME MaxValAssumption == MaxVal \in Nat

VARIABLES
  val,    \* val[a]: *addr
  nwait,  \* root.nwait
  lock,   \* the holder of root.lock, or None
  queue,  \* queue[a]: the goroutines queued on a, the first one first
  spc,    \* the next step of each goroutine
  call,   \* the call a goroutine is in: its address and flag (lifo or handoff)
  ticket, \* s.ticket # 0 for the goroutine's dequeued sudog
  woken   \* woken[g]: the goroutine whose sudog s was dequeued by releaser g

semavars == <<val, nwait, lock, queue, spc, call, ticket, woken>>

Acquiring == {"lockRoot", "check", "undo", "enqueue", "parked", "ready"}
SemReleasing == {"nwaitLoad", "lockRelease", "wake"}
SPC == Acquiring \cup SemReleasing \cup {"idle"}

NoCall == [addr |-> None, flag |-> FALSE]
Call == [addr : Addr, flag : BOOLEAN]

SemaTypeOK ==
  /\ val \in [Addr -> Nat]
  /\ nwait \in Nat
  /\ lock \in G \cup {None}
  /\ queue \in [Addr -> Seq(G)]
  /\ spc \in [G -> SPC]
  /\ call \in [G -> Call \cup {NoCall}]
  /\ ticket \in [G -> BOOLEAN]
  /\ woken \in [G -> G \cup {None}]

SemaInit ==
  /\ val = [a \in Addr |-> 0]
  /\ nwait = 0
  /\ lock = None
  /\ queue = [a \in Addr |-> <<>>]
  /\ spc = [g \in G |-> "idle"]
  /\ call = [g \in G |-> NoCall]
  /\ ticket = [g \in G |-> FALSE]
  /\ woken = [g \in G |-> None]

Step(g, from, to) ==
  /\ spc[g] = from
  /\ spc' = [spc EXCEPT ![g] = to]

Return(g, from) ==
  /\ Step(g, from, "idle")
  /\ call' = [call EXCEPT ![g] = NoCall]

(* cansemacquire(addr) returns true, or it returns false.                  *)
TakeToken(a) ==
  /\ val[a] > 0
  /\ val' = [val EXCEPT ![a] = @ - 1]

NoToken(a) ==
  /\ val[a] = 0
  /\ UNCHANGED val

-----------------------------------------------------------------------------
(* semacquire1(addr, lifo).                                                *)

EasyAcquire(g, a) ==
  /\ spc[g] = "idle"
  /\ TakeToken(a)
  /\ UNCHANGED <<nwait, lock, queue, spc, call, ticket, woken>>

EasyMiss(g, a, lifo) ==
  /\ Step(g, "idle", "lockRoot")
  /\ NoToken(a)
  /\ call' = [call EXCEPT ![g] = [addr |-> a, flag |-> lifo]]
  /\ UNCHANGED <<nwait, lock, queue, ticket, woken>>

(* lock(&root.lock); atomic.Xadd(&root.nwait, 1).                          *)
LockRoot(g) ==
  /\ Step(g, "lockRoot", "check")
  /\ lock = None
  /\ lock' = g
  /\ nwait' = nwait + 1
  /\ UNCHANGED <<val, queue, call, ticket, woken>>

(* Mutant of CheckMiss: no second cansemacquire before the sleep.          *)
CheckMissUnchecked(g) ==
  /\ Step(g, "check", "enqueue")
  /\ UNCHANGED <<val, nwait, lock, queue, call, ticket, woken>>

(* The second cansemacquire, with nwait raised.                            *)
CheckHit(g) ==
  /\ Step(g, "check", "undo")
  /\ TakeToken(call[g].addr)
  /\ UNCHANGED <<nwait, lock, queue, call, ticket, woken>>

CheckMiss(g) ==
  /\ Step(g, "check", "enqueue")
  /\ NoToken(call[g].addr)
  /\ UNCHANGED <<nwait, lock, queue, call, ticket, woken>>

(* atomic.Xadd(&root.nwait, -1); unlock(&root.lock); return.               *)
Undo(g) ==
  /\ Return(g, "undo")
  /\ lock' = None
  /\ nwait' = nwait - 1
  /\ UNCHANGED <<val, queue, ticket, woken>>

(* root.queue(addr, s, lifo) and goparkunlock: the goroutine is parked     *)
(* before root.lock is released.                                           *)
Enqueue(g) ==
  LET a == call[g].addr IN
  /\ Step(g, "enqueue", "parked")
  /\ queue' = [queue EXCEPT ![a] = IF call[g].flag THEN <<g>> \o @ ELSE Append(@, g)]
  /\ lock' = None
  /\ UNCHANGED <<val, nwait, call, ticket, woken>>

(* A goroutine made ready returns with a ticket or a token, or it goes     *)
(* round the loop.                                                         *)
ReadyTicket(g) ==
  /\ Return(g, "ready")
  /\ ticket[g]
  /\ ticket' = [ticket EXCEPT ![g] = FALSE]
  /\ UNCHANGED <<val, nwait, lock, queue, woken>>

ReadyToken(g) ==
  /\ Return(g, "ready")
  /\ ~ticket[g]
  /\ TakeToken(call[g].addr)
  /\ UNCHANGED <<nwait, lock, queue, ticket, woken>>

ReadyMiss(g) ==
  /\ Step(g, "ready", "lockRoot")
  /\ ~ticket[g]
  /\ NoToken(call[g].addr)
  /\ UNCHANGED <<nwait, lock, queue, call, ticket, woken>>

-----------------------------------------------------------------------------
(* semrelease1(addr, handoff).                                             *)

(* atomic.Xadd(addr, 1).                                                   *)
Release(g, a, handoff) ==
  /\ Step(g, "idle", "nwaitLoad")
  /\ val' = [val EXCEPT ![a] = @ + 1]
  /\ call' = [call EXCEPT ![g] = [addr |-> a, flag |-> handoff]]
  /\ UNCHANGED <<nwait, lock, queue, ticket, woken>>

(* atomic.Load(&root.nwait): the easy case, or not.                        *)
NobodyWaits(g) ==
  /\ Return(g, "nwaitLoad")
  /\ nwait = 0
  /\ UNCHANGED <<val, nwait, lock, queue, ticket, woken>>

SomebodyWaits(g) ==
  /\ Step(g, "nwaitLoad", "lockRelease")
  /\ nwait > 0
  /\ UNCHANGED <<val, nwait, lock, queue, call, ticket, woken>>

(* The critical section of semrelease1.  nwait is written under root.lock  *)
(* only, so its steps are one: nobody waits on this address any more, ...  *)
DequeueNobody(g) ==
  /\ Return(g, "lockRelease")
  /\ lock = None
  /\ nwait = 0 \/ queue[call[g].addr] = <<>>
  /\ UNCHANGED <<val, nwait, lock, queue, ticket, woken>>

(* Mutant of Dequeue: the first waiter stays queued.                       *)
DequeueKeeps(g) ==
  LET a == call[g].addr IN
  /\ Step(g, "lockRelease", "wake")
  /\ lock = None
  /\ nwait > 0 /\ queue[a] # <<>>
  /\ woken' = [woken EXCEPT ![g] = Head(queue[a])]
  /\ nwait' = nwait - 1
  /\ UNCHANGED <<val, lock, queue, call, ticket>>

(* ... or root.dequeue(addr) finds the first waiter.                       *)
Dequeue(g) ==
  LET a == call[g].addr IN
  /\ Step(g, "lockRelease", "wake")
  /\ lock = None
  /\ nwait > 0 /\ queue[a] # <<>>
  /\ woken' = [woken EXCEPT ![g] = Head(queue[a])]
  /\ queue' = [queue EXCEPT ![a] = Tail(@)]
  /\ nwait' = nwait - 1
  /\ UNCHANGED <<val, lock, call, ticket>>

(* Mutant of HandsOff: the token is not taken for the waiter.              *)
HandsOffFree(g) == call[g].flag /\ UNCHANGED val

(* handoff && cansemacquire(addr).                                         *)
HandsOff(g) == call[g].flag /\ TakeToken(call[g].addr)

(* s.ticket = 1 for a handoff; readyWithTime(s).                           *)
Wake(g) ==
  LET s == woken[g] IN
  /\ spc[g] = "wake"
  /\ spc' = [spc EXCEPT ![g] = "idle", ![s] = "ready"]
  /\ call' = [call EXCEPT ![g] = NoCall]
  /\ woken' = [woken EXCEPT ![g] = None]
  /\ \/ HandsOff(g) /\ ticket' = [ticket EXCEPT ![s] = TRUE]
     \/ ~call[g].flag /\ UNCHANGED <<val, ticket>>
     \/ call[g].flag /\ NoToken(call[g].addr) /\ UNCHANGED ticket
  /\ UNCHANGED <<nwait, lock, queue>>

-----------------------------------------------------------------------------
(* The steps by which Semacquire returns, the others of Semacquire, and    *)
(* those of Semrelease after it has raised *addr.                          *)
AcquireReturns(g) == Undo(g) \/ ReadyTicket(g) \/ ReadyToken(g)

AcquireStep(g) == LockRoot(g) \/ CheckHit(g) \/ CheckMiss(g) \/ Enqueue(g) \/ ReadyMiss(g)

ReleaseStep(g) == NobodyWaits(g) \/ SomebodyWaits(g) \/ DequeueNobody(g) \/ Dequeue(g) \/ Wake(g)

Invoke(g, a) ==
  \/ EasyAcquire(g, a)
  \/ \E flag \in BOOLEAN : EasyMiss(g, a, flag) \/ (val[a] < MaxVal /\ Release(g, a, flag))

SemaNext ==
  \E g \in G : \/ \E a \in Addr : Invoke(g, a)
               \/ AcquireReturns(g) \/ AcquireStep(g) \/ ReleaseStep(g)

SemaSpec == SemaInit /\ [][SemaNext]_semavars

-----------------------------------------------------------------------------
(* The goroutines that will take a token of a or wake somebody to take it. *)
InFlight(a) ==
  {g \in G : /\ call[g].addr = a
             /\ \/ spc[g] \in SemReleasing
                \/ spc[g] = "ready" /\ ~ticket[g]}

(* Goroutines sleep on a, or are past the last check before the sleep.     *)
MaySleep(a) == queue[a] # <<>> \/ \E g \in G : spc[g] = "enqueue" /\ call[g].addr = a

(* No missed wake-up: while goroutines sleep on a semaphore, or are past   *)
(* the last check before the sleep, every token of it is the business of a *)
(* releaser that has not finished or of a waiter it woke.                  *)
NoMissedWakeup == \A a \in Addr : MaySleep(a) => val[a] <= Cardinality(InFlight(a))

(* root.lock is held from the raise of nwait to the sleep or the return.   *)
Deciding == {"check", "undo", "enqueue"}

RootLocked == \A g \in G : lock = g <=> spc[g] \in Deciding

(* The goroutine that a call belongs to is in it.                          *)
CallsKnown ==
  \A g \in G :
    /\ spc[g] = "idle" <=> call[g] = NoCall
    /\ ticket[g] => spc[g] = "ready"
    /\ spc[g] = "wake" <=> woken[g] # None

(* A sleeper is at one place of one queue, the one of its address, or in   *)
(* the hands of one releaser of that address.                              *)
Queued(g, a) == \E i \in DOMAIN queue[a] : queue[a][i] = g
Taken(g) == \E h \in G : woken[h] = g

OnePlace ==
  \A a \in Addr, b \in Addr : \A i \in DOMAIN queue[a], j \in DOMAIN queue[b] :
    queue[a][i] = queue[b][j] => a = b /\ i = j

OneWaker == \A g \in G, h \in G : woken[g] = woken[h] => g = h \/ woken[g] = None

SleepersKnown ==
  /\ \A g \in G, a \in Addr :
       Queued(g, a) => spc[g] = "parked" /\ call[g].addr = a /\ ~Taken(g)
  /\ \A g \in G :
       spc[g] = "wake" => spc[woken[g]] = "parked" /\ call[woken[g]].addr = call[g].addr
  /\ \A g \in G : spc[g] = "parked" => (\E a \in Addr : Queued(g, a)) \/ Taken(g)

Waiting == {g \in G : spc[g] \in Deciding \/ \E a \in Addr : Queued(g, a)}

(* nwait, which semrelease1 reads without the lock, counts the sleepers    *)
(* of all addresses of the root and the goroutine deciding to sleep; every *)
(* sleeper is on exactly one queue or in the hands of exactly one          *)
(* releaser, so that nobody is overlooked or made ready twice.             *)
SleepersAccounted ==
  /\ SemaTypeOK
  /\ RootLocked
  /\ CallsKnown
  /\ OnePlace
  /\ OneWaker
  /\ SleepersKnown
  /\ nwait = Cardinality(Waiting)

(* The semaphore implements Semacquire and Semrelease as documented.  A    *)
(* goroutine stops waiting when it takes a token or is given a ticket.     *)
waitsOn ==
  [g \in G |-> IF spc[g] \in Acquiring \ {"undo"} /\ ~ticket[g] THEN call[g].addr ELSE None]

Promise == INSTANCE Semaphore WITH value <- val, waitingOn <- waitsOn

SemaphoreSpec == Promise!Spec

=============================================================================
