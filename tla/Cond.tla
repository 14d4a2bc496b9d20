-------------------------------- MODULE Cond --------------------------------
(***************************************************************************)
(* sync.Cond (src/src/sync/cond.go) on the ticket-based notifyList of      *)
(* src/src/runtime/sema.go: goroutines that lock c.L, Wait, Signal and     *)
(* Broadcast, with or without c.L.  The tickets wait and notify wrap       *)
(* around.  An action is one atomic operation or one critical section of   *)
(* l.lock, which reads l.wait once.  c.L is a Locker (module Mutex         *)
(* implements it).                                                         *)
(***************************************************************************)
EXTENDS Integers, Sequences, SequencesExt, Goroutines

CONSTANTS
  Mod,   \* the number of tickets: 2^32 for a uint32
  Timely \* whether no goroutine is overtaken by Mod/2 tickets between taking and using its own

(* sema.go: the unwrapped difference of wait and notify is bounded by half *)
(* the range, because the number of blocked goroutines is.                 *)
ASSUME ModAssumption ==
  /\ Mod \in Nat /\ Mod % 2 = 0
  /\ 2 * Cardinality(G) < Mod
  /\ Timely \in BOOLEAN

VARIABLES
  cL,       \* the holder of c.L
  wait,    \* l.wait
  notify,  \* l.notify
  list,    \* l.head ... l.tail: the parked goroutines
  condpc,  \* the next step of each goroutine
  ticket,  \* the ticket of a goroutine in Wait
  kind,    \* whether a notifier runs Signal or Broadcast
  peek,    \* the value of l.wait that a notifier has loaded
  notified, \* history: the goroutines in Wait whose ticket has been notified
  owed     \* history: the waiters a notifier found, of which one is (all are) to be woken

condVars == <<cL, wait, notify, list, condpc, ticket, kind, peek, notified, owed>>
notifier == <<kind, peek, notified, owed>>

InWait == {"unlockL", "listWait", "parked", "relock"}
Notifying == {"loadWait", "loadNotify", "notifyOne", "notifyAll"}

CondTypeOK ==
  /\ cL \in G \cup {None}
  /\ wait \in 0..(Mod - 1)
  /\ notify \in 0..(Mod - 1)
  /\ list \in Seq(G)
  /\ condpc \in [G -> InWait \cup Notifying \cup {"idle", "holding"}]
  /\ ticket \in [G -> 0..(Mod - 1)]
  /\ kind \in [G -> {"Signal", "Broadcast"}]
  /\ peek \in [G -> 0..(Mod - 1)]
  /\ notified \subseteq G
  /\ owed \in [G -> SUBSET G]

CondInit ==
  /\ cL = None
  /\ wait = 0
  /\ notify = 0
  /\ list = <<>>
  /\ condpc = [g \in G |-> "idle"]
  /\ ticket = [g \in G |-> 0]
  /\ kind = [g \in G |-> "Signal"]
  /\ peek = [g \in G |-> 0]
  /\ notified = {}
  /\ owed = [g \in G |-> {}]

CondGoto(g, from, to) ==
  /\ condpc[g] = from
  /\ condpc' = [condpc EXCEPT ![g] = to]

(* How many tickets there are from a on until b, and int32(a-b) < 0.       *)
Span(a, b) == (b - a) % Mod

less(a, b) == Span(b, a) >= Mod \div 2

(* The goroutines in Wait that have not been notified, and in the order of *)
(* their tickets.                                                          *)
Unnotified == {g \in G : condpc[g] \in InWait \ {"relock"}} \ notified

Pending ==
  [i \in 1..Span(notify, wait) |->
     LET holders == {g \in Unnotified : ticket[g] = (notify + i - 1) % Mod} IN
     IF holders = {} THEN None ELSE CHOOSE g \in holders : TRUE]

-----------------------------------------------------------------------------
(* The caller locks and unlocks c.L.                                       *)
LockL(g) ==
  /\ CondGoto(g, "idle", "holding")
  /\ cL = None
  /\ cL' = g
  /\ UNCHANGED <<wait, notify, list, ticket, notifier>>

UnlockL(g) ==
  /\ CondGoto(g, "holding", "idle")
  /\ cL' = None
  /\ UNCHANGED <<wait, notify, list, ticket, notifier>>

(* Cond.Wait: t := notifyListAdd(&c.notify).                               *)
CondWait(g) ==
  /\ CondGoto(g, "holding", "unlockL")
  /\ Timely => \A h \in G : condpc[h] \in {"unlockL", "listWait"} =>
                             Span(ticket[h], wait) < Mod \div 2
  /\ ticket' = [ticket EXCEPT ![g] = wait]
  /\ wait' = (wait + 1) % Mod
  /\ UNCHANGED <<cL, notify, list, notifier>>

(* c.L.Unlock().                                                           *)
WaitUnlock(g) ==
  /\ CondGoto(g, "unlockL", "listWait")
  /\ cL' = None
  /\ UNCHANGED <<wait, notify, list, ticket, notifier>>

(* Mutant of notifyListWait: the goroutine does not look at notify.        *)
notifyListWaitBlindly(g) ==
  /\ CondGoto(g, "listWait", "parked")
  /\ list' = Append(list, g)
  /\ UNCHANGED <<cL, wait, notify, ticket, notifier>>

(* notifyListWait(&c.notify, t): return right away if the ticket has been  *)
(* notified already, else join the list and park.                          *)
notifyListWait(g) ==
  LET late == less(ticket[g], notify) IN
  /\ CondGoto(g, "listWait", IF late THEN "relock" ELSE "parked")
  /\ list' = IF late THEN list ELSE Append(list, g)
  /\ UNCHANGED <<cL, wait, notify, ticket, notifier>>

(* c.L.Lock(), and Wait returns.                                           *)
WaitLock(g) ==
  /\ CondGoto(g, "relock", "holding")
  /\ cL = None
  /\ cL' = g
  /\ ticket' = [ticket EXCEPT ![g] = 0]
  /\ notified' = notified \ {g}
  /\ UNCHANGED <<wait, notify, list, kind, peek, owed>>

-----------------------------------------------------------------------------
(* Signal or Broadcast is called, with or without c.L.                     *)
Call(g, k) ==
  /\ condpc[g] \in {"idle", "holding"}
  /\ condpc' = [condpc EXCEPT ![g] = "loadWait"]
  /\ kind' = [kind EXCEPT ![g] = k]
  /\ owed' = [owed EXCEPT ![g] = Unnotified]
  /\ UNCHANGED <<cL, wait, notify, list, ticket, peek, notified>>

(* The call returns to the caller, which may hold c.L; ready are the       *)
(* goroutines that it makes ready.                                         *)
ReturnWith(g, ready) ==
  /\ condpc' = [h \in G |-> IF h \in ready THEN "relock"
                        ELSE IF h # g THEN condpc[h]
                        ELSE IF cL = g THEN "holding" ELSE "idle"]
  /\ kind' = [kind EXCEPT ![g] = "Signal"]
  /\ peek' = [peek EXCEPT ![g] = 0]

(* History: the goroutines in now are notified, on behalf of every caller  *)
(* that owed them a wake-up; the returning caller g has done what it does. *)
Settle(g, now) ==
  /\ notified' = notified \cup now
  /\ owed' = [h \in G |->
               IF h = g THEN {}
               ELSE IF kind[h] = "Broadcast" THEN owed[h] \ now
               ELSE IF owed[h] \cap now # {} THEN {} ELSE owed[h]]

(* The fast path: two loads, of l.wait and of l.notify.                    *)
LoadWait(g) ==
  /\ CondGoto(g, "loadWait", "loadNotify")
  /\ peek' = [peek EXCEPT ![g] = wait]
  /\ UNCHANGED <<cL, wait, notify, list, ticket, kind, notified, owed>>

(* Mutant of NobodyNew: the fast path looks for parked goroutines only.    *)
NobodyParked(g) ==
  /\ condpc[g] = "loadNotify"
  /\ list = <<>>
  /\ ReturnWith(g, {})
  /\ Settle(g, {})
  /\ UNCHANGED <<cL, wait, notify, list, ticket>>

NobodyNew(g) ==
  /\ condpc[g] = "loadNotify"
  /\ peek[g] = notify
  /\ ReturnWith(g, {})
  /\ Settle(g, {})
  /\ UNCHANGED <<cL, wait, notify, list, ticket>>

SomebodyNew(g) ==
  /\ CondGoto(g, "loadNotify", IF kind[g] = "Signal" THEN "notifyOne" ELSE "notifyAll")
  /\ peek[g] # notify
  /\ UNCHANGED <<cL, wait, notify, list, ticket, notifier>>

(* Mutant of notifyListNotifyAll: only the parked goroutines' tickets      *)
(* count as notified.                                                      *)
notifyListNotifyAllParked(g) ==
  /\ condpc[g] = "notifyAll"
  /\ list' = <<>>
  /\ notify' = (notify + Len(list)) % Mod
  /\ ReturnWith(g, ToSet(list))
  /\ Settle(g, Unnotified)
  /\ UNCHANGED <<cL, wait, ticket>>

(* The critical section of notifyListNotifyAll, and the wake-ups.          *)
notifyListNotifyAll(g) ==
  /\ condpc[g] = "notifyAll"
  /\ list' = <<>>
  /\ notify' = wait
  /\ ReturnWith(g, ToSet(list))
  /\ Settle(g, Unnotified)
  /\ UNCHANGED <<cL, wait, ticket>>

(* Mutant of notifyListNotifyOne: the first goroutine in the list is taken.*)
notifyListNotifyOneHead(g) ==
  LET found == IF list = <<>> THEN {} ELSE {Head(list)} IN
  /\ condpc[g] = "notifyOne"
  /\ notify' = IF notify = wait THEN notify ELSE (notify + 1) % Mod
  /\ list' = IF list = <<>> THEN list ELSE Tail(list)
  /\ ReturnWith(g, found)
  /\ Settle(g, {h \in Unnotified : notify # wait /\ ticket[h] = notify})
  /\ UNCHANGED <<cL, wait, ticket>>

(* The critical section of notifyListNotifyOne: the next ticket is         *)
(* notified, and its goroutine made ready if it is in the list already.    *)
notifyListNotifyOne(g) ==
  LET nobody == notify = wait
      found == {i \in DOMAIN list : ~nobody /\ ticket[list[i]] = notify}
      first == CHOOSE i \in found : \A j \in found : i <= j
  IN
  /\ condpc[g] = "notifyOne"
  /\ notify' = IF nobody THEN notify ELSE (notify + 1) % Mod
  /\ list' = IF found = {} THEN list ELSE RemoveAt(list, first)
  /\ ReturnWith(g, IF found = {} THEN {} ELSE {list[first]})
  /\ Settle(g, {h \in Unnotified : ~nobody /\ ticket[h] = notify})
  /\ UNCHANGED <<cL, wait, ticket>>

-----------------------------------------------------------------------------
CondWaitStep(g) == WaitUnlock(g) \/ notifyListWait(g) \/ WaitLock(g)

NotifyStep(g) ==
  LoadWait(g) \/ NobodyNew(g) \/ SomebodyNew(g) \/ notifyListNotifyAll(g) \/ notifyListNotifyOne(g)

CondNext ==
  \E g \in G : \/ LockL(g) \/ UnlockL(g) \/ CondWait(g)
               \/ Call(g, "Signal") \/ Call(g, "Broadcast")
               \/ CondWaitStep(g) \/ NotifyStep(g)

CondSpec == CondInit /\ [][CondNext]_condVars

(* Goroutines run; c.L, a sync.Mutex, is not kept from a goroutine that    *)
(* wants it for ever; nobody has to call anything, but holders let go.     *)
CondFairness ==
  \A g \in G : /\ WF_condVars(WaitUnlock(g) \/ notifyListWait(g) \/ NotifyStep(g))
               /\ SF_condVars(WaitLock(g))
               /\ SF_condVars(UnlockL(g) \/ CondWait(g))

-----------------------------------------------------------------------------
(* Nobody parks, or stays parked, whose ticket has been notified: a        *)
(* wake-up between notifyListAdd and notifyListWait is not lost.           *)
NotifiedDontPark == \A g \in G : condpc[g] = "parked" => g \notin notified

(* The tickets from notify to wait are those of the goroutines not yet     *)
(* notified, one each.                                                     *)
TicketsOutstanding ==
  /\ {Span(ticket[g], wait) : g \in Unnotified} = 1..Span(notify, wait)
  /\ \A g, h \in Unnotified : ticket[g] = ticket[h] => g = h
  /\ Cardinality(Unnotified) = Span(notify, wait)

(* One that has been notified before it looks at notify sees that, however *)
(* often the tickets have wrapped around.                                  *)
WaitersFit ==
  \A g \in G :
    /\ g \in notified => condpc[g] \in {"unlockL", "listWait", "relock"}
    /\ condpc[g] = "relock" => g \in notified
    /\ condpc[g] \in {"unlockL", "listWait"} =>
         /\ Span(ticket[g], wait) \in 1..(Mod \div 2)
         /\ g \in notified => Span(ticket[g], wait) > Span(notify, wait)

(* The list holds the parked goroutines, once each.                        *)
ListFits ==
  /\ {list[i] : i \in DOMAIN list} = {g \in G : condpc[g] = "parked"}
  /\ \A i, j \in DOMAIN list : list[i] = list[j] => i = j

(* The goroutines that a notifier owes a wake-up are those with the oldest *)
(* tickets, all of them older than its value of l.wait.                    *)
NotifiersFit ==
  \A g \in G :
    /\ owed[g] \subseteq Unnotified
    /\ condpc[g] \notin Notifying => owed[g] = {}
    /\ condpc[g] = "notifyOne" => kind[g] = "Signal"
    /\ condpc[g] = "notifyAll" => kind[g] = "Broadcast"
    /\ \A h \in owed[g] :
         /\ condpc[g] = "loadNotify" => Span(ticket[h], wait) > Span(peek[g], wait)
         /\ \A x \in Unnotified : Span(ticket[x], wait) > Span(ticket[h], wait) => x \in owed[g]

(* No wake-up is lost or given twice: the tickets stand for the goroutines *)
(* that wait, in their order, and nobody parks after its ticket was        *)
(* notified.                                                               *)
CondInv ==
  /\ CondTypeOK
  /\ TicketsOutstanding
  /\ WaitersFit
  /\ ListFits
  /\ NotifiersFit

(* Signal wakes one of the goroutines that were waiting when it was called *)
(* (if there were any), Broadcast all of them, themselves or by way of     *)
(* another notifier: neither returns before that has happened.             *)
NotifiersDoTheirJob ==
  [][\A g \in G :
       condpc[g] \in Notifying /\ condpc'[g] \notin Notifying =>
         \/ owed[g] \subseteq notified'
         \/ kind[g] = "Signal" /\ owed[g] \cap notified' # {}]_condVars

(* A goroutine that has been notified gets out of Wait.                    *)
NotifiedReturns ==
  \A g \in G : (condpc[g] \in InWait /\ g \in notified) ~> condpc[g] = "holding"

(* The tickets implement a first-in first-out queue of waiters: a Signal   *)
(* wakes the one that called Wait first, whatever the order in which they  *)
(* reached the list, and Wait returns only to the goroutines woken.        *)
Queue == INSTANCE NotifyList WITH
  waiting <- Pending,
  inWait <- {g \in G : condpc[g] \in InWait}

NotifyListSpec == Queue!Spec

=============================================================================
