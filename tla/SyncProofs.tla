------------------------------ MODULE SyncProofs ------------------------------
(***************************************************************************)
(* Proofs about the primitives that module MCSync runs: sync.Cond, for     *)
(* every finite set of goroutines and every even number of tickets more    *)
(* than twice as many; RWMutex, for every finite set of goroutines smaller *)
(* than rwmutexMaxReaders; sync.Once, for any set of goroutines, and       *)
(* WaitGroup, for every finite one.  CondInv, RWInv, OnceInv and           *)
(* SleepersCounted are inductive; from them follow that Cond is a queue    *)
(* that loses no wake-up, mutual exclusion, that f is called once and      *)
(* first, and that Wait is not early.                                      *)
(***************************************************************************)
EXTENDS RWMutex, Once, WaitGroup, Cond, Counting, SequenceTheorems

USE GAssumption, NoneAssumption

-----------------------------------------------------------------------------
(* Cond.  Tickets go round; the number of tickets between two of them does *)
(* what one expects until it reaches Mod.                                  *)
Ticket == 0..(Mod - 1)

Following(t) == (t + 1) % Mod

(* The arithmetic of tickets.                                              *)
LEMMA SpanIs ==
  ASSUME NEW a \in Ticket, NEW b \in Ticket
  PROVE  /\ Span(a, b) = IF b >= a THEN b - a ELSE b - a + Mod
         /\ Span(a, b) \in Ticket
         /\ Following(a) = IF a = Mod - 1 THEN 0 ELSE a + 1
         /\ Following(a) \in Ticket
  <1> USE ModAssumption DEF Ticket
  <1>1. Mod > 0
    OBVIOUS
  <1>2. CASE b >= a
    <2>1. (b - a) % Mod = b - a
      BY <1>1, <1>2
    <2> QED
      BY <1>2, <2>1 DEF Span, Following
  <1>3. CASE b < a
    <2>1. (b - a) % Mod = b - a + Mod
      BY <1>1, <1>3
    <2> QED
      BY <1>3, <2>1 DEF Span, Following
  <1> QED
    BY <1>2, <1>3

(* Where a ticket is between two others.                                   *)
LEMMA SpanMoves ==
  ASSUME NEW a \in Ticket, NEW b \in Ticket
  PROVE  /\ Span(a, b) = 0 <=> a = b
         /\ Span(a, b) < Mod - 1 => Span(a, Following(b)) = Span(a, b) + 1
         /\ a # b => Span(Following(a), b) = Span(a, b) - 1
         /\ \A c \in Ticket : Span(c, b) = Span(a, b) => c = a
  <1> USE ModAssumption DEF Ticket
  <1>1. /\ Span(a, b) = IF b >= a THEN b - a ELSE b - a + Mod
        /\ Following(a) = IF a = Mod - 1 THEN 0 ELSE a + 1
        /\ Following(b) = IF b = Mod - 1 THEN 0 ELSE b + 1
        /\ Following(a) \in Ticket /\ Following(b) \in Ticket
    BY SpanIs
  <1>2. Span(a, Following(b)) = IF Following(b) >= a THEN Following(b) - a ELSE Following(b) - a + Mod
    BY <1>1, SpanIs
  <1>3. Span(Following(a), b) = IF b >= Following(a) THEN b - Following(a) ELSE b - Following(a) + Mod
    BY <1>1, SpanIs
  <1>4. ASSUME NEW c \in Ticket, Span(c, b) = Span(a, b)
        PROVE  c = a
    <2>1. Span(c, b) = IF b >= c THEN b - c ELSE b - c + Mod
      BY SpanIs
    <2> QED
      BY <1>1, <1>4, <2>1
  <1> QED
    BY <1>1, <1>2, <1>3, <1>4

(* less tells whether a ticket was notified, as long as it was given out   *)
(* and notify has got to it in the last half of the tickets.               *)
LEMMA LessIsRight ==
  ASSUME NEW t \in Ticket, NEW n \in Ticket, NEW l \in Ticket,
         Span(t, l) \in 1..(Mod \div 2), Span(n, l) < Mod \div 2
  PROVE  less(t, n) <=> Span(t, l) > Span(n, l)
  <1> USE ModAssumption DEF Ticket
  <1>1. /\ Span(t, l) = IF l >= t THEN l - t ELSE l - t + Mod
        /\ Span(n, l) = IF l >= n THEN l - n ELSE l - n + Mod
        /\ Span(n, t) = IF t >= n THEN t - n ELSE t - n + Mod
    BY SpanIs
  <1>2. Mod \div 2 \in Nat /\ Mod = 2 * (Mod \div 2)
    OBVIOUS
  <1> QED
    BY <1>1, <1>2 DEF less

(* The goroutines in Wait are never half as many as the tickets.           *)
LEMMA FewOutstanding ==
  ASSUME CondInv
  PROVE  /\ IsFiniteSet(Unnotified) /\ Unnotified \subseteq G
         /\ Span(notify, wait) \in Nat /\ 2 * Span(notify, wait) < Mod
         /\ \A g \in Unnotified : Span(ticket[g], wait) \in 1..Span(notify, wait)
  <1>1. Unnotified \subseteq G
    BY DEF Unnotified
  <1>2. IsFiniteSet(Unnotified) /\ Cardinality(Unnotified) \in Nat /\ Cardinality(Unnotified) <= Cardinality(G)
        /\ Cardinality(G) \in Nat
    BY <1>1, CountIsNat
  <1> QED
    BY <1>1, <1>2, ModAssumption DEF CondInv, TicketsOutstanding

(* Who waits for a notification, when nothing happens to the tickets.      *)
LEMMA TicketsKept ==
  ASSUME CondInv, UNCHANGED <<wait, notify>>, Unnotified' = Unnotified,
         \A h \in Unnotified : ticket'[h] = ticket[h]
  PROVE  TicketsOutstanding'
  <1>1. {Span(ticket'[g], wait') : g \in Unnotified'} = {Span(ticket[g], wait) : g \in Unnotified}
    OBVIOUS
  <1> QED
    BY <1>1 DEF CondInv, TicketsOutstanding

(* What notifiers know, when nothing happens to the tickets.               *)
LEMMA NotifiersKept ==
  ASSUME CondInv, UNCHANGED <<wait, notify>>, Unnotified' = Unnotified,
         \A h \in Unnotified : ticket'[h] = ticket[h],
         UNCHANGED <<kind, peek, owed>>,
         \A g \in G : \/ condpc'[g] = condpc[g]
                      \/ {condpc[g], condpc'[g]} \cap Notifying = {}
  PROVE  NotifiersFit'
  BY DEF CondInv, NotifiersFit, Notifying

-----------------------------------------------------------------------------
(* Every step of Cond keeps CondInv.  The caller locks or unlocks c.L, or  *)
(* unlocks it in Wait.                                                     *)
LEMMA LockerKeeps ==
  ASSUME CondInv, NEW g \in G, LockL(g) \/ UnlockL(g) \/ WaitUnlock(g)
  PROVE  CondInv'
  <1>1. /\ CondTypeOK /\ CondTypeOK'
        /\ UNCHANGED <<wait, notify, list, ticket, kind, peek, notified, owed>>
        /\ \A h \in G \ {g} : condpc'[h] = condpc[h]
        /\ \/ condpc[g] \in {"idle", "holding"} /\ condpc'[g] \in {"idle", "holding"}
           \/ condpc[g] = "unlockL" /\ condpc'[g] = "listWait"
    BY DEF CondInv, CondTypeOK, LockL, UnlockL, WaitUnlock, CondGoto, notifier, InWait, Notifying
  <1>2. Unnotified' = Unnotified
    BY <1>1 DEF Unnotified, InWait
  <1>3. TicketsOutstanding'
    BY <1>1, <1>2, TicketsKept
  <1>4. NotifiersFit'
    BY <1>1, <1>2, NotifiersKept DEF Notifying
  <1>5. WaitersFit'
    BY <1>1 DEF CondInv, WaitersFit
  <1>6. ListFits'
    <2>1. {h \in G : condpc'[h] = "parked"} = {h \in G : condpc[h] = "parked"}
      BY <1>1
    <2> QED
      BY <1>1, <2>1 DEF CondInv, ListFits
  <1> QED
    BY <1>1, <1>3, <1>4, <1>5, <1>6 DEF CondInv

(* Signal or Broadcast is called, and owes a wake-up to those in Wait.     *)
LEMMA CallKeeps ==
  ASSUME CondInv, NEW g \in G, NEW k \in {"Signal", "Broadcast"}, Call(g, k)
  PROVE  CondInv'
  <1>1. /\ CondTypeOK /\ UNCHANGED <<wait, notify, list, ticket, peek, notified>>
        /\ condpc' = [condpc EXCEPT ![g] = "loadWait"] /\ condpc[g] \in {"idle", "holding"}
        /\ owed' = [owed EXCEPT ![g] = Unnotified]
        /\ kind' = [kind EXCEPT ![g] = k]
    BY DEF CondInv, Call
  <1>2. CondTypeOK'
    BY <1>1 DEF CondTypeOK, Call, Notifying, Unnotified
  <1>3. Unnotified' = Unnotified
    BY <1>1, <1>2 DEF Unnotified, InWait, CondTypeOK
  <1>4. TicketsOutstanding'
    BY <1>1, <1>3, TicketsKept
  <1>5. NotifiersFit'
    BY <1>1, <1>3 DEF CondInv, NotifiersFit, Notifying, CondTypeOK
  <1>6. WaitersFit'
    BY <1>1 DEF CondInv, WaitersFit, CondTypeOK
  <1>7. ListFits'
    <2>1. {h \in G : condpc'[h] = "parked"} = {h \in G : condpc[h] = "parked"}
      BY <1>1 DEF CondTypeOK
    <2> QED
      BY <1>1, <2>1 DEF CondInv, ListFits
  <1> QED
    BY <1>2, <1>4, <1>5, <1>6, <1>7 DEF CondInv

(* A notifier loads l.wait: everybody who waits has an older ticket.       *)
LEMMA LoadWaitKeeps ==
  ASSUME CondInv, NEW g \in G, LoadWait(g)
  PROVE  CondInv'
  <1>1. /\ CondTypeOK /\ UNCHANGED <<wait, notify, list, ticket, kind, notified, owed>>
        /\ condpc' = [condpc EXCEPT ![g] = "loadNotify"] /\ condpc[g] = "loadWait"
        /\ peek' = [peek EXCEPT ![g] = wait]
    BY DEF CondInv, LoadWait, CondGoto
  <1>2. CondTypeOK'
    BY <1>1 DEF CondTypeOK, LoadWait, Notifying
  <1>3. Unnotified' = Unnotified
    BY <1>1, <1>2 DEF Unnotified, InWait, CondTypeOK
  <1>4. TicketsOutstanding'
    BY <1>1, <1>3, TicketsKept
  <1>5. NotifiersFit'
    <2>1. Span(wait, wait) = 0
      BY SpanMoves, <1>1 DEF CondTypeOK, Ticket
    <2>2. \A h \in Unnotified : Span(ticket[h], wait) > 0
      BY FewOutstanding
    <2> QED
      BY <1>1, <1>3, <2>1, <2>2 DEF CondInv, NotifiersFit, Notifying, CondTypeOK
  <1>6. WaitersFit'
    BY <1>1 DEF CondInv, WaitersFit, CondTypeOK
  <1>7. ListFits'
    <2>1. {h \in G : condpc'[h] = "parked"} = {h \in G : condpc[h] = "parked"}
      BY <1>1 DEF CondTypeOK
    <2> QED
      BY <1>1, <2>1 DEF CondInv, ListFits
  <1> QED
    BY <1>2, <1>4, <1>5, <1>6, <1>7 DEF CondInv

(* The fast path finds somebody new.                                       *)
LEMMA SomebodyNewKeeps ==
  ASSUME CondInv, NEW g \in G, SomebodyNew(g)
  PROVE  CondInv'
  <1> DEFINE to == IF kind[g] = "Signal" THEN "notifyOne" ELSE "notifyAll"
  <1>1. /\ CondTypeOK /\ UNCHANGED <<wait, notify, list, ticket, kind, peek, notified, owed>>
        /\ condpc' = [condpc EXCEPT ![g] = to] /\ condpc[g] = "loadNotify"
    BY DEF CondInv, SomebodyNew, CondGoto, notifier
  <1>2. CondTypeOK'
    BY <1>1 DEF CondTypeOK, SomebodyNew, Notifying
  <1>3. Unnotified' = Unnotified
    BY <1>1, <1>2 DEF Unnotified, InWait, CondTypeOK
  <1>4. TicketsOutstanding'
    BY <1>1, <1>3, TicketsKept
  <1>5. NotifiersFit'
    BY <1>1, <1>3 DEF CondInv, NotifiersFit, Notifying, CondTypeOK
  <1>6. WaitersFit'
    BY <1>1 DEF CondInv, WaitersFit, CondTypeOK
  <1>7. ListFits'
    <2>1. {h \in G : condpc'[h] = "parked"} = {h \in G : condpc[h] = "parked"}
      BY <1>1 DEF CondTypeOK
    <2> QED
      BY <1>1, <2>1 DEF CondInv, ListFits
  <1> QED
    BY <1>2, <1>4, <1>5, <1>6, <1>7 DEF CondInv

(* In notifyListWait, less tells whether the goroutine has been notified.  *)
LEMMA LateIsNotified ==
  ASSUME CondInv, NEW g \in G, condpc[g] = "listWait"
  PROVE  less(ticket[g], notify) <=> g \in notified
  <1>1. ticket[g] \in Ticket /\ wait \in Ticket /\ notify \in Ticket
    BY DEF CondInv, CondTypeOK, Ticket
  <1>2. Span(ticket[g], wait) \in 1..(Mod \div 2) /\ (g \in notified => Span(ticket[g], wait) > Span(notify, wait))
    BY DEF CondInv, WaitersFit
  <1>3. g \notin notified => Span(ticket[g], wait) <= Span(notify, wait)
    <2>1. g \notin notified => g \in Unnotified
      BY DEF Unnotified, InWait
    <2> QED
      BY <2>1, FewOutstanding
  <1>4. Span(notify, wait) \in Nat /\ Span(notify, wait) < Mod \div 2
    BY FewOutstanding, ModAssumption
  <1> QED
    BY <1>1, <1>2, <1>3, <1>4, LessIsRight

(* notifyListWait: the goroutine parks unless its ticket was notified.     *)
LEMMA notifyListWaitKeeps ==
  ASSUME CondInv, NEW g \in G, notifyListWait(g)
  PROVE  CondInv'
  <1>1. /\ CondTypeOK /\ UNCHANGED <<wait, notify, ticket, kind, peek, notified, owed>>
        /\ condpc[g] = "listWait"
        /\ IF less(ticket[g], notify)
           THEN condpc' = [condpc EXCEPT ![g] = "relock"] /\ list' = list
           ELSE condpc' = [condpc EXCEPT ![g] = "parked"] /\ list' = Append(list, g)
    BY DEF CondInv, notifyListWait, CondGoto, notifier
  <1>2. CondTypeOK'
    <2>1. list \in Seq(G) /\ Append(list, g) \in Seq(G)
      BY <1>1, AppendProperties DEF CondTypeOK
    <2>2. list' \in Seq(G)
      BY <1>1, <2>1
    <2> QED
      BY <1>1, <2>2 DEF CondTypeOK, notifyListWait, InWait
  <1>3. less(ticket[g], notify) <=> g \in notified
    BY <1>1, LateIsNotified
  <1>4. Unnotified' = Unnotified
    BY <1>1, <1>2, <1>3 DEF Unnotified, InWait, CondTypeOK
  <1>5. TicketsOutstanding'
    BY <1>1, <1>4, TicketsKept
  <1>6. NotifiersFit'
    BY <1>1, <1>4, NotifiersKept DEF Notifying, CondTypeOK
  <1>7. WaitersFit'
    BY <1>1, <1>3 DEF CondInv, WaitersFit, CondTypeOK
  <1>8. ListFits'
    <2>1. CASE g \in notified
      <3>1. {h \in G : condpc'[h] = "parked"} = {h \in G : condpc[h] = "parked"}
        BY <1>1, <1>3, <2>1 DEF CondTypeOK
      <3> QED
        BY <1>1, <1>3, <2>1, <3>1 DEF CondInv, ListFits
    <2>2. CASE g \notin notified
      <3>1. {h \in G : condpc'[h] = "parked"} = {h \in G : condpc[h] = "parked"} \cup {g}
        BY <1>1, <1>3, <2>2 DEF CondTypeOK
      <3>2. /\ DOMAIN list = 1..Len(list) /\ Len(list) \in Nat /\ DOMAIN list' = 1..(Len(list) + 1)
            /\ \A i \in DOMAIN list : list'[i] = list[i]
            /\ list'[Len(list) + 1] = g
        <4>1. list' = Append(list, g) /\ list \in Seq(G) /\ list' \in Seq(G)
          BY <1>1, <1>2, <1>3, <2>2 DEF CondTypeOK
        <4>2. /\ Len(Append(list, g)) = Len(list) + 1 /\ Append(list, g)[Len(list) + 1] = g
              /\ \A i \in 1..Len(list) : Append(list, g)[i] = list[i]
          BY <4>1, AppendProperties
        <4>3. Len(list) \in Nat /\ DOMAIN list = 1..Len(list) /\ DOMAIN list' = 1..Len(list')
          BY <4>1, LenProperties
        <4> QED
          BY <4>1, <4>2, <4>3
      <3>3. \A i \in DOMAIN list : list[i] # g
        BY <1>1 DEF CondInv, ListFits
      <3>4. {list'[i] : i \in DOMAIN list'} = {list[i] : i \in DOMAIN list} \cup {g}
        BY <3>2
      <3> QED
        BY <3>1, <3>2, <3>3, <3>4 DEF CondInv, ListFits
    <2> QED
      BY <2>1, <2>2
  <1> QED
    BY <1>2, <1>5, <1>6, <1>7, <1>8 DEF CondInv

(* A goroutine that was notified has c.L again and leaves Wait.            *)
LEMMA WaitLockKeeps ==
  ASSUME CondInv, NEW g \in G, WaitLock(g)
  PROVE  CondInv'
  <1>1. /\ CondTypeOK /\ UNCHANGED <<wait, notify, list, kind, peek, owed>>
        /\ condpc' = [condpc EXCEPT ![g] = "holding"] /\ condpc[g] = "relock"
        /\ ticket' = [ticket EXCEPT ![g] = 0] /\ notified' = notified \ {g}
    BY DEF CondInv, WaitLock, CondGoto
  <1>2. CondTypeOK'
    BY <1>1, ModAssumption DEF CondTypeOK, WaitLock
  <1>3. Unnotified' = Unnotified /\ g \notin Unnotified
    BY <1>1, <1>2 DEF Unnotified, InWait, CondTypeOK
  <1>4. \A h \in Unnotified : ticket'[h] = ticket[h]
    BY <1>1, <1>3 DEF CondTypeOK
  <1>5. TicketsOutstanding'
    BY <1>1, <1>3, <1>4, TicketsKept
  <1>6. NotifiersFit'
    BY <1>1, <1>3, <1>4, NotifiersKept DEF Notifying, CondTypeOK
  <1>7. WaitersFit'
    BY <1>1 DEF CondInv, WaitersFit, CondTypeOK
  <1>8. ListFits'
    <2>1. {h \in G : condpc'[h] = "parked"} = {h \in G : condpc[h] = "parked"}
      BY <1>1 DEF CondTypeOK
    <2> QED
      BY <1>1, <2>1 DEF CondInv, ListFits
  <1> QED
    BY <1>2, <1>5, <1>6, <1>7, <1>8 DEF CondInv

(* A notifier returns that has found nobody to notify.                     *)
LEMMA NobodyKeeps ==
  ASSUME CondInv, NEW g \in G, condpc[g] \in Notifying, ReturnWith(g, {}), Settle(g, {}),
         UNCHANGED <<cL, wait, notify, list, ticket>>
  PROVE  CondInv'
  <1>1. /\ CondTypeOK
        /\ \A h \in G : condpc'[h] = IF h # g THEN condpc[h] ELSE IF cL = g THEN "holding" ELSE "idle"
        /\ kind' = [kind EXCEPT ![g] = "Signal"] /\ peek' = [peek EXCEPT ![g] = 0]
        /\ owed' = [owed EXCEPT ![g] = {}] /\ notified' = notified
    BY DEF CondInv, CondTypeOK, ReturnWith, Settle
  <1>2. CondTypeOK'
    <2>1. condpc' \in [G -> InWait \cup Notifying \cup {"idle", "holding"}]
      BY <1>1 DEF ReturnWith, CondTypeOK
    <2>2. 0 \in 0..(Mod - 1)
      BY CountIsNat, ModAssumption
    <2>3. kind' \in [G -> {"Signal", "Broadcast"}] /\ peek' \in [G -> 0..(Mod - 1)] /\ owed' \in [G -> SUBSET G]
      BY <1>1, <2>2 DEF CondTypeOK
    <2> QED
      BY <1>1, <2>1, <2>3 DEF CondTypeOK
  <1>3. Unnotified' = Unnotified
    BY <1>1 DEF Unnotified, InWait, Notifying
  <1>4. TicketsOutstanding'
    BY <1>3, TicketsKept
  <1>5. NotifiersFit'
    <2>1. \A n \in G \ {g} : /\ owed'[n] = owed[n] /\ kind'[n] = kind[n]
                            /\ peek'[n] = peek[n] /\ condpc'[n] = condpc[n]
      BY <1>1 DEF CondTypeOK
    <2>2. owed'[g] = {} /\ condpc'[g] \notin Notifying
      BY <1>1 DEF CondTypeOK, Notifying
    <2> QED
      BY <1>3, <2>1, <2>2 DEF CondInv, NotifiersFit, Notifying
  <1>6. WaitersFit'
    BY <1>1 DEF CondInv, WaitersFit, Notifying
  <1>7. ListFits'
    <2>1. {h \in G : condpc'[h] = "parked"} = {h \in G : condpc[h] = "parked"}
      BY <1>1 DEF Notifying
    <2> QED
      BY <2>1 DEF CondInv, ListFits
  <1> QED
    BY <1>2, <1>4, <1>5, <1>6, <1>7 DEF CondInv

(* Wait takes a ticket: all older ones are one further from l.wait.        *)
LEMMA CondWaitKeeps ==
  ASSUME CondInv, Timely, NEW g \in G, CondWait(g)
  PROVE  CondInv'
  <1>1. /\ CondTypeOK /\ UNCHANGED <<notify, list, kind, peek, notified, owed>>
        /\ condpc' = [condpc EXCEPT ![g] = "unlockL"] /\ condpc[g] = "holding"
        /\ ticket' = [ticket EXCEPT ![g] = wait] /\ wait' = Following(wait)
        /\ \A h \in G : condpc[h] \in {"unlockL", "listWait"} => Span(ticket[h], wait) < Mod \div 2
    BY DEF CondInv, CondWait, CondGoto, notifier, Following
  <1>2. /\ wait \in Ticket /\ notify \in Ticket /\ wait' \in Ticket
        /\ \A h \in G : ticket[h] \in Ticket /\ peek[h] \in Ticket
    BY <1>1, SpanIs DEF CondTypeOK, Ticket
  <1>3. CondTypeOK'
    BY <1>1, <1>2 DEF CondTypeOK, CondWait, InWait, Ticket
  <1>4. g \notin notified /\ g \notin Unnotified /\ Unnotified' = Unnotified \cup {g}
    BY <1>1 DEF Unnotified, InWait, CondTypeOK, CondInv, WaitersFit
  <1>5. /\ Span(notify, wait) \in Nat /\ 2 * Span(notify, wait) < Mod /\ Mod \in Nat /\ Mod = 2 * (Mod \div 2)
        /\ Mod \div 2 \in Nat
        /\ \A h \in Unnotified : Span(ticket[h], wait) \in 1..Span(notify, wait)
        /\ IsFiniteSet(Unnotified) /\ Unnotified \subseteq G
    BY FewOutstanding, ModAssumption
  <1>6. Span(notify, wait') = Span(notify, wait) + 1
    BY <1>1, <1>2, <1>5, SpanMoves
  <1>7. Span(wait, wait') = 1
    <2>1. Span(wait, wait) = 0
      BY <1>2, SpanMoves
    <2> QED
      BY <1>1, <1>2, <1>5, <2>1, SpanMoves
  <1>8. \A t \in Ticket : Span(t, wait) <= Mod \div 2 => Span(t, wait') = Span(t, wait) + 1
    <2>1. \A t \in Ticket : Span(t, wait) \in Nat
      <3>1. \A t \in Ticket : Span(t, wait) \in Ticket
        BY <1>2, SpanIs
      <3> QED
        BY <1>5, <3>1 DEF Ticket
    <2>2. \A t \in Ticket : Span(t, wait) < Mod - 1 => Span(t, wait') = Span(t, wait) + 1
      BY <1>1, <1>2, SpanMoves
    <2>3. Mod > 2
      <3>1. Cardinality(G) \in Nat /\ Cardinality(G) # 0
        BY CountIsNat
      <3> QED
        BY <3>1, <1>5, ModAssumption
    <2> QED
      BY <1>5, <2>1, <2>2, <2>3
  <1>9. TicketsOutstanding'
    <2>1. \A h \in Unnotified : h # g /\ ticket'[h] = ticket[h] /\ ticket[h] \in Ticket
                                /\ Span(ticket'[h], wait') = Span(ticket[h], wait) + 1
      BY <1>1, <1>2, <1>4, <1>5, <1>8 DEF CondTypeOK
    <2>2. ticket'[g] = wait
      BY <1>1 DEF CondTypeOK
    <2>3. \A h \in Unnotified' : Span(ticket'[h], wait') \in 1..Span(notify, wait')
      BY <1>4, <1>5, <1>6, <1>7, <2>1, <2>2
    <2>4. ASSUME NEW k \in 1..Span(notify, wait')
          PROVE  \E h \in Unnotified' : Span(ticket'[h], wait') = k
      <3>1. CASE k = 1
        BY <1>4, <1>7, <2>2, <3>1
      <3>2. CASE k # 1
        <4>1. k - 1 \in 1..Span(notify, wait)
          BY <1>5, <1>6, <3>2
        <4>2. PICK h \in Unnotified : Span(ticket[h], wait) = k - 1
          BY <4>1 DEF CondInv, TicketsOutstanding
        <4> QED
          BY <1>4, <2>1, <4>2
      <3> QED
        BY <3>1, <3>2
    <2>5. \A h \in Unnotified : ticket[h] # wait
      <3>1. Span(wait, wait) = 0
        BY <1>2, SpanMoves
      <3> QED
        BY <1>5, <3>1
    <2>6. \A h, x \in Unnotified' : ticket'[h] = ticket'[x] => h = x
      BY <1>4, <2>1, <2>2, <2>5 DEF CondInv, TicketsOutstanding
    <2>7. Cardinality(Unnotified') = Cardinality(Unnotified) + 1
      BY <1>4, <1>5, FS_AddElement
    <2>8. {Span(ticket'[h], wait') : h \in Unnotified'} = 1..Span(notify, wait')
      BY <2>3, <2>4
    <2> QED
      BY <1>1, <1>6, <2>6, <2>7, <2>8 DEF CondInv, TicketsOutstanding
  <1>10. WaitersFit'
    <2>1. ASSUME NEW h \in G \ {g}, condpc[h] \in {"unlockL", "listWait"}
          PROVE  /\ Span(ticket'[h], wait') = Span(ticket[h], wait) + 1
                 /\ Span(ticket[h], wait) \in 1..(Mod \div 2) /\ Span(ticket[h], wait) < Mod \div 2
                 /\ h \in notified => Span(ticket[h], wait) > Span(notify, wait)
      <3>1. ticket'[h] = ticket[h] /\ ticket[h] \in Ticket
        BY <1>1, <1>2 DEF CondTypeOK
      <3>2. /\ Span(ticket[h], wait) \in 1..(Mod \div 2) /\ Span(ticket[h], wait) < Mod \div 2
            /\ h \in notified => Span(ticket[h], wait) > Span(notify, wait)
        BY <1>1, <2>1 DEF CondInv, WaitersFit
      <3> QED
        BY <1>5, <1>8, <3>1, <3>2
    <2>2. ticket'[g] = wait /\ Mod \div 2 >= 1
      <3>1. Cardinality(G) \in Nat /\ Cardinality(G) # 0
        BY CountIsNat
      <3> QED
        BY <1>1, <1>5, <3>1, ModAssumption DEF CondTypeOK
    <2>3. \A h \in G \ {g} : condpc'[h] = condpc[h]
      BY <1>1 DEF CondTypeOK
    <2>4. ASSUME NEW h \in G \ {g}
          PROVE  /\ h \in notified' => condpc'[h] \in {"unlockL", "listWait", "relock"}
                 /\ condpc'[h] = "relock" => h \in notified'
                 /\ condpc'[h] \in {"unlockL", "listWait"} =>
                      /\ Span(ticket'[h], wait') \in 1..(Mod \div 2)
                      /\ h \in notified' => Span(ticket'[h], wait') > Span(notify', wait')
      <3>1. /\ h \in notified => condpc[h] \in {"unlockL", "listWait", "relock"}
            /\ condpc[h] = "relock" => h \in notified
        BY DEF CondInv, WaitersFit
      <3> QED
        BY <1>1, <1>5, <1>6, <2>1, <2>3, <3>1
    <2> QED
      BY <1>1, <1>4, <1>7, <2>2, <2>4 DEF WaitersFit, CondTypeOK
  <1>11. ListFits'
    <2>1. {h \in G : condpc'[h] = "parked"} = {h \in G : condpc[h] = "parked"}
      BY <1>1 DEF CondTypeOK
    <2> QED
      BY <1>1, <2>1 DEF CondInv, ListFits
  <1>12. NotifiersFit'
    <2>1. \A h \in Unnotified : h # g /\ ticket'[h] = ticket[h]
                                /\ Span(ticket'[h], wait') = Span(ticket[h], wait) + 1
      BY <1>1, <1>2, <1>4, <1>5, <1>8 DEF CondTypeOK
    <2>2. ASSUME NEW n \in G, NEW h \in owed[n]
          PROVE  /\ condpc'[n] = "loadNotify" => Span(ticket'[h], wait') > Span(peek'[n], wait')
                 /\ \A x \in Unnotified' : Span(ticket'[x], wait') > Span(ticket'[h], wait') => x \in owed'[n]
      <3>1. h \in Unnotified
        BY DEF CondInv, NotifiersFit
      <3>2. condpc'[n] = "loadNotify" => condpc[n] = "loadNotify"
        BY <1>1 DEF CondTypeOK
      <3>3. /\ condpc[n] = "loadNotify" => Span(ticket[h], wait) > Span(peek[n], wait)
            /\ \A x \in Unnotified : Span(ticket[x], wait) > Span(ticket[h], wait) => x \in owed[n]
        BY DEF CondInv, NotifiersFit
      <3>4. Span(peek[n], wait) \in Nat
        <4>1. Span(peek[n], wait) \in Ticket
          BY <1>2, SpanIs
        <4> QED
          BY <1>5, <4>1 DEF Ticket
      <3>5. condpc[n] = "loadNotify" => Span(peek[n], wait') = Span(peek[n], wait) + 1
        BY <1>2, <1>5, <1>8, <3>1, <3>3, <3>4
      <3>6. ticket'[g] = wait
        BY <1>1 DEF CondTypeOK
      <3> QED
        BY <1>1, <1>4, <1>5, <1>7, <2>1, <3>1, <3>2, <3>3, <3>4, <3>5, <3>6
    <2>3. \A n \in G : condpc'[n] \in Notifying <=> condpc[n] \in Notifying
      BY <1>1 DEF CondTypeOK, Notifying
    <2>4. \A n \in G : condpc[n] \in Notifying => condpc'[n] = condpc[n]
      BY <1>1 DEF CondTypeOK, Notifying
    <2> QED
      BY <1>1, <1>4, <2>2, <2>3, <2>4 DEF CondInv, NotifiersFit, Notifying
  <1> QED
    BY <1>3, <1>9, <1>10, <1>11, <1>12 DEF CondInv

(* Broadcast: everybody in Wait is notified, and who is parked made ready. *)
LEMMA notifyListNotifyAllKeeps ==
  ASSUME CondInv, NEW g \in G, notifyListNotifyAll(g)
  PROVE  CondInv'
  <1>1. /\ CondTypeOK /\ UNCHANGED <<cL, wait, ticket>>
        /\ condpc[g] = "notifyAll" /\ list' = <<>> /\ notify' = wait
        /\ ReturnWith(g, ToSet(list)) /\ Settle(g, Unnotified)
    BY DEF CondInv, notifyListNotifyAll
  <1>2. ToSet(list) = {h \in G : condpc[h] = "parked"}
    BY DEF CondInv, ListFits, ToSet
  <1>3. \A h \in G : condpc'[h] = IF condpc[h] = "parked" THEN "relock"
                                  ELSE IF h # g THEN condpc[h] ELSE IF cL = g THEN "holding" ELSE "idle"
    BY <1>1, <1>2 DEF ReturnWith
  <1>4. notified' = notified \cup Unnotified
    BY <1>1 DEF Settle
  <1>5. \A h \in G : owed'[h] = {}
    BY <1>1 DEF Settle, CondInv, NotifiersFit
  <1>6. kind' = [kind EXCEPT ![g] = "Signal"] /\ peek' = [peek EXCEPT ![g] = 0]
    BY <1>1 DEF ReturnWith
  <1>7. \A h \in G : condpc'[h] \in {"unlockL", "listWait", "parked"} =>
                        /\ condpc[h] = condpc'[h] /\ condpc[h] \in {"unlockL", "listWait"}
                        /\ h \in notified'
    BY <1>3, <1>4 DEF Unnotified, InWait
  <1>8. Unnotified' = {}
    BY <1>7 DEF Unnotified, InWait
  <1>9. CondTypeOK'
    <2>1. condpc' \in [G -> InWait \cup Notifying \cup {"idle", "holding"}]
      <3>1. condpc' = [h \in G |-> condpc'[h]]
        BY <1>1 DEF ReturnWith
      <3> QED
        BY <1>1, <1>3, <3>1 DEF CondTypeOK, InWait
    <2>2. 0 \in 0..(Mod - 1)
      BY CountIsNat, ModAssumption
    <2>3. kind' \in [G -> {"Signal", "Broadcast"}] /\ peek' \in [G -> 0..(Mod - 1)]
      BY <1>1, <1>6, <2>2 DEF CondTypeOK
    <2>4. owed' \in [G -> SUBSET G]
      <3>1. owed' = [h \in G |-> owed'[h]]
        BY <1>1 DEF Settle
      <3> QED
        BY <1>5, <3>1
    <2>5. notified' \subseteq G /\ list' \in Seq(G)
      BY <1>1, <1>4 DEF CondTypeOK, Unnotified
    <2> QED
      BY <1>1, <2>1, <2>3, <2>4, <2>5 DEF CondTypeOK
  <1>10. Span(notify', wait') = 0
    BY <1>1, SpanMoves DEF CondTypeOK, Ticket
  <1>11. TicketsOutstanding'
    BY <1>8, <1>10, FS_EmptySet DEF TicketsOutstanding
  <1>12. WaitersFit'
    <2>1. ASSUME NEW h \in G
          PROVE  /\ h \in notified' => condpc'[h] \in {"unlockL", "listWait", "relock"}
                 /\ condpc'[h] = "relock" => h \in notified'
      BY <1>1, <1>3, <1>4 DEF CondInv, WaitersFit, Unnotified, InWait, Notifying
    <2>2. ASSUME NEW h \in G, condpc'[h] \in {"unlockL", "listWait"}
          PROVE  Span(ticket'[h], wait') \in 1..(Mod \div 2) /\ Span(ticket'[h], wait') > Span(notify', wait')
      <3>1. Span(ticket[h], wait) \in 1..(Mod \div 2) /\ Mod \div 2 \in Nat
        BY <1>7, <2>2, ModAssumption DEF CondInv, WaitersFit
      <3> QED
        BY <1>1, <1>10, <3>1
    <2> QED
      BY <2>1, <2>2 DEF WaitersFit
  <1>13. ListFits'
    <2>1. {h \in G : condpc'[h] = "parked"} = {}
      BY <1>7
    <2> QED
      BY <1>1, <2>1 DEF ListFits
  <1>14. NotifiersFit'
    <2>1. \A h \in G \ {g} : condpc'[h] \in Notifying => condpc'[h] = condpc[h] /\ kind'[h] = kind[h]
      BY <1>1, <1>3, <1>6 DEF Notifying, CondTypeOK
    <2>2. condpc'[g] \notin Notifying
      BY <1>1, <1>3 DEF Notifying
    <2> QED
      BY <1>5, <2>1, <2>2 DEF CondInv, NotifiersFit, Notifying
  <1> QED
    BY <1>9, <1>11, <1>12, <1>13, <1>14 DEF CondInv

(* A list without one of its members, which were all different.            *)
LEMMA WithoutOne ==
  ASSUME NEW s \in Seq(G), NEW i \in DOMAIN s, \A j, k \in DOMAIN s : s[j] = s[k] => j = k
  PROVE  /\ RemoveAt(s, i) \in Seq(G)
         /\ {RemoveAt(s, i)[j] : j \in DOMAIN RemoveAt(s, i)} = {s[j] : j \in DOMAIN s} \ {s[i]}
         /\ \A j, k \in DOMAIN RemoveAt(s, i) : RemoveAt(s, i)[j] = RemoveAt(s, i)[k] => j = k
  <1> DEFINE n == Len(s)
             a == SubSeq(s, 1, i - 1)
             b == SubSeq(s, i + 1, n)
             rest == RemoveAt(s, i)
  <1>1. n \in Nat /\ DOMAIN s = 1..n /\ s \in [1..n -> G] /\ i \in 1..n
    BY LenProperties
  <1>2. /\ a \in Seq(G) /\ Len(a) = i - 1
        /\ \A j \in 1..(i - 1) : a[j] = s[j]
    <2>1. \A j \in 1..(i - 1) : s[j] \in G
      BY <1>1
    <2>2. /\ SubSeq(s, 1, i - 1) \in Seq(G)
          /\ Len(SubSeq(s, 1, i - 1)) = IF 1 <= i - 1 THEN (i - 1) - 1 + 1 ELSE 0
          /\ \A j \in 1..((i - 1) - 1 + 1) : SubSeq(s, 1, i - 1)[j] = s[1 + j - 1]
      BY <1>1, <2>1, SubSeqProperties
    <2> QED
      BY <1>1, <2>2
  <1>3. /\ b \in Seq(G) /\ Len(b) = n - i
        /\ \A j \in 1..(n - i) : b[j] = s[i + j]
    <2>1. \A j \in (i + 1)..n : s[j] \in G
      BY <1>1
    <2>2. /\ SubSeq(s, i + 1, n) \in Seq(G)
          /\ Len(SubSeq(s, i + 1, n)) = IF i + 1 <= n THEN n - (i + 1) + 1 ELSE 0
          /\ \A j \in 1..(n - (i + 1) + 1) : SubSeq(s, i + 1, n)[j] = s[(i + 1) + j - 1]
      BY <1>1, <2>1, SubSeqProperties
    <2> QED
      BY <1>1, <2>2
  <1>4. rest = a \o b
    BY DEF RemoveAt
  <1> HIDE DEF a, b, rest
  <1>5. /\ rest \in Seq(G) /\ Len(rest) = n - 1
        /\ \A j \in 1..(n - 1) : rest[j] = IF j <= i - 1 THEN a[j] ELSE b[j - (i - 1)]
    <2>1. /\ a \o b \in Seq(G) /\ Len(a \o b) = Len(a) + Len(b)
          /\ \A j \in 1..(Len(a) + Len(b)) : (a \o b)[j] = IF j <= Len(a) THEN a[j] ELSE b[j - Len(a)]
      BY <1>2, <1>3, ConcatProperties
    <2> QED
      BY <1>1, <1>2, <1>3, <1>4, <2>1
  <1>6. \A j \in 1..(n - 1) : rest[j] = s[IF j < i THEN j ELSE j + 1]
    <2>1. ASSUME NEW j \in 1..(n - 1)
          PROVE  rest[j] = s[IF j < i THEN j ELSE j + 1]
      <3>1. CASE j < i
        BY <1>1, <1>2, <1>5, <3>1
      <3>2. CASE j >= i
        <4>1. j - (i - 1) \in 1..(n - i) /\ i + (j - (i - 1)) = j + 1
          BY <1>1, <3>2
        <4>2. rest[j] = b[j - (i - 1)]
          BY <1>1, <1>5, <3>2
        <4>3. b[j - (i - 1)] = s[i + (j - (i - 1))]
          BY <1>3, <4>1
        <4> QED
          BY <1>1, <3>2, <4>1, <4>2, <4>3
      <3> QED
        BY <1>1, <3>1, <3>2
    <2> QED
      BY <2>1
  <1>7. DOMAIN rest = 1..(n - 1)
    BY <1>5, LenProperties
  <1>8. {rest[j] : j \in DOMAIN rest} = {s[j] : j \in DOMAIN s} \ {s[i]}
    <2>1. ASSUME NEW j \in 1..(n - 1)
          PROVE  rest[j] \in {s[k] : k \in 1..n} \ {s[i]}
      <3>1. (IF j < i THEN j ELSE j + 1) \in 1..n /\ (IF j < i THEN j ELSE j + 1) # i
        BY <1>1
      <3> QED
        BY <1>1, <1>6, <3>1
    <2>2. ASSUME NEW k \in 1..n, s[k] # s[i]
          PROVE  \E j \in 1..(n - 1) : rest[j] = s[k]
      <3>1. CASE k < i
        BY <1>1, <1>6, <3>1
      <3>2. CASE k > i
        <4>1. k - 1 \in 1..(n - 1) /\ ~(k - 1 < i) /\ (k - 1) + 1 = k
          BY <1>1, <3>2
        <4> QED
          BY <1>6, <4>1
      <3> QED
        BY <1>1, <2>2, <3>1, <3>2
    <2> QED
      BY <1>1, <1>7, <2>1, <2>2
  <1>9. ASSUME NEW j \in 1..(n - 1), NEW k \in 1..(n - 1), rest[j] = rest[k]
        PROVE  j = k
    <2>1. /\ (IF j < i THEN j ELSE j + 1) \in 1..n /\ (IF k < i THEN k ELSE k + 1) \in 1..n
      BY <1>1
    <2>2. (IF j < i THEN j ELSE j + 1) = (IF k < i THEN k ELSE k + 1)
      BY <1>1, <1>6, <1>9, <2>1
    <2> QED
      BY <1>1, <2>2
  <1> QED
    BY <1>5, <1>7, <1>8, <1>9 DEF rest

(* The one whose ticket is the next to be notified.                        *)
LEMMA NextTicket ==
  ASSUME CondInv, notify # wait
  PROVE  /\ \E o \in Unnotified : ticket[o] = notify /\ \A h \in Unnotified : ticket[h] = notify => h = o
         /\ Span(notify, wait) > 0
         /\ Span(Following(notify), wait) = Span(notify, wait) - 1
         /\ \A h \in Unnotified : Span(ticket[h], wait) = Span(notify, wait) <=> ticket[h] = notify
  <1>1. wait \in Ticket /\ notify \in Ticket /\ \A h \in G : ticket[h] \in Ticket
    BY DEF CondInv, CondTypeOK, Ticket
  <1>2. Span(notify, wait) \in Nat /\ Unnotified \subseteq G
    BY FewOutstanding
  <1>3. Span(notify, wait) # 0 /\ Span(Following(notify), wait) = Span(notify, wait) - 1
    BY <1>1, SpanMoves
  <1>4. \A h \in Unnotified : Span(ticket[h], wait) = Span(notify, wait) <=> ticket[h] = notify
    BY <1>1, <1>2, SpanMoves
  <1>5. PICK o \in Unnotified : Span(ticket[o], wait) = Span(notify, wait)
    <2>1. Span(notify, wait) \in 1..Span(notify, wait)
      BY <1>2, <1>3
    <2> QED
      BY <2>1 DEF CondInv, TicketsOutstanding
  <1>6. \A h \in Unnotified : ticket[h] = ticket[o] => h = o
    BY DEF CondInv, TicketsOutstanding
  <1> QED
    BY <1>2, <1>3, <1>4, <1>5, <1>6

(* Signal with somebody to notify: the oldest one, o, is notified, and     *)
(* made ready if it is parked.                                             *)
SignalsTo(g, o) ==
  /\ condpc[g] = "notifyOne"
  /\ o \in Unnotified /\ ticket[o] = notify
  /\ notify' = Following(notify)
  /\ \A h \in G : condpc'[h] = IF h = o /\ condpc[o] = "parked" THEN "relock"
                               ELSE IF h # g THEN condpc[h] ELSE IF cL = g THEN "holding" ELSE "idle"
  /\ IF condpc[o] = "parked" THEN \E i \in DOMAIN list : list[i] = o /\ list' = RemoveAt(list, i) ELSE list' = list
  /\ Settle(g, {o})
  /\ kind' = [kind EXCEPT ![g] = "Signal"] /\ peek' = [peek EXCEPT ![g] = 0]
  /\ condpc' = [h \in G |-> condpc'[h]]
  /\ UNCHANGED <<cL, wait, ticket>>

(* notifyListNotifyOne does that, or has nobody to notify.                 *)
LEMMA notifyListNotifyOneSignals ==
  ASSUME CondInv, NEW g \in G, notifyListNotifyOne(g)
  PROVE  \/ /\ notify = wait /\ ReturnWith(g, {}) /\ Settle(g, {})
            /\ UNCHANGED <<cL, wait, notify, list, ticket>>
         \/ notify # wait /\ \E o \in Unnotified : SignalsTo(g, o)
  <1> DEFINE found == {i \in DOMAIN list : ~(notify = wait) /\ ticket[list[i]] = notify}
             first == CHOOSE i \in found : \A j \in found : i <= j
  <1>1. /\ condpc[g] = "notifyOne"
        /\ notify' = IF notify = wait THEN notify ELSE (notify + 1) % Mod
        /\ list' = IF found = {} THEN list ELSE RemoveAt(list, first)
        /\ ReturnWith(g, IF found = {} THEN {} ELSE {list[first]})
        /\ Settle(g, {h \in Unnotified : ~(notify = wait) /\ ticket[h] = notify})
        /\ UNCHANGED <<cL, wait, ticket>>
    BY DEF notifyListNotifyOne
  <1>2. CASE notify = wait
    <2>1. found = {} /\ {h \in Unnotified : ~(notify = wait) /\ ticket[h] = notify} = {}
      BY <1>2
    <2>2. ReturnWith(g, {}) /\ Settle(g, {}) /\ list' = list /\ notify' = notify
      BY <1>1, <1>2, <2>1
    <2> QED
      BY <1>1, <1>2, <2>2
  <1>3. CASE notify # wait
    <2>1. PICK o \in Unnotified : ticket[o] = notify /\ \A h \in Unnotified : ticket[h] = notify => h = o
      BY <1>3, NextTicket
    <2>2. {h \in Unnotified : ~(notify = wait) /\ ticket[h] = notify} = {o}
      BY <1>3, <2>1
    <2>3. {list[i] : i \in DOMAIN list} = {h \in G : condpc[h] = "parked"}
      BY DEF CondInv, ListFits
    <2>4. \A h \in G : condpc[h] = "parked" => h \in Unnotified
      BY DEF CondInv, WaitersFit, Unnotified, InWait
    <2>5. found = {i \in DOMAIN list : list[i] = o}
      BY <1>3, <2>1, <2>3, <2>4
    <2>6. o \in G
      BY DEF Unnotified
    <2>7. /\ kind' = [kind EXCEPT ![g] = "Signal"] /\ peek' = [peek EXCEPT ![g] = 0]
          /\ condpc' = [h \in G |-> condpc'[h]]
      BY <1>1 DEF ReturnWith
    <2>8. CASE condpc[o] = "parked"
      <3>1. PICK i \in DOMAIN list : list[i] = o
        BY <2>3, <2>6, <2>8
      <3>2. found = {i}
        BY <2>5, <3>1 DEF CondInv, ListFits
      <3>3. first = i
        <4>1. i <= i
          <5>1. i \in Nat
            BY <3>1, LenProperties DEF CondInv, CondTypeOK
          <5> QED
            BY <5>1
        <4>2. \A j \in found : i <= j
          BY <3>2, <4>1
        <4> QED
          BY <3>2, <4>2
      <3> HIDE DEF found, first
      <3>4. list' = RemoveAt(list, i) /\ ReturnWith(g, {o})
        BY <1>1, <3>1, <3>2, <3>3
      <3>5. \A h \in G : condpc'[h] = IF h = o /\ condpc[o] = "parked" THEN "relock"
                               ELSE IF h # g THEN condpc[h] ELSE IF cL = g THEN "holding" ELSE "idle"
        BY <2>8, <3>4 DEF ReturnWith
      <3> QED
        BY <1>1, <1>3, <2>1, <2>2, <2>7, <2>8, <3>1, <3>4, <3>5 DEF SignalsTo, Following
    <2>9. CASE condpc[o] # "parked"
      <3>1. found = {}
        BY <2>3, <2>5, <2>9
      <3> HIDE DEF found, first
      <3>2. list' = list /\ ReturnWith(g, {})
        BY <1>1, <3>1
      <3>3. \A h \in G : condpc'[h] = IF h = o /\ condpc[o] = "parked" THEN "relock"
                               ELSE IF h # g THEN condpc[h] ELSE IF cL = g THEN "holding" ELSE "idle"
        BY <2>9, <3>2 DEF ReturnWith
      <3> QED
        BY <1>1, <1>3, <2>1, <2>2, <2>7, <2>9, <3>2, <3>3 DEF SignalsTo, Following
    <2> QED
      BY <1>3, <2>8, <2>9
  <1> QED
    BY <1>2, <1>3

(* Signal notifies the oldest ticket: a Broadcast on its way still owes    *)
(* the others, a Signal that owed its holder a wake-up owes nothing more.  *)
LEMMA SignalKeeps ==
  ASSUME CondInv, NEW g \in G, NEW o \in Unnotified, notify # wait, SignalsTo(g, o)
  PROVE  CondInv'
  <1>1. /\ CondTypeOK /\ UNCHANGED <<cL, wait, ticket>>
        /\ condpc[g] = "notifyOne" /\ ticket[o] = notify /\ notify' = Following(notify)
        /\ \A h \in G : condpc'[h] = IF h = o /\ condpc[o] = "parked" THEN "relock"
                                     ELSE IF h # g THEN condpc[h] ELSE IF cL = g THEN "holding" ELSE "idle"
        /\ notified' = notified \cup {o}
        /\ \A h \in G : \/ owed'[h] = {} /\ h = g
                        \/ h # g /\ kind[h] = "Broadcast" /\ owed'[h] = owed[h] \ {o}
                        \/ h # g /\ kind[h] # "Broadcast" /\ owed'[h] = IF o \in owed[h] THEN {} ELSE owed[h]
        /\ owed' = [h \in G |-> owed'[h]] /\ condpc' = [h \in G |-> condpc'[h]]
        /\ kind' = [kind EXCEPT ![g] = "Signal"] /\ peek' = [peek EXCEPT ![g] = 0]
    BY DEF CondInv, SignalsTo, Settle
  <1>2. /\ Unnotified \subseteq G /\ IsFiniteSet(Unnotified) /\ Span(notify, wait) \in Nat
        /\ Span(notify, wait) > 0 /\ Span(notify', wait') = Span(notify, wait) - 1
        /\ \A h \in Unnotified : Span(ticket[h], wait) \in 1..Span(notify, wait)
        /\ \A h \in Unnotified : Span(ticket[h], wait) = Span(notify, wait) <=> ticket[h] = notify
        /\ \A h \in Unnotified : ticket[h] = notify => h = o
    BY <1>1, FewOutstanding, NextTicket DEF CondInv, TicketsOutstanding
  <1>3. o \in G /\ condpc[o] \in {"unlockL", "listWait", "parked"} /\ o \notin notified /\ o # g
    BY <1>1 DEF Unnotified, InWait
  <1>4. \A h \in G : condpc'[h] \in {"unlockL", "listWait", "parked"} => condpc'[h] = condpc[h]
    BY <1>1
  <1>5. Unnotified' = Unnotified \ {o}
    <2>1. \A h \in G \ {o} : condpc'[h] \in {"unlockL", "listWait", "parked"} <=>
                              condpc[h] \in {"unlockL", "listWait", "parked"}
      BY <1>1
    <2> QED
      BY <1>1, <2>1 DEF Unnotified, InWait
  <1>6. CondTypeOK'
    <2>1. condpc' \in [G -> InWait \cup Notifying \cup {"idle", "holding"}]
      BY <1>1 DEF CondTypeOK, InWait
    <2>2. 0 \in 0..(Mod - 1)
      BY CountIsNat, ModAssumption
    <2>3. kind' \in [G -> {"Signal", "Broadcast"}] /\ peek' \in [G -> 0..(Mod - 1)]
      BY <1>1, <2>2 DEF CondTypeOK
    <2>4. owed' \in [G -> SUBSET G]
      <3>1. \A h \in G : owed'[h] \subseteq G
        BY <1>1 DEF CondTypeOK
      <3> QED
        BY <1>1, <3>1
    <2>5. list' \in Seq(G)
      BY <1>1, WithoutOne DEF SignalsTo, CondTypeOK, CondInv, ListFits
    <2>6. notify' \in 0..(Mod - 1)
      BY <1>1, SpanIs DEF CondTypeOK, Ticket
    <2>7. notified' \subseteq G
      BY <1>1, <1>3 DEF CondTypeOK
    <2> QED
      BY <1>1, <2>1, <2>3, <2>4, <2>5, <2>6, <2>7 DEF CondTypeOK
  <1>7. TicketsOutstanding'
    <2>1. \A h \in Unnotified' : Span(ticket'[h], wait') \in 1..Span(notify', wait')
      BY <1>1, <1>2, <1>5
    <2>2. ASSUME NEW k \in 1..Span(notify', wait')
          PROVE  \E h \in Unnotified' : Span(ticket'[h], wait') = k
      <3>1. k \in 1..Span(notify, wait) /\ k # Span(notify, wait)
        BY <1>2
      <3>2. PICK h \in Unnotified : Span(ticket[h], wait) = k
        BY <3>1 DEF CondInv, TicketsOutstanding
      <3>3. h # o
        BY <1>1, <1>2, <3>1, <3>2
      <3> QED
        BY <1>1, <1>5, <3>2, <3>3
    <2>3. {Span(ticket'[h], wait') : h \in Unnotified'} = 1..Span(notify', wait')
      BY <2>1, <2>2
    <2>4. Cardinality(Unnotified') = Cardinality(Unnotified) - 1
      BY <1>2, <1>5, FS_RemoveElement
    <2>5. \A h, x \in Unnotified' : ticket'[h] = ticket'[x] => h = x
      BY <1>1, <1>5 DEF CondInv, TicketsOutstanding
    <2> QED
      BY <1>2, <2>3, <2>4, <2>5 DEF CondInv, TicketsOutstanding
  <1>8. WaitersFit'
    <2>1. ASSUME NEW h \in G
          PROVE  /\ h \in notified' => condpc'[h] \in {"unlockL", "listWait", "relock"}
                 /\ condpc'[h] = "relock" => h \in notified'
      BY <1>1, <1>3 DEF CondInv, WaitersFit, Notifying
    <2>2. ASSUME NEW h \in G, condpc'[h] \in {"unlockL", "listWait"}
          PROVE  /\ Span(ticket'[h], wait') \in 1..(Mod \div 2)
                 /\ h \in notified' => Span(ticket'[h], wait') > Span(notify', wait')
      <3>1. condpc[h] \in {"unlockL", "listWait"} /\ ticket'[h] = ticket[h] /\ wait' = wait
        BY <1>1, <2>2
      <3>2. Span(ticket[h], wait) \in 1..(Mod \div 2) /\ (h \in notified => Span(ticket[h], wait) > Span(notify, wait))
        BY <3>1 DEF CondInv, WaitersFit
      <3>3. h = o => Span(ticket[h], wait) = Span(notify, wait)
        BY <1>1, <1>2
      <3>4. Mod \div 2 \in Nat
        BY ModAssumption
      <3> QED
        BY <1>1, <1>2, <3>1, <3>2, <3>3, <3>4
    <2> QED
      BY <2>1, <2>2 DEF WaitersFit
  <1>9. ListFits'
    <2>1. CASE condpc[o] = "parked"
      <3>1. PICK i \in DOMAIN list : list[i] = o /\ list' = RemoveAt(list, i)
        BY <2>1 DEF SignalsTo
      <3>2. /\ list \in Seq(G) /\ \A j, k \in DOMAIN list : list[j] = list[k] => j = k
            /\ {list[j] : j \in DOMAIN list} = {h \in G : condpc[h] = "parked"}
        BY <1>1 DEF CondInv, ListFits, CondTypeOK
      <3>3. /\ {list'[j] : j \in DOMAIN list'} = {list[j] : j \in DOMAIN list} \ {o}
            /\ \A j, k \in DOMAIN list' : list'[j] = list'[k] => j = k
        <4> DEFINE rest == RemoveAt(list, i)
        <4>1. /\ {rest[j] : j \in DOMAIN rest} = {list[j] : j \in DOMAIN list} \ {list[i]}
              /\ \A j, k \in DOMAIN rest : rest[j] = rest[k] => j = k
          BY <3>2, WithoutOne
        <4> HIDE DEF rest
        <4>2. list' = rest
          BY <3>1 DEF rest
        <4> QED
          BY <3>1, <4>1, <4>2
      <3>4. {h \in G : condpc'[h] = "parked"} = {h \in G : condpc[h] = "parked"} \ {o}
        BY <1>1, <2>1
      <3> QED
        BY <3>2, <3>3, <3>4 DEF ListFits
    <2>2. CASE condpc[o] # "parked"
      <3>1. {h \in G : condpc'[h] = "parked"} = {h \in G : condpc[h] = "parked"} /\ list' = list
        BY <1>1, <2>2 DEF SignalsTo
      <3> QED
        BY <3>1 DEF CondInv, ListFits
    <2> QED
      BY <2>1, <2>2
  <1>10. NotifiersFit'
    <2>1. ASSUME NEW n \in G
          PROVE  /\ owed'[n] \subseteq owed[n] \ {o}
                 /\ n # g /\ condpc'[n] \in Notifying =>
                      condpc'[n] = condpc[n] /\ kind'[n] = kind[n] /\ peek'[n] = peek[n]
                 /\ condpc[n] \notin Notifying => condpc'[n] \notin Notifying
                 /\ n = g => condpc'[n] \notin Notifying /\ owed'[n] = {}
                 /\ owed'[n] # {} => owed'[n] = owed[n] \ {o}
      <3>1. /\ owed'[n] \subseteq owed[n] \ {o} /\ (owed'[n] # {} => owed'[n] = owed[n] \ {o})
            /\ n = g => owed'[n] = {}
        BY <1>1
      <3>2. n # g /\ condpc'[n] \in Notifying => condpc'[n] = condpc[n]
        BY <1>1 DEF Notifying
      <3>3. condpc[n] \notin Notifying => condpc'[n] \notin Notifying
        BY <1>1 DEF Notifying
      <3>4. n # g => kind'[n] = kind[n] /\ peek'[n] = peek[n]
        BY <1>1 DEF CondTypeOK
      <3>5. condpc'[g] \notin Notifying
        BY <1>1, <1>3 DEF Notifying
      <3> QED
        BY <3>1, <3>2, <3>3, <3>4, <3>5
    <2>2. ASSUME NEW n \in G
          PROVE  /\ owed[n] \subseteq Unnotified
                 /\ condpc[n] \notin Notifying => owed[n] = {}
                 /\ condpc[n] = "notifyOne" => kind[n] = "Signal"
                 /\ condpc[n] = "notifyAll" => kind[n] = "Broadcast"
                 /\ \A h \in owed[n] :
                      /\ condpc[n] = "loadNotify" => Span(ticket[h], wait) > Span(peek[n], wait)
                      /\ \A x \in Unnotified : Span(ticket[x], wait) > Span(ticket[h], wait) => x \in owed[n]
      BY DEF CondInv, NotifiersFit
    <2>3. ASSUME NEW n \in G
          PROVE  /\ owed'[n] \subseteq Unnotified'
                 /\ condpc'[n] \notin Notifying => owed'[n] = {}
                 /\ condpc'[n] = "notifyOne" => kind'[n] = "Signal"
                 /\ condpc'[n] = "notifyAll" => kind'[n] = "Broadcast"
      <3>1. condpc'[n] \in {"notifyOne", "notifyAll"} => condpc'[n] \in Notifying
        BY DEF Notifying
      <3>2. n # g /\ condpc[n] \in Notifying => condpc'[n] \in Notifying
        BY <1>1, <1>3 DEF Notifying
      <3> QED
        BY <1>5, <2>1, <2>2, <3>1, <3>2
    <2>4. ASSUME NEW n \in G, NEW h \in owed'[n]
          PROVE  /\ condpc'[n] = "loadNotify" => Span(ticket'[h], wait') > Span(peek'[n], wait')
                 /\ \A x \in Unnotified' : Span(ticket'[x], wait') > Span(ticket'[h], wait') => x \in owed'[n]
      <3>1. n # g /\ h \in owed[n] /\ owed'[n] = owed[n] \ {o}
        BY <2>1
      <3>2. condpc'[n] = "loadNotify" => condpc[n] = "loadNotify" /\ peek'[n] = peek[n]
        <4>1. condpc'[n] = "loadNotify" => condpc'[n] \in Notifying
          BY DEF Notifying
        <4> QED
          BY <2>1, <3>1, <4>1
      <3> QED
        BY <1>1, <1>5, <2>2, <3>1, <3>2
    <2> QED
      BY <2>3, <2>4 DEF NotifiersFit
  <1> QED
    BY <1>6, <1>7, <1>8, <1>9, <1>10 DEF CondInv

(* No step breaks the invariant, as long as nobody is overtaken by half of *)
(* the tickets.                                                            *)
LEMMA CondInvInductive ==
  ASSUME Timely, CondInv, [CondNext]_condVars
  PROVE  CondInv'
  <1>1. CASE UNCHANGED condVars
    <2>1. UNCHANGED <<cL, wait, notify, list, condpc, ticket, kind, peek, notified, owed>>
      BY <1>1 DEF condVars
    <2> QED
      BY <2>1 DEF CondInv, CondTypeOK, TicketsOutstanding, WaitersFit, ListFits, NotifiersFit, Unnotified
  <1>2. ASSUME NEW g \in G, NobodyNew(g)
        PROVE  CondInv'
    BY <1>2, NobodyKeeps DEF NobodyNew, Notifying
  <1>3. ASSUME NEW g \in G, notifyListNotifyOne(g)
        PROVE  CondInv'
    <2>1. condpc[g] \in Notifying
      BY <1>3 DEF notifyListNotifyOne, Notifying
    <2> QED
      BY <1>3, <2>1, notifyListNotifyOneSignals, NobodyKeeps, SignalKeeps
  <1> QED
    BY <1>1, <1>2, <1>3, LockerKeeps, CallKeeps, LoadWaitKeeps, SomebodyNewKeeps, notifyListWaitKeeps, WaitLockKeeps,
       CondWaitKeeps, notifyListNotifyAllKeeps DEF CondNext, CondWaitStep, NotifyStep

(* A new Cond: no ticket has been given out.                               *)
LEMMA CondInitFits == CondInit => CondInv
  <1> SUFFICES ASSUME CondInit
               PROVE  CondInv
    OBVIOUS
  <1>1. 0 \in 0..(Mod - 1)
    BY CountIsNat, ModAssumption
  <1>2. CondTypeOK
    BY <1>1 DEF CondInit, CondTypeOK
  <1>3. Unnotified = {} /\ Span(notify, wait) = 0
    BY <1>1, SpanMoves DEF CondInit, Unnotified, InWait, Ticket
  <1>4. TicketsOutstanding
    BY <1>3, FS_EmptySet DEF TicketsOutstanding
  <1>5. WaitersFit
    BY DEF CondInit, WaitersFit
  <1>6. ListFits
    BY DEF CondInit, ListFits
  <1>7. NotifiersFit
    BY DEF CondInit, NotifiersFit, Notifying
  <1> QED
    BY <1>2, <1>4, <1>5, <1>6, <1>7 DEF CondInv

(* Cond loses no wake-up and gives none twice, for any finite set of       *)
(* goroutines and any even number of tickets, more than twice as many, if  *)
(* nobody is overtaken by half of the tickets.                             *)
THEOREM CondInvariance ==
  ASSUME Timely
  PROVE  CondSpec => []CondInv
  BY CondInitFits, CondInvInductive, PTL DEF CondSpec

(* A notifier leaves the call only by its own step.                        *)
LEMMA NotifierLeaves ==
  ASSUME CondInv, [CondNext]_condVars, NEW g \in G, condpc[g] \in Notifying, condpc'[g] \notin Notifying
  PROVE  NobodyNew(g) \/ notifyListNotifyAll(g) \/ notifyListNotifyOne(g)
  <1>1. CondTypeOK /\ condpc[g] \in {"loadWait", "loadNotify", "notifyOne", "notifyAll"}
    BY DEF CondInv, Notifying
  <1>2. condpc'[g] # condpc[g]
    BY DEF Notifying
  <1>3. PICK h \in G : \/ LockL(h) \/ UnlockL(h) \/ CondWait(h) \/ Call(h, "Signal") \/ Call(h, "Broadcast")
                       \/ CondWaitStep(h) \/ NotifyStep(h)
    BY <1>2 DEF CondNext, condVars
  <1>4. ASSUME LockL(h) \/ UnlockL(h) \/ CondWait(h) \/ Call(h, "Signal") \/ Call(h, "Broadcast") \/ CondWaitStep(h)
        PROVE  FALSE
    <2>1. /\ condpc[h] \notin {"loadWait", "loadNotify", "notifyOne", "notifyAll"}
          /\ \E to : condpc' = [condpc EXCEPT ![h] = to]
      BY <1>4 DEF LockL, UnlockL, CondWait, Call, CondWaitStep, WaitUnlock, notifyListWait, WaitLock, CondGoto
    <2> QED
      BY <1>1, <1>2, <2>1 DEF CondTypeOK
  <1>5. CASE LoadWait(h) \/ SomebodyNew(h)
    <2>1. \E to \in Notifying : condpc' = [condpc EXCEPT ![h] = to]
      BY <1>5 DEF LoadWait, SomebodyNew, CondGoto, Notifying
    <2> QED
      BY <1>1, <1>2, <2>1 DEF CondTypeOK
  <1>6. CASE NobodyNew(h)
    BY <1>2, <1>6 DEF NobodyNew, ReturnWith
  <1>7. CASE notifyListNotifyAll(h)
    <2>1. g \notin ToSet(list)
      BY <1>1 DEF CondInv, ListFits, ToSet
    <2> QED
      BY <1>2, <1>7, <2>1 DEF notifyListNotifyAll, ReturnWith
  <1>8. CASE notifyListNotifyOne(h)
    <2>1. CASE ReturnWith(h, {})
      BY <1>2, <1>8, <2>1 DEF ReturnWith
    <2>2. ASSUME NEW o \in Unnotified, SignalsTo(h, o)
          PROVE  h = g
      BY <1>1, <1>2, <2>2 DEF SignalsTo
    <2> QED
      BY <1>8, <2>1, <2>2, notifyListNotifyOneSignals
  <1> QED
    BY <1>3, <1>4, <1>5, <1>6, <1>7, <1>8 DEF NotifyStep

(* A notifier that returns has done what it was called for.                *)
LEMMA NotifierDoesItsJob ==
  ASSUME CondInv, [CondNext]_condVars, NEW g \in G, condpc[g] \in Notifying, condpc'[g] \notin Notifying
  PROVE  \/ owed[g] \subseteq notified'
         \/ kind[g] = "Signal" /\ owed[g] \cap notified' # {}
  <1>1. /\ CondTypeOK /\ owed[g] \subseteq Unnotified
        /\ condpc[g] = "notifyOne" => kind[g] = "Signal"
        /\ \A h \in owed[g] :
             /\ condpc[g] = "loadNotify" => Span(ticket[h], wait) > Span(peek[g], wait)
             /\ \A x \in Unnotified : Span(ticket[x], wait) > Span(ticket[h], wait) => x \in owed[g]
    BY DEF CondInv, NotifiersFit
  <1>2. /\ \A h \in Unnotified : Span(ticket[h], wait) \in 1..Span(notify, wait)
        /\ Span(notify, wait) \in Nat
    BY FewOutstanding
  <1>3. CASE NobodyNew(g)
    <2>1. owed[g] = {}
      BY <1>1, <1>2, <1>3 DEF NobodyNew
    <2> QED
      BY <2>1
  <1>4. CASE notifyListNotifyAll(g)
    BY <1>1, <1>4 DEF notifyListNotifyAll, Settle
  <1>5. CASE notifyListNotifyOne(g)
    <2>1. CASE notify = wait
      <3>1. Span(notify, wait) = 0
        BY <1>1, <2>1, SpanMoves DEF CondTypeOK, Ticket
      <3> QED
        BY <1>1, <1>2, <3>1
    <2>2. ASSUME notify # wait, NEW o \in Unnotified, SignalsTo(g, o)
          PROVE  owed[g] = {} \/ owed[g] \cap notified' # {}
      <3>1. notified' = notified \cup {o} /\ Span(ticket[o], wait) = Span(notify, wait)
        BY <2>2, NextTicket DEF SignalsTo, Settle
      <3>2. ASSUME NEW h \in owed[g]
            PROVE  o \in owed[g]
        <4>1. CASE h = o
          BY <4>1
        <4>2. CASE h # o
          <5>1. ticket[h] # ticket[o]
            BY <1>1, <4>2 DEF CondInv, TicketsOutstanding
          <5>2. Span(ticket[h], wait) # Span(notify, wait)
            BY <1>1, <2>2, <5>1, NextTicket DEF SignalsTo
          <5>3. Span(ticket[o], wait) > Span(ticket[h], wait)
            BY <1>1, <1>2, <3>1, <5>2
          <5> QED
            BY <1>1, <5>3
        <4> QED
          BY <4>1, <4>2
      <3> QED
        BY <3>1, <3>2
    <2>3. condpc[g] = "notifyOne"
      BY <1>5 DEF notifyListNotifyOne
    <2> QED
      BY <1>1, <1>5, <2>1, <2>2, <2>3, notifyListNotifyOneSignals
  <1> QED
    BY <1>3, <1>4, <1>5, NotifierLeaves

(* Signal and Broadcast do their job before they return.                   *)
THEOREM NotifiersKeepTheirWord ==
  ASSUME Timely
  PROVE  CondSpec => NotifiersDoTheirJob
  <1>1. ASSUME CondInv, [CondNext]_condVars
        PROVE  [\A g \in G :
                  condpc[g] \in Notifying /\ condpc'[g] \notin Notifying =>
                    \/ owed[g] \subseteq notified'
                    \/ kind[g] = "Signal" /\ owed[g] \cap notified' # {}]_condVars
    BY <1>1, NotifierDoesItsJob
  <1> QED
    BY <1>1, CondInvariance, PTL DEF CondSpec, NotifiersDoTheirJob

(* Nobody parks, or stays parked, whose ticket has been notified.          *)
THEOREM NoLostWakeup ==
  ASSUME Timely
  PROVE  CondSpec => []NotifiedDontPark
  <1>1. CondInv => NotifiedDontPark
    BY DEF CondInv, WaitersFit, NotifiedDontPark
  <1> QED
    BY <1>1, CondInvariance, PTL

-----------------------------------------------------------------------------
(* Cond implements NotifyList: the holders of the tickets from n to l.     *)
InOrder(U, T, n, l) ==
  [i \in 1..Span(n, l) |->
     LET holders == {g \in U : T[g] = (n + i - 1) % Mod} IN
     IF holders = {} THEN None ELSE CHOOSE g \in holders : TRUE]

(* The ticket i after n is i fewer before l.                               *)
LEMMA LaterTicket ==
  ASSUME NEW n \in Ticket, NEW l \in Ticket, NEW i \in 1..Span(n, l)
  PROVE  /\ (n + i - 1) % Mod \in Ticket
         /\ Span((n + i - 1) % Mod, l) = Span(n, l) - i + 1
  <1> USE ModAssumption DEF Ticket
  <1>1. /\ Span(n, l) = IF l >= n THEN l - n ELSE l - n + Mod
        /\ Span(n, l) \in Ticket
    BY SpanIs
  <1>2. Mod > 0
    OBVIOUS
  <1>3. (n + i - 1) % Mod = IF n + i - 1 < Mod THEN n + i - 1 ELSE n + i - 1 - Mod
    <2>1. n + i - 1 \in 0..(2 * Mod - 1)
      BY <1>1, <1>2
    <2> QED
      BY <1>1, <1>2, <2>1
  <1>4. (n + i - 1) % Mod \in Ticket
    BY <1>1, <1>2, <1>3
  <1>5. \A a \in Ticket : Span(a, l) = IF l >= a THEN l - a ELSE l - a + Mod
    BY SpanIs
  <1> QED
    BY <1>1, <1>2, <1>3, <1>4, <1>5

(* A sequence of members whose tickets are in that order is the queue.     *)
LEMMA IsInOrder ==
  ASSUME NEW U, NEW T, NEW n \in Ticket, NEW l \in Ticket,
         \A g \in U : T[g] \in Ticket, \A g, h \in U : T[g] = T[h] => g = h,
         NEW q \in Seq(G), Len(q) = Span(n, l),
         \A i \in 1..Span(n, l) : q[i] \in U /\ Span(T[q[i]], l) = Span(n, l) - i + 1
  PROVE  q = InOrder(U, T, n, l)
  <1>1. ASSUME NEW i \in 1..Span(n, l)
        PROVE  q[i] = InOrder(U, T, n, l)[i]
    <2>1. T[q[i]] = (n + i - 1) % Mod
      BY LaterTicket, SpanMoves
    <2>2. {g \in U : T[g] = (n + i - 1) % Mod} = {q[i]}
      BY <2>1
    <2> QED
      BY <2>2 DEF InOrder
  <1>2. InOrder(U, T, n, l) = [i \in 1..Span(n, l) |-> InOrder(U, T, n, l)[i]]
    BY DEF InOrder
  <1>3. q = [i \in 1..Span(n, l) |-> q[i]]
    <2>1. q \in [1..Span(n, l) -> G]
      BY LenProperties
    <2> QED
      BY <2>1
  <1> QED
    BY <1>1, <1>2, <1>3

(* The queue that Pending is: those not yet notified, by their tickets.    *)
LEMMA PendingIs ==
  ASSUME CondInv
  PROVE  /\ Pending \in Seq(G) /\ Len(Pending) = Span(notify, wait) /\ Span(notify, wait) \in Nat
         /\ DOMAIN Pending = 1..Span(notify, wait)
         /\ \A i \in 1..Span(notify, wait) :
              Pending[i] \in Unnotified /\ Span(ticket[Pending[i]], wait) = Span(notify, wait) - i + 1
  <1>1. wait \in Ticket /\ notify \in Ticket /\ \A g \in G : ticket[g] \in Ticket
    BY DEF CondInv, CondTypeOK, Ticket
  <1>2. Span(notify, wait) \in Nat /\ Unnotified \subseteq G
    BY FewOutstanding
  <1>3. ASSUME NEW i \in 1..Span(notify, wait)
        PROVE  Pending[i] \in Unnotified /\ Span(ticket[Pending[i]], wait) = Span(notify, wait) - i + 1
    <2> DEFINE holders == {g \in Unnotified : ticket[g] = (notify + i - 1) % Mod}
    <2>1. (notify + i - 1) % Mod \in Ticket /\ Span((notify + i - 1) % Mod, wait) = Span(notify, wait) - i + 1
      BY <1>1, LaterTicket
    <2>2. Span(notify, wait) - i + 1 \in {Span(ticket[g], wait) : g \in Unnotified}
      BY <1>2 DEF CondInv, TicketsOutstanding
    <2>3. PICK g \in Unnotified : Span(ticket[g], wait) = Span(notify, wait) - i + 1
      BY <2>2
    <2>4. ticket[g] = (notify + i - 1) % Mod
      BY <1>1, <1>2, <2>1, <2>3, SpanMoves
    <2>5. holders # {}
      BY <2>4
    <2>6. Pending[i] = CHOOSE h \in holders : TRUE
      BY <2>5 DEF Pending
    <2>7. Pending[i] \in holders
      BY <2>5, <2>6
    <2> QED
      BY <2>1, <2>7
  <1>4. Pending = [i \in 1..Span(notify, wait) |-> Pending[i]]
    BY DEF Pending
  <1>5. Pending \in [1..Span(notify, wait) -> G]
    BY <1>2, <1>3, <1>4
  <1>6. Pending \in Seq(G)
    BY <1>2, <1>5, SeqDef
  <1> QED
    BY <1>2, <1>3, <1>5, <1>6, LenProperties

(* A step that gives out and notifies no ticket leaves the queue alone.    *)
LEMMA PendingKept ==
  ASSUME UNCHANGED <<wait, notify>>, Unnotified' = Unnotified, \A h \in Unnotified : ticket'[h] = ticket[h]
  PROVE  Pending' = Pending
  <1>1. ASSUME NEW i \in 1..Span(notify, wait)
        PROVE  InOrder(Unnotified, ticket, notify, wait)[i] = InOrder(Unnotified, ticket', notify, wait)[i]
    <2> DEFINE A == {h \in Unnotified : ticket[h] = (notify + i - 1) % Mod}
               B == {h \in Unnotified : ticket'[h] = (notify + i - 1) % Mod}
    <2>1. A = B
      OBVIOUS
    <2>2. InOrder(Unnotified, ticket, notify, wait)[i] = IF A = {} THEN None ELSE CHOOSE h \in A : TRUE
      BY DEF InOrder
    <2>3. InOrder(Unnotified, ticket', notify, wait)[i] = IF B = {} THEN None ELSE CHOOSE h \in B : TRUE
      BY DEF InOrder
    <2> HIDE DEF A, B
    <2> QED
      BY <2>1, <2>2, <2>3
  <1>2. /\ InOrder(Unnotified, ticket, notify, wait) =
             [i \in 1..Span(notify, wait) |-> InOrder(Unnotified, ticket, notify, wait)[i]]
        /\ InOrder(Unnotified, ticket', notify, wait) =
             [i \in 1..Span(notify, wait) |-> InOrder(Unnotified, ticket', notify, wait)[i]]
    BY DEF InOrder
  <1>3. InOrder(Unnotified, ticket, notify, wait) = InOrder(Unnotified, ticket', notify, wait)
    BY <1>1, <1>2
  <1>4. /\ Pending = InOrder(Unnotified, ticket, notify, wait)
        /\ Pending' = InOrder(Unnotified', ticket', notify', wait')
    BY DEF Pending, InOrder
  <1> QED
    BY <1>3, <1>4

(* Wait joins the queue at its end.                                        *)
LEMMA CondWaitJoins ==
  ASSUME CondInv, CondInv', Timely, NEW g \in G, CondWait(g)
  PROVE  Queue!Wait(g)
  <1> DEFINE D == Span(notify, wait)
             q == Append(Pending, g)
  <1>1. /\ CondTypeOK /\ UNCHANGED <<notify, notified>>
        /\ condpc' = [condpc EXCEPT ![g] = "unlockL"] /\ condpc[g] = "holding"
        /\ ticket' = [ticket EXCEPT ![g] = wait] /\ wait' = Following(wait)
    BY DEF CondInv, CondWait, CondGoto, notifier, Following
  <1>2. /\ wait \in Ticket /\ notify \in Ticket /\ wait' \in Ticket
        /\ \A h \in G : ticket[h] \in Ticket /\ ticket'[h] \in Ticket
    BY <1>1, SpanIs DEF CondTypeOK, Ticket
  <1>3. g \notin Unnotified /\ Unnotified' = Unnotified \cup {g} /\ Unnotified \subseteq G
    BY <1>1 DEF Unnotified, InWait, CondTypeOK, CondInv, WaitersFit
  <1>4. /\ D \in Nat /\ 2 * D < Mod /\ Mod \in Nat
        /\ \A h \in Unnotified : Span(ticket[h], wait) \in 1..D
    BY FewOutstanding, ModAssumption
  <1>5. Span(notify', wait') = D + 1
    <2>1. D < Mod - 1
      <3>1. Cardinality(G) \in Nat /\ Cardinality(G) # 0
        BY CountIsNat
      <3> QED
        BY <1>4, <3>1, ModAssumption
    <2>2. Span(notify, Following(wait)) = D + 1
      BY <1>2, <2>1, SpanMoves
    <2> QED
      BY <1>1, <2>2
  <1>6. \A h \in Unnotified : ticket'[h] = ticket[h] /\ Span(ticket'[h], wait') = Span(ticket[h], wait) + 1
    <2>1. \A h \in Unnotified : Span(ticket[h], wait) < Mod - 1
      BY <1>4
    <2> QED
      BY <1>1, <1>2, <1>3, <2>1, SpanMoves DEF CondTypeOK
  <1>7. ticket'[g] = wait /\ Span(ticket'[g], wait') = 1
    <2>1. Span(wait, wait) = 0
      BY <1>2, SpanMoves
    <2>2. Mod > 1
      <3>1. Cardinality(G) \in Nat /\ Cardinality(G) # 0
        BY CountIsNat
      <3> QED
        BY <3>1, ModAssumption
    <2>3. ticket'[g] = wait
      BY <1>1 DEF CondTypeOK
    <2> QED
      BY <1>1, <1>2, <1>4, <2>1, <2>2, <2>3, SpanMoves
  <1>8. /\ Pending \in Seq(G) /\ Len(Pending) = D
        /\ \A i \in 1..D : Pending[i] \in Unnotified /\ Span(ticket[Pending[i]], wait) = D - i + 1
    BY PendingIs
  <1>9. /\ q \in Seq(G) /\ Len(q) = D + 1
        /\ \A i \in 1..D : q[i] = Pending[i]
        /\ q[D + 1] = g
    BY <1>8, AppendProperties
  <1> HIDE DEF q
  <1>10. q \in Seq(G) /\ Len(q) = Span(notify', wait')
    BY <1>5, <1>9
  <1>11. \A i \in 1..Span(notify', wait') :
            q[i] \in Unnotified' /\ Span(ticket'[q[i]], wait') = Span(notify', wait') - i + 1
    <2>1. ASSUME NEW i \in 1..D
          PROVE  q[i] \in Unnotified' /\ Span(ticket'[q[i]], wait') = D + 1 - i + 1
      <3>1. Span(ticket'[q[i]], wait') = (D - i + 1) + 1
        BY <1>6, <1>8, <1>9
      <3> QED
        BY <1>3, <1>4, <1>8, <1>9, <3>1
    <2> HIDE DEF D
    <2>2. q[D + 1] \in Unnotified' /\ Span(ticket'[q[D + 1]], wait') = D + 1 - (D + 1) + 1
      <3>1. D + 1 - (D + 1) + 1 = 1
        BY <1>4
      <3> QED
        BY <1>3, <1>7, <1>9, <3>1
    <2>3. \A i \in 1..(D + 1) : i \in 1..D \/ i = D + 1
      BY <1>4
    <2> QED
      BY <1>4, <1>5, <2>1, <2>2, <2>3
  <1>12. \A h, k \in Unnotified' : ticket'[h] = ticket'[k] => h = k
    BY DEF CondInv, TicketsOutstanding
  <1>13. q = InOrder(Unnotified', ticket', notify', wait')
    <2>1. notify' \in Ticket /\ wait' \in Ticket /\ \A h \in Unnotified' : ticket'[h] \in Ticket
      BY <1>1, <1>2, <1>3
    <2> QED
      BY <1>10, <1>11, <1>12, <2>1, IsInOrder
  <1>14. Pending' = InOrder(Unnotified', ticket', notify', wait')
    BY DEF Pending, InOrder
  <1>15. {h \in G : condpc'[h] \in InWait} = {h \in G : condpc[h] \in InWait} \cup {g}
    BY <1>1 DEF CondTypeOK, InWait
  <1>16. g \notin {h \in G : condpc[h] \in InWait}
    BY <1>1 DEF InWait
  <1> QED
    BY <1>13, <1>14, <1>15, <1>16 DEF Queue!Wait, q

(* Broadcast empties the queue.                                            *)
LEMMA NotifyAllEmpties ==
  ASSUME CondInv, NEW g \in G, notifyListNotifyAll(g)
  PROVE  Queue!Broadcast
  <1>1. /\ CondTypeOK /\ condpc[g] = "notifyAll" /\ wait' = wait /\ notify' = wait /\ ReturnWith(g, ToSet(list))
    BY DEF CondInv, notifyListNotifyAll
  <1>2. ToSet(list) = {h \in G : condpc[h] = "parked"}
    BY DEF CondInv, ListFits, ToSet
  <1>3. \A h \in G : condpc'[h] = IF condpc[h] = "parked" THEN "relock"
                                  ELSE IF h # g THEN condpc[h] ELSE IF cL = g THEN "holding" ELSE "idle"
    BY <1>1, <1>2 DEF ReturnWith
  <1>4. {h \in G : condpc'[h] \in InWait} = {h \in G : condpc[h] \in InWait}
    BY <1>1, <1>3 DEF InWait
  <1>5. Span(notify', wait') = 0
    BY <1>1, SpanMoves DEF CondTypeOK, Ticket
  <1>6. Pending' = <<>>
    <2>1. Pending' = InOrder(Unnotified', ticket', notify', wait')
      BY DEF Pending, InOrder
    <2>2. 1..Span(notify', wait') = {}
      BY <1>5
    <2>3. DOMAIN Pending' = {}
      BY <2>1, <2>2 DEF InOrder
    <2>4. Pending' = [i \in {} |-> Pending'[i]]
      BY <2>1, <2>2 DEF InOrder
    <2> QED
      BY <2>4
  <1> QED
    BY <1>4, <1>6 DEF Queue!Broadcast

(* Signal takes the first one of the queue.                                *)
LEMMA SignalTakes ==
  ASSUME CondInv, CondInv', NEW g \in G, NEW o \in Unnotified, notify # wait, SignalsTo(g, o)
  PROVE  Queue!Signal
  <1> DEFINE D == Span(notify, wait)
             q == Tail(Pending)
  <1>1. /\ CondTypeOK /\ UNCHANGED <<wait, ticket>>
        /\ condpc[g] = "notifyOne" /\ ticket[o] = notify /\ notify' = Following(notify)
        /\ \A h \in G : condpc'[h] = IF h = o /\ condpc[o] = "parked" THEN "relock"
                                     ELSE IF h # g THEN condpc[h] ELSE IF cL = g THEN "holding" ELSE "idle"
        /\ notified' = notified \cup {o}
    BY DEF CondInv, SignalsTo, Settle
  <1>2. {h \in G : condpc'[h] \in InWait} = {h \in G : condpc[h] \in InWait}
    BY <1>1 DEF InWait
  <1>3. Unnotified' = Unnotified \ {o}
    BY <1>1 DEF Unnotified, InWait
  <1>4. /\ wait \in Ticket /\ notify \in Ticket /\ notify' \in Ticket
        /\ \A h \in G : ticket[h] \in Ticket /\ ticket'[h] \in Ticket
    BY <1>1, SpanIs DEF CondTypeOK, Ticket
  <1>5. /\ D \in Nat /\ D > 0 /\ Span(notify', wait') = D - 1
        /\ \A h \in Unnotified : Span(ticket[h], wait) = D <=> ticket[h] = notify
    BY <1>1, NextTicket, FewOutstanding
  <1>6. /\ Pending \in Seq(G) /\ Len(Pending) = D
        /\ \A i \in 1..D : Pending[i] \in Unnotified /\ Span(ticket[Pending[i]], wait) = D - i + 1
    BY PendingIs
  <1>7. Pending # <<>>
    BY <1>5, <1>6
  <1>8. q \in Seq(G) /\ Len(q) = D - 1 /\ \A i \in 1..(D - 1) : q[i] = Pending[i + 1]
    BY <1>5, <1>6, <1>7, HeadTailProperties
  <1> HIDE DEF q
  <1>9. q \in Seq(G) /\ Len(q) = Span(notify', wait')
    BY <1>5, <1>8
  <1>10. ASSUME NEW i \in 1..(D - 1)
         PROVE  q[i] \in Unnotified' /\ Span(ticket'[q[i]], wait') = D - 1 - i + 1
    <2>1. i + 1 \in 1..D
      BY <1>5
    <2>2. Pending[i + 1] \in Unnotified /\ Span(ticket[Pending[i + 1]], wait) = D - (i + 1) + 1
      BY <1>6, <2>1
    <2>3. Pending[i + 1] # o
      <3>1. Span(ticket[o], wait) = D
        BY <1>1, <1>5
      <3> QED
        BY <1>5, <2>2, <3>1
    <2> QED
      BY <1>1, <1>3, <1>5, <1>8, <2>2, <2>3
  <1>11. \A h, k \in Unnotified' : ticket'[h] = ticket'[k] => h = k
    BY DEF CondInv, TicketsOutstanding
  <1>12. Unnotified' \subseteq G
    BY <1>3 DEF Unnotified
  <1>13. q = InOrder(Unnotified', ticket', notify', wait')
    <2>1. \A i \in 1..Span(notify', wait') :
            q[i] \in Unnotified' /\ Span(ticket'[q[i]], wait') = Span(notify', wait') - i + 1
      BY <1>5, <1>10
    <2>2. notify' \in Ticket /\ wait' \in Ticket /\ \A h \in Unnotified' : ticket'[h] \in Ticket
      BY <1>1, <1>4, <1>12
    <2> QED
      BY <1>9, <1>11, <2>1, <2>2, IsInOrder
  <1>14. Pending' = InOrder(Unnotified', ticket', notify', wait')
    BY DEF Pending, InOrder
  <1> QED
    BY <1>2, <1>7, <1>13, <1>14 DEF Queue!Signal, q

(* Wait returns only to those that have been woken.                        *)
LEMMA WaitLockReturns ==
  ASSUME CondInv, NEW g \in G, WaitLock(g)
  PROVE  Queue!Return(g)
  <1>1. /\ CondTypeOK /\ UNCHANGED <<wait, notify>>
        /\ condpc[g] = "relock" /\ condpc' = [condpc EXCEPT ![g] = "holding"]
        /\ ticket' = [ticket EXCEPT ![g] = 0] /\ notified' = notified \ {g}
    BY DEF CondInv, WaitLock, CondGoto
  <1>2. Unnotified' = Unnotified /\ g \notin Unnotified
    BY <1>1 DEF CondTypeOK, Unnotified, InWait
  <1>3. \A h \in Unnotified : ticket'[h] = ticket[h]
    BY <1>1, <1>2 DEF CondTypeOK, Unnotified
  <1>4. Pending' = Pending
    BY <1>1, <1>2, <1>3, PendingKept
  <1>5. \A i \in DOMAIN Pending : Pending[i] # g
    BY <1>2, PendingIs
  <1>6. {h \in G : condpc'[h] \in InWait} = {h \in G : condpc[h] \in InWait} \ {g}
    BY <1>1 DEF CondTypeOK, InWait
  <1>7. g \in {h \in G : condpc[h] \in InWait}
    BY <1>1 DEF InWait
  <1> QED
    BY <1>4, <1>5, <1>6, <1>7 DEF Queue!Return

(* Nothing else changes the queue or who is in Wait.                       *)
LEMMA OthersStutter ==
  ASSUME CondInv, NEW g \in G,
         \/ LockL(g) \/ UnlockL(g) \/ Call(g, "Signal") \/ Call(g, "Broadcast") \/ WaitUnlock(g)
         \/ notifyListWait(g) \/ LoadWait(g) \/ SomebodyNew(g)
         \/ condpc[g] \in Notifying /\ ReturnWith(g, {}) /\ Settle(g, {}) /\ UNCHANGED <<wait, notify, ticket>>
  PROVE  UNCHANGED Queue!vars
  <1>1. CondTypeOK
    BY DEF CondInv
  <1>2. UNCHANGED <<wait, notify, ticket, notified>>
    BY DEF LockL, UnlockL, Call, WaitUnlock, notifyListWait, LoadWait, SomebodyNew, Settle, notifier
  <1>3. /\ \A h \in G \ {g} : condpc'[h] = condpc[h]
        /\ \/ {condpc[g], condpc'[g]} \cap InWait = {}
           \/ condpc[g] = "unlockL" /\ condpc'[g] = "listWait"
           \/ condpc[g] = "listWait" /\ condpc'[g] = "parked"
           \/ condpc[g] = "listWait" /\ condpc'[g] = "relock" /\ g \in notified
    <2>1. CASE LockL(g) \/ UnlockL(g) \/ Call(g, "Signal") \/ Call(g, "Broadcast") \/ LoadWait(g) \/ SomebodyNew(g)
      BY <1>1, <2>1 DEF CondTypeOK, LockL, UnlockL, Call, LoadWait, SomebodyNew, CondGoto, InWait
    <2>2. CASE WaitUnlock(g)
      BY <1>1, <2>2 DEF CondTypeOK, WaitUnlock, CondGoto
    <2>3. CASE notifyListWait(g)
      <3>1. condpc[g] = "listWait" /\ \E to \in {"parked", "relock"} : condpc' = [condpc EXCEPT ![g] = to]
        BY <2>3 DEF notifyListWait, CondGoto
      <3>2. condpc'[g] = "relock" => less(ticket[g], notify)
        BY <1>1, <2>3 DEF notifyListWait, CondGoto, CondTypeOK
      <3> QED
        BY <1>1, <3>1, <3>2, LateIsNotified DEF CondTypeOK
    <2>4. CASE condpc[g] \in Notifying /\ ReturnWith(g, {})
      BY <1>1, <2>4 DEF ReturnWith, InWait, Notifying
    <2> QED
      BY <2>1, <2>2, <2>3, <2>4
  <1>4. Unnotified' = Unnotified
    BY <1>2, <1>3 DEF Unnotified, InWait
  <1>5. {h \in G : condpc'[h] \in InWait} = {h \in G : condpc[h] \in InWait}
    BY <1>3 DEF InWait
  <1>6. Pending' = Pending
    BY <1>2, <1>4, PendingKept
  <1> QED
    BY <1>5, <1>6 DEF Queue!vars

(* Cond implements NotifyList: a Signal wakes the goroutine that called    *)
(* Wait first, a Broadcast all, and Wait returns only to those woken.      *)
THEOREM TicketsAreAQueue ==
  ASSUME Timely
  PROVE  CondSpec => NotifyListSpec
  <1>1. CondInit => Queue!Init
    <2> SUFFICES ASSUME CondInit
                 PROVE  Queue!Init
      OBVIOUS
    <2>1. CondInv
      BY CondInitFits
    <2>2. {g \in G : condpc[g] \in InWait} = {} /\ notify = wait
      BY DEF CondInit, InWait
    <2>3. Span(notify, wait) = 0
      BY <2>1, <2>2, SpanMoves DEF CondInv, CondTypeOK, Ticket
    <2>4. Pending \in Seq(G) /\ Len(Pending) = 0
      BY <2>1, <2>3, PendingIs
    <2>5. Pending = <<>>
      BY <2>4, EmptySeq
    <2> QED
      BY <2>2, <2>5 DEF Queue!Init
  <1>2. ASSUME CondInv, CondInv', [CondNext]_condVars
        PROVE  [Queue!Next]_Queue!vars
    <2>1. CASE UNCHANGED condVars
      <3>1. UNCHANGED <<wait, notify, condpc, ticket, notified>>
        BY <2>1 DEF condVars
      <3>2. Unnotified' = Unnotified
        BY <3>1 DEF Unnotified
      <3> QED
        BY <3>1, <3>2, PendingKept DEF Queue!vars
    <2>2. ASSUME NEW g \in G, CondWait(g)
          PROVE  Queue!Next
      BY <1>2, <2>2, CondWaitJoins DEF Queue!Next
    <2>3. ASSUME NEW g \in G, WaitLock(g)
          PROVE  Queue!Next
      BY <1>2, <2>3, WaitLockReturns DEF Queue!Next
    <2>4. ASSUME NEW g \in G, notifyListNotifyAll(g)
          PROVE  Queue!Next
      BY <1>2, <2>4, NotifyAllEmpties DEF Queue!Next
    <2>5. ASSUME NEW g \in G, NobodyNew(g)
          PROVE  UNCHANGED Queue!vars
      BY <1>2, <2>5, OthersStutter DEF NobodyNew, Notifying
    <2>6. ASSUME NEW g \in G, notifyListNotifyOne(g)
          PROVE  [Queue!Next]_Queue!vars
      <3>1. condpc[g] \in Notifying
        BY <2>6 DEF notifyListNotifyOne, Notifying
      <3>2. CASE ReturnWith(g, {}) /\ Settle(g, {}) /\ UNCHANGED <<wait, notify, ticket>>
        BY <1>2, <3>1, <3>2, OthersStutter
      <3>3. ASSUME notify # wait, NEW o \in Unnotified, SignalsTo(g, o)
            PROVE  Queue!Next
        BY <1>2, <3>3, SignalTakes DEF Queue!Next
      <3> QED
        BY <1>2, <2>6, <3>2, <3>3, notifyListNotifyOneSignals
    <2>7. ASSUME NEW g \in G,
                 \/ LockL(g) \/ UnlockL(g) \/ Call(g, "Signal") \/ Call(g, "Broadcast") \/ WaitUnlock(g)
                 \/ notifyListWait(g) \/ LoadWait(g) \/ SomebodyNew(g)
          PROVE  UNCHANGED Queue!vars
      BY <1>2, <2>7, OthersStutter
    <2> QED
      BY <1>2, <2>1, <2>2, <2>3, <2>4, <2>5, <2>6, <2>7 DEF CondNext, CondWaitStep, NotifyStep
  <1> QED
    BY <1>1, <1>2, CondInvariance, PTL DEF CondSpec, NotifyListSpec, Queue!Spec

-----------------------------------------------------------------------------
(* RWMutex and WaitGroup: the assumptions and the places of their program  *)
(* counters are used throughout.                                            *)
USE MaxReadersAssumption, MaxTasksAssumption
    DEF ReaderPC, WriterPC, AddPC, WaitPC

(* RWMutex.  The counts that RWInv speaks of, by the places they count.    *)
Waiting == Count({"rwait"})
Reading == Count({"reading"})
Leaving == Count({"rUnlockSlow"})
Waking == Count({"releaseWriter"})
Blocked == Count({"wwait"})

(* What is true of the counts of any program counter.                      *)
LEMMA CountFacts ==
  ASSUME NEW p
  PROVE  /\ At(G, p, {"rwait"}) \in Nat
         /\ At(G, p, {"reading"}) \in Nat
         /\ At(G, p, {"rUnlockSlow"}) \in Nat
         /\ At(G, p, {"releaseWriter"}) \in Nat
         /\ At(G, p, {"wwait"}) \in Nat
         /\ At(G, p, {"rwait", "reading"}) = At(G, p, {"rwait"}) + At(G, p, {"reading"})
         /\ At(G, p, {"reading", "rUnlockSlow"}) = At(G, p, {"reading"}) + At(G, p, {"rUnlockSlow"})
         /\ At(G, p, {"rwait", "reading"}) < MaxReaders
         /\ \A g \in G : p[g] \notin {"rwait", "reading"} => At(G, p, {"rwait", "reading"}) + 1 < MaxReaders
         /\ \A g \in G : p[g] = "rwait" => At(G, p, {"rwait"}) > 0
         /\ \A g \in G : p[g] = "reading" => At(G, p, {"reading"}) > 0
         /\ \A g \in G : p[g] = "rUnlockSlow" => At(G, p, {"rUnlockSlow"}) > 0
         /\ \A g \in G : p[g] = "releaseWriter" => At(G, p, {"releaseWriter"}) > 0
         /\ (\A g \in G : p[g] # "wwait") => At(G, p, {"wwait"}) = 0
         /\ \A g \in G : p[g] = "wwait" /\ (\A h \in G : p[h] = "wwait" => h = g) => At(G, p, {"wwait"}) = 1
  <1>1. \A L : /\ At(G, p, L) \in Nat
               /\ Cardinality(G) \in Nat
               /\ At(G, p, L) <= Cardinality(G)
               /\ At(G, p, L) = 0 <=> \A x \in G : p[x] \notin L
               /\ \A x \in G : p[x] \notin L => At(G, p, L) < Cardinality(G)
               /\ \A x \in G : p[x] \in L => At(G, p, L) > 0
    BY AtIsNat
  <1>2. \A L, M : L \cap M = {} => At(G, p, L \cup M) = At(G, p, L) + At(G, p, M)
    BY AtDisjoint
  <1>3. At(G, p, {"rwait"} \cup {"reading"}) = At(G, p, {"rwait"}) + At(G, p, {"reading"})
    BY <1>2
  <1>4. At(G, p, {"reading"} \cup {"rUnlockSlow"}) = At(G, p, {"reading"}) + At(G, p, {"rUnlockSlow"})
    BY <1>2
  <1>5. /\ {"rwait"} \cup {"reading"} = {"rwait", "reading"}
        /\ {"reading"} \cup {"rUnlockSlow"} = {"reading", "rUnlockSlow"}
    OBVIOUS
  <1>6. ASSUME NEW g \in G, p[g] = "wwait", \A h \in G : p[h] = "wwait" => h = g
        PROVE  At(G, p, {"wwait"}) = 1
    BY <1>6, AtOnly
  <1>7. \A L : At(G, p, L) < MaxReaders
    BY <1>1
  <1>8. ASSUME NEW g \in G, p[g] \notin {"rwait", "reading"}
        PROVE  At(G, p, {"rwait", "reading"}) + 1 < MaxReaders
    BY <1>1, <1>8
  <1> QED
    BY <1>1, <1>3, <1>4, <1>6

(* The counts of a state, as RWInv has them.                               *)
CountsOK ==
  /\ Waiting \in Nat /\ Reading \in Nat /\ Leaving \in Nat /\ Waking \in Nat /\ Blocked \in Nat
  /\ Count({"rwait", "reading"}) = Waiting + Reading
  /\ Count({"reading", "rUnlockSlow"}) = Reading + Leaving
  /\ Waiting + Reading < MaxReaders
  /\ \A g \in G : pc[g] \notin {"rwait", "reading"} => Waiting + Reading + 1 < MaxReaders
  /\ \A g \in G : pc[g] = "rwait" => Waiting > 0
  /\ \A g \in G : pc[g] = "reading" => Reading > 0
  /\ \A g \in G : pc[g] = "rUnlockSlow" => Leaving > 0
  /\ \A g \in G : pc[g] = "releaseWriter" => Waking > 0
  /\ (\A g \in G : pc[g] # "wwait") => Blocked = 0
  /\ \A g \in G : pc[g] = "wwait" /\ (\A h \in G : pc[h] = "wwait" => h = g) => Blocked = 1

(* CountsOK is true of every state, and so of the next one.                *)
LEMMA CountsAreOK == CountsOK /\ CountsOK'
  <1>1. CountsOK
    BY CountFacts DEF CountsOK, Waiting, Reading, Leaving, Waking, Blocked, Count, At
  <1>2. CountsOK'
    BY CountFacts DEF CountsOK, Waiting, Reading, Leaving, Waking, Blocked, Count, At
  <1> QED
    BY <1>1, <1>2

(* A goroutine that goes from one place to another moves from one count to *)
(* another.                                                                *)
LEMMA CountsMove ==
  ASSUME TypeOK, NEW g \in G, NEW from, NEW to, Goto(g, from, to)
  PROVE  /\ Waiting \in Nat /\ Reading \in Nat /\ Leaving \in Nat /\ Waking \in Nat /\ Blocked \in Nat
         /\ Waiting' = Waiting + (IF to = "rwait" THEN 1 ELSE 0) - (IF from = "rwait" THEN 1 ELSE 0)
         /\ Reading' = Reading + (IF to = "reading" THEN 1 ELSE 0) - (IF from = "reading" THEN 1 ELSE 0)
         /\ Leaving' = Leaving + (IF to = "rUnlockSlow" THEN 1 ELSE 0)
                              - (IF from = "rUnlockSlow" THEN 1 ELSE 0)
         /\ Waking' = Waking + (IF to = "releaseWriter" THEN 1 ELSE 0)
                            - (IF from = "releaseWriter" THEN 1 ELSE 0)
         /\ Blocked' = Blocked + (IF to = "wwait" THEN 1 ELSE 0) - (IF from = "wwait" THEN 1 ELSE 0)
  <1>1. OthersStay(G, pc, pc', g) /\ pc[g] = from /\ pc'[g] = to
    BY DEF TypeOK, OthersStay, Goto
  <1>2. \A p, q, L : OthersStay(G, p, q, g) => At(G, q, L) = At(G, p, L) + In(q[g], L) - In(p[g], L)
    BY AtMove
  <1>3. \A L : At(G, pc', L) = At(G, pc, L) + In(pc'[g], L) - In(pc[g], L)
    BY <1>1, <1>2
  <1>4. \A l : At(G, pc', {l}) = At(G, pc, {l}) + (IF to = l THEN 1 ELSE 0) - (IF from = l THEN 1 ELSE 0)
    BY <1>1, <1>3 DEF In
  <1>5. Waiting \in Nat /\ Reading \in Nat /\ Leaving \in Nat /\ Waking \in Nat /\ Blocked \in Nat
    BY CountsAreOK DEF CountsOK
  <1> QED
    BY <1>4, <1>5 DEF Waiting, Reading, Leaving, Waking, Blocked, Count, At

-----------------------------------------------------------------------------
(* Every action preserves RWInv.                                           *)

(* A reader reads, or waits for the pending writer.                        *)
LEMMA RLockRWInv ==
  ASSUME NEW g \in G, RWInv, RLock(g)
  PROVE  RWInv'
  <1>1. CountsOK /\ CountsOK'
    BY CountsAreOK
  <1>2. TypeOK
    BY DEF RWInv
  <1>3. Announced <=> readerCount + 1 < 0
    BY <1>1 DEF RWInv, ReadersCounted, CountsOK, RLock, Goto
  <1>4. CASE Announced
    <2>1. Goto(g, "idle", "rwait")
      BY <1>3, <1>4 DEF RLock
    <2>2. Waiting' = Waiting + 1 /\ UNCHANGED <<Reading, Leaving, Waking, Blocked>>
      BY <1>2, <2>1, CountsMove
    <2>3. TypeOK'
      BY DEF TypeOK, RLock, Goto, sems, RWInv
    <2>4. NoThrow'
      BY <2>1 DEF NoThrow, Goto, RWInv
    <2>5. OneWriter'
      BY DEF OneWriter, RLock, Goto, RWInv
    <2>6. Announced'
      BY <1>4, <2>1 DEF Announced, Goto
    <2>7. ReadersCounted'
      BY <1>1, <1>4, <2>2, <2>6 DEF ReadersCounted, CountsOK, TypeOK, Waiting, RLock, sems, RWInv
    <2>8. DepartingCounted'
      BY <1>1, <1>4, <2>2, <2>6 DEF DepartingCounted, CountsOK, Waking, Blocked, RLock, Goto, sems, RWInv
    <2> QED
      BY <2>3, <2>4, <2>5, <2>7, <2>8 DEF RWInv
  <1>5. CASE ~Announced
    <2>1. Goto(g, "idle", "reading")
      BY <1>3, <1>5 DEF RLock
    <2>2. Reading' = Reading + 1 /\ UNCHANGED <<Waiting, Leaving, Waking, Blocked>>
      BY <1>2, <2>1, CountsMove
    <2>3. TypeOK'
      BY DEF TypeOK, RLock, Goto, sems, RWInv
    <2>4. NoThrow'
      BY <2>1 DEF NoThrow, Goto, RWInv
    <2>5. OneWriter'
      BY DEF OneWriter, RLock, Goto, RWInv
    <2>6. ~Announced'
      BY <1>5, <2>1 DEF Announced, Goto
    <2>7. ReadersCounted'
      BY <1>1, <1>5, <2>2, <2>6 DEF ReadersCounted, CountsOK, Waiting, RLock, Goto, sems, RWInv
    <2>8. DepartingCounted'
      BY <1>5, <2>2, <2>6 DEF DepartingCounted, Leaving, Waking, Blocked, RLock, sems, RWInv
    <2> QED
      BY <2>3, <2>4, <2>5, <2>7, <2>8 DEF RWInv
  <1> QED
    BY <1>4, <1>5

(* A woken reader takes a token that was released for a reader.            *)
LEMMA RLockAwakeRWInv ==
  ASSUME NEW g \in G, RWInv, RLockAwake(g)
  PROVE  RWInv'
  <1>1. CountsOK /\ CountsOK'
    BY CountsAreOK
  <1>2. TypeOK
    BY DEF RWInv
  <1>3. CASE Announced
    <2>1. Goto(g, "rwait", "reading")
      BY DEF RLockAwake
    <2>2. Reading' = Reading + 1 /\ Waiting' = Waiting - 1 /\ UNCHANGED <<Leaving, Waking, Blocked>>
      BY <1>2, <2>1, CountsMove
    <2>3. TypeOK'
      BY DEF TypeOK, RLockAwake, Goto, RWInv
    <2>4. NoThrow'
      BY <2>1 DEF NoThrow, Goto, RWInv
    <2>5. OneWriter'
      BY DEF OneWriter, RLockAwake, Goto, RWInv
    <2>6. Announced'
      BY <1>3, <2>1 DEF Announced, Goto
    <2>7. ReadersCounted'
      BY <1>1, <1>3, <2>2, <2>6 DEF ReadersCounted, CountsOK, TypeOK, Waiting, RLockAwake, RWInv
    <2>8. DepartingCounted'
      BY <1>1, <1>3, <2>2, <2>6
         DEF DepartingCounted, CountsOK, TypeOK, Waking, Blocked, RLockAwake, Goto, RWInv
    <2> QED
      BY <2>3, <2>4, <2>5, <2>7, <2>8 DEF RWInv
  <1>4. CASE ~Announced
    <2>1. Goto(g, "rwait", "reading")
      BY DEF RLockAwake
    <2>2. Reading' = Reading + 1 /\ Waiting' = Waiting - 1 /\ UNCHANGED <<Leaving, Waking, Blocked>>
      BY <1>2, <2>1, CountsMove
    <2>3. TypeOK'
      BY DEF TypeOK, RLockAwake, Goto, RWInv
    <2>4. NoThrow'
      BY <2>1 DEF NoThrow, Goto, RWInv
    <2>5. OneWriter'
      BY DEF OneWriter, RLockAwake, Goto, RWInv
    <2>6. ~Announced'
      BY <1>4, <2>1 DEF Announced, Goto
    <2>7. ReadersCounted'
      BY <1>1, <1>4, <2>2, <2>6 DEF ReadersCounted, CountsOK, TypeOK, Waiting, RLockAwake, Goto, RWInv
    <2>8. DepartingCounted'
      BY <1>4, <2>2, <2>6 DEF DepartingCounted, Leaving, Waking, Blocked, RLockAwake, RWInv
    <2> QED
      BY <2>3, <2>4, <2>5, <2>7, <2>8 DEF RWInv
  <1> QED
    BY <1>3, <1>4

(* Where RUnlock leads, by the new count.                                  *)
LEMMA RUnlockGoes ==
  ASSUME NEW g \in G, readerCount \in Int, RUnlock(g)
  PROVE  /\ readerCount - 1 >= 0 => Goto(g, "reading", "idle")
         /\ readerCount - 1 < 0 /\ ~NobodyReads(readerCount - 1) => Goto(g, "reading", "rUnlockSlow")
  <1>1. ASSUME readerCount - 1 >= 0
        PROVE  Goto(g, "reading", "idle")
    BY <1>1 DEF RUnlock
  <1>2. ASSUME readerCount - 1 < 0, ~NobodyReads(readerCount - 1)
        PROVE  Goto(g, "reading", "rUnlockSlow")
    BY <1>2 DEF RUnlock
  <1> QED
    BY <1>1, <1>2

(* A reader leaves for good, or has a writer to tell.                      *)
LEMMA RUnlockRWInv ==
  ASSUME NEW g \in G, RWInv, RUnlock(g)
  PROVE  RWInv'
  <1>1. CountsOK /\ CountsOK'
    BY CountsAreOK
  <1>2. TypeOK
    BY DEF RWInv
  <1>3. /\ Announced => readerCount - 1 < 0 /\ ~NobodyReads(readerCount - 1)
        /\ ~Announced => readerCount - 1 >= 0
    BY <1>1 DEF RWInv, ReadersCounted, CountsOK, RUnlock, Goto, NobodyReads
  <1>4. CASE Announced
    <2>1. Goto(g, "reading", "rUnlockSlow")
      BY <1>2, <1>3, <1>4, RUnlockGoes DEF TypeOK
    <2>2. Leaving' = Leaving + 1 /\ Reading' = Reading - 1 /\ UNCHANGED <<Waiting, Waking, Blocked>>
      BY <1>2, <2>1, CountsMove
    <2>3. TypeOK'
      BY DEF TypeOK, RUnlock, Goto, sems, RWInv
    <2>4. NoThrow'
      BY <2>1 DEF NoThrow, Goto, RWInv
    <2>5. OneWriter'
      BY DEF OneWriter, RUnlock, Goto, RWInv
    <2>6. Announced'
      BY <1>4, <2>1 DEF Announced, Goto
    <2>7. ReadersCounted'
      BY <1>1, <1>4, <2>2, <2>6 DEF ReadersCounted, CountsOK, Waiting, RUnlock, sems, RWInv
    <2>8. DepartingCounted'
      BY <1>1, <1>4, <2>2, <2>6 DEF DepartingCounted, CountsOK, Waking, Blocked, RUnlock, Goto, sems, RWInv
    <2> QED
      BY <2>3, <2>4, <2>5, <2>7, <2>8 DEF RWInv
  <1>5. CASE ~Announced
    <2>1. Goto(g, "reading", "idle")
      BY <1>2, <1>3, <1>5, RUnlockGoes DEF TypeOK
    <2>2. Reading' = Reading - 1 /\ UNCHANGED <<Waiting, Leaving, Waking, Blocked>>
      BY <1>2, <2>1, CountsMove
    <2>3. TypeOK'
      BY DEF TypeOK, RUnlock, Goto, sems, RWInv
    <2>4. NoThrow'
      BY <2>1 DEF NoThrow, Goto, RWInv
    <2>5. OneWriter'
      BY DEF OneWriter, RUnlock, Goto, RWInv
    <2>6. ~Announced'
      BY <1>5, <2>1 DEF Announced, Goto
    <2>7. ReadersCounted'
      BY <1>1, <1>5, <2>2, <2>6 DEF ReadersCounted, CountsOK, Waiting, RUnlock, Goto, sems, RWInv
    <2>8. DepartingCounted'
      BY <1>5, <2>2, <2>6 DEF DepartingCounted, Leaving, Waking, Blocked, RUnlock, sems, RWInv
    <2> QED
      BY <2>3, <2>4, <2>5, <2>7, <2>8 DEF RWInv
  <1> QED
    BY <1>4, <1>5

(* The last of the readers that a writer waits for goes on to wake it.     *)
LEMMA RUnlockSlowRWInv ==
  ASSUME NEW g \in G, RWInv, RUnlockSlow(g)
  PROVE  RWInv'
  <1>1. CountsOK /\ CountsOK'
    BY CountsAreOK
  <1>2. TypeOK
    BY DEF RWInv
  <1>3. Announced
    BY <1>1 DEF RWInv, DepartingCounted, CountsOK, RUnlockSlow, Goto, Leaving
  <1>4. readerWait \in Int /\ (\A h \in G : pc[h] # "writing")
    BY <1>1, <1>3 DEF RWInv, TypeOK, DepartingCounted, OneWriter, CountsOK, RUnlockSlow, Goto
  <1>5. readerWait = 1 => Blocked = 1 /\ writerSem + Waking = 0
    BY <1>1 DEF RWInv, Announced, OneWriter, DepartingCounted, CountsOK, Waking
  <1>6. CASE readerWait = 1
    <2>1. Goto(g, "rUnlockSlow", "releaseWriter")
      BY <1>6 DEF RUnlockSlow
    <2>2. Waking' = Waking + 1 /\ Leaving' = Leaving - 1 /\ UNCHANGED <<Waiting, Reading, Blocked>>
      BY <1>2, <2>1, CountsMove
    <2>3. TypeOK'
      BY DEF TypeOK, RUnlockSlow, Goto, sems, RWInv
    <2>4. NoThrow'
      BY <2>1 DEF NoThrow, Goto, RWInv
    <2>5. OneWriter'
      BY <1>6 DEF OneWriter, RUnlockSlow, Goto, RWInv
    <2>6. Announced'
      BY <1>3, <2>1 DEF Announced, Goto
    <2>7. ReadersCounted'
      BY <1>1, <1>3, <2>2, <2>6 DEF ReadersCounted, CountsOK, Waiting, RUnlockSlow, sems, RWInv
    <2>8. DepartingCounted'
      <3>1. readerWait' = 0 /\ writerSem' = writerSem /\ readerSem' = readerSem /\ r' = r
        BY <1>6 DEF RUnlockSlow, sems
      <3>2. \A h \in G : pc[h] # "addWait"
        BY <1>6 DEF RWInv, OneWriter
      <3>3. \A h \in G : pc'[h] # "addWait"
        BY <2>1, <3>2 DEF Goto
      <3>4. readerWait = Reading + Leaving + readerSem
        BY <1>1, <1>3, <3>2 DEF RWInv, DepartingCounted, CountsOK, TypeOK
      <3>5. writerSem' + Waking' = 1 /\ Blocked' = 1
        BY <1>1, <1>2, <1>5, <1>6, <2>2, <3>1 DEF TypeOK, CountsOK
      <3>6. 0 = Reading' + Leaving' + readerSem'
        BY <1>1, <1>2, <1>6, <2>2, <3>1, <3>4 DEF TypeOK, CountsOK
      <3> QED
        BY <1>1, <2>6, <3>1, <3>3, <3>5, <3>6 DEF DepartingCounted, CountsOK, Waking, Blocked
    <2> QED
      BY <2>3, <2>4, <2>5, <2>7, <2>8 DEF RWInv
  <1>7. CASE readerWait # 1
    <2>1. Goto(g, "rUnlockSlow", "idle")
      BY <1>7 DEF RUnlockSlow
    <2>2. Leaving' = Leaving - 1 /\ UNCHANGED <<Waiting, Reading, Waking, Blocked>>
      BY <1>2, <2>1, CountsMove
    <2>3. TypeOK'
      BY DEF TypeOK, RUnlockSlow, Goto, sems, RWInv
    <2>4. NoThrow'
      BY <2>1 DEF NoThrow, Goto, RWInv
    <2>5. OneWriter'
      BY <1>4 DEF OneWriter, RUnlockSlow, Goto, RWInv
    <2>6. Announced'
      BY <1>3, <2>1 DEF Announced, Goto
    <2>7. ReadersCounted'
      BY <1>1, <1>3, <2>2, <2>6 DEF ReadersCounted, CountsOK, Waiting, RUnlockSlow, sems, RWInv
    <2>8. DepartingCounted'
      BY <1>1, <1>3, <2>2, <2>6
         DEF DepartingCounted, CountsOK, TypeOK, Waking, Blocked, OneWriter, RUnlockSlow, Goto, sems, RWInv
    <2> QED
      BY <2>3, <2>4, <2>5, <2>7, <2>8 DEF RWInv
  <1> QED
    BY <1>6, <1>7

(* The wake-up of the writer changes hands.                                *)
LEMMA ReleaseWriterRWInv ==
  ASSUME NEW g \in G, RWInv, ReleaseWriter(g)
  PROVE  RWInv'
  <1>1. CountsOK /\ CountsOK'
    BY CountsAreOK
  <1>2. TypeOK
    BY DEF RWInv
  <1>3. CASE Announced
    <2>1. Goto(g, "releaseWriter", "idle")
      BY DEF ReleaseWriter
    <2>2. Waking' = Waking - 1 /\ UNCHANGED <<Waiting, Reading, Leaving, Blocked>>
      BY <1>2, <2>1, CountsMove
    <2>3. TypeOK'
      BY DEF TypeOK, ReleaseWriter, Goto, RWInv
    <2>4. NoThrow'
      BY <2>1 DEF NoThrow, Goto, RWInv
    <2>5. OneWriter'
      BY DEF OneWriter, ReleaseWriter, Goto, RWInv
    <2>6. Announced'
      BY <1>3, <2>1 DEF Announced, Goto
    <2>7. ReadersCounted'
      BY <1>1, <1>3, <2>2, <2>6 DEF ReadersCounted, CountsOK, Waiting, ReleaseWriter, RWInv
    <2>8. DepartingCounted'
      BY <1>1, <1>3, <2>2, <2>6
         DEF DepartingCounted, CountsOK, TypeOK, Waking, Blocked, ReleaseWriter, Goto, RWInv
    <2> QED
      BY <2>3, <2>4, <2>5, <2>7, <2>8 DEF RWInv
  <1>4. CASE ~Announced
    <2>1. Goto(g, "releaseWriter", "idle")
      BY DEF ReleaseWriter
    <2>2. Waking' = Waking - 1 /\ UNCHANGED <<Waiting, Reading, Leaving, Blocked>>
      BY <1>2, <2>1, CountsMove
    <2>3. TypeOK'
      BY DEF TypeOK, ReleaseWriter, Goto, RWInv
    <2>4. NoThrow'
      BY <2>1 DEF NoThrow, Goto, RWInv
    <2>5. OneWriter'
      BY DEF OneWriter, ReleaseWriter, Goto, RWInv
    <2>6. ~Announced'
      BY <1>4, <2>1 DEF Announced, Goto
    <2>7. ReadersCounted'
      BY <1>1, <1>4, <2>2, <2>6 DEF ReadersCounted, CountsOK, Waiting, ReleaseWriter, Goto, RWInv
    <2>8. DepartingCounted'
      BY <1>1, <1>4, <2>2, <2>6
         DEF DepartingCounted, CountsOK, TypeOK, Leaving, Waking, Blocked, ReleaseWriter, RWInv
    <2> QED
      BY <2>3, <2>4, <2>5, <2>7, <2>8 DEF RWInv
  <1> QED
    BY <1>3, <1>4

(* A goroutine becomes the one writer.                                     *)
LEMMA LockRWInv ==
  ASSUME NEW g \in G, RWInv, Lock(g)
  PROVE  RWInv'
  <1>1. CountsOK /\ CountsOK'
    BY CountsAreOK
  <1>2. TypeOK
    BY DEF RWInv
  <1>3. ~Announced
    BY DEF RWInv, Announced, OneWriter, Lock
  <1> QED
    <2>1. Goto(g, "idle", "announce")
      BY DEF Lock
    <2>2. UNCHANGED <<Waiting, Reading, Leaving, Waking, Blocked>>
      BY <1>2, <2>1, CountsMove
    <2>3. TypeOK'
      BY DEF TypeOK, Lock, Goto, sems, RWInv
    <2>4. NoThrow'
      BY <2>1 DEF NoThrow, Goto, RWInv
    <2>5. OneWriter'
      BY DEF OneWriter, TypeOK, Lock, Goto, RWInv
    <2>6. ~Announced'
      BY <1>3, <2>1 DEF Announced, Goto
    <2>7. ReadersCounted'
      BY <1>1, <1>3, <2>2, <2>6 DEF ReadersCounted, CountsOK, Waiting, Lock, Goto, sems, RWInv
    <2>8. DepartingCounted'
      BY <1>3, <2>2, <2>6 DEF DepartingCounted, Leaving, Waking, Blocked, Lock, sems, RWInv
    <2> QED
      BY <2>3, <2>4, <2>5, <2>7, <2>8 DEF RWInv

(* The writer learns for how many readers it has to wait.                  *)
LEMMA AnnounceRWInv ==
  ASSUME NEW g \in G, RWInv, Announce(g)
  PROVE  RWInv'
  <1>1. CountsOK /\ CountsOK'
    BY CountsAreOK
  <1>2. TypeOK
    BY DEF RWInv
  <1>3. ~Announced /\ (\A h \in G : pc[h] \notin {"addWait", "releaseReaders", "wwait"})
    BY DEF RWInv, Announced, OneWriter, Announce, Goto
  <1>4. /\ readerCount = Waiting + Reading /\ readerSem = Waiting /\ r = 0 /\ Blocked = 0
        /\ readerWait = 0 /\ Leaving = 0 /\ writerSem = 0 /\ Waking = 0
    BY <1>1, <1>3
       DEF RWInv, OneWriter, ReadersCounted, DepartingCounted, CountsOK, TypeOK, Waiting, Leaving, Waking,
           Blocked
  <1>5. /\ readerCount \in Nat /\ r' = readerCount /\ readerCount' = readerCount - MaxReaders
        /\ readerSem' = readerSem /\ readerWait' = readerWait /\ writerSem' = writerSem
    BY <1>1, <1>4 DEF CountsOK, Announce, sems
  <1>6. CASE readerCount = 0
    <2>1. Goto(g, "announce", "writing")
      BY <1>6 DEF Announce
    <2>2. UNCHANGED <<Waiting, Reading, Leaving, Waking, Blocked>>
      BY <1>2, <2>1, CountsMove
    <2>3. TypeOK'
      BY <1>2, <1>5 DEF TypeOK, Announce, Goto
    <2>4. NoThrow'
      BY <2>1 DEF NoThrow, Goto, RWInv
    <2>5. OneWriter'
      BY <1>4, <1>6 DEF OneWriter, Announce, Goto, RWInv
    <2>6. Announced'
      BY <1>2, <2>1 DEF Announced, TypeOK, Goto
    <2>7. ReadersCounted'
      BY <1>1, <1>4, <1>5, <2>2, <2>6 DEF ReadersCounted, CountsOK, Waiting
    <2>8. DepartingCounted'
      <3>1. \A h \in G : pc'[h] # "addWait"
        BY <1>3, <2>1 DEF Goto
      <3> QED
        BY <1>1, <1>4, <1>5, <1>6, <2>2, <2>6 DEF DepartingCounted, CountsOK, Waking, Blocked
    <2> QED
      BY <2>3, <2>4, <2>5, <2>7, <2>8 DEF RWInv
  <1>7. CASE readerCount # 0
    <2>1. Goto(g, "announce", "addWait")
      BY <1>7 DEF Announce
    <2>2. UNCHANGED <<Waiting, Reading, Leaving, Waking, Blocked>>
      BY <1>2, <2>1, CountsMove
    <2>3. TypeOK'
      BY <1>2, <1>5 DEF TypeOK, Announce, Goto
    <2>4. NoThrow'
      BY <2>1 DEF NoThrow, Goto, RWInv
    <2>5. OneWriter'
      BY <1>4, <1>5 DEF OneWriter, TypeOK, Announce, Goto, RWInv
    <2>6. Announced'
      BY <1>2, <2>1 DEF Announced, TypeOK, Goto
    <2>7. ReadersCounted'
      BY <1>1, <1>4, <1>5, <2>2, <2>6 DEF ReadersCounted, CountsOK, Waiting
    <2>8. DepartingCounted'
      <3>1. \E h \in G : pc'[h] = "addWait"
        BY <1>2, <2>1 DEF TypeOK, Goto
      <3> QED
        BY <1>1, <1>4, <1>5, <2>2, <2>6, <3>1 DEF DepartingCounted, CountsOK, Waking, Blocked
    <2> QED
      BY <2>3, <2>4, <2>5, <2>7, <2>8 DEF RWInv
  <1> QED
    BY <1>6, <1>7

(* The writer accounts for the readers that have left in the meantime.     *)
LEMMA AddWaitRWInv ==
  ASSUME NEW g \in G, RWInv, AddWait(g)
  PROVE  RWInv'
  <1>1. CountsOK /\ CountsOK'
    BY CountsAreOK
  <1>2. TypeOK
    BY DEF RWInv
  <1>3. Announced /\ (\A h \in G : pc[h] \notin {"releaseReaders", "wwait", "writing"})
    BY DEF RWInv, Announced, OneWriter, AddWait, Goto
  <1>4. CASE readerWait + r = 0
    <2>1. Goto(g, "addWait", "writing")
      BY <1>4 DEF AddWait
    <2>2. UNCHANGED <<Waiting, Reading, Leaving, Waking, Blocked>>
      BY <1>2, <2>1, CountsMove
    <2>3. TypeOK'
      BY DEF TypeOK, AddWait, Goto, sems, RWInv
    <2>4. NoThrow'
      BY <2>1 DEF NoThrow, Goto, RWInv
    <2>5. OneWriter'
      BY DEF OneWriter, TypeOK, AddWait, Goto, RWInv
    <2>6. Announced'
      BY <2>1 DEF Announced, Goto
    <2>7. ReadersCounted'
      BY <1>1, <1>3, <2>2, <2>6 DEF ReadersCounted, CountsOK, Waiting, AddWait, sems, RWInv
    <2>8. DepartingCounted'
      BY <1>1, <1>3, <2>2, <2>6 DEF DepartingCounted, CountsOK, Waking, Blocked, AddWait, Goto, sems, RWInv
    <2> QED
      BY <2>3, <2>4, <2>5, <2>7, <2>8 DEF RWInv
  <1>5. CASE readerWait + r # 0
    <2>1. Goto(g, "addWait", "wwait")
      BY <1>5 DEF AddWait
    <2>2. Blocked' = Blocked + 1 /\ UNCHANGED <<Waiting, Reading, Leaving, Waking>>
      BY <1>2, <2>1, CountsMove
    <2>3. TypeOK'
      BY DEF TypeOK, AddWait, Goto, sems, RWInv
    <2>4. NoThrow'
      BY <2>1 DEF NoThrow, Goto, RWInv
    <2>5. OneWriter'
      BY DEF OneWriter, TypeOK, AddWait, Goto, RWInv
    <2>6. Announced'
      BY <2>1 DEF Announced, Goto
    <2>7. ReadersCounted'
      BY <1>1, <1>3, <2>2, <2>6 DEF ReadersCounted, CountsOK, Waiting, AddWait, sems, RWInv
    <2>8. DepartingCounted'
      BY <1>1, <1>3, <2>2, <2>6 DEF DepartingCounted, CountsOK, Waking, Blocked, AddWait, Goto, sems, RWInv
    <2> QED
      BY <2>3, <2>4, <2>5, <2>7, <2>8 DEF RWInv
  <1> QED
    BY <1>4, <1>5

(* The writer takes the token of the last reader.                          *)
LEMMA LockAwakeRWInv ==
  ASSUME NEW g \in G, RWInv, LockAwake(g)
  PROVE  RWInv'
  <1>1. CountsOK /\ CountsOK'
    BY CountsAreOK
  <1>2. TypeOK
    BY DEF RWInv
  <1>3. Announced /\ readerWait = 0
    BY <1>1 DEF RWInv, Announced, LockAwake, DepartingCounted, CountsOK, TypeOK, Waking, Blocked
  <1> QED
    <2>1. Goto(g, "wwait", "writing")
      BY DEF LockAwake
    <2>2. Blocked' = Blocked - 1 /\ UNCHANGED <<Waiting, Reading, Leaving, Waking>>
      BY <1>2, <2>1, CountsMove
    <2>3. TypeOK'
      BY DEF TypeOK, LockAwake, Goto, RWInv
    <2>4. NoThrow'
      BY <2>1 DEF NoThrow, Goto, RWInv
    <2>5. OneWriter'
      BY <1>3 DEF OneWriter, LockAwake, Goto, RWInv
    <2>6. Announced'
      BY <2>1 DEF Announced, Goto
    <2>7. ReadersCounted'
      BY <1>1, <1>3, <2>2, <2>6 DEF ReadersCounted, CountsOK, Waiting, LockAwake, RWInv
    <2>8. DepartingCounted'
      BY <1>1, <1>3, <2>2, <2>6
         DEF DepartingCounted, CountsOK, TypeOK, Waking, Blocked, Waiting, LockAwake, Goto, RWInv
    <2> QED
      BY <2>3, <2>4, <2>5, <2>7, <2>8 DEF RWInv

(* The writer learns how many readers it has to release.                   *)
LEMMA UnlockRWInv ==
  ASSUME NEW g \in G, RWInv, Unlock(g)
  PROVE  RWInv'
  <1>1. CountsOK /\ CountsOK'
    BY CountsAreOK
  <1>2. TypeOK
    BY DEF RWInv
  <1>3. /\ Announced /\ readerWait = 0
        /\ \A h \in G : pc[h] \notin {"addWait", "releaseReaders", "wwait"}
    BY DEF RWInv, Announced, OneWriter, Unlock, Goto
  <1>4. readerCount + MaxReaders = Waiting /\ Reading = 0 /\ Leaving = 0 /\ readerSem = 0
    BY <1>1, <1>3 DEF RWInv, DepartingCounted, ReadersCounted, CountsOK, TypeOK
  <1>5. readerCount + MaxReaders < MaxReaders /\ readerCount + MaxReaders \in Nat
    BY <1>1, <1>4 DEF CountsOK
  <1> QED
    <2>1. Goto(g, "writing", "releaseReaders")
      BY <1>5 DEF Unlock
    <2>2. UNCHANGED <<Waiting, Reading, Leaving, Waking, Blocked>>
      BY <1>2, <2>1, CountsMove
    <2>3. TypeOK'
      BY <1>5 DEF TypeOK, Unlock, Goto, sems, RWInv
    <2>4. NoThrow'
      BY <2>1 DEF NoThrow, Goto, RWInv
    <2>5. OneWriter'
      BY <2>1 DEF OneWriter, TypeOK, Unlock, Goto, RWInv
    <2>6. ~Announced'
      BY <2>1 DEF Announced, OneWriter, TypeOK, Goto, RWInv
    <2>7. ReadersCounted'
      BY <1>1, <1>4, <2>2, <2>6 DEF ReadersCounted, CountsOK, Waiting, Announced, Unlock, Goto, sems
    <2>8. DepartingCounted'
      BY <1>3, <1>4, <2>2, <2>6 DEF DepartingCounted, Leaving, Waking, Blocked, Unlock, sems, RWInv
    <2> QED
      BY <2>3, <2>4, <2>5, <2>7, <2>8 DEF RWInv

(* The writer leaves when every waiting reader has a token.                *)
LEMMA UnlockWRWInv ==
  ASSUME NEW g \in G, RWInv, UnlockW(g)
  PROVE  RWInv'
  <1>1. CountsOK /\ CountsOK'
    BY CountsAreOK
  <1>2. TypeOK
    BY DEF RWInv
  <1>3. ~Announced /\ r = 0
    BY DEF RWInv, Announced, OneWriter, UnlockW, Goto
  <1> QED
    <2>1. Goto(g, "releaseReaders", "idle")
      BY DEF UnlockW
    <2>2. UNCHANGED <<Waiting, Reading, Leaving, Waking, Blocked>>
      BY <1>2, <2>1, CountsMove
    <2>3. TypeOK'
      BY DEF TypeOK, UnlockW, Goto, sems, RWInv
    <2>4. NoThrow'
      BY <2>1 DEF NoThrow, Goto, RWInv
    <2>5. OneWriter'
      BY DEF OneWriter, TypeOK, UnlockW, Goto, RWInv
    <2>6. ~Announced'
      BY <1>3, <2>1 DEF Announced, Goto
    <2>7. ReadersCounted'
      BY <1>1, <1>3, <2>2, <2>6 DEF ReadersCounted, CountsOK, Waiting, UnlockW, sems, RWInv
    <2>8. DepartingCounted'
      BY <1>3, <2>2, <2>6 DEF DepartingCounted, Leaving, Waking, Blocked, UnlockW, sems, RWInv
    <2> QED
      BY <2>3, <2>4, <2>5, <2>7, <2>8 DEF RWInv

(* A token for one of the waiting readers.                                 *)
LEMMA ReleaseReaderRWInv ==
  ASSUME NEW g \in G, RWInv, ReleaseReader(g)
  PROVE  RWInv'
  <1>1. CountsOK /\ CountsOK'
    BY CountsAreOK
  <1>2. TypeOK /\ pc' = pc /\ pc[g] = "releaseReaders"
    BY DEF RWInv, ReleaseReader
  <1>3. /\ ~Announced
        /\ \A h \in G : pc[h] \notin {"addWait", "wwait", "writing"}
    BY <1>2 DEF RWInv, Announced, OneWriter
  <1>4. UNCHANGED <<Waiting, Reading, Leaving, Waking, Blocked>> /\ ~Announced'
    BY <1>2, <1>3 DEF Waiting, Reading, Leaving, Waking, Blocked, Count, Announced
  <1>5. TypeOK'
    BY DEF RWInv, TypeOK, ReleaseReader
  <1>6. NoThrow' /\ OneWriter'
    BY DEF RWInv, NoThrow, OneWriter, ReleaseReader
  <1>7. ReadersCounted'
    BY <1>1, <1>3, <1>4 DEF RWInv, ReadersCounted, CountsOK, TypeOK, ReleaseReader, Waiting
  <1>8. DepartingCounted'
    BY <1>3, <1>4 DEF RWInv, DepartingCounted, ReleaseReader, Leaving, Waking, Blocked
  <1> QED
    BY <1>5, <1>6, <1>7, <1>8 DEF RWInv

-----------------------------------------------------------------------------
(* An unlocked RWMutex satisfies RWInv.                                    *)
LEMMA InitRWInv == Init => RWInv
  <1> SUFFICES ASSUME Init
               PROVE  RWInv
    OBVIOUS
  <1>1. TypeOK /\ NoThrow /\ OneWriter /\ ~Announced
    BY DEF Init, TypeOK, NoThrow, OneWriter, Announced
  <1>2. \A L : At(G, pc, L) = 0 <=> \A x \in G : pc[x] \notin L
    BY AtIsNat
  <1>3. \A L : "idle" \notin L => Count(L) = 0
    BY <1>2 DEF Init, Count, At
  <1>4. /\ Count({"rwait", "reading"}) = 0 /\ Count({"rwait"}) = 0 /\ Count({"rUnlockSlow"}) = 0
        /\ Count({"releaseWriter"}) = 0 /\ Count({"wwait"}) = 0
    BY <1>3
  <1>5. ReadersCounted
    BY <1>1, <1>4 DEF Init, ReadersCounted
  <1>6. DepartingCounted
    BY <1>1, <1>4 DEF Init, DepartingCounted
  <1> QED
    BY <1>1, <1>5, <1>6 DEF RWInv

(* A step that leaves the variables alone.                                 *)
LEMMA StutterRWInv == RWInv /\ UNCHANGED vars => RWInv'
  BY DEF vars, RWInv, TypeOK, NoThrow, OneWriter, ReadersCounted, DepartingCounted, Announced, Count

(* RWInv is inductive: whatever the goroutines do, readerCount, readerWait *)
(* and the two semaphores count what they are meant to count, and neither  *)
(* RUnlock nor Unlock throws.                                              *)
THEOREM RWInvariance == Spec => []RWInv
  <1>1. RWInv /\ [Next]_vars => RWInv'
    <2> SUFFICES ASSUME RWInv, [Next]_vars
                 PROVE  RWInv'
      OBVIOUS
    <2>1. CASE UNCHANGED vars
      BY <2>1, StutterRWInv
    <2>2. ASSUME NEW g \in G, RLock(g) \/ Lock(g)
          PROVE  RWInv'
      BY <2>2, RLockRWInv, LockRWInv
    <2>3. ASSUME NEW g \in G, ReaderStep(g)
          PROVE  RWInv'
      BY <2>3, RLockAwakeRWInv, RUnlockRWInv, RUnlockSlowRWInv, ReleaseWriterRWInv DEF ReaderStep
    <2>4. ASSUME NEW g \in G, WriterStep(g)
          PROVE  RWInv'
      BY <2>4, AnnounceRWInv, AddWaitRWInv, LockAwakeRWInv, UnlockRWInv, ReleaseReaderRWInv, UnlockWRWInv
         DEF WriterStep
    <2> QED
      BY <2>1, <2>2, <2>3, <2>4 DEF Next
  <1> QED
    BY <1>1, InitRWInv, PTL DEF Spec

(* A writer excludes readers and writers: one that is writing waits for    *)
(* nobody any more, so nobody reads and no reader has a token.             *)
THEOREM WritersExclude == Spec => []Exclusion
  <1>1. RWInv => Exclusion
    <2> SUFFICES ASSUME RWInv, NEW g \in G, NEW h \in G, pc[g] = "writing", pc[h] \in {"reading", "writing"}
                 PROVE  g = h
      BY DEF Exclusion
    <2>1. Announced /\ readerWait = 0 /\ w = g /\ (\A i \in G : pc[i] # "addWait")
      BY DEF RWInv, OneWriter, Announced
    <2>2. CountsOK
      BY CountsAreOK
    <2>3. Reading = 0
      BY <2>1, <2>2 DEF RWInv, TypeOK, DepartingCounted, CountsOK
    <2>4. pc[h] # "reading"
      BY <2>2, <2>3 DEF CountsOK
    <2> QED
      BY <2>1, <2>4 DEF RWInv, OneWriter
  <1> QED
    BY <1>1, RWInvariance, PTL

-----------------------------------------------------------------------------
(* sync.Once.  In the initial state nobody has the lock, and f has not     *)
(* been called.                                                            *)
LEMMA OnceInitInv == OnceInit => OnceInv
<1> SUFFICES ASSUME OnceInit PROVE OnceInv
  OBVIOUS
<1> USE DEF OnceInit
<1>1. OnceTypeOK
  BY DEF OnceTypeOK
<1>2. MutexHeld
  BY NoneAssumption DEF MutexHeld, Holding, InDo
<1>3. DoneAfterF
  BY DEF DoneAfterF, Running
<1> QED BY <1>1, <1>2, <1>3 DEF OnceInv

(* The fast path changes nothing that Do has done; it returns only if done *)
(* is set.                                                                 *)
LEMMA OnceDoInv ==
  ASSUME OnceInv, NEW g \in G, Do(g)
  PROVE  OnceInv'
<1> USE DEF OnceInv, Do, DoGoto
<1>1. OnceTypeOK'
  BY DEF OnceTypeOK, InDo
<1>2. MutexHeld'
  BY NoneAssumption DEF OnceTypeOK, MutexHeld, Holding, InDo
<1>3. DoneAfterF'
  BY NoneAssumption DEF OnceTypeOK, MutexHeld, DoneAfterF, Running, Holding, InDo
<1> QED BY <1>1, <1>2, <1>3

(* The lock is free, so nobody else is in the critical section.            *)
LEMMA OnceLockInv ==
  ASSUME OnceInv, NEW g \in G, DoLock(g)
  PROVE  OnceInv'
<1> USE DEF OnceInv, DoLock, DoGoto
<1>1. OnceTypeOK'
  BY DEF OnceTypeOK, InDo
<1>2. MutexHeld'
  BY NoneAssumption DEF OnceTypeOK, MutexHeld, Holding, InDo
<1>3. DoneAfterF'
  BY NoneAssumption DEF OnceTypeOK, MutexHeld, DoneAfterF, Running, Holding, InDo
<1> QED BY <1>1, <1>2, <1>3

(* f is called with the lock held and done not set: nobody has called it   *)
(* before.                                                                 *)
LEMMA OnceCheckInv ==
  ASSUME OnceInv, NEW g \in G, Check(g)
  PROVE  OnceInv'
<1> USE DEF OnceInv, Check, DoGoto
<1>1. OnceTypeOK'
  BY DEF OnceTypeOK, InDo
<1>2. MutexHeld'
  BY NoneAssumption DEF OnceTypeOK, MutexHeld, Holding, InDo
<1>3. DoneAfterF'
  BY NoneAssumption DEF OnceTypeOK, MutexHeld, DoneAfterF, Running, Holding, InDo
<1> QED BY <1>1, <1>2, <1>3

(* The end of f: only the goroutine with the lock is running it.           *)
LEMMA OnceEndFInv ==
  ASSUME OnceInv, NEW g \in G, EndF(g)
  PROVE  OnceInv'
<1> USE DEF OnceInv, EndF, DoGoto
<1>1. OnceTypeOK'
  BY DEF OnceTypeOK, InDo
<1>2. MutexHeld'
  BY NoneAssumption DEF OnceTypeOK, MutexHeld, Holding, InDo
<1>3. DoneAfterF'
  BY NoneAssumption DEF OnceTypeOK, MutexHeld, DoneAfterF, Running, Holding, InDo
<1> QED BY <1>1, <1>2, <1>3

(* The store follows the end of f.                                         *)
LEMMA OnceStoreInv ==
  ASSUME OnceInv, NEW g \in G, Store(g)
  PROVE  OnceInv'
<1> USE DEF OnceInv, Store, DoGoto
<1>1. OnceTypeOK'
  BY DEF OnceTypeOK, InDo
<1>2. MutexHeld'
  BY NoneAssumption DEF OnceTypeOK, MutexHeld, Holding, InDo
<1>3. DoneAfterF'
  BY NoneAssumption DEF OnceTypeOK, MutexHeld, DoneAfterF, Running, Holding, InDo
<1> QED BY <1>1, <1>2, <1>3

(* The goroutine that unlocks has seen done, or set it.                    *)
LEMMA OnceUnlockInv ==
  ASSUME OnceInv, NEW g \in G, DoUnlock(g)
  PROVE  OnceInv'
<1> USE DEF OnceInv, DoUnlock, DoGoto
<1>1. OnceTypeOK'
  BY DEF OnceTypeOK, InDo
<1>2. MutexHeld'
  BY NoneAssumption DEF OnceTypeOK, MutexHeld, Holding, InDo
<1>3. DoneAfterF'
  BY NoneAssumption DEF OnceTypeOK, MutexHeld, DoneAfterF, Running, Holding, InDo
<1> QED BY <1>1, <1>2, <1>3

(* A goroutine that goes on has left Do.                                   *)
LEMMA OnceGoOnInv ==
  ASSUME OnceInv, NEW g \in G, GoOn(g)
  PROVE  OnceInv'
<1> USE DEF OnceInv, GoOn, DoGoto
<1>1. OnceTypeOK'
  BY DEF OnceTypeOK, InDo
<1>2. MutexHeld'
  BY NoneAssumption DEF OnceTypeOK, MutexHeld, Holding, InDo
<1>3. DoneAfterF'
  BY NoneAssumption DEF OnceTypeOK, MutexHeld, DoneAfterF, Running, Holding, InDo
<1> QED BY <1>1, <1>2, <1>3

(* OnceInv holds in every state of Do, whoever calls it and however often. *)
THEOREM OnceInvariance == OnceSpec => []OnceInv
<1>1. OnceInv /\ [OnceNext]_onceVars => OnceInv'
  <2> SUFFICES ASSUME OnceInv, [OnceNext]_onceVars PROVE OnceInv'
    OBVIOUS
  <2>1. CASE UNCHANGED onceVars
    BY <2>1 DEF onceVars, OnceInv, OnceTypeOK, MutexHeld, DoneAfterF, Running
  <2>2. ASSUME NEW g \in G, Do(g) \/ DoStep(g) \/ GoOn(g) PROVE OnceInv'
    BY <2>2, OnceDoInv, OnceLockInv, OnceCheckInv, OnceEndFInv, OnceStoreInv, OnceUnlockInv, OnceGoOnInv DEF DoStep
  <2> QED BY <2>1, <2>2 DEF OnceNext
<1> QED BY <1>1, OnceInitInv, PTL DEF OnceSpec

(* Do calls f at most once, whatever the goroutines do, and does not       *)
(* return before that call has ended, also if f panics.                    *)
THEOREM DoCallsOnce == OnceSpec => []CalledOnce
<1>1. OnceInv => begun <= 1
  <2> SUFFICES ASSUME OnceInv PROVE begun <= 1
    OBVIOUS
  <2>1. CASE done
    BY <2>1 DEF OnceInv, DoneAfterF
  <2>2. CASE ~done /\ Running = {}
    BY <2>2 DEF OnceInv, DoneAfterF
  <2>3. CASE Running # {}
    BY <2>3 DEF OnceInv, DoneAfterF
  <2> QED BY <2>1, <2>2, <2>3
<1>2. OnceInv => ((\E g \in G : at[g] = "returned") => ended = 1 /\ begun = 1)
  BY DEF OnceInv, DoneAfterF
<1>3. OnceInv => CalledOnce
  BY <1>1, <1>2 DEF CalledOnce
<1> QED BY <1>3, OnceInvariance, PTL

-----------------------------------------------------------------------------
(* WaitGroup.  Only g moves, to the place "to", and only its copy of the   *)
(* word changes, to c.                                                     *)
Moves(g, to, c) ==
  /\ wgpc' \in [G -> AddPC \cup WaitPC \cup {"idle", "panic"}] /\ wgpc'[g] = to
  /\ local' \in [G -> Word] /\ local'[g] = c
  /\ \A h \in G \ {g} : wgpc'[h] = wgpc[h] /\ local'[h] = local[h]

(* The number of the sleepers after such a step.                           *)
LEMMA AsleepStep ==
  ASSUME NEW g \in G, NEW to, NEW c, Moves(g, to, c)
  PROVE  /\ Asleep' = Asleep + In(to, {"sleep"}) - In(wgpc[g], {"sleep"})
         /\ Asleep \in Nat /\ Asleep' \in Nat
  <1>1. Asleep = At(G, wgpc, {"sleep"}) /\ Asleep' = At(G, wgpc', {"sleep"})
    BY DEF Asleep, At
  <1>2. OthersStay(G, wgpc, wgpc', g) /\ wgpc'[g] = to
    BY DEF OthersStay, Moves
  <1>3. At(G, wgpc', {"sleep"}) = At(G, wgpc, {"sleep"}) + In(wgpc'[g], {"sleep"}) - In(wgpc[g], {"sleep"})
    BY <1>2, AtMove
  <1>4. At(G, wgpc', {"sleep"}) \in Nat /\ At(G, wgpc, {"sleep"}) \in Nat
    BY AtIsNat
  <1> QED
    BY <1>1, <1>2, <1>3, <1>4

(* Somebody sleeps when the count is not zero.                             *)
LEMMA SomebodySleeps ==
  /\ Asleep \in Nat
  /\ Asleep > 0 => \E g \in G : wgpc[g] = "sleep"
  /\ \A g \in G : wgpc[g] = "sleep" => Asleep > 0
  <1>1. Asleep = At(G, wgpc, {"sleep"})
    BY DEF Asleep, At
  <1>2. /\ At(G, wgpc, {"sleep"}) \in Nat
        /\ At(G, wgpc, {"sleep"}) = 0 <=> \A x \in G : wgpc[x] \notin {"sleep"}
    BY AtIsNat
  <1> QED
    BY <1>1, <1>2

(* The parts of SleepersCounted, with types.                               *)
LEMMA Parts ==
  ASSUME SleepersCounted
  PROVE  /\ counter \in 0..MaxTasks /\ counter \in Nat /\ waiters \in Nat /\ sema \in Nat
         /\ wgpc \in [G -> AddPC \cup WaitPC \cup {"idle", "panic"}]
         /\ local \in [G -> Word] /\ released \in [G -> BOOLEAN]
         /\ \A g \in G : /\ local[g].v \in Int /\ local[g].w \in Nat
                         /\ local[g] = [v |-> local[g].v, w |-> local[g].w]
         /\ ZeroReached /\ ReleasedFirst /\ EverySleeper
         /\ \A g \in G : wgpc[g] # "panic" /\ (wgpc[g] = "cas" => local[g].v # 0)
  BY DEF SleepersCounted, WGTypeOK, Word

(* While the word has waiters, or releases are under way, somebody sleeps: *)
(* by the rules for the callers of Add, the counter does not leave zero.   *)
LEMMA Standstill ==
  ASSUME SleepersCounted, waiters > 0 \/ sema > 0 \/ \E g \in G : wgpc[g] \in AddPC
  PROVE  \E h \in G : wgpc[h] = "sleep"
  <1>1. Asleep > 0
    <2>1. CASE \E g \in G : wgpc[g] = "release"
      BY <2>1, Parts DEF ZeroReached, EverySleeper
    <2>2. CASE \A g \in G : wgpc[g] # "release"
      BY <2>2, Parts DEF ZeroReached, EverySleeper
    <2> QED
      BY <2>1, <2>2
  <1> QED
    BY <1>1, SomebodySleeps

(* Add does not panic, and only the one that reaches zero with waiters     *)
(* goes on.                                                                *)
LEMMA AddCounted ==
  ASSUME SleepersCounted, NEW g \in G, NEW delta \in {1, 2, -1}, Add(g, delta)
  PROVE  SleepersCounted'
  <1> DEFINE v == counter + delta
             next == AfterAdd(v, waiters, delta)
  <1>1. wgpc[g] = "idle" /\ v \in 0..MaxTasks /\ counter' = v /\ waiters' = waiters /\ sema' = sema
    BY Parts DEF Add, MayAdd, WGGoto
  <1>2. counter = 0 => /\ delta > 0 /\ waiters = 0 /\ sema = 0
                       /\ \A h \in G : wgpc[h] \notin WaitPC \cup AddPC
    <2>1. ASSUME counter = 0
          PROVE  delta > 0 /\ \A h \in G : wgpc[h] \notin WaitPC
      BY <2>1 DEF Add, MayAdd
    <2> QED
      BY <2>1, Standstill, Parts
  <1>3. counter > 0 => sema = 0 /\ \A h \in G : wgpc[h] \notin AddPC \cup {"recheck"}
    BY Parts DEF ZeroReached, ReleasedFirst, statep, Zero
  <1>4. next = IF v = 0 /\ waiters # 0 THEN "check" ELSE "idle"
    BY <1>1, <1>2, Parts DEF AfterAdd
  <1>5. Moves(g, next, IF next = "check" THEN [v |-> v, w |-> waiters] ELSE Zero)
    <2>1. next \in {"check", "idle"}
      BY <1>4
    <2> HIDE DEF next
    <2> QED
      BY <1>1, <2>1, Parts DEF Add, WGGoto, Moves, Word, Zero, next
  <1>6. Asleep' = Asleep /\ Asleep \in Nat
    BY <1>1, <1>4, <1>5, AsleepStep DEF In
  <1>7. released' \in [G -> BOOLEAN]
    BY Parts DEF Add
  <1>8. \A h \in G : wgpc[h] \notin AddPC \cup {"recheck"}
    BY <1>2, <1>3, Parts
  <1>9. sema = 0
    BY <1>2, <1>3, Parts
  <1>10. WGTypeOK'
    BY <1>1, <1>5, <1>7, Parts DEF WGTypeOK, Moves
  <1>11. \A h \in G : wgpc'[h] # "panic" /\ (wgpc'[h] = "cas" => local'[h].v # 0)
    BY <1>4, <1>5, Parts DEF Moves
  <1>12. ZeroReached'
    BY <1>1, <1>4, <1>5, <1>8, Parts DEF ZeroReached, Moves, statep
  <1>13. \A h \in G : wgpc'[h] \notin {"release", "recheck"}
    BY <1>4, <1>5, <1>8 DEF Moves
  <1>14. ReleasedFirst'
    BY <1>1, <1>9, <1>13 DEF ReleasedFirst
  <1>15. EverySleeper'
    BY <1>1, <1>6, <1>8, <1>13, Parts DEF EverySleeper
  <1> QED
    BY <1>10, <1>11, <1>12, <1>14, <1>15 DEF SleepersCounted

(* The other steps of Add: the sanity check finds the word as Add left it, *)
(* and each iteration of the loop pays one of the releases that are owed.  *)
LEMMA ReleaseCounted ==
  ASSUME SleepersCounted, NEW g \in G, AddStep(g)
  PROVE  SleepersCounted'
  <1>1. wgpc[g] \in AddPC /\ released' = released
    BY DEF AddStep, CheckState, Reset, Release, WGGoto
  <1>2. \A h \in G \ {g} : wgpc[h] \notin AddPC
    BY <1>1, Parts DEF ZeroReached
  <1>3. CASE CheckState(g)
    <2>1. wgpc[g] = "check" /\ statep = local[g] /\ waiters > 0 /\ counter = 0
      BY <1>3, Parts DEF CheckState, WGGoto, ZeroReached
    <2>2. Moves(g, "reset", local[g]) /\ UNCHANGED <<counter, waiters, sema>>
      BY <1>3, <2>1, Parts DEF CheckState, WGGoto, Moves
    <2>3. Asleep' = Asleep
      BY <2>1, <2>2, AsleepStep DEF In
    <2>4. WGTypeOK'
      BY <1>1, <2>2, Parts DEF WGTypeOK, Moves
    <2>5. \A h \in G : wgpc'[h] # "panic" /\ (wgpc'[h] = "cas" => local'[h].v # 0)
      BY <2>2, Parts DEF Moves
    <2>6. ZeroReached'
      BY <1>2, <2>1, <2>2, Parts DEF ZeroReached, Moves, statep
    <2>7. ReleasedFirst'
      BY <2>1, <2>2, Parts DEF ReleasedFirst, Moves, statep
    <2>8. EverySleeper'
      BY <1>2, <2>1, <2>2, <2>3, Parts DEF EverySleeper, Moves
    <2> QED
      BY <2>4, <2>5, <2>6, <2>7, <2>8 DEF SleepersCounted
  <1>4. CASE Reset(g)
    <2>1. wgpc[g] = "reset" /\ statep = local[g] /\ waiters > 0 /\ counter = 0
      BY <1>4, Parts DEF Reset, WGGoto, ZeroReached
    <2>2. Moves(g, "release", local[g]) /\ counter' = 0 /\ waiters' = 0 /\ sema' = sema
      BY <1>4, <2>1, Parts DEF Reset, WGGoto, Moves
    <2>3. Asleep' = Asleep /\ local[g].w = waiters
      BY <2>1, <2>2, AsleepStep DEF In, statep
    <2>4. WGTypeOK'
      BY <1>1, <2>2, Parts DEF WGTypeOK, Moves
    <2>5. \A h \in G : wgpc'[h] # "panic" /\ (wgpc'[h] = "cas" => local'[h].v # 0)
      BY <2>2, Parts DEF Moves
    <2>6. ZeroReached'
      BY <1>2, <2>1, <2>2, <2>3, Parts DEF ZeroReached, Moves
    <2>7. ReleasedFirst'
      BY <2>2 DEF ReleasedFirst, statep, Zero
    <2>8. Asleep = waiters + sema
      BY <1>2, <2>1, Parts DEF EverySleeper
    <2>9. EverySleeper'
      BY <1>2, <2>2, <2>3, <2>8, Parts DEF EverySleeper, Moves
    <2> QED
      BY <2>4, <2>5, <2>6, <2>7, <2>9 DEF SleepersCounted
  <1>5. CASE Release(g)
    <2> DEFINE to == IF local[g].w = 1 THEN "idle" ELSE "release"
               c == [v |-> local[g].v, w |-> local[g].w - 1]
    <2>1. wgpc[g] = "release" /\ local[g].w > 0 /\ local[g].w \in Nat
      BY <1>5, Parts DEF Release, ZeroReached
    <2>2. statep = Zero /\ counter = 0 /\ waiters = 0
      BY <2>1, Parts DEF ReleasedFirst, statep, Zero
    <2>3. Moves(g, to, c)
      BY <1>5, <2>1, Parts DEF Release, Moves, Word
    <2>4. sema' = sema + 1 /\ UNCHANGED <<counter, waiters>>
      BY <1>5 DEF Release
    <2>5. Asleep' = Asleep /\ Asleep \in Nat
      BY <2>1, <2>3, AsleepStep DEF In
    <2>6. WGTypeOK'
      BY <1>1, <2>3, <2>4, Parts DEF WGTypeOK, Moves
    <2>7. \A h \in G : wgpc'[h] # "panic" /\ (wgpc'[h] = "cas" => local'[h].v # 0)
      BY <2>3, Parts DEF Moves
    <2>8. ZeroReached'
      <3>1. /\ wgpc'[g] = to /\ local'[g] = c /\ to \in {"idle", "release"}
            /\ to = "release" => c.w > 0
        BY <2>1, <2>3 DEF Moves
      <3>2. \A h \in G \ {g} : wgpc'[h] \notin AddPC
        BY <1>2, <2>3 DEF Moves
      <3> HIDE DEF to, c
      <3> QED
        BY <3>1, <3>2 DEF ZeroReached
    <2>9. ReleasedFirst'
      BY <2>2, <2>4 DEF ReleasedFirst, statep
    <2>10. Asleep = local[g].w + sema
      BY <2>1, Parts DEF EverySleeper
    <2>11. \A h \in G : wgpc'[h] = "release" => h = g /\ local'[h].w = local[g].w - 1
      BY <1>2, <2>3 DEF Moves
    <2>12. (\A h \in G : wgpc'[h] # "release") => local[g].w = 1
      BY <2>3 DEF Moves
    <2>13. sema \in Nat
      BY Parts
    <2>14. ASSUME NEW h \in G, wgpc'[h] = "release"
           PROVE  Asleep' = local'[h].w + sema'
      BY <2>1, <2>4, <2>5, <2>10, <2>11, <2>13, <2>14
    <2>15. ASSUME \A h \in G : wgpc'[h] # "release"
           PROVE  Asleep' = waiters' + sema'
      BY <2>2, <2>4, <2>5, <2>10, <2>12, <2>13, <2>15
    <2>16. EverySleeper'
      BY <2>14, <2>15 DEF EverySleeper
    <2> QED
      BY <2>6, <2>7, <2>8, <2>9, <2>16 DEF SleepersCounted
  <1> QED
    BY <1>3, <1>4, <1>5 DEF AddStep

(* A step of Wait that changes neither the word nor the semaphore, and by  *)
(* which nobody goes to sleep.                                             *)
LEMMA WaitsQuietly ==
  ASSUME SleepersCounted, NEW g \in G, NEW to, NEW c, Moves(g, to, c),
         wgpc[g] \notin AddPC \cup {"sleep"}, to \notin AddPC \cup {"sleep", "recheck", "panic"},
         to = "cas" => c.v # 0, UNCHANGED <<counter, waiters, sema>>, released' \in [G -> BOOLEAN]
  PROVE  SleepersCounted'
  <1>1. Asleep' = Asleep
    BY AsleepStep DEF In
  <1>2. WGTypeOK'
    BY Parts DEF WGTypeOK, Moves
  <1>3. \A h \in G : wgpc'[h] # "panic" /\ (wgpc'[h] = "cas" => local'[h].v # 0)
    BY Parts DEF Moves
  <1>4. \A h \in G : wgpc'[h] \in AddPC \cup {"recheck"} =>
                      h # g /\ wgpc'[h] = wgpc[h] /\ local'[h] = local[h]
    BY DEF Moves
  <1>5. ZeroReached'
    BY <1>4, Parts DEF ZeroReached, statep
  <1>6. ReleasedFirst'
    BY <1>4, Parts DEF ReleasedFirst, statep
  <1>7. \A h \in G : wgpc[h] = "release" => wgpc'[h] = "release"
    BY DEF Moves
  <1>8. EverySleeper'
    BY <1>1, <1>4, <1>7, Parts DEF EverySleeper
  <1> QED
    BY <1>2, <1>3, <1>5, <1>6, <1>8 DEF SleepersCounted

(* Wait goes to sleep only when the word it has read still stands, and a   *)
(* sleeper that is released finds the word as Add reset it.                *)
LEMMA WaitCounted ==
  ASSUME SleepersCounted, NEW g \in G, Wait(g) \/ WaitStep(g)
  PROVE  SleepersCounted'
  <1>1. released' \in [G -> BOOLEAN]
    BY Parts DEF Wait, WaitStep, Load, Cas, Semacquire, Recheck
  <1>2. CASE Wait(g)
    <2>1. Moves(g, "load", local[g]) /\ wgpc[g] = "idle" /\ UNCHANGED <<counter, waiters, sema>>
      BY <1>2, Parts DEF Wait, WGGoto, Moves
    <2> QED
      BY <1>1, <2>1, WaitsQuietly
  <1>3. CASE Load(g)
    <2> DEFINE to == IF counter = 0 THEN "idle" ELSE "cas"
               c == IF counter = 0 THEN Zero ELSE statep
    <2>1. Moves(g, to, c)
      BY <1>3, Parts DEF Load, WGGoto, Moves, Word, Zero, statep
    <2>2. wgpc[g] = "load" /\ UNCHANGED <<counter, waiters, sema>> /\ (to = "cas" => c.v # 0)
      BY <1>3 DEF Load, WGGoto, statep
    <2> HIDE DEF c
    <2> QED
      BY <1>1, <2>1, <2>2, WaitsQuietly
  <1>4. CASE Cas(g) /\ statep # local[g]
    <2>1. Moves(g, "load", Zero)
      BY <1>4, Parts DEF Cas, WGGoto, Moves, Word, Zero
    <2>2. wgpc[g] = "cas" /\ UNCHANGED <<counter, waiters, sema>>
      BY <1>4 DEF Cas, WGGoto
    <2> QED
      BY <1>1, <2>1, <2>2, WaitsQuietly
  <1>5. CASE Cas(g) /\ statep = local[g]
    <2>1. Moves(g, "sleep", Zero)
      BY <1>5, Parts DEF Cas, WGGoto, Moves, Word, Zero
    <2>2. wgpc[g] = "cas" /\ counter' = counter /\ waiters' = waiters + 1 /\ sema' = sema
      BY <1>5 DEF Cas, WGGoto
    <2>3. counter # 0 /\ statep # Zero
      BY <1>5, <2>2, Parts DEF statep, Zero
    <2>4. sema = 0 /\ \A h \in G : wgpc[h] \notin AddPC \cup {"recheck"}
      BY <2>3, Parts DEF ReleasedFirst, ZeroReached
    <2>5. \A h \in G : wgpc'[h] \notin AddPC \cup {"recheck"}
      BY <2>1, <2>4 DEF Moves
    <2>6. Asleep' = Asleep + 1 /\ Asleep \in Nat
      BY <2>1, <2>2, AsleepStep DEF In
    <2>7. WGTypeOK'
      BY <1>1, <2>1, <2>2, Parts DEF WGTypeOK, Moves
    <2>8. \A h \in G : wgpc'[h] # "panic" /\ (wgpc'[h] = "cas" => local'[h].v # 0)
      BY <2>1, Parts DEF Moves
    <2>9. ZeroReached'
      BY <2>5 DEF ZeroReached
    <2>10. ReleasedFirst'
      BY <2>2, <2>4, <2>5 DEF ReleasedFirst
    <2>11. EverySleeper'
      BY <2>2, <2>4, <2>5, <2>6, Parts DEF EverySleeper
    <2> QED
      BY <2>7, <2>8, <2>9, <2>10, <2>11 DEF SleepersCounted
  <1>6. CASE Semacquire(g)
    <2>1. Moves(g, "recheck", local[g])
      BY <1>6, Parts DEF Semacquire, WGGoto, Moves
    <2>2. wgpc[g] = "sleep" /\ UNCHANGED <<counter, waiters>> /\ sema > 0 /\ sema' = sema - 1
      BY <1>6 DEF Semacquire, WGGoto
    <2>3. statep = Zero
      BY <2>2, Parts DEF ReleasedFirst
    <2>4. Asleep' = Asleep - 1 /\ Asleep \in Nat
      BY <2>1, <2>2, AsleepStep DEF In
    <2>5. WGTypeOK'
      BY <1>1, <2>1, <2>2, Parts DEF WGTypeOK, Moves
    <2>6. \A h \in G : wgpc'[h] # "panic" /\ (wgpc'[h] = "cas" => local'[h].v # 0)
      BY <2>1, Parts DEF Moves
    <2>7. \A h \in G : /\ wgpc'[h] \in AddPC => wgpc'[h] = wgpc[h] /\ local'[h] = local[h]
                       /\ wgpc[h] = "release" => wgpc'[h] = "release"
      BY <2>1, <2>2 DEF Moves
    <2>8. ZeroReached'
      BY <2>2, <2>7, Parts DEF ZeroReached, statep
    <2>9. ReleasedFirst'
      BY <2>2, <2>3 DEF ReleasedFirst, statep
    <2>10. EverySleeper'
      BY <2>2, <2>4, <2>7, Parts DEF EverySleeper
    <2> QED
      BY <2>5, <2>6, <2>8, <2>9, <2>10 DEF SleepersCounted
  <1>7. CASE Recheck(g)
    <2>1. wgpc[g] = "recheck" /\ statep = Zero
      BY <1>7, Parts DEF Recheck, WGGoto, ReleasedFirst
    <2>2. Moves(g, "idle", local[g]) /\ UNCHANGED <<counter, waiters, sema>>
      BY <1>7, <2>1, Parts DEF Recheck, WGGoto, Moves
    <2> QED
      BY <1>1, <2>1, <2>2, WaitsQuietly
  <1> QED
    BY <1>2, <1>3, <1>4, <1>5, <1>6, <1>7 DEF WaitStep

(* A WaitGroup used as documented does not panic, and every sleeper is     *)
(* counted or owed a release, for any number of goroutines and of events.  *)
THEOREM EverySleeperCounted == WGSpec => []SleepersCounted
  <1>1. WGInit => SleepersCounted
    <2> SUFFICES ASSUME WGInit PROVE SleepersCounted
      OBVIOUS
    <2>1. WGTypeOK
      BY DEF WGInit, WGTypeOK, Word, Zero
    <2>2. Asleep = 0
      BY SomebodySleeps DEF WGInit
    <2> QED
      BY <2>1, <2>2 DEF WGInit, SleepersCounted, ZeroReached, ReleasedFirst, EverySleeper, statep, Zero
  <1>2. SleepersCounted /\ WGNext => SleepersCounted'
    BY AddCounted, ReleaseCounted, WaitCounted DEF WGNext
  <1>3. SleepersCounted /\ UNCHANGED wgVars => SleepersCounted'
    BY DEF wgVars, SleepersCounted, WGTypeOK, ZeroReached, ReleasedFirst, EverySleeper, Asleep, statep
  <1> QED
    BY <1>1, <1>2, <1>3, PTL DEF WGSpec

-----------------------------------------------------------------------------
(* Whoever is in Wait while the counter is zero knows that it was.         *)
ZeroSeen == \A g \in G : wgpc[g] \in WaitPC /\ counter = 0 => released[g]

(* Wait returns only after the counter was zero at some moment since the   *)
(* call, although it may return long after that moment.                    *)
THEOREM WaitReturnsAfterZero == WGSpec => WaitsForZero
  <1>1. WGInit => ZeroSeen
    BY DEF WGInit, ZeroSeen
  <1>2. ASSUME SleepersCounted, ZeroSeen, [WGNext]_wgVars
        PROVE  ZeroSeen' /\ (\A g \in G : wgpc[g] \in WaitPC /\ wgpc'[g] = "idle" => released[g])
    <2>0. /\ wgpc \in [G -> AddPC \cup WaitPC \cup {"idle", "panic"}] /\ released \in [G -> BOOLEAN]
          /\ \A g \in G : wgpc[g] = "reset" => counter = 0
      BY <1>2, Parts DEF ZeroReached
    <2>1. CASE UNCHANGED wgVars
      BY <1>2, <2>1 DEF wgVars, ZeroSeen
    <2>2. ASSUME NEW g \in G, NEW delta \in {1, 2, -1}, Add(g, delta)
          PROVE  ZeroSeen' /\ (\A h \in G : wgpc[h] \in WaitPC /\ wgpc'[h] = "idle" => released[h])
      <3>1. AfterAdd(counter + delta, waiters, delta) \in {"panic", "idle", "check"}
        BY DEF AfterAdd
      <3>2. wgpc[g] = "idle" /\ wgpc'[g] \notin WaitPC /\ \A h \in G \ {g} : wgpc'[h] = wgpc[h]
        BY <2>0, <2>2, <3>1 DEF Add, WGGoto
      <3>3. \A h \in G : released'[h] = (released[h] \/ (wgpc[h] \in WaitPC /\ counter' = 0))
        BY <2>2 DEF Add
      <3> QED
        BY <3>2, <3>3 DEF ZeroSeen
    <2>3. ASSUME NEW g \in G, AddStep(g)
          PROVE  ZeroSeen' /\ (\A h \in G : wgpc[h] \in WaitPC /\ wgpc'[h] = "idle" => released[h])
      BY <1>2, <2>0, <2>3 DEF AddStep, CheckState, Reset, Release, WGGoto, ZeroSeen
    <2>4. ASSUME NEW g \in G, Wait(g)
          PROVE  ZeroSeen' /\ (\A h \in G : wgpc[h] \in WaitPC /\ wgpc'[h] = "idle" => released[h])
      BY <1>2, <2>0, <2>4 DEF Wait, WGGoto, ZeroSeen
    <2>5. ASSUME NEW g \in G, WaitStep(g)
          PROVE  ZeroSeen' /\ (\A h \in G : wgpc[h] \in WaitPC /\ wgpc'[h] = "idle" => released[h])
      BY <1>2, <2>0, <2>5 DEF WaitStep, Load, Cas, Semacquire, Recheck, WGGoto, ZeroSeen, statep, Zero
    <2> QED
      BY <1>2, <2>1, <2>2, <2>3, <2>4, <2>5 DEF WGNext
  <1> QED
    BY EverySleeperCounted, <1>1, <1>2, PTL DEF WGSpec, WaitsForZero

=============================================================================
