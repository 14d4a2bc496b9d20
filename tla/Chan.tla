-------------------------------- MODULE Chan --------------------------------
(***************************************************************************)
(* The channels of src/src/runtime/chan.go and the select statement of     *)
(* src/src/runtime/select.go.  Goroutines send, receive and close, with or *)
(* without blocking, and select on several channels.                       *)
(*                                                                         *)
(* A critical section of one channel's lock is one action; so is each read *)
(* of the lock-free fast paths, and each lock that sellock takes.  A       *)
(* select works on its channels in one action while it has all the locks.  *)
(* Setting gp.param and goready, which follow the unlock, are part of the  *)
(* action: until then nobody else looks at the woken goroutine.            *)
(*                                                                         *)
(* A channel is its address, nil is 0.  The value of a send is its         *)
(* goroutine.  A sudog is its goroutine and the index of the case.         *)
(***************************************************************************)
EXTENDS Naturals, FiniteSets, Sequences, SequencesExt

CONSTANTS
  G,       \* the goroutines
  None,    \* the zero value; also no goroutine
  Idle,    \* no call
  Size,    \* Size[c]: c.dataqsiz
  Calls    \* the calls that the goroutines make

C == DOMAIN Size

(* A call has a sequence of cases, one unless it is a selectgo; it may     *)
(* block, or it has a default.                                             *)
Case == [dir : {"send", "recv"}, c : C \cup {0}]
SendOrRecv == [kind : {"chan"}, cases : {<<k>> : k \in Case}, block : BOOLEAN]
Close == [kind : {"closechan"}, cases : {<<[dir |-> "close", c |-> c]>> : c \in C \cup {0}}, block : {TRUE}]
Select == [kind : {"selectgo"}, cases : Seq(Case), block : BOOLEAN]

ASSUME SizeAssumption == C \subseteq Nat \ {0} /\ Size \in [C -> Nat]
ASSUME CallsAssumption == \A o \in Calls : o \in SendOrRecv \/ o \in Close \/ o \in Select
ASSUME NoneAssumption == None \notin G /\ Idle \notin Calls

VARIABLES
  ch,          \* ch[c]: the hchan of c
  lock,        \* the holder of c.lock, where it is held from one action to the next
  pc,          \* the next step of each goroutine
  call,        \* the call a goroutine is in
  selectDone,  \* gp.selectDone
  param,       \* gp.param: the case whose sudog was completed, or 0 for nil
  elem,        \* what was copied to the receiver's stack
  result,      \* how the call ended
  seen         \* history: during this non-blocking call the channel was open and not ready

vars == <<ch, lock, pc, call, selectDone, param, elem, result, seen>>

Pending == [how |-> "pending", i |-> 0, val |-> None]
Result(how, i, val) == [how |-> how, i |-> i, val |-> val]

(* makechan.                                                               *)
makechan(size) ==
  [closed |-> FALSE, buf |-> [i \in 0..(size - 1) |-> None], sendx |-> 0, recvx |-> 0, qcount |-> 0,
   recvq |-> <<>>, sendq |-> <<>>]

Init ==
  /\ ch = [c \in C |-> makechan(Size[c])]
  /\ lock = [c \in C |-> None]
  /\ pc = [g \in G |-> "idle"]
  /\ call = [g \in G |-> Idle]
  /\ selectDone = [g \in G |-> FALSE]
  /\ param = [g \in G |-> 0]
  /\ elem = [g \in G |-> None]
  /\ result = [g \in G |-> Pending]
  /\ seen = [g \in G |-> FALSE]

-----------------------------------------------------------------------------
(* The circular buffer.                                                    *)

Inc(c, x) == IF x + 1 = Size[c] THEN 0 ELSE x + 1

Put(h, c, v) == [h EXCEPT !.buf[h.sendx] = v, !.sendx = Inc(c, @), !.qcount = @ + 1]

Take(h, c) == [h EXCEPT !.buf[h.recvx] = None, !.recvx = Inc(c, @), !.qcount = @ - 1]

(* Mutant of Swap: sendx stays.                                            *)
SwapKeepsSendx(h, c, v) == [h EXCEPT !.buf[h.recvx] = v, !.recvx = Inc(c, @)]

(* recv on a full buffer: the sender's value takes the slot of the value   *)
(* that is received.                                                       *)
Swap(h, c, v) == [h EXCEPT !.buf[h.recvx] = v, !.recvx = Inc(c, @), !.sendx = Inc(c, h.recvx)]

(* The place of the n-th value, and the values in their order.             *)
Place(h, c, n) == LET x == h.recvx + n - 1 IN IF x < Size[c] THEN x ELSE x - Size[c]

Values(h, c) == [n \in 1..h.qcount |-> h.buf[Place(h, c, n)]]

full(c) == IF Size[c] = 0 THEN ch[c].recvq = <<>> ELSE ch[c].qcount = Size[c]

empty(c) == IF Size[c] = 0 THEN ch[c].sendq = <<>> ELSE ch[c].qcount = 0

-----------------------------------------------------------------------------
(* The wait queues.  A sudog of a select is stale if its goroutine has     *)
(* been signalled for another case and has not removed itself yet; dequeue *)
(* drops the stale ones that it meets.                                     *)
IsSelect(g) == call[g].kind = "selectgo"

Live(s) == ~(IsSelect(s.g) /\ selectDone[s.g])

FirstLive(q) == SelectInSeq(q, Live)

AfterDequeue(q) == IF FirstLive(q) = 0 THEN <<>> ELSE SubSeq(q, FirstLive(q) + 1, Len(q))

Found(q) == FirstLive(q) # 0
Dequeued(q) == q[FirstLive(q)]

Sudog(g, i) == [g |-> g, i |-> i]
Sudogs == [g : G, i : Nat \ {0}]

(* What is left of q when it keeps the positions in P, as after            *)
(* dequeueSudoG at the others: the one of rank n in P comes to n.          *)
Keep(q, P) ==
  [n \in 1..Cardinality(P) |-> q[CHOOSE k \in P : Cardinality({j \in P : j <= k}) = n]]

(* The step at which a parked goroutine resumes when it is made ready.     *)
Resume(g) == IF IsSelect(g) THEN "relock" ELSE "woken"

CaseOf(g, i) == call[g].cases[i]
The(g) == CaseOf(g, 1).c
ChansOf(g) == {CaseOf(g, i).c : i \in DOMAIN call[g].cases} \cap C

Goto(g, from, to) ==
  /\ pc[g] = from
  /\ pc' = [pc EXCEPT ![g] = to]

gvars == <<selectDone, param, elem>>

(* unlock(&c.lock), or selunlock of all the locks of a select.             *)
Unlock(g) == lock' = [c \in C |-> IF lock[c] = g THEN None ELSE lock[c]]

(* The call of g ends with r.                                              *)
End(g, r) ==
  /\ pc' = [pc EXCEPT ![g] = "ret"]
  /\ result' = [result EXCEPT ![g] = r]
  /\ Unlock(g)
  /\ UNCHANGED <<call, gvars>>

(* The call of g ends with r, and so does the one whose sudog s g has      *)
(* dequeued: g hands it v and makes it ready.                              *)
Complete(g, r, s, v) ==
  /\ pc' = [pc EXCEPT ![g] = "ret", ![s.g] = Resume(s.g)]
  /\ selectDone' = [selectDone EXCEPT ![s.g] = IsSelect(s.g)]
  /\ param' = [param EXCEPT ![s.g] = s.i]
  /\ elem' = [elem EXCEPT ![s.g] = v]
  /\ result' = [result EXCEPT ![g] = r]
  /\ Unlock(g)
  /\ UNCHANGED call

-----------------------------------------------------------------------------
(* The ways in which case i of g, a send or a receive on c, can go ahead   *)
(* with the channels chs.                                                  *)

SendOnClosed(g, i, c, chs) ==
  /\ chs[c].closed
  /\ ch' = chs
  /\ End(g, Result("panic", i, None))

SendToReceiver(g, i, c, chs) ==
  LET q == chs[c].recvq IN
  /\ ~chs[c].closed
  /\ Found(q)
  /\ ch' = [chs EXCEPT ![c].recvq = AfterDequeue(q)]
  /\ Complete(g, Result("sent", i, None), Dequeued(q), g)

SendToBuffer(g, i, c, chs) ==
  /\ ~chs[c].closed
  /\ ~Found(chs[c].recvq)
  /\ chs[c].qcount < Size[c]
  /\ ch' = [chs EXCEPT ![c] = Put([@ EXCEPT !.recvq = <<>>], c, g)]
  /\ End(g, Result("sent", i, None))

RecvOnClosed(g, i, c, chs) ==
  /\ chs[c].closed
  /\ chs[c].qcount = 0
  /\ ch' = chs
  /\ End(g, Result("closed", i, None))

RecvFromSender(g, i, c, chs) ==
  LET q == chs[c].sendq
      h == [chs[c] EXCEPT !.sendq = AfterDequeue(q)]
      s == Dequeued(q)
  IN
  /\ Found(q)
  /\ ch' = [chs EXCEPT ![c] = IF Size[c] = 0 THEN h ELSE Swap(h, c, s.g)]
  /\ Complete(g, Result("received", i, IF Size[c] = 0 THEN s.g ELSE h.buf[h.recvx]), s, None)

RecvFromBuffer(g, i, c, chs) ==
  LET h == chs[c] IN
  /\ ~Found(h.sendq)
  /\ h.qcount > 0
  /\ ch' = [chs EXCEPT ![c] = Take([h EXCEPT !.sendq = <<>>], c)]
  /\ End(g, Result("received", i, h.buf[h.recvx]))

SendCase(g, i, c, chs) ==
  SendOnClosed(g, i, c, chs) \/ SendToReceiver(g, i, c, chs) \/ SendToBuffer(g, i, c, chs)

RecvCase(g, i, c, chs) ==
  RecvOnClosed(g, i, c, chs) \/ RecvFromSender(g, i, c, chs) \/ RecvFromBuffer(g, i, c, chs)

(* Mutant of Ready: a closed channel is not ready.                         *)
ReadyOpen(k) ==
  LET h == ch[k.c] IN
  /\ k.c # 0
  /\ IF k.dir = "send" THEN Found(h.recvq) \/ h.qcount < Size[k.c]
                        ELSE Found(h.sendq) \/ h.qcount > 0

Ready(k) ==
  LET h == ch[k.c] IN
  /\ k.c # 0
  /\ \/ h.closed
     \/ IF k.dir = "send" THEN Found(h.recvq) \/ h.qcount < Size[k.c]
                          ELSE Found(h.sendq) \/ h.qcount > 0

(* Mutant of Tried: the stale sudogs stay.                                 *)
TriedKeeps(K) == ch

(* The cases in K, none of them ready, have been tried: dequeue has        *)
(* emptied their queues of stale sudogs.                                   *)
Tried(K) ==
  [c \in C |-> [ch[c] EXCEPT !.recvq = IF [dir |-> "send", c |-> c] \in K THEN <<>> ELSE @,
                             !.sendq = IF [dir |-> "recv", c |-> c] \in K THEN <<>> ELSE @]]

(* The sudogs of the cases of g are enqueued, in this order.               *)
Enqueue(g, order, chs) ==
  LET mine(d, c) == Keep(order, {n \in DOMAIN order : CaseOf(g, order[n]) = [dir |-> d, c |-> c]})
      sudogs(d, c) == [n \in DOMAIN mine(d, c) |-> Sudog(g, mine(d, c)[n])]
  IN [c \in C |-> [chs[c] EXCEPT !.recvq = @ \o sudogs("recv", c), !.sendq = @ \o sudogs("send", c)]]

-----------------------------------------------------------------------------
(* chansend and chanrecv: the nil channel, and the fast paths that do not  *)
(* take the lock.                                                          *)

(* Where a call starts.  The two loads of the fast path of a send are      *)
(* plain ones, which the build may reorder.                                *)
Start(o) ==
  CASE o.kind = "selectgo" -> {"sellock"}
    [] o.kind # "selectgo" /\ o.cases[1].c = 0 -> {"nil"}
    [] o.kind # "selectgo" /\ o.cases[1].c # 0 /\ o.block -> {"lock"}
    [] OTHER -> IF o.cases[1].dir = "send" THEN {"sendClosed", "sendFullFirst"} ELSE {"recvEmpty"}

Call(g, o) ==
  /\ \E s \in Start(o) : Goto(g, "idle", s)
  /\ call' = [call EXCEPT ![g] = o]
  /\ UNCHANGED <<ch, lock, gvars, result>>

(* A nil channel: park for ever, or return; close panics.                  *)
NilChan(g) ==
  /\ pc[g] = "nil"
  /\ CASE call[g].kind = "closechan" -> End(g, Result("panic", 1, None))
       [] call[g].kind # "closechan" /\ ~call[g].block -> End(g, Result("default", 0, None))
       [] OTHER -> Goto(g, "nil", "parked") /\ UNCHANGED <<lock, call, gvars, result>>
  /\ UNCHANGED ch

GiveUp(g) == End(g, Result("default", 0, None)) /\ UNCHANGED ch

GoOn(g, to) ==
  /\ pc' = [pc EXCEPT ![g] = to]
  /\ UNCHANGED <<ch, lock, call, gvars, result>>

SendLoadClosed(g) ==
  /\ pc[g] = "sendClosed"
  /\ GoOn(g, IF ch[The(g)].closed THEN "lock" ELSE "sendFull")

SendLoadFull(g) ==
  /\ pc[g] = "sendFull"
  /\ IF full(The(g)) THEN GiveUp(g) ELSE GoOn(g, "lock")

SendLoadFullFirst(g) ==
  /\ pc[g] = "sendFullFirst"
  /\ GoOn(g, IF full(The(g)) THEN "sendClosedSecond" ELSE "lock")

SendLoadClosedSecond(g) ==
  /\ pc[g] = "sendClosedSecond"
  /\ IF ch[The(g)].closed THEN GoOn(g, "lock") ELSE GiveUp(g)

RecvLoadEmpty(g) ==
  /\ pc[g] = "recvEmpty"
  /\ GoOn(g, IF empty(The(g)) THEN "recvClosed" ELSE "lock")

(* Mutant of RecvLoadClosed: an empty channel is taken to be open.         *)
RecvLoadClosedNot(g) ==
  /\ pc[g] = "recvClosed"
  /\ GiveUp(g)

RecvLoadClosed(g) ==
  /\ pc[g] = "recvClosed"
  /\ IF ch[The(g)].closed THEN GoOn(g, "recvAgain") ELSE GiveUp(g)

RecvLoadEmptyAgain(g) ==
  /\ pc[g] = "recvAgain"
  /\ IF empty(The(g)) THEN End(g, Result("closed", 1, None)) /\ UNCHANGED ch ELSE GoOn(g, "lock")

-----------------------------------------------------------------------------
(* The critical section of chansend and chanrecv.                          *)

Locked(g, d) ==
  /\ pc[g] = "lock"
  /\ CaseOf(g, 1).dir = d
  /\ lock[The(g)] = None

chansend(g) == Locked(g, "send") /\ SendCase(g, 1, The(g), ch)

chanrecv(g) == Locked(g, "recv") /\ RecvCase(g, 1, The(g), ch)

(* Not ready, and not allowed to block.                                    *)
WouldBlock(g) ==
  /\ Locked(g, "send") \/ Locked(g, "recv")
  /\ ~Ready(CaseOf(g, 1))
  /\ ~call[g].block
  /\ ch' = Tried({CaseOf(g, 1)})
  /\ End(g, Result("default", 0, None))

(* Not ready: enqueue a sudog and park.                                    *)
Park(g) ==
  /\ Locked(g, "send") \/ Locked(g, "recv")
  /\ ~Ready(CaseOf(g, 1))
  /\ call[g].block
  /\ ch' = Enqueue(g, <<1>>, Tried({CaseOf(g, 1)}))
  /\ Goto(g, "lock", "parked")
  /\ UNCHANGED <<lock, call, gvars, result>>

(* How the call of g ends that somebody else has completed.                *)
Completed(g) ==
  IF CaseOf(g, param[g]).dir = "send" THEN Result("sent", param[g], None)
                                    ELSE Result("received", param[g], elem[g])

(* After gopark: gp.param = nil says that the channel has been closed.     *)
WakeUp(g) ==
  /\ Goto(g, "woken", "ret")
  /\ result' = [result EXCEPT ![g] =
       IF param[g] # 0 THEN Completed(g)
       ELSE IF CaseOf(g, 1).dir = "recv" THEN Result("closed", 1, None)
       ELSE IF ch[The(g)].closed THEN Result("panic", 1, None) ELSE Result("throw", 1, None)]
  /\ param' = [param EXCEPT ![g] = 0]
  /\ UNCHANGED <<ch, lock, call, selectDone, elem>>

-----------------------------------------------------------------------------
(* closechan: c.closed = 1, which the fast paths can see at once, and then *)
(* the release of all receivers and senders, in one critical section.      *)
closechan(g) ==
  /\ Locked(g, "close")
  /\ IF ch[The(g)].closed
     THEN End(g, Result("panic", 1, None)) /\ UNCHANGED ch
     ELSE /\ Goto(g, "lock", "release")
          /\ ch' = [ch EXCEPT ![The(g)].closed = TRUE]
          /\ lock' = [lock EXCEPT ![The(g)] = g]
          /\ result' = [result EXCEPT ![g] = Result("done", 1, None)]
          /\ UNCHANGED <<call, gvars>>

ReleaseAll(g) ==
  LET h == ch[The(g)]
      freed == {s.g : s \in {s \in ToSet(h.recvq \o h.sendq) : Live(s)}}
  IN
  /\ pc[g] = "release"
  /\ ch' = [ch EXCEPT ![The(g)] = [h EXCEPT !.recvq = <<>>, !.sendq = <<>>]]
  /\ pc' = [x \in G |-> IF x = g THEN "ret" ELSE IF x \in freed THEN Resume(x) ELSE pc[x]]
  /\ selectDone' = [x \in G |-> selectDone[x] \/ (x \in freed /\ IsSelect(x))]
  /\ param' = [x \in G |-> IF x \in freed THEN 0 ELSE param[x]]
  /\ Unlock(g)
  /\ UNCHANGED <<call, elem, result>>

-----------------------------------------------------------------------------
(* selectgo.                                                               *)

(* Mutant of NextLock: the locks are taken in the order of the cases.      *)
NextLockUnsorted(g) ==
  CaseOf(g, SelectInSeq(call[g].cases, LAMBDA k : k.c \in C /\ lock[k.c] # g)).c

(* The channels of the select in the order of their addresses.             *)
NextLock(g) == Min({c \in ChansOf(g) : lock[c] # g})

AllLocked(g) == \A c \in ChansOf(g) : lock[c] = g

(* One lock of sellock.                                                    *)
sellock(g) ==
  /\ pc[g] \in {"sellock", "relock"}
  /\ ~AllLocked(g)
  /\ lock[NextLock(g)] = None
  /\ lock' = [lock EXCEPT ![NextLock(g)] = g]
  /\ UNCHANGED <<ch, pc, call, gvars, result>>

(* Pass 1 finds case i ready, after those in K, in a random order.         *)
SelectCase(g, i, K) ==
  /\ pc[g] \in {"sellock", "loop"}
  /\ AllLocked(g)
  /\ Ready(CaseOf(g, i))
  /\ \A k \in K : ~Ready(k)
  /\ IF CaseOf(g, i).dir = "send" THEN SendCase(g, i, CaseOf(g, i).c, Tried(K))
                                ELSE RecvCase(g, i, CaseOf(g, i).c, Tried(K))

NoneReady(g) ==
  /\ pc[g] \in {"sellock", "loop"}
  /\ AllLocked(g)
  /\ \A i \in DOMAIN call[g].cases : ~Ready(CaseOf(g, i))

SelectDefault(g) ==
  /\ NoneReady(g)
  /\ ~call[g].block
  /\ ch' = Tried(ToSet(call[g].cases))
  /\ End(g, Result("default", 0, None))

(* Pass 2: enqueue on all channels, in lock order (cases on one channel in *)
(* any order), and park.                                                   *)
SelectPark(g, order) ==
  /\ NoneReady(g)
  /\ call[g].block
  /\ ch' = Enqueue(g, order, Tried(ToSet(call[g].cases)))
  /\ pc' = [pc EXCEPT ![g] = "parked"]
  /\ Unlock(g)
  /\ UNCHANGED <<call, gvars, result>>

(* Pass 3: leave the other queues; after a close, try again.               *)
SelectWakeUp(g) ==
  LET leave(q) == Keep(q, {n \in DOMAIN q : q[n].g # g}) IN
  /\ Goto(g, "relock", IF param[g] # 0 THEN "ret" ELSE "loop")
  /\ AllLocked(g)
  /\ ch' = [c \in C |-> IF c \notin ChansOf(g) THEN ch[c]
                        ELSE [ch[c] EXCEPT !.recvq = leave(@), !.sendq = leave(@)]]
  /\ selectDone' = [selectDone EXCEPT ![g] = FALSE]
  /\ param' = [param EXCEPT ![g] = 0]
  /\ IF param[g] = 0 THEN UNCHANGED <<lock, result>>
     ELSE Unlock(g) /\ result' = [result EXCEPT ![g] = Completed(g)]
  /\ UNCHANGED <<call, elem>>

(* The call returns.                                                       *)
Return(g) ==
  /\ Goto(g, "ret", "idle")
  /\ call' = [call EXCEPT ![g] = Idle]
  /\ elem' = [elem EXCEPT ![g] = None]
  /\ result' = [result EXCEPT ![g] = Pending]
  /\ UNCHANGED <<ch, lock, selectDone, param>>

-----------------------------------------------------------------------------
SingleStep(g) ==
  \/ NilChan(g)
  \/ SendLoadClosed(g) \/ SendLoadFull(g) \/ SendLoadFullFirst(g) \/ SendLoadClosedSecond(g)
  \/ RecvLoadEmpty(g) \/ RecvLoadClosed(g) \/ RecvLoadEmptyAgain(g)
  \/ chansend(g) \/ chanrecv(g) \/ WouldBlock(g) \/ Park(g) \/ WakeUp(g)
  \/ closechan(g) \/ ReleaseAll(g)

SelectStep(g) ==
  \/ sellock(g)
  \/ \E i \in DOMAIN call[g].cases, K \in SUBSET ToSet(call[g].cases) : SelectCase(g, i, K)
  \/ SelectDefault(g)
  \/ \E order \in SetToSeqs(DOMAIN call[g].cases) : SelectPark(g, order)
  \/ SelectWakeUp(g)

Step(g) ==
  \/ SingleStep(g)
  \/ call[g] # Idle /\ SelectStep(g)
  \/ Return(g)

(* Whether the channel of a non-blocking call is open and not ready.       *)
OpenNotReady(g) == ~ch[The(g)].closed /\ ~Ready(CaseOf(g, 1))

SendPath == {"sendClosed", "sendFull", "sendFullFirst", "sendClosedSecond"}
RecvPath == {"recvEmpty", "recvClosed", "recvAgain"}
FastPath == SendPath \cup RecvPath

Observe == seen' = [g \in G |-> pc'[g] \in FastPath /\ (seen[g] \/ OpenNotReady(g)')]

(* A step of a program whose goroutines make the calls in calls.           *)
NextWith(calls) ==
  /\ \E g \in G : Step(g) \/ \E o \in calls : Call(g, o)
  /\ Observe

Next == NextWith(Calls)

Spec == Init /\ [][Next]_vars

-----------------------------------------------------------------------------
InSelect == {"sellock", "relock", "loop"}
PC == {"idle", "nil", "lock", "release", "parked", "woken", "ret"} \cup InSelect \cup FastPath

(* The places in a buffer, and the states of hchan.                        *)
Index(c) == {0} \cup 0..(Size[c] - 1)

Hchan(c) ==
  [closed : BOOLEAN, buf : [0..(Size[c] - 1) -> G \cup {None}], sendx : Index(c), recvx : Index(c),
   qcount : 0..Size[c], recvq : Seq(Sudogs), sendq : Seq(Sudogs)]

Results ==
  [how : {"pending", "sent", "received", "closed", "done", "default", "panic"}, i : Nat,
   val : G \cup {None}]

(* No result is "throw": a goroutine is not woken with gp.param = nil from *)
(* a send on a channel that is open ("chansend: spurious wakeup").         *)
TypeOK ==
  /\ DOMAIN ch = C /\ \A c \in C : ch[c] \in Hchan(c)
  /\ lock \in [C -> G \cup {None}]
  /\ pc \in [G -> PC]
  /\ call \in [G -> Calls \cup {Idle}]
  /\ selectDone \in [G -> BOOLEAN]
  /\ param \in [G -> Nat]
  /\ elem \in [G -> G \cup {None}]
  /\ result \in [G -> Results]
  /\ seen \in [G -> BOOLEAN]

(* Where a call can be.                                                    *)
CallFits(g) ==
  /\ pc[g] = "idle" <=> call[g] = Idle
  /\ pc[g] \in InSelect => IsSelect(g)
  /\ pc[g] = "nil" => ~IsSelect(g) /\ The(g) = 0
  /\ pc[g] \in FastPath \cup {"lock", "release", "woken"} => ~IsSelect(g) /\ The(g) \in C
  /\ pc[g] \in SendPath => CaseOf(g, 1).dir = "send"
  /\ pc[g] \in RecvPath => CaseOf(g, 1).dir = "recv"

(* Only a close that releases the waiters, and a select on its channels,   *)
(* hold a lock from one step to the next; a select has all of them when it *)
(* loops, and comes by them in the order of their addresses.               *)
LocksFit(g) ==
  /\ \A c \in C : lock[c] = g => \/ pc[g] = "release" /\ The(g) = c
                                 \/ pc[g] \in InSelect /\ c \in ChansOf(g)
  /\ pc[g] = "release" => lock[The(g)] = g
  /\ pc[g] = "loop" => AllLocked(g)
  /\ pc[g] \in {"sellock", "relock"} =>
       \A c, d \in ChansOf(g) : lock[c] = g /\ lock[d] # g => c < d

(* A goroutine that is woken without a sudog has had a channel closed, and *)
(* a select that has been signalled is known by its selectDone.            *)
WakeUpFits(g) ==
  /\ selectDone[g] <=> pc[g] = "relock"
  /\ pc[g] = "release" => ch[The(g)].closed
  /\ pc[g] = "woken" /\ param[g] = 0 => ch[The(g)].closed
  /\ (pc[g] = "loop" \/ (pc[g] = "relock" /\ param[g] = 0)) => \E c \in ChansOf(g) : ch[c].closed

(* What a fast path has read stands for a moment in which it might give    *)
(* up, unless the channel has been closed.                                 *)
SeenFits(g) ==
  pc[g] \in FastPath =>
    /\ OpenNotReady(g) => seen[g]
    /\ pc[g] \in {"recvClosed", "sendClosedSecond"} => seen[g] \/ ch[The(g)].closed
    /\ pc[g] = "sendFull" /\ Size[The(g)] > 0 /\ ch[The(g)].closed =>
         seen[g] \/ ch[The(g)].qcount < Size[The(g)]

(* The invariants at the head of chan.go: nobody waits to send who could,  *)
(* nor to receive, although dequeue leaves stale sudogs behind.  At least  *)
(* one of sendq and recvq is empty, or one select is in both of them.      *)
QueueInvariants ==
  \A c \in C :
    LET h == ch[c] IN
    /\ h.sendq # <<>> /\ h.recvq # <<>> =>
         Size[c] = 0 /\ \E g \in G : \A s \in ToSet(h.recvq) \cup ToSet(h.sendq) : s.g = g
    /\ Size[c] > 0 /\ h.qcount > 0 => h.recvq = <<>>
    /\ h.qcount < Size[c] => h.sendq = <<>>

Queue(c, d) == IF d = "recv" THEN ch[c].recvq ELSE ch[c].sendq

(* s may be in the queue of those who wait to go in direction d on c.      *)
Waits(s, d, c) ==
  /\ pc[s.g] \in {"parked", "relock"}
  /\ s.i \in DOMAIN call[s.g].cases
  /\ CaseOf(s.g, s.i) = [dir |-> d, c |-> c]

(* The queues hold only sudogs of goroutines that are still in the call,   *)
(* at most once each, and a goroutine that sleeps is in all its queues: a  *)
(* select that has returned has left all its channels.                     *)
SudogsOfWaiters ==
  \A c \in C : \A d \in {"send", "recv"} :
    /\ IsInjective(Queue(c, d))
    /\ \A s \in ToSet(Queue(c, d)) : Waits(s, d, c)
    /\ \A g \in G : pc[g] = "parked" =>
         \A i \in DOMAIN call[g].cases :
           CaseOf(g, i) = [dir |-> d, c |-> c] => Sudog(g, i) \in ToSet(Queue(c, d))

(* Once closechan is through, nobody sleeps on the channel, and nobody     *)
(* goes to sleep on it later.                                              *)
CloseReleases ==
  \A c \in C :
    ch[c].closed => \/ ch[c].recvq = <<>> /\ ch[c].sendq = <<>>
                    \/ lock[c] \in G /\ pc[lock[c]] = "release"

(* Nobody sleeps who could go on, nobody is left in a queue or missing     *)
(* from one, and whoever wakes up finds what it has been woken for.        *)
WaitQueues ==
  QueueInvariants /\ SudogsOfWaiters /\ CloseReleases /\ \A g \in G : WakeUpFits(g)

(* What the calls do to the queues.                                        *)
WaitersInv ==
  TypeOK /\ WaitQueues /\ \A g \in G : CallFits(g) /\ LocksFit(g) /\ SeenFits(g)

(* A call has its result when it is about to return, or when gp.param says *)
(* which case has been completed; a receiver that a close has woken finds  *)
(* no value left, which its call promises without looking again; only a    *)
(* call that may give up is on a fast path.                                *)
OutcomeFits(g) ==
  /\ pc[g] \in {"ret", "release"} <=> result[g] # Pending
  /\ param[g] # 0 => pc[g] \in {"woken", "relock"} /\ param[g] \in DOMAIN call[g].cases
  /\ pc[g] \in FastPath => ~call[g].block
  /\ pc[g] = "recvAgain" => ch[The(g)].closed
  /\ pc[g] = "woken" /\ param[g] = 0 /\ CaseOf(g, 1).dir = "recv" => ch[The(g)].qcount = 0

(* sendx comes after the last value that is in the buffer.                 *)
RingFits == \A c \in C : Size[c] > 0 => ch[c].sendx = Place(ch[c], c, ch[c].qcount + 1)

(* The inductive invariant.                                                *)
ChanInv == WaitersInv /\ (\A g \in G : OutcomeFits(g)) /\ RingFits

(* No two goroutines wait for locks that the other one has.                *)
NoLockCycle ==
  \A g, h \in G :
    ~ \E c, d \in C : /\ lock[c] = g /\ lock[d] = h
                      /\ c # d
                      /\ pc[g] \in {"sellock", "relock"} /\ ~AllLocked(g) /\ NextLock(g) = d
                      /\ pc[h] \in {"sellock", "relock"} /\ ~AllLocked(h) /\ NextLock(h) = c

(* "We know that something closed, and things never un-close, so we won't  *)
(* block again": a select that a close has woken does not park.            *)
LoopEnds == [][\A g \in G : pc[g] = "loop" => pc'[g] # "parked"]_vars

(* The fast path of a non-blocking call gives up.                          *)
GivesUp(g) == pc[g] \in FastPath /\ pc'[g] = "ret" /\ result'[g].how = "default"

(* A non-blocking send gives up without the lock only if there was a       *)
(* moment during the call when its channel was open and not ready for      *)
(* sending, which is what the comment on the fast path of chansend says.   *)
SendGivesUpRightly == [][\A g \in G : GivesUp(g) /\ CaseOf(g, 1).dir = "send" => seen[g]]_vars

(* A non-blocking call gives up without the lock only if there was a       *)
(* moment during the call when its channel was open and not ready for it.  *)
(* For receives this is always so; for sends, in whichever order the two   *)
(* loads are made, on the channels that have a buffer.                     *)
GivesUpRightly ==
  [][\A g \in G :
       GivesUp(g) /\ (CaseOf(g, 1).dir = "recv" \/ Size[The(g)] > 0) => seen[g]]_vars

(* A call that somebody else has completed has its result already.         *)
Outcome(g) == IF param[g] # 0 THEN Completed(g) ELSE result[g]

(* Channels and select are bounded queues whose calls take effect in one   *)
(* step.                                                                   *)
Abs == INSTANCE Channel WITH
  closed <- [c \in C |-> ch[c].closed],
  queue <- [c \in C |-> Values(ch[c], c)],
  result <- [g \in G |-> Outcome(g)]

ChannelSpec == Abs!Spec

=============================================================================
