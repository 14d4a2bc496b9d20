------------------------------ MODULE Channel ------------------------------
(***************************************************************************)
(* What the channels of src/src/runtime/chan.go and the select statement   *)
(* of src/src/runtime/select.go promise: every channel is a bounded first- *)
(* in first-out queue, or a rendezvous if its size is 0; a call has        *)
(* several cases, of which exactly one takes effect, in one step; a value  *)
(* that is sent is received once; close ends the sends and, when the queue *)
(* is empty, the receives.                                                 *)
(*                                                                         *)
(* The value of a send is its goroutine.                                   *)
(***************************************************************************)
EXTENDS Naturals, Sequences

CONSTANTS
  G,     \* the goroutines
  None,  \* no value: the zero value of the element type
  Size,  \* Size[c]: the size of the buffer of channel c
  Idle,  \* no call
  Calls  \* the calls: a sequence of cases, and whether the call may block

VARIABLES
  closed,  \* the channels that are closed, as a function to BOOLEAN
  queue,   \* queue[c]: the values in the channel
  call,    \* call[g]: the cases of the call of g, and whether it may block
  result   \* result[g]: how the call ended, once it has taken effect

vars == <<closed, queue, call, result>>

C == DOMAIN Size

Pending == [how |-> "pending", i |-> 0, val |-> None]

Init ==
  /\ closed = [c \in C |-> FALSE]
  /\ queue = [c \in C |-> <<>>]
  /\ call = [g \in G |-> Idle]
  /\ result = [g \in G |-> Pending]

Begin(g) ==
  /\ call[g] = Idle
  /\ \E o \in Calls : call' = [call EXCEPT ![g] = o]
  /\ UNCHANGED <<closed, queue, result>>

(* Case i of the call of g, which has not taken effect yet, is a d on c.   *)
Has(g, i, d, c) ==
  /\ call[g] # Idle
  /\ result[g] = Pending
  /\ i \in DOMAIN call[g].cases
  /\ call[g].cases[i] = [dir |-> d, c |-> c]

With(g, how, i, val) == [result EXCEPT ![g] = [how |-> how, i |-> i, val |-> val]]

Send(g, i, c) ==
  /\ Has(g, i, "send", c)
  /\ ~closed[c]
  /\ Len(queue[c]) < Size[c]
  /\ queue' = [queue EXCEPT ![c] = Append(@, g)]
  /\ result' = With(g, "sent", i, None)
  /\ UNCHANGED <<closed, call>>

Receive(g, i, c) ==
  /\ Has(g, i, "recv", c)
  /\ queue[c] # <<>>
  /\ queue' = [queue EXCEPT ![c] = Tail(@)]
  /\ result' = With(g, "received", i, Head(queue[c]))
  /\ UNCHANGED <<closed, call>>

(* A receive from a full queue lets a blocked send in at its end; with an  *)
(* empty queue the value goes from the one to the other.                   *)
Exchange(g, i, h, j, c) ==
  /\ Has(g, i, "recv", c)
  /\ Has(h, j, "send", c)
  /\ g # h
  /\ ~closed[c]
  /\ Len(queue[c]) \in {0, Size[c]}
  /\ LET after == Append(queue[c], h) IN
     /\ queue' = [queue EXCEPT ![c] = Tail(after)]
     /\ result' = [result EXCEPT ![g] = [how |-> "received", i |-> i, val |-> Head(after)],
                                 ![h] = [how |-> "sent", i |-> j, val |-> None]]
  /\ UNCHANGED <<closed, call>>

ReceiveClosed(g, i, c) ==
  /\ Has(g, i, "recv", c)
  /\ closed[c]
  /\ queue[c] = <<>>
  /\ result' = With(g, "closed", i, None)
  /\ UNCHANGED <<closed, queue, call>>

SendClosed(g, i, c) ==
  /\ Has(g, i, "send", c)
  /\ closed[c]
  /\ result' = With(g, "panic", i, None)
  /\ UNCHANGED <<closed, queue, call>>

(* A call that may not block gives up.                                     *)
Default(g) ==
  /\ call[g] # Idle
  /\ ~call[g].block
  /\ result[g] = Pending
  /\ result' = With(g, "default", 0, None)
  /\ UNCHANGED <<closed, queue, call>>

Close(g, c) ==
  /\ Has(g, 1, "close", c)
  /\ ~closed[c]
  /\ closed' = [closed EXCEPT ![c] = TRUE]
  /\ result' = With(g, "done", 1, None)
  /\ UNCHANGED <<queue, call>>

(* The channel is closed already, or nil.                                  *)
ClosePanics(g, c) ==
  /\ Has(g, 1, "close", c)
  /\ c \in C => closed[c]
  /\ result' = With(g, "panic", 1, None)
  /\ UNCHANGED <<closed, queue, call>>

End(g) ==
  /\ result[g] # Pending
  /\ call' = [call EXCEPT ![g] = Idle]
  /\ result' = [result EXCEPT ![g] = Pending]
  /\ UNCHANGED <<closed, queue>>

CaseStep(g, i) ==
  \/ \E c \in C : Send(g, i, c) \/ Receive(g, i, c) \/ ReceiveClosed(g, i, c) \/ SendClosed(g, i, c)
  \/ \E h \in G : call[h] # Idle /\ \E j \in DOMAIN call[h].cases, c \in C : Exchange(g, i, h, j, c)

Next ==
  \E g \in G :
    \/ Begin(g) \/ Default(g) \/ End(g)
    \/ \E c \in C \cup {0} : (c \in C /\ Close(g, c)) \/ ClosePanics(g, c)
    \/ call[g] # Idle /\ \E i \in DOMAIN call[g].cases : CaseStep(g, i)

Spec == Init /\ [][Next]_vars

=============================================================================
