---------------------------- MODULE TimerService ----------------------------
(***************************************************************************)
(* What the timers of src/src/runtime/time.go promise package time: a      *)
(* timer goes off only while it is set and not before its time, once, or   *)
(* at most once per period; and stopping or resetting it tells whether it  *)
(* was still set.  That a timer goes off at all is not promised here: that *)
(* is up to whether a P runs.  Timers implements it.                       *)
(***************************************************************************)
EXTENDS Naturals

CONSTANTS
  G,       \* the goroutines that use the timers
  Timer,
  Setting, \* what a timer can be set to: when, and a period or 0
  None     \* not set

VARIABLES
  now,    \* the time
  set,    \* set[t]: when and with which period t goes off, or None
  answer  \* answer[u]: <<was the timer set?>> when the call has taken effect, else <<>>

vars == <<now, set, answer>>

Init ==
  /\ now = 0
  /\ set = [t \in Timer |-> None]
  /\ answer = [u \in G |-> <<>>]

Tick == now' = now + 1 /\ UNCHANGED <<set, answer>>

(* A call of startTimer, resetTimer or (None) stopTimer takes effect.      *)
Call(u, t) ==
  /\ answer[u] = <<>> /\ answer' = [answer EXCEPT ![u] = <<set[t] # None>>]
  /\ \E s \in Setting \cup {None} : set' = [set EXCEPT ![t] = s]
  /\ UNCHANGED now

Return(u) ==
  /\ answer[u] # <<>> /\ answer' = [answer EXCEPT ![u] = <<>>]
  /\ UNCHANGED <<now, set>>

GoesOff(t) ==
  /\ set[t] # None /\ set[t].when <= now
  /\ \/ set[t].period = 0 /\ set' = [set EXCEPT ![t] = None]
     \/ /\ set[t].period > 0
        /\ \E k \in 1..(now + 1) : set' = [set EXCEPT ![t].when = @ + k * set[t].period]
  /\ UNCHANGED <<now, answer>>

Next ==
  \/ Tick
  \/ \E u \in G : Return(u) \/ \E t \in Timer : Call(u, t)
  \/ \E t \in Timer : GoesOff(t)

Spec == Init /\ [][Next]_vars

=============================================================================
