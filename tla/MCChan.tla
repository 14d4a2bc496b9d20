------------------------------- MODULE MCChan -------------------------------
(***************************************************************************)
(* Goroutines on channels without a buffer (1), and with room for one (2)  *)
(* and for two values (3).  The initial state chooses one of the scenarios *)
(* below: the calls that the goroutines make, over and over.               *)
(***************************************************************************)
EXTENDS Chan, TLC

CONSTANT Scenarios  \* the sets of calls to choose from

VARIABLE calls      \* the one that was chosen

Recv(c) == [dir |-> "recv", c |-> c]
Send(c) == [dir |-> "send", c |-> c]
Chan(k, block) == [kind |-> "chan", cases |-> <<k>>, block |-> block]
Closing(c) == [kind |-> "closechan", cases |-> <<[dir |-> "close", c |-> c]>>, block |-> TRUE]
Selecting(cases, block) == [kind |-> "selectgo", cases |-> cases, block |-> block]

Sizes == 1 :> 0 @@ 2 :> 1 @@ 3 :> 2

(* Every call on the channel c.                                            *)
CallsOn(c) == {Chan(k, block) : k \in {Send(c), Recv(c)}, block \in BOOLEAN} \cup {Closing(c)}

(* Every call on a channel without a buffer, and on nil.                   *)
Rendezvous == CallsOn(1) \cup CallsOn(0)

(* Every call on a channel with a buffer of one; a buffer of two is used   *)
(* by calls that block.                                                    *)
Buffered == CallsOn(2)
Ring == {Chan(Send(3), TRUE), Chan(Recv(3), TRUE), Closing(3)}

(* Selects that name two channels in either order.                         *)
Crossing ==
  { Selecting(<<Recv(1), Send(2)>>, TRUE), Selecting(<<Recv(2), Send(1)>>, TRUE),
    Chan(Send(1), TRUE), Chan(Recv(2), TRUE), Closing(1) }

(* Selects with two cases on one channel, with a nil channel, and with a   *)
(* default.                                                                *)
Doubled ==
  { Selecting(<<Send(1), Recv(1)>>, TRUE), Selecting(<<Recv(2), Recv(2), Recv(0)>>, TRUE),
    Selecting(<<Recv(1), Send(2)>>, FALSE),
    Chan(Recv(1), TRUE), Chan(Send(2), TRUE), Closing(2) }

AllScenarios == {Rendezvous, Buffered, Ring, Crossing, Doubled}
Unbuffered == {CallsOn(1)}
AllCalls == UNION Scenarios

MCInit == Init /\ calls \in Scenarios
MCNext == NextWith(calls) /\ UNCHANGED calls
MCSpec == MCInit /\ [][MCNext]_<<vars, calls>>

Symmetry == Permutations(G)

=============================================================================
