------------------------------ MODULE PlainMap ------------------------------
(***************************************************************************)
(* What src/src/sync/map.go promises: a Map "is like a Go map but is safe  *)
(* for concurrent use by multiple goroutines".  Every call takes effect in *)
(* one step between its begin and its return.  A call that changes nothing *)
(* may answer with any value its key had in that time; so may Range for    *)
(* each key ("any mapping for that key from any point during the Range     *)
(* call"), of which a call of Range stands for one.  Map implements it.    *)
(***************************************************************************)
CONSTANTS
  G,    \* the goroutines
  Key,
  None, \* no value, no call
  Calls \* the calls: an operation on a key, and the value it stores if any

VARIABLES
  content, \* content[k]: the value of k, or None
  call,    \* call[g]: the call of g that has not taken effect, or None
  seen,    \* seen[g]: the values that the key of a call had since its begin
  result   \* result[g]: <<value>> when the call has taken effect, else <<>>

vars == <<content, call, seen, result>>

Init ==
  /\ content = [k \in Key |-> None]
  /\ call = [g \in G |-> None]
  /\ seen = [g \in G |-> {}]
  /\ result = [g \in G |-> <<>>]

Begin(g, c) ==
  /\ call[g] = None /\ result[g] = <<>>
  /\ call' = [call EXCEPT ![g] = c]
  /\ seen' = [seen EXCEPT ![g] = {content[c.key]}]
  /\ UNCHANGED <<content, result>>

(* A call that finds its key absent and returns at once.                   *)
BeginAbsent(g, c) ==
  /\ call[g] = None /\ result[g] = <<>>
  /\ c.op \in {"Load", "Range", "LoadAndDelete"} /\ content[c.key] = None
  /\ result' = [result EXCEPT ![g] = <<None>>]
  /\ UNCHANGED <<content, call, seen>>

(* A call that writes v for its key, and returns r.                        *)
Write(g, v, r) ==
  LET k == call[g].key IN
  /\ content' = [content EXCEPT ![k] = v]
  /\ result' = [result EXCEPT ![g] = <<r>>]
  /\ seen' = [h \in G |-> IF h = g THEN {}
                          ELSE IF seen[h] # {} /\ call[h].key = k
                          THEN seen[h] \cup {v} ELSE seen[h]]
  /\ call' = [call EXCEPT ![g] = None]

Effect(g) ==
  /\ call[g] # None
  /\ LET c == call[g]
         old == content[c.key]
     IN \/ c.op = "Store" /\ Write(g, c.val, None)
        \/ c.op = "LoadOrStore" /\ old = None /\ Write(g, c.val, None)
        \/ c.op = "LoadAndDelete" /\ old # None /\ Write(g, None, old)

(* A call that leaves the map alone.                                       *)
Answer(g, v) ==
  /\ call[g] # None
  /\ \/ call[g].op \in {"Load", "Range"}
     \/ call[g].op = "LoadOrStore" /\ v # None
     \/ call[g].op = "LoadAndDelete" /\ v = None
  /\ result' = [result EXCEPT ![g] = <<v>>]
  /\ call' = [call EXCEPT ![g] = None]
  /\ seen' = [seen EXCEPT ![g] = {}]
  /\ UNCHANGED content

Return(g) ==
  /\ result[g] # <<>>
  /\ result' = [result EXCEPT ![g] = <<>>]
  /\ UNCHANGED <<content, call, seen>>

Next ==
  \E g \in G : \/ \E c \in Calls : Begin(g, c) \/ BeginAbsent(g, c)
               \/ Effect(g)
               \/ \E v \in seen[g] : Answer(g, v)
               \/ Return(g)

Spec == Init /\ [][Next]_vars

=============================================================================
