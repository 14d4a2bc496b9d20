------------------------------ MODULE Context ------------------------------
(***************************************************************************)
(* The tree of contexts of package context (src/src/context/context.go):   *)
(* WithCancel, WithDeadline, the cancel functions, the timers and the      *)
(* goroutines that watch a parent of a foreign type.                       *)
(*                                                                         *)
(* An action is one critical section of a context's mu, or one receive     *)
(* from a done channel; cancel keeps c.mu while it cancels the children.   *)
(* c.done is closed in the step that sets c.err, so it is not a variable.  *)
(* Values are left out: a valueCtx passes Done and Err on to its parent.   *)
(***************************************************************************)
EXTENDS Goroutines, Naturals, Sequences

CONSTANTS
  Ctx,    \* the contexts
  Parent, \* Parent[c]
  Timed,  \* the contexts of WithDeadline and WithTimeout
  Custom  \* external: the contexts of foreign types, with a done channel of their own

VARIABLES
  made,     \* the contexts that their users have got
  err,      \* c.err
  mu,       \* mu[c]: the holder of c.mu
  children, \* c.children
  timer,    \* timer[c]: is the timer of c running?
  watched,  \* the contexts whose parent is watched by a goroutine
  stack     \* the calls of each goroutine, the innermost last

(* The tree of the contexts: None is nobody, no error, and the parent of a *)
(* context that is never cancelled through one.                            *)
Errors == {"Canceled", "DeadlineExceeded", "custom"}

ContextsAssumption ==
  Parent \in [Ctx -> Ctx \cup {None}] /\ Custom \subseteq Ctx /\ None \notin Ctx \cup G \cup Errors

ASSUME TreeAssumption == ContextsAssumption

ctxVars == <<made, err, mu, children, timer, watched, stack>>

(* The timer function, or the watching goroutine, of c is called c.        *)
Threads == G \cup Ctx

ContextInit ==
  /\ made = Custom
  /\ err = [c \in Ctx |-> None]
  /\ mu = [c \in Ctx |-> None]
  /\ children = [c \in Ctx |-> {}]
  /\ timer = [c \in Ctx |-> FALSE]
  /\ watched = {}
  /\ stack = [t \in Threads |-> <<>>]

-----------------------------------------------------------------------------
(* A call on c that is at step s: cancel(remove, e), or the With function  *)
(* that makes c.  todo is the children that cancel has still to cancel.    *)
Frame(c, s, remove, e) == [c |-> c, at |-> s, remove |-> remove, err |-> e, todo |-> {}]

Cancels(c, remove, e) == Frame(c, "cancel", remove, e)

Top(t) == stack[t][Len(stack[t])]

At(t, s) == stack[t] # <<>> /\ Top(t).at = s

(* The stack of t with its last frame replaced by the frames of fs.        *)
Replaced(t, fs) == [stack EXCEPT ![t] = SubSeq(@, 1, Len(@) - 1) \o fs]

Continue(t, s) == stack' = Replaced(t, <<[Top(t) EXCEPT !.at = s]>>)

ReturnFrom(t) == stack' = Replaced(t, <<>>)

Free(c) == c \in Ctx => mu[c] = None

(* Is somebody in a call on c?                                             *)
Working(c) == \E t \in Threads : \E i \in DOMAIN stack[t] : stack[t][i].c = c

InPackage(c) == c # None /\ c \notin Custom

(* Where a cancel goes on after its critical section: removeChild, and for *)
(* a timerCtx then the timer.                                              *)
AfterCancel(f) ==
  IF f.remove THEN <<[f EXCEPT !.at = "removeChild"]>>
  ELSE IF f.c \in Timed THEN <<[f EXCEPT !.at = "stopTimer"]>>
  ELSE <<>>

-----------------------------------------------------------------------------
(* cancel of cancelCtx and timerCtx.                                       *)

(* c is already cancelled: only a timerCtx goes on.                        *)
AlreadyCanceled(t) ==
  LET f == Top(t) IN
  /\ At(t, "cancel")
  /\ Free(f.c) /\ err[f.c] # None
  /\ stack' = Replaced(t, IF f.c \in Timed THEN AfterCancel(f) ELSE <<>>)
  /\ UNCHANGED <<made, err, mu, children, timer, watched>>

SetErr(t) ==
  LET f == Top(t) IN
  /\ At(t, "cancel")
  /\ Free(f.c) /\ err[f.c] = None
  /\ mu' = [mu EXCEPT ![f.c] = t]
  /\ err' = [err EXCEPT ![f.c] = f.err]
  /\ stack' = Replaced(t, <<[f EXCEPT !.at = "children", !.todo = children[f.c]]>>)
  /\ UNCHANGED <<made, children, timer, watched>>

(* child.cancel(false, err), with c.mu locked.                             *)
CancelChild(t, k) ==
  LET f == Top(t) IN
  /\ At(t, "children") /\ k \in f.todo
  /\ stack' = Replaced(t, <<[f EXCEPT !.todo = @ \ {k}], Cancels(k, FALSE, f.err)>>)
  /\ UNCHANGED <<made, err, mu, children, timer, watched>>

(* Mutant of ChildrenDone: c leaves its parent before c.mu is unlocked.    *)
ChildrenDoneNested(t) ==
  LET f == Top(t)
      p == Parent[f.c]
  IN
  /\ At(t, "children") /\ f.todo = {}
  /\ f.remove /\ InPackage(p) => Free(p)
  /\ children' = [k \in Ctx |-> IF k = f.c THEN {} ELSE IF f.remove THEN children[k] \ {f.c} ELSE children[k]]
  /\ mu' = [mu EXCEPT ![f.c] = None]
  /\ stack' = Replaced(t, AfterCancel([f EXCEPT !.remove = FALSE]))
  /\ UNCHANGED <<made, err, timer, watched>>

ChildrenDone(t) ==
  LET f == Top(t) IN
  /\ At(t, "children") /\ f.todo = {}
  /\ children' = [children EXCEPT ![f.c] = {}]
  /\ mu' = [mu EXCEPT ![f.c] = None]
  /\ stack' = Replaced(t, AfterCancel(f))
  /\ UNCHANGED <<made, err, timer, watched>>

removeChild(t) ==
  LET f == Top(t)
      p == Parent[f.c]
  IN
  /\ At(t, "removeChild")
  /\ IF InPackage(p)
     THEN Free(p) /\ children' = [children EXCEPT ![p] = @ \ {f.c}]
     ELSE UNCHANGED children
  /\ stack' = Replaced(t, AfterCancel([f EXCEPT !.remove = FALSE]))
  /\ UNCHANGED <<made, err, mu, timer, watched>>

StopTimer(t) ==
  LET c == Top(t).c IN
  /\ At(t, "stopTimer")
  /\ Free(c)
  /\ timer' = [timer EXCEPT ![c] = FALSE]
  /\ ReturnFrom(t)
  /\ UNCHANGED <<made, err, mu, children, watched>>

-----------------------------------------------------------------------------
(* WithCancel and WithDeadline: propagateCancel(parent, c), ...            *)

(* done := parent.Done()                                                   *)
ParentDone(t) ==
  LET p == Parent[Top(t).c] IN
  /\ At(t, "new")
  /\ Free(p)
  /\ Continue(t, IF p = None THEN "arm" ELSE "select")
  /\ UNCHANGED <<made, err, mu, children, timer, watched>>

Select(t) ==
  LET p == Parent[Top(t).c] IN
  /\ At(t, "select")
  /\ Continue(t, IF err[p] # None THEN "parentErr" ELSE "attach")
  /\ UNCHANGED <<made, err, mu, children, timer, watched>>

(* child.cancel(false, parent.Err())                                       *)
ParentErr(t) ==
  LET f == Top(t)
      p == Parent[f.c]
  IN
  /\ At(t, "parentErr")
  /\ Free(p)
  /\ stack' = Replaced(t, <<[f EXCEPT !.at = "arm"], Cancels(f.c, FALSE, err[p])>>)
  /\ UNCHANGED <<made, err, mu, children, timer, watched>>

(* Mutant of Attach: the parent may have been cancelled since Select.      *)
AttachUnchecked(t) ==
  LET c == Top(t).c
      p == Parent[c]
  IN
  /\ At(t, "attach") /\ InPackage(p)
  /\ Free(p)
  /\ children' = [children EXCEPT ![p] = @ \cup {c}]
  /\ Continue(t, "arm")
  /\ UNCHANGED <<made, err, mu, timer, watched>>

(* The parent is one of the package's: c becomes one of its children ...   *)
Attach(t) ==
  LET c == Top(t).c
      p == Parent[c]
  IN
  /\ At(t, "attach") /\ InPackage(p)
  /\ Free(p) /\ err[p] = None
  /\ children' = [children EXCEPT ![p] = @ \cup {c}]
  /\ Continue(t, "arm")
  /\ UNCHANGED <<made, err, mu, timer, watched>>

(* ... or is cancelled, with p.mu locked.                                  *)
AttachLate(t) ==
  LET f == Top(t)
      p == Parent[f.c]
  IN
  /\ At(t, "attach") /\ InPackage(p)
  /\ Free(p) /\ err[p] # None
  /\ mu' = [mu EXCEPT ![p] = t]
  /\ stack' = Replaced(t, <<[f EXCEPT !.at = "unlock"], Cancels(f.c, FALSE, err[p])>>)
  /\ UNCHANGED <<made, err, children, timer, watched>>

UnlockParent(t) ==
  /\ At(t, "unlock")
  /\ mu' = [mu EXCEPT ![Parent[Top(t).c]] = None]
  /\ Continue(t, "arm")
  /\ UNCHANGED <<made, err, children, timer, watched>>

(* It is a foreign type: a new goroutine watches it.                       *)
Watch(t) ==
  LET c == Top(t).c IN
  /\ At(t, "attach") /\ Parent[c] \in Custom
  /\ watched' = watched \cup {c}
  /\ Continue(t, "arm")
  /\ UNCHANGED <<made, err, mu, children, timer>>

(* ... and then the timer of WithDeadline, unless the deadline has already *)
(* passed, or c has been cancelled.                                        *)
DeadlinePassed(t) ==
  LET f == Top(t) IN
  /\ At(t, "arm") /\ f.c \in Timed
  /\ stack' = Replaced(t, <<[f EXCEPT !.at = "return"], Cancels(f.c, TRUE, "DeadlineExceeded")>>)
  /\ UNCHANGED <<made, err, mu, children, timer, watched>>

Arm(t) ==
  LET c == Top(t).c IN
  /\ At(t, "arm")
  /\ c \in Timed => Free(c)
  /\ timer' = [timer EXCEPT ![c] = c \in Timed /\ err[c] = None]
  /\ Continue(t, "return")
  /\ UNCHANGED <<made, err, mu, children, watched>>

Return(t) ==
  LET c == Top(t).c IN
  /\ At(t, "return")
  /\ made' = made \cup {c}
  /\ ReturnFrom(t)
  /\ UNCHANGED <<err, mu, children, timer, watched>>

-----------------------------------------------------------------------------
(* The calls of the users, each with a context they have.                  *)
Start(t, f) == stack[t] = <<>> /\ stack' = [stack EXCEPT ![t] = <<f>>]

New(g, c) ==
  /\ c \notin made /\ ~Working(c)
  /\ Parent[c] \in made \cup {None}
  /\ Start(g, Frame(c, "new", FALSE, None))
  /\ UNCHANGED <<made, err, mu, children, timer, watched>>

(* The cancel function.  The one that WithDeadline returns when it found   *)
(* the deadline passed is cancel(false, Canceled).                         *)
CancelFunc(g, c) ==
  /\ c \in made \ Custom
  /\ \E remove \in IF c \in Timed /\ err[c] = "DeadlineExceeded" THEN BOOLEAN ELSE {TRUE} :
       Start(g, Cancels(c, remove, "Canceled"))
  /\ UNCHANGED <<made, err, mu, children, timer, watched>>

(* The timer of c goes off.                                                *)
TimerFires(c) ==
  /\ timer[c]
  /\ timer' = [timer EXCEPT ![c] = FALSE]
  /\ Start(c, Cancels(c, TRUE, "DeadlineExceeded"))
  /\ UNCHANGED <<made, err, mu, children, watched>>

(* The goroutine that waits for the parent's done channel and for c's.     *)
WatcherWakes(c) ==
  /\ c \in watched
  /\ watched' = watched \ {c}
  /\ \/ err[Parent[c]] # None /\ Start(c, Cancels(c, FALSE, err[Parent[c]]))
     \/ err[c] # None /\ UNCHANGED stack
  /\ UNCHANGED <<made, err, mu, children, timer>>

(* External: a context of a foreign type is cancelled.                     *)
CustomDone(x) ==
  /\ err[x] = None
  /\ err' = [err EXCEPT ![x] = "custom"]
  /\ UNCHANGED <<made, mu, children, timer, watched, stack>>

-----------------------------------------------------------------------------
CancelStep(t) ==
  \/ AlreadyCanceled(t) \/ SetErr(t) \/ (\E k \in Ctx : CancelChild(t, k)) \/ ChildrenDone(t)
  \/ removeChild(t) \/ StopTimer(t)

NewStep(t) ==
  \/ ParentDone(t) \/ Select(t) \/ ParentErr(t) \/ Attach(t) \/ AttachLate(t) \/ UnlockParent(t)
  \/ Watch(t) \/ DeadlinePassed(t) \/ Arm(t) \/ Return(t)

Step(t) == CancelStep(t) \/ NewStep(t)

ContextNext ==
  \/ \E t \in Threads : Step(t)
  \/ \E g \in G, c \in Ctx : New(g, c) \/ CancelFunc(g, c)
  \/ \E c \in Ctx : TimerFires(c) \/ WatcherWakes(c)
  \/ \E x \in Custom : CustomDone(x)

ContextSpec == ContextInit /\ [][ContextNext]_ctxVars

(* A call that has begun goes on, and so does a goroutine that has been    *)
(* woken.  Weak fairness is enough for the locks: a mu is kept from one    *)
(* step to another only once by SetErr and once for each late child.       *)
ContextFairness ==
  /\ \A t \in Threads : WF_ctxVars(Step(t))
  /\ \A c \in Ctx : WF_ctxVars(WatcherWakes(c))

-----------------------------------------------------------------------------
(* Every context that a user has got follows its parent: it is among the   *)
(* parent's children, or watches it, until one of the two is cancelled;    *)
(* and with a cancelled parent that is unlocked, it is cancelled.  A       *)
(* context that has been cancelled leaves nothing behind: its parent does  *)
(* not refer to it, it has no children, and its timer is stopped.          *)
ChildrenFollow ==
  \A c \in made \ Custom :
    LET p == Parent[c] IN
    /\ InPackage(p) /\ err[c] = None => mu[p] # None \/ (err[p] = None /\ c \in children[p])
    /\ p \in Custom /\ err[c] = None => c \in watched \/ Working(c)
    /\ err[c] # None /\ ~Working(c) =>
         /\ children[c] = {} /\ ~timer[c]
         /\ InPackage(p) => mu[p] # None \/ c \notin children[p]

(* The steps of cancel, and of the With functions: before the new context  *)
(* is tied to its parent, and after that.                                  *)
Cancelling == {"cancel", "children", "removeChild", "stopTimer"}
Early == {"new", "select", "parentErr", "attach"}
Late == {"unlock", "arm", "return"}

Frames == [c : Ctx \ Custom, at : Cancelling \cup Early \cup Late, remove : BOOLEAN,
           err : Errors \cup {None}, todo : SUBSET Ctx]

(* Is somebody in a call on c that is at a step of S?                      *)
InCall(c, S) == \E t \in Threads : \E i \in DOMAIN stack[t] : stack[t][i].c = c /\ stack[t][i].at \in S

(* t makes c, and is at a step of S or in a call inside.                   *)
Makes(t, c, S) == stack[t] # <<>> /\ stack[t][1].c = c /\ stack[t][1].at \in S

Known(c) == c \in made \/ \E t \in Threads : Makes(t, c, Early \cup Late)

InTree(c) == c \in made \/ \E t \in Threads : Makes(t, c, Late)

(* Nobody refers to c.                                                     *)
Untouched(c) == err[c] = None /\ ~timer[c] /\ c \notin watched /\ \A p \in Ctx : c \notin children[p]

ContextTypeOK ==
  /\ Custom \subseteq made /\ made \subseteq Ctx
  /\ err \in [Ctx -> Errors \cup {None}]
  /\ mu \in [Ctx -> Threads \cup {None}]
  /\ DOMAIN children = Ctx /\ \A p \in Ctx : children[p] \subseteq {c \in Ctx \ Custom : Parent[c] = p}
  /\ timer \in [Ctx -> BOOLEAN] /\ \A c \in Ctx : timer[c] => c \in Timed \ Custom
  /\ watched \subseteq {c \in Ctx \ Custom : Parent[c] \in Custom}
  /\ stack \in [Threads -> Seq(Frames)]

(* The contexts that a call refers to, and what it knows about its own     *)
(* context and the parent.                                                 *)
Refers(f) ==
  /\ Known(f.c)
  /\ f.at = "children" => \A k \in f.todo : k \in Ctx \ Custom /\ Parent[k] = f.c /\ InTree(k)

CallFits(f) ==
  /\ f.at \in Cancelling => f.err # None
  /\ f.at \in Cancelling \ {"cancel"} => err[f.c] # None
  /\ f.at \in {"select", "parentErr", "attach", "unlock"} => Parent[f.c] # None
  /\ f.at \in {"parentErr", "unlock"} => err[Parent[f.c]] # None
  /\ f.at = "unlock" => InPackage(Parent[f.c])

(* f calls k, which is always a cancel: of a child, or of the new context. *)
Calls(f, k) ==
  /\ k.at \in Cancelling
  /\ \/ f.at = "children" /\ Parent[k.c] = f.c /\ ~k.remove
     \/ f.at \in {"arm", "unlock"} /\ k.c = f.c /\ ~k.remove
     \/ f.at = "return" /\ k.c = f.c /\ (k.at = "cancel" => k.remove)

StackFits(t) ==
  /\ \A i \in DOMAIN stack[t] : Refers(stack[t][i]) /\ CallFits(stack[t][i])
  /\ \A i \in DOMAIN stack[t] : i > 1 => Calls(stack[t][i - 1], stack[t][i])
  /\ stack[t] # <<>> =>
       LET f == stack[t][1] IN
       f.at = "cancel" /\ ~f.remove => err[f.c] # None \/ Parent[f.c] \in Custom

(* Whoever makes c is alone with it until it is tied to its parent.        *)
MakerFits(t, c) ==
  /\ c \notin made /\ \A u \in Threads : Makes(u, c, Early \cup Late) => u = t
  /\ Makes(t, c, Early) =>
       Untouched(c) /\ \A u \in Threads : \A i \in DOMAIN stack[u] : stack[u][i].c = c => u = t /\ i = 1
  /\ Makes(t, c, {"arm", "unlock"}) /\ Len(stack[t]) > 1 => \A p \in Ctx : c \notin children[p]

(* The context whose mu the call f holds.                                  *)
Held(f) == IF f.at = "children" THEN f.c ELSE IF f.at = "unlock" THEN Parent[f.c] ELSE None

LocksHeld ==
  \A t \in Threads : \A i \in DOMAIN stack[t] :
    Held(stack[t][i]) # None =>
      /\ mu[Held(stack[t][i])] = t
      /\ \A j \in DOMAIN stack[t] : Held(stack[t][j]) = Held(stack[t][i]) => j = i

(* The call that makes c cancels it, for the parent is cancelled.          *)
MakerCancels(c) ==
  \E t \in Threads : Makes(t, c, {"arm", "unlock"}) /\ Len(stack[t]) = 2 /\ stack[t][2].at = "cancel"

(* Somebody who cancels p has c still to do.                               *)
ParentCancels(p, c) ==
  \E t \in Threads : \E i \in DOMAIN stack[t] :
    /\ stack[t][i].c = p /\ stack[t][i].at = "children"
    /\ \/ c \in stack[t][i].todo
       \/ i + 1 \in DOMAIN stack[t] /\ stack[t][i + 1].c = c /\ stack[t][i + 1].at = "cancel"

(* c is tied to its parent.                                                *)
Tied(c) ==
  LET p == Parent[c] IN
  /\ InPackage(p) => \/ err[p] = None /\ c \in children[p]
                     \/ ParentCancels(p, c) \/ MakerCancels(c)
  /\ p \in Custom => \/ c \in watched
                     \/ stack[c] # <<>> /\ stack[c][1].c = c /\ stack[c][1].at = "cancel"
                     \/ MakerCancels(c)

(* Somebody clears away what a cancelled context has left.                 *)
Cleared(c) ==
  LET p == Parent[c] IN
  /\ children[c] = {} \/ InCall(c, {"children"})
  /\ timer[c] => InCall(c, {"children", "removeChild", "stopTimer"})
  /\ InPackage(p) /\ c \in children[p] =>
       \/ InCall(p, {"children"})
       \/ \E t \in Threads : \E i \in DOMAIN stack[t] :
            stack[t][i].c = c /\ stack[t][i].remove /\ stack[t][i].at \in {"children", "removeChild"}

(* The inductive part, and what follows from it.                           *)
TreeInv ==
  /\ ContextTypeOK
  /\ \A t \in Threads : StackFits(t)
  /\ \A c \in Ctx : ~Known(c) => Untouched(c)
  /\ \A t \in Threads, c \in Ctx : Makes(t, c, Early \cup Late) => MakerFits(t, c)
  /\ LocksHeld
  /\ \A c \in Ctx \ Custom : /\ InTree(c) => err[c] # None \/ Tied(c)
                             /\ err[c] # None => Cleared(c)

ContextInv == TreeInv /\ ChildrenFollow

(* Cancellation arrives, and every call returns: the locks of a path in    *)
(* the tree are taken downwards only, so nobody waits for ever.            *)
Propagates ==
  /\ \A c \in Ctx : c \in made /\ Parent[c] # None /\ err[Parent[c]] # None ~> err[c] # None
  /\ \A t \in Threads : stack[t] # <<>> ~> stack[t] = <<>>

=============================================================================
