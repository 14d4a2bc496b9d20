--------------------------- MODULE ContextProofs ---------------------------
(***************************************************************************)
(* Proofs about module Context for every tree of contexts and any number   *)
(* of goroutines: ContextInv is inductive.                                 *)
(***************************************************************************)
EXTENDS Context, SequenceTheorems, TLAPS

(* The stack of t becomes its first m calls and those of gs.               *)
Stacked(t, m, gs) ==
  /\ stack' \in [Threads -> Seq(Frames)]
  /\ \A u \in Threads \ {t} : stack'[u] = stack[u]
  /\ m \in Nat /\ m <= Len(stack[t]) /\ Len(gs) \in Nat /\ Len(stack'[t]) = m + Len(gs)
  /\ DOMAIN stack[t] = 1..Len(stack[t]) /\ DOMAIN stack'[t] = 1..(m + Len(gs))
  /\ \A i \in 1..m : stack'[t][i] = stack[t][i]
  /\ \A j \in 1..Len(gs) : stack'[t][m + j] = gs[j] /\ gs[j] \in Frames

(* The innermost call of t goes on, calls another one, or ends.            *)
LEMMA Replacing ==
  ASSUME stack \in [Threads -> Seq(Frames)], NEW t \in Threads, stack[t] # <<>>,
         NEW gs \in Seq(Frames), stack' = Replaced(t, gs)
  PROVE  /\ Stacked(t, Len(stack[t]) - 1, gs)
         /\ Len(stack[t]) \in Nat \ {0} /\ Top(t) \in Frames
  <1> DEFINE s == stack[t]
             n == Len(s)
             r == SubSeq(s, 1, n - 1)
  <1>1. s \in Seq(Frames) /\ n \in Nat \ {0} /\ DOMAIN s = 1..n
    OBVIOUS
  <1>2. /\ r \in Seq(Frames) /\ Len(r) = n - 1
        /\ \A i \in 1..(n - 1) : r[i] = s[i]
    <2>1. \A i \in 1..(n - 1) : s[i] \in Frames
      BY <1>1
    <2> HIDE DEF s
    <2>2. 1 \in 1..(n + 1) /\ n - 1 \in 0..n
      BY <1>1 DEF n
    <2> QED
      BY <1>1, <2>1, <2>2, SubSeqProperties
  <1>3. stack' = [stack EXCEPT ![t] = r \o gs]
    BY DEF Replaced
  <1> HIDE DEF r
  <1>4. /\ r \o gs \in Seq(Frames) /\ Len(r \o gs) = n - 1 + Len(gs)
        /\ \A i \in 1..(n - 1) : (r \o gs)[i] = r[i]
        /\ \A j \in 1..Len(gs) : (r \o gs)[n - 1 + j] = gs[j] /\ gs[j] \in Frames
    <2> HIDE DEF n, s
    <2>1. \A j \in 1..Len(gs) : gs[j] \in Frames
      OBVIOUS
    <2>2. Len(gs) \in Nat
      OBVIOUS
    <2> DEFINE l == Len(gs)
    <2>3. /\ r \o gs \in Seq(Frames) /\ Len(r \o gs) = n - 1 + l
          /\ \A i \in 1..(n - 1 + l) : (r \o gs)[i] = IF i <= n - 1 THEN r[i] ELSE gs[i - (n - 1)]
      <3>1. r \in Seq(Frames) /\ Len(r) = n - 1
        BY <1>2
      <3>2. /\ r \o gs \in Seq(Frames) /\ Len(r \o gs) = Len(r) + Len(gs)
            /\ \A i \in 1..(Len(r) + Len(gs)) : (r \o gs)[i] = IF i <= Len(r) THEN r[i] ELSE gs[i - Len(r)]
        BY <3>1, ConcatProperties, Zenon
      <3> QED
        BY <3>1, <3>2
    <2>4. \A i \in 1..(n - 1) : i \in 1..(n - 1 + l) /\ i <= n - 1
      BY <1>1, <2>2
    <2> HIDE DEF l
    <2> QED
      <3>1. \A i \in 1..(n - 1) : (r \o gs)[i] = r[i]
        BY <2>3, <2>4
      <3>2. \A j \in 1..l : (r \o gs)[n - 1 + j] = gs[j]
        <4> SUFFICES ASSUME NEW j \in 1..l
                     PROVE  (r \o gs)[n - 1 + j] = gs[j]
          OBVIOUS
        <4> DEFINE k == n - 1 + j
        <4>1. k \in 1..(n - 1 + l) /\ ~(k <= n - 1) /\ k - (n - 1) = j
          BY <1>1, <2>2 DEF l
        <4> HIDE DEF k
        <4>2. (r \o gs)[k] = gs[j]
          BY <2>3, <4>1
        <4> QED
          BY <4>2 DEF k
      <3> QED
        BY <2>1, <2>3, <3>1, <3>2 DEF l
  <1> DEFINE q == r \o gs
  <1>5. /\ q \in Seq(Frames) /\ stack'[t] = q /\ stack' \in [Threads -> Seq(Frames)]
        /\ \A u \in Threads \ {t} : stack'[u] = stack[u]
    BY <1>3, <1>4
  <1>6. DOMAIN q = 1..Len(q) /\ Len(gs) \in Nat
    BY <1>4
  <1> HIDE DEF q
  <1>7. /\ Len(stack'[t]) = n - 1 + Len(gs) /\ DOMAIN stack'[t] = 1..(n - 1 + Len(gs))
        /\ \A i \in 1..(n - 1) : stack'[t][i] = s[i]
        /\ \A j \in 1..Len(gs) : stack'[t][n - 1 + j] = gs[j] /\ gs[j] \in Frames
    BY <1>2, <1>4, <1>5, <1>6 DEF q
  <1>8. Top(t) \in Frames
    BY <1>1 DEF Top
  <1> QED
    BY <1>1, <1>5, <1>6, <1>7, <1>8 DEF Stacked

(* A call begins.                                                          *)
LEMMA Starting ==
  ASSUME stack \in [Threads -> Seq(Frames)], NEW t \in Threads, NEW f \in Frames, Start(t, f)
  PROVE  Stacked(t, 0, <<f>>) /\ stack[t] = <<>>
  <1>1. stack[t] = <<>> /\ stack' = [stack EXCEPT ![t] = <<f>>]
    BY DEF Start
  <1>2. <<f>> \in Seq(Frames) /\ Len(<<f>>) = 1 /\ <<f>>[1] = f
    OBVIOUS
  <1>3. /\ stack'[t] = <<f>> /\ stack' \in [Threads -> Seq(Frames)]
        /\ \A u \in Threads \ {t} : stack'[u] = stack[u]
    BY <1>1, <1>2
  <1> QED
    BY <1>1, <1>2, <1>3 DEF Stacked

-----------------------------------------------------------------------------
(* What becomes of the innermost call f of a goroutine: gs takes its place. *)
GoesOn(f, gs) ==
  /\ gs \in Seq(Frames) /\ Len(gs) \in {0, 1, 2}
  /\ gs # <<>> => gs[1].c = f.c /\ (gs[1].remove => f.remove)
  /\ \/ f.at \in Cancelling /\ (gs # <<>> => gs[1].at \in Cancelling \ {"cancel"})
     \/ f.at \in Early /\ Len(gs) = 1 /\ gs[1].at \in Early
     \/ f.at \in Early /\ gs # <<>> /\ gs[1].at \in {"unlock", "arm"}
     \/ f.at = "unlock" /\ Len(gs) = 1 /\ gs[1].at = "arm"
     \/ f.at = "arm" /\ gs # <<>> /\ gs[1].at = "return"
     \/ f.at = "return" /\ gs = <<>> /\ f.c \in made'
  /\ Len(gs) = 2 => /\ gs[2].at = "cancel" /\ Calls(gs[1], gs[2])
                    /\ gs[1].at = "children" => f.at = "children" /\ gs[2].c \in f.todo
  /\ \A j \in 1..Len(gs) : Refers(gs[j]) /\ CallFits(gs[j])'

(* It touches its own context, and the children of that and of the parent. *)
Touches(f, gs) ==
  /\ \A k \in Ctx :
       /\ k \in made => k \in made'
       /\ k \in made' => k \in made \/ (k = f.c /\ f.at = "return")
       /\ err[k] # None => err'[k] = err[k]
       /\ k # f.c => err'[k] = err[k] /\ (timer'[k] => timer[k]) /\ (k \in watched' => k \in watched)
       /\ k \in watched => k \in watched'
       /\ timer'[k] /\ err[k] # None => timer[k]
  /\ \A p \in Ctx :
       /\ children'[p] \subseteq children[p] \cup {f.c}
       /\ f.at # "attach" \/ err[p] # None => children'[p] \subseteq children[p]
       /\ \A k \in children[p] : k \in children'[p] \/ (k = f.c /\ err[k] # None) \/ err[p] # None
  /\ f.at \in Early => \/ Tied(f.c)' /\ gs[1].at \in Late
                       \/ gs[1].at \in Early /\ UNCHANGED <<made, err, timer, watched, children>>
  /\ f.at \in Early /\ Len(gs) = 2 => UNCHANGED children

(* What cancel still has to do is left to gs, or done.                     *)
DoesItsPart(f, gs) ==
  /\ f.at = "cancel" => err'[f.c] # None
  /\ err'[f.c] # err[f.c] =>
       /\ f.at = "cancel" /\ gs # <<>> /\ children' = children
       /\ gs[1].at = "children" /\ gs[1].todo = children[f.c] /\ gs[1].remove = f.remove
  /\ f.at = "children" =>
       \/ Len(gs) = 2 /\ gs[1].at = "children" /\ gs[1].todo = f.todo \ {gs[2].c}
       \/ f.todo = {} /\ children'[f.c] = {}
  /\ f.at \in {"children", "removeChild", "stopTimer"} /\ timer'[f.c] =>
       gs # <<>> /\ gs[1].at \in {"children", "removeChild", "stopTimer"}
  /\ f.at \in {"children", "removeChild"} /\ f.remove =>
       \/ gs # <<>> /\ gs[1].at \in {"children", "removeChild"} /\ gs[1].remove
       \/ InPackage(Parent[f.c]) => f.c \notin children'[Parent[f.c]]

(* It gives back the lock that it holds, or takes one that is free.        *)
Locking(t, f, gs) ==
  /\ \A p \in Ctx : mu'[p] # mu[p] => mu[p] = None \/ p = Held(f)
  /\ gs # <<>> /\ Held(gs[1]) # None =>
       /\ mu'[Held(gs[1])] = t
       /\ Held(gs[1]) = Held(f) \/ mu[Held(gs[1])] = None

(* The types, but for the stacks.                                          *)
VarsOK ==
  /\ Custom \subseteq made /\ made \subseteq Ctx
  /\ err \in [Ctx -> Errors \cup {None}]
  /\ mu \in [Ctx -> Threads \cup {None}]
  /\ DOMAIN children = Ctx /\ \A p \in Ctx : children[p] \subseteq {c \in Ctx \ Custom : Parent[c] = p}
  /\ timer \in [Ctx -> BOOLEAN] /\ \A c \in Ctx : timer[c] => c \in Timed \ Custom
  /\ watched \subseteq {c \in Ctx \ Custom : Parent[c] \in Custom}

(* A step of t in its innermost call.                                      *)
Effect(t, gs) ==
  /\ stack[t] # <<>> /\ stack' = Replaced(t, gs)
  /\ GoesOn(Top(t), gs) /\ Touches(Top(t), gs) /\ DoesItsPart(Top(t), gs) /\ Locking(t, Top(t), gs)
  /\ VarsOK'

(* Such a step keeps the context known and in the tree that are so.        *)
LEMMA KnownStays ==
  ASSUME TreeInv, NEW t \in Threads, NEW gs, Effect(t, gs)
  PROVE  /\ \A u \in Threads, c \in Ctx : Makes(u, c, Early \cup Late)' => Makes(u, c, Early \cup Late)
         /\ \A u \in Threads, c \in Ctx : Makes(u, c, Early)' => Makes(u, c, Early)
         /\ \A c \in Ctx : (Known(c) => Known(c)') /\ (Known(c)' => Known(c))
         /\ \A c \in Ctx : InTree(c) => InTree(c)'
         /\ \A c \in Ctx : InTree(c)' => InTree(c) \/ (c = Top(t).c /\ Top(t).at \in Early)
  <1> DEFINE n == Len(stack[t])
             f == Top(t)
  <1>1. /\ Stacked(t, n - 1, gs) /\ n \in Nat \ {0} /\ f \in Frames /\ f = stack[t][n]
        /\ gs \in Seq(Frames)
    BY Replacing DEF TreeInv, ContextTypeOK, Effect, GoesOn, Top
  <1>2. GoesOn(f, gs) /\ Touches(f, gs) /\ stack[t] # <<>>
    BY DEF Effect
  <1>3. f.c \in Ctx \ Custom /\ f.at \in Cancelling \cup Early \cup Late
    BY <1>1 DEF Frames
  <1> HIDE DEF f
  <1>4. \A u \in Threads \ {t} : \A c, S : Makes(u, c, S)' <=> Makes(u, c, S)
    BY <1>1 DEF Stacked, Makes
  <1>5. /\ \A c : Makes(t, c, Early \cup Late)' => Makes(t, c, Early \cup Late)
        /\ \A c : Makes(t, c, Early)' => Makes(t, c, Early)
        /\ \A c : Makes(t, c, Early \cup Late) => Makes(t, c, Early \cup Late)' \/ c \in made'
        /\ \A c : Makes(t, c, Late) => Makes(t, c, Late)' \/ c \in made'
        /\ \A c : Makes(t, c, Late)' => Makes(t, c, Late) \/ (c = f.c /\ f.at \in Early)
    <2>1. CASE n = 1
      <3>1. /\ stack[t][1] = f
            /\ gs # <<>> => stack'[t] # <<>> /\ stack'[t][1] = gs[1]
            /\ gs = <<>> => stack'[t] = <<>>
        BY <1>1, <2>1 DEF Stacked
      <3>2. \A c, S : Makes(t, c, S) <=> f.c = c /\ f.at \in S
        BY <1>2, <3>1 DEF Makes
      <3>3. \A c, S : Makes(t, c, S)' <=> gs # <<>> /\ gs[1].c = c /\ gs[1].at \in S
        BY <3>1 DEF Makes
      <3>4. gs # <<>> => /\ gs[1].c = f.c
                         /\ gs[1].at \in Early \cup Late <=> f.at \in Early \cup Late
                         /\ gs[1].at \in Early => f.at \in Early
                         /\ f.at \in Late => gs[1].at \in Late
        BY <1>2 DEF GoesOn, Cancelling, Early, Late
      <3>5. gs = <<>> /\ f.at \in Early \cup Late => f.at = "return" /\ f.c \in made'
        BY <1>2 DEF GoesOn, Cancelling, Early, Late
      <3> QED
        BY <3>2, <3>3, <3>4, <3>5
    <2>2. CASE n > 1
      <3>1. 1 \in 1..(n - 1) /\ stack'[t] # <<>> /\ stack'[t][1] = stack[t][1]
        BY <1>1, <2>2 DEF Stacked
      <3>2. \A c, S : Makes(t, c, S)' <=> Makes(t, c, S)
        BY <1>2, <3>1 DEF Makes
      <3> QED
        BY <3>2
    <2>3. n = 1 \/ n > 1
      <3>1. n \in Nat /\ n # 0
        BY <1>1
      <3> HIDE DEF n
      <3> QED
        BY <3>1
    <2> QED
      BY <2>1, <2>2, <2>3
  <1>6. /\ \A c \in Ctx : c \in made => c \in made'
        /\ \A c \in Ctx : c \in made' => c \in made \/ (c = f.c /\ f.at = "return")
    BY <1>2 DEF Touches
  <1>7. f.at = "return" => Makes(t, f.c, Late)
    <2>1. n > 1 => f.at \in Cancelling
      BY <1>1 DEF TreeInv, StackFits, Calls, Stacked
    <2> QED
      BY <1>1, <1>2, <2>1 DEF Makes, Late, Cancelling
  <1>8. \A u \in Threads : \A c :
          /\ Makes(u, c, Early \cup Late)' => Makes(u, c, Early \cup Late)
          /\ Makes(u, c, Early)' => Makes(u, c, Early)
          /\ Makes(u, c, Early \cup Late) => Makes(u, c, Early \cup Late)' \/ c \in made'
          /\ Makes(u, c, Late) => Makes(u, c, Late)' \/ c \in made'
          /\ Makes(u, c, Late)' => Makes(u, c, Late) \/ (c = f.c /\ f.at \in Early)
    BY <1>4, <1>5
  <1>9. f.at = "return" => InTree(f.c) /\ Known(f.c)
    <2>1. \A u \in Threads : \A c : Makes(u, c, Late) => Makes(u, c, Early \cup Late)
      BY DEF Makes
    <2> QED
      BY <1>7, <2>1 DEF InTree, Known
  <1>10. \A c \in Ctx : (Known(c) => Known(c)') /\ (Known(c)' => Known(c))
    BY <1>6, <1>8, <1>9 DEF Known
  <1>11. \A c \in Ctx : InTree(c) => InTree(c)'
    BY <1>6, <1>8 DEF InTree
  <1>12. \A c \in Ctx : InTree(c)' => InTree(c) \/ (c = f.c /\ f.at \in Early)
    BY <1>6, <1>8, <1>9 DEF InTree
  <1> QED
    BY <1>8, <1>10, <1>11, <1>12 DEF f

(* What a call knows remains true.                                         *)
LEMMA CallStays ==
  ASSUME ContextsAssumption, TreeInv, NEW t \in Threads, NEW gs, Effect(t, gs), NEW f \in Frames
  PROVE  /\ Refers(f) => Refers(f)'
         /\ CallFits(f) => CallFits(f)'
  <1>1. \A c \in Ctx : (Known(c) => Known(c)') /\ (InTree(c) => InTree(c)')
    BY KnownStays
  <1>2. \A c \in Ctx : err[c] # None => err'[c] # None
    BY DEF Effect, Touches
  <1>3. f.c \in Ctx /\ Parent[f.c] \in Ctx \cup {None}
    BY DEF Frames, ContextsAssumption
  <1> QED
    BY <1>1, <1>2, <1>3 DEF Refers, CallFits

(* The stacks fit after the step.                                          *)
LEMMA StacksStay ==
  ASSUME ContextsAssumption, TreeInv, NEW t \in Threads, NEW gs, Effect(t, gs), NEW u \in Threads
  PROVE  StackFits(u)'
  <1> DEFINE n == Len(stack[t])
             m == n - 1
             f == Top(t)
  <1>1. /\ Stacked(t, m, gs) /\ n \in Nat /\ n # 0 /\ f \in Frames /\ f = stack[t][n]
    BY Replacing DEF TreeInv, ContextTypeOK, Effect, GoesOn, Top
  <1>2. GoesOn(f, gs) /\ StackFits(u) /\ StackFits(t)
    BY DEF Effect, TreeInv
  <1>3. \A c \in Ctx : err[c] # None => err'[c] # None
    BY DEF Effect, Touches
  <1>4. \A i \in DOMAIN stack[u] : stack[u][i] \in Frames
    BY DEF TreeInv, ContextTypeOK
  <1>5. \A g \in Frames : (Refers(g) => Refers(g)') /\ (CallFits(g) => CallFits(g)')
    BY CallStays
  <1>6. \A g \in Frames :
          err[g.c] # None \/ Parent[g.c] \in Custom => err'[g.c] # None \/ Parent[g.c] \in Custom
    BY <1>3 DEF Frames
  <1> HIDE DEF f, n
  <1>7. CASE u # t
    <2>1. stack'[u] = stack[u]
      BY <1>1, <1>7 DEF Stacked
    <2>2. stack[u] # <<>> => 1 \in DOMAIN stack[u]
      BY DEF TreeInv, ContextTypeOK
    <2> QED
      BY <1>2, <1>4, <1>5, <1>6, <2>1, <2>2 DEF StackFits
  <1>8. CASE u = t
    <2>0. PICK k : k = m
      OBVIOUS
    <2>1. PICK s : s = stack[t]
      OBVIOUS
    <2>2. PICK q : q = stack'[t]
      OBVIOUS
    <2> DEFINE l == Len(gs)
    <2>3. /\ k \in Nat /\ n = k + 1 /\ DOMAIN s = 1..n /\ DOMAIN q = 1..(k + l) /\ l \in {0, 1, 2}
          /\ \A i \in 1..k : q[i] = s[i]
          /\ \A j \in 1..l : q[k + j] = gs[j] /\ gs[j] \in Frames
      <3>1. l \in {0, 1, 2}
        BY <1>2 DEF GoesOn
      <3>2. k \in Nat /\ n = k + 1
        BY <1>1, <2>0
      <3>3. Stacked(t, k, gs)
        BY <1>1, <2>0
      <3> HIDE DEF m
      <3> QED
        BY <2>1, <2>2, <3>1, <3>2, <3>3 DEF Stacked, n
    <2>4. /\ \A i \in 1..n : s[i] \in Frames /\ Refers(s[i]) /\ CallFits(s[i])
          /\ \A i \in 1..n : i > 1 => Calls(s[i - 1], s[i])
          /\ s[1].at = "cancel" /\ ~s[1].remove => err[s[1].c] # None \/ Parent[s[1].c] \in Custom
      <3>1. stack[t] # <<>>
        BY DEF Effect
      <3> QED
        BY <1>2, <1>4, <1>8, <2>1, <2>3, <3>1 DEF StackFits
    <2>5. /\ \A j \in 1..l : Refers(gs[j]) /\ CallFits(gs[j])'
          /\ l >= 1 => gs[1].c = f.c /\ (gs[1].remove => f.remove) /\ gs[1].at # "cancel"
          /\ l >= 1 /\ f.at \in Cancelling => gs[1].at \in Cancelling \ {"cancel"}
          /\ l = 2 => Calls(gs[1], gs[2])
      <3>1. gs # <<>> <=> l >= 1
        BY <1>2 DEF GoesOn
      <3> QED
        BY <1>2, <3>1 DEF GoesOn, Cancelling, Early, Late
    <2>6. f = s[n]
      BY <1>1, <2>1
    <2> HIDE DEF m, l
    <2>7. \A i \in 1..(k + l) : i \in 1..k \/ (i = k + 1 /\ l >= 1) \/ (i = k + 2 /\ l = 2)
      BY <2>3
    <2>8. \A i \in 1..(k + l) : Refers(q[i])' /\ CallFits(q[i])'
      <3>1. ASSUME NEW i \in 1..k
            PROVE  Refers(q[i])' /\ CallFits(q[i])'
        <4>1. i \in 1..n /\ q[i] = s[i]
          BY <2>3
        <4> QED
          BY <1>5, <2>4, <4>1
      <3>2. ASSUME NEW j \in 1..l
            PROVE  Refers(q[k + j])' /\ CallFits(q[k + j])'
        <4>1. q[k + j] = gs[j] /\ gs[j] \in Frames
          BY <2>3
        <4> QED
          BY <1>5, <2>5, <4>1
      <3>3. l >= 1 => 1 \in 1..l
        BY <2>3
      <3>4. l = 2 => 2 \in 1..l
        OBVIOUS
      <3> QED
        BY <2>7, <3>1, <3>2, <3>3, <3>4
    <2>9. \A i \in 1..(k + l) : i > 1 => Calls(q[i - 1], q[i])
      <3>1. ASSUME NEW i \in 1..k, i > 1
            PROVE  Calls(q[i - 1], q[i])
        <4>1. i \in 1..n /\ i - 1 \in 1..k
          BY <2>3, <3>1
        <4>2. q[i] = s[i] /\ q[i - 1] = s[i - 1]
          BY <2>3, <4>1
        <4> QED
          BY <2>4, <3>1, <4>1, <4>2
      <3>2. ASSUME l >= 1, k + 1 > 1
            PROVE  Calls(q[k], q[k + 1])
        <4>1. k \in 1..k /\ n \in 1..n /\ n > 1 /\ n - 1 = k
          BY <2>3, <3>2
        <4>2. Calls(s[k], f) /\ q[k] = s[k] /\ q[k + 1] = gs[1]
          BY <2>3, <2>4, <2>6, <3>2, <4>1
        <4> QED
          BY <2>5, <3>2, <4>2 DEF Calls
      <3>3. ASSUME l = 2
            PROVE  Calls(q[k + 1], q[k + 2])
        BY <2>3, <2>5, <3>3
      <3> QED
        <4> SUFFICES ASSUME NEW i \in 1..(k + l), i > 1
                     PROVE  Calls(q[i - 1], q[i])
          OBVIOUS
        <4>1. CASE i \in 1..k
          BY <3>1, <4>1
        <4>2. CASE i = k + 1 /\ l >= 1
          <5>1. i - 1 = k
            BY <2>3, <4>2
          <5> QED
            BY <3>2, <4>2, <5>1
        <4>3. CASE i = k + 2 /\ l = 2
          <5>1. i - 1 = k + 1
            BY <2>3, <4>3
          <5> QED
            BY <3>3, <4>3, <5>1
        <4> QED
          BY <2>7, <4>1, <4>2, <4>3
    <2>10. q # <<>> /\ q[1].at = "cancel" /\ ~q[1].remove => err'[q[1].c] # None \/ Parent[q[1].c] \in Custom
      <3>1. CASE k = 0
        <4>1. q # <<>> => l >= 1
          BY <2>2, <2>3, <3>1
        <4>2. l >= 1 => q[1] = gs[1]
          BY <2>3, <3>1
        <4> QED
          BY <2>5, <4>1, <4>2
      <3>2. CASE k # 0
        <4>1. 1 \in 1..k /\ 1 \in 1..n
          BY <2>3, <3>2
        <4> QED
          BY <1>6, <2>3, <2>4, <4>1
      <3> QED
        BY <3>1, <3>2
    <2> QED
      BY <1>8, <2>2, <2>3, <2>8, <2>9, <2>10 DEF StackFits
  <1> QED
    BY <1>7, <1>8

(* The step of t with names for what is before and after it: f, its        *)
(* innermost call, and the k calls around it, in the stack s that becomes  *)
(* q.                                                                      *)
Shape(t, gs, f, k, s, q) ==
  /\ s = stack[t] /\ q = stack'[t] /\ f = Top(t) /\ f = s[k + 1]
  /\ DOMAIN s = 1..(k + 1) /\ DOMAIN q = 1..(k + Len(gs)) /\ Len(gs) \in {0, 1, 2}
  /\ Len(s) = k + 1 /\ Len(q) = k + Len(gs) /\ s # <<>>
  /\ gs # <<>> <=> Len(gs) >= 1
  /\ \A i \in 1..(k + Len(gs)) : i \in 1..k \/ (i = k + 1 /\ Len(gs) >= 1) \/ (i = k + 2 /\ Len(gs) = 2)
  /\ \A i \in 1..k : q[i] = s[i]
  /\ \A j \in 1..Len(gs) : q[k + j] = gs[j] /\ gs[j] \in Frames
  /\ \A i \in 1..(k + 1) : s[i] \in Frames
  /\ \A u \in Threads \ {t} : stack'[u] = stack[u]
  /\ Refers(f) /\ CallFits(f)
  /\ k > 0 => Calls(s[k], f)
  /\ f.at \notin Cancelling => k = 0
  /\ GoesOn(f, gs) /\ Touches(f, gs) /\ DoesItsPart(f, gs) /\ Locking(t, f, gs)
  /\ f.c \in Ctx \ Custom

(* Every such step has this shape.                                         *)
LEMMA StepShape ==
  ASSUME TreeInv, NEW t \in Threads, NEW gs, Effect(t, gs)
  PROVE  \E f \in Frames, k \in Nat : \E s, q : Shape(t, gs, f, k, s, q)
  <1>1. PICK s : s = stack[t]
    OBVIOUS
  <1>2. PICK q : q = stack'[t]
    OBVIOUS
  <1>3. PICK f \in Frames : f = Top(t)
    BY Replacing DEF TreeInv, ContextTypeOK, Effect, GoesOn
  <1>4. PICK n \in Nat \ {0} : n = Len(stack[t])
    BY Replacing DEF TreeInv, ContextTypeOK, Effect, GoesOn
  <1>5. PICK k \in Nat : k = n - 1
    BY <1>4
  <1>6. Stacked(t, k, gs)
    BY <1>4, <1>5, Replacing DEF TreeInv, ContextTypeOK, Effect, GoesOn
  <1>7. GoesOn(f, gs) /\ Touches(f, gs) /\ DoesItsPart(f, gs) /\ Locking(t, f, gs)
    BY <1>3 DEF Effect
  <1>8. n = k + 1 /\ k + 1 \in 1..(k + 1)
    BY <1>5
  <1>9. DOMAIN s = 1..(k + 1) /\ Len(s) = k + 1 /\ f = s[k + 1] /\ s # <<>>
    BY <1>1, <1>3, <1>4, <1>6, <1>8 DEF Stacked, Top, Effect
  <1>10. Len(gs) \in {0, 1, 2} /\ (gs # <<>> <=> Len(gs) >= 1)
    BY <1>7 DEF GoesOn
  <1>11. /\ DOMAIN q = 1..(k + Len(gs)) /\ Len(q) = k + Len(gs)
         /\ \A i \in 1..k : q[i] = s[i]
         /\ \A j \in 1..Len(gs) : q[k + j] = gs[j] /\ gs[j] \in Frames
         /\ \A u \in Threads \ {t} : stack'[u] = stack[u]
    BY <1>1, <1>2, <1>6 DEF Stacked
  <1>12. \A i \in 1..(k + 1) : s[i] \in Frames
    BY <1>1, <1>9 DEF TreeInv, ContextTypeOK
  <1>13. StackFits(t)
    BY DEF TreeInv
  <1>14. Refers(f) /\ CallFits(f)
    BY <1>1, <1>8, <1>9, <1>13 DEF StackFits
  <1>15. k > 0 => Calls(s[k], f)
    <2>1. k > 0 => k + 1 > 1 /\ k + 1 - 1 = k
      OBVIOUS
    <2> QED
      BY <1>1, <1>8, <1>9, <1>13, <2>1 DEF StackFits
  <1>16. f.at \notin Cancelling => k = 0
    BY <1>15 DEF Calls
  <1>17. f.c \in Ctx \ Custom
    BY DEF Frames
  <1>18. \A i \in 1..(k + Len(gs)) : i \in 1..k \/ (i = k + 1 /\ Len(gs) >= 1) \/ (i = k + 2 /\ Len(gs) = 2)
    <2>1. PICK l : l = Len(gs)
      OBVIOUS
    <2>2. \A i \in 1..(k + l) : i \in 1..k \/ (i = k + 1 /\ l >= 1) \/ (i = k + 2 /\ l = 2)
      <3>1. l \in {0, 1, 2}
        BY <1>10, <2>1
      <3> QED
        BY <3>1
    <2> QED
      BY <2>1, <2>2
  <1>19. Shape(t, gs, f, k, s, q)
    BY <1>18, <1>1, <1>2, <1>3, <1>7, <1>9, <1>10, <1>11, <1>12, <1>14, <1>15, <1>16, <1>17 DEF Shape
  <1> QED
    BY <1>19

(* Nobody else knows of a context at the begin of its making.              *)
LEMMA EarlyIsNotInTree ==
  ASSUME TreeInv, NEW t \in Threads, NEW c \in Ctx, Makes(t, c, Early)
  PROVE  ~InTree(c) /\ Untouched(c) /\ c \notin made
  <1>1. Makes(t, c, Early \cup Late)
    BY DEF Makes
  <1>2. MakerFits(t, c)
    BY <1>1 DEF TreeInv
  <1>3. \A u \in Threads : ~Makes(u, c, Late)
    <2> SUFFICES ASSUME NEW u \in Threads, Makes(u, c, Late)
                 PROVE  FALSE
      OBVIOUS
    <2>1. u = t
      BY <1>2 DEF MakerFits, Makes
    <2> QED
      BY <2>1 DEF Makes, Early, Late
  <1> QED
    BY <1>2, <1>3 DEF MakerFits, InTree

(* A context that somebody refers to is in the tree.                       *)
LEMMA TouchedIsInTree ==
  ASSUME TreeInv, NEW c \in Ctx, ~Untouched(c)
  PROVE  InTree(c)
  <1>1. Known(c)
    BY DEF TreeInv
  <1>2. \A t \in Threads : ~Makes(t, c, Early)
    BY EarlyIsNotInTree
  <1>3. \A t \in Threads : Makes(t, c, Early \cup Late) => Makes(t, c, Early) \/ Makes(t, c, Late)
    BY DEF Makes
  <1> QED
    BY <1>1, <1>2, <1>3 DEF Known, InTree

(* The step touches no other context than that of f.                       *)
LEMMA UntouchedStays ==
  ASSUME TreeInv, NEW t \in Threads, NEW gs, Effect(t, gs), NEW c \in Ctx, c # Top(t).c, Untouched(c)
  PROVE  Untouched(c)'
  <1>1. PICK f \in Frames : f = Top(t)
    BY Replacing DEF TreeInv, ContextTypeOK, Effect, GoesOn
  <1>2. Touches(f, gs) /\ c # f.c
    BY <1>1 DEF Effect
  <1> QED
    BY <1>2 DEF Touches, Untouched


(* What nobody knows remains so.                                           *)
LEMMA UnknownStays ==
  ASSUME TreeInv, NEW t \in Threads, NEW gs, Effect(t, gs), NEW c \in Ctx, ~Known(c)'
  PROVE  Untouched(c)'
  <1>1. ~Known(c)
    BY KnownStays
  <1>2. PICK f \in Frames, k \in Nat : \E s, q : Shape(t, gs, f, k, s, q)
    BY StepShape
  <1>3. f = Top(t) /\ Refers(f)
    BY <1>2 DEF Shape
  <1>4. c # Top(t).c
    BY <1>1, <1>3 DEF Refers
  <1>5. Untouched(c)
    BY <1>1 DEF TreeInv
  <1> QED
    BY <1>4, <1>5, UntouchedStays

(* Whoever makes a context is still alone with it.                         *)
LEMMA MakersStay ==
  ASSUME ContextsAssumption, TreeInv, NEW t \in Threads, NEW gs, Effect(t, gs),
         NEW u \in Threads, NEW c \in Ctx, Makes(u, c, Early \cup Late)'
  PROVE  MakerFits(u, c)'
  <1>1. PICK f \in Frames, k \in Nat : \E s, q : Shape(t, gs, f, k, s, q)
    BY StepShape
  <1>2. PICK s, q : Shape(t, gs, f, k, s, q)
    BY <1>1
  <1>3. /\ s = stack[t] /\ q = stack'[t] /\ f = Top(t) /\ f = s[k + 1]
        /\ DOMAIN s = 1..(k + 1) /\ DOMAIN q = 1..(k + Len(gs)) /\ Len(gs) \in {0, 1, 2}
        /\ Len(s) = k + 1 /\ Len(q) = k + Len(gs) /\ s # <<>>
        /\ gs # <<>> <=> Len(gs) >= 1
        /\ \A i \in 1..(k + Len(gs)) : i \in 1..k \/ (i = k + 1 /\ Len(gs) >= 1) \/ (i = k + 2 /\ Len(gs) = 2)
        /\ \A i \in 1..k : q[i] = s[i]
        /\ \A j \in 1..Len(gs) : q[k + j] = gs[j] /\ gs[j] \in Frames
        /\ \A v \in Threads \ {t} : stack'[v] = stack[v]
    BY <1>2 DEF Shape
  <1>4. /\ Refers(f) /\ GoesOn(f, gs) /\ Touches(f, gs)
        /\ f.at \notin Cancelling => k = 0
        /\ f.c \in Ctx \ Custom
    BY <1>2 DEF Shape
  <1>5. Makes(u, c, Early \cup Late) /\ MakerFits(u, c)
    BY KnownStays DEF TreeInv
  <1>6. f.at \notin Cancelling => \A S : f.at \in S => Makes(t, f.c, S)
    BY <1>3, <1>4 DEF Makes
  <1>7. f.at \in Early \cup Late => f.at \notin Cancelling
    BY DEF Early, Late, Cancelling
  <1>8. f.at \in Early \cup Late => Makes(t, f.c, Early \cup Late)
    BY <1>6, <1>7
  <1>9. c \notin made'
    <2> SUFFICES ASSUME c \in made'
                 PROVE  FALSE
      OBVIOUS
    <2>1. c = f.c /\ f.at = "return"
      BY <1>4, <1>5 DEF Touches, MakerFits
    <2>2. k = 0 /\ u = t
      BY <1>4, <1>5, <1>8, <2>1 DEF MakerFits, Late, Cancelling
    <2>3. gs = <<>>
      BY <1>4, <2>1 DEF GoesOn, Cancelling, Early
    <2>4. stack'[t] = q /\ Len(q) = 0
      BY <1>3, <2>2, <2>3
    <2>5. stack'[t] = <<>>
      <3>1. stack'[t] \in Seq(Frames)
        BY Replacing DEF TreeInv, ContextTypeOK, Effect, GoesOn, Stacked
      <3> QED
        BY <2>4, <3>1, EmptySeq
    <2> QED
      BY <2>2, <2>5 DEF Makes
  <1>10. \A v \in Threads : Makes(v, c, Early \cup Late)' => v = u
    BY <1>5, KnownStays DEF MakerFits
  <1>11. ASSUME Makes(u, c, Early)'
         PROVE  /\ Untouched(c)'
                /\ \A v \in Threads : \A i \in DOMAIN stack'[v] : stack'[v][i].c = c => v = u /\ i = 1
    <2>1. Makes(u, c, Early)
      BY <1>11, KnownStays
    <2>2. Untouched(c) /\ \A v \in Threads : \A i \in DOMAIN stack[v] : stack[v][i].c = c => v = u /\ i = 1
      BY <1>5, <2>1 DEF MakerFits
    <2>3. ~InTree(c)
      BY <2>1, EarlyIsNotInTree
    <2>4. f.c = c => u = t /\ k = 0
      <3>1. k + 1 \in 1..(k + 1)
        OBVIOUS
      <3> QED
        BY <1>3, <2>2, <3>1
    <2>5. f.c = c => Len(gs) >= 1 /\ gs[1].at \in Early /\ q[1] = gs[1]
      <3> SUFFICES ASSUME f.c = c
                   PROVE  Len(gs) >= 1 /\ gs[1].at \in Early /\ q[1] = gs[1]
        OBVIOUS
      <3>1. q # <<>> /\ q[1].at \in Early
        BY <1>3, <1>11, <2>4 DEF Makes
      <3>2. Len(gs) >= 1
        <4>1. q \in Seq(Frames)
          BY <1>3, Replacing DEF TreeInv, ContextTypeOK, Effect, GoesOn, Stacked
        <4>2. Len(q) # 0
          BY <3>1, <4>1, EmptySeq
        <4> QED
          BY <1>3, <2>4, <4>2
      <3>3. 1 \in 1..Len(gs) /\ k + 1 = 1
        BY <1>3, <2>4, <3>2
      <3> QED
        BY <1>3, <3>1, <3>2, <3>3
    <2>6. Untouched(c)'
      <3>1. CASE f.c # c
        BY <1>3, <2>2, <3>1, UntouchedStays
      <3>2. CASE f.c = c
        <4>1. f.at \in Early
          BY <1>3, <2>1, <2>4, <3>2 DEF Makes
        <4>2. UNCHANGED <<made, err, timer, watched, children>>
          BY <1>4, <2>5, <3>2, <4>1 DEF Touches, Early, Late
        <4> QED
          BY <2>2, <4>2 DEF Untouched
      <3> QED
        BY <3>1, <3>2
    <2>7. ASSUME NEW v \in Threads, NEW i \in DOMAIN stack'[v], stack'[v][i].c = c
          PROVE  v = u /\ i = 1
      <3>1. CASE v # t
        BY <1>3, <2>2, <2>7, <3>1
      <3>2. CASE v = t
        <4>1. i \in 1..k \/ (i = k + 1 /\ Len(gs) >= 1) \/ (i = k + 2 /\ Len(gs) = 2)
          BY <1>3, <2>7, <3>2
        <4>2. CASE i \in 1..k
          <5>1. i \in 1..(k + 1)
            BY <4>2
          <5> QED
            BY <1>3, <2>2, <2>7, <3>2, <4>2, <5>1
        <4>3. CASE i = k + 1 /\ Len(gs) >= 1
          <5>1. 1 \in 1..Len(gs)
            BY <1>3, <4>3
          <5>2. gs[1].c = c
            BY <1>3, <2>7, <3>2, <4>3, <5>1
          <5>3. f.c = c
            BY <1>3, <1>4, <4>3, <5>2 DEF GoesOn
          <5> QED
            BY <2>4, <3>2, <4>3, <5>3
        <4>4. CASE i = k + 2 /\ Len(gs) = 2
          <5>1. 2 \in 1..Len(gs)
            BY <1>3, <4>4
          <5>2. gs[2].c = c
            BY <1>3, <2>7, <3>2, <4>4, <5>1
          <5>3. /\ gs[1].c = f.c /\ Calls(gs[1], gs[2])
                /\ gs[1].at = "children" => f.at = "children" /\ gs[2].c \in f.todo
            BY <1>3, <1>4, <4>4 DEF GoesOn
          <5>4. gs[1].at # "children"
            BY <1>4, <2>3, <5>2, <5>3 DEF Refers
          <5>5. f.c = c /\ gs[1].at \in {"arm", "unlock", "return"}
            BY <5>2, <5>3, <5>4 DEF Calls
          <5> QED
            BY <2>5, <5>5 DEF Early
        <4> QED
          BY <4>1, <4>2, <4>3, <4>4
      <3> QED
        BY <3>1, <3>2
    <2> QED
      BY <2>6, <2>7
  <1>12. ASSUME Makes(u, c, {"arm", "unlock"})', Len(stack'[u]) > 1, NEW p \in Ctx
         PROVE  c \notin children'[p]
    <2>1. ASSUME Makes(u, c, {"arm", "unlock"}), Len(stack[u]) > 1, f.at # "attach" \/ f.c # c
          PROVE  c \notin children'[p]
      <3>1. c \notin children[p]
        BY <1>5, <2>1 DEF MakerFits
      <3> QED
        BY <1>4, <2>1, <3>1 DEF Touches
    <2>2. CASE u # t
      <3>1. Makes(u, c, {"arm", "unlock"}) /\ Len(stack[u]) > 1
        BY <1>3, <1>12, <2>2 DEF Makes
      <3>2. f.at # "attach" \/ f.c # c
        BY <1>5, <1>8, <2>2 DEF MakerFits, Early
      <3> QED
        BY <2>1, <3>1, <3>2
    <2>3. CASE u = t /\ k # 0
      <3>1. 1 \in 1..k /\ 1 \in 1..(k + 1) /\ k + 1 > 1
        BY <2>3
      <3>2. Makes(u, c, {"arm", "unlock"}) /\ Len(stack[u]) > 1
        BY <1>3, <1>12, <2>3, <3>1 DEF Makes
      <3>3. f.at # "attach"
        BY <1>4, <2>3 DEF Cancelling
      <3> QED
        BY <2>1, <3>2, <3>3
    <2>4. CASE u = t /\ k = 0
      <3>1. Len(gs) = 2 /\ 1 \in 1..Len(gs) /\ k + 1 = 1
        BY <1>3, <1>12, <2>4
      <3>2. gs[1].at \in {"arm", "unlock"} /\ gs[1].c = c
        BY <1>3, <1>12, <2>4, <3>1 DEF Makes
      <3>3. f.c = c /\ f.at \in Early
        BY <1>3, <1>4, <3>1, <3>2 DEF GoesOn, Cancelling, Early
      <3>4. children' = children
        BY <1>4, <3>1, <3>3 DEF Touches
      <3>5. Makes(t, c, Early)
        BY <1>3, <2>4, <3>3 DEF Makes
      <3>6. Untouched(c)
        BY <3>5, EarlyIsNotInTree
      <3> QED
        BY <3>4, <3>6 DEF Untouched
    <2> QED
      BY <2>2, <2>3, <2>4
  <1> QED
    BY <1>9, <1>10, <1>11, <1>12 DEF MakerFits


(* The locks that calls hold are held by the goroutines of the calls.      *)
LEMMA LocksStay ==
  ASSUME ContextsAssumption, TreeInv, NEW t \in Threads, NEW gs, Effect(t, gs)
  PROVE  LocksHeld'
  <1>1. PICK f \in Frames, k \in Nat : \E s, q : Shape(t, gs, f, k, s, q)
    BY StepShape
  <1>2. PICK s, q : Shape(t, gs, f, k, s, q)
    BY <1>1
  <1>3. /\ s = stack[t] /\ q = stack'[t] /\ f = s[k + 1]
        /\ DOMAIN s = 1..(k + 1) /\ DOMAIN q = 1..(k + Len(gs))
        /\ \A i \in 1..(k + Len(gs)) : i \in 1..k \/ (i = k + 1 /\ Len(gs) >= 1) \/ (i = k + 2 /\ Len(gs) = 2)
        /\ \A i \in 1..k : q[i] = s[i]
        /\ \A j \in 1..Len(gs) : q[k + j] = gs[j] /\ gs[j] \in Frames
        /\ \A v \in Threads \ {t} : stack'[v] = stack[v]
        /\ Len(gs) >= 1 => gs # <<>>
        /\ GoesOn(f, gs) /\ Locking(t, f, gs)
    BY <1>2 DEF Shape
  <1>4. /\ \A g \in Frames : Held(g) \in Ctx \cup {None}
        /\ None \notin Threads
        /\ \A v \in Threads : \A i \in DOMAIN stack[v] : stack[v][i] \in Frames
    <2>1. \A g \in Frames : g.c \in Ctx /\ Parent[g.c] \in Ctx \cup {None}
      BY DEF ContextsAssumption, Frames
    <2>2. \A g \in Frames : Held(g) \in Ctx \cup {None}
      BY <2>1 DEF Held
    <2>3. None \notin Threads
      BY DEF ContextsAssumption, Threads
    <2>4. \A v \in Threads : \A i \in DOMAIN stack[v] : stack[v][i] \in Frames
      BY DEF TreeInv, ContextTypeOK
    <2> QED
      BY <2>2, <2>3, <2>4
  <1>5. k + 1 \in DOMAIN s /\ \A i \in 1..k : i \in 1..(k + 1) /\ i # k + 1
    BY <1>3
  <1>6. Held(f) # None => mu[Held(f)] = t /\ \A j \in DOMAIN s : Held(s[j]) = Held(f) => j = k + 1
    BY <1>3, <1>5 DEF TreeInv, LocksHeld
  <1>7. \A p \in Ctx : mu'[p] # mu[p] => mu[p] = None \/ p = Held(f)
    BY <1>3 DEF Locking
  <1>8. ASSUME NEW v \in Threads \ {t}, NEW i \in DOMAIN stack'[v], Held(stack'[v][i]) # None
        PROVE  /\ mu'[Held(stack'[v][i])] = v
               /\ \A j \in DOMAIN stack'[v] : Held(stack'[v][j]) = Held(stack'[v][i]) => j = i
    <2>1. stack'[v] = stack[v]
      BY <1>3
    <2>2. PICK h \in Ctx : h = Held(stack[v][i])
      BY <1>4, <1>8, <2>1
    <2>3. h # None /\ mu[h] = v /\ \A j \in DOMAIN stack[v] : Held(stack[v][j]) = h => j = i
      BY <1>8, <2>1, <2>2 DEF TreeInv, LocksHeld
    <2>4. mu'[h] = v
      BY <1>4, <1>6, <1>7, <2>3
    <2> QED
      BY <2>1, <2>2, <2>3, <2>4
  <1>9. ASSUME NEW i \in 1..k, Held(s[i]) # None
        PROVE  /\ mu'[Held(s[i])] = t
               /\ \A j \in 1..k : Held(s[j]) = Held(s[i]) => j = i
               /\ Held(f) # Held(s[i])
               /\ mu[Held(s[i])] # None
    <2>1. PICK h \in Ctx : h = Held(s[i])
      BY <1>3, <1>4, <1>5, <1>9
    <2>2. h # None /\ mu[h] = t /\ \A j \in DOMAIN s : Held(s[j]) = h => j = i
      BY <1>3, <1>5, <1>9, <2>1 DEF TreeInv, LocksHeld
    <2>3. Held(f) # h
      BY <1>3, <1>5, <2>2
    <2>4. mu'[h] = t /\ mu[h] # None
      BY <1>4, <1>7, <2>2, <2>3
    <2>5. \A j \in 1..k : Held(s[j]) = h => j = i
      BY <1>3, <1>5, <2>2
    <2> QED
      BY <2>1, <2>3, <2>4, <2>5
  <1>10. Len(gs) >= 1 /\ Held(gs[1]) # None =>
           /\ mu'[Held(gs[1])] = t
           /\ Held(gs[1]) = Held(f) \/ mu[Held(gs[1])] = None
    BY <1>3 DEF Locking
  <1>11. Len(gs) = 2 => Held(gs[2]) = None
    BY <1>3 DEF GoesOn, Held
  <1>12. \A i \in 1..(k + Len(gs)) :
            Held(q[i]) # None =>
              /\ mu'[Held(q[i])] = t
              /\ \A j \in 1..(k + Len(gs)) : Held(q[j]) = Held(q[i]) => j = i
    <2>1. Len(gs) >= 1 => q[k + 1] = gs[1]
      <3>1. Len(gs) >= 1 => 1 \in 1..Len(gs)
        BY <1>3 DEF GoesOn
      <3> QED
        BY <1>3, <3>1
    <2>2. Len(gs) = 2 => q[k + 2] = gs[2]
      BY <1>3
    <2>3. \A i \in 1..(k + Len(gs)) : Held(q[i]) # None => i \in 1..k \/ (i = k + 1 /\ Len(gs) >= 1)
      BY <1>3, <1>11, <2>2
    <2>4. \A i, j \in 1..k : Held(q[i]) # None => mu'[Held(q[i])] = t /\ (Held(q[j]) = Held(q[i]) => j = i)
      BY <1>3, <1>9
    <2>5. \A i \in 1..k : Held(q[i]) # None /\ Len(gs) >= 1 => Held(q[i]) # Held(q[k + 1])
      BY <1>3, <1>9, <1>10, <2>1
    <2>6. Len(gs) >= 1 /\ Held(q[k + 1]) # None => mu'[Held(q[k + 1])] = t
      BY <1>10, <2>1
    <2>7. \A i \in 1..k : Held(q[i]) # None => mu'[Held(q[i])] = t
      BY <2>4
    <2> QED
      BY <2>3, <2>4, <2>5, <2>6, <2>7
  <1>13. \A v \in Threads : \A i \in DOMAIN stack'[v] :
           Held(stack'[v][i]) # None =>
             /\ mu'[Held(stack'[v][i])] = v
             /\ \A j \in DOMAIN stack'[v] : Held(stack'[v][j]) = Held(stack'[v][i]) => j = i
    BY <1>3, <1>8, <1>12
  <1>14. \A g : Held(g)' = Held(g)
    BY DEF Held
  <1> QED
    BY <1>13, <1>14 DEF LocksHeld


(* The i-th call of u is g after the step.                                 *)
Becomes(u, i, g) == i \in DOMAIN stack'[u] /\ stack'[u][i] = g

(* A call that is not the innermost of t is where it was.                  *)
LEMMA OthersStay ==
  ASSUME NEW t, NEW gs, NEW f, NEW k \in Nat, NEW s, NEW q, Shape(t, gs, f, k, s, q),
         NEW u \in Threads, NEW i \in DOMAIN stack[u]
  PROVE  \/ u = t /\ i = k + 1 /\ stack[u][i] = f
         \/ Becomes(u, i, stack[u][i])
  <1>1. /\ s = stack[t] /\ q = stack'[t] /\ f = s[k + 1]
        /\ DOMAIN s = 1..(k + 1) /\ DOMAIN q = 1..(k + Len(gs)) /\ Len(gs) \in {0, 1, 2}
        /\ \A j \in 1..k : q[j] = s[j]
        /\ \A v \in Threads \ {t} : stack'[v] = stack[v]
    BY DEF Shape
  <1>2. CASE u = t
    <2>1. i \in 1..(k + 1)
      BY <1>1, <1>2
    <2>2. i = k + 1 \/ (i \in 1..k /\ i \in 1..(k + Len(gs)))
      BY <1>1, <2>1
    <2> QED
      BY <1>1, <1>2, <2>2 DEF Becomes
  <1>3. CASE u # t
    BY <1>1, <1>3 DEF Becomes
  <1> QED
    BY <1>2, <1>3

(* What the innermost call becomes.                                        *)
LEMMA InnermostBecomes ==
  ASSUME NEW t \in Threads, NEW gs, NEW f, NEW k \in Nat, NEW s, NEW q, Shape(t, gs, f, k, s, q)
  PROVE  /\ gs # <<>> => Becomes(t, k + 1, gs[1]) /\ gs[1].c = f.c
         /\ Len(gs) = 2 => Becomes(t, k + 1 + 1, gs[2])
         /\ k > 0 => Becomes(t, k, stack[t][k]) /\ Calls(stack[t][k], f) /\ k \in DOMAIN stack[t]
  <1>1. /\ s = stack[t] /\ q = stack'[t]
        /\ DOMAIN s = 1..(k + 1) /\ DOMAIN q = 1..(k + Len(gs)) /\ Len(gs) \in {0, 1, 2}
        /\ gs # <<>> <=> Len(gs) >= 1
        /\ \A j \in 1..k : q[j] = s[j]
        /\ \A j \in 1..Len(gs) : q[k + j] = gs[j]
        /\ GoesOn(f, gs)
        /\ k > 0 => Calls(s[k], f)
    BY DEF Shape
  <1>2. PICK l \in {0, 1, 2} : l = Len(gs)
    BY <1>1
  <1>3. /\ l >= 1 => 1 \in 1..l /\ k + 1 \in 1..(k + l)
        /\ l = 2 => 2 \in 1..l /\ k + 1 + 1 \in 1..(k + l) /\ k + 1 + 1 = k + 2
        /\ k > 0 => k \in 1..k /\ k \in 1..(k + l) /\ k \in 1..(k + 1)
    OBVIOUS
  <1>4. l >= 1 => gs[1].c = f.c
    BY <1>1, <1>2 DEF GoesOn
  <1>5. l >= 1 => k + 1 \in DOMAIN q /\ q[k + 1] = gs[1]
    BY <1>1, <1>2, <1>3
  <1>6. l = 2 => k + 1 + 1 \in DOMAIN q /\ q[k + 1 + 1] = gs[2]
    BY <1>1, <1>2, <1>3
  <1>7. k > 0 => k \in DOMAIN q /\ q[k] = s[k] /\ k \in DOMAIN s
    BY <1>1, <1>2, <1>3
  <1> QED
    BY <1>1, <1>2, <1>4, <1>5, <1>6, <1>7 DEF Becomes

(* If the call that makes c cancels it, then it does so after the step, or *)
(* c is cancelled by it.                                                   *)
LEMMA MakerCancelsStays ==
  ASSUME TreeInv, NEW t \in Threads, NEW gs, Effect(t, gs), NEW c \in Ctx, MakerCancels(c), err'[c] = None
  PROVE  MakerCancels(c)'
  <1>1. PICK f \in Frames, k \in Nat : \E s, q : Shape(t, gs, f, k, s, q)
    BY StepShape
  <1>2. PICK s, q : Shape(t, gs, f, k, s, q)
    BY <1>1
  <1>3. PICK u \in Threads : Makes(u, c, {"arm", "unlock"}) /\ Len(stack[u]) = 2 /\ stack[u][2].at = "cancel"
    BY DEF MakerCancels
  <1>4. u # t
    <2> SUFFICES ASSUME u = t
                 PROVE  FALSE
      OBVIOUS
    <2>1. s = stack[t] /\ Len(s) = k + 1 /\ f = s[k + 1] /\ (k > 0 => Calls(s[k], f)) /\ DoesItsPart(f, gs)
      BY <1>2 DEF Shape
    <2>2. k = 1
      BY <1>3, <2>1
    <2>3. f.at = "cancel" /\ Calls(s[1], f) /\ s[1].c = c /\ s[1].at \in {"arm", "unlock"}
      BY <1>3, <2>1, <2>2 DEF Makes
    <2>4. f.c = c
      BY <2>3 DEF Calls
    <2> QED
      BY <2>1, <2>3, <2>4 DEF DoesItsPart
  <1>5. stack'[u] = stack[u]
    BY <1>2, <1>4 DEF Shape
  <1> QED
    BY <1>3, <1>5 DEF MakerCancels, Makes

(* Whoever cancels p has c still to do, or has just cancelled it.          *)
LEMMA ParentCancelsStays ==
  ASSUME TreeInv, NEW t \in Threads, NEW gs, Effect(t, gs), NEW p \in Ctx, NEW c \in Ctx,
         ParentCancels(p, c), err'[c] = None
  PROVE  ParentCancels(p, c)'
  <1>1. PICK f \in Frames, k \in Nat : \E s, q : Shape(t, gs, f, k, s, q)
    BY StepShape
  <1>2. PICK s, q : Shape(t, gs, f, k, s, q)
    BY <1>1
  <1>3. PICK u \in Threads : \E i \in DOMAIN stack[u] :
          /\ stack[u][i].c = p /\ stack[u][i].at = "children"
          /\ \/ c \in stack[u][i].todo
             \/ i + 1 \in DOMAIN stack[u] /\ stack[u][i + 1].c = c /\ stack[u][i + 1].at = "cancel"
    BY DEF ParentCancels
  <1>4. PICK i \in DOMAIN stack[u] :
          /\ stack[u][i].c = p /\ stack[u][i].at = "children"
          /\ \/ c \in stack[u][i].todo
             \/ i + 1 \in DOMAIN stack[u] /\ stack[u][i + 1].c = c /\ stack[u][i + 1].at = "cancel"
    BY <1>3
  <1>5. DoesItsPart(f, gs) /\ GoesOn(f, gs) /\ s = stack[t] /\ DOMAIN s = 1..(k + 1)
    BY <1>2 DEF Shape
  <1>6. CASE u = t /\ i = k + 1 /\ stack[u][i] = f
    <2>1. i + 1 \notin DOMAIN stack[u]
      BY <1>5, <1>6
    <2>2. f.c = p /\ f.at = "children" /\ c \in f.todo
      BY <1>4, <1>6, <2>1
    <2>3. /\ Len(gs) = 2 /\ gs # <<>> /\ gs[2].at = "cancel"
          /\ gs[1].at = "children" /\ gs[1].todo = f.todo \ {gs[2].c}
      BY <1>5, <2>2 DEF DoesItsPart, GoesOn
    <2>4. /\ k + 1 \in DOMAIN stack'[t] /\ stack'[t][k + 1] = gs[1] /\ gs[1].c = p
          /\ k + 1 + 1 \in DOMAIN stack'[t] /\ stack'[t][k + 1 + 1] = gs[2]
      <3>1. gs # <<>> => Becomes(t, k + 1, gs[1]) /\ gs[1].c = f.c
        BY <1>2, InnermostBecomes
      <3>2. Len(gs) = 2 => Becomes(t, k + 1 + 1, gs[2])
        BY <1>2, InnermostBecomes
      <3> QED
        BY <2>2, <2>3, <3>1, <3>2 DEF Becomes
    <2>5. c \in gs[1].todo \/ gs[2].c = c
      BY <2>2, <2>3
    <2> QED
      BY <2>3, <2>4, <2>5 DEF ParentCancels
  <1>7. CASE Becomes(u, i, stack[u][i])
    <2>1. CASE c \in stack[u][i].todo
      BY <1>4, <1>7, <2>1 DEF ParentCancels, Becomes
    <2>2. CASE i + 1 \in DOMAIN stack[u] /\ stack[u][i + 1].c = c /\ stack[u][i + 1].at = "cancel"
      <3>1. stack[u][i + 1] # f
        BY <1>5, <2>2 DEF DoesItsPart
      <3>2. Becomes(u, i + 1, stack[u][i + 1])
        <4>1. PICK j \in DOMAIN stack[u] : j = i + 1
          BY <2>2
        <4>2. Becomes(u, j, stack[u][j])
          BY <1>2, <3>1, <4>1, OthersStay
        <4> QED
          BY <4>1, <4>2
      <3> QED
        BY <1>4, <1>7, <2>2, <3>2 DEF ParentCancels, Becomes
    <2> QED
      BY <1>4, <2>1, <2>2
  <1> QED
    BY <1>2, <1>6, <1>7, OthersStay


(* A context in the tree is tied to its parent until it is cancelled.      *)
LEMMA TiedStays ==
  ASSUME ContextsAssumption, TreeInv, NEW t \in Threads, NEW gs, Effect(t, gs),
         NEW c \in Ctx \ Custom, InTree(c)'
  PROVE  err'[c] # None \/ Tied(c)'
  <1> SUFFICES ASSUME err'[c] = None
               PROVE  Tied(c)'
    OBVIOUS
  <1>1. PICK f \in Frames, k \in Nat : \E s, q : Shape(t, gs, f, k, s, q)
    BY StepShape
  <1>2. PICK s, q : Shape(t, gs, f, k, s, q)
    BY <1>1
  <1>3. /\ s = stack[t] /\ q = stack'[t] /\ f = s[k + 1] /\ f = Top(t)
        /\ GoesOn(f, gs) /\ Touches(f, gs) /\ DoesItsPart(f, gs)
        /\ f.c \in Ctx \ Custom
    BY <1>2 DEF Shape
  <1>4. c \in Ctx /\ err[c] = None
    BY <1>3 DEF Touches
  <1>5. f.at \in Early => Makes(t, f.c, Early) /\ k = 0
    BY <1>2 DEF Shape, Makes, Early, Cancelling
  <1>6. CASE c = f.c /\ f.at \in Early
    <2>1. CASE gs[1].at \in Late
      BY <1>3, <1>6, <2>1 DEF Touches, Early, Late
    <2>2. CASE gs[1].at \in Early /\ UNCHANGED <<made, err, timer, watched, children>>
      <3>1. ~InTree(c)
        BY <1>5, <1>6, EarlyIsNotInTree
      <3>2. PICK u \in Threads : Makes(u, c, Late)'
        BY <2>2, <3>1 DEF InTree
      <3>3. u = t
        <4>1. Makes(u, c, Early \cup Late)'
          BY <3>2 DEF Makes
        <4>2. Makes(u, c, Early \cup Late) /\ Makes(t, c, Early \cup Late)
          BY <1>5, <1>6, <4>1, KnownStays DEF Makes
        <4> QED
          BY <4>2 DEF TreeInv, MakerFits
      <3>4. k = 0 /\ Len(gs) = 1 /\ q[1] = gs[1]
        <4>1. k = 0 /\ k + 1 = 1 /\ 1 \in 1..1
          BY <1>5, <1>6
        <4>2. Len(gs) = 1
          BY <1>3, <1>6, <2>2 DEF GoesOn, Early, Cancelling
        <4>3. \A j \in 1..Len(gs) : q[k + j] = gs[j]
          BY <1>2 DEF Shape
        <4> QED
          BY <4>1, <4>2, <4>3
      <3> QED
        BY <1>3, <2>2, <3>2, <3>3, <3>4 DEF Makes, Early, Late
    <2> QED
      BY <1>3, <1>6, <2>1, <2>2 DEF Touches
  <1>7. CASE ~(c = f.c /\ f.at \in Early)
    <2> DEFINE p == Parent[c]
    <2>1. InTree(c)
      BY <1>3, <1>4, <1>7, KnownStays
    <2>2. Tied(c)
      BY <1>4, <2>1 DEF TreeInv
    <2>3. MakerCancels(c) => MakerCancels(c)'
      BY <1>4, MakerCancelsStays
    <2>4. ASSUME InPackage(p)
          PROVE  \/ err'[p] = None /\ c \in children'[p]
                 \/ ParentCancels(p, c)' \/ MakerCancels(c)'
      <3>1. p \in Ctx
        BY <1>4, <2>4 DEF ContextsAssumption, InPackage
      <3>2. ParentCancels(p, c) => ParentCancels(p, c)'
        BY <1>4, <3>1, ParentCancelsStays
      <3>3. CASE err[p] = None /\ c \in children[p]
        <4>1. CASE err'[p] = None
          BY <1>3, <1>4, <3>1, <3>3, <4>1 DEF Touches
        <4>2. CASE err'[p] # None
          <5>1. p = f.c
            BY <1>3, <3>1, <3>3, <4>2 DEF Touches
          <5>2. gs # <<>> /\ gs[1].at = "children" /\ c \in gs[1].todo
            BY <1>3, <3>3, <4>2, <5>1 DEF DoesItsPart
          <5>3. Becomes(t, k + 1, gs[1]) /\ gs[1].c = f.c
            <6>1. gs # <<>> => Becomes(t, k + 1, gs[1]) /\ gs[1].c = f.c
              BY <1>2, InnermostBecomes
            <6> QED
              BY <5>2, <6>1
          <5> QED
            BY <5>1, <5>2, <5>3 DEF ParentCancels, Becomes
        <4> QED
          BY <4>1, <4>2
      <3> QED
        BY <2>2, <2>3, <2>4, <3>2, <3>3 DEF Tied
    <2>5. ASSUME p \in Custom
          PROVE  \/ c \in watched'
                 \/ stack'[c] # <<>> /\ stack'[c][1].c = c /\ stack'[c][1].at = "cancel"
                 \/ MakerCancels(c)'
      <3>1. CASE c \in watched
        BY <1>3, <1>4, <3>1 DEF Touches
      <3>2. CASE stack[c] # <<>> /\ stack[c][1].c = c /\ stack[c][1].at = "cancel"
        <4>1. c \in Threads /\ 1 \in DOMAIN stack[c]
          BY <1>4, <3>2 DEF Threads, TreeInv, ContextTypeOK
        <4>2. stack[c][1] # f
          BY <1>3, <3>2 DEF DoesItsPart
        <4>3. Becomes(c, 1, stack[c][1])
          BY <1>2, <4>1, <4>2, OthersStay
        <4>4. stack'[c] # <<>>
          BY <4>3 DEF Becomes
        <4> QED
          BY <3>2, <4>3, <4>4 DEF Becomes
      <3> QED
        BY <2>2, <2>3, <2>5, <3>1, <3>2 DEF Tied
    <2> QED
      BY <2>4, <2>5 DEF Tied
  <1> QED
    BY <1>6, <1>7

(* A call on c at a step of S: it goes on, or ends.                        *)
LEMMA InCallStays ==
  ASSUME NEW t \in Threads, NEW gs, NEW f, NEW k \in Nat, NEW s, NEW q, Shape(t, gs, f, k, s, q),
         NEW c \in Ctx, NEW S, InCall(c, S)
  PROVE  \/ InCall(c, S)'
         \/ f.c = c /\ f.at \in S /\ (gs # <<>> => gs[1].at \notin S)
  <1>1. PICK u \in Threads : \E i \in DOMAIN stack[u] : stack[u][i].c = c /\ stack[u][i].at \in S
    BY DEF InCall
  <1>2. PICK i \in DOMAIN stack[u] : stack[u][i].c = c /\ stack[u][i].at \in S
    BY <1>1
  <1>3. gs # <<>> => Becomes(t, k + 1, gs[1]) /\ gs[1].c = f.c
    BY InnermostBecomes
  <1>4. CASE stack[u][i] = f
    BY <1>2, <1>3, <1>4 DEF InCall, Becomes
  <1>5. CASE Becomes(u, i, stack[u][i])
    BY <1>2, <1>5 DEF InCall, Becomes
  <1>6. (u = t /\ i = k + 1 /\ stack[u][i] = f) \/ Becomes(u, i, stack[u][i])
    BY OthersStay
  <1> QED
    BY <1>4, <1>5, <1>6


(* A cancelled context is cleared away.                                    *)
LEMMA ClearedStays ==
  ASSUME ContextsAssumption, TreeInv, NEW t \in Threads, NEW gs, Effect(t, gs),
         NEW c \in Ctx \ Custom, err'[c] # None
  PROVE  Cleared(c)'
  <1>1. PICK f \in Frames, k \in Nat : \E s, q : Shape(t, gs, f, k, s, q)
    BY StepShape
  <1>2. PICK s, q : Shape(t, gs, f, k, s, q)
    BY <1>1
  <1>3. /\ s = stack[t] /\ q = stack'[t] /\ f = s[k + 1] /\ f = Top(t)
        /\ GoesOn(f, gs) /\ Touches(f, gs) /\ DoesItsPart(f, gs) /\ Refers(f)
        /\ f.c \in Ctx \ Custom
        /\ f.at \notin Cancelling => k = 0
    BY <1>2 DEF Shape
  <1>4. gs # <<>> => Becomes(t, k + 1, gs[1]) /\ gs[1].c = f.c
    BY <1>2, InnermostBecomes
  <1>5. \A S : gs # <<>> /\ gs[1].at \in S => InCall(f.c, S)'
    BY <1>4 DEF InCall, Becomes
  <1> DEFINE p == Parent[c]
  <1>6. c \in Ctx /\ (InPackage(p) => p \in Ctx)
    BY DEF ContextsAssumption, InPackage
  <1>7. CASE err[c] = None
    <2>1. /\ c = f.c /\ f.at = "cancel" /\ gs # <<>> /\ children' = children
          /\ gs[1].at = "children" /\ gs[1].remove = f.remove
      BY <1>3, <1>6, <1>7 DEF Touches, DoesItsPart
    <2>2. InCall(c, {"children"})' /\ InCall(c, {"children", "removeChild", "stopTimer"})'
      BY <1>5, <2>1
    <2>3. ASSUME InPackage(p), c \in children'[p]
          PROVE  \/ InCall(p, {"children"})'
                 \/ \E u \in Threads : \E i \in DOMAIN stack'[u] :
                      stack'[u][i].c = c /\ stack'[u][i].remove /\ stack'[u][i].at \in {"children", "removeChild"}
      <3>1. CASE f.remove
        BY <1>4, <2>1, <3>1 DEF Becomes
      <3>2. CASE ~f.remove /\ k = 0
        <4>1. StackFits(t) /\ s[1] = f /\ stack[t] # <<>>
          <5>1. k + 1 = 1
            BY <3>2
          <5> QED
            BY <1>2, <1>3, <5>1 DEF TreeInv, Shape
        <4> QED
          BY <1>3, <1>7, <2>1, <2>3, <3>2, <4>1 DEF StackFits, InPackage
      <3>3. CASE ~f.remove /\ k > 0
        <4>1. Becomes(t, k, s[k]) /\ Calls(s[k], f) /\ k \in DOMAIN stack[t]
          <5>1. k > 0 => Becomes(t, k, stack[t][k]) /\ Calls(stack[t][k], f) /\ k \in DOMAIN stack[t]
            BY <1>2, InnermostBecomes
          <5> QED
            BY <1>3, <3>3, <5>1
        <4>2. CASE s[k].at = "children"
          BY <2>1, <4>1, <4>2 DEF Calls, InCall, Becomes
        <4>3. CASE s[k].at \in {"arm", "unlock"} /\ f.c = s[k].c
          <5>1. k = 1
            <6>1. k > 1 => Calls(s[k - 1], s[k])
              BY <1>3, <4>1 DEF TreeInv, StackFits
            <6> QED
              BY <3>3, <4>3, <6>1 DEF Calls, Cancelling
          <5>2. Makes(t, c, {"arm", "unlock"}) /\ Len(stack[t]) > 1
            BY <1>2, <1>3, <2>1, <4>3, <5>1 DEF Shape, Makes
          <5>3. Makes(t, c, Early \cup Late)
            BY <5>2 DEF Makes, Late
          <5>4. c \notin children[p]
            BY <1>6, <2>3, <5>2, <5>3 DEF TreeInv, MakerFits
          <5> QED
            BY <2>1, <2>3, <5>4
        <4> QED
          BY <2>1, <3>3, <4>1, <4>2, <4>3 DEF Calls
      <3> QED
        BY <3>1, <3>2, <3>3
    <2> QED
      BY <2>2, <2>3 DEF Cleared
  <1>8. CASE err[c] # None
    <2>1. Cleared(c)
      BY <1>8 DEF TreeInv
    <2>2. children'[c] = {} \/ InCall(c, {"children"})'
      <3>1. CASE children[c] = {}
        BY <1>3, <1>6, <1>8, <3>1 DEF Touches
      <3>2. CASE InCall(c, {"children"})
        <4>1. \/ InCall(c, {"children"})'
              \/ f.c = c /\ f.at \in {"children"} /\ (gs # <<>> => gs[1].at \notin {"children"})
          BY <1>2, <1>6, <3>2, InCallStays
        <4>2. f.at = "children" =>
                \/ Len(gs) = 2 /\ gs[1].at = "children"
                \/ children'[f.c] = {}
          BY <1>3 DEF DoesItsPart
        <4>3. Len(gs) = 2 => gs # <<>>
          BY <1>2 DEF Shape
        <4> QED
          BY <4>1, <4>2, <4>3
      <3> QED
        BY <2>1, <3>1, <3>2 DEF Cleared
    <2>3. timer'[c] => InCall(c, {"children", "removeChild", "stopTimer"})'
      <3> SUFFICES ASSUME timer'[c]
                   PROVE  InCall(c, {"children", "removeChild", "stopTimer"})'
        OBVIOUS
      <3>1. PICK S : S = {"children", "removeChild", "stopTimer"}
        OBVIOUS
      <3>2. InCall(c, S)
        BY <1>3, <1>6, <1>8, <2>1, <3>1 DEF Touches, Cleared
      <3>3. InCall(c, S)' \/ (f.c = c /\ f.at \in S /\ (gs # <<>> => gs[1].at \notin S))
        BY <1>2, <1>6, <3>2, InCallStays
      <3> QED
        BY <1>3, <3>1, <3>3 DEF DoesItsPart
    <2>4. ASSUME InPackage(p), c \in children'[p]
          PROVE  \/ InCall(p, {"children"})'
                 \/ \E u \in Threads : \E i \in DOMAIN stack'[u] :
                      stack'[u][i].c = c /\ stack'[u][i].remove /\ stack'[u][i].at \in {"children", "removeChild"}
      <3>1. f.c = c => f.at # "attach"
        <4> SUFFICES ASSUME f.c = c, f.at = "attach"
                     PROVE  FALSE
          OBVIOUS
        <4>1. Makes(t, c, Early)
          <5>1. k = 0 /\ s[1] = f /\ s # <<>>
            <6>1. k = 0 /\ k + 1 = 1
              BY <1>3 DEF Cancelling
            <6> QED
              BY <1>2, <1>3, <6>1 DEF Shape
          <5> QED
            BY <1>3, <5>1 DEF Makes, Early
        <4>2. Untouched(c)
          BY <1>6, <4>1, EarlyIsNotInTree
        <4> QED
          BY <1>8, <4>2 DEF Untouched
      <3>2. c \in children[p]
        BY <1>3, <1>6, <2>4, <3>1 DEF Touches
      <3>3. CASE InCall(p, {"children"})
        <4>1. \/ InCall(p, {"children"})'
              \/ f.c = p /\ f.at \in {"children"} /\ (gs # <<>> => gs[1].at \notin {"children"})
          BY <1>2, <1>6, <2>4, <3>3, InCallStays
        <4>2. f.at = "children" =>
                \/ Len(gs) = 2 /\ gs[1].at = "children"
                \/ children'[f.c] = {}
          BY <1>3 DEF DoesItsPart
        <4>3. Len(gs) = 2 => gs # <<>>
          BY <1>2 DEF Shape
        <4> QED
          BY <2>4, <4>1, <4>2, <4>3
      <3>4. ASSUME NEW u \in Threads, NEW i \in DOMAIN stack[u],
                   stack[u][i].c = c, stack[u][i].remove, stack[u][i].at \in {"children", "removeChild"}
            PROVE  \E v \in Threads : \E j \in DOMAIN stack'[v] :
                     stack'[v][j].c = c /\ stack'[v][j].remove /\ stack'[v][j].at \in {"children", "removeChild"}
        <4>1. CASE Becomes(u, i, stack[u][i])
          BY <3>4, <4>1 DEF Becomes
        <4>2. CASE stack[u][i] = f
          <5>1. gs # <<>> /\ gs[1].at \in {"children", "removeChild"} /\ gs[1].remove
            BY <1>3, <2>4, <3>4, <4>2 DEF DoesItsPart
          <5> QED
            BY <1>4, <3>4, <4>2, <5>1 DEF Becomes
        <4>3. (u = t /\ i = k + 1 /\ stack[u][i] = f) \/ Becomes(u, i, stack[u][i])
          BY <1>2, OthersStay
        <4> QED
          BY <4>1, <4>2, <4>3
      <3> QED
        BY <2>1, <2>4, <3>2, <3>3, <3>4 DEF Cleared
    <2> QED
      BY <2>2, <2>3, <2>4 DEF Cleared
  <1> QED
    BY <1>7, <1>8

(* The invariant holds after a step in the innermost call.                 *)
LEMMA EffectKeeps ==
  ASSUME ContextsAssumption, TreeInv, NEW t \in Threads, NEW gs, Effect(t, gs)
  PROVE  TreeInv'
  <1>1. ContextTypeOK'
    <2>1. stack' \in [Threads -> Seq(Frames)]
      BY Replacing DEF TreeInv, ContextTypeOK, Effect, GoesOn, Stacked
    <2> QED
      BY <2>1 DEF Effect, VarsOK, ContextTypeOK
  <1>2. \A u \in Threads : StackFits(u)'
    BY StacksStay
  <1>3. \A c \in Ctx : ~Known(c)' => Untouched(c)'
    BY UnknownStays
  <1>4. \A u \in Threads, c \in Ctx : Makes(u, c, Early \cup Late)' => MakerFits(u, c)'
    BY MakersStay
  <1>5. LocksHeld'
    BY LocksStay
  <1>6. \A c \in Ctx \ Custom : InTree(c)' => err'[c] # None \/ Tied(c)'
    BY TiedStays
  <1>7. \A c \in Ctx \ Custom : err'[c] # None => Cleared(c)'
    BY ClearedStays
  <1> QED
    BY <1>1, <1>2, <1>3, <1>4, <1>5, <1>6, <1>7 DEF TreeInv


-----------------------------------------------------------------------------
(* The innermost call of a goroutine.                                      *)
LEMMA TopFits ==
  ASSUME ContextsAssumption, TreeInv, NEW t \in Threads, stack[t] # <<>>
  PROVE  /\ Top(t) \in Frames /\ Top(t).c \in Ctx \ Custom
         /\ Parent[Top(t).c] \in Ctx \cup {None}
         /\ Refers(Top(t)) /\ CallFits(Top(t))
         /\ Held(Top(t)) # None => mu[Held(Top(t))] = t
         /\ Top(t).at \notin Cancelling => Len(stack[t]) = 1
  <1>1. PICK s : s = stack[t]
    OBVIOUS
  <1>2. PICK n : n = Len(s)
    OBVIOUS
  <1>3. s \in Seq(Frames) /\ n \in Nat \ {0} /\ DOMAIN s = 1..n /\ n \in 1..n /\ Top(t) = s[n]
    BY <1>1, <1>2 DEF TreeInv, ContextTypeOK, Top
  <1>4. s[n] \in Frames
    BY <1>3
  <1>5. s[n].c \in Ctx \ Custom /\ Parent[s[n].c] \in Ctx \cup {None}
    BY <1>4 DEF Frames, ContextsAssumption
  <1>6. Refers(s[n]) /\ CallFits(s[n]) /\ (n > 1 => Calls(s[n - 1], s[n]))
    BY <1>1, <1>3 DEF TreeInv, StackFits
  <1>7. Held(s[n]) # None => mu[Held(s[n])] = t
    BY <1>1, <1>3 DEF TreeInv, LocksHeld
  <1>8. s[n].at \notin Cancelling => n = 1
    BY <1>3, <1>6 DEF Calls
  <1> QED
    BY <1>1, <1>2, <1>3, <1>4, <1>5, <1>6, <1>7, <1>8

(* One call takes the place of f.                                          *)
LEMMA GoesOnOne ==
  ASSUME NEW f \in Frames, NEW a \in Frames, a.c = f.c, a.remove => f.remove,
         \/ f.at \in Cancelling /\ a.at \in Cancelling \ {"cancel"}
         \/ f.at \in Early /\ a.at \in Early \cup {"unlock", "arm"}
         \/ f.at = "unlock" /\ a.at = "arm"
         \/ f.at = "arm" /\ a.at = "return",
         Refers(a), CallFits(a)'
  PROVE  GoesOn(f, <<a>>) /\ <<a>> # <<>> /\ <<a>>[1] = a /\ Len(<<a>>) = 1
  <1>1. PICK gs : gs = <<a>>
    OBVIOUS
  <1>2. gs \in Seq(Frames) /\ Len(gs) = 1 /\ gs # <<>> /\ gs[1] = a
    BY <1>1
  <1>3. \A j \in 1..Len(gs) : Refers(gs[j]) /\ CallFits(gs[j])'
    BY <1>2
  <1>4. GoesOn(f, gs)
    BY <1>2, <1>3 DEF GoesOn
  <1> QED
    BY <1>1, <1>2, <1>4

(* f, or what becomes of it, calls cancel.                                 *)
LEMMA GoesOnTwo ==
  ASSUME NEW f \in Frames, NEW a \in Frames, NEW b \in Frames, a.c = f.c, a.remove => f.remove,
         \/ f.at = "children" /\ a.at = "children" /\ b.c \in f.todo
         \/ f.at \in Early /\ a.at \in {"unlock", "arm"}
         \/ f.at = "arm" /\ a.at = "return",
         Refers(a), CallFits(a)', Refers(b), CallFits(b)',
         b.at = "cancel", Calls(a, b)
  PROVE  /\ GoesOn(f, <<a, b>>) /\ <<a, b>> # <<>> /\ <<a, b>>[1] = a /\ <<a, b>>[2] = b
         /\ Len(<<a, b>>) = 2
  <1>1. PICK gs : gs = <<a, b>>
    OBVIOUS
  <1>2. gs \in Seq(Frames) /\ Len(gs) = 2 /\ gs # <<>> /\ gs[1] = a /\ gs[2] = b
    BY <1>1
  <1>3. \A j \in 1..Len(gs) : Refers(gs[j]) /\ CallFits(gs[j])'
    BY <1>2
  <1>4. GoesOn(f, gs)
    BY <1>2, <1>3 DEF GoesOn, Cancelling, Early
  <1> QED
    BY <1>1, <1>2, <1>4

(* What cancel does after its critical section.                            *)
LEMMA GoesOnAfter ==
  ASSUME NEW f \in Frames, NEW g \in Frames, g.c = f.c, g.err = f.err, g.remove => f.remove,
         f.at \in Cancelling, f.err # None, err'[f.c] # None, Known(f.c),
         NEW gs, gs = AfterCancel(g)
  PROVE  /\ GoesOn(f, gs)
         /\ gs # <<>> => gs[1].at \in {"removeChild", "stopTimer"}
         /\ g.remove => gs # <<>> /\ gs[1].at = "removeChild" /\ gs[1].remove
         /\ f.c \in Timed => gs # <<>>
         /\ Len(gs) # 2
  <1>1. ASSUME NEW x \in {"removeChild", "stopTimer"}, gs = <<[g EXCEPT !.at = x]>>
        PROVE  GoesOn(f, gs) /\ gs # <<>> /\ gs[1].at = x /\ gs[1].remove = g.remove /\ Len(gs) = 1
    <2>1. PICK a : a = [g EXCEPT !.at = x]
      OBVIOUS
    <2>2. a \in Frames /\ a.c = f.c /\ a.err = f.err /\ a.remove = g.remove /\ a.at = x
      BY <2>1 DEF Frames, Cancelling
    <2>3. Refers(a) /\ CallFits(a)'
      BY <2>2 DEF Refers, CallFits, Cancelling
    <2>4. gs = <<a>>
      BY <1>1, <2>1
    <2>5. f.at \in Cancelling /\ a.at \in Cancelling \ {"cancel"}
      BY <2>2 DEF Cancelling
    <2>6. /\ GoesOn(f, <<a>>) /\ <<a>> # <<>> /\ <<a>>[1] = a /\ Len(<<a>>) = 1
      BY <2>2, <2>3, <2>5, GoesOnOne
    <2> QED
      BY <2>2, <2>4, <2>6
  <1>2. CASE g.remove
    <2>1. gs = <<[g EXCEPT !.at = "removeChild"]>>
      BY <1>2 DEF AfterCancel
    <2>2. GoesOn(f, gs) /\ gs # <<>> /\ gs[1].at = "removeChild" /\ gs[1].remove = g.remove /\ Len(gs) = 1
      BY <1>1, <2>1
    <2> QED
      BY <1>2, <2>2
  <1>3. CASE ~g.remove /\ g.c \in Timed
    <2>1. gs = <<[g EXCEPT !.at = "stopTimer"]>>
      BY <1>3 DEF AfterCancel
    <2> QED
      BY <1>1, <1>3, <2>1
  <1>4. CASE ~g.remove /\ g.c \notin Timed
    <2>1. gs = <<>> /\ Len(gs) = 0
      BY <1>4 DEF AfterCancel
    <2> QED
      BY <1>4, <2>1 DEF GoesOn
  <1> QED
    BY <1>2, <1>3, <1>4

(* A step that changes only the stack of t.                                *)
LEMMA QuietEffect ==
  ASSUME ContextsAssumption, TreeInv, NEW t \in Threads, stack[t] # <<>>, NEW f \in Frames, f = Top(t),
         NEW gs, stack' = Replaced(t, gs), UNCHANGED <<made, err, mu, children, timer, watched>>,
         GoesOn(f, gs), DoesItsPart(f, gs),
         f.at \in Early => (Tied(f.c)' /\ gs[1].at \in Late) \/ gs[1].at \in Early,
         gs # <<>> /\ Held(gs[1]) # None => Held(gs[1]) = Held(f)
  PROVE  Effect(t, gs)
  <1>1. f.c \in Ctx \ Custom /\ (Held(f) # None => mu[Held(f)] = t)
    BY TopFits
  <1>2. Touches(f, gs)
    BY <1>1 DEF Touches
  <1>3. Locking(t, f, gs)
    BY <1>1 DEF Locking
  <1>4. VarsOK'
    BY DEF VarsOK, TreeInv, ContextTypeOK
  <1> QED
    BY <1>2, <1>3, <1>4 DEF Effect


(* Each step of cancel has such an effect.  AlreadyCanceled changes only   *)
(* the stack.                                                              *)
LEMMA AlreadyCanceledEffect ==
  ASSUME ContextsAssumption, TreeInv, NEW t \in Threads, AlreadyCanceled(t)
  PROVE  \E gs : Effect(t, gs)
  <1>1. PICK f : f = Top(t)
    OBVIOUS
  <1>2. PICK gs : gs = IF f.c \in Timed THEN AfterCancel(f) ELSE <<>>
    OBVIOUS
  <1>3. /\ stack[t] # <<>> /\ f.at = "cancel" /\ err[f.c] # None /\ stack' = Replaced(t, gs)
        /\ UNCHANGED <<made, err, mu, children, timer, watched>>
    BY <1>1, <1>2 DEF AlreadyCanceled, At
  <1>4. f \in Frames /\ f.c \in Ctx /\ Known(f.c) /\ f.err # None
    BY <1>1, <1>3, TopFits DEF Refers, CallFits, Cancelling
  <1>5. GoesOn(f, gs) /\ (gs # <<>> => gs[1].at \in {"removeChild", "stopTimer"}) /\ Len(gs) # 2
    <2>1. CASE f.c \in Timed
      <3>1. gs = AfterCancel(f)
        BY <1>2, <2>1
      <3> QED
        BY <1>3, <1>4, <3>1, GoesOnAfter DEF Cancelling
    <2>2. CASE f.c \notin Timed
      <3>1. gs = <<>> /\ Len(gs) = 0
        BY <1>2, <2>2
      <3> QED
        BY <1>3, <3>1 DEF GoesOn, Cancelling
    <2> QED
      BY <2>1, <2>2
  <1>6. DoesItsPart(f, gs)
    BY <1>3, <1>4 DEF DoesItsPart
  <1>7. gs # <<>> => Held(gs[1]) = None
    BY <1>5 DEF Held
  <1>8. f.at \notin Early
    BY <1>3 DEF Early
  <1>9. Effect(t, gs)
    BY <1>1, <1>3, <1>4, <1>5, <1>6, <1>7, <1>8, QuietEffect
  <1> QED
    BY <1>9

(* SetErr locks c.mu and leaves the children to cancel.                    *)
LEMMA SetErrEffect ==
  ASSUME ContextsAssumption, TreeInv, NEW t \in Threads, SetErr(t)
  PROVE  \E gs : Effect(t, gs)
  <1>1. PICK f : f = Top(t)
    OBVIOUS
  <1>2. PICK a : a = [f EXCEPT !.at = "children", !.todo = children[f.c]]
    OBVIOUS
  <1>3. PICK gs : gs = <<a>>
    OBVIOUS
  <1>4. /\ stack[t] # <<>> /\ f.at = "cancel" /\ Free(f.c) /\ err[f.c] = None /\ stack' = Replaced(t, gs)
        /\ mu' = [mu EXCEPT ![f.c] = t] /\ err' = [err EXCEPT ![f.c] = f.err]
        /\ UNCHANGED <<made, children, timer, watched>>
    BY <1>1, <1>2, <1>3 DEF SetErr, At
  <1>5. f \in Frames /\ f.c \in Ctx \ Custom /\ Known(f.c) /\ f.err # None /\ f.err \in Errors
    <2>1. f \in Frames /\ f.c \in Ctx \ Custom /\ Known(f.c) /\ f.err # None
      BY <1>1, <1>4, TopFits DEF Refers, CallFits, Cancelling
    <2> QED
      BY <2>1 DEF Frames
  <1>6. /\ children[f.c] \subseteq {k \in Ctx \ Custom : Parent[k] = f.c}
        /\ err \in [Ctx -> Errors \cup {None}] /\ mu \in [Ctx -> Threads \cup {None}]
    BY <1>5 DEF TreeInv, ContextTypeOK
  <1>7. /\ a \in Frames /\ a.c = f.c /\ a.remove = f.remove /\ a.at = "children" /\ a.todo = children[f.c]
        /\ a.err = f.err
    BY <1>2, <1>5, <1>6 DEF Frames, Cancelling
  <1>8. err' \in [Ctx -> Errors \cup {None}] /\ err'[f.c] = f.err /\ \A k \in Ctx \ {f.c} : err'[k] = err[k]
    BY <1>4, <1>5, <1>6
  <1>9. /\ mu' \in [Ctx -> Threads \cup {None}] /\ mu'[f.c] = t /\ mu[f.c] = None
        /\ \A k \in Ctx \ {f.c} : mu'[k] = mu[k]
    BY <1>4, <1>5, <1>6 DEF Free
  <1>10. Refers(a)
    <2>1. \A k \in children[f.c] : k \in Ctx \ Custom /\ Parent[k] = f.c /\ InTree(k)
      <3> SUFFICES ASSUME NEW k \in children[f.c]
                   PROVE  InTree(k)
        BY <1>6
      <3>1. k \in Ctx /\ ~Untouched(k)
        BY <1>5, <1>6 DEF Untouched
      <3> QED
        BY <3>1, TouchedIsInTree
    <2> QED
      BY <1>5, <1>7, <2>1 DEF Refers
  <1>11. CallFits(a)'
    BY <1>5, <1>7, <1>8 DEF CallFits
  <1>12. GoesOn(f, gs) /\ gs # <<>> /\ gs[1] = a /\ Len(gs) = 1
    BY <1>3, <1>4, <1>5, <1>7, <1>10, <1>11, GoesOnOne DEF Cancelling
  <1>13. Touches(f, gs)
    BY <1>4, <1>5, <1>8 DEF Touches, Early
  <1>14. DoesItsPart(f, gs)
    BY <1>4, <1>5, <1>7, <1>8, <1>12 DEF DoesItsPart
  <1>15. Locking(t, f, gs)
    BY <1>7, <1>9, <1>12 DEF Locking, Held
  <1>16. VarsOK'
    BY <1>4, <1>8, <1>9 DEF VarsOK, TreeInv, ContextTypeOK
  <1>17. Effect(t, gs)
    BY <1>1, <1>4, <1>12, <1>13, <1>14, <1>15, <1>16 DEF Effect
  <1> QED
    BY <1>17

(* CancelChild leaves one child less to cancel.                            *)
LEMMA CancelChildEffect ==
  ASSUME ContextsAssumption, TreeInv, NEW t \in Threads, NEW k \in Ctx, CancelChild(t, k)
  PROVE  \E gs : Effect(t, gs)
  <1>1. PICK f : f = Top(t)
    OBVIOUS
  <1>2. PICK a : a = [f EXCEPT !.todo = @ \ {k}]
    OBVIOUS
  <1>3. PICK b : b = Cancels(k, FALSE, f.err)
    OBVIOUS
  <1>4. PICK gs : gs = <<a, b>>
    OBVIOUS
  <1>5. /\ stack[t] # <<>> /\ f.at = "children" /\ k \in f.todo /\ stack' = Replaced(t, gs)
        /\ UNCHANGED <<made, err, mu, children, timer, watched>>
    BY <1>1, <1>2, <1>3, <1>4 DEF CancelChild, At
  <1>6. f \in Frames /\ Refers(f) /\ CallFits(f) /\ f.err # None /\ err[f.c] # None
    BY <1>1, <1>5, TopFits DEF CallFits, Cancelling
  <1>7. k \in Ctx \ Custom /\ Parent[k] = f.c /\ InTree(k)
    BY <1>5, <1>6 DEF Refers
  <1>8. Known(k)
    BY <1>7 DEF Known, InTree, Makes, Late
  <1>9. /\ a \in Frames /\ a.c = f.c /\ a.remove = f.remove /\ a.at = "children" /\ a.todo = f.todo \ {k}
        /\ a.err = f.err
    BY <1>2, <1>5, <1>6 DEF Frames
  <1>10. b \in Frames /\ b.c = k /\ b.at = "cancel" /\ b.remove = FALSE /\ b.err = f.err /\ b.todo = {}
    BY <1>3, <1>6, <1>7 DEF Frames, Cancels, Frame, Cancelling
  <1>11. Refers(a) /\ CallFits(a)' /\ Refers(b) /\ CallFits(b)'
    <2>1. Refers(a)
      BY <1>5, <1>6, <1>9 DEF Refers
    <2>2. CallFits(a)'
      BY <1>5, <1>6, <1>9 DEF CallFits
    <2>3. Refers(b)
      BY <1>8, <1>10 DEF Refers
    <2>4. CallFits(b)'
      BY <1>6, <1>10 DEF CallFits
    <2> QED
      BY <2>1, <2>2, <2>3, <2>4
  <1>12. Calls(a, b)
    BY <1>7, <1>9, <1>10 DEF Calls, Cancelling
  <1>13. GoesOn(f, gs) /\ gs # <<>> /\ gs[1] = a /\ gs[2] = b /\ Len(gs) = 2
    BY <1>4, <1>5, <1>6, <1>9, <1>10, <1>11, <1>12, GoesOnTwo
  <1>14. DoesItsPart(f, gs)
    BY <1>5, <1>9, <1>10, <1>13 DEF DoesItsPart
  <1>15. Held(gs[1]) = Held(f) /\ f.at \notin Early
    BY <1>5, <1>9, <1>13 DEF Held, Early
  <1>16. Effect(t, gs)
    BY <1>1, <1>5, <1>6, <1>13, <1>14, <1>15, QuietEffect
  <1> QED
    BY <1>16

(* ChildrenDone unlocks c.mu and leaves no children.                       *)
LEMMA ChildrenDoneEffect ==
  ASSUME ContextsAssumption, TreeInv, NEW t \in Threads, ChildrenDone(t)
  PROVE  \E gs : Effect(t, gs)
  <1>1. PICK f : f = Top(t)
    OBVIOUS
  <1>2. PICK gs : gs = AfterCancel(f)
    OBVIOUS
  <1>3. /\ stack[t] # <<>> /\ f.at = "children" /\ f.todo = {} /\ stack' = Replaced(t, gs)
        /\ children' = [children EXCEPT ![f.c] = {}] /\ mu' = [mu EXCEPT ![f.c] = None]
        /\ UNCHANGED <<made, err, timer, watched>>
    BY <1>1, <1>2 DEF ChildrenDone, At
  <1>4. f \in Frames /\ f.c \in Ctx \ Custom /\ Known(f.c) /\ f.err # None /\ err[f.c] # None
    BY <1>1, <1>3, TopFits DEF Refers, CallFits, Cancelling
  <1>5. DOMAIN children = Ctx /\ mu \in [Ctx -> Threads \cup {None}] /\ \A k \in Ctx : timer[k] => k \in Timed
    BY DEF TreeInv, ContextTypeOK
  <1>6. DOMAIN children' = Ctx /\ children'[f.c] = {} /\ \A p \in Ctx \ {f.c} : children'[p] = children[p]
    BY <1>3, <1>4, <1>5
  <1>7. mu' \in [Ctx -> Threads \cup {None}] /\ \A p \in Ctx \ {f.c} : mu'[p] = mu[p]
    BY <1>3, <1>4, <1>5
  <1>8. /\ GoesOn(f, gs)
        /\ gs # <<>> => gs[1].at \in {"removeChild", "stopTimer"}
        /\ f.remove => gs # <<>> /\ gs[1].at = "removeChild" /\ gs[1].remove
        /\ f.c \in Timed => gs # <<>>
    BY <1>2, <1>3, <1>4, GoesOnAfter DEF Cancelling
  <1>9. Touches(f, gs)
    BY <1>3, <1>4, <1>6 DEF Touches, Early
  <1>10. DoesItsPart(f, gs)
    BY <1>3, <1>4, <1>5, <1>6, <1>8 DEF DoesItsPart
  <1>11. Locking(t, f, gs)
    BY <1>3, <1>7, <1>8 DEF Locking, Held
  <1>12. VarsOK'
    BY <1>3, <1>4, <1>6, <1>7 DEF VarsOK, TreeInv, ContextTypeOK
  <1>13. Effect(t, gs)
    BY <1>1, <1>3, <1>8, <1>9, <1>10, <1>11, <1>12 DEF Effect
  <1> QED
    BY <1>13

(* removeChild takes c from the children of its parent.                    *)
LEMMA RemoveChildEffect ==
  ASSUME ContextsAssumption, TreeInv, NEW t \in Threads, removeChild(t)
  PROVE  \E gs : Effect(t, gs)
  <1>1. PICK f : f = Top(t)
    OBVIOUS
  <1>2. PICK g : g = [f EXCEPT !.remove = FALSE]
    OBVIOUS
  <1>3. PICK gs : gs = AfterCancel(g)
    OBVIOUS
  <1> DEFINE p == Parent[f.c]
  <1>4. /\ stack[t] # <<>> /\ f.at = "removeChild" /\ stack' = Replaced(t, gs)
        /\ InPackage(p) => children' = [children EXCEPT ![p] = @ \ {f.c}]
        /\ ~InPackage(p) => children' = children
        /\ UNCHANGED <<made, err, mu, timer, watched>>
    BY <1>1, <1>2, <1>3 DEF removeChild, At
  <1>5. /\ f \in Frames /\ f.c \in Ctx \ Custom /\ Known(f.c) /\ f.err # None /\ err[f.c] # None
        /\ p \in Ctx \cup {None}
    BY <1>1, <1>4, TopFits DEF Refers, CallFits, Cancelling
  <1>6. g \in Frames /\ g.c = f.c /\ g.err = f.err /\ ~g.remove
    BY <1>2, <1>5 DEF Frames
  <1>7. DOMAIN children = Ctx /\ \A k \in Ctx : timer[k] => k \in Timed
    BY DEF TreeInv, ContextTypeOK
  <1>8. /\ DOMAIN children' = Ctx /\ \A q \in Ctx : children'[q] \subseteq children[q]
        /\ \A q \in Ctx : \A k \in children[q] : k \in children'[q] \/ k = f.c
        /\ InPackage(p) => f.c \notin children'[p]
    BY <1>4, <1>5, <1>7 DEF InPackage
  <1>9. /\ GoesOn(f, gs)
        /\ gs # <<>> => gs[1].at \in {"removeChild", "stopTimer"}
        /\ f.c \in Timed => gs # <<>>
    BY <1>3, <1>4, <1>5, <1>6, GoesOnAfter DEF Cancelling
  <1>10. Touches(f, gs)
    BY <1>4, <1>5, <1>8 DEF Touches, Early
  <1>11. DoesItsPart(f, gs)
    BY <1>4, <1>5, <1>7, <1>8, <1>9 DEF DoesItsPart
  <1>12. Locking(t, f, gs)
    BY <1>4, <1>9 DEF Locking, Held
  <1>13. VarsOK'
    BY <1>4, <1>8 DEF VarsOK, TreeInv, ContextTypeOK
  <1>14. Effect(t, gs)
    BY <1>1, <1>4, <1>9, <1>10, <1>11, <1>12, <1>13 DEF Effect
  <1> QED
    BY <1>14

(* StopTimer stops the timer, and the cancel ends.                         *)
LEMMA StopTimerEffect ==
  ASSUME ContextsAssumption, TreeInv, NEW t \in Threads, StopTimer(t)
  PROVE  \E gs : Effect(t, gs)
  <1>1. PICK f : f = Top(t)
    OBVIOUS
  <1>2. PICK gs : gs = <<>>
    OBVIOUS
  <1>3. /\ stack[t] # <<>> /\ f.at = "stopTimer" /\ stack' = Replaced(t, gs)
        /\ timer' = [timer EXCEPT ![f.c] = FALSE]
        /\ UNCHANGED <<made, err, mu, children, watched>>
    BY <1>1, <1>2 DEF StopTimer, At, ReturnFrom
  <1>4. f \in Frames /\ f.c \in Ctx \ Custom
    BY <1>1, <1>3, TopFits
  <1>5. timer' \in [Ctx -> BOOLEAN] /\ ~timer'[f.c] /\ \A k \in Ctx : timer'[k] => timer[k]
    BY <1>3, <1>4 DEF TreeInv, ContextTypeOK
  <1>6. GoesOn(f, gs)
    BY <1>2, <1>3 DEF GoesOn, Cancelling
  <1>7. Touches(f, gs)
    BY <1>3, <1>4, <1>5 DEF Touches, Early
  <1>8. DoesItsPart(f, gs)
    BY <1>3, <1>4, <1>5 DEF DoesItsPart
  <1>9. Locking(t, f, gs)
    BY <1>2, <1>3 DEF Locking
  <1>10. VarsOK'
    BY <1>3, <1>5 DEF VarsOK, TreeInv, ContextTypeOK
  <1>11. Effect(t, gs)
    BY <1>1, <1>3, <1>6, <1>7, <1>8, <1>9, <1>10 DEF Effect
  <1> QED
    BY <1>11


(* A new context that its maker cancels is tied to the parent.             *)
LEMMA TiedByCancelling ==
  ASSUME ContextsAssumption, TreeInv, NEW t \in Threads, stack[t] # <<>>,
         NEW f \in Frames, f = Top(t), f.at \in Early,
         NEW a \in Frames, NEW b \in Frames, a.c = f.c, a.at \in {"arm", "unlock"}, b.at = "cancel",
         stack' = Replaced(t, <<a, b>>)
  PROVE  Tied(f.c)'
  <1>1. PICK gs : gs = <<a, b>>
    OBVIOUS
  <1>2. gs \in Seq(Frames) /\ Len(gs) = 2 /\ gs[1] = a /\ gs[2] = b
    BY <1>1
  <1>3. Len(stack[t]) = 1
    BY TopFits DEF Early, Cancelling
  <1>4. Stacked(t, 0, gs)
    <2>1. Stacked(t, Len(stack[t]) - 1, gs)
      BY <1>1, <1>2, Replacing DEF TreeInv, ContextTypeOK
    <2>2. Len(stack[t]) - 1 = 0
      BY <1>3
    <2> QED
      BY <2>1, <2>2
  <1>5. PICK q : q = stack'[t]
    OBVIOUS
  <1>6. Len(q) = 2 /\ q[1] = a /\ q[2] = b /\ DOMAIN q = 1..2
    <2>1. /\ Len(q) = 0 + Len(gs) /\ DOMAIN q = 1..(0 + Len(gs))
          /\ \A j \in 1..Len(gs) : q[0 + j] = gs[j]
      BY <1>4, <1>5 DEF Stacked
    <2>2. 1 \in 1..Len(gs) /\ 2 \in 1..Len(gs)
      BY <1>2
    <2>3. q[0 + 1] = a /\ q[0 + 2] = b
      BY <1>2, <2>1, <2>2
    <2> QED
      BY <1>2, <2>1, <2>3
  <1>7. q # <<>>
    BY <1>6
  <1>8. MakerCancels(f.c)'
    BY <1>5, <1>6, <1>7 DEF MakerCancels, Makes
  <1> QED
    BY <1>8 DEF Tied

(* The call f of a With function goes on at step x.                        *)
LEMMA ContinueFrame ==
  ASSUME NEW t \in Threads, Top(t) \in Frames, Known(Top(t).c),
         NEW x \in Early \cup Late, Continue(t, x)
  PROVE  \E a \in Frames : /\ stack' = Replaced(t, <<a>>)
                           /\ a.c = Top(t).c /\ a.at = x /\ a.remove = Top(t).remove /\ Refers(a)
  <1>1. PICK f : f = Top(t)
    OBVIOUS
  <1>2. PICK a : a = [f EXCEPT !.at = x]
    OBVIOUS
  <1>3. a \in Frames /\ a.c = f.c /\ a.at = x /\ a.remove = f.remove
    BY <1>1, <1>2 DEF Frames
  <1>4. stack' = Replaced(t, <<a>>)
    BY <1>1, <1>2 DEF Continue
  <1>5. Refers(a)
    BY <1>1, <1>3 DEF Refers, Early, Late
  <1> QED
    BY <1>1, <1>3, <1>4, <1>5

(* Each step of the With functions has such an effect.  ParentDone ties a  *)
(* context without a parent to nothing.                                    *)
LEMMA ParentDoneEffect ==
  ASSUME ContextsAssumption, TreeInv, NEW t \in Threads, ParentDone(t)
  PROVE  \E gs : Effect(t, gs)
  <1>1. PICK f : f = Top(t)
    OBVIOUS
  <1> DEFINE p == Parent[f.c]
  <1>2. PICK x : x = IF p = None THEN "arm" ELSE "select"
    OBVIOUS
  <1>3. /\ stack[t] # <<>> /\ f.at = "new" /\ Continue(t, x)
        /\ UNCHANGED <<made, err, mu, children, timer, watched>>
    BY <1>1, <1>2 DEF ParentDone, At
  <1>4. f \in Frames /\ f.c \in Ctx \ Custom /\ Known(f.c)
    BY <1>1, <1>3, TopFits DEF Refers
  <1>5. PICK a \in Frames : /\ stack' = Replaced(t, <<a>>)
                            /\ a.c = f.c /\ a.at = x /\ a.remove = f.remove /\ Refers(a)
    BY <1>1, <1>2, <1>3, <1>4, ContinueFrame DEF Early, Late
  <1>6. CallFits(a)'
    BY <1>2, <1>5 DEF CallFits, Cancelling
  <1>7. PICK gs : gs = <<a>>
    OBVIOUS
  <1>8. GoesOn(f, gs) /\ gs # <<>> /\ gs[1] = a /\ Len(gs) = 1
    BY <1>2, <1>3, <1>4, <1>5, <1>6, <1>7, GoesOnOne DEF Early
  <1>9. (Tied(f.c)' /\ gs[1].at \in Late) \/ gs[1].at \in Early
    <2>1. p = None => Tied(f.c)'
      BY DEF Tied, InPackage, ContextsAssumption
    <2> QED
      BY <1>2, <1>5, <1>8, <2>1 DEF Early, Late
  <1>10. DoesItsPart(f, gs) /\ Held(gs[1]) = None
    BY <1>2, <1>3, <1>5, <1>8 DEF DoesItsPart, Held
  <1>11. Effect(t, gs)
    BY <1>1, <1>3, <1>4, <1>5, <1>7, <1>8, <1>9, <1>10, QuietEffect
  <1> QED
    BY <1>11

(* Select finds the parent cancelled or not.                               *)
LEMMA SelectEffect ==
  ASSUME ContextsAssumption, TreeInv, NEW t \in Threads, Select(t)
  PROVE  \E gs : Effect(t, gs)
  <1>1. PICK f : f = Top(t)
    OBVIOUS
  <1> DEFINE p == Parent[f.c]
  <1>2. PICK x : x = IF err[p] # None THEN "parentErr" ELSE "attach"
    OBVIOUS
  <1>3. /\ stack[t] # <<>> /\ f.at = "select" /\ Continue(t, x)
        /\ UNCHANGED <<made, err, mu, children, timer, watched>>
    BY <1>1, <1>2 DEF Select, At
  <1>4. f \in Frames /\ f.c \in Ctx \ Custom /\ Known(f.c) /\ p # None
    BY <1>1, <1>3, TopFits DEF Refers, CallFits
  <1>5. PICK a \in Frames : /\ stack' = Replaced(t, <<a>>)
                            /\ a.c = f.c /\ a.at = x /\ a.remove = f.remove /\ Refers(a)
    BY <1>1, <1>2, <1>3, <1>4, ContinueFrame DEF Early, Late
  <1>6. CallFits(a)'
    BY <1>2, <1>3, <1>4, <1>5 DEF CallFits, Cancelling
  <1>7. PICK gs : gs = <<a>>
    OBVIOUS
  <1>8. GoesOn(f, gs) /\ gs # <<>> /\ gs[1] = a /\ Len(gs) = 1
    BY <1>2, <1>3, <1>4, <1>5, <1>6, <1>7, GoesOnOne DEF Early
  <1>9. gs[1].at \in Early
    BY <1>2, <1>5, <1>8 DEF Early
  <1>10. DoesItsPart(f, gs) /\ Held(gs[1]) = None
    BY <1>2, <1>3, <1>5, <1>8 DEF DoesItsPart, Held
  <1>11. Effect(t, gs)
    BY <1>1, <1>3, <1>4, <1>5, <1>7, <1>8, <1>9, <1>10, QuietEffect
  <1> QED
    BY <1>11

(* ParentErr cancels the new context.                                      *)
LEMMA ParentErrEffect ==
  ASSUME ContextsAssumption, TreeInv, NEW t \in Threads, ParentErr(t)
  PROVE  \E gs : Effect(t, gs)
  <1>1. PICK f : f = Top(t)
    OBVIOUS
  <1> DEFINE p == Parent[f.c]
  <1>2. PICK a : a = [f EXCEPT !.at = "arm"]
    OBVIOUS
  <1>3. PICK b : b = Cancels(f.c, FALSE, err[p])
    OBVIOUS
  <1>4. PICK gs : gs = <<a, b>>
    OBVIOUS
  <1>5. /\ stack[t] # <<>> /\ f.at = "parentErr" /\ stack' = Replaced(t, gs)
        /\ UNCHANGED <<made, err, mu, children, timer, watched>>
    BY <1>1, <1>2, <1>3, <1>4 DEF ParentErr, At
  <1>6. f \in Frames /\ f.c \in Ctx \ Custom /\ Known(f.c) /\ p \in Ctx /\ err[p] # None
    BY <1>1, <1>5, TopFits DEF Refers, CallFits
  <1>7. a \in Frames /\ a.c = f.c /\ a.remove = f.remove /\ a.at = "arm"
    BY <1>2, <1>6 DEF Frames, Late
  <1>8. b \in Frames /\ b.c = f.c /\ b.at = "cancel" /\ b.remove = FALSE /\ b.err = err[p]
    <2>1. err[p] \in Errors
      BY <1>6 DEF TreeInv, ContextTypeOK
    <2> QED
      BY <1>3, <1>6, <2>1 DEF Frames, Cancels, Frame, Cancelling
  <1>9. Refers(a) /\ CallFits(a)' /\ Refers(b) /\ CallFits(b)'
    BY <1>6, <1>7, <1>8 DEF Refers, CallFits, Cancelling
  <1>10. Calls(a, b)
    BY <1>7, <1>8 DEF Calls, Cancelling
  <1>11. GoesOn(f, gs) /\ gs # <<>> /\ gs[1] = a /\ gs[2] = b /\ Len(gs) = 2
    BY <1>4, <1>5, <1>6, <1>7, <1>8, <1>9, <1>10, GoesOnTwo DEF Early
  <1>12. Tied(f.c)' /\ gs[1].at \in Late
    BY <1>1, <1>4, <1>5, <1>6, <1>7, <1>8, <1>11, TiedByCancelling DEF Early, Late
  <1>13. DoesItsPart(f, gs) /\ Held(gs[1]) = None
    BY <1>5, <1>7, <1>11 DEF DoesItsPart, Held
  <1>14. Effect(t, gs)
    BY <1>1, <1>5, <1>6, <1>11, <1>12, <1>13, QuietEffect
  <1> QED
    BY <1>14

(* DeadlinePassed cancels the new context, which has been tied.            *)
LEMMA DeadlinePassedEffect ==
  ASSUME ContextsAssumption, TreeInv, NEW t \in Threads, DeadlinePassed(t)
  PROVE  \E gs : Effect(t, gs)
  <1>1. PICK f : f = Top(t)
    OBVIOUS
  <1>2. PICK a : a = [f EXCEPT !.at = "return"]
    OBVIOUS
  <1>3. PICK b : b = Cancels(f.c, TRUE, "DeadlineExceeded")
    OBVIOUS
  <1>4. PICK gs : gs = <<a, b>>
    OBVIOUS
  <1>5. /\ stack[t] # <<>> /\ f.at = "arm" /\ stack' = Replaced(t, gs)
        /\ UNCHANGED <<made, err, mu, children, timer, watched>>
    BY <1>1, <1>2, <1>3, <1>4 DEF DeadlinePassed, At
  <1>6. f \in Frames /\ f.c \in Ctx \ Custom /\ Known(f.c) /\ None \notin Errors
    BY <1>1, <1>5, TopFits DEF Refers, ContextsAssumption
  <1>7. a \in Frames /\ a.c = f.c /\ a.remove = f.remove /\ a.at = "return"
    BY <1>2, <1>6 DEF Frames, Late
  <1>8. b \in Frames /\ b.c = f.c /\ b.at = "cancel" /\ b.remove = TRUE /\ b.err # None
    BY <1>3, <1>6 DEF Frames, Cancels, Frame, Cancelling, Errors
  <1>9. Refers(a) /\ CallFits(a)' /\ Refers(b) /\ CallFits(b)'
    BY <1>6, <1>7, <1>8 DEF Refers, CallFits, Cancelling
  <1>10. Calls(a, b)
    BY <1>7, <1>8 DEF Calls, Cancelling
  <1>11. GoesOn(f, gs) /\ gs # <<>> /\ gs[1] = a /\ gs[2] = b /\ Len(gs) = 2
    BY <1>4, <1>5, <1>6, <1>7, <1>8, <1>9, <1>10, GoesOnTwo DEF Early
  <1>12. DoesItsPart(f, gs) /\ Held(gs[1]) = None /\ f.at \notin Early
    BY <1>5, <1>7, <1>11 DEF DoesItsPart, Held, Early
  <1>13. Effect(t, gs)
    BY <1>1, <1>5, <1>6, <1>11, <1>12, QuietEffect
  <1> QED
    BY <1>13


(* Attach ties the new context to a parent that is not cancelled.          *)
LEMMA AttachEffect ==
  ASSUME ContextsAssumption, TreeInv, NEW t \in Threads, Attach(t)
  PROVE  \E gs : Effect(t, gs)
  <1>1. PICK f : f = Top(t)
    OBVIOUS
  <1> DEFINE p == Parent[f.c]
  <1>2. /\ stack[t] # <<>> /\ f.at = "attach" /\ InPackage(p) /\ err[p] = None
        /\ children' = [children EXCEPT ![p] = @ \cup {f.c}] /\ Continue(t, "arm")
        /\ UNCHANGED <<made, err, mu, timer, watched>>
    BY <1>1 DEF Attach, At
  <1>3. f \in Frames /\ f.c \in Ctx \ Custom /\ Known(f.c) /\ p \in Ctx
    BY <1>1, <1>2, TopFits DEF Refers, InPackage
  <1>4. PICK a \in Frames : /\ stack' = Replaced(t, <<a>>)
                            /\ a.c = f.c /\ a.at = "arm" /\ a.remove = f.remove /\ Refers(a)
    BY <1>1, <1>2, <1>3, ContinueFrame DEF Early, Late
  <1>5. DOMAIN children = Ctx /\ \A q \in Ctx : children[q] \subseteq {c \in Ctx \ Custom : Parent[c] = q}
    BY DEF TreeInv, ContextTypeOK
  <1>6. /\ DOMAIN children' = Ctx /\ children'[p] = children[p] \cup {f.c}
        /\ \A q \in Ctx \ {p} : children'[q] = children[q]
    BY <1>2, <1>3, <1>5
  <1>7. CallFits(a)'
    BY <1>4 DEF CallFits, Cancelling
  <1>8. PICK gs : gs = <<a>>
    OBVIOUS
  <1>9. GoesOn(f, gs) /\ gs # <<>> /\ gs[1] = a /\ Len(gs) = 1
    BY <1>2, <1>3, <1>4, <1>7, <1>8, GoesOnOne DEF Early
  <1>10. Tied(f.c)'
    BY <1>2, <1>3, <1>6 DEF Tied, InPackage
  <1>11. Touches(f, gs)
    BY <1>2, <1>3, <1>4, <1>6, <1>9, <1>10 DEF Touches, Late
  <1>12. DoesItsPart(f, gs)
    BY <1>2, <1>9 DEF DoesItsPart
  <1>13. Locking(t, f, gs)
    BY <1>2, <1>4, <1>9 DEF Locking, Held
  <1>14. VarsOK'
    <2>1. \A q \in Ctx : children'[q] \subseteq {c \in Ctx \ Custom : Parent[c] = q}
      BY <1>3, <1>5, <1>6
    <2> QED
      BY <1>2, <1>6, <2>1 DEF VarsOK, TreeInv, ContextTypeOK
  <1>15. Effect(t, gs)
    BY <1>1, <1>2, <1>4, <1>8, <1>9, <1>11, <1>12, <1>13, <1>14 DEF Effect
  <1> QED
    BY <1>15

(* AttachLate cancels the new context, with the parent's mu locked.        *)
LEMMA AttachLateEffect ==
  ASSUME ContextsAssumption, TreeInv, NEW t \in Threads, AttachLate(t)
  PROVE  \E gs : Effect(t, gs)
  <1>1. PICK f : f = Top(t)
    OBVIOUS
  <1> DEFINE p == Parent[f.c]
  <1>2. PICK a : a = [f EXCEPT !.at = "unlock"]
    OBVIOUS
  <1>3. PICK b : b = Cancels(f.c, FALSE, err[p])
    OBVIOUS
  <1>4. PICK gs : gs = <<a, b>>
    OBVIOUS
  <1>5. /\ stack[t] # <<>> /\ f.at = "attach" /\ InPackage(p) /\ Free(p) /\ err[p] # None
        /\ mu' = [mu EXCEPT ![p] = t] /\ stack' = Replaced(t, gs)
        /\ UNCHANGED <<made, err, children, timer, watched>>
    BY <1>1, <1>2, <1>3, <1>4 DEF AttachLate, At
  <1>6. f \in Frames /\ f.c \in Ctx \ Custom /\ Known(f.c) /\ p \in Ctx
    BY <1>1, <1>5, TopFits DEF Refers, InPackage
  <1>7. a \in Frames /\ a.c = f.c /\ a.remove = f.remove /\ a.at = "unlock"
    BY <1>2, <1>6 DEF Frames, Late
  <1>8. b \in Frames /\ b.c = f.c /\ b.at = "cancel" /\ b.remove = FALSE /\ b.err = err[p]
    <2>1. err[p] \in Errors
      BY <1>5, <1>6 DEF TreeInv, ContextTypeOK
    <2> QED
      BY <1>3, <1>6, <2>1 DEF Frames, Cancels, Frame, Cancelling
  <1>9. Refers(a) /\ CallFits(a)' /\ Refers(b) /\ CallFits(b)'
    <2>1. Refers(a) /\ Refers(b)
      BY <1>6, <1>7, <1>8 DEF Refers
    <2>2. CallFits(a)'
      BY <1>5, <1>6, <1>7 DEF CallFits, Cancelling, InPackage
    <2>3. CallFits(b)'
      BY <1>5, <1>8 DEF CallFits, Cancelling
    <2> QED
      BY <2>1, <2>2, <2>3
  <1>10. Calls(a, b)
    BY <1>7, <1>8 DEF Calls, Cancelling
  <1>11. GoesOn(f, gs) /\ gs # <<>> /\ gs[1] = a /\ gs[2] = b /\ Len(gs) = 2
    BY <1>4, <1>5, <1>6, <1>7, <1>8, <1>9, <1>10, GoesOnTwo DEF Early
  <1>12. Tied(f.c)'
    BY <1>1, <1>4, <1>5, <1>6, <1>7, <1>8, TiedByCancelling DEF Early
  <1>13. /\ mu' \in [Ctx -> Threads \cup {None}] /\ mu'[p] = t /\ mu[p] = None
         /\ \A q \in Ctx \ {p} : mu'[q] = mu[q]
    BY <1>5, <1>6 DEF TreeInv, ContextTypeOK, Free
  <1>14. Touches(f, gs)
    BY <1>5, <1>6, <1>7, <1>11, <1>12 DEF Touches, Late
  <1>15. DoesItsPart(f, gs)
    BY <1>5 DEF DoesItsPart
  <1>16. Locking(t, f, gs)
    BY <1>6, <1>7, <1>11, <1>13 DEF Locking, Held
  <1>17. VarsOK'
    BY <1>5, <1>13 DEF VarsOK, TreeInv, ContextTypeOK
  <1>18. Effect(t, gs)
    BY <1>1, <1>5, <1>11, <1>14, <1>15, <1>16, <1>17 DEF Effect
  <1> QED
    BY <1>18

(* UnlockParent unlocks the parent.                                        *)
LEMMA UnlockParentEffect ==
  ASSUME ContextsAssumption, TreeInv, NEW t \in Threads, UnlockParent(t)
  PROVE  \E gs : Effect(t, gs)
  <1>1. PICK f : f = Top(t)
    OBVIOUS
  <1> DEFINE p == Parent[f.c]
  <1>2. /\ stack[t] # <<>> /\ f.at = "unlock" /\ mu' = [mu EXCEPT ![p] = None] /\ Continue(t, "arm")
        /\ UNCHANGED <<made, err, children, timer, watched>>
    BY <1>1 DEF UnlockParent, At
  <1>3. f \in Frames /\ f.c \in Ctx \ Custom /\ Known(f.c) /\ p \in Ctx
    BY <1>1, <1>2, TopFits DEF Refers, CallFits, InPackage
  <1>4. PICK a \in Frames : /\ stack' = Replaced(t, <<a>>)
                            /\ a.c = f.c /\ a.at = "arm" /\ a.remove = f.remove /\ Refers(a)
    BY <1>1, <1>2, <1>3, ContinueFrame DEF Early, Late
  <1>5. mu' \in [Ctx -> Threads \cup {None}] /\ \A q \in Ctx \ {p} : mu'[q] = mu[q]
    BY <1>2, <1>3 DEF TreeInv, ContextTypeOK
  <1>6. CallFits(a)'
    BY <1>4 DEF CallFits, Cancelling
  <1>7. PICK gs : gs = <<a>>
    OBVIOUS
  <1>8. GoesOn(f, gs) /\ gs # <<>> /\ gs[1] = a /\ Len(gs) = 1
    BY <1>2, <1>3, <1>4, <1>6, <1>7, GoesOnOne
  <1>9. Touches(f, gs)
    BY <1>2, <1>3 DEF Touches, Early
  <1>10. DoesItsPart(f, gs)
    BY <1>2 DEF DoesItsPart
  <1>11. Locking(t, f, gs)
    BY <1>2, <1>3, <1>4, <1>5, <1>8 DEF Locking, Held
  <1>12. VarsOK'
    BY <1>2, <1>5 DEF VarsOK, TreeInv, ContextTypeOK
  <1>13. Effect(t, gs)
    BY <1>1, <1>2, <1>4, <1>7, <1>8, <1>9, <1>10, <1>11, <1>12 DEF Effect
  <1> QED
    BY <1>13

(* Watch ties the new context to a foreign parent.                         *)
LEMMA WatchEffect ==
  ASSUME ContextsAssumption, TreeInv, NEW t \in Threads, Watch(t)
  PROVE  \E gs : Effect(t, gs)
  <1>1. PICK f : f = Top(t)
    OBVIOUS
  <1> DEFINE p == Parent[f.c]
  <1>2. /\ stack[t] # <<>> /\ f.at = "attach" /\ p \in Custom /\ watched' = watched \cup {f.c} /\ Continue(t, "arm")
        /\ UNCHANGED <<made, err, mu, children, timer>>
    BY <1>1 DEF Watch, At
  <1>3. f \in Frames /\ f.c \in Ctx \ Custom /\ Known(f.c)
    BY <1>1, <1>2, TopFits DEF Refers
  <1>4. PICK a \in Frames : /\ stack' = Replaced(t, <<a>>)
                            /\ a.c = f.c /\ a.at = "arm" /\ a.remove = f.remove /\ Refers(a)
    BY <1>1, <1>2, <1>3, ContinueFrame DEF Early, Late
  <1>5. CallFits(a)'
    BY <1>4 DEF CallFits, Cancelling
  <1>6. PICK gs : gs = <<a>>
    OBVIOUS
  <1>7. GoesOn(f, gs) /\ gs # <<>> /\ gs[1] = a /\ Len(gs) = 1
    BY <1>2, <1>3, <1>4, <1>5, <1>6, GoesOnOne DEF Early
  <1>8. Tied(f.c)'
    BY <1>2 DEF Tied, InPackage
  <1>9. Touches(f, gs)
    BY <1>2, <1>3, <1>4, <1>7, <1>8 DEF Touches, Late
  <1>10. DoesItsPart(f, gs)
    BY <1>2 DEF DoesItsPart
  <1>11. Locking(t, f, gs)
    BY <1>2, <1>4, <1>7 DEF Locking, Held
  <1>12. VarsOK'
    BY <1>2, <1>3 DEF VarsOK, TreeInv, ContextTypeOK
  <1>13. Effect(t, gs)
    BY <1>1, <1>2, <1>4, <1>6, <1>7, <1>9, <1>10, <1>11, <1>12 DEF Effect
  <1> QED
    BY <1>13

(* Arm sets the timer, unless the context is cancelled.                    *)
LEMMA ArmEffect ==
  ASSUME ContextsAssumption, TreeInv, NEW t \in Threads, Arm(t)
  PROVE  \E gs : Effect(t, gs)
  <1>1. PICK f : f = Top(t)
    OBVIOUS
  <1>2. /\ stack[t] # <<>> /\ f.at = "arm" /\ Continue(t, "return")
        /\ timer' = [timer EXCEPT ![f.c] = f.c \in Timed /\ err[f.c] = None]
        /\ UNCHANGED <<made, err, mu, children, watched>>
    BY <1>1 DEF Arm, At
  <1>3. f \in Frames /\ f.c \in Ctx \ Custom /\ Known(f.c)
    BY <1>1, <1>2, TopFits DEF Refers
  <1>4. PICK a \in Frames : /\ stack' = Replaced(t, <<a>>)
                            /\ a.c = f.c /\ a.at = "return" /\ a.remove = f.remove /\ Refers(a)
    BY <1>1, <1>2, <1>3, ContinueFrame DEF Early, Late
  <1>5. /\ timer' \in [Ctx -> BOOLEAN] /\ \A k \in Ctx \ {f.c} : timer'[k] <=> timer[k]
        /\ timer'[f.c] <=> f.c \in Timed /\ err[f.c] = None
    <2>1. timer \in [Ctx -> BOOLEAN] /\ (f.c \in Timed /\ err[f.c] = None) \in BOOLEAN
      BY DEF TreeInv, ContextTypeOK
    <2> QED
      BY <1>2, <1>3, <2>1, Zenon
  <1>6. CallFits(a)'
    BY <1>4 DEF CallFits, Cancelling
  <1>7. PICK gs : gs = <<a>>
    OBVIOUS
  <1>8. GoesOn(f, gs) /\ gs # <<>> /\ gs[1] = a /\ Len(gs) = 1
    BY <1>2, <1>3, <1>4, <1>6, <1>7, GoesOnOne
  <1>9. Touches(f, gs)
    BY <1>2, <1>3, <1>5 DEF Touches, Early
  <1>10. DoesItsPart(f, gs)
    BY <1>2 DEF DoesItsPart
  <1>11. Locking(t, f, gs)
    BY <1>2, <1>4, <1>8 DEF Locking, Held
  <1>12. VarsOK'
    <2>1. \A k \in Ctx : timer'[k] => k \in Timed \ Custom
      BY <1>3, <1>5 DEF TreeInv, ContextTypeOK
    <2> QED
      BY <1>2, <1>5, <2>1 DEF VarsOK, TreeInv, ContextTypeOK
  <1>13. Effect(t, gs)
    BY <1>1, <1>2, <1>4, <1>7, <1>8, <1>9, <1>10, <1>11, <1>12 DEF Effect
  <1> QED
    BY <1>13

(* Return gives the context to the user.                                   *)
LEMMA ReturnEffect ==
  ASSUME ContextsAssumption, TreeInv, NEW t \in Threads, Return(t)
  PROVE  \E gs : Effect(t, gs)
  <1>1. PICK f : f = Top(t)
    OBVIOUS
  <1>2. PICK gs : gs = <<>>
    OBVIOUS
  <1>3. /\ stack[t] # <<>> /\ f.at = "return" /\ stack' = Replaced(t, gs) /\ made' = made \cup {f.c}
        /\ UNCHANGED <<err, mu, children, timer, watched>>
    BY <1>1, <1>2 DEF Return, At, ReturnFrom
  <1>4. f \in Frames /\ f.c \in Ctx \ Custom
    BY <1>1, <1>3, TopFits
  <1>5. GoesOn(f, gs)
    BY <1>2, <1>3 DEF GoesOn
  <1>6. Touches(f, gs)
    BY <1>3, <1>4 DEF Touches, Early
  <1>7. DoesItsPart(f, gs)
    BY <1>3 DEF DoesItsPart
  <1>8. Locking(t, f, gs)
    BY <1>2, <1>3 DEF Locking
  <1>9. VarsOK'
    BY <1>3, <1>4 DEF VarsOK, TreeInv, ContextTypeOK
  <1>10. Effect(t, gs)
    BY <1>1, <1>3, <1>5, <1>6, <1>7, <1>8, <1>9 DEF Effect
  <1> QED
    BY <1>10

(* The invariant holds after every step in a call.                         *)
LEMMA StepKeeps ==
  ASSUME ContextsAssumption, TreeInv, NEW t \in Threads, Step(t)
  PROVE  TreeInv'
  <1>1. \E gs : Effect(t, gs)
    <2>1. CASE CancelStep(t)
      BY <2>1, AlreadyCanceledEffect, SetErrEffect, CancelChildEffect, ChildrenDoneEffect,
         RemoveChildEffect, StopTimerEffect DEF CancelStep
    <2>2. CASE NewStep(t)
      BY <2>2, ParentDoneEffect, SelectEffect, ParentErrEffect, AttachEffect, AttachLateEffect,
         UnlockParentEffect, WatchEffect, DeadlinePassedEffect, ArmEffect, ReturnEffect DEF NewStep
    <2> QED
      BY <2>1, <2>2 DEF Step
  <1> QED
    BY <1>1, EffectKeeps


-----------------------------------------------------------------------------
(* The invariant holds after a call has begun.                             *)
LEMMA StartKeeps ==
  ASSUME ContextsAssumption, TreeInv, NEW t \in Threads, NEW f \in Frames, Start(t, f),
         UNCHANGED <<made, err, mu, children>>,
         timer' \in [Ctx -> BOOLEAN], \A k \in Ctx : timer'[k] => timer[k],
         watched' \subseteq watched, \A k \in watched : k \in watched' \/ (t = k /\ f.c = k /\ f.at = "cancel"),
         CallFits(f)',
         \/ f.at = "new" /\ f.c \notin made /\ ~Working(f.c)
         \/ f.at = "cancel" /\ InTree(f.c) /\ (f.remove \/ err[f.c] # None \/ Parent[f.c] \in Custom)
  PROVE  TreeInv'
  <1>1. Stacked(t, 0, <<f>>) /\ stack[t] = <<>>
    BY Starting DEF TreeInv, ContextTypeOK
  <1>2. /\ \A u \in Threads \ {t} : stack'[u] = stack[u]
        /\ DOMAIN stack'[t] = 1..1 /\ stack'[t][1] = f /\ stack'[t] # <<>> /\ Len(stack'[t]) = 1
        /\ stack' \in [Threads -> Seq(Frames)]
    <2>1. Len(<<f>>) = 1 /\ <<f>>[1] = f /\ 1 \in 1..Len(<<f>>) /\ 0 + 1 = 1
      OBVIOUS
    <2>2. stack'[t] = <<f>>
      BY DEF Start, TreeInv, ContextTypeOK
    <2> QED
      BY <1>1, <2>1, <2>2 DEF Stacked
  <1>3. f.c \in Ctx \ Custom
    BY DEF Frames
  <1>4. ContextTypeOK'
    BY <1>2 DEF TreeInv, ContextTypeOK
  <1>5. /\ \A u \in Threads \ {t} : \A c, S : Makes(u, c, S)' <=> Makes(u, c, S)
        /\ \A c, S : Makes(t, c, S)' <=> f.c = c /\ f.at \in S
        /\ \A c, S : ~Makes(t, c, S)
    BY <1>1, <1>2 DEF Makes
  <1>6. \A u \in Threads : \A c, S : Makes(u, c, S) => Makes(u, c, S)'
    BY <1>5
  <1>7. \A c : (Known(c) => Known(c)') /\ (InTree(c) => InTree(c)')
    BY <1>6 DEF Known, InTree
  <1>8. \A c : InTree(c)' => InTree(c)
    <2>1. f.at \notin Late
      BY DEF Late
    <2> QED
      BY <1>5, <2>1 DEF InTree
  <1>9. \A c : InTree(c) => Known(c)
    BY DEF InTree, Known, Makes
  <1>10. Known(f.c)'
    <2>1. CASE f.at = "new"
      BY <1>5, <2>1 DEF Known, Early
    <2>2. CASE InTree(f.c)
      BY <1>7, <1>9, <2>2
    <2> QED
      BY <2>1, <2>2
  <1>11. ASSUME NEW u \in Threads
         PROVE  StackFits(u)'
    <2>1. CASE u # t
      <3>1. stack'[u] = stack[u] /\ StackFits(u)
        BY <1>2, <2>1 DEF TreeInv
      <3>2. \A g : Refers(g) => Refers(g)'
        BY <1>7 DEF Refers
      <3>3. \A g : CallFits(g) => CallFits(g)'
        BY DEF CallFits
      <3> QED
        BY <3>1, <3>2, <3>3 DEF StackFits
    <2>2. CASE u = t
      <3>1. Refers(f)'
        BY <1>10 DEF Refers
      <3>2. ~(1 > 1) /\ \A i \in 1..1 : i = 1
        OBVIOUS
      <3> QED
        BY <1>2, <2>2, <3>1, <3>2 DEF StackFits
    <2> QED
      BY <2>1, <2>2
  <1>12. \A c \in Ctx : Untouched(c) => Untouched(c)'
    BY DEF Untouched
  <1>13. \A c \in Ctx : ~Known(c)' => Untouched(c)'
    BY <1>7, <1>12 DEF TreeInv
  <1>14. \A u \in Threads : \A c, S : Makes(u, c, S) => Working(c)
    BY DEF Makes, Working, TreeInv, ContextTypeOK
  <1>15. ASSUME NEW u \in Threads, NEW c \in Ctx, Makes(u, c, Early \cup Late)'
         PROVE  MakerFits(u, c)'
    <2>1. CASE u # t
      <3>1. Makes(u, c, Early \cup Late) /\ MakerFits(u, c) /\ stack'[u] = stack[u]
        BY <1>2, <1>5, <1>15, <2>1 DEF TreeInv
      <3>2. f.at = "new" => f.c # c
        BY <1>14, <3>1
      <3>3. \A v \in Threads : Makes(v, c, Early \cup Late)' => v = u
        <4>1. ~Makes(t, c, Early \cup Late)'
          BY <1>5, <3>2 DEF Early, Late
        <4>2. \A v \in Threads : Makes(v, c, Early \cup Late)' => Makes(v, c, Early \cup Late)
          BY <1>5, <4>1
        <4> QED
          BY <3>1, <4>2 DEF MakerFits
      <3>4. ASSUME Makes(u, c, Early)'
            PROVE  /\ Untouched(c)'
                   /\ \A v \in Threads : \A i \in DOMAIN stack'[v] : stack'[v][i].c = c => v = u /\ i = 1
        <4>1. Makes(u, c, Early)
          BY <1>5, <2>1, <3>4
        <4>2. ~InTree(c)
          BY <4>1, EarlyIsNotInTree
        <4>3. f.c # c
          BY <3>2, <4>2
        <4> QED
          BY <1>2, <1>12, <3>1, <4>1, <4>3 DEF MakerFits
      <3>5. Makes(u, c, {"arm", "unlock"})' => Makes(u, c, {"arm", "unlock"})
        BY <1>5, <2>1
      <3> QED
        BY <3>1, <3>3, <3>4, <3>5 DEF MakerFits
    <2>2. CASE u = t
      <3>1. c = f.c /\ f.at = "new" /\ c \notin made /\ ~Working(c)
        BY <1>5, <1>15, <2>2 DEF Early, Late
      <3>2. \A v \in Threads : Makes(v, c, Early \cup Late)' => v = u
        BY <1>5, <1>14, <2>2, <3>1
      <3>3. Untouched(c)'
        <4>1. ~Known(c)
          BY <1>14, <3>1 DEF Known
        <4> QED
          BY <1>12, <4>1 DEF TreeInv
      <3>4. \A v \in Threads : \A i \in DOMAIN stack'[v] : stack'[v][i].c = c => v = u /\ i = 1
        BY <1>2, <2>2, <3>1 DEF Working
      <3>5. ~Makes(u, c, {"arm", "unlock"})'
        BY <1>5, <2>2, <3>1
      <3> QED
        BY <3>1, <3>2, <3>3, <3>4, <3>5 DEF MakerFits
    <2> QED
      BY <2>1, <2>2
  <1>16. LocksHeld'
    <2>1. Held(f) = None
      BY DEF Held
    <2>2. \A g : Held(g)' = Held(g)
      BY DEF Held
    <2>3. ASSUME NEW u \in Threads
          PROVE  \A i \in DOMAIN stack'[u] :
                   Held(stack'[u][i]) # None =>
                     /\ mu'[Held(stack'[u][i])] = u
                     /\ \A j \in DOMAIN stack'[u] : Held(stack'[u][j]) = Held(stack'[u][i]) => j = i
      <3>1. CASE u # t
        <4>1. stack'[u] = stack[u]
          BY <1>2, <3>1
        <4> QED
          BY <4>1 DEF TreeInv, LocksHeld
      <3>2. CASE u = t
        <4>1. \A i \in 1..1 : i = 1
          OBVIOUS
        <4> QED
          BY <1>2, <2>1, <3>2, <4>1
      <3> QED
        BY <3>1, <3>2
    <2> QED
      BY <2>2, <2>3 DEF LocksHeld
  <1>17. /\ \A c : MakerCancels(c) => MakerCancels(c)'
         /\ \A p, c : ParentCancels(p, c) => ParentCancels(p, c)'
         /\ \A c, S : InCall(c, S) => InCall(c, S)'
    <2>1. \A u \in Threads : stack[u] # <<>> => stack'[u] = stack[u]
      BY <1>1, <1>2
    <2>2. \A u \in Threads : \A i \in DOMAIN stack[u] : stack'[u] = stack[u]
      BY <2>1
    <2>3. \A c : MakerCancels(c) => MakerCancels(c)'
      BY <2>1 DEF MakerCancels, Makes
    <2>4. \A p, c : ParentCancels(p, c) => ParentCancels(p, c)'
      <3> SUFFICES ASSUME NEW p, NEW c, ParentCancels(p, c)
                   PROVE  ParentCancels(p, c)'
        OBVIOUS
      <3>1. PICK u \in Threads : \E i \in DOMAIN stack[u] :
              /\ stack[u][i].c = p /\ stack[u][i].at = "children"
              /\ \/ c \in stack[u][i].todo
                 \/ i + 1 \in DOMAIN stack[u] /\ stack[u][i + 1].c = c /\ stack[u][i + 1].at = "cancel"
        BY DEF ParentCancels
      <3>2. stack'[u] = stack[u]
        BY <2>2, <3>1
      <3> QED
        BY <3>1, <3>2 DEF ParentCancels
    <2>5. \A c, S : InCall(c, S) => InCall(c, S)'
      BY <2>2 DEF InCall
    <2> QED
      BY <2>3, <2>4, <2>5
  <1>18. ASSUME NEW c \in Ctx \ Custom, InTree(c)'
         PROVE  err'[c] # None \/ Tied(c)'
    <2>1. err[c] # None \/ Tied(c)
      BY <1>8, <1>18 DEF TreeInv
    <2>2. Tied(c) => Tied(c)'
      <3>1. c \in watched => c \in watched' \/ (stack'[c] # <<>> /\ stack'[c][1].c = c /\ stack'[c][1].at = "cancel")
        BY <1>2
      <3>2. stack[c] # <<>> => stack'[c] = stack[c]
        BY <1>1, <1>2 DEF Threads
      <3> QED
        BY <1>17, <3>1, <3>2 DEF Tied
    <2> QED
      BY <2>1, <2>2
  <1>19. ASSUME NEW c \in Ctx \ Custom, err'[c] # None
         PROVE  Cleared(c)'
    <2>1. Cleared(c)
      BY <1>19 DEF TreeInv
    <2>2. \A u \in Threads : \A i \in DOMAIN stack[u] : i \in DOMAIN stack'[u] /\ stack'[u][i] = stack[u][i]
      BY <1>1, <1>2
    <2>3. timer'[c] => timer[c]
      OBVIOUS
    <2> QED
      BY <1>17, <2>1, <2>2, <2>3 DEF Cleared
  <1> QED
    BY <1>4, <1>11, <1>13, <1>15, <1>16, <1>18, <1>19 DEF TreeInv

(* It holds after a foreign context has been cancelled, or the watcher of  *)
(* a cancelled context has ended.                                          *)
LEMMA ErrsKeep ==
  ASSUME ContextsAssumption, TreeInv, UNCHANGED <<made, mu, children, timer, stack>>,
         err' \in [Ctx -> Errors \cup {None}],
         \A k \in Ctx : err'[k] = err[k] \/ (k \in Custom /\ err'[k] # None),
         watched' \subseteq watched, \A k \in watched : k \in watched' \/ err[k] # None
  PROVE  TreeInv'
  <1>1. ContextTypeOK'
    BY DEF TreeInv, ContextTypeOK
  <1>2. /\ \A c : Known(c)' <=> Known(c)
        /\ \A c : InTree(c)' <=> InTree(c)
        /\ \A u, c, S : Makes(u, c, S)' <=> Makes(u, c, S)
    BY DEF Known, InTree, Makes
  <1>3. \A c \in Ctx \ Custom : err'[c] = err[c]
    OBVIOUS
  <1>4. \A u \in Threads : StackFits(u)'
    <2> SUFFICES ASSUME NEW u \in Threads
                 PROVE  StackFits(u)'
      OBVIOUS
    <2>1. StackFits(u) /\ \A i \in DOMAIN stack[u] : stack[u][i] \in Frames
      BY DEF TreeInv, ContextTypeOK
    <2>2. stack[u] # <<>> => 1 \in DOMAIN stack[u]
      BY DEF TreeInv, ContextTypeOK
    <2>3. \A g \in Frames : Refers(g) => Refers(g)'
      BY <1>2 DEF Refers
    <2>4. \A g \in Frames : CallFits(g) => CallFits(g)'
      <3>1. \A g \in Frames : g.c \in Ctx /\ Parent[g.c] \in Ctx \cup {None}
        BY DEF Frames, ContextsAssumption
      <3>2. \A k \in Ctx : err[k] # None => err'[k] # None
        OBVIOUS
      <3> QED
        BY <3>1, <3>2 DEF CallFits
    <2>5. \A g \in Frames : err[g.c] # None => err'[g.c] # None
      BY <1>3 DEF Frames
    <2> QED
      BY <2>1, <2>2, <2>3, <2>4, <2>5 DEF StackFits
  <1>5. \A c \in Ctx : c \notin made /\ Untouched(c) => Untouched(c)'
    BY DEF Untouched, TreeInv, ContextTypeOK
  <1>6. \A c \in Ctx : ~Known(c)' => Untouched(c)'
    BY <1>2, <1>5 DEF TreeInv, Known
  <1>7. ASSUME NEW u \in Threads, NEW c \in Ctx, Makes(u, c, Early \cup Late)'
        PROVE  MakerFits(u, c)'
    <2>1. MakerFits(u, c)
      BY <1>2, <1>7 DEF TreeInv
    <2> QED
      BY <1>2, <1>5, <2>1 DEF MakerFits
  <1>8. LocksHeld'
    BY DEF TreeInv, LocksHeld, Held
  <1>9. ASSUME NEW c \in Ctx \ Custom, InTree(c)'
        PROVE  err'[c] # None \/ Tied(c)'
    <2>1. err[c] # None \/ Tied(c)
      BY <1>2, <1>9 DEF TreeInv
    <2>2. MakerCancels(c)' <=> MakerCancels(c)
      BY DEF MakerCancels, Makes
    <2>3. \A p : ParentCancels(p, c)' <=> ParentCancels(p, c)
      BY DEF ParentCancels
    <2>4. InPackage(Parent[c]) => err'[Parent[c]] = err[Parent[c]]
      BY <1>3 DEF InPackage, ContextsAssumption
    <2> QED
      BY <1>3, <2>1, <2>2, <2>3, <2>4 DEF Tied
  <1>10. ASSUME NEW c \in Ctx \ Custom, err'[c] # None
         PROVE  Cleared(c)'
    <2>1. Cleared(c)
      BY <1>3, <1>10 DEF TreeInv
    <2> QED
      BY <2>1 DEF Cleared, InCall
  <1> QED
    BY <1>1, <1>4, <1>6, <1>7, <1>8, <1>9, <1>10 DEF TreeInv


(* The first state.                                                        *)
LEMMA TreeInit ==
  ASSUME ContextsAssumption, ContextInit
  PROVE  TreeInv
  <1>1. \A t \in Threads : stack[t] = <<>> /\ DOMAIN stack[t] = {}
    BY DEF ContextInit
  <1>2. ContextTypeOK
    <2>1. stack \in [Threads -> Seq(Frames)]
      BY DEF ContextInit
    <2> QED
      BY <2>1 DEF ContextInit, ContextTypeOK, ContextsAssumption
  <1>3. \A t \in Threads : \A c, S : ~Makes(t, c, S)
    BY <1>1 DEF Makes
  <1>4. \A t \in Threads : StackFits(t)
    BY <1>1 DEF StackFits
  <1>5. \A c \in Ctx : Untouched(c)
    BY DEF ContextInit, Untouched
  <1>6. LocksHeld
    BY <1>1 DEF LocksHeld
  <1>7. \A c \in Ctx \ Custom : ~InTree(c) /\ err[c] = None
    BY <1>3 DEF ContextInit, InTree
  <1> QED
    BY <1>2, <1>3, <1>4, <1>5, <1>6, <1>7 DEF TreeInv

(* Every step keeps the invariant.                                         *)
LEMMA TreeStep ==
  ASSUME ContextsAssumption, TreeInv, [ContextNext]_ctxVars
  PROVE  TreeInv'
  <1>1. ASSUME NEW t \in Threads, Step(t)
        PROVE  TreeInv'
    BY <1>1, StepKeeps
  <1>2. ASSUME NEW g \in G, NEW c \in Ctx, New(g, c)
        PROVE  TreeInv'
    <2>1. PICK f : f = Frame(c, "new", FALSE, None)
      OBVIOUS
    <2>2. c \notin Custom
      BY <1>2 DEF New, TreeInv, ContextTypeOK
    <2>3. f \in Frames /\ f.c = c /\ f.at = "new"
      BY <2>1, <2>2 DEF Frame, Frames, Early
    <2>4. /\ g \in Threads /\ Start(g, f) /\ c \notin made /\ ~Working(c)
          /\ UNCHANGED <<made, err, mu, children, timer, watched>>
      BY <1>2, <2>1 DEF New, Threads
    <2>5. CallFits(f)'
      BY <2>3 DEF CallFits, Cancelling
    <2>6. timer' \in [Ctx -> BOOLEAN]
      BY <2>4 DEF TreeInv, ContextTypeOK
    <2> QED
      BY <2>3, <2>4, <2>5, <2>6, StartKeeps
  <1>3. ASSUME NEW g \in G, NEW c \in Ctx, CancelFunc(g, c)
        PROVE  TreeInv'
    <2>1. c \in made \ Custom /\ UNCHANGED <<made, err, mu, children, timer, watched>>
      BY <1>3 DEF CancelFunc
    <2>2. PICK r \in BOOLEAN : Start(g, Cancels(c, r, "Canceled")) /\ (r \/ err[c] = "DeadlineExceeded")
      BY <1>3 DEF CancelFunc
    <2>3. PICK f : f = Cancels(c, r, "Canceled")
      OBVIOUS
    <2>4. None \notin Errors
      BY DEF ContextsAssumption
    <2>5. f \in Frames /\ f.c = c /\ f.at = "cancel" /\ f.remove = r /\ f.err = "Canceled"
      BY <2>1, <2>3 DEF Cancels, Frame, Frames, Errors, Cancelling
    <2>6. InTree(c) /\ (r \/ err[c] # None)
      BY <2>1, <2>2, <2>4 DEF InTree, Errors
    <2>7. CallFits(f)'
      BY <2>4, <2>5 DEF CallFits, Errors
    <2>8. timer' \in [Ctx -> BOOLEAN] /\ g \in Threads
      BY <2>1 DEF TreeInv, ContextTypeOK, Threads
    <2> QED
      BY <2>1, <2>2, <2>3, <2>5, <2>6, <2>7, <2>8, StartKeeps
  <1>4. ASSUME NEW c \in Ctx, TimerFires(c)
        PROVE  TreeInv'
    <2>1. /\ timer[c] /\ timer' = [timer EXCEPT ![c] = FALSE]
          /\ UNCHANGED <<made, err, mu, children, watched>>
      BY <1>4 DEF TimerFires
    <2>2. PICK f : f = Cancels(c, TRUE, "DeadlineExceeded")
      OBVIOUS
    <2>3. Start(c, f) /\ c \in Threads /\ c \notin Custom
      BY <1>4, <2>1, <2>2 DEF TimerFires, Threads, TreeInv, ContextTypeOK
    <2>4. f \in Frames /\ f.c = c /\ f.at = "cancel" /\ f.remove /\ f.err = "DeadlineExceeded"
      BY <2>2, <2>3 DEF Cancels, Frame, Frames, Errors, Cancelling
    <2>5. InTree(c)
      BY <2>1, TouchedIsInTree DEF Untouched
    <2>6. CallFits(f)'
      BY <2>4 DEF CallFits, ContextsAssumption, Errors
    <2>7. timer' \in [Ctx -> BOOLEAN] /\ \A k \in Ctx : timer'[k] => timer[k]
      BY <2>1 DEF TreeInv, ContextTypeOK
    <2> QED
      BY <2>1, <2>3, <2>4, <2>5, <2>6, <2>7, StartKeeps
  <1>5. ASSUME NEW c \in Ctx, WatcherWakes(c)
        PROVE  TreeInv'
    <2> DEFINE p == Parent[c]
    <2>1. /\ c \in watched /\ watched' = watched \ {c} /\ UNCHANGED <<made, err, mu, children, timer>>
          /\ c \notin Custom /\ p \in Custom /\ p \in Ctx
      BY <1>5 DEF WatcherWakes, TreeInv, ContextTypeOK, ContextsAssumption
    <2>2. timer \in [Ctx -> BOOLEAN] /\ err \in [Ctx -> Errors \cup {None}]
      BY DEF TreeInv, ContextTypeOK
    <2>3. CASE err[p] # None /\ Start(c, Cancels(c, FALSE, err[p]))
      <3>1. PICK f : f = Cancels(c, FALSE, err[p])
        OBVIOUS
      <3>2. f \in Frames /\ f.c = c /\ f.at = "cancel" /\ f.err = err[p]
        BY <2>1, <2>2, <2>3, <3>1 DEF Cancels, Frame, Frames, Cancelling
      <3>3. InTree(c)
        BY <2>1, TouchedIsInTree DEF Untouched
      <3>4. CallFits(f)'
        BY <2>3, <3>2 DEF CallFits
      <3>5. c \in Threads /\ Start(c, f)
        BY <2>3, <3>1 DEF Threads
      <3>6. \A k \in watched : k \in watched' \/ (c = k /\ f.c = k /\ f.at = "cancel")
        BY <2>1, <3>2
      <3> QED
        BY <2>1, <2>2, <3>2, <3>3, <3>4, <3>5, <3>6, StartKeeps
    <2>4. CASE err[c] # None /\ UNCHANGED stack
      BY <2>1, <2>2, <2>4, ErrsKeep
    <2> QED
      BY <1>5, <2>3, <2>4 DEF WatcherWakes
  <1>6. ASSUME NEW x \in Custom, CustomDone(x)
        PROVE  TreeInv'
    <2>1. /\ err' = [err EXCEPT ![x] = "custom"] /\ UNCHANGED <<made, mu, children, timer, watched, stack>>
          /\ x \in Ctx /\ err \in [Ctx -> Errors \cup {None}]
      BY <1>6 DEF CustomDone, ContextsAssumption, TreeInv, ContextTypeOK
    <2>2. "custom" # None /\ "custom" \in Errors
      BY DEF ContextsAssumption, Errors
    <2>3. /\ err' \in [Ctx -> Errors \cup {None}]
          /\ \A k \in Ctx : err'[k] = err[k] \/ (k \in Custom /\ err'[k] # None)
      BY <2>1, <2>2
    <2> QED
      BY <2>1, <2>3, ErrsKeep
  <1>7. CASE UNCHANGED ctxVars
    <2>1. \A k \in Ctx : err'[k] = err[k]
      BY <1>7 DEF ctxVars
    <2> QED
      BY <1>7, <2>1, ErrsKeep DEF ctxVars, TreeInv, ContextTypeOK
  <1> QED
    BY <1>1, <1>2, <1>3, <1>4, <1>5, <1>6, <1>7 DEF ContextNext

(* In such a state every context that a user has got follows its parent.   *)
LEMMA TreeFollows ==
  ASSUME ContextsAssumption, TreeInv
  PROVE  ChildrenFollow
  <1> SUFFICES ASSUME NEW c \in made \ Custom
               PROVE  LET p == Parent[c] IN
                      /\ InPackage(p) /\ err[c] = None => mu[p] # None \/ (err[p] = None /\ c \in children[p])
                      /\ p \in Custom /\ err[c] = None => c \in watched \/ Working(c)
                      /\ err[c] # None /\ ~Working(c) =>
                           /\ children[c] = {} /\ ~timer[c]
                           /\ InPackage(p) => mu[p] # None \/ c \notin children[p]
    BY DEF ChildrenFollow
  <1> DEFINE p == Parent[c]
  <1>1. c \in Ctx \ Custom /\ InTree(c) /\ p \in Ctx \cup {None}
    BY DEF TreeInv, ContextTypeOK, InTree, ContextsAssumption
  <1>2. ~MakerCancels(c)
    <2> SUFFICES ASSUME NEW t \in Threads, Makes(t, c, {"arm", "unlock"})
                 PROVE  FALSE
      BY DEF MakerCancels
    <2>1. Makes(t, c, Early \cup Late)
      BY DEF Makes, Late
    <2> QED
      BY <1>1, <2>1 DEF TreeInv, MakerFits
  <1>3. \A t \in Threads : \A i \in DOMAIN stack[t] :
          stack[t][i].c = p /\ stack[t][i].at = "children" /\ p # None => mu[p] # None
    <2> SUFFICES ASSUME NEW t \in Threads, NEW i \in DOMAIN stack[t],
                        stack[t][i].c = p, stack[t][i].at = "children", p # None
                 PROVE  mu[p] # None
      OBVIOUS
    <2>1. Held(stack[t][i]) = p
      BY DEF Held
    <2>2. mu[p] = t /\ t # None
      BY <2>1 DEF TreeInv, LocksHeld, Threads, ContextsAssumption
    <2> QED
      BY <2>2
  <1>4. ASSUME err[c] = None
        PROVE  /\ InPackage(p) => mu[p] # None \/ (err[p] = None /\ c \in children[p])
               /\ p \in Custom => c \in watched \/ Working(c)
    <2>1. Tied(c)
      BY <1>1, <1>4 DEF TreeInv
    <2>2. InPackage(p) /\ ParentCancels(p, c) => mu[p] # None
      BY <1>3 DEF InPackage, ParentCancels
    <2>3. stack[c] # <<>> /\ stack[c][1].c = c => Working(c)
      <3>1. c \in Threads /\ (stack[c] # <<>> => 1 \in DOMAIN stack[c])
        BY <1>1 DEF Threads, TreeInv, ContextTypeOK
      <3> QED
        BY <3>1 DEF Working
    <2> QED
      BY <1>2, <2>1, <2>2, <2>3 DEF Tied
  <1>5. ASSUME err[c] # None, ~Working(c)
        PROVE  /\ children[c] = {} /\ ~timer[c]
               /\ InPackage(p) => mu[p] # None \/ c \notin children[p]
    <2>1. Cleared(c)
      BY <1>1, <1>5 DEF TreeInv
    <2>2. \A S : ~InCall(c, S)
      BY <1>5 DEF InCall, Working
    <2>3. InPackage(p) /\ InCall(p, {"children"}) => mu[p] # None
      BY <1>3 DEF InPackage, InCall
    <2> QED
      BY <1>5, <2>1, <2>2, <2>3 DEF Cleared, Working
  <1> QED
    BY <1>4, <1>5

(* The invariant of the tree of contexts, for every tree and any number of *)
(* goroutines that cancel, make contexts and wait for deadlines at once.   *)
THEOREM ContextInvariance == ContextSpec => []ContextInv
  <1>1. ContextInit => TreeInv
    BY TreeAssumption, TreeInit
  <1>2. TreeInv /\ [ContextNext]_ctxVars => TreeInv'
    BY TreeAssumption, TreeStep
  <1>3. TreeInv => ContextInv
    BY TreeAssumption, TreeFollows DEF ContextInv
  <1> QED
    BY <1>1, <1>2, <1>3, PTL DEF ContextSpec

=============================================================================
