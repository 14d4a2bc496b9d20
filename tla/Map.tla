-------------------------------- MODULE Map --------------------------------
(***************************************************************************)
(* sync.Map (src/src/sync/map.go).  A key is looked up without the lock in *)
(* read.m, and under m.mu in dirty; the two maps share their entries, and  *)
(* an entry is changed by atomic operations on its pointer p while the     *)
(* maps move under it.                                                     *)
(*                                                                         *)
(* An action is one atomic operation on m.read or on an entry, or a        *)
(* critical section of m.mu with at most one write that others can see.    *)
(* The CAS loops on an entry (tryStore, tryLoadOrStore, delete,            *)
(* tryExpungeLocked) are one step: an attempt that fails changes nothing.  *)
(* Delete is LoadAndDelete.  A Range is followed as far as one key of it   *)
(* is concerned: its other keys only take time.                            *)
(***************************************************************************)
EXTENDS Naturals, Goroutines

CONSTANTS
  Key, Val,
  MaxEntry   \* bound: the entries of one key that are in use at the same time

VARIABLES
  mu,      \* the holder of m.mu
  read,    \* m.read: the map m, from keys to entries, and amended
  dirty,   \* m.dirty, or None for nil
  misses,  \* m.misses
  p,       \* p[k][e]: the pointer of entry e of key k
  mpc,     \* the next step of each goroutine
  call,    \* the call of each goroutine, or None
  entry,   \* the entry that a goroutine has found
  todo,    \* the keys that dirtyLocked has still to copy
  result,  \* result[g]: <<what the call returned>>
  seen     \* history: the values that the key of a call had since its begin

mapVars == <<mu, read, dirty, misses, p, mpc, call, entry, todo, result, seen>>

Nil == "nil"
Expunged == "expunged"
Entry == 1..MaxEntry
Empty == [k \in Key |-> None]

Calls ==
  [op : {"Load", "LoadAndDelete", "Range"}, key : Key, val : {None}]
    \cup [op : {"Store", "LoadOrStore"}, key : Key, val : Val]

(* nil, expunged and None (no goroutine, call, entry, map or value) are    *)
(* none of the things they stand in for.                                   *)
ASSUME ValAssumption == Val \cap {None, Nil, Expunged} = {}
ASSUME NoneAssumptions ==
  /\ None \notin Entry /\ None \notin Calls /\ None \notin [Key -> Entry \cup {None}]
  /\ None \notin {Nil, Expunged}

MPC == {"idle", "load", "delete", "deleteRemoved", "tryStore", "tryLoadOrStore", "lock",
        "entryLocked", "copy", "returned"}

MapTypeOK ==
  /\ mu \in G \cup {None}
  /\ read \in [m : [Key -> Entry \cup {None}], amended : BOOLEAN]
  /\ dirty \in [Key -> Entry \cup {None}] \cup {None}
  /\ misses \in Nat
  /\ p \in [Key -> [Entry -> Val \cup {Nil, Expunged}]]
  /\ mpc \in [G -> MPC]
  /\ call \in [G -> Calls \cup {None}]
  /\ entry \in [G -> Entry \cup {None}]
  /\ todo \in SUBSET Key
  /\ result \in [G -> {<<>>} \cup {<<v>> : v \in Val \cup {None}}]
  /\ seen \in [G -> SUBSET (Val \cup {None})]

MapInit ==
  /\ mu = None
  /\ read = [m |-> Empty, amended |-> FALSE]
  /\ dirty = None
  /\ misses = 0
  /\ p = [k \in Key |-> [e \in Entry |-> Nil]]
  /\ mpc = [g \in G |-> "idle"]
  /\ call = [g \in G |-> None]
  /\ entry = [g \in G |-> None]
  /\ todo = {}
  /\ result = [g \in G |-> <<>>]
  /\ seen = [g \in G |-> {}]

-----------------------------------------------------------------------------
(* m[key]: the entry, or None; a nil map has no keys.                      *)
Lookup(m, k) == IF m = None THEN None ELSE m[k]

KeysOf(m) == {k \in Key : Lookup(m, k) # None}

(* The value behind a pointer, if the entry has one.                       *)
Value(q) == IF q \in {Nil, Expunged} THEN None ELSE q

(* The entry of k, and what the map holds for each key.                    *)
Current(k) == IF read.m[k] # None THEN read.m[k] ELSE Lookup(dirty, k)

held == [k \in Key |-> IF Current(k) = None THEN None ELSE Value(p[k][Current(k)])]

(* The call c of g goes on at s, with entry e in hand; it returns v.       *)
MGoOn(g, c, s, e) ==
  /\ mpc' = [mpc EXCEPT ![g] = s]
  /\ call' = [call EXCEPT ![g] = c]
  /\ entry' = [entry EXCEPT ![g] = e]
  /\ UNCHANGED result

MReturn(g, v) ==
  /\ mpc' = [mpc EXCEPT ![g] = "returned"]
  /\ call' = [call EXCEPT ![g] = None]
  /\ entry' = [entry EXCEPT ![g] = None]
  /\ result' = [result EXCEPT ![g] = <<v>>]

(* A lookup gave e: the call goes on with it, or there is nothing to do.   *)
Found(g, c, e, s) == IF e = None THEN MReturn(g, None) ELSE MGoOn(g, c, s, e)

KeepMaps == UNCHANGED <<read, dirty, misses>>

-----------------------------------------------------------------------------
(* The first step of each call: m.read.Load().                             *)

MBegin(g, op, c) ==
  /\ mpc[g] = "idle" /\ c.op = op
  /\ KeepMaps /\ UNCHANGED <<mu, p, todo>>

(* Load and LoadAndDelete look in read.m, and in dirty if there is more.   *)
Find(g, c, s) ==
  LET e == read.m[c.key] IN
  IF e = None /\ read.amended THEN MGoOn(g, c, "lock", None) ELSE Found(g, c, e, s)

Load(g, c) == MBegin(g, "Load", c) /\ Find(g, c, "load")

LoadAndDelete(g, c) == MBegin(g, "LoadAndDelete", c) /\ Find(g, c, "delete")

Range(g, c) ==
  /\ MBegin(g, "Range", c)
  /\ IF read.amended THEN MGoOn(g, c, "lock", None) ELSE Found(g, c, read.m[c.key], "load")

(* Store and LoadOrStore try an entry of read.m first.                     *)
FindToStore(g, c, s) ==
  LET e == read.m[c.key] IN MGoOn(g, c, IF e = None THEN "lock" ELSE s, e)

Store(g, c) == MBegin(g, "Store", c) /\ FindToStore(g, c, "tryStore")

LoadOrStore(g, c) == MBegin(g, "LoadOrStore", c) /\ FindToStore(g, c, "tryLoadOrStore")

-----------------------------------------------------------------------------
(* The atomic operations on the pointer of an entry.                       *)

The(g) == p[call[g].key][entry[g]]

Put(g, e, q) == p' = [p EXCEPT ![call[g].key][e] = q]

AtEntry(g, S) ==
  /\ mpc[g] \in S
  /\ KeepMaps /\ UNCHANGED <<mu, todo>>

(* e.load().                                                               *)
load(g) ==
  /\ AtEntry(g, {"load"})
  /\ MReturn(g, Value(The(g)))
  /\ UNCHANGED p

(* e.delete().                                                             *)
delete(g) ==
  /\ AtEntry(g, {"delete", "deleteRemoved"})
  /\ IF Value(The(g)) = None THEN UNCHANGED p ELSE Put(g, entry[g], Nil)
  /\ MReturn(g, Value(The(g)))

(* e.storeLocked(value), which is what tryStore does if not expunged, and  *)
(* e.tryLoadOrStore(value).                                                *)
StoreTo(g, e) == Put(g, e, call[g].val) /\ MReturn(g, None)

LoadOrStoreTo(g, e) ==
  LET q == p[call[g].key][e] IN
  /\ IF q = Nil THEN Put(g, e, call[g].val) ELSE UNCHANGED p
  /\ MReturn(g, Value(q))

(* An expunged entry is left to the slow path.                             *)
GoLock(g) == MGoOn(g, call[g], "lock", None) /\ UNCHANGED p

(* Mutant of tryStore: an expunged entry is written like any other.        *)
tryStoreAnyway(g) == AtEntry(g, {"tryStore"}) /\ StoreTo(g, entry[g])

tryStore(g) ==
  /\ AtEntry(g, {"tryStore"})
  /\ IF The(g) = Expunged THEN GoLock(g) ELSE StoreTo(g, entry[g])

tryLoadOrStore(g) ==
  /\ AtEntry(g, {"tryLoadOrStore"})
  /\ IF The(g) = Expunged THEN GoLock(g) ELSE LoadOrStoreTo(g, entry[g])

-----------------------------------------------------------------------------
(* The critical sections of m.mu.                                          *)

(* The dirty map d becomes the read map.                                   *)
Promote(d) ==
  /\ read' = [m |-> d, amended |-> FALSE]
  /\ dirty' = None
  /\ misses' = 0

(* m.missLocked(), with d for m.dirty.                                     *)
missLocked(d) ==
  IF misses + 1 < Cardinality(KeysOf(d))
  THEN misses' = misses + 1 /\ dirty' = d /\ UNCHANGED read
  ELSE Promote(d)

MLocks(g, ops) ==
  /\ mpc[g] = "lock" /\ call[g].op \in ops
  /\ mu = None

LoadLocked(g) ==
  LET k == call[g].key IN
  /\ MLocks(g, {"Load"})
  /\ IF read.m[k] = None /\ read.amended
     THEN Found(g, call[g], dirty[k], "load") /\ missLocked(dirty)
     ELSE Found(g, call[g], read.m[k], "load") /\ KeepMaps
  /\ UNCHANGED <<mu, p, todo>>

(* delete(m.dirty, key) comes before e.delete().                           *)
LoadAndDeleteLocked(g) ==
  LET k == call[g].key IN
  /\ MLocks(g, {"LoadAndDelete"})
  /\ IF read.m[k] = None /\ read.amended
     THEN Found(g, call[g], dirty[k], "deleteRemoved") /\ missLocked([dirty EXCEPT ![k] = None])
     ELSE Found(g, call[g], read.m[k], "delete") /\ KeepMaps
  /\ UNCHANGED <<mu, p, todo>>

RangeLocked(g) ==
  LET m == IF read.amended THEN dirty ELSE read.m IN
  /\ MLocks(g, {"Range"})
  /\ IF read.amended THEN Promote(dirty) ELSE KeepMaps
  /\ Found(g, call[g], m[call[g].key], "load")
  /\ UNCHANGED <<mu, p, todo>>

(* Store and LoadOrStore find the key in read.m: e.unexpungeLocked(), and  *)
(* m.dirty[key] = e if that was needed; the lock is kept.                  *)
Unexpunge(g) ==
  LET k == call[g].key
      e == read.m[k]
  IN
  /\ MLocks(g, {"Store", "LoadOrStore"})
  /\ e # None
  /\ mu' = g
  /\ MGoOn(g, call[g], "entryLocked", e)
  /\ IF p[k][e] = Expunged
     THEN Put(g, e, Nil) /\ dirty' = [dirty EXCEPT ![k] = e]
     ELSE UNCHANGED <<p, dirty>>
  /\ UNCHANGED <<read, misses, todo>>

(* The entry gets its value, and the lock is released.                     *)
EntryLocked(g) ==
  /\ mpc[g] = "entryLocked"
  /\ IF call[g].op = "Store" THEN StoreTo(g, entry[g]) ELSE LoadOrStoreTo(g, entry[g])
  /\ mu' = None
  /\ KeepMaps /\ UNCHANGED todo

(* They find it in dirty only.                                             *)
DirtyEntryLocked(g) ==
  LET k == call[g].key
      e == Lookup(dirty, k)
  IN
  /\ MLocks(g, {"Store", "LoadOrStore"})
  /\ read.m[k] = None /\ e # None
  /\ \/ call[g].op = "Store" /\ StoreTo(g, e) /\ KeepMaps
     \/ call[g].op = "LoadOrStore" /\ LoadOrStoreTo(g, e) /\ missLocked(dirty)
  /\ UNCHANGED <<mu, todo>>

(* They do not find it: dirtyLocked() begins, unless there is a dirty map. *)
StoreNew(g) ==
  LET k == call[g].key IN
  /\ MLocks(g, {"Store", "LoadOrStore"})
  /\ read.m[k] = None /\ Lookup(dirty, k) = None
  /\ mu' = g
  /\ MGoOn(g, call[g], "copy", None)
  /\ IF ~read.amended /\ dirty = None
     THEN dirty' = Empty /\ todo' = KeysOf(read.m)
     ELSE UNCHANGED <<dirty, todo>>
  /\ UNCHANGED <<read, misses, p>>

(* Mutant of Copy: a deleted entry is left out but not marked as expunged. *)
CopyUnmarked(g, k) ==
  LET e == read.m[k] IN
  /\ mpc[g] = "copy" /\ k \in todo
  /\ todo' = todo \ {k}
  /\ dirty' = IF Value(p[k][e]) = None THEN dirty ELSE [dirty EXCEPT ![k] = e]
  /\ UNCHANGED <<mu, read, misses, p, mpc, call, entry, result>>

(* One round of the loop of dirtyLocked: e.tryExpungeLocked(), and the     *)
(* entry is copied if it was not deleted.                                  *)
Copy(g, k) ==
  LET e == read.m[k] IN
  /\ mpc[g] = "copy" /\ k \in todo
  /\ todo' = todo \ {k}
  /\ IF Value(p[k][e]) = None
     THEN p' = [p EXCEPT ![k][e] = Expunged] /\ UNCHANGED dirty
     ELSE dirty' = [dirty EXCEPT ![k] = e] /\ UNCHANGED p
  /\ UNCHANGED <<mu, read, misses, mpc, call, entry, result>>

(* The entries of k that somebody can still reach.                         *)
InUse(k) ==
  {read.m[k], Lookup(dirty, k)} \cup {entry[g] : g \in {h \in G : call[h] # None /\ call[h].key = k}}

(* m.read.Store(readOnly{read.m, true}); m.dirty[key] = newEntry(value);   *)
(* m.mu.Unlock().                                                          *)
AddEntry(g) ==
  LET k == call[g].key
      free == Entry \ InUse(k)
      e == CHOOSE x \in free : TRUE
  IN
  /\ mpc[g] = "copy" /\ todo = {}
  /\ free # {}
  /\ read' = [read EXCEPT !.amended = TRUE]
  /\ dirty' = [dirty EXCEPT ![k] = e]
  /\ StoreTo(g, e)
  /\ mu' = None
  /\ UNCHANGED <<misses, todo>>

(* The caller has got the result.                                          *)
MReturned(g) ==
  /\ mpc[g] = "returned"
  /\ mpc' = [mpc EXCEPT ![g] = "idle"]
  /\ result' = [result EXCEPT ![g] = <<>>]
  /\ KeepMaps /\ UNCHANGED <<mu, p, call, entry, todo>>

-----------------------------------------------------------------------------
(* The history variable.                                                   *)
Observe ==
  seen' = [g \in G |-> IF mpc'[g] \in {"idle", "returned", "deleteRemoved"} THEN {}
                       ELSE (IF mpc[g] = "idle" THEN {} ELSE seen[g]) \cup {held'[call'[g].key]}]

Invoke(g, c) == Load(g, c) \/ LoadAndDelete(g, c) \/ Range(g, c) \/ Store(g, c) \/ LoadOrStore(g, c)

EntryStep(g) == load(g) \/ delete(g) \/ tryStore(g) \/ tryLoadOrStore(g)

LockedStep(g) ==
  \/ LoadLocked(g) \/ LoadAndDeleteLocked(g) \/ RangeLocked(g)
  \/ Unexpunge(g) \/ EntryLocked(g) \/ DirtyEntryLocked(g)
  \/ StoreNew(g) \/ (\E k \in Key : Copy(g, k)) \/ AddEntry(g)

(* A step of a map on which the calls of C are made.                       *)
MapNextWith(C) ==
  /\ \E g \in G : (\E c \in C : Invoke(g, c)) \/ EntryStep(g) \/ LockedStep(g) \/ MReturned(g)
  /\ Observe

MapNext == MapNextWith(Calls)

MapSpec == MapInit /\ [][MapNext]_mapVars

-----------------------------------------------------------------------------
(* What each step of a call has in hand.                                   *)
WithEntry == {"load", "delete", "deleteRemoved", "tryStore", "tryLoadOrStore", "entryLocked"}

OpsAt(s) ==
  CASE s = "load" -> {"Load", "Range"}
    [] s \in {"delete", "deleteRemoved"} -> {"LoadAndDelete"}
    [] s = "tryStore" -> {"Store"}
    [] s = "tryLoadOrStore" -> {"LoadOrStore"}
    [] s \in {"entryLocked", "copy"} -> {"Store", "LoadOrStore"}
    [] OTHER -> {"Load", "LoadAndDelete", "Range", "Store", "LoadOrStore"}

CallsMatch ==
  \A g \in G :
    /\ mpc[g] \in {"entryLocked", "copy"} <=> mu = g
    /\ mpc[g] \in {"idle", "returned"} <=> call[g] = None
    /\ mpc[g] \in WithEntry <=> entry[g] # None
    /\ call[g] # None => call[g].op \in OpsAt(mpc[g])
    /\ mpc[g] = "returned" <=> result[g] # <<>>

(* Keys are left to copy only while a goroutine is in dirtyLocked; its own *)
(* key is in neither map.                                                  *)
CopyInv ==
  /\ \A k \in todo : read.m[k] # None /\ dirty # None /\ dirty[k] = None
  /\ todo # {} => \E g \in G : mpc[g] = "copy"
  /\ \A g \in G :
       mpc[g] = "copy" => dirty # None /\ read.m[call[g].key] = None /\ dirty[call[g].key] = None

(* While there is a dirty map it has exactly the entries of read.m that    *)
(* are not expunged, apart from those that dirtyLocked has still to look   *)
(* at, and its own, and no entry of it is expunged; an entry of read.m is  *)
(* expunged only while there is one; unless amended says so, the dirty map *)
(* has no key that read.m does not have.                                   *)
MapsFit ==
  /\ read.amended => dirty # None
  /\ dirty # None => read.amended \/ \E g \in G : mpc[g] = "copy"
  /\ \A k \in Key :
       LET e == read.m[k] IN
       e # None =>
         /\ p[k][e] = Expunged => dirty # None
         /\ dirty # None /\ k \notin todo => dirty[k] = IF p[k][e] = Expunged THEN None ELSE e
  /\ \A k \in Key : Lookup(dirty, k) # None => p[k][dirty[k]] # Expunged
  /\ \A k \in Key : read.m[k] = None /\ ~read.amended => Lookup(dirty, k) = None

(* An entry that a call found in an old read.m and may write to is         *)
(* expunged or still the one in read.m; under the lock it is the latter.   *)
EntriesKnown ==
  \A g \in G :
    /\ mpc[g] \in {"delete", "tryStore", "tryLoadOrStore"} =>
         The(g) = Expunged \/ entry[g] = read.m[call[g].key]
    /\ mpc[g] = "entryLocked" =>
         The(g) # Expunged /\ entry[g] = read.m[call[g].key]

(* An entry that LoadAndDelete has removed from the dirty map is its own:  *)
(* no other call will change it.                                           *)
Removed(g) == mpc[g] = "deleteRemoved"

RemovedAlone ==
  \A g \in G :
    Removed(g) =>
      /\ The(g) # Expunged
      /\ entry[g] \notin {read.m[call[g].key], Lookup(dirty, call[g].key)}
      /\ \A h \in G \ {g} :
           Removed(h) /\ call[h].key = call[g].key => entry[h] # entry[g]

(* An entry in hand that is in use has the present value of the key; one   *)
(* that is not has a value the key had during the call, and will only lose *)
(* it.                                                                     *)
SeenKnown ==
  \A g \in G :
    LET k == call[g].key IN
    IF mpc[g] \in {"idle", "returned", "deleteRemoved"} THEN seen[g] = {}
    ELSE /\ held[k] \in seen[g]
         /\ mpc[g] \in WithEntry =>
              \/ entry[g] = Current(k)
              \/ None \in seen[g] /\ Value(The(g)) \in seen[g]

(* Why the maps can move under the calls.  It is inductive.                *)
MapInv ==
  MapTypeOK /\ CallsMatch /\ CopyInv /\ MapsFit /\ EntriesKnown /\ RemovedAlone /\ SeenKnown

(* Map implements a plain map whose calls take effect in one step.  A      *)
(* LoadAndDelete that has removed its entry from the dirty map has taken   *)
(* effect, although it reads the value later.                              *)
pending == [g \in G |-> IF Removed(g) THEN None ELSE call[g]]
answered == [g \in G |-> IF Removed(g) THEN <<Value(The(g))>> ELSE result[g]]

Plain == INSTANCE PlainMap WITH content <- held, call <- pending, result <- answered

(* Every call of a Map takes effect in one step (module PlainMap).  That a *)
(* step of something else is none of a Map is said first, because it is    *)
(* quickly seen.                                                           *)
Linearizable == Plain!Init /\ [][UNCHANGED mapVars \/ Plain!Next]_(Plain!vars)

=============================================================================
