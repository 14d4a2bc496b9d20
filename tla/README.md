# The synchronisation core of the Go runtime in TLA+

The repository is an annotated copy of Go 1.15.2; the Go tree is under
`src/src/`. This project models the part on which every concurrent Go program
rests: the primitives of package `sync`, the semaphores of `runtime/sema.go`
below them, the channels and the `select` statement of `runtime/chan.go` and
`runtime/select.go`, and what ends a wait for the world outside: the network
poller with the descriptors of `internal/poll`, the timers of the runtime, and
package `context`. These files are small, run with every interleaving the
scheduler and the memory system allow, and are where a mistake shows up once in
a million runs, so they come before everything else in the tree.

Contents: [inventory](#inventory), [modules and code](#modules-and-code),
[runs](#runs), [bounds](#bounds), [fairness](#fairness), [proofs](#proofs),
[disagreements with the comments](#disagreements-with-the-comments),
[limits](#limits), [plan](#plan).

## Inventory

### Modelled

| Component | State | Operations | Uses |
|---|---|---|---|
| `sync.Mutex` | `state` (three bits and a waiter count), `sema` | `Lock`/`lockSlow`, `Unlock`/`unlockSlow` | semaphore |
| runtime semaphore | `*addr`, per root `nwait`, `lock`, queues of sudogs | `semacquire1`, `semrelease1` | `semaRoot`, `gopark`, `goready` |
| `semaRoot` | treap of sudogs, one list per address | `queue`, `dequeue`, `rotateLeft`, `rotateRight` | caller's `root.lock` |
| `sync.RWMutex` | `w`, `writerSem`, `readerSem`, `readerCount`, `readerWait` | `RLock`, `RUnlock`, `Lock`, `Unlock` | Mutex, semaphore |
| `sync.WaitGroup` | counter and waiters in one word, `sema` | `Add`, `Done`, `Wait` | semaphore |
| `sync.Once` | `done`, `m` | `Do`, `doSlow` | Mutex |
| `sync.Cond`, `notifyList` | tickets `wait` and `notify`, list of sudogs | `Wait`, `Signal`, `Broadcast` | a Locker, `gopark`, `goready` |
| channels | `hchan`: ring buffer, `recvq`, `sendq`, `closed`, `lock` | `chansend`, `chanrecv`, `closechan` | `gopark`, `goready` |
| `select` | `pollorder`, `lockorder`, sudogs in several queues, `selectDone`, `gp.param` | `selectgo`, `sellock`, `selunlock` | channels |
| `sync.Map` | `read`, `dirty`, `misses`, the pointer of each entry, `mu` | `Load`, `Store`, `LoadOrStore`, `LoadAndDelete`, `Delete`, `Range` | Mutex |
| `poolChain`, `poolDequeue` | per dequeue head and tail in one word, slots, `next`, `prev` | `pushHead`, `popHead`, `popTail` | |
| `fdMutex` | closed, locks, references and waiters in one word, `rsema`, `wsema` | `incref`, `increfAndClose`, `decref`, `rwlock`, `rwunlock` | semaphore |
| `poll.FD` (partly) | `fdmu`, `pd`, `csema`, `Sysfd` | `Read`, `Write`, `SetDeadline`, `Close`, `destroy` | `fdMutex`, network poller |
| network poller (partly) | `pollDesc`: `rg`, `wg`, deadlines, sequence numbers, timers | `pollOpen` … `pollUnblock`, `netpoll`, timer functions | timers, epoll, `gopark` |
| timers (partly) | status, `when`, `nextwhen` of a timer; heap and counts of a P | `addtimer`, `deltimer`, `modtimer`, `checkTimers` and what it calls | clock |
| `context` | `err`, `children`, `timer` of each context, `mu` | `WithCancel`, `WithDeadline`, `cancel`, timers, watchers | Mutex, timers, channels |

How they interact. A Mutex, RWMutex or WaitGroup sleeps in `semacquire1` and
is woken by `semrelease1`; the semaphores of many objects share one `semaRoot`,
its counter `nwait` and its treap. A Once locks a Mutex, a Cond any Locker. A
goroutine in `select` is in the wait queues of several channels at once, and
whoever dequeues it first, from any of them, wins the race for `selectDone`. A
`poll.FD` counts its users in an `fdMutex` and parks them in a `pollDesc`, from
where epoll, a timer or `Close` wakes them; a context is cancelled by its user, a
timer or its parent.

What is hard, and which property makes the component correct:

* *Mutex.* The word is changed by CAS and by blind additions, while local
  copies of it grow old. In starvation mode the lock bit is clear although the
  mutex has an owner-to-be. Right if there is never a second holder
  (`MutualExclusion`), no throw and no carry between the fields (`IInv`), the
  count is right (`WaitersCounted`), and a free mutex with sleepers always has
  somebody who will wake one (`NoLostWakeup`, `Progress`).
* *Semaphore.* A releaser adds a token and then looks at `nwait`; an acquirer
  raises `nwait` and then looks for a token. Right if no token lies beside a
  sleeper with nobody in charge of it (`NoMissedWakeup`), each sleeper is found
  once (`SleepersAccounted`), and hand-off invents no token (`SemaphoreSpec`).
* *semaRoot.* Pointer surgery in a tree shared by unrelated objects. Right if
  it stays a treap with proper lists (`TreapInv`) and equals one queue per
  address (`SemaQueueSpec`).
* *RWMutex.* Two words and two semaphores with no lock around them; readers
  that leave between the two additions of `Lock` drive `readerWait` negative.
  Right if writers exclude (`Exclusion`), every word counts what it should
  (`RWInv`), and neither side waits for ever (`WriterServed`, `ReaderServed`).
* *WaitGroup.* Checked and reset by plain accesses, and reused at once.
  Right if documented use never panics and no sleeper is forgotten or released
  twice (`SleepersCounted`), and `Wait` returns neither early
  (`WaitsForZero`) nor never (`WaitReturns`).
* *Once.* A lock-free fast path that must not run ahead of `f`: one call of it,
  and nobody returns before it has ended (`CalledOnce`).
* *Cond.* A ticket is taken long before the goroutine parks, tickets wrap
  around, and notifiers look without the lock. Right if the tickets between
  `notify` and `wait` are those of the goroutines still to be notified and
  nobody parks whose ticket is not among them (`CondInv`), each notifier does
  its job (`NotifiersDoTheirJob`),
  the order is first in, first out (`NotifyListSpec`), and a notified goroutine
  gets out (`NotifiedReturns`).
* *Channels and select.* Right if every call takes effect in one step on a
  bounded queue (`ChannelSpec`), nobody sleeps who could go on and no sudog is
  left behind (`WaitersInv`, part of `ChanInv`), selects do not deadlock on the channel locks
  (`NoLockCycle`, on the order of `LocksInOrder`), a select
  woken by a close does not sleep again (`LoopEnds`), and the lock-free checks
  give up only for a reason (`GivesUpRightly`).
* *Map.* A value is stored in an entry without the lock while the maps that
  lead to the entry are copied and exchanged. Right if every call takes effect in
  one step on a plain map (`Linearizable`), because an entry that is missing in
  the dirty map is expunged (`MapInv`).
* *Pool's queues.* A slot changes hands three times per round without a lock,
  indexes wrap, and drained dequeues are dropped. Right if the chain is a deque
  (`DequeSpec`).
* *fdMutex, FD and the poller.* `Close` meets readers that hold, wait for or are
  about to take the lock; deadlines pass, are moved and belong to earlier users
  of the `pollDesc`. Right if the word counts its users and the descriptor is
  destroyed once, after the last (`FdMutexInv`, part of `FDInv`), the poller does not throw
  (`NoThrow`), and whoever has a reason to go on is not left parked
  (`WokenInTime`).
* *Timers.* A timer is stopped and reset by its status alone while the heap it is
  in is locked by somebody else. Right if it goes off only while it is set, not
  before its time and not twice, and `Stop` and `Reset` answer truly
  (`TimerSpec`, safety only), and what is read without the lock shows that there
  is work (`TimersInv`).
* *context.* A child joins its parent while the parent is cancelled; locks of
  the tree nest. Right if every child follows its parent and leaves nothing behind
  (`ContextInv`), and cancellation arrives (`Propagates`).

`PROJECT.json` lists these hazards line by line under `hazards`.

### Not modelled

`sync.Pool` above its queues (pinning, victim cache), the runtime's own
`rwmutex` and futex locks, `io.Pipe`, `singleflight`, signals, the scheduler,
`lfstack`, and the pools of `database/sql` and `net/http` have protocols worth a
model; see the plan. Of the components above, `moveTimers` (it runs in a stopped
world), the wake-up of the poller by a new timer, `pollWaitCanceled` (Windows)
and `netpollBreak` are left out, as are failing `Init` calls. The garbage
collector and allocator need a project of their own. The compiler, the linker
and `cmd/go`, cryptography, formatting, encoding and the other pure packages
have no protocol, or inputs too large for small instances. Vendored packages,
tests, `doc/` and `md/` are not part of the system.

## Modules and code

One action is one atomic memory operation, or one critical section of a
runtime lock, together with the local computation up to the next one. `pc` (or
`at`, `spc`) says which operation of the code a goroutine executes next. Locals
that the code no longer reads are reset, so that equal situations are equal
states. A throw or panic is a `pc` value that nothing leaves. Variables whose
comment says *history* are observers; no guard reads them.

* **Mutex** — `sync/mutex.go`. `state` is a record of the bit fields. `Lock` is
  `LockFast` or `LockContended`; a round of `lockSlow` is `LoadOld`, `Spin`,
  `CompareAndSwap` (with `NewWord` computed from the stale `old`),
  `SemacquireMutex`, `AwakeNormal` or `AwakeStarving` (whether a millisecond has
  passed is a choice), and `Handoff`, the atomic addition. `unlockSlow` is
  `UnlockReturn`, `UnlockCAS`, `UnlockFailedCAS`, `UnlockLoad`, `Semrelease`.
  Additions that would borrow or carry go to `"throw"`. **Locker** is what it
  promises.
* **Sema** — `semacquire1` and `semrelease1` on one root with several addresses.
  The queue of an address is a sequence here. **Semaphore** is the counting
  semaphore that `sync/runtime.go` documents.
* **SemaTreap** — `semaRoot.queue` and `dequeue` with `parent`, `prev`, `next`,
  `waitlink`, `waittail` and `ticket` of every sudog; the random ticket is a
  choice. **SemaQueue** is the set of queues that Sema uses instead.
* **MutexSema** — composes Mutex (its `LockStep` and `UnlockStep`) with Sema in
  place of the counting semaphore, and is shown to implement Mutex.
* **RWMutex**, **WaitGroup**, **Once** — `sync/rwmutex.go`, `waitgroup.go`,
  `once.go`. They use a Mutex as a lock that one goroutine holds and
  a semaphore as a counter, which is what LockerSpec and SemaphoreSpec justify.
  WaitGroup's callers follow the rule in the documentation of `Add` (`MayAdd`).
  **Goroutines** declares what the primitives have in common.
* **Cond** — `sync/cond.go` and `notifyListAdd` … `notifyListNotifyOne` of
  `runtime/sema.go`; `Span` is the unwrapped difference of two tickets modulo
  `Mod`, 2^32 in the code, and `less` compares it with half the range.
  **NotifyList** is the promised queue.
* **Chan** — `runtime/chan.go` and the passes of `selectgo`. `sellock` takes one
  lock per action; the work under all locks is one action (`SelectCase`,
  `SelectDefault`, `SelectPark`, `SelectWakeUp`). The two plain loads of the fast
  path of a send may happen in either order. `Tried` removes the stale sudogs
  that `dequeue` throws away on its way. **Channel** is the promise.
* **SelectOrder** — the shuffle, the heap sort and the loops of `sellock` and
  `selunlock`, at the level of array elements.
* **Map** — `sync/map.go`. `read` and `dirty` are functions from keys to
  entries, `p` the pointer of each entry. A call begins with its load of `m.read`
  and goes on at an entry (`load`, `delete`, `tryStore`, `tryLoadOrStore`) or
  under `m.mu`; `dirtyLocked` expunges or copies one entry per step. **PlainMap**
  is the promise: a call that changes nothing may answer with any value its
  key had since it began.
* **PoolChain** — `sync/poolqueue.go`: each load, CAS and addition on `headTail`,
  `slot.typ`, `c.tail`, `d.next` and `d.prev` is an action; indexes are modulo
  `Mod`. **Deque** is the promise. The history variable `places`, which no guard
  reads, lists the indexes that hold an object, the oldest first: it changes with
  the addition or the CAS that moves a head or a tail.
* **FdMutex** — `internal/poll/fd_mutex.go`; **NetPoll** — `runtime/netpoll.go`
  and `netpoll_epoll.go`: the gate `rg` or `wg` of each mode, the steps of
  `netpollblock` around it, the critical sections of `pd.lock`, timers that fire
  late, and epoll's events (external). **FD** composes the two as
  `internal/poll/fd_unix.go` does, and reuses the `pollDesc`.
* **Timers** — `runtime/time.go` and `checkTimers`: users change a status by CAS,
  the thread that has the lock of a P adjusts, runs and clears the heap, a set
  here. Of the shape of the heap only this is kept: `dodeltimer` may move the
  last timer above the place where the loop of `adjusttimers` is, which then
  misses it and comes to an earlier one again (`StillToVisit`); such a timer
  stays counted in `adjustTimers`. **TimerService** is the promise. It is about
  when a timer may go off, not that it does: that needs a P that calls
  `checkTimers`, which is the scheduler's part.
* **Context** — `context/context.go`. Every goroutine has a stack of calls, since
  `cancel` calls itself for the children with `c.mu` locked.
* **MCAtomic**, **MCSema**, **MCStructures**, **MCSync**, **MCChan**,
  **MCRuntime** instantiate them. All but MCSema and MCChan hold several
  specifications that share no variable; the initial state picks the one that
  runs, so the state space is a sum and one run asks the same kind of question of
  each. MCChan picks a scenario, a set of calls, in the same way.
* **Counting**, **MutexProofs**, **SyncProofs**, **SemaProofs**, **MapProofs**,
  **RuntimeProofs**, **ChanProofs**, **ContextProofs** — see [proofs](#proofs).

`PROJECT.json` maps each definition to its lines. A definition that a comment
calls a mutant is a plausible mistake in the definition that follows it; each
property is known to fail with such a mistake in place.

## Runs

| Run | Asks | Result |
|---|---|---|
| `atomics` | Mutex: exclusion, inductive invariant, waiter count, no lost wake-up, implements Locker; Map: its two maps agree, implements PlainMap; PoolChain implements Deque | holds, 308 000 states |
| `mutex_sema` | MutexSema implements Mutex; somebody always gets a contended mutex | holds, 400 000 states |
| `sema` | no missed wake-up, accounting, Sema implements Semaphore | holds, 154 000 states |
| `structures` | treap pointers, treap implements queues; the locks of a select are taken in order | holds, 2.1 million states |
| `sync` | the invariants, action properties and the refinement of RWMutex, Once, WaitGroup, Cond | holds, 80 000 states |
| `sync_live` | writers, readers, waiters and notified goroutines get on; cancellation reaches every child | holds, 14 000 states |
| `chan` | wait queues, lock cycles, fast paths, refinement of Channel | holds, 340 000 states |
| `runtime` | FdMutex and NetPoll under FD: counts, throws, nobody left parked; Timers: bookkeeping, implements TimerService; Context: children follow | holds, 512 000 states |
| `mutex_handoff` | hand-off goes to the front of the queue | violated |
| `rwmutex_new_readers` | a blocked `Lock` keeps new readers out | violated |
| `cond_wrap` | wrap-around is safe whatever the delays | violated |
| `chan_fast_send` | a failed non-blocking send saw an open channel that was not ready | violated |

State counts are after symmetry reduction, which the safety runs use for the
goroutines and sudogs; runs with fairness do without it. Deadlock is checked
where the program cannot stop (`atomics`, MutexSema, the structures); goroutines
that nobody signals, or that receive on nil, really do sleep for ever elsewhere.

## Bounds

* Three goroutines on a Mutex are enough for a holder, a starving waiter and a
  newcomer that all disagree on the word; `ActiveSpin` is 2 (4 in the code) in
  `atomics` and 0 in `mutex_sema`, where spinning only re-reads the word.
* Four goroutines, two addresses, `MaxVal = 2` on the semaphores: a releaser, a
  woken waiter and an easy acquirer race while another address shares the root.
* Four sudogs on four addresses with three tickets: single and double rotations,
  equal priorities, lists of up to four. Five cases on nil and three channels:
  a heap with two levels and ties.
* Four goroutines on RWMutex, Once and WaitGroup (`MaxTasks = 3`), and on Cond
  at most `MaxActive = 3` of them at a time: two waiters out of order and a
  notifier. `Mod` is larger than twice the number of goroutines, as the code
  takes for granted; it is small, so tickets wrap many times.
* `sync_live` has three goroutines, two at a time on Cond, and two on contexts.
* Map: two goroutines with all calls and three with `Load`, `LoadAndDelete` and
  `Store`, on a key that is fought over and a second one whose stores make the
  dirty map come and go; `MaxEntry = 3` entries of a key in use are as many as the
  goroutines can hold. PoolChain: sizes 1 and 2, so that every slot is reused,
  indexes modulo 4, two dequeues, two objects, two threads in a call at a time.
* FD: three goroutines that read, or two that read and write, set a deadline to
  the past, to one point in time or to none, call and close, with sequence
  numbers up to 2: a timer is replaced once. In a scenario of its own the
  descriptor is closed and the `pollDesc` is used again for the next one, with two
  goroutines, or one and an event; as `pollUnblock` has taken the numbers to 2 by
  then, `MaxSeq = 4` lets both lives set and replace deadlines, so that timers
  and events of the first meet goroutines parked in the second.
  `MaxEvents = 1` lets one event come at any time. Timers: one with periods, two
  on one P, one that moves between two Ps, with two callers and time up to 2;
  three on one P before the first is due, so that `adjusttimers` can miss one. Contexts: a chain of
  three with a deadline in the middle, and one under a foreign context.
* Channels of size 0, 1 and 2, three goroutines: every pairing of two parties
  and a third that interferes. Scenarios: every call on an unbuffered channel and
  nil, on one slot, blocking calls on two slots (the ring wraps), selects that
  cross on two channels, selects with a channel twice, with nil and with default.

## Fairness

`mutex_sema` and `sync_live` assume weak fairness of the steps of a goroutine
inside a call: the Go scheduler runs every runnable goroutine eventually. Holders
unlock and what was added to a WaitGroup is done, which is the caller's duty. No
fairness forces a goroutine to call `Lock`, `Wait` or `Signal`. For Cond, taking
`c.L` again, and giving it up, is strongly fair: that stands for a mutex
that starves nobody. For contexts the steps of a call and of a woken
watcher are weakly fair; timers and users need not do anything. `Progress` speaks of somebody, not of everybody: the
hand-off can be overtaken, as `mutex_handoff` shows. `WriterServed` starts once
a writer has `rw.w`, and `ReaderServed` excepts the arrival of a further writer.

## Proofs

TLAPS checks every step. No theorem bounds the goroutines, channels, keys, timers or
deadlines, and none assumes what the code does not take for granted itself:

| Module | Assumes |
|---|---|
| MutexProofs | `ActiveSpin` is a natural number; for `WaitersCounted`, the set of goroutines is finite |
| SemaProofs | finitely many goroutines, `None` is no goroutine and no address; for MutexSema, one address |
| SyncProofs | Cond: finitely many goroutines, an even number of tickets that is more than twice as large, `Timely` (what the comment on `less` asks of tickets: nobody is overtaken by half of them between `notifyListAdd` and `notifyListWait`); RWMutex: fewer goroutines than `MaxReaders` (2^30 in the code); Once: `None` is no goroutine; WaitGroup: finitely many goroutines |
| MapProofs | Map: `None` and the two special pointers are no values; PoolChain: every size of a dequeue is positive, smaller than the number of indexes and divides it (powers of two in the code), `None` is no object |
| RuntimeProofs | FD: finitely many goroutines; deadlines are positive, 0 is none. Timers: finitely many timers; times and periods are natural numbers; `None` is no P, timer or setting, and no P is a goroutine |
| ChanProofs | channels are positive numbers, 0 is nil; a buffer size is a natural number; a call is a send, a receive, a close or a select |
| ContextProofs | a parent is a context or `None`; `None` is no context, no goroutine and no error |

Each proof has one lemma per action (or per kind of action) that keeps an
inductive invariant, and derives what a reader wants to know from it. TLC checks
the same invariants, with the definitions the proofs use; `ChainInv`, which is
only a means to `DequeSpec`, holds on the instance of `atomics` too, but is not
among the properties of that run.

*Counting* has what the proofs about numbers of goroutines keep needing: how
`Cardinality({g \in G : pc[g] \in L})` changes when one goroutine moves
(`AtMove`), and that a part of a finite set is not larger (`CountIsNat`).

*MutexProofs.* `MutualExclusion` is not inductive: in starvation mode the lock
bit is clear while a token for the new owner is in the semaphore, in an
unlocker's hands or already with the woken waiter, and only the flags keep
newcomers out. `IInv` adds that (`OneWakeup`) the two flags which say that a
wake-up is under way are set exactly while there is one, in one place;
(`StarvationMode`) a hand-off is under way only in starvation mode, with the owner
still counted; and (`LocalsCurrent`) what stale copies of the word can still be
relied on for. From it follow `MutexExcludes`, `MutexNeverThrows`,
`MutexOneWakeup`, `MutexLosesNoWakeup` (a second induction),
`MutexCountsWaiters` (a third one, by counting) and `MutexImplementsLocker`: each
step is a step of Locker or a stutter under `lockStatus`.

*SemaProofs.* `SleepersAccounted` says where a sleeper can be: in the queue of its
address, or dequeued and in the hands of one releaser, or on its way out; `nwait`
counts it until somebody takes it out under the lock. It is inductive, by its
parts `RootLocked`, `CallsKnown`, `OnePlace`, `OneWaker` and `SleepersKnown`.
`NoMissedWakeup` needs on top of it that every token beside a sleeper is the
promise of a releaser that has not yet looked at `nwait` (`promise`).
`SemaIsSemaphore` shows that each step is one of the counting semaphore, whoever
is handed a token directly included. `MutexOnSemaIsMutex` puts sync.Mutex on one
of them: a step of its code is the same step of Mutex, and a step of the semaphore
takes a token for its goroutine or for the one it wakes with a ticket, raises
`m.sema`, or is unseen. With MutexProofs, what holds of Mutex so holds of it on
the real queue of sleepers.

*SyncProofs, Cond.* All positions are distances from `wait` (`Span`), which a
new ticket moves by one and wrap-around does not touch (`SpanMoves`). `CondInv`
is inductive: the goroutines not yet notified have the distances 1 to
`Span(notify, wait)`, one each (`TicketsOutstanding`); one that has been notified
and not yet looked is farther away than `notify`, but by less than half the range,
so that `less` tells the two apart (`WaitersFit`, `LessIsRight`); the list holds
the parked ones (`ListFits`); and a notifier owes a wake-up to the oldest tickets,
all of them older than the `l.wait` it has read (`NotifiersFit`). `Timely` is used
once, in `CondWaitKeeps`: without it `WaitersFit` is false, as `cond_wrap` shows.
`NotifiersKeepTheirWord` and `NoLostWakeup` follow, and `TicketsAreAQueue`, the
refinement: `Pending` has at place `i` the holder of the ticket with distance
`Span(notify, wait) - i + 1` (`PendingIs`), and a sequence of such holders is
`Pending` (`IsInOrder`), so `Wait` appends to it, `notifyListNotifyOne` takes its
head, wherever in the list that one is, and `notifyListNotifyAll` empties it.

*SyncProofs, the others.* `RWInv` equates `readerCount` and `readerWait` with the numbers of
readers at the places of the code, with the writer's announcement subtracted, and
allows for the readers that leave between the two additions of `Lock`;
`WritersExclude` follows. `OnceInv`: the lock is held exactly inside `doSlow` and
`done` is set exactly when the call of `f` has ended; `DoCallsOnce` follows.
WaitGroup: `EverySleeperCounted`, with `ZeroReached` and `ReleasedFirst` for the
moment between the store of 0 into the word and the last token, and
`WaitReturnsAfterZero`.

*MapProofs, PoolChain.* A dequeue is a window of indexes, from its tail to its
head, on a ring, and everything is stated with distances from the tail: `Filled`
of the head, `Before` of an index in between. `ChainInv` is inductive. `PlacesFit`:
`places` are those windows, oldest dequeue first, so the items of the deque are
what their slots hold. As a window is no longer than the array, two of its indexes
never share a slot (`NotCongruent`); so (`SlotsFit`) a place has a slot with an
object, a call that has moved head or tail over an index has its slot for itself
until `typ` is nil again, and `pushHead`, which waits for that, writes to a free one.
`CallFits` says what a call may rely on although it read it earlier: nothing is
ever pushed again to a dequeue that has a next one, so one which `popTail` finds
empty after it has read `d.next` can be dropped; and `popHead` may leave an empty
one behind because pushes come from its own thread. A CAS succeeds only on the word that was
loaded; whether the indexes have gone round in between does not matter, since the
window is then what it was. `ChainIsADeque` is the refinement: a push takes effect
at the addition to the head, a pop at its CAS (`ItemsAppend`, `ItemsFront`,
`ItemsTail`), and no other step moves an object (`StutterStep`). MaxDequeues bounds
how many dequeues are ever allocated; the theorem holds for every bound.

*MapProofs, Map.* `MapInv` is inductive: while a call holds `m.mu` the maps may
disagree only as far as its `pc` says (`CallsMatch`, `CopyInv`), an entry of the
read map that is missing in the dirty one is expunged (`MapsFit`), an entry that
a call still holds is one that its key had (`EntriesKnown`), a removed entry is
alone (`RemovedAlone`), and what a call may still answer has been true since it
began (`SeenKnown`). `MapImplementsPlainMap` is the refinement, hence
`MapIsLinearizable`.

*RuntimeProofs, FD.* `FdMutexInv`: the fields of the word count the
references, locks and sleepers, with the tokens that `increfAndClose` still
owes; the descriptor is destroyed once. `FDInv` adds, for the poller, which gate a
call may be at (`GatesFit`), what a closing connection, a timer and one that has
fired leave behind (`ClosingFits`, `TimersFit`, `FiredFit`) and that whoever has
looked before parking and missed an event finds its gate changed
(`NothingMissed`). It follows that the poller does not throw
(`PollerNeverThrows`) and that nobody is left parked (`NobodyLeftParked`).

*RuntimeProofs, Timers.* `TimersInv` is inductive as the run checks it. A call
that has brought a timer to `timerModifying` is alone with it and knows whether
it is in a heap (`UserFits`); the status tells whether a heap has the timer, and
which (`StatusFits`); what `adjusttimers` still has to visit is in its heap, what
it moves in none (`RoundFits`); each lock is with the call or the `checkTimers`
that says so (`LockFits`). The hard part is `CountsFit`: `adjustTimers` is raised
before the status says `timerModifiedEarlier` and lowered after it says something
else, by threads without the lock, so it counts the timers of the heap with that
status, the calls between the two (`Telling`), and what `clearDeletedTimers` has
put right but not yet discounted (`PutRight`). Four lemmas, for a step of a call
(`CallGoesOn`), a swap of a status (`SwapStep`), a step with the lock (`LockStep`)
and one of a round (`RoundStep`), do what the lemma of each action needs.
`TimersServe`, the refinement, reads off the status what a timer is set to
(`SetTo`), at `timerModifying` from the one call that has it: the first swap of a
call is the step in which the call takes effect, `runOneTimer` is the one in which
the timer goes off, and everything else is unseen.

*ChanProofs.* `ChanInv` begins with the waiters (`WaitersInv`): the invariants at
the head of `chan.go`, on queues that may contain stale sudogs (`QueueInvariants`); that each sudog is of a goroutine
still in the call, once per queue, and a sleeper is in all its queues
(`SudogsOfWaiters`); that a closed channel has no waiters outside of the critical
section of the close (`CloseReleases`); what a goroutine wakes up to
(`WakeUpFits`), what locks it has (`LocksFit`) and what a fast path has read
(`SeenFits`). A step either shrinks the queues, or parks one goroutine;
`ShrinkingStep` and `ParkCase` do the common part. It follows that selects do not
lock each other out (`SelectsDoNotDeadlock`), that a closed select ends
(`ClosedSelectEnds`) and that the fast paths are right (`FastPathIsRight`).
`ChannelsAreQueues`, the refinement, needs more: where a call has its result
(`OutcomeFits`), and that `sendx` is `qcount` places after `recvx` (`RingFits`).
Under `Values`, the buffer read from `recvx` on, and `Outcome`, the result that
`gp.param` stands for, each step is one of Channel or has no effect there: a
direct hand-over gives two calls their results at once, a close takes effect
before its waiters run, and the fast paths take effect at their last load.

*ContextProofs.* `ChildrenFollow` is what users rely on: a context hears of its
parent, and a cancelled one leaves no child, no entry at its parent and no timer.
It is not inductive, for it only speaks of contexts that their users have got and
of locks that are free. `TreeInv` says what calls in between know: which call may
make which other call (`StackFits`), that whoever makes a context is alone with it
until it is tied to the parent (`MakerFits`), whose call has each lock
(`LocksHeld`); from then on the parent has it among its children, or somebody is
about to cancel it (`Tied`); and whatever a cancelled context has left, a call
will clear away (`Cleared`). Each of the 16 steps in a call has an `Effect`:
what becomes of the innermost call, and how far it may touch what others see;
`EffectKeeps` shows once for all that such a step keeps `TreeInv`.

Only model-checked:

* liveness (`Progress`, `WriterServed`, `ReaderServed`, `WaitReturns`,
  `NotifiedReturns`, `Propagates`), which rests on fairness and ENABLED;
* the treap and the heap sort (`TreapInv`, `SemaQueueSpec`, `LocksInOrder`): they
  need induction over the tree, or recursion.

## Disagreements with the comments

* `mutex_handoff` — `mutex.go:54` says that a starving mutex is "directly handed
  off" to the waiter at the front. The token goes through `*addr`, and the easy
  case of `semacquire1` is open to a goroutine that queues up just then. The
  mutex stays exclusive.
* `rwmutex_new_readers` — `rwmutex.go:26` says "a blocked Lock call excludes new
  readers". One that arrives while older readers have not yet taken their
  tokens of the last `Unlock` can take such a token; the older reader waits instead.
* `cond_wrap` — `sema.go:547` says that wrap-around is handled as long as fewer
  than 2^31 goroutines are blocked. A goroutine delayed between taking
  its ticket and `notifyListWait`, while 2^31 tickets go by, parks although it was
  notified. In the other runs `Timely` excludes this.
* `chan_fast_send` — `chan.go:196` says that the two observations of the fast path
  imply a moment when the channel was open and not ready. On an unbuffered
  channel a close that removes the waiting receiver between them refutes it:
  the send reports false where it should succeed or panic. With a buffer, and for
  receives, the claim holds (`GivesUpRightly`).

## Limits

* Atomic operations are sequentially consistent; plain accesses are where the
  code's locks or happens-before make them so, except the two loads of
  `chansend`, which may be reordered.
* A critical section of `runtime.mutex` is one step, and `gopark`/`goready` are
  the steps into and out of a parked `pc`: the scheduler and the futex code are
  taken at their word.
* Callers keep the contract: nobody unlocks what it has not locked or copies a
  primitive in use, so the throws are shown unreachable, not shown to be reached.
* Counts are unbounded integers: overflow needs 2^28 goroutines or more.
* The clock of Timers and the sequence numbers of NetPoll do not overflow.
* NetPoll counts `netpollWaiters` as the code does, but nothing is claimed of it:
  only `netpollgoready` counts down, not the wake-ups by `netpoll`, so it is an
  upper bound that the scheduler uses as a hint.
* Profiling, the race detector, stack copying and timers on channels are left out.

## Plan

Done: Mutex and Locker; Sema and Semaphore; MutexSema; SemaTreap; RWMutex,
WaitGroup, Once, Cond; Chan and SelectOrder; Map, PoolChain; FdMutex, NetPoll and
FD; Timers; Context; proofs for Mutex, Sema, RWMutex, Once, WaitGroup, Map,
PoolChain, MutexSema, Cond, FdMutex, FD, Timers, Chan and Context.

Next, in this order:

1. `runtime/rwmutex.go`, to be compared with RWMutex, and the futex locks below.
2. The local run queue with stealing, `lfstack`, and `sync.Pool` above its queues.
3. `io.Pipe` and `net.Pipe` on channels, `singleflight`, signals, the connection
   pool of `database/sql`.

They join the existing runs as further cases of a sum where they fit.
