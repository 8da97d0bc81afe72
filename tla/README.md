# Verification of local-runtime

TLA+ models of `local-runtime`, a single-threaded async runtime: an executor of
tasks, a reactor around `poll(2)`, timers, combinators and asynchronous I/O. The
modules are model-checked with TLC on small instances, and the safety properties of
each part are proved with TLAPS for every instance. Paths below are relative to
`src/src/`.

## The system and its parts

| part | source | modules |
|---|---|---|
| `block_on` and the notifier that wakes it | `lib.rs` 130-170, `reactor.rs` 128-174 and 272-329, `reactor/unix.rs` 83-247 | `Notifier`, `NotifierProofs` |
| `Executor`, `WakeQueue`, `TaskWaker`, `TaskHandle` | `lib.rs` 172-684 | `Executor`, `ExecutorProofs`, `ExecutorWakeProofs`, `ExecutorBoundProofs`, `TwoRuns` |
| `TimerQueue`, `Timer`, `Periodic`, `Timeout` | `time.rs` 28-292, `reactor.rs` 272-320 | `Timers`, `TimersProofs` |
| rounding of timeouts | `reactor/unix.rs` 260-335 | `Timeouts`, `TimersProofs` |
| `Async<T>` and the event sources of `Reactor` | `io.rs` 80-362, `reactor.rs` 89-305, `reactor/unix.rs` 24-159 | `AsyncIo`, `AsyncIoProofs` |
| socket wrappers, and `HyperIo` of the example | the rest of `io.rs`, `../examples/hyper.rs` | `Sockets`, `SocketsProofs` |
| `join!`, `merge_futures!`, `merge_streams!` | `concurrency.rs` 14-322 | `Merge`, `MergeProofs` |
| what any waker promises | `std::task::Waker`, as the code uses it | `WakeCell` |

One thread calls `block_on`. It polls a future, usually `Executor::run`, and calls
`Reactor::wait` whenever the future is pending. `wait` blocks in `poll(2)` until an
event source is ready, a timer expires or the *notifier* (an eventfd or a pipe) is
readable. The waker that `block_on` passes down writes to the notifier. The executor
stores that waker in `base_waker` and gives a `TaskWaker` of its own to each task; a
`TaskWaker` pushes the task's index into the wake queue and then wakes `base_waker`.
Other threads may call either kind of waker at any time.

Timers and `Async` operations store the waker they were polled with in the reactor;
`wait` calls the wakers of expired timers and of ready sources.

## The modules

**`WakeCell`** is the abstract contract of a waker, as a safety property: the sleeper
goes to sleep only when nothing is *posted*, and every post ends its sleep. That what
is posted is then seen is `WakeObserved` of the modules that implement it. `Notifier`,
`Executor` and `Merge` are shown to implement it: the executor relies on `block_on`'s
waker and gives its own futures wakers of the same kind, and so does `join!` or a merge
in one of these futures. A future that is new may have something posted to it from the
start, as it was never polled.

**`Notifier`** is `block_on`'s loop against any number of threads that call `wake()`.
`flag` is `WithFlag::is_notified`, `fd` what is in the descriptor, an `EventFd` or a
`PipeFd`. A `notify()` is two steps, the `compare_exchange` (`NotifySkip`, `NotifySet`)
and the write (`NotifyWrite`), since a thread can be suspended between them. `wait()` is
`WaitCheck` (test of the flag), `PollNotified`, `PollEvent` or `PollError` (how
`poll(2)` returns), `SetToNotified`, `ClearInner` and `ClearFlag`. `FdCap` bounds the
descriptor, as a pipe is bounded: a write to a full one fails and the error is dropped
as in the code. `ReadLen` is how much one `clear()` reads, `ReadFails` whether that
read may fail; `failures` counts the reads that did.

**`Executor`** is one executor on one thread, with other threads that hold its wakers.
`tasks` is the slab, `spawned` the stack of tasks not polled yet, `local` and
`concurrent` the halves of the wake queue. A wake on the executor's thread is one step
(`LocalWake`); from another thread it is the `compare_exchange`, the push, the taking
of `base_waker` and its call. One poll of `run()` is `StartRun` (the first one, with
`reset()`) or `PollRun`, then `register_base_waker`, `DrainLengths`,
`DrainLocal` and `DrainConcurrent` for each index, `PollMain`, `PollSpawned` for each
new task and `RunPending`. A poll of a future begins with `to_sleep()`, a relaxed store:
the step `to_sleep` is when other threads see it, which is any time until the future
looks at what it waits for (`Observe`), where it takes a lock or exchanges an atomic.
While a future is polled it may wake, spawn, cancel and await anything. `posted[f]` is
a history variable: something `f` waits for has happened and `f` has not looked since.
The constants `SpawnInFirstPoll`, `SpawnWhileIdle` and `DropRun` say what the program on
top does.

**`TwoRuns`** is several `run()` futures of one executor under one `join!`. They have
main futures and wakers of their own, but share the queue, `base_waker` and the index
`MAIN_TASK_ID`. It leaves tasks and other threads out.

**`Timeouts`** is how a duration becomes the argument of `poll(2)` (`PollTimeout`, in
milliseconds and 32 bits, rounded up) or of a timerfd (`TimerFd`, where zero would mean
disarmed). The units and the widths are constants, so that small durations reach the
saturation.

**`Timers`** is the queue of (expiry, identifier) entries and the futures that use it.
Everything happens on one thread; the clock ticks between any two steps. `PollPending`,
`PollReady`, `PollNext`, `PollTimeoutOk` and `Drop` are among the operations of the
futures; `WaitTimers`, `PollReturns`, `PollFails` and `ClearExpired` are `wait()` as
timers see it, and `poll(2)` sleeps for what `Timeouts` makes of `next_timeout()`. That a
woken future is polled before `wait()` is called again (`todo = {}` in `WaitTimers`) is
what `Notifier` and `Executor` establish.

**`AsyncIo`** is the handshake between an operation on an `Async` and the reactor. An
*end* is a direction of a source. `ready` is what the kernel would report and changes at
any time; `enabled` and `waker` are the fields of `Wakeup`. `PollEvent` is `poll_event`
and `poll_event_mut`, `WaitReadyFirst` and `WaitReadyAgain` are `wait_for_event_ready`.
An operation may be dropped halfway, which leaves its event enabled. `special` stands
for the notifier and the timerfd, which `wait()` looks at before, and `poll(2)`
together with, the sources. `seen` is a history variable for `ReadyHonest`.

**`Sockets`** extends `AsyncIo` with the sockets behind the sources, each with a kind, a
mode, a connection, what has arrived and whether it takes more (all external), and with
their owner. Its actions are what makes an `Async` (`bind`, `NewAsync`, `Accepted`,
`ConnectStart`), what ends it (`DropSource`, `into_inner`), `connect()` in its stages,
and `Operate` for every operation of the `Async` types, of the traits they implement and
of `HyperIo`: an operation is a record of the socket it is for, its direction and what
it does. Whether a system call blocks, and what `poll(2)` reports, follows from the
socket; `AsyncIo` leaves both open, and `Sockets` implements it.

**`Merge`** is one parent of `N` children, in each of the three kinds. `awoken` is the
flag of each `FlagWaker`; a wake from another thread sets it, takes `base_waker` and
calls it, in three steps. A poll is `Poll` (which registers the waker), then for each
child from `idx` on either `SkipChild`, or `CheckAwoken`, `Observe` and what the child
returns. `ChildDone` belongs to `join!`, `FutureYields` to `merge_futures!`,
`StreamYields` and `StreamEnds` to `merge_streams!`. A stream that has yielded counts as
`posted`, since it has stored no waker and yet has to be polled again.

Definitions whose comment begins with "Mutant" are wrong on purpose. They replace the
definition they are a variant of, to confirm that the properties notice.

## The runs

| run | instance | distinct states | shows |
|---|---|---|---|
| `notifier` | two threads and `block_on` itself, both descriptors | 51,457 | no wake-up is lost, each is observed, what accumulates in the descriptor is bounded, `WakeCell` is implemented |
| `executor` | two tasks, one handle kept, one thread | 822,028 | flags, queues and `base_waker` agree; awaiters are woken; cancelled tasks are woken and not polled |
| `executor_wakes` | one task, two threads | 135,960 | what is posted is observed; `WakeCell` is implemented |
| `executor_abandon` | two tasks, two runs, the first may be dropped | 647,809 | the second main future is not disturbed; polls of `run()` end; spawned tasks are polled |
| `executor_first_poll` | tasks that spawn when first polled | violation | `spawn` panics |
| `executor_dropped_run` | two runs | violation | a task of a dropped run loses its wake-ups |
| `executor_idle_spawn` | a spawn between two polls of `run()` | violation | the task is not polled |
| `timers` | two timers, two wakers, two identifiers, seven instants, both timeout methods | 394,172 | timers find their own entry and fire, neither early nor late |
| `async_io` | one socket, both directions, two wakers | 35,718 | who waits is enabled and returns; descriptors are registered, open and non-blocking |
| `async_io_panic` | as `async_io` | violation | `wait` panics |
| `merge` | two children, two threads, two items per stream | 282,551 | `WakeCell` is implemented; the parent ends when its children have |
| `two_runs` | two runs under one parent | violation | a main future loses its wake-ups |

The violations are the disagreements between code and documentation or assertions that
`PROJECT.json` lists under `findings`:

1. A task that spawns another one in its first poll panics, because the `RefMut` in
   the condition of `while let` lives for the whole body of the loop.
2. A `run()` that follows a dropped one empties the queue but leaves `awoken` set in
   the wakers of tasks that stay in the slab; these are never queued again.
3. `spawn()` wakes nobody, so that a task spawned while `run()` is pending waits for
   an unrelated wake-up.
4. `PollPoller::poll` yields the notifier or the timerfd along with event sources when
   both are ready, and the `unwrap()` in `wait()` panics.
5. Two `run()` of one executor at the same time take each other's `MAIN_TASK_ID` from the
   queue and replace each other's `base_waker`.

A comment in `PipeFd::clear` expects at most one notification in the pipe
(`reactor/unix.rs` 227-229). There can be more: a thread may be suspended before its write
while others are notified anew, and `clear()` may reset a flag that was set after its
read. `NotificationsBounded` is what holds instead: at most one for each other thread and
two more, plus one for each read that failed. What one read leaves behind makes the next
`poll(2)` return at once, and is harmless. No run is kept for the comment itself.

A comment in `TimerQueue` (`time.rs` 30-32) says that identifications may conflict when
the identifiers have wrapped around. They do not: `register()` puts back the entry that it
has displaced and tries the next identifier (`time.rs` 53-55), which is what `OwnEntry`
checks. The comment is more careful than the code needs, so that it is not a finding.

### Bounds

Lost wake-ups need one waker and one sleeper, and a second waker for the races between
two `notify()` or two pushes: hence two threads. `ReadLen = 2` lets the descriptor hold
more than one read takes. `FdCap = 5` is more than `NotificationsBounded` allows while no
read has failed, so that it is the code and not the capacity that keeps the bound, and is
reached when reads do fail, so that writes to a full descriptor occur. Two tasks and two indices
are enough for an index to be reused while a stale waker of its former owner is held.
`executor` uses symmetry of indices and of tasks and checks only safety; the runs with
liveness use none.

`MaxId = 2` makes identifiers wrap at the third registration, with two timers that can
have the same expiry; `TimersAssumption` asks for as many identifiers as timers, since
the code has 2^64 and its loop would not end otherwise. `MaxExpiry = 4` leaves room for a
`Periodic` to fire several times, with periods zero and one, and `MaxTime = 6` for a
timeout that is rounded up to end. With `NanosPerMilli = NanosPerSec = 2`, `I32Max = 3` and
`I64Max = 2`, durations of less than a unit, of a whole unit and of one and a half fit into
both kinds of timeout, and a duration of two units saturates both.

`async_io` has one source with both directions: the ends of a source share its flags
and may share a waker, whereas two sources have nothing in common but a waker.
`MaxInbox = 1`, as operations only tell an empty socket from one that is not.
`MaxItems = 2` lets a stream yield twice in a row. The proofs lift all of these bounds
for what they cover.

### Fairness

* A `wake()` that has begun ends; the executor's thread keeps running; the poll of a
  future ends. These are the assumptions of cooperative scheduling. A strong fairness
  is used where an unrelated step (a failing read, a spurious poll) can disable the
  step for a while.
* `block_on` polls again when it is notified. This is what `Notifier` shows.
* The clock advances and `poll(2)` returns at its timeout or when it has something to
  report, and does not fail every time.
* In `Sockets` only: `block_on` is idle again and again. While futures wake themselves
  in every poll, `wait()` does not call `poll(2)` at all and I/O makes no progress; with
  a weaker fairness TLC finds that behaviour. The documentation of `block_on` says as
  much ("processing I/O events when idle").
* In `Merge` only: the consumer asks for the next value after it has got one, and each
  stream yields boundedly often. A stream that is always ready keeps its turn (the
  comment at `concurrency.rs` 218 says so) and the others wait.

No fairness is assumed of what users do: waking, spawning, cancelling, dropping.

## The proofs

Each holds for all values of the constants, and assumes only the `ASSUME` of the module
that it is about.

**`NotifierProofs`**: `NoWakeupLost`, `FlagBacked`, `EventsFlagged`, `BacklogIsBounded` and
`Refinement`, that `Notifier` implements `WakeCell`. `NoLostWakeup` says that while
`block_on` is in `poll(2)`, an event whose `wake()` has returned is backed by a readable
descriptor or by a thread about to write to it. It is not inductive: it does not say why
a thread that finds the flag set may skip the write. `PostedFlagged` says that between
the poll of the future and the return of `poll(2)`, whatever is posted and past its
`compare_exchange` has the flag set. `NotifiedFlagBacked` says that outside of the part
of `wait()` that resets things, a set flag is backed by the descriptor or by a thread
between its `compare_exchange` and its write. Together with the types these are
inductive and imply the rest. In a state in which `block_on` sleeps they leave nothing
posted (`SleepersHaveSeen`), which is the key step of the refinement. `BacklogIsBounded`
needs `Backlog`: a flag that is not set leaves room for one notification less, as its
setter will write one, and a `clear()` that has read makes room for one, since it has
taken one out or has found only those of threads that have yet to write.

**`ExecutorProofs`**: `WakeupsNotify`, `DrainsWhatIsThere`, `CancelWakesUp` and
`CancelIsFinal`. In the invariant `QInv`, `Shape` says what the variables
hold: above all that the slab holds a task at the index of its waker, that a task in its
first poll has a vacant index, and that the queues hold what `drain_for_each` has still
to take. `Registered` and `Behind` say how block_on learns of an index: what is in the
queues beyond the lengths that `drain_for_each` has read was pushed after `base_waker`
was registered, and its pusher has called it or is about to. With `Drained`, that
nothing is left of these lengths when `run()` returns Pending, this gives
`QueueNotified`. `CancelInv` says that `cancel()` finds the waker of every task that can
be polled again.

**`ExecutorWakeProofs`**: `AwokenUnderWay` and `Refinement`, both if no `run()` is
dropped, and `MainRefinement` without that condition; finding 2 is why it is needed for
tasks. The invariant adds `AwokenWaits` and `PostedWaits`: a live future that is awoken,
or has something to see, has its index in the queue, was found in it, is about to be
polled, or a thread is about to push it. `PostedWaits` alone is not inductive, since a
thread that finds `awoken` set pushes nothing; `AwokenWaits` says that then somebody
else has. They are stated of the futures `Kept`, which are all futures or only the main
futures, so that one argument serves both theorems; `Swept` says that a `run()` that was
not dropped leaves no task behind that `reset()` could cut off. A step that calls no
`wake()` preserves both if it satisfies `Stays`, which is shown for each action. The hard
case is `DrainStays`: indices are reused, so the index taken from the queue may be meant
for a task that is gone, and is still enough for the one that is there.

**`ExecutorBoundProofs`**: `QueueIsBounded`, `ExecutorTypes` and `AwaitersAreWoken`. The
last is an action property: the step that finishes a task takes the waker out of its
handle and leaves it awoken, and no other step takes it out. It needs that a finished
task has no awaiter left (`AwaiterGone`). `QueueBounded`
compares the length of the queues, and the number of threads about to push, with the
number of wakers that are awoken. It is not inductive, since an index that was taken has
left the queue before `to_sleep()` makes its waker call again. `Accounted` counts these as
well (`main_task_awoken` and `Popped`), and excepts the index that `reset()` puts into the
queue only until the first `to_sleep()` of the main future (`Fresh`). `FirstEntry` says
where that index is meanwhile, and `Handed` that nobody has the waker of a future that was
never polled.

**`TimersProofs`**: `TimersRegistered`, `TimersOwnEntries` and `TimersNotLeaked` from
`IInv`, which adds to the three properties the types and that only a timer that can
still cancel its entry remembers an identifier; `TimersNotOverslept` and
`TimeoutsNotEarly` from `BInv`, which adds that a pending timer that need not be polled
is in the queue (`Queued`) and that an entry will have expired when `poll(2)` times out
(`DueAtTimeout`). The latter rest on `PollTimeoutSound` and `TimerFdSound`: a timeout is
not shorter than asked unless it saturates, is longer by at most the precision, and never
turns into forever. `TimersTypes` are the types. `RegisterEnds` says that the loop of
`register()` ends with one result: by `NoLeak` and `IInv`, each entry with the expiry of a
timer that has no identifier belongs to another timer, so that, by the pigeonhole
principle, one of at least as many identifiers as timers is free.

**`AsyncIoProofs`**: `OperationsWaitEnabled` and `ReadinessHonest`. The invariant adds
that a source with an operation is registered, that `poll(2)` is called only when
nothing is left to be polled, and that what is ready now was seen.
**`SocketsProofs`**: `SocketsImplementAsyncIo`, by which these two hold of the sockets;
`SocketsGuarded` and `SocketsNeverBlock`; `SocketsTypes`; and `ConnectIsHonest`.
The action property `ConnectHonest` needs `CInv`: while `connect()` waits and the
connection is under way, it waits with `writable()` alone, and nothing was reported for
that end (`Connects`), which holds as `poll(2)` reports what the socket says (`Agrees`).
So `connect()` cannot go on to ask for the peer before the kernel knows.

**`MergeProofs`**: `FlagsWake` and `Refinement`, that `Merge` implements `WakeCell`, from
`WakeInv`, in which `PassedNotified` says that a flag set behind the child at which the
poll is has woken the parent. The step of the refinement that is not obvious is the end of
a child with which the parent also goes to sleep (`LastPoll`): an event that came during
that last poll has set the flag and woken the task. `WakeupsKept` follows from the
refinement by `WakeCell` alone (`ContractKept`). `EndIsLast` holds as `none_count` counts
the children that have ended.

Every invariant and every action property of the runs that pass is proved, and so are the
refinements; `AwokenUnderWay` and `Refinement` of the executor under the condition on
`DropRun` above. Only model-checked are the liveness properties (`WakeObserved`,
`RunYields`, `SpawnedPolled`, `Fires`, `IoReturns`, `ConnectReturns` and `Ends`), which are
out of reach of the prover, as it does not reason about fairness; and the violations. The
types of `Notifier` and of `Merge` are only proved (`TypeCorrect`, `Typed`). No proof is by induction over data: what the
models need of sequences and finite sets are facts of the library.

## What is not modelled

* The parts of `wait()` are in `Notifier`, `Timers` and `AsyncIo`, and are not composed
  in one module. `AsyncIo` has the notifier and the timerfd as things that `poll(2)`
  reports; `Timers` has the sources as a reason for which it returns.
* Weak memory, except for the store of `to_sleep()`. That it is seen at the latest when
  the future looks at what it waits for is an assumption on futures, which `AtomicWaker`
  and locks meet. `WithFlag::clear` is taken to be sequentially consistent.
* Destructors of futures that call the executor, and a parent of `join!` or `merge` that
  is dropped early.
* A future of `run()` that is polled inside a task of the same executor, which panics as
  its documentation says (`lib.rs` 550-553): the model has one poll of `run()` at a time.
* Two operations on one direction of an `Async`, which its documentation excludes.
* `Async::without_nonblocking` on an object in blocking mode, which is up to the caller
  (`io.rs` 136-137). On one in non-blocking mode it does what `NewAsync` does.
* That a stream comes from the listener that accepts it: `accept()` is an operation of the
  listener in `Operate`, and the `Async` that its closure makes is `Accepted`, a step of
  its own.
* Failure of `Reactor::new`, and descriptors closed behind the reactor's back.
* The contents of messages, and addresses. `connect()` of a UDP socket, `get_ref`,
  `spawn_rc` and the macros, which only forward. `main()` of the examples and the
  example `unix-signal`, which use the library and add no operation to it; the mock
  waker of the tests.
