------------------------------- MODULE Executor -------------------------------
(***************************************************************************)
(* Executor::run, the tasks it drives and the handles to them.             *)
(*                                                                         *)
(* run() is a future that block_on polls.  One poll of it drains the wake  *)
(* queue, polling every task found there, then polls the main future if it *)
(* was woken, then polls the tasks spawned meanwhile.  Wakers push the     *)
(* index of their task into the queue, from the executor's thread or from  *)
(* any other, and then wake block_on through base_waker.                   *)
(*                                                                         *)
(* Atomic steps are the accesses to memory that other threads also access: *)
(* the flag awoken, the concurrent queue and base_waker.  What only the    *)
(* executor's thread reads is updated together with them.                  *)
(*                                                                         *)
(* Memory is sequentially consistent but for the relaxed store of          *)
(* to_sleep().  Other threads see it at any time until the future that is  *)
(* polled looks at what it waits for: it does so under a lock or with an   *)
(* atomic exchange, as AtomicWaker does, and that orders the store.        *)
(*                                                                         *)
(* The waker that block_on passes down is abstract here: notified says     *)
(* that it was woken since the last poll of run().  Notifier shows that    *)
(* block_on then polls again.                                              *)
(***************************************************************************)
EXTENDS Naturals, Sequences, FiniteSets, Functions

CONSTANTS
  Tasks,              \* the futures that may be spawned, each at most once
  Held,               \* the tasks whose handle is kept; the others are detached
  Mains,              \* the main futures, one for each call of run()
  Keys,               \* indices of the slab
  Threads,            \* other threads that hold wakers
  MAIN_TASK_ID,       \* the index that stands for the main future
  None,               \* Option::None
  SpawnInFirstPoll,   \* whether tasks call spawn() when first polled
  SpawnWhileIdle,     \* whether spawn() is called between two polls of run()
  DropRun             \* whether run() may be dropped before it completes

Futures == Tasks \cup Mains

ASSUME ExecutorAssumption ==
  /\ Held \subseteq Tasks
  /\ Tasks \cap Mains = {}
  /\ None \notin Futures \cup Keys
  /\ MAIN_TASK_ID \notin Keys \cup {None}
  /\ IsFiniteSet(Futures)
  /\ {SpawnInFirstPoll, SpawnWhileIdle, DropRun} \subseteq BOOLEAN

VARIABLES
  \* Executor and WakeQueue
  tasks,              \* tasks[k]: the task at index k of the slab, or None
  spawned,            \* the stack of spawned tasks that were never polled, top first
  local,              \* queue of indices woken by the executor's thread
  concurrent,         \* queue of indices woken by other threads
  base_waker,         \* whether base_waker holds the waker of block_on
  \* TaskWaker: one for each task that was polled, one for each run()
  task_id,            \* task_id[f]: the index in f's waker, None before that
  awoken,             \* awoken[f]: f's waker was woken since to_sleep()
  \* HandleData and RetData of each task
  cancelled,
  handle_waker,       \* handle_data.waker holds the waker of the task
  value,              \* ret.value, and whether it was taken
  ret_waker,          \* the future whose waker is in ret.waker, or None
  \* the executor's thread
  pc,                 \* where it is
  cur,                \* the future being polled, or None
  main,               \* the main future of the run() in progress, or None
  nlocal, nconcurrent,\* indices that drain_for_each has still to take
  main_task_awoken,
  \* the environment
  wk,                 \* wk[th]: the wake() that thread th is in
  notified,           \* block_on was woken since it last polled run()
  handed,             \* the futures that were polled: others have their wakers
  posted,             \* posted[f]: something f has to see has happened
  born                \* tasks that spawn() was called for

queueVars == <<local, concurrent, base_waker, awoken>>
handleVars == <<cancelled, handle_waker, value, ret_waker>>
drainVars == <<nlocal, nconcurrent, main_task_awoken>>
userVars == <<handed, born>>
vars == <<tasks, spawned, queueVars, task_id, handleVars, pc, cur, main,
          drainVars, wk, notified, posted, userVars>>

Pc == {"off",        \* no run() in progress
       "idle",       \* run() has returned Pending to block_on
       "register",   \* run() is polled: the waker of block_on not yet registered
       "len",        \* poll_tasks: the lengths of the queues not yet read
       "drain",      \* in drain_for_each
       "poll",       \* about to poll cur, the store of to_sleep is not yet seen
       "asleep",     \* the store of to_sleep is seen
       "polling",    \* cur is being polled
       "ready",      \* cur has returned Ready
       "spawned",    \* in the loop of poll_spawned
       "panic"}      \* the thread has panicked

TypeOK ==
  /\ tasks \in [Keys -> Tasks \cup {None}]
  /\ spawned \in Seq(Tasks)
  /\ local \in Seq(Keys \cup {MAIN_TASK_ID})
  /\ concurrent \in Seq(Keys \cup {MAIN_TASK_ID})
  /\ base_waker \in BOOLEAN
  /\ task_id \in [Futures -> Keys \cup {MAIN_TASK_ID, None}]
  /\ awoken \in [Futures -> BOOLEAN]
  /\ cancelled \in [Tasks -> BOOLEAN]
  /\ handle_waker \in [Tasks -> BOOLEAN]
  /\ value \in [Tasks -> {"none", "some", "taken"}]
  /\ ret_waker \in [Tasks -> Futures \cup {None}]
  /\ pc \in Pc
  /\ cur \in Futures \cup {None}
  /\ main \in Mains \cup {None}
  /\ nlocal \in Nat /\ nconcurrent \in Nat
  /\ main_task_awoken \in BOOLEAN
  /\ wk \in [Threads -> [at : {"idle", "cas", "push", "base", "notify"},
                         of : Futures \cup {None}]]
  /\ notified \in BOOLEAN
  /\ posted \in [Futures -> BOOLEAN]
  /\ handed \subseteq Futures
  /\ born \subseteq Tasks

Idle == [at |-> "idle", of |-> None]

\* WakeQueue::with_capacity
NewWakeQueue == local = <<>> /\ concurrent = <<>> /\ base_waker = FALSE

\* Executor::with_capacity
NewExecutor == tasks = [k \in Keys |-> None] /\ spawned = <<>> /\ NewWakeQueue

Init ==
  /\ NewExecutor
  /\ task_id = [f \in Futures |-> None]
  /\ awoken = [f \in Futures |-> FALSE]
  /\ cancelled = [t \in Tasks |-> FALSE]
  /\ handle_waker = [t \in Tasks |-> FALSE]
  /\ value = [t \in Tasks |-> "none"]
  /\ ret_waker = [t \in Tasks |-> None]
  /\ pc = "off" /\ cur = None /\ main = None
  /\ nlocal = 0 /\ nconcurrent = 0 /\ main_task_awoken = FALSE
  /\ wk = [th \in Threads |-> Idle]
  /\ notified = FALSE
  /\ posted = [f \in Futures |-> FALSE]
  /\ handed = {} /\ born = {}

\* The task is in the slab.
Stored(t) == task_id[t] \in Keys /\ tasks[task_id[t]] = t

\* The future can be polled again: it is stored, is being polled, or is the
\* main future of the run() in progress.
Live(f) == f = cur \/ f = main \/ (f \in Tasks /\ Stored(f))

-------------------------------------------------------------------------------
(* WakeQueue and TaskWaker                                                 *)

\* WakeQueue::reset
reset(id) == local' = <<id>> /\ concurrent' = <<>>

\* TaskWaker::waker_pair: f gets its waker, which is not yet awoken.
waker_pair(f, id) == task_id[f] = None /\ task_id' = [task_id EXCEPT ![f] = id]

\* base_waker.wake(): take the waker of block_on, if it is there, and wake it.
BaseWake ==
  /\ base_waker' = FALSE
  /\ notified' = (notified \/ base_waker)

\* Mutant of LocalWake: the index is pushed although the waker is awoken.
LocalWakeAlways(f) ==
  /\ awoken' = [awoken EXCEPT ![f] = TRUE]
  /\ local' = Append(local, task_id[f])
  /\ BaseWake
  /\ UNCHANGED concurrent

\* wake() on the executor's thread.
LocalWake(f) ==
  IF awoken[f]
    THEN UNCHANGED <<queueVars, notified>>
    ELSE /\ awoken' = [awoken EXCEPT ![f] = TRUE]
         /\ local' = Append(local, task_id[f])
         /\ BaseWake
         /\ UNCHANGED concurrent

\* Something that f waits for happens.
Happen(f) == posted' = [posted EXCEPT ![f] = Live(f)]

\* The executor's thread wakes f, from a future that it polls or from the
\* reactor; f's future may be gone, its waker is not.
Wake(f) ==
  /\ pc \in {"polling", "idle", "off"}
  /\ f \in handed
  /\ Happen(f)
  /\ LocalWake(f)
  /\ UNCHANGED <<tasks, spawned, task_id, handleVars, pc, cur, main, drainVars,
                 wk, userVars>>

\* Another thread makes something happen and calls wake().
RemotePost(th, f) ==
  /\ wk[th] = Idle
  /\ f \in handed
  /\ Happen(f)
  /\ wk' = [wk EXCEPT ![th] = [at |-> "cas", of |-> f]]
  /\ UNCHANGED <<tasks, spawned, queueVars, task_id, handleVars, pc, cur, main,
                 drainVars, notified, userVars>>

RemoteCas(th) ==
  /\ wk[th].at = "cas"
  /\ awoken' = [awoken EXCEPT ![wk[th].of] = TRUE]
  /\ wk' = [wk EXCEPT ![th] = IF awoken[wk[th].of]
                                THEN Idle ELSE [@ EXCEPT !.at = "push"]]
  /\ UNCHANGED <<tasks, spawned, local, concurrent, base_waker, task_id,
                 handleVars, pc, cur, main, drainVars, notified, posted, userVars>>

\* Mutant of RemotePush: base_waker is not woken.
RemotePushOnly(th) ==
  /\ wk[th].at = "push"
  /\ concurrent' = Append(concurrent, task_id[wk[th].of])
  /\ wk' = [wk EXCEPT ![th] = Idle]
  /\ UNCHANGED <<tasks, spawned, local, base_waker, awoken, task_id, handleVars,
                 pc, cur, main, drainVars, notified, posted, userVars>>

RemotePush(th) ==
  /\ wk[th].at = "push"
  /\ concurrent' = Append(concurrent, task_id[wk[th].of])
  /\ wk' = [wk EXCEPT ![th].at = "base"]
  /\ UNCHANGED <<tasks, spawned, local, base_waker, awoken, task_id, handleVars,
                 pc, cur, main, drainVars, notified, posted, userVars>>

\* base_waker.wake(), first half: take the waker.
RemoteTake(th) ==
  /\ wk[th].at = "base"
  /\ base_waker' = FALSE
  /\ wk' = [wk EXCEPT ![th] = IF base_waker
                                THEN [@ EXCEPT !.at = "notify"] ELSE Idle]
  /\ UNCHANGED <<tasks, spawned, local, concurrent, awoken, task_id, handleVars,
                 pc, cur, main, drainVars, notified, posted, userVars>>

\* base_waker.wake(), second half: wake it.
RemoteNotify(th) ==
  /\ wk[th].at = "notify"
  /\ notified' = TRUE
  /\ wk' = [wk EXCEPT ![th] = Idle]
  /\ UNCHANGED <<tasks, spawned, queueVars, task_id, handleVars, pc, cur, main,
                 drainVars, posted, userVars>>

RemoteWake(th) ==
  RemoteCas(th) \/ RemotePush(th) \/ RemoteTake(th) \/ RemoteNotify(th)

-------------------------------------------------------------------------------
(* What user code calls: Executor::spawn, TaskHandle::cancel and           *)
(* TaskHandle::poll.  It runs while a future is polled, or outside of      *)
(* run() between two of its polls.                                         *)

\* The task being polled was taken from the stack and is not yet in the slab.
InFirstPoll == cur \in Tasks /\ ~Stored(cur)

\* spawn().  poll_spawned borrows the stack for the whole body of its loop, so
\* that borrow_mut() panics when it is called from a task's first poll.
Spawn(t) ==
  /\ t \notin born
  /\ \/ pc = "off"
     \/ pc = "idle" /\ SpawnWhileIdle
     \/ pc = "polling" /\ (InFirstPoll => SpawnInFirstPoll)
  /\ born' = born \cup {t}
  /\ IF pc = "polling" /\ InFirstPoll
       THEN pc' = "panic" /\ UNCHANGED spawned
       ELSE spawned' = <<t>> \o spawned /\ UNCHANGED pc
  /\ UNCHANGED <<tasks, queueVars, task_id, handleVars, cur, main, drainVars,
                 wk, notified, posted, handed>>

\* What a handle tells of its task.
is_finished(t) == value[t] = "some"
is_cancelled(t) == cancelled[t]

\* Mutant of Cancel: the task is not woken.
CancelSilently(t) ==
  /\ pc \in {"polling", "idle", "off"}
  /\ t \in born \cap Held
  /\ cancelled' = [cancelled EXCEPT ![t] = TRUE]
  /\ UNCHANGED <<tasks, spawned, queueVars, task_id, handle_waker, value,
                 ret_waker, pc, cur, main, drainVars, wk, notified, posted, userVars>>

\* cancel().
Cancel(t) ==
  /\ pc \in {"polling", "idle", "off"}
  /\ t \in born \cap Held
  /\ cancelled' = [cancelled EXCEPT ![t] = TRUE]
  /\ handle_waker' = [handle_waker EXCEPT ![t] = FALSE]
  /\ IF handle_waker[t]
       THEN Happen(t) /\ LocalWake(t)
       ELSE UNCHANGED <<posted, queueVars, notified>>
  /\ UNCHANGED <<tasks, spawned, task_id, value, ret_waker, pc, cur, main,
                 drainVars, wk, userVars>>

\* The future cur polls the handle of t.
PollHandle(t) ==
  /\ pc = "polling"
  /\ t \in born \cap Held
  /\ value[t] # "taken"
  /\ IF is_finished(t)
       THEN value' = [value EXCEPT ![t] = "taken"] /\ UNCHANGED ret_waker
       ELSE ret_waker' = [ret_waker EXCEPT ![t] = cur] /\ UNCHANGED value
  /\ UNCHANGED <<tasks, spawned, queueVars, task_id, cancelled, handle_waker,
                 pc, cur, main, drainVars, wk, notified, posted, userVars>>

-------------------------------------------------------------------------------
(* The poll of a future                                                    *)

\* Task::poll, and the poll of the main future: to_sleep() comes first.
StartPoll(f) == cur' = f /\ pc' = "poll"

\* Mutant of to_sleep: the flag stays.
to_sleepNever ==
  /\ pc = "poll"
  /\ pc' = "asleep"
  /\ UNCHANGED <<tasks, spawned, queueVars, task_id, handleVars, cur, main,
                 drainVars, wk, notified, posted, userVars>>

\* The store of to_sleep() is seen by other threads.
to_sleep ==
  /\ pc = "poll"
  /\ awoken' = [awoken EXCEPT ![cur] = FALSE]
  /\ pc' = "asleep"
  /\ UNCHANGED <<tasks, spawned, local, concurrent, base_waker, task_id, handleVars,
                 cur, main, drainVars, wk, notified, posted, userVars>>

\* The future looks at what it waits for, and hands out its waker.
Observe ==
  /\ pc = "asleep"
  /\ posted' = [posted EXCEPT ![cur] = FALSE]
  /\ handed' = handed \cup {cur}
  /\ pc' = "polling"
  /\ UNCHANGED <<tasks, spawned, queueVars, task_id, handleVars, cur, main,
                 drainVars, wk, notified, born>>

\* The future returns Pending: poll_tasks goes on, run() goes on to
\* poll_spawned, or poll_spawned puts the task into the slab.
Pending ==
  /\ pc = "polling"
  /\ tasks' = IF InFirstPoll
                THEN [tasks EXCEPT ![task_id[cur]] = cur] ELSE tasks
  /\ pc' = IF cur \in Tasks /\ Stored(cur) THEN "drain" ELSE "spawned"
  /\ cur' = None
  /\ UNCHANGED <<spawned, queueVars, task_id, handleVars, main, drainVars, wk,
                 notified, posted, userVars>>

\* Mutant of Finish: the waker in ret is taken and dropped, not woken.
FinishUnheard ==
  /\ pc = "polling"
  /\ cur \in Tasks
  /\ value' = [value EXCEPT ![cur] = "some"]
  /\ ret_waker' = [ret_waker EXCEPT ![cur] = None]
  /\ pc' = "ready"
  /\ UNCHANGED <<tasks, spawned, queueVars, task_id, cancelled, handle_waker, cur,
                 main, drainVars, wk, notified, posted, userVars>>

\* A task's future returns: the wrapper that spawn() put around it stores the
\* value and wakes whoever awaits the handle.
Finish ==
  /\ pc = "polling"
  /\ cur \in Tasks
  /\ value' = [value EXCEPT ![cur] = "some"]
  /\ ret_waker' = [ret_waker EXCEPT ![cur] = None]
  /\ IF ret_waker[cur] = None
       THEN UNCHANGED <<posted, queueVars, notified>>
       ELSE Happen(ret_waker[cur]) /\ LocalWake(ret_waker[cur])
  /\ pc' = "ready"
  /\ UNCHANGED <<tasks, spawned, task_id, cancelled, handle_waker, cur, main,
                 drainVars, wk, userVars>>

\* The poll of a task has returned Ready: poll_tasks removes the task,
\* poll_spawned does not insert it.
Discard ==
  /\ pc = "ready"
  /\ tasks' = IF Stored(cur) THEN [tasks EXCEPT ![task_id[cur]] = None] ELSE tasks
  /\ posted' = [posted EXCEPT ![cur] = FALSE]
  /\ pc' = IF Stored(cur) THEN "drain" ELSE "spawned"
  /\ cur' = None
  /\ UNCHANGED <<spawned, queueVars, task_id, handleVars, main, drainVars, wk,
                 notified, userVars>>

\* The main future returns Ready: run() drops every task and returns.
RunReturns ==
  /\ pc = "polling"
  /\ cur \in Mains
  /\ tasks' = [k \in Keys |-> None]
  /\ spawned' = <<>>
  /\ posted' = [f \in Futures |-> FALSE]
  /\ pc' = "off" /\ cur' = None /\ main' = None
  /\ UNCHANGED <<queueVars, task_id, handleVars, drainVars, wk, notified, userVars>>

-------------------------------------------------------------------------------
(* Executor::run                                                           *)

\* Mutant of StartRun: the queue is emptied and the main future is not put in it.
StartRunEmpty(m) ==
  /\ pc = "off"
  /\ waker_pair(m, MAIN_TASK_ID)
  /\ local' = <<>> /\ concurrent' = <<>>
  /\ main' = m
  /\ posted' = [posted EXCEPT ![m] = TRUE]
  /\ notified' = FALSE
  /\ pc' = "register"
  /\ UNCHANGED <<tasks, spawned, base_waker, awoken, handleVars, cur, drainVars,
                 wk, userVars>>

\* block_on polls run() for the first time: it makes the main future's waker and
\* resets the queue to hold only the main future, which has to be polled a first
\* time.  The pops of reset() and pushes of other threads have the same outcome
\* as if the last of the pops, which finds the queue empty, were the only step.
StartRun(m) ==
  /\ pc = "off"
  /\ waker_pair(m, MAIN_TASK_ID)
  /\ reset(MAIN_TASK_ID)
  /\ main' = m
  /\ posted' = [posted EXCEPT ![m] = TRUE]
  /\ notified' = FALSE
  /\ pc' = "register"
  /\ UNCHANGED <<tasks, spawned, base_waker, awoken, handleVars, cur, drainVars,
                 wk, userVars>>

\* block_on polls run() again, because it was notified or for a reason of its own.
PollRun ==
  /\ pc = "idle"
  /\ notified' = FALSE
  /\ pc' = "register"
  /\ UNCHANGED <<tasks, spawned, queueVars, task_id, handleVars, cur, main,
                 drainVars, wk, posted, userVars>>

\* Mutant of register_base_waker: a waker that was registered once is not
\* registered again.
register_base_waker_once ==
  /\ pc = "register"
  /\ base_waker' = (base_waker \/ main \notin handed)
  /\ pc' = "len"
  /\ UNCHANGED <<tasks, spawned, local, concurrent, awoken, task_id, handleVars,
                 cur, main, drainVars, wk, notified, posted, userVars>>

\* Each poll of run() first registers the waker of block_on.
register_base_waker ==
  /\ pc = "register"
  /\ base_waker' = TRUE
  /\ pc' = "len"
  /\ UNCHANGED <<tasks, spawned, local, concurrent, awoken, task_id, handleVars,
                 cur, main, drainVars, wk, notified, posted, userVars>>

\* The future of run() is dropped before it completes.
Abandon ==
  /\ DropRun
  /\ pc = "idle"
  /\ posted' = [posted EXCEPT ![main] = FALSE]
  /\ main' = None
  /\ pc' = "off"
  /\ UNCHANGED <<tasks, spawned, queueVars, task_id, handleVars, cur, drainVars,
                 wk, notified, userVars>>

\* Mutant of DrainLengths: one bound for both queues.
DrainLengthsSum ==
  /\ pc = "len"
  /\ nlocal' = Len(local) + Len(concurrent)
  /\ nconcurrent' = 0
  /\ pc' = "drain"
  /\ UNCHANGED <<tasks, spawned, queueVars, task_id, handleVars, cur, main,
                 main_task_awoken, wk, notified, posted, userVars>>

\* drain_for_each bounds itself by the lengths that the queues have now.
DrainLengths ==
  /\ pc = "len"
  /\ nlocal' = Len(local)
  /\ nconcurrent' = Len(concurrent)
  /\ pc' = "drain"
  /\ UNCHANGED <<tasks, spawned, queueVars, task_id, handleVars, cur, main,
                 main_task_awoken, wk, notified, posted, userVars>>

\* The closure that poll_tasks passes to drain_for_each: note that the main
\* future is awoken, ignore an index that is vacant, remove a cancelled task,
\* poll any other.
Visit(id) ==
  \/ /\ id = MAIN_TASK_ID
     /\ main_task_awoken' = TRUE
     /\ UNCHANGED <<tasks, posted, cur, pc>>
  \/ /\ id \in Keys
     /\ tasks[id] = None
     /\ UNCHANGED <<tasks, posted, cur, pc, main_task_awoken>>
  \/ /\ id \in Keys
     /\ tasks[id] # None
     /\ cancelled[tasks[id]]
     /\ tasks' = [tasks EXCEPT ![id] = None]
     /\ posted' = [posted EXCEPT ![tasks[id]] = FALSE]
     /\ UNCHANGED <<cur, pc, main_task_awoken>>
  \/ /\ id \in Keys
     /\ tasks[id] # None
     /\ ~cancelled[tasks[id]]
     /\ StartPoll(tasks[id])
     /\ UNCHANGED <<tasks, posted, main_task_awoken>>

\* Mutant of DrainLocal: the bound is counted down and not looked at.
DrainLocalUnchecked ==
  /\ pc = "drain"
  /\ local # <<>>
  /\ nlocal' = nlocal - 1
  /\ local' = Tail(local)
  /\ Visit(Head(local))
  /\ UNCHANGED <<spawned, concurrent, base_waker, awoken, task_id, handleVars, main,
                 nconcurrent, wk, notified, userVars>>

\* Mutant of DrainLocal: the queue is drained until it is empty.
DrainLocalUntilEmpty ==
  /\ pc = "drain"
  /\ local # <<>>
  /\ nlocal' = IF nlocal > 0 THEN nlocal - 1 ELSE 0
  /\ local' = Tail(local)
  /\ Visit(Head(local))
  /\ UNCHANGED <<spawned, concurrent, base_waker, awoken, task_id, handleVars, main,
                 nconcurrent, wk, notified, userVars>>

DrainLocal ==
  /\ pc = "drain"
  /\ nlocal > 0
  /\ nlocal' = nlocal - 1
  /\ local' = Tail(local)
  /\ Visit(Head(local))
  /\ UNCHANGED <<spawned, concurrent, base_waker, awoken, task_id, handleVars, main,
                 nconcurrent, wk, notified, userVars>>

DrainConcurrent ==
  /\ pc = "drain"
  /\ nlocal = 0
  /\ nconcurrent > 0
  /\ nconcurrent' = nconcurrent - 1
  /\ concurrent' = Tail(concurrent)
  /\ Visit(Head(concurrent))
  /\ UNCHANGED <<spawned, local, base_waker, awoken, task_id, handleVars, main, nlocal,
                 wk, notified, userVars>>

\* poll_tasks returns, and the main future is polled if it was awoken.
PollMain ==
  /\ pc = "drain"
  /\ nlocal = 0 /\ nconcurrent = 0
  /\ IF main_task_awoken
       THEN StartPoll(main)
       ELSE pc' = "spawned" /\ UNCHANGED cur
  /\ main_task_awoken' = FALSE
  /\ UNCHANGED <<tasks, spawned, queueVars, task_id, handleVars, main, nlocal,
                 nconcurrent, wk, notified, posted, userVars>>

\* poll_spawned: the task on top of the stack was cancelled.
SkipSpawned ==
  /\ pc = "spawned"
  /\ spawned # <<>>
  /\ cancelled[Head(spawned)]
  /\ spawned' = Tail(spawned)
  /\ UNCHANGED <<tasks, queueVars, task_id, handleVars, pc, cur, main, drainVars,
                 wk, notified, posted, userVars>>

\* Task::from_spawned: the handle of the task gets its waker.
from_spawned(t) == handle_waker' = [handle_waker EXCEPT ![t] = TRUE]

\* Mutant of PollSpawned: a task that was cancelled meanwhile is polled.
PollSpawnedCancelled(k) ==
  /\ pc = "spawned"
  /\ spawned # <<>>
  /\ tasks[k] = None
  /\ spawned' = Tail(spawned)
  /\ waker_pair(Head(spawned), k)
  /\ from_spawned(Head(spawned))
  /\ StartPoll(Head(spawned))
  /\ UNCHANGED <<tasks, queueVars, cancelled, value, ret_waker, main, drainVars, wk,
                 notified, posted, userVars>>

\* poll_spawned: the task on top of the stack gets the vacant index k and a
\* waker, and is polled.
PollSpawned(k) ==
  /\ pc = "spawned"
  /\ spawned # <<>>
  /\ ~cancelled[Head(spawned)]
  /\ tasks[k] = None
  /\ spawned' = Tail(spawned)
  /\ waker_pair(Head(spawned), k)
  /\ from_spawned(Head(spawned))
  /\ StartPoll(Head(spawned))
  /\ UNCHANGED <<tasks, queueVars, cancelled, value, ret_waker, main, drainVars, wk,
                 notified, posted, userVars>>

\* Mutant of RunPending: poll_spawned takes one task from the stack, not all.
RunPendingEarly ==
  /\ pc = "spawned"
  /\ pc' = "idle"
  /\ UNCHANGED <<tasks, spawned, queueVars, task_id, handleVars, cur, main,
                 drainVars, wk, notified, posted, userVars>>

\* The stack is empty: run() returns Pending to block_on.
RunPending ==
  /\ pc = "spawned"
  /\ spawned = <<>>
  /\ pc' = "idle"
  /\ UNCHANGED <<tasks, spawned, queueVars, task_id, handleVars, cur, main,
                 drainVars, wk, notified, posted, userVars>>

-------------------------------------------------------------------------------

User ==
  \/ \E f \in Futures : Wake(f)
  \/ \E t \in Tasks : Spawn(t) \/ Cancel(t) \/ PollHandle(t)

Remote == \E th \in Threads :
  RemoteWake(th) \/ \E f \in Futures : RemotePost(th, f)

\* What the executor's thread does by itself once run() is polled.
Step ==
  \/ register_base_waker
  \/ DrainLengths \/ DrainLocal \/ DrainConcurrent \/ PollMain
  \/ to_sleep \/ Observe \/ Pending \/ Finish \/ Discard \/ RunReturns
  \/ SkipSpawned \/ (\E k \in Keys : PollSpawned(k)) \/ RunPending

Next ==
  \/ User
  \/ Remote
  \/ (\E m \in Mains : StartRun(m)) \/ PollRun \/ Abandon
  \/ Step

\* A wake() that was begun on another thread ends; the executor's thread runs;
\* every poll of a future ends; block_on polls run() once it is notified.
Fairness ==
  /\ \A th \in Threads : WF_vars(RemoteWake(th))
  /\ WF_vars(Step)
  /\ WF_vars(notified /\ PollRun)

Spec == Init /\ [][Next]_vars
FairSpec == Spec /\ Fairness

-------------------------------------------------------------------------------
(* Properties                                                              *)

Queue == Range(local) \cup Range(concurrent)

\* A waker that refuses further wake-ups has one under way: as long as awoken
\* is set for a live future, its index is in the queue, a thread is about to
\* push it there, or the future is about to be polled.  This must survive
\* indices that are reused by other tasks, stale wakers and polls that nobody
\* asked for.
AwokenQueued ==
  \A f \in Futures : Live(f) /\ awoken[f] =>
    \/ task_id[f] \in Queue
    \/ f = main /\ main_task_awoken
    \/ f = cur /\ pc = "poll"
    \/ \E th \in Threads : wk[th] = [at |-> "push", of |-> f]

\* When run() has returned Pending and the queue is not empty, block_on was
\* notified, or some thread is about to notify it.
QueueNotified ==
  pc = "idle" /\ Queue # {} =>
    \/ notified
    \/ \E th \in Threads : wk[th].at = "notify"
    \/ base_waker /\ \E th \in Threads : wk[th].at = "base"

\* A cancelled task that is still in the slab is awoken, so that the next
\* poll_tasks removes it; it is not forgotten there.
CancelledAwoken ==
  \A t \in Tasks : Stored(t) /\ is_cancelled(t) => awoken[t]

\* The documentation of cancel(): "Deletes the task from the executor so that it
\* won't be polled again", be it on the stack, in the slab or woken already.
CancelledNotPolled ==
  [][\A t \in Tasks : is_cancelled(t) /\ cur # t => cur' # t]_vars

\* Whoever awaits a handle is woken by the step that finishes the task: a waker
\* in ret stays there, or is replaced by a later one, until the task has finished,
\* and leaves it awoken.
AwaiterWoken ==
  [][\A t \in Tasks : ret_waker[t] # None =>
       \/ ~is_finished(t)' /\ ret_waker'[t] # None
       \/ is_finished(t)' /\ ret_waker'[t] = None /\ awoken'[ret_waker[t]]]_vars

\* The queue holds at most one index for each waker that is awoken, and, until
\* the main future is first polled, the one that reset() puts there.
QueueBounded ==
  Len(local) + Len(concurrent)
    + Cardinality({th \in Threads : wk[th].at = "push"})
    <= Cardinality({f \in Futures : awoken[f]})
         + (IF main \in Mains \ handed THEN 1 ELSE 0)

\* The queues still hold what drain_for_each has decided to take from them, so
\* that the unwrap() of pop_front() does not panic.
DrainBounded ==
  pc \in {"drain", "poll", "asleep", "polling", "ready"} =>
    nlocal <= Len(local) /\ nconcurrent <= Len(concurrent)

\* Whatever happens to a live future, it is polled again or dropped.
WakeObserved == \A f \in Futures : posted[f] ~> ~posted[f]

\* A poll of run() ends, however often tasks wake themselves or each other.
RunYields == pc = "drain" ~> pc \in {"idle", "off"}

\* The documentation of spawn(): "The provided future will run concurrently on
\* the current thread while Executor::run runs".
SpawnedPolled ==
  \A t \in Tasks :
    pc # "off" /\ t \in Range(spawned) ~> t \notin Range(spawned) \/ pc = "off"

\* The documentation of run(): "Drives the future to completion asynchronously
\* while also driving all spawned tasks".
TasksDriven ==
  \A t \in Tasks : posted[t] /\ pc # "off" ~> ~posted[t] \/ pc = "off"

\* The comment in poll_spawned: "Reborrow the spawned tasks on every iteration,
\* because the tasks themselves also need to borrow the spawned tasks."
NoPanic == pc # "panic"

\* run() sleeps when block_on has no reason to poll it again.
Sleeping ==
  /\ pc = "idle"
  /\ ~notified
  /\ \A th \in Threads : wk[th] = Idle

Cell == INSTANCE WakeCell WITH Actors <- Futures, sleeping <- Sleeping

\* The wakers that the executor hands to its futures keep the contract that
\* block_on's waker keeps towards the executor.
ImplementsWakeCell == Cell!Spec

MainCell == INSTANCE WakeCell WITH
  Actors <- Mains,
  posted <- [m \in Mains |-> posted[m]],
  sleeping <- Sleeping

\* The main future of every run() has such a waker, whatever wakers, queue
\* entries and tasks an earlier run() that was dropped has left behind.
ImplementsMainCell == MainCell!Spec

===============================================================================
