---------------------------- MODULE ExecutorProofs ----------------------------
(***************************************************************************)
(* Proofs about Executor, for any number of tasks, of main futures, of     *)
(* indices and of threads: what its variables hold, how an index in the    *)
(* queue reaches block_on, and what becomes of cancelled tasks.            *)
(***************************************************************************)
EXTENDS Executor, TLAPS

Ids == Keys \cup {MAIN_TASK_ID}

\* The states of a run() that has read the lengths of the queues.
Draining == {"drain", "poll", "asleep", "polling", "ready", "spawned", "idle"}

\* The waker of block_on was called, or a thread has taken it and is about to.
Called == notified \/ \E th \in Threads : wk[th].at = "notify"

\* A thread is about to take it.
Taking == \E th \in Threads : wk[th].at = "base"

-------------------------------------------------------------------------------
(* The invariant.  First, what the variables hold.                         *)

\* The futures that go with the places of the loop.
Loop ==
  /\ pc \in Pc
  /\ IF pc \in {"poll", "asleep", "polling", "ready"}
       THEN cur \in Tasks \cup {main}
       ELSE pc # "panic" => cur = None
  /\ pc = "ready" => cur \in Tasks
  /\ IF pc = "off" THEN main = None ELSE main \in Mains

\* What drain_for_each has still to take is in the queues.
Queues ==
  /\ local \in Seq(Ids) /\ concurrent \in Seq(Ids)
  /\ nlocal \in Nat /\ nconcurrent \in Nat
  /\ pc \in Draining => nlocal <= Len(local) /\ nconcurrent <= Len(concurrent)

\* The slab holds a task at the index that its waker has, and keeps an index
\* vacant for a task in its first poll.
Slab ==
  /\ tasks \in [Keys -> Tasks \cup {None}]
  /\ spawned \in Seq(Tasks)
  /\ task_id \in [Futures -> Ids \cup {None}]
  /\ \A t \in Tasks : task_id[t] # MAIN_TASK_ID
  /\ main # None => task_id[main] = MAIN_TASK_ID
  /\ cur # None => task_id[cur] # None
  /\ \A k \in Keys : tasks[k] # None => task_id[tasks[k]] = k
  /\ InFirstPoll => tasks[task_id[cur]] = None

\* A waker that somebody holds has an index.
Wakers ==
  /\ DOMAIN awoken = Futures /\ DOMAIN posted = Futures
  /\ DOMAIN cancelled = Tasks /\ DOMAIN handle_waker = Tasks
  /\ ret_waker \in [Tasks -> Futures \cup {None}]
  /\ handed \subseteq Futures
  /\ \A f \in handed : task_id[f] # None
  /\ \A t \in Tasks : handle_waker[t] => task_id[t] # None
  /\ \A t \in Tasks : ret_waker[t] # None => task_id[ret_waker[t]] # None
  /\ \A f \in Futures : task_id[f] = None => ~awoken[f]

\* A thread in wake() has been handed the waker.
Callers ==
  /\ wk \in [Threads -> [at : {"idle", "cas", "push", "base", "notify"},
                         of : Futures \cup {None}]]
  /\ \A th \in Threads : wk[th].at # "idle" => wk[th].of \in handed

\* poll_tasks is over before the main future or a new task is polled.
Drained ==
  pc \in {"spawned", "idle"} \/ cur = main \/ InFirstPoll =>
    nlocal = 0 /\ nconcurrent = 0 /\ ~main_task_awoken

Shape == Loop /\ Queues /\ Slab /\ Wakers /\ Callers

-------------------------------------------------------------------------------
(* Second, where the wake-ups are.                                         *)

\* base_waker holds the waker of block_on unless it was taken to be called.
Registered == pc \in Draining \cup {"len"} => base_waker \/ Called

\* Whatever is behind the part of the queues that is being drained was put
\* there after the waker was registered.
Behind ==
  pc \in Draining /\ (Len(local) > nlocal \/ Len(concurrent) > nconcurrent) =>
    Called \/ (base_waker /\ Taking)

\* A task that can be polled again can be woken by cancel(), and was if it is
\* cancelled.
CancelInv ==
  /\ \A t \in Tasks : (Stored(t) \/ cur = t) /\ ~cancelled[t] => handle_waker[t]
  /\ \A t \in Tasks : Stored(t) /\ cancelled[t] => awoken[t]
  /\ pc \in {"poll", "asleep"} /\ cur \in Tasks => ~cancelled[cur]
  /\ pc \in {"polling", "ready"} /\ cur \in Tasks /\ cancelled[cur] => awoken[cur]

-------------------------------------------------------------------------------
\* What the constants are is told apart.
LEMMA Apart ==
  /\ None \notin Tasks /\ None \notin Mains /\ None \notin Keys
  /\ MAIN_TASK_ID \notin Keys /\ MAIN_TASK_ID # None
  /\ Tasks \cap Mains = {}
BY ExecutorAssumption DEF Futures, Ids

(* Sequences                                                               *)

\* A queue after push_back.
LEMMA PushedSet ==
  ASSUME NEW S, NEW q \in Seq(S), NEW x \in S
  PROVE  /\ Append(q, x) \in Seq(S)
         /\ Len(Append(q, x)) = Len(q) + 1
         /\ Range(Append(q, x)) = Range(q) \cup {x}
<1>1. /\ Append(q, x) \in Seq(S) /\ Len(Append(q, x)) = Len(q) + 1
      /\ \A i \in 1..Len(q) : Append(q, x)[i] = q[i]
      /\ Append(q, x)[Len(q) + 1] = x
  OBVIOUS
<1>2. DOMAIN Append(q, x) = 1..(Len(q) + 1) /\ DOMAIN q = 1..Len(q)
  BY <1>1
<1> QED
  BY <1>1, <1>2 DEF Range

\* A queue after pop_front.
LEMMA PoppedSet ==
  ASSUME NEW S, NEW q \in Seq(S), Len(q) > 0
  PROVE  /\ Head(q) \in S
         /\ Tail(q) \in Seq(S)
         /\ Len(Tail(q)) = Len(q) - 1
         /\ Range(q) = Range(Tail(q)) \cup {Head(q)}
<1>1. /\ Head(q) \in S /\ Tail(q) \in Seq(S) /\ Len(Tail(q)) = Len(q) - 1
      /\ Head(q) = q[1]
      /\ \A i \in 1..(Len(q) - 1) : Tail(q)[i] = q[i + 1]
  OBVIOUS
<1>2. DOMAIN Tail(q) = 1..(Len(q) - 1) /\ DOMAIN q = 1..Len(q)
  BY <1>1
<1>3. ASSUME NEW x \in Range(q) PROVE x = Head(q) \/ x \in Range(Tail(q))
  <2>1. PICK i \in 1..Len(q) : q[i] = x
    BY <1>2, <1>3 DEF Range
  <2>2. CASE i = 1
    BY <1>1, <2>1, <2>2
  <2>3. CASE i # 1
    <3>1. i - 1 \in DOMAIN Tail(q) /\ i = (i - 1) + 1
      BY <1>2, <2>1, <2>3
    <3>2. Tail(q)[i - 1] = x
      BY <1>1, <1>2, <2>1, <3>1
    <3> QED
      BY <3>1, <3>2, Zenon DEF Range
  <2> QED
    BY <2>2, <2>3
<1>4. Range(Tail(q)) \subseteq Range(q) /\ Head(q) \in Range(q)
  BY <1>1, <1>2 DEF Range
<1> QED
  BY <1>1, <1>3, <1>4

\* What poll_spawned pops is a task.
LEMMA SpawnedTop ==
  ASSUME Slab, spawned # <<>>
  PROVE  Head(spawned) \in Tasks /\ Tail(spawned) \in Seq(Tasks)
BY DEF Slab

-------------------------------------------------------------------------------
(* Calls of wake() by the executor's thread                                *)

\* Such a call sets awoken, and pushes the index unless it was set already.
LEMMA LocalWakeDoes ==
  ASSUME Wakers, NEW f \in Futures, LocalWake(f)
  PROVE  /\ DOMAIN awoken' = Futures
         /\ \A g \in Futures : awoken'[g] <=> g = f \/ awoken[g]
         /\ concurrent' = concurrent
         /\ \/ awoken[f] /\ UNCHANGED <<local, base_waker, notified>>
            \/ /\ local' = Append(local, task_id[f])
               /\ base_waker' = FALSE /\ notified' = (notified \/ base_waker)
<1>1. CASE awoken[f]
  BY <1>1 DEF LocalWake, queueVars, Wakers
<1>2. CASE ~awoken[f]
  BY <1>2 DEF LocalWake, BaseWake, Wakers
<1> QED
  BY <1>1, <1>2, Zenon

\* Wake, Cancel and Finish wake one future, which has its waker, or none.
Wakes ==
  \/ UNCHANGED <<posted, queueVars, notified>>
  \/ \E f \in Futures : task_id[f] # None /\ Happen(f) /\ LocalWake(f)

\* The waker that Wake calls was handed out.
LEMMA WakeWakes ==
  ASSUME Wakers, NEW f \in Futures, Wake(f)
  PROVE  Wakes
BY DEF Wakers, Wake, Wakes

\* cancel() wakes the waker in handle_data, if there is one.
LEMMA CancelWakes ==
  ASSUME Wakers, NEW t \in Tasks, Cancel(t)
  PROVE  Wakes
BY DEF Wakers, Cancel, Wakes, Futures

\* The end of a task wakes the waker in ret, if there is one.
LEMMA FinishWakes ==
  ASSUME Wakers, Finish
  PROVE  Wakes
BY DEF Wakers, Finish, Wakes

-------------------------------------------------------------------------------
(* What the variables hold                                                 *)

\* Every step keeps track of the future that is polled.
LEMMA LoopNext == Loop /\ Slab /\ [Next]_vars => Loop'
<1> SUFFICES ASSUME Loop, Slab, [Next]_vars PROVE Loop'
  OBVIOUS
<1>1. CASE UNCHANGED <<pc, cur, main>>
  BY <1>1 DEF Loop, Pc
<1>2. ASSUME NEW t \in Tasks, Spawn(t) PROVE Loop'
  BY <1>2 DEF Spawn, Loop, Pc
<1>3. ASSUME NEW m \in Mains, StartRun(m) PROVE Loop'
  BY <1>3, Apart DEF StartRun, waker_pair, reset, Loop, Pc
<1>4. CASE PollRun \/ register_base_waker
  BY <1>4 DEF PollRun, register_base_waker, Loop, Pc
<1>5. CASE Abandon
  BY <1>5 DEF Abandon, Loop, Pc
<1>6. CASE DrainLengths
  BY <1>6 DEF DrainLengths, Loop, Pc
<1>7. CASE DrainLocal
  BY <1>7 DEF DrainLocal, Visit, StartPoll, Loop, Pc, Slab
<1>8. CASE DrainConcurrent
  BY <1>8 DEF DrainConcurrent, Visit, StartPoll, Loop, Pc, Slab
<1>9. CASE PollMain
  BY <1>9, Apart DEF PollMain, StartPoll, Loop, Pc
<1>10. CASE to_sleep
  BY <1>10 DEF to_sleep, Loop, Pc
<1>11. CASE Observe
  BY <1>11 DEF Observe, Loop, Pc
<1>12. CASE Pending
  BY <1>12, Apart DEF Pending, Loop, Pc
<1>13. CASE Finish
  BY <1>13 DEF Finish, Loop, Pc
<1>14. CASE Discard
  BY <1>14 DEF Discard, Loop, Pc
<1>15. CASE RunReturns
  BY <1>15 DEF RunReturns, Loop, Pc
<1>16. ASSUME NEW k \in Keys, PollSpawned(k) PROVE Loop'
  BY <1>16, SpawnedTop, Apart DEF PollSpawned, waker_pair, from_spawned,
         StartPoll, Loop, Pc
<1>17. CASE RunPending
  BY <1>17 DEF RunPending, Loop, Pc
<1> QED
  BY <1>1, <1>2, <1>3, <1>4, <1>5, <1>6, <1>7, <1>8, <1>9, <1>10, <1>11, <1>12,
     <1>13, <1>14, <1>15, <1>16, <1>17
  DEF Next, User, Remote, RemoteWake, Step, Wake, Cancel, PollHandle,
      RemotePost, RemoteCas, RemotePush, RemoteTake, RemoteNotify, SkipSpawned,
      vars

\* What is pushed is an index, and nothing is taken.
LEMMA QueuesWakes ==
  ASSUME Queues, Slab, Wakers, Wakes, UNCHANGED <<nlocal, nconcurrent>>,
         pc' \in Draining => pc \in Draining
  PROVE  Queues'
<1>1. CASE UNCHANGED queueVars
  BY <1>1 DEF Queues, queueVars
<1>2. ASSUME NEW f \in Futures, task_id[f] # None, LocalWake(f) PROVE Queues'
  <2>1. task_id[f] \in Ids
    BY <1>2 DEF Slab
  <2>2. /\ Append(local, task_id[f]) \in Seq(Ids)
        /\ Len(Append(local, task_id[f])) = Len(local) + 1
    BY <2>1, PushedSet DEF Queues
  <2>3. concurrent' = concurrent /\ local' \in {local, Append(local, task_id[f])}
    BY <1>2, LocalWakeDoes, Zenon
  <2> QED
    BY <2>2, <2>3 DEF Queues
<1> QED
  BY <1>1, <1>2 DEF Wakes

\* The queues only grow while they are drained.
LEMMA QueuesNext == Loop /\ Queues /\ Slab /\ Wakers /\ Callers /\ [Next]_vars
  => Queues'
<1> SUFFICES ASSUME Loop, Queues, Slab, Wakers, Callers, [Next]_vars PROVE
    Queues'
  OBVIOUS
<1>1. CASE UNCHANGED <<pc, local, concurrent, nlocal, nconcurrent>>
  BY <1>1 DEF Queues, Draining
<1>2. ASSUME NEW f \in Futures, Wake(f) PROVE Queues'
  BY <1>2, QueuesWakes, WakeWakes DEF Wake, drainVars, Draining
<1>3. ASSUME NEW t \in Tasks, Spawn(t) PROVE Queues'
  BY <1>3 DEF Spawn, Queues, Draining, queueVars, drainVars
<1>4. ASSUME NEW t \in Tasks, Cancel(t) PROVE Queues'
  BY <1>4, QueuesWakes, CancelWakes, Zenon DEF Cancel, drainVars, Draining
<1>5. ASSUME NEW th \in Threads, RemotePush(th) PROVE Queues'
  <2>1. task_id[wk[th].of] \in Ids
    BY <1>5 DEF RemotePush, Slab, Wakers, Callers
  <2>2. /\ Append(concurrent, task_id[wk[th].of]) \in Seq(Ids)
        /\ Len(Append(concurrent, task_id[wk[th].of])) = Len(concurrent) + 1
    BY <2>1, PushedSet DEF Queues
  <2> QED
    BY <1>5, <2>2 DEF RemotePush, Queues, Draining, queueVars, drainVars
<1>6. ASSUME NEW m \in Mains, StartRun(m) PROVE Queues'
  BY <1>6 DEF StartRun, waker_pair, reset, Queues,
      Draining, queueVars, drainVars, Ids
<1>7. CASE PollRun \/ register_base_waker
  BY <1>7 DEF PollRun, register_base_waker, Queues, Draining, queueVars,
         drainVars
<1>8. CASE Abandon
  BY <1>8 DEF Abandon, Queues, Draining, queueVars, drainVars
<1>9. CASE DrainLengths
  BY <1>9 DEF DrainLengths, Queues, Draining, queueVars, drainVars
<1>10. CASE DrainLocal
  <2>1. /\ Tail(local) \in Seq(Ids)
        /\ Len(Tail(local)) = Len(local) - 1
    BY <1>10, PoppedSet DEF DrainLocal, Queues, Draining
  <2> QED
    BY <1>10, <2>1 DEF DrainLocal, Visit, StartPoll, Queues, Draining
<1>11. CASE DrainConcurrent
  <2>1. /\ Tail(concurrent) \in Seq(Ids)
        /\ Len(Tail(concurrent)) = Len(concurrent) - 1
    BY <1>11, PoppedSet DEF DrainConcurrent, Queues, Draining
  <2> QED
    BY <1>11, <2>1 DEF DrainConcurrent, Visit, StartPoll, Queues, Draining
<1>12. CASE PollMain
  BY <1>12 DEF PollMain, StartPoll, Queues, Draining, queueVars, drainVars
<1>13. CASE to_sleep
  BY <1>13 DEF to_sleep, Queues, Draining, queueVars, drainVars
<1>14. CASE Observe
  BY <1>14 DEF Observe, Queues, Draining, queueVars, drainVars
<1>15. CASE Pending
  BY <1>15 DEF Pending, Queues, Draining, queueVars, drainVars
<1>16. CASE Finish
  BY <1>16, QueuesWakes, FinishWakes DEF Finish, drainVars, Draining
<1>17. CASE Discard
  BY <1>17 DEF Discard, Queues, Draining, queueVars, drainVars
<1>18. CASE RunReturns
  BY <1>18 DEF RunReturns, Queues, Draining, queueVars, drainVars
<1>19. ASSUME NEW k \in Keys, PollSpawned(k) PROVE Queues'
  BY <1>19 DEF PollSpawned, waker_pair, from_spawned, StartPoll, Queues,
         Draining, queueVars, drainVars
<1>20. CASE RunPending
  BY <1>20 DEF RunPending, Queues, Draining, queueVars, drainVars
<1> QED
  BY <1>1, <1>2, <1>3, <1>4, <1>5, <1>6, <1>7, <1>8, <1>9, <1>10, <1>11, <1>12,
     <1>13, <1>14, <1>15, <1>16, <1>17, <1>18, <1>19, <1>20
  DEF Next, User, Remote, RemoteWake, Step, PollHandle, RemotePost, RemoteCas,
      RemoteTake, RemoteNotify, SkipSpawned, vars, queueVars, drainVars

\* The slab agrees with the wakers, although indices are reused.
LEMMA SlabNext == Loop /\ Slab /\ [Next]_vars => Slab'
<1> SUFFICES ASSUME Loop, Slab, [Next]_vars PROVE Slab'
  OBVIOUS
<1>1. CASE UNCHANGED <<tasks, spawned, task_id, cur, main>>
  BY <1>1 DEF Slab, InFirstPoll, Stored
<1>2. ASSUME NEW t \in Tasks, Spawn(t) PROVE Slab'
  <2>1. <<t>> \o spawned \in Seq(Tasks)
    BY DEF Slab
  <2> QED
    BY <1>2, <2>1, Zenon DEF Spawn, Loop, Slab, InFirstPoll, Stored
<1>3. ASSUME NEW m \in Mains, StartRun(m) PROVE Slab'
  BY <1>3, Apart DEF StartRun, waker_pair, reset, Loop,
         Slab, InFirstPoll, Stored, Futures, Ids
<1>4. CASE Abandon
  BY <1>4 DEF Abandon, Loop, Slab, InFirstPoll, Stored
<1>5. CASE DrainLocal
  BY <1>5, Apart DEF DrainLocal, Visit, StartPoll, Loop, Slab, InFirstPoll,
         Stored
<1>6. CASE DrainConcurrent
  BY <1>6, Apart, SMTT(30) DEF DrainConcurrent, Visit, StartPoll, Loop, Slab,
         InFirstPoll, Stored
<1>7. CASE PollMain
  BY <1>7, Apart DEF PollMain, StartPoll, Loop, Slab, InFirstPoll, Stored
<1>8. CASE Pending
  BY <1>8, Apart, Zenon DEF Pending, Loop, Slab, InFirstPoll, Stored
<1>9. CASE Discard
  BY <1>9, Apart DEF Discard, Loop, Slab, InFirstPoll, Stored
<1>10. CASE RunReturns
  BY <1>10, Apart DEF RunReturns, Loop, Slab, InFirstPoll, Stored
<1>11. CASE SkipSpawned
  BY <1>11, SpawnedTop DEF SkipSpawned, Loop, Slab, InFirstPoll, Stored
<1>12. ASSUME NEW k \in Keys, PollSpawned(k) PROVE Slab'
  BY <1>12, SpawnedTop, Apart DEF PollSpawned, waker_pair, from_spawned,
         StartPoll, Loop, Slab, InFirstPoll, Stored, Futures, Ids
<1> QED
  BY <1>1, <1>2, <1>3, <1>4, <1>5, <1>6, <1>7, <1>8, <1>9, <1>10, <1>11, <1>12
  DEF Next, User, Remote, RemoteWake, Step, Wake, Cancel, PollHandle,
      RemotePost, RemoteCas, RemotePush, RemoteTake, RemoteNotify, PollRun,
      register_base_waker,
      DrainLengths, to_sleep, Observe, Finish, RunPending, vars

\* Only a waker that has an index gets awoken.
LEMMA WakersWakes ==
  ASSUME Wakers, Wakes, UNCHANGED <<task_id, cancelled, handle_waker,
                                   ret_waker, handed>>
  PROVE  Wakers'
<1>1. CASE UNCHANGED <<posted, queueVars>>
  BY <1>1 DEF Wakers, queueVars
<1>2. ASSUME NEW f \in Futures, task_id[f] # None, LocalWake(f), Happen(f)
      PROVE  Wakers'
  <2>1. /\ DOMAIN awoken' = Futures
        /\ \A g \in Futures : awoken'[g] <=> g = f \/ awoken[g]
    BY <1>2, LocalWakeDoes, Zenon
  <2> QED
    BY <1>2, <2>1 DEF Wakers, Happen
<1> QED
  BY <1>1, <1>2 DEF Wakes

\* Whatever waker is handed out has an index.
LEMMA WakersNext == Loop /\ Slab /\ Wakers /\ Callers /\ [Next]_vars => Wakers'
<1> SUFFICES ASSUME Loop, Slab, Wakers, Callers, [Next]_vars PROVE Wakers'
  OBVIOUS
<1>1. CASE UNCHANGED <<awoken, posted, cancelled, handle_waker, ret_waker,
         handed, task_id>>
  BY <1>1 DEF Wakers
<1>2. ASSUME NEW f \in Futures, Wake(f) PROVE Wakers'
  BY <1>2, WakersWakes, WakeWakes DEF Wake, handleVars, userVars
<1>3. ASSUME NEW t \in Tasks, Cancel(t) PROVE Wakers'
  <2>1. CASE handle_waker[t]
    BY <1>3, <2>1, LocalWakeDoes, Zenon
    DEF Cancel, Happen, Wakers, Futures, userVars
  <2>2. CASE ~handle_waker[t]
    BY <1>3, <2>2 DEF Cancel, Wakers, queueVars, userVars
  <2> QED
    BY <2>1, <2>2
<1>4. ASSUME NEW t \in Tasks, PollHandle(t) PROVE Wakers'
  BY <1>4, Apart DEF PollHandle, Wakers, Loop, Slab, Futures, queueVars,
         handleVars, userVars
<1>5. ASSUME NEW th \in Threads, NEW f \in Futures, RemotePost(th, f) PROVE
      Wakers'
  BY <1>5 DEF RemotePost, Wakers, Happen, queueVars, handleVars, userVars
<1>6. ASSUME NEW th \in Threads, RemoteCas(th) PROVE Wakers'
  BY <1>6 DEF RemoteCas, Wakers, Callers, queueVars, handleVars, userVars
<1>7. ASSUME NEW m \in Mains, StartRun(m) PROVE Wakers'
  BY <1>7, Apart DEF StartRun, waker_pair, reset, Wakers,
         Slab, Futures, queueVars, handleVars, userVars
<1>8. CASE Abandon
  BY <1>8 DEF Abandon, Wakers, queueVars, handleVars, userVars
<1>9. CASE DrainLocal
  BY <1>9 DEF DrainLocal, Visit, StartPoll, Wakers, queueVars, handleVars,
         userVars
<1>10. CASE DrainConcurrent
  BY <1>10 DEF DrainConcurrent, Visit, StartPoll, Wakers, queueVars,
         handleVars, userVars
<1>11. CASE to_sleep
  BY <1>11 DEF to_sleep, Wakers, Loop, queueVars, handleVars, userVars
<1>12. CASE Observe
  BY <1>12, Apart DEF Observe, Wakers, Loop, Slab, Futures, queueVars,
         handleVars, userVars
<1>13. CASE Finish
  <2>1. CASE ret_waker[cur] # None
    BY <1>13, <2>1, LocalWakeDoes, Zenon DEF Finish, Happen, Wakers, userVars
  <2>2. CASE ret_waker[cur] = None
    BY <1>13, <2>2 DEF Finish, Wakers, queueVars, userVars
  <2> QED
    BY <2>1, <2>2
<1>14. CASE Discard
  BY <1>14, Zenon DEF Discard, Wakers, queueVars, handleVars, userVars
<1>15. CASE RunReturns
  BY <1>15 DEF RunReturns, Wakers, queueVars, handleVars, userVars
<1>16. ASSUME NEW k \in Keys, PollSpawned(k) PROVE Wakers'
  BY <1>16, SpawnedTop, Apart DEF PollSpawned, waker_pair, from_spawned,
         StartPoll, Wakers, Slab, Futures, queueVars, handleVars, userVars
<1> QED
  BY <1>1, <1>2, <1>3, <1>4, <1>5, <1>6, <1>7, <1>8, <1>9, <1>10, <1>11, <1>12,
     <1>13, <1>14, <1>15, <1>16, Zenon
  DEF Next, User, Remote, RemoteWake, Step, Spawn, RemotePush, RemoteTake,
      RemoteNotify, PollRun, register_base_waker, DrainLengths, PollMain, Pending,
      SkipSpawned,
      RunPending, vars, queueVars, handleVars, userVars

\* A thread calls a waker that a future has handed out.
LEMMA CallersNext == Callers /\ [Next]_vars => Callers'
<1> SUFFICES ASSUME Callers, [Next]_vars PROVE Callers'
  OBVIOUS
<1>1. CASE UNCHANGED <<wk, handed>>
  BY <1>1 DEF Callers
<1>2. ASSUME NEW th \in Threads, NEW f \in Futures, RemotePost(th, f) PROVE
      Callers'
  BY <1>2 DEF RemotePost, Callers, Idle, userVars
<1>3. ASSUME NEW th \in Threads, RemoteCas(th) PROVE Callers'
  BY <1>3 DEF RemoteCas, Callers, Idle, userVars
<1>4. ASSUME NEW th \in Threads, RemotePush(th) PROVE Callers'
  <2>1. [wk[th] EXCEPT !.at = "base"] \in [at : {"idle", "cas", "push", "base", "notify"},
                                       of : Futures \cup {None}]
    BY DEF Callers
  <2>2. wk' = [wk EXCEPT ![th] = [wk[th] EXCEPT !.at = "base"]]
    BY <1>4 DEF RemotePush
  <2> QED
    BY <1>4, <2>1, <2>2 DEF RemotePush, Callers, userVars
<1>5. ASSUME NEW th \in Threads, RemoteTake(th) PROVE Callers'
  BY <1>5 DEF RemoteTake, Callers, Idle, userVars
<1>6. ASSUME NEW th \in Threads, RemoteNotify(th) PROVE Callers'
  BY <1>6 DEF RemoteNotify, Callers, Idle, userVars
<1>7. CASE Observe
  BY <1>7 DEF Observe, Callers, userVars
<1> QED
  BY <1>1, <1>2, <1>3, <1>4, <1>5, <1>6, <1>7, Zenon
  DEF Next, User, Remote, RemoteWake, Step, Wake, Spawn, Cancel, PollHandle,
      StartRun, PollRun, register_base_waker, Abandon, DrainLengths, DrainLocal,
      DrainConcurrent,
      PollMain, to_sleep, Pending, Finish, Discard, RunReturns, SkipSpawned,
      PollSpawned, RunPending, vars, userVars

\* The queue is drained before anything but the tasks in it is polled.
LEMMA DrainedNext == Loop /\ Slab /\ Drained /\ [Next]_vars => Drained'
<1> SUFFICES ASSUME Loop, Slab, Drained, [Next]_vars PROVE Drained'
  OBVIOUS
<1>1. CASE UNCHANGED <<pc, cur, main, tasks, task_id, nlocal, nconcurrent,
         main_task_awoken>>
  BY <1>1 DEF Drained, InFirstPoll, Stored
<1>2. ASSUME NEW t \in Tasks, Spawn(t) PROVE Drained'
  BY <1>2 DEF Spawn, Drained, Loop, InFirstPoll, Stored, drainVars
<1>3. ASSUME NEW m \in Mains, StartRun(m) PROVE Drained'
  BY <1>3, Apart DEF StartRun, waker_pair, reset, Drained,
         Loop, InFirstPoll, Stored, drainVars
<1>4. CASE PollRun \/ register_base_waker
  BY <1>4 DEF PollRun, register_base_waker, Drained, Loop, InFirstPoll, Stored,
         drainVars
<1>5. CASE Abandon
  BY <1>5 DEF Abandon, Drained, Loop, InFirstPoll, Stored, drainVars
<1>6. CASE DrainLengths
  BY <1>6, Apart DEF DrainLengths, Drained, Loop, InFirstPoll, Stored,
         drainVars
<1>7. CASE DrainLocal
  BY <1>7, Apart DEF DrainLocal, Visit, StartPoll, Drained, Loop, InFirstPoll,
         Stored, Slab, drainVars
<1>8. CASE DrainConcurrent
  BY <1>8, Apart, SMTT(30) DEF DrainConcurrent, Visit, StartPoll, Drained, Loop,
         InFirstPoll, Stored, Slab, drainVars
<1>9. CASE PollMain
  BY <1>9, Apart DEF PollMain, StartPoll, Drained, Loop, InFirstPoll, Stored,
         drainVars
<1>10. CASE to_sleep
  BY <1>10 DEF to_sleep, Drained, Loop, InFirstPoll, Stored, drainVars
<1>11. CASE Observe
  BY <1>11 DEF Observe, Drained, Loop, InFirstPoll, Stored, drainVars
<1>12. CASE Pending
  BY <1>12, Apart DEF Pending, Drained, Loop, InFirstPoll, Stored, Slab,
         drainVars
<1>13. CASE Finish
  BY <1>13 DEF Finish, Drained, Loop, InFirstPoll, Stored, drainVars
<1>14. CASE Discard
  BY <1>14, Apart DEF Discard, Drained, Loop, InFirstPoll, Stored, Slab,
         drainVars
<1>15. CASE RunReturns
  BY <1>15, Apart DEF RunReturns, Drained, Loop, InFirstPoll, Stored, drainVars
<1>16. ASSUME NEW k \in Keys, PollSpawned(k) PROVE Drained'
  BY <1>16, SpawnedTop, Apart DEF PollSpawned, waker_pair, from_spawned,
         StartPoll, Drained, Loop, InFirstPoll, Stored, Slab, drainVars
<1>17. CASE RunPending
  BY <1>17, Zenon DEF RunPending, Drained, Loop, InFirstPoll, Stored, drainVars
<1> QED
  BY <1>1, <1>2, <1>3, <1>4, <1>5, <1>6, <1>7, <1>8, <1>9, <1>10, <1>11, <1>12,
     <1>13, <1>14, <1>15, <1>16, <1>17
  DEF Next, User, Remote, RemoteWake, Step, Wake, Cancel, PollHandle,
      RemotePost, RemoteCas, RemotePush, RemoteTake, RemoteNotify, SkipSpawned,
      vars, drainVars

\* All of it holds before the first run().
LEMMA ShapeInit == Init => Shape /\ Drained
<1> SUFFICES ASSUME Init PROVE Shape /\ Drained
  OBVIOUS
<1> USE Apart DEF Init, NewExecutor, NewWakeQueue
<1>1. Loop
  BY DEF Loop, Pc
<1>2. Queues
  BY DEF Queues, Draining
<1>3. Slab
  BY DEF Slab, InFirstPoll, Ids, Futures
<1>4. Wakers
  BY DEF Wakers
<1>5. Callers
  BY DEF Callers, Idle
<1>6. Drained
  BY DEF Drained
<1> QED
  BY <1>1, <1>2, <1>3, <1>4, <1>5, <1>6 DEF Shape

-------------------------------------------------------------------------------
(* From the queue to block_on                                              *)

\* base_waker is taken only to be called.
LEMMA RegisteredWakes ==
  ASSUME Wakers, Registered, Wakes, wk' = wk,
         pc' \in Draining \cup {"len"} => pc \in Draining \cup {"len"}
  PROVE  Registered'
<1>1. CASE UNCHANGED <<queueVars, notified>>
  BY <1>1 DEF Registered, Called, queueVars
<1>2. ASSUME NEW f \in Futures, LocalWake(f) PROVE Registered'
  <2>1. \/ UNCHANGED <<base_waker, notified>>
        \/ notified' = (notified \/ base_waker)
    BY <1>2, LocalWakeDoes, Zenon
  <2> QED
    BY <2>1, Zenon DEF Registered, Called
<1> QED
  BY <1>1, <1>2 DEF Wakes

\* The waker of block_on leaves base_waker only to be called.
LEMMA RegisteredNext == Loop /\ Wakers /\ Callers /\ Registered /\ [Next]_vars
  => Registered'
<1> SUFFICES ASSUME Loop, Wakers, Callers, Registered, [Next]_vars PROVE
    Registered'
  OBVIOUS
<1>1. CASE UNCHANGED <<pc, base_waker, notified, wk>>
  BY <1>1 DEF Registered, Called
<1>2. ASSUME NEW f \in Futures, Wake(f) PROVE Registered'
  BY <1>2, RegisteredWakes, WakeWakes DEF Wake, drainVars, Draining
<1>3. ASSUME NEW t \in Tasks, Spawn(t) PROVE Registered'
  BY <1>3 DEF Spawn, Registered, Draining, Called, queueVars
<1>4. ASSUME NEW t \in Tasks, Cancel(t) PROVE Registered'
  BY <1>4, RegisteredWakes, CancelWakes, Zenon DEF Cancel, drainVars, Draining
<1>5. ASSUME NEW th \in Threads, NEW f \in Futures, RemotePost(th, f) PROVE
      Registered'
  BY <1>5 DEF RemotePost, Registered, Draining, Called, Callers, Idle,
         queueVars
<1>6. ASSUME NEW th \in Threads, RemoteCas(th) PROVE Registered'
  BY <1>6 DEF RemoteCas, Registered, Draining, Called, Callers, queueVars
<1>7. ASSUME NEW th \in Threads, RemotePush(th) PROVE Registered'
  BY <1>7 DEF RemotePush, Registered, Draining, Called, Callers, queueVars
<1>8. ASSUME NEW th \in Threads, RemoteTake(th) PROVE Registered'
  BY <1>8 DEF RemoteTake, Registered, Draining, Called, Callers, queueVars
<1>9. ASSUME NEW th \in Threads, RemoteNotify(th) PROVE Registered'
  BY <1>9 DEF RemoteNotify, Registered, Called
<1>10. ASSUME NEW m \in Mains, StartRun(m) PROVE Registered'
  BY <1>10 DEF StartRun, waker_pair, reset, Registered,
         Draining, Called, queueVars
<1>11. CASE PollRun \/ register_base_waker
  BY <1>11 DEF PollRun, register_base_waker, Registered, Draining, Called,
         queueVars
<1>12. CASE Abandon
  BY <1>12 DEF Abandon, Registered, Draining, Called, queueVars
<1>13. CASE DrainLengths
  BY <1>13 DEF DrainLengths, Registered, Draining, Called, queueVars
<1>14. CASE DrainLocal
  BY <1>14 DEF DrainLocal, Visit, StartPoll, Registered, Draining, Called,
         queueVars
<1>15. CASE DrainConcurrent
  BY <1>15, SMTT(30) DEF DrainConcurrent, Visit, StartPoll, Registered, Draining, Called,
         queueVars
<1>16. CASE PollMain
  BY <1>16 DEF PollMain, StartPoll, Registered, Draining, Called, queueVars
<1>17. CASE to_sleep
  BY <1>17 DEF to_sleep, Registered, Draining, Called, queueVars
<1>18. CASE Observe
  BY <1>18 DEF Observe, Registered, Draining, Called, queueVars
<1>19. CASE Pending
  BY <1>19 DEF Pending, Registered, Draining, Called, queueVars
<1>20. CASE Finish
  BY <1>20, RegisteredWakes, FinishWakes DEF Finish, drainVars, Draining
<1>21. CASE Discard
  BY <1>21 DEF Discard, Registered, Draining, Called, queueVars
<1>22. CASE RunReturns
  BY <1>22 DEF RunReturns, Registered, Draining, Called, queueVars
<1>23. ASSUME NEW k \in Keys, PollSpawned(k) PROVE Registered'
  BY <1>23 DEF PollSpawned, waker_pair, from_spawned, StartPoll, Registered,
         Draining, Called, queueVars
<1>24. CASE RunPending
  BY <1>24 DEF RunPending, Registered, Draining, Called, queueVars
<1> QED
  BY <1>1, <1>2, <1>3, <1>4, <1>5, <1>6, <1>7, <1>8, <1>9, <1>10, <1>11, <1>12,
     <1>13, <1>14, <1>15, <1>16, <1>17, <1>18, <1>19, <1>20, <1>21, <1>22,
     <1>23, <1>24
  DEF Next, User, Remote, RemoteWake, Step, PollHandle, SkipSpawned, vars,
      queueVars

\* What the executor's thread pushes, it announces to block_on.
LEMMA BehindWakes ==
  ASSUME Queues, Slab, Wakers, Registered, Behind, Wakes,
         UNCHANGED <<wk, nlocal, nconcurrent>>, pc' \in Draining => pc \in Draining
  PROVE  Behind'
<1>1. CASE UNCHANGED <<queueVars, notified>>
  BY <1>1 DEF Behind, Called, Taking, queueVars
<1>2. ASSUME NEW f \in Futures, LocalWake(f) PROVE Behind'
  <2>1. CASE UNCHANGED <<local, concurrent, base_waker, notified>>
    BY <2>1 DEF Behind, Called, Taking
  <2>2. CASE notified' = (notified \/ base_waker)
    BY <2>2, Zenon DEF Behind, Registered, Called
  <2> QED
    BY <1>2, <2>1, <2>2, LocalWakeDoes, Zenon
<1> QED
  BY <1>1, <1>2 DEF Wakes

\* A push comes before the call of the waker that was registered before the
\* queues were read.
LEMMA BehindNext == Loop /\ Queues /\ Slab /\ Wakers /\ Callers /\ Drained /\
  Registered /\ Behind /\ [Next]_vars => Behind'
<1> SUFFICES ASSUME Loop, Queues, Slab, Wakers, Callers, Drained, Registered,
    Behind, [Next]_vars PROVE Behind'
  OBVIOUS
<1>1. CASE UNCHANGED <<pc, base_waker, notified, wk, local, concurrent, nlocal,
         nconcurrent>>
  BY <1>1 DEF Behind, Called, Taking
<1>2. ASSUME NEW f \in Futures, Wake(f) PROVE Behind'
  BY <1>2, BehindWakes, WakeWakes DEF Wake, drainVars, Draining
<1>3. ASSUME NEW t \in Tasks, Spawn(t) PROVE Behind'
  BY <1>3 DEF Spawn, Behind, Draining, Called, Taking, queueVars, drainVars
<1>4. ASSUME NEW t \in Tasks, Cancel(t) PROVE Behind'
  BY <1>4, BehindWakes, CancelWakes, Zenon DEF Cancel, drainVars, Draining
<1>5. ASSUME NEW th \in Threads, NEW f \in Futures, RemotePost(th, f) PROVE
      Behind'
  BY <1>5 DEF RemotePost, Behind, Draining, Called, Taking, Callers, Idle,
         queueVars, drainVars
<1>6. ASSUME NEW th \in Threads, RemoteCas(th) PROVE Behind'
  BY <1>6 DEF RemoteCas, Behind, Draining, Called, Taking, Callers, queueVars,
         drainVars
<1>7. ASSUME NEW th \in Threads, RemotePush(th) PROVE Behind'
  BY <1>7 DEF RemotePush, Behind, Draining, Called, Taking, Callers,
         Registered, queueVars, drainVars
<1>8. ASSUME NEW th \in Threads, RemoteTake(th) PROVE Behind'
  BY <1>8 DEF RemoteTake, Behind, Draining, Called, Taking, Callers,
         Registered, queueVars, drainVars
<1>9. ASSUME NEW th \in Threads, RemoteNotify(th) PROVE Behind'
  BY <1>9 DEF RemoteNotify, Behind, Called
<1>10. ASSUME NEW m \in Mains, StartRun(m) PROVE Behind'
  BY <1>10 DEF StartRun, Behind, Draining
<1>11. CASE PollRun \/ register_base_waker
  BY <1>11 DEF PollRun, register_base_waker, Behind, Draining
<1>12. CASE Abandon
  BY <1>12 DEF Abandon, Behind, Draining, Called, Taking, queueVars, drainVars
<1>13. CASE DrainLengths
  BY <1>13 DEF DrainLengths, Behind, Draining, Called, Taking, Queues,
         queueVars, drainVars
<1>14. CASE DrainLocal
  <2>1. Len(Tail(local)) = Len(local) - 1
    BY <1>14, PoppedSet DEF DrainLocal, Queues, Draining
  <2> QED
    BY <1>14, <2>1
    DEF DrainLocal, Visit, StartPoll, Queues, Behind, Draining, Called, Taking
<1>15. CASE DrainConcurrent
  <2>1. Len(Tail(concurrent)) = Len(concurrent) - 1
    BY <1>15, PoppedSet DEF DrainConcurrent, Queues, Draining
  <2> QED
    BY <1>15, <2>1 DEF DrainConcurrent, Visit, StartPoll, Queues, Behind,
        Draining, Called, Taking
<1>16. CASE PollMain
  BY <1>16 DEF PollMain, StartPoll, Behind, Draining, Called, Taking,
         queueVars, drainVars
<1>17. CASE to_sleep
  BY <1>17 DEF to_sleep, Behind, Draining, Called, Taking, queueVars, drainVars
<1>18. CASE Observe
  BY <1>18 DEF Observe, Behind, Draining, Called, Taking, queueVars, drainVars
<1>19. CASE Pending
  BY <1>19 DEF Pending, Behind, Draining, Called, Taking, queueVars, drainVars
<1>20. CASE Finish
  BY <1>20, BehindWakes, FinishWakes DEF Finish, drainVars, Draining
<1>21. CASE Discard
  BY <1>21 DEF Discard, Behind, Draining, Called, Taking, queueVars, drainVars
<1>22. CASE RunReturns
  BY <1>22 DEF RunReturns, Behind, Draining, Called, Taking, queueVars,
         drainVars
<1>23. ASSUME NEW k \in Keys, PollSpawned(k) PROVE Behind'
  BY <1>23 DEF PollSpawned, waker_pair, from_spawned, StartPoll, Behind,
         Draining, Called, Taking, queueVars, drainVars
<1>24. CASE RunPending
  BY <1>24 DEF RunPending, Behind, Draining, Called, Taking, queueVars,
         drainVars
<1> QED
  BY <1>1, <1>2, <1>3, <1>4, <1>5, <1>6, <1>7, <1>8, <1>9, <1>10, <1>11, <1>12,
     <1>13, <1>14, <1>15, <1>16, <1>17, <1>18, <1>19, <1>20, <1>21, <1>22,
     <1>23, <1>24
  DEF Next, User, Remote, RemoteWake, Step, PollHandle, SkipSpawned, vars,
      queueVars, drainVars

-------------------------------------------------------------------------------
(* Which tasks are in the slab                                             *)

\* drain_for_each polls a task of the slab, removes a cancelled one, or does
\* neither.
LEMMA VisitDoes ==
  ASSUME Loop, Slab, DrainLocal \/ DrainConcurrent
  PROVE  /\ \A t \in Tasks : Stored(t)' => Stored(t)
         /\ \/ UNCHANGED <<cur, pc>>
            \/ /\ cur' \in Tasks /\ Stored(cur') /\ ~cancelled[cur']
               /\ pc' = "poll"
<1>1. PICK id \in Ids : Visit(id) /\ task_id' = task_id
  BY Zenon DEF DrainLocal, DrainConcurrent, Visit, Ids
<1>2. CASE UNCHANGED <<tasks, cur, pc>>
  BY <1>1, <1>2 DEF Stored
<1>3. CASE tasks' = [tasks EXCEPT ![id] = None] /\ UNCHANGED <<cur, pc>>
  BY <1>1, <1>3, Apart DEF Stored, Slab
<1>4. CASE /\ id \in Keys /\ tasks[id] # None /\ ~cancelled[tasks[id]]
           /\ StartPoll(tasks[id]) /\ tasks' = tasks
  BY <1>1, <1>4 DEF Stored, Slab, StartPoll
<1> QED
  BY <1>1, <1>2, <1>3, <1>4 DEF Visit

\* A task in its first poll is not yet in the slab.
LEMMA PollSpawnedStores ==
  ASSUME Slab, NEW k \in Keys, PollSpawned(k)
  PROVE  /\ cur' \in Tasks /\ ~cancelled[cur'] /\ pc' = "poll"
         /\ \A t \in Tasks : Stored(t)' => Stored(t) /\ t # cur'
<1>1. Head(spawned) \in Tasks
  BY SpawnedTop DEF PollSpawned
<1> QED
  BY <1>1, Apart
  DEF PollSpawned, waker_pair, StartPoll, Stored, Slab, Futures

\* It is put there when it returns Pending.
LEMMA PendingStores ==
  ASSUME Loop, Slab, Pending
  PROVE  \A t \in Tasks : Stored(t)' <=> Stored(t) \/ t = cur
<1>1. CASE InFirstPoll
  BY <1>1, Apart DEF Loop, Slab, Pending, InFirstPoll, Stored, Ids, Futures
<1>2. CASE ~InFirstPoll
  BY <1>2 DEF Pending, InFirstPoll, Stored
<1> QED
  BY <1>1, <1>2

\* A task that has returned Ready leaves the slab, if it was there.
LEMMA DiscardRemoves ==
  ASSUME Loop, Slab, Discard
  PROVE  \A t \in Tasks : Stored(t)' <=> Stored(t) /\ t # cur
<1>1. CASE Stored(cur)
  BY <1>1, Apart DEF Loop, Slab, Discard, Stored
<1>2. CASE ~Stored(cur)
  BY <1>2 DEF Discard, Stored
<1> QED
  BY <1>1, <1>2

\* The slab is empty when run() returns.
LEMMA RunReturnsRemoves ==
  ASSUME Slab, RunReturns
  PROVE  \A t \in Tasks : ~Stored(t)'
BY Apart DEF Slab, RunReturns, Stored

-------------------------------------------------------------------------------
(* Cancelled tasks                                                         *)

\* The waker of a new main future is not that of a task.
LEMMA StartRunStores ==
  ASSUME NEW m \in Mains, StartRun(m)
  PROVE  \A t \in Tasks : Stored(t)' <=> Stored(t)
BY Apart DEF StartRun, waker_pair, Stored, Futures

\* cancel() finds the waker of every task that can be polled again.
LEMMA CancelInvNext == Loop /\ Slab /\ Wakers /\ CancelInv /\ [Next]_vars =>
  CancelInv'
<1> SUFFICES ASSUME Loop, Slab, Wakers, CancelInv, [Next]_vars PROVE CancelInv'
  OBVIOUS
<1>1. CASE UNCHANGED <<pc, cur, tasks, task_id, cancelled, handle_waker,
         awoken>>
  BY <1>1 DEF CancelInv, Stored
<1>2. ASSUME NEW f \in Futures, Wake(f) PROVE CancelInv'
  <2>1. \A g \in Futures : awoken'[g] <=> g = f \/ awoken[g]
    BY <1>2, LocalWakeDoes, Zenon DEF Wake
  <2> QED
    BY <1>2, <2>1, Zenon DEF Wake, CancelInv, Stored, Futures, handleVars
<1>3. ASSUME NEW t \in Tasks, Spawn(t) PROVE CancelInv'
  BY <1>3, Zenon DEF Spawn, CancelInv, Stored, queueVars, handleVars
<1>4. ASSUME NEW t \in Tasks, Cancel(t) PROVE CancelInv'
  <2>1. CASE handle_waker[t]
    <3>1. \A g \in Futures : awoken'[g] <=> g = t \/ awoken[g]
      BY <1>4, <2>1, LocalWakeDoes, ZenonT(30) DEF Cancel, Wakers, Futures
    <3> QED
      BY <1>4, <2>1, <3>1, Zenon DEF Cancel, Wakers, CancelInv, Stored, Futures
  <2>2. CASE ~handle_waker[t]
    BY <1>4, <2>2 DEF Cancel, Wakers, CancelInv, Stored, queueVars
  <2> QED
    BY <2>1, <2>2
<1>5. ASSUME NEW th \in Threads, RemoteCas(th) PROVE CancelInv'
  BY <1>5 DEF RemoteCas, CancelInv, Stored, Wakers, queueVars, handleVars
<1>6. ASSUME NEW m \in Mains, StartRun(m) PROVE CancelInv'
  BY <1>6, StartRunStores, Apart, Zenon
  DEF StartRun, CancelInv, queueVars, handleVars
<1>7. CASE PollRun \/ register_base_waker
  BY <1>7 DEF PollRun, register_base_waker, CancelInv, Stored, queueVars,
         handleVars
<1>8. CASE Abandon
  BY <1>8 DEF Abandon, CancelInv, Stored, queueVars, handleVars
<1>9. CASE DrainLengths
  BY <1>9 DEF DrainLengths, CancelInv, Stored, queueVars, handleVars
<1>10. CASE DrainLocal
  BY <1>10, VisitDoes, Apart, Zenon DEF DrainLocal, CancelInv, queueVars, handleVars
<1>11. CASE DrainConcurrent
  BY <1>11, VisitDoes, Apart, Zenon
  DEF DrainConcurrent, CancelInv, queueVars, handleVars
<1>12. CASE PollMain
  BY <1>12, Apart, Zenon
  DEF PollMain, StartPoll, Loop, CancelInv, Stored, queueVars, handleVars
<1>13. CASE to_sleep
  <2>1. \A t \in Tasks : t # cur => awoken'[t] = awoken[t]
    BY <1>13 DEF to_sleep, Wakers, Futures
  <2> QED
    BY <1>13, <2>1, Zenon DEF to_sleep, CancelInv, Stored, handleVars
<1>14. CASE Observe
  BY <1>14, Zenon DEF Observe, CancelInv, Stored, queueVars, handleVars
<1>15. CASE Pending
  BY <1>15, PendingStores, Apart, Zenon
  DEF Pending, CancelInv, Loop, queueVars, handleVars
<1>16. CASE Finish
  <2>1. CASE ret_waker[cur] # None
    <3>1. \A g \in Futures : awoken'[g] <=> g = ret_waker[cur] \/ awoken[g]
      BY <1>16, <2>1, LocalWakeDoes, Zenon DEF Finish, Wakers, Futures
    <3> QED
      BY <1>16, <2>1, <3>1, Zenon DEF Finish, Wakers, CancelInv, Stored, Futures
  <2>2. CASE ret_waker[cur] = None
    BY <1>16, <2>2, Zenon DEF Finish, CancelInv, Stored, queueVars
  <2> QED
    BY <2>1, <2>2
<1>17. CASE Discard
  BY <1>17, DiscardRemoves, Apart, Zenon
  DEF Discard, CancelInv, queueVars, handleVars
<1>18. CASE RunReturns
  BY <1>18, RunReturnsRemoves, Apart, Zenon
  DEF RunReturns, CancelInv, queueVars, handleVars
<1>19. ASSUME NEW k \in Keys, PollSpawned(k) PROVE CancelInv'
  BY <1>19, PollSpawnedStores, Apart, ZenonT(30)
  DEF PollSpawned, StartPoll, from_spawned, CancelInv, Wakers, queueVars
<1>20. CASE RunPending
  BY <1>20 DEF RunPending, CancelInv, Stored, queueVars, handleVars
<1> QED
  BY <1>1, <1>2, <1>3, <1>4, <1>5, <1>6, <1>7, <1>8, <1>9, <1>10, <1>11, <1>12,
     <1>13, <1>14, <1>15, <1>16, <1>17, <1>18, <1>19, <1>20, SMTT(20)
  DEF Next, User, Remote, RemoteWake, Step, PollHandle, RemotePost, RemotePush,
      RemoteTake, RemoteNotify, SkipSpawned, vars, queueVars, handleVars

-------------------------------------------------------------------------------
(* The theorems                                                            *)

QInv == Shape /\ Drained /\ Registered /\ Behind /\ CancelInv

\* Init establishes the invariant.
LEMMA QInvInit == Init => QInv
<1> SUFFICES ASSUME Init PROVE QInv
  OBVIOUS
<1>1. pc = "off" /\ cur = None
  BY DEF Init
<1>2. \A t \in Tasks : ~Stored(t)
  BY Apart DEF Init, NewExecutor, Stored, Futures
<1>3. Registered /\ Behind
  BY <1>1 DEF Registered, Behind, Draining
<1>4. CancelInv
  BY <1>1, <1>2, Apart DEF CancelInv
<1> QED
  BY <1>3, <1>4, ShapeInit DEF QInv

\* Every step preserves it.
LEMMA QInvInvariant == Spec => []QInv
<1>1. QInv /\ [Next]_vars => QInv'
  BY LoopNext, QueuesNext, SlabNext, WakersNext, CallersNext, DrainedNext,
     RegisteredNext, BehindNext, CancelInvNext DEF QInv, Shape
<1> QED
  BY QInvInit, <1>1, PTL DEF Spec

\* An index in the queue brings about the next poll of run().
LEMMA IdleNotified == QInv => QueueNotified
<1> SUFFICES ASSUME QInv, pc = "idle", Queue # {}
             PROVE  Called \/ (base_waker /\ Taking)
  BY DEF QueueNotified, Called, Taking
<1>1. nlocal = 0 /\ nconcurrent = 0
  BY DEF QInv, Drained
<1>2. local # <<>> \/ concurrent # <<>>
  BY DEF Queue, Range
<1>3. Len(local) > 0 \/ Len(concurrent) > 0
  BY <1>2 DEF QInv, Shape, Queues
<1> QED
  BY <1>1, <1>3 DEF QInv, Behind, Draining

\* When run() has returned Pending and the queue is not empty, block_on was
\* notified or is about to be.  The wake-ups that come while drain_for_each runs
\* are the hard case: they are behind the lengths it has read.
THEOREM WakeupsNotify == Spec => []QueueNotified
BY QInvInvariant, IdleNotified, PTL

\* The unwrap() of pop_front() in drain_for_each does not panic.
THEOREM DrainsWhatIsThere == Spec => []DrainBounded
<1>1. QInv => DrainBounded
  BY SMTT(20) DEF QInv, Shape, Queues, Draining, DrainBounded
<1> QED
  BY <1>1, QInvInvariant, PTL

\* A cancelled task that is still in the slab is awoken.
THEOREM CancelWakesUp == Spec => []CancelledAwoken
<1>1. QInv => CancelledAwoken
  BY DEF QInv, CancelInv, CancelledAwoken, is_cancelled
<1> QED
  BY <1>1, QInvInvariant, PTL

\* A cancelled task is not polled again, wherever it was when it was cancelled.
THEOREM CancelIsFinal == Spec => CancelledNotPolled
<1>1. QInv /\ [Next]_vars =>
        [\A t \in Tasks : is_cancelled(t) /\ cur # t => cur' # t]_vars
  <2> SUFFICES ASSUME QInv, [Next]_vars, NEW t \in Tasks, cancelled[t],
                      cur # t, cur' = t
               PROVE  FALSE
    BY DEF is_cancelled
  <2>1. CASE DrainLocal \/ DrainConcurrent
    BY <2>1, VisitDoes DEF QInv, Shape
  <2>2. ASSUME NEW k \in Keys, PollSpawned(k) PROVE FALSE
    BY <2>2, PollSpawnedStores DEF QInv, Shape
  <2>3. CASE PollMain
    BY <2>3, Apart DEF PollMain, StartPoll, QInv, Shape, Loop
  <2>4. CASE cur' = None
    BY <2>4, Apart
  <2> QED
    BY <2>1, <2>2, <2>3, <2>4, Zenon
    DEF Next, User, Remote, RemoteWake, Step, Wake, Spawn, Cancel, PollHandle,
        RemotePost, RemoteCas, RemotePush, RemoteTake, RemoteNotify, StartRun,
        PollRun, register_base_waker, Abandon, DrainLengths, to_sleep, Observe,
        Pending, Finish,
        Discard, RunReturns, SkipSpawned, RunPending, vars
<1> QED
  BY <1>1, QInvInvariant, PTL DEF Spec, CancelledNotPolled

===============================================================================
