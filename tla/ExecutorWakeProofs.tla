-------------------------- MODULE ExecutorWakeProofs --------------------------
(***************************************************************************)
(* Proofs about Executor, for any number of tasks, of main futures, of     *)
(* indices and of threads: no wake-up is lost between a waker and the next *)
(* poll of its future, whatever else is in the queue.                      *)
(***************************************************************************)
EXTENDS ExecutorProofs

\* The futures whose wake-ups survive: all of them, or only the main futures if
\* run() may be dropped, since reset() empties the queue.
Kept == IF DropRun THEN Mains ELSE Futures

\* Nothing outlives a run() that returns.
Swept == ~DropRun /\ pc = "off" => \A k \in Keys : tasks[k] = None

\* The index of f waits in the queue or has just been taken from it, ...
Waits(f) == task_id[f] \in Queue \/ (f = main /\ main_task_awoken)

\* ... or a thread is about to put it there.
Pushing(f, at) == \E th \in Threads : wk[th].at \in at /\ wk[th].of = f

\* AwokenQueued, of the futures that are kept.
AwokenWaits ==
  \A f \in Kept : Live(f) /\ awoken[f] =>
    Waits(f) \/ (f = cur /\ pc = "poll") \/ Pushing(f, {"push"})

\* What a future has to see brings about its next poll, unless it is in it.
PostedWaits ==
  \A f \in Kept : posted[f] =>
    /\ Live(f)
    /\ \/ Waits(f)
       \/ f = cur /\ pc \in {"poll", "asleep"}
       \/ Pushing(f, {"cas", "push"})

WakeInv == Swept /\ AwokenWaits /\ PostedWaits

\* While run() sleeps, there is nothing to see.
NoLost == Sleeping => \A f \in Kept : ~posted[f]

-------------------------------------------------------------------------------
(* From the waker to the queue                                             *)

\* A push, or none if the waker is awoken already.
LEMMA QueueWakes ==
  ASSUME Queues, Slab, Wakers, NEW f \in Futures, task_id[f] # None, LocalWake(f)
  PROVE  /\ Queue \subseteq Queue'
         /\ awoken[f] \/ task_id[f] \in Queue'
<1>1. task_id[f] \in Ids
  BY DEF Slab
<1>2. Range(Append(local, task_id[f])) = Range(local) \cup {task_id[f]}
  BY <1>1, PushedSet DEF Queues
<1>3. CASE awoken[f] /\ UNCHANGED <<local, concurrent>>
  BY <1>3 DEF Queue
<1>4. CASE local' = Append(local, task_id[f]) /\ concurrent' = concurrent
  BY <1>2, <1>4 DEF Queue
<1> QED
  BY <1>3, <1>4, LocalWakeDoes, Zenon

\* The push of another thread.
LEMMA QueuePush ==
  ASSUME Queues, Slab, Wakers, Callers, NEW th \in Threads, RemotePush(th)
  PROVE  Queue' = Queue \cup {task_id[wk[th].of]}
<1>1. task_id[wk[th].of] \in Ids
  BY DEF RemotePush, Slab, Wakers, Callers
<1>2. Range(concurrent') = Range(concurrent) \cup {task_id[wk[th].of]}
  BY <1>1, PushedSet DEF RemotePush, Queues
<1> QED
  BY <1>2 DEF Queue, RemotePush

\* What drain_for_each takes.
Taken == IF nlocal > 0 THEN Head(local) ELSE Head(concurrent)

\* drain_for_each takes one index and visits it.
LEMMA QueuePop ==
  ASSUME Queues, DrainLocal \/ DrainConcurrent
  PROVE  Queue \subseteq Queue' \cup {Taken} /\ Visit(Taken)
<1>1. CASE DrainLocal
  <2>1. Range(local) = Range(local') \cup {Head(local)}
    BY <1>1, PoppedSet DEF DrainLocal, Queues, Draining
  <2> QED
    BY <1>1, <2>1 DEF DrainLocal, Queue, Taken
<1>2. CASE DrainConcurrent
  <2>1. Range(concurrent) = Range(concurrent') \cup {Head(concurrent)}
    BY <1>2, PoppedSet DEF DrainConcurrent, Queues, Draining
  <2> QED
    BY <1>2, <2>1 DEF DrainConcurrent, Queue, Taken
<1> QED
  BY <1>1, <1>2

-------------------------------------------------------------------------------
(* Steps that call no wake()                                               *)

\* What such a step does to f: it makes f neither awoken nor posted, and keeps
\* on its way what brings about the next poll of f.
Stays(f) ==
  /\ Live(f)' /\ awoken'[f] => Live(f) /\ awoken[f]
  /\ posted'[f] => posted[f] /\ Live(f)'
  /\ Live(f)' /\ Waits(f) => Waits(f)' \/ (f = cur' /\ pc' = "poll")
  /\ f = cur /\ pc = "poll" =>
       f = cur' /\ (pc' = "poll" \/ (pc' = "asleep" /\ ~awoken'[f]))
  /\ f = cur /\ pc = "asleep" => (f = cur' /\ pc' = "asleep") \/ ~posted'[f]

\* Such a step keeps every wake-up under way.
LEMMA WakeStays ==
  ASSUME AwokenWaits, PostedWaits, wk' = wk, \A f \in Kept : Stays(f)
  PROVE  AwokenWaits' /\ PostedWaits'
<1>1. ASSUME NEW f \in Kept, Live(f)' /\ awoken'[f]
      PROVE  Waits(f)' \/ (f = cur' /\ pc' = "poll") \/ Pushing(f, {"push"})'
  <2>1. Live(f) /\ awoken[f] /\ Stays(f)
    BY <1>1 DEF Stays
  <2>2. Waits(f) \/ (f = cur /\ pc = "poll") \/ Pushing(f, {"push"})
    BY <2>1 DEF AwokenWaits
  <2> QED
    BY <1>1, <2>1, <2>2 DEF Stays, Pushing
<1>2. ASSUME NEW f \in Kept, posted'[f]
      PROVE  /\ Live(f)'
             /\ \/ Waits(f)'
                \/ f = cur' /\ pc' \in {"poll", "asleep"}
                \/ Pushing(f, {"cas", "push"})'
  <2>1. posted[f] /\ Live(f)' /\ Stays(f)
    BY <1>2 DEF Stays
  <2>2. \/ Waits(f)
        \/ f = cur /\ pc \in {"poll", "asleep"}
        \/ Pushing(f, {"cas", "push"})
    BY <2>1 DEF PostedWaits
  <2> QED
    BY <1>2, <2>1, <2>2 DEF Stays, Pushing
<1> QED
  BY <1>1, <1>2, Zenon DEF AwokenWaits, PostedWaits, Kept

\* A future that has something to see can be polled again.
LEMMA PostedLive ==
  ASSUME PostedWaits, NEW f \in Kept, posted[f]
  PROVE  f \in Futures /\ Live(f)
BY DEF PostedWaits, Kept, Futures

\* Steps that only move the executor's thread, or touch handles, stack or lengths.
LEMMA QuietStays ==
  ASSUME PostedWaits, NEW f \in Kept, pc \notin {"poll", "asleep"} \/ pc' = pc,
         UNCHANGED <<tasks, task_id, cur, main, main_task_awoken, local, concurrent,
                     awoken, posted>>
  PROVE  Stays(f)
<1>1. (Live(f) <=> Live(f)') /\ (Waits(f) <=> Waits(f)')
  BY DEF Live, Stored, Waits, Queue
<1> QED
  BY <1>1, PostedLive DEF Stays

\* The main future that was found awoken is polled.
LEMMA PollMainStays ==
  ASSUME Loop, PostedWaits, NEW f \in Kept, PollMain
  PROVE  Stays(f)
<1>1. Live(f) <=> Live(f)'
  BY Apart DEF PollMain, StartPoll, Loop, Live, Stored, Kept, Futures
<1>2. Waits(f) => Waits(f)' \/ (f = cur' /\ pc' = "poll")
  BY DEF PollMain, StartPoll, Waits, Queue, queueVars
<1> QED
  BY <1>1, <1>2, PostedLive DEF Stays, PollMain, queueVars

\* A future gives up its flag only when its poll is under way.
LEMMA to_sleepStays ==
  ASSUME Loop, Wakers, PostedWaits, NEW f \in Kept, to_sleep
  PROVE  Stays(f)
<1>1. (Live(f) <=> Live(f)') /\ (Waits(f) <=> Waits(f)')
  BY DEF to_sleep, Live, Stored, Waits, Queue, drainVars
<1>2. ~awoken'[cur] /\ (awoken'[f] => awoken[f])
  BY Apart DEF to_sleep, Loop, Wakers, Kept, Futures
<1> QED
  BY <1>1, <1>2, PostedLive DEF Stays, to_sleep

\* A future that is polled sees all that was posted to it.
LEMMA ObserveStays ==
  ASSUME Wakers, PostedWaits, NEW f \in Kept, Observe
  PROVE  Stays(f)
<1>1. (Live(f) <=> Live(f)') /\ (Waits(f) <=> Waits(f)')
  BY DEF Observe, Live, Stored, Waits, Queue, queueVars, drainVars
<1>2. (f = cur => ~posted'[f]) /\ (posted'[f] => posted[f])
  BY DEF Observe, Wakers, Kept, Futures
<1> QED
  BY <1>1, <1>2, PostedLive DEF Stays, Observe, queueVars

\* The future that returned Pending can still be polled again.
LEMMA PendingStays ==
  ASSUME Loop, Slab, PostedWaits, NEW f \in Kept, Pending
  PROVE  Stays(f)
<1>1. f \in Tasks \cup Mains
  BY DEF Kept, Futures
<1>2. Live(f) <=> Live(f)'
  BY <1>1, PendingStores, Apart DEF Pending, Live, Loop
<1>3. Waits(f) <=> Waits(f)'
  BY DEF Pending, Waits, Queue, queueVars, drainVars
<1> QED
  BY <1>2, <1>3, PostedLive DEF Stays, Pending, queueVars

\* The future that returned Ready is gone.
LEMMA DiscardStays ==
  ASSUME Loop, Slab, Wakers, PostedWaits, NEW f \in Kept, Discard
  PROVE  Stays(f)
<1>1. f \in Tasks \cup Mains
  BY DEF Kept, Futures
<1>2. Live(f)' <=> Live(f) /\ f # cur
  BY <1>1, DiscardRemoves, Apart DEF Discard, Live, Loop
<1>3. Waits(f) <=> Waits(f)'
  BY DEF Discard, Waits, Queue, queueVars, drainVars
<1>4. posted'[f] => posted[f] /\ f # cur
  BY DEF Discard, Wakers, Kept, Futures
<1> QED
  BY <1>2, <1>3, <1>4, PostedLive DEF Stays, Discard, queueVars

\* run() takes all futures with it when it returns.
LEMMA RunReturnsStays ==
  ASSUME Slab, NEW f \in Kept, RunReturns
  PROVE  Stays(f)
<1>1. f \in Tasks \cup Mains
  BY DEF Kept, Futures
<1>2. ~Live(f)' /\ ~posted'[f]
  BY <1>1, RunReturnsRemoves, Apart DEF RunReturns, Live, Futures
<1> QED
  BY <1>2 DEF Stays, RunReturns

\* A new task takes a vacant index: an entry of the queue with that index is
\* not for a task that is still there.
LEMMA PollSpawnedStays ==
  ASSUME Loop, Slab, Wakers, PostedWaits, NEW f \in Kept, NEW k \in Keys,
         PollSpawned(k)
  PROVE  Stays(f)
<1>1. cur' \in Tasks /\ task_id[cur'] = None /\ pc' = "poll"
  BY PollSpawnedStores, Zenon DEF PollSpawned, waker_pair, StartPoll
<1>2. ~awoken[cur']
  BY <1>1 DEF Wakers, Futures
<1>3. \A t \in Tasks : Stored(t) <=> Stored(t)'
  BY <1>1, Apart DEF Slab, PollSpawned, waker_pair, StartPoll, Stored, Futures
<1>4. f # cur' => (Live(f) <=> Live(f)') /\ task_id'[f] = task_id[f]
  BY <1>1, <1>3, Apart
  DEF PollSpawned, waker_pair, StartPoll, Slab, Loop, Live, Kept, Futures
<1>5. f # cur' /\ Waits(f) => Waits(f)'
  BY <1>4 DEF PollSpawned, Waits, Queue, queueVars, drainVars
<1>6. f = cur' /\ posted[f] => Live(f)'
  BY DEF Live
<1> QED
  BY <1>1, <1>2, <1>4, <1>5, <1>6, PostedLive DEF Stays, PollSpawned, queueVars

\* The main future is dropped with run(); the tasks are not kept.
LEMMA AbandonStays ==
  ASSUME Loop, Wakers, PostedWaits, NEW f \in Kept, Abandon
  PROVE  Stays(f)
<1>1. f \in Mains /\ f # None
  BY Apart DEF Abandon, Kept
<1>2. ~Live(f)' /\ (posted'[f] => posted[f] /\ f # main)
  BY <1>1, Apart DEF Abandon, Live, Wakers, Loop, Futures
<1>3. ~posted'[f]
  BY <1>1, <1>2, PostedLive, Apart DEF Abandon, Live, Loop
<1> QED
  BY <1>2, <1>3 DEF Stays, Abandon

\* The index taken from the queue leads to the poll of the future that waits
\* for it; if several futures had this index, all but one are gone.
LEMMA DrainStays ==
  ASSUME Loop, Queues, Slab, Wakers, PostedWaits, NEW f \in Kept,
         DrainLocal \/ DrainConcurrent
  PROVE  Stays(f)
<1>1. /\ pc = "drain" /\ cur = None
      /\ Queue \subseteq Queue' \cup {Taken} /\ Visit(Taken)
      /\ UNCHANGED <<task_id, awoken, main>>
  BY QueuePop DEF DrainLocal, DrainConcurrent, Loop
<1>2. f \in Tasks \cup Mains /\ f \in Futures
  BY DEF Kept, Futures
<1>3. Live(f)' => Live(f)
  BY <1>1, <1>2, VisitDoes, Apart DEF Live
<1>4. posted'[f] => posted[f] /\ Live(f)'
  <2>1. CASE UNCHANGED <<tasks, posted>>
    BY <1>1, <1>2, <2>1, PostedLive, Apart DEF Live, Stored
  <2>2. CASE /\ Taken \in Keys /\ tasks[Taken] # None
             /\ tasks' = [tasks EXCEPT ![Taken] = None]
             /\ posted' = [posted EXCEPT ![tasks[Taken]] = FALSE]
    BY <1>1, <1>2, <2>2, PostedLive, Apart DEF Live, Stored, Slab, Wakers
  <2> QED
    BY <1>1, <2>1, <2>2 DEF Visit
<1>5. Live(f)' /\ Waits(f) => Waits(f)' \/ (f = cur' /\ pc' = "poll")
  <2>1. CASE task_id[f] = Taken
    <3>1. CASE f \in Mains
      <4>1. Live(f)' => f = main
        BY <1>1, <1>2, <3>1, VisitDoes, Apart DEF Live
      <4>2. f = main => Taken = MAIN_TASK_ID
        BY <2>1, <3>1, Apart DEF Slab
      <4> QED
        BY <1>1, <4>1, <4>2, Apart DEF Visit, Waits
    <3>2. CASE f \in Tasks
      <4>1. main' # f
        BY <1>1, <3>2, Apart DEF Loop
      <4>2. Live(f)' => Stored(f)
        BY <1>1, <3>2, <4>1, VisitDoes, Apart DEF Live
      <4>3. Stored(f) => Taken \in Keys /\ tasks[Taken] = f
        BY <2>1 DEF Stored
      <4>4. Live(f)' => cur' = f \/ tasks'[Taken] = f
        BY <1>1, <2>1, <4>1 DEF Live, Stored
      <4>5. CASE Live(f)' /\ cur' # f
        BY <1>1, <3>2, <4>2, <4>3, <4>4, <4>5, Apart DEF Visit, StartPoll, Slab
      <4>6. CASE cur' = f
        BY <1>1, <3>2, <4>6, VisitDoes, Apart
      <4> QED
        BY <4>5, <4>6
    <3> QED
      BY <1>2, <3>1, <3>2
  <2>2. CASE task_id[f] # Taken
    BY <1>1, <2>2 DEF Waits, Visit
  <2> QED
    BY <2>1, <2>2
<1> QED
  BY <1>1, <1>3, <1>4, <1>5 DEF Stays

-------------------------------------------------------------------------------
(* Steps that call wake()                                                  *)

\* The executor's thread: what it pushes stays behind what is in the queue.
LEMMA WakesKeep ==
  ASSUME Queues, Slab, Wakers, AwokenWaits, PostedWaits, Wakes,
         pc \notin {"poll", "asleep"},
         UNCHANGED <<tasks, task_id, cur, main, main_task_awoken, wk>>
  PROVE  AwokenWaits' /\ PostedWaits'
<1>1. CASE UNCHANGED <<posted, queueVars, notified>>
  BY <1>1, QuietStays, WakeStays DEF queueVars
<1>2. ASSUME NEW g \in Futures, task_id[g] # None, Happen(g), LocalWake(g)
      PROVE  AwokenWaits' /\ PostedWaits'
  <2>1. \A f \in Kept : f \in Futures /\ (Live(f) <=> Live(f)')
    BY DEF Live, Stored, Kept, Futures
  <2>2. Queue \subseteq Queue' /\ (awoken[g] \/ task_id[g] \in Queue')
    BY <1>2, QueueWakes
  <2>3. \A f \in Kept : Waits(f) => Waits(f)'
    BY <2>2 DEF Waits
  <2>4. ASSUME NEW f \in Kept, Live(f), awoken[f] \/ f = g
        PROVE  Waits(f)' \/ Pushing(f, {"push"})'
    <3>1. CASE awoken[f]
      BY <2>3, <2>4, <3>1 DEF AwokenWaits, Pushing
    <3>2. CASE f = g /\ ~awoken[f]
      BY <2>2, <3>2 DEF Waits
    <3> QED
      BY <2>4, <3>1, <3>2
  <2>5. \A f \in Kept : awoken'[f] => awoken[f] \/ f = g
    BY <1>2, <2>1, LocalWakeDoes, Zenon
  <2>6. ASSUME NEW f \in Kept, posted'[f]
        PROVE  Live(f) /\ (posted[f] \/ f = g)
    BY <1>2, <2>1, <2>6, PostedLive DEF Happen, Wakers
  <2>7. AwokenWaits'
    BY <2>1, <2>4, <2>5, Zenon DEF AwokenWaits, Kept
  <2>8. ASSUME NEW f \in Kept, posted'[f]
        PROVE  Waits(f)' \/ Pushing(f, {"cas", "push"})'
    <3>1. CASE posted[f]
      BY <2>3, <3>1 DEF PostedWaits, Pushing
    <3>2. CASE f = g
      BY <2>4, <2>6, <2>8, <3>2 DEF Pushing
    <3> QED
      BY <2>6, <2>8, <3>1, <3>2
  <2> QED
    BY <2>1, <2>6, <2>7, <2>8, Zenon DEF PostedWaits, Kept
<1> QED
  BY <1>1, <1>2 DEF Wakes

\* What no step of another thread in wake() changes.
LEMMA RemoteLive ==
  ASSUME UNCHANGED <<tasks, task_id, cur, main, main_task_awoken>>,
         Queue \subseteq Queue', NEW f \in Kept
  PROVE  (Live(f) <=> Live(f)') /\ (Waits(f) => Waits(f)')
BY DEF Live, Stored, Waits

\* Another thread begins wake().
LEMMA RemotePostKeeps ==
  ASSUME Wakers, Callers, AwokenWaits, PostedWaits, NEW th \in Threads,
         NEW g \in Futures, RemotePost(th, g)
  PROVE  AwokenWaits' /\ PostedWaits'
<1>1. \A f \in Kept : (Live(f) <=> Live(f)') /\ (Waits(f) => Waits(f)')
  BY RemoteLive DEF RemotePost, Queue, queueVars, drainVars
<1>2. \A f \in Kept : /\ Pushing(f, {"push"}) => Pushing(f, {"push"})'
                      /\ Pushing(f, {"cas", "push"}) => Pushing(f, {"cas", "push"})'
  BY DEF RemotePost, Idle, Callers, Pushing
<1>3. Pushing(g, {"cas", "push"})'
  BY DEF RemotePost, Callers, Pushing
<1>4. ASSUME NEW f \in Kept, posted'[f] PROVE Live(f) /\ (posted[f] \/ f = g)
  BY <1>4, PostedLive DEF RemotePost, Happen, Wakers
<1>5. AwokenWaits'
  BY <1>1, <1>2 DEF RemotePost, queueVars, AwokenWaits, Kept
<1>6. PostedWaits'
  BY <1>1, <1>2, <1>3, <1>4 DEF RemotePost, queueVars, PostedWaits, Kept
<1> QED
  BY <1>5, <1>6

\* It finds the flag set, and then a wake-up is under way, or sets it and is
\* about to push.
LEMMA RemoteCasKeeps ==
  ASSUME Wakers, Callers, AwokenWaits, PostedWaits, NEW th \in Threads,
         RemoteCas(th)
  PROVE  AwokenWaits' /\ PostedWaits'
<1> DEFINE g == wk[th].of
<1>1. \A f \in Kept : /\ Live(f) <=> Live(f)'
                      /\ Waits(f) => Waits(f)'
  BY RemoteLive DEF RemoteCas, Queue, drainVars
<1>2. g \in Futures /\ wk[th].at = "cas"
  BY DEF RemoteCas, Callers, Wakers
<1>3. \A f \in Kept : Pushing(f, {"push"}) => Pushing(f, {"push"})'
  BY DEF RemoteCas, Callers, Pushing
<1>4. \A f \in Kept : f = g /\ ~awoken[f] => Pushing(f, {"push"})'
  BY <1>2 DEF RemoteCas, Callers, Pushing
<1>5. \A f \in Kept :
         Pushing(f, {"cas", "push"}) => f = g \/ Pushing(f, {"cas", "push"})'
  BY DEF RemoteCas, Callers, Pushing
<1>6. \A f \in Kept : awoken'[f] => awoken[f] \/ f = g
  BY <1>2 DEF RemoteCas, Wakers, Kept, Futures
<1>7. ASSUME NEW f \in Kept, Live(f), awoken[f] \/ f = g
      PROVE  Waits(f)' \/ (f = cur' /\ pc' = "poll") \/ Pushing(f, {"push"})'
  <2>1. CASE awoken[f]
    BY <1>1, <1>3, <1>7, <2>1 DEF AwokenWaits, RemoteCas
  <2>2. CASE f = g /\ ~awoken[f]
    BY <1>4, <2>2, Zenon
  <2> QED
    BY <1>7, <2>1, <2>2
<1>8. AwokenWaits'
  BY <1>1, <1>6, <1>7, Zenon DEF AwokenWaits, Kept
<1>9. ASSUME NEW f \in Kept, posted'[f]
      PROVE  /\ Live(f)'
             /\ \/ Waits(f)'
                \/ f = cur' /\ pc' \in {"poll", "asleep"}
                \/ Pushing(f, {"cas", "push"})'
  <2>1. posted[f] /\ Live(f) /\ Live(f)'
    BY <1>1, <1>9, PostedLive DEF RemoteCas
  <2>2. CASE f = g
    BY <1>7, <2>1, <2>2 DEF Pushing
  <2>3. CASE f # g
    BY <1>1, <1>5, <2>1, <2>3 DEF PostedWaits, RemoteCas
  <2> QED
    BY <2>1, <2>2, <2>3
<1> QED
  BY <1>8, <1>9, Zenon DEF PostedWaits, Kept

\* It pushes the index.
LEMMA RemotePushKeeps ==
  ASSUME Queues, Slab, Wakers, Callers, AwokenWaits, PostedWaits,
         NEW th \in Threads, RemotePush(th)
  PROVE  AwokenWaits' /\ PostedWaits'
<1> DEFINE g == wk[th].of
<1>1. \A f \in Kept : (Live(f) <=> Live(f)') /\ (Waits(f) => Waits(f)')
  BY RemoteLive, QueuePush, Zenon DEF RemotePush, drainVars
<1>2. \A f \in Kept : f = g => Waits(f)'
  BY QueuePush, Zenon DEF RemotePush, Waits
<1>3. \A f \in Kept :
         /\ Pushing(f, {"push"}) => f = g \/ Pushing(f, {"push"})'
         /\ Pushing(f, {"cas", "push"}) => f = g \/ Pushing(f, {"cas", "push"})'
  BY DEF RemotePush, Callers, Pushing
<1>4. AwokenWaits'
  BY <1>1, <1>2, <1>3 DEF RemotePush, AwokenWaits, Kept
<1>5. PostedWaits'
  BY <1>1, <1>2, <1>3 DEF RemotePush, PostedWaits, Kept
<1> QED
  BY <1>4, <1>5

\* It wakes block_on.
LEMMA RemoteBaseKeeps ==
  ASSUME Callers, AwokenWaits, PostedWaits, NEW th \in Threads,
         RemoteTake(th) \/ RemoteNotify(th)
  PROVE  AwokenWaits' /\ PostedWaits'
<1>1. /\ UNCHANGED <<tasks, task_id, cur, main, main_task_awoken, local, concurrent,
                     awoken, posted, pc>>
      /\ wk[th].at \notin {"cas", "push"}
      /\ \A t \in Threads \ {th} : wk'[t] = wk[t]
  BY DEF RemoteTake, RemoteNotify, Callers, queueVars, drainVars
<1>2. \A f \in Kept : (Live(f) <=> Live(f)') /\ (Waits(f) => Waits(f)')
  BY <1>1, RemoteLive DEF Queue
<1>3. \A f \in Kept : /\ Pushing(f, {"push"}) => Pushing(f, {"push"})'
                      /\ Pushing(f, {"cas", "push"}) => Pushing(f, {"cas", "push"})'
  BY <1>1 DEF Pushing
<1>4. AwokenWaits'
  BY <1>1, <1>2, <1>3 DEF AwokenWaits, Kept
<1>5. PostedWaits'
  BY <1>1, <1>2, <1>3 DEF PostedWaits, Kept
<1> QED
  BY <1>4, <1>5

-------------------------------------------------------------------------------
(* No wake-up is lost                                                      *)

\* Between two runs no future that is kept can be polled.
LEMMA OffIdle ==
  ASSUME Loop, Swept, pc = "off", NEW f \in Kept
  PROVE  ~Live(f)
BY Apart, ExecutorAssumption DEF Loop, Swept, Live, Stored, Kept, Futures

\* reset() empties the queue, and what it loses is not kept.
LEMMA StartRunKeeps ==
  ASSUME Loop, Swept, Slab, Wakers, AwokenWaits, PostedWaits, NEW m \in Mains,
         StartRun(m)
  PROVE  AwokenWaits' /\ PostedWaits'
<1>1. ASSUME NEW f \in Kept, f # m PROVE ~Live(f)' /\ ~posted'[f]
  <2>1. ~Live(f) /\ pc = "off" /\ f \in Futures
    BY OffIdle DEF StartRun, Kept, Futures
  <2>2. ~Live(f)'
    BY <1>1, <2>1, StartRunStores, Zenon DEF StartRun, Live
  <2>3. ~posted'[f]
    BY <1>1, <2>1, PostedLive DEF StartRun, Wakers
  <2> QED
    BY <2>2, <2>3
<1>2. Live(m)' /\ task_id'[m] = MAIN_TASK_ID
  BY DEF StartRun, waker_pair, Live, Slab, Futures
<1>3. MAIN_TASK_ID \in Queue'
  BY DEF StartRun, reset, Queue, Range
<1>4. Waits(m)'
  BY <1>2, <1>3 DEF Waits
<1>5. AwokenWaits'
  BY <1>1, <1>4, Zenon DEF AwokenWaits, Kept
<1>6. PostedWaits'
  BY <1>1, <1>2, <1>4, Zenon DEF PostedWaits, Kept
<1> QED
  BY <1>5, <1>6

\* The slab is emptied by every run() that is not dropped.
LEMMA SweptNext == Loop /\ Swept /\ [Next]_vars => Swept'
<1> SUFFICES ASSUME Loop, Swept, [Next]_vars, ~DropRun, pc' = "off"
             PROVE  \A k \in Keys : tasks'[k] = None
  BY DEF Swept
<1>1. CASE RunReturns
  BY <1>1 DEF RunReturns
<1>2. CASE pc = "off" /\ tasks' = tasks
  BY <1>2 DEF Swept
<1>3. ASSUME NEW t \in Tasks, Spawn(t) PROVE pc = "off" /\ tasks' = tasks
  BY <1>3 DEF Spawn
<1>4. ASSUME NEW th \in Threads, RemoteWake(th) PROVE pc = "off" /\ tasks' = tasks
  BY <1>4 DEF RemoteWake, RemoteCas, RemotePush, RemoteTake, RemoteNotify
<1>5. ~DrainLocal /\ ~DrainConcurrent
  BY DEF DrainLocal, DrainConcurrent, Visit, StartPoll
<1>6. ~Pending /\ ~Discard /\ ~PollMain
  BY DEF Pending, Discard, PollMain, StartPoll
<1> QED
  BY <1>1, <1>2, <1>3, <1>4, <1>5, <1>6, Zenon
  DEF Next, User, Remote, Step, Wake, Cancel, PollHandle, RemotePost, StartRun,
      PollRun, register_base_waker, Abandon, DrainLengths, to_sleep, Observe,
      Finish, SkipSpawned,
      PollSpawned, StartPoll, RunPending, vars

\* Every step keeps the wake-ups of the futures that are kept.
LEMMA WakeInvNext == Shape /\ WakeInv /\ [Next]_vars => WakeInv'
<1> SUFFICES ASSUME Loop, Queues, Slab, Wakers, Callers, Swept, AwokenWaits,
                    PostedWaits, [Next]_vars
             PROVE  AwokenWaits' /\ PostedWaits'
  BY SweptNext DEF Shape, WakeInv
<1>1. CASE /\ pc \notin {"poll", "asleep"} \/ pc' = pc
           /\ UNCHANGED <<tasks, task_id, cur, main, main_task_awoken, local,
                          concurrent, awoken, posted, wk>>
  BY <1>1, QuietStays, WakeStays
<1>2. ASSUME NEW f \in Futures, Wake(f) PROVE AwokenWaits' /\ PostedWaits'
  BY <1>2, WakeWakes, WakesKeep DEF Wake, drainVars
<1>3. ASSUME NEW t \in Tasks, Cancel(t) PROVE AwokenWaits' /\ PostedWaits'
  BY <1>3, CancelWakes, WakesKeep, Zenon DEF Cancel, drainVars
<1>4. CASE Finish
  BY <1>4, FinishWakes, WakesKeep DEF Finish, drainVars
<1>5. ASSUME NEW th \in Threads, NEW f \in Futures, RemotePost(th, f)
      PROVE  AwokenWaits' /\ PostedWaits'
  BY <1>5, RemotePostKeeps
<1>6. ASSUME NEW th \in Threads, RemoteWake(th) PROVE AwokenWaits' /\ PostedWaits'
  BY <1>6, RemoteCasKeeps, RemotePushKeeps, RemoteBaseKeeps DEF RemoteWake
<1>7. ASSUME NEW m \in Mains, StartRun(m) PROVE AwokenWaits' /\ PostedWaits'
  BY <1>7, StartRunKeeps
<1>8. CASE Abandon
  BY <1>8, AbandonStays, WakeStays DEF Abandon
<1>9. CASE DrainLocal \/ DrainConcurrent
  BY <1>9, DrainStays, WakeStays DEF DrainLocal, DrainConcurrent
<1>10. CASE PollMain
  BY <1>10, PollMainStays, WakeStays, Zenon DEF PollMain
<1>11. CASE to_sleep
  BY <1>11, to_sleepStays, WakeStays DEF to_sleep
<1>12. CASE Observe
  BY <1>12, ObserveStays, WakeStays DEF Observe
<1>13. CASE Pending
  BY <1>13, PendingStays, WakeStays DEF Pending
<1>14. CASE Discard
  BY <1>14, DiscardStays, WakeStays DEF Discard
<1>15. CASE RunReturns
  BY <1>15, RunReturnsStays, WakeStays DEF RunReturns
<1>16. ASSUME NEW k \in Keys, PollSpawned(k) PROVE AwokenWaits' /\ PostedWaits'
  BY <1>16, PollSpawnedStays, WakeStays DEF PollSpawned
<1>17. ASSUME NEW t \in Tasks, Spawn(t) \/ PollHandle(t)
       PROVE  AwokenWaits' /\ PostedWaits'
  BY <1>1, <1>17 DEF Spawn, PollHandle, queueVars, drainVars
<1>18. CASE PollRun \/ register_base_waker \/ DrainLengths
  BY <1>1, <1>18 DEF PollRun, register_base_waker, DrainLengths, queueVars, drainVars
<1>19. CASE SkipSpawned \/ RunPending
  BY <1>1, <1>19 DEF SkipSpawned, RunPending, queueVars, drainVars
<1>20. CASE UNCHANGED vars
  BY <1>1, <1>20 DEF vars, queueVars, drainVars
<1> QED
  BY <1>2, <1>3, <1>4, <1>5, <1>6, <1>7, <1>8, <1>9, <1>10, <1>11, <1>12, <1>13,
     <1>14, <1>15, <1>16, <1>17, <1>18, <1>19, <1>20 DEF Next, User, Remote, Step

\* posted holds truth values.
Posted == posted \in [Futures -> BOOLEAN]

\* Every step keeps them so.
LEMMA PostedNext == Posted /\ [Next]_vars => Posted'
<1> SUFFICES ASSUME Posted, [Next]_vars PROVE Posted'
  OBVIOUS
<1>1. CASE posted' = posted
  BY <1>1 DEF Posted
<1>2. ASSUME NEW f, Happen(f) PROVE Posted'
  BY <1>2, Zenon DEF Happen, Live, Posted
<1>3. ASSUME NEW f, posted' = [posted EXCEPT ![f] = FALSE] PROVE Posted'
  BY <1>3, Zenon DEF Posted
<1>4. ASSUME NEW m \in Mains, StartRun(m) PROVE Posted'
  BY <1>4, Zenon DEF StartRun, Posted
<1>5. CASE RunReturns
  BY <1>5 DEF RunReturns, Posted
<1>6. ASSUME NEW t \in Tasks, Cancel(t) PROVE Posted'
  BY <1>1, <1>2, <1>6 DEF Cancel
<1>7. CASE Finish
  BY <1>1, <1>2, <1>7 DEF Finish
<1>8. CASE DrainLocal \/ DrainConcurrent
  BY <1>1, <1>3, <1>8 DEF DrainLocal, DrainConcurrent, Visit
<1> QED
  BY <1>1, <1>2, <1>3, <1>4, <1>5, <1>6, <1>7, <1>8, Zenon
  DEF Next, User, Remote, RemoteWake, Step, Wake, Spawn, PollHandle, RemotePost,
      RemoteCas, RemotePush, RemoteTake, RemoteNotify, PollRun,
      register_base_waker, Abandon,
      DrainLengths, PollMain, to_sleep, Observe, Pending, Discard, SkipSpawned,
      PollSpawned, RunPending, vars

-------------------------------------------------------------------------------
(* The theorems                                                            *)

IInv == QInv /\ WakeInv /\ Posted

\* Init establishes the invariant.
LEMMA IInvInit == Init => IInv
<1> SUFFICES ASSUME Init PROVE IInv
  OBVIOUS
<1>1. Posted
  BY DEF Init, Posted
<1>2. Swept
  BY DEF Init, NewExecutor, Swept
<1>3. AwokenWaits /\ PostedWaits
  BY DEF Init, AwokenWaits, PostedWaits, Kept, Futures
<1> QED
  BY <1>1, <1>2, <1>3, QInvInit DEF IInv, WakeInv

\* Every step preserves it.
LEMMA Invariance == Spec => []IInv
<1>1. QInv /\ WakeInv /\ Posted /\ [Next]_vars => (WakeInv /\ Posted)'
  BY WakeInvNext, PostedNext DEF QInv
<1> QED
  BY IInvInit, QInvInvariant, <1>1, PTL DEF Spec, IInv

\* While run() sleeps, nothing that was kept is left to see.
LEMMA SleepersHaveSeen == IInv => NoLost
<1> SUFFICES ASSUME IInv, Sleeping, NEW f \in Kept, posted[f] PROVE FALSE
  BY DEF NoLost
<1>1. Queue = {}
  BY IdleNotified DEF IInv, QueueNotified, Sleeping, Idle
<1>2. ~main_task_awoken
  BY DEF IInv, QInv, Drained, Sleeping
<1>3. ~Pushing(f, {"cas", "push"})
  BY DEF Sleeping, Pushing, Idle
<1> QED
  BY <1>1, <1>2, <1>3 DEF IInv, WakeInv, PostedWaits, Waits, Sleeping

\* If no run() is dropped, a waker that refuses further wake-ups has one under
\* way: its index is in the queue, or a thread is about to push it.
THEOREM AwokenUnderWay ==
  ASSUME DropRun = FALSE
  PROVE  Spec => []AwokenQueued
<1>1. IInv => AwokenQueued
  <2> SUFFICES ASSUME IInv, NEW f \in Futures, Live(f), awoken[f]
               PROVE  \/ Waits(f) \/ (f = cur /\ pc = "poll")
                      \/ \E th \in Threads : wk[th] = [at |-> "push", of |-> f]
    BY DEF AwokenQueued, Waits
  <2>1. Waits(f) \/ (f = cur /\ pc = "poll") \/ Pushing(f, {"push"})
    BY DEF IInv, WakeInv, AwokenWaits, Kept
  <2>2. ASSUME NEW th \in Threads, wk[th].at = "push", wk[th].of = f
        PROVE  wk[th] = [at |-> "push", of |-> f]
    BY <2>2 DEF IInv, QInv, Shape, Callers
  <2> QED
    BY <2>1, <2>2 DEF Pushing
<1> QED
  BY <1>1, Invariance, PTL

-------------------------------------------------------------------------------
(* Executor implements WakeCell                                            *)

\* What a step does to the posts of the futures A.
Quiet(A) == \A f \in A : posted'[f] = posted[f]
Posts(A) == \E f \in A : posted'[f] /\ \A g \in A \ {f} : posted'[g] = posted[g]
Sees(A) == ~Sleeping /\ ~Sleeping' /\ \A f \in A : posted'[f] => posted[f]

\* Something happens that a future has to see, if there is such a future.
LEMMA HappenPosts ==
  ASSUME IInv, NEW A, A \subseteq Kept, NEW g \in Futures, Happen(g)
  PROVE  Quiet(A) \/ Posts(A)
<1>1. \A f \in A : f \in Futures /\ f \in Kept
  BY DEF Kept, Futures
<1>2. /\ \A f \in A : f # g => posted'[f] = posted[f]
      /\ posted'[g] = Live(g)
  BY <1>1 DEF Happen, IInv, Posted
<1>3. CASE g \notin A
  BY <1>2, <1>3 DEF Quiet
<1>4. CASE g \in A /\ Live(g)
  BY <1>2, <1>4, Zenon DEF Posts
<1>5. CASE g \in A /\ ~Live(g)
  <2>1. ~posted[g] /\ ~posted'[g]
    BY <1>1, <1>2, <1>5, PostedLive DEF IInv, WakeInv
  <2>2. posted[g] = FALSE /\ posted'[g] = FALSE
    BY <1>2, <1>5, <2>1 DEF IInv, Posted, Live
  <2> QED
    BY <1>2, <2>2, Zenon DEF Quiet
<1> QED
  BY <1>3, <1>4, <1>5

\* Every step leaves the posts of the futures A alone, posts one, or is one of a
\* run() that does not sleep.
LEMMA StepPosts ==
  ASSUME IInv, [Next]_vars, NEW A, A \subseteq Kept
  PROVE  Quiet(A) \/ Posts(A) \/ Sees(A)
<1>1. \A f \in A : f \in Futures
  BY DEF Kept, Futures
<1>2. CASE posted' = posted
  BY <1>2 DEF Quiet
<1>3. ASSUME NEW f \in Futures, Wake(f) PROVE Quiet(A) \/ Posts(A)
  BY <1>3, HappenPosts DEF Wake
<1>4. CASE Wakes
  BY <1>2, <1>4, HappenPosts DEF Wakes
<1>5. ASSUME NEW t \in Tasks, Cancel(t) PROVE Quiet(A) \/ Posts(A) \/ Sees(A)
  BY <1>4, <1>5, CancelWakes DEF IInv, QInv, Shape
<1>6. CASE Finish
  BY <1>4, <1>6, FinishWakes DEF IInv, QInv, Shape
<1>7. ASSUME NEW th \in Threads, NEW f \in Futures, RemotePost(th, f)
      PROVE  Quiet(A) \/ Posts(A)
  BY <1>7, HappenPosts DEF RemotePost
<1>8. ASSUME NEW m \in Mains, StartRun(m) PROVE Quiet(A) \/ Posts(A)
  <2>1. (\A f \in A : f # m => posted'[f] = posted[f]) /\ posted'[m]
    BY <1>1, <1>8 DEF StartRun, IInv, Posted, Futures
  <2>2. CASE m \in A
    BY <2>1, <2>2 DEF Posts
  <2>3. CASE m \notin A
    BY <2>1, <2>3 DEF Quiet
  <2> QED
    BY <2>2, <2>3
<1>9. ASSUME NEW f, posted' = [posted EXCEPT ![f] = FALSE]
      PROVE  \A g \in A : posted'[g] => posted[g]
  BY <1>1, <1>9 DEF IInv, Posted
<1>10. CASE Abandon
  <2>1. \A f \in A : posted'[f] => posted[f]
    BY <1>9, <1>10 DEF Abandon
  <2>2. CASE ~Sleeping
    BY <1>10, <2>1, <2>2 DEF Abandon, Sees, Sleeping
  <2>3. CASE Sleeping
    <3>1. \A f \in A : ~posted[f] /\ ~posted'[f]
      BY <2>1, <2>3, SleepersHaveSeen DEF NoLost
    <3>2. Posted'
      BY PostedNext DEF IInv
    <3>3. \A f \in A : posted[f] = FALSE /\ posted'[f] = FALSE
      BY <1>1, <3>1, <3>2 DEF IInv, Posted
    <3> QED
      BY <3>3, Zenon DEF Quiet
  <2> QED
    BY <2>2, <2>3
<1>11. CASE Observe \/ Discard
  BY <1>9, <1>11 DEF Observe, Discard, Sees, Sleeping
<1>12. CASE RunReturns
  BY <1>1, <1>12 DEF RunReturns, Sees, Sleeping
<1>13. CASE DrainLocal \/ DrainConcurrent
  <2>1. pc = "drain" /\ pc' \in {"drain", "poll"}
    BY <1>13 DEF DrainLocal, DrainConcurrent, Visit, StartPoll
  <2>2. \A f \in A : posted'[f] => posted[f]
    BY <1>9, <1>13 DEF DrainLocal, DrainConcurrent, Visit
  <2> QED
    BY <2>1, <2>2 DEF Sees, Sleeping
<1> QED
  BY <1>2, <1>3, <1>5, <1>6, <1>7, <1>8, <1>10, <1>11, <1>12, <1>13, Zenon
  DEF Next, User, Remote, RemoteWake, Step, Spawn, PollHandle, RemoteCas,
      RemotePush,
      RemoteTake, RemoteNotify, PollRun, register_base_waker, DrainLengths, PollMain,
      to_sleep, Pending,
      SkipSpawned, PollSpawned, RunPending, vars

\* If no run() is dropped, the wakers of all futures implement WakeCell, the
\* contract that Notifier keeps towards block_on: run() never sleeps through
\* anything that one of its futures has to see.
THEOREM Refinement ==
  ASSUME DropRun = FALSE
  PROVE  Spec => ImplementsWakeCell
<1>1. Init => Cell!Init
  BY DEF Init, Cell!Init, Sleeping
<1>2. IInv /\ IInv' /\ [Next]_vars => [Cell!Next]_(Cell!cellVars)
  <2> SUFFICES ASSUME IInv, IInv', [Next]_vars PROVE [Cell!Next]_(Cell!cellVars)
    OBVIOUS
  <2>1. posted \in [Futures -> BOOLEAN] /\ posted' \in [Futures -> BOOLEAN]
    BY DEF IInv, Posted
  <2>2. NoLost'
    BY SleepersHaveSeen, PTL
  <2>3. Sleeping' => \A f \in Futures : ~posted'[f]
    BY <2>2 DEF NoLost, Kept
  <2>4. CASE Quiet(Futures)
    <3>1. posted' = posted
      BY <2>1, <2>4 DEF Quiet
    <3>2. CASE Sleeping'
      <4>1. Cell!Sleep
        BY <2>3, <3>1, <3>2 DEF Cell!Sleep, Sleeping
      <4> QED
        BY <4>1 DEF Cell!Next
    <3>3. CASE ~Sleeping'
      BY <3>1, <3>3 DEF Cell!Next, Cell!Rouse, Sleeping
    <3> QED
      BY <3>2, <3>3
  <2>5. CASE Posts(Futures)
    <3>1. PICK f \in Futures :
            posted'[f] /\ \A g \in Futures \ {f} : posted'[g] = posted[g]
      BY <2>5 DEF Posts
    <3>2. posted' = [posted EXCEPT ![f] = TRUE]
      BY <2>1, <3>1
    <3>3. ~Sleeping'
      BY <2>3, <3>1
    <3>4. Cell!Post(f)
      BY <3>2, <3>3 DEF Cell!Post, Sleeping
    <3> QED
      BY <3>4 DEF Cell!Next
  <2>6. CASE Sees(Futures)
    <3> DEFINE seen == {f \in Futures : ~posted'[f]}
    <3>1. posted' = [f \in Futures |-> posted[f] /\ f \notin seen]
      BY <2>1, <2>6 DEF Sees
    <3>2. Cell!Observe(seen)
      BY <2>6, <3>1 DEF Sees, Sleeping, Cell!Observe
    <3> QED
      BY <3>2 DEF Cell!Next
  <2> QED
    BY <2>4, <2>5, <2>6, StepPosts DEF Kept
<1> QED
  BY <1>1, <1>2, Invariance, PTL DEF Spec, ImplementsWakeCell, Cell!Spec

\* The waker of the main future implements it even if earlier runs were dropped,
\* whatever they have left in the queue, in the slab and with other threads.
THEOREM MainRefinement == Spec => ImplementsMainCell
<1> DEFINE mposted == [m \in Mains |-> posted[m]]
<1>1. Init => MainCell!Init
  BY DEF Init, MainCell!Init, Sleeping, Futures
<1>2. IInv /\ IInv' /\ [Next]_vars => [MainCell!Next]_(MainCell!cellVars)
  <2> SUFFICES ASSUME IInv, IInv', [Next]_vars
               PROVE  [MainCell!Next]_(MainCell!cellVars)
    OBVIOUS
  <2>1. /\ \A m \in Mains : posted[m] \in BOOLEAN /\ posted'[m] \in BOOLEAN
        /\ Mains \subseteq Kept
    BY DEF IInv, Posted, Kept, Futures
  <2>2. NoLost'
    BY SleepersHaveSeen, PTL
  <2>3. Sleeping' => \A m \in Mains : ~posted'[m]
    BY <2>1, <2>2 DEF NoLost, Kept
  <2>4. CASE Quiet(Mains)
    <3>1. mposted' = mposted
      BY <2>4 DEF Quiet
    <3>2. CASE Sleeping'
      <4>1. MainCell!Sleep
        BY <2>3, <3>1, <3>2 DEF MainCell!Sleep, Sleeping
      <4> QED
        BY <4>1 DEF MainCell!Next
    <3>3. CASE ~Sleeping'
      BY <3>1, <3>3 DEF MainCell!Next, MainCell!Rouse, Sleeping
    <3> QED
      BY <3>2, <3>3
  <2>5. CASE Posts(Mains)
    <3>1. PICK f \in Mains :
            posted'[f] /\ \A g \in Mains \ {f} : posted'[g] = posted[g]
      BY <2>5 DEF Posts
    <3>2. mposted' = [mposted EXCEPT ![f] = TRUE]
      BY <2>1, <3>1, Zenon
    <3>3. ~Sleeping'
      BY <2>3, <3>1
    <3>4. MainCell!Post(f)
      BY <3>2, <3>3 DEF MainCell!Post, Sleeping
    <3> QED
      BY <3>4 DEF MainCell!Next
  <2>6. CASE Sees(Mains)
    <3>1. mposted' = [f \in Mains |->
                        mposted[f] /\ f \notin {g \in Mains : ~posted'[g]}]
      BY <2>1, <2>6 DEF Sees
    <3>2. PICK seen \in SUBSET Mains :
            mposted' = [f \in Mains |-> mposted[f] /\ f \notin seen]
      BY <3>1, Zenon
    <3>3. MainCell!Observe(seen)
      BY <2>6, <3>2 DEF Sees, Sleeping, MainCell!Observe
    <3> QED
      BY <3>3 DEF MainCell!Next
  <2> QED
    BY <2>1, <2>4, <2>5, <2>6, StepPosts
<1> QED
  BY <1>1, <1>2, Invariance, PTL DEF Spec, ImplementsMainCell, MainCell!Spec

===============================================================================
