-------------------------- MODULE ExecutorBoundProofs -------------------------
(***************************************************************************)
(* The wake queue of Executor is bounded by the wakers that are awoken,    *)
(* for any number of tasks, of main futures, of indices and of threads.    *)
(* Also the types of Executor, and that awaiters of handles are woken.     *)
(***************************************************************************)
EXTENDS ExecutorProofs, FiniteSetTheorems

Count(b) == IF b THEN 1 ELSE 0

Awoken == {f \in Futures : awoken[f]}
Pushing == {th \in Threads : wk[th].at = "push"}

-------------------------------------------------------------------------------
(* The invariant                                                           *)

\* Only a future that was polled has its waker with others, who may call it.
Handed ==
  /\ \A f \in Futures : awoken[f] => f \in handed
  /\ \A t \in Tasks : handle_waker[t] =>
       t \in handed \/ (t = cur /\ pc \in {"poll", "asleep"})
  /\ \A t \in Tasks : ret_waker[t] # None => ret_waker[t] \in handed
  /\ pc \in {"polling", "ready"} => cur \in handed
  /\ pc = "poll" /\ InFirstPoll => cur \notin handed

\* The index that reset() has put first is taken first, and the main future is
\* polled before run() returns for the first time.
FirstEntry ==
  main \in Mains \ handed =>
    \/ pc \in {"register", "len"} /\ local # <<>> /\ Head(local) = MAIN_TASK_ID
    \/ pc = "drain" /\ nlocal > 0 /\ Head(local) = MAIN_TASK_ID
    \/ pc \in {"drain", "poll", "asleep", "polling", "ready"} /\ main_task_awoken
    \/ pc \in {"poll", "asleep"} /\ cur = main

\* An index was taken from the queue, and the store of to_sleep() is to come.
Popped == pc = "poll" /\ ~InFirstPoll

\* The main future is not awoken although reset() has put it into the queue.
Fresh == main \in Mains \ handed /\ ~(pc = "asleep" /\ cur = main)

\* Every index in the queue, about to be pushed or just taken stands for a waker
\* that is awoken, but for that of reset().
Balance(l, c, p, m, o, a, e) == l + c + p + m + o <= a + e

Accounted ==
  Balance(Len(local), Len(concurrent), Cardinality(Pushing),
          Count(main_task_awoken), Count(Popped), Cardinality(Awoken), Count(Fresh))

BoundInv == Handed /\ FirstEntry /\ IsFiniteSet(Pushing) /\ Accounted

-------------------------------------------------------------------------------
(* Who may call a waker                                                    *)

\* A step that calls no waker, polls no future and hands nothing out.
LEMMA HandedKept ==
  ASSUME Handed, UNCHANGED <<awoken, handle_waker, ret_waker, handed>>,
         pc' \notin {"poll", "asleep", "polling", "ready"},
         pc \notin {"poll", "asleep"}
  PROVE  Handed'
BY DEF Handed

\* A waker is called by those who have it.
LEMMA HandedNext == Shape /\ Handed /\ [Next]_vars => Handed'
<1> SUFFICES ASSUME Loop, Slab, Wakers, Callers, Handed, [Next]_vars PROVE Handed'
  BY DEF Shape
<1> USE DEF queueVars, handleVars, userVars
<1>1. CASE UNCHANGED <<awoken, handle_waker, ret_waker, handed, pc, cur, tasks, task_id>>
  BY <1>1 DEF Handed, InFirstPoll, Stored
<1>2. ASSUME NEW f \in Futures, Wake(f) PROVE Handed'
  <2>1. \A g \in Futures : awoken'[g] <=> g = f \/ awoken[g]
    BY <1>2, LocalWakeDoes, Zenon DEF Wake
  <2> QED
    BY <1>2, <2>1 DEF Wake, Handed
<1>3. ASSUME NEW t \in Tasks, Spawn(t) PROVE Handed'
  BY <1>3 DEF Spawn, Handed
<1>4. ASSUME NEW t \in Tasks, Cancel(t) PROVE Handed'
  <2>1. CASE handle_waker[t]
    <3>1. t \in Futures /\ t \in handed
      BY <1>4, <2>1 DEF Cancel, Handed, Futures
    <3>2. \A g \in Futures : awoken'[g] <=> g = t \/ awoken[g]
      BY <1>4, <2>1, <3>1, LocalWakeDoes, Zenon DEF Cancel
    <3> QED
      BY <1>4, <3>1, <3>2 DEF Cancel, Handed, Wakers
  <2>2. CASE ~handle_waker[t]
    BY <1>4, <2>2 DEF Cancel, Handed, Wakers
  <2> QED
    BY <2>1, <2>2
<1>5. ASSUME NEW t \in Tasks, PollHandle(t) PROVE Handed'
  BY <1>5 DEF PollHandle, Handed, Wakers
<1>6. ASSUME NEW th \in Threads, RemoteCas(th) PROVE Handed'
  BY <1>6 DEF RemoteCas, Handed, Wakers, Callers, InFirstPoll, Stored
<1>7. ASSUME NEW m \in Mains, StartRun(m) PROVE Handed'
  BY <1>7, HandedKept DEF StartRun
<1>8. CASE PollRun \/ register_base_waker
  BY <1>8, HandedKept DEF PollRun, register_base_waker
<1>9. CASE Abandon
  BY <1>9, HandedKept DEF Abandon
<1>10. CASE DrainLengths
  BY <1>10, HandedKept DEF DrainLengths
<1>11. CASE DrainLocal \/ DrainConcurrent
  <2>1. UNCHANGED <<awoken, handle_waker, ret_waker, handed, task_id>> /\ pc = "drain"
    BY <1>11 DEF DrainLocal, DrainConcurrent
  <2>2. CASE UNCHANGED <<cur, pc>>
    BY <2>1, <2>2 DEF Handed
  <2>3. CASE cur' \in Tasks /\ Stored(cur') /\ pc' = "poll"
    <3>1. ~InFirstPoll'
      BY <1>11, <2>1, <2>3, Apart DEF InFirstPoll, Stored, DrainLocal,
         DrainConcurrent, Visit, StartPoll, Slab
    <3> QED
      BY <2>1, <2>3, <3>1 DEF Handed
  <2> QED
    BY <1>11, <2>2, <2>3, VisitDoes, Zenon
<1>12. CASE PollMain
  BY <1>12, Apart DEF PollMain, StartPoll, Handed, Loop, InFirstPoll
<1>13. CASE to_sleep
  BY <1>13 DEF to_sleep, Handed, Wakers
<1>14. CASE Observe
  BY <1>14, Apart DEF Observe, Handed, Loop, Futures
<1>15. CASE Pending
  BY <1>15, HandedKept DEF Pending
<1>16. CASE Finish
  <2>1. CASE ret_waker[cur] = None
    BY <1>16, <2>1 DEF Finish, Handed, Wakers
  <2>2. CASE ret_waker[cur] # None
    <3>1. ret_waker[cur] \in Futures /\ ret_waker[cur] \in handed
      BY <1>16, <2>2 DEF Finish, Handed, Wakers
    <3>2. \A g \in Futures : awoken'[g] <=> g = ret_waker[cur] \/ awoken[g]
      BY <1>16, <2>2, <3>1, LocalWakeDoes, Zenon DEF Finish
    <3> QED
      BY <1>16, <3>1, <3>2 DEF Finish, Handed, Wakers
  <2> QED
    BY <2>1, <2>2
<1>17. CASE Discard
  BY <1>17, HandedKept DEF Discard
<1>18. CASE RunReturns
  BY <1>18, HandedKept DEF RunReturns
<1>19. ASSUME NEW k \in Keys, PollSpawned(k) PROVE Handed'
  BY <1>19, SpawnedTop, Apart DEF PollSpawned, waker_pair, from_spawned, StartPoll,
     Handed, Wakers, Futures
<1>20. CASE RunPending
  BY <1>20, HandedKept DEF RunPending
<1> QED
  BY <1>1, <1>2, <1>3, <1>4, <1>5, <1>6, <1>7, <1>8, <1>9, <1>10, <1>11, <1>12,
     <1>13, <1>14, <1>15, <1>16, <1>17, <1>18, <1>19, <1>20
  DEF Next, User, Remote, RemoteWake, Step, RemotePost, RemotePush, RemoteTake,
      RemoteNotify, SkipSpawned, vars

-------------------------------------------------------------------------------
(* The index of the main future comes first                                *)

\* The main future is polled before run() returns Pending or panics.
LEMMA FirstEntryNext == Shape /\ Drained /\ FirstEntry /\ [Next]_vars => FirstEntry'
<1> SUFFICES ASSUME Loop, Queues, Slab, Drained, FirstEntry, [Next]_vars
    PROVE FirstEntry'
  BY DEF Shape
<1> USE DEF queueVars, handleVars, userVars, drainVars
<1>1. CASE UNCHANGED <<pc, cur, main, handed, nlocal, local, main_task_awoken>>
  BY <1>1 DEF FirstEntry
<1>2. CASE \/ \E f \in Futures : Wake(f)
           \/ \E t \in Tasks : Cancel(t)
           \/ Finish
  <2>1. /\ UNCHANGED <<cur, main, handed, main_task_awoken>>
        /\ pc \in {"polling", "idle", "off"}
        /\ pc' = pc \/ (pc = "polling" /\ pc' = "ready")
    BY <1>2 DEF Wake, Cancel, Finish
  <2> QED
    BY <2>1 DEF FirstEntry
<1>3. ASSUME NEW t \in Tasks, Spawn(t) PROVE FirstEntry'
  BY <1>3 DEF Spawn, FirstEntry, Drained
<1>4. ASSUME NEW m \in Mains, StartRun(m) PROVE FirstEntry'
  <2>1. local' = <<MAIN_TASK_ID>> /\ pc' = "register"
    BY <1>4 DEF StartRun, reset
  <2> QED
    BY <2>1 DEF FirstEntry
<1>5. CASE PollRun \/ register_base_waker
  BY <1>5 DEF PollRun, register_base_waker, FirstEntry
<1>6. CASE Abandon \/ RunReturns
  BY <1>6, Apart DEF Abandon, RunReturns, FirstEntry
<1>7. CASE DrainLengths
  BY <1>7 DEF DrainLengths, FirstEntry, Queues
<1>8. CASE DrainLocal
  <2>1. main \in Mains \ handed =>
          \/ Head(local) = MAIN_TASK_ID
          \/ main_task_awoken
    BY <1>8 DEF DrainLocal, FirstEntry
  <2>2. /\ main_task_awoken => main_task_awoken'
        /\ Head(local) = MAIN_TASK_ID => main_task_awoken'
        /\ pc' \in {"drain", "poll"}
    BY <1>8, Apart DEF DrainLocal, Visit, StartPoll
  <2> QED
    BY <1>8, <2>1, <2>2 DEF DrainLocal, FirstEntry
<1>9. CASE DrainConcurrent
  <2>1. main \in Mains \ handed => main_task_awoken
    BY <1>9 DEF DrainConcurrent, FirstEntry
  <2>2. (main_task_awoken => main_task_awoken') /\ pc' \in {"drain", "poll"}
    BY <1>9 DEF DrainConcurrent, Visit, StartPoll
  <2> QED
    BY <1>9, <2>1, <2>2 DEF DrainConcurrent, FirstEntry
<1>10. CASE PollMain
  BY <1>10 DEF PollMain, StartPoll, FirstEntry
<1>11. CASE to_sleep
  BY <1>11 DEF to_sleep, FirstEntry
<1>12. CASE Observe
  BY <1>12 DEF Observe, FirstEntry
<1>13. CASE Pending \/ Discard
  <2>1. main \in Mains \ handed => main_task_awoken
    BY <1>13 DEF Pending, Discard, FirstEntry
  <2>2. main_task_awoken => cur \in Tasks /\ Stored(cur)
    BY <1>13 DEF Pending, Discard, Drained, InFirstPoll, Loop
  <2> QED
    BY <1>13, <2>1, <2>2 DEF Pending, Discard, FirstEntry
<1>14. ASSUME NEW k \in Keys, PollSpawned(k) PROVE FirstEntry'
  BY <1>14 DEF PollSpawned, StartPoll, from_spawned, FirstEntry
<1>15. CASE RunPending
  BY <1>15 DEF RunPending, FirstEntry
<1> QED
  BY <1>1, <1>2, <1>3, <1>4, <1>5, <1>6, <1>7, <1>8, <1>9, <1>10, <1>11, <1>12,
     <1>13, <1>14, <1>15
  DEF Next, User, Remote, RemoteWake, Step, PollHandle, RemotePost, RemoteCas,
      RemotePush, RemoteTake, RemoteNotify, SkipSpawned, vars

-------------------------------------------------------------------------------
(* The count                                                               *)

\* Everything that is counted is finite.
LEMMA Counted ==
  ASSUME Queues, IsFiniteSet(Pushing)
  PROVE  /\ Len(local) \in Nat /\ Len(concurrent) \in Nat
         /\ Cardinality(Pushing) \in Nat
         /\ IsFiniteSet(Awoken) /\ Cardinality(Awoken) \in Nat
<1>1. IsFiniteSet(Awoken)
  BY ExecutorAssumption, FS_Subset DEF Awoken
<1> QED
  BY <1>1, FS_CardinalityType DEF Queues

\* One more waker is awoken.
LEMMA AwokenGrows ==
  ASSUME NEW f \in Futures, ~awoken[f], \A g \in Futures : awoken'[g] <=> g = f \/ awoken[g]
  PROVE  Cardinality(Awoken') = Cardinality(Awoken) + 1
<1>1. IsFiniteSet(Awoken)
  BY ExecutorAssumption, FS_Subset DEF Awoken
<1>2. Awoken' = Awoken \cup {f} /\ f \notin Awoken
  BY DEF Awoken
<1> QED
  BY <1>1, <1>2, FS_AddElement

\* The store of to_sleep() counts for one waker at most.
LEMMA AwokenShrinks ==
  ASSUME NEW f, \A g \in Futures : awoken'[g] <=> g # f /\ awoken[g]
  PROVE  /\ Cardinality(Awoken') \in Nat
         /\ Cardinality(Awoken) <= Cardinality(Awoken') + 1
         /\ f \notin Awoken => Awoken' = Awoken
<1>1. IsFiniteSet(Awoken)
  BY ExecutorAssumption, FS_Subset DEF Awoken
<1>2. Awoken' = Awoken \ {f}
  BY DEF Awoken
<1>3. Cardinality(Awoken) \in Nat
  BY <1>1, FS_CardinalityType
<1>4. CASE f \in Awoken
  <2>1. Cardinality(Awoken') = Cardinality(Awoken) - 1
    BY <1>1, <1>2, <1>4, FS_RemoveElement
  <2>2. Cardinality(Awoken') \in Nat
    BY <1>1, <1>2, FS_RemoveElement, FS_CardinalityType
  <2> QED
    BY <1>3, <1>4, <2>1, <2>2
<1>5. CASE f \notin Awoken
  <2>1. Awoken' = Awoken
    BY <1>2, <1>5
  <2> QED
    BY <2>1, <1>3, <1>5
<1> QED
  BY <1>4, <1>5

\* A step that leaves the queues and the flags alone.
LEMMA AccountedKept ==
  ASSUME Queues, IsFiniteSet(Pushing), Accounted, Pushing' = Pushing,
         UNCHANGED <<local, concurrent, awoken, main_task_awoken>>,
         Popped' => Popped, Fresh => Fresh'
  PROVE  Accounted'
<1>1. Awoken' = Awoken
  BY DEF Awoken
<1>2. /\ Count(main_task_awoken') = Count(main_task_awoken)
      /\ Count(Popped') <= Count(Popped) /\ Count(Fresh) <= Count(Fresh')
      /\ Count(main_task_awoken) \in Nat
      /\ Count(Popped) \in Nat /\ Count(Popped') \in Nat
      /\ Count(Fresh) \in Nat /\ Count(Fresh') \in Nat
  BY DEF Count
<1> QED
  BY <1>1, <1>2, Counted, SMTT(30) DEF Accounted, Balance

\* One more index for one more waker.
LEMMA BalanceWake ==
  ASSUME NEW l \in Nat, NEW c \in Nat, NEW p \in Nat, NEW m \in Nat, NEW o \in Nat,
         NEW a \in Nat, NEW e \in Nat, NEW f \in Nat,
         Balance(l, c, p, m, o, a, e), e <= f
  PROVE  Balance(l + 1, c, p, m, 0, a + 1, f)
BY DEF Balance

\* An index leaves one of the queues and is the main future's, or another that is
\* polled.
LEMMA BalanceTake ==
  ASSUME NEW l \in Nat, NEW c \in Nat, NEW p \in Nat, NEW m \in Nat,
         NEW a \in Nat, NEW e \in Nat,
         NEW k \in Nat, NEW d \in Nat, NEW n \in Nat, NEW o \in Nat,
         Balance(l, c, p, m, 0, a, e), k + d = l + c - 1, n + o <= m + 1
  PROVE  Balance(k, d, p, n, o, a, e)
BY DEF Balance

\* A call of wake() by the executor's thread.
LEMMA AccountedWakes ==
  ASSUME Queues, Slab, Wakers, IsFiniteSet(Pushing), Accounted, Wakes,
         UNCHANGED <<main_task_awoken, wk>>, ~Popped', Fresh => Fresh'
  PROVE  Accounted'
<1>0. Pushing' = Pushing
  BY DEF Pushing
<1>1. CASE UNCHANGED queueVars
  BY <1>0, <1>1, AccountedKept DEF queueVars
<1>2. ASSUME NEW f \in Futures, task_id[f] # None, LocalWake(f), awoken[f]
      PROVE  Accounted'
  BY <1>0, <1>2, AccountedKept DEF LocalWake, queueVars
<1>3. ASSUME NEW f \in Futures, task_id[f] # None, LocalWake(f), ~awoken[f]
      PROVE  Accounted'
  <2>1. concurrent' = concurrent /\ local' = Append(local, task_id[f])
    BY <1>3, LocalWakeDoes, Zenon
  <2>2. task_id[f] \in Ids
    BY <1>3 DEF Slab
  <2>3. Len(local') = Len(local) + 1
    BY <2>1, <2>2, PushedSet DEF Queues
  <2>4. \A g \in Futures : awoken'[g] <=> g = f \/ awoken[g]
    BY <1>3, LocalWakeDoes, Zenon
  <2>5. Cardinality(Awoken') = Cardinality(Awoken) + 1
    BY <1>3, <2>4, AwokenGrows
  <2>6. /\ Count(main_task_awoken') = Count(main_task_awoken)
        /\ Count(Popped') = 0 /\ Count(Fresh) <= Count(Fresh')
        /\ Count(main_task_awoken) \in Nat /\ Count(Popped) \in Nat
        /\ Count(Fresh) \in Nat /\ Count(Fresh') \in Nat
    BY DEF Count
  <2>7. Balance(Len(local) + 1, Len(concurrent), Cardinality(Pushing),
                Count(main_task_awoken), 0, Cardinality(Awoken) + 1, Count(Fresh'))
    BY <2>6, Counted, BalanceWake, ZenonT(30) DEF Accounted
  <2> QED
    BY <1>0, <2>1, <2>3, <2>5, <2>6, <2>7, Zenon DEF Accounted
<1> QED
  BY <1>1, <1>2, <1>3 DEF Wakes

\* An index is taken from one of the queues.
LEMMA AccountedTaken ==
  ASSUME Queues, IsFiniteSet(Pushing), Accounted, DrainLocal \/ DrainConcurrent
  PROVE  Accounted'
<1>1. /\ Len(local') \in Nat /\ Len(concurrent') \in Nat
      /\ Len(local') + Len(concurrent') = Len(local) + Len(concurrent) - 1
  <2>1. CASE DrainLocal
    <3>1. Tail(local) \in Seq(Ids) /\ Len(Tail(local)) = Len(local) - 1
      BY <2>1, PoppedSet DEF DrainLocal, Queues, Draining
    <3> QED
      BY <2>1, <3>1 DEF DrainLocal, Queues
  <2>2. CASE DrainConcurrent
    <3>1. Tail(concurrent) \in Seq(Ids) /\ Len(Tail(concurrent)) = Len(concurrent) - 1
      BY <2>2, PoppedSet DEF DrainConcurrent, Queues, Draining
    <3> QED
      BY <2>2, <3>1 DEF DrainConcurrent, Queues
  <2> QED
    BY <2>1, <2>2
<1>2. /\ pc = "drain" /\ UNCHANGED <<awoken, wk, main, handed>>
      /\ \/ UNCHANGED <<pc, cur>>
         \/ pc' = "poll" /\ UNCHANGED main_task_awoken
  BY DEF DrainLocal, DrainConcurrent, Visit, StartPoll, userVars
<1>3. Awoken' = Awoken /\ Pushing' = Pushing
  BY <1>2 DEF Awoken, Pushing
<1>4. /\ Count(main_task_awoken') + Count(Popped') <= Count(main_task_awoken) + 1
      /\ Count(Popped) = 0 /\ Count(Fresh') = Count(Fresh)
      /\ Count(main_task_awoken) \in Nat /\ Count(main_task_awoken') \in Nat
      /\ Count(Popped') \in Nat /\ Count(Fresh) \in Nat
  BY <1>2 DEF Count, Popped, Fresh
<1>5. /\ Len(local) \in Nat /\ Len(concurrent) \in Nat
      /\ Cardinality(Pushing) \in Nat /\ Cardinality(Awoken) \in Nat
  BY Counted
<1>6. Balance(Len(local), Len(concurrent), Cardinality(Pushing),
              Count(main_task_awoken), 0, Cardinality(Awoken), Count(Fresh))
  BY <1>4 DEF Accounted
<1>7. Balance(Len(local'), Len(concurrent'), Cardinality(Pushing),
              Count(main_task_awoken'), Count(Popped'), Cardinality(Awoken), Count(Fresh))
  BY <1>1, <1>4, <1>5, <1>6, BalanceTake, ZenonT(60)
<1> QED
  BY <1>3, <1>4, <1>7, Zenon DEF Accounted

\* The call of wake() by another thread.
LEMMA AccountedRemote ==
  ASSUME Queues, Slab, Wakers, Callers, IsFiniteSet(Pushing), Accounted,
         NEW th \in Threads, RemoteWake(th) \/ \E f \in Futures : RemotePost(th, f)
  PROVE  IsFiniteSet(Pushing') /\ Accounted'
<1> USE DEF queueVars, userVars, drainVars
<1>0. /\ UNCHANGED <<local, main_task_awoken, pc, cur, main, handed, tasks, task_id>>
      /\ Popped' = Popped /\ Fresh' = Fresh
  BY DEF RemoteWake, RemoteCas, RemotePush, RemoteTake, RemoteNotify, RemotePost,
     Popped, Fresh, InFirstPoll, Stored
<1>1. CASE UNCHANGED <<concurrent, awoken>> /\ Pushing' = Pushing
  BY <1>0, <1>1, AccountedKept
<1>2. CASE RemoteCas(th) /\ awoken[wk[th].of]
  <2>1. Awoken' = Awoken /\ concurrent' = concurrent
    BY <1>2 DEF RemoteCas, Awoken, Wakers, Callers
  <2>2. Pushing' = Pushing
    BY <1>2 DEF RemoteCas, Pushing, Callers, Idle
  <2> QED
    BY <1>0, <2>1, <2>2 DEF Accounted, Balance
<1>3. CASE RemoteCas(th) /\ ~awoken[wk[th].of]
  <2>1. wk[th].of \in Futures /\ \A g \in Futures : awoken'[g] <=> g = wk[th].of \/ awoken[g]
    BY <1>3 DEF RemoteCas, Wakers, Callers
  <2>2. Cardinality(Awoken') = Cardinality(Awoken) + 1
    BY <1>3, <2>1, AwokenGrows
  <2>3. Pushing' = Pushing \cup {th} /\ th \notin Pushing
    BY <1>3 DEF RemoteCas, Pushing, Callers
  <2>4. IsFiniteSet(Pushing') /\ Cardinality(Pushing') = Cardinality(Pushing) + 1
    BY <2>3, FS_AddElement
  <2>5. Count(main_task_awoken) \in Nat /\ Count(Popped) \in Nat /\ Count(Fresh) \in Nat
    BY DEF Count
  <2>6. concurrent' = concurrent
    BY <1>3 DEF RemoteCas
  <2> QED
    BY <1>0, <2>2, <2>4, <2>5, <2>6, Counted, SMTT(30) DEF Accounted, Balance
<1>4. CASE RemotePush(th)
  <2>1. task_id[wk[th].of] \in Ids
    BY <1>4 DEF RemotePush, Slab, Wakers, Callers
  <2>2. Len(concurrent') = Len(concurrent) + 1
    BY <1>4, <2>1, PushedSet DEF RemotePush, Queues
  <2>3. Pushing' = Pushing \ {th} /\ th \in Pushing
    BY <1>4 DEF RemotePush, Pushing, Callers
  <2>4. IsFiniteSet(Pushing') /\ Cardinality(Pushing') = Cardinality(Pushing) - 1
    BY <2>3, FS_RemoveElement
  <2>5. Count(main_task_awoken) \in Nat /\ Count(Popped) \in Nat /\ Count(Fresh) \in Nat
    BY DEF Count
  <2>6. Awoken' = Awoken
    BY <1>4 DEF RemotePush, Awoken
  <2> QED
    BY <1>0, <2>2, <2>4, <2>5, <2>6, Counted DEF Accounted, Balance
<1>5. CASE RemoteTake(th) \/ RemoteNotify(th) \/ \E f \in Futures : RemotePost(th, f)
  <2>1. UNCHANGED <<concurrent, awoken>>
    BY <1>5 DEF RemoteTake, RemoteNotify, RemotePost
  <2>2. /\ \A r \in Threads \ {th} : wk'[r] = wk[r]
        /\ wk[th].at # "push" /\ wk'[th].at # "push"
    BY <1>5 DEF RemoteTake, RemoteNotify, RemotePost, Callers, Idle
  <2>3. Pushing' = Pushing
    BY <2>2 DEF Pushing
  <2> QED
    BY <1>1, <2>1, <2>3
<1> QED
  BY <1>2, <1>3, <1>4, <1>5 DEF RemoteWake

\* The store of to_sleep() takes the flag of a waker whose index was taken, or
\* whose index reset() has put there, or leaves all flags as they were.
LEMMA AccountedSleep ==
  ASSUME Loop, Queues, Slab, Wakers, Handed, IsFiniteSet(Pushing), Accounted, to_sleep
  PROVE  Accounted'
<1>1. /\ pc = "poll" /\ cur \in Futures
      /\ UNCHANGED <<local, concurrent, main_task_awoken, wk, main, handed, cur>>
      /\ pc' = "asleep"
  BY DEF to_sleep, Loop, Futures, drainVars, userVars
<1>2. \A g \in Futures : awoken'[g] <=> g # cur /\ awoken[g]
  BY <1>1 DEF to_sleep, Wakers
<1>3. Pushing' = Pushing
  BY <1>1 DEF Pushing
<1>4. /\ Cardinality(Awoken') \in Nat
      /\ Cardinality(Awoken) <= Cardinality(Awoken') + 1
      /\ cur \notin Awoken => Awoken' = Awoken
  BY <1>2, AwokenShrinks
<1>5. Count(main_task_awoken) \in Nat
  BY DEF Count
<1>6. ~Popped'
  BY <1>1 DEF Popped
<1>7. CASE cur = main /\ main \in Mains \ handed
  <2>1. cur \notin Awoken
    BY <1>7 DEF Handed, Awoken
  <2>2. Popped /\ Fresh /\ ~Fresh'
    BY <1>1, <1>7, Apart DEF Popped, Fresh, InFirstPoll
  <2>3. /\ Count(Popped) = 1 /\ Count(Fresh) = 1
        /\ Count(Popped') = 0 /\ Count(Fresh') = 0
    BY <1>6, <2>2 DEF Count
  <2> QED
    BY <1>1, <1>3, <1>4, <1>5, <2>1, <2>3, Counted DEF Accounted, Balance
<1>8. CASE ~(cur = main /\ main \in Mains \ handed)
  <2>1. Fresh' = Fresh
    BY <1>1, <1>8 DEF Fresh
  <2>2. CASE Popped
    <3>1. Count(Popped) = 1 /\ Count(Popped') = 0 /\ Count(Fresh) \in Nat
      BY <1>6, <2>2 DEF Count
    <3> QED
      BY <1>1, <1>3, <1>4, <1>5, <2>1, <3>1, Counted DEF Accounted, Balance
  <2>3. CASE ~Popped
    <3>1. cur \notin Awoken
      BY <1>1, <2>3 DEF Popped, Handed, Awoken
    <3>2. Count(Popped) = 0 /\ Count(Popped') = 0 /\ Count(Fresh) \in Nat
      BY <1>6, <2>3 DEF Count
    <3> QED
      BY <1>1, <1>3, <1>4, <1>5, <2>1, <3>1, <3>2, Counted DEF Accounted, Balance
  <2> QED
    BY <2>2, <2>3
<1> QED
  BY <1>7, <1>8

\* reset() leaves one index, for a waker that is not awoken.
LEMMA AccountedStart ==
  ASSUME Loop, Queues, Wakers, IsFiniteSet(Pushing), Accounted,
         NEW m \in Mains, StartRun(m)
  PROVE  Accounted'
<1>1. /\ pc = "off" /\ main = None /\ pc' = "register" /\ main' = m
      /\ UNCHANGED <<awoken, main_task_awoken, wk, handed>>
      /\ local' = <<MAIN_TASK_ID>> /\ concurrent' = <<>>
  BY DEF StartRun, reset, drainVars, userVars, Loop
<1>2. m \notin handed
  BY DEF StartRun, waker_pair, Wakers
<1>3. Awoken' = Awoken /\ Pushing' = Pushing
  BY <1>1 DEF Awoken, Pushing
<1>4. /\ Count(Popped) = 0 /\ Count(Popped') = 0
      /\ Count(Fresh) = 0 /\ Count(Fresh') = 1
      /\ Count(main_task_awoken') = Count(main_task_awoken)
      /\ Count(main_task_awoken) \in Nat
  BY <1>1, <1>2, Apart DEF Count, Popped, Fresh
<1>5. Len(local') = 1 /\ Len(concurrent') = 0
  BY <1>1
<1>6. Cardinality(Pushing) + Count(main_task_awoken) <= Cardinality(Awoken)
  BY <1>4, Counted DEF Accounted, Balance
<1> QED
  BY <1>3, <1>4, <1>5, <1>6, Counted DEF Accounted, Balance

\* The main future is polled because its index was found, or it is not polled.
LEMMA AccountedMain ==
  ASSUME Loop, Queues, IsFiniteSet(Pushing), Accounted, PollMain
  PROVE  Accounted'
<1>1. /\ pc = "drain" /\ pc' \in {"poll", "spawned"}
      /\ UNCHANGED <<local, concurrent, awoken, wk, main, handed>>
      /\ ~main_task_awoken'
      /\ main_task_awoken => pc' = "poll" /\ cur' = main
      /\ ~main_task_awoken => pc' = "spawned"
  BY DEF PollMain, StartPoll, queueVars, userVars
<1>2. main_task_awoken <=> Popped'
  BY <1>1, Apart DEF Popped, InFirstPoll, Loop
<1>3. Awoken' = Awoken /\ Pushing' = Pushing
  BY <1>1 DEF Awoken, Pushing
<1>4. /\ Count(Popped) = 0 /\ Count(Popped') = Count(main_task_awoken)
      /\ Count(main_task_awoken') = 0 /\ Count(main_task_awoken) \in Nat
      /\ Count(Fresh') = Count(Fresh)
  BY <1>1, <1>2 DEF Count, Popped, Fresh
<1> QED
  BY <1>1, <1>3, <1>4, Counted DEF Accounted, Balance

\* No step has more indices in the queue than it has wakers awoken.
LEMMA AccountedNext ==
  ASSUME Shape, Drained, Handed, FirstEntry, IsFiniteSet(Pushing), Accounted, [Next]_vars
  PROVE  IsFiniteSet(Pushing') /\ Accounted'
<1> USE DEF queueVars, handleVars, userVars, drainVars
<1>0. Loop /\ Queues /\ Slab /\ Wakers /\ Callers
  BY DEF Shape
<1>1. ASSUME NEW th \in Threads, RemoteWake(th) \/ \E f \in Futures : RemotePost(th, f)
      PROVE  IsFiniteSet(Pushing') /\ Accounted'
  BY <1>0, <1>1, AccountedRemote
<1> SUFFICES ASSUME UNCHANGED wk PROVE Accounted'
  <2>1. CASE UNCHANGED wk
    BY <2>1 DEF Pushing
  <2>2. CASE ~UNCHANGED wk
    <3>1. \E th \in Threads : RemoteWake(th) \/ \E f \in Futures : RemotePost(th, f)
      BY <2>2, ZenonT(30)
      DEF Next, User, Remote, Step, Wake, Spawn, Cancel, PollHandle, StartRun,
         PollRun, register_base_waker, Abandon, DrainLengths, DrainLocal,
         DrainConcurrent, PollMain,
         to_sleep, Observe, Pending, Finish, Discard, RunReturns, SkipSpawned,
         PollSpawned, RunPending, vars
    <3> QED
      BY <1>1, <3>1, ZenonT(30)
  <2> QED
    BY <2>1, <2>2
<1>2. Pushing' = Pushing
  BY DEF Pushing
<1>3. CASE UNCHANGED vars
  BY <1>0, <1>2, <1>3, AccountedKept DEF vars, Popped, Fresh, InFirstPoll, Stored
<1>4. CASE (\E f \in Futures : Wake(f)) \/ (\E t \in Tasks : Cancel(t)) \/ Finish
  <2>1. Wakes
    BY <1>0, <1>4, WakeWakes, CancelWakes, FinishWakes
  <2>2. UNCHANGED main_task_awoken /\ ~Popped' /\ (Fresh => Fresh')
    BY <1>4 DEF Wake, Cancel, Finish, Popped, Fresh
  <2> QED
    BY <1>0, <2>1, <2>2, AccountedWakes
<1>5. CASE \/ \E t \in Tasks : Spawn(t) \/ PollHandle(t)
           \/ PollRun \/ register_base_waker \/ DrainLengths \/ Pending
           \/ Discard \/ SkipSpawned \/ RunPending
  <2>1. /\ UNCHANGED <<local, concurrent, awoken, main_task_awoken, main, handed>>
        /\ pc' \notin {"poll", "asleep"}
    BY <1>5, ZenonT(30) DEF Spawn, PollHandle, PollRun, register_base_waker,
         DrainLengths, Pending, Discard,
       SkipSpawned, RunPending
  <2> QED
    BY <1>0, <1>2, <2>1, AccountedKept, SMTT(30) DEF Popped, Fresh
<1>6. CASE Observe
  <2>1. /\ UNCHANGED <<local, concurrent, awoken, main_task_awoken>>
        /\ ~Popped' /\ (Fresh => Fresh')
    BY <1>6 DEF Observe, Popped, Fresh
  <2> QED
    BY <1>0, <1>2, <2>1, AccountedKept
<1>7. CASE Abandon \/ RunReturns
  <2>1. UNCHANGED <<local, concurrent, awoken, main_task_awoken>> /\ ~Popped'
    BY <1>7 DEF Abandon, RunReturns, Popped
  <2>2. ~Fresh
    BY <1>0, <1>7, Apart DEF Abandon, RunReturns, FirstEntry, Handed, Loop, Fresh
  <2> QED
    BY <1>0, <1>2, <2>1, <2>2, AccountedKept
<1>8. ASSUME NEW k \in Keys, PollSpawned(k) PROVE Accounted'
  <2>1. UNCHANGED <<local, concurrent, awoken, main_task_awoken, main, handed>>
    BY <1>8 DEF PollSpawned
  <2>2. InFirstPoll' /\ pc' = "poll"
    BY <1>0, <1>8, PollSpawnedStores DEF PollSpawned, StartPoll, InFirstPoll
  <2> QED
    BY <1>0, <1>2, <2>1, <2>2, AccountedKept DEF Popped, Fresh
<1>9. ASSUME NEW m \in Mains, StartRun(m) PROVE Accounted'
  BY <1>0, <1>9, AccountedStart
<1>10. CASE DrainLocal \/ DrainConcurrent
  BY <1>0, <1>10, AccountedTaken
<1>11. CASE PollMain
  BY <1>0, <1>11, AccountedMain
<1>12. CASE to_sleep
  BY <1>0, <1>12, AccountedSleep
<1> QED
  BY <1>1, <1>3, <1>4, <1>5, <1>6, <1>7, <1>8, <1>9, <1>10, <1>11, <1>12
  DEF Next, User, Remote, Step

-------------------------------------------------------------------------------
(* The types                                                               *)

\* What the proofs above do without.
Flags ==
  /\ base_waker \in BOOLEAN /\ notified \in BOOLEAN /\ main_task_awoken \in BOOLEAN
  /\ awoken \in [Futures -> BOOLEAN] /\ posted \in [Futures -> BOOLEAN]
  /\ cancelled \in [Tasks -> BOOLEAN] /\ handle_waker \in [Tasks -> BOOLEAN]

Rest ==
  /\ value \in [Tasks -> {"none", "some", "taken"}]
  /\ cur \in Futures \cup {None} /\ main \in Mains \cup {None}
  /\ born \subseteq Tasks

\* Setting a flag.
LEMMA FlagSet ==
  ASSUME NEW S, NEW f \in [S -> BOOLEAN], NEW x, NEW b \in BOOLEAN
  PROVE  [f EXCEPT ![x] = b] \in [S -> BOOLEAN]
BY Zenon

\* A call of wake() leaves flags.
LEMMA WakesFlags ==
  ASSUME Flags, Wakes
  PROVE  /\ base_waker' \in BOOLEAN /\ notified' \in BOOLEAN
         /\ awoken' \in [Futures -> BOOLEAN] /\ posted' \in [Futures -> BOOLEAN]
<1>1. CASE UNCHANGED <<posted, queueVars, notified>>
  BY <1>1, Zenon DEF Flags, queueVars
<1>2. ASSUME NEW f \in Futures, Happen(f), LocalWake(f)
      PROVE  /\ base_waker' \in BOOLEAN /\ notified' \in BOOLEAN
             /\ awoken' \in [Futures -> BOOLEAN] /\ posted' \in [Futures -> BOOLEAN]
  <2>1. posted' \in [Futures -> BOOLEAN]
    <3>1. Live(f) \in BOOLEAN
      BY Zenon DEF Live
    <3> QED
      BY <1>2, <3>1, FlagSet, Zenon DEF Flags, Happen
  <2>2. awoken' \in [Futures -> BOOLEAN]
    BY <1>2, FlagSet, Zenon DEF Flags, LocalWake, queueVars
  <2>3. base_waker' \in BOOLEAN /\ notified' \in BOOLEAN
    BY <1>2, Zenon DEF Flags, LocalWake, BaseWake, queueVars
  <2> QED
    BY <2>1, <2>2, <2>3
<1> QED
  BY <1>1, <1>2, Zenon DEF Wakes

\* Every step leaves flags.
LEMMA FlagsNext == Wakers /\ Flags /\ [Next]_vars => Flags'
<1> SUFFICES ASSUME Wakers, Flags, [Next]_vars PROVE Flags'
  OBVIOUS
<1> USE DEF queueVars, handleVars, drainVars
<1>1. CASE UNCHANGED <<base_waker, notified, main_task_awoken, awoken, posted,
                       cancelled, handle_waker>>
  BY <1>1, Zenon DEF Flags
<1>2. ASSUME NEW f \in Futures, Wake(f) PROVE Flags'
  <2>1. UNCHANGED <<main_task_awoken, cancelled, handle_waker>>
    BY <1>2 DEF Wake
  <2> QED
    BY <1>2, <2>1, WakeWakes, WakesFlags, Zenon DEF Flags
<1>3. ASSUME NEW t \in Tasks, Cancel(t) PROVE Flags'
  <2>1. UNCHANGED main_task_awoken
    BY <1>3 DEF Cancel
  <2>2. cancelled' \in [Tasks -> BOOLEAN] /\ handle_waker' \in [Tasks -> BOOLEAN]
    BY <1>3, FlagSet, Zenon DEF Cancel, Flags
  <2> QED
    BY <1>3, <2>1, <2>2, CancelWakes, WakesFlags, Zenon DEF Flags
<1>4. CASE Finish
  <2>1. UNCHANGED <<main_task_awoken, cancelled, handle_waker>>
    BY <1>4 DEF Finish
  <2> QED
    BY <1>4, <2>1, FinishWakes, WakesFlags, Zenon DEF Flags
<1>5. ASSUME NEW th \in Threads, NEW f \in Futures, RemotePost(th, f) PROVE Flags'
  <2>1. Live(f) \in BOOLEAN
    BY Zenon DEF Live
  <2>2. posted' \in [Futures -> BOOLEAN]
    BY <1>5, <2>1, FlagSet, Zenon DEF Flags, Happen, RemotePost
  <2> QED
    BY <1>5, <2>2, Zenon DEF Flags, RemotePost
<1>6. ASSUME NEW th \in Threads, RemoteCas(th) PROVE Flags'
  <2>1. awoken' \in [Futures -> BOOLEAN]
    BY <1>6, FlagSet, Zenon DEF Flags, RemoteCas
  <2> QED
    BY <1>6, <2>1, Zenon DEF Flags, RemoteCas
<1>7. ASSUME NEW th \in Threads, RemoteTake(th) \/ RemoteNotify(th) PROVE Flags'
  BY <1>7, Zenon DEF Flags, RemoteTake, RemoteNotify
<1>8. ASSUME NEW m \in Mains, StartRun(m) PROVE Flags'
  <2>1. posted' \in [Futures -> BOOLEAN] /\ base_waker' \in BOOLEAN
    BY <1>8, FlagSet, Zenon DEF Flags, StartRun
  <2> QED
    BY <1>8, <2>1, Zenon DEF Flags, StartRun
<1>9. CASE PollRun \/ register_base_waker
  BY <1>9, Zenon DEF Flags, PollRun, register_base_waker
<1>10. CASE Abandon \/ Observe \/ Discard
  <2>1. posted' \in [Futures -> BOOLEAN]
    BY <1>10, FlagSet, Zenon DEF Flags, Abandon, Observe, Discard
  <2> QED
    BY <1>10, <2>1, Zenon DEF Flags, Abandon, Observe, Discard
<1>11. CASE DrainLocal \/ DrainConcurrent
  <2>1. UNCHANGED <<base_waker, notified, awoken, cancelled, handle_waker>>
    BY <1>11, Zenon DEF DrainLocal, DrainConcurrent
  <2>2. ASSUME NEW id, Visit(id)
        PROVE  main_task_awoken' \in BOOLEAN /\ posted' \in [Futures -> BOOLEAN]
    BY <2>2, FlagSet, Zenon DEF Flags, Visit
  <2> QED
    BY <1>11, <2>1, <2>2, Zenon DEF Flags, DrainLocal, DrainConcurrent
<1>12. CASE PollMain
  BY <1>12, Zenon DEF Flags, PollMain
<1>13. CASE to_sleep
  <2>1. awoken' \in [Futures -> BOOLEAN]
    BY <1>13, FlagSet, Zenon DEF Flags, to_sleep
  <2> QED
    BY <1>13, <2>1, Zenon DEF Flags, to_sleep
<1>14. CASE RunReturns
  <2>1. posted' \in [Futures -> BOOLEAN]
    BY <1>14, Zenon DEF RunReturns
  <2> QED
    BY <1>14, <2>1, Zenon DEF Flags, RunReturns
<1>15. ASSUME NEW k \in Keys, PollSpawned(k) PROVE Flags'
  <2>1. handle_waker' \in [Tasks -> BOOLEAN]
    BY <1>15, FlagSet, Zenon DEF Flags, PollSpawned, from_spawned
  <2> QED
    BY <1>15, <2>1, Zenon DEF Flags, PollSpawned
<1> QED
  BY <1>1, <1>2, <1>3, <1>4, <1>5, <1>6, <1>7, <1>8, <1>9, <1>10, <1>11, <1>12,
     <1>13, <1>14, <1>15, Zenon
  DEF Next, User, Remote, RemoteWake, Step, Spawn, PollHandle, RemotePush,
      DrainLengths, Pending, SkipSpawned, RunPending, vars

\* Every step leaves a future to poll or none, and a value or none.
LEMMA RestNext == Slab /\ Rest /\ [Next]_vars => Rest'
<1> SUFFICES ASSUME Slab, Rest, [Next]_vars PROVE Rest'
  OBVIOUS
<1> USE DEF handleVars, userVars
<1>1. CASE UNCHANGED <<value, cur, main, born>>
  BY <1>1 DEF Rest
<1>2. ASSUME NEW t \in Tasks, Spawn(t) \/ PollHandle(t) PROVE Rest'
  BY <1>2 DEF Rest, Spawn, PollHandle
<1>3. CASE Finish
  BY <1>3 DEF Rest, Finish
<1>4. ASSUME NEW m \in Mains, StartRun(m) PROVE Rest'
  BY <1>4 DEF Rest, StartRun
<1>5. CASE Abandon \/ RunReturns \/ Pending \/ Discard
  BY <1>5 DEF Rest, Abandon, RunReturns, Pending, Discard
<1>6. CASE DrainLocal \/ DrainConcurrent
  <2>1. ASSUME NEW id, Visit(id) PROVE cur' \in Futures \cup {None}
    BY <2>1 DEF Visit, StartPoll, Slab, Rest, Futures
  <2> QED
    BY <1>6, <2>1 DEF Rest, DrainLocal, DrainConcurrent
<1>7. CASE PollMain
  BY <1>7 DEF Rest, PollMain, StartPoll, Futures
<1>8. ASSUME NEW k \in Keys, PollSpawned(k) PROVE Rest'
  BY <1>8, SpawnedTop DEF Rest, PollSpawned, StartPoll, Futures
<1> QED
  BY <1>1, <1>2, <1>3, <1>4, <1>5, <1>6, <1>7, <1>8
  DEF Next, User, Remote, RemoteWake, Step, Wake, Cancel, RemotePost, RemoteCas,
      RemotePush, RemoteTake, RemoteNotify, PollRun, register_base_waker,
      DrainLengths, to_sleep, Observe,
      SkipSpawned, RunPending, vars

-------------------------------------------------------------------------------
(* The theorems                                                            *)

\* The invariant of this module, on top of that of ExecutorProofs.
LEMMA BoundInvInvariant == Spec => [](QInv /\ BoundInv)
<1>1. Init => BoundInv
  <2> SUFFICES ASSUME Init PROVE BoundInv
    OBVIOUS
  <2>1. Handed /\ FirstEntry
    BY Apart DEF Init, Handed, FirstEntry
  <2>2. Pushing = {} /\ Awoken = {}
    BY DEF Init, Pushing, Awoken, Idle
  <2>3. ~Popped /\ ~Fresh /\ ~main_task_awoken
    BY Apart DEF Init, Popped, Fresh
  <2>4. Len(local) = 0 /\ Len(concurrent) = 0
    BY DEF Init, NewExecutor, NewWakeQueue
  <2> QED
    BY <2>1, <2>2, <2>3, <2>4, FS_EmptySet DEF BoundInv, Accounted, Balance, Count
<1>2. QInv /\ BoundInv /\ [Next]_vars => BoundInv'
  BY HandedNext, FirstEntryNext, AccountedNext DEF BoundInv, QInv
<1> QED
  BY <1>1, <1>2, QInvInvariant, PTL DEF Spec

\* The queue does not grow without bound, however often wakers are called: apart
\* from the index that reset() puts there, each index in it, or about to be
\* pushed by another thread, has a waker of its own that is awoken and refuses
\* further calls.  An index of to_sleep() that was not taken, or a waker that
\* pushed twice, would break the count.
THEOREM QueueIsBounded == Spec => []QueueBounded
<1>1. QInv /\ BoundInv => QueueBounded
  <2> SUFFICES ASSUME QInv, BoundInv PROVE QueueBounded
    OBVIOUS
  <2>1. Queues /\ IsFiniteSet(Pushing) /\ Accounted
    BY DEF QInv, Shape, BoundInv
  <2>2. /\ Count(main_task_awoken) \in Nat /\ Count(Popped) \in Nat
        /\ Count(Fresh) \in Nat
        /\ Count(Fresh) <= Count(main \in Mains \ handed)
        /\ Count(main \in Mains \ handed) \in Nat
    BY DEF Count, Fresh
  <2>3. Len(local) + Len(concurrent) + Cardinality(Pushing)
          <= Cardinality(Awoken) + Count(Fresh)
    BY <2>1, <2>2, Counted DEF Accounted, Balance
  <2>4. Len(local) + Len(concurrent) + Cardinality(Pushing)
          <= Cardinality(Awoken) + Count(main \in Mains \ handed)
    BY <2>1, <2>2, <2>3, Counted
  <2> QED
    BY <2>4 DEF QueueBounded, Awoken, Pushing, Count
<1> QED
  BY <1>1, BoundInvInvariant, PTL

\* The types, on top of the invariant of ExecutorProofs.
LEMMA TypesInvariant == Spec => [](QInv /\ Flags /\ Rest)
<1>1. Init => Flags /\ Rest
  <2>1. Init => Flags
    BY ZenonT(60) DEF Init, Flags, NewExecutor, NewWakeQueue
  <2>2. Init => Rest
    BY DEF Init, Rest
  <2> QED
    BY <2>1, <2>2
<1>2. QInv /\ Flags /\ Rest /\ [Next]_vars => Flags' /\ Rest'
  BY FlagsNext, RestNext DEF QInv, Shape
<1> QED
  BY <1>1, <1>2, QInvInvariant, PTL DEF Spec

\* What the variables of Executor hold.
THEOREM ExecutorTypes == Spec => []TypeOK
<1>1. QInv /\ Flags /\ Rest => TypeOK
  BY DEF QInv, Shape, Flags, Rest, TypeOK, Loop, Queues, Slab, Wakers, Callers, Ids
<1> QED
  BY <1>1, TypesInvariant, PTL

\* Who changes what the handle of a task waits for.
LEMMA RetChanges ==
  ASSUME [Next]_vars
  PROVE  UNCHANGED <<value, ret_waker>> \/ Finish \/ \E t \in Tasks : PollHandle(t)
<1> USE DEF handleVars
<1>1. CASE User \/ Remote
  BY <1>1, Zenon DEF User, Remote, RemoteWake, Wake, Spawn, Cancel, RemotePost, RemoteCas,
     RemotePush, RemoteTake, RemoteNotify
<1>2. CASE (\E m \in Mains : StartRun(m)) \/ PollRun \/ Abandon
  BY <1>2, SMTT(30) DEF StartRun, PollRun, Abandon
<1>3. CASE Step
  BY <1>3, ZenonT(30)
  DEF Step, register_base_waker, DrainLengths, DrainLocal, DrainConcurrent,
     PollMain, to_sleep, Observe, Pending, Discard, RunReturns, SkipSpawned, PollSpawned, RunPending
<1> QED
  BY <1>1, <1>2, <1>3 DEF Next, vars

\* A finished task has no awaiter left in ret.
AwaiterGone == \A t \in Tasks : is_finished(t) => ret_waker[t] = None

\* No waker stays behind in ret when the task has finished, and none is put
\* there afterwards.
LEMMA NoAwaiterLeft == Spec => [](QInv /\ Rest /\ AwaiterGone)
<1>1. Init => AwaiterGone
  BY DEF Init, AwaiterGone, is_finished
<1>2. QInv /\ Rest /\ AwaiterGone /\ [Next]_vars => AwaiterGone'
  <2> SUFFICES ASSUME Wakers, Rest, AwaiterGone, [Next]_vars PROVE AwaiterGone'
    BY DEF QInv, Shape
  <2>1. CASE UNCHANGED <<value, ret_waker>>
    BY <2>1, SMTT(30) DEF AwaiterGone, is_finished
  <2>2. ASSUME NEW t \in Tasks, PollHandle(t) PROVE AwaiterGone'
    BY <2>2 DEF PollHandle, AwaiterGone, is_finished, Wakers, Rest
  <2>3. CASE Finish
    BY <2>3 DEF Finish, AwaiterGone, is_finished, Wakers, Rest
  <2> QED
    BY <2>1, <2>2, <2>3, RetChanges
<1> QED
  BY <1>1, <1>2, TypesInvariant, PTL DEF Spec

\* Whoever awaits the handle of a task is woken by the step that finishes it, and
\* its waker does not leave ret otherwise, except for that of a later awaiter:
\* for any number of tasks, awaiters and threads.
THEOREM AwaitersAreWoken == Spec => AwaiterWoken
<1> DEFINE Kept(t) == ~is_finished(t)' /\ ret_waker'[t] # None
           Woken(t) == /\ is_finished(t)' /\ ret_waker'[t] = None
                       /\ awoken'[ret_waker[t]]
<1>1. QInv /\ Rest /\ AwaiterGone /\ [Next]_vars =>
        [\A t \in Tasks : ret_waker[t] # None =>
           \/ ~is_finished(t)' /\ ret_waker'[t] # None
           \/ is_finished(t)' /\ ret_waker'[t] = None /\ awoken'[ret_waker[t]]]_vars
  <2> SUFFICES ASSUME Loop, Wakers, Rest, AwaiterGone, [Next]_vars, NEW t \in Tasks,
                      ret_waker[t] # None
               PROVE  Kept(t) \/ Woken(t)
    BY DEF QInv, Shape
  <2>0. ~is_finished(t)
    BY DEF AwaiterGone
  <2>1. CASE Finish
    <3>1. CASE t = cur
      <4>1. ret_waker[t] \in Futures
        BY DEF Wakers
      <4>2. LocalWake(ret_waker[t])
        BY <2>1, <3>1, SMTT(30) DEF Finish
      <4>3. awoken'[ret_waker[t]]
        BY <4>1, <4>2, LocalWakeDoes, ZenonT(60)
      <4>4. is_finished(t)' /\ ret_waker'[t] = None
        BY <2>1, <3>1 DEF Finish, is_finished, Rest, Wakers
      <4> QED
        BY <4>3, <4>4
    <3>2. CASE t # cur
      BY <2>0, <2>1, <3>2 DEF Finish, is_finished, Rest, Wakers
    <3> QED
      BY <3>1, <3>2
  <2>2. ASSUME NEW u \in Tasks, PollHandle(u) PROVE Kept(t)
    BY <2>0, <2>2, Apart DEF PollHandle, is_finished, Wakers, Loop, Rest
  <2>3. CASE UNCHANGED <<value, ret_waker>>
    BY <2>0, <2>3 DEF is_finished
  <2> QED
    BY <2>1, <2>2, <2>3, RetChanges
<1> QED
  BY <1>1, NoAwaiterLeft, PTL DEF Spec, AwaiterWoken
===============================================================================
