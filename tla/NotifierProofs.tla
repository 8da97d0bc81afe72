---------------------------- MODULE NotifierProofs ----------------------------
(***************************************************************************)
(* Proofs about Notifier, for every set of threads, every capacity of the  *)
(* descriptor and every length of a read.                                  *)
(***************************************************************************)
EXTENDS Notifier, FiniteSetTheorems, TLAPS

\* The inductive invariant.
IInv == TypeOK /\ NotifiedFlagBacked /\ PostedFlagged

-------------------------------------------------------------------------------

\* The variables of Notifier keep their types: the descriptor never holds more
\* than its capacity and block_on is always at one of its steps.
THEOREM TypeCorrect == Spec => []TypeOK
<1>1. Init => TypeOK
  <2> SUFFICES ASSUME Init PROVE TypeOK
    OBVIOUS
  <2>1. flag \in BOOLEAN
    BY Zenon DEF Init, WithFlag
  <2>6. inner \in {NewEventFd, NewPipeFd}
    BY DEF Init, WithFlag
  <2>2. fd \in 0..FdCap
    BY NotifierAssumption DEF Init, WithFlag
  <2>3. wk \in [Actors -> WakePc]
    BY DEF Init, WakePc
  <2>4. posted \in [Actors -> BOOLEAN]
    BY Zenon DEF Init
  <2>5. pc \in MainPc
    BY DEF Init, MainPc
  <2>7. failures \in 0..FdCap
    BY NotifierAssumption DEF Init
  <2> QED
    BY <2>1, <2>2, <2>3, <2>4, <2>5, <2>6, <2>7 DEF TypeOK
<1>2. TypeOK /\ [Next]_vars => TypeOK'
  <2> SUFFICES ASSUME TypeOK, [Next]_vars PROVE TypeOK'
    OBVIOUS
  <2> USE NotifierAssumption DEF TypeOK, WakePc, MainPc
  <2>1. ASSUME NEW a \in Actors, Post(a) PROVE TypeOK'
    BY <2>1 DEF Post
  <2>2. ASSUME NEW a \in Actors, NotifySkip(a) PROVE TypeOK'
    BY <2>2 DEF NotifySkip
  <2>3. ASSUME NEW a \in Actors, NotifySet(a) PROVE TypeOK'
    BY <2>3 DEF NotifySet
  <2>4. ASSUME NEW a \in Actors, NotifyWrite(a) PROVE TypeOK'
    BY <2>4 DEF NotifyWrite, notify, EventFdNotify, PipeFdNotify
  <2>5. CASE PollFuture
    BY <2>5 DEF PollFuture
  <2>6. CASE FuturePending \/ FutureReady \/ BlockOn
    BY <2>6 DEF FuturePending, FutureReady, BlockOn
  <2>7. ASSUME NEW z \in BOOLEAN, WaitCheck(z) PROVE TypeOK'
    BY <2>7 DEF WaitCheck
  <2>8. CASE PollNotified \/ PollEvent \/ PollError
    BY <2>8 DEF PollNotified, PollEvent, PollError
  <2>9. CASE SetToNotified
    BY <2>9 DEF SetToNotified
  <2>10. CASE ClearInner
    BY <2>10 DEF ClearInner, clear, EventFdClear, PipeFdClear
  <2>11. CASE ClearFlag
    BY <2>11 DEF ClearFlag
  <2>12. CASE UNCHANGED vars
    BY <2>12 DEF vars
  <2> QED
    BY <2>1, <2>2, <2>3, <2>4, <2>5, <2>6, <2>7, <2>8, <2>9, <2>10, <2>11, <2>12
    DEF Next, Notify, Wait
<1> QED
  BY <1>1, <1>2, PTL DEF Spec

-------------------------------------------------------------------------------

\* Armed can only be lost by reading the descriptor: a step that leaves the
\* descriptor alone and ends no write preserves it.
LEMMA ArmedStable ==
  ASSUME Armed, fd' = fd, wk' = wk
  PROVE  Armed'
BY DEF Armed

\* Every step of block_on, of wait() and of notify() preserves the inductive
\* invariant.
LEMMA InvStep == IInv /\ TypeOK' /\ [Next]_vars => IInv'
<1> SUFFICES ASSUME IInv, TypeOK', [Next]_vars
             PROVE  NotifiedFlagBacked' /\ PostedFlagged'
  BY DEF IInv
<1> USE NotifierAssumption DEF IInv
<1>1. ASSUME NEW a \in Actors, Post(a)
      PROVE  NotifiedFlagBacked' /\ PostedFlagged'
  <2>1. NotifiedFlagBacked'
    BY <1>1 DEF Post, NotifiedFlagBacked, Armed, TypeOK, WakePc
  <2>2. PostedFlagged'
    BY <1>1 DEF Post, PostedFlagged, TypeOK, WakePc
  <2> QED
    BY <2>1, <2>2
<1>2. ASSUME NEW a \in Actors, NotifySkip(a)
      PROVE  NotifiedFlagBacked' /\ PostedFlagged'
  <2>1. NotifiedFlagBacked'
    BY <1>2 DEF NotifySkip, NotifiedFlagBacked, Armed, TypeOK, WakePc
  <2>2. PostedFlagged'
    BY <1>2 DEF NotifySkip, PostedFlagged, TypeOK, WakePc
  <2> QED
    BY <2>1, <2>2
<1>3. ASSUME NEW a \in Actors, NotifySet(a)
      PROVE  NotifiedFlagBacked' /\ PostedFlagged'
  <2>1. NotifiedFlagBacked'
    BY <1>3 DEF NotifySet, NotifiedFlagBacked, Armed, TypeOK, WakePc
  <2>2. PostedFlagged'
    BY <1>3 DEF NotifySet, PostedFlagged
  <2> QED
    BY <2>1, <2>2
<1>4. ASSUME NEW a \in Actors, NotifyWrite(a)
      PROVE  NotifiedFlagBacked' /\ PostedFlagged'
  <2>1. NotifiedFlagBacked'
    <3>1. fd' > 0
      BY <1>4 DEF NotifyWrite, notify, EventFdNotify, PipeFdNotify, TypeOK
    <3> QED
      BY <3>1 DEF NotifiedFlagBacked, Armed
  <2>2. PostedFlagged'
    BY <1>4 DEF NotifyWrite, PostedFlagged, TypeOK, WakePc
  <2> QED
    BY <2>1, <2>2
<1>5. CASE PollFuture
  <2>1. NotifiedFlagBacked'
    BY <1>5, ArmedStable DEF PollFuture, NotifiedFlagBacked
  <2>2. PostedFlagged'
    BY <1>5 DEF PollFuture, PostedFlagged
  <2> QED
    BY <2>1, <2>2
<1>6. CASE FuturePending \/ FutureReady \/ BlockOn
  BY <1>6, ArmedStable
  DEF FuturePending, FutureReady, BlockOn, NotifiedFlagBacked, PostedFlagged
<1>7. ASSUME NEW z \in BOOLEAN, WaitCheck(z)
      PROVE  NotifiedFlagBacked' /\ PostedFlagged'
  BY <1>7, ArmedStable DEF WaitCheck, NotifiedFlagBacked, PostedFlagged
<1>8. CASE PollNotified \/ PollEvent \/ PollError
  BY <1>8, ArmedStable
  DEF PollNotified, PollEvent, PollError, NotifiedFlagBacked, PostedFlagged
<1>9. CASE SetToNotified \/ ClearInner
  BY <1>9 DEF SetToNotified, ClearInner, NotifiedFlagBacked, PostedFlagged
<1>10. CASE ClearFlag
  BY <1>10 DEF ClearFlag, NotifiedFlagBacked, PostedFlagged
<1>11. CASE UNCHANGED vars
  BY <1>11, ArmedStable DEF vars, NotifiedFlagBacked, PostedFlagged
<1> QED
  BY <1>1, <1>2, <1>3, <1>4, <1>5, <1>6, <1>7, <1>8, <1>9, <1>10, <1>11
  DEF Next, Notify, Wait

\* The inductive invariant holds in every reachable state.
THEOREM Invariance == Spec => []IInv
<1>1. Init /\ TypeOK => IInv
  BY DEF Init, WithFlag, IInv, NotifiedFlagBacked, PostedFlagged
<1> QED
  BY <1>1, TypeCorrect, InvStep, PTL DEF Spec

\* No wake-up is lost: block_on never sits in poll(2) with a completed wake()
\* behind it and nothing that will make the descriptor readable.
THEOREM NoWakeupLost == Spec => []NoLostWakeup
<1>1. IInv => NoLostWakeup
  BY DEF IInv, NotifiedFlagBacked, PostedFlagged, NoLostWakeup
<1> QED
  BY <1>1, Invariance, PTL

\* A posted event whose wake() is past the compare_exchange has the flag set, so
\* that is_notified() alone keeps wait() from blocking.
THEOREM EventsFlagged == Spec => []PostedFlagged
<1>1. IInv => PostedFlagged
  BY DEF IInv
<1> QED
  BY <1>1, Invariance, PTL

\* Outside of wait(), a set flag means that the descriptor is, or is about to
\* be, readable: a notify() that skips its write is always covered by another.
THEOREM FlagBacked == Spec => []NotifiedFlagBacked
<1>1. IInv => NotifiedFlagBacked
  BY DEF IInv
<1> QED
  BY <1>1, Invariance, PTL

-------------------------------------------------------------------------------
(* How much accumulates in the descriptor.                                 *)

\* How far the notifications may exceed the other threads and the failed reads.
\* A set flag keeps one more from being written; clear() makes room for one.
Excess ==
  IF pc = "clear" THEN (IF flag THEN 1 ELSE 0) ELSE (IF flag THEN 2 ELSE 1)

\* NotificationsBounded, strengthened by what the flag and clear() leave room for.
Backlog == fd + Cardinality(Writers) <= Cardinality(Threads) + failures + Excess

\* The number of threads that are about to write is a number.
LEMMA WritersFinite ==
  /\ IsFiniteSet(Writers) /\ Cardinality(Writers) \in Nat
  /\ Cardinality(Threads) \in Nat
<1>1. IsFiniteSet(Threads) /\ IsFiniteSet(Actors)
  BY NotifierAssumption, FS_AddElement DEF Actors
<1>2. Writers \in SUBSET Actors
  BY DEF Writers
<1>3. IsFiniteSet(Writers)
  BY <1>1, <1>2, FS_Subset
<1> QED
  BY <1>1, <1>3, FS_CardinalityType

\* A compare_exchange that succeeds adds a thread that is about to write.
LEMMA SetAdds ==
  ASSUME TypeOK, NEW a \in Actors, NotifySet(a)
  PROVE  Cardinality(Writers') = Cardinality(Writers) + 1
<1>1. Writers' = Writers \cup {a} /\ a \notin Writers
  BY DEF NotifySet, Writers, TypeOK
<1> QED
  BY <1>1, WritersFinite, FS_AddElement

\* The write of a notify() removes it.
LEMMA WriteRemoves ==
  ASSUME TypeOK, NEW a \in Actors, NotifyWrite(a)
  PROVE  Cardinality(Writers') = Cardinality(Writers) - 1
<1>1. Writers' = Writers \ {a} /\ a \in Writers
  BY DEF NotifyWrite, Writers, TypeOK
<1> QED
  BY <1>1, WritersFinite, FS_RemoveElement

\* When block_on itself is not in a wake(), only other threads are about to write.
LEMMA OthersWrite ==
  ASSUME wk[Main] = "idle"
  PROVE  Cardinality(Writers) <= Cardinality(Threads)
<1>1. Writers \in SUBSET Threads
  BY DEF Writers, Actors
<1> QED
  BY <1>1, NotifierAssumption, FS_Subset

\* clear() takes at least one notification out of the descriptor, if there is one
\* and the read does not fail, and otherwise finds at most those of other threads.
LEMMA ClearKeeps == TypeOK /\ Backlog /\ ClearInner => Backlog'
<1> SUFFICES ASSUME TypeOK, Backlog, ClearInner PROVE Backlog'
  OBVIOUS
<1>1. Writers' = Writers /\ wk[Main] = "idle" /\ flag' = flag /\ pc = "events"
      /\ pc' = "clear"
  BY DEF ClearInner, Writers
<1>2. Cardinality(Writers) <= Cardinality(Threads)
  BY <1>1, OthersWrite
<1>3. fd \in 0..FdCap /\ failures \in 0..FdCap /\ FdCap \in Nat
  BY NotifierAssumption DEF TypeOK
<1>4. \/ failures' = failures /\ fd' \in Nat /\ (fd' = 0 \/ fd' <= fd - 1)
      \/ fd' = fd /\ failures' = failures + 1
      \/ fd' = fd /\ failures' = failures /\ failures = FdCap
  BY <1>3, NotifierAssumption DEF ClearInner, clear, EventFdClear, PipeFdClear
<1>5. Excess' = Excess - 1 /\ Excess \in {1, 2}
  BY <1>1 DEF Excess
<1> QED
  BY <1>1, <1>2, <1>3, <1>4, <1>5, WritersFinite DEF Backlog

\* Every step preserves the bound.
LEMMA BacklogStep == TypeOK /\ Backlog /\ [Next]_vars => Backlog'
<1> SUFFICES ASSUME TypeOK, Backlog, [Next]_vars PROVE Backlog'
  OBVIOUS
<1> USE WritersFinite
<1>0. fd \in Nat /\ failures \in Nat
  BY NotifierAssumption DEF TypeOK
<1>1. ASSUME NEW a \in Actors, Post(a) \/ NotifySkip(a) PROVE Backlog'
  <2>1. Writers' = Writers
    BY <1>1 DEF Post, NotifySkip, Writers, TypeOK
  <2> QED
    BY <1>1, <2>1 DEF Post, NotifySkip, Backlog, Excess
<1>2. ASSUME NEW a \in Actors, NotifySet(a) PROVE Backlog'
  <2>1. Excess' = Excess + 1 /\ Excess \in Nat
    BY <1>2 DEF NotifySet, Excess
  <2>2. Cardinality(Writers') = Cardinality(Writers) + 1
    BY <1>2, SetAdds
  <2> QED
    BY <1>0, <1>2, <2>1, <2>2 DEF NotifySet, Backlog
<1>3. ASSUME NEW a \in Actors, NotifyWrite(a) PROVE Backlog'
  <2>1. Excess' = Excess /\ Excess \in Nat
    BY <1>3 DEF NotifyWrite, Excess
  <2>2. Cardinality(Writers') = Cardinality(Writers) - 1
    BY <1>3, WriteRemoves
  <2>3. fd' \in Nat /\ fd' <= fd + 1
    BY <1>0, <1>3 DEF NotifyWrite, notify, EventFdNotify, PipeFdNotify
  <2> QED
    BY <1>0, <1>3, <2>1, <2>2, <2>3 DEF NotifyWrite, Backlog
<1>4. CASE ClearInner
  BY <1>4, ClearKeeps
<1>5. CASE SetToNotified
  BY <1>0, <1>5 DEF SetToNotified, Backlog, Excess, Writers
<1>6. CASE ClearFlag
  BY <1>0, <1>6 DEF ClearFlag, Backlog, Excess, Writers
<1>7. CASE \/ PollFuture \/ FuturePending \/ FutureReady \/ BlockOn
           \/ PollNotified \/ PollEvent \/ PollError
           \/ \E z \in BOOLEAN : WaitCheck(z)
  BY <1>7 DEF PollFuture, FuturePending, FutureReady, BlockOn, PollNotified,
              PollEvent, PollError, WaitCheck, Backlog, Excess, Writers
<1>8. CASE UNCHANGED vars
  BY <1>8 DEF vars, Backlog, Excess, Writers
<1> QED
  BY <1>1, <1>2, <1>3, <1>4, <1>5, <1>6, <1>7, <1>8 DEF Next, Notify, Wait

\* However often wake() is called and wherever threads are suspended, the
\* descriptor holds no more than two notifications beyond the number of other
\* threads, as long as reads succeed: one read of 8 bytes in each wait() keeps a
\* pipe from filling up.
THEOREM BacklogIsBounded == Spec => []NotificationsBounded
<1>1. Init => Backlog
  <2> SUFFICES ASSUME Init PROVE Backlog
    OBVIOUS
  <2>1. Writers = {}
    BY DEF Init, Writers
  <2>2. fd = 0 /\ failures = 0 /\ Excess = 1
    BY DEF Init, WithFlag, Excess
  <2> QED
    BY <2>1, <2>2, WritersFinite, FS_EmptySet DEF Backlog
<1>2. TypeOK /\ Backlog => NotificationsBounded
  BY WritersFinite, NotifierAssumption DEF TypeOK, Backlog, Excess,
     NotificationsBounded
<1> QED
  BY <1>1, <1>2, BacklogStep, TypeCorrect, PTL DEF Spec

-------------------------------------------------------------------------------
(* Notifier implements WakeCell.                                           *)

\* The sleep of the abstract waker, as Notifier refines it.
Sleeping == pc = "block" /\ ~Armed /\ \A a \in Actors : wk[a] # "cas"

\* A thread that sleeps in poll(2) has seen every event: had one been posted,
\* the flag would be set and the descriptor readable, or about to be.
LEMMA SleepersHaveSeen == IInv /\ Sleeping => \A a \in Actors : ~posted[a]
BY DEF IInv, Sleeping, NotifiedFlagBacked, PostedFlagged

\* A step that posts and observes nothing begins or ends a sleep, or stutters.
LEMMA QuietStep ==
  ASSUME IInv', posted' = posted
  PROVE  [Cell!Next]_(Cell!cellVars)
<1>1. CASE Sleeping'
  <2>1. \A a \in Actors : ~posted'[a]
    <3>1. (\A a \in Actors : ~posted[a])'
      BY <1>1, SleepersHaveSeen, PTL
    <3> QED
      BY <3>1
  <2>2. Cell!Sleep
    BY <1>1, <2>1 DEF Cell!Sleep, Sleeping
  <2> QED
    BY <2>2 DEF Cell!Next
<1>2. CASE ~Sleeping'
  BY <1>2 DEF Cell!Next, Cell!Rouse, Sleeping
<1> QED
  BY <1>1, <1>2

\* Notifier implements the contract of a waker, WakeCell: whatever the
\* interleaving of wake-ups with the two checks of wait(), its poll(2) and the
\* two halves of clear(), block_on never sleeps through a posted event.
THEOREM Refinement == Spec => ImplementsWakeCell
<1>1. Init => Cell!Init
  <2> SUFFICES ASSUME Init PROVE Cell!Init
    OBVIOUS
  <2>1. posted \in [Actors -> BOOLEAN] /\ ~Sleeping
    BY DEF Init, Sleeping
  <2> QED
    BY <2>1 DEF Cell!Init, Sleeping
<1>2. IInv /\ IInv' /\ [Next]_vars => [Cell!Next]_(Cell!cellVars)
  <2> SUFFICES ASSUME IInv, IInv', [Next]_vars
               PROVE  [Cell!Next]_(Cell!cellVars)
    OBVIOUS
  <2>1. ASSUME NEW a \in Actors, Post(a)
        PROVE  [Cell!Next]_(Cell!cellVars)
    <3>1. wk'[a] = "cas"
      BY <2>1 DEF Post, IInv, TypeOK
    <3>2. Cell!Post(a)
      BY <2>1, <3>1 DEF Post, Cell!Post
    <3> QED
      BY <3>2 DEF Cell!Next
  <2>2. CASE PollFuture
    <3>1. posted' = [a \in Actors |-> posted[a] /\ a \notin Actors]
      BY <2>2, Zenon DEF PollFuture
    <3>2. ~Sleeping /\ ~Sleeping'
      BY <2>2 DEF PollFuture, Sleeping
    <3>3. Cell!Observe(Actors)
      BY <3>1, <3>2 DEF Cell!Observe, Sleeping
    <3> QED
      BY <3>3 DEF Cell!Next
  <2>3. CASE UNCHANGED posted
    BY <2>3, QuietStep
  <2> QED
    BY <2>1, <2>2, <2>3
    DEF Next, Notify, Wait, vars, NotifySkip, NotifySet, NotifyWrite,
        FuturePending, FutureReady, BlockOn, WaitCheck, PollNotified, PollEvent,
        PollError, SetToNotified, ClearInner, ClearFlag
<1> QED
  BY <1>1, <1>2, Invariance, PTL DEF Spec, ImplementsWakeCell, Cell!Spec

===============================================================================
