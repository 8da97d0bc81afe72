----------------------------- MODULE MergeProofs ------------------------------
(***************************************************************************)
(* Proofs about Merge, for any number of children and of threads: no       *)
(* wake-up of a child is lost (the FlagWakers implement WakeCell), and the *)
(* parent ends only after its children.                                    *)
(***************************************************************************)
EXTENDS Merge, FiniteSetTheorems, TLAPS

\* How far behind the child that the poll is at c comes.
Dist(c) == IF c >= idx THEN c - idx ELSE (c - idx) + N

\* The children that the poll in progress has still to look at.
Ahead(c) ==
  \/ pc = "loop" /\ Dist(c) < left
  \/ pc \in {"poll", "polling"} /\ 0 < Dist(c) /\ Dist(c) < left

\* Between the registration of the waker and the next value.
Listening == pc \in {"idle", "loop", "poll", "polling"}

\* The waker was called, or a thread has taken it and is about to.
Called == notified \/ \E th \in Threads : wk[th].at = "notify"

\* A thread is about to take it.
Taking == \E th \in Threads : wk[th].at = "base"

\* The types that the proofs need.
Typed ==
  /\ pollers \in [Children -> {"Some", "None"}]
  /\ DOMAIN awoken = Children
  /\ posted \in [Children -> BOOLEAN]
  /\ idx \in Children
  /\ left \in 0..N
  /\ pc \in {"loop", "poll", "polling"} => left > 0
  /\ wk \in [Threads -> [at : {"idle", "flag", "base", "notify"}, of : Children]]

\* base_waker holds the waker unless it was taken to be called.
Registered == Listening => base_waker \/ Called

\* A flag that the poll has passed leads to another poll.
PassedNotified ==
  Listening => \A c \in Children : pollers[c] = "Some" /\ awoken[c] =>
    Ahead(c) \/ Called \/ (base_waker /\ Taking)

\* What a child has to see is behind its flag, or behind a thread about to set it.
PostedAwoken ==
  \A c \in Children : posted[c] =>
    /\ pollers[c] = "Some"
    /\ \/ awoken[c]
       \/ pc = "poll" /\ idx = c
       \/ \E th \in Threads : wk[th].at = "flag" /\ wk[th].of = c

\* Only a child that has not ended is polled.
PollsLive == pc \in {"poll", "polling"} => pollers[idx] = "Some"

WakeInv == Typed /\ PollsLive /\ Registered /\ PassedNotified /\ PostedAwoken

\* The children that have ended, and what none_count says of them.
Ended == {c \in Children : pollers[c] = "None"}
Counted == kind # "join" => none_count = Cardinality(Ended)

-------------------------------------------------------------------------------
(* Going on to the next child                                              *)

\* The index that poll_join and poll_merged go on to wraps around.
LEMMA Modulo ==
  ASSUME NEW i \in Children
  PROVE  (i + 1) % N = IF i = N - 1 THEN 0 ELSE i + 1
BY MergeAssumption DEF Children

\* The distances are those of a walk around the children.
LEMMA DistRange ==
  ASSUME idx \in Children, NEW c \in Children
  PROVE  Dist(c) \in 0..(N - 1) /\ (Dist(c) = 0 <=> c = idx)
BY MergeAssumption DEF Children, Dist

\* Advance leaves the children ahead where they are, but for the one that it
\* leaves behind.
LEMMA AdvanceMoves ==
  ASSUME Typed, Advance, left > 0
  PROVE  /\ idx' \in Children /\ left' \in 0..N
         /\ pc' \in {"idle", "loop", "end"}
         /\ pc' = "loop" => left' > 0
         /\ pc' = "idle" => left = 1
         /\ \A c \in Children : c # idx /\ pc' = "loop" /\ Dist(c) < left =>
              Dist(c)' < left'
<1>1. idx \in Children /\ left \in 1..N
  BY MergeAssumption DEF Typed
<1>2. idx' = IF idx = N - 1 THEN 0 ELSE idx + 1
  BY <1>1, Modulo DEF Advance
<1>3. idx' \in Children
  BY <1>1, <1>2, MergeAssumption DEF Children
<1>4. left' = left - 1 /\ left' \in 0..N
  BY <1>1, MergeAssumption DEF Advance
<1>5. /\ pc' \in {"idle", "loop", "end"}
      /\ pc' = "loop" => left # 1
      /\ pc' = "idle" => left = 1
  BY DEF Advance
<1>6. ASSUME NEW c \in Children, c # idx, Dist(c) < left
      PROVE  Dist(c)' < left'
  BY <1>1, <1>2, <1>4, <1>6, MergeAssumption DEF Children, Dist
<1> QED
  BY <1>1, <1>3, <1>4, <1>5, <1>6

-------------------------------------------------------------------------------
(* No wake-up of a child is lost                                           *)

\* The invariant holds of what new() returns.
LEMMA WakeInvInit == Init => WakeInv
<1> SUFFICES ASSUME Init PROVE WakeInv
  OBVIOUS
<1> USE MergeAssumption DEF Init, NewJoinFuture, NewMergeFutureStream,
        NewMergeStream, waker_pair, Children, Idle
<1>1. Typed
  BY DEF Typed
<1>2. PollsLive /\ Registered
  BY DEF PollsLive, Registered, Called
<1>3. PassedNotified /\ PostedAwoken
  BY DEF PassedNotified, PostedAwoken, Called
<1> QED
  BY <1>1, <1>2, <1>3 DEF WakeInv

\* Every step keeps the types; the index stays within the children.
LEMMA TypedNext == WakeInv /\ [Next]_vars => Typed'
<1> SUFFICES ASSUME WakeInv, [Next]_vars PROVE Typed'
  OBVIOUS
<1> USE MergeAssumption DEF WakeInv, Typed
<1>1. ASSUME NEW c \in Children, Wake(c) PROVE Typed'
  BY <1>1 DEF Wake, Happen
<1>2. ASSUME NEW c \in Children, NEW th \in Threads, RemotePost(th, c) PROVE Typed'
  BY <1>2 DEF RemotePost, Happen
<1>3. ASSUME NEW th \in Threads, RemoteFlag(th) PROVE Typed'
  BY <1>3 DEF RemoteFlag
<1>4. ASSUME NEW th \in Threads, RemoteTake(th) PROVE Typed'
  <2>1. 0 \in Children
    BY DEF Children
  <2>2. wk' \in [Threads -> [at : {"idle", "flag", "base", "notify"}, of : Children]]
    BY <1>4, <2>1 DEF RemoteTake, Idle
  <2> QED
    BY <1>4, <2>2 DEF RemoteTake
<1>5. ASSUME NEW th \in Threads, RemoteNotify(th) PROVE Typed'
  BY <1>5 DEF RemoteNotify, Idle, Children
<1>6. CASE Poll
  BY <1>6 DEF Poll
<1>7. CASE SkipChild
  BY <1>7, AdvanceMoves DEF SkipChild
<1>8. CASE CheckAwoken
  BY <1>8 DEF CheckAwoken
<1>9. CASE Observe
  BY <1>9 DEF Observe
<1>10. CASE ChildPending
  BY <1>10, AdvanceMoves DEF ChildPending
<1>11. CASE ChildDone
  BY <1>11, AdvanceMoves DEF ChildDone, EndChild
<1>12. CASE FutureYields
  BY <1>12 DEF FutureYields, EndChild
<1>13. CASE StreamYields
  BY <1>13 DEF StreamYields
<1>14. CASE StreamEnds
  BY <1>14, AdvanceMoves DEF StreamEnds, EndChild
<1>15. CASE UNCHANGED vars
  BY <1>15 DEF vars
<1> QED
  BY <1>1, <1>2, <1>3, <1>4, <1>5, <1>6, <1>7, <1>8, <1>9, <1>10, <1>11, <1>12,
     <1>13, <1>14, <1>15 DEF Next, RemoteWake, Step
\* The loop polls a child only while its poller is Some.
LEMMA PollsLiveNext == WakeInv /\ [Next]_vars => PollsLive'
<1> SUFFICES ASSUME WakeInv, [Next]_vars PROVE PollsLive'
  OBVIOUS
<1> USE MergeAssumption DEF WakeInv, Typed
<1>1. ASSUME NEW c \in Children, Wake(c) PROVE PollsLive'
  BY <1>1 DEF Wake, Happen, PollsLive
<1>2. ASSUME NEW c \in Children, NEW th \in Threads, RemotePost(th, c) PROVE PollsLive'
  BY <1>2 DEF RemotePost, Happen, PollsLive
<1>3. ASSUME NEW th \in Threads, RemoteFlag(th) PROVE PollsLive'
  BY <1>3 DEF RemoteFlag, PollsLive
<1>4. ASSUME NEW th \in Threads, RemoteTake(th) PROVE PollsLive'
  BY <1>4 DEF RemoteTake, Idle, PollsLive
<1>5. ASSUME NEW th \in Threads, RemoteNotify(th) PROVE PollsLive'
  BY <1>5 DEF RemoteNotify, Idle, PollsLive
<1>6. CASE Poll
  BY <1>6 DEF Poll, PollsLive
<1>7. CASE SkipChild
  BY <1>7, AdvanceMoves DEF SkipChild, PollsLive
<1>8. CASE CheckAwoken
  BY <1>8 DEF CheckAwoken, PollsLive
<1>9. CASE Observe
  BY <1>9 DEF Observe, PollsLive
<1>10. CASE ChildPending
  BY <1>10, AdvanceMoves DEF ChildPending, PollsLive
<1>11. CASE ChildDone
  BY <1>11, AdvanceMoves DEF ChildDone, EndChild, PollsLive
<1>12. CASE FutureYields
  BY <1>12 DEF FutureYields, EndChild, PollsLive
<1>13. CASE StreamYields
  BY <1>13 DEF StreamYields, PollsLive
<1>14. CASE StreamEnds
  BY <1>14, AdvanceMoves DEF StreamEnds, EndChild, PollsLive
<1>15. CASE UNCHANGED vars
  BY <1>15 DEF vars, PollsLive
<1> QED
  BY <1>1, <1>2, <1>3, <1>4, <1>5, <1>6, <1>7, <1>8, <1>9, <1>10, <1>11, <1>12,
     <1>13, <1>14, <1>15 DEF Next, RemoteWake, Step

\* The waker is registered by Poll and leaves base_waker only to be called.
LEMMA RegisteredNext == WakeInv /\ [Next]_vars => Registered'
<1> SUFFICES ASSUME WakeInv, [Next]_vars PROVE Registered'
  OBVIOUS
<1> USE MergeAssumption DEF WakeInv, Typed
<1>1. ASSUME NEW c \in Children, Wake(c) PROVE Registered'
  BY <1>1 DEF Wake, Happen, Registered, Listening, Called
<1>2. ASSUME NEW c \in Children, NEW th \in Threads, RemotePost(th, c) PROVE Registered'
  BY <1>2 DEF RemotePost, Happen, Registered, Listening, Called
<1>3. ASSUME NEW th \in Threads, RemoteFlag(th) PROVE Registered'
  BY <1>3 DEF RemoteFlag, Registered, Listening, Called
<1>4. ASSUME NEW th \in Threads, RemoteTake(th) PROVE Registered'
  BY <1>4 DEF RemoteTake, Idle, Registered, Listening, Called
<1>5. ASSUME NEW th \in Threads, RemoteNotify(th) PROVE Registered'
  BY <1>5 DEF RemoteNotify, Idle, Registered, Listening, Called
<1>6. CASE Poll
  BY <1>6 DEF Poll, Registered, Listening, Called
<1>7. CASE SkipChild
  BY <1>7, AdvanceMoves DEF SkipChild, Registered, Listening, Called
<1>8. CASE CheckAwoken
  BY <1>8 DEF CheckAwoken, Registered, Listening, Called
<1>9. CASE Observe
  BY <1>9 DEF Observe, Registered, Listening, Called
<1>10. CASE ChildPending
  BY <1>10, AdvanceMoves DEF ChildPending, Registered, Listening, Called
<1>11. CASE ChildDone
  BY <1>11, AdvanceMoves DEF ChildDone, EndChild, Registered, Listening, Called
<1>12. CASE FutureYields
  BY <1>12 DEF FutureYields, EndChild, Registered, Listening, Called
<1>13. CASE StreamYields
  BY <1>13 DEF StreamYields, Registered, Listening, Called
<1>14. CASE StreamEnds
  BY <1>14, AdvanceMoves DEF StreamEnds, EndChild, Registered, Listening, Called
<1>15. CASE UNCHANGED vars
  BY <1>15 DEF vars, Registered, Listening, Called
<1> QED
  BY <1>1, <1>2, <1>3, <1>4, <1>5, <1>6, <1>7, <1>8, <1>9, <1>10, <1>11, <1>12,
     <1>13, <1>14, <1>15 DEF Next, RemoteWake, Step

\* set_awoken comes after the event, and check_awoken before the child looks.
LEMMA PostedAwokenNext == WakeInv /\ [Next]_vars => PostedAwoken'
<1> SUFFICES ASSUME WakeInv, [Next]_vars PROVE PostedAwoken'
  OBVIOUS
<1> USE MergeAssumption DEF WakeInv, Typed, PostedAwoken
<1>1. ASSUME NEW c \in Children, Wake(c) PROVE PostedAwoken'
  BY <1>1 DEF Wake, Happen
<1>2. ASSUME NEW c \in Children, NEW th \in Threads, RemotePost(th, c)
      PROVE PostedAwoken'
  <2>1. wk'[th].at = "flag" /\ wk'[th].of = c
    BY <1>2 DEF RemotePost
  <2>2. \A t \in Threads : t # th => wk'[t] = wk[t]
    BY <1>2 DEF RemotePost
  <2>3. \A d \in Children : posted'[d] =>
          pollers[d] = "Some" /\ (d = c \/ posted[d])
    BY <1>2 DEF RemotePost, Happen
  <2> QED
    BY <1>2, <2>1, <2>2, <2>3 DEF RemotePost
<1>3. ASSUME NEW th \in Threads, RemoteFlag(th) PROVE PostedAwoken'
  BY <1>3 DEF RemoteFlag
<1>4. ASSUME NEW th \in Threads, RemoteTake(th) PROVE PostedAwoken'
  BY <1>4 DEF RemoteTake, Idle
<1>5. ASSUME NEW th \in Threads, RemoteNotify(th) PROVE PostedAwoken'
  BY <1>5 DEF RemoteNotify, Idle
<1>6. CASE Poll
  BY <1>6 DEF Poll
<1>7. CASE SkipChild
  BY <1>7 DEF SkipChild
<1>8. CASE CheckAwoken
  BY <1>8 DEF CheckAwoken
<1>9. CASE Observe
  BY <1>9 DEF Observe
<1>10. CASE ChildPending
  BY <1>10 DEF ChildPending
<1>11. CASE ChildDone
  BY <1>11 DEF ChildDone, EndChild
<1>12. CASE FutureYields
  BY <1>12 DEF FutureYields, EndChild
<1>13. CASE StreamYields
  BY <1>13 DEF StreamYields, PollsLive
<1>14. CASE StreamEnds
  BY <1>14 DEF StreamEnds, EndChild
<1>15. CASE UNCHANGED vars
  BY <1>15 DEF vars
<1> QED
  BY <1>1, <1>2, <1>3, <1>4, <1>5, <1>6, <1>7, <1>8, <1>9, <1>10, <1>11, <1>12,
     <1>13, <1>14, <1>15 DEF Next, RemoteWake, Step

\* A flag set behind the loop finds the waker that Poll registered before it.
LEMMA PassedNotifiedNext == WakeInv /\ [Next]_vars => PassedNotified'
<1> SUFFICES ASSUME WakeInv, [Next]_vars, Listening',
                    NEW c \in Children, pollers'[c] = "Some" /\ awoken'[c]
             PROVE  Ahead(c)' \/ Called' \/ (base_waker' /\ Taking')
  BY DEF PassedNotified
<1> USE MergeAssumption DEF WakeInv, Typed, PassedNotified, Listening, Registered,
        Called, Taking
<1> DEFINE Goal == Ahead(c)' \/ Called' \/ (base_waker' /\ Taking')
<1>0. idx \in Children /\ Dist(c) \in 0..(N - 1) /\ (Dist(c) = 0 <=> c = idx)
  BY DistRange
<1>1. ASSUME NEW d \in Children, Wake(d) PROVE Goal
  BY <1>1 DEF Wake
<1>2. ASSUME NEW d \in Children, NEW th \in Threads, RemotePost(th, d) PROVE Goal
  BY <1>2 DEF RemotePost, Ahead, Dist
<1>3. ASSUME NEW th \in Threads, RemoteFlag(th) PROVE Goal
  BY <1>3 DEF RemoteFlag
<1>4. ASSUME NEW th \in Threads, RemoteTake(th) PROVE Goal
  BY <1>4 DEF RemoteTake, Ahead, Dist
<1>5. ASSUME NEW th \in Threads, RemoteNotify(th) PROVE Goal
  BY <1>5 DEF RemoteNotify
<1>6. CASE Poll
  BY <1>0, <1>6 DEF Poll, Ahead, Dist
<1>7. CASE SkipChild
  BY <1>0, <1>7, AdvanceMoves DEF SkipChild, Ahead
<1>8. CASE CheckAwoken
  BY <1>0, <1>8 DEF CheckAwoken, Ahead, Dist
<1>9. CASE Observe
  BY <1>0, <1>9 DEF Observe, Ahead, Dist
<1>10. CASE ChildPending
  BY <1>0, <1>10, AdvanceMoves DEF ChildPending, Ahead
<1>11. CASE ChildDone
  BY <1>0, <1>11, AdvanceMoves DEF ChildDone, EndChild, Ahead
<1>12. CASE FutureYields
  BY <1>12 DEF FutureYields
<1>13. CASE StreamYields
  BY <1>13 DEF StreamYields
<1>14. CASE StreamEnds
  BY <1>0, <1>14, AdvanceMoves DEF StreamEnds, EndChild, Ahead
<1>15. CASE UNCHANGED vars
  BY <1>15 DEF vars, Ahead, Dist
<1> QED
  BY <1>1, <1>2, <1>3, <1>4, <1>5, <1>6, <1>7, <1>8, <1>9, <1>10, <1>11, <1>12,
     <1>13, <1>14, <1>15 DEF Next, RemoteWake, Step

-------------------------------------------------------------------------------
(* The theorems on wake-ups                                                *)

\* The inductive invariant of the wake-ups.
LEMMA WakeInvariant == Spec => []WakeInv
<1>1. WakeInv /\ [Next]_vars => WakeInv'
  BY TypedNext, PollsLiveNext, RegisteredNext, PassedNotifiedNext, PostedAwokenNext
  DEF WakeInv
<1> QED
  BY WakeInvInit, <1>1, PTL DEF Spec

\* A flag that is set when poll_join or poll_merged has passed the child, or has
\* returned Pending, has woken the task or is about to.
THEOREM FlagsWake == Spec => []FlaggedNotified
<1>1. WakeInv => FlaggedNotified
  BY DEF WakeInv, PassedNotified, Listening, Ahead, Called, Taking, FlaggedNotified
<1> QED
  BY WakeInvariant, <1>1, PTL

\* A parent that sleeps has seen every event of its children: what happens to a
\* child sets its flag, and a flag that was passed has the task woken.
LEMMA SleepersHaveSeen == WakeInv => (Sleeping => \A c \in Children : ~posted[c])
BY DEF WakeInv, PassedNotified, PostedAwoken, Listening, Ahead, Called, Taking,
       Sleeping, Idle

-------------------------------------------------------------------------------
(* Merge implements WakeCell.                                              *)

\* A step that posts and observes nothing begins or ends a sleep, or stutters.
LEMMA QuietStep ==
  ASSUME WakeInv', posted' = posted
  PROVE  [Cell!Next]_(Cell!cellVars)
<1>1. CASE Sleeping'
  <2>1. (Sleeping => \A c \in Children : ~posted[c])'
    BY SleepersHaveSeen, PTL
  <2>2. Cell!Sleep
    BY <1>1, <2>1 DEF Cell!Sleep
  <2> QED
    BY <2>2 DEF Cell!Next
<1>2. CASE ~Sleeping'
  BY <1>2 DEF Cell!Next, Cell!Rouse
<1> QED
  BY <1>1, <1>2

\* An event of a child is a post, unless the child has ended; the sleep of the
\* parent ends with it.
LEMMA HappenPosts ==
  ASSUME WakeInv, WakeInv', NEW c \in Children, Happen(c), ~Sleeping'
  PROVE  [Cell!Next]_(Cell!cellVars)
<1>1. CASE pollers[c] = "Some"
  <2>1. posted' = [posted EXCEPT ![c] = TRUE]
    BY <1>1 DEF Happen
  <2>2. Cell!Post(c)
    BY <2>1 DEF Cell!Post
  <2> QED
    BY <2>2 DEF Cell!Next
<1>2. CASE pollers[c] # "Some"
  <2>1. posted \in [Children -> BOOLEAN] /\ ~posted[c]
    BY <1>2 DEF WakeInv, Typed, PostedAwoken
  <2>2. posted' = [posted EXCEPT ![c] = FALSE]
    BY <1>2 DEF Happen
  <2>3. posted' = posted
    BY <2>1, <2>2
  <2> QED
    BY <2>3, QuietStep
<1> QED
  BY <1>1, <1>2

\* A child that is polled sees what was posted to it, and one that is dropped
\* forgets it; the parent is awake before and after.
LEMMA ChildObserves ==
  ASSUME WakeInv, posted' = [posted EXCEPT ![idx] = FALSE], ~Sleeping, ~Sleeping'
  PROVE  [Cell!Next]_(Cell!cellVars)
<1>1. idx \in Children /\ posted \in [Children -> BOOLEAN]
  BY DEF WakeInv, Typed
<1>2. posted' = [c \in Children |-> posted[c] /\ c \notin {idx}]
  BY <1>1, Zenon
<1>3. UNCHANGED Sleeping
  BY DEF Sleeping
<1>4. Cell!Observe({idx})
  BY <1>2, <1>3, Zenon DEF Cell!Observe
<1> QED
  BY <1>1, <1>4, Zenon DEF Cell!Next

\* An event that reaches a child while it is polled for the last time has the
\* task woken, so that the parent goes to sleep with the child's end only if
\* there was none.
LEMMA LastPoll ==
  ASSUME WakeInv, WakeInv', pc = "polling", EndChild, UNCHANGED <<wk, notified>>
  PROVE  [Cell!Next]_(Cell!cellVars)
<1>1. idx \in Children /\ posted \in [Children -> BOOLEAN] /\ ~Sleeping
  BY DEF WakeInv, Typed, Sleeping
<1>2. posted' = [posted EXCEPT ![idx] = FALSE]
  BY DEF EndChild
<1>3. CASE Sleeping'
  <2>1. ~posted[idx]
    <3>1. /\ ~notified
          /\ \A th \in Threads : wk[th].at = "idle"
      BY <1>3 DEF Sleeping, Idle
    <3>2. ~Ahead(idx)
      BY <1>1, MergeAssumption DEF Ahead, Dist, Children
    <3> QED
      BY <1>1, <3>1, <3>2
      DEF WakeInv, PostedAwoken, PassedNotified, Listening, Called, Taking
  <2>2. posted' = posted
    BY <1>1, <1>2, <2>1
  <2> QED
    BY <2>2, QuietStep
<1>4. CASE ~Sleeping'
  BY <1>1, <1>2, <1>4, ChildObserves
<1> QED
  BY <1>3, <1>4

\* wake() on the parent's own thread finds the waker registered if the parent
\* sleeps, and calls it.
LEMMA WakeRouses ==
  ASSUME WakeInv, NEW c \in Children, Wake(c)
  PROVE  ~Sleeping'
<1>1. CASE pc = "idle"
  <2>1. base_waker \/ Called
    BY <1>1 DEF WakeInv, Registered, Listening
  <2>2. notified' \/ \E th \in Threads : wk'[th].at = "notify"
    BY <2>1 DEF Wake, Called
  <2> QED
    BY <2>2 DEF Sleeping, Idle
<1>2. CASE pc # "idle"
  BY <1>2 DEF Wake, Sleeping
<1> QED
  BY <1>1, <1>2

\* join!, merge_futures! and merge_streams! implement the contract of a waker
\* towards their children, for any number of them: whatever the interleaving of
\* set_awoken and base_waker.wake() with the registration of the waker and the
\* loop over the children, the parent never sleeps through an event of a child.
THEOREM Refinement == Spec => ImplementsWakeCell
<1>1. Init => Cell!Init
  <2> SUFFICES ASSUME Init PROVE Cell!Init
    OBVIOUS
  <2>1. posted \in [Children -> BOOLEAN] /\ ~Sleeping
    BY DEF Init, Sleeping
  <2> QED
    BY <2>1 DEF Cell!Init
<1>2. WakeInv /\ WakeInv' /\ [Next]_vars => [Cell!Next]_(Cell!cellVars)
  <2> SUFFICES ASSUME WakeInv, WakeInv', [Next]_vars
               PROVE  [Cell!Next]_(Cell!cellVars)
    OBVIOUS
  <2>1. ASSUME NEW c \in Children, Wake(c)
        PROVE  [Cell!Next]_(Cell!cellVars)
    BY <2>1, WakeRouses, HappenPosts DEF Wake
  <2>2. ASSUME NEW c \in Children, NEW th \in Threads, RemotePost(th, c)
        PROVE  [Cell!Next]_(Cell!cellVars)
    <3>1. wk'[th].at = "flag"
      BY <2>2 DEF RemotePost, WakeInv, Typed
    <3>2. ~Sleeping'
      BY <3>1 DEF Sleeping, Idle
    <3> QED
      BY <2>2, <3>2, HappenPosts DEF RemotePost
  <2>3. CASE Observe
    <3>1. ~Sleeping /\ ~Sleeping'
      BY <2>3 DEF Observe, Sleeping
    <3> QED
      BY <2>3, <3>1, ChildObserves DEF Observe
  <2>4. CASE ChildDone \/ StreamEnds \/ FutureYields
    BY <2>4, LastPoll DEF ChildDone, StreamEnds, FutureYields
  <2>5. CASE StreamYields
    <3>1. Cell!Post(idx) /\ idx \in Children
      BY <2>5 DEF StreamYields, Cell!Post, Sleeping, WakeInv, Typed
    <3> QED
      BY <3>1 DEF Cell!Next
  <2>6. CASE UNCHANGED posted
    BY <2>6, QuietStep
  <2> QED
    BY <2>1, <2>2, <2>3, <2>4, <2>5, <2>6
    DEF Next, Step, vars, RemoteWake, RemoteFlag, RemoteTake, RemoteNotify, Poll,
        SkipChild, CheckAwoken, ChildPending
<1> QED
  BY <1>1, <1>2, WakeInvariant, PTL DEF Spec, ImplementsWakeCell, Cell!Spec

\* What the contract of a waker is worth: by WakeCell alone, a sleeper has seen
\* everything that was posted.
LEMMA ContractKept == Cell!Spec => [](Sleeping => \A c \in Children : ~posted[c])
<1> DEFINE Seen == Sleeping => \A c \in Children : ~posted[c]
<1>1. Cell!Init => Seen
  BY DEF Cell!Init
<1>2. Seen /\ [Cell!Next]_(Cell!cellVars) => Seen'
  <2> SUFFICES ASSUME Seen, [Cell!Next]_(Cell!cellVars), Sleeping'
               PROVE  \A c \in Children : ~posted'[c]
    OBVIOUS
  <2>1. CASE UNCHANGED Cell!cellVars
    BY <2>1 DEF Cell!cellVars
  <2>2. CASE Cell!Sleep
    BY <2>2 DEF Cell!Sleep
  <2>3. CASE Cell!Next /\ ~Cell!Sleep
    BY <2>3 DEF Cell!Next, Cell!Post, Cell!Observe, Cell!Rouse
  <2> QED
    BY <2>1, <2>2, <2>3
<1> QED
  BY <1>1, <1>2, PTL DEF Cell!Spec

\* The parent never sleeps on an event of a child: register before the loop and
\* set_awoken before base_waker.wake() leave no gap.
THEOREM WakeupsKept == Spec => [](Sleeping => \A c \in Children : ~posted[c])
BY Refinement, ContractKept, PTL DEF ImplementsWakeCell

-------------------------------------------------------------------------------
(* The end                                                                 *)

\* What the loop looks at, and what it concludes from it.
EndInv == Counted /\ EndsLast

\* As many ended children as there are children are all of them.
LEMMA EndedFinite ==
  /\ IsFiniteSet(Ended)
  /\ Cardinality(Ended) = N => Ended = Children
<1>1. IsFiniteSet(Children) /\ Cardinality(Children) = N
  BY FS_Interval, MergeAssumption DEF Children
<1>2. Ended \subseteq Children
  BY DEF Ended
<1> QED
  BY <1>1, <1>2, FS_Subset

\* none_count goes up with the children that have ended.
LEMMA EndChildCounted ==
  ASSUME Typed, PollsLive, Counted, pc = "polling", EndChild, kind' = kind,
         none_count' = none_count + 1
  PROVE  Counted'
<1>1. idx \in Children /\ idx \notin Ended
  BY DEF Typed, PollsLive, Ended
<1>2. Ended' = Ended \cup {idx}
  BY <1>1 DEF Typed, EndChild, Ended
<1>3. Cardinality(Ended \cup {idx}) = Cardinality(Ended) + 1
  BY <1>1, EndedFinite, FS_AddElement
<1> QED
  BY <1>2, <1>3 DEF Counted

\* The poll ends only when Advance has seen that all children have.
LEMMA AdvanceEnds ==
  ASSUME Advance, Counted', kind' = kind
  PROVE  EndsLast'
<1>1. (Cardinality(Ended) = N => Ended = Children)'
  BY EndedFinite, PTL
<1>2. ASSUME pc' = "end" PROVE Over
  BY <1>2 DEF Advance
<1>3. ASSUME Over PROVE \A c \in Children : pollers'[c] = "None"
  BY <1>1, <1>3 DEF Over, Counted, Ended
<1> QED
  BY <1>2, <1>3 DEF EndsLast

\* No child has ended at first.
LEMMA EndInvInit == Init => EndInv
<1> SUFFICES ASSUME Init PROVE EndInv
  OBVIOUS
<1>1. Ended = {}
  BY DEF Init, Ended
<1> QED
  BY <1>1, FS_EmptySet DEF EndInv, Counted, EndsLast, Init

\* A step that ends no child and does not go on to the next one.
LEMMA EndInvKept ==
  ASSUME EndInv, UNCHANGED <<kind, pollers, none_count>>, pc' = "end" => pc = "end"
  PROVE  EndInv'
BY DEF EndInv, Counted, Ended, EndsLast

\* A step that goes on to the next child without ending this one.
LEMMA EndInvAdvance ==
  ASSUME EndInv, UNCHANGED <<kind, pollers, none_count>>, Advance
  PROVE  EndInv'
<1>1. Counted'
  BY DEF EndInv, Counted, Ended
<1> QED
  BY <1>1, AdvanceEnds DEF EndInv

\* Every step keeps none_count exact and ends the poll only after the children.
LEMMA EndInvNext == WakeInv /\ EndInv /\ [Next]_vars => EndInv'
<1> SUFFICES ASSUME WakeInv, EndInv, [Next]_vars PROVE EndInv'
  OBVIOUS
<1>1. ASSUME NEW c \in Children, Wake(c) PROVE EndInv'
  BY <1>1, EndInvKept DEF Wake
<1>2. ASSUME NEW c \in Children, NEW th \in Threads, RemotePost(th, c) PROVE EndInv'
  BY <1>2, EndInvKept DEF RemotePost
<1>3. ASSUME NEW th \in Threads, RemoteWake(th) PROVE EndInv'
  BY <1>3, EndInvKept DEF RemoteWake, RemoteFlag, RemoteTake, RemoteNotify
<1>4. CASE Poll
  BY <1>4, EndInvKept DEF Poll
<1>5. CASE SkipChild
  BY <1>5, EndInvAdvance DEF SkipChild
<1>6. CASE CheckAwoken
  BY <1>6, EndInvKept DEF CheckAwoken
<1>7. CASE Observe
  BY <1>7, EndInvKept DEF Observe
<1>8. CASE ChildPending
  BY <1>8, EndInvAdvance DEF ChildPending
<1>9. CASE ChildDone
  <2>1. Counted'
    BY <1>9 DEF ChildDone, Counted
  <2> QED
    BY <1>9, <2>1, AdvanceEnds DEF ChildDone, EndInv
<1>10. CASE FutureYields
  <2>1. Counted'
    BY <1>10, EndChildCounted DEF FutureYields, WakeInv, EndInv
  <2> QED
    BY <1>10, <2>1 DEF FutureYields, EndInv, EndsLast
<1>11. CASE StreamYields
  BY <1>11, EndInvKept DEF StreamYields
<1>12. CASE StreamEnds
  <2>1. Counted'
    BY <1>12, EndChildCounted DEF StreamEnds, WakeInv, EndInv
  <2> QED
    BY <1>12, <2>1, AdvanceEnds DEF StreamEnds, EndInv
<1>13. CASE UNCHANGED vars
  BY <1>13, EndInvKept DEF vars
<1> QED
  BY <1>1, <1>2, <1>3, <1>4, <1>5, <1>6, <1>7, <1>8, <1>9, <1>10, <1>11, <1>12,
     <1>13 DEF Next, Step

\* join! returns, and a merged stream ends, only when all children have ended:
\* none_count of poll_merged is exact, and poll_join looks at every child.
THEOREM EndIsLast == Spec => []EndsLast
<1>1. EndInv => EndsLast
  BY DEF EndInv
<1> QED
  BY WakeInvariant, EndInvInit, EndInvNext, <1>1, PTL DEF Spec
===============================================================================
