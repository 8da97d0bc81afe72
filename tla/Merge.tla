--------------------------------- MODULE Merge --------------------------------
(***************************************************************************)
(* join!, merge_futures! and merge_streams!.                               *)
(*                                                                         *)
(* Each child has a FlagWaker.  It sets a flag and then wakes base_waker,  *)
(* where a poll of the parent registers the waker of the task.  A poll     *)
(* goes once through the children and polls those whose flag it finds and  *)
(* clears.  join! returns when all children are done.  The merges return   *)
(* at the first value, and go on from the same child with the next poll.   *)
(*                                                                         *)
(* The waker that the task passes down is abstract: notified says that it  *)
(* was woken since the last poll.  Memory is sequentially consistent.      *)
(***************************************************************************)
EXTENDS Naturals, FiniteSets

CONSTANTS
  N,               \* the number of children
  Kinds,           \* of "join", "futures" and "streams"
  MaxItems,        \* bound of the model: items of each stream
  Threads          \* other threads that hold wakers of the children

ASSUME MergeAssumption ==
  /\ N \in Nat \ {0}
  /\ MaxItems \in Nat
  /\ Kinds \subseteq {"join", "futures", "streams"}

Children == 0..(N - 1)

VARIABLES
  kind,            \* which of the three the parent is
  pollers,         \* pollers[c]: Some or None; for join!, Fut or Done
  awoken,          \* FlagWaker::awoken
  base_waker,      \* whether base_waker holds the waker of the task
  idx,             \* the child that the poll is at, or that the next starts with
  none_count,
  left,            \* children that the poll has still to visit
  pc,              \* "idle": Pending was returned; "loop": at child idx;
                   \* "poll": its flag is cleared, it is about to be polled;
                   \* "polling": it is being polled; "yield": a value was returned;
                   \* "end": join! has returned, or the stream has ended
  wk,              \* wk[th]: the wake() that thread th is in, and of which child
  notified,        \* the task was woken since it last polled the parent
  posted,          \* posted[c]: something c has to see has happened
  items            \* items[c]: how many items c has yielded

vars == <<kind, pollers, awoken, base_waker, idx, none_count, left, pc, wk,
          notified, posted, items>>

Idle == [at |-> "idle", of |-> 0]

\* FlagWaker::waker_pair, for each child: its flag is set, so that it is polled
\* the first time.  base_waker is a new AtomicWaker.
waker_pair == awoken = [c \in Children |-> TRUE] /\ base_waker = FALSE

\* JoinFuture::new, MergeFutureStream::new and MergeStream::new.
NewJoinFuture == kind = "join" /\ waker_pair
NewMergeFutureStream == kind = "futures" /\ waker_pair
NewMergeStream == kind = "streams" /\ waker_pair

Init ==
  /\ NewJoinFuture \/ NewMergeFutureStream \/ NewMergeStream
  /\ kind \in Kinds
  /\ pollers = [c \in Children |-> "Some"]
  /\ idx = 0 /\ none_count = 0 /\ left = 0
  /\ pc = "idle"
  /\ wk = [th \in Threads |-> Idle]
  /\ notified = TRUE
  /\ posted = [c \in Children |-> TRUE]
  /\ items = [c \in Children |-> 0]

-------------------------------------------------------------------------------
(* Wake for FlagWaker                                                      *)

\* Something that c waits for happens.
Happen(c) == posted' = [posted EXCEPT ![c] = pollers[c] = "Some"]

\* wake() on the thread of the parent, by a child that is polled, or between
\* two polls.
Wake(c) ==
  /\ pc \in {"polling", "idle", "yield"}
  /\ Happen(c)
  /\ awoken' = [awoken EXCEPT ![c] = TRUE]
  /\ base_waker' = FALSE
  /\ notified' = (notified \/ base_waker)
  /\ UNCHANGED <<kind, pollers, idx, none_count, left, pc, wk, items>>

RemotePost(th, c) ==
  /\ wk[th].at = "idle"
  /\ Happen(c)
  /\ wk' = [wk EXCEPT ![th] = [at |-> "flag", of |-> c]]
  /\ UNCHANGED <<kind, pollers, awoken, base_waker, idx, none_count, left, pc,
                 notified, items>>

\* Mutant: base_waker is not woken.
RemoteFlagOnly(th) ==
  /\ wk[th].at = "flag"
  /\ awoken' = [awoken EXCEPT ![wk[th].of] = TRUE]
  /\ wk' = [wk EXCEPT ![th] = Idle]
  /\ UNCHANGED <<kind, pollers, base_waker, idx, none_count, left, pc, notified,
                 posted, items>>

\* set_awoken
RemoteFlag(th) ==
  /\ wk[th].at = "flag"
  /\ awoken' = [awoken EXCEPT ![wk[th].of] = TRUE]
  /\ wk' = [wk EXCEPT ![th].at = "base"]
  /\ UNCHANGED <<kind, pollers, base_waker, idx, none_count, left, pc, notified,
                 posted, items>>

\* base_waker.wake(), first half: take the waker.
RemoteTake(th) ==
  /\ wk[th].at = "base"
  /\ base_waker' = FALSE
  /\ wk' = [wk EXCEPT ![th] = IF base_waker THEN [@ EXCEPT !.at = "notify"] ELSE Idle]
  /\ UNCHANGED <<kind, pollers, awoken, idx, none_count, left, pc, notified,
                 posted, items>>

\* base_waker.wake(), second half: wake it.
RemoteNotify(th) ==
  /\ wk[th].at = "notify"
  /\ notified' = TRUE
  /\ wk' = [wk EXCEPT ![th] = Idle]
  /\ UNCHANGED <<kind, pollers, awoken, base_waker, idx, none_count, left, pc,
                 posted, items>>

RemoteWake(th) == RemoteFlag(th) \/ RemoteTake(th) \/ RemoteNotify(th)

-------------------------------------------------------------------------------
(* poll_join and poll_merged                                               *)

\* Mutant: the waker is not registered again after a value was returned.
PollOnce ==
  /\ pc \in {"idle", "yield"}
  /\ base_waker' = (base_waker \/ pc = "idle")
  /\ notified' = FALSE
  /\ left' = N
  /\ pc' = "loop"
  /\ UNCHANGED <<kind, pollers, awoken, idx, none_count, wk, posted, items>>

\* The parent is polled, because the task was woken, or wants the next value, or
\* for a reason of its own, and registers the waker.
Poll ==
  /\ pc \in {"idle", "yield"}
  /\ base_waker' = TRUE
  /\ notified' = FALSE
  /\ left' = N
  /\ pc' = "loop"
  /\ UNCHANGED <<kind, pollers, awoken, idx, none_count, wk, posted, items>>

\* Mutant: the end of the stream is not looked for.
AdvanceOn ==
  /\ idx' = (idx + 1) % N
  /\ left' = left - 1
  /\ pc' = IF left = 1 THEN "idle" ELSE "loop"

\* The merges end when all children have; join! looks at that after the last one.
Over ==
  \/ kind # "join" /\ none_count' = N
  \/ kind = "join" /\ left = 1 /\ \A c \in Children : pollers'[c] = "None"

\* To the next child.
Advance ==
  /\ idx' = (idx + 1) % N
  /\ left' = left - 1
  /\ pc' = IF Over THEN "end" ELSE IF left = 1 THEN "idle" ELSE "loop"

\* The child has ended, or was not woken: check_awoken returns false.
SkipChild ==
  /\ pc = "loop"
  /\ pollers[idx] = "None" \/ ~awoken[idx]
  /\ UNCHANGED <<kind, pollers, awoken, base_waker, none_count, wk, notified,
                 posted, items>>
  /\ Advance

\* check_awoken clears the flag.
CheckAwoken ==
  /\ pc = "loop"
  /\ pollers[idx] = "Some" /\ awoken[idx]
  /\ awoken' = [awoken EXCEPT ![idx] = FALSE]
  /\ pc' = "poll"
  /\ UNCHANGED <<kind, pollers, base_waker, idx, none_count, left, wk, notified,
                 posted, items>>

\* The child looks at what it waits for.
Observe ==
  /\ pc = "poll"
  /\ posted' = [posted EXCEPT ![idx] = FALSE]
  /\ pc' = "polling"
  /\ UNCHANGED <<kind, pollers, awoken, base_waker, idx, none_count, left, wk,
                 notified, items>>

ChildPending ==
  /\ pc = "polling"
  /\ UNCHANGED <<kind, pollers, awoken, base_waker, none_count, wk, notified,
                 posted, items>>
  /\ Advance

\* The child is gone.
EndChild ==
  /\ pollers' = [pollers EXCEPT ![idx] = "None"]
  /\ posted' = [posted EXCEPT ![idx] = FALSE]

\* A future of join! is ready.
ChildDone ==
  /\ pc = "polling"
  /\ kind = "join"
  /\ EndChild
  /\ UNCHANGED <<kind, awoken, base_waker, none_count, wk, notified, items>>
  /\ Advance

\* A future of merge_futures! is ready: its value is returned.
FutureYields ==
  /\ pc = "polling"
  /\ kind = "futures"
  /\ EndChild
  /\ none_count' = none_count + 1
  /\ awoken' = [awoken EXCEPT ![idx] = TRUE]
  /\ pc' = "yield"
  /\ UNCHANGED <<kind, base_waker, idx, left, wk, notified, items>>

\* Mutant: the flag is not set again.
StreamYieldsOnce ==
  /\ pc = "polling"
  /\ kind = "streams"
  /\ items[idx] < MaxItems
  /\ items' = [items EXCEPT ![idx] = @ + 1]
  /\ posted' = [posted EXCEPT ![idx] = TRUE]
  /\ pc' = "yield"
  /\ UNCHANGED <<kind, pollers, awoken, base_waker, idx, none_count, left, wk,
                 notified>>

\* Mutant: a stream that yields is counted as one that has ended.
StreamYieldsCounted ==
  /\ pc = "polling"
  /\ kind = "streams"
  /\ items[idx] < MaxItems
  /\ items' = [items EXCEPT ![idx] = @ + 1]
  /\ posted' = [posted EXCEPT ![idx] = TRUE]
  /\ none_count' = none_count + 1
  /\ awoken' = [awoken EXCEPT ![idx] = TRUE]
  /\ pc' = "yield"
  /\ UNCHANGED <<kind, pollers, base_waker, idx, left, wk, notified>>

\* A stream yields an item, which is returned.  The stream has not stored a
\* waker; it has to be polled again all the same.
StreamYields ==
  /\ pc = "polling"
  /\ kind = "streams"
  /\ items[idx] < MaxItems
  /\ items' = [items EXCEPT ![idx] = @ + 1]
  /\ posted' = [posted EXCEPT ![idx] = TRUE]
  /\ awoken' = [awoken EXCEPT ![idx] = TRUE]
  /\ pc' = "yield"
  /\ UNCHANGED <<kind, pollers, base_waker, idx, none_count, left, wk, notified>>

\* A stream ends.
StreamEnds ==
  /\ pc = "polling"
  /\ kind = "streams"
  /\ EndChild
  /\ none_count' = none_count + 1
  /\ UNCHANGED <<kind, awoken, base_waker, wk, notified, items>>
  /\ Advance

-------------------------------------------------------------------------------

Step ==
  \/ SkipChild \/ CheckAwoken \/ Observe
  \/ ChildPending \/ ChildDone \/ FutureYields \/ StreamYields \/ StreamEnds

Next ==
  \/ \E c \in Children : Wake(c) \/ \E th \in Threads : RemotePost(th, c)
  \/ \E th \in Threads : RemoteWake(th)
  \/ Poll \/ Step

\* A wake() that was begun ends; polls end; the task polls again when it is woken
\* and when it has got a value.
Fairness ==
  /\ \A th \in Threads : WF_vars(RemoteWake(th))
  /\ WF_vars(Step)
  /\ WF_vars((notified \/ pc = "yield") /\ Poll)

Spec == Init /\ [][Next]_vars
FairSpec == Spec /\ Fairness

-------------------------------------------------------------------------------
(* Properties                                                              *)

\* When Pending was returned and the flag of a child is set, the task was woken,
\* or a thread is about to wake it: a flag that is set after the loop has passed
\* the child is not forgotten.
FlaggedNotified ==
  pc = "idle" /\ (\E c \in Children : pollers[c] = "Some" /\ awoken[c]) =>
    \/ notified
    \/ \E th \in Threads : wk[th].at = "notify"
    \/ base_waker /\ \E th \in Threads : wk[th].at = "base"

\* The parent sleeps when it has returned Pending, the task was not woken and no
\* wake() is under way.
Sleeping ==
  /\ pc = "idle"
  /\ ~notified
  /\ \A th \in Threads : wk[th] = Idle

Cell == INSTANCE WakeCell WITH Actors <- Children, sleeping <- Sleeping

\* The FlagWakers keep towards the children the contract that the task's waker
\* keeps towards the parent: nobody sleeps through an event of a child, be it
\* new, woken by another thread or a stream that has just yielded.
ImplementsWakeCell == Cell!Spec

\* join! returns, and a merged stream ends, only when all children have.
EndsLast == pc = "end" => \A c \in Children : pollers[c] = "None"

\* Whatever happens to a child, it is polled again or has ended.
WakeObserved == \A c \in Children : posted[c] ~> ~posted[c]

\* When all children have ended, join! returns and a merged stream ends.
Ends == (\A c \in Children : pollers[c] = "None") ~> pc = "end"
===============================================================================
