------------------------------- MODULE Notifier -------------------------------
(***************************************************************************)
(* How the thread inside block_on is woken.                                *)
(*                                                                         *)
(* The thread of block_on alternates between polling its future and        *)
(* Reactor::wait, which blocks in poll(2).  Any thread may hold the waker, *)
(* which is the reactor's notifier: a file descriptor (eventfd or pipe)    *)
(* guarded by an atomic flag, WithFlag, that suppresses redundant writes.  *)
(*                                                                         *)
(* Atomic steps are the accesses to shared memory and the system calls.    *)
(* Memory is sequentially consistent.  Timers and I/O are reduced here to  *)
(* what they do to the notifier: they let poll(2) return, make the timeout *)
(* zero, and call the waker from inside wait().                            *)
(***************************************************************************)
EXTENDS Naturals, FiniteSets

CONSTANTS
  Threads,    \* the threads, other than the one in block_on, with the waker
  Main,       \* the thread in block_on
  Fds,        \* of "EventFd" and "PipeFd", those that are used
  FdCap,      \* notifications the descriptor holds; a write beyond it fails
  ReadLen,    \* notifications one read() takes out of a PipeFd: 8
  ReadFails   \* whether a read() of the descriptor may fail

ASSUME NotifierAssumption ==
  /\ Main \notin Threads /\ IsFiniteSet(Threads)
  /\ Fds \subseteq {"EventFd", "PipeFd"}
  /\ FdCap \in Nat \ {0}
  /\ ReadLen \in Nat \ {0}
  /\ ReadFails \in BOOLEAN

Actors == Threads \cup {Main}

\* EventFd::new: the flag NONBLOCK.
NewEventFd == [kind |-> "EventFd", nonblocking |-> TRUE]

\* PipeFd::new: set_nonblocking for both ends.
NewPipeFd == [kind |-> "PipeFd", nonblocking |-> TRUE]

VARIABLES
  flag,       \* WithFlag::is_notified
  inner,      \* WithFlag::inner: the descriptor, and its mode
  fd,         \* notifications in it
  wk,         \* wk[a]: where a is in Waker::wake
  posted,     \* posted[a]: an event of a that the future has not seen
  pc,         \* where Main is
  failures    \* read() calls that failed; from FdCap on they are not counted

vars == <<flag, inner, fd, wk, posted, pc, failures>>

WakePc == {"idle", "cas", "write"}

MainPc == {"poll",      \* block_on is about to poll the future
           "polling",   \* the future is being polled
           "wait",      \* Reactor::wait: timeout and flag not yet read
           "block",     \* inside poll(2)
           "woken",     \* poll(2) has returned, set_to_notified is next
           "events",    \* wakers of I/O and timers are being called
           "clear",     \* descriptor read, flag not yet reset
           "returned"}  \* block_on has returned

TypeOK ==
  /\ flag \in BOOLEAN
  /\ inner \in {NewEventFd, NewPipeFd}
  /\ fd \in 0..FdCap
  /\ wk \in [Actors -> WakePc]
  /\ posted \in [Actors -> BOOLEAN]
  /\ pc \in MainPc
  /\ failures \in 0..FdCap

-------------------------------------------------------------------------------
(* EventFd and PipeFd                                                      *)

\* WithFlag::new
WithFlag(i) == inner = i /\ fd = 0 /\ flag = FALSE

\* What one read() leaves: nothing of an eventfd, which it sets to 0; ReadLen
\* bytes less of a pipe.
EventFdClear(n) == 0
PipeFdClear(n) == IF n > ReadLen THEN n - ReadLen ELSE 0

clear(n) == IF inner.kind = "EventFd" THEN EventFdClear(n) ELSE PipeFdClear(n)

\* A write that fails when the descriptor is full: the counter of an eventfd has
\* a maximum, a pipe a buffer.
EventFdNotify(n) == IF n < FdCap THEN n + 1 ELSE n
PipeFdNotify(n) == IF n < FdCap THEN n + 1 ELSE n

notify(n) == IF inner.kind = "EventFd" THEN EventFdNotify(n) ELSE PipeFdNotify(n)

-------------------------------------------------------------------------------

Init ==
  /\ \E i \in {NewEventFd, NewPipeFd} : i.kind \in Fds /\ WithFlag(i)
  /\ wk = [a \in Actors |-> "idle"]
  /\ posted = [a \in Actors |-> FALSE]
  /\ pc = "poll"
  /\ failures = 0

-------------------------------------------------------------------------------
(* Waker::wake, by any thread.                                             *)

\* a makes something true that the future waits for and calls its waker.
\* Main does so while it polls the future, or from inside wait() for a fired
\* event or an expired timer.
Post(a) ==
  /\ wk[a] = "idle"
  /\ a = Main => pc \in {"polling", "events"}
  /\ posted' = [posted EXCEPT ![a] = TRUE]
  /\ wk' = [wk EXCEPT ![a] = "cas"]
  /\ UNCHANGED <<flag, inner, fd, pc, failures>>

\* notify(): the compare_exchange fails, someone else has notified.
NotifySkip(a) ==
  /\ wk[a] = "cas"
  /\ flag
  /\ wk' = [wk EXCEPT ![a] = "idle"]
  /\ UNCHANGED <<flag, inner, fd, posted, pc, failures>>

\* Mutant of NotifySet: the descriptor is not written.
NotifySetUnwritten(a) ==
  /\ wk[a] = "cas"
  /\ ~flag
  /\ flag' = TRUE
  /\ wk' = [wk EXCEPT ![a] = "idle"]
  /\ UNCHANGED <<inner, fd, posted, pc, failures>>

\* Mutant of NotifySet: a load in place of the compare_exchange.
NotifySetLoad(a) ==
  /\ wk[a] = "cas"
  /\ ~flag
  /\ wk' = [wk EXCEPT ![a] = "write"]
  /\ UNCHANGED <<flag, inner, fd, posted, pc, failures>>

\* notify(): the compare_exchange succeeds, the descriptor must be written.
NotifySet(a) ==
  /\ wk[a] = "cas"
  /\ ~flag
  /\ flag' = TRUE
  /\ wk' = [wk EXCEPT ![a] = "write"]
  /\ UNCHANGED <<inner, fd, posted, pc, failures>>

\* notify() of EventFd or PipeFd; Wake for Notifier drops an error of it.  On a
\* full descriptor a write blocks unless it is in non-blocking mode.
NotifyWrite(a) ==
  /\ wk[a] = "write"
  /\ fd < FdCap \/ inner.nonblocking
  /\ fd' = notify(fd)
  /\ wk' = [wk EXCEPT ![a] = "idle"]
  /\ UNCHANGED <<flag, inner, posted, pc, failures>>

Notify(a) == NotifySkip(a) \/ NotifySet(a) \/ NotifyWrite(a)

-------------------------------------------------------------------------------
(* block_on                                                                *)

\* The future is polled and sees every event posted so far.
PollFuture ==
  /\ pc = "poll"
  /\ posted' = [a \in Actors |-> FALSE]
  /\ pc' = "polling"
  /\ UNCHANGED <<flag, inner, fd, wk, failures>>

FuturePending ==
  /\ pc = "polling"
  /\ wk[Main] = "idle"
  /\ pc' = "wait"
  /\ UNCHANGED <<flag, inner, fd, wk, posted, failures>>

FutureReady ==
  /\ pc = "polling"
  /\ wk[Main] = "idle"
  /\ pc' = "returned"
  /\ UNCHANGED <<flag, inner, fd, wk, posted, failures>>

\* The thread calls block_on again.  The reactor, with its flag and its
\* descriptor, is the thread-local one the last call left behind.
BlockOn ==
  /\ pc = "returned"
  /\ pc' = "poll"
  /\ UNCHANGED <<flag, inner, fd, wk, posted, failures>>

-------------------------------------------------------------------------------
(* Reactor::wait                                                           *)

\* Mutant of WaitCheck: set_to_notified is called before poll(2), not after it.
WaitCheckSetsFlag(timeoutZero) ==
  /\ pc = "wait"
  /\ pc' = IF timeoutZero \/ flag THEN "events" ELSE "block"
  /\ flag' = TRUE
  /\ UNCHANGED <<inner, fd, wk, posted, failures>>

\* poll(2) is skipped when the next timer is due (timeoutZero) or the flag is
\* set; otherwise its system call follows.
WaitCheck(timeoutZero) ==
  /\ pc = "wait"
  /\ pc' = IF timeoutZero \/ flag THEN "events" ELSE "block"
  /\ UNCHANGED <<flag, inner, fd, wk, posted, failures>>

\* poll(2) returns because the notifier is readable.
PollNotified ==
  /\ pc = "block"
  /\ fd > 0
  /\ pc' = "woken"
  /\ UNCHANGED <<flag, inner, fd, wk, posted, failures>>

\* poll(2) returns because of an event source or the timeout.
PollEvent ==
  /\ pc = "block"
  /\ pc' = "woken"
  /\ UNCHANGED <<flag, inner, fd, wk, posted, failures>>

\* poll(2) or set_timeout fails: wait() returns at once, without clearing the
\* notifier, and block_on logs the error and polls the future.
PollError ==
  /\ pc = "block"
  /\ pc' = "poll"
  /\ UNCHANGED <<flag, inner, fd, wk, posted, failures>>

SetToNotified ==
  /\ pc = "woken"
  /\ flag' = TRUE
  /\ pc' = "events"
  /\ UNCHANGED <<inner, fd, wk, posted, failures>>

\* WithFlag::clear, first half: one read() of the descriptor, which may be
\* empty and then blocks unless it is in non-blocking mode.  An error of the
\* read is only logged and leaves the descriptor as it was.
ClearInner ==
  /\ pc = "events"
  /\ wk[Main] = "idle"
  /\ fd > 0 \/ inner.nonblocking
  /\ \/ fd' = clear(fd) /\ UNCHANGED failures
     \/ /\ ReadFails
        /\ failures' = IF failures < FdCap THEN failures + 1 ELSE failures
        /\ UNCHANGED fd
  /\ pc' = "clear"
  /\ UNCHANGED <<flag, inner, wk, posted>>

\* Mutant of ClearFlag: the flag is not reset.
ClearFlagForgotten ==
  /\ pc = "clear"
  /\ pc' = "poll"
  /\ UNCHANGED <<flag, inner, fd, wk, posted, failures>>

\* WithFlag::clear, second half.  wait() returns and block_on polls again.
ClearFlag ==
  /\ pc = "clear"
  /\ flag' = FALSE
  /\ pc' = "poll"
  /\ UNCHANGED <<inner, fd, wk, posted, failures>>

-------------------------------------------------------------------------------

Wait ==
  \/ \E timeoutZero \in BOOLEAN : WaitCheck(timeoutZero)
  \/ PollNotified \/ PollEvent \/ PollError
  \/ SetToNotified \/ ClearInner \/ ClearFlag

Next ==
  \/ \E a \in Actors : Post(a) \/ Notify(a)
  \/ PollFuture \/ FuturePending \/ FutureReady \/ BlockOn
  \/ Wait

\* Threads that have begun a wake finish it; block_on keeps running and poll(2)
\* returns when its descriptor is readable.  A future's poll and the loop over
\* fired events end (strong fairness, since their own wake-ups interrupt them).
\* Nothing makes an event, a timer or an error happen.
Fairness ==
  /\ \A a \in Actors : WF_vars(Notify(a))
  /\ WF_vars(PollFuture)
  /\ SF_vars(FuturePending \/ FutureReady)
  /\ WF_vars(\E timeoutZero \in BOOLEAN : WaitCheck(timeoutZero))
  /\ WF_vars(PollNotified)
  /\ WF_vars(SetToNotified)
  /\ SF_vars(ClearInner)
  /\ WF_vars(ClearFlag)

Spec == Init /\ [][Next]_vars
FairSpec == Spec /\ Fairness

-------------------------------------------------------------------------------
(* Properties                                                              *)

\* The threads between the compare_exchange and the write of notify().
Writers == {a \in Actors : wk[a] = "write"}

\* The descriptor is readable, or some thread is about to make it so.
Armed == fd > 0 \/ \E a \in Actors : wk[a] = "write"

\* Until wait() resumes, an event posted since the future was last polled has
\* the flag set as soon as its wake() is past the compare_exchange, whether that
\* thread or another one set it: is_notified() is then enough for wait() to
\* know that it must not block.
PostedFlagged ==
  pc \in {"polling", "wait", "block"} =>
    \A a \in Actors : posted[a] /\ wk[a] # "cas" => flag

\* No wake-up is lost: while the thread is blocked in poll(2), an event whose
\* wake() has already returned is backed by a readable descriptor or by a
\* thread between the compare_exchange and the write of notify().
NoLostWakeup ==
  pc = "block" =>
    \A a \in Actors : posted[a] /\ wk[a] = "idle" => Armed

\* Outside of wait() the flag is never set without the descriptor being written
\* or about to be: this is what the Release store in WithFlag::clear, after the
\* read of the descriptor, is for.
NotifiedFlagBacked ==
  flag /\ pc \in {"poll", "polling", "wait", "block", "returned"} => Armed

\* The comment in PipeFd::clear expects at most one notification in the pipe, and
\* reads 8 of them at a time.  A thread suspended between its compare_exchange
\* and its write, and a clear() that resets a flag set after its read, let more
\* accumulate, but not without limit: there is at most one for each other thread,
\* two more, and one for each read that failed.  A pipe or an eventfd that holds
\* as many is never full, so that the error that Wake for Notifier drops does not
\* occur.
NotificationsBounded ==
  fd + Cardinality(Writers) <= Cardinality(Threads) + 2 + failures

\* Every event posted to a running block_on is seen by a later poll of the
\* future, without the help of any I/O event or timer.
WakeObserved ==
  \A a \in Actors : posted[a] ~> (~posted[a] \/ pc = "returned")

\* The thread sleeps for good only when it is blocked, the descriptor is not
\* readable and no wake-up is on its way.
Cell == INSTANCE WakeCell WITH
  sleeping <- pc = "block" /\ ~Armed /\ \A a \in Actors : wk[a] # "cas"

\* Notifier implements the waker's contract.
ImplementsWakeCell == Cell!Spec

===============================================================================
