------------------------------- MODULE AsyncIo --------------------------------
(***************************************************************************)
(* Async<T> and the event sources of the reactor.                          *)
(*                                                                         *)
(* An operation on a source first tries the system call; when that would   *)
(* block, it enables the direction in the reactor, with its waker.  wait() *)
(* polls the enabled directions, and each one that is reported is disabled *)
(* and its waker called.  readable() and writable() never try: they enable *)
(* the direction and take it for ready once it is disabled.                *)
(*                                                                         *)
(* As the documentation of Async asks, each direction of a source is used  *)
(* by one operation at a time.  Nothing is assumed of the descriptors here: *)
(* what the kernel would report of them changes at any step, and a system  *)
(* call may block or not whatever is reported.  Sockets says what they are, *)
(* and that this specification covers them.                                *)
(***************************************************************************)
EXTENDS FiniteSets

CONSTANTS
  Sources,         \* the file descriptors
  Dirs,            \* the directions in use, of "read" and "write"
  Wakers,
  None             \* Option::None of a waker

ASSUME AsyncIoAssumption ==
  /\ Dirs \subseteq {"read", "write"}
  /\ None \notin Wakers

Ends == Sources \X Dirs

\* Flags of poll(2), and those that mean that a direction is ready.
PollFlags == {"IN", "OUT", "HUP"}
Flags(d) == IF d = "read" THEN {"IN", "HUP"} ELSE {"OUT", "HUP"}

\* What poll(2) watches besides the sources: the notifier and the timerfd.
Specials == {"notifier", "timer"}

VARIABLES
  \* the kernel
  ready,           \* ready[s]: the flags that hold of s
  special,         \* what is readable of Specials
  \* Reactor
  event_sources,   \* the registered sources
  enabled,         \* enabled[e]: Wakeup.enabled of that end of a source
  waker,           \* waker[e]: Wakeup.waker
  \* the operations
  op,              \* op[e]: the operation that uses e
  cx,              \* cx[e]: the waker of its last poll
  seen,            \* seen[e]: e was ready at some time since readable() or
                   \* writable() was called
  \* block_on and Reactor::wait
  todo,            \* operations whose waker was called and that were not polled
  pc

vars == <<ready, special, event_sources, enabled, waker, op, cx, seen, todo, pc>>
opVars == <<op, cx, todo>>

TypeOK ==
  /\ ready \in [Sources -> SUBSET PollFlags]
  /\ special \subseteq Specials
  /\ event_sources \subseteq Sources
  /\ enabled \in [Ends -> BOOLEAN]
  /\ waker \in [Ends -> Wakers \cup {None}]
  /\ \A e \in Ends : enabled[e] => waker[e] \in Wakers
  /\ op \in [Ends -> {"none", "io", "ready"}]
  /\ cx \in [Ends -> Wakers \cup {None}]
  /\ seen \in [Ends -> BOOLEAN]
  /\ todo \subseteq Ends
  /\ pc \in {"run", "poll", "panic"}

Init ==
  /\ ready = [s \in Sources |-> {}]
  /\ special = {}
  /\ event_sources = {}
  /\ enabled = [e \in Ends |-> FALSE]
  /\ waker = [e \in Ends |-> None]
  /\ op = [e \in Ends |-> "none"]
  /\ cx = [e \in Ends |-> None]
  /\ seen = [e \in Ends |-> FALSE]
  /\ todo = {}
  /\ pc = "run"

Ready(e) == ready[e[1]] \cap Flags(e[2]) # {}

-------------------------------------------------------------------------------
(* The environment                                                         *)

\* What poll(2) would report of s becomes flags.
Becomes(s, flags) ==
  /\ ready' = [ready EXCEPT ![s] = flags]
  /\ seen' = [e \in Ends |->
               \/ seen[e]
               \/ e[1] = s /\ op[e] = "ready" /\ flags \cap Flags(e[2]) # {}]

\* A source becomes ready, or ceases to be.
KernelChange(s, flags) ==
  /\ Becomes(s, flags)
  /\ UNCHANGED <<special, event_sources, enabled, waker, opVars, pc>>

\* Another thread calls the notifier, or the first timer expires.
SpecialReady(x) ==
  /\ special' = special \cup {x}
  /\ UNCHANGED <<ready, event_sources, enabled, waker, opVars, seen, pc>>

-------------------------------------------------------------------------------
(* Async                                                                   *)

\* The EventData of s is a fresh one, or is gone.
Clear(s) ==
  /\ enabled' = [e \in Ends |-> enabled[e] /\ e[1] # s]
  /\ waker' = [e \in Ends |-> IF e[1] = s THEN None ELSE waker[e]]

\* Reactor::register_event
register_event(s) ==
  /\ event_sources' = event_sources \cup {s}
  /\ Clear(s)

\* Mutant: the previous entry is not put back.
register_again_resets(s) ==
  /\ Clear(s)
  /\ UNCHANGED event_sources

\* Reactor::register_event of a source that is registered: the previous entry is
\* put back and an error is returned.
register_again(s) == UNCHANGED <<event_sources, enabled, waker>>

\* Reactor::deregister_event
deregister_event(s) ==
  /\ event_sources' = event_sources \ {s}
  /\ Clear(s)

\* No operation borrows the Async.
Unused(s) == \A d \in Dirs : op[<<s, d>>] = "none"

\* Async::new of a descriptor, which may have been opened by the same call.
New(s, flags) ==
  /\ pc = "run"
  /\ s \notin event_sources
  /\ register_event(s)
  /\ Becomes(s, flags)
  /\ UNCHANGED <<special, opVars, pc>>

\* Async::new of a descriptor that another Async has registered.
NewAgain(s) ==
  /\ pc = "run"
  /\ s \in event_sources
  /\ register_again(s)
  /\ UNCHANGED <<ready, special, opVars, seen, pc>>

\* The Async of s ends: GuardedSource is dropped.
Deregister(s) ==
  /\ pc = "run"
  /\ s \in event_sources
  /\ Unused(s)
  /\ deregister_event(s)
  /\ UNCHANGED <<ready, special, opVars, seen, pc>>

\* Mutant: the waker is not stored.
enable_eventOnly(e, w) ==
  /\ enabled' = [enabled EXCEPT ![e] = TRUE]
  /\ UNCHANGED waker

\* Mutant: a waker that is there is not replaced.
enable_eventFirst(e, w) ==
  /\ enabled' = [enabled EXCEPT ![e] = TRUE]
  /\ waker' = [waker EXCEPT ![e] = IF @ = None THEN w ELSE @]

\* Reactor::enable_event
enable_event(e, w) ==
  /\ enabled' = [enabled EXCEPT ![e] = TRUE]
  /\ waker' = [waker EXCEPT ![e] = w]

\* The operation on e is polled with w and returns Pending.
Suspend(e, kind, w) ==
  /\ enable_event(e, w)
  /\ op' = [op EXCEPT ![e] = kind]
  /\ cx' = [cx EXCEPT ![e] = w]
  /\ todo' = todo \ {e}

\* The operation on e is over.
End(e) ==
  /\ op' = [op EXCEPT ![e] = "none"]
  /\ cx' = [cx EXCEPT ![e] = None]
  /\ todo' = todo \ {e}
  /\ UNCHANGED <<enabled, waker>>

\* poll_event: try, and enable the event if the call would block.  It returns
\* if the call succeeds, and if it fails for another reason.
poll_event(e, w, blocks) ==
  /\ pc = "run"
  /\ e[1] \in event_sources
  /\ op[e] \in {"none", "io"}
  /\ IF blocks THEN Suspend(e, "io", w) ELSE End(e)
  /\ UNCHANGED <<special, event_sources, pc>>

\* A call that does not block changes what there is to read or to write.
PollEvent(e, w, flags) ==
  \/ poll_event(e, w, TRUE) /\ UNCHANGED <<ready, seen>>
  \/ poll_event(e, w, FALSE) /\ Becomes(e[1], flags)

\* wait_for_event_ready, first call.
WaitReadyFirst(e, w) ==
  /\ pc = "run"
  /\ e[1] \in event_sources
  /\ op[e] = "none"
  /\ Suspend(e, "ready", w)
  /\ seen' = [seen EXCEPT ![e] = Ready(e)]
  /\ UNCHANGED <<ready, special, event_sources, pc>>

\* Reactor::is_event_ready
is_event_ready(e) == ~enabled[e]

\* wait_for_event_ready, later calls: is_event_ready.
WaitReadyAgain(e, w) ==
  /\ pc = "run"
  /\ op[e] = "ready"
  /\ IF is_event_ready(e) THEN End(e) ELSE Suspend(e, "ready", w)
  /\ seen' = [seen EXCEPT ![e] = @ /\ ~is_event_ready(e)]
  /\ UNCHANGED <<ready, special, event_sources, pc>>

\* The operation's future is dropped; the event stays enabled.
Cancel(e) ==
  /\ pc = "run"
  /\ op[e] # "none"
  /\ End(e)
  /\ seen' = [seen EXCEPT ![e] = FALSE]
  /\ UNCHANGED <<ready, special, event_sources, pc>>

-------------------------------------------------------------------------------
(* Reactor::wait                                                           *)

\* EventData::filter
filter(s) == {d \in Dirs : enabled[<<s, d>>]}

\* Filter::pollflags
pollflags(f) == UNION {Flags(d) : d \in f}

\* What poll(2) is asked about s.
Asked(s) == pollflags(filter(s))

\* What poll(2) answers about s: HUP is reported of any source in the list.
Revents(s) ==
  IF s \in event_sources /\ Asked(s) # {} THEN ready[s] \cap Asked(s) ELSE {}

Reported == {s \in Sources : Revents(s) # {}}

\* Mutant: every enabled end fires.
FiredAll == {e \in Ends : enabled[e]}

\* The ends that are reported and enabled.
Fired == {e \in Ends : Revents(e[1]) \cap Flags(e[2]) # {} /\ enabled[e]}

\* Wakeup::wake for each of them: call the waker and disable the event.
WakeEnds(fired) ==
  /\ enabled' = [e \in Ends |-> enabled[e] /\ e \notin fired]
  /\ todo' = {e \in Ends : op[e] # "none" /\ cx[e] \in {waker[f] : f \in fired}}

\* A timer is due or the notifier is set: the sources are not looked at.
WaitSkip ==
  /\ pc = "run"
  /\ todo = {}
  /\ special # {}
  /\ special' = {}
  /\ UNCHANGED <<ready, event_sources, enabled, waker, opVars, seen, pc>>

WaitPoll ==
  /\ pc = "run"
  /\ todo = {}
  /\ special = {}
  /\ pc' = "poll"
  /\ UNCHANGED <<ready, special, event_sources, enabled, waker, opVars, seen>>

\* poll(2) reports sources only, and wait() wakes who waits for them.
PollSources ==
  /\ pc = "poll"
  /\ Reported # {} /\ special = {}
  /\ WakeEnds(Fired)
  /\ pc' = "run"
  /\ UNCHANGED <<ready, special, event_sources, waker, op, cx, seen>>

\* poll(2) reports the notifier or the timerfd only, or times out.
PollSpecials ==
  /\ pc = "poll"
  /\ Reported = {} /\ special # {}
  /\ special' = {}
  /\ pc' = "run"
  /\ UNCHANGED <<ready, event_sources, enabled, waker, opVars, seen>>

\* poll(2) reports both: the iterator yields the notifier or the timerfd too,
\* and wait() does not find it in event_sources.
PollBoth ==
  /\ pc = "poll"
  /\ Reported # {} /\ special # {}
  /\ pc' = "panic"
  /\ UNCHANGED <<ready, special, event_sources, enabled, waker, opVars, seen>>

\* poll(2) fails: nothing is woken and nothing is cleared.
PollFails ==
  /\ pc = "poll"
  /\ pc' = "run"
  /\ UNCHANGED <<ready, special, event_sources, enabled, waker, opVars, seen>>

-------------------------------------------------------------------------------

PollOp(e) == \E w \in Wakers : WaitReadyFirst(e, w) \/ WaitReadyAgain(e, w)

Poll == PollSources \/ PollSpecials \/ PollBoth

Wait == WaitSkip \/ WaitPoll \/ Poll \/ PollFails

Next ==
  \/ \E s \in Sources : \/ NewAgain(s) \/ Deregister(s)
                        \/ \E flags \in SUBSET PollFlags :
                             KernelChange(s, flags) \/ New(s, flags)
  \/ \E x \in Specials : SpecialReady(x)
  \/ \E e \in Ends : \/ PollOp(e) \/ Cancel(e)
                     \/ \E w \in Wakers, flags \in SUBSET PollFlags :
                          PollEvent(e, w, flags)
  \/ Wait

Spec == Init /\ [][Next]_vars

-------------------------------------------------------------------------------
(* Properties                                                              *)

\* An operation that waits, and whose waker was not called, is enabled in the
\* reactor with the waker of its last poll.
WaitingEnabled ==
  \A e \in Ends : op[e] # "none" /\ e \notin todo =>
    e[1] \in event_sources /\ enabled[e] /\ waker[e] = cx[e]

\* readable() and writable() tell the truth: a direction that they take for ready
\* was ready at some time since they were called.
ReadyHonest ==
  \A e \in Ends : op[e] = "ready" /\ ~enabled[e] => seen[e]

\* The unwrap() in wait(): what poll(2) reports is in event_sources.
NoPanic == pc # "panic"
===============================================================================
