-------------------------------- MODULE Timers --------------------------------
(***************************************************************************)
(* The timer queue of the reactor, and the futures that use it: Timer,     *)
(* Periodic and Timeout.                                                   *)
(*                                                                         *)
(* The queue is a map from (expiry, identifier) to a waker.  Identifiers   *)
(* wrap around.  A timer future remembers its expiry and its identifier    *)
(* and finds its entry by them, to replace the waker or to cancel it; but  *)
(* wait() removes the entry when it has expired, without telling.          *)
(*                                                                         *)
(* Everything here happens on one thread.  What interleaves with it is the *)
(* clock, which moves between any two steps.                               *)
(***************************************************************************)
EXTENDS FiniteSets, Functions, Timeouts

CONSTANTS
  Timers,          \* the timer futures
  Wakers,          \* the wakers that they are polled with
  MaxId,           \* identifiers are 1..MaxId
  MaxTime,         \* bound of the model: the clock stops there
  MaxExpiry,       \* bound of the model: no timer expires later
  Periods,         \* the periods of Periodic
  TimeoutMethods   \* of Methods, those that a reactor may have been built with

ASSUME TimersAssumption ==
  /\ Wakers # {}
  /\ MaxId \in Nat \ {0}
  /\ MaxTime \in Nat /\ MaxExpiry \in Nat
  /\ MaxExpiry + NanosPerMilli \in 0..MaxTime
  /\ Periods \subseteq Nat
  /\ TimeoutMethods \subseteq Methods
  /\ IsFiniteSet(Timers) /\ Cardinality(Timers) <= MaxId

Time == 0..MaxTime
Expiries == 0..MaxExpiry
Ids == 1..MaxId
NoId == 0          \* Option::None of an identifier

VARIABLES
  now,             \* Instant::now()
  \* TimerQueue
  current_id,
  timers,          \* (expiry, id) |-> waker
  \* each Timer
  expiry,
  timer_id,
  state,           \* "done" is a Timeout whose future was ready, not yet dropped
  waker,           \* waker[x]: the waker x was last polled with
  \* block_on and Reactor::wait
  todo,            \* the timers whose waker was called and that were not polled
  pc,
  method,          \* the reactor's PollTimeout or TimerFd
  setting,         \* in poll(2): what it was called with
  since            \* in poll(2): when it was called

futureVars == <<expiry, timer_id, state, waker>>
pollVars == <<method, setting, since>>
vars == <<now, current_id, timers, futureVars, todo, pc, pollVars>>

TypeOK ==
  /\ now \in Time
  /\ current_id \in Ids
  /\ DOMAIN timers \subseteq Expiries \X Ids
  /\ \A k \in DOMAIN timers : timers[k] \in Wakers
  /\ expiry \in [Timers -> Expiries]
  /\ timer_id \in [Timers -> Ids \cup {NoId}]
  /\ state \in [Timers -> {"none", "new", "pending", "done", "gone"}]
  /\ waker \in [Timers -> Wakers]
  /\ todo \subseteq Timers
  /\ pc \in {"run", "blocked", "expire"}
  /\ method \in TimeoutMethods
  /\ setting \in Settings
  /\ since \in Time

\* poll(2) is not being called.
NoCall(s, t) == s = set_timeout("poll", None) /\ t = 0

Init ==
  /\ now = 0
  /\ current_id = 1
  /\ timers = [k \in {} |-> CHOOSE w \in Wakers : TRUE]
  /\ expiry = [x \in Timers |-> 0]
  /\ timer_id = [x \in Timers |-> NoId]
  /\ state = [x \in Timers |-> "none"]
  /\ waker = [x \in Timers |-> CHOOSE w \in Wakers : TRUE]
  /\ todo = {}
  /\ pc = "run"
  /\ method \in TimeoutMethods
  /\ NoCall(setting, since)

Tick ==
  /\ now < MaxTime
  /\ now' = now + 1
  /\ UNCHANGED <<current_id, timers, futureVars, todo, pc, pollVars>>

-------------------------------------------------------------------------------
(* TimerQueue                                                              *)

\* Mutant: no wrap around.
IncrOnly(id) == id + 1

\* overflowing_incr
Incr(id) == IF id = MaxId THEN 1 ELSE id + 1

\* The loop of register() ends with the first identifier, from current_id on
\* and around, that is not in use with this expiry.
FirstFree(e, id) ==
  LET distance(i) == (i + MaxId - current_id) % MaxId
      free == {i \in Ids : <<e, i>> \notin DOMAIN timers}
  IN  id \in free /\ \A i \in free : distance(id) <= distance(i)

Insert(k, w) ==
  timers' = [j \in DOMAIN timers \cup {k} |-> IF j = k THEN w ELSE timers[j]]

\* Mutant: no second try when the entry exists.
registerOverwrites(e, id, w) ==
  id = current_id /\ current_id' = Incr(id) /\ Insert(<<e, id>>, w)

register(e, id, w) ==
  FirstFree(e, id) /\ current_id' = Incr(id) /\ Insert(<<e, id>>, w)

\* Mutant: the waker stays the one of the first poll.
modifyKeeps(e, id, w) == UNCHANGED <<timers, current_id>>

modify(e, id, w) ==
  /\ timers' = IF <<e, id>> \in DOMAIN timers
                 THEN [timers EXCEPT ![<<e, id>>] = w] ELSE timers
  /\ UNCHANGED current_id

cancel(e, id) ==
  /\ timers' = Restrict(timers, DOMAIN timers \ {<<e, id>>})
  /\ UNCHANGED current_id

\* Mutant: the last entry.
LastTimeout ==
  IF DOMAIN timers = {} THEN None
  ELSE LET last == CHOOSE e \in {k[1] : k \in DOMAIN timers} :
                     \A k \in DOMAIN timers : e >= k[1]
       IN  IF last <= now THEN 0 ELSE last - now

\* saturating_duration_since for the first entry.
next_timeout ==
  IF DOMAIN timers = {} THEN None
  ELSE LET first == CHOOSE e \in {k[1] : k \in DOMAIN timers} :
                      \A k \in DOMAIN timers : e <= k[1]
       IN  IF first <= now THEN 0 ELSE first - now

\* The entries that clear_expired removes.
Expired == {k \in DOMAIN timers : k[1] <= now}

-------------------------------------------------------------------------------
(* Timer and Periodic                                                      *)

\* The constructors: when a new timer expires first.
at(e) == e
delay(d) == at(now + d)
sleep(d) == delay(d)
timeout(d) == delay(d)
timeout_at(e) == at(e)
periodic(p) == delay(p)
periodic_at(start, p) == at(start)

\* What expiries they give to a Timer, a Timeout or a Periodic.
FirstExpiries ==
  UNION {{at(e), sleep(e), timeout(e), timeout_at(e)} : e \in Expiries}
    \cup UNION {{periodic(p)} \cup {periodic_at(e, p) : e \in Expiries} : p \in Periods}

New(x, e) ==
  /\ pc = "run"
  /\ state[x] = "none"
  /\ e \in Expiries
  /\ state' = [state EXCEPT ![x] = "new"]
  /\ expiry' = [expiry EXCEPT ![x] = e]
  /\ UNCHANGED <<now, current_id, timers, timer_id, waker, todo, pc, pollVars>>

\* poll() before the expiry: Timer::register.
PollPending(x, w) ==
  /\ pc = "run"
  /\ state[x] \in {"new", "pending"}
  /\ expiry[x] > now
  /\ IF timer_id[x] = NoId
       THEN \E id \in Ids : /\ register(expiry[x], id, w)
                            /\ timer_id' = [timer_id EXCEPT ![x] = id]
       ELSE modify(expiry[x], timer_id[x], w) /\ UNCHANGED timer_id
  /\ state' = [state EXCEPT ![x] = "pending"]
  /\ waker' = [waker EXCEPT ![x] = w]
  /\ todo' = todo \ {x}
  /\ UNCHANGED <<now, expiry, pc, pollVars>>

\* Mutant: the entry stays in the queue.
DeregisterForgets(x) ==
  /\ timer_id' = [timer_id EXCEPT ![x] = NoId]
  /\ todo' = todo \ {x}
  /\ UNCHANGED <<timers, current_id>>

\* Mutant: the identifier stays in the future.
DeregisterKeepsId(x) ==
  /\ IF timer_id[x] = NoId THEN UNCHANGED <<timers, current_id>>
                           ELSE cancel(expiry[x], timer_id[x])
  /\ todo' = todo \ {x}
  /\ UNCHANGED timer_id

\* What poll() at the expiry and drop() do: forget the identifier and cancel.
Deregister(x) ==
  /\ IF timer_id[x] = NoId THEN UNCHANGED <<timers, current_id>>
                           ELSE cancel(expiry[x], timer_id[x])
  /\ timer_id' = [timer_id EXCEPT ![x] = NoId]
  /\ todo' = todo \ {x}

\* poll() of a Timer at or after its expiry.
PollReady(x) ==
  /\ pc = "run"
  /\ state[x] \in {"new", "pending"}
  /\ expiry[x] <= now
  /\ Deregister(x)
  /\ state' = [state EXCEPT ![x] = "gone"]
  /\ UNCHANGED <<now, expiry, waker, pc, pollVars>>

\* poll_next() of a Periodic at or after its expiry.  Its period is any one, as
\* set_period may have changed it since.
PollNext(x, period) ==
  /\ pc = "run"
  /\ state[x] \in {"new", "pending"}
  /\ expiry[x] <= now
  /\ expiry[x] + period <= MaxExpiry
  /\ Deregister(x)
  /\ state' = [state EXCEPT ![x] = "new"]
  /\ expiry' = [expiry EXCEPT ![x] = @ + period]
  /\ UNCHANGED <<now, waker, pc, pollVars>>

\* poll() of a Timeout whose future is ready: the timer is not touched.
PollTimeoutOk(x) ==
  /\ pc = "run"
  /\ state[x] \in {"new", "pending"}
  /\ state' = [state EXCEPT ![x] = "done"]
  /\ todo' = todo \ {x}
  /\ UNCHANGED <<now, current_id, timers, expiry, timer_id, waker, pc, pollVars>>

Drop(x) ==
  /\ pc = "run"
  /\ state[x] \in {"new", "pending", "done"}
  /\ Deregister(x)
  /\ state' = [state EXCEPT ![x] = "gone"]
  /\ UNCHANGED <<now, expiry, waker, pc, pollVars>>

-------------------------------------------------------------------------------
(* Reactor::wait, as far as timers are concerned                           *)

\* wait() reads the clock once, for next_timeout.  It skips poll(2) if a timer
\* is due or the notifier is set, and otherwise sets the timeout.
WaitTimers(notified) ==
  /\ pc = "run"
  /\ todo = {}
  /\ IF next_timeout = 0 \/ notified
       THEN pc' = "expire" /\ UNCHANGED <<setting, since>>
       ELSE /\ pc' = "blocked"
            /\ setting' = set_timeout(method, next_timeout)
            /\ since' = now
  /\ UNCHANGED <<now, current_id, timers, futureVars, todo, method>>

\* poll(2) is due to time out.
TimesOut == pc = "blocked" /\ ~Forever(setting) /\ now >= since + Sleep(setting)

\* poll(2) times out, or returns for another reason.
PollReturns ==
  /\ pc = "blocked"
  /\ pc' = "expire"
  /\ NoCall(setting', since')
  /\ UNCHANGED <<now, current_id, timers, futureVars, todo, method>>

\* poll(2) or set_timeout fails: wait() returns the error before it clears
\* anything, block_on logs it and polls again.
PollFails ==
  /\ pc = "blocked"
  /\ pc' = "run"
  /\ NoCall(setting', since')
  /\ UNCHANGED <<now, current_id, timers, futureVars, todo, method>>

\* clear_expired reads the clock again; block_on then polls whoever was woken.
ClearExpired ==
  /\ pc = "expire"
  /\ timers' = Restrict(timers, DOMAIN timers \ Expired)
  /\ todo' = {x \in Timers : /\ state[x] = "pending"
                             /\ waker[x] \in {timers[k] : k \in Expired}}
  /\ pc' = "run"
  /\ UNCHANGED <<now, current_id, futureVars, pollVars>>

-------------------------------------------------------------------------------

PollTimer(x) ==
  \/ \E w \in Wakers : PollPending(x, w)
  \/ PollReady(x) \/ PollTimeoutOk(x)
  \/ \E period \in Periods : PollNext(x, period)

Next ==
  \/ Tick
  \/ \E x \in Timers : \/ \E e \in FirstExpiries : New(x, e)
                        \/ PollTimer(x) \/ Drop(x)
  \/ \E notified \in BOOLEAN : WaitTimers(notified)
  \/ PollReturns \/ PollFails \/ ClearExpired

\* The clock advances, block_on polls the futures that were woken and then
\* waits, and poll(2) returns at the timeout.
Fairness ==
  /\ WF_vars(Tick)
  /\ \A x \in Timers : WF_vars(x \in todo /\ PollTimer(x))
  /\ SF_vars(\E notified \in BOOLEAN : WaitTimers(notified))
  /\ WF_vars(TimesOut /\ PollReturns)
  /\ WF_vars(ClearExpired)

Spec == Init /\ [][Next]_vars
FairSpec == Spec /\ Fairness

-------------------------------------------------------------------------------
(* Properties                                                              *)

\* A timer that remembers an identifier and has not expired is in the queue,
\* with the waker it was last polled with: modify() never misses its entry and
\* the right task is woken.
RegisteredUntilExpiry ==
  \A x \in Timers : timer_id[x] # NoId /\ expiry[x] > now =>
    /\ <<expiry[x], timer_id[x]>> \in DOMAIN timers
    /\ timers[<<expiry[x], timer_id[x]>>] = waker[x]

\* No two timers answer to the same entry, although identifiers wrap around and
\* are remembered after the entry has gone: cancel() of one timer never removes
\* the entry of another.
OwnEntry ==
  \A x, y \in Timers :
    x # y /\ timer_id[x] # NoId /\ timer_id[x] = timer_id[y] =>
      expiry[x] # expiry[y]

\* Every entry belongs to a timer that can still cancel it: the queue keeps no
\* waker of a timer that is gone.
NoLeak ==
  \A k \in DOMAIN timers :
    \E x \in Timers : state[x] \in {"pending", "done"} /\ k = <<expiry[x], timer_id[x]>>

\* While poll(2) blocks, it blocks no longer than any pending timer allows, up to
\* the precision that the documentation of the module states: an expired timer
\* was polled before wait() was called, and the timeout was not rounded away,
\* wrapped around or turned into the value that means forever.
NoOversleep ==
  pc = "blocked" =>
    \A x \in Timers : state[x] = "pending" =>
      /\ ~Forever(setting)
      /\ since + Sleep(setting) <= expiry[x] + Precision(method)

\* The documentation of the module: the timer may sleep for longer "but it will
\* never sleep for less".  When poll(2) times out, the first timer has expired,
\* so that block_on is not woken for nothing; unless the timeout did not fit.
NoEarlyTimeout ==
  TimesOut => Saturated(setting) \/ Expired # {}

\* A pending timer fires: clear_expired calls the waker of its latest poll, also
\* after poll(2) has failed, and a Periodic fires again and again.
Fires == \A x \in Timers : state[x] = "pending" ~> state[x] # "pending"
===============================================================================
