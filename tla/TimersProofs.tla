----------------------------- MODULE TimersProofs -----------------------------
(***************************************************************************)
(* Timeouts reach poll(2) soundly, the timers and the queue agree, and     *)
(* register() finds an identifier: for any number of timers and wakers,    *)
(* any range of identifiers, any widths and any bounds of the clock.       *)
(***************************************************************************)
EXTENDS Timers, FiniteSetTheorems, WellFoundedInduction, TLAPS

-------------------------------------------------------------------------------
(* What both ways to time out promise, for durations and widths of any     *)
(* size.                                                                   *)

\* Division with remainder.
LEMMA Division ==
  ASSUME NEW d \in Nat, NEW m \in Nat \ {0}
  PROVE  /\ d \div m \in Nat /\ d % m \in Nat /\ d % m < m
         /\ d = ((d \div m) * m) + (d % m)
OBVIOUS

\* PollTimeout: poll(2) never times out before the duration is over, unless it
\* does not fit into 32 bits, and at most a millisecond after it.
THEOREM PollTimeoutSound ==
  ASSUME NEW d \in Nat, d > 0
  PROVE  Sound(PollTimeout(d), d, NanosPerMilli)
<1> DEFINE q == d \div NanosPerMilli
           s == PollTimeout(d)
<1>1. q \in Nat /\ q * NanosPerMilli <= d /\ d < (q + 1) * NanosPerMilli
  BY Division, TimeoutsAssumption
<1> HIDE DEF q
<1>2. CASE q + 1 <= I32Max
  <2>1. s.millis = q + 1 /\ s.sec = 0 /\ s.nsec = 0
    BY <1>1, <1>2, TimeoutsAssumption DEF PollTimeout, Saturate, None, q
  <2>2. Sleep(s) = (q + 1) * NanosPerMilli
    BY <1>1, <2>1 DEF Sleep
  <2> HIDE DEF s
  <2>3. Sound(s, d, NanosPerMilli)
    BY <1>1, <2>1, <2>2, TimeoutsAssumption DEF Sound, Forever
  <2> QED BY <2>3 DEF s
<1>3. CASE ~(q + 1 <= I32Max)
  <2>1. s.millis = I32Max /\ s.sec = 0 /\ s.nsec = 0
    BY <1>1, <1>3, TimeoutsAssumption DEF PollTimeout, Saturate, None, q
  <2>2. Sleep(s) = I32Max * NanosPerMilli
    BY <2>1, TimeoutsAssumption DEF Sleep
  <2>3. I32Max * NanosPerMilli <= q * NanosPerMilli + NanosPerMilli
    BY <1>1, <1>3, TimeoutsAssumption
  <2> HIDE DEF s
  <2>4. Sound(s, d, NanosPerMilli)
    BY <1>1, <2>1, <2>2, <2>3, TimeoutsAssumption DEF Sound, Forever, Saturated
  <2> QED BY <2>4 DEF s
<1> QED BY <1>1, <1>2, <1>3, TimeoutsAssumption

\* TimerFd: a timeout arms the timerfd, also a timeout of zero; the timerfd is
\* not readable before the duration is over, unless its seconds do not fit into
\* 64 bits, and is so a nanosecond later.
THEOREM TimerFdSound ==
  ASSUME NEW d \in Nat
  PROVE  Sound(TimerFd(d), d, 1)
<1> DEFINE q == d \div NanosPerSec
           r == d % NanosPerSec
           n == IF r = 0 THEN 1 ELSE r
           s == TimerFd(d)
<1>1. q \in Nat /\ r \in Nat /\ d = (q * NanosPerSec) + r
  BY Division, TimeoutsAssumption
<1>2. s.millis = -1 /\ s.sec = Saturate(q, I64Max) /\ s.nsec = n
  BY DEF TimerFd, None
<1> HIDE DEF q, r
<1>3. n \in Nat \ {0} /\ r <= n /\ n <= r + 1
  BY <1>1
<1> HIDE DEF n
<1>4. CASE q <= I64Max
  <2>1. Sleep(s) = (q * NanosPerSec) + n
    BY <1>1, <1>2, <1>4, TimeoutsAssumption DEF Sleep, Saturate
  <2> HIDE DEF s
  <2>2. Sound(s, d, 1)
    BY <1>1, <1>2, <1>3, <2>1, TimeoutsAssumption DEF Sound, Forever
  <2> QED BY <2>2 DEF s
<1>5. CASE q > I64Max
  <2>1. s.sec = I64Max
    BY <1>1, <1>2, <1>5, TimeoutsAssumption DEF Saturate
  <2>2. Sleep(s) = (I64Max * NanosPerSec) + n
    BY <1>2, <2>1 DEF Sleep
  <2>3. I64Max * NanosPerSec <= q * NanosPerSec
    BY <1>1, <1>5, TimeoutsAssumption
  <2> HIDE DEF s
  <2>4. Sound(s, d, 1)
    BY <1>1, <1>2, <1>3, <2>1, <2>2, <2>3, TimeoutsAssumption DEF Sound, Forever, Saturated
  <2> QED BY <2>4 DEF s
<1> QED BY <1>1, <1>4, <1>5, TimeoutsAssumption

-------------------------------------------------------------------------------
(* The timers and the queue                                                *)

States == {"none", "new", "pending", "done", "gone"}

\* The types that the argument needs.
QueueType ==
  /\ now \in Nat
  /\ timers \in [DOMAIN timers -> Wakers]
  /\ DOMAIN timers \subseteq Expiries \X Ids
  /\ expiry \in [Timers -> Expiries]
  /\ timer_id \in [Timers -> Ids \cup {NoId}]
  /\ state \in [Timers -> States]
  /\ waker \in [Timers -> Wakers]

\* Only a timer that can still cancel it remembers an identifier.
IdHeld == \A x \in Timers : timer_id[x] # NoId => state[x] \in {"pending", "done"}

IInv == QueueType /\ IdHeld /\ RegisteredUntilExpiry /\ OwnEntry /\ NoLeak

\* The key of the entry that x remembers.
Key(x) == <<expiry[x], timer_id[x]>>

\* No identifier is NoId.
LEMMA NoIdApart == NoId \notin Ids /\ Ids \subseteq Nat /\ Expiries \subseteq Nat
BY TimersAssumption DEF NoId, Ids, Expiries

\* Timers that remember an identifier have different keys.
LEMMA KeysApart ==
  ASSUME IInv, NEW x \in Timers, NEW y \in Timers, x # y, timer_id[x] # NoId
  PROVE  Key(x) # Key(y)
BY DEF IInv, OwnEntry, Key

\* Every entry is the one of a timer that remembers an identifier.
LEMMA EntryHeld ==
  ASSUME IInv, NEW k \in DOMAIN timers
  PROVE  \E x \in Timers : timer_id[x] # NoId /\ state[x] \in {"pending", "done"}
                           /\ k = Key(x)
<1>1. PICK x \in Timers : state[x] \in {"pending", "done"} /\ k = Key(x)
  BY DEF IInv, NoLeak, Key
<1>2. timer_id[x] \in Ids
  BY <1>1 DEF IInv, QueueType, Key
<1> QED
  BY <1>1, <1>2, NoIdApart

\* The invariant holds initially.
LEMMA InitIInv == Init => IInv
<1> SUFFICES ASSUME Init PROVE IInv
  OBVIOUS
<1>1. (CHOOSE w \in Wakers : TRUE) \in Wakers
  BY TimersAssumption
<1>2. DOMAIN timers = {} /\ timers \in [DOMAIN timers -> Wakers]
  BY DEF Init
<1>3. 0 \in Expiries
  BY TimersAssumption, TimeoutsAssumption DEF Expiries
<1>4. /\ now \in Nat
      /\ expiry \in [Timers -> Expiries]
      /\ timer_id \in [Timers -> Ids \cup {NoId}]
      /\ state \in [Timers -> States]
      /\ waker \in [Timers -> Wakers]
  BY <1>1, <1>3 DEF Init, States
<1>5. \A x \in Timers : timer_id[x] = NoId
  BY DEF Init
<1> QED
  BY <1>2, <1>4, <1>5 DEF IInv, QueueType, IdHeld, RegisteredUntilExpiry, OwnEntry, NoLeak

-------------------------------------------------------------------------------

\* The clock only takes timers out of the scope of RegisteredUntilExpiry.
LEMMA TickIInv == ASSUME IInv, Tick PROVE IInv'
<1> USE DEF IInv, Tick, futureVars
<1>1. now \in Nat /\ now' = now + 1
  BY DEF QueueType
<1>2. QueueType' /\ IdHeld' /\ OwnEntry' /\ NoLeak'
  BY <1>1 DEF QueueType, IdHeld, OwnEntry, NoLeak
<1>3. \A x \in Timers : expiry[x] > now' => expiry[x] > now
  BY <1>1, NoIdApart DEF QueueType
<1>4. RegisteredUntilExpiry'
  BY <1>3 DEF RegisteredUntilExpiry
<1> QED
  BY <1>2, <1>4

\* A step that leaves what IInv is about alone.
LEMMA StutterIInv ==
  ASSUME IInv, UNCHANGED <<now, timers, expiry, timer_id, state, waker>> PROVE IInv'
BY DEF IInv, QueueType, IdHeld, RegisteredUntilExpiry, OwnEntry, NoLeak

\* A new timer has no entry.
LEMMA NewIInv == ASSUME IInv, NEW x \in Timers, NEW e \in FirstExpiries, New(x, e) PROVE IInv'
<1>0. state[x] = "none" /\ e \in Expiries
  BY DEF New
<1>1. timer_id[x] = NoId
  BY <1>0 DEF IInv, IdHeld
<1>2. /\ state' = [state EXCEPT ![x] = "new"]
      /\ expiry' = [expiry EXCEPT ![x] = e]
      /\ UNCHANGED <<now, timers, timer_id, waker>>
  BY DEF New
<1>3. QueueType'
  BY <1>0, <1>2 DEF IInv, QueueType, States
<1>4. IdHeld'
  BY <1>1, <1>2 DEF IInv, QueueType, IdHeld
<1>5. RegisteredUntilExpiry'
  BY <1>1, <1>2 DEF IInv, QueueType, RegisteredUntilExpiry
<1>6. OwnEntry'
  BY <1>1, <1>2 DEF IInv, QueueType, OwnEntry
<1>7. NoLeak'
  <2> SUFFICES ASSUME NEW k \in DOMAIN timers'
               PROVE  \E y \in Timers : /\ state'[y] \in {"pending", "done"}
                                        /\ k = <<expiry'[y], timer_id'[y]>>
    BY DEF NoLeak
  <2>1. PICK y \in Timers : timer_id[y] # NoId /\ state[y] \in {"pending", "done"} /\ k = Key(y)
    BY <1>2, EntryHeld
  <2>2. y # x
    BY <2>1, <1>1
  <2> QED
    BY <2>1, <2>2, <1>2 DEF Key, IInv, QueueType
<1> QED
  BY <1>3, <1>4, <1>5, <1>6, <1>7 DEF IInv
\* The first poll finds an identifier that nobody with this expiry remembers:
\* who does is still in the queue, as the expiry has not passed.
LEMMA RegisterIInv ==
  ASSUME IInv, NEW x \in Timers, NEW w \in Wakers, NEW id \in Ids,
         expiry[x] > now, timer_id[x] = NoId, register(expiry[x], id, w),
         timer_id' = [timer_id EXCEPT ![x] = id],
         state' = [state EXCEPT ![x] = "pending"],
         waker' = [waker EXCEPT ![x] = w],
         UNCHANGED <<now, expiry>>
  PROVE  IInv'
<1> DEFINE key == <<expiry[x], id>>
<1>1. key \notin DOMAIN timers
  BY DEF register, FirstFree
<1>2. timers' = [j \in DOMAIN timers \cup {key} |-> IF j = key THEN w ELSE timers[j]]
  BY DEF register, Insert
<1>3. /\ DOMAIN timers' = DOMAIN timers \cup {key}
      /\ timers'[key] = w
      /\ \A j \in DOMAIN timers : timers'[j] = timers[j]
  BY <1>1, <1>2
<1>4. key \in Expiries \X Ids
  BY DEF IInv, QueueType
<1>5. timers' \in [DOMAIN timers' -> Wakers]
  BY <1>2 DEF IInv, QueueType
<1>6. QueueType'
  BY <1>3, <1>4, <1>5 DEF IInv, QueueType, States
<1>7. IdHeld'
  BY DEF IInv, QueueType, IdHeld
<1>8. \A y \in Timers \ {x} : timer_id[y] # NoId => Key(y) # key
  BY <1>1 DEF IInv, RegisteredUntilExpiry, Key
<1>9. RegisteredUntilExpiry'
  BY <1>3 DEF IInv, QueueType, RegisteredUntilExpiry
<1>10. OwnEntry'
  BY <1>8, NoIdApart DEF IInv, QueueType, OwnEntry, Key
<1>11. NoLeak'
  <2> SUFFICES ASSUME NEW k \in DOMAIN timers'
               PROVE  \E y \in Timers : /\ state'[y] \in {"pending", "done"}
                                        /\ k = <<expiry'[y], timer_id'[y]>>
    BY DEF NoLeak
  <2>1. CASE k = key
    BY <2>1 DEF IInv, QueueType
  <2>2. CASE k # key
    <3>1. PICK y \in Timers : timer_id[y] # NoId /\ state[y] \in {"pending", "done"} /\ k = Key(y)
      BY <1>3, <2>2, EntryHeld
    <3> QED
      BY <3>1 DEF Key, IInv, QueueType
  <2> QED
    BY <2>1, <2>2
<1> QED
  BY <1>6, <1>7, <1>9, <1>10, <1>11 DEF IInv

\* A later poll finds its own entry.
LEMMA ModifyIInv ==
  ASSUME IInv, NEW x \in Timers, NEW w \in Wakers,
         expiry[x] > now, timer_id[x] # NoId, modify(expiry[x], timer_id[x], w),
         state' = [state EXCEPT ![x] = "pending"],
         waker' = [waker EXCEPT ![x] = w],
         UNCHANGED <<now, expiry, timer_id>>
  PROVE  IInv'
<1>1. Key(x) \in DOMAIN timers
  BY DEF IInv, RegisteredUntilExpiry, Key
<1>2. timers' = [timers EXCEPT ![Key(x)] = w]
  BY <1>1 DEF modify, Key
<1>3. /\ DOMAIN timers' = DOMAIN timers
      /\ timers'[Key(x)] = w
      /\ \A j \in DOMAIN timers : j # Key(x) => timers'[j] = timers[j]
  BY <1>1, <1>2 DEF IInv, QueueType
<1>4. timers' \in [DOMAIN timers' -> Wakers]
  BY <1>1, <1>2 DEF IInv, QueueType
<1>5. QueueType'
  BY <1>3, <1>4 DEF IInv, QueueType, States
<1>6. IdHeld' /\ OwnEntry'
  BY DEF IInv, QueueType, IdHeld, OwnEntry
<1>7. \A y \in Timers \ {x} : Key(y) # Key(x)
  BY KeysApart
<1>8. RegisteredUntilExpiry'
  BY <1>3, <1>7 DEF IInv, QueueType, RegisteredUntilExpiry, Key
<1>9. NoLeak'
  BY <1>3 DEF IInv, QueueType, NoLeak
<1> QED
  BY <1>5, <1>6, <1>8, <1>9 DEF IInv

LEMMA PollPendingIInv ==
  ASSUME IInv, NEW x \in Timers, NEW w \in Wakers, PollPending(x, w) PROVE IInv'
<1>1. CASE timer_id[x] = NoId
  <2>1. PICK id \in Ids : /\ register(expiry[x], id, w)
                          /\ timer_id' = [timer_id EXCEPT ![x] = id]
    BY <1>1 DEF PollPending
  <2> QED
    BY <1>1, <2>1, RegisterIInv DEF PollPending
<1>2. CASE timer_id[x] # NoId
  BY <1>2, ModifyIInv DEF PollPending
<1> QED
  BY <1>1, <1>2

-------------------------------------------------------------------------------

\* Forgetting an identifier takes the entry along, and no entry of another timer.
\* The timer may then take another expiry.
LEMMA DeregisterIInv ==
  ASSUME IInv, NEW x \in Timers, NEW s \in {"gone", "new"}, NEW e \in Expiries,
         Deregister(x), state' = [state EXCEPT ![x] = s],
         expiry' = [expiry EXCEPT ![x] = e],
         UNCHANGED <<now, waker>>
  PROVE  IInv'
<1>1. timer_id' = [timer_id EXCEPT ![x] = NoId]
  BY DEF Deregister
<1>2. /\ timers' \in [DOMAIN timers' -> Wakers]
      /\ DOMAIN timers' = DOMAIN timers \ {Key(x)}
      /\ \A j \in DOMAIN timers' : timers'[j] = timers[j]
  <2>1. CASE timer_id[x] = NoId
    <3>1. Key(x) \notin DOMAIN timers
      BY <2>1, NoIdApart DEF IInv, QueueType, Key
    <3> QED
      BY <2>1, <3>1 DEF Deregister, IInv, QueueType
  <2>2. CASE timer_id[x] # NoId
    <3>1. timers' = [j \in DOMAIN timers \ {Key(x)} |-> timers[j]]
      BY <2>2 DEF Deregister, cancel, Restrict, Key
    <3> QED
      BY <3>1 DEF IInv, QueueType
  <2> QED
    BY <2>1, <2>2
<1>3. QueueType'
  BY <1>1, <1>2 DEF IInv, QueueType, States
<1>4. IdHeld'
  BY <1>1 DEF IInv, QueueType, IdHeld
<1>5. \A y \in Timers \ {x} : timer_id[y] # NoId => Key(y) # Key(x)
  BY KeysApart
<1>6. RegisteredUntilExpiry'
  BY <1>1, <1>2, <1>5 DEF IInv, QueueType, RegisteredUntilExpiry, Key
<1>7. OwnEntry'
  BY <1>1 DEF IInv, QueueType, OwnEntry
<1>8. NoLeak'
  <2> SUFFICES ASSUME NEW k \in DOMAIN timers'
               PROVE  \E y \in Timers : /\ state'[y] \in {"pending", "done"}
                                        /\ k = <<expiry'[y], timer_id'[y]>>
    BY DEF NoLeak
  <2>1. PICK y \in Timers : timer_id[y] # NoId /\ state[y] \in {"pending", "done"} /\ k = Key(y)
    BY <1>2, EntryHeld
  <2>2. y # x
    BY <1>2, <2>1
  <2> QED
    BY <2>1, <2>2, <1>1 DEF Key, IInv, QueueType
<1> QED
  BY <1>3, <1>4, <1>6, <1>7, <1>8 DEF IInv

LEMMA PollReadyIInv == ASSUME IInv, NEW x \in Timers, PollReady(x) \/ Drop(x) PROVE IInv'
<1>1. Deregister(x) /\ state' = [state EXCEPT ![x] = "gone"] /\ UNCHANGED <<now, waker, expiry>>
  BY DEF PollReady, Drop
<1>2. expiry[x] \in Expiries /\ expiry' = [expiry EXCEPT ![x] = expiry[x]]
  BY <1>1 DEF IInv, QueueType
<1> QED
  BY <1>1, <1>2, DeregisterIInv

LEMMA PollNextIInv ==
  ASSUME IInv, NEW x \in Timers, NEW period \in Periods, PollNext(x, period) PROVE IInv'
<1>1. /\ Deregister(x)
      /\ state' = [state EXCEPT ![x] = "new"]
      /\ expiry' = [expiry EXCEPT ![x] = expiry[x] + period]
      /\ UNCHANGED <<now, waker>>
  BY DEF PollNext
<1>2. expiry[x] \in Expiries
  BY DEF IInv, QueueType
<1>3. expiry[x] + period \in Expiries
  BY <1>2, TimersAssumption DEF PollNext, Expiries
<1> QED
  BY <1>1, <1>3, DeregisterIInv
\* A Timeout whose future was ready keeps its entry.
LEMMA PollTimeoutOkIInv == ASSUME IInv, NEW x \in Timers, PollTimeoutOk(x) PROVE IInv'
<1>1. /\ state' = [state EXCEPT ![x] = "done"]
      /\ UNCHANGED <<now, timers, expiry, timer_id, waker>>
  BY DEF PollTimeoutOk
<1>2. QueueType' /\ IdHeld' /\ RegisteredUntilExpiry' /\ OwnEntry'
  BY <1>1 DEF IInv, QueueType, IdHeld, RegisteredUntilExpiry, OwnEntry, States
<1>3. NoLeak'
  BY <1>1 DEF IInv, QueueType, NoLeak
<1> QED
  BY <1>2, <1>3 DEF IInv

\* clear_expired leaves the timers alone that have not expired.
LEMMA ClearExpiredIInv == ASSUME IInv, ClearExpired PROVE IInv'
<1>1. UNCHANGED <<now, expiry, timer_id, state, waker>>
  BY DEF ClearExpired, futureVars
<1>2. timers' = [k \in DOMAIN timers \ Expired |-> timers[k]]
  BY DEF ClearExpired, Restrict
<1>3. QueueType'
  BY <1>1, <1>2 DEF IInv, QueueType
<1>4. IdHeld' /\ OwnEntry' /\ NoLeak'
  BY <1>1, <1>2 DEF IInv, IdHeld, OwnEntry, NoLeak
<1>5. \A x \in Timers : expiry[x] > now => Key(x) \notin Expired
  BY NoIdApart DEF Key, Expired, IInv, QueueType
<1>6. RegisteredUntilExpiry'
  BY <1>1, <1>2, <1>5 DEF IInv, RegisteredUntilExpiry, Key
<1> QED
  BY <1>3, <1>4, <1>6 DEF IInv

\* Every step keeps the invariant.
LEMMA NextIInv == IInv /\ [Next]_vars => IInv'
<1> SUFFICES ASSUME IInv, [Next]_vars PROVE IInv'
  OBVIOUS
<1>1. CASE Tick
  BY <1>1, TickIInv
<1>2. ASSUME NEW x \in Timers, NEW e \in FirstExpiries, New(x, e) PROVE IInv'
  BY <1>2, NewIInv
<1>3. ASSUME NEW x \in Timers, PollTimer(x) PROVE IInv'
  BY <1>3, PollPendingIInv, PollReadyIInv, PollTimeoutOkIInv, PollNextIInv DEF PollTimer
<1>4. ASSUME NEW x \in Timers, Drop(x) PROVE IInv'
  BY <1>4, PollReadyIInv
<1>5. CASE (\E notified \in BOOLEAN : WaitTimers(notified)) \/ PollReturns \/ PollFails
           \/ UNCHANGED vars
  BY <1>5, StutterIInv DEF WaitTimers, PollReturns, PollFails, vars, futureVars
<1>6. CASE ClearExpired
  BY <1>6, ClearExpiredIInv
<1> QED
  BY <1>1, <1>2, <1>3, <1>4, <1>5, <1>6 DEF Next

LEMMA InvariantIInv == Spec => []IInv
BY InitIInv, NextIInv, PTL DEF Spec

\* Timer::register() of a timer that has not expired always finds its own entry,
\* and the queue will wake the task that polled it last.
THEOREM TimersRegistered == Spec => []RegisteredUntilExpiry
<1>1. IInv => RegisteredUntilExpiry
  BY DEF IInv
<1> QED
  BY <1>1, InvariantIInv, PTL

\* cancel() of one timer never removes the entry of another, however often the
\* identifiers have wrapped around.
THEOREM TimersOwnEntries == Spec => []OwnEntry
<1>1. IInv => OwnEntry
  BY DEF IInv
<1> QED
  BY <1>1, InvariantIInv, PTL

\* Whatever is polled, dropped or times out, the queue keeps no entry that no
\* timer can cancel any more.
THEOREM TimersNotLeaked == Spec => []NoLeak
<1>1. IInv => NoLeak
  BY DEF IInv
<1> QED
  BY <1>1, InvariantIInv, PTL
-------------------------------------------------------------------------------
(* How long wait() blocks.                                                 *)

\* A pending timer that need not be polled is in the queue, expired or not.
Queued ==
  \A x \in Timers : state[x] = "pending" /\ x \notin todo =>
    Key(x) \in DOMAIN timers /\ timers[Key(x)] = waker[x]

\* Everything that was woken was polled before block_on calls wait().
Idle == pc # "run" => todo = {}

\* When poll(2) times out, an entry will have expired.
DueAtTimeout ==
  pc = "blocked" =>
    /\ since \in Nat /\ Sleep(setting) \in Nat
    /\ Forever(setting) \/ Saturated(setting)
         \/ \E k \in DOMAIN timers : k[1] <= since + Sleep(setting)

BInv == IInv /\ Queued /\ Idle /\ method \in Methods /\ NoOversleep /\ DueAtTimeout

\* A set of numbers has a least one.
LEMMA Least ==
  ASSUME NEW T, T \subseteq Nat, T # {} PROVE \E n \in T : \A m \in T : n <= m
<1>1. PICK n \in T : \A m \in T : ~(<<m, n>> \in OpToRel(<, Nat))
  BY WFMin, NatLessThanWellFounded
<1>2. \A m \in T : ~(m < n)
  BY <1>1 DEF OpToRel
<1> QED
  BY <1>2

\* next_timeout is None for an empty queue, and else how long it is until the
\* first entry expires, or zero.
LEMMA NextTimeout ==
  ASSUME IInv
  PROVE  \/ DOMAIN timers = {} /\ next_timeout = None
         \/ \E k \in DOMAIN timers :
              /\ k[1] \in Nat
              /\ \A j \in DOMAIN timers : k[1] <= j[1]
              /\ next_timeout = IF k[1] <= now THEN 0 ELSE k[1] - now
<1> DEFINE T == {k[1] : k \in DOMAIN timers}
           least(e) == \A k \in DOMAIN timers : e <= k[1]
           first == CHOOSE e \in T : least(e)
<1>1. CASE DOMAIN timers = {}
  BY <1>1 DEF next_timeout
<1>2. CASE DOMAIN timers # {}
  <2>1. T \subseteq Nat /\ T # {}
    BY <1>2, NoIdApart DEF IInv, QueueType
  <2>2. \E n \in T : least(n)
    <3>1. \A k \in DOMAIN timers : k[1] \in T
      OBVIOUS
    <3>2. PICK n \in T : \A m \in T : n <= m
      <4> HIDE DEF T
      <4> QED BY <2>1, Least
    <3> QED
      BY <3>1, <3>2
  <2>3. first \in T /\ least(first)
    <3> HIDE DEF T, least
    <3> QED BY <2>2
  <2>4. next_timeout = IF first <= now THEN 0 ELSE first - now
    BY <1>2 DEF next_timeout
  <2> HIDE DEF first
  <2>5. PICK k \in DOMAIN timers : first = k[1]
    BY <2>3
  <2> QED
    BY <2>1, <2>3, <2>4, <2>5
<1> QED
  BY <1>1, <1>2

\* set_timeout for a timer that is due later.
LEMMA SetTimeout ==
  ASSUME NEW m \in Methods, NEW d \in Nat, d > 0
  PROVE  LET s == set_timeout(m, d) IN Sleep(s) \in Nat /\ Sound(s, d, Precision(m))
<1> USE TimeoutsAssumption
<1>1. CASE m = "poll"
  <2>1. set_timeout(m, d) = PollTimeout(d) /\ Precision(m) = NanosPerMilli
    BY <1>1 DEF set_timeout, Precision
  <2>2. d \div NanosPerMilli \in Nat
    BY Division
  <2>3. PollTimeout(d).millis \in Nat
    BY <2>2 DEF PollTimeout, Saturate, None
  <2>4. Sleep(PollTimeout(d)) \in Nat
    BY <2>3 DEF Sleep
  <2> QED
    BY <2>1, <2>4, PollTimeoutSound
<1>2. CASE m = "timerfd"
  <2>1. set_timeout(m, d) = TimerFd(d) /\ Precision(m) = 1
    BY <1>2 DEF set_timeout, Precision
  <2>2. d \div NanosPerSec \in Nat /\ (d % NanosPerSec) \in Nat
    BY Division
  <2>3. /\ TimerFd(d).sec \in Nat /\ TimerFd(d).nsec \in Nat
        /\ TimerFd(d).millis = -1
    BY <2>2 DEF TimerFd, Saturate, None
  <2>4. Sleep(TimerFd(d)) \in Nat
    BY <2>3 DEF Sleep
  <2> QED
    BY <2>1, <2>4, TimerFdSound
<1> QED
  BY <1>1, <1>2 DEF Methods
\* wait() is called when nothing is left to poll, so that every pending timer is
\* in the queue, and blocks for the first one.
LEMMA WaitBInv ==
  ASSUME BInv, NEW notified \in BOOLEAN, WaitTimers(notified) PROVE BInv'
<1>0. /\ UNCHANGED <<now, timers, expiry, timer_id, state, waker, todo, method>>
      /\ todo = {} /\ pc' # "run"
  BY DEF WaitTimers, futureVars
<1>1. IInv'
  BY <1>0, StutterIInv DEF BInv
<1>2. Queued' /\ Idle' /\ (method \in Methods)'
  BY <1>0 DEF BInv, Queued, Idle, Key
<1>3. CASE pc' = "expire"
  BY <1>1, <1>2, <1>3 DEF BInv, NoOversleep, DueAtTimeout
<1>4. CASE pc' = "blocked"
  <2> DEFINE s == set_timeout(method, next_timeout)
  <2>1. next_timeout # 0 /\ setting' = s /\ since' = now
    BY <1>4 DEF WaitTimers
  <2>2. now \in Nat
    BY DEF BInv, IInv, QueueType
  <2>3. CASE DOMAIN timers = {} /\ next_timeout = None
    <3>1. Forever(s) /\ Sleep(s) \in Nat
      <4>1. s.millis = -1 /\ s.sec = 0 /\ s.nsec = 0
        BY <2>3 DEF set_timeout, PollTimeout, TimerFd, None
      <4> QED
        BY <4>1, TimeoutsAssumption DEF Forever, Sleep
    <3>2. \A x \in Timers : state[x] # "pending"
      BY <2>3, <1>0 DEF BInv, Queued
    <3>3. NoOversleep'
      BY <3>2, <1>0 DEF NoOversleep
    <3>4. DueAtTimeout'
      BY <3>1, <2>1, <2>2 DEF DueAtTimeout
    <3> QED
      BY <1>1, <1>2, <3>3, <3>4 DEF BInv
  <2>4. ASSUME NEW k \in DOMAIN timers, k[1] \in Nat,
               \A j \in DOMAIN timers : k[1] <= j[1],
               next_timeout = IF k[1] <= now THEN 0 ELSE k[1] - now
        PROVE  BInv'
    <3> DEFINE d == k[1] - now
    <3>1. next_timeout = d /\ d \in Nat /\ d > 0
      BY <2>1, <2>2, <2>4
    <3>2. Sleep(s) \in Nat /\ Sound(s, d, Precision(method))
      BY <3>1, SetTimeout DEF BInv
    <3>3. Precision(method) \in Nat
      BY TimeoutsAssumption DEF Precision
    <3> HIDE DEF s
    <3>4. ~Forever(s) /\ (Saturated(s) \/ Sleep(s) >= d) /\ Sleep(s) <= d + Precision(method)
      BY <3>2 DEF Sound
    <3>5. \A x \in Timers : state[x] = "pending" => expiry[x] \in Nat /\ k[1] <= expiry[x]
      BY <1>0, <2>4, NoIdApart DEF BInv, Queued, Key, IInv, QueueType
    <3>6. NoOversleep'
      BY <3>2, <3>3, <3>4, <3>5, <2>1, <2>2, <2>4, <1>0 DEF NoOversleep
    <3>7. DueAtTimeout'
      BY <3>2, <3>4, <2>1, <2>2, <2>4, <1>0 DEF DueAtTimeout
    <3> QED
      BY <1>1, <1>2, <3>6, <3>7 DEF BInv
  <2> QED
    BY <2>3, <2>4, NextTimeout DEF BInv
<1> QED
  BY <1>3, <1>4 DEF WaitTimers
\* A future is only polled or dropped while nothing blocks.
LEMMA RunBInv ==
  ASSUME BInv, IInv', Queued', pc = "run", UNCHANGED <<pc, method>> PROVE BInv'
BY DEF BInv, Idle, NoOversleep, DueAtTimeout

\* A poll before the expiry leaves an entry with the waker.
LEMMA PollPendingQueued ==
  ASSUME BInv, NEW x \in Timers, NEW w \in Wakers, PollPending(x, w) PROVE Queued'
<1>0. IInv /\ IInv'
  BY PollPendingIInv DEF BInv
<1>1. /\ state' = [state EXCEPT ![x] = "pending"]
      /\ waker' = [waker EXCEPT ![x] = w]
      /\ todo' = todo \ {x}
      /\ UNCHANGED <<now, expiry>>
      /\ expiry[x] > now
  BY DEF PollPending
<1>2. timer_id'[x] # NoId /\ \A y \in Timers \ {x} : timer_id'[y] = timer_id[y]
  BY NoIdApart DEF PollPending, BInv, IInv, QueueType
<1>3. Key(x)' \in DOMAIN timers' /\ timers'[Key(x)'] = waker'[x]
  BY <1>0, <1>1, <1>2 DEF IInv, RegisteredUntilExpiry, Key
<1>4. ASSUME NEW y \in Timers \ {x}, Key(y) \in DOMAIN timers
      PROVE  Key(y) \in DOMAIN timers' /\ timers'[Key(y)] = timers[Key(y)]
  <2>1. CASE timer_id[x] = NoId
    <3>1. PICK id \in Ids : register(expiry[x], id, w)
      BY <2>1 DEF PollPending
    <3> QED
      BY <1>4, <3>1 DEF register, FirstFree, Insert
  <2>2. CASE timer_id[x] # NoId
    <3>1. Key(x) # Key(y)
      BY <1>0, <2>2, KeysApart
    <3>2. modify(expiry[x], timer_id[x], w)
      BY <2>2 DEF PollPending
    <3> QED
      BY <1>0, <1>4, <3>1, <3>2 DEF modify, Key, IInv, QueueType
  <2> QED
    BY <2>1, <2>2
<1>5. \A y \in Timers \ {x} : Key(y)' = Key(y) /\ waker'[y] = waker[y] /\ state'[y] = state[y]
  BY <1>0, <1>1, <1>2 DEF Key, IInv, QueueType
<1> QED
  BY <1>1, <1>3, <1>4, <1>5 DEF BInv, Queued

\* A timer that cancels its own entry leaves the other entries.
LEMMA DeregisterQueued ==
  ASSUME BInv, NEW x \in Timers, NEW s \in {"gone", "new"}, NEW e \in Expiries,
         Deregister(x), state' = [state EXCEPT ![x] = s],
         expiry' = [expiry EXCEPT ![x] = e], UNCHANGED waker
  PROVE  Queued'
<1>1. ASSUME NEW y \in Timers \ {x}, Key(y) \in DOMAIN timers
      PROVE  Key(y) \in DOMAIN timers' /\ timers'[Key(y)] = timers[Key(y)]
  <2>1. CASE timer_id[x] = NoId
    BY <1>1, <2>1 DEF Deregister
  <2>2. CASE timer_id[x] # NoId
    <3>1. Key(x) # Key(y)
      BY <2>2, KeysApart DEF BInv
    <3>2. timers' = [j \in DOMAIN timers \ {Key(x)} |-> timers[j]]
      BY <2>2 DEF Deregister, cancel, Restrict, Key
    <3> QED
      BY <1>1, <3>1, <3>2
  <2> QED
    BY <2>1, <2>2
<1>2. state'[x] # "pending" /\ todo' = todo \ {x}
  BY DEF BInv, IInv, QueueType, Deregister
<1>3. \A y \in Timers \ {x} : Key(y)' = Key(y) /\ waker'[y] = waker[y] /\ state'[y] = state[y]
  BY DEF Key, BInv, IInv, QueueType, Deregister
<1> QED
  BY <1>1, <1>2, <1>3 DEF BInv, Queued

\* Whoever clear_expired takes out of the queue is going to be polled.
LEMMA ClearExpiredBInv == ASSUME BInv, ClearExpired PROVE BInv'
<1>1. IInv'
  BY ClearExpiredIInv DEF BInv
<1>2. /\ pc = "expire" /\ pc' = "run"
      /\ UNCHANGED <<expiry, timer_id, state, waker, method>>
      /\ timers' = [k \in DOMAIN timers \ Expired |-> timers[k]]
      /\ todo' = {x \in Timers : /\ state[x] = "pending"
                                 /\ waker[x] \in {timers[k] : k \in Expired}}
  BY DEF ClearExpired, futureVars, pollVars, Restrict
<1>3. todo = {}
  BY <1>2 DEF BInv, Idle
<1>4. ASSUME NEW x \in Timers, state[x] = "pending", x \notin todo'
      PROVE  Key(x) \in DOMAIN timers' /\ timers'[Key(x)] = waker[x]
  <2>1. Key(x) \in DOMAIN timers /\ timers[Key(x)] = waker[x]
    BY <1>3, <1>4 DEF BInv, Queued
  <2>2. Key(x) \notin Expired
    BY <1>2, <1>4, <2>1
  <2> QED
    BY <1>2, <2>1, <2>2
<1>5. Queued'
  BY <1>2, <1>4 DEF Queued, Key
<1> QED
  BY <1>1, <1>2, <1>5 DEF BInv, Idle, NoOversleep, DueAtTimeout
LEMMA PollBInv ==
  ASSUME BInv, NEW x \in Timers,
         (\E e \in FirstExpiries : New(x, e)) \/ PollTimer(x) \/ Drop(x)
  PROVE  BInv'
<1>1. ASSUME NEW e \in FirstExpiries, New(x, e) PROVE BInv'
  <2>1. IInv'
    BY <1>1, NewIInv DEF BInv
  <2>2. Queued'
    BY <1>1 DEF New, BInv, IInv, QueueType, Queued, Key
  <2> QED
    BY <1>1, <2>1, <2>2, RunBInv DEF New, pollVars
<1>2. ASSUME NEW w \in Wakers, PollPending(x, w) PROVE BInv'
  BY <1>2, PollPendingIInv, PollPendingQueued, RunBInv DEF PollPending, pollVars, BInv
<1>3. CASE PollReady(x) \/ Drop(x)
  <2>1. Deregister(x) /\ state' = [state EXCEPT ![x] = "gone"] /\ UNCHANGED <<waker, expiry>>
    BY <1>3 DEF PollReady, Drop
  <2>2. expiry[x] \in Expiries /\ expiry' = [expiry EXCEPT ![x] = expiry[x]]
    BY <2>1 DEF BInv, IInv, QueueType
  <2>3. IInv' /\ Queued'
    BY <1>3, <2>1, <2>2, PollReadyIInv, DeregisterQueued DEF BInv
  <2> QED
    BY <1>3, <2>3, RunBInv DEF PollReady, Drop, pollVars
<1>4. CASE PollTimeoutOk(x)
  <2>1. IInv'
    BY <1>4, PollTimeoutOkIInv DEF BInv
  <2>2. Queued'
    BY <1>4 DEF PollTimeoutOk, BInv, IInv, QueueType, Queued, Key
  <2> QED
    BY <1>4, <2>1, <2>2, RunBInv DEF PollTimeoutOk, pollVars
<1>5. ASSUME NEW period \in Periods, PollNext(x, period) PROVE BInv'
  <2>1. /\ Deregister(x)
        /\ state' = [state EXCEPT ![x] = "new"]
        /\ expiry' = [expiry EXCEPT ![x] = expiry[x] + period]
        /\ UNCHANGED waker
    BY <1>5 DEF PollNext
  <2>2. expiry[x] \in Expiries
    BY DEF BInv, IInv, QueueType
  <2>3. expiry[x] + period \in Expiries
    BY <1>5, <2>2, TimersAssumption DEF PollNext, Expiries
  <2>4. IInv' /\ Queued'
    BY <1>5, <2>1, <2>3, PollNextIInv, DeregisterQueued DEF BInv
  <2> QED
    BY <1>5, <2>4, RunBInv DEF PollNext, pollVars
<1> QED
  BY <1>1, <1>2, <1>3, <1>4, <1>5 DEF PollTimer

LEMMA InitBInv == Init => BInv
<1> SUFFICES ASSUME Init PROVE BInv
  OBVIOUS
<1>1. method \in Methods
  BY TimersAssumption DEF Init
<1> QED
  BY <1>1, InitIInv DEF Init, BInv, Queued, Idle, NoOversleep, DueAtTimeout

LEMMA NextBInv == BInv /\ [Next]_vars => BInv'
<1> SUFFICES ASSUME BInv, [Next]_vars PROVE BInv'
  OBVIOUS
<1>1. CASE Tick \/ UNCHANGED vars
  <2>1. IInv'
    BY <1>1, NextIInv DEF BInv, Next
  <2>2. UNCHANGED <<timers, expiry, timer_id, state, waker, todo, pc, method, setting, since>>
    BY <1>1 DEF Tick, vars, futureVars, pollVars
  <2> QED
    BY <2>1, <2>2 DEF BInv, Queued, Idle, NoOversleep, DueAtTimeout, Key
<1>2. CASE \E notified \in BOOLEAN : WaitTimers(notified)
  BY <1>2, WaitBInv
<1>3. CASE PollReturns \/ PollFails
  <2>1. IInv'
    BY <1>3, NextIInv DEF BInv, Next
  <2>2. /\ UNCHANGED <<timers, expiry, timer_id, state, waker, todo, method>>
        /\ pc = "blocked" /\ pc' # "blocked"
    BY <1>3 DEF PollReturns, PollFails, futureVars
  <2> QED
    BY <2>1, <2>2 DEF BInv, Queued, Idle, NoOversleep, DueAtTimeout, Key
<1>4. CASE ClearExpired
  BY <1>4, ClearExpiredBInv
<1> QED
  BY <1>1, <1>2, <1>3, <1>4, PollBInv DEF Next

LEMMA InvariantBInv == Spec => []BInv
BY InitBInv, NextBInv, PTL DEF Spec

\* wait() blocks no longer than any pending timer allows, up to the precision of
\* the reactor's way to time out.
THEOREM TimersNotOverslept == Spec => []NoOversleep
<1>1. BInv => NoOversleep
  BY DEF BInv
<1> QED
  BY <1>1, InvariantBInv, PTL

\* poll(2) does not time out before the first timer has expired, unless the
\* timeout did not fit into the argument.
THEOREM TimeoutsNotEarly == Spec => []NoEarlyTimeout
<1>1. ASSUME BInv PROVE NoEarlyTimeout
  <2> SUFFICES ASSUME TimesOut, ~Saturated(setting) PROVE Expired # {}
    BY DEF NoEarlyTimeout
  <2>1. PICK k \in DOMAIN timers : k[1] <= since + Sleep(setting)
    BY <1>1 DEF BInv, DueAtTimeout, TimesOut
  <2>2. since \in Nat /\ Sleep(setting) \in Nat /\ now \in Nat /\ k[1] \in Nat
    BY <1>1, NoIdApart DEF BInv, DueAtTimeout, TimesOut, IInv, QueueType
  <2>3. k[1] <= now
    BY <2>1, <2>2 DEF TimesOut
  <2> QED
    BY <2>3 DEF Expired
<1>2. BInv => NoEarlyTimeout
  BY <1>1
<1> QED
  BY <1>2, InvariantBInv, PTL

-------------------------------------------------------------------------------
(* The identifiers                                                         *)

\* How many identifiers the loop of register() passes before it gets to i.
Distance(i) == (i + MaxId - current_id) % MaxId

\* The loop goes around the identifiers and meets each one once.
LEMMA DistanceIs ==
  ASSUME current_id \in Ids, NEW i \in Ids
  PROVE  Distance(i) = IF i >= current_id THEN i - current_id
                                          ELSE i + MaxId - current_id
<1> DEFINE n == i + MaxId - current_id
<1>1. MaxId \in Nat \ {0} /\ i \in 1..MaxId /\ current_id \in 1..MaxId
  BY TimersAssumption DEF Ids
<1>2. n \in 1..(2 * MaxId - 1)
  BY <1>1
<1> HIDE DEF n
<1>3. n % MaxId = IF n >= MaxId THEN n - MaxId ELSE n
  BY <1>1, <1>2
<1> QED
  BY <1>1, <1>3 DEF Distance, n

\* A timer without an identifier leaves one to register with: the entries with
\* its expiry are those of other timers, and there are fewer of them than
\* identifiers.
LEMMA SomeFree ==
  ASSUME IInv, NEW x \in Timers, timer_id[x] = NoId
  PROVE  \E i \in Ids : <<expiry[x], i>> \notin DOMAIN timers
<1> SUFFICES ASSUME \A i \in Ids : <<expiry[x], i>> \in DOMAIN timers
             PROVE  FALSE
  OBVIOUS
<1> DEFINE Others == Timers \ {x}
           f == [i \in Ids |-> CHOOSE y \in Others : timer_id[y] = i]
<1>1. \A i \in Ids : \E y \in Others : timer_id[y] = i
  <2> TAKE i \in Ids
  <2>1. PICK y \in Timers : timer_id[y] # NoId /\ <<expiry[x], i>> = Key(y)
    <3>1. <<expiry[x], i>> \in DOMAIN timers
      OBVIOUS
    <3> QED
      BY <3>1, EntryHeld, Zenon
  <2> QED
    BY <2>1 DEF Key
<1>2. f \in [Ids -> Others] /\ \A i \in Ids : timer_id[f[i]] = i
  BY <1>1
<1>3. IsFiniteSet(Others) /\ Cardinality(Others) = Cardinality(Timers) - 1
  <2>1. IsFiniteSet(Timers)
    BY TimersAssumption
  <2> QED
    BY <2>1, FS_RemoveElement, Zenon
<1>4. IsFiniteSet(Ids) /\ Cardinality(Ids) = MaxId
  BY FS_Interval, TimersAssumption DEF Ids
<1>5. Cardinality(Timers) \in Nat /\ Cardinality(Timers) <= MaxId /\ MaxId \in Nat
  BY FS_CardinalityType, TimersAssumption
<1>6. Cardinality(Others) < Cardinality(Ids)
  BY <1>3, <1>4, <1>5
<1> HIDE DEF f, Others
<1>7. \E i, j \in Ids : i # j /\ f[i] = f[j]
  BY <1>2, <1>3, <1>4, <1>6, FS_PigeonHole
<1> QED
  BY <1>2, <1>7

\* The free identifier that comes first is one and only one.
LEMMA FirstFreeIs ==
  ASSUME current_id \in Ids, NEW e, \E i \in Ids : <<e, i>> \notin DOMAIN timers
  PROVE  \E i \in Ids : FirstFree(e, i) /\ \A j \in Ids : FirstFree(e, j) => j = i
<1> DEFINE Free == {i \in Ids : <<e, i>> \notin DOMAIN timers}
           D == {Distance(i) : i \in Free}
<1>1. \A i \in Ids : Distance(i) \in Nat
  BY DistanceIs, TimersAssumption DEF Ids
<1>2. PICK n \in D : \A m \in D : n <= m
  <2>1. D \subseteq Nat
    BY <1>1, Zenon
  <2>2. PICK i \in Free : TRUE
    OBVIOUS
  <2>3. Distance(i) \in D
    BY <2>2, Zenon
  <2>4. D # {}
    BY <2>3, Zenon
  <2> HIDE DEF D
  <2> QED
    BY <2>1, <2>4, Least, Zenon
<1>3. PICK i \in Free : n = Distance(i)
  BY <1>2
<1>4. \A k \in Free : Distance(i) <= Distance(k)
  <2> TAKE k \in Free
  <2>1. Distance(k) \in D
    BY Zenon
  <2> HIDE DEF D
  <2> QED
    BY <1>2, <1>3, <2>1
<1>5. \A j \in Ids : FirstFree(e, j) <=>
        j \in Free /\ \A k \in Free : Distance(j) <= Distance(k)
  BY DEF FirstFree, Distance
<1>6. FirstFree(e, i)
  BY <1>3, <1>5, <1>4, Zenon
<1>7. ASSUME NEW j \in Ids, FirstFree(e, j) PROVE j = i
  <2>1. Distance(j) <= Distance(i) /\ Distance(i) <= Distance(j)
    BY <1>3, <1>5, <1>7, <1>4, Zenon
  <2>2. Distance(j) = Distance(i)
    BY <1>1, <1>3, <2>1
  <2>3. i \in Ids /\ MaxId \in Nat
    BY <1>3, TimersAssumption
  <2> QED
    BY <2>2, <2>3, DistanceIs DEF Ids
<1> QED
  BY <1>3, <1>6, <1>7

-------------------------------------------------------------------------------
(* The types                                                               *)

\* Neither way to time out stores a value that does not fit.
LEMMA SettingType ==
  ASSUME NEW m, NEW d \in Nat \cup {None} PROVE set_timeout(m, d) \in Settings
<1> USE TimeoutsAssumption
<1>1. PollTimeout(None) \in Settings /\ TimerFd(None) \in Settings
  BY DEF PollTimeout, TimerFd, Settings, None
<1>2. ASSUME d \in Nat PROVE PollTimeout(d) \in Settings
  <2>1. d \div NanosPerMilli \in Nat /\ d # None
    BY <1>2, Division DEF None
  <2> QED
    BY <1>2, <2>1 DEF PollTimeout, Settings, Saturate
<1>3. ASSUME d \in Nat PROVE TimerFd(d) \in Settings
  <2>1. d \div NanosPerSec \in Nat /\ d % NanosPerSec \in Nat /\ d # None
    BY <1>3, Division DEF None
  <2> QED
    BY <1>3, <2>1 DEF TimerFd, Settings, Saturate
<1> QED
  BY <1>1, <1>2, <1>3 DEF set_timeout

\* What the types of the queue do not say.
Rest ==
  /\ now \in Time
  /\ current_id \in Ids
  /\ todo \subseteq Timers
  /\ pc \in {"run", "blocked", "expire"}
  /\ method \in TimeoutMethods
  /\ setting \in Settings
  /\ since \in Time

\* poll(2) is called with nothing initially and after it has returned.
LEMMA NoCallType == ASSUME NEW s, NEW t, NoCall(s, t) PROVE s \in Settings /\ t \in Time
<1>1. set_timeout("poll", None) \in Settings
  BY SettingType, Zenon
<1> QED
  BY <1>1, TimersAssumption DEF NoCall, Time

LEMMA InitRest == Init => Rest
<1> SUFFICES ASSUME Init PROVE Rest
  OBVIOUS
<1>1. setting \in Settings /\ since \in Time
  BY NoCallType DEF Init
<1>2. now \in Time /\ current_id \in Ids
  BY TimersAssumption DEF Init, Time, Ids
<1> QED
  BY <1>1, <1>2 DEF Init, Rest

\* current_id wraps around.
LEMMA IncrType == ASSUME NEW id \in Ids PROVE Incr(id) \in Ids
BY TimersAssumption DEF Incr, Ids

\* Every step keeps them: identifiers wrap around, and what poll(2) is called
\* with fits.
LEMMA RestNext == IInv /\ Rest /\ [Next]_vars => Rest'
<1> SUFFICES ASSUME IInv, Rest, [Next]_vars PROVE Rest'
  OBVIOUS
<1>1. CASE Tick
  <2>1. now' \in Time
    BY <1>1, TimersAssumption DEF Rest, Tick, Time
  <2> QED
    BY <1>1, <2>1 DEF Rest, Tick, pollVars
<1>2. ASSUME NEW x \in Timers, NEW e \in FirstExpiries, New(x, e) PROVE Rest'
  BY <1>2 DEF Rest, New, pollVars
<1>3. ASSUME NEW x \in Timers, NEW w \in Wakers, PollPending(x, w) PROVE Rest'
  <2>1. current_id' \in Ids
    <3>1. CASE timer_id[x] = NoId
      <4>1. PICK id \in Ids : current_id' = Incr(id)
        BY <1>3, <3>1, Zenon DEF PollPending, register
      <4> QED
        BY <4>1, IncrType
    <3>2. CASE timer_id[x] # NoId
      BY <1>3, <3>2 DEF Rest, PollPending, modify
    <3> QED
      BY <3>1, <3>2
  <2> QED
    BY <1>3, <2>1 DEF Rest, PollPending, pollVars
<1>4. ASSUME NEW x \in Timers, Deregister(x), UNCHANGED <<now, pc, pollVars>> PROVE Rest'
  BY <1>4 DEF Rest, Deregister, cancel, pollVars
<1>5. ASSUME NEW x \in Timers, PollTimeoutOk(x) PROVE Rest'
  BY <1>5 DEF Rest, PollTimeoutOk, pollVars
<1>6. ASSUME NEW notified \in BOOLEAN, WaitTimers(notified) PROVE Rest'
  <2>1. next_timeout \in Nat \cup {None}
    <3>1. now \in Nat
      BY DEF IInv, QueueType
    <3>2. CASE next_timeout = None
      BY <3>2
    <3>3. ASSUME NEW k \in DOMAIN timers, k[1] \in Nat,
                 next_timeout = IF k[1] <= now THEN 0 ELSE k[1] - now
          PROVE  next_timeout \in Nat
      BY <3>1, <3>3
    <3> QED
      BY <3>2, <3>3, NextTimeout, Zenon
  <2>2. set_timeout(method, next_timeout) \in Settings
    BY <2>1, SettingType, Zenon
  <2>3. setting' \in Settings /\ since' \in Time
    BY <1>6, <2>2 DEF WaitTimers, Rest
  <2> QED
    BY <1>6, <2>3 DEF WaitTimers, Rest
<1>7. CASE PollReturns \/ PollFails
  <2>1. setting' \in Settings /\ since' \in Time
    BY <1>7, NoCallType DEF PollReturns, PollFails
  <2> QED
    BY <1>7, <2>1 DEF Rest, PollReturns, PollFails
<1>8. CASE ClearExpired
  BY <1>8 DEF Rest, ClearExpired, pollVars
<1>9. CASE UNCHANGED vars
  BY <1>9 DEF Rest, vars, pollVars
<1>10. ASSUME NEW x \in Timers, PollReady(x) \/ Drop(x) PROVE Rest'
  BY <1>4, <1>10 DEF PollReady, Drop
<1>11. ASSUME NEW x \in Timers, NEW period \in Periods, PollNext(x, period) PROVE Rest'
  BY <1>4, <1>11 DEF PollNext
<1> QED
  BY <1>1, <1>2, <1>3, <1>5, <1>6, <1>7, <1>8, <1>9, <1>10, <1>11 DEF Next, PollTimer

LEMMA InvariantRest == Spec => [](IInv /\ Rest)
BY InitIInv, InitRest, NextIInv, RestNext, PTL DEF Spec

\* The types of the queue, the timers and the reactor: no timeout is stored that
\* does not fit into the argument of poll(2), and no identifier that is zero.
THEOREM TimersTypes == Spec => []TypeOK
<1>1. IInv /\ Rest => TypeOK
  BY DEF IInv, QueueType, Rest, TypeOK, States
<1> QED
  BY <1>1, InvariantRest, PTL

\* The loop of register() ends, and with one result, if there are no more timers
\* than identifiers: whenever a timer has none, an identifier is free with its
\* expiry, however often current_id has wrapped around and whatever entries
\* were cancelled or have expired.
THEOREM RegisterEnds ==
  Spec => [](\A x \in Timers : timer_id[x] = NoId =>
               \E i \in Ids : /\ FirstFree(expiry[x], i)
                              /\ \A j \in Ids : FirstFree(expiry[x], j) => j = i)
<1>1. ASSUME IInv, Rest, NEW x \in Timers, timer_id[x] = NoId
      PROVE  \E i \in Ids : /\ FirstFree(expiry[x], i)
                            /\ \A j \in Ids : FirstFree(expiry[x], j) => j = i
  <2>1. \E i \in Ids : <<expiry[x], i>> \notin DOMAIN timers
    BY <1>1, SomeFree
  <2>2. current_id \in Ids
    BY <1>1 DEF Rest
  <2> QED
    BY <2>1, <2>2, FirstFreeIs, Zenon
<1>2. IInv /\ Rest => \A x \in Timers : timer_id[x] = NoId =>
        \E i \in Ids : /\ FirstFree(expiry[x], i)
                       /\ \A j \in Ids : FirstFree(expiry[x], j) => j = i
  BY <1>1, Zenon
<1> QED
  BY <1>2, InvariantRest, PTL
===============================================================================
