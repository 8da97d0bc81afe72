----------------------------- MODULE AsyncIoProofs ----------------------------
(***************************************************************************)
(* The safety properties of AsyncIo, for any sets of sources, directions   *)
(* and wakers, and whatever the kernel reports.                            *)
(***************************************************************************)
EXTENDS AsyncIo, TLAPS

\* A source is not deregistered while an operation uses it.
UsedRegistered == \A e \in Ends : op[e] # "none" => e[1] \in event_sources

\* block_on calls poll(2) when no operation is to be polled.
PollIdle == pc = "poll" => todo = {}

\* What readable() or writable() waits for was seen if it is so now.
ReadySeen == \A e \in Ends : op[e] = "ready" /\ Ready(e) => seen[e]

IInv ==
  /\ TypeOK /\ UsedRegistered /\ PollIdle /\ ReadySeen
  /\ WaitingEnabled /\ ReadyHonest

\* An end is a source and a direction.
LEMMA EndsPairs ==
  ASSUME NEW e \in Ends
  PROVE  e[1] \in Sources /\ e[2] \in Dirs /\ e = <<e[1], e[2]>>
BY DEF Ends

\* The invariant holds initially.
LEMMA InitIInv == Init => IInv
<1> SUFFICES ASSUME Init PROVE IInv
  OBVIOUS
<1>1. TypeOK
  <2>1. ready \in [Sources -> SUBSET PollFlags]
    BY DEF Init
  <2>2. enabled \in [Ends -> BOOLEAN] /\ seen \in [Ends -> BOOLEAN]
    BY Zenon DEF Init
  <2>3. \A e \in Ends : ~enabled[e]
    BY Zenon DEF Init
  <2>4. /\ waker \in [Ends -> Wakers \cup {None}]
        /\ op \in [Ends -> {"none", "io", "ready"}]
        /\ cx \in [Ends -> Wakers \cup {None}]
    BY DEF Init
  <2> QED
    BY <2>1, <2>2, <2>3, <2>4 DEF Init, TypeOK
<1>2. \A e \in Ends : op[e] = "none"
  BY DEF Init
<1>3. PollIdle
  BY DEF Init, PollIdle
<1> QED
  BY <1>1, <1>2, <1>3 DEF IInv, UsedRegistered, ReadySeen, WaitingEnabled, ReadyHonest

\* What Becomes leaves of the invariant.
LEMMA BecomesSeen ==
  ASSUME TypeOK, ReadySeen, NEW s \in Sources, NEW flags \in SUBSET PollFlags,
         Becomes(s, flags)
  PROVE  /\ ready' \in [Sources -> SUBSET PollFlags]
         /\ seen' \in [Ends -> BOOLEAN]
         /\ \A e \in Ends : seen[e] => seen'[e]
         /\ \A e \in Ends : op[e] = "ready" /\ Ready(e)' => seen'[e]
<1>1. ready' \in [Sources -> SUBSET PollFlags]
  BY DEF TypeOK, Becomes
<1>2. seen' \in [Ends -> BOOLEAN]
  BY Zenon DEF Becomes
<1>3. \A e \in Ends : seen[e] => seen'[e]
  BY Zenon DEF Becomes
<1>4. ASSUME NEW e \in Ends, op[e] = "ready", Ready(e)' PROVE seen'[e]
  <2>1. CASE e[1] = s
    <3>1. ready'[e[1]] = flags
      BY <2>1, EndsPairs DEF TypeOK, Becomes
    <3>2. flags \cap Flags(e[2]) # {}
      BY <3>1, <1>4 DEF Ready
    <3> QED
      BY <2>1, <3>2, <1>4, Zenon DEF Becomes
  <2>2. CASE e[1] # s
    <3>1. ready'[e[1]] = ready[e[1]]
      BY <2>2, EndsPairs DEF TypeOK, Becomes
    <3>2. seen[e]
      BY <3>1, <1>4 DEF Ready, ReadySeen
    <3> QED
      BY <3>2, <1>3
  <2> QED
    BY <2>1, <2>2
<1> QED
  BY <1>1, <1>2, <1>3, <1>4

\* Clear resets the entry of s and no other.
LEMMA ClearEntry ==
  ASSUME TypeOK, NEW s \in Sources, Clear(s)
  PROVE  /\ enabled' \in [Ends -> BOOLEAN]
         /\ waker' \in [Ends -> Wakers \cup {None}]
         /\ \A e \in Ends : e[1] = s => ~enabled'[e]
         /\ \A e \in Ends : e[1] # s => enabled'[e] = enabled[e] /\ waker'[e] = waker[e]
         /\ \A e \in Ends : enabled'[e] => waker'[e] \in Wakers
<1>1. enabled' \in [Ends -> BOOLEAN]
  BY Zenon DEF Clear
<1>2. waker' \in [Ends -> Wakers \cup {None}]
  BY DEF TypeOK, Clear
<1>3. \A e \in Ends : e[1] = s => ~enabled'[e]
  BY Zenon DEF Clear
<1>4. \A e \in Ends : e[1] # s => (enabled'[e] <=> enabled[e])
  BY Zenon DEF Clear
<1>5. \A e \in Ends : enabled[e] \in BOOLEAN /\ enabled'[e] \in BOOLEAN
  BY <1>1 DEF TypeOK
<1>6. \A e \in Ends : e[1] # s => waker'[e] = waker[e]
  BY DEF Clear
<1>7. \A e \in Ends : enabled[e] => waker[e] \in Wakers
  BY DEF TypeOK
<1> QED
  BY <1>1, <1>2, <1>3, <1>4, <1>5, <1>6, <1>7

\* Suspend changes what belongs to e and nothing else.
LEMMA SuspendEntry ==
  ASSUME TypeOK, NEW e \in Ends, NEW kind \in {"io", "ready"}, NEW w \in Wakers,
         Suspend(e, kind, w)
  PROVE  /\ enabled' \in [Ends -> BOOLEAN]
         /\ waker' \in [Ends -> Wakers \cup {None}]
         /\ op' \in [Ends -> {"none", "io", "ready"}]
         /\ cx' \in [Ends -> Wakers \cup {None}]
         /\ todo' = todo \ {e}
         /\ enabled'[e] /\ waker'[e] = w /\ op'[e] = kind /\ cx'[e] = w
         /\ \A f \in Ends : f # e => /\ enabled'[f] = enabled[f]
                                     /\ waker'[f] = waker[f]
                                     /\ op'[f] = op[f]
                                     /\ cx'[f] = cx[f]
BY DEF TypeOK, Suspend, enable_event

\* So does End.
LEMMA EndEntry ==
  ASSUME TypeOK, NEW e \in Ends, End(e)
  PROVE  /\ op' \in [Ends -> {"none", "io", "ready"}]
         /\ cx' \in [Ends -> Wakers \cup {None}]
         /\ todo' = todo \ {e}
         /\ op'[e] = "none"
         /\ \A f \in Ends : f # e => op'[f] = op[f] /\ cx'[f] = cx[f]
         /\ UNCHANGED <<enabled, waker>>
BY DEF TypeOK, End

\* The ends that poll(2) reports were ready.
LEMMA FiredReady ==
  ASSUME NEW e \in Fired
  PROVE  e \in Ends /\ Ready(e) /\ enabled[e]
BY DEF Fired, Revents, Ready

\* Every operation that a fired end wakes is to be polled, and no other is.
LEMMA WakeEndsEntry ==
  ASSUME IInv, pc = "poll", WakeEnds(Fired)
  PROVE  /\ enabled' \in [Ends -> BOOLEAN]
         /\ todo' \subseteq Ends
         /\ \A e \in Ends : enabled'[e] => enabled[e]
         /\ \A e \in Ends : enabled[e] /\ ~enabled'[e] => e \in Fired
         /\ \A e \in Ends : op[e] # "none" /\ e \in Fired => e \in todo'
<1>1. enabled' \in [Ends -> BOOLEAN]
  BY Zenon DEF WakeEnds
<1>2. todo' \subseteq Ends
  BY DEF WakeEnds
<1>3. \A e \in Ends : enabled'[e] => enabled[e]
  BY Zenon DEF WakeEnds
<1>4. \A e \in Ends : enabled[e] /\ ~enabled'[e] => e \in Fired
  BY Zenon DEF WakeEnds
<1>5. ASSUME NEW e \in Ends, op[e] # "none", e \in Fired PROVE e \in todo'
  <2>1. waker[e] = cx[e]
    BY <1>5 DEF IInv, PollIdle, WaitingEnabled
  <2> QED
    BY <2>1, <1>5 DEF WakeEnds
<1> QED
  BY <1>1, <1>2, <1>3, <1>4, <1>5

\* Every step preserves the invariant.
LEMMA NextIInv == IInv /\ [Next]_vars => IInv'
<1> SUFFICES ASSUME IInv, [Next]_vars PROVE IInv'
  OBVIOUS
<1> USE DEF IInv
<1>1. ASSUME NEW s \in Sources, NEW flags \in SUBSET PollFlags, KernelChange(s, flags)
      PROVE  IInv'
  <2>1. Becomes(s, flags)
    BY <1>1 DEF KernelChange
  <2>2. UNCHANGED <<special, event_sources, enabled, waker, op, cx, todo, pc>>
    BY <1>1 DEF KernelChange, opVars
  <2>3. TypeOK'
    BY <2>1, <2>2, BecomesSeen DEF TypeOK
  <2>4. ReadySeen' /\ ReadyHonest'
    BY <2>1, <2>2, BecomesSeen DEF ReadySeen, ReadyHonest
  <2> QED
    BY <2>2, <2>3, <2>4 DEF UsedRegistered, PollIdle, WaitingEnabled
<1>2. ASSUME NEW x \in Specials, SpecialReady(x) PROVE IInv'
  <2>1. UNCHANGED <<ready, event_sources, enabled, waker, op, cx, todo, seen, pc>>
    BY <1>2 DEF SpecialReady, opVars
  <2>2. TypeOK'
    BY <1>2, <2>1 DEF SpecialReady, TypeOK
  <2> QED
    BY <2>1, <2>2 DEF UsedRegistered, PollIdle, ReadySeen, Ready, WaitingEnabled, ReadyHonest
<1>3. ASSUME NEW s \in Sources, NEW flags \in SUBSET PollFlags, New(s, flags)
      PROVE  IInv'
  <2>1. Becomes(s, flags) /\ Clear(s)
    BY <1>3 DEF New, register_event
  <2>2. /\ UNCHANGED <<special, op, cx, todo, pc>>
        /\ event_sources' = event_sources \cup {s}
    BY <1>3 DEF New, register_event, opVars
  <2>3. TypeOK'
    BY <2>1, <2>2, BecomesSeen, ClearEntry DEF TypeOK
  <2>4. \A e \in Ends : e[1] = s => op[e] = "none"
    BY <1>3 DEF New, UsedRegistered
  <2>5. ReadySeen'
    BY <2>1, <2>2, BecomesSeen DEF ReadySeen
  <2>6. WaitingEnabled' /\ ReadyHonest'
    BY <2>1, <2>2, <2>4, BecomesSeen, ClearEntry DEF WaitingEnabled, ReadyHonest
  <2> QED
    BY <2>2, <2>3, <2>5, <2>6 DEF UsedRegistered, PollIdle
<1>4. ASSUME NEW s \in Sources, NewAgain(s) PROVE IInv'
  <2>1. UNCHANGED vars
    BY <1>4 DEF NewAgain, register_again, vars, opVars
  <2> QED
    BY <2>1 DEF vars, TypeOK, UsedRegistered, PollIdle, ReadySeen, Ready,
                WaitingEnabled, ReadyHonest
<1>5. ASSUME NEW s \in Sources, Deregister(s) PROVE IInv'
  <2>1. Clear(s)
    BY <1>5 DEF Deregister, deregister_event
  <2>2. /\ UNCHANGED <<ready, special, op, cx, todo, seen, pc>>
        /\ event_sources' = event_sources \ {s}
    BY <1>5 DEF Deregister, deregister_event, opVars
  <2>3. TypeOK'
    BY <2>1, <2>2, ClearEntry DEF TypeOK
  <2>4. \A e \in Ends : e[1] = s => op[e] = "none"
    BY <1>5, EndsPairs DEF Deregister, Unused
  <2>5. UsedRegistered' /\ PollIdle' /\ ReadySeen'
    BY <2>2, <2>4 DEF UsedRegistered, PollIdle, ReadySeen, Ready
  <2>6. WaitingEnabled' /\ ReadyHonest'
    BY <2>1, <2>2, <2>4, ClearEntry DEF WaitingEnabled, ReadyHonest
  <2> QED
    BY <2>3, <2>5, <2>6
<1>6. ASSUME NEW e \in Ends, NEW w \in Wakers, NEW flags \in SUBSET PollFlags,
             PollEvent(e, w, flags)
      PROVE  IInv'
  <2>1. CASE poll_event(e, w, TRUE) /\ UNCHANGED <<ready, seen>>
    <3>1. Suspend(e, "io", w) /\ e[1] \in event_sources
      BY <2>1 DEF poll_event
    <3>2. UNCHANGED <<ready, seen, special, event_sources, pc>> /\ pc = "run"
      BY <2>1 DEF poll_event
    <3>3. TypeOK'
      BY <3>1, <3>2, SuspendEntry DEF TypeOK
    <3>4. UsedRegistered' /\ PollIdle'
      BY <3>1, <3>2, SuspendEntry DEF UsedRegistered, PollIdle
    <3>5. ReadySeen'
      <4>1. \A f \in Ends : Ready(f)' = Ready(f)
        BY <3>2 DEF Ready
      <4> QED
        BY <3>1, <3>2, <4>1, SuspendEntry DEF ReadySeen
    <3>6. WaitingEnabled'
      BY <3>1, <3>2, SuspendEntry DEF WaitingEnabled
    <3>7. ReadyHonest'
      BY <3>1, <3>2, SuspendEntry DEF ReadyHonest
    <3> QED
      BY <3>3, <3>4, <3>5, <3>6, <3>7
  <2>2. CASE poll_event(e, w, FALSE) /\ Becomes(e[1], flags)
    <3>1. End(e) /\ Becomes(e[1], flags) /\ e[1] \in Sources
      BY <2>2, EndsPairs DEF poll_event
    <3>2. UNCHANGED <<special, event_sources, pc>> /\ pc = "run"
      BY <2>2 DEF poll_event
    <3>3. TypeOK'
      BY <3>1, <3>2, EndEntry, BecomesSeen DEF TypeOK
    <3>4. UsedRegistered' /\ PollIdle'
      BY <3>1, <3>2, EndEntry DEF UsedRegistered, PollIdle
    <3>5. ReadySeen'
      BY <3>1, <3>2, EndEntry, BecomesSeen DEF ReadySeen
    <3>6. WaitingEnabled'
      BY <3>1, <3>2, EndEntry DEF WaitingEnabled
    <3>7. ReadyHonest'
      BY <3>1, <3>2, EndEntry, BecomesSeen DEF ReadyHonest
    <3> QED
      BY <3>3, <3>4, <3>5, <3>6, <3>7
  <2> QED
    BY <1>6, <2>1, <2>2 DEF PollEvent
<1>7. ASSUME NEW e \in Ends, NEW w \in Wakers, WaitReadyFirst(e, w) PROVE IInv'
  <2>1. Suspend(e, "ready", w) /\ e[1] \in event_sources
    BY <1>7 DEF WaitReadyFirst
  <2>2. UNCHANGED <<ready, special, event_sources, pc>> /\ pc = "run"
    BY <1>7 DEF WaitReadyFirst
  <2>3. /\ seen' \in [Ends -> BOOLEAN]
        /\ Ready(e) => seen'[e]
        /\ \A f \in Ends : f # e => seen'[f] = seen[f]
    <3>1. Ready(e) \in BOOLEAN
      BY DEF Ready
    <3>2. seen \in [Ends -> BOOLEAN] /\ seen' = [seen EXCEPT ![e] = Ready(e)]
      BY <1>7 DEF WaitReadyFirst, TypeOK
    <3> HIDE DEF IInv
    <3> QED
      BY <3>1, <3>2
  <2>4. TypeOK'
    BY <2>1, <2>2, <2>3, SuspendEntry DEF TypeOK
  <2>5. UsedRegistered' /\ PollIdle'
    BY <2>1, <2>2, SuspendEntry DEF UsedRegistered, PollIdle
  <2>6. ReadySeen'
    <3>1. \A f \in Ends : Ready(f)' = Ready(f)
      BY <2>2 DEF Ready
    <3> QED
      BY <2>1, <2>2, <2>3, <3>1, SuspendEntry DEF ReadySeen
  <2>7. WaitingEnabled' /\ ReadyHonest'
    BY <2>1, <2>2, <2>3, SuspendEntry DEF WaitingEnabled, ReadyHonest
  <2> QED
    BY <2>4, <2>5, <2>6, <2>7
<1>8. ASSUME NEW e \in Ends, NEW w \in Wakers, WaitReadyAgain(e, w) PROVE IInv'
  <2>1. /\ UNCHANGED <<ready, special, event_sources, pc>>
        /\ pc = "run" /\ op[e] = "ready" /\ e[1] \in event_sources
    BY <1>8 DEF WaitReadyAgain, UsedRegistered
  <2>2. /\ seen' \in [Ends -> BOOLEAN]
        /\ enabled[e] => seen'[e] = seen[e]
        /\ \A f \in Ends : f # e => seen'[f] = seen[f]
    BY <1>8 DEF WaitReadyAgain, is_event_ready, TypeOK
  <2>3. CASE enabled[e]
    <3>1. Suspend(e, "ready", w)
      BY <1>8, <2>3 DEF WaitReadyAgain, is_event_ready
    <3>2. TypeOK'
      BY <2>1, <2>2, <3>1, SuspendEntry DEF TypeOK
    <3>3. UsedRegistered' /\ PollIdle'
      BY <2>1, <3>1, SuspendEntry DEF UsedRegistered, PollIdle
    <3>4. ReadySeen'
      <4>1. \A f \in Ends : Ready(f)' = Ready(f)
        BY <2>1 DEF Ready
      <4> QED
        BY <2>1, <2>2, <2>3, <3>1, <4>1, SuspendEntry DEF ReadySeen
    <3>5. WaitingEnabled' /\ ReadyHonest'
      BY <2>1, <2>2, <3>1, SuspendEntry DEF WaitingEnabled, ReadyHonest
    <3> QED
      BY <3>2, <3>3, <3>4, <3>5
  <2>4. CASE ~enabled[e]
    <3>1. End(e)
      BY <1>8, <2>4 DEF WaitReadyAgain, is_event_ready
    <3>2. TypeOK'
      BY <2>1, <2>2, <3>1, EndEntry DEF TypeOK
    <3>3. UsedRegistered' /\ PollIdle' /\ ReadySeen'
      BY <2>1, <2>2, <3>1, EndEntry DEF UsedRegistered, PollIdle, ReadySeen, Ready
    <3>4. WaitingEnabled' /\ ReadyHonest'
      BY <2>1, <2>2, <3>1, EndEntry DEF WaitingEnabled, ReadyHonest
    <3> QED
      BY <3>2, <3>3, <3>4
  <2> QED
    BY <2>3, <2>4
<1>9. ASSUME NEW e \in Ends, Cancel(e) PROVE IInv'
  <2>1. End(e) /\ UNCHANGED <<ready, special, event_sources, pc>> /\ pc = "run"
    BY <1>9 DEF Cancel
  <2>2. /\ seen' \in [Ends -> BOOLEAN]
        /\ \A f \in Ends : f # e => seen'[f] = seen[f]
    BY <1>9 DEF Cancel, TypeOK
  <2>3. TypeOK'
    BY <2>1, <2>2, EndEntry DEF TypeOK
  <2>4. UsedRegistered' /\ PollIdle' /\ ReadySeen'
    BY <2>1, <2>2, EndEntry DEF UsedRegistered, PollIdle, ReadySeen, Ready
  <2>5. WaitingEnabled' /\ ReadyHonest'
    BY <2>1, <2>2, EndEntry DEF WaitingEnabled, ReadyHonest
  <2> QED
    BY <2>3, <2>4, <2>5
<1>10. CASE WaitSkip \/ WaitPoll \/ PollSpecials \/ PollBoth \/ PollFails
  <2>1. UNCHANGED <<ready, event_sources, enabled, waker, op, cx, todo, seen>>
    BY <1>10 DEF WaitSkip, WaitPoll, PollSpecials, PollBoth, PollFails, opVars
  <2>2. /\ special' \subseteq Specials
        /\ pc' \in {"run", "poll", "panic"}
        /\ pc' = "poll" => todo = {}
    BY <1>10 DEF WaitSkip, WaitPoll, PollSpecials, PollBoth, PollFails, TypeOK, PollIdle
  <2>3. TypeOK'
    BY <2>1, <2>2 DEF TypeOK
  <2> QED
    BY <2>1, <2>2, <2>3 DEF UsedRegistered, PollIdle, ReadySeen, Ready,
                            WaitingEnabled, ReadyHonest
<1>11. CASE PollSources
  <2>1. pc = "poll" /\ pc' = "run" /\ WakeEnds(Fired)
    BY <1>11 DEF PollSources
  <2>2. UNCHANGED <<ready, special, event_sources, waker, op, cx, seen>>
    BY <1>11 DEF PollSources
  <2>3. TypeOK'
    BY <2>1, <2>2, WakeEndsEntry DEF TypeOK
  <2>4. UsedRegistered' /\ PollIdle' /\ ReadySeen'
    BY <2>1, <2>2 DEF UsedRegistered, PollIdle, ReadySeen, Ready
  <2>5. WaitingEnabled'
    BY <2>1, <2>2, WakeEndsEntry DEF WaitingEnabled, PollIdle
  <2>6. ReadyHonest'
    BY <2>1, <2>2, WakeEndsEntry, FiredReady DEF ReadyHonest, ReadySeen
  <2> QED
    BY <2>3, <2>4, <2>5, <2>6
<1>12. CASE UNCHANGED vars
  BY <1>12 DEF vars, TypeOK, UsedRegistered, PollIdle, ReadySeen, Ready,
               WaitingEnabled, ReadyHonest
<1> QED
  BY <1>1, <1>2, <1>3, <1>4, <1>5, <1>6, <1>7, <1>8, <1>9, <1>10, <1>11, <1>12
     DEF Next, PollOp, Wait, Poll

\* An operation that waits is enabled in the reactor with the waker of its last
\* poll, so that wait() calls that waker when poll(2) reports its direction: for
\* any number of sources and whatever they do.
THEOREM OperationsWaitEnabled == Spec => []WaitingEnabled
<1>1. IInv => WaitingEnabled
  BY DEF IInv
<1> QED
  BY <1>1, InitIInv, NextIInv, PTL DEF Spec

\* readable() and writable() return only if the direction was ready at some time
\* since they were called.
THEOREM ReadinessHonest == Spec => []ReadyHonest
<1>1. IInv => ReadyHonest
  BY DEF IInv
<1> QED
  BY <1>1, InitIInv, NextIInv, PTL DEF Spec
===============================================================================
