------------------------------- MODULE Timeouts -------------------------------
(***************************************************************************)
(* How a timeout reaches poll(2).  PollTimeout turns it into the argument  *)
(* of poll(2), in milliseconds and 32 bits.  TimerFd arms a timerfd, which *)
(* poll(2) watches, in seconds of 64 bits and nanoseconds.                 *)
(*                                                                         *)
(* A duration is a number of nanoseconds.  The units and the widths are    *)
(* constants, so that small durations reach them.                          *)
(***************************************************************************)
EXTENDS Integers

CONSTANTS
  NanosPerMilli,
  NanosPerSec,
  I32Max,          \* i32::MAX
  I64Max           \* i64::MAX

ASSUME TimeoutsAssumption ==
  /\ NanosPerMilli \in Nat \ {0}
  /\ NanosPerSec \in Nat \ {0}
  /\ I32Max \in Nat \ {0}
  /\ I64Max \in Nat \ {0}

None == -1         \* Option::None of a duration

\* The ways to time out: PollTimeout and TimerFd.
Methods == {"poll", "timerfd"}

\* What poll(2) is called with: its argument, where -1 is forever, and the
\* it_value of the timerfd, where zero is disarmed.  PollTimeout has no timerfd.
Settings == [millis : -1..I32Max, sec : Nat, nsec : Nat]

\* try_into().unwrap_or(MAX)
Saturate(n, max) == IF n > max THEN max ELSE n

\* Mutant: the fraction of a millisecond is cut off, except that the timeout is
\* not zero.
PollTimeoutCut(d) ==
  [millis |-> IF d = None THEN -1
              ELSE IF d > 0 /\ d < NanosPerMilli THEN 1
              ELSE Saturate(d \div NanosPerMilli, I32Max),
   sec |-> 0, nsec |-> 0]

\* PollTimeout::set_timeout
PollTimeout(d) ==
  [millis |-> IF d = None THEN -1
              ELSE Saturate(Saturate(d \div NanosPerMilli, I32Max)
                              + (IF d > 0 THEN 1 ELSE 0), I32Max),
   sec |-> 0, nsec |-> 0]

\* TimerFd::set_timeout: the nanoseconds are at least one, as a timerfd that is
\* set to zero is disarmed.
TimerFd(d) ==
  [millis |-> -1,
   sec |-> IF d = None THEN 0 ELSE Saturate(d \div NanosPerSec, I64Max),
   nsec |-> IF d = None THEN 0
            ELSE IF d % NanosPerSec = 0 THEN 1 ELSE d % NanosPerSec]

set_timeout(method, d) == IF method = "poll" THEN PollTimeout(d) ELSE TimerFd(d)

\* poll(2) may sleep forever.
Forever(s) == s.millis = -1 /\ s.sec = 0 /\ s.nsec = 0

\* How long poll(2) sleeps if nothing else happens.
Sleep(s) ==
  IF s.millis = -1 THEN s.sec * NanosPerSec + s.nsec ELSE s.millis * NanosPerMilli

\* The duration did not fit, so that poll(2) may return before the timer is due.
Saturated(s) == s.millis = I32Max \/ s.sec = I64Max

\* "There's a limit on the precision of the timers" (time.rs).
Precision(method) == IF method = "poll" THEN NanosPerMilli ELSE 1

\* poll(2) times out, not before d is over if d fits, and not much later.
Sound(s, d, slack) ==
  ~Forever(s) /\ (Saturated(s) \/ Sleep(s) >= d) /\ Sleep(s) <= d + slack
===============================================================================
