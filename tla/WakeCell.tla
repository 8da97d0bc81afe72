------------------------------- MODULE WakeCell -------------------------------
(***************************************************************************)
(* What a Waker promises to the futures it is given to: a wake-up posted   *)
(* by any actor is never slept through.  The thread sleeps as on a         *)
(* condition variable, atomically with the check that nothing is posted,   *)
(* and every post ends a sleep.                                            *)
(*                                                                         *)
(* Three layers are shown to implement it.  In Notifier the sleeper is     *)
(* block_on, asleep in poll(2), and an actor is a thread.  In Executor the *)
(* sleeper is the future of Executor::run, waiting for block_on to poll it *)
(* again, and an actor is a task.  In Merge the sleeper is the future of   *)
(* join! or a merged stream, waiting for its task, and an actor is a child.*)
(***************************************************************************)
CONSTANT Actors      \* whose wake-ups are told apart

VARIABLES
  posted,            \* posted[a]: an event of a that nobody has seen yet
  sleeping           \* the sleeper is asleep, and nothing will end the sleep

cellVars == <<posted, sleeping>>

\* Nobody sleeps yet; a future that is new may have to be polled.
Init ==
  /\ posted \in [Actors -> BOOLEAN]
  /\ sleeping = FALSE

\* Something a future waits for happens, and its waker is called.
Post(a) ==
  /\ posted' = [posted EXCEPT ![a] = TRUE]
  /\ sleeping' = FALSE

\* Futures are polled and see what was posted to them, or are dropped.
Observe(seen) ==
  /\ ~sleeping
  /\ posted' = [a \in Actors |-> posted[a] /\ a \notin seen]
  /\ UNCHANGED sleeping

\* The sleeper goes to sleep only when no event is outstanding.
Sleep ==
  /\ \A a \in Actors : ~posted[a]
  /\ sleeping' = TRUE
  /\ UNCHANGED posted

\* The sleep may end without a post: I/O, a timer, an error of poll().
Rouse ==
  /\ sleeping' = FALSE
  /\ UNCHANGED posted

Next ==
  \/ \E a \in Actors : Post(a)
  \/ \E seen \in SUBSET Actors : Observe(seen)
  \/ Sleep
  \/ Rouse

Spec == Init /\ [][Next]_cellVars

===============================================================================
