-------------------------------- MODULE TwoRuns -------------------------------
(***************************************************************************)
(* Several run() futures of one executor, driven by one parent, as join!   *)
(* does it: the parent polls each of them only when the waker that it gave *)
(* to it was woken.                                                        *)
(*                                                                         *)
(* Each run() has a main future with a waker of its own, but they share    *)
(* the wake queue, the index MAIN_TASK_ID and base_waker.  No task is      *)
(* spawned.  Everything happens on one thread, so that a poll of run() is  *)
(* one step.                                                               *)
(***************************************************************************)
EXTENDS Naturals, Sequences, SequencesExt

CONSTANTS
  Runs,            \* the run() futures
  MAIN_TASK_ID,
  None

VARIABLES
  state,           \* state[r]: "new", "running" or "done"
  local,           \* the wake queue
  base_waker,      \* the run() whose parent's waker is registered, or None
  awoken,          \* awoken[r]: in the TaskWaker of r's main future
  flagged,         \* flagged[r]: the waker that the parent gave to r was woken
  posted           \* posted[r]: something r's main future has to see has happened

vars == <<state, local, base_waker, awoken, flagged, posted>>

Init ==
  /\ state = [r \in Runs |-> "new"]
  /\ local = <<>>
  /\ base_waker = None
  /\ awoken = [r \in Runs |-> FALSE]
  /\ flagged = [r \in Runs |-> TRUE]
  /\ posted = [r \in Runs |-> FALSE]

\* run() empties the queue but for its main future when it is first polled.
Queue(r) == IF state[r] = "new" THEN <<MAIN_TASK_ID>> ELSE local

\* The parent polls r.  It registers its waker, takes what is in the queue, and
\* polls its main future if MAIN_TASK_ID was there.
Poll(r, ready) ==
  /\ flagged[r] /\ state[r] # "done"
  /\ flagged' = [flagged EXCEPT ![r] = FALSE]
  /\ base_waker' = r
  /\ local' = <<>>
  /\ IF MAIN_TASK_ID \in ToSet(Queue(r))
       THEN /\ awoken' = [awoken EXCEPT ![r] = FALSE]
            /\ posted' = [posted EXCEPT ![r] = FALSE]
            /\ state' = [state EXCEPT ![r] = IF ready THEN "done" ELSE "running"]
       ELSE ~ready /\ UNCHANGED <<awoken, posted, state>>

\* Something happens that the main future of r waits for, and its waker is woken.
Wake(r) ==
  /\ state[r] = "running"
  /\ posted' = [posted EXCEPT ![r] = TRUE]
  /\ awoken' = [awoken EXCEPT ![r] = TRUE]
  /\ IF awoken[r]
       THEN UNCHANGED <<local, base_waker, flagged>>
       ELSE /\ local' = Append(local, MAIN_TASK_ID)
            /\ base_waker' = None
            /\ flagged' = [q \in Runs |-> flagged[q] \/ q = base_waker]
  /\ UNCHANGED state

Next == \E r \in Runs : Wake(r) \/ \E ready \in BOOLEAN : Poll(r, ready)

\* The parent polls whoever it has to.
Fairness == \A r \in Runs : WF_vars(\E ready \in BOOLEAN : Poll(r, ready))

FairSpec == Init /\ [][Next]_vars /\ Fairness

\* The documentation of run(): "Drives the future to completion asynchronously".
\* What happens to the main future of a run() leads to a poll of it.
MainDriven == \A r \in Runs : posted[r] ~> ~posted[r]
===============================================================================
