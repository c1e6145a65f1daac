------------------------------- MODULE ForEach -------------------------------
(***************************************************************************)
(* What parallel_for_each promises: the lambda is called once with each    *)
(* task, at most nthreads calls are under way at any time, and it returns  *)
(* when all calls are over.  If a call throws, parallel_for_each does not  *)
(* return: the exception goes on, or the program is terminated.            *)
(***************************************************************************)
EXTENDS Integers, FiniteSets

CONSTANTS
  MaxThreads,   \* the largest value set_num_threads is given
  MaxTasks      \* the largest number of tasks

VARIABLES
  nthreads,     \* the number of threads
  ntasks,       \* the number of tasks
  begun,        \* the tasks the lambda was called with
  ended,        \* those of them whose call returned
  outcome       \* "running", "returned", "thrown" or "terminated"

vars == <<nthreads, ntasks, begun, ended, outcome>>

Tasks == 0..(ntasks - 1)

Init ==
  /\ nthreads \in 1..MaxThreads
  /\ ntasks \in 0..MaxTasks
  /\ begun = {} /\ ended = {}
  /\ outcome = "running"

Begin ==
  /\ outcome = "running"
  /\ Cardinality(begun \ ended) < nthreads
  /\ \E k \in Tasks \ begun : begun' = begun \cup {k}
  /\ UNCHANGED <<nthreads, ntasks, ended, outcome>>

EndOne ==
  /\ outcome = "running"
  /\ \E k \in begun \ ended : ended' = ended \cup {k}
  /\ UNCHANGED <<nthreads, ntasks, begun, outcome>>

Return ==
  /\ outcome = "running"
  /\ ended = Tasks
  /\ outcome' = "returned"
  /\ UNCHANGED <<nthreads, ntasks, begun, ended>>

Fail ==
  /\ outcome = "running"
  /\ begun # ended
  /\ outcome' \in {"thrown", "terminated"}
  /\ UNCHANGED <<nthreads, ntasks, begun, ended>>

Next == Begin \/ EndOne \/ Return \/ Fail

Spec == Init /\ [][Next]_vars
=============================================================================
