--------------------------- MODULE ParallelForEach ---------------------------
(***************************************************************************)
(* parallel_for_each of runtime.hpp.  The caller starts a std::thread for  *)
(* each thread but the last, runs the last one's loop itself, and joins.   *)
(* Every loop takes the next task from an atomic counter.  What the lambda *)
(* does while a thread is at "run" is left to the module that uses this.   *)
(***************************************************************************)
EXTENDS Integers, Sequences, FiniteSets

CONSTANTS
  MaxThreads,   \* the largest value set_num_threads is given
  MaxTasks      \* the largest number of tasks

ASSUME BoundsAssumption == MaxThreads \in Nat \ {0} /\ MaxTasks \in Nat

VARIABLES
  nthreads,     \* num_threads(), read once
  ntasks,
  work,         \* the atomic counter: the next task
  started,      \* thread_id of the starting loop
  joined,       \* thread_id of the joining loop
  task,         \* task_id of each thread
  at,           \* where each thread is: "unborn", "fetch", "held", "run", "over"
  commenced,    \* history: the tasks in the order the lambda was called
  outcome       \* "running", "returned", "thrown" or "terminated"

vars == <<nthreads, ntasks, work, started, joined, task, at, commenced, outcome>>

Threads == 0..(nthreads - 1)
Tasks   == 0..(ntasks - 1)
Caller  == nthreads - 1       \* the caller's own loop is the last thread's

ForEachInit ==
  /\ nthreads \in 1..MaxThreads
  /\ ntasks \in 0..MaxTasks
  /\ work = 0 /\ started = 0 /\ joined = 0
  /\ task = [t \in Threads |-> 0]
  /\ at = [t \in Threads |-> "unborn"]
  /\ commenced = <<>>
  /\ outcome = "running"

Go(t, place) == at' = [at EXCEPT ![t] = place]

\* one round of the starting loop; the last round calls task() directly
Start ==
  /\ outcome = "running"
  /\ started < nthreads
  /\ Go(started, "fetch")
  /\ started' = started + 1
  /\ UNCHANGED <<nthreads, ntasks, work, joined, task, commenced, outcome>>

FetchOneMore(t) ==             \* mutation: one task too many
  /\ outcome = "running"
  /\ at[t] = "fetch"
  /\ task' = [task EXCEPT ![t] = work]
  /\ work' = work + 1
  /\ Go(t, IF work <= ntasks THEN "held" ELSE "over")
  /\ UNCHANGED <<nthreads, ntasks, started, joined, commenced, outcome>>

\* work.fetch_add(1) and the test of the loop
Fetch(t) ==
  /\ outcome = "running"
  /\ at[t] = "fetch"
  /\ task' = [task EXCEPT ![t] = work]
  /\ work' = work + 1
  /\ Go(t, IF work < ntasks THEN "held" ELSE "over")
  /\ UNCHANGED <<nthreads, ntasks, started, joined, commenced, outcome>>

\* the lambda is called
Commence(t) ==
  /\ outcome = "running"
  /\ at[t] = "held"
  /\ commenced' = Append(commenced, task[t])
  /\ Go(t, "run")
  /\ UNCHANGED <<nthreads, ntasks, work, started, joined, task, outcome>>

\* the lambda returns
End(t) ==
  /\ outcome = "running"
  /\ at[t] = "run"
  /\ Go(t, "fetch")
  /\ UNCHANGED <<nthreads, ntasks, work, started, joined, task, commenced, outcome>>

ThrowSwallowed(t) ==           \* mutation: the exception is dropped
  /\ outcome = "running"
  /\ at[t] = "run"
  /\ Go(t, "fetch")
  /\ UNCHANGED <<nthreads, ntasks, work, started, joined, task, commenced, outcome>>

(***************************************************************************)
(* The lambda throws.  An exception that leaves a std::thread terminates   *)
(* the program; in the caller's loop it destroys the vector of threads,    *)
(* which terminates the program as well unless that vector is empty.       *)
(***************************************************************************)
Throw(t) ==
  /\ outcome = "running"
  /\ at[t] = "run"
  /\ outcome' = IF nthreads = 1 THEN "thrown" ELSE "terminated"
  /\ UNCHANGED <<nthreads, ntasks, work, started, joined, task, at, commenced>>

Join ==
  /\ outcome = "running"
  /\ at[Caller] = "over"
  /\ joined < nthreads - 1
  /\ at[joined] = "over"
  /\ joined' = joined + 1
  /\ UNCHANGED <<nthreads, ntasks, work, started, task, at, commenced, outcome>>

ReturnWithoutJoin ==           \* mutation: the threads are not joined
  /\ outcome = "running"
  /\ at[Caller] = "over"
  /\ outcome' = "returned"
  /\ UNCHANGED <<nthreads, ntasks, work, started, joined, task, at, commenced>>

Return ==
  /\ outcome = "running"
  /\ at[Caller] = "over"
  /\ joined = nthreads - 1
  /\ outcome' = "returned"
  /\ UNCHANGED <<nthreads, ntasks, work, started, joined, task, at, commenced>>

-----------------------------------------------------------------------------
ForEachTypeOK ==
  /\ nthreads \in 1..MaxThreads /\ ntasks \in 0..MaxTasks
  /\ work \in 0..(ntasks + nthreads)
  /\ started \in 0..nthreads /\ joined \in 0..(nthreads - 1)
  /\ task \in [Threads -> Nat]
  /\ at \in [Threads -> {"unborn", "fetch", "held", "run", "over"}]
  /\ commenced \in Seq(Tasks)
  /\ outcome \in {"running", "returned", "thrown", "terminated"}

Begun == {commenced[i] : i \in DOMAIN commenced}

Ended == Begun \ {task[t] : t \in {u \in Threads : at[u] = "run"}}

(***************************************************************************)
(* The counter, the lambda and the sequence of the tasks are the caller's  *)
(* locals, which the threads refer to: none may be used once the call is   *)
(* over, whether it returned or threw.                                     *)
(***************************************************************************)
NoThreadOutlivesCall ==
  outcome \in {"returned", "thrown"} =>
    \A t \in Threads \ {Caller} : at[t] \in {"unborn", "over"}
=============================================================================
