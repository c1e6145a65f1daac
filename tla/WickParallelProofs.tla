------------------------- MODULE WickParallelProofs -------------------------
(***************************************************************************)
(* Proofs about parallel_for_each and the parallel computation of a sum,   *)
(* for any number of threads and tasks and any outcomes of the tasks.      *)
(***************************************************************************)
EXTENDS WickParallel, FiniteSetTheorems, SequenceTheorems, DataInduction, TLAPS

-----------------------------------------------------------------------------
(***************************************************************************)
(* parallel_for_each.  Every step of the computation is one of these, or   *)
(* leaves the variables of the loop alone.                                 *)
(***************************************************************************)
LoopNext ==
  \/ Start \/ Join \/ Return
  \/ \E t \in Threads : Fetch(t) \/ Commence(t) \/ End(t) \/ Throw(t)

LEMMA LoopSteps == [Next]_all => [LoopNext]_vars
BY DEF Next, Main, Thread, Over, LoopNext, all, vars, body, locals, shared,
       StartThread, TakeTask, CallTask, JoinThread, ReturnSum, ComputeThrows, Compute,
       AddAttempted, AddUseful, Lock, Look, Write, Unlock

\* the tasks below the counter were taken by someone, no two threads have the
\* same, and a thread is over only when there is nothing left to take
LoopTypeOK ==
  /\ nthreads \in Nat \ {0} /\ ntasks \in Nat
  /\ work \in Nat
  /\ started \in 0..nthreads /\ joined \in 0..(nthreads - 1)
  /\ task \in [Threads -> Nat]
  /\ at \in [Threads -> {"unborn", "fetch", "held", "run", "over"}]
  /\ commenced \in Seq(Tasks)
  /\ outcome \in {"running", "returned", "thrown", "terminated"}

HasTask(t) == at[t] \in {"held", "run"}

\* where the tasks are
TasksInv ==
  /\ \A t \in Threads : HasTask(t) => task[t] \in Tasks /\ task[t] < work
  /\ \A t \in Threads : at[t] = "held" => task[t] \notin Begun
  /\ \A t \in Threads : at[t] = "run" => task[t] \in Begun
  /\ \A t, u \in Threads : HasTask(t) /\ HasTask(u) /\ t # u => task[t] # task[u]
  /\ \A k \in Begun : k < work
  /\ \A k \in Tasks : k < work =>
       k \in Begun \/ \E t \in Threads : at[t] = "held" /\ task[t] = k

\* where the threads are
ThreadsInv ==
  /\ \A t \in Threads : at[t] = "unborn" <=> t >= started
  /\ \A t \in Threads : at[t] = "over" => work >= ntasks
  /\ \A t \in Threads : t < joined => at[t] = "over"
  /\ outcome = "returned" => \A t \in Threads : at[t] = "over"
  /\ outcome = "thrown" => nthreads = 1

LoopInv == LoopTypeOK /\ TasksInv /\ ThreadsInv

LEMMA LoopInit == Init => LoopInv
<1>. SUFFICES ASSUME Init PROVE LoopInv
  OBVIOUS
<1>1. nthreads \in Nat \ {0} /\ ntasks \in Nat
  BY BoundsAssumption DEF Init, ForEachInit
<1>2. commenced \in Seq(Tasks) /\ Begun = {}
  BY EmptySeq DEF Init, ForEachInit, Begun
<1>3. LoopTypeOK
  BY <1>1, <1>2 DEF Init, ForEachInit, LoopTypeOK, Threads
<1>4. /\ work = 0 /\ started = 0 /\ joined = 0 /\ outcome = "running"
      /\ \A t \in Threads : at[t] = "unborn" /\ t \in Nat
      /\ \A k \in Tasks : k \in Nat
  BY <1>1 DEF Init, ForEachInit, Threads, Tasks
<1>5. TasksInv
  BY <1>2, <1>4 DEF TasksInv, HasTask
<1>6. ThreadsInv
  BY <1>4 DEF ThreadsInv
<1>. QED
  BY <1>3, <1>5, <1>6 DEF LoopInv

\* a call of the lambda adds its task to those begun
LEMMA CommenceBegins ==
  ASSUME LoopInv, NEW t \in Threads, Commence(t)
  PROVE  /\ commenced' \in Seq(Tasks)
         /\ Begun' = Begun \cup {task[t]}
<1>1. commenced \in Seq(Tasks) /\ task[t] \in Tasks
  BY DEF LoopInv, LoopTypeOK, TasksInv, HasTask, Commence
<1>2. commenced' = Append(commenced, task[t])
  BY DEF Commence
<1>3. /\ commenced' \in Seq(Tasks)
      /\ Len(commenced) \in Nat
      /\ DOMAIN commenced = 1..Len(commenced)
      /\ DOMAIN commenced' = 1..(Len(commenced) + 1)
      /\ \A i \in 1..Len(commenced) : commenced'[i] = commenced[i]
      /\ commenced'[Len(commenced) + 1] = task[t]
  BY <1>1, <1>2
<1>. QED
  BY <1>3 DEF Begun

LEMMA LoopTypeStep == LoopInv /\ [LoopNext]_vars => LoopTypeOK'
<1>. SUFFICES ASSUME LoopInv, [LoopNext]_vars
              PROVE  LoopTypeOK'
  OBVIOUS
<1>. USE DEF LoopInv, LoopTypeOK, Threads, Tasks
<1>1. CASE Start
  BY <1>1 DEF Start, Go
<1>2. ASSUME NEW t \in Threads, Fetch(t)
      PROVE  LoopTypeOK'
  BY <1>2 DEF Fetch, Go
<1>3. ASSUME NEW t \in Threads, Commence(t)
      PROVE  LoopTypeOK'
  BY <1>3, CommenceBegins DEF Commence, Go
<1>4. ASSUME NEW t \in Threads, End(t) \/ Throw(t)
      PROVE  LoopTypeOK'
  BY <1>4 DEF End, Throw, Go
<1>5. CASE Join
  BY <1>5 DEF Join
<1>6. CASE Return
  BY <1>6 DEF Return
<1>7. CASE UNCHANGED vars
  BY <1>7 DEF vars
<1>. QED
  BY <1>1, <1>2, <1>3, <1>4, <1>5, <1>6, <1>7 DEF LoopNext

LEMMA TasksStep == LoopInv /\ [LoopNext]_vars => TasksInv'
<1>. SUFFICES ASSUME LoopInv, [LoopNext]_vars
              PROVE  TasksInv'
  OBVIOUS
<1>0. /\ work \in Nat /\ ntasks \in Nat /\ task \in [Threads -> Nat]
      /\ at \in [Threads -> {"unborn", "fetch", "held", "run", "over"}]
      /\ started \in Int
      /\ TasksInv
  BY DEF LoopInv, LoopTypeOK
<1>1. CASE Start
  <2>1. /\ at' = [at EXCEPT ![started] = "fetch"]
        /\ started \in Threads /\ at[started] = "unborn"
        /\ UNCHANGED <<nthreads, ntasks, work, task, commenced>>
    BY <1>0, <1>1 DEF Start, Go, LoopInv, LoopTypeOK, ThreadsInv, Threads
  <2>2. Threads' = Threads /\ Tasks' = Tasks /\ Begun' = Begun
    BY <2>1 DEF Threads, Tasks, Begun
  <2>3. \A u \in Threads : at'[u] = at[u] \/ (at'[u] = "fetch" /\ at[u] = "unborn")
    BY <1>0, <2>1
  <2>. QED
    BY <1>0, <2>1, <2>2, <2>3 DEF TasksInv, HasTask
<1>2. ASSUME NEW t \in Threads, Fetch(t)
      PROVE  TasksInv'
  <2>1. /\ at[t] = "fetch"
        /\ at' = [at EXCEPT ![t] = IF work < ntasks THEN "held" ELSE "over"]
        /\ task' = [task EXCEPT ![t] = work] /\ work' = work + 1
        /\ UNCHANGED <<nthreads, ntasks, commenced>>
    BY <1>2 DEF Fetch, Go
  <2>2. Threads' = Threads /\ Tasks' = Tasks /\ Begun' = Begun
    BY <2>1 DEF Threads, Tasks, Begun
  <2>3. \A u \in Threads : u # t => at'[u] = at[u] /\ task'[u] = task[u]
    BY <1>0, <2>1
  <2>4. at'[t] = (IF work < ntasks THEN "held" ELSE "over") /\ task'[t] = work
    BY <1>0, <2>1
  <2>5. work < ntasks => work \in Tasks
    BY <1>0 DEF Tasks
  <2>6. \A k \in Tasks : k \in Int
    BY <1>0 DEF Tasks
  <2>7. \A k \in Begun : k \in Int /\ k < work
    BY <1>0 DEF TasksInv, LoopInv, LoopTypeOK, Begun, Tasks
  <2>8. \A u \in Threads : HasTask(u)' =>
          \/ u # t /\ HasTask(u)
          \/ u = t /\ work < ntasks
    BY <2>3, <2>4 DEF HasTask
  <2>9. \A u \in Threads : HasTask(u)' => task'[u] \in Tasks /\ task'[u] < work'
    BY <1>0, <2>1, <2>3, <2>4, <2>5, <2>6, <2>8 DEF TasksInv
  <2>10. \A u \in Threads : /\ at'[u] = "held" => task'[u] \notin Begun
                            /\ at'[u] = "run" => task'[u] \in Begun
    BY <1>0, <2>3, <2>4, <2>7 DEF TasksInv
  <2>11. \A u, w \in Threads : HasTask(u)' /\ HasTask(w)' /\ u # w => task'[u] # task'[w]
    BY <1>0, <2>3, <2>4, <2>8 DEF TasksInv
  <2>12. ASSUME NEW k \in Tasks, k < work'
         PROVE  k \in Begun \/ \E u \in Threads : at'[u] = "held" /\ task'[u] = k
    <3>1. CASE k < work
      BY <1>0, <2>1, <2>3, <3>1 DEF TasksInv
    <3>2. CASE k = work
      <4>1. work < ntasks
        BY <1>0, <3>2 DEF Tasks
      <4>. QED
        BY <2>4, <3>2, <4>1
    <3>. QED
      BY <1>0, <2>1, <2>6, <2>12, <3>1, <3>2
  <2>13. \A k \in Begun : k < work'
    BY <1>0, <2>1, <2>7
  <2>. QED
    BY <2>2, <2>9, <2>10, <2>11, <2>12, <2>13 DEF TasksInv, HasTask
<1>3. ASSUME NEW t \in Threads, Commence(t)
      PROVE  TasksInv'
  <2>1. /\ at[t] = "held" /\ at' = [at EXCEPT ![t] = "run"]
        /\ UNCHANGED <<nthreads, ntasks, work, task>>
    BY <1>3 DEF Commence, Go
  <2>2. Threads' = Threads /\ Tasks' = Tasks /\ Begun' = Begun \cup {task[t]}
    BY <1>3, <2>1, CommenceBegins DEF Threads, Tasks
  <2>3. \A u \in Threads : u # t => at'[u] = at[u]
    BY <1>0, <2>1
  <2>4. at'[t] = "run"
    BY <1>0, <2>1
  <2>. QED
    BY <1>0, <2>1, <2>2, <2>3, <2>4 DEF TasksInv, HasTask
<1>4. ASSUME NEW t \in Threads, End(t)
      PROVE  TasksInv'
  <2>1. /\ at[t] = "run" /\ at' = [at EXCEPT ![t] = "fetch"]
        /\ UNCHANGED <<nthreads, ntasks, work, task, commenced>>
    BY <1>4 DEF End, Go
  <2>2. Threads' = Threads /\ Tasks' = Tasks /\ Begun' = Begun
    BY <2>1 DEF Threads, Tasks, Begun
  <2>3. \A u \in Threads : u # t => at'[u] = at[u]
    BY <1>0, <2>1
  <2>4. at'[t] = "fetch"
    BY <1>0, <2>1
  <2>. QED
    BY <1>0, <2>1, <2>2, <2>3, <2>4 DEF TasksInv, HasTask
<1>5. ASSUME UNCHANGED <<nthreads, ntasks, work, task, at, commenced>>
      PROVE  TasksInv'
  BY <1>0, <1>5 DEF TasksInv, HasTask, Threads, Tasks, Begun
<1>. QED
  BY <1>1, <1>2, <1>3, <1>4, <1>5 DEF LoopNext, Throw, Join, Return, vars

LEMMA ThreadsStep == LoopInv /\ [LoopNext]_vars => ThreadsInv'
<1>. SUFFICES ASSUME LoopInv, [LoopNext]_vars
              PROVE  ThreadsInv'
  OBVIOUS
<1>0. /\ work \in Nat /\ ntasks \in Nat /\ nthreads \in Nat \ {0}
      /\ at \in [Threads -> {"unborn", "fetch", "held", "run", "over"}]
      /\ started \in 0..nthreads /\ joined \in 0..(nthreads - 1)
      /\ ThreadsInv
  BY DEF LoopInv, LoopTypeOK
<1>. USE DEF ThreadsInv
<1>1. CASE Start
  <2>1. /\ at' = [at EXCEPT ![started] = "fetch"] /\ started' = started + 1
        /\ started \in Threads /\ at[started] = "unborn"
        /\ outcome = "running"
        /\ UNCHANGED <<nthreads, ntasks, work, joined, outcome>>
    BY <1>0, <1>1 DEF Start, Go, Threads
  <2>2. Threads' = Threads /\ Threads \subseteq Int
    BY <1>0, <2>1 DEF Threads
  <2>. QED
    BY <1>0, <2>1, <2>2
<1>2. ASSUME NEW t \in Threads, Fetch(t)
      PROVE  ThreadsInv'
  <2>1. /\ at[t] = "fetch" /\ outcome = "running" /\ work' = work + 1
        /\ at' = [at EXCEPT ![t] = IF work < ntasks THEN "held" ELSE "over"]
        /\ UNCHANGED <<nthreads, ntasks, started, joined, outcome>>
    BY <1>2 DEF Fetch, Go
  <2>2. Threads' = Threads
    BY <2>1 DEF Threads
  <2>. QED
    BY <1>0, <2>1, <2>2
<1>3. ASSUME NEW t \in Threads, Commence(t) \/ End(t)
      PROVE  ThreadsInv'
  <2>1. /\ at[t] \in {"held", "run"} /\ outcome = "running"
        /\ at' = [at EXCEPT ![t] = "run"] \/ at' = [at EXCEPT ![t] = "fetch"]
        /\ UNCHANGED <<nthreads, ntasks, work, started, joined, outcome>>
    BY <1>3 DEF Commence, End, Go
  <2>2. Threads' = Threads
    BY <2>1 DEF Threads
  <2>. QED
    BY <1>0, <2>1, <2>2
<1>4. ASSUME NEW t \in Threads, Throw(t)
      PROVE  ThreadsInv'
  BY <1>0, <1>4 DEF Throw, Threads
<1>5. CASE Join
  <2>1. /\ at[joined] = "over" /\ joined' = joined + 1 /\ outcome = "running"
        /\ UNCHANGED <<nthreads, ntasks, work, started, at, outcome>>
    BY <1>5 DEF Join
  <2>2. Threads' = Threads /\ Threads \subseteq Int
    BY <1>0, <2>1 DEF Threads
  <2>3. \A t \in Threads : t < joined' => t < joined \/ t = joined
    BY <1>0, <2>1, <2>2
  <2>. QED
    BY <1>0, <2>1, <2>2, <2>3
<1>6. CASE Return
  <2>1. /\ at[nthreads - 1] = "over" /\ joined = nthreads - 1 /\ outcome' = "returned"
        /\ UNCHANGED <<nthreads, ntasks, work, started, joined, at>>
    BY <1>6 DEF Return, Caller
  <2>2. Threads' = Threads
    BY <2>1 DEF Threads
  <2>3. \A t \in Threads : t < joined \/ t = nthreads - 1
    BY <1>0, <2>1 DEF Threads
  <2>. QED
    BY <1>0, <2>1, <2>2, <2>3
<1>7. CASE UNCHANGED vars
  BY <1>0, <1>7 DEF vars, Threads
<1>. QED
  BY <1>1, <1>2, <1>3, <1>4, <1>5, <1>6, <1>7 DEF LoopNext

LEMMA LoopStep == LoopInv /\ [Next]_all => LoopInv'
BY LoopSteps, LoopTypeStep, TasksStep, ThreadsStep DEF LoopInv

LEMMA LoopCorrect == Spec => []LoopInv
BY LoopInit, LoopStep, PTL DEF Spec

\* When the call is over, whether it returned or threw, no thread but the
\* caller is still running: for any number of threads and tasks, nobody uses
\* the counter and the lambda after their owner is gone.
THEOREM NoThreadOutlivesCallCorrect == Spec => []NoThreadOutlivesCall
<1>1. LoopInv => NoThreadOutlivesCall
  BY DEF LoopInv, LoopTypeOK, ThreadsInv, NoThreadOutlivesCall, Threads, Caller
<1>. QED
  BY <1>1, LoopCorrect, PTL

-----------------------------------------------------------------------------
(***************************************************************************)
(* parallel_for_each implements ForEach.                                   *)
(***************************************************************************)
Running == {task[t] : t \in {u \in Threads : at[u] = "run"}}

\* a thread that is not running its task leaves room for one more
LEMMA RoomForOneMore ==
  ASSUME LoopInv, NEW t \in Threads, at[t] # "run"
  PROVE  /\ Begun \ Ended = Running
         /\ Cardinality(Running) < nthreads
<1>. DEFINE R == {u \in Threads : at[u] = "run"}
            f == [u \in R |-> task[u]]
<1>1. Running \subseteq Begun
  BY DEF LoopInv, TasksInv, Running
<1>2. Begun \ Ended = Running
  BY <1>1 DEF Ended, Running
<1>3. nthreads \in Nat \ {0}
  BY DEF LoopInv, LoopTypeOK
<1>4. IsFiniteSet(Threads) /\ Cardinality(Threads) = nthreads
  BY <1>3, FS_Interval DEF Threads
<1>5. IsFiniteSet(R) /\ Cardinality(R) < nthreads
  <2>1. R \in SUBSET Threads /\ R # Threads
    OBVIOUS
  <2>. HIDE DEF R
  <2>2. IsFiniteSet(R) /\ Cardinality(R) <= Cardinality(Threads) /\ Cardinality(Threads) # Cardinality(R)
    BY <1>4, <2>1, FS_Subset
  <2>3. Cardinality(R) \in Nat
    BY <2>2, FS_CardinalityType
  <2>. QED
    BY <1>3, <1>4, <2>2, <2>3
<1>6. f \in Surjection(R, Running)
  BY DEF Surjection, Running
<1>. HIDE DEF R, f
<1>7. IsFiniteSet(Running) /\ Cardinality(Running) <= Cardinality(R)
  BY <1>5, <1>6, FS_Surjection
<1>8. Cardinality(Running) \in Nat /\ Cardinality(R) \in Nat
  BY <1>5, <1>7, FS_CardinalityType
<1>. QED
  BY <1>2, <1>3, <1>5, <1>7, <1>8

LEMMA AbstractInit == Init => Abstract!Init
<1>1. Init => Begun = {} /\ Ended = {}
  BY EmptySeq DEF Init, ForEachInit, Begun, Ended
<1>. QED
  BY <1>1 DEF Init, ForEachInit, Abstract!Init

LEMMA AbstractStep == LoopInv /\ [LoopNext]_vars => [Abstract!Next]_Abstract!vars
<1>. SUFFICES ASSUME LoopInv, [LoopNext]_vars
              PROVE  [Abstract!Next]_Abstract!vars
  OBVIOUS
<1>0. /\ at \in [Threads -> {"unborn", "fetch", "held", "run", "over"}]
      /\ task \in [Threads -> Nat]
      /\ TasksInv /\ ThreadsInv
  BY DEF LoopInv, LoopTypeOK
<1>1. Ended = Begun \ Running /\ Ended' = Begun' \ Running'
  BY DEF Ended, Running
<1>2. ASSUME UNCHANGED <<nthreads, ntasks, outcome, commenced>>, Running' = Running
      PROVE  UNCHANGED Abstract!vars
  BY <1>1, <1>2 DEF Abstract!vars, Begun
<1>3. CASE Start
  <2>1. /\ at' = [at EXCEPT ![started] = "fetch"]
        /\ started \in Threads /\ at[started] = "unborn"
        /\ UNCHANGED <<nthreads, ntasks, task, commenced, outcome>>
    BY <1>0, <1>3 DEF Start, Go, LoopInv, LoopTypeOK, ThreadsInv, Threads
  <2>2. Threads' = Threads
    BY <2>1 DEF Threads
  <2>3. \A u \in Threads : at'[u] = "run" <=> at[u] = "run"
    BY <1>0, <2>1
  <2>4. Running' = Running
    BY <2>1, <2>2, <2>3 DEF Running
  <2>. QED
    BY <1>2, <2>1, <2>4
<1>4. ASSUME NEW t \in Threads, Fetch(t)
      PROVE  UNCHANGED Abstract!vars
  <2>1. /\ at[t] = "fetch"
        /\ at' = [at EXCEPT ![t] = IF work < ntasks THEN "held" ELSE "over"]
        /\ task' = [task EXCEPT ![t] = work]
        /\ UNCHANGED <<nthreads, ntasks, commenced, outcome>>
    BY <1>4 DEF Fetch, Go
  <2>2. Threads' = Threads
    BY <2>1 DEF Threads
  <2>3. \A u \in Threads : /\ at'[u] = "run" <=> at[u] = "run"
                           /\ at[u] = "run" => task'[u] = task[u]
    BY <1>0, <2>1
  <2>4. Running' = Running
    BY <2>2, <2>3 DEF Running
  <2>. QED
    BY <1>2, <2>1, <2>4
<1>5. ASSUME NEW t \in Threads, Commence(t)
      PROVE  Abstract!Begin
  <2>1. /\ at[t] = "held" /\ at' = [at EXCEPT ![t] = "run"] /\ outcome = "running"
        /\ UNCHANGED <<nthreads, ntasks, task, outcome>>
    BY <1>5 DEF Commence, Go
  <2>2. task[t] \in Tasks \ Begun
    BY <1>0, <2>1 DEF TasksInv, HasTask
  <2>3. Begun' = Begun \cup {task[t]}
    BY <1>5, CommenceBegins
  <2>4. Running' = Running \cup {task[t]}
    <3>1. Threads' = Threads /\ at'[t] = "run"
      BY <1>0, <2>1 DEF Threads
    <3>2. \A u \in Threads : at'[u] = "run" <=> at[u] = "run" \/ u = t
      BY <1>0, <2>1
    <3>. QED
      BY <2>1, <3>1, <3>2 DEF Running
  <2>5. Ended' = Ended
    BY <1>1, <2>2, <2>3, <2>4
  <2>6. Abstract!Cardinality(Begun \ Ended) < nthreads
    <3>1. Abstract!Cardinality(Begun \ Ended) = Cardinality(Begun \ Ended)
      BY DEF Abstract!Cardinality, Cardinality
    <3>. QED
      BY <2>1, <3>1, RoomForOneMore
  <2>. QED
    BY <2>1, <2>2, <2>3, <2>5, <2>6 DEF Abstract!Begin, Abstract!Tasks, Tasks
<1>6. ASSUME NEW t \in Threads, End(t)
      PROVE  Abstract!EndOne
  <2>1. /\ at[t] = "run" /\ at' = [at EXCEPT ![t] = "fetch"] /\ outcome = "running"
        /\ UNCHANGED <<nthreads, ntasks, task, commenced, outcome>>
    BY <1>6 DEF End, Go
  <2>2. Begun' = Begun /\ task[t] \in Begun
    BY <1>0, <2>1 DEF Begun, TasksInv
  <2>3. task[t] \in Running /\ Running' = Running \ {task[t]}
    <3>1. Threads' = Threads /\ at'[t] = "fetch"
      BY <1>0, <2>1 DEF Threads
    <3>2. \A u \in Threads : at'[u] = "run" <=> at[u] = "run" /\ u # t
      BY <1>0, <2>1
    <3>3. \A u \in Threads : at[u] = "run" /\ u # t => task[u] # task[t]
      BY <1>0, <2>1 DEF TasksInv, HasTask
    <3>. QED
      BY <2>1, <3>1, <3>2, <3>3 DEF Running
  <2>4. Ended' = Ended \cup {task[t]} /\ task[t] \in Begun \ Ended
    BY <1>1, <2>2, <2>3
  <2>. QED
    BY <2>1, <2>2, <2>4 DEF Abstract!EndOne
<1>7. ASSUME NEW t \in Threads, Throw(t)
      PROVE  Abstract!Fail
  <2>1. /\ at[t] = "run" /\ outcome = "running" /\ outcome' \in {"thrown", "terminated"}
        /\ UNCHANGED <<nthreads, ntasks, task, at, commenced>>
    BY <1>7 DEF Throw
  <2>2. task[t] \in Begun /\ task[t] \in Running
    BY <1>0, <2>1 DEF TasksInv, Running
  <2>3. Begun' = Begun /\ Ended' = Ended
    BY <2>1 DEF Begun, Ended, Threads
  <2>. QED
    BY <1>1, <2>1, <2>2, <2>3 DEF Abstract!Fail
<1>8. CASE Join
  <2>1. UNCHANGED <<nthreads, ntasks, task, at, commenced, outcome>>
    BY <1>8 DEF Join
  <2>2. Running' = Running
    BY <2>1 DEF Running, Threads
  <2>. QED
    BY <1>2, <2>1, <2>2
<1>9. CASE Return
  <2>1. /\ outcome = "running" /\ outcome' = "returned"
        /\ UNCHANGED <<nthreads, ntasks, task, at, commenced>>
    BY <1>9 DEF Return
  <2>2. \A t \in Threads : at[t] = "over"
    BY <1>0, <1>9, ThreadsStep, <2>1 DEF ThreadsInv, Threads
  <2>3. Running = {}
    BY <2>2 DEF Running
  <2>4. Begun = Tasks
    <3>1. Begun \subseteq Tasks
      BY DEF LoopInv, LoopTypeOK, Begun
    <3>2. 0 \in Threads /\ work >= ntasks /\ work \in Nat /\ ntasks \in Nat
      BY <1>0, <2>2 DEF LoopInv, LoopTypeOK, ThreadsInv, Threads
    <3>3. \A k \in Tasks : k < work
      BY <3>2 DEF Tasks
    <3>. QED
      BY <1>0, <2>2, <3>1, <3>3 DEF TasksInv
  <2>5. Begun' = Begun /\ Ended' = Ended
    BY <2>1 DEF Begun, Ended, Threads
  <2>6. Abstract!Return
    BY <1>1, <2>1, <2>3, <2>4, <2>5 DEF Abstract!Return, Abstract!Tasks, Tasks
  <2>. QED
    BY <2>6 DEF Abstract!Next
<1>10. CASE UNCHANGED vars
  <2>1. UNCHANGED <<nthreads, ntasks, task, at, commenced, outcome>>
    BY <1>10 DEF vars
  <2>2. Running' = Running
    BY <2>1 DEF Running, Threads
  <2>. QED
    BY <1>2, <2>1, <2>2
<1>. QED
  BY <1>3, <1>4, <1>5, <1>6, <1>7, <1>8, <1>9, <1>10 DEF LoopNext, Abstract!Next

\* parallel_for_each keeps the promise of ForEach for any number of threads and
\* tasks: each task is given to the lambda once, no more than nthreads calls are
\* under way at any time, and it returns only when all are over.
THEOREM ForEachImplemented == Spec => ImplementsForEach
<1>1. LoopInv /\ [Next]_all => [Abstract!Next]_Abstract!vars
  BY LoopSteps, AbstractStep
<1>. QED
  BY <1>1, AbstractInit, LoopCorrect, PTL DEF Spec, ImplementsForEach, Abstract!Spec

-----------------------------------------------------------------------------
(***************************************************************************)
(* A task that throws never gets past its computation.                     *)
(***************************************************************************)
Steps == {"compute", "attempted", "useful", "lock", "look", "write"}

Computing(t) == at[t] = "run" /\ step[t] = "compute"

FailInv ==
  /\ step \in [Threads -> Steps]
  /\ \A k \in Begun :
       outputs[k].throws => \E t \in Threads : Computing(t) /\ task[t] = k

LEMMA FailInit == Init => FailInv
<1>1. Init => Begun = {}
  BY EmptySeq DEF Init, ForEachInit, Begun
<1>. QED
  BY <1>1 DEF Init, FailInv, Steps

\* a step of the body of t, once it has its summand
LEMMA FailBody ==
  ASSUME LoopInv, FailInv, NEW t \in Threads, at[t] = "run",
         UNCHANGED <<nthreads, task, commenced, outputs>>,
         step[t] # "compute" \/ ~outputs[task[t]].throws,
         NEW p \in Steps, To(t, p) \/ step' = step,
         at' = at \/ at' = [at EXCEPT ![t] = "fetch"]
  PROVE  FailInv'
<1>1. Threads' = Threads /\ Begun' = Begun
  BY DEF Threads, Begun
<1>2. step' \in [Threads -> Steps]
  BY DEF FailInv, To
<1>3. at \in [Threads -> {"unborn", "fetch", "held", "run", "over"}]
  BY DEF LoopInv, LoopTypeOK
<1>4. ASSUME NEW u \in Threads, Computing(u), outputs[task[u]].throws
      PROVE  Computing(u)'
  <2>1. u # t
    BY <1>4 DEF Computing
  <2>. QED
    BY <1>3, <1>4, <2>1 DEF Computing, FailInv, To
<1>5. ASSUME NEW k \in Begun, outputs[k].throws
      PROVE  \E u \in Threads : Computing(u)' /\ task'[u] = k
  BY <1>4, <1>5 DEF FailInv
<1>. QED
  BY <1>1, <1>2, <1>5 DEF FailInv

LEMMA FailStep == LoopInv /\ FailInv /\ [Next]_all => FailInv'
<1>. SUFFICES ASSUME LoopInv, FailInv, [Next]_all
              PROVE  FailInv'
  OBVIOUS
<1>0. /\ at \in [Threads -> {"unborn", "fetch", "held", "run", "over"}]
      /\ step \in [Threads -> Steps] /\ TasksInv
  BY DEF LoopInv, LoopTypeOK, FailInv
<1>. USE DEF body, locals, shared
<1>1. CASE StartThread
  <2>1. /\ at' = [at EXCEPT ![started] = "fetch"]
        /\ started \in Threads /\ at[started] = "unborn"
        /\ UNCHANGED <<nthreads, task, commenced, outputs, step>>
    BY <1>1 DEF StartThread, Start, Go, LoopInv, LoopTypeOK, ThreadsInv, Threads
  <2>2. Threads' = Threads /\ Begun' = Begun
    BY <2>1 DEF Threads, Begun
  <2>3. \A u \in Threads : Computing(u) => Computing(u)'
    BY <1>0, <2>1 DEF Computing
  <2>. QED
    BY <2>1, <2>2, <2>3 DEF FailInv
<1>2. ASSUME NEW t \in Threads, TakeTask(t)
      PROVE  FailInv'
  <2>1. /\ at[t] = "fetch"
        /\ at' = [at EXCEPT ![t] = IF work < ntasks THEN "held" ELSE "over"]
        /\ task' = [task EXCEPT ![t] = work]
        /\ UNCHANGED <<nthreads, commenced, outputs, step>>
    BY <1>2 DEF TakeTask, Fetch, Go
  <2>2. Threads' = Threads /\ Begun' = Begun
    BY <2>1 DEF Threads, Begun
  <2>3. task \in [Threads -> Nat]
    BY DEF LoopInv, LoopTypeOK
  <2>4. \A u \in Threads : Computing(u) => Computing(u)' /\ task'[u] = task[u]
    BY <1>0, <2>1, <2>3 DEF Computing
  <2>. QED
    BY <2>1, <2>2, <2>4 DEF FailInv
<1>3. ASSUME NEW t \in Threads, CallTask(t)
      PROVE  FailInv'
  <2>1. /\ at[t] = "held" /\ at' = [at EXCEPT ![t] = "run"]
        /\ step' = [step EXCEPT ![t] = "compute"]
        /\ UNCHANGED <<nthreads, task, outputs>>
    BY <1>3 DEF CallTask, Commence, Go, To
  <2>2. Threads' = Threads /\ Begun' = Begun \cup {task[t]}
    BY <1>3, <2>1, CommenceBegins DEF Threads, CallTask
  <2>3. Computing(t)' /\ \A u \in Threads : Computing(u) => Computing(u)'
    BY <1>0, <2>1 DEF Computing
  <2>4. step' \in [Threads -> Steps]
    BY <1>0, <2>1 DEF Steps
  <2>. QED
    BY <2>1, <2>2, <2>3, <2>4 DEF FailInv
<1>4. ASSUME NEW t \in Threads, ComputeThrows(t)
      PROVE  FailInv'
  BY <1>4 DEF ComputeThrows, Throw, FailInv, Computing, Threads, Begun
<1>5. ASSUME NEW t \in Threads, Compute(t)
      PROVE  FailInv'
  <2>1. /\ at[t] = "run" /\ at' = at /\ ~outputs[task[t]].throws
        /\ UNCHANGED <<nthreads, task, commenced, outputs>>
        /\ To(t, "attempted")
    BY <1>5 DEF Compute, At, vars
  <2>. QED
    BY <2>1, FailBody DEF Steps
<1>6. ASSUME NEW t \in Threads,
             AddAttempted(t) \/ AddUseful(t) \/ Lock(t) \/ Look(t) \/ Write(t)
      PROVE  FailInv'
  <2>1. /\ at[t] = "run" /\ at' = at /\ step[t] # "compute"
        /\ UNCHANGED <<nthreads, task, commenced, outputs>>
    BY <1>6 DEF AddAttempted, AddUseful, Lock, Look, Write, At, vars
  <2>2. \E p \in Steps : To(t, p)
    BY <1>6 DEF AddAttempted, AddUseful, Lock, Look, Write, Steps
  <2>. QED
    BY <2>1, <2>2, FailBody
<1>7. ASSUME NEW t \in Threads, Unlock(t)
      PROVE  FailInv'
  <2>1. /\ at[t] = "run" /\ at' = [at EXCEPT ![t] = "fetch"] /\ step[t] # "compute"
        /\ UNCHANGED <<nthreads, task, commenced, outputs, step>>
    BY <1>7 DEF Unlock, At, End, Go
  <2>. QED
    BY <2>1, FailBody DEF Steps
<1>8. CASE JoinThread \/ ReturnSum \/ UNCHANGED all
  <2>1. UNCHANGED <<nthreads, task, at, commenced, outputs, step>>
    BY <1>8 DEF JoinThread, ReturnSum, Join, Return, all, vars
  <2>. QED
    BY <2>1 DEF FailInv, Computing, Threads, Begun
<1>. QED
  BY <1>1, <1>2, <1>3, <1>4, <1>5, <1>6, <1>7, <1>8 DEF Next, Main, Thread, Over

LEMMA FailCorrect == Spec => [](LoopInv /\ FailInv)
<1>1. LoopInv /\ FailInv /\ [Next]_all => (LoopInv /\ FailInv)'
  BY LoopStep, FailStep
<1>. QED
  BY <1>1, LoopInit, FailInit, PTL DEF Spec

\* compute() does not return a sum that lacks the summand of a task that threw,
\* for any number of threads and tasks: when it returns, every task was run and
\* none of them threw.
THEOREM NoSilentFailureCorrect == Spec => []NoSilentFailure
<1>1. LoopInv /\ FailInv => NoSilentFailure
  <2>. SUFFICES ASSUME LoopInv, FailInv, outcome = "returned", NEW k \in Tasks
                PROVE  k \in Begun /\ ~outputs[k].throws
    BY DEF NoSilentFailure
  <2>1. \A t \in Threads : at[t] = "over"
    BY DEF LoopInv, ThreadsInv
  <2>2. work \in Nat /\ ntasks \in Nat /\ 0 \in Threads
    BY DEF LoopInv, LoopTypeOK, Threads
  <2>3. k < work
    BY <2>1, <2>2 DEF LoopInv, ThreadsInv, Tasks
  <2>4. k \in Begun
    BY <2>1, <2>3 DEF LoopInv, TasksInv
  <2>5. ~outputs[k].throws
    BY <2>1, <2>4 DEF FailInv, Computing
  <2>. QED
    BY <2>4, <2>5
<1>. QED
  BY <1>1, FailCorrect, PTL

-----------------------------------------------------------------------------
(***************************************************************************)
(* The mutex and the sum it protects.                                      *)
(***************************************************************************)
InAppend(t) == at[t] = "run" /\ step[t] \in {"look", "write"}

\* the place Sum::append finds for summand s
PlaceFor(s) ==
  IF IsConstant(s) /\ constant # 0 THEN constant
  ELSE IF IsConstant(s) /\ s.value = 0 THEN 0
  ELSE Len(sum) + 1

SumTypeOK ==
  /\ step \in [Threads -> Steps]
  /\ outputs \in [Tasks -> Outputs]
  /\ todo \in [Threads -> Seq(Summand)]
  /\ slot \in [Threads -> Nat]
  /\ sum \in Seq(Summand) /\ constant \in 0..Len(sum)

SumInv ==
  /\ SumTypeOK
  /\ mutex \in {Free} \cup Threads
  /\ \A t \in Threads : InAppend(t) => mutex = t
  /\ \A t \in Threads : at[t] = "run" /\ step[t] = "write" =>
       todo[t] # <<>> /\ slot[t] = PlaceFor(Head(todo[t]))
  /\ \A i \in 1..Len(sum) : IsConstant(sum[i]) <=> i = constant

LEMMA SumInit == Init => SumInv
<1>. SUFFICES ASSUME Init PROVE SumInv
  OBVIOUS
<1>1. Len(sum) = 0 /\ sum \in Seq(Summand)
  BY EmptySeq DEF Init
<1>2. SumTypeOK
  BY <1>1, EmptySeq DEF Init, ForEachInit, SumTypeOK, Steps
<1>. QED
  BY <1>1, <1>2 DEF Init, ForEachInit, SumInv, InAppend

\* what Put does to a sum
LEMMA PutAppends ==
  ASSUME NEW q \in Seq(Summand), NEW s \in Summand
  PROVE  /\ Put(q, Len(q) + 1, s) \in Seq(Summand)
         /\ Len(Put(q, Len(q) + 1, s)) = Len(q) + 1
         /\ \A i \in 1..Len(q) : Put(q, Len(q) + 1, s)[i] = q[i]
         /\ Put(q, Len(q) + 1, s)[Len(q) + 1] = s
<1>1. Len(q) \in Nat /\ ~(Len(q) + 1 <= Len(q))
  BY LenProperties
<1>2. Put(q, Len(q) + 1, s) = Append(q, s)
  BY <1>1 DEF Put
<1>. QED
  BY <1>2, AppendProperties

LEMMA PutAdds ==
  ASSUME NEW q \in Seq(Summand), NEW s \in Summand, NEW i \in 1..Len(q),
         IsConstant(q[i]), IsConstant(s)
  PROVE  /\ Put(q, i, s) \in Seq(Summand)
         /\ Len(Put(q, i, s)) = Len(q)
         /\ \A j \in 1..Len(q) : j # i => Put(q, i, s)[j] = q[j]
         /\ IsConstant(Put(q, i, s)[i])
<1>. DEFINE c == [q[i] EXCEPT !.value = @ + s.value]
<1>1. q[i] \in Summand /\ Len(q) \in Nat
  BY ElementOfSeq, LenProperties
<1>2. c \in Summand /\ IsConstant(c)
  BY <1>1 DEF Summand, IsConstant
<1>3. Put(q, i, s) = [q EXCEPT ![i] = c]
  BY <1>1 DEF Put, ReplaceAt
<1>. HIDE DEF c
<1>4. /\ [q EXCEPT ![i] = c] \in Seq(Summand)
      /\ Len([q EXCEPT ![i] = c]) = Len(q)
      /\ \A j \in 1..Len(q) : [q EXCEPT ![i] = c][j] = IF j = i THEN c ELSE q[j]
  BY <1>1, <1>2, ExceptSeq
<1>. QED
  BY <1>2, <1>3, <1>4

\* writing a summand at the place found for it
LEMMA WriteKeeps ==
  ASSUME LoopInv, SumInv, NEW t \in Threads, Write(t)
  PROVE  /\ sum' \in Seq(Summand) /\ constant' \in 0..Len(sum')
         /\ Len(sum) <= Len(sum')
         /\ \A i \in 1..Len(sum') : IsConstant(sum'[i]) <=> i = constant'
<1>. DEFINE s == Head(todo[t])
<1>1. /\ sum \in Seq(Summand) /\ constant \in 0..Len(sum) /\ Len(sum) \in Nat
      /\ s \in Summand /\ slot[t] = PlaceFor(s)
  <2>1. at[t] = "run" /\ step[t] = "write"
    BY DEF Write, At
  <2>2. todo[t] # <<>> /\ todo[t] \in Seq(Summand) /\ slot[t] = PlaceFor(Head(todo[t]))
    BY <2>1 DEF SumInv, SumTypeOK
  <2>3. Head(todo[t]) \in Summand
    BY <2>2, HeadTailProperties
  <2>. QED
    BY <2>2, <2>3, LenProperties DEF SumInv, SumTypeOK
<1>2. \A i \in 1..Len(sum) : IsConstant(sum[i]) <=> i = constant
  BY DEF SumInv
<1>3. /\ slot[t] = 0 => sum' = sum /\ constant' = constant
      /\ slot[t] # 0 => /\ sum' = Put(sum, slot[t], s)
                        /\ constant' = IF IsConstant(s) THEN slot[t] ELSE constant
  BY DEF Write, ConstantAfter
<1>. HIDE DEF s
<1>4. CASE slot[t] = 0
  BY <1>1, <1>2, <1>3, <1>4
<1>5. CASE IsConstant(s) /\ constant # 0
  <2>1. slot[t] = constant /\ constant \in 1..Len(sum) /\ IsConstant(sum[constant])
    BY <1>1, <1>2, <1>5 DEF PlaceFor
  <2>2. sum' = Put(sum, constant, s) /\ constant' = constant
    BY <1>3, <1>5, <2>1
  <2>3. /\ sum' \in Seq(Summand) /\ Len(sum') = Len(sum)
        /\ \A j \in 1..Len(sum) : j # constant => sum'[j] = sum[j]
        /\ IsConstant(sum'[constant])
    BY <1>1, <1>5, <2>1, <2>2, PutAdds
  <2>4. \A i \in 1..Len(sum') : IsConstant(sum'[i]) <=> i = constant'
    BY <1>2, <2>2, <2>3
  <2>. QED
    BY <1>1, <2>2, <2>3, <2>4
<1>6. CASE slot[t] # 0 /\ (IsConstant(s) => constant = 0)
  <2>1. slot[t] = Len(sum) + 1
    BY <1>1, <1>6 DEF PlaceFor
  <2>2. /\ sum' = Put(sum, Len(sum) + 1, s)
        /\ constant' = IF IsConstant(s) THEN Len(sum) + 1 ELSE constant
    BY <1>3, <1>6, <2>1
  <2>3. /\ sum' \in Seq(Summand) /\ Len(sum') = Len(sum) + 1
        /\ \A i \in 1..Len(sum) : sum'[i] = sum[i]
        /\ sum'[Len(sum) + 1] = s
    BY <1>1, <2>2, PutAppends
  <2>4. ASSUME NEW i \in 1..Len(sum')
        PROVE  IsConstant(sum'[i]) <=> i = constant'
    <3>1. CASE i = Len(sum) + 1
      BY <1>1, <2>2, <2>3, <3>1
    <3>2. CASE i # Len(sum) + 1
      <4>1. i \in 1..Len(sum) /\ sum'[i] = sum[i]
        BY <1>1, <2>3, <3>2
      <4>2. IsConstant(sum[i]) <=> i = constant
        BY <1>2, <4>1
      <4>3. IsConstant(s) => ~IsConstant(sum[i])
        BY <1>1, <1>6, <4>1, <4>2
      <4>. QED
        BY <1>1, <2>2, <3>2, <4>1, <4>2, <4>3 DEF IsConstant
    <3>. QED
      BY <3>1, <3>2
  <2>. QED
    BY <1>1, <2>2, <2>3, <2>4
<1>. QED
  BY <1>4, <1>5, <1>6

LEMMA SumStep == LoopInv /\ SumInv /\ [Next]_all => SumInv'
<1>. SUFFICES ASSUME LoopInv, SumInv, [Next]_all
              PROVE  SumInv'
  OBVIOUS
<1>0. /\ at \in [Threads -> {"unborn", "fetch", "held", "run", "over"}]
      /\ TasksInv /\ SumTypeOK
      /\ Threads \subseteq Nat
  BY DEF LoopInv, LoopTypeOK, SumInv, Threads
<1>. USE DEF body, locals, shared
<1>1. CASE StartThread
  <2>1. /\ at' = [at EXCEPT ![started] = "fetch"]
        /\ UNCHANGED <<nthreads, ntasks, outputs, step, todo, slot, sum, constant, mutex>>
    BY <1>1 DEF StartThread, Start, Go
  <2>2. Threads' = Threads /\ Tasks' = Tasks
    BY <2>1 DEF Threads, Tasks
  <2>3. \A u \in Threads : at'[u] = "run" => at[u] = "run"
    BY <1>0, <2>1
  <2>. QED
    BY <2>1, <2>2, <2>3 DEF SumInv, SumTypeOK, InAppend, PlaceFor
<1>2. ASSUME NEW t \in Threads, TakeTask(t)
      PROVE  SumInv'
  <2>1. /\ at' = [at EXCEPT ![t] = IF work < ntasks THEN "held" ELSE "over"]
        /\ UNCHANGED <<nthreads, ntasks, outputs, step, todo, slot, sum, constant, mutex>>
    BY <1>2 DEF TakeTask, Fetch, Go
  <2>2. Threads' = Threads /\ Tasks' = Tasks
    BY <2>1 DEF Threads, Tasks
  <2>3. \A u \in Threads : at'[u] = "run" => at[u] = "run"
    BY <1>0, <2>1
  <2>. QED
    BY <2>1, <2>2, <2>3 DEF SumInv, SumTypeOK, InAppend, PlaceFor
<1>3. ASSUME NEW t \in Threads, CallTask(t)
      PROVE  SumInv'
  <2>1. /\ at' = [at EXCEPT ![t] = "run"] /\ step' = [step EXCEPT ![t] = "compute"]
        /\ UNCHANGED <<nthreads, ntasks, outputs, todo, slot, sum, constant, mutex>>
    BY <1>3 DEF CallTask, Commence, Go, To
  <2>2. Threads' = Threads /\ Tasks' = Tasks
    BY <2>1 DEF Threads, Tasks
  <2>3. \A u \in Threads : u # t => at'[u] = at[u] /\ step'[u] = step[u]
    BY <1>0, <2>1 DEF SumTypeOK
  <2>4. step' \in [Threads -> Steps] /\ step'[t] = "compute"
    BY <1>0, <2>1 DEF SumTypeOK, Steps
  <2>. QED
    BY <2>1, <2>2, <2>3, <2>4 DEF SumInv, SumTypeOK, InAppend, PlaceFor
<1>4. ASSUME NEW t \in Threads, Compute(t)
      PROVE  SumInv'
  <2>1. /\ todo' = [todo EXCEPT ![t] = outputs[task[t]].summands]
        /\ step' = [step EXCEPT ![t] = "attempted"] /\ at[t] = "run"
        /\ UNCHANGED <<nthreads, ntasks, at, outputs, slot, sum, constant, mutex>>
    BY <1>4 DEF Compute, To, At, vars
  <2>2. Threads' = Threads /\ Tasks' = Tasks
    BY <2>1 DEF Threads, Tasks
  <2>3. outputs[task[t]].summands \in Seq(Summand)
    <3>1. task[t] \in Tasks
      BY <1>0, <2>1 DEF TasksInv, HasTask
    <3>2. outputs[task[t]] \in Output
      BY <1>0, <3>1, OutputsAssumption DEF SumTypeOK
    <3>. QED
      BY <3>2 DEF Output
  <2>4. todo' \in [Threads -> Seq(Summand)] /\ step' \in [Threads -> Steps]
    BY <1>0, <2>1, <2>3 DEF SumTypeOK, Steps
  <2>5. /\ step'[t] = "attempted"
        /\ \A u \in Threads : u # t => step'[u] = step[u] /\ todo'[u] = todo[u]
    BY <1>0, <2>1 DEF SumTypeOK
  <2>. QED
    BY <2>1, <2>2, <2>4, <2>5 DEF SumInv, SumTypeOK, InAppend, PlaceFor
<1>5. ASSUME NEW t \in Threads, AddAttempted(t) \/ AddUseful(t)
      PROVE  SumInv'
  <2>1. /\ step' = [step EXCEPT ![t] = "useful"] \/ step' = [step EXCEPT ![t] = "lock"]
        /\ UNCHANGED <<nthreads, ntasks, at, outputs, todo, slot, sum, constant, mutex>>
    BY <1>5 DEF AddAttempted, AddUseful, To, vars
  <2>2. Threads' = Threads /\ Tasks' = Tasks
    BY <2>1 DEF Threads, Tasks
  <2>3. /\ step' \in [Threads -> Steps] /\ step'[t] \in {"useful", "lock"}
        /\ \A u \in Threads : u # t => step'[u] = step[u]
    BY <1>0, <2>1 DEF SumTypeOK, Steps
  <2>. QED
    BY <2>1, <2>2, <2>3 DEF SumInv, SumTypeOK, InAppend, PlaceFor
<1>6. ASSUME NEW t \in Threads, Lock(t)
      PROVE  SumInv'
  <2>1. /\ step' = [step EXCEPT ![t] = "look"] /\ mutex = Free /\ mutex' = t
        /\ UNCHANGED <<nthreads, ntasks, at, outputs, todo, slot, sum, constant>>
    BY <1>6 DEF Lock, To, vars
  <2>2. Threads' = Threads /\ Tasks' = Tasks
    BY <2>1 DEF Threads, Tasks
  <2>3. \A u \in Threads : ~InAppend(u)
    BY <1>0, <2>1 DEF SumInv, Free
  <2>4. /\ step' \in [Threads -> Steps] /\ step'[t] = "look"
        /\ \A u \in Threads : u # t => step'[u] = step[u]
    BY <1>0, <2>1 DEF SumTypeOK, Steps
  <2>. QED
    BY <2>1, <2>2, <2>3, <2>4 DEF SumInv, SumTypeOK, InAppend, PlaceFor
<1>7. ASSUME NEW t \in Threads, Look(t)
      PROVE  SumInv'
  <2>1. /\ step' = [step EXCEPT ![t] = "write"]
        /\ slot' = [slot EXCEPT ![t] = PlaceFor(Head(todo[t]))]
        /\ todo[t] # <<>> /\ at[t] = "run" /\ step[t] = "look"
        /\ UNCHANGED <<nthreads, ntasks, at, outputs, todo, sum, constant, mutex>>
    BY <1>7 DEF Look, To, At, PlaceFor, vars
  <2>2. Threads' = Threads /\ Tasks' = Tasks
    BY <2>1 DEF Threads, Tasks
  <2>3. PlaceFor(Head(todo[t])) \in Nat
    BY <1>0, LenProperties DEF PlaceFor, SumTypeOK
  <2>4. /\ step' \in [Threads -> Steps] /\ step'[t] = "write"
        /\ slot' \in [Threads -> Nat] /\ slot'[t] = PlaceFor(Head(todo[t]))
        /\ \A u \in Threads : u # t => step'[u] = step[u] /\ slot'[u] = slot[u]
    BY <1>0, <2>1, <2>3 DEF SumTypeOK, Steps
  <2>5. \A x : PlaceFor(x)' = PlaceFor(x)
    BY <2>1 DEF PlaceFor
  <2>. QED
    BY <2>1, <2>2, <2>4, <2>5 DEF SumInv, SumTypeOK, InAppend
<1>8. ASSUME NEW t \in Threads, Write(t)
      PROVE  SumInv'
  <2>1. /\ todo' = [todo EXCEPT ![t] = Tail(@)]
        /\ step' = [step EXCEPT ![t] = "look"] /\ at[t] = "run" /\ step[t] = "write"
        /\ UNCHANGED <<nthreads, ntasks, at, outputs, slot, mutex>>
    BY <1>8 DEF Write, To, At, vars
  <2>2. Threads' = Threads /\ Tasks' = Tasks
    BY <2>1 DEF Threads, Tasks
  <2>3. Tail(todo[t]) \in Seq(Summand)
    <3>1. todo[t] # <<>> /\ todo[t] \in Seq(Summand)
      BY <1>0, <2>1 DEF SumInv, SumTypeOK
    <3>. QED
      BY <3>1, HeadTailProperties
  <2>4. /\ step' \in [Threads -> Steps] /\ step'[t] = "look"
        /\ todo' \in [Threads -> Seq(Summand)]
        /\ \A u \in Threads : u # t => step'[u] = step[u]
    BY <1>0, <2>1, <2>3 DEF SumTypeOK, Steps
  <2>5. mutex = t /\ \A u \in Threads : u # t => ~InAppend(u)
    BY <2>1 DEF SumInv, InAppend
  <2>6. \A u \in Threads : ~(at'[u] = "run" /\ step'[u] = "write")
    BY <2>1, <2>4, <2>5 DEF InAppend
  <2>7. \A u \in Threads : InAppend(u)' => mutex' = u
    BY <2>1, <2>4, <2>5 DEF InAppend
  <2>8. /\ sum' \in Seq(Summand) /\ constant' \in 0..Len(sum')
        /\ \A i \in 1..Len(sum') : IsConstant(sum'[i]) <=> i = constant'
    BY <1>8, WriteKeeps
  <2>9. SumTypeOK'
    BY <1>0, <2>1, <2>2, <2>4, <2>8 DEF SumTypeOK
  <2>. QED
    BY <2>1, <2>2, <2>6, <2>7, <2>8, <2>9 DEF SumInv
<1>9. ASSUME NEW t \in Threads, Unlock(t)
      PROVE  SumInv'
  <2>1. /\ at' = [at EXCEPT ![t] = "fetch"] /\ mutex' = Free
        /\ at[t] = "run" /\ step[t] = "look"
        /\ UNCHANGED <<nthreads, ntasks, outputs, step, todo, slot, sum, constant>>
    BY <1>9 DEF Unlock, End, Go, At
  <2>2. Threads' = Threads /\ Tasks' = Tasks
    BY <2>1 DEF Threads, Tasks
  <2>3. \A u \in Threads : u # t => ~InAppend(u)
    BY <2>1 DEF SumInv, InAppend
  <2>4. /\ at'[t] = "fetch" /\ \A u \in Threads : u # t => at'[u] = at[u]
    BY <1>0, <2>1
  <2>. QED
    BY <2>1, <2>2, <2>3, <2>4 DEF SumInv, SumTypeOK, InAppend
<1>10. ASSUME UNCHANGED <<nthreads, ntasks, at, outputs, step, todo, slot, sum, constant, mutex>>
       PROVE  SumInv'
  BY <1>10 DEF SumInv, SumTypeOK, InAppend, PlaceFor, Threads, Tasks
<1>. QED
  BY <1>1, <1>2, <1>3, <1>4, <1>5, <1>6, <1>7, <1>8, <1>9, <1>10
  DEF Next, Main, Thread, Over, ComputeThrows, Throw, JoinThread, ReturnSum, Join, Return,
      all, vars

LEMMA SumCorrect == Spec => [](LoopInv /\ SumInv)
<1>1. LoopInv /\ SumInv /\ [Next]_all => (LoopInv /\ SumInv)'
  BY LoopStep, SumStep
<1>. QED
  BY <1>1, LoopInit, SumInit, PTL DEF Spec

\* A sum holds one constant at most, where constant_summand_idx_ says, for any
\* number of threads and any summands: the mutex is enough for the assertion of
\* Sum::append to hold.
THEOREM ConstantIsUniqueCorrect == Spec => []ConstantIsUnique
<1>1. LoopInv /\ SumInv => ConstantIsUnique
  <2>. SUFFICES ASSUME SumInv, NEW i \in DOMAIN sum PROVE IsConstant(sum[i]) <=> i = constant
    BY DEF ConstantIsUnique
  <2>1. DOMAIN sum = 1..Len(sum)
    BY LenProperties DEF SumInv, SumTypeOK
  <2>. QED
    BY <2>1 DEF SumInv
<1>. QED
  BY <1>1, SumCorrect, PTL

-----------------------------------------------------------------------------
(***************************************************************************)
(* Types.  A thread asks for a task that is not there once, so the counter *)
(* passes the number of tasks by the number of threads that are over; and  *)
(* a sum only grows, so a place found in it stays one.                     *)
(***************************************************************************)
ThreadsOver == {t \in Threads : at[t] = "over"}

CountersInv ==
  /\ work <= ntasks + Cardinality(ThreadsOver)
  /\ nthreads <= MaxThreads /\ ntasks <= MaxTasks
  /\ \A t \in Threads : slot[t] <= Len(sum) + 1
  /\ attempted \in Nat /\ useful \in Nat

LEMMA ThreadsAreFinite ==
  ASSUME LoopInv
  PROVE  /\ IsFiniteSet(Threads) /\ Cardinality(Threads) = nthreads
         /\ IsFiniteSet(ThreadsOver)
         /\ Cardinality(ThreadsOver) \in Nat /\ Cardinality(ThreadsOver) <= nthreads
<1>1. nthreads \in Nat \ {0}
  BY DEF LoopInv, LoopTypeOK
<1>2. IsFiniteSet(Threads) /\ Cardinality(Threads) = nthreads
  BY <1>1, FS_Interval DEF Threads
<1>3. ThreadsOver \in SUBSET Threads
  BY DEF ThreadsOver
<1>4. IsFiniteSet(ThreadsOver) /\ Cardinality(ThreadsOver) <= Cardinality(Threads)
  BY <1>2, <1>3, FS_Subset
<1>. QED
  BY <1>2, <1>4, FS_CardinalityType

LEMMA CountersInit == Init => CountersInv
<1>. SUFFICES ASSUME Init PROVE CountersInv
  OBVIOUS
<1>1. LoopInv
  BY LoopInit
<1>2. Cardinality(ThreadsOver) \in Nat
  BY <1>1, ThreadsAreFinite
<1>3. Len(sum) = 0 /\ nthreads \in 1..MaxThreads /\ ntasks \in 0..MaxTasks /\ work = 0
  BY DEF Init, ForEachInit
<1>. QED
  BY <1>2, <1>3, BoundsAssumption DEF CountersInv, Init

\* the steps that end no thread leave the bound of the counter alone
LEMMA CounterStep ==
  ASSUME LoopInv, LoopInv', CountersInv, [Next]_all
  PROVE  work' <= ntasks' + Cardinality(ThreadsOver')
<1>0. /\ work \in Nat /\ ntasks \in Nat
      /\ at \in [Threads -> {"unborn", "fetch", "held", "run", "over"}]
      /\ work <= ntasks + Cardinality(ThreadsOver)
      /\ Cardinality(ThreadsOver) \in Nat /\ IsFiniteSet(ThreadsOver)
  BY ThreadsAreFinite DEF LoopInv, LoopTypeOK, CountersInv
<1>1. ASSUME NEW t \in Threads, Fetch(t)
      PROVE  work' <= ntasks' + Cardinality(ThreadsOver')
  <2>1. /\ at[t] = "fetch" /\ work' = work + 1 /\ ntasks' = ntasks /\ Threads' = Threads
        /\ at' = [at EXCEPT ![t] = IF work < ntasks THEN "held" ELSE "over"]
    BY <1>1 DEF Fetch, Go, Threads
  <2>2. CASE work < ntasks
    <3>1. ThreadsOver' = ThreadsOver
      BY <1>0, <2>1, <2>2 DEF ThreadsOver
    <3>. QED
      BY <1>0, <2>1, <2>2, <3>1
  <2>3. CASE ~(work < ntasks)
    <3>1. ThreadsOver' = ThreadsOver \cup {t} /\ t \notin ThreadsOver
      BY <1>0, <2>1, <2>3 DEF ThreadsOver
    <3>2. Cardinality(ThreadsOver \cup {t}) = Cardinality(ThreadsOver) + 1
      BY <1>0, <3>1, FS_AddElement
    <3>. QED
      BY <1>0, <2>1, <3>1, <3>2
  <2>. QED
    BY <2>2, <2>3
<1>2. ASSUME [LoopNext]_vars, \A t \in Threads : ~Fetch(t)
      PROVE  work' <= ntasks' + Cardinality(ThreadsOver')
  <2>1. work' = work /\ ntasks' = ntasks /\ Threads' = Threads
    BY <1>2 DEF LoopNext, Start, Join, Return, Commence, End, Throw, vars, Threads
  <2>2. \A t \in Threads : at'[t] = "over" <=> at[t] = "over"
    <3>1. CASE Start
      <4>1. at' = [at EXCEPT ![started] = "fetch"]
        BY <3>1 DEF Start, Go
      <4>2. started \in Threads /\ at[started] = "unborn"
        BY <3>1 DEF Start, LoopInv, LoopTypeOK, ThreadsInv, Threads
      <4>. QED
        BY <1>0, <4>1, <4>2
    <3>2. ASSUME NEW u \in Threads, Commence(u) \/ End(u)
          PROVE  \A t \in Threads : at'[t] = "over" <=> at[t] = "over"
      <4>1. /\ at[u] # "over"
            /\ at' = [at EXCEPT ![u] = "run"] \/ at' = [at EXCEPT ![u] = "fetch"]
        BY <3>2 DEF Commence, End, Go
      <4>. QED
        BY <1>0, <4>1
    <3>3. ASSUME UNCHANGED at
          PROVE  \A t \in Threads : at'[t] = "over" <=> at[t] = "over"
      BY <3>3
    <3>. QED
      BY <1>2, <3>1, <3>2, <3>3 DEF LoopNext, Throw, Join, Return, vars
  <2>3. ThreadsOver' = ThreadsOver
    BY <2>1, <2>2 DEF ThreadsOver
  <2>. QED
    BY <1>0, <2>1, <2>3
<1>. QED
  BY <1>1, <1>2, LoopSteps

LEMMA CountersStep ==
  LoopInv /\ SumInv /\ CountersInv /\ [Next]_all => CountersInv'
<1>. SUFFICES ASSUME LoopInv, SumInv, CountersInv, [Next]_all
              PROVE  CountersInv'
  OBVIOUS
<1>0. /\ TasksInv /\ SumTypeOK /\ attempted \in Nat /\ useful \in Nat
      /\ Len(sum) \in Nat
      /\ \A t \in Threads : slot[t] <= Len(sum) + 1
  BY LenProperties DEF LoopInv, SumInv, SumTypeOK, CountersInv
<1>1. work' <= ntasks' + Cardinality(ThreadsOver')
  BY LoopStep, CounterStep
<1>2. nthreads' = nthreads /\ ntasks' = ntasks /\ Threads' = Threads
  BY LoopSteps DEF LoopNext, Start, Join, Return, Fetch, Commence, End, Throw, vars, Threads
<1>3. attempted' \in Nat /\ useful' \in Nat
  <2>1. ASSUME NEW t \in Threads, AddAttempted(t) \/ AddUseful(t)
        PROVE  attempted' \in Nat /\ useful' \in Nat
    <3>1. task[t] \in Tasks
      BY <1>0, <2>1 DEF AddAttempted, AddUseful, At, TasksInv, HasTask
    <3>2. outputs[task[t]] \in Output
      BY <1>0, <3>1, OutputsAssumption DEF SumTypeOK
    <3>3. outputs[task[t]].attempted \in Nat /\ outputs[task[t]].useful \in Nat
      BY <3>2 DEF Output
    <3>. QED
      BY <1>0, <2>1, <3>3 DEF AddAttempted, AddUseful
  <2>2. ASSUME UNCHANGED <<attempted, useful>>
        PROVE  attempted' \in Nat /\ useful' \in Nat
    BY <1>0, <2>2
  <2>. QED
    BY <2>1, <2>2 DEF Next, Main, Thread, Over, StartThread, TakeTask, CallTask, JoinThread,
       ReturnSum, ComputeThrows, Compute, Lock, Look, Write, Unlock, body, shared, all
<1>4. \A t \in Threads : slot'[t] <= Len(sum') + 1
  <2>1. ASSUME NEW t \in Threads, Look(t)
        PROVE  \A u \in Threads : slot'[u] <= Len(sum') + 1
    <3>1. /\ slot' = [slot EXCEPT ![t] = PlaceFor(Head(todo[t]))]
          /\ sum' = sum
      BY <2>1 DEF Look, PlaceFor, shared
    <3>2. PlaceFor(Head(todo[t])) <= Len(sum) + 1
      BY <1>0 DEF PlaceFor, SumTypeOK
    <3>. QED
      BY <1>0, <3>1, <3>2 DEF SumTypeOK
  <2>2. ASSUME NEW t \in Threads, Write(t)
        PROVE  \A u \in Threads : slot'[u] <= Len(sum') + 1
    <3>1. Len(sum) <= Len(sum') /\ Len(sum') \in Nat
      BY <2>2, WriteKeeps, LenProperties
    <3>2. slot' = slot /\ \A u \in Threads : slot[u] \in Nat
      BY <1>0, <2>2 DEF Write, SumTypeOK
    <3>. QED
      BY <1>0, <3>1, <3>2
  <2>3. ASSUME UNCHANGED <<slot, sum>>
        PROVE  \A u \in Threads : slot'[u] <= Len(sum') + 1
    BY <1>0, <2>3
  <2>. QED
    BY <2>1, <2>2, <2>3 DEF Next, Main, Thread, Over, StartThread, TakeTask, CallTask,
       JoinThread, ReturnSum, ComputeThrows, Compute, AddAttempted, AddUseful, Lock, Unlock,
       body, locals, shared, all
<1>. QED
  BY <1>1, <1>2, <1>3, <1>4 DEF CountersInv

\* Every variable keeps its type, for any number of threads and tasks: in
\* particular the counter runs past the tasks by one for each thread at most.
THEOREM TypeCorrect == Spec => []TypeOK
<1>1. LoopInv /\ SumInv /\ CountersInv => TypeOK
  <2>. SUFFICES ASSUME LoopInv, SumInv, CountersInv PROVE TypeOK
    OBVIOUS
  <2>1. /\ work \in Nat /\ nthreads \in Nat \ {0} /\ ntasks \in Nat
        /\ work <= ntasks + Cardinality(ThreadsOver)
        /\ Cardinality(ThreadsOver) \in Nat /\ Cardinality(ThreadsOver) <= nthreads
        /\ nthreads <= MaxThreads /\ ntasks <= MaxTasks
    BY ThreadsAreFinite DEF LoopInv, LoopTypeOK, CountersInv
  <2>2. /\ work \in 0..(ntasks + nthreads)
        /\ nthreads \in 1..MaxThreads /\ ntasks \in 0..MaxTasks
    BY <2>1, BoundsAssumption
  <2>3. ForEachTypeOK
    BY <2>2 DEF ForEachTypeOK, LoopInv, LoopTypeOK
  <2>4. slot \in [Threads -> 0..(Len(sum) + 1)]
    <3>1. slot \in [Threads -> Nat] /\ \A t \in Threads : slot[t] <= Len(sum) + 1
      BY DEF SumInv, SumTypeOK, CountersInv
    <3>2. Len(sum) \in Nat
      BY LenProperties DEF SumInv, SumTypeOK
    <3>. QED
      BY <3>1, <3>2
  <2>. QED
    BY <2>3, <2>4 DEF TypeOK, SumInv, SumTypeOK, CountersInv, Steps
<1>2. LoopInv /\ SumInv /\ CountersInv /\ [Next]_all => (LoopInv /\ SumInv /\ CountersInv)'
  BY LoopStep, SumStep, CountersStep
<1>. QED
  BY <1>1, <1>2, LoopInit, SumInit, CountersInit, PTL DEF Spec

-----------------------------------------------------------------------------
(***************************************************************************)
(* The statistics.  A counter is the sum over the tasks that have added    *)
(* theirs to it: those begun that are not on their way to it.              *)
(***************************************************************************)
\* the folds of the community modules are sums
LEMMA FoldIsSum ==
  ASSUME NEW S, IsFiniteSet(S), NEW f, DOMAIN f = S
  PROVE  FoldFunction(+, 0, f) = SumOver(f, S)
<1>. DEFINE iter[s \in SUBSET S] ==
              IF s = {} THEN 0
              ELSE LET x == CHOOSE y \in s : TRUE
                   IN  f[x] + iter[s \ {x}]
<1>1. FoldFunction(+, 0, f) = iter[S]
  BY Zenon DEF FoldFunction, FoldFunctionOnSet, MapThenFoldSet
<1>2. IsSum(iter, S, f)
  <2>. DEFINE IsIter(u) == u = [s \in SUBSET S |->
                IF s = {} THEN 0
                ELSE f[CHOOSE y \in s : TRUE] + u[s \ {CHOOSE y \in s : TRUE}]]
  <2>1. \A u : IsSum(u, S, f) <=> IsIter(u)
    BY DEF IsSum
  <2>2. \E u : IsIter(u)
    <3>. HIDE DEF IsIter
    <3>. QED
      BY <2>1, SumExists
  <2>. QED
    BY <2>1, <2>2
<1>. HIDE DEF iter
<1>. QED
  BY <1>1, <1>2, SumOverIs

Before(t, places) == at[t] = "run" /\ step[t] \in places

\* the tasks begun that are past these places
Past(places) == Begun \ {task[t] : t \in {u \in Threads : Before(u, places)}}

ToAttempted == {"compute", "attempted"}
ToUseful == {"compute", "attempted", "useful"}

AttemptedOf == [k \in Tasks |-> outputs[k].attempted]
UsefulOf == [k \in Tasks |-> outputs[k].useful]

StatsInv ==
  /\ attempted = SumOver(AttemptedOf, Past(ToAttempted))
  /\ useful = SumOver(UsefulOf, Past(ToUseful))

LEMMA PastIsFinite ==
  ASSUME LoopInv, NEW P
  PROVE  /\ Past(P) \subseteq Tasks /\ IsFiniteSet(Past(P))
         /\ IsFiniteSet(Tasks) /\ Begun \subseteq Tasks
<1>1. commenced \in Seq(Tasks) /\ ntasks \in Nat
  BY DEF LoopInv, LoopTypeOK
<1>2. Begun \subseteq Tasks
  BY <1>1, ElementOfSeq, LenProperties DEF Begun
<1>3. IsFiniteSet(Tasks)
  BY <1>1, FS_Interval DEF Tasks
<1>4. Past(P) \subseteq Tasks
  BY <1>2 DEF Past
<1>. QED
  BY <1>2, <1>3, <1>4, FS_Subset

\* a thread that leaves these places has its task pass them
LEMMA PastGains ==
  ASSUME LoopInv, SumInv, NEW P, NEW t \in Threads, Before(t, P),
         ~Before(t, P)', UNCHANGED <<nthreads, task, commenced>>,
         \A u \in Threads : u # t => (Before(u, P)' <=> Before(u, P))
  PROVE  /\ Past(P)' = Past(P) \cup {task[t]}
         /\ task[t] \notin Past(P) /\ task[t] \in Tasks
<1>1. Threads' = Threads /\ Begun' = Begun
  BY DEF Threads, Begun
<1>2. /\ task[t] \in Begun /\ task[t] \in Tasks
      /\ \A u \in Threads : u # t /\ Before(u, P) => task[u] # task[t]
  BY DEF LoopInv, TasksInv, HasTask, Before
<1>3. \A u \in Threads : Before(u, P)' <=> Before(u, P) /\ u # t
  OBVIOUS
<1>. HIDE DEF Before
<1>4. \A k : k \in Past(P)' <=> k \in Begun /\ \A u \in Threads : Before(u, P) /\ u # t => k # task[u]
  BY <1>1, <1>3 DEF Past
<1>5. \A k : k \in Past(P) <=> k \in Begun /\ \A u \in Threads : Before(u, P) => k # task[u]
  BY DEF Past
<1>. QED
  BY <1>2, <1>4, <1>5

\* the steps that lead no thread past these places
LEMMA PastSame ==
  ASSUME LoopInv, SumInv, [Next]_all, NEW P, "compute" \in P, "attempted" \in P,
         "look" \in P <=> "write" \in P,
         \A t \in Threads :
            /\ AddAttempted(t) => "useful" \in P
            /\ AddUseful(t) => ("useful" \in P <=> "lock" \in P)
            /\ Lock(t) => ("lock" \in P <=> "look" \in P)
            /\ Unlock(t) => "look" \notin P
  PROVE  Past(P)' = Past(P)
<1>0. /\ at \in [Threads -> {"unborn", "fetch", "held", "run", "over"}]
      /\ step \in [Threads -> Steps] /\ task \in [Threads -> Nat]
      /\ TasksInv
  BY DEF LoopInv, LoopTypeOK, SumInv, SumTypeOK
<1>. USE DEF body, locals, shared
<1>1. ASSUME NEW t \in Threads, CallTask(t)
      PROVE  Past(P)' = Past(P)
  <2>1. /\ at[t] = "held" /\ at' = [at EXCEPT ![t] = "run"]
        /\ step' = [step EXCEPT ![t] = "compute"]
        /\ UNCHANGED <<nthreads, task>>
    BY <1>1 DEF CallTask, Commence, Go, To
  <2>2. Begun' = Begun \cup {task[t]} /\ task[t] \notin Begun /\ Threads' = Threads
    BY <1>0, <1>1, <2>1, CommenceBegins DEF CallTask, TasksInv, Threads
  <2>3. /\ Before(t, P)' /\ ~Before(t, P)
        /\ \A u \in Threads : u # t => (Before(u, P)' <=> Before(u, P))
    BY <1>0, <2>1 DEF Before
  <2>. QED
    BY <2>1, <2>2, <2>3 DEF Past
<1>2. ASSUME UNCHANGED <<nthreads, commenced>>,
             \A u \in Threads : Before(u, P)' <=> Before(u, P),
             \A u \in Threads : Before(u, P) => task'[u] = task[u]
      PROVE  Past(P)' = Past(P)
  <2>1. Begun' = Begun /\ Threads' = Threads
    BY <1>2 DEF Begun, Threads
  <2>. QED
    BY <1>2, <2>1 DEF Past
<1>3. ASSUME NEW t \in Threads, TakeTask(t)
      PROVE  Past(P)' = Past(P)
  <2>1. /\ at[t] = "fetch" /\ at'= [at EXCEPT ![t] = IF work < ntasks THEN "held" ELSE "over"]
        /\ task' = [task EXCEPT ![t] = work]
        /\ UNCHANGED <<nthreads, commenced, step>>
    BY <1>3 DEF TakeTask, Fetch, Go
  <2>. QED
    BY <1>0, <1>2, <2>1 DEF Before
<1>4. CASE StartThread
  <2>1. /\ at' = [at EXCEPT ![started] = "fetch"] /\ started \in Threads
        /\ at[started] = "unborn"
        /\ UNCHANGED <<nthreads, commenced, step, task>>
    BY <1>4 DEF StartThread, Start, Go, LoopInv, LoopTypeOK, ThreadsInv, Threads
  <2>. QED
    BY <1>0, <1>2, <2>1 DEF Before
<1>5. ASSUME NEW t \in Threads,
             \/ Compute(t) \/ AddAttempted(t) \/ AddUseful(t)
             \/ Lock(t) \/ Look(t) \/ Write(t) \/ Unlock(t)
      PROVE  Past(P)' = Past(P)
  <2>1. \A p : To(t, p) => \A u \in Threads : step'[u] = IF u = t THEN p ELSE step[u]
    BY <1>0 DEF To
  <2>2. UNCHANGED <<nthreads, commenced, task>>
    BY <1>5 DEF Compute, AddAttempted, AddUseful, Lock, Look, Write, Unlock, End, vars
  <2>3. CASE Unlock(t)
    <3>1. at[t] = "run" /\ step[t] = "look" /\ at' = [at EXCEPT ![t] = "fetch"] /\ step' = step
      BY <2>3 DEF Unlock, End, Go, At
    <3>2. "look" \notin P
      BY <2>3
    <3>3. \A u \in Threads : Before(u, P)' <=> Before(u, P)
      BY <1>0, <3>1, <3>2 DEF Before
    <3>. QED
      BY <1>2, <2>2, <3>3
  <2>4. CASE ~Unlock(t)
    <3>1. at' = at /\ at[t] = "run"
      BY <1>5, <2>4 DEF Compute, AddAttempted, AddUseful, Lock, Look, Write, At, vars
    <3>2. \A u \in Threads : u # t => step'[u] = step[u]
      BY <1>5, <2>1, <2>4 DEF Compute, AddAttempted, AddUseful, Lock, Look, Write
    <3>3. step'[t] \in P <=> step[t] \in P
      BY <1>5, <2>1, <2>4 DEF Compute, AddAttempted, AddUseful, Lock, Look, Write, At
    <3>. QED
      BY <1>2, <2>2, <3>1, <3>2, <3>3 DEF Before
  <2>. QED
    BY <2>3, <2>4
<1>6. ASSUME UNCHANGED <<nthreads, commenced, at, step, task>>
      PROVE  Past(P)' = Past(P)
  BY <1>2, <1>6 DEF Before
<1>. QED
  BY <1>1, <1>3, <1>4, <1>5, <1>6
  DEF Next, Main, Thread, Over, ComputeThrows, Throw, JoinThread, ReturnSum, Join, Return,
      all, vars

LEMMA StatsInit == Init => StatsInv
<1>. SUFFICES ASSUME Init PROVE StatsInv
  OBVIOUS
<1>1. Begun = {}
  BY EmptySeq DEF Init, ForEachInit, Begun
<1>2. Past(ToAttempted) = {} /\ Past(ToUseful) = {}
  BY <1>1 DEF Past
<1>3. SumOver(AttemptedOf, {}) = 0 /\ SumOver(UsefulOf, {}) = 0
  BY FS_EmptySet, SumOverRemove
<1>. QED
  BY <1>2, <1>3 DEF Init, StatsInv

LEMMA StatsStep == LoopInv /\ SumInv /\ StatsInv /\ [Next]_all => StatsInv'
<1>. SUFFICES ASSUME LoopInv, SumInv, StatsInv, [Next]_all
              PROVE  StatsInv'
  OBVIOUS
<1>1. outputs' = outputs /\ Tasks' = Tasks
  BY DEF Next, Main, Thread, Over, StartThread, TakeTask, CallTask, JoinThread, ReturnSum,
     ComputeThrows, Compute, AddAttempted, AddUseful, Lock, Look, Write, Unlock,
     Start, Fetch, Commence, Join, Return, Throw, End, all, vars, body, Tasks
<1>2. AttemptedOf' = AttemptedOf /\ UsefulOf' = UsefulOf
  BY <1>1 DEF AttemptedOf, UsefulOf
<1>3. \A k \in Tasks : AttemptedOf[k] \in Int /\ UsefulOf[k] \in Int
  <2>1. \A k \in Tasks : outputs[k] \in Output
    BY OutputsAssumption DEF SumInv, SumTypeOK
  <2>. QED
    BY <2>1 DEF AttemptedOf, UsefulOf, Output
<1>. HIDE DEF AttemptedOf, UsefulOf
<1>4. ASSUME NEW t \in Threads, AddAttempted(t)
      PROVE  /\ Past(ToAttempted)' = Past(ToAttempted) \cup {task[t]}
             /\ task[t] \notin Past(ToAttempted) /\ task[t] \in Tasks
             /\ attempted' = attempted + outputs[task[t]].attempted /\ useful' = useful
  <2>1. /\ at[t] = "run" /\ step[t] = "attempted" /\ step' = [step EXCEPT ![t] = "useful"]
        /\ step \in [Threads -> Steps]
        /\ UNCHANGED <<nthreads, at, task, commenced>>
    BY <1>4 DEF AddAttempted, At, To, vars, SumInv, SumTypeOK
  <2>2. /\ Before(t, ToAttempted) /\ ~Before(t, ToAttempted)'
        /\ \A u \in Threads : u # t => (Before(u, ToAttempted)' <=> Before(u, ToAttempted))
    BY <2>1 DEF Before, ToAttempted
  <2>3. attempted' = attempted + outputs[task[t]].attempted /\ useful' = useful
    BY <1>4 DEF AddAttempted
  <2>. QED
    BY <2>1, <2>2, <2>3, PastGains
<1>5. ASSUME NEW t \in Threads, AddUseful(t)
      PROVE  /\ Past(ToUseful)' = Past(ToUseful) \cup {task[t]}
             /\ task[t] \notin Past(ToUseful) /\ task[t] \in Tasks
             /\ useful' = useful + outputs[task[t]].useful /\ attempted' = attempted
  <2>1. /\ at[t] = "run" /\ step[t] = "useful" /\ step' = [step EXCEPT ![t] = "lock"]
        /\ step \in [Threads -> Steps]
        /\ UNCHANGED <<nthreads, at, task, commenced>>
    BY <1>5 DEF AddUseful, At, To, vars, SumInv, SumTypeOK
  <2>2. /\ Before(t, ToUseful) /\ ~Before(t, ToUseful)'
        /\ \A u \in Threads : u # t => (Before(u, ToUseful)' <=> Before(u, ToUseful))
    BY <2>1 DEF Before, ToUseful
  <2>3. useful' = useful + outputs[task[t]].useful /\ attempted' = attempted
    BY <1>5 DEF AddUseful
  <2>. QED
    BY <2>1, <2>2, <2>3, PastGains
<1>6. (\A t \in Threads : ~AddAttempted(t)) =>
        Past(ToAttempted)' = Past(ToAttempted) /\ attempted' = attempted
  <2>. SUFFICES ASSUME \A t \in Threads : ~AddAttempted(t)
                PROVE  Past(ToAttempted)' = Past(ToAttempted) /\ attempted' = attempted
    OBVIOUS
  <2>1. Past(ToAttempted)' = Past(ToAttempted)
    BY PastSame DEF ToAttempted
  <2>2. attempted' = attempted
    BY DEF Next, Main, Thread, Over, StartThread, TakeTask, CallTask, JoinThread, ReturnSum,
       ComputeThrows, Compute, AddUseful, Lock, Look, Write, Unlock, all, body, shared
  <2>. QED
    BY <2>1, <2>2
<1>7. (\A t \in Threads : ~AddUseful(t)) =>
        Past(ToUseful)' = Past(ToUseful) /\ useful' = useful
  <2>. SUFFICES ASSUME \A t \in Threads : ~AddUseful(t)
                PROVE  Past(ToUseful)' = Past(ToUseful) /\ useful' = useful
    OBVIOUS
  <2>1. Past(ToUseful)' = Past(ToUseful)
    BY PastSame DEF ToUseful
  <2>2. useful' = useful
    BY DEF Next, Main, Thread, Over, StartThread, TakeTask, CallTask, JoinThread, ReturnSum,
       ComputeThrows, Compute, AddAttempted, Lock, Look, Write, Unlock, all, body, shared
  <2>. QED
    BY <2>1, <2>2
<1>8. attempted' = SumOver(AttemptedOf, Past(ToAttempted)')
  <2>1. ASSUME NEW t \in Threads, AddAttempted(t)
        PROVE  attempted' = SumOver(AttemptedOf, Past(ToAttempted)')
    <3>1. /\ IsFiniteSet(Past(ToAttempted)) /\ task[t] \notin Past(ToAttempted)
          /\ AttemptedOf[task[t]] \in Int /\ \A k \in Past(ToAttempted) : AttemptedOf[k] \in Int
      BY <1>3, <1>4, <2>1, PastIsFinite
    <3>2. SumOver(AttemptedOf, Past(ToAttempted) \cup {task[t]})
            = SumOver(AttemptedOf, Past(ToAttempted)) + AttemptedOf[task[t]]
      BY <3>1, SumOverAdd
    <3>3. AttemptedOf[task[t]] = outputs[task[t]].attempted
      BY <1>4, <2>1 DEF AttemptedOf
    <3>. QED
      BY <1>4, <2>1, <3>2, <3>3 DEF StatsInv
  <2>2. CASE \A t \in Threads : ~AddAttempted(t)
    BY <1>6, <2>2 DEF StatsInv
  <2>. QED
    BY <2>1, <2>2
<1>9. useful' = SumOver(UsefulOf, Past(ToUseful)')
  <2>1. ASSUME NEW t \in Threads, AddUseful(t)
        PROVE  useful' = SumOver(UsefulOf, Past(ToUseful)')
    <3>1. /\ IsFiniteSet(Past(ToUseful)) /\ task[t] \notin Past(ToUseful)
          /\ UsefulOf[task[t]] \in Int /\ \A k \in Past(ToUseful) : UsefulOf[k] \in Int
      BY <1>3, <1>5, <2>1, PastIsFinite
    <3>2. SumOver(UsefulOf, Past(ToUseful) \cup {task[t]})
            = SumOver(UsefulOf, Past(ToUseful)) + UsefulOf[task[t]]
      BY <3>1, SumOverAdd
    <3>3. UsefulOf[task[t]] = outputs[task[t]].useful
      BY <1>5, <2>1 DEF UsefulOf
    <3>. QED
      BY <1>5, <2>1, <3>2, <3>3 DEF StatsInv
  <2>2. CASE \A t \in Threads : ~AddUseful(t)
    BY <1>7, <2>2 DEF StatsInv
  <2>. QED
    BY <2>1, <2>2
<1>. QED
  BY <1>2, <1>8, <1>9 DEF StatsInv

\* when compute() returns all tasks are past all places
LEMMA AllArePast ==
  ASSUME LoopInv, outcome = "returned", NEW P
  PROVE  Past(P) = Tasks /\ Ended = Tasks
<1>1. /\ \A t \in Threads : at[t] = "over" /\ work >= ntasks
      /\ nthreads \in Nat \ {0} /\ ntasks \in Nat /\ work \in Nat
  BY DEF LoopInv, ThreadsInv, LoopTypeOK
<1>2. 0 \in Threads
  BY <1>1 DEF Threads
<1>3. \A k \in Tasks : k < work
  BY <1>1, <1>2 DEF Tasks
<1>4. Begun = Tasks
  BY <1>1, <1>3, PastIsFinite DEF LoopInv, TasksInv
<1>. QED
  BY <1>1, <1>4 DEF Past, Ended, Before

LEMMA StatsCorrect == Spec => []StatsInv
<1>1. LoopInv /\ SumInv /\ StatsInv /\ [Next]_all => StatsInv'
  BY StatsStep
<1>. QED
  BY <1>1, StatsInit, SumCorrect, PTL DEF Spec

\* For any number of threads and any outcomes of the tasks the statistics are
\* the sums over all tasks when compute() returns, though each thread adds to
\* two atomic counters, one after the other and outside the mutex.
THEOREM StatsAreTotalsCorrect == Spec => []StatsAreTotals
<1>1. LoopInv /\ StatsInv => StatsAreTotals
  <2>. SUFFICES ASSUME LoopInv, StatsInv, outcome = "returned"
                PROVE  /\ attempted = Total(LAMBDA o : o.attempted)
                       /\ useful = Total(LAMBDA o : o.useful)
    BY DEF StatsAreTotals
  <2>1. IsFiniteSet(Tasks) /\ Past(ToAttempted) = Tasks /\ Past(ToUseful) = Tasks
    BY PastIsFinite, AllArePast
  <2>2. DOMAIN AttemptedOf = Tasks /\ DOMAIN UsefulOf = Tasks
    BY DEF AttemptedOf, UsefulOf
  <2>3. /\ Total(LAMBDA o : o.attempted) = FoldFunction(+, 0, AttemptedOf)
        /\ Total(LAMBDA o : o.useful) = FoldFunction(+, 0, UsefulOf)
    BY DEF Total, AttemptedOf, UsefulOf
  <2>4. /\ FoldFunction(+, 0, AttemptedOf) = SumOver(AttemptedOf, Tasks)
        /\ FoldFunction(+, 0, UsefulOf) = SumOver(UsefulOf, Tasks)
    BY <2>1, <2>2, FoldIsSum
  <2>. QED
    BY <2>1, <2>3, <2>4 DEF StatsInv
<1>. QED
  BY <1>1, SumCorrect, StatsCorrect, PTL

-----------------------------------------------------------------------------
(***************************************************************************)
(* The sum.  A weight of summands under which constants add up gives a     *)
(* weight to every sequence of summands; the value of the constants is one *)
(* such weight, and for any other summand so is how often it occurs.  All  *)
(* of them are proved to be right together.                                *)
(***************************************************************************)
Additive(w) ==
  /\ w \in [Summand -> Int]
  /\ \A x, y \in Summand : IsConstant(x) /\ IsConstant(y) =>
       w[[x EXCEPT !.value = @ + y.value]] = w[x] + w[y]
  /\ \A x \in Summand : IsConstant(x) /\ x.value = 0 => w[x] = 0

WeightsIn(w, q) == [i \in DOMAIN q |-> w[q[i]]]

WeightOf(w, q) == SumOver(WeightsIn(w, q), DOMAIN q)

LEMMA WeightsAre ==
  ASSUME NEW w \in [Summand -> Int], NEW q \in Seq(Summand), NEW n, n = Len(q)
  PROVE  /\ n \in Nat /\ DOMAIN q = 1..n /\ IsFiniteSet(1..n)
         /\ \A i \in 1..n : WeightsIn(w, q)[i] = w[q[i]] /\ WeightsIn(w, q)[i] \in Int
         /\ WeightOf(w, q) = SumOver(WeightsIn(w, q), 1..n)
         /\ WeightOf(w, q) \in Int
<1>1. DOMAIN q = 1..n /\ n \in Nat
  BY LenProperties
<1>2. IsFiniteSet(1..n)
  BY <1>1, FS_Interval
<1>3. \A i \in 1..n : WeightsIn(w, q)[i] = w[q[i]] /\ WeightsIn(w, q)[i] \in Int
  <2>1. \A i \in 1..n : q[i] \in Summand
    BY ElementOfSeq
  <2>. QED
    BY <1>1, <2>1 DEF WeightsIn
<1>4. WeightOf(w, q) = SumOver(WeightsIn(w, q), 1..n)
  BY <1>1 DEF WeightOf
<1>5. SumOver(WeightsIn(w, q), 1..n) \in Int
  BY <1>2, <1>3, SumOverRemove
<1>. QED
  BY <1>1, <1>2, <1>3, <1>4, <1>5

LEMMA WeightEmpty ==
  ASSUME NEW w
  PROVE  WeightOf(w, <<>>) = 0
<1>1. DOMAIN <<>> = {}
  OBVIOUS
<1>2. \A f : SumOver(f, {}) = 0
  BY FS_EmptySet, SumOverRemove
<1>. QED
  BY <1>1, <1>2 DEF WeightOf

LEMMA WeightAppend ==
  ASSUME NEW w \in [Summand -> Int], NEW q \in Seq(Summand), NEW s \in Summand
  PROVE  WeightOf(w, Append(q, s)) = WeightOf(w, q) + w[s]
<1>1. PICK n, r, f, g : n = Len(q) /\ r = Append(q, s) /\ f = WeightsIn(w, r) /\ g = WeightsIn(w, q)
  OBVIOUS
<1>2. /\ r \in Seq(Summand) /\ Len(r) = n + 1 /\ n \in Nat
      /\ r[n + 1] = s /\ \A i \in 1..n : r[i] = q[i]
  BY <1>1, AppendProperties, LenProperties
<1>3. /\ \A i \in 1..(n + 1) : f[i] = w[r[i]] /\ f[i] \in Int
      /\ WeightOf(w, r) = SumOver(f, 1..(n + 1))
  <2>1. PICK m : m = n + 1
    OBVIOUS
  <2>2. r \in Seq(Summand) /\ m = Len(r)
    BY <1>2, <2>1
  <2>3. /\ \A i \in 1..m : WeightsIn(w, r)[i] = w[r[i]] /\ WeightsIn(w, r)[i] \in Int
        /\ WeightOf(w, r) = SumOver(WeightsIn(w, r), 1..m)
    BY <2>2, WeightsAre
  <2>. QED
    BY <1>1, <2>1, <2>3
<1>4. /\ IsFiniteSet(1..n) /\ \A i \in 1..n : g[i] = w[q[i]]
      /\ WeightOf(w, q) = SumOver(g, 1..n)
  BY <1>1, WeightsAre
<1>5. SumOver(f, 1..(n + 1)) = SumOver(f, 1..n) + f[n + 1]
  BY <1>2, <1>3, SumOverInterval
<1>6. SumOver(f, 1..n) = SumOver(g, 1..n)
  <2>1. \A i \in 1..n : f[i] = g[i]
    <3>. TAKE i \in 1..n
    <3>1. i \in 1..(n + 1)
      BY <1>2
    <3>2. f[i] = w[r[i]] /\ g[i] = w[q[i]]
      BY <1>3, <1>4, <3>1
    <3>3. r[i] = q[i]
      BY <1>2
    <3>. QED
      BY <3>2, <3>3
  <2>. QED
    BY <1>4, <2>1, SumOverSame
<1>7. f[n + 1] = w[s]
  BY <1>2, <1>3
<1>. QED
  BY <1>1, <1>3, <1>4, <1>5, <1>6, <1>7

LEMMA WeightReplace ==
  ASSUME NEW w \in [Summand -> Int], NEW q \in Seq(Summand), NEW j \in 1..Len(q),
         NEW c \in Summand
  PROVE  WeightOf(w, [q EXCEPT ![j] = c]) = (WeightOf(w, q) - w[q[j]]) + w[c]
<1>1. PICK n, r, f, g :
        /\ n = Len(q) /\ r = [q EXCEPT ![j] = c]
        /\ f = WeightsIn(w, q) /\ g = WeightsIn(w, r)
  OBVIOUS
<1>2. r \in Seq(Summand) /\ Len(r) = n /\ \A i \in 1..n : r[i] = IF i = j THEN c ELSE q[i]
  BY <1>1, ExceptSeq
<1>3. /\ IsFiniteSet(1..n) /\ WeightOf(w, q) = SumOver(f, 1..n)
      /\ \A i \in 1..n : f[i] = w[q[i]] /\ f[i] \in Int
  BY <1>1, WeightsAre
<1>4. /\ WeightOf(w, r) = SumOver(g, 1..n)
      /\ \A i \in 1..n : g[i] = w[r[i]] /\ g[i] \in Int
  BY <1>1, <1>2, WeightsAre
<1>5. j \in 1..n /\ f[j] = w[q[j]] /\ g[j] = w[c] /\ \A i \in 1..n : i # j => g[i] = f[i]
  <2>1. j \in 1..n
    BY <1>1
  <2>2. r[j] = c /\ \A i \in 1..n : i # j => r[i] = q[i]
    BY <1>2, <2>1
  <2>. QED
    BY <1>3, <1>4, <2>1, <2>2
<1>6. SumOver(g, 1..n) = (SumOver(f, 1..n) - f[j]) + g[j]
  <2>1. PICK S : S = 1..n
    OBVIOUS
  <2>2. /\ IsFiniteSet(S) /\ j \in S /\ \A i \in S : f[i] \in Int /\ g[i] \in Int
        /\ \A i \in S : i # j => g[i] = f[i]
    BY <1>3, <1>4, <1>5, <2>1
  <2>3. SumOver(g, S) = (SumOver(f, S) - f[j]) + g[j]
    BY <2>2, SumOverChange
  <2>. QED
    BY <2>1, <2>3
<1>. QED
  BY <1>1, <1>3, <1>4, <1>5, <1>6

LEMMA WeightHeadTail ==
  ASSUME NEW w \in [Summand -> Int], NEW q \in Seq(Summand), q # <<>>
  PROVE  WeightOf(w, q) = w[Head(q)] + WeightOf(w, Tail(q))
<1>1. PICK n, r, f, g :
        /\ n = Len(q) - 1 /\ r = Tail(q)
        /\ f = WeightsIn(w, q) /\ g = WeightsIn(w, r)
  OBVIOUS
<1>2. /\ n \in Nat /\ Len(q) = n + 1 /\ r \in Seq(Summand) /\ Len(r) = n
      /\ \A i \in 1..n : r[i] = q[i + 1]
      /\ Head(q) = q[1]
  BY <1>1, HeadTailProperties, LenProperties, EmptySeq
<1>3. /\ \A i \in 1..(n + 1) : f[i] = w[q[i]] /\ f[i] \in Int
      /\ WeightOf(w, q) = SumOver(f, 1..(n + 1))
  <2>1. n + 1 = Len(q) /\ f = WeightsIn(w, q)
    BY <1>1, <1>2
  <2>. QED
    BY <2>1, WeightsAre
<1>4. /\ \A i \in 1..n : g[i] = w[r[i]]
      /\ WeightOf(w, r) = SumOver(g, 1..n)
  BY <1>1, <1>2, WeightsAre
<1>5. f[1] = w[Head(q)] /\ \A i \in 1..n : g[i] = f[i + 1]
  BY <1>2, <1>3, <1>4
<1>6. SumOver(f, 1..(n + 1)) = f[1] + SumOver(g, 1..n)
  BY <1>2, <1>3, <1>5, SumOverShift
<1>. QED
  BY <1>1, <1>3, <1>4, <1>5, <1>6

(***************************************************************************)
(* Written is the sum of what the tasks that ended gave; while a thread is *)
(* appending, what it has yet to append completes its own task.            *)
(***************************************************************************)
AddedOf(w) == [k \in Tasks |-> WeightOf(w, outputs[k].summands)]

AppendInv ==
  /\ mutex # Free => InAppend(mutex)
  /\ \A t \in Threads : Before(t, {"attempted", "useful", "lock"}) =>
       todo[t] = outputs[task[t]].summands
  /\ \A w : Additive(w) =>
       IF mutex = Free
       THEN WeightOf(w, sum) = SumOver(AddedOf(w), Ended)
       ELSE WeightOf(w, sum) + WeightOf(w, todo[mutex])
              = SumOver(AddedOf(w), Ended \cup {task[mutex]})

\* a summand adds its weight to the sum, also one that is merged or left out
LEMMA WriteAdds ==
  ASSUME LoopInv, SumInv, NEW t \in Threads, Write(t), NEW w, Additive(w)
  PROVE  WeightOf(w, sum') = WeightOf(w, sum) + w[Head(todo[t])]
<1>1. PICK s : s = Head(todo[t])
  OBVIOUS
<1>2. /\ sum \in Seq(Summand) /\ constant \in 0..Len(sum) /\ Len(sum) \in Nat
      /\ s \in Summand /\ slot[t] = PlaceFor(s)
  <2>1. at[t] = "run" /\ step[t] = "write"
    BY DEF Write, At
  <2>2. todo[t] # <<>> /\ todo[t] \in Seq(Summand) /\ slot[t] = PlaceFor(Head(todo[t]))
    BY <2>1 DEF SumInv, SumTypeOK
  <2>3. Head(todo[t]) \in Summand
    BY <2>2, HeadTailProperties
  <2>. QED
    BY <1>1, <2>2, <2>3, LenProperties DEF SumInv, SumTypeOK
<1>3. \A i \in 1..Len(sum) : IsConstant(sum[i]) <=> i = constant
  BY DEF SumInv
<1>4. /\ slot[t] = 0 => sum' = sum
      /\ slot[t] # 0 => sum' = Put(sum, slot[t], s)
  BY <1>1 DEF Write
<1>5. w \in [Summand -> Int] /\ w[s] \in Int /\ WeightOf(w, sum) \in Int
  BY <1>2, WeightsAre DEF Additive
<1>6. CASE slot[t] = 0
  <2>1. IsConstant(s) /\ s.value = 0
    BY <1>2, <1>6 DEF PlaceFor
  <2>2. w[s] = 0
    BY <1>2, <2>1 DEF Additive
  <2>. QED
    BY <1>1, <1>4, <1>5, <1>6, <2>2
<1>7. CASE IsConstant(s) /\ constant # 0
  <2>1. slot[t] = constant /\ constant \in 1..Len(sum) /\ IsConstant(sum[constant])
    BY <1>2, <1>3, <1>7 DEF PlaceFor
  <2>2. sum[constant] \in Summand
    BY <1>2, <2>1, ElementOfSeq
  <2>3. PICK c : c = [sum[constant] EXCEPT !.value = @ + s.value]
    OBVIOUS
  <2>4. c \in Summand
    BY <1>2, <2>2, <2>3 DEF Summand
  <2>5. sum' = [sum EXCEPT ![constant] = c]
    BY <1>4, <1>7, <2>1, <2>3 DEF Put, ReplaceAt
  <2>6. WeightOf(w, sum') = (WeightOf(w, sum) - w[sum[constant]]) + w[c]
    BY <1>2, <1>5, <2>1, <2>4, <2>5, WeightReplace
  <2>7. w[c] = w[sum[constant]] + w[s] /\ w[sum[constant]] \in Int
    BY <1>2, <1>5, <1>7, <2>1, <2>2, <2>3 DEF Additive
  <2>. QED
    BY <1>1, <1>5, <2>6, <2>7
<1>8. CASE slot[t] # 0 /\ (IsConstant(s) => constant = 0)
  <2>1. slot[t] = Len(sum) + 1
    BY <1>2, <1>8 DEF PlaceFor
  <2>2. sum' = Append(sum, s)
    BY <1>2, <1>4, <1>8, <2>1 DEF Put
  <2>. QED
    BY <1>1, <1>2, <1>5, <2>2, WeightAppend
<1>. QED
  BY <1>6, <1>7, <1>8

LEMMA EndedIsPast ==
  ASSUME SumInv
  PROVE  Ended = Past(Steps)
BY DEF Ended, Past, Before, SumInv, SumTypeOK

LEMMA AppendInit == Init => AppendInv
<1>. SUFFICES ASSUME Init PROVE AppendInv
  OBVIOUS
<1>1. Begun = {} /\ mutex = Free /\ sum = <<>> /\ \A t \in Threads : at[t] = "unborn"
  BY EmptySeq DEF Init, ForEachInit, Begun
<1>2. Ended = {}
  BY <1>1 DEF Ended
<1>3. ASSUME NEW w
      PROVE  WeightOf(w, sum) = SumOver(AddedOf(w), Ended)
  <2>1. SumOver(AddedOf(w), {}) = 0
    BY FS_EmptySet, SumOverRemove
  <2>. QED
    BY <1>1, <1>2, <2>1, WeightEmpty
<1>. QED
  BY <1>1, <1>3 DEF AppendInv, Before

LEMMA AddedAreWeights ==
  ASSUME SumInv, NEW w, Additive(w), NEW k \in Tasks
  PROVE  /\ outputs[k].summands \in Seq(Summand)
         /\ AddedOf(w)[k] = WeightOf(w, outputs[k].summands)
         /\ AddedOf(w)[k] \in Int
<1>1. outputs[k] \in Output
  BY OutputsAssumption DEF SumInv, SumTypeOK
<1>2. outputs[k].summands \in Seq(Summand)
  BY <1>1 DEF Output
<1>3. WeightOf(w, outputs[k].summands) \in Int
  BY <1>2, WeightsAre DEF Additive
<1>. QED
  BY <1>2, <1>3 DEF AddedOf

LEMMA AppendStep == LoopInv /\ SumInv /\ AppendInv /\ [Next]_all => AppendInv'
<1>. SUFFICES ASSUME LoopInv, SumInv, AppendInv, [Next]_all
              PROVE  AppendInv'
  OBVIOUS
<1>0. /\ at \in [Threads -> {"unborn", "fetch", "held", "run", "over"}]
      /\ step \in [Threads -> Steps] /\ task \in [Threads -> Nat]
      /\ todo \in [Threads -> Seq(Summand)] /\ sum \in Seq(Summand)
      /\ mutex \in {Free} \cup Threads /\ Free \notin Threads
      /\ TasksInv /\ SumInv'
  <2>1. /\ at \in [Threads -> {"unborn", "fetch", "held", "run", "over"}]
        /\ task \in [Threads -> Nat] /\ TasksInv
    BY DEF LoopInv, LoopTypeOK
  <2>2. /\ step \in [Threads -> Steps] /\ todo \in [Threads -> Seq(Summand)]
        /\ sum \in Seq(Summand) /\ mutex \in {Free} \cup Threads
    BY DEF SumInv, SumTypeOK
  <2>3. Free \notin Threads
    BY DEF Threads, Free
  <2>4. SumInv'
    BY SumStep
  <2>. QED
    BY <2>1, <2>2, <2>3, <2>4
<1>1. outputs' = outputs /\ Tasks' = Tasks /\ Threads' = Threads
  BY DEF Next, Main, Thread, Over, StartThread, TakeTask, CallTask, JoinThread, ReturnSum,
     ComputeThrows, Compute, AddAttempted, AddUseful, Lock, Look, Write, Unlock,
     Start, Fetch, Commence, Join, Return, Throw, End, all, vars, body, Tasks, Threads
<1>2. \A w : AddedOf(w)' = AddedOf(w)
  BY <1>1 DEF AddedOf
<1>3. /\ Ended = Past(Steps) /\ Ended' = Past(Steps)'
      /\ (\A t \in Threads : ~Unlock(t)) => Ended' = Ended
  <2>1. (\A t \in Threads : ~Unlock(t)) => Past(Steps)' = Past(Steps)
    BY PastSame DEF Steps
  <2>2. Ended' = Past(Steps)'
    BY <1>0 DEF Ended, Past, Before, SumInv, SumTypeOK
  <2>. QED
    BY <2>1, <2>2, EndedIsPast
<1>. USE DEF body, locals, shared
\* the steps that are not taken under the mutex
<1>4. ASSUME UNCHANGED <<sum, mutex>>, Ended' = Ended,
             mutex # Free => /\ InAppend(mutex)' /\ todo'[mutex] = todo[mutex]
                             /\ task'[mutex] = task[mutex],
             \A t \in Threads : Before(t, {"attempted", "useful", "lock"})' =>
               todo'[t] = outputs[task'[t]].summands
      PROVE  AppendInv'
  BY <1>1, <1>2, <1>4 DEF AppendInv
<1>5. CASE StartThread
  <2>1. /\ at' = [at EXCEPT ![started] = "fetch"] /\ started \in Threads
        /\ at[started] = "unborn" /\ UNCHANGED <<step, task, todo, sum, mutex>>
    BY <1>5 DEF StartThread, Start, Go, LoopInv, LoopTypeOK, ThreadsInv, Threads
  <2>2. Ended' = Ended
    <3>1. \A u \in Threads : Unlock(u) => started' = started
      BY DEF Unlock, End
    <3>2. started' # started
      BY <1>5 DEF StartThread, Start, LoopInv, LoopTypeOK
    <3>. QED
      BY <1>3, <3>1, <3>2
  <2>. QED
    BY <1>0, <1>4, <2>1, <2>2 DEF AppendInv, InAppend, Before
<1>6. ASSUME NEW t \in Threads, TakeTask(t)
      PROVE  AppendInv'
  <2>1. /\ at' = [at EXCEPT ![t] = IF work < ntasks THEN "held" ELSE "over"]
        /\ task' = [task EXCEPT ![t] = work]
        /\ at[t] = "fetch" /\ UNCHANGED <<step, todo, sum, mutex>>
    BY <1>6 DEF TakeTask, Fetch, Go
  <2>2. mutex' = mutex /\ \A u \in Threads : ~Unlock(u)
    <3>1. \A u \in Threads : Unlock(u) => work' = work
      BY DEF Unlock, End
    <3>. QED
      BY <1>6, <2>1, <3>1 DEF TakeTask, Fetch, LoopInv, LoopTypeOK
  <2>. QED
    BY <1>0, <1>3, <1>4, <2>1, <2>2 DEF AppendInv, InAppend, Before
<1>7. ASSUME NEW t \in Threads, CallTask(t)
      PROVE  AppendInv'
  <2>1. /\ at' = [at EXCEPT ![t] = "run"] /\ step' = [step EXCEPT ![t] = "compute"]
        /\ at[t] = "held" /\ UNCHANGED <<task, todo, sum, mutex>>
    BY <1>7 DEF CallTask, Commence, Go, To
  <2>2. \A u \in Threads : ~Unlock(u)
    <3>1. \A u \in Threads : Unlock(u) => at'[u] = "fetch" /\ at[u] = "run"
      BY <1>0 DEF Unlock, End, Go, At
    <3>. QED
      BY <1>0, <2>1, <3>1
  <2>. QED
    BY <1>0, <1>3, <1>4, <2>1, <2>2 DEF AppendInv, InAppend, Before
<1>8. ASSUME NEW t \in Threads, Compute(t) \/ AddAttempted(t) \/ AddUseful(t)
      PROVE  AppendInv'
  <2>1. /\ at[t] = "run" /\ UNCHANGED <<at, task, sum, mutex>>
        /\ step[t] \in {"compute", "attempted", "useful"}
        /\ \/ /\ step[t] = "compute" /\ todo' = [todo EXCEPT ![t] = outputs[task[t]].summands]
           \/ /\ step[t] # "compute" /\ todo' = todo
        /\ \E p \in {"attempted", "useful", "lock"} : step' = [step EXCEPT ![t] = p]
    BY <1>8 DEF Compute, AddAttempted, AddUseful, At, To, vars
  <2>2. \A u \in Threads : ~Unlock(u)
    <3>1. \A u \in Threads : Unlock(u) => at'[u] = "fetch" /\ at[u] = "run"
      BY <1>0 DEF Unlock, End, Go, At
    <3>. QED
      BY <1>0, <2>1, <3>1
  <2>3. mutex # t
    BY <1>0, <2>1 DEF AppendInv, InAppend
  <2>4. /\ \A u \in Threads : u # t => step'[u] = step[u] /\ todo'[u] = todo[u]
        /\ step[t] = "compute" => todo'[t] = outputs[task[t]].summands
        /\ step[t] # "compute" => todo'[t] = todo[t]
    BY <1>0, <2>1
  <2>5. mutex # Free => InAppend(mutex)' /\ todo'[mutex] = todo[mutex]
    BY <1>0, <2>1, <2>3, <2>4 DEF AppendInv, InAppend
  <2>6. \A u \in Threads : Before(u, {"attempted", "useful", "lock"})' =>
               todo'[u] = outputs[task'[u]].summands
    BY <1>0, <2>1, <2>4 DEF AppendInv, Before
  <2>. QED
    BY <1>3, <1>4, <2>1, <2>2, <2>5, <2>6
<1>9. ASSUME NEW t \in Threads, Look(t)
      PROVE  AppendInv'
  <2>1. /\ at[t] = "run" /\ step[t] = "look" /\ step' = [step EXCEPT ![t] = "write"]
        /\ UNCHANGED <<at, task, todo, sum, mutex>>
    BY <1>9 DEF Look, At, To, vars
  <2>2. \A u \in Threads : ~Unlock(u)
    <3>1. \A u \in Threads : Unlock(u) => at'[u] = "fetch" /\ at[u] = "run"
      BY <1>0 DEF Unlock, End, Go, At
    <3>. QED
      BY <1>0, <2>1, <3>1
  <2>. QED
    BY <1>0, <1>3, <1>4, <2>1, <2>2 DEF AppendInv, InAppend, Before
<1>10. ASSUME NEW t \in Threads, Lock(t)
       PROVE  AppendInv'
  <2>1. /\ at[t] = "run" /\ step[t] = "lock" /\ step' = [step EXCEPT ![t] = "look"]
        /\ mutex = Free /\ mutex' = t /\ UNCHANGED <<at, task, todo, sum, commenced>>
    BY <1>10 DEF Lock, At, To, vars
  <2>2. Ended' = Ended
    BY <1>1, <2>1 DEF Ended, Begun
  <2>3. /\ todo[t] = outputs[task[t]].summands
        /\ task[t] \in Tasks /\ task[t] \notin Ended
        /\ IsFiniteSet(Ended) /\ Ended \subseteq Tasks
    <3>1. IsFiniteSet(Ended) /\ Ended \subseteq Tasks
      BY <1>3, PastIsFinite
    <3>2. todo[t] = outputs[task[t]].summands
      BY <2>1 DEF AppendInv, Before
    <3>. QED
      BY <1>0, <2>1, <3>1, <3>2 DEF TasksInv, HasTask, Ended
  <2>4. ASSUME NEW w, Additive(w)
        PROVE  WeightOf(w, sum) + WeightOf(w, todo[t]) = SumOver(AddedOf(w), Ended \cup {task[t]})
    <3>1. WeightOf(w, sum) = SumOver(AddedOf(w), Ended)
      BY <2>1, <2>4 DEF AppendInv
    <3>2. /\ AddedOf(w)[task[t]] = WeightOf(w, todo[t]) /\ AddedOf(w)[task[t]] \in Int
          /\ \A k \in Ended : AddedOf(w)[k] \in Int
      BY <2>3, <2>4, AddedAreWeights
    <3>3. SumOver(AddedOf(w), Ended \cup {task[t]})
            = SumOver(AddedOf(w), Ended) + AddedOf(w)[task[t]]
      BY <2>3, <3>2, SumOverAdd
    <3>. QED
      BY <3>1, <3>2, <3>3
  <2>5. InAppend(t)'
    BY <1>0, <2>1 DEF InAppend
  <2>6. \A u \in Threads : Before(u, {"attempted", "useful", "lock"})' =>
               todo'[u] = outputs'[task'[u]].summands
    BY <1>0, <1>1, <2>1 DEF AppendInv, Before
  <2>7. mutex' # Free
    BY <1>0, <2>1
  <2>. QED
    BY <1>1, <1>2, <2>1, <2>2, <2>4, <2>5, <2>6, <2>7 DEF AppendInv
<1>11. ASSUME NEW t \in Threads, Write(t)
       PROVE  AppendInv'
  <2>1. /\ at[t] = "run" /\ step[t] = "write" /\ step' = [step EXCEPT ![t] = "look"]
        /\ todo' = [todo EXCEPT ![t] = Tail(@)]
        /\ UNCHANGED <<at, task, mutex, commenced>>
    BY <1>11 DEF Write, At, To, vars
  <2>2. Ended' = Ended
    BY <1>1, <2>1 DEF Ended, Begun
  <2>3. mutex = t /\ mutex' = t /\ mutex # Free /\ todo[t] # <<>> /\ todo'[t] = Tail(todo[t])
    BY <1>0, <2>1 DEF SumInv, InAppend
  <2>4. ASSUME NEW w, Additive(w)
        PROVE  WeightOf(w, sum') + WeightOf(w, todo'[t]) = SumOver(AddedOf(w), Ended \cup {task[t]})
    <3>1. WeightOf(w, sum) + WeightOf(w, todo[t]) = SumOver(AddedOf(w), Ended \cup {task[t]})
      BY <2>3, <2>4 DEF AppendInv
    <3>2. WeightOf(w, sum') = WeightOf(w, sum) + w[Head(todo[t])]
      BY <1>11, <2>4, WriteAdds
    <3>3. /\ w \in [Summand -> Int] /\ todo[t] \in Seq(Summand)
          /\ Head(todo[t]) \in Summand /\ Tail(todo[t]) \in Seq(Summand)
      BY <1>0, <2>3, <2>4, HeadTailProperties DEF Additive
    <3>4. WeightOf(w, todo[t]) = w[Head(todo[t])] + WeightOf(w, Tail(todo[t]))
      BY <2>3, <3>3, WeightHeadTail
    <3>5. WeightOf(w, sum) \in Int /\ w[Head(todo[t])] \in Int /\ WeightOf(w, Tail(todo[t])) \in Int
      BY <1>0, <3>3, WeightsAre
    <3>. QED
      BY <2>3, <3>1, <3>2, <3>4, <3>5
  <2>5. InAppend(t)'
    BY <1>0, <2>1 DEF InAppend
  <2>6. \A u \in Threads : Before(u, {"attempted", "useful", "lock"})' =>
               todo'[u] = outputs'[task'[u]].summands
    BY <1>0, <1>1, <2>1 DEF AppendInv, Before
  <2>. QED
    BY <1>1, <1>2, <2>1, <2>2, <2>3, <2>4, <2>5, <2>6 DEF AppendInv
<1>12. ASSUME NEW t \in Threads, Unlock(t)
       PROVE  AppendInv'
  <2>1. /\ at[t] = "run" /\ step[t] = "look" /\ at' = [at EXCEPT ![t] = "fetch"]
        /\ todo[t] = <<>> /\ mutex' = Free
        /\ UNCHANGED <<nthreads, step, task, todo, sum, commenced>>
    BY <1>12 DEF Unlock, End, Go, At
  <2>2. mutex = t /\ mutex # Free
    BY <1>0, <2>1 DEF SumInv, InAppend
  <2>3. Ended' = Ended \cup {task[t]}
    <3>1. /\ Before(t, Steps) /\ ~Before(t, Steps)'
          /\ \A u \in Threads : u # t => (Before(u, Steps)' <=> Before(u, Steps))
      BY <1>0, <2>1 DEF Before
    <3>2. Past(Steps)' = Past(Steps) \cup {task[t]}
      BY <2>1, <3>1, PastGains
    <3>. QED
      BY <1>3, <3>2
  <2>4. ASSUME NEW w, Additive(w)
        PROVE  WeightOf(w, sum) = SumOver(AddedOf(w), Ended \cup {task[t]})
    <3>1. WeightOf(w, sum) + WeightOf(w, todo[t]) = SumOver(AddedOf(w), Ended \cup {task[t]})
      BY <2>2, <2>4 DEF AppendInv
    <3>2. WeightOf(w, sum) \in Int /\ WeightOf(w, todo[t]) = 0
      BY <1>0, <2>1, <2>4, WeightsAre, WeightEmpty DEF Additive
    <3>. QED
      BY <3>1, <3>2
  <2>5. \A u \in Threads : Before(u, {"attempted", "useful", "lock"})' =>
               todo'[u] = outputs'[task'[u]].summands
    BY <1>0, <1>1, <2>1 DEF AppendInv, Before
  <2>. QED
    BY <1>1, <1>2, <2>1, <2>3, <2>4, <2>5 DEF AppendInv
<1>13. ASSUME UNCHANGED <<commenced, at, step, task, todo, sum, mutex>>
       PROVE  AppendInv'
  <2>1. Ended' = Ended
    BY <1>1, <1>13 DEF Ended, Begun
  <2>. QED
    BY <1>4, <1>13, <2>1 DEF AppendInv, InAppend, Before
<1>. QED
  BY <1>5, <1>6, <1>7, <1>8, <1>9, <1>10, <1>11, <1>12, <1>13
  DEF Next, Main, Thread, Over, ComputeThrows, Throw, JoinThread, ReturnSum, Join, Return,
      all, vars

LEMMA AppendCorrect == Spec => []AppendInv
<1>1. LoopInv /\ SumInv /\ AppendInv /\ [Next]_all => AppendInv'
  BY AppendStep
<1>. QED
  BY <1>1, AppendInit, SumCorrect, PTL DEF Spec

\* the value of the constants of a sequence is a weight
Values == [x \in Summand |-> IF IsConstant(x) THEN x.value ELSE 0]

LEMMA ValueIsWeight ==
  ASSUME NEW q \in Seq(Summand)
  PROVE  Value(q) = WeightOf(Values, q)
<1>. DEFINE v(i) == IF IsConstant(q[i]) THEN q[i].value ELSE 0
            S == DOMAIN q
            f == WeightsIn(Values, q)
            iter[s \in SUBSET S] ==
              IF s = {} THEN 0
              ELSE LET x == CHOOSE y \in s : TRUE
                   IN  v(x) + iter[s \ {x}]
<1>1. Value(q) = iter[S]
  BY Zenon DEF Value, FoldSeq, FoldFunction, FoldFunctionOnSet, MapThenFoldSet
<1>2. \A x \in S : f[x] = v(x)
  <2>1. \A x \in S : q[x] \in Summand
    BY LenProperties, ElementOfSeq
  <2>. QED
    BY <2>1 DEF WeightsIn, Values
<1>3. IsFiniteSet(S)
  BY LenProperties, FS_Interval
<1>. HIDE DEF v, f, S
<1>4. IsSum(iter, S, f)
  <2>. DEFINE IsIter(u) == u = [s \in SUBSET S |->
                IF s = {} THEN 0
                ELSE v(CHOOSE y \in s : TRUE) + u[s \ {CHOOSE y \in s : TRUE}]]
  <2>1. \A u : IsSum(u, S, f) <=> IsIter(u)
    <3>1. \A s \in SUBSET S : s # {} =>
            f[CHOOSE y \in s : TRUE] = v(CHOOSE y \in s : TRUE)
      BY <1>2
    <3>. QED
      BY <3>1 DEF IsSum
  <2>2. \E u : IsIter(u)
    <3>. HIDE DEF IsIter
    <3>. QED
      BY <1>3, <2>1, SumExists
  <2>. QED
    BY <2>1, <2>2
<1>. HIDE DEF iter
<1>5. iter[S] = SumOver(f, S)
  BY <1>3, <1>4, SumOverIs
<1>. QED
  BY <1>1, <1>5 DEF WeightOf, f, S

\* how often a summand occurs is a weight
Ones(s) == [x \in Summand |-> IF x = s THEN 1 ELSE 0]

LEMMA OccurrencesAreWeight ==
  ASSUME NEW q \in Seq(Summand), NEW s
  PROVE  Occurrences(q, s) = WeightOf(Ones(s), q)
<1>1. PICK S, f : S = DOMAIN q /\ f = WeightsIn(Ones(s), q)
  OBVIOUS
<1>2. \A i \in S : f[i] = (IF q[i] = s THEN 1 ELSE 0)
  <2>1. \A i \in S : q[i] \in Summand
    BY <1>1, LenProperties, ElementOfSeq
  <2>. QED
    BY <1>1, <2>1 DEF WeightsIn, Ones
<1>3. IsFiniteSet(S)
  BY <1>1, LenProperties, FS_Interval
<1>4. SumOver(f, S) = Cardinality({i \in S : f[i] = 1})
  BY <1>2, <1>3, SumOverCounts
<1>5. {i \in S : f[i] = 1} = {i \in S : q[i] = s}
  BY <1>2
<1>. QED
  BY <1>1, <1>4, <1>5 DEF Occurrences, WeightOf

LEMMA ValuesAreAdditive == Additive(Values)
<1>1. Values \in [Summand -> Int]
  BY DEF Values, Summand
<1>2. ASSUME NEW x \in Summand, NEW y \in Summand, IsConstant(x), IsConstant(y)
      PROVE  Values[[x EXCEPT !.value = @ + y.value]] = Values[x] + Values[y]
  <2>1. PICK c : c = [x EXCEPT !.value = @ + y.value]
    OBVIOUS
  <2>2. c \in Summand /\ c.kind = x.kind /\ c.value = x.value + y.value
    BY <2>1 DEF Summand
  <2>. QED
    BY <1>2, <2>1, <2>2 DEF Values, IsConstant
<1>3. \A x \in Summand : IsConstant(x) /\ x.value = 0 => Values[x] = 0
  BY DEF Values
<1>. QED
  BY <1>1, <1>2, <1>3 DEF Additive

LEMMA OnesAreAdditive ==
  ASSUME NEW s, ~IsConstant(s)
  PROVE  Additive(Ones(s))
<1>1. Ones(s) \in [Summand -> Int]
  BY DEF Ones
<1>2. \A x \in Summand : IsConstant(x) => Ones(s)[x] = 0
  BY DEF Ones
<1>3. ASSUME NEW x \in Summand, NEW y \in Summand, IsConstant(x), IsConstant(y)
      PROVE  Ones(s)[[x EXCEPT !.value = @ + y.value]] = Ones(s)[x] + Ones(s)[y]
  <2>1. PICK c : c = [x EXCEPT !.value = @ + y.value]
    OBVIOUS
  <2>2. c \in Summand /\ c.kind = x.kind
    BY <2>1 DEF Summand
  <2>3. Ones(s)[c] = 0 /\ Ones(s)[x] = 0 /\ Ones(s)[y] = 0
    BY <1>2, <1>3, <2>2 DEF IsConstant
  <2>. QED
    BY <2>1, <2>3
<1>. QED
  BY <1>1, <1>2, <1>3 DEF Additive

\* For any number of threads and any outcomes of the tasks, the sum that
\* compute() returns is complete, whatever the order in which the tasks append
\* their summands to it: every term occurs as often as all tasks together gave
\* it, and the constants, which are merged, add up to theirs.
THEOREM SumIsCompleteCorrect == Spec => []SumIsComplete
<1>1. LoopInv /\ SumInv /\ AppendInv => SumIsComplete
  <2>. SUFFICES ASSUME LoopInv, SumInv, AppendInv, outcome = "returned"
                PROVE  /\ Value(sum) = Total(LAMBDA o : Value(o.summands))
                       /\ \A s \in Terms : ~IsConstant(s) =>
                            Occurrences(sum, s) = Total(LAMBDA o : Occurrences(o.summands, s))
    BY DEF SumIsComplete
  <2>1. /\ mutex = Free /\ Ended = Tasks /\ IsFiniteSet(Tasks)
        /\ sum \in Seq(Summand)
    <3>1. \A t \in Threads : at[t] = "over"
      BY DEF LoopInv, ThreadsInv
    <3>2. mutex = Free
      BY <3>1 DEF AppendInv, SumInv, InAppend
    <3>. QED
      BY <3>2, AllArePast, PastIsFinite DEF SumInv, SumTypeOK
  <2>2. ASSUME NEW w, Additive(w), NEW f, DOMAIN f = Tasks,
               \A k \in Tasks : f[k] = WeightOf(w, outputs[k].summands)
        PROVE  WeightOf(w, sum) = FoldFunction(+, 0, f)
    <3>1. WeightOf(w, sum) = SumOver(AddedOf(w), Tasks)
      BY <2>1, <2>2 DEF AppendInv
    <3>2. \A k \in Tasks : AddedOf(w)[k] = f[k]
      BY <2>2 DEF AddedOf
    <3>3. SumOver(AddedOf(w), Tasks) = SumOver(f, Tasks)
      BY <2>1, <3>2, SumOverSame
    <3>4. FoldFunction(+, 0, f) = SumOver(f, Tasks)
      BY <2>1, <2>2, FoldIsSum
    <3>. QED
      BY <3>1, <3>3, <3>4
  <2>3. \A k \in Tasks : outputs[k].summands \in Seq(Summand)
    BY AddedAreWeights, ValuesAreAdditive
  <2>4. Value(sum) = Total(LAMBDA o : Value(o.summands))
    <3>1. PICK f : f = [k \in Tasks |-> Value(outputs[k].summands)]
      OBVIOUS
    <3>2. \A k \in Tasks : f[k] = WeightOf(Values, outputs[k].summands)
      BY <2>3, <3>1, ValueIsWeight
    <3>3. WeightOf(Values, sum) = FoldFunction(+, 0, f)
      BY <2>2, <3>1, <3>2, ValuesAreAdditive
    <3>4. Total(LAMBDA o : Value(o.summands)) = FoldFunction(+, 0, f)
      BY <3>1 DEF Total
    <3>. QED
      BY <2>1, <3>3, <3>4, ValueIsWeight
  <2>5. ASSUME NEW s, ~IsConstant(s)
        PROVE  Occurrences(sum, s) = Total(LAMBDA o : Occurrences(o.summands, s))
    <3>1. PICK f : f = [k \in Tasks |-> Occurrences(outputs[k].summands, s)]
      OBVIOUS
    <3>2. \A k \in Tasks : f[k] = WeightOf(Ones(s), outputs[k].summands)
      BY <2>3, <3>1, OccurrencesAreWeight
    <3>3. WeightOf(Ones(s), sum) = FoldFunction(+, 0, f)
      BY <2>2, <2>5, <3>1, <3>2, OnesAreAdditive
    <3>4. Total(LAMBDA o : Occurrences(o.summands, s)) = FoldFunction(+, 0, f)
      BY <3>1 DEF Total
    <3>. QED
      BY <2>1, <3>3, <3>4, OccurrencesAreWeight
  <2>6. \A s \in Terms : ~IsConstant(s) =>
          Occurrences(sum, s) = Total(LAMBDA o : Occurrences(o.summands, s))
    <3>. TAKE s \in Terms
    <3>. HAVE ~IsConstant(s)
    <3>. QED
      BY <2>5 DEF Total
  <2>. QED
    BY <2>4, <2>6, Zenon
<1>. QED
  BY <1>1, SumCorrect, AppendCorrect, PTL
=============================================================================
