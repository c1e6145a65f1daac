---------------------------- MODULE WickParallel ----------------------------
(***************************************************************************)
(* WickTheorem::compute for a Sum: one task per summand, run by            *)
(* parallel_for_each.  A task computes its summand with a WickTheorem of   *)
(* its own, adds that one's statistics to those of this one, and appends   *)
(* the outcome to the result under a mutex.                                *)
(*                                                                         *)
(* A summand of the result is a Constant (an integer "value") or some      *)
(* other expression, of which only the identity matters.                   *)
(***************************************************************************)
EXTENDS ParallelForEach, SequencesExt, TLC

CONSTANT Outputs   \* what computing one summand may give

Summand == [kind : STRING, value : Int]

Output == [summands : Seq(Summand), attempted : Nat, useful : Nat, throws : BOOLEAN]

ASSUME OutputsAssumption == \A o \in Outputs : o \in Output

VARIABLES
  outputs,    \* the outcome of each task
  step,       \* where each thread is in wick_task
  todo,       \* the summands each thread has yet to append
  slot,       \* Sum::append: the place in the result being written
  sum,        \* result.summands_
  constant,   \* result.constant_summand_idx_, 0 if there is none
  mutex,      \* the thread that holds result_mtx
  attempted,  \* stats().num_attempted_contractions
  useful      \* stats().num_useful_contractions

Free == -1

body   == <<outputs, step, todo, slot, sum, constant, mutex, attempted, useful>>
locals == <<todo, slot>>
shared == <<sum, constant, mutex, attempted, useful>>
all    == <<vars, body>>

Init ==
  /\ ForEachInit
  /\ outputs \in [Tasks -> Outputs]
  /\ step = [t \in Threads |-> "compute"]
  /\ todo = [t \in Threads |-> <<>>]
  /\ slot = [t \in Threads |-> 0]
  /\ sum = <<>> /\ constant = 0
  /\ mutex = Free
  /\ attempted = 0 /\ useful = 0

To(t, place) == step' = [step EXCEPT ![t] = place]

At(t, place) == outcome = "running" /\ at[t] = "run" /\ step[t] = place

-----------------------------------------------------------------------------
(***************************************************************************)
(* The loop around the tasks.                                              *)
(***************************************************************************)
StartThread == Start /\ UNCHANGED body

TakeTask(t) == Fetch(t) /\ UNCHANGED body

CallTask(t) == Commence(t) /\ To(t, "compute")
               /\ UNCHANGED <<outputs, locals, shared>>

JoinThread == Join /\ UNCHANGED body

ReturnSum == Return /\ UNCHANGED body

-----------------------------------------------------------------------------
(***************************************************************************)
(* wick_task                                                               *)
(***************************************************************************)
\* wt.compute() throws
ComputeThrows(t) ==
  /\ At(t, "compute")
  /\ outputs[task[t]].throws
  /\ Throw(t)
  /\ UNCHANGED body

\* wt.compute() returns a nonnull expression
Compute(t) ==
  /\ At(t, "compute")
  /\ ~outputs[task[t]].throws
  /\ todo' = [todo EXCEPT ![t] = outputs[task[t]].summands]
  /\ To(t, "attempted")
  /\ UNCHANGED <<vars, outputs, slot, shared>>

\* stats() += wt.stats() adds to two atomic counters, one after the other
AddAttempted(t) ==
  /\ At(t, "attempted")
  /\ attempted' = attempted + outputs[task[t]].attempted
  /\ To(t, "useful")
  /\ UNCHANGED <<vars, outputs, locals, sum, constant, mutex, useful>>

AddUsefulWrong(t) ==           \* mutation: the wrong counter is added
  /\ At(t, "useful")
  /\ useful' = useful + outputs[task[t]].attempted
  /\ To(t, "lock")
  /\ UNCHANGED <<vars, outputs, locals, sum, constant, mutex, attempted>>

AddUseful(t) ==
  /\ At(t, "useful")
  /\ useful' = useful + outputs[task[t]].useful
  /\ To(t, "lock")
  /\ UNCHANGED <<vars, outputs, locals, sum, constant, mutex, attempted>>

LockNothing(t) ==              \* mutation: the mutex is not waited for
  /\ At(t, "lock")
  /\ mutex' = t
  /\ To(t, "look")
  /\ UNCHANGED <<vars, outputs, locals, sum, constant, attempted, useful>>

Lock(t) ==
  /\ At(t, "lock")
  /\ mutex = Free
  /\ mutex' = t
  /\ To(t, "look")
  /\ UNCHANGED <<vars, outputs, locals, sum, constant, attempted, useful>>

IsConstant(s) == s.kind = "constant"

(***************************************************************************)
(* Sum::append for the next summand.  It looks at the sum to find where    *)
(* the summand goes, then writes it there; 0 stands for a summand that is  *)
(* left out.                                                               *)
(***************************************************************************)
Look(t) ==
  /\ At(t, "look")
  /\ todo[t] # <<>>
  /\ LET s == Head(todo[t])
     IN  slot' = [slot EXCEPT ![t] =
                    IF IsConstant(s) /\ constant # 0 THEN constant
                    ELSE IF IsConstant(s) /\ s.value = 0 THEN 0
                    ELSE Len(sum) + 1]
  /\ To(t, "write")
  /\ UNCHANGED <<vars, outputs, todo, shared>>

\* summand s put at place i of sum q: a constant adds to the one that is there
Put(q, i, s) ==
  IF i <= Len(q)
  THEN IF IsConstant(q[i]) /\ IsConstant(s)
       THEN ReplaceAt(q, i, [q[i] EXCEPT !.value = @ + s.value])
       ELSE ReplaceAt(q, i, s)
  ELSE Append(q, s)

ConstantForgotten(s, i) == constant    \* mutation: the index is not recorded

ConstantAfter(s, i) == IF IsConstant(s) THEN i ELSE constant

Write(t) ==
  /\ At(t, "write")
  /\ IF slot[t] = 0 THEN UNCHANGED <<sum, constant>>
     ELSE /\ sum' = Put(sum, slot[t], Head(todo[t]))
          /\ constant' = ConstantAfter(Head(todo[t]), slot[t])
  /\ todo' = [todo EXCEPT ![t] = Tail(@)]
  /\ To(t, "look")
  /\ UNCHANGED <<vars, outputs, slot, mutex, attempted, useful>>

UnlockAgain(t) ==              \* mutation: the lambda is not left
  /\ At(t, "look")
  /\ todo[t] = <<>>
  /\ mutex' = Free
  /\ To(t, "lock")
  /\ UNCHANGED <<vars, outputs, locals, sum, constant, attempted, useful>>

\* the lock goes out of scope and wick_task returns
Unlock(t) ==
  /\ At(t, "look")
  /\ todo[t] = <<>>
  /\ mutex' = Free
  /\ End(t)
  /\ UNCHANGED <<outputs, step, locals, sum, constant, attempted, useful>>

Over == outcome # "running" /\ UNCHANGED all

-----------------------------------------------------------------------------
Thread(t) ==
  \/ TakeTask(t) \/ CallTask(t)
  \/ ComputeThrows(t) \/ Compute(t) \/ AddAttempted(t) \/ AddUseful(t)
  \/ Lock(t) \/ Look(t) \/ Write(t) \/ Unlock(t)

Main == StartThread \/ JoinThread \/ ReturnSum

Next == Main \/ (\E t \in Threads : Thread(t)) \/ Over

\* the scheduler runs every thread that can run
Fairness ==
  /\ WF_all(Main)
  /\ \A t \in 0..(MaxThreads - 1) :
       WF_all(t \in Threads /\ Thread(t))

Spec == Init /\ [][Next]_all /\ Fairness

-----------------------------------------------------------------------------
TypeOK ==
  /\ ForEachTypeOK
  /\ outputs \in [Tasks -> Outputs]
  /\ step \in [Threads -> {"compute", "attempted", "useful", "lock", "look", "write"}]
  /\ slot \in [Threads -> 0..(Len(sum) + 1)]
  /\ constant \in 0..Len(sum)
  /\ mutex \in {Free} \cup Threads
  /\ attempted \in Nat /\ useful \in Nat

Total(n(_)) == FoldFunction(+, 0, [k \in Tasks |-> n(outputs[k])])

\* how often summand s occurs in sequence q, and what its constants add up to
Occurrences(q, s) == Cardinality({i \in DOMAIN q : q[i] = s})
Value(q) == FoldSeq(LAMBDA s, v : (IF IsConstant(s) THEN s.value ELSE 0) + v, 0, q)

Terms == UNION {Range(outputs[k].summands) : k \in Tasks}

(***************************************************************************)
(* When compute() returns, the sum is that of all tasks: every term occurs *)
(* as often as the tasks gave it and the constants add up.                 *)
(***************************************************************************)
SumIsComplete ==
  outcome = "returned" =>
    /\ Value(sum) = Total(LAMBDA o : Value(o.summands))
    /\ \A s \in Terms : ~IsConstant(s) =>
         Occurrences(sum, s) = Total(LAMBDA o : Occurrences(o.summands, s))

\* A sum holds one constant at most, where constant_summand_idx_ says, as the
\* assertion of Sum::append expects, whatever the order of the threads.
ConstantIsUnique ==
  mutex = Free =>
    \A i \in DOMAIN sum : IsConstant(sum[i]) <=> i = constant

\* The statistics are those of all tasks when compute() returns.
StatsAreTotals ==
  outcome = "returned" =>
    /\ attempted = Total(LAMBDA o : o.attempted)
    /\ useful = Total(LAMBDA o : o.useful)

\* compute() does not return a sum that lacks a summand whose task threw.
NoSilentFailure ==
  outcome = "returned" => \A k \in Tasks : k \in Begun /\ ~outputs[k].throws

\* parallel_for_each keeps its promise
Abstract == INSTANCE ForEach WITH begun <- Begun, ended <- Ended

ImplementsForEach == Abstract!Spec

\* compute() comes to an end, with a result or an exception
Ends == <>(outcome # "running")
=============================================================================
