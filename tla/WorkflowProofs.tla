--------------------------- MODULE WorkflowProofs ---------------------------
(***************************************************************************)
(* What holds of the task workflow for any number of tasks.                *)
(*                                                                         *)
(* A task that has ended is only known to be complete if the index, the    *)
(* statuses and the steps executed went up together; Agrees says so for    *)
(* one task, and Progress for all of them.                                 *)
(***************************************************************************)
EXTENDS Workflow, SequenceTheorems, TLAPS

\* The plan as it is when the first i of its steps have been executed.
PlanAfter(i) == [k \in Steps |-> IF k <= i THEN "completed" ELSE MockPlan[k]]

\* What has been executed then.
ExecutedAfter(i) == [k \in 1..i |-> k]

\* A task that has been planned stands where its index says.
Agrees(t) ==
  node[t] # "planner_node" =>
    /\ plan[t] = PlanAfter(current_step_index[t])
    /\ executed[t] = ExecutedAfter(current_step_index[t])
    /\ node[t] = "__end__" <=> current_step_index[t] = 3

\* A task that has not been planned has done nothing.
Untouched(t) ==
  node[t] = "planner_node" =>
    plan[t] = <<>> /\ current_step_index[t] = 0 /\ executed[t] = <<>>

Progress ==
  /\ node \in [Tasks -> {"planner_node", "executor_node", "__end__"}]
  /\ plan \in [Tasks -> Seq({"pending", "requires_approval", "completed"})]
  /\ current_step_index \in [Tasks -> 0..3]
  /\ final_output = [t \in Tasks |-> None]
  /\ executed \in [Tasks -> Seq(Steps)]
  /\ \A t \in Tasks : Agrees(t) /\ Untouched(t)

-----------------------------------------------------------------------------

\* A function on 1..n is a sequence of length n.
LEMMA FunctionIsSeq ==
  ASSUME NEW S, NEW n \in Nat, NEW f \in [1..n -> S]
  PROVE  f \in Seq(S) /\ Len(f) = n
<1>1. f \in Seq(S)
  OBVIOUS
<1>2. DOMAIN f = 1..n /\ DOMAIN f = 1..Len(f) /\ Len(f) \in Nat
  BY <1>1, LenProperties
<1> QED
  BY <1>2

LEMMA Three == Len(MockPlan) = 3 /\ Steps = 1..3
BY DEF MockPlan, Steps

\* Both sequences the invariant is about have the types and lengths they should.
LEMMA AfterShape ==
  ASSUME NEW i \in 0..3
  PROVE  /\ PlanAfter(i) \in Seq({"pending", "requires_approval", "completed"})
         /\ Len(PlanAfter(i)) = 3
         /\ ExecutedAfter(i) \in Seq(Steps)
<1>1. MockPlan \in [1..3 -> {"pending", "requires_approval", "completed"}]
  BY DEF MockPlan
<1>2. PlanAfter(i) \in [1..3 -> {"pending", "requires_approval", "completed"}]
  BY <1>1, Three DEF PlanAfter
<1>3. ExecutedAfter(i) \in [1..i -> Steps]
  BY Three DEF ExecutedAfter
<1>4. /\ PlanAfter(i) \in Seq({"pending", "requires_approval", "completed"})
      /\ Len(PlanAfter(i)) = 3
  <2>1. 3 \in Nat
    OBVIOUS
  <2> QED
    BY ONLY <1>2, <2>1, FunctionIsSeq, Zenon
<1>5. ExecutedAfter(i) \in Seq(Steps)
  <2>1. i \in Nat
    OBVIOUS
  <2> QED
    BY ONLY <1>3, <2>1, FunctionIsSeq, Zenon
<1> QED
  BY <1>4, <1>5

\* Executing one more step takes both from one index to the next.
LEMMA AfterNext ==
  ASSUME NEW i \in 0..2
  PROVE  /\ [PlanAfter(i) EXCEPT ![i + 1] = "completed"] = PlanAfter(i + 1)
         /\ Append(ExecutedAfter(i), i + 1) = ExecutedAfter(i + 1)
<1>1. [PlanAfter(i) EXCEPT ![i + 1] = "completed"] = PlanAfter(i + 1)
  <2>1. ASSUME NEW k \in 1..3
        PROVE  [PlanAfter(i) EXCEPT ![i + 1] = "completed"][k] = PlanAfter(i + 1)[k]
    BY Three DEF PlanAfter
  <2> QED
    BY <2>1, Three DEF PlanAfter
<1>2. Append(ExecutedAfter(i), i + 1) = ExecutedAfter(i + 1)
  <2>1. ExecutedAfter(i) \in Seq(Nat) /\ Len(ExecutedAfter(i)) = i
    <3>1. ExecutedAfter(i) \in [1..i -> Nat]
      BY DEF ExecutedAfter
    <3> QED
      BY <3>1, FunctionIsSeq
  <2>2. Append(ExecutedAfter(i), i + 1) \in [1..(i + 1) -> Nat]
    <3>1. /\ Append(ExecutedAfter(i), i + 1) \in Seq(Nat)
          /\ Len(Append(ExecutedAfter(i), i + 1)) = i + 1
      BY <2>1
    <3> QED
      BY <3>1, LenProperties
  <2>3. ASSUME NEW k \in 1..(i + 1)
        PROVE  Append(ExecutedAfter(i), i + 1)[k] = k
    <3>1. CASE k = i + 1
      BY <3>1, <2>1
    <3>2. CASE k # i + 1
      <4>1. k \in 1..i
        BY <3>2
      <4> QED
        BY <4>1, <2>1 DEF ExecutedAfter
    <3> QED
      BY <3>1, <3>2
  <2> QED
    BY <2>2, <2>3 DEF ExecutedAfter
<1> QED
  BY <1>1, <1>2

\* The conditional edge, for a plan of three steps.
LEMMA EdgeOut ==
  ASSUME NEW p, Len(p) = 3, NEW k \in 0..3
  PROVE  should_continue(p, k) = IF k = 3 THEN "__end__" ELSE "executor_node"
<1>1. k >= Len(p) <=> k = 3
  OBVIOUS
<1> QED
  BY <1>1, Zenon DEF should_continue

LEMMA AtStart == PlanAfter(0) = MockPlan /\ ExecutedAfter(0) = <<>>
<1>1. PlanAfter(0) = MockPlan
  <2>1. MockPlan \in [1..3 -> {"pending", "requires_approval"}]
    BY DEF MockPlan
  <2> QED
    BY <2>1, Three DEF PlanAfter
<1>2. ExecutedAfter(0) = <<>>
  BY DEF ExecutedAfter
<1> QED
  BY <1>1, <1>2

-----------------------------------------------------------------------------

LEMMA ProgressInit == Init => Progress
BY Three DEF Init, Progress, Agrees, Untouched

\* Planning puts a task where index 0 says.
LEMMA PlannerKeepsProgress ==
  ASSUME Progress, NEW t \in Tasks, planner_node(t)
  PROVE  Progress'
<1> USE DEF Progress
<1>1. /\ plan'[t] = MockPlan /\ current_step_index'[t] = 0
      /\ node'[t] = "executor_node" /\ executed'[t] = <<>>
  BY Three DEF planner_node, should_continue, Untouched
<1>2. Agrees(t)' /\ Untouched(t)'
  BY <1>1, AtStart DEF Agrees, Untouched
<1>3. ASSUME NEW u \in Tasks, u # t
      PROVE  Agrees(u)' /\ Untouched(u)'
  <2>1. /\ plan'[u] = plan[u] /\ current_step_index'[u] = current_step_index[u]
        /\ node'[u] = node[u] /\ executed'[u] = executed[u]
    BY <1>3 DEF planner_node
  <2> QED
    BY <2>1 DEF Agrees, Untouched
<1>4. /\ node' \in [Tasks -> {"planner_node", "executor_node", "__end__"}]
      /\ current_step_index' \in [Tasks -> 0..3]
      /\ final_output' = [u \in Tasks |-> None]
      /\ executed' \in [Tasks -> Seq(Steps)]
  BY Three DEF planner_node, should_continue
<1>5. plan' \in [Tasks -> Seq({"pending", "requires_approval", "completed"})]
  BY AtStart, AfterShape DEF planner_node
<1> QED
  BY <1>2, <1>3, <1>4, <1>5

\* Executing takes it from one index to the next, and ends it at the last.
LEMMA ExecutorKeepsProgress ==
  ASSUME Progress, NEW t \in Tasks, executor_node(t)
  PROVE  Progress'
<1> DEFINE i == current_step_index[t]
<1> USE DEF Progress
<1>1. /\ i \in 0..2 /\ node[t] = "executor_node"
      /\ plan[t] = PlanAfter(i) /\ executed[t] = ExecutedAfter(i)
  <2>1. i \in 0..3 /\ Agrees(t)
    OBVIOUS
  <2>2. node[t] = "executor_node"
    BY DEF executor_node
  <2>3. i # 3 /\ plan[t] = PlanAfter(i) /\ executed[t] = ExecutedAfter(i)
    BY <2>1, <2>2 DEF Agrees
  <2> QED
    BY <2>1, <2>2, <2>3
<1>2. Len(plan[t]) = 3 /\ ~(i >= Len(plan[t]))
  <2>1. i \in 0..3
    BY <1>1
  <2>2. Len(PlanAfter(i)) = 3
    BY <2>1, AfterShape
  <2> HIDE DEF i
  <2> QED
    BY <1>1, <2>2
<1>3. /\ plan' = [plan EXCEPT ![t] = PlanAfter(i + 1)]
      /\ current_step_index' = [current_step_index EXCEPT ![t] = i + 1]
      /\ executed' = [executed EXCEPT ![t] = ExecutedAfter(i + 1)]
      /\ final_output' = final_output
  BY <1>1, <1>2, AfterNext DEF executor_node, After
<1>4. node' = [node EXCEPT ![t] = IF i + 1 = 3 THEN "__end__" ELSE "executor_node"]
  <2>1. Len(PlanAfter(i + 1)) = 3
    <3>1. i + 1 \in 0..3
      BY <1>1
    <3> QED
      BY <3>1, AfterShape
  <2>2. should_continue(PlanAfter(i + 1), i + 1)
          = IF i + 1 = 3 THEN "__end__" ELSE "executor_node"
    <3>1. i + 1 \in 0..3
      BY <1>1
    <3> HIDE DEF i
    <3> QED
      BY <2>1, <3>1, EdgeOut
  <2>3. [plan[t] EXCEPT ![i + 1] = "completed"] = PlanAfter(i + 1)
    BY <1>1, AfterNext
  <2> QED
    BY <1>2, <2>2, <2>3 DEF executor_node, After
<1>5. Agrees(t)' /\ Untouched(t)'
  BY <1>1, <1>3, <1>4 DEF Agrees, Untouched
<1>6. ASSUME NEW u \in Tasks, u # t
      PROVE  Agrees(u)' /\ Untouched(u)'
  <2>1. /\ plan'[u] = plan[u] /\ current_step_index'[u] = current_step_index[u]
        /\ node'[u] = node[u] /\ executed'[u] = executed[u]
    BY <1>3, <1>4, <1>6
  <2> QED
    BY <2>1 DEF Agrees, Untouched
<1>7. /\ node' \in [Tasks -> {"planner_node", "executor_node", "__end__"}]
      /\ current_step_index' \in [Tasks -> 0..3]
      /\ final_output' = [u \in Tasks |-> None]
  BY <1>1, <1>3, <1>4
<1>8. /\ plan' \in [Tasks -> Seq({"pending", "requires_approval", "completed"})]
      /\ executed' \in [Tasks -> Seq(Steps)]
  BY <1>1, <1>3, AfterShape
<1> QED
  BY <1>5, <1>6, <1>7, <1>8

LEMMA ProgressInvariant == Spec => []Progress
<1>1. Progress /\ [Next]_vars => Progress'
  <2> SUFFICES ASSUME Progress, [Next]_vars PROVE Progress'
    OBVIOUS
  <2>1. CASE \E t \in Tasks : planner_node(t)
    BY <2>1, PlannerKeepsProgress
  <2>2. CASE \E t \in Tasks : executor_node(t)
    BY <2>2, ExecutorKeepsProgress
  <2>3. CASE UNCHANGED vars
    BY <2>3 DEF vars, Progress, Agrees, Untouched
  <2> QED
    BY <2>1, <2>2, <2>3 DEF Next
<1> QED
  BY <1>1, ProgressInit, PTL DEF Spec

-----------------------------------------------------------------------------

\* Every reachable state of every task has the types of TypeOK.
THEOREM WorkflowTypeCorrect == Spec => []TypeOK
<1>1. Progress => TypeOK
  BY Three DEF Progress, TypeOK
<1> QED
  BY <1>1, ProgressInvariant, PTL

\* A task that has ended executed each step of its plan once and in order, and the
\* plan says so, however the tasks were interleaved.
THEOREM EndedTasksComplete == Spec => []EndedComplete
<1>1. Progress => EndedComplete
  <2> SUFFICES ASSUME Progress, NEW t \in Tasks, node[t] = "__end__"
               PROVE  /\ executed[t] = [i \in Steps |-> i]
                      /\ \A i \in Steps : plan[t][i] = "completed"
    BY DEF EndedComplete
  <2>1. plan[t] = PlanAfter(3) /\ executed[t] = ExecutedAfter(3)
    BY DEF Progress, Agrees
  <2> QED
    BY <2>1, Three DEF PlanAfter, ExecutedAfter
<1> QED
  BY <1>1, ProgressInvariant, PTL

\* should_continue ends a task one node before the executor would write final_output,
\* so that no task that ends ever says so.
THEOREM OutputNeverWritten == Spec => [](\A t \in Tasks : final_output[t] = None)
<1>1. Progress => \A t \in Tasks : final_output[t] = None
  BY DEF Progress
<1> QED
  BY <1>1, ProgressInvariant, PTL
=============================================================================
