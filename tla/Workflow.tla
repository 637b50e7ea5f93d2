------------------------------ MODULE Workflow ------------------------------
(***************************************************************************)
(* The task workflow of the runtime: a LangGraph graph whose planner node  *)
(* writes a plan and whose executor node runs one step of it each time it  *)
(* is entered (runtime/workflow_engine/graph.py, runtime/planner/,         *)
(* runtime/executor/).  Tasks run on one event loop, which may switch      *)
(* between them after every node.  Every task has a state of its own.      *)
(***************************************************************************)
EXTENDS Integers, Sequences

CONSTANTS Tasks, None

VARIABLES
  node,                \* the node each task enters next, or "__end__"
  plan,                \* the status of each step of each task's plan
  current_step_index,  \* from 0, as in the code
  final_output,        \* None until something is written
  executed             \* the steps each task has executed, in order

vars == <<node, plan, current_step_index, final_output, executed>>

\* The statuses of the steps planner_node makes: retrieve, draft, send.
MockPlan == <<"pending", "pending", "requires_approval">>
Steps == 1..Len(MockPlan)

TypeOK ==
  /\ node \in [Tasks -> {"planner_node", "executor_node", "__end__"}]
  /\ plan \in [Tasks -> Seq({"pending", "requires_approval", "completed"})]
  /\ current_step_index \in [Tasks -> 0..Len(MockPlan)]
  /\ final_output \in [Tasks -> {None, "All steps completed"}]
  /\ executed \in [Tasks -> Seq(Steps)]

Init ==
  /\ node = [t \in Tasks |-> "planner_node"]
  /\ plan = [t \in Tasks |-> <<>>]
  /\ current_step_index = [t \in Tasks |-> 0]
  /\ final_output = [t \in Tasks |-> None]
  /\ executed = [t \in Tasks |-> <<>>]

\* Mutant: the last step is taken for the end.
should_continue_early(p, idx) == IF idx >= Len(p) - 1 THEN "__end__" ELSE "executor_node"

\* Mutant: the end comes one step late.
should_continue_late(p, idx) == IF idx > Len(p) THEN "__end__" ELSE "executor_node"

\* The conditional edge out of both nodes, over the state they leave.
should_continue(p, idx) == IF idx >= Len(p) THEN "__end__" ELSE "executor_node"

\* Mutant: a step is skipped.
AfterTwo(idx) == idx + 2

After(idx) == idx + 1

planner_node(t) ==
  /\ node[t] = "planner_node"
  /\ plan' = [plan EXCEPT ![t] = MockPlan]
  /\ current_step_index' = [current_step_index EXCEPT ![t] = 0]
  /\ node' = [node EXCEPT ![t] = should_continue(MockPlan, 0)]
  /\ UNCHANGED <<final_output, executed>>

\* One step is run; one that requires approval is taken to be approved.  The
\* final output is written only on entering with nothing left to run.
executor_node(t) ==
  LET idx == current_step_index[t]
      over == idx >= Len(plan[t])
      nextPlan == IF over THEN plan[t] ELSE [plan[t] EXCEPT ![idx + 1] = "completed"]
      nextIdx == IF over THEN idx ELSE After(idx)
  IN /\ node[t] = "executor_node"
     /\ plan' = [plan EXCEPT ![t] = nextPlan]
     /\ current_step_index' = [current_step_index EXCEPT ![t] = nextIdx]
     /\ executed' = [executed EXCEPT ![t] = IF over THEN @ ELSE Append(@, idx + 1)]
     /\ final_output' = [final_output EXCEPT ![t] =
                           IF over THEN "All steps completed" ELSE @]
     /\ node' = [node EXCEPT ![t] = should_continue(nextPlan, nextIdx)]

Next == \E t \in Tasks : planner_node(t) \/ executor_node(t)

Spec == Init /\ [][Next]_vars

\* The event loop runs every node that is ready.
LiveSpec == Spec /\ \A t \in Tasks : WF_vars(planner_node(t) \/ executor_node(t))

-----------------------------------------------------------------------------
(* Properties *)

\* A task that has ended has executed every step of its plan once, in order.
EndedComplete ==
  \A t \in Tasks :
    node[t] = "__end__" =>
      /\ executed[t] = [i \in Steps |-> i]
      /\ \A i \in Steps : plan[t][i] = "completed"

\* Every task ends.
EveryTaskEnds == \A t \in Tasks : <>(node[t] = "__end__")
=============================================================================
