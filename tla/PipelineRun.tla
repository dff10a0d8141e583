---------------------------- MODULE PipelineRun ----------------------------
(***************************************************************************)
(* The dependency graph of one pipeline run and the transitions of its     *)
(* node statuses (coordinator/src/run.rs, and the terminality test that    *)
(* state_store keeps of its own).  Everything here is a pure operator on a *)
(* status function; the modules that hold such a function as state (the    *)
(* coordinator's memory, Redis) build on it.                               *)
(***************************************************************************)

CONSTANTS
    Nodes,  \* the node names of the pipeline
    Deps    \* Deps[n]: the names listed in n's `after`, all of them nodes

\* validate_dependencies rejects a name that is not a node.  It does not
\* reject cycles, and neither does this assumption.
ASSUME DepsAssumption == Deps \in [Nodes -> SUBSET Nodes]

NodeStatus == {"pending", "running", "success", "failed"}

Statuses == [Nodes -> NodeStatus]

NewRun == [n \in Nodes |-> "pending"]

deps_satisfied(st, n) == \A d \in Deps[n] : st[d] = "success"

\* Mutant: everything that has not succeeded is ready.
ready_nodes_unfinished(st) == {n \in Nodes : st[n] # "success" /\ deps_satisfied(st, n)}

ready_nodes(st) == {n \in Nodes : st[n] = "pending" /\ deps_satisfied(st, n)}

Active(st, n) == st[n] \in {"pending", "running"}

mark_running(st, n) ==
    IF st[n] = "pending" THEN [st EXCEPT ![n] = "running"] ELSE st

mark_success(st, n) ==
    IF Active(st, n) THEN [st EXCEPT ![n] = "success"] ELSE st

mark_failed(st, n) ==
    IF Active(st, n) THEN [st EXCEPT ![n] = "failed"] ELSE st

mark_dispatch_failed(st, n) ==
    IF st[n] = "pending" THEN [st EXCEPT ![n] = "failed"] ELSE st

is_complete(st) ==
    /\ \A n \in Nodes : st[n] # "running"
    /\ ready_nodes(st) = {}

\* The store decides on its own copy of the graph whether a run still has
\* work: a running node, or a pending one whose dependencies all succeeded.
run_state_is_terminal(st) ==
    ~ \E n \in Nodes :
        \/ st[n] = "running"
        \/ st[n] = "pending" /\ \A d \in Deps[n] : st[d] = "success"

outcome_status(st) ==
    IF \A n \in Nodes : st[n] = "success" THEN "success" ELSE "failure"

============================================================================
