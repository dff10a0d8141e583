----------------------------- MODULE RunHistory -----------------------------
(***************************************************************************)
(* The rows Postgres keeps of one run (run_history/src/lib.rs): the        *)
(* pipeline_runs row reduced to its status and one node_runs row per node  *)
(* reduced to the success flag and to whether failure_reason is set.       *)
(***************************************************************************)
EXTENDS PipelineRun

VARIABLES
    pipeline_row,  \* pipeline_runs.status, or "none" before the insert
    node_rows      \* node_rows[n]: what the node_runs row of n says

historyVars == <<pipeline_row, node_rows>>

FinalStatus == {"success", "failure", "cancelled"}

PipelineRow == {"none", "in_progress"} \cup FinalStatus

\* "dispatched": success is NULL.  "infra" and "dispatch_failed": success is
\* false and failure_reason says why.  "failure": false without a reason.
NodeRow == {"none", "dispatched", "success", "failure", "infra", "dispatch_failed"}

HistoryTypeOK ==
    /\ pipeline_row \in PipelineRow
    /\ node_rows \in [Nodes -> NodeRow]

HistoryInit ==
    /\ pipeline_row = "none"
    /\ node_rows = [n \in Nodes |-> "none"]

\* INSERT ... ON CONFLICT leaves the status of an existing row alone.
record_pipeline_started ==
    /\ pipeline_row' = IF pipeline_row = "none" THEN "in_progress" ELSE pipeline_row
    /\ UNCHANGED node_rows

\* INSERT ... ON CONFLICT DO UPDATE SET status, whatever the status was.
record_pipeline_run(status) ==
    /\ pipeline_row' = status
    /\ UNCHANGED node_rows

\* UPDATE ... WHERE status = 'in_progress'.
finalize_pipeline_run_status(status) ==
    /\ pipeline_row' = IF pipeline_row = "in_progress" THEN status ELSE pipeline_row
    /\ UNCHANGED node_rows

\* A node row references its pipeline row: without one the insert fails.
Referenced == pipeline_row # "none"

\* INSERT ... ON CONFLICT DO NOTHING.
record_node_dispatched(n) ==
    /\ node_rows' = IF Referenced /\ node_rows[n] = "none"
                    THEN [node_rows EXCEPT ![n] = "dispatched"]
                    ELSE node_rows
    /\ UNCHANGED pipeline_row

\* INSERT ... ON CONFLICT DO UPDATE of every column, failure_reason included,
\* for every node of `rows` whose new row differs from "none".
record_node_runs(rows) ==
    /\ node_rows' = [n \in Nodes |-> IF Referenced /\ rows[n] # "none"
                                     THEN rows[n] ELSE node_rows[n]]
    /\ UNCHANGED pipeline_row

record_node_run(n, row) ==
    record_node_runs([m \in Nodes |-> IF m = n THEN row ELSE "none"])

============================================================================
