-------------------------- MODULE PipelinePromise --------------------------
(***************************************************************************)
(* What a pipeline run promises its user, whoever coordinates it: a node   *)
(* starts only after everything it depends on has succeeded, a node that   *)
(* succeeds has been started, and the recorded verdict says success only   *)
(* if every node succeeded.  Nothing here mentions servers, leases, Redis, *)
(* queues or timers; Cluster is shown to implement it.                     *)
(***************************************************************************)
EXTENDS PipelineRun

VARIABLES
    started,   \* the nodes that were ever given to a worker
    finished,  \* the nodes whose worker reported success
    verdict    \* what the run's user is told

promiseVars == <<started, finished, verdict>>

PromiseInit ==
    /\ started = {}
    /\ finished = {}
    /\ verdict = "none"

Start(n) ==
    /\ Deps[n] \subseteq finished
    /\ started' = started \cup {n}
    /\ UNCHANGED <<finished, verdict>>

Complete(n) ==
    /\ n \in started
    /\ finished' = finished \cup {n}
    /\ UNCHANGED <<started, verdict>>

Open ==
    /\ verdict = "none"
    /\ verdict' = "in_progress"
    /\ UNCHANGED <<started, finished>>

\* A verdict may be replaced by another one, but never taken back.
Close(v) ==
    /\ v = "success" => finished = Nodes
    /\ verdict' = v
    /\ UNCHANGED <<started, finished>>

PromiseNext ==
    \/ \E n \in Nodes : Start(n) \/ Complete(n)
    \/ Open
    \/ \E v \in {"success", "failure", "cancelled"} : Close(v)

PromiseSpec == PromiseInit /\ [][PromiseNext]_promiseVars

============================================================================
