------------------------------ MODULE Workers ------------------------------
(***************************************************************************)
(* Kubernetes and S3 as one run sees them: the Job and the ConfigMap of    *)
(* each node and the node's status.json, with the dispatcher operations    *)
(* that change them (coordinator/src/kube_dispatcher.rs, source_manager.rs)*)
(* and the steps of the worker pod itself, which is external.              *)
(***************************************************************************)
EXTENDS PipelineRun

VARIABLES
    job,          \* job[n]: the Job of node n and how far its pod got
    config_maps,  \* the nodes whose script ConfigMap exists
    s3,           \* s3[n]: what status.json of n says
    launched,     \* history: the nodes that had a Job at some time
    succeeded     \* history: the nodes whose worker wrote success to S3

workerVars == <<job, config_maps, s3, launched, succeeded>>

JobState == {"none", "starting", "running", "finished", "broken"}

S3Status == {"none", "started", "success", "failure"}

WorkersTypeOK ==
    /\ job \in [Nodes -> JobState]
    /\ config_maps \subseteq Nodes
    /\ s3 \in [Nodes -> S3Status]
    /\ launched \subseteq Nodes
    /\ succeeded \subseteq Nodes

WorkersInit ==
    /\ job = [n \in Nodes |-> "none"]
    /\ config_maps = {}
    /\ s3 = [n \in Nodes |-> "none"]
    /\ launched = {}
    /\ succeeded = {}

\* dispatch creates the ConfigMap, then the Job.  Either create fails if its
\* object is there already; a failed Job create takes the ConfigMap back.
CanDispatch(n) == n \notin config_maps /\ job[n] = "none"

\* What a dispatch of n creates and does not take back.
create_objects(n, jobs, cms) ==
    /\ job' = IF n \in jobs THEN [job EXCEPT ![n] = "starting"] ELSE job
    /\ config_maps' = config_maps \cup cms
    /\ launched' = launched \cup jobs
    /\ UNCHANGED <<s3, succeeded>>

dispatch(n) == create_objects(n, {n}, {n})

\* A dispatch that errors may leave its ConfigMap behind (its create was
\* executed and the answer lost, or the roll-back failed) and, if it got so
\* far, a Job whose answer was lost.
dispatch_errs(n) ==
    \E jobs, cms \in SUBSET {n} :
        /\ n \in jobs => CanDispatch(n)
        /\ create_objects(n, jobs, cms)

\* The process dies after creating the ConfigMap and before creating the Job.
dispatch_cut_short(n) ==
    /\ n \notin config_maps
    /\ config_maps' = config_maps \cup {n}
    /\ UNCHANGED <<job, s3, launched, succeeded>>

\* The Jobs, the ConfigMaps and the S3 objects of the named nodes go.
delete_objects(jobs, cms, objects) ==
    /\ job' = [n \in Nodes |-> IF n \in jobs THEN "none" ELSE job[n]]
    /\ config_maps' = config_maps \ cms
    /\ s3' = [n \in Nodes |-> IF n \in objects THEN "none" ELSE s3[n]]
    /\ UNCHANGED <<launched, succeeded>>

node_pod_exists(n) == job[n] # "none"

Completed(status) == status \in {"success", "failure"}

----------------------------------------------------------------------------
(* The worker pod: the tube writes "started", runs the user's steps and    *)
(* writes the outcome.                                                     *)

PodStarts(n) ==
    /\ job[n] = "starting"
    /\ job' = [job EXCEPT ![n] = "running"]
    /\ s3' = [s3 EXCEPT ![n] = "started"]
    /\ UNCHANGED <<config_maps, launched, succeeded>>

WorkerSucceeds(n) ==
    /\ job[n] = "running"
    /\ job' = [job EXCEPT ![n] = "finished"]
    /\ s3' = [s3 EXCEPT ![n] = "success"]
    /\ succeeded' = succeeded \cup {n}
    /\ UNCHANGED <<config_maps, launched>>

\* A failing worker writes its outcome; its container may also exit non-zero,
\* which the pod watcher reports as an infrastructure failure.
WorkerFails(n) ==
    /\ job[n] = "running"
    /\ \E end \in {"finished", "broken"} : job' = [job EXCEPT ![n] = end]
    /\ s3' = [s3 EXCEPT ![n] = "failure"]
    /\ UNCHANGED <<config_maps, launched, succeeded>>

\* Image pull errors, init container failures, OOM kills, evictions.
PodBreaks(n) ==
    /\ job[n] \in {"starting", "running"}
    /\ job' = [job EXCEPT ![n] = "broken"]
    /\ UNCHANGED <<config_maps, s3, launched, succeeded>>

============================================================================
