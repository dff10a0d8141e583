------------------------------ MODULE Cluster ------------------------------
(***************************************************************************)
(* One run in a cluster of replicas: the webhook that starts it, the       *)
(* coordinators, the workers and what they and the users send over HTTP,   *)
(* the reaper, and what goes wrong: processes die, leases expire under a   *)
(* coordinator that is still alive, pokes and cancels reach nobody.        *)
(***************************************************************************)
EXTENDS Reaper

CONSTANTS
    MaxPokes,    \* how often the worker of one node reaches handle_node_poke
    MaxCancels   \* how often a user asks for cancellation

ASSUME BoundsAssumption == MaxPokes \in Nat /\ MaxCancels \in Nat

VARIABLES
    pokes,    \* pokes[n]: pokes of node n so far
    cancels   \* cancel requests so far

requestVars == <<pokes, cancels>>

clusterVars == <<vars, sweep, requestVars>>

ClusterTypeOK ==
    /\ TypeOK
    /\ sweep \in SweepState
    /\ pokes \in [Nodes -> 0..MaxPokes]
    /\ cancels \in 0..MaxCancels

ClusterInit ==
    /\ Init
    /\ sweep = NoSweep
    /\ pokes = [n \in Nodes |-> 0]
    /\ cancels = 0

----------------------------------------------------------------------------
(* HTTP                                                                    *)

\* handle_node_poke: the server believes S3, never the caller.
Poke(n) ==
    /\ pokes[n] < MaxPokes
    /\ Completed(s3[n])
    /\ publish_event([type |-> "node_completed", node |-> n,
                      success |-> (s3[n] = "success")])
    /\ pokes' = [pokes EXCEPT ![n] = @ + 1]
    /\ UNCHANGED <<storeVars, workerVars, historyVars, coordVars, sweep, cancels>>

\* cancel_pipeline_run answers 200 whether or not anyone is subscribed.
RequestCancel ==
    /\ cancels < MaxCancels
    /\ pipeline_row # "none"
    /\ publish_event([type |-> "cancel"])
    /\ cancels' = cancels + 1
    /\ UNCHANGED <<storeVars, workerVars, historyVars, coordVars, sweep, pokes>>

----------------------------------------------------------------------------
(* Starting and restarting coordinators                                    *)

\* launch_coordinator_for_pipeline: a fresh run id, so a free lease.
Launch(s) ==
    /\ lease_ver = 0
    /\ \A t \in Servers : co[t].pc = "off"
    /\ Goto(s, "acquire")
    /\ UNCHANGED <<storeVars, workerVars, historyVars, backplaneVars, sig, sweep, requestVars>>

\* The environment interferes only while a fresh id is left to take over.
Spare == \E s \in Servers : co[s].pc = "off"

Alive(s) == co[s].pc \notin {"off", "done"}

Crash(s) ==
    /\ Alive(s) /\ Spare
    /\ Stop(s)
    /\ UNCHANGED <<storeVars, workerVars, historyVars, sweep, requestVars>>

\* A crash inside dispatcher.dispatch, between its two creates.
CrashInDispatch(s) ==
    /\ co[s].pc = "dispatch" /\ Spare
    /\ \E n \in co[s].todo : dispatch_cut_short(n)
    /\ Stop(s)
    /\ UNCHANGED <<storeVars, historyVars, sweep, requestVars>>

\* The TTL runs out: the owner is dead, or was kept from its heartbeat.
ExpireLease ==
    /\ Spare \/ \A s \in Servers : ~Alive(s)
    /\ LeaseExpires
    /\ UNCHANGED <<workerVars, historyVars, backplaneVars, coordVars, sweep, requestVars>>

----------------------------------------------------------------------------
(* The specification                                                       *)

\* The steps a live coordinator takes of its own accord.
RunStep(s) ==
    \/ AcquireLease(s) \/ RecordPipelineStarted(s) \/ LoadRun(s) \/ SaveInitial(s)
    \/ ReadOutcomes(s) \/ FoldCompletion(s)
    \/ PromoteNode(s) \/ PromoteCheck(s) \/ RehydrateTimers(s) \/ Subscribe(s)
    \/ CancelNode(s) \/ RecordNodeCompleted(s)
    \/ DispatchNode(s) \/ PersistDispatch(s) \/ RecordDispatch(s)
    \/ RecordTerminated(s) \/ ReportStatus(s)
    \/ CleanupRun(s) \/ ReleaseLease(s) \/ DeleteRun(s)

\* The branches of the select loop.
LoopStep(s) ==
    \/ PeriodicReconcile(s) \/ HeartbeatFails(s)
    \/ PipelineDeadline(s) \/ SubscriptionClosed(s)
    \/ ReceiveNodeCompleted(s) \/ ReceiveCancel(s)
    \/ HandlePodRunning(s) \/ HandleNodeInfraFailed(s)
    \/ HandlePodStartTimedOut(s) \/ HandleNodeTimedOut(s)

\* The timers and the pod watcher of one coordinator.
SignalStep(s) ==
    \/ DetachedTimerFires(s)
    \/ \E n \in Nodes :
          TimerFires(s, n) \/ WatcherReportsRunning(s, n) \/ WatcherReportsFailure(s, n)

ReclaimStep(s) ==
    ListOrphan(s) \/ LoadOrphan(s) \/ ReclaimOrphan(s) \/ DiscardOrphan(s)

WorkerStep(n) == PodStarts(n) \/ WorkerSucceeds(n) \/ WorkerFails(n)

PodFailure(n) == "failed" \in Signals /\ PodBreaks(n)

Next ==
    \/ \E s \in Servers :
          (RunStep(s) \/ LoopStep(s) \/ SignalStep(s)) /\ UNCHANGED <<sweep, requestVars>>
    \/ \E n \in Nodes :
          /\ WorkerStep(n) \/ PodFailure(n)
          /\ UNCHANGED <<storeVars, historyVars, backplaneVars, coordVars, sweep, requestVars>>
    \/ \E n \in Nodes : Poke(n)
    \/ RequestCancel
    \/ \E s \in Servers : Launch(s)
    \/ \E s \in Servers :
          ReclaimStep(s) /\ UNCHANGED requestVars
    \/ SweepStep /\ UNCHANGED requestVars
    \/ \E s \in Servers : Crash(s) \/ CrashInDispatch(s)
    \/ ExpireLease

Spec == ClusterInit /\ [][Next]_clusterVars

\* What the deployment keeps doing.  Tokio polls a ready task, so a coordinator
\* that can move moves; a timer that is not aborted fires; the reaper's two
\* loops tick for ever and run their passes in turn; a lease nobody renews
\* expires.  Workers, users and the pod watcher owe nothing.
RunOn(s) == RunStep(s) /\ UNCHANGED <<sweep, requestVars>>

LoopOn(s) == LoopStep(s) /\ UNCHANGED <<sweep, requestVars>>

TimerOn(s) ==
    /\ DetachedTimerFires(s) \/ \E n \in Nodes : TimerFires(s, n)
    /\ UNCHANGED <<sweep, requestVars>>

ReclaimOn(s) == ReclaimStep(s) /\ UNCHANGED requestVars

SweepOn ==
    /\ sweep.pc # "idle"
    /\ SweepStep
    /\ UNCHANGED requestVars

DeadLeaseExpires ==
    /\ \A s \in Servers : lease.owner = s => ~Alive(s)
    /\ ExpireLease

Fairness ==
    /\ \A s \in Servers :
          /\ WF_clusterVars(RunOn(s))
          /\ WF_clusterVars(LoopOn(s))
          /\ WF_clusterVars(TimerOn(s))
          /\ WF_clusterVars(ReclaimOn(s))
    /\ WF_clusterVars(DeadLeaseExpires)
    /\ WF_clusterVars(SweepOn)
    /\ SF_clusterVars(ListTerminal /\ UNCHANGED requestVars)
    /\ SF_clusterVars(ListInProgress /\ UNCHANGED requestVars)
    /\ SF_clusterVars(ListManaged /\ UNCHANGED requestVars)

FairSpec == Spec /\ Fairness

----------------------------------------------------------------------------
(* Properties: safety of every instance                                    *)

\* A coordinator r that claims no success but a real one, and is about to
\* dispatch only nodes whose dependencies have really succeeded.
Sound(r, real) ==
    /\ \A n \in Nodes : r.mem[n] = "success" \/ r.outcomes[n] = "success" => n \in real
    /\ \A n \in r.todo : Deps[n] \subseteq real
    /\ r.status = "success" => real = Nodes

\* Wherever the system stores or carries the success of a node (S3, Redis,
\* Postgres, a queued event, the memory of a live, deposed or fenced
\* coordinator, a sweep's copy of the rows), a worker did report it; and no
\* node is given a Job before every node it depends on has really succeeded.
ClaimsAreReal ==
    /\ \A n \in Nodes :
          \/ s3[n] = "success" \/ store.statuses[n] = "success"
          \/ node_rows[n] = "success" \/ sweep.rows[n] = "success"
          => n \in succeeded
    /\ \A i \in DOMAIN events :
          events[i].type = "node_completed" =>
              (events[i].success => events[i].node \in succeeded)
    /\ \A s \in Servers : Sound(co[s], succeeded)
    /\ pipeline_row = "success" => succeeded = Nodes
    /\ \A n \in Nodes : job[n] # "none" => n \in launched
    /\ \A n \in launched : Deps[n] \subseteq succeeded

\* The cluster implements what a pipeline run promises its user.
Promise == INSTANCE PipelinePromise
               WITH started <- launched, finished <- succeeded, verdict <- pipeline_row

KeepsPromise == Promise!PromiseSpec

\* A running node has a live phase timer or its timeout is in the channel.
HasDeadline(g, n) ==
    \/ Running(g.handle[n])
    \/ \E i \in DOMAIN g.inbox : /\ g.inbox[i].node = n
                                /\ g.inbox[i].type \in {"start_timeout", "timed_out"}

\* A coordinator in its loop never waits for a node without a deadline, though
\* node_phase_handles changes hands between dispatch, handle_pod_running,
\* cancel_node_timeout and rehydrate_phase_timers.
RunningNodeHasDeadline ==
    \A s \in Servers, n \in Nodes :
        co[s].pc = "loop" /\ co[s].mem[n] = "running" => HasDeadline(sig[s], n)

----------------------------------------------------------------------------
(* Properties: one coordinator that is never replaced                      *)

\* What a crash loses if Redis holds `kept` of a node and memory `mem`: nothing,
\* or that the node was dispatched (running, or failed by its dispatch).
LosesAtMostDispatch(kept, mem) ==
    kept = mem \/ (kept = "pending" /\ mem \in {"running", "failed"})

\* Whenever the coordinator waits in its loop, a crash loses at most dispatches
\* whose saves have erred, never a completion it has handled, though every call
\* to Redis may err, executed or not; and nothing at all if Redis never errs
\* (persist_state, persist_state_after_dispatch_transition).
WaitsPersisted ==
    \A s \in Servers :
        co[s].pc = "loop" =>
            /\ \A n \in Nodes : LosesAtMostDispatch(store.statuses[n], co[s].mem[n])
            /\ RedisErrs \/ store = [version |-> co[s].version, statuses |-> co[s].mem]

\* A Job is created for n in this step.
Launches(n) == job[n] = "none" /\ job'[n] # "none"

\* No node is executed twice, however often its completion is poked, folded
\* from S3, timed out and cancelled (dispatch_ready_nodes).
NoRelaunch == [][\A n \in Nodes : Launches(n) => n \notin launched]_clusterVars

\* With fail_fast, no Job is created once a node has failed (handle_node_*).
FailFastStops ==
    [][FailFast => \A n \in Nodes :
          Launches(n) => \A m \in Nodes : store.statuses[m] # "failed"]_clusterVars

\* When a coordinator that kept its lease has returned, by whichever exit, no
\* Job, no ConfigMap, no lease and no Redis state is left behind (cleanup),
\* where Kubernetes, Redis and RabbitMQ do not fail.
NoLeftovers ==
    (\E s \in Servers : co[s].pc = "done") =>
        /\ \A n \in Nodes : job[n] = "none"
        /\ config_maps = {}
        /\ ~RunExists
        /\ ~Leased

\* From the moment the coordinator starts to delete the run's artifacts, and
\* whatever Redis, Kubernetes, S3 and RabbitMQ fail to do, Postgres has its
\* verdict on the run and one on every node it ever launched, so that a crash
\* from there on loses no result.  One node may be left out: the one whose
\* completion Redis failed to save, which ends the run as a failure
\* (handle_node_*, then finalize_run, then cleanup).
HistoryIsComplete ==
    \A s \in Servers :
        co[s].pc \in {"cleanup", "release", "delete"} =>
            /\ pipeline_row = co[s].status
            /\ \E lost \in Nodes \cup {NoNode} :
                  /\ \A n \in launched \ {lost} : Known(node_rows[n])
                  /\ lost # NoNode => RedisErrs /\ pipeline_row = "failure"

----------------------------------------------------------------------------
(* Properties: liveness                                                    *)

IdsUsedUp == \A s \in Servers : co[s].pc = "done"

\* Every run that Postgres calls in progress gets a verdict, although its
\* coordinators die at any point, its leases expire and its workers hang; or
\* the instance has no server id left to take over with (run, start_reaper).
EveryRunEnds ==
    pipeline_row = "in_progress" ~> pipeline_row \in FinalStatus \/ IdsUsedUp

\* A Job that outlives all coordinators and the run's Redis state is reaped
\* (sweep_orphan_kube_resources).
StrandedJobsAreReaped ==
    \A n \in Nodes :
        (job[n] # "none" /\ ~RunExists /\ \A s \in Servers : ~Alive(s))
            ~> (job[n] = "none" \/ RunExists \/ \E s \in Servers : Alive(s))

----------------------------------------------------------------------------
(* What the documentation says and the code does not keep                  *)

\* "a zombie server cannot write outdated state to Redis" (architecture.md):
\* while the run's state exists, what it says of a node never goes back, and
\* a final status is never replaced by the other one.
Rank(status) == CASE status = "pending" -> 0 [] status = "running" -> 1 [] OTHER -> 2

Forward(from, to) == from = to \/ Rank(from) < Rank(to)

NoOutdatedWrite ==
    [][RunExists /\ RunExists' =>
          \A n \in Nodes : Forward(store.statuses[n], store'.statuses[n])]_clusterVars

\* "The state_store rejects the write.  The coordinator stops immediately"
\* (architecture.md): after a rejected save it leaves Redis, the Jobs and the
\* artifacts of the run to the coordinator that won the conflict.
FencedCoordinatorIsPassive ==
    [][\A s \in Servers :
          co[s].fenced /\ co'[s] # co[s] => UNCHANGED <<storeVars, workerVars>>
      ]_clusterVars

\* "Before starting a Pod, the system checks OpenShift to ensure a Pod for that
\* RunID/Step doesn't already exist" (architecture.md): a node is not failed by
\* the dispatch of a Job that is there already.
DispatchIsIdempotent ==
    \A s \in Servers :
        co[s].pc = "dispatched" /\ co[s].cause = "dispatch_failed"
            => ~node_pod_exists(co[s].node)

\* "ON CONFLICT DO NOTHING makes writes idempotent" (architecture.md): the
\* recorded verdict of a run is not replaced.
VerdictIsFinal ==
    [][(pipeline_row \in FinalStatus) => (pipeline_row' = pipeline_row)]_clusterVars

============================================================================
