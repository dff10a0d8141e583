---------------------------- MODULE Coordinator ----------------------------
(***************************************************************************)
(* The coordinator of one run (coordinator/src/coordinator.rs): everything *)
(* start_coordinator and Coordinator::run do, with one step per await at   *)
(* which another actor can get in between.  co[s] is the coordinator with  *)
(* server id s, sig[s] its phase timers, pod watcher and internal channel. *)
(* Several coordinators of the same run may be alive at once: one whose    *)
(* lease has expired goes on until it notices.                             *)
(***************************************************************************)
EXTENDS StateStore, Workers, RunHistory, Backplane

CONSTANTS
    NoNode,     \* no node is being handled
    FailFast,   \* the pipeline's fail_fast setting
    Signals     \* which internal messages an instance explores

SignalKinds == {"startup", "runtime", "running", "failed", "deadline", "closed"}

FaultKinds == {"kube", "s3", "history", "backplane", "redis"}

ASSUME ConfigAssumption ==
    /\ NoNode \notin Nodes
    /\ FailFast \in BOOLEAN
    /\ Signals \subseteq SignalKinds
    /\ Faults \subseteq FaultKinds

VARIABLES
    co,    \* co[s]: the coordinator with server id s
    sig    \* sig[s]: its timers, its pod watcher and its internal channel

coordVars == <<co, sig>>

vars == <<storeVars, workerVars, historyVars, backplaneVars, coordVars>>

----------------------------------------------------------------------------
(* State                                                                   *)

\* Where run() is: before it (in the reaper's reclaim pass, too), in
\* it, in the epilogue every exit but a lost lease goes through, and after it.
Pc == {"off", "reclaim", "reclaim_row", "discard", "discard_release", "discard_delete",
       "acquire", "acquired",
       "load", "save_initial", "read_outcomes", "fold", "promote", "promote_check",
       "subscribe", "record", "cancel", "dispatch", "dispatched", "dispatch_record",
       "loop", "finalize", "report", "cleanup", "release", "delete", "done"}

\* What dispatch_ready_nodes returns to.
Stage == {"fold", "promote", "start", "loop"}

\* What the handler under way is about.
Cause == {"none", "success", "failure", "infra", "dispatched", "dispatch_failed"}

CoordinatorState ==
    [pc : Pc,
     stage : Stage,
     mem : Statuses,                   \* self.run
     version : Nat,                    \* self.state_version
     lease_version : Nat,              \* self.lease_version
     outcomes : [Nodes -> S3Status],   \* the outcomes read from S3
     work : SUBSET Nodes,              \* nodes left to fold or to promote
     todo : SUBSET Nodes,              \* nodes left to dispatch
     node : Nodes \cup {NoNode},       \* the node being handled
     cause : Cause,
     status : {"none"} \cup FinalStatus,
     fenced : BOOLEAN]                 \* history: one of its saves was rejected

Off ==
    [pc |-> "off", stage |-> "start", mem |-> NewRun, version |-> 0,
     lease_version |-> 0, outcomes |-> [n \in Nodes |-> "none"], work |-> {},
     todo |-> {}, node |-> NoNode, cause |-> "none", status |-> "none",
     fenced |-> FALSE]

Stopped == [Off EXCEPT !.pc = "done"]

\* node_phase_handles[n]: no timer, one that is running, one that has fired.
Handle == {"none", "startup", "runtime", "startup_fired", "runtime_fired"}

Message == [type : {"start_timeout", "timed_out", "pod_running", "infra_failed"},
            node : Nodes]

SignalState ==
    [handle : [Nodes -> Handle],
     detached : SUBSET (Nodes \X {"startup", "runtime"}),
     inbox : Seq(Message),
     seed : SUBSET Nodes,       \* the watcher's seed_running
     told : SUBSET (Nodes \X {"running", "failed"}),
     expected : SUBSET Nodes]   \* the watcher's expected_deletions

NoSignals ==
    [handle |-> [n \in Nodes |-> "none"], detached |-> {}, inbox |-> << >>,
     seed |-> {}, told |-> {}, expected |-> {}]

\* The state of every component has its type.
TypeOK ==
    /\ StoreTypeOK
    /\ WorkersTypeOK
    /\ HistoryTypeOK
    /\ BackplaneTypeOK
    /\ co \in [Servers -> CoordinatorState]
    /\ sig \in [Servers -> SignalState]

CoordinatorInit ==
    /\ co = [s \in Servers |-> Off]
    /\ sig = [s \in Servers |-> NoSignals]

Init ==
    /\ StoreInit
    /\ WorkersInit
    /\ HistoryInit
    /\ BackplaneInit
    /\ CoordinatorInit

----------------------------------------------------------------------------
(* Helpers                                                                 *)

\* Mutant: run() cleans up before finalize_run.
Finish_cleanup_first(r, status) ==
    [r EXCEPT !.pc = "cleanup", !.status = status, !.work = {}, !.todo = {},
              !.node = NoNode, !.cause = "none",
              !.outcomes = [n \in Nodes |-> "none"]]

\* run() leaves its loop: finalize_run(status), then cleanup().
Finish(r, status) ==
    [r EXCEPT !.pc = "finalize", !.status = status, !.work = {}, !.todo = {},
              !.node = NoNode, !.cause = "none",
              !.outcomes = [n \in Nodes |-> "none"]]

\* The nodes that rehydration promotes instead of dispatching them.
to_promote(r) == {n \in Nodes : r.outcomes[n] = "started" /\ r.mem[n] = "pending"}

\* The control flow after a handler has returned without stopping the run.
Resume(r) ==
    LET idle == [r EXCEPT !.node = NoNode, !.cause = "none"]
    IN  IF r.work # {} THEN
            [idle EXCEPT !.pc = IF r.stage = "promote" THEN "promote" ELSE "fold"]
        ELSE IF r.stage = "fold" THEN
            [idle EXCEPT !.pc = "promote", !.stage = "promote", !.work = to_promote(r)]
        ELSE IF r.stage = "promote" THEN
            [idle EXCEPT !.pc = "promote"]
        ELSE IF is_complete(r.mem) THEN
            Finish(r, outcome_status(r.mem))
        ELSE
            [idle EXCEPT !.pc = "loop", !.stage = "loop",
                         !.outcomes = [n \in Nodes |-> "none"]]

\* dispatch_ready_nodes takes its list once, on entry.
EnterDispatch(r) ==
    IF ready_nodes(r.mem) = {}
    THEN Resume(r)
    ELSE [r EXCEPT !.pc = "dispatch", !.todo = ready_nodes(r.mem)]

\* persist_state: the version advances only if the save was accepted.
persist_state(r) == save_run(r.mem, r.version + 1, r.version)

Persisted(r) ==
    IF SaveAccepted(r.version)
    THEN [r EXCEPT !.version = @ + 1]
    ELSE [r EXCEPT !.fenced = TRUE]

\* A save that errors leaves the version as it is, executed or not.
persist_errs(r) == RedisErrs /\ (persist_state(r) \/ UNCHANGED store)

Running(h) == h \in {"startup", "runtime"}

\* Inserting into node_phase_handles drops the JoinHandle it replaces, which
\* detaches that timer's task without stopping it.
arm(g, n, phase) ==
    [g EXCEPT !.handle[n] = phase,
              !.detached = IF Running(g.handle[n]) THEN @ \cup {<<n, g.handle[n]>>} ELSE @]

\* Removing it and calling abort() stops the task.
cancel_node_timeout(g, n) == [g EXCEPT !.handle[n] = "none"]

\* Which of the nodes S a call to S3, to Postgres or to Kubernetes gets
\* through for: all of them, unless the service fails.
Reached(S, service) == IF service \in Faults THEN SUBSET S ELSE {S}

\* Mutant: the ConfigMaps are forgotten.
cleanup_run_jobs ==
    \E jobs \in Reached(Nodes, "kube"), objects \in Reached(Nodes, "s3") :
        delete_objects(jobs, {}, objects)

\* Jobs, then ConfigMaps, then S3 objects.  Each deletion may fail by itself,
\* and no caller stops for it.
cleanup_run ==
    \E jobs, cms \in Reached(Nodes, "kube"), objects \in Reached(Nodes, "s3") :
        delete_objects(jobs, cms, objects)

cancel_node(n) ==
    \E jobs, cms \in Reached({n}, "kube") : delete_objects(jobs, cms, {})

----------------------------------------------------------------------------
(* start_coordinator                                                       *)

Goto(s, pc) == co' = [co EXCEPT ![s].pc = pc]

\* try_acquire_lease; if the lease is taken, or Redis errs, the call returns
\* None and the server id is forgotten; it is spent if the lease carries it.
AcquireLease(s) ==
    /\ co[s].pc = "acquire"
    /\ \/ /\ try_acquire_lease(s)
          /\ co' = [co EXCEPT ![s].pc = "acquired", ![s].lease_version = lease_ver + 1]
       \/ /\ Leased \/ RedisErrs
          /\ Goto(s, "off")
          /\ UNCHANGED <<lease, lease_ver>>
       \/ /\ RedisErrs
          /\ try_acquire_lease(s)
          /\ co' = [co EXCEPT ![s] = Stopped]
    /\ UNCHANGED <<store, workerVars, historyVars, backplaneVars, sig>>

RecordPipelineStarted(s) ==
    /\ co[s].pc = "acquired"
    /\ \/ record_pipeline_started
       \/ "history" \in Faults /\ UNCHANGED historyVars
    /\ Goto(s, "load")
    /\ UNCHANGED <<storeVars, workerVars, backplaneVars, sig>>

\* Mutant: what load_run returns is used without looking.
LoadRun_unchecked(s) ==
    /\ co[s].pc = "load"
    /\ co' = [co EXCEPT ![s].pc = "read_outcomes", ![s].stage = "fold",
                        ![s].mem = store.statuses, ![s].version = store.version]
    /\ UNCHANGED <<storeVars, workerVars, historyVars, backplaneVars, sig>>

\* initialize_run_state; an existing state makes this a rehydration, and its
\* running nodes seed the pod watcher.  A load that fails starts the run afresh.
LoadRun(s) ==
    /\ co[s].pc = "load"
    /\ \/ /\ RunExists
          /\ co' = [co EXCEPT ![s].pc = "read_outcomes", ![s].stage = "fold",
                              ![s].mem = store.statuses, ![s].version = store.version]
          /\ sig' = [sig EXCEPT ![s].seed =
                        {n \in Nodes : store.statuses[n] = "running"}]
       \/ ~RunExists /\ Goto(s, "save_initial") /\ UNCHANGED sig
       \/ RedisErrs /\ Goto(s, "subscribe") /\ UNCHANGED sig
    /\ UNCHANGED <<storeVars, workerVars, historyVars, backplaneVars>>

\* The result of the initial save is not looked at.
SaveInitial(s) ==
    /\ co[s].pc = "save_initial"
    /\ \/ save_run(NewRun, 0, 0)
       \/ RedisErrs /\ UNCHANGED store
    /\ Goto(s, "subscribe")
    /\ UNCHANGED <<lease, lease_ver, workerVars, historyVars, backplaneVars, sig>>

----------------------------------------------------------------------------
(* Node completions: poked over the backplane or read from S3              *)

\* The handlers' persist_state: run() ends if the save is rejected or errs,
\* else it goes on at pc.
PersistOrFinish(s, r, pc) ==
    \/ /\ persist_state(r)
       /\ co' = [co EXCEPT ![s] = IF SaveAccepted(r.version)
                                  THEN [Persisted(r) EXCEPT !.pc = pc]
                                  ELSE Finish(Persisted(r), "failure")]
    \/ /\ persist_errs(r)
       /\ co' = [co EXCEPT ![s] = Finish(r, "failure")]

\* The coordinator r as handle_node_completed marks it.
Completes(r, n, success) ==
    [r EXCEPT !.mem = IF success THEN mark_success(@, n) ELSE mark_failed(@, n),
              !.node = n, !.cause = IF success THEN "success" ELSE "failure"]

\* Mutant: a save that errs is only logged.
handle_node_completed_tolerant(s, r, n, success) ==
    LET marked == Completes(r, n, success)
    IN  /\ \/ PersistOrFinish(s, marked, "record")
           \/ /\ persist_errs(marked)
              /\ co' = [co EXCEPT ![s] = [marked EXCEPT !.pc = "record"]]
        /\ sig' = [sig EXCEPT ![s] = cancel_node_timeout(@, n)]

\* handle_node_completed up to its save: r is the coordinator that calls it.
\* A node that was terminal already keeps its status and is saved again.
handle_node_completed(s, r, n, success) ==
    /\ PersistOrFinish(s, Completes(r, n, success), "record")
    /\ sig' = [sig EXCEPT ![s] = cancel_node_timeout(@, n)]

\* read_outcomes_for_non_terminal: a read that fails or that the time budget
\* cuts off leaves its node out.
read_outcomes(r, readable) ==
    [n \in Nodes |-> IF Active(r.mem, n) /\ n \in readable THEN s3[n] ELSE "none"]

Readable == Reached(Nodes, "s3")

\* The nodes whose rows Postgres writes, or reads, without an error.
Recordable == Reached(Nodes, "history")

CompletedIn(outcomes) == {n \in Nodes : Completed(outcomes[n])}

\* The first thing a rehydrated coordinator does.
ReadOutcomes(s) ==
    /\ co[s].pc = "read_outcomes"
    /\ \E readable \in Readable :
          LET outcomes == read_outcomes(co[s], readable)
          IN  co' = [co EXCEPT ![s] = Resume([co[s] EXCEPT !.outcomes = outcomes,
                                                  !.work = CompletedIn(outcomes)])]
    /\ UNCHANGED <<storeVars, workerVars, historyVars, backplaneVars, sig>>

\* reconcile_running_against_s3 in the select loop.  A tick that finds no
\* completion changes nothing.
PeriodicReconcile(s) ==
    /\ co[s].pc = "loop"
    /\ LET outcomes == read_outcomes(co[s], Nodes)
       IN  /\ CompletedIn(outcomes) # {}
           /\ co' = [co EXCEPT ![s].pc = "fold", ![s].outcomes = outcomes,
                               ![s].work = CompletedIn(outcomes)]
    /\ UNCHANGED <<storeVars, workerVars, historyVars, backplaneVars, sig>>

\* Mutant: every completion counts as a success.
FoldCompletion_success(s) ==
    /\ co[s].pc = "fold"
    /\ \E n \in co[s].work :
          handle_node_completed(s, [co[s] EXCEPT !.work = @ \ {n}], n, TRUE)
    /\ UNCHANGED <<lease, lease_ver, workerVars, historyVars, backplaneVars>>

\* fold_completions_from_outcomes goes through a hash map: any order.
FoldCompletion(s) ==
    /\ co[s].pc = "fold"
    /\ \E n \in co[s].work :
          handle_node_completed(s, [co[s] EXCEPT !.work = @ \ {n}], n,
                                co[s].outcomes[n] = "success")
    /\ UNCHANGED <<lease, lease_ver, workerVars, historyVars, backplaneVars>>

\* cancel_node: reached from an infrastructure failure or a timeout, after
\* the watcher was told to expect the deletion.
CancelNode(s) ==
    /\ co[s].pc = "cancel"
    /\ cancel_node(co[s].node)
    /\ sig' = [sig EXCEPT ![s].expected = @ \cup {co[s].node}]
    /\ Goto(s, "record")
    /\ UNCHANGED <<storeVars, historyVars, backplaneVars>>

\* Mutant: what is not an infrastructure failure is a success.
NodeRowFor_no_status(r) == IF r.cause = "infra" THEN "infra" ELSE "success"

NodeRowFor(r) ==
    IF r.mem[r.node] = "success" THEN "success"
    ELSE IF r.cause = "infra" THEN "infra" ELSE "failure"

\* Mutant: fail_fast is not looked at.
RecordNodeCompleted_slow(s) ==
    /\ co[s].pc = "record"
    /\ record_node_run(co[s].node, NodeRowFor(co[s]))
    /\ co' = [co EXCEPT ![s] = EnterDispatch(@)]
    /\ UNCHANGED <<storeVars, workerVars, backplaneVars, sig>>

\* record_node_completed, then fail fast or dispatch what became ready.
RecordNodeCompleted(s) ==
    /\ co[s].pc = "record"
    /\ \/ record_node_run(co[s].node, NodeRowFor(co[s]))
       \/ "history" \in Faults /\ UNCHANGED historyVars
    /\ co' = [co EXCEPT ![s] = IF @.cause # "success" /\ FailFast
                               THEN Finish(@, "failure")
                               ELSE EnterDispatch(@)]
    /\ UNCHANGED <<storeVars, workerVars, backplaneVars, sig>>

----------------------------------------------------------------------------
(* dispatch_ready_nodes                                                    *)

\* One iteration up to the end of dispatcher.dispatch.
DispatchNode(s) ==
    /\ co[s].pc = "dispatch"
    /\ \E n \in co[s].todo :
          \/ /\ CanDispatch(n)
             /\ dispatch(n)
             /\ co' = [co EXCEPT ![s].pc = "dispatched", ![s].todo = @ \ {n},
                                 ![s].node = n, ![s].cause = "dispatched",
                                 ![s].mem = mark_running(@, n)]
          \/ /\ \/ ~CanDispatch(n) /\ UNCHANGED workerVars
                \/ "kube" \in Faults /\ dispatch_errs(n)
             /\ co' = [co EXCEPT ![s].pc = "dispatched", ![s].todo = @ \ {n},
                                 ![s].node = n, ![s].cause = "dispatch_failed",
                                 ![s].mem = mark_dispatch_failed(@, n)]
    /\ UNCHANGED <<storeVars, historyVars, backplaneVars, sig>>

\* A save whose failure, rejection or error, is only logged.
PersistAnyhow(s, r, pc) ==
    \/ /\ persist_state(r)
       /\ co' = [co EXCEPT ![s] = [Persisted(r) EXCEPT !.pc = pc]]
    \/ /\ persist_errs(r)
       /\ co' = [co EXCEPT ![s] = [r EXCEPT !.pc = pc]]

\* persist_state_after_dispatch_transition.
PersistDispatch(s) ==
    /\ co[s].pc = "dispatched"
    /\ PersistAnyhow(s, co[s], "dispatch_record")
    /\ UNCHANGED <<lease, lease_ver, workerVars, historyVars, backplaneVars, sig>>

\* record_node_dispatched and the startup timer, or record_dispatch_failed.
RecordDispatch(s) ==
    /\ co[s].pc = "dispatch_record"
    /\ LET n == co[s].node
       IN  IF co[s].cause = "dispatched"
           THEN /\ \/ record_node_dispatched(n)
                   \/ "history" \in Faults /\ UNCHANGED historyVars
                /\ sig' = [sig EXCEPT ![s] = arm(@, n, "startup")]
           ELSE /\ \/ record_node_run(n, "dispatch_failed")
                   \/ "history" \in Faults /\ UNCHANGED historyVars
                /\ UNCHANGED sig
    /\ co' = [co EXCEPT ![s] = IF @.todo = {}
                               THEN Resume(@)
                               ELSE [@ EXCEPT !.pc = "dispatch", !.node = NoNode,
                                              !.cause = "none"]]
    /\ UNCHANGED <<storeVars, workerVars, backplaneVars>>

----------------------------------------------------------------------------
(* The rest of rehydration, and the subscription                           *)

\* handle_node_infra_failed, or handle_node_timed_out, up to the save.
FailNode(s, r, n, cause, signals) ==
    /\ PersistOrFinish(s, [r EXCEPT !.mem = mark_failed(@, n), !.node = n, !.cause = cause],
                       "cancel")
    /\ sig' = [sig EXCEPT ![s] = signals]

\* promote_started_pending_to_running, one node.  Nodes that stopped being
\* pending meanwhile are skipped.
PromoteNode(s) ==
    /\ co[s].pc = "promote"
    /\ \E n \in co[s].work :
          LET r == [co[s] EXCEPT !.work = @ \ {n}]
          IN  IF r.mem[n] = "pending"
              THEN PersistAnyhow(s, [r EXCEPT !.mem = mark_running(@, n), !.node = n],
                                 "promote_check")
              ELSE /\ co' = [co EXCEPT ![s] = Resume(r)]
                   /\ UNCHANGED store
    /\ UNCHANGED <<lease, lease_ver, workerVars, historyVars, backplaneVars, sig>>

\* node_pod_exists: a promoted node without a pod has failed; if the query
\* itself fails the node is left to its runtime timer.
PromoteCheck(s) ==
    /\ co[s].pc = "promote_check"
    /\ \/ /\ node_pod_exists(co[s].node) \/ "kube" \in Faults
          /\ co' = [co EXCEPT ![s] = Resume(@)]
          /\ UNCHANGED <<store, sig>>
       \/ /\ ~node_pod_exists(co[s].node)
          /\ FailNode(s, co[s], co[s].node, "infra",
                      cancel_node_timeout(sig[s], co[s].node))
    /\ UNCHANGED <<lease, lease_ver, workerVars, historyVars, backplaneVars>>

\* rehydrate_phase_timers takes the phase from S3, else from the node's row,
\* which is not found if Postgres has none or fails the query (n not `found`).
TimerPhaseFor(r, n, found) ==
    IF r.outcomes[n] = "started" \/ node_rows[n] = "none" \/ n \notin found
    THEN "runtime" ELSE "startup"

\* Mutant: only nodes that S3 calls started get their timer back.
RehydrateTimers_started(s) ==
    /\ co[s].pc = "promote"
    /\ co[s].work = {}
    /\ sig' = [sig EXCEPT ![s].handle = [n \in Nodes |->
                  IF co[s].mem[n] = "running" /\ co[s].outcomes[n] = "started"
                  THEN "runtime" ELSE @[n]]]
    /\ co' = [co EXCEPT ![s] =
                 IF is_complete(@.mem)
                 THEN Finish(@, outcome_status(@.mem))
                 ELSE [@ EXCEPT !.pc = "subscribe", !.stage = "start",
                                !.outcomes = [n \in Nodes |-> "none"]]]
    /\ UNCHANGED <<storeVars, workerVars, historyVars, backplaneVars>>

RehydrateTimers(s) ==
    /\ co[s].pc = "promote"
    /\ co[s].work = {}
    /\ LET running == {n \in Nodes : co[s].mem[n] = "running"}
           replaced == {n \in running : Running(sig[s].handle[n])}
       IN  \E found \in Recordable : sig' = [sig EXCEPT
             ![s].handle = [n \in Nodes |-> IF n \in running
                                            THEN TimerPhaseFor(co[s], n, found) ELSE @[n]],
             ![s].detached = @ \cup {<<n, sig[s].handle[n]>> : n \in replaced}]
    /\ co' = [co EXCEPT ![s] =
                 IF is_complete(@.mem)
                 THEN Finish(@, outcome_status(@.mem))
                 ELSE [@ EXCEPT !.pc = "subscribe", !.stage = "start",
                                !.outcomes = [n \in Nodes |-> "none"]]]
    /\ UNCHANGED <<storeVars, workerVars, historyVars, backplaneVars>>

\* run() has returned, or its process has died: its memory, its timers, its
\* watcher and its queue are gone.
Stop(s) ==
    /\ co' = [co EXCEPT ![s] = Stopped]
    /\ sig' = [sig EXCEPT ![s] = NoSignals]
    /\ unsubscribe(s)

\* If the subscription fails run() returns at once, with its lease held.
Subscribe(s) ==
    /\ co[s].pc = "subscribe"
    /\ \/ /\ CanSubscribe
          /\ subscribe_run(s)
          /\ co' = [co EXCEPT ![s] = EnterDispatch(@)]
          /\ UNCHANGED sig
       \/ /\ ~CanSubscribe \/ "backplane" \in Faults
          /\ Stop(s)
    /\ UNCHANGED <<storeVars, workerVars, historyVars>>

----------------------------------------------------------------------------
(* The select loop                                                         *)

\* The heartbeat finds the lease gone or taken over, or errs: run() returns
\* and touches nothing.  A renewal that succeeds changes nothing in this model.
HeartbeatFails(s) ==
    /\ co[s].pc = "loop"
    /\ ~Renewable(s, co[s].lease_version) \/ RedisErrs
    /\ Stop(s)
    /\ UNCHANGED <<storeVars, workerVars, historyVars>>

PipelineDeadline(s) ==
    /\ "deadline" \in Signals
    /\ co[s].pc = "loop"
    /\ co' = [co EXCEPT ![s] = Finish(@, "failure")]
    /\ UNCHANGED <<storeVars, workerVars, historyVars, backplaneVars, sig>>

\* The consumer ends (broker restart, channel error): the run is failed.
SubscriptionClosed(s) ==
    /\ "closed" \in Signals
    /\ co[s].pc = "loop"
    /\ subscriber = s
    /\ unsubscribe(s)
    /\ co' = [co EXCEPT ![s] = Finish(@, "failure")]
    /\ UNCHANGED <<storeVars, workerVars, historyVars, sig>>

Receives(s) == co[s].pc = "loop" /\ subscriber = s /\ events # << >>

ReceiveNodeCompleted(s) ==
    /\ Receives(s)
    /\ Head(events).type = "node_completed"
    /\ next_event
    /\ handle_node_completed(s, co[s], Head(events).node, Head(events).success)
    /\ UNCHANGED <<lease, lease_ver, workerVars, historyVars>>

ReceiveCancel(s) ==
    /\ Receives(s)
    /\ Head(events).type = "cancel"
    /\ next_event
    /\ co' = [co EXCEPT ![s] = Finish(@, "cancelled")]
    /\ UNCHANGED <<storeVars, workerVars, historyVars, sig>>

Got(s, type) == co[s].pc = "loop" /\ sig[s].inbox # << >> /\ Head(sig[s].inbox).type = type

Consumed(s) == [sig[s] EXCEPT !.inbox = Tail(@)]

\* Mutant: the startup timer is aborted and no other one armed.
HandlePodRunning_unarmed(s) ==
    /\ Got(s, "pod_running")
    /\ sig' = [sig EXCEPT ![s] = cancel_node_timeout(Consumed(s), Head(sig[s].inbox).node)]
    /\ UNCHANGED <<storeVars, workerVars, historyVars, backplaneVars, co>>

\* handle_pod_running looks at the timer only, never at the node's status.
HandlePodRunning(s) ==
    /\ Got(s, "pod_running")
    /\ LET n == Head(sig[s].inbox).node
       IN  sig' = [sig EXCEPT ![s] = [Consumed(s) EXCEPT !.handle[n] =
                     IF @ \in {"runtime", "runtime_fired"} THEN @ ELSE "runtime"]]
    /\ UNCHANGED <<storeVars, workerVars, historyVars, backplaneVars, co>>

\* NodeInfraFailed, NodePodStartTimedOut and NodeTimedOut: nothing happens to
\* a terminal node.  Only the first two drop the node's timer.
HandleNodeFailure(s, type) ==
    /\ Got(s, type)
    /\ LET n == Head(sig[s].inbox).node
           cause == IF type = "timed_out" THEN "failure" ELSE "infra"
           signals == IF type = "timed_out" THEN Consumed(s)
                      ELSE cancel_node_timeout(Consumed(s), n)
       IN  IF Active(co[s].mem, n)
           THEN FailNode(s, co[s], n, cause, signals)
           ELSE /\ sig' = [sig EXCEPT ![s] = Consumed(s)]
                /\ UNCHANGED <<store, co>>
    /\ UNCHANGED <<lease, lease_ver, workerVars, historyVars, backplaneVars>>

HandleNodeInfraFailed(s) == HandleNodeFailure(s, "infra_failed")

HandlePodStartTimedOut(s) == HandleNodeFailure(s, "start_timeout")

HandleNodeTimedOut(s) == HandleNodeFailure(s, "timed_out")

----------------------------------------------------------------------------
(* The tasks beside the loop: phase timers, pod watcher and signal relay   *)

\* While run() may still come back to its loop and read the channel.
Listening(s) ==
    co[s].pc \in {"read_outcomes", "fold", "promote", "promote_check", "subscribe",
                  "record", "cancel", "dispatch", "dispatched", "dispatch_record", "loop"}

Send(g, type, n) == [g EXCEPT !.inbox = Append(@, [type |-> type, node |-> n])]

TimeoutMessage(phase) == IF phase = "startup" THEN "start_timeout" ELSE "timed_out"

Fired(phase) == IF phase = "startup" THEN "startup_fired" ELSE "runtime_fired"

TimerFires(s, n) ==
    /\ Listening(s)
    /\ sig[s].handle[n] \in Signals \cap {"startup", "runtime"}
    /\ LET phase == sig[s].handle[n]
       IN  sig' = [sig EXCEPT ![s] = [Send(sig[s], TimeoutMessage(phase), n) EXCEPT
                                        !.handle[n] = Fired(phase)]]
    /\ UNCHANGED <<storeVars, workerVars, historyVars, backplaneVars, co>>

DetachedTimerFires(s) ==
    /\ Listening(s)
    /\ \E t \in sig[s].detached :
          /\ t[2] \in Signals
          /\ sig' = [sig EXCEPT ![s] = [Send(sig[s], TimeoutMessage(t[2]), t[1]) EXCEPT
                                          !.detached = @ \ {t}]]
    /\ UNCHANGED <<storeVars, workerVars, historyVars, backplaneVars, co>>

WatcherReportsRunning(s, n) ==
    /\ "running" \in Signals
    /\ Listening(s)
    /\ job[n] = "running"
    /\ <<n, "running">> \notin sig[s].told
    /\ sig' = [sig EXCEPT ![s] = [Send(sig[s], "pod_running", n) EXCEPT
                                    !.told = @ \cup {<<n, "running">>}]]
    /\ UNCHANGED <<storeVars, workerVars, historyVars, backplaneVars, co>>

\* A broken pod, or the deletion of a pod that ran (or that the persisted
\* state calls running) and that the coordinator did not announce.
WatcherReportsFailure(s, n) ==
    /\ "failed" \in Signals
    /\ Listening(s)
    /\ \/ job[n] = "broken"
       \/ /\ job[n] = "none"
          /\ n \notin sig[s].expected
          /\ n \in sig[s].seed \/ <<n, "running">> \in sig[s].told
    /\ <<n, "failed">> \notin sig[s].told
    /\ sig' = [sig EXCEPT ![s] = [Send(sig[s], "infra_failed", n) EXCEPT
                                    !.told = @ \cup {<<n, "failed">>}]]
    /\ UNCHANGED <<storeVars, workerVars, historyVars, backplaneVars, co>>

----------------------------------------------------------------------------
(* finalize_run and cleanup                                                *)

\* Mutant: the nodes that are still running get no row.
RecordTerminated_unrecorded(s) ==
    /\ co[s].pc = "finalize"
    /\ Goto(s, "report")
    /\ UNCHANGED <<storeVars, workerVars, historyVars, backplaneVars, sig>>

\* record_history: every node still running gets a row with what S3 says of
\* it (failure, if S3 cannot be read), and counts as failed from here on, in
\* memory only.  `recorded` are the rows Postgres accepts.
RecordTerminated(s) ==
    /\ co[s].pc = "finalize"
    /\ LET running == {n \in Nodes : co[s].mem[n] = "running"}
       IN  /\ \E readable \in Readable, recorded \in Recordable :
                record_node_runs([n \in Nodes |->
                    IF n \notin running \cap recorded THEN "none"
                    ELSE IF n \in readable /\ s3[n] = "success" THEN "success"
                    ELSE "failure"])
           /\ co' = [co EXCEPT ![s].pc = "report",
                               ![s].mem = [n \in Nodes |->
                                   IF n \in running THEN "failed" ELSE @[n]]]
    /\ UNCHANGED <<storeVars, workerVars, backplaneVars, sig>>

\* record_pipeline_run, then the status reporter.
ReportStatus(s) ==
    /\ co[s].pc = "report"
    /\ \/ record_pipeline_run(co[s].status)
       \/ "history" \in Faults /\ UNCHANGED historyVars
    /\ Goto(s, "cleanup")
    /\ UNCHANGED <<storeVars, workerVars, backplaneVars, sig>>

\* cleanup: an error of any of its three calls is only logged.
CleanupRun(s) ==
    /\ co[s].pc = "cleanup"
    /\ cleanup_run
    /\ Goto(s, "release")
    /\ UNCHANGED <<storeVars, historyVars, backplaneVars, sig>>

ReleaseLease(s) ==
    /\ co[s].pc = "release"
    /\ release_lease \/ (RedisErrs /\ UNCHANGED lease)
    /\ Goto(s, "delete")
    /\ UNCHANGED <<store, lease_ver, workerVars, historyVars, backplaneVars, sig>>

\* delete_run, and the end of the task: terminate_running_nodes finds no
\* running node left.
DeleteRun(s) ==
    /\ co[s].pc = "delete"
    /\ delete_run \/ (RedisErrs /\ UNCHANGED store)
    /\ Stop(s)
    /\ UNCHANGED <<lease, lease_ver, workerVars, historyVars>>

============================================================================
