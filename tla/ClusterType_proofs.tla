------------------------ MODULE ClusterType_proofs ------------------------
(***************************************************************************)
(* Type correctness of Cluster for every graph, every number of servers    *)
(* and every setting: Spec => []ClusterTypeOK.  The lemmas say of each     *)
(* helper of Coordinator what it returns, then of each action that it      *)
(* keeps the types of what it changes.                                     *)
(***************************************************************************)
EXTENDS Cluster, TLAPS

CoTypeOK == co \in [Servers -> CoordinatorState]

SigTypeOK == sig \in [Servers -> SignalState]

----------------------------------------------------------------------------
(* Statuses and the graph                                                  *)

\* A transition of run.rs returns a status function.
LEMMA MarkType ==
    ASSUME NEW st \in Statuses, NEW n \in Nodes
    PROVE  /\ mark_running(st, n) \in Statuses
           /\ mark_success(st, n) \in Statuses
           /\ mark_failed(st, n) \in Statuses
           /\ mark_dispatch_failed(st, n) \in Statuses
BY DEF Statuses, NodeStatus, mark_running, mark_success, mark_failed, mark_dispatch_failed

\* A fresh run has a status function.
LEMMA NewRunType == NewRun \in Statuses
BY DEF NewRun, Statuses, NodeStatus

\* The outcome of a run is a final status.
LEMMA OutcomeType == ASSUME NEW st PROVE outcome_status(st) \in FinalStatus
BY DEF outcome_status, FinalStatus

----------------------------------------------------------------------------
(* Coordinator records                                                     *)

\* Leaving the loop keeps the record's type.
LEMMA FinishType ==
    ASSUME NEW r \in CoordinatorState, NEW v \in FinalStatus
    PROVE  Finish(r, v) \in CoordinatorState
BY DEF Finish, CoordinatorState, Pc, S3Status, Cause, FinalStatus

\* Moving on keeps it.
LEMMA PcType ==
    ASSUME NEW r \in CoordinatorState, NEW pc \in Pc
    PROVE  [r EXCEPT !.pc = pc] \in CoordinatorState
BY DEF CoordinatorState

\* Returning from a handler keeps it.
LEMMA ResumeType ==
    ASSUME NEW r \in CoordinatorState
    PROVE  Resume(r) \in CoordinatorState
<1> DEFINE idle == [r EXCEPT !.node = NoNode, !.cause = "none"]
<1>1. Finish(r, outcome_status(r.mem)) \in CoordinatorState
    BY FinishType, OutcomeType
<1>2. to_promote(r) \in SUBSET Nodes
    BY DEF to_promote
<1>3. idle \in CoordinatorState
    BY DEF CoordinatorState, Cause
<1> HIDE DEF idle
<1>4. [idle EXCEPT !.pc = IF r.stage = "promote" THEN "promote" ELSE "fold"]
          \in CoordinatorState
    BY <1>3 DEF CoordinatorState, Pc
<1>5. [idle EXCEPT !.pc = "promote", !.stage = "promote", !.work = to_promote(r)]
          \in CoordinatorState
    BY <1>2, <1>3 DEF CoordinatorState, Pc, Stage
<1>6. [idle EXCEPT !.pc = "promote"] \in CoordinatorState
    BY <1>3 DEF CoordinatorState, Pc
<1>7. [idle EXCEPT !.pc = "loop", !.stage = "loop",
                   !.outcomes = [n \in Nodes |-> "none"]] \in CoordinatorState
    BY <1>3 DEF CoordinatorState, Pc, Stage, S3Status
<1> QED
    BY <1>1, <1>4, <1>5, <1>6, <1>7, Zenon DEF Resume, idle

\* Entering dispatch_ready_nodes keeps it.
LEMMA EnterDispatchType ==
    ASSUME NEW r \in CoordinatorState
    PROVE  EnterDispatch(r) \in CoordinatorState
<1>1. ready_nodes(r.mem) \in SUBSET Nodes
    BY DEF ready_nodes
<1>2. [r EXCEPT !.pc = "dispatch", !.todo = ready_nodes(r.mem)] \in CoordinatorState
    BY <1>1 DEF CoordinatorState, Pc
<1> QED
    BY <1>2, ResumeType DEF EnterDispatch

\* Saving keeps it.
LEMMA PersistedType ==
    ASSUME NEW r \in CoordinatorState
    PROVE  Persisted(r) \in CoordinatorState
<1>1. r.version + 1 \in Nat
    BY DEF CoordinatorState
<1>2. [r EXCEPT !.version = r.version + 1] \in CoordinatorState
    BY <1>1 DEF CoordinatorState
<1>3. [r EXCEPT !.fenced = TRUE] \in CoordinatorState
    BY DEF CoordinatorState
<1> QED
    BY <1>2, <1>3 DEF Persisted

\* One coordinator changes, by a record of the type.
LEMMA PutType ==
    ASSUME CoTypeOK, NEW s \in Servers, NEW r \in CoordinatorState,
           co' = [co EXCEPT ![s] = r]
    PROVE  CoTypeOK'
BY DEF CoTypeOK

\* Goto moves one coordinator on.
LEMMA GotoType ==
    ASSUME CoTypeOK, NEW s \in Servers, NEW pc \in Pc, Goto(s, pc)
    PROVE  CoTypeOK'
<1>1. [co[s] EXCEPT !.pc = pc] \in CoordinatorState
    BY PcType DEF CoTypeOK
<1>2. co' = [co EXCEPT ![s] = [co[s] EXCEPT !.pc = pc]]
    BY DEF Goto
<1> QED
    BY <1>1, <1>2, PutType

----------------------------------------------------------------------------
(* Signal records                                                          *)

\* Arming a timer keeps the type of the signals.
LEMMA ArmType ==
    ASSUME NEW g \in SignalState, NEW n \in Nodes, NEW phase \in {"startup", "runtime"}
    PROVE  arm(g, n, phase) \in SignalState
<1> DEFINE h == [g.handle EXCEPT ![n] = phase]
           d == IF Running(g.handle[n])
                THEN g.detached \cup {<<n, g.handle[n]>>} ELSE g.detached
<1>1. h \in [Nodes -> Handle]
    BY DEF SignalState, Handle
<1>2. d \in SUBSET (Nodes \X {"startup", "runtime"})
    BY DEF SignalState, Running
<1>3. arm(g, n, phase) = [g EXCEPT !.handle = h, !.detached = d]
    BY DEF arm, SignalState
<1> HIDE DEF h, d
<1> QED
    BY <1>1, <1>2, <1>3 DEF SignalState

\* Dropping a timer keeps it.
LEMMA CancelTimeoutType ==
    ASSUME NEW g \in SignalState, NEW n \in Nodes
    PROVE  cancel_node_timeout(g, n) \in SignalState
BY DEF cancel_node_timeout, SignalState, Handle

\* A message in the channel keeps it.
LEMMA SendType ==
    ASSUME NEW g \in SignalState, NEW n \in Nodes,
           NEW type \in {"start_timeout", "timed_out", "pod_running", "infra_failed"}
    PROVE  Send(g, type, n) \in SignalState
<1>1. [type |-> type, node |-> n] \in Message
    BY DEF Message
<1>2. g.inbox \in Seq(Message)
    BY DEF SignalState
<1>3. Append(g.inbox, [type |-> type, node |-> n]) \in Seq(Message)
    BY <1>1, <1>2
<1> QED
    BY <1>3 DEF Send, SignalState

\* Taking the first message keeps it, and names a node.
LEMMA ConsumedType ==
    ASSUME SigTypeOK, NEW s \in Servers, sig[s].inbox # << >>
    PROVE  /\ Consumed(s) \in SignalState
           /\ Head(sig[s].inbox).node \in Nodes
<1>1. sig[s] \in SignalState
    BY DEF SigTypeOK
<1>2. sig[s].inbox \in Seq(Message)
    BY <1>1 DEF SignalState
<1>3. Tail(sig[s].inbox) \in Seq(Message) /\ Head(sig[s].inbox) \in Message
    BY <1>2
<1> QED
    BY <1>1, <1>3 DEF Consumed, SignalState, Message

\* The signals of one coordinator change, by a record of the type.
LEMMA PutSigType ==
    ASSUME SigTypeOK, NEW s \in Servers, NEW g \in SignalState,
           sig' = [sig EXCEPT ![s] = g]
    PROVE  SigTypeOK'
BY DEF SigTypeOK

\* A coordinator that has stopped, and its signals.
LEMMA OffType ==
    /\ Off \in CoordinatorState
    /\ Stopped \in CoordinatorState
    /\ NoSignals \in SignalState
<1>1. Off \in CoordinatorState
    BY NewRunType DEF Off, CoordinatorState, Pc, Stage, S3Status, Cause
<1>2. Stopped \in CoordinatorState
    BY <1>1, PcType DEF Stopped, Pc
<1>3. << >> \in Seq(Message)
    OBVIOUS
<1>4. NoSignals \in SignalState
    BY <1>3 DEF NoSignals, SignalState, Handle
<1> QED
    BY <1>1, <1>2, <1>4

----------------------------------------------------------------------------
(* The stores                                                              *)

\* A save keeps the type of the run state.
LEMMA SaveType ==
    ASSUME store \in RunState, NEW st \in Statuses, NEW v \in Nat, NEW e,
           save_run(st, v, e)
    PROVE  store' \in RunState
BY DEF save_run, RunState

\* Saving a coordinator's memory does.
LEMMA PersistType ==
    ASSUME store \in RunState, NEW r \in CoordinatorState, persist_state(r)
    PROVE  store' \in RunState
<1>1. r.mem \in Statuses /\ r.version + 1 \in Nat
    BY DEF CoordinatorState
<1> QED
    BY <1>1, SaveType DEF persist_state

\* So does a save that errs.
LEMMA PersistErrsType ==
    ASSUME store \in RunState, NEW r \in CoordinatorState, persist_errs(r)
    PROVE  store' \in RunState
BY PersistType DEF persist_errs

\* However a save ends, memory is as it was, and Redis holds what it held or
\* that memory.
LEMMA PersistCases ==
    ASSUME NEW s, NEW r, NEW pc
    PROVE  /\ PersistOrFinish(s, r, pc) =>
                 /\ \E p \in {r, Persisted(r)} :
                       \/ co' = [co EXCEPT ![s] = [p EXCEPT !.pc = pc]]
                       \/ co' = [co EXCEPT ![s] = Finish(p, "failure")]
                 /\ store' = store \/ store'.statuses = r.mem
           /\ PersistAnyhow(s, r, pc) =>
                 /\ \E p \in {r, Persisted(r)} : co' = [co EXCEPT ![s] = [p EXCEPT !.pc = pc]]
                 /\ store' = store \/ store'.statuses = r.mem
BY DEF PersistOrFinish, PersistAnyhow, persist_state, persist_errs, save_run

\* The fields a save leaves alone.
LEMMA PersistedFields ==
    ASSUME NEW r \in CoordinatorState, NEW p \in {r, Persisted(r)}
    PROVE  /\ p \in CoordinatorState
           /\ p.mem = r.mem /\ p.outcomes = r.outcomes /\ p.work = r.work /\ p.todo = r.todo
           /\ p.node = r.node /\ p.cause = r.cause /\ p.status = r.status
           /\ p.stage = r.stage /\ p.lease_version = r.lease_version /\ p.pc = r.pc
<1>1. p \in CoordinatorState
    BY PersistedType
<1> QED
    BY <1>1 DEF Persisted, CoordinatorState

\* A save that ends the run if it fails.
LEMMA PersistOrFinishType ==
    ASSUME TypeOK, NEW s \in Servers, NEW r \in CoordinatorState, NEW pc \in Pc,
           PersistOrFinish(s, r, pc)
    PROVE  store' \in RunState /\ CoTypeOK'
<1> DEFINE ok == [Persisted(r) EXCEPT !.pc = pc]
<1>1. store \in RunState /\ CoTypeOK
    BY DEF TypeOK, StoreTypeOK, CoTypeOK
<1>2. store' \in RunState
    BY <1>1, PersistType, PersistErrsType DEF PersistOrFinish
<1>3. Persisted(r) \in CoordinatorState
    BY PersistedType
<1>4. ok \in CoordinatorState
    BY <1>3, PcType
<1>5. /\ Finish(Persisted(r), "failure") \in CoordinatorState
      /\ Finish(r, "failure") \in CoordinatorState
    BY <1>3, FinishType DEF FinalStatus
<1>6. \/ co' = [co EXCEPT ![s] = ok]
      \/ co' = [co EXCEPT ![s] = Finish(Persisted(r), "failure")]
      \/ co' = [co EXCEPT ![s] = Finish(r, "failure")]
    BY DEF PersistOrFinish
<1> HIDE DEF ok
<1> QED
    BY <1>1, <1>2, <1>4, <1>5, <1>6, PutType

\* A save whose failure is only logged.
LEMMA PersistAnyhowType ==
    ASSUME TypeOK, NEW s \in Servers, NEW r \in CoordinatorState, NEW pc \in Pc,
           PersistAnyhow(s, r, pc)
    PROVE  store' \in RunState /\ CoTypeOK'
<1> DEFINE ok == [Persisted(r) EXCEPT !.pc = pc]
           erred == [r EXCEPT !.pc = pc]
<1>1. store \in RunState /\ CoTypeOK
    BY DEF TypeOK, StoreTypeOK, CoTypeOK
<1>2. store' \in RunState
    BY <1>1, PersistType, PersistErrsType DEF PersistAnyhow
<1>3. ok \in CoordinatorState /\ erred \in CoordinatorState
    BY PersistedType, PcType
<1>4. co' = [co EXCEPT ![s] = ok] \/ co' = [co EXCEPT ![s] = erred]
    BY DEF PersistAnyhow
<1> HIDE DEF ok, erred
<1> QED
    BY <1>1, <1>2, <1>3, <1>4, PutType

\* Upserting node rows keeps the type of the history.
LEMMA RecordRowsType ==
    ASSUME HistoryTypeOK, NEW rows \in [Nodes -> NodeRow], record_node_runs(rows)
    PROVE  HistoryTypeOK'
BY DEF record_node_runs, HistoryTypeOK

\* Upserting one row keeps it.
LEMMA RecordRowType ==
    ASSUME HistoryTypeOK, NEW n \in Nodes, NEW row \in NodeRow, record_node_run(n, row)
    PROVE  HistoryTypeOK'
<1>1. [m \in Nodes |-> IF m = n THEN row ELSE "none"] \in [Nodes -> NodeRow]
    BY DEF NodeRow
<1> QED
    BY <1>1, RecordRowsType DEF record_node_run

\* The pipeline row and the dispatch row.
LEMMA RecordPipelineType ==
    ASSUME HistoryTypeOK,
           \/ record_pipeline_started
           \/ \E v \in FinalStatus : record_pipeline_run(v) \/ finalize_pipeline_run_status(v)
           \/ \E n \in Nodes : record_node_dispatched(n)
           \/ UNCHANGED historyVars
    PROVE  HistoryTypeOK'
BY DEF HistoryTypeOK, record_pipeline_started, record_pipeline_run,
       finalize_pipeline_run_status, record_node_dispatched, historyVars, PipelineRow,
       FinalStatus, NodeRow

\* Cleaning up, or failing to, keeps the type of the workers' objects.
LEMMA CleanupType ==
    ASSUME WorkersTypeOK, cleanup_run \/ \E n \in Nodes : cancel_node(n)
    PROVE  WorkersTypeOK'
BY DEF WorkersTypeOK, cleanup_run, cancel_node, delete_objects, JobState, S3Status

\* So does a dispatch, done or failed.
LEMMA CreateType ==
    ASSUME WorkersTypeOK, NEW n \in Nodes,
           dispatch(n) \/ dispatch_errs(n) \/ UNCHANGED workerVars
    PROVE  WorkersTypeOK'
BY DEF WorkersTypeOK, dispatch, dispatch_errs, create_objects, workerVars, JobState

\* The queue keeps its type when its consumer goes.
LEMMA UnsubscribeType ==
    ASSUME BackplaneTypeOK, NEW s, unsubscribe(s)
    PROVE  BackplaneTypeOK'
<1>1. << >> \in Seq(BackplaneEvent)
    OBVIOUS
<1> QED
    BY <1>1 DEF BackplaneTypeOK, unsubscribe, backplaneVars

\* run() returns, or its process dies.
LEMMA StopType ==
    ASSUME CoTypeOK, SigTypeOK, BackplaneTypeOK, NEW s \in Servers, Stop(s)
    PROVE  CoTypeOK' /\ SigTypeOK' /\ BackplaneTypeOK'
BY OffType, PutType, PutSigType, UnsubscribeType DEF Stop

\* What an action leaves alone keeps its type.
LEMMA Stays ==
    /\ StoreTypeOK /\ UNCHANGED storeVars => StoreTypeOK'
    /\ WorkersTypeOK /\ UNCHANGED workerVars => WorkersTypeOK'
    /\ HistoryTypeOK /\ UNCHANGED historyVars => HistoryTypeOK'
    /\ BackplaneTypeOK /\ UNCHANGED backplaneVars => BackplaneTypeOK'
    /\ CoTypeOK /\ UNCHANGED co => CoTypeOK'
    /\ SigTypeOK /\ UNCHANGED sig => SigTypeOK'
BY DEF StoreTypeOK, storeVars, WorkersTypeOK, workerVars, HistoryTypeOK, historyVars,
       BackplaneTypeOK, backplaneVars, CoTypeOK, SigTypeOK

\* Only the run state changes.
LEMMA StoreOnlyType ==
    ASSUME StoreTypeOK, store' \in RunState, UNCHANGED <<lease, lease_ver>>
    PROVE  StoreTypeOK'
BY DEF StoreTypeOK

\* TypeOK in the parts the lemmas speak of.
LEMMA Parts == TypeOK <=> /\ StoreTypeOK /\ WorkersTypeOK /\ HistoryTypeOK
                         /\ BackplaneTypeOK /\ CoTypeOK /\ SigTypeOK
BY DEF TypeOK, CoTypeOK, SigTypeOK

\* The same of the next state.
LEMMA PartsNext == TypeOK' <=> /\ StoreTypeOK' /\ WorkersTypeOK' /\ HistoryTypeOK'
                              /\ BackplaneTypeOK' /\ CoTypeOK' /\ SigTypeOK'
BY DEF TypeOK, CoTypeOK, SigTypeOK

----------------------------------------------------------------------------
(* start_coordinator                                                       *)

\* Types survive try_acquire_lease, won or lost.
LEMMA AcquireLeaseType ==
    ASSUME TypeOK, NEW s \in Servers, AcquireLease(s)
    PROVE  TypeOK'
<1> USE Parts, PartsNext, Stays
<1>1. CASE Goto(s, "off") /\ UNCHANGED <<lease, lease_ver>>
    <2>1. CoTypeOK'
        BY <1>1, GotoType DEF Pc
    <2> QED
        BY <1>1, <2>1 DEF AcquireLease, storeVars
<1>2. CASE /\ try_acquire_lease(s)
           /\ co' = [co EXCEPT ![s].pc = "acquired", ![s].lease_version = lease_ver + 1]
    <2>1. lease_ver + 1 \in Nat
        BY DEF StoreTypeOK
    <2>2. StoreTypeOK'
        BY <1>2, <2>1 DEF StoreTypeOK, try_acquire_lease, Lease, AcquireLease
    <2>3. [co[s] EXCEPT !.pc = "acquired", !.lease_version = lease_ver + 1]
              \in CoordinatorState
        <3>1. co[s] \in CoordinatorState /\ "acquired" \in Pc
            BY DEF CoTypeOK, Pc
        <3> QED
            BY <2>1, <3>1 DEF CoordinatorState
    <2>4. CoTypeOK'
        BY <1>2, <2>3, PutType
    <2> QED
        BY <2>2, <2>4 DEF AcquireLease
<1>3. CASE try_acquire_lease(s) /\ co' = [co EXCEPT ![s] = Stopped]
    <2>1. lease_ver + 1 \in Nat
        BY DEF StoreTypeOK
    <2>2. StoreTypeOK'
        BY <1>3, <2>1 DEF StoreTypeOK, try_acquire_lease, Lease, AcquireLease
    <2>3. CoTypeOK'
        BY <1>3, OffType, PutType
    <2> QED
        BY <2>2, <2>3 DEF AcquireLease
<1> QED
    BY <1>1, <1>2, <1>3 DEF AcquireLease

\* Types survive record_pipeline_started.
LEMMA RecordPipelineStartedType ==
    ASSUME TypeOK, NEW s \in Servers, RecordPipelineStarted(s)
    PROVE  TypeOK'
<1>1. HistoryTypeOK'
    BY Parts, RecordPipelineType DEF RecordPipelineStarted
<1>2. CoTypeOK'
    BY Parts, GotoType DEF RecordPipelineStarted, Pc
<1> QED
    BY <1>1, <1>2, Parts, PartsNext, Stays DEF RecordPipelineStarted

\* Types survive initialize_run_state: a loaded version is a number.
LEMMA LoadRunType ==
    ASSUME TypeOK, NEW s \in Servers, LoadRun(s)
    PROVE  TypeOK'
<1>1. CASE RunExists /\ ~\E pc \in Pc : Goto(s, pc) /\ UNCHANGED sig
    <2> DEFINE loaded == [co[s] EXCEPT !.pc = "read_outcomes", !.stage = "fold",
                                       !.mem = store.statuses, !.version = store.version]
               seeded == [sig[s] EXCEPT !.seed = {n \in Nodes : store.statuses[n] = "running"}]
    <2>1. co' = [co EXCEPT ![s] = loaded] /\ sig' = [sig EXCEPT ![s] = seeded]
        BY <1>1, Parts DEF LoadRun, CoTypeOK, SigTypeOK, Pc
    <2>2. store.statuses \in Statuses /\ store.version \in Nat
        BY <1>1, Parts DEF StoreTypeOK, RunState, RunExists, Absent
    <2>3. loaded \in CoordinatorState
        <3>1. co[s] \in CoordinatorState /\ "read_outcomes" \in Pc /\ "fold" \in Stage
            BY Parts DEF CoTypeOK, Pc, Stage
        <3> QED
            BY <2>2, <3>1 DEF CoordinatorState
    <2>4. seeded \in SignalState
        BY Parts DEF SigTypeOK, SignalState
    <2> HIDE DEF loaded, seeded
    <2>5. CoTypeOK' /\ SigTypeOK'
        BY <2>1, <2>3, <2>4, PutType, PutSigType, Parts
    <2> QED
        BY <2>5, Parts, PartsNext, Stays DEF LoadRun
<1>2. CASE \E pc \in Pc : Goto(s, pc) /\ UNCHANGED sig
    <2>1. CoTypeOK'
        BY <1>2, GotoType, Parts
    <2> QED
        BY <1>2, <2>1, Parts, PartsNext, Stays DEF LoadRun
<1>3. RunExists \/ \E pc \in Pc : Goto(s, pc) /\ UNCHANGED sig
    BY DEF LoadRun, Pc
<1> QED
    BY <1>1, <1>2, <1>3

\* Types survive the initial save.
LEMMA SaveInitialType ==
    ASSUME TypeOK, NEW s \in Servers, SaveInitial(s)
    PROVE  TypeOK'
<1>1. StoreTypeOK'
    <2>1. store' \in RunState
        BY Parts, SaveType, NewRunType DEF SaveInitial, StoreTypeOK
    <2> QED
        BY <2>1, Parts, StoreOnlyType DEF SaveInitial
<1>2. CoTypeOK'
    BY Parts, GotoType DEF SaveInitial, Pc
<1> QED
    BY <1>1, <1>2, Parts, PartsNext, Stays DEF SaveInitial

----------------------------------------------------------------------------
(* Completions                                                             *)

\* A coordinator that has marked a node is one.
LEMMA CompletesType ==
    ASSUME NEW r \in CoordinatorState, NEW n \in Nodes, NEW success \in BOOLEAN
    PROVE  Completes(r, n, success) \in CoordinatorState
<1>1. r.mem \in Statuses
    BY DEF CoordinatorState
<1>2. /\ mark_success(r.mem, n) \in Statuses /\ mark_failed(r.mem, n) \in Statuses
      /\ "success" \in Cause /\ "failure" \in Cause
    BY <1>1, MarkType DEF Cause
<1> QED
    BY <1>2 DEF Completes, CoordinatorState

\* handle_node_completed, whoever calls it, keeps what it changes typed.
LEMMA HandleNodeCompletedType ==
    ASSUME TypeOK, NEW s \in Servers, NEW r \in CoordinatorState, NEW n \in Nodes,
           NEW success \in BOOLEAN, handle_node_completed(s, r, n, success)
    PROVE  store' \in RunState /\ CoTypeOK' /\ SigTypeOK'
<1>1. Completes(r, n, success) \in CoordinatorState
    BY CompletesType
<1>2. store' \in RunState /\ CoTypeOK'
    BY <1>1, PersistOrFinishType DEF handle_node_completed, Pc
<1>3. SigTypeOK'
    <2>1. cancel_node_timeout(sig[s], n) \in SignalState
        BY CancelTimeoutType, Parts DEF SigTypeOK
    <2> QED
        BY <2>1, PutSigType, Parts DEF handle_node_completed
<1> QED
    BY <1>2, <1>3

\* What was read from S3 has its type.
LEMMA ReadOutcomesOperatorType ==
    ASSUME WorkersTypeOK, NEW r, NEW readable
    PROVE  /\ read_outcomes(r, readable) \in [Nodes -> S3Status]
           /\ CompletedIn(read_outcomes(r, readable)) \in SUBSET Nodes
BY DEF read_outcomes, CompletedIn, WorkersTypeOK, S3Status

\* Types survive the first read of S3.
LEMMA ReadOutcomesType ==
    ASSUME TypeOK, NEW s \in Servers, ReadOutcomes(s)
    PROVE  TypeOK'
<1>1. PICK readable \in Readable :
          LET outcomes == read_outcomes(co[s], readable)
          IN  co' = [co EXCEPT ![s] = Resume([co[s] EXCEPT !.outcomes = outcomes,
                                                  !.work = CompletedIn(outcomes)])]
    BY DEF ReadOutcomes
<1> DEFINE outcomes == read_outcomes(co[s], readable)
           read == [co[s] EXCEPT !.outcomes = outcomes, !.work = CompletedIn(outcomes)]
<1>2. read \in CoordinatorState
    BY ReadOutcomesOperatorType, Parts DEF CoTypeOK, CoordinatorState
<1>3. Resume(read) \in CoordinatorState
    BY <1>2, ResumeType
<1>4. CoTypeOK'
    BY <1>1, <1>3, PutType, Parts
<1> QED
    BY <1>4, Parts, PartsNext, Stays DEF ReadOutcomes

\* Types survive a reconcile tick.
LEMMA PeriodicReconcileType ==
    ASSUME TypeOK, NEW s \in Servers, PeriodicReconcile(s)
    PROVE  TypeOK'
<1> DEFINE outcomes == read_outcomes(co[s], Nodes)
           read == [co[s] EXCEPT !.pc = "fold", !.outcomes = outcomes,
                                 !.work = CompletedIn(outcomes)]
<1>0. read \in CoordinatorState
    <2>1. co[s] \in CoordinatorState /\ "fold" \in Pc
        BY Parts DEF CoTypeOK, Pc
    <2> QED
        BY <2>1, ReadOutcomesOperatorType, Parts DEF CoordinatorState
<1>1. CoTypeOK'
    BY <1>0, PutType, Parts DEF PeriodicReconcile, CoTypeOK
<1> QED
    BY <1>1, Parts, PartsNext, Stays DEF PeriodicReconcile

\* Types survive folding one outcome.
LEMMA FoldCompletionType ==
    ASSUME TypeOK, NEW s \in Servers, FoldCompletion(s)
    PROVE  TypeOK'
<1>1. PICK n \in co[s].work :
          handle_node_completed(s, [co[s] EXCEPT !.work = @ \ {n}], n,
                                co[s].outcomes[n] = "success")
    BY DEF FoldCompletion
<1>2. /\ n \in Nodes
      /\ [co[s] EXCEPT !.work = @ \ {n}] \in CoordinatorState
    BY Parts DEF CoTypeOK, CoordinatorState
<1>3. store' \in RunState /\ CoTypeOK' /\ SigTypeOK'
    BY <1>1, <1>2, HandleNodeCompletedType
<1> QED
    BY <1>3, Parts, PartsNext, Stays, StoreOnlyType DEF FoldCompletion

\* While a handler is at work its node is a node of the graph.
Busy == {"cancel", "record", "dispatched", "dispatch_record", "promote_check"}

NodeInHand == \A s \in Servers : co[s].pc \in Busy => co[s].node \in Nodes

\* Types survive cancel_node, given that a node is in hand.
LEMMA CancelNodeType ==
    ASSUME TypeOK, NodeInHand, NEW s \in Servers, CancelNode(s)
    PROVE  TypeOK'
<1>1. co[s].node \in Nodes
    BY DEF NodeInHand, Busy, CancelNode
<1>2. WorkersTypeOK'
    BY <1>1, Parts, CleanupType DEF CancelNode
<1>3. [sig[s] EXCEPT !.expected = @ \cup {co[s].node}] \in SignalState
    BY <1>1, Parts DEF SigTypeOK, SignalState
<1>4. SigTypeOK'
    BY <1>3, Parts, PutSigType DEF CancelNode, SigTypeOK
<1>5. CoTypeOK'
    BY Parts, GotoType DEF CancelNode, Pc
<1> QED
    BY <1>2, <1>4, <1>5, Parts, PartsNext, Stays DEF CancelNode

\* Types survive record_node_completed and what follows it.
LEMMA RecordNodeCompletedType ==
    ASSUME TypeOK, NodeInHand, NEW s \in Servers, RecordNodeCompleted(s)
    PROVE  TypeOK'
<1>1. co[s].node \in Nodes
    BY DEF NodeInHand, Busy, RecordNodeCompleted
<1>2. NodeRowFor(co[s]) \in NodeRow
    BY DEF NodeRowFor, NodeRow
<1>3. HistoryTypeOK'
    BY <1>1, <1>2, Parts, RecordRowType, Stays DEF RecordNodeCompleted
<1>4. /\ co[s] \in CoordinatorState
      /\ Finish(co[s], "failure") \in CoordinatorState
      /\ EnterDispatch(co[s]) \in CoordinatorState
    BY Parts, FinishType, EnterDispatchType DEF CoTypeOK, FinalStatus
<1>5. CoTypeOK'
    <2>1. CASE co[s].cause # "success" /\ FailFast
        BY <1>4, <2>1, Parts, PutType DEF RecordNodeCompleted
    <2>2. CASE ~(co[s].cause # "success" /\ FailFast)
        BY <1>4, <2>2, Parts, PutType DEF RecordNodeCompleted
    <2> QED
        BY <2>1, <2>2
<1> QED
    BY <1>3, <1>5, Parts, PartsNext, Stays DEF RecordNodeCompleted

----------------------------------------------------------------------------
(* dispatch_ready_nodes                                                    *)

\* Types survive dispatcher.dispatch, done or refused.
LEMMA DispatchNodeType ==
    ASSUME TypeOK, NEW s \in Servers, DispatchNode(s)
    PROVE  TypeOK'
<1>1. co[s] \in CoordinatorState /\ "dispatched" \in Pc
      /\ "dispatched" \in Cause /\ "dispatch_failed" \in Cause
    BY Parts DEF CoTypeOK, Pc, Cause
<1>2. PICK n \in co[s].todo :
          \/ /\ dispatch(n)
             /\ co' = [co EXCEPT ![s].pc = "dispatched", ![s].todo = @ \ {n},
                                 ![s].node = n, ![s].cause = "dispatched",
                                 ![s].mem = mark_running(@, n)]
          \/ /\ dispatch_errs(n) \/ UNCHANGED workerVars
             /\ co' = [co EXCEPT ![s].pc = "dispatched", ![s].todo = @ \ {n},
                                 ![s].node = n, ![s].cause = "dispatch_failed",
                                 ![s].mem = mark_dispatch_failed(@, n)]
    BY DEF DispatchNode
<1>3. n \in Nodes /\ co[s].mem \in Statuses
    BY <1>1 DEF CoordinatorState
<1> DEFINE sent == [co[s] EXCEPT !.pc = "dispatched", !.todo = @ \ {n}, !.node = n,
                                 !.cause = "dispatched", !.mem = mark_running(@, n)]
           refused == [co[s] EXCEPT !.pc = "dispatched", !.todo = @ \ {n}, !.node = n,
                                    !.cause = "dispatch_failed",
                                    !.mem = mark_dispatch_failed(@, n)]
<1>4. sent \in CoordinatorState
    BY <1>1, <1>3, MarkType DEF CoordinatorState
<1>5. refused \in CoordinatorState
    BY <1>1, <1>3, MarkType DEF CoordinatorState
<1>6. CoTypeOK'
    <2>1. co' = [co EXCEPT ![s] = sent] \/ co' = [co EXCEPT ![s] = refused]
        BY <1>2
    <2> HIDE DEF sent, refused
    <2> QED
        BY <1>4, <1>5, <2>1, Parts, PutType
<1>7. WorkersTypeOK'
    BY <1>2, <1>3, Parts, CreateType
<1> QED
    BY <1>6, <1>7, Parts, PartsNext, Stays DEF DispatchNode

\* Types survive persist_state_after_dispatch_transition.
LEMMA PersistDispatchType ==
    ASSUME TypeOK, NEW s \in Servers, PersistDispatch(s)
    PROVE  TypeOK'
<1>1. co[s] \in CoordinatorState
    BY Parts DEF CoTypeOK
<1>2. store' \in RunState /\ CoTypeOK'
    BY <1>1, PersistAnyhowType DEF PersistDispatch, Pc
<1> QED
    BY <1>2, Parts, PartsNext, Stays, StoreOnlyType DEF PersistDispatch

\* Types survive recording a dispatch.
LEMMA RecordDispatchType ==
    ASSUME TypeOK, NodeInHand, NEW s \in Servers, RecordDispatch(s)
    PROVE  TypeOK'
<1>1. co[s].node \in Nodes /\ co[s] \in CoordinatorState /\ sig[s] \in SignalState
    BY Parts DEF NodeInHand, Busy, RecordDispatch, CoTypeOK, SigTypeOK
<1>2. HistoryTypeOK'
    BY <1>1, Parts, RecordRowType, RecordPipelineType DEF RecordDispatch, NodeRow
<1>3. SigTypeOK'
    BY <1>1, Parts, ArmType, PutSigType, Stays DEF RecordDispatch
<1>4. Resume(co[s]) \in CoordinatorState
    BY <1>1, ResumeType
<1>5. [co[s] EXCEPT !.pc = "dispatch", !.node = NoNode, !.cause = "none"] \in CoordinatorState
    <2>1. "dispatch" \in Pc /\ "none" \in Cause
        BY DEF Pc, Cause
    <2> QED
        BY <1>1, <2>1 DEF CoordinatorState
<1>6. CoTypeOK'
    BY <1>4, <1>5, Parts, PutType DEF RecordDispatch
<1> QED
    BY <1>2, <1>3, <1>6, Parts, PartsNext, Stays DEF RecordDispatch

----------------------------------------------------------------------------
(* Rehydration and the subscription                                        *)

\* Failing a node, whatever the cause, keeps what it changes typed.
LEMMA FailNodeType ==
    ASSUME TypeOK, NEW s \in Servers, NEW r \in CoordinatorState, NEW n \in Nodes,
           NEW cause \in Cause, NEW g \in SignalState, FailNode(s, r, n, cause, g)
    PROVE  store' \in RunState /\ CoTypeOK' /\ SigTypeOK'
<1> DEFINE failed == [r EXCEPT !.mem = mark_failed(@, n), !.node = n, !.cause = cause]
<1>1. failed \in CoordinatorState
    <2>1. r.mem \in Statuses
        BY DEF CoordinatorState
    <2> QED
        BY <2>1, MarkType DEF CoordinatorState
<1>2. PersistOrFinish(s, failed, "cancel") /\ sig' = [sig EXCEPT ![s] = g]
    BY DEF FailNode
<1> HIDE DEF failed
<1>3. store' \in RunState /\ CoTypeOK'
    BY <1>1, <1>2, PersistOrFinishType DEF Pc
<1> QED
    BY <1>2, <1>3, PutSigType, Parts

\* Types survive promote_started_pending_to_running.
LEMMA PromoteNodeType ==
    ASSUME TypeOK, NEW s \in Servers, PromoteNode(s)
    PROVE  TypeOK'
<1>1. PICK n \in co[s].work :
          LET r == [co[s] EXCEPT !.work = @ \ {n}]
          IN  IF r.mem[n] = "pending"
              THEN PersistAnyhow(s, [r EXCEPT !.mem = mark_running(@, n), !.node = n],
                                 "promote_check")
              ELSE /\ co' = [co EXCEPT ![s] = Resume(r)]
                   /\ UNCHANGED store
    BY DEF PromoteNode
<1> DEFINE r == [co[s] EXCEPT !.work = @ \ {n}]
           marked == [r EXCEPT !.mem = mark_running(@, n), !.node = n]
<1>2. co[s] \in CoordinatorState /\ n \in Nodes
    BY Parts DEF CoTypeOK, CoordinatorState
<1>3. r \in CoordinatorState /\ r.mem \in Statuses
    BY <1>2 DEF CoordinatorState
<1>4. \/ PersistAnyhow(s, marked, "promote_check")
      \/ /\ co' = [co EXCEPT ![s] = Resume(r)]
         /\ UNCHANGED store
    BY <1>1
<1> HIDE DEF r
<1>5. marked \in CoordinatorState
    BY <1>2, <1>3, MarkType DEF CoordinatorState
<1> HIDE DEF marked
<1>6. Resume(r) \in CoordinatorState
    BY <1>3, ResumeType
<1>7. store' \in RunState /\ CoTypeOK'
    <2>1. CASE PersistAnyhow(s, marked, "promote_check")
        BY <1>5, <2>1, PersistAnyhowType DEF Pc
    <2>2. CASE co' = [co EXCEPT ![s] = Resume(r)] /\ UNCHANGED store
        BY <1>6, <2>2, Parts, PutType DEF StoreTypeOK
    <2> QED
        BY <1>4, <2>1, <2>2
<1> QED
    BY <1>7, Parts, PartsNext, Stays, StoreOnlyType DEF PromoteNode

\* Types survive the look for the promoted node's pod.
LEMMA PromoteCheckType ==
    ASSUME TypeOK, NodeInHand, NEW s \in Servers, PromoteCheck(s)
    PROVE  TypeOK'
<1>1. /\ co[s].node \in Nodes /\ co[s] \in CoordinatorState /\ sig[s] \in SignalState
      /\ "infra" \in Cause
    BY Parts DEF NodeInHand, Busy, PromoteCheck, CoTypeOK, SigTypeOK, Cause
<1>2. CASE co' = [co EXCEPT ![s] = Resume(co[s])] /\ UNCHANGED <<store, sig>>
    <2>1. CoTypeOK'
        BY <1>1, <1>2, ResumeType, PutType, Parts
    <2> QED
        BY <1>2, <2>1, Parts, PartsNext, Stays DEF PromoteCheck, storeVars
<1>3. CASE FailNode(s, co[s], co[s].node, "infra", cancel_node_timeout(sig[s], co[s].node))
    <2>1. cancel_node_timeout(sig[s], co[s].node) \in SignalState
        BY <1>1, CancelTimeoutType
    <2>2. store' \in RunState /\ CoTypeOK' /\ SigTypeOK'
        BY <1>1, <1>3, <2>1, FailNodeType
    <2> QED
        BY <2>2, Parts, PartsNext, Stays, StoreOnlyType DEF PromoteCheck
<1> QED
    BY <1>2, <1>3 DEF PromoteCheck

\* Types survive rehydrate_phase_timers.
LEMMA RehydrateTimersType ==
    ASSUME TypeOK, NEW s \in Servers, RehydrateTimers(s)
    PROVE  TypeOK'
<1> DEFINE running == {n \in Nodes : co[s].mem[n] = "running"}
           replaced == {n \in running : Running(sig[s].handle[n])}
<1>0. PICK found \in Recordable :
         sig' = [sig EXCEPT
             ![s].handle = [n \in Nodes |-> IF n \in running
                                            THEN TimerPhaseFor(co[s], n, found) ELSE @[n]],
             ![s].detached = @ \cup {<<n, sig[s].handle[n]>> : n \in replaced}]
    BY DEF RehydrateTimers
<1> DEFINE handles == [n \in Nodes |-> IF n \in running THEN TimerPhaseFor(co[s], n, found)
                                                        ELSE sig[s].handle[n]]
           lost == sig[s].detached \cup {<<n, sig[s].handle[n]>> : n \in replaced}
           armed == [sig[s] EXCEPT !.handle = handles, !.detached = lost]
           next == [co[s] EXCEPT !.pc = "subscribe", !.stage = "start",
                                 !.outcomes = [n \in Nodes |-> "none"]]
           over == Finish(co[s], outcome_status(co[s].mem))
<1>1. co[s] \in CoordinatorState /\ sig[s] \in SignalState
    BY Parts DEF CoTypeOK, SigTypeOK
<1>2. handles \in [Nodes -> Handle]
    BY <1>1 DEF TimerPhaseFor, Handle, SignalState
<1>3. lost \in SUBSET (Nodes \X {"startup", "runtime"})
    BY <1>1 DEF SignalState, Running
<1>4. sig' = [sig EXCEPT ![s] = armed]
    BY <1>0, <1>1, Parts DEF SigTypeOK, SignalState
<1>5. co' = [co EXCEPT ![s] = IF is_complete(co[s].mem) THEN over ELSE next]
    BY DEF RehydrateTimers
<1> HIDE DEF handles, lost
<1>6. armed \in SignalState
    BY <1>1, <1>2, <1>3 DEF SignalState
<1> HIDE DEF armed
<1>7. SigTypeOK'
    BY <1>4, <1>6, Parts, PutSigType
<1>8. over \in CoordinatorState
    BY <1>1, FinishType, OutcomeType
<1>9. next \in CoordinatorState
    <2>1. "subscribe" \in Pc /\ "start" \in Stage /\ [n \in Nodes |-> "none"] \in [Nodes -> S3Status]
        BY DEF Pc, Stage, S3Status
    <2> QED
        BY <1>1, <2>1 DEF CoordinatorState
<1> HIDE DEF over, next
<1>10. CoTypeOK'
    BY <1>5, <1>8, <1>9, Parts, PutType
<1> QED
    BY <1>7, <1>10, Parts, PartsNext, Stays DEF RehydrateTimers

\* Types survive subscribe_run, done or refused.
LEMMA SubscribeType ==
    ASSUME TypeOK, NEW s \in Servers, Subscribe(s)
    PROVE  TypeOK'
<1>1. CASE subscribe_run(s) /\ co' = [co EXCEPT ![s] = EnterDispatch(@)] /\ UNCHANGED sig
    <2>1. << >> \in Seq(BackplaneEvent)
        OBVIOUS
    <2>2. BackplaneTypeOK'
        BY <1>1, <2>1 DEF subscribe_run, BackplaneTypeOK
    <2>3. EnterDispatch(co[s]) \in CoordinatorState
        BY Parts, EnterDispatchType DEF CoTypeOK
    <2>4. CoTypeOK'
        BY <1>1, <2>3, Parts, PutType
    <2> QED
        BY <1>1, <2>2, <2>4, Parts, PartsNext, Stays DEF Subscribe
<1>2. CASE Stop(s)
    BY <1>2, StopType, Parts, PartsNext, Stays DEF Subscribe
<1> QED
    BY <1>1, <1>2 DEF Subscribe

----------------------------------------------------------------------------
(* The select loop                                                         *)

\* Types survive a lost lease.
LEMMA HeartbeatFailsType ==
    ASSUME TypeOK, NEW s \in Servers, HeartbeatFails(s)
    PROVE  TypeOK'
BY StopType, Parts, PartsNext, Stays DEF HeartbeatFails

\* Types survive the pipeline deadline.
LEMMA PipelineDeadlineType ==
    ASSUME TypeOK, NEW s \in Servers, PipelineDeadline(s)
    PROVE  TypeOK'
<1>1. Finish(co[s], "failure") \in CoordinatorState
    BY Parts, FinishType DEF CoTypeOK, FinalStatus
<1>2. CoTypeOK'
    BY <1>1, Parts, PutType DEF PipelineDeadline
<1> QED
    BY <1>2, Parts, PartsNext, Stays DEF PipelineDeadline

\* Types survive the end of the subscription.
LEMMA SubscriptionClosedType ==
    ASSUME TypeOK, NEW s \in Servers, SubscriptionClosed(s)
    PROVE  TypeOK'
<1>1. Finish(co[s], "failure") \in CoordinatorState
    BY Parts, FinishType DEF CoTypeOK, FinalStatus
<1>2. CoTypeOK' /\ BackplaneTypeOK'
    BY <1>1, Parts, PutType, UnsubscribeType DEF SubscriptionClosed
<1> QED
    BY <1>2, Parts, PartsNext, Stays DEF SubscriptionClosed

\* The first event has its type, and so has the queue without it.
LEMMA NextEventType ==
    ASSUME BackplaneTypeOK, events # << >>, next_event
    PROVE  /\ BackplaneTypeOK'
           /\ Head(events) \in BackplaneEvent
BY DEF BackplaneTypeOK, next_event

\* Types survive a NodeCompleted event.
LEMMA ReceiveNodeCompletedType ==
    ASSUME TypeOK, NEW s \in Servers, ReceiveNodeCompleted(s)
    PROVE  TypeOK'
<1>1. BackplaneTypeOK' /\ Head(events) \in BackplaneEvent
    BY NextEventType, Parts DEF ReceiveNodeCompleted, Receives
<1>2. Head(events).node \in Nodes /\ Head(events).success \in BOOLEAN
    BY <1>1 DEF ReceiveNodeCompleted, BackplaneEvent
<1>3. co[s] \in CoordinatorState
    BY Parts DEF CoTypeOK
<1>4. store' \in RunState /\ CoTypeOK' /\ SigTypeOK'
    BY <1>2, <1>3, HandleNodeCompletedType DEF ReceiveNodeCompleted
<1> QED
    BY <1>1, <1>4, Parts, PartsNext, Stays, StoreOnlyType DEF ReceiveNodeCompleted

\* Types survive a cancel event.
LEMMA ReceiveCancelType ==
    ASSUME TypeOK, NEW s \in Servers, ReceiveCancel(s)
    PROVE  TypeOK'
<1>1. BackplaneTypeOK'
    BY NextEventType, Parts DEF ReceiveCancel, Receives
<1>2. Finish(co[s], "cancelled") \in CoordinatorState
    BY Parts, FinishType DEF CoTypeOK, FinalStatus
<1>3. CoTypeOK'
    BY <1>2, Parts, PutType DEF ReceiveCancel
<1> QED
    BY <1>1, <1>3, Parts, PartsNext, Stays DEF ReceiveCancel

\* Types survive handle_pod_running.
LEMMA HandlePodRunningType ==
    ASSUME TypeOK, NEW s \in Servers, HandlePodRunning(s)
    PROVE  TypeOK'
<1> DEFINE n == Head(sig[s].inbox).node
           next == [Consumed(s) EXCEPT !.handle[n] =
                       IF @ \in {"runtime", "runtime_fired"} THEN @ ELSE "runtime"]
<1>1. n \in Nodes /\ Consumed(s) \in SignalState
    BY Parts, ConsumedType DEF HandlePodRunning, Got
<1>2. next \in SignalState
    BY <1>1 DEF SignalState, Handle
<1>3. sig' = [sig EXCEPT ![s] = next]
    BY DEF HandlePodRunning
<1> HIDE DEF next
<1>4. SigTypeOK'
    BY <1>2, <1>3, Parts, PutSigType
<1> QED
    BY <1>4, Parts, PartsNext, Stays DEF HandlePodRunning

\* Types survive a failure or a timeout taken from the channel.
LEMMA HandleNodeFailureType ==
    ASSUME TypeOK, NEW s \in Servers, NEW type, HandleNodeFailure(s, type)
    PROVE  TypeOK'
<1> DEFINE n == Head(sig[s].inbox).node
           cause == IF type = "timed_out" THEN "failure" ELSE "infra"
           g == IF type = "timed_out" THEN Consumed(s)
                ELSE cancel_node_timeout(Consumed(s), n)
<1>1. n \in Nodes /\ Consumed(s) \in SignalState
    BY Parts, ConsumedType DEF HandleNodeFailure, Got
<1>2. g \in SignalState /\ cause \in Cause
    BY <1>1, CancelTimeoutType DEF Cause
<1>3. co[s] \in CoordinatorState
    BY Parts DEF CoTypeOK
<1>4. \/ FailNode(s, co[s], n, cause, g)
      \/ sig' = [sig EXCEPT ![s] = Consumed(s)] /\ UNCHANGED <<store, co>>
    BY DEF HandleNodeFailure
<1> HIDE DEF n, cause, g
<1>5. CASE FailNode(s, co[s], n, cause, g)
    <2>1. store' \in RunState /\ CoTypeOK' /\ SigTypeOK'
        BY <1>1, <1>2, <1>3, <1>5, FailNodeType
    <2> QED
        BY <2>1, Parts, PartsNext, Stays, StoreOnlyType DEF HandleNodeFailure
<1>6. CASE sig' = [sig EXCEPT ![s] = Consumed(s)] /\ UNCHANGED <<store, co>>
    <2>1. SigTypeOK'
        BY <1>1, <1>6, Parts, PutSigType
    <2> QED
        BY <1>6, <2>1, Parts, PartsNext, Stays DEF HandleNodeFailure, storeVars
<1> QED
    BY <1>4, <1>5, <1>6

----------------------------------------------------------------------------
(* Timers and the pod watcher                                              *)

\* Types survive a timer that fires.
LEMMA TimerFiresType ==
    ASSUME TypeOK, NEW s \in Servers, NEW n \in Nodes, TimerFires(s, n)
    PROVE  TypeOK'
<1> DEFINE phase == sig[s].handle[n]
           sent == Send(sig[s], TimeoutMessage(phase), n)
           next == [sent EXCEPT !.handle[n] = Fired(phase)]
<1>1. sent \in SignalState
    <2>1. sig[s] \in SignalState
        BY Parts DEF SigTypeOK
    <2>2. TimeoutMessage(phase) \in {"start_timeout", "timed_out", "pod_running", "infra_failed"}
        BY DEF TimeoutMessage
    <2> QED
        BY <2>1, <2>2, SendType
<1>2. sig' = [sig EXCEPT ![s] = next]
    BY DEF TimerFires
<1> HIDE DEF sent
<1>3. next \in SignalState
    BY <1>1 DEF SignalState, Handle, Fired
<1> HIDE DEF next
<1>4. SigTypeOK'
    BY <1>2, <1>3, Parts, PutSigType
<1> QED
    BY <1>4, Parts, PartsNext, Stays DEF TimerFires

\* Types survive a detached timer that fires.
LEMMA DetachedTimerFiresType ==
    ASSUME TypeOK, NEW s \in Servers, DetachedTimerFires(s)
    PROVE  TypeOK'
<1>1. PICK t \in sig[s].detached :
          sig' = [sig EXCEPT ![s] = [Send(sig[s], TimeoutMessage(t[2]), t[1]) EXCEPT
                                          !.detached = @ \ {t}]]
    BY DEF DetachedTimerFires
<1>2. sig[s] \in SignalState
    BY Parts DEF SigTypeOK
<1>3. t[1] \in Nodes
    BY <1>2 DEF SignalState
<1> DEFINE sent == Send(sig[s], TimeoutMessage(t[2]), t[1])
           next == [sent EXCEPT !.detached = @ \ {t}]
<1>4. sent \in SignalState
    <2>1. TimeoutMessage(t[2]) \in {"start_timeout", "timed_out", "pod_running", "infra_failed"}
        BY DEF TimeoutMessage
    <2> QED
        BY <1>2, <1>3, <2>1, SendType
<1>5. sig' = [sig EXCEPT ![s] = next]
    BY <1>1, Zenon
<1> HIDE DEF sent
<1>6. next \in SignalState
    BY <1>4 DEF SignalState
<1> HIDE DEF next
<1>7. SigTypeOK'
    BY <1>5, <1>6, Parts, PutSigType
<1> QED
    BY <1>7, Parts, PartsNext, Stays DEF DetachedTimerFires

\* Types survive a report of the pod watcher.
LEMMA WatcherType ==
    ASSUME TypeOK, NEW s \in Servers, NEW n \in Nodes,
           WatcherReportsRunning(s, n) \/ WatcherReportsFailure(s, n)
    PROVE  TypeOK'
<1> DEFINE up == Send(sig[s], "pod_running", n)
           down == Send(sig[s], "infra_failed", n)
           next_up == [up EXCEPT !.told = up.told \cup {<<n, "running">>}]
           next_down == [down EXCEPT !.told = down.told \cup {<<n, "failed">>}]
<1>1. up \in SignalState /\ down \in SignalState
    BY Parts, SendType DEF SigTypeOK
<1>2. \/ sig' = [sig EXCEPT ![s] = next_up]
      \/ sig' = [sig EXCEPT ![s] = next_down]
    BY Zenon DEF WatcherReportsRunning, WatcherReportsFailure
<1> HIDE DEF up, down
<1>3. up.told \cup {<<n, "running">>} \in SUBSET (Nodes \X {"running", "failed"})
    BY <1>1 DEF SignalState
<1>4. down.told \cup {<<n, "failed">>} \in SUBSET (Nodes \X {"running", "failed"})
    BY <1>1 DEF SignalState
<1>5. next_up \in SignalState
    BY <1>1, <1>3 DEF SignalState
<1>6. next_down \in SignalState
    BY <1>1, <1>4 DEF SignalState
<1> HIDE DEF next_up, next_down
<1>7. SigTypeOK'
    BY <1>2, <1>5, <1>6, Parts, PutSigType
<1> QED
    BY <1>7, Parts, PartsNext, Stays DEF WatcherReportsRunning, WatcherReportsFailure

----------------------------------------------------------------------------
(* finalize_run and cleanup                                                *)

\* Types survive record_running_node_terminated.
LEMMA RecordTerminatedType ==
    ASSUME TypeOK, NEW s \in Servers, RecordTerminated(s)
    PROVE  TypeOK'
<1> DEFINE running == {n \in Nodes : co[s].mem[n] = "running"}
           over == [n \in Nodes |-> IF n \in running THEN "failed" ELSE co[s].mem[n]]
           next == [co[s] EXCEPT !.pc = "report", !.mem = over]
<1>1. co[s] \in CoordinatorState /\ "report" \in Pc
    BY Parts DEF CoTypeOK, Pc
<1>2. over \in Statuses
    BY <1>1 DEF CoordinatorState, Statuses, NodeStatus
<1>3. co' = [co EXCEPT ![s] = next]
    BY <1>1, Parts DEF RecordTerminated, CoTypeOK, CoordinatorState
<1> HIDE DEF over
<1>4. next \in CoordinatorState
    BY <1>1, <1>2 DEF CoordinatorState
<1> HIDE DEF next
<1>5. CoTypeOK'
    BY <1>3, <1>4, Parts, PutType
<1>6. HistoryTypeOK'
    <2>1. PICK readable \in Readable, recorded \in Recordable :
              record_node_runs([n \in Nodes |->
                    IF n \notin running \cap recorded THEN "none"
                    ELSE IF n \in readable /\ s3[n] = "success" THEN "success"
                    ELSE "failure"])
        BY DEF RecordTerminated
    <2>2. [n \in Nodes |->
              IF n \notin running \cap recorded THEN "none"
              ELSE IF n \in readable /\ s3[n] = "success" THEN "success"
              ELSE "failure"] \in [Nodes -> NodeRow]
        BY DEF NodeRow
    <2> QED
        BY <2>1, <2>2, Parts, RecordRowsType
<1> QED
    BY <1>5, <1>6, Parts, PartsNext, Stays DEF RecordTerminated

\* Types survive record_pipeline_run.
LEMMA ReportStatusType ==
    ASSUME TypeOK, NEW s \in Servers, ReportStatus(s)
    PROVE  TypeOK'
<1>1. co[s].status \in {"none"} \cup FinalStatus
    BY Parts DEF CoTypeOK, CoordinatorState
<1>2. HistoryTypeOK'
    BY <1>1, Parts DEF ReportStatus, record_pipeline_run, historyVars, HistoryTypeOK,
                       PipelineRow, FinalStatus
<1>3. CoTypeOK'
    BY Parts, GotoType DEF ReportStatus, Pc
<1> QED
    BY <1>2, <1>3, Parts, PartsNext, Stays DEF ReportStatus

\* Types survive cleanup_run.
LEMMA CleanupRunType ==
    ASSUME TypeOK, NEW s \in Servers, CleanupRun(s)
    PROVE  TypeOK'
<1>1. WorkersTypeOK' /\ CoTypeOK'
    BY Parts, CleanupType, GotoType DEF CleanupRun, Pc
<1> QED
    BY <1>1, Parts, PartsNext, Stays DEF CleanupRun

\* Dropping the lease or the run state keeps the type of the store.
LEMMA DropType ==
    ASSUME StoreTypeOK, UNCHANGED lease_ver,
           \/ release_lease /\ UNCHANGED store
           \/ delete_run /\ UNCHANGED lease
    PROVE  StoreTypeOK'
<1>1. NoLease \in Lease /\ NoRun \in RunState
    BY NewRunType DEF NoLease, Lease, NoRun, RunState
<1> QED
    BY <1>1 DEF StoreTypeOK, release_lease, delete_run

\* Types survive release_lease.
LEMMA ReleaseLeaseType ==
    ASSUME TypeOK, NEW s \in Servers, ReleaseLease(s)
    PROVE  TypeOK'
<1>1. StoreTypeOK' /\ CoTypeOK'
    BY Parts, DropType, GotoType, Stays DEF ReleaseLease, Pc, storeVars
<1> QED
    BY <1>1, Parts, PartsNext, Stays DEF ReleaseLease

\* Types survive delete_run and the end of the task.
LEMMA DeleteRunType ==
    ASSUME TypeOK, NEW s \in Servers, DeleteRun(s)
    PROVE  TypeOK'
<1>1. StoreTypeOK'
    BY Parts, DropType, Stays DEF DeleteRun, storeVars
<1>2. CoTypeOK' /\ SigTypeOK' /\ BackplaneTypeOK'
    BY Parts, StopType DEF DeleteRun
<1> QED
    BY <1>1, <1>2, Parts, PartsNext, Stays DEF DeleteRun

----------------------------------------------------------------------------
(* The reaper                                                              *)

\* Types survive listing and reclaiming an orphan.
LEMMA ReclaimType ==
    ASSUME TypeOK, NEW s \in Servers,
           ListOrphan(s) \/ LoadOrphan(s) \/ ReclaimOrphan(s)
    PROVE  TypeOK' /\ UNCHANGED sweep
<1>1. \E pc \in Pc : Goto(s, pc)
    BY DEF ListOrphan, LoadOrphan, ReclaimOrphan, Pc
<1>2. CoTypeOK'
    BY <1>1, Parts, GotoType
<1> QED
    BY <1>2, Parts, PartsNext, Stays DEF ListOrphan, LoadOrphan, ReclaimOrphan

\* Types survive finalize_unrecoverable_orphan.
LEMMA DiscardOrphanType ==
    ASSUME TypeOK, NEW s \in Servers, DiscardOrphan(s)
    PROVE  TypeOK' /\ UNCHANGED sweep
<1>1. \E pc \in Pc : Goto(s, pc)
    BY DEF DiscardOrphan, Pc
<1>2. CoTypeOK'
    BY <1>1, Parts, GotoType
<1>3. StoreTypeOK'
    BY Parts, DropType, Stays DEF DiscardOrphan, storeVars
<1>4. WorkersTypeOK'
    BY Parts, CleanupType, Stays DEF DiscardOrphan
<1> QED
    BY <1>2, <1>3, <1>4, Parts, PartsNext, Stays DEF DiscardOrphan

\* Moving the sweep on keeps its type.
LEMMA SweepGotoType ==
    ASSUME sweep \in SweepState, NEW pc \in SweepPc, SweepGoto(pc)
    PROVE  sweep' \in SweepState
BY DEF SweepState, SweepGoto

\* An idle sweep has the type of a sweep.
LEMMA NoSweepType == NoSweep \in SweepState
BY DEF NoSweep, SweepState, SweepPc, NodeRow

\* The sweep's steps that read, or that write one of the services.
LEMMA SweepReadType ==
    ASSUME TypeOK, sweep \in SweepState,
           ListTerminal \/ ListInProgress \/ CheckRedisState \/ ListNodeRuns \/ ListManaged
    PROVE  TypeOK' /\ sweep' \in SweepState
<1>1. UNCHANGED vars
    BY DEF ListTerminal, ListInProgress, CheckRedisState, ListNodeRuns, ListManaged
<1>2. TypeOK'
    BY <1>1, Parts, PartsNext, Stays DEF vars, coordVars
<1>3. \/ \E pc \in SweepPc : SweepGoto(pc)
      \/ sweep' = [pc |-> "refresh", rows |-> node_rows]
    BY DEF ListTerminal, ListInProgress, CheckRedisState, ListNodeRuns, ListManaged, SweepPc
<1>4. [pc |-> "refresh", rows |-> node_rows] \in SweepState
    BY Parts DEF HistoryTypeOK, SweepState, SweepPc
<1> QED
    BY <1>2, <1>3, <1>4, SweepGotoType

\* Types survive the terminal sweep's verdict.
LEMMA FinalizeTerminalType ==
    ASSUME TypeOK, sweep \in SweepState, FinalizeTerminal
    PROVE  TypeOK' /\ sweep' \in SweepState
<1>1. HistoryTypeOK'
    BY Parts, RecordPipelineType, OutcomeType DEF FinalizeTerminal
<1>2. sweep' \in SweepState
    <2>1. \E pc \in SweepPc : SweepGoto(pc)
        BY DEF FinalizeTerminal, SweepPc
    <2> QED
        BY <2>1, SweepGotoType
<1> QED
    BY <1>1, <1>2, Parts, PartsNext, Stays DEF FinalizeTerminal, coordVars

\* Types survive its deletions.
LEMMA ReapTerminalType ==
    ASSUME TypeOK, sweep \in SweepState, ReapTerminal
    PROVE  TypeOK' /\ sweep' \in SweepState
<1>1. StoreTypeOK'
    BY Parts, DropType, Stays DEF ReapTerminal, storeVars
<1>2. WorkersTypeOK'
    BY Parts, CleanupType, Stays DEF ReapTerminal
<1>3. sweep' \in SweepState
    <2>1. \E pc \in SweepPc : SweepGoto(pc)
        BY DEF ReapTerminal, SweepPc
    <2> QED
        BY <2>1, SweepGotoType
<1> QED
    BY <1>1, <1>2, <1>3, Parts, PartsNext, Stays DEF ReapTerminal, coordVars

\* Types survive completing rows from S3: a completed outcome is a row.
LEMMA RefreshRowsType ==
    ASSUME TypeOK, sweep \in SweepState, RefreshRows
    PROVE  TypeOK' /\ sweep' \in SweepState
<1>1. PICK readable \in Readable, recorded \in Recordable :
          LET fresh == {n \in readable \cap recorded :
                           sweep.rows[n] = "dispatched" /\ Completed(s3[n])}
              rows == [n \in Nodes |-> IF n \in fresh THEN s3[n] ELSE sweep.rows[n]]
          IN  /\ record_node_runs([n \in Nodes |-> IF n \in fresh THEN s3[n] ELSE "none"])
              /\ sweep' = [pc |-> IF \A n \in Nodes : Known(rows[n])
                                  THEN "finalize" ELSE "reconstruct",
                           rows |-> rows]
    BY DEF RefreshRows
<1> DEFINE fresh == {n \in readable \cap recorded :
                        sweep.rows[n] = "dispatched" /\ Completed(s3[n])}
           rows == [n \in Nodes |-> IF n \in fresh THEN s3[n] ELSE sweep.rows[n]]
<1>2. \A n \in fresh : s3[n] \in NodeRow
    BY DEF Completed, NodeRow
<1>3. rows \in [Nodes -> NodeRow]
    BY <1>2 DEF SweepState
<1>4. [n \in Nodes |-> IF n \in fresh THEN s3[n] ELSE "none"] \in [Nodes -> NodeRow]
    BY <1>2 DEF NodeRow
<1>5. record_node_runs([n \in Nodes |-> IF n \in fresh THEN s3[n] ELSE "none"])
    BY <1>1
<1>6. \E pc \in SweepPc : sweep' = [pc |-> pc, rows |-> rows]
    BY <1>1 DEF SweepPc
<1> HIDE DEF fresh, rows
<1>7. sweep' \in SweepState
    BY <1>3, <1>6 DEF SweepState
<1>8. HistoryTypeOK'
    BY <1>4, <1>5, Parts, RecordRowsType
<1> QED
    BY <1>7, <1>8, Parts, PartsNext, Stays DEF RefreshRows, coordVars

\* Types survive the Postgres sweep's verdict and cleanup.
LEMMA FinalizeReconciledType ==
    ASSUME TypeOK, sweep \in SweepState, FinalizeReconciled
    PROVE  TypeOK' /\ sweep' \in SweepState
<1>1. HistoryTypeOK'
    BY Parts, RecordPipelineType DEF FinalizeReconciled, FinalStatus
<1>2. WorkersTypeOK'
    BY Parts, CleanupType, Stays DEF FinalizeReconciled
<1>3. sweep' \in SweepState
    <2>1. SweepGoto("cleanup") \/ sweep' = NoSweep
        BY DEF FinalizeReconciled
    <2> QED
        BY <2>1, SweepGotoType, NoSweepType DEF SweepPc
<1> QED
    BY <1>1, <1>2, <1>3, Parts, PartsNext, Stays DEF FinalizeReconciled, coordVars

\* Types survive saving a reconstructed run.
LEMMA ResumeReconstructedType ==
    ASSUME TypeOK, sweep \in SweepState, NEW s \in Servers, ResumeReconstructed(s)
    PROVE  TypeOK' /\ sweep' \in SweepState
<1>1. reconstruct(sweep.rows) \in Statuses
    BY DEF reconstruct, Statuses, NodeStatus
<1>2. store' \in RunState
    BY <1>1, Parts, SaveType DEF ResumeReconstructed, StoreTypeOK
<1>3. CoTypeOK'
    BY Parts, GotoType, Stays DEF ResumeReconstructed, Pc
<1>4. sweep' \in SweepState
    BY NoSweepType DEF ResumeReconstructed
<1> QED
    BY <1>2, <1>3, <1>4, Parts, PartsNext, Stays, StoreOnlyType DEF ResumeReconstructed

\* Types survive the Kubernetes sweep.
LEMMA ReapKubeType ==
    ASSUME TypeOK, sweep \in SweepState, ReapKube
    PROVE  TypeOK' /\ sweep' \in SweepState
<1>1. StoreTypeOK'
    BY Parts, DropType, Stays DEF ReapKube, storeVars
<1>2. WorkersTypeOK'
    BY Parts, CleanupType, Stays DEF ReapKube
<1>3. sweep' \in SweepState
    <2>1. \E pc \in SweepPc : SweepGoto(pc)
        BY DEF ReapKube, SweepPc
    <2> QED
        BY <2>1, SweepGotoType
<1> QED
    BY <1>1, <1>2, <1>3, Parts, PartsNext, Stays DEF ReapKube, coordVars

----------------------------------------------------------------------------
(* HTTP, restarts, workers                                                 *)

\* A published event keeps the type of the queue.
LEMMA PublishType ==
    ASSUME BackplaneTypeOK, NEW e \in BackplaneEvent, publish_event(e)
    PROVE  BackplaneTypeOK'
<1>1. Append(events, e) \in Seq(BackplaneEvent)
    BY DEF BackplaneTypeOK
<1> QED
    BY <1>1 DEF BackplaneTypeOK, publish_event

\* Types survive handle_node_poke, the bound on pokes included.
LEMMA PokeType ==
    ASSUME ClusterTypeOK, NEW n \in Nodes, Poke(n)
    PROVE  ClusterTypeOK'
<1> DEFINE e == [type |-> "node_completed", node |-> n, success |-> (s3[n] = "success")]
<1>1. e \in BackplaneEvent /\ publish_event(e)
    BY DEF Poke, BackplaneEvent
<1> HIDE DEF e
<1>2. TypeOK'
    BY <1>1, PublishType, Parts, PartsNext, Stays DEF Poke, ClusterTypeOK, coordVars
<1>3. pokes' \in [Nodes -> 0..MaxPokes]
    BY BoundsAssumption DEF Poke, ClusterTypeOK
<1> QED
    BY <1>2, <1>3 DEF Poke, ClusterTypeOK

\* Types survive cancel_pipeline_run.
LEMMA RequestCancelType ==
    ASSUME ClusterTypeOK, RequestCancel
    PROVE  ClusterTypeOK'
<1> DEFINE e == [type |-> "cancel"]
<1>1. e \in BackplaneEvent /\ publish_event(e)
    BY DEF RequestCancel, BackplaneEvent
<1> HIDE DEF e
<1>2. TypeOK'
    BY <1>1, PublishType, Parts, PartsNext, Stays DEF RequestCancel, ClusterTypeOK, coordVars
<1>3. cancels' \in 0..MaxCancels
    BY BoundsAssumption DEF RequestCancel, ClusterTypeOK
<1> QED
    BY <1>2, <1>3 DEF RequestCancel, ClusterTypeOK

\* Types survive the launch of a coordinator.
LEMMA LaunchType ==
    ASSUME TypeOK, NEW s \in Servers, Launch(s)
    PROVE  TypeOK'
<1>1. CoTypeOK'
    BY Parts, GotoType DEF Launch, Pc
<1> QED
    BY <1>1, Parts, PartsNext, Stays DEF Launch

\* Types survive a crash, in the middle of a dispatch too.
LEMMA CrashType ==
    ASSUME TypeOK, NEW s \in Servers, Crash(s) \/ CrashInDispatch(s)
    PROVE  TypeOK'
<1>1. CoTypeOK' /\ SigTypeOK' /\ BackplaneTypeOK'
    BY Parts, StopType DEF Crash, CrashInDispatch
<1>2. co[s].todo \in SUBSET Nodes
    BY Parts DEF CoTypeOK, CoordinatorState
<1>3. WorkersTypeOK'
    BY <1>2, Parts, Stays DEF Crash, CrashInDispatch, dispatch_cut_short, WorkersTypeOK
<1> QED
    BY <1>1, <1>3, Parts, PartsNext, Stays DEF Crash, CrashInDispatch

\* Types survive the end of a lease.
LEMMA ExpireLeaseType ==
    ASSUME TypeOK, ExpireLease
    PROVE  TypeOK'
<1>1. NoLease \in Lease
    BY DEF NoLease, Lease
<1>2. StoreTypeOK'
    BY <1>1, Parts DEF ExpireLease, LeaseExpires, StoreTypeOK
<1> QED
    BY <1>2, Parts, PartsNext, Stays DEF ExpireLease, coordVars

\* Types survive what workers and pods do.
LEMMA WorkerStepType ==
    ASSUME WorkersTypeOK, NEW n \in Nodes, WorkerStep(n) \/ PodFailure(n)
    PROVE  WorkersTypeOK'
BY DEF WorkersTypeOK, WorkerStep, PodFailure, PodStarts, WorkerSucceeds, WorkerFails, PodBreaks,
       JobState, S3Status

----------------------------------------------------------------------------
(* What a coordinator has in hand                                          *)

\* A coordinator that has left its loop has a verdict to record.
Ending == {"finalize", "report"}

Hands(r) ==
    /\ r.pc \in Busy => r.node \in Nodes
    /\ r.pc \in Ending => r.status \in FinalStatus

HandsOK == \A s \in Servers : Hands(co[s])

\* What the type lemmas assume of handlers.
LEMMA HandsInHand == HandsOK => NodeInHand
BY DEF HandsOK, Hands, NodeInHand

\* One coordinator changes, by a record that has what it needs.
LEMMA HandsPut ==
    ASSUME CoTypeOK, HandsOK, NEW s \in Servers, NEW r, co' = [co EXCEPT ![s] = r], Hands(r)
    PROVE  HandsOK'
BY DEF CoTypeOK, HandsOK

\* Nothing changes hands.
LEMMA HandsStay == HandsOK /\ UNCHANGED co => HandsOK'
BY DEF HandsOK

\* A coordinator moves on to a place where nothing is needed.
LEMMA HandsGoto ==
    ASSUME CoTypeOK, HandsOK, NEW s \in Servers, NEW pc, pc \notin Busy \cup Ending,
           Goto(s, pc)
    PROVE  HandsOK'
<1> DEFINE r == [co[s] EXCEPT !.pc = pc]
<1>1. co' = [co EXCEPT ![s] = r]
    BY DEF Goto
<1>2. r.pc = pc
    BY DEF CoTypeOK, CoordinatorState
<1>3. Hands(r)
    BY <1>2 DEF Hands
<1> HIDE DEF r
<1> QED
    BY <1>1, <1>3, HandsPut

\* finalize_run gets a verdict.
LEMMA HandsFinish ==
    ASSUME NEW r \in CoordinatorState, NEW v \in FinalStatus
    PROVE  Hands(Finish(r, v))
<1>1. Finish(r, v).pc = "finalize" /\ Finish(r, v).status = v
    BY DEF Finish, CoordinatorState
<1> QED
    BY <1>1 DEF Hands, Busy

\* Control flow never enters a handler without its node.
LEMMA HandsResume ==
    ASSUME NEW r \in CoordinatorState
    PROVE  Hands(Resume(r))
<1>1. Hands(Finish(r, outcome_status(r.mem)))
    BY HandsFinish, OutcomeType
<1>2. \/ Resume(r) = Finish(r, outcome_status(r.mem))
      \/ Resume(r).pc \in {"promote", "fold", "loop"}
    BY DEF Resume, CoordinatorState
<1> QED
    BY <1>1, <1>2 DEF Hands, Busy, Ending

\* dispatch_ready_nodes starts with no node in hand.
LEMMA HandsEnterDispatch ==
    ASSUME NEW r \in CoordinatorState
    PROVE  Hands(EnterDispatch(r))
<1>1. EnterDispatch(r) = Resume(r) \/ EnterDispatch(r).pc = "dispatch"
    BY DEF EnterDispatch, CoordinatorState
<1> QED
    BY <1>1, HandsResume DEF Hands, Busy, Ending

\* A handler's save keeps its node in hand, or gives up with a verdict.
LEMMA HandsPersist ==
    ASSUME TypeOK, HandsOK, NEW s \in Servers, NEW r \in CoordinatorState,
           NEW pc \in Busy, r.node \in Nodes,
           PersistOrFinish(s, r, pc) \/ PersistAnyhow(s, r, pc)
    PROVE  HandsOK'
<1>1. PICK p \in {r, Persisted(r)} :
          \/ co' = [co EXCEPT ![s] = [p EXCEPT !.pc = pc]]
          \/ co' = [co EXCEPT ![s] = Finish(p, "failure")]
    BY PersistCases
<1>2. p \in CoordinatorState /\ p.node \in Nodes
    BY PersistedFields
<1>3. Hands(Finish(p, "failure"))
    BY <1>2, HandsFinish DEF FinalStatus
<1> DEFINE q == [p EXCEPT !.pc = pc]
<1>4. q.pc = pc /\ q.node \in Nodes
    BY <1>2 DEF CoordinatorState
<1> HIDE DEF q
<1>5. Hands(q)
    BY <1>4 DEF Hands, Busy, Ending
<1>6. co' = [co EXCEPT ![s] = q] \/ co' = [co EXCEPT ![s] = Finish(p, "failure")]
    BY <1>1 DEF q
<1> QED
    BY <1>3, <1>5, <1>6, HandsPut, Parts

\* handle_node_completed takes its node in hand, or gives up with a verdict.
LEMMA HandsCompleted ==
    ASSUME TypeOK, HandsOK, NEW s \in Servers, NEW r \in CoordinatorState, NEW n \in Nodes,
           NEW success \in BOOLEAN, handle_node_completed(s, r, n, success)
    PROVE  HandsOK'
<1>1. /\ Completes(r, n, success) \in CoordinatorState
      /\ Completes(r, n, success).node = n
    BY CompletesType DEF Completes, CoordinatorState
<1> QED
    BY <1>1, HandsPersist DEF handle_node_completed, Busy

\* So do the failure handlers.
LEMMA HandsFailNode ==
    ASSUME TypeOK, HandsOK, NEW s \in Servers, NEW r \in CoordinatorState, NEW n \in Nodes,
           NEW cause \in Cause, NEW g, FailNode(s, r, n, cause, g)
    PROVE  HandsOK'
<1> DEFINE failed == [r EXCEPT !.mem = mark_failed(@, n), !.node = n, !.cause = cause]
<1>1. failed \in CoordinatorState /\ failed.node = n
    <2>1. r.mem \in Statuses
        BY DEF CoordinatorState
    <2> QED
        BY <2>1, MarkType DEF CoordinatorState
<1>2. PersistOrFinish(s, failed, "cancel")
    BY DEF FailNode
<1> HIDE DEF failed
<1> QED
    BY <1>1, <1>2, HandsPersist DEF Busy

\* The steps that only move a coordinator to a place where nothing is needed.
LEMMA HandsMove ==
    ASSUME TypeOK, HandsOK, NEW s \in Servers,
           \/ RecordPipelineStarted(s) \/ SaveInitial(s)
           \/ ReportStatus(s) \/ CleanupRun(s) \/ ReleaseLease(s)
           \/ ReclaimStep(s) \/ Launch(s) \/ ResumeReconstructed(s)
    PROVE  HandsOK'
<1>1. \/ UNCHANGED co
      \/ \E pc \in {"load", "subscribe", "cleanup", "release", "delete", "reclaim", "reclaim_row", "off",
                    "discard", "acquire", "discard_release", "discard_delete"} : Goto(s, pc)
    BY DEF RecordPipelineStarted, SaveInitial, ReportStatus, CleanupRun, ReleaseLease,
           ReclaimStep, ListOrphan, LoadOrphan, ReclaimOrphan, DiscardOrphan,
           Launch, ResumeReconstructed
<1>2. CASE UNCHANGED co
    BY <1>2, HandsStay
<1>3. CASE \E pc \in {"load", "subscribe", "cleanup", "release", "delete", "reclaim", "reclaim_row", "off",
                      "discard", "acquire", "discard_release", "discard_delete"} : Goto(s, pc)
    BY <1>3, HandsGoto, Parts DEF Busy, Ending
<1> QED
    BY <1>1, <1>2, <1>3

\* A stopped coordinator has nothing in hand.
LEMMA HandsStop ==
    ASSUME TypeOK, HandsOK, NEW s \in Servers, Stop(s)
    PROVE  HandsOK'
<1>1. Stopped.pc = "done"
    BY DEF Stopped, Off
<1>2. Hands(Stopped)
    BY <1>1 DEF Hands, Busy, Ending
<1> QED
    BY <1>2, HandsPut, Parts DEF Stop

\* Starting takes no node in hand.
LEMMA HandsStart ==
    ASSUME TypeOK, HandsOK, NEW s \in Servers, AcquireLease(s) \/ LoadRun(s)
    PROVE  HandsOK'
<1> DEFINE held == [co[s] EXCEPT !.pc = "acquired", !.lease_version = lease_ver + 1]
           loaded == [co[s] EXCEPT !.pc = "read_outcomes", !.stage = "fold",
                                   !.mem = store.statuses, !.version = store.version]
<1>1. \/ Goto(s, "off") \/ Goto(s, "save_initial") \/ Goto(s, "subscribe")
      \/ co' = [co EXCEPT ![s] = held] \/ co' = [co EXCEPT ![s] = loaded]
      \/ co' = [co EXCEPT ![s] = Stopped]
    BY Parts DEF AcquireLease, LoadRun, CoTypeOK
<1>2. held.pc = "acquired" /\ loaded.pc = "read_outcomes"
    BY Parts DEF CoTypeOK, CoordinatorState
<1> HIDE DEF held, loaded
<1>3. Stopped.pc = "done"
    BY DEF Stopped, Off
<1>4. Hands(held) /\ Hands(loaded) /\ Hands(Stopped)
    BY <1>2, <1>3 DEF Hands, Busy, Ending
<1> QED
    BY <1>1, <1>4, HandsPut, HandsGoto, Parts DEF Busy, Ending

\* Reading S3 takes none either.
LEMMA HandsOutcomes ==
    ASSUME TypeOK, HandsOK, NEW s \in Servers, ReadOutcomes(s) \/ PeriodicReconcile(s)
    PROVE  HandsOK'
<1>1. CASE ReadOutcomes(s)
    <2>1. PICK readable \in Readable :
              LET outcomes == read_outcomes(co[s], readable)
              IN  co' = [co EXCEPT ![s] = Resume([co[s] EXCEPT !.outcomes = outcomes,
                                                  !.work = CompletedIn(outcomes)])]
        BY <1>1 DEF ReadOutcomes
    <2> DEFINE outcomes == read_outcomes(co[s], readable)
               read == [co[s] EXCEPT !.outcomes = outcomes, !.work = CompletedIn(outcomes)]
    <2>2. read \in CoordinatorState
        BY ReadOutcomesOperatorType, Parts DEF CoTypeOK, CoordinatorState
    <2>3. Hands(Resume(read))
        BY <2>2, HandsResume
    <2> QED
        BY <2>1, <2>3, HandsPut, Parts
<1>2. CASE PeriodicReconcile(s)
    <2> DEFINE outcomes == read_outcomes(co[s], Nodes)
               read == [co[s] EXCEPT !.pc = "fold", !.outcomes = outcomes,
                                     !.work = CompletedIn(outcomes)]
    <2>1. co' = [co EXCEPT ![s] = read] /\ read.pc = "fold"
        BY <1>2, Parts DEF PeriodicReconcile, CoTypeOK, CoordinatorState
    <2> HIDE DEF read
    <2>2. Hands(read)
        BY <2>1 DEF Hands, Busy, Ending
    <2> QED
        BY <2>1, <2>2, HandsPut, Parts
<1> QED
    BY <1>1, <1>2

\* Folding an outcome takes its node.
LEMMA HandsFold ==
    ASSUME TypeOK, HandsOK, NEW s \in Servers, FoldCompletion(s)
    PROVE  HandsOK'
<1>1. PICK n \in co[s].work :
          handle_node_completed(s, [co[s] EXCEPT !.work = @ \ {n}], n,
                                co[s].outcomes[n] = "success")
    BY DEF FoldCompletion
<1>2. n \in Nodes /\ [co[s] EXCEPT !.work = @ \ {n}] \in CoordinatorState
    BY Parts DEF CoTypeOK, CoordinatorState
<1> QED
    BY <1>1, <1>2, HandsCompleted

\* A handler goes on with the node it has.
LEMMA HandsKeep ==
    ASSUME TypeOK, HandsOK, NEW s \in Servers,
           CancelNode(s) \/ PersistDispatch(s) \/ RecordTerminated(s)
    PROVE  HandsOK'
<1>1. co[s] \in CoordinatorState /\ Hands(co[s])
    BY Parts DEF CoTypeOK, HandsOK
<1>2. CASE CancelNode(s)
    <2> DEFINE r == [co[s] EXCEPT !.pc = "record"]
    <2>1. /\ co' = [co EXCEPT ![s] = r] /\ co[s].node \in Nodes
          /\ r.pc = "record" /\ r.node = co[s].node
        BY <1>1, <1>2 DEF CancelNode, Goto, Hands, Busy, CoordinatorState
    <2> HIDE DEF r
    <2> QED
        BY <2>1, HandsPut, Parts DEF Hands, Ending
<1>3. CASE PersistDispatch(s)
    <2>1. co[s].node \in Nodes
        BY <1>1, <1>3 DEF PersistDispatch, Hands, Busy
    <2> QED
        BY <1>1, <1>3, <2>1, HandsPersist DEF PersistDispatch, Busy
<1>4. CASE RecordTerminated(s)
    <2>1. co[s].status \in FinalStatus
        BY <1>1, <1>4 DEF RecordTerminated, Hands, Ending
    <2>2. PICK st : co' = [co EXCEPT ![s].pc = "report", ![s].mem = st]
        BY <1>4, Parts DEF RecordTerminated, CoTypeOK
    <2> DEFINE r == [co[s] EXCEPT !.pc = "report", !.mem = st]
    <2>3. co' = [co EXCEPT ![s] = r] /\ r.pc = "report" /\ r.status = co[s].status
        BY <1>1, <2>2, Parts DEF CoordinatorState, CoTypeOK
    <2> HIDE DEF r
    <2> QED
        BY <2>1, <2>3, HandsPut, Parts DEF Hands, Busy
<1> QED
    BY <1>2, <1>3, <1>4

\* A handler that has recorded lets go of its node.
LEMMA HandsAfterRecord ==
    ASSUME TypeOK, HandsOK, NEW s \in Servers, RecordNodeCompleted(s) \/ RecordDispatch(s)
    PROVE  HandsOK'
<1> DEFINE r == [co[s] EXCEPT !.pc = "dispatch", !.node = NoNode, !.cause = "none"]
<1>1. co[s] \in CoordinatorState
    BY Parts DEF CoTypeOK
<1>2. /\ Hands(Finish(co[s], "failure")) /\ Hands(EnterDispatch(co[s]))
      /\ Hands(Resume(co[s]))
    BY <1>1, HandsFinish, HandsEnterDispatch, HandsResume DEF FinalStatus
<1>3. r.pc = "dispatch"
    BY <1>1 DEF CoordinatorState
<1>4. \/ co' = [co EXCEPT ![s] = Finish(co[s], "failure")]
      \/ co' = [co EXCEPT ![s] = EnterDispatch(co[s])]
      \/ co' = [co EXCEPT ![s] = Resume(co[s])]
      \/ co' = [co EXCEPT ![s] = r]
    BY DEF RecordNodeCompleted, RecordDispatch
<1> HIDE DEF r
<1>5. Hands(r)
    BY <1>3 DEF Hands, Busy, Ending
<1> QED
    BY <1>2, <1>4, <1>5, HandsPut, Parts

\* A dispatch takes its node.
LEMMA HandsDispatch ==
    ASSUME TypeOK, HandsOK, NEW s \in Servers, DispatchNode(s)
    PROVE  HandsOK'
<1>0. PICK n \in co[s].todo : \E st, cause :
          co' = [co EXCEPT ![s].pc = "dispatched", ![s].todo = @ \ {n}, ![s].node = n,
                           ![s].cause = cause, ![s].mem = st]
    BY DEF DispatchNode
<1>1. PICK st, cause :
          co' = [co EXCEPT ![s].pc = "dispatched", ![s].todo = @ \ {n}, ![s].node = n,
                           ![s].cause = cause, ![s].mem = st]
    BY <1>0
<1> DEFINE r == [co[s] EXCEPT !.pc = "dispatched", !.todo = @ \ {n}, !.node = n,
                              !.cause = cause, !.mem = st]
<1>2. n \in Nodes /\ r.pc = "dispatched" /\ r.node = n
    BY Parts DEF CoTypeOK, CoordinatorState
<1>3. co' = [co EXCEPT ![s] = r]
    BY <1>1, Parts DEF CoTypeOK
<1> HIDE DEF r
<1> QED
    BY <1>2, <1>3, HandsPut, Parts DEF Hands, Ending

\* A promotion takes its node.
LEMMA HandsPromote ==
    ASSUME TypeOK, HandsOK, NEW s \in Servers, PromoteNode(s)
    PROVE  HandsOK'
<1>1. PICK n \in co[s].work :
          LET r == [co[s] EXCEPT !.work = @ \ {n}]
          IN  IF r.mem[n] = "pending"
              THEN PersistAnyhow(s, [r EXCEPT !.mem = mark_running(@, n), !.node = n],
                                 "promote_check")
              ELSE /\ co' = [co EXCEPT ![s] = Resume(r)]
                   /\ UNCHANGED store
    BY DEF PromoteNode
<1> DEFINE r == [co[s] EXCEPT !.work = @ \ {n}]
           marked == [r EXCEPT !.mem = mark_running(@, n), !.node = n]
<1>2. co[s] \in CoordinatorState /\ n \in Nodes
    BY Parts DEF CoTypeOK, CoordinatorState
<1>3. r \in CoordinatorState /\ r.mem \in Statuses
    BY <1>2 DEF CoordinatorState
<1>4. \/ PersistAnyhow(s, marked, "promote_check")
      \/ co' = [co EXCEPT ![s] = Resume(r)]
    BY <1>1
<1> HIDE DEF r
<1>5. marked \in CoordinatorState /\ marked.node = n
    BY <1>2, <1>3, MarkType DEF CoordinatorState
<1> HIDE DEF marked
<1> QED
    BY <1>2, <1>3, <1>4, <1>5, HandsResume, HandsPersist, HandsPut, Parts DEF Busy

\* The pod check lets go of it or fails it.
LEMMA HandsPromoteCheck ==
    ASSUME TypeOK, HandsOK, NEW s \in Servers, PromoteCheck(s)
    PROVE  HandsOK'
<1>1. co[s] \in CoordinatorState /\ co[s].node \in Nodes /\ "infra" \in Cause
    BY Parts DEF CoTypeOK, HandsOK, Hands, Busy, PromoteCheck, Cause
<1>2. \/ co' = [co EXCEPT ![s] = Resume(co[s])]
      \/ FailNode(s, co[s], co[s].node, "infra", cancel_node_timeout(sig[s], co[s].node))
    BY DEF PromoteCheck
<1> QED
    BY <1>1, <1>2, HandsResume, HandsPut, HandsFailNode, Parts

\* Rehydration ends in a verdict or at the subscription.
LEMMA HandsRehydrate ==
    ASSUME TypeOK, HandsOK, NEW s \in Servers, RehydrateTimers(s)
    PROVE  HandsOK'
<1> DEFINE next == [co[s] EXCEPT !.pc = "subscribe", !.stage = "start",
                                 !.outcomes = [n \in Nodes |-> "none"]]
           over == Finish(co[s], outcome_status(co[s].mem))
<1>1. Hands(over)
    BY Parts, HandsFinish, OutcomeType DEF CoTypeOK
<1>2. next.pc = "subscribe"
    BY Parts DEF CoTypeOK, CoordinatorState
<1>3. co' = [co EXCEPT ![s] = IF is_complete(co[s].mem) THEN over ELSE next]
    BY DEF RehydrateTimers
<1> HIDE DEF next, over
<1>4. Hands(next)
    BY <1>2 DEF Hands, Busy, Ending
<1> QED
    BY <1>1, <1>3, <1>4, HandsPut, Parts

\* Subscribing leads into the dispatch loop or ends the task.
LEMMA HandsSubscribe ==
    ASSUME TypeOK, HandsOK, NEW s \in Servers, Subscribe(s)
    PROVE  HandsOK'
<1>1. Hands(EnterDispatch(co[s]))
    BY Parts, HandsEnterDispatch DEF CoTypeOK
<1>2. Stop(s) \/ co' = [co EXCEPT ![s] = EnterDispatch(co[s])]
    BY DEF Subscribe
<1> QED
    BY <1>1, <1>2, HandsPut, HandsStop, Parts

\* The loop's exits end the task or carry a verdict.
LEMMA HandsLoop ==
    ASSUME TypeOK, HandsOK, NEW s \in Servers,
           HeartbeatFails(s) \/ PipelineDeadline(s) \/ SubscriptionClosed(s) \/ ReceiveCancel(s)
    PROVE  HandsOK'
<1>1. Hands(Finish(co[s], "failure")) /\ Hands(Finish(co[s], "cancelled"))
    BY Parts, HandsFinish DEF CoTypeOK, FinalStatus
<1>2. \/ Stop(s)
      \/ co' = [co EXCEPT ![s] = Finish(co[s], "failure")]
      \/ co' = [co EXCEPT ![s] = Finish(co[s], "cancelled")]
    BY DEF HeartbeatFails, PipelineDeadline, SubscriptionClosed, ReceiveCancel
<1> QED
    BY <1>1, <1>2, HandsPut, HandsStop, Parts

\* An event's node is taken in hand.
LEMMA HandsReceive ==
    ASSUME TypeOK, HandsOK, NEW s \in Servers, ReceiveNodeCompleted(s)
    PROVE  HandsOK'
<1>1. Head(events) \in BackplaneEvent
    BY NextEventType, Parts DEF ReceiveNodeCompleted, Receives
<1>2. Head(events).node \in Nodes /\ Head(events).success \in BOOLEAN
    BY <1>1 DEF ReceiveNodeCompleted, BackplaneEvent
<1> QED
    BY <1>2, HandsCompleted, Parts DEF ReceiveNodeCompleted, CoTypeOK

\* A failed node is taken in hand, or ignored.
LEMMA HandsFailure ==
    ASSUME TypeOK, HandsOK, NEW s \in Servers, NEW type, HandleNodeFailure(s, type)
    PROVE  HandsOK'
<1> DEFINE n == Head(sig[s].inbox).node
           cause == IF type = "timed_out" THEN "failure" ELSE "infra"
           g == IF type = "timed_out" THEN Consumed(s)
                ELSE cancel_node_timeout(Consumed(s), n)
<1>1. n \in Nodes /\ cause \in Cause
    BY Parts, ConsumedType DEF HandleNodeFailure, Got, Cause
<1>2. FailNode(s, co[s], n, cause, g) \/ UNCHANGED co
    BY DEF HandleNodeFailure
<1> HIDE DEF n, cause, g
<1> QED
    BY <1>1, <1>2, HandsFailNode, HandsStay, Parts DEF CoTypeOK

----------------------------------------------------------------------------
(* The invariant and the theorem                                           *)

\* Types alone are not inductive: CancelNode and its kind index the Jobs by
\* the node in hand, which must be a node of the graph.
TypeInv == ClusterTypeOK /\ HandsOK

\* A live coordinator's own step keeps the invariant.
LEMMA RunStepType ==
    ASSUME TypeOK, HandsOK, NEW s \in Servers, RunStep(s)
    PROVE  TypeOK' /\ HandsOK'
<1>1. NodeInHand
    BY HandsInHand
<1>2. CASE AcquireLease(s)
    BY <1>2, AcquireLeaseType, HandsStart
<1>3. CASE RecordPipelineStarted(s)
    BY <1>3, RecordPipelineStartedType, HandsMove
<1>4. CASE LoadRun(s)
    BY <1>4, LoadRunType, HandsStart
<1>5. CASE SaveInitial(s)
    BY <1>5, SaveInitialType, HandsMove
<1>6. CASE ReadOutcomes(s)
    BY <1>6, ReadOutcomesType, HandsOutcomes
<1>7. CASE FoldCompletion(s)
    BY <1>7, FoldCompletionType, HandsFold
<1>8. CASE PromoteNode(s)
    BY <1>8, PromoteNodeType, HandsPromote
<1>9. CASE PromoteCheck(s)
    BY <1>1, <1>9, PromoteCheckType, HandsPromoteCheck
<1>10. CASE RehydrateTimers(s)
    BY <1>10, RehydrateTimersType, HandsRehydrate
<1>11. CASE Subscribe(s)
    BY <1>11, SubscribeType, HandsSubscribe
<1>12. CASE CancelNode(s)
    BY <1>1, <1>12, CancelNodeType, HandsKeep
<1>13. CASE RecordNodeCompleted(s)
    BY <1>1, <1>13, RecordNodeCompletedType, HandsAfterRecord
<1>14. CASE DispatchNode(s)
    BY <1>14, DispatchNodeType, HandsDispatch
<1>15. CASE PersistDispatch(s)
    BY <1>15, PersistDispatchType, HandsKeep
<1>16. CASE RecordDispatch(s)
    BY <1>1, <1>16, RecordDispatchType, HandsAfterRecord
<1>17. CASE RecordTerminated(s)
    BY <1>17, RecordTerminatedType, HandsKeep
<1>18. CASE ReportStatus(s)
    BY <1>18, ReportStatusType, HandsMove
<1>19. CASE CleanupRun(s)
    BY <1>19, CleanupRunType, HandsMove
<1>20. CASE ReleaseLease(s)
    BY <1>20, ReleaseLeaseType, HandsMove
<1>21. CASE DeleteRun(s)
    BY <1>21, DeleteRunType, HandsStop DEF DeleteRun
<1> QED
    BY <1>2, <1>3, <1>4, <1>5, <1>6, <1>7, <1>8, <1>9, <1>10, <1>11, <1>12, <1>13, <1>14,
       <1>15, <1>16, <1>17, <1>18, <1>19, <1>20, <1>21 DEF RunStep

\* A branch of the select loop keeps it.
LEMMA LoopStepType ==
    ASSUME TypeOK, HandsOK, NEW s \in Servers, LoopStep(s)
    PROVE  TypeOK' /\ HandsOK'
<1>1. CASE PeriodicReconcile(s)
    BY <1>1, PeriodicReconcileType, HandsOutcomes
<1>2. CASE HeartbeatFails(s)
    BY <1>2, HeartbeatFailsType, HandsLoop
<1>3. CASE PipelineDeadline(s)
    BY <1>3, PipelineDeadlineType, HandsLoop
<1>4. CASE SubscriptionClosed(s)
    BY <1>4, SubscriptionClosedType, HandsLoop
<1>5. CASE ReceiveNodeCompleted(s)
    BY <1>5, ReceiveNodeCompletedType, HandsReceive
<1>6. CASE ReceiveCancel(s)
    BY <1>6, ReceiveCancelType, HandsLoop
<1>7. CASE HandlePodRunning(s)
    BY <1>7, HandlePodRunningType, HandsStay DEF HandlePodRunning
<1>8. CASE \E type : HandleNodeFailure(s, type)
    BY <1>8, HandleNodeFailureType, HandsFailure
<1> QED
    BY <1>1, <1>2, <1>3, <1>4, <1>5, <1>6, <1>7, <1>8
    DEF LoopStep, HandleNodeInfraFailed, HandlePodStartTimedOut, HandleNodeTimedOut

\* A timer or the pod watcher keeps it.
LEMMA SignalStepType ==
    ASSUME TypeOK, HandsOK, NEW s \in Servers, SignalStep(s)
    PROVE  TypeOK' /\ HandsOK'
<1>1. CASE DetachedTimerFires(s)
    BY <1>1, DetachedTimerFiresType, HandsStay DEF DetachedTimerFires
<1>2. CASE \E n \in Nodes : TimerFires(s, n)
    BY <1>2, TimerFiresType, HandsStay DEF TimerFires
<1>3. CASE \E n \in Nodes : WatcherReportsRunning(s, n) \/ WatcherReportsFailure(s, n)
    BY <1>3, WatcherType, HandsStay DEF WatcherReportsRunning, WatcherReportsFailure
<1> QED
    BY <1>1, <1>2, <1>3 DEF SignalStep

\* A step of the resource sweep keeps it.
LEMMA SweepStepType ==
    ASSUME TypeOK, HandsOK, sweep \in SweepState, SweepStep
    PROVE  TypeOK' /\ HandsOK' /\ sweep' \in SweepState
<1>1. CASE ListTerminal \/ ListInProgress \/ CheckRedisState \/ ListNodeRuns \/ ListManaged
    BY <1>1, SweepReadType, HandsStay
    DEF ListTerminal, ListInProgress, CheckRedisState, ListNodeRuns, ListManaged, vars, coordVars
<1>2. CASE FinalizeTerminal
    BY <1>2, FinalizeTerminalType, HandsStay DEF FinalizeTerminal, coordVars
<1>3. CASE ReapTerminal
    BY <1>3, ReapTerminalType, HandsStay DEF ReapTerminal, coordVars
<1>4. CASE RefreshRows
    BY <1>4, RefreshRowsType, HandsStay DEF RefreshRows, coordVars
<1>5. CASE FinalizeReconciled
    BY <1>5, FinalizeReconciledType, HandsStay DEF FinalizeReconciled, coordVars
<1>6. CASE \E s \in Servers : ResumeReconstructed(s)
    BY <1>6, ResumeReconstructedType, HandsMove
<1>7. CASE ReapKube
    BY <1>7, ReapKubeType, HandsStay DEF ReapKube, coordVars
<1> QED
    BY <1>1, <1>2, <1>3, <1>4, <1>5, <1>6, <1>7 DEF SweepStep

\* The initial state satisfies the invariant.
LEMMA TypeInvInit == ClusterInit => TypeInv
<1> SUFFICES ASSUME ClusterInit PROVE TypeInv
    OBVIOUS
<1>1. StoreTypeOK
    BY NewRunType DEF ClusterInit, Init, StoreInit, StoreTypeOK, NoRun, RunState, NoLease, Lease
<1>2. WorkersTypeOK /\ HistoryTypeOK
    BY DEF ClusterInit, Init, WorkersInit, WorkersTypeOK, HistoryInit, HistoryTypeOK,
           JobState, S3Status, PipelineRow, NodeRow
<1>3. BackplaneTypeOK
    <2>1. << >> \in Seq(BackplaneEvent)
        OBVIOUS
    <2> QED
        BY <2>1 DEF ClusterInit, Init, BackplaneInit, BackplaneTypeOK
<1>4. CoTypeOK /\ SigTypeOK
    BY OffType DEF ClusterInit, Init, CoordinatorInit, CoTypeOK, SigTypeOK
<1>5. HandsOK
    <2>1. Off.pc = "off"
        BY DEF Off
    <2>2. Hands(Off)
        BY <2>1 DEF Hands, Busy, Ending
    <2> QED
        BY <2>2 DEF ClusterInit, Init, CoordinatorInit, HandsOK
<1>6. /\ sweep \in SweepState
      /\ pokes \in [Nodes -> 0..MaxPokes]
      /\ cancels \in 0..MaxCancels
    BY NoSweepType, BoundsAssumption DEF ClusterInit
<1> QED
    BY <1>1, <1>2, <1>3, <1>4, <1>5, <1>6, Parts DEF TypeInv, ClusterTypeOK

\* Every step keeps it.
LEMMA TypeInvStep == TypeInv /\ [Next]_clusterVars => TypeInv'
<1> SUFFICES ASSUME TypeInv, [Next]_clusterVars PROVE TypeInv'
    OBVIOUS
<1> USE DEF TypeInv, ClusterTypeOK
<1>1. CASE \E s \in Servers :
              (RunStep(s) \/ LoopStep(s) \/ SignalStep(s)) /\ UNCHANGED <<sweep, requestVars>>
    BY <1>1, RunStepType, LoopStepType, SignalStepType DEF requestVars
<1>2. CASE \E n \in Nodes :
              /\ WorkerStep(n) \/ PodFailure(n)
              /\ UNCHANGED <<storeVars, historyVars, backplaneVars, coordVars, sweep, requestVars>>
    <2>1. WorkersTypeOK'
        BY <1>2, WorkerStepType, Parts
    <2> QED
        BY <1>2, <2>1, Parts, PartsNext, Stays, HandsStay DEF coordVars, requestVars
<1>3. CASE \E n \in Nodes : Poke(n)
    BY <1>3, PokeType, HandsStay DEF Poke, coordVars
<1>4. CASE RequestCancel
    BY <1>4, RequestCancelType, HandsStay DEF RequestCancel, coordVars
<1>5. CASE \E s \in Servers : Launch(s)
    <2>1. TypeOK' /\ HandsOK'
        BY <1>5, LaunchType, HandsMove
    <2> QED
        BY <1>5, <2>1 DEF Launch, requestVars
<1>6. CASE \E s \in Servers : ReclaimStep(s) /\ UNCHANGED requestVars
    <2>1. TypeOK' /\ UNCHANGED sweep
        BY <1>6, ReclaimType, DiscardOrphanType DEF ReclaimStep
    <2> QED
        BY <1>6, <2>1, HandsMove DEF requestVars
<1>7. CASE SweepStep /\ UNCHANGED requestVars
    BY <1>7, SweepStepType DEF requestVars
<1>8. CASE \E s \in Servers : Crash(s) \/ CrashInDispatch(s)
    <2>1. TypeOK' /\ HandsOK'
        BY <1>8, CrashType, HandsStop DEF Crash, CrashInDispatch
    <2> QED
        BY <1>8, <2>1 DEF Crash, CrashInDispatch, requestVars
<1>9. CASE ExpireLease
    BY <1>9, ExpireLeaseType, HandsStay DEF ExpireLease, coordVars, requestVars
<1>10. CASE UNCHANGED clusterVars
    BY <1>10, Parts, PartsNext, Stays, HandsStay DEF clusterVars, vars, coordVars, requestVars
<1> QED
    BY <1>1, <1>2, <1>3, <1>4, <1>5, <1>6, <1>7, <1>8, <1>9, <1>10 DEF Next

\* The invariant holds in every reachable state.
THEOREM TypeInvHolds == Spec => []TypeInv
BY TypeInvInit, TypeInvStep, PTL DEF Spec

\* Type correctness: for every dependency graph, every number of server ids
\* and every setting, what coordinators, reaper, workers and services store
\* has its type.
THEOREM TypeCorrect == Spec => []ClusterTypeOK
<1>1. TypeInv => ClusterTypeOK
    BY DEF TypeInv
<1> QED
    BY <1>1, TypeInvHolds, PTL

============================================================================
