---------------------------- MODULE Alone_proofs ----------------------------
(***************************************************************************)
(* A coordinator that is never replaced: one server id, no sweep.  For     *)
(* every graph, every signal and every fault that the statement does not   *)
(* exclude, Redis lacks no completion of the coordinator whenever it       *)
(* waits, no node is executed twice, fail_fast stops the run, its history  *)
(* is complete before its artifacts are deleted, and what the run has      *)
(* created is gone when it has returned.                                   *)
(*                                                                         *)
(* None of this is inductive by itself.  AloneInv says what is true at     *)
(* each place of run(): what is left to dispatch is pending, what was      *)
(* launched is not, Redis lags behind memory by dispatches only, and,      *)
(* while Redis does not err, every save is accepted because the stored     *)
(* version is the coordinator's own.                                       *)
(***************************************************************************)
EXTENDS ClusterType_proofs

Alone == Sweeps = {} /\ \A s, t \in Servers : s = t

----------------------------------------------------------------------------
(* The invariant                                                           *)

Early == {"off", "acquire", "acquired", "load", "save_initial"}

Dispatching == {"dispatch", "dispatched", "dispatch_record"}

Working == {"subscribe", "fold", "record", "cancel", "loop"} \cup Dispatching

Late == {"finalize", "report", "cleanup", "release", "delete", "done"}

\* A run that nobody had before is never rehydrated or reclaimed.
Control(r) ==
    /\ r.pc \in Early \cup Working \cup Late
    /\ r.stage \in {"start", "loop"}
    /\ r.pc \in Early \cup {"subscribe"} => r.work = {}
    /\ r.pc \notin Dispatching => r.todo = {}
    /\ \A n \in r.todo : r.mem[n] = "pending"

\* Redis lags behind memory by dispatches only, which a later save may be
\* rejected for; while Redis does not err it lags behind only between a
\* dispatch and its save.
Saved(r, kept) ==
    /\ r.pc \in Early => kept = NoRun /\ r.mem = NewRun /\ r.version = 0
    /\ r.pc \in Working =>
          /\ \A n \in Nodes : LosesAtMostDispatch(kept.statuses[n], r.mem[n])
          /\ RedisErrs \/ kept.version = r.version
          /\ RedisErrs \/ r.pc = "dispatched" \/ kept.statuses = r.mem

\* What has been launched is no longer pending.  Only a Kubernetes error can
\* leave a ConfigMap without a Job.
Once(r) ==
    /\ r.pc \in Early => launched = {}
    /\ r.pc \in Working => \A n \in launched : r.mem[n] # "pending"
    /\ \A n \in Nodes : job[n] # "none" => n \in launched
    /\ "kube" \in Faults \/ config_maps \subseteq launched

\* The lease is the coordinator's until it releases it.
Held(s, r) ==
    /\ r.pc \in {"off", "acquire"} => lease = NoLease
    /\ r.pc \in {"acquired", "load", "save_initial"} \cup Working
                    \cup {"finalize", "report", "cleanup", "release"}
          => lease.owner = s /\ lease.version = r.lease_version
    /\ r.pc \in Early \cup {"subscribe"} => subscriber = NoServer

AloneInv ==
    /\ sweep.pc = "idle"
    /\ \A s \in Servers :
          Control(co[s]) /\ Saved(co[s], store) /\ Once(co[s]) /\ Held(s, co[s])

----------------------------------------------------------------------------
(* What the helpers return                                                 *)

\* Outside rehydration a handler returns to the fold, to the loop or to the
\* end of the run.
LEMMA ResumeFields ==
    ASSUME NEW r \in CoordinatorState, r.stage \in {"start", "loop"}
    PROVE  LET q == Resume(r)
           IN  /\ q.mem = r.mem /\ q.version = r.version /\ q.lease_version = r.lease_version
               /\ q.stage \in {"start", "loop"}
               /\ \/ q.pc = "fold" /\ q.todo = r.todo
                  \/ q.pc = "loop" /\ q.todo = r.todo /\ ~is_complete(r.mem)
                  \/ q.pc = "finalize" /\ q.todo = {}
               /\ r.work = {} => q.pc # "fold"
BY DEF Resume, Finish, CoordinatorState

\* dispatch_ready_nodes starts with the pending nodes that are ready.
LEMMA EnterDispatchFields ==
    ASSUME NEW r \in CoordinatorState, r.stage \in {"start", "loop"}
    PROVE  LET q == EnterDispatch(r)
           IN  /\ q.mem = r.mem /\ q.version = r.version /\ q.lease_version = r.lease_version
               /\ q.stage \in {"start", "loop"}
               /\ \/ q.pc = "fold" /\ q.todo = r.todo
                  \/ q.pc = "loop" /\ q.todo = r.todo /\ ~is_complete(r.mem) /\ ready_nodes(r.mem) = {}
                  \/ q.pc = "finalize" /\ q.todo = {}
                  \/ q.pc = "dispatch" /\ q.todo = ready_nodes(r.mem)
               /\ r.work = {} => q.pc # "fold"
<1>1. CASE ready_nodes(r.mem) = {}
    BY <1>1, ResumeFields DEF EnterDispatch
<1>2. CASE ready_nodes(r.mem) # {}
    BY <1>2 DEF EnterDispatch, CoordinatorState
<1> QED
    BY <1>1, <1>2

\* The end of the run keeps memory, version and lease.
LEMMA FinishFields ==
    ASSUME NEW r \in CoordinatorState, NEW v
    PROVE  LET q == Finish(r, v)
           IN  /\ q.mem = r.mem /\ q.version = r.version /\ q.lease_version = r.lease_version
               /\ q.stage = r.stage /\ q.pc = "finalize" /\ q.todo = {} /\ q.work = {}
BY DEF Finish, CoordinatorState

\* A save in fields: it is accepted, or Redis has erred or rejected it.
SaveDone(r, q) ==
    /\ q.version = r.version + 1
    /\ store' = [version |-> q.version, statuses |-> q.mem]

SaveFails(r) == RedisErrs \/ ~SaveAccepted(r.version)

LEMMA SaveFields ==
    ASSUME NEW r \in CoordinatorState, persist_state(r)
    PROVE  IF SaveAccepted(r.version)
           THEN Persisted(r).version = r.version + 1
                /\ store' = [version |-> r.version + 1, statuses |-> r.mem]
           ELSE store' = store
BY DEF Persisted, persist_state, save_run, CoordinatorState

\* A handler's save.
LEMMA SaveOrFinishFields ==
    ASSUME TypeOK, NEW s \in Servers, NEW r \in CoordinatorState, NEW pc,
           PersistOrFinish(s, r, pc)
    PROVE  LET q == co'[s]
           IN  /\ q.mem = r.mem /\ q.stage = r.stage /\ q.lease_version = r.lease_version
               /\ \/ /\ q.pc = pc /\ q.todo = r.todo /\ q.node = r.node /\ q.cause = r.cause
                     /\ SaveDone(r, q)
                  \/ /\ q.pc = "finalize" /\ q.todo = {} /\ q.status = "failure"
                     /\ SaveFails(r)
<1>1. CASE persist_state(r) /\ SaveAccepted(r.version)
           /\ co' = [co EXCEPT ![s] = [Persisted(r) EXCEPT !.pc = pc]]
    <2> DEFINE p == Persisted(r)
    <2>1. /\ p \in CoordinatorState /\ p.version = r.version + 1
          /\ p.mem = r.mem /\ p.todo = r.todo /\ p.node = r.node /\ p.cause = r.cause
          /\ p.stage = r.stage /\ p.lease_version = r.lease_version
          /\ store' = [version |-> r.version + 1, statuses |-> r.mem]
        BY <1>1, PersistedFields, SaveFields
    <2>2. co'[s] = [p EXCEPT !.pc = pc]
        BY <1>1, Parts DEF CoTypeOK
    <2> HIDE DEF p
    <2> QED
        BY <2>1, <2>2 DEF CoordinatorState, SaveDone
<1>2. CASE \E p \in {r, Persisted(r)} : SaveFails(r)
               /\ co' = [co EXCEPT ![s] = Finish(p, "failure")]
    <2>1. PICK p \in {r, Persisted(r)} : SaveFails(r)
               /\ co' = [co EXCEPT ![s] = Finish(p, "failure")]
        BY <1>2
    <2>2. /\ p \in CoordinatorState /\ p.mem = r.mem /\ p.stage = r.stage
          /\ p.lease_version = r.lease_version
        BY PersistedFields
    <2>3. co'[s] = Finish(p, "failure")
        BY <2>1, Parts DEF CoTypeOK
    <2>4. LET q == Finish(p, "failure")
          IN  /\ q.mem = p.mem /\ q.stage = p.stage /\ q.lease_version = p.lease_version
              /\ q.pc = "finalize" /\ q.todo = {} /\ q.status = "failure"
        BY <2>2 DEF Finish, CoordinatorState
    <2> QED
        BY <2>1, <2>2, <2>3, <2>4
<1> QED
    BY <1>1, <1>2 DEF PersistOrFinish, persist_errs, SaveFails

\* A save whose failure is only logged.
LEMMA SaveAnyhowFields ==
    ASSUME TypeOK, NEW s \in Servers, NEW r \in CoordinatorState, NEW pc,
           PersistAnyhow(s, r, pc)
    PROVE  LET q == co'[s]
           IN  /\ q.pc = pc /\ q.mem = r.mem /\ q.stage = r.stage
               /\ q.lease_version = r.lease_version
               /\ q.work = r.work /\ q.todo = r.todo /\ q.node = r.node /\ q.cause = r.cause
               /\ \/ SaveDone(r, q)
                  \/ SaveFails(r) /\ (store' = store \/ store'.statuses = r.mem)
<1>1. PICK p \in {r, Persisted(r)} :
          /\ co' = [co EXCEPT ![s] = [p EXCEPT !.pc = pc]]
          /\ \/ p = Persisted(r) /\ persist_state(r)
             \/ SaveFails(r)
    BY DEF PersistAnyhow, persist_errs, SaveFails
<1>2. /\ p \in CoordinatorState
      /\ p.mem = r.mem /\ p.todo = r.todo /\ p.node = r.node /\ p.cause = r.cause
      /\ p.stage = r.stage /\ p.lease_version = r.lease_version /\ p.work = r.work
    BY PersistedFields
<1>3. co'[s] = [p EXCEPT !.pc = pc]
    BY <1>1, Parts DEF CoTypeOK
<1>4. store' = store \/ store'.statuses = r.mem
    BY PersistCases
<1>5. \/ p.version = r.version + 1 /\ store' = [version |-> r.version + 1, statuses |-> r.mem]
      \/ SaveFails(r)
    BY <1>1, SaveFields DEF SaveFails
<1> QED
    BY <1>2, <1>3, <1>4, <1>5 DEF CoordinatorState, SaveDone

\* A transition of one node changes that node only, and never to pending.
LEMMA MarkFields ==
    ASSUME NEW st \in Statuses, NEW n \in Nodes, NEW m \in Nodes
    PROVE  /\ m # n => /\ mark_running(st, n)[m] = st[m] /\ mark_success(st, n)[m] = st[m]
                       /\ mark_failed(st, n)[m] = st[m] /\ mark_dispatch_failed(st, n)[m] = st[m]
           /\ mark_running(st, n)[n] # "pending" /\ mark_success(st, n)[n] # "pending"
           /\ mark_failed(st, n)[n] # "pending" /\ mark_dispatch_failed(st, n)[n] # "pending"
BY DEF Statuses, NodeStatus, mark_running, mark_success, mark_failed, mark_dispatch_failed, Active

\* A save at the coordinator's own version is accepted.
LEMMA WorkingAccepts ==
    ASSUME NEW r \in CoordinatorState, store \in RunState, Saved(r, store), r.pc \in Working
    PROVE  RedisErrs \/ SaveAccepted(r.version)
BY DEF Saved, SaveAccepted, RunExists, Absent, CoordinatorState, RunState

\* handle_node_completed in fields.
LEMMA CompletedFields ==
    ASSUME TypeOK, NEW s \in Servers, NEW r \in CoordinatorState, NEW n \in Nodes,
           NEW success \in BOOLEAN, handle_node_completed(s, r, n, success)
    PROVE  LET q == co'[s]
           IN  /\ q.stage = r.stage /\ q.lease_version = r.lease_version
               /\ q.mem = IF success THEN mark_success(r.mem, n) ELSE mark_failed(r.mem, n)
               /\ \/ /\ q.pc = "record" /\ q.node = n /\ q.todo = r.todo
                     /\ q.cause = IF success THEN "success" ELSE "failure"
                     /\ SaveDone(r, q)
                  \/ /\ q.pc = "finalize" /\ q.todo = {} /\ q.status = "failure"
                     /\ SaveFails(r)
<1> DEFINE m == Completes(r, n, success)
<1>1. m \in CoordinatorState
    BY CompletesType
<1>2. /\ m.mem = IF success THEN mark_success(r.mem, n) ELSE mark_failed(r.mem, n)
      /\ m.cause = IF success THEN "success" ELSE "failure"
      /\ m.node = n /\ m.stage = r.stage /\ m.lease_version = r.lease_version
      /\ m.todo = r.todo /\ m.version = r.version
    BY DEF Completes, CoordinatorState
<1>3. PersistOrFinish(s, m, "record")
    BY DEF handle_node_completed
<1> HIDE DEF m
<1> QED
    BY <1>1, <1>2, <1>3, SaveOrFinishFields DEF SaveDone, SaveFails

\* The failure handlers in fields.
LEMMA FailFields ==
    ASSUME TypeOK, NEW s \in Servers, NEW r \in CoordinatorState, NEW n \in Nodes,
           NEW cause \in Cause, NEW g, FailNode(s, r, n, cause, g)
    PROVE  LET q == co'[s]
           IN  /\ q.stage = r.stage /\ q.lease_version = r.lease_version
               /\ q.mem = mark_failed(r.mem, n)
               /\ \/ /\ q.pc = "cancel" /\ q.node = n /\ q.todo = r.todo /\ q.cause = cause
                     /\ SaveDone(r, q)
                  \/ /\ q.pc = "finalize" /\ q.todo = {} /\ q.status = "failure"
                     /\ SaveFails(r)
<1> DEFINE st == mark_failed(r.mem, n)
           m == [r EXCEPT !.mem = st, !.node = n, !.cause = cause]
<1>1. st \in Statuses
    BY MarkType DEF CoordinatorState
<1>2. PersistOrFinish(s, m, "cancel")
    BY DEF FailNode
<1> HIDE DEF st
<1>3. /\ m \in CoordinatorState /\ m.mem = st /\ m.cause = cause
      /\ m.node = n /\ m.stage = r.stage /\ m.lease_version = r.lease_version
      /\ m.todo = r.todo /\ m.version = r.version
    BY <1>1 DEF CoordinatorState
<1> HIDE DEF m
<1> QED
    BY <1>2, <1>3, SaveOrFinishFields DEF SaveDone, SaveFails, st

----------------------------------------------------------------------------
(* Who can move                                                            *)

\* The four parts of the only coordinator.
AloneAt(s) == Control(co[s]) /\ Saved(co[s], store) /\ Once(co[s]) /\ Held(s, co[s])

\* It is enough to look at the coordinator that moves.
LEMMA AloneClose ==
    ASSUME Alone, NEW s \in Servers, sweep'.pc = "idle", AloneAt(s)'
    PROVE  AloneInv'
BY DEF Alone, AloneInv, AloneAt

\* What the invariant and the types say of it.
LEMMA AloneOpen ==
    ASSUME TypeInv, AloneInv, NEW s \in Servers
    PROVE  /\ TypeOK /\ AloneAt(s) /\ Hands(co[s])
           /\ co[s] \in CoordinatorState /\ store \in RunState
           /\ co[s].mem \in Statuses /\ co[s].version \in Nat
           /\ co[s].work \subseteq Nodes /\ co[s].todo \subseteq Nodes
BY Parts DEF TypeInv, ClusterTypeOK, HandsOK, AloneInv, AloneAt, CoTypeOK, StoreTypeOK,
             CoordinatorState

\* Nothing rehydrates, reclaims, sweeps or kills it, and only an error of
\* Redis keeps it from renewing its lease.
LEMMA AloneNever ==
    ASSUME Alone, TypeInv, AloneInv, NEW s \in Servers
    PROVE  /\ ~ReadOutcomes(s) /\ ~PromoteNode(s) /\ ~PromoteCheck(s) /\ ~RehydrateTimers(s)
           /\ RedisErrs \/ ~HeartbeatFails(s)
           /\ ~ReclaimStep(s)
           /\ ~SweepStep
           /\ ~Crash(s) /\ ~CrashInDispatch(s)
<1>1. /\ co[s].pc \in Early \cup Working \cup Late
      /\ sweep.pc = "idle"
      /\ co[s].pc = "off" => store = NoRun
      /\ co[s].pc = "loop" => lease.owner = s /\ lease.version = co[s].lease_version
    BY DEF AloneInv, Control, Saved, Held, Early, Working
<1>2. ~ReadOutcomes(s) /\ ~PromoteNode(s) /\ ~PromoteCheck(s) /\ ~RehydrateTimers(s)
    BY <1>1 DEF ReadOutcomes, PromoteNode, PromoteCheck, RehydrateTimers,
                Early, Working, Dispatching, Late
<1>3. RedisErrs \/ ~HeartbeatFails(s)
    BY <1>1 DEF HeartbeatFails, Renewable
<1>4. ~ReclaimStep(s)
    <2>1. co[s].pc = "off" => ~RunExists
        BY <1>1 DEF RunExists, NoRun, Absent
    <2> QED
        BY <1>1, <2>1 DEF ReclaimStep, ListOrphan, LoadOrphan, ReclaimOrphan, DiscardOrphan, IsOrphaned,
                Early, Working, Dispatching, Late
<1>5. ~SweepStep
    BY <1>1 DEF Alone, SweepStep, ListTerminal, FinalizeTerminal, ReapTerminal, ListInProgress,
                CheckRedisState, ListNodeRuns, RefreshRows, FinalizeReconciled,
                ResumeReconstructed, ListManaged, ReapKube
<1>6. ~Crash(s) /\ ~CrashInDispatch(s)
    BY DEF Alone, Crash, CrashInDispatch, Alive, Spare
<1> QED
    BY <1>2, <1>3, <1>4, <1>5, <1>6

----------------------------------------------------------------------------
(* Before the subscription                                                 *)

\* Goto in fields.
LEMMA GotoFields ==
    ASSUME TypeOK, NEW s \in Servers, NEW pc, Goto(s, pc)
    PROVE  LET q == co'[s] r == co[s]
           IN  /\ q.pc = pc /\ q.stage = r.stage /\ q.mem = r.mem /\ q.version = r.version
               /\ q.lease_version = r.lease_version /\ q.work = r.work /\ q.todo = r.todo
               /\ q.status = r.status /\ q.node = r.node /\ q.cause = r.cause
BY Parts DEF Goto, CoTypeOK, CoordinatorState

\* A stopped coordinator satisfies the invariant whatever is left behind.
LEMMA AloneStopped ==
    ASSUME Alone, TypeInv, AloneInv, NEW s \in Servers, co' = [co EXCEPT ![s] = Stopped],
           UNCHANGED <<sweep, workerVars>>
    PROVE  AloneInv'
<1>1. co'[s] = Stopped
    BY AloneOpen, Parts DEF CoTypeOK
<1>2. /\ Stopped.pc = "done" /\ Stopped.stage = "start" /\ Stopped.work = {}
      /\ Stopped.todo = {} /\ Stopped.mem = NewRun
    BY DEF Stopped, Off
<1>3. AloneAt(s)'
    BY <1>1, <1>2, AloneOpen DEF AloneAt, Control, Saved, Once, Held, workerVars,
       Early, Working, Dispatching, Late
<1> QED
    BY <1>3, AloneClose DEF AloneInv

\* A launch takes the free lease and finds no state.
LEMMA AloneStart ==
    ASSUME Alone, TypeInv, AloneInv, NEW s \in Servers, UNCHANGED sweep,
           \/ Launch(s) \/ AcquireLease(s) \/ RecordPipelineStarted(s)
           \/ LoadRun(s) \/ SaveInitial(s)
    PROVE  AloneInv'
<1> USE AloneOpen
<1>1. sweep'.pc = "idle"
    BY DEF AloneInv
<1>2. CASE Launch(s)
    <2>1. co[s].pc = "off" /\ Goto(s, "acquire") /\ UNCHANGED <<storeVars, workerVars, backplaneVars>>
        BY <1>2 DEF Launch
    <2>2. AloneAt(s)'
        BY <2>1, GotoFields DEF AloneAt, Control, Saved, Once, Held, storeVars, workerVars,
           backplaneVars, Early, Working, Dispatching, Late
    <2> QED
        BY <1>1, <2>2, AloneClose
<1>3. CASE AcquireLease(s)
    <2>0. co[s].pc = "acquire" /\ UNCHANGED <<store, workerVars, backplaneVars>>
        BY <1>3 DEF AcquireLease
    <2>1. CASE try_acquire_lease(s)
               /\ co' = [co EXCEPT ![s].pc = "acquired", ![s].lease_version = lease_ver + 1]
        <3>1. LET q == co'[s] r == co[s]
              IN  /\ q.pc = "acquired" /\ q.stage = r.stage /\ q.mem = r.mem /\ q.version = r.version
                  /\ q.lease_version = lease_ver + 1 /\ q.work = r.work /\ q.todo = r.todo
            BY <2>1, Parts DEF CoTypeOK, CoordinatorState
        <3>2. lease'.owner = s /\ lease'.version = lease_ver + 1
            BY <2>1 DEF try_acquire_lease
        <3>3. AloneAt(s)'
            BY <2>0, <3>1, <3>2 DEF AloneAt, Control, Saved, Once, Held, workerVars,
               backplaneVars, Early, Working, Dispatching, Late
        <3> QED
            BY <1>1, <3>3, AloneClose
    <2>2. CASE Goto(s, "off") /\ UNCHANGED <<lease, lease_ver>>
        <3>1. AloneAt(s)'
            BY <2>0, <2>2, GotoFields DEF AloneAt, Control, Saved, Once, Held, workerVars,
               backplaneVars, Early, Working, Dispatching, Late
        <3> QED
            BY <1>1, <3>1, AloneClose
    <2>3. CASE co' = [co EXCEPT ![s] = Stopped]
        BY <2>0, <2>3, AloneStopped
    <2> QED
        BY <1>3, <2>1, <2>2, <2>3 DEF AcquireLease
<1>4. CASE RecordPipelineStarted(s)
    <2>1. /\ co[s].pc = "acquired" /\ Goto(s, "load")
          /\ UNCHANGED <<storeVars, workerVars, backplaneVars>>
        BY <1>4 DEF RecordPipelineStarted
    <2>2. AloneAt(s)'
        BY <2>1, GotoFields DEF AloneAt, Control, Saved, Once, Held, storeVars, workerVars,
           backplaneVars, Early, Working, Dispatching, Late
    <2> QED
        BY <1>1, <2>2, AloneClose
<1>5. CASE LoadRun(s)
    <2>1. co[s].pc = "load" /\ ~RunExists
        BY <1>5 DEF LoadRun, AloneAt, Saved, Early, RunExists, NoRun, Absent
    <2>2. /\ Goto(s, "save_initial") \/ Goto(s, "subscribe")
          /\ UNCHANGED <<storeVars, workerVars, backplaneVars>>
        BY <1>5, <2>1 DEF LoadRun
    <2>3. NoRun.statuses = NewRun
        BY DEF NoRun
    <2>4. LoadRun(s) => co'[s].pc = "save_initial" \/ RedisErrs
        BY <2>1, GotoFields DEF LoadRun
    <2>5. AloneAt(s)'
        BY <1>5, <2>1, <2>2, <2>3, <2>4, GotoFields DEF AloneAt, Control, Saved, Once, Held,
           storeVars, workerVars, backplaneVars, Early, Working, Dispatching, Late,
           LosesAtMostDispatch
    <2> QED
        BY <1>1, <2>5, AloneClose
<1>6. CASE SaveInitial(s)
    <2>1. /\ co[s].pc = "save_initial" /\ Goto(s, "subscribe")
          /\ UNCHANGED <<lease, lease_ver, workerVars, backplaneVars>>
          /\ store = NoRun
        BY <1>6 DEF SaveInitial, AloneAt, Saved, Early
    <2>2. SaveAccepted(0) /\ NoRun.statuses = NewRun
        BY <2>1 DEF SaveAccepted, RunExists, NoRun, Absent
    <2>3. store' = [version |-> 0, statuses |-> NewRun] \/ (RedisErrs /\ UNCHANGED store)
        BY <1>6, <2>2 DEF SaveInitial, save_run
    <2>4. AloneAt(s)'
        BY <2>1, <2>2, <2>3, GotoFields DEF AloneAt, Control, Saved, Once, Held,
           workerVars, backplaneVars, Early, Working, Dispatching, Late, LosesAtMostDispatch
    <2> QED
        BY <1>1, <2>4, AloneClose
<1> QED
    BY <1>2, <1>3, <1>4, <1>5, <1>6

----------------------------------------------------------------------------
(* The subscription and the dispatch loop                                  *)

\* A fresh run dispatches its roots, or is over before it has begun.
LEMMA AloneSubscribe ==
    ASSUME Alone, TypeInv, AloneInv, NEW s \in Servers, Subscribe(s), UNCHANGED sweep
    PROVE  AloneInv'
<1>1. CASE Stop(s)
    BY <1>1, AloneStopped DEF Subscribe, Stop
<1>2. CASE co' = [co EXCEPT ![s] = EnterDispatch(co[s])]
    <2> DEFINE r == co[s]
               q == EnterDispatch(r)
    <2>1. /\ r.pc = "subscribe" /\ r.work = {} /\ r.todo = {} /\ r.stage \in {"start", "loop"}
          /\ r \in CoordinatorState
        BY AloneOpen DEF Subscribe, AloneAt, Control, Early, Dispatching
    <2>2. co'[s] = q /\ UNCHANGED <<storeVars, workerVars>>
        BY <1>2, AloneOpen, Parts DEF Subscribe, CoTypeOK
    <2>3. \A n \in ready_nodes(r.mem) : r.mem[n] = "pending"
        BY DEF ready_nodes
    <2>4. /\ q.mem = r.mem /\ q.version = r.version /\ q.lease_version = r.lease_version
          /\ q.stage \in {"start", "loop"}
          /\ \/ q.pc = "loop" /\ q.todo = {}
             \/ q.pc = "finalize" /\ q.todo = {}
             \/ q.pc = "dispatch" /\ q.todo = ready_nodes(r.mem)
        BY <2>1, EnterDispatchFields
    <2> HIDE DEF q
    <2>5. AloneAt(s)'
        BY <2>1, <2>2, <2>3, <2>4, AloneOpen DEF AloneAt, Control, Saved, Once, Held,
           storeVars, workerVars, Early, Working, Dispatching, Late
    <2> QED
        BY <2>5, AloneClose DEF AloneInv
<1> QED
    BY <1>1, <1>2 DEF Subscribe

\* One dispatch in fields: created and running, or failed, with what an
\* error of Kubernetes may have left behind.
LEMMA DispatchFields ==
    ASSUME TypeOK, NEW s \in Servers, DispatchNode(s)
    PROVE  \E n \in co[s].todo :
              LET q == co'[s] r == co[s]
              IN  /\ q.pc = "dispatched" /\ q.todo = r.todo \ {n} /\ q.node = n
                  /\ q.stage = r.stage /\ q.version = r.version /\ q.work = r.work
                  /\ q.lease_version = r.lease_version
                  /\ \/ /\ CanDispatch(n) /\ dispatch(n)
                        /\ q.cause = "dispatched" /\ q.mem = mark_running(r.mem, n)
                     \/ /\ \/ UNCHANGED workerVars /\ ~CanDispatch(n)
                           \/ dispatch_errs(n) /\ "kube" \in Faults
                        /\ q.cause = "dispatch_failed" /\ q.mem = mark_dispatch_failed(r.mem, n)
<1> DEFINE r == co[s]
           q == co'[s]
           moved(n, cause, st) ==
               [r EXCEPT !.pc = "dispatched", !.todo = @ \ {n}, !.node = n, !.cause = cause, !.mem = st]
<1>1. r \in CoordinatorState
    BY Parts DEF CoTypeOK
<1>2. PICK n \in r.todo :
          \/ /\ CanDispatch(n) /\ dispatch(n)
             /\ q = moved(n, "dispatched", mark_running(r.mem, n))
          \/ /\ \/ UNCHANGED workerVars /\ ~CanDispatch(n)
                \/ dispatch_errs(n) /\ "kube" \in Faults
             /\ q = moved(n, "dispatch_failed", mark_dispatch_failed(r.mem, n))
    BY Parts DEF DispatchNode, CoTypeOK
<1>3. \A cause, st :
          LET p == moved(n, cause, st)
          IN  /\ p.pc = "dispatched" /\ p.todo = r.todo \ {n} /\ p.node = n
              /\ p.stage = r.stage /\ p.version = r.version /\ p.work = r.work
              /\ p.lease_version = r.lease_version /\ p.cause = cause /\ p.mem = st
    BY <1>1 DEF CoordinatorState
<1> HIDE DEF moved, q
<1> QED
    BY <1>2, <1>3 DEF q

\* What is dispatched was pending, and so never launched before.
LEMMA AloneDispatchNode ==
    ASSUME Alone, TypeInv, AloneInv, NEW s \in Servers, DispatchNode(s), UNCHANGED sweep
    PROVE  AloneInv'
<1> DEFINE r == co[s]
           q == co'[s]
<1>1. PICK n \in r.todo :
          /\ q.pc = "dispatched" /\ q.todo = r.todo \ {n} /\ q.node = n
          /\ q.stage = r.stage /\ q.version = r.version /\ q.work = r.work
          /\ q.lease_version = r.lease_version
          /\ \/ dispatch(n) /\ q.mem = mark_running(r.mem, n)
             \/ /\ UNCHANGED workerVars \/ (dispatch_errs(n) /\ "kube" \in Faults)
                /\ q.mem = mark_dispatch_failed(r.mem, n)
    BY DispatchFields, AloneOpen
<1>2. r.pc = "dispatch" /\ UNCHANGED <<storeVars, backplaneVars>>
    BY DEF DispatchNode
<1>3. n \in Nodes /\ r.mem \in Statuses /\ r.todo \subseteq Nodes
    BY AloneOpen
<1> HIDE DEF q
<1>4. \A m \in Nodes : m # n => q.mem[m] = r.mem[m]
    BY <1>1, <1>3, MarkFields
<1>5. q.mem[n] # "pending"
    BY <1>1, <1>3, MarkFields
<1>6. Control(q)
    BY <1>1, <1>2, <1>3, <1>4, AloneOpen DEF AloneAt, Control, Early, Working, Dispatching, Late
<1>7. Saved(q, store')
    <2>1. r.mem[n] = "pending" /\ q.mem[n] \in {"running", "failed"}
        BY <1>1, <1>2, <1>3, AloneOpen
        DEF AloneAt, Control, mark_running, mark_dispatch_failed, Statuses
    <2>2. \A m \in Nodes : LosesAtMostDispatch(store.statuses[m], q.mem[m])
        <3>1. \A m \in Nodes : LosesAtMostDispatch(store.statuses[m], r.mem[m])
            BY <1>2, AloneOpen DEF AloneAt, Saved, Working, Dispatching
        <3> QED
            BY <1>4, <2>1, <3>1 DEF LosesAtMostDispatch
    <2> QED
        BY <1>1, <1>2, <2>2, AloneOpen DEF AloneAt, Saved, Early, Working, Dispatching, storeVars
<1>8. Held(s, co[s])'
    BY <1>1, <1>2, AloneOpen DEF AloneAt, Held, Early, Working, Dispatching, storeVars, backplaneVars, q
<1>9. Once(co[s])'
    <2>1. \A m \in launched' : m \in launched \/ m = n
        BY <1>1 DEF dispatch, dispatch_errs, create_objects, workerVars
    <2>2. /\ \A m \in Nodes : job'[m] # "none" => m \in launched'
          /\ "kube" \in Faults \/ config_maps' \subseteq launched'
        BY <1>1, <1>3, AloneOpen, Parts
        DEF AloneAt, Once, dispatch, dispatch_errs, create_objects, workerVars, WorkersTypeOK
    <2>3. \A m \in launched : m \in Nodes /\ r.mem[m] # "pending"
        BY <1>2, AloneOpen, Parts DEF AloneAt, Once, Working, Dispatching, WorkersTypeOK
    <2> QED
        BY <1>1, <1>4, <1>5, <2>1, <2>2, <2>3 DEF Once, Early, q
<1>10. AloneAt(s)'
    BY <1>6, <1>7, <1>8, <1>9 DEF AloneAt, q
<1> QED
    BY <1>10, AloneClose DEF AloneInv

\* The save after a dispatch in fields.
LEMMA PersistDispatchFields ==
    ASSUME TypeInv, AloneInv, NEW s \in Servers, PersistDispatch(s)
    PROVE  LET q == co'[s] r == co[s]
           IN  /\ q.pc = "dispatch_record" /\ q.stage = r.stage /\ q.mem = r.mem
               /\ q.lease_version = r.lease_version
               /\ q.work = r.work /\ q.todo = r.todo /\ q.node = r.node /\ q.cause = r.cause
               /\ \/ SaveDone(r, q)
                  \/ SaveFails(r) /\ (store' = store \/ store'.statuses = r.mem)
BY AloneOpen, SaveAnyhowFields DEF PersistDispatch

\* It makes Redis agree with memory again, unless it fails.
LEMMA AlonePersistDispatch ==
    ASSUME Alone, TypeInv, AloneInv, NEW s \in Servers, PersistDispatch(s), UNCHANGED sweep
    PROVE  AloneInv'
<1> DEFINE r == co[s]
           q == co'[s]
<1>1. r.pc = "dispatched" /\ UNCHANGED <<lease, lease_ver, workerVars, backplaneVars>>
    BY DEF PersistDispatch
<1>2. /\ q.pc = "dispatch_record" /\ q.stage = r.stage /\ q.mem = r.mem
      /\ q.lease_version = r.lease_version /\ q.work = r.work /\ q.todo = r.todo
    BY PersistDispatchFields
<1>3. \/ store' = [version |-> q.version, statuses |-> q.mem]
      \/ RedisErrs /\ (store' = store \/ store'.statuses = r.mem)
    BY <1>1, <1>2, PersistDispatchFields, WorkingAccepts, AloneOpen
    DEF SaveDone, SaveFails, AloneAt, Working, Dispatching
<1> HIDE DEF q
<1>4. Saved(q, store')
    <2>1. \A n \in Nodes : LosesAtMostDispatch(store.statuses[n], r.mem[n])
        BY <1>1, AloneOpen DEF AloneAt, Saved, Working, Dispatching
    <2>2. \A n \in Nodes : LosesAtMostDispatch(store'.statuses[n], q.mem[n])
        BY <1>2, <1>3, <2>1 DEF LosesAtMostDispatch
    <2> QED
        BY <1>2, <1>3, <2>2 DEF Saved, Early
<1>5. Control(q)
    BY <1>1, <1>2, AloneOpen DEF AloneAt, Control, Early, Working, Dispatching, Late
<1>6. Once(co[s])' /\ Held(s, co[s])'
    BY <1>1, <1>2, AloneOpen DEF AloneAt, Once, Held, workerVars, backplaneVars, Early, Working,
       Dispatching, Late, q
<1>7. AloneAt(s)'
    BY <1>4, <1>5, <1>6 DEF AloneAt, q
<1> QED
    BY <1>7, AloneClose DEF AloneInv

\* The step after a dispatch in fields.
LEMMA RecordDispatchFields ==
    ASSUME TypeInv, AloneInv, NEW s \in Servers, RecordDispatch(s)
    PROVE  LET q == co'[s] r == co[s]
           IN  /\ q.mem = r.mem /\ q.version = r.version /\ q.lease_version = r.lease_version
               /\ q.stage \in {"start", "loop"}
               /\ \/ q.pc \in {"fold", "loop", "finalize"} /\ q.todo = {}
                  \/ q.pc = "dispatch" /\ q.todo = r.todo
<1> DEFINE r == co[s]
           idle == [r EXCEPT !.pc = "dispatch", !.node = NoNode, !.cause = "none"]
<1>1. r \in CoordinatorState /\ r.stage \in {"start", "loop"}
    BY AloneOpen DEF AloneAt, Control
<1>2. co'[s] = IF r.todo = {} THEN Resume(r) ELSE idle
    BY AloneOpen, Parts DEF RecordDispatch, CoTypeOK
<1>3. /\ idle.mem = r.mem /\ idle.version = r.version /\ idle.lease_version = r.lease_version
      /\ idle.stage = r.stage /\ idle.pc = "dispatch" /\ idle.todo = r.todo
    BY <1>1 DEF CoordinatorState
<1> HIDE DEF idle
<1> QED
    BY <1>1, <1>2, <1>3, ResumeFields

\* The next node, or back to the loop.
LEMMA AloneRecordDispatch ==
    ASSUME Alone, TypeInv, AloneInv, NEW s \in Servers, RecordDispatch(s), UNCHANGED sweep
    PROVE  AloneInv'
<1>1. co[s].pc = "dispatch_record" /\ UNCHANGED <<storeVars, workerVars, backplaneVars>>
    BY DEF RecordDispatch
<1>2. AloneAt(s)'
    BY <1>1, AloneOpen, RecordDispatchFields DEF AloneAt, Control, Saved, Once, Held,
       storeVars, workerVars, backplaneVars, Early, Working, Dispatching, Late
<1> QED
    BY <1>2, AloneClose DEF AloneInv

----------------------------------------------------------------------------
(* The select loop and its handlers                                        *)

\* A handler that has changed one node's status: it is saved as it is, or the
\* run is on its way to its end.
LEMMA AloneHandled ==
    ASSUME Alone, TypeInv, AloneInv, NEW s \in Servers, NEW n \in Nodes,
           co[s].pc \in {"fold", "loop"},
           LET q == co'[s] r == co[s]
           IN  /\ q.stage = r.stage /\ q.lease_version = r.lease_version
               /\ \A m \in Nodes : q.mem[m] = "pending" => r.mem[m] = "pending"
               /\ \/ /\ q.pc \in {"record", "cancel"} /\ q.todo = r.todo
                     /\ store' = [version |-> q.version, statuses |-> q.mem]
                  \/ q.pc = "finalize" /\ q.todo = {},
           UNCHANGED <<sweep, lease, lease_ver, workerVars>>
    PROVE  AloneInv'
<1> DEFINE q == co'[s]
<1>1. Control(q) /\ Saved(q, store')
    BY AloneOpen DEF AloneAt, Control, Saved, Early, Working, Dispatching, Late,
       LosesAtMostDispatch
<1>2. Held(s, co[s])'
    BY AloneOpen DEF AloneAt, Held, Early, Working, Dispatching
<1>3. Once(co[s])'
    BY AloneOpen, Parts DEF AloneAt, Once, Early, Working, Dispatching, workerVars, WorkersTypeOK
<1> QED
    BY <1>1, <1>2, <1>3, AloneClose DEF AloneInv, AloneAt

\* A completion.
LEMMA AloneCompleted ==
    ASSUME Alone, TypeInv, AloneInv, NEW s \in Servers, NEW r \in CoordinatorState,
           NEW n \in Nodes, NEW success \in BOOLEAN, handle_node_completed(s, r, n, success),
           co[s].pc \in {"fold", "loop"},
           r.pc = co[s].pc, r.mem = co[s].mem, r.version = co[s].version,
           r.lease_version = co[s].lease_version, r.stage = co[s].stage, r.todo = co[s].todo,
           UNCHANGED <<sweep, lease, lease_ver, workerVars>>
    PROVE  AloneInv'
<1> DEFINE q == co'[s]
<1>1. /\ q.stage = r.stage /\ q.lease_version = r.lease_version
      /\ q.mem = IF success THEN mark_success(r.mem, n) ELSE mark_failed(r.mem, n)
      /\ \/ /\ q.pc = "record" /\ q.todo = r.todo
            /\ store' = [version |-> q.version, statuses |-> q.mem]
         \/ q.pc = "finalize" /\ q.todo = {}
    BY CompletedFields, AloneOpen DEF SaveDone
<1>2. \A m \in Nodes : q.mem[m] = "pending" => r.mem[m] = "pending"
    <2>1. r.mem \in Statuses
        BY DEF CoordinatorState
    <2> QED
        BY <1>1, <2>1, MarkFields
<1> HIDE DEF q
<1> QED
    BY <1>1, <1>2, AloneHandled DEF q

\* A failure.
LEMMA AloneFail ==
    ASSUME Alone, TypeInv, AloneInv, NEW s \in Servers, NEW n \in Nodes,
           NEW cause \in {"failure", "infra"}, NEW g, FailNode(s, co[s], n, cause, g),
           co[s].pc = "loop", UNCHANGED <<sweep, lease, lease_ver, workerVars>>
    PROVE  AloneInv'
<1> DEFINE r == co[s]
           q == co'[s]
<1>0. cause \in Cause
    BY DEF Cause
<1>1. /\ q.stage = r.stage /\ q.lease_version = r.lease_version
      /\ q.mem = mark_failed(r.mem, n)
      /\ \/ /\ q.pc = "cancel" /\ q.todo = r.todo
            /\ store' = [version |-> q.version, statuses |-> q.mem]
         \/ q.pc = "finalize" /\ q.todo = {}
    BY <1>0, FailFields, AloneOpen DEF SaveDone
<1>2. \A m \in Nodes : q.mem[m] = "pending" => r.mem[m] = "pending"
    BY <1>1, MarkFields, AloneOpen
<1> HIDE DEF q
<1> QED
    BY <1>1, <1>2, AloneHandled DEF q

\* The two callers of handle_node_completed, in its terms.
LEMMA CompletionCalls ==
    ASSUME TypeOK, NEW s \in Servers, FoldCompletion(s) \/ ReceiveNodeCompleted(s)
    PROVE  \E r \in CoordinatorState, n \in Nodes, success \in BOOLEAN :
              /\ handle_node_completed(s, r, n, success)
              /\ co[s].pc \in {"fold", "loop"}
              /\ r.pc = co[s].pc /\ r.mem = co[s].mem /\ r.version = co[s].version
              /\ r.lease_version = co[s].lease_version /\ r.stage = co[s].stage
              /\ r.todo = co[s].todo
              /\ UNCHANGED <<lease, lease_ver, workerVars>>
<1>1. co[s] \in CoordinatorState
    BY Parts DEF CoTypeOK
<1>2. CASE FoldCompletion(s)
    <2>1. PICK n \in co[s].work :
              handle_node_completed(s, [co[s] EXCEPT !.work = @ \ {n}], n,
                                    co[s].outcomes[n] = "success")
        BY <1>2 DEF FoldCompletion
    <2> DEFINE r == [co[s] EXCEPT !.work = @ \ {n}]
    <2>2. /\ n \in Nodes /\ r \in CoordinatorState
          /\ r.pc = co[s].pc /\ r.mem = co[s].mem /\ r.version = co[s].version
          /\ r.lease_version = co[s].lease_version /\ r.stage = co[s].stage
          /\ r.todo = co[s].todo
        BY <1>1 DEF CoordinatorState
    <2>3. /\ handle_node_completed(s, r, n, co[s].outcomes[n] = "success")
          /\ co[s].pc = "fold" /\ UNCHANGED <<lease, lease_ver, workerVars>>
        BY <1>2, <2>1 DEF FoldCompletion
    <2> HIDE DEF r
    <2> QED
        BY <2>2, <2>3
<1>3. CASE ReceiveNodeCompleted(s)
    <2>1. Head(events) \in BackplaneEvent
        BY <1>3, NextEventType, Parts DEF ReceiveNodeCompleted, Receives
    <2>2. Head(events).node \in Nodes /\ Head(events).success \in BOOLEAN
        BY <1>3, <2>1 DEF ReceiveNodeCompleted, BackplaneEvent
    <2>3. /\ handle_node_completed(s, co[s], Head(events).node, Head(events).success)
          /\ co[s].pc = "loop" /\ UNCHANGED <<lease, lease_ver, workerVars>>
        BY <1>3 DEF ReceiveNodeCompleted, Receives
    <2> QED
        BY <1>1, <2>2, <2>3
<1> QED
    BY <1>2, <1>3

\* The failure messages, in FailNode's terms.
LEMMA FailureCalls ==
    ASSUME TypeOK, NEW s \in Servers, NEW type, HandleNodeFailure(s, type)
    PROVE  /\ co[s].pc = "loop"
           /\ UNCHANGED <<lease, lease_ver, workerVars, historyVars, backplaneVars>>
           /\ \/ UNCHANGED <<store, co>>
              \/ \E n \in Nodes, cause \in {"failure", "infra"} : \E g :
                    FailNode(s, co[s], n, cause, g)
<1> DEFINE n == Head(sig[s].inbox).node
           cause == IF type = "timed_out" THEN "failure" ELSE "infra"
           g == IF type = "timed_out" THEN Consumed(s)
                ELSE cancel_node_timeout(Consumed(s), n)
<1>1. n \in Nodes /\ cause \in {"failure", "infra"}
    BY Parts, ConsumedType DEF HandleNodeFailure, Got
<1>2. FailNode(s, co[s], n, cause, g) \/ UNCHANGED <<store, co>>
    BY DEF HandleNodeFailure
<1> HIDE DEF n, cause, g
<1> QED
    BY <1>1, <1>2 DEF HandleNodeFailure, Got

\* Reading S3 in the loop in fields.
LEMMA ReconcileFields ==
    ASSUME TypeOK, NEW s \in Servers, PeriodicReconcile(s)
    PROVE  LET q == co'[s] r == co[s]
           IN  /\ q.pc = "fold" /\ q.stage = r.stage /\ q.mem = r.mem /\ q.version = r.version
               /\ q.lease_version = r.lease_version /\ q.todo = r.todo
BY Parts DEF PeriodicReconcile, CoTypeOK, CoordinatorState

\* The branches of the select loop.
LEMMA AloneLoop ==
    ASSUME Alone, TypeInv, AloneInv, NEW s \in Servers, LoopStep(s), UNCHANGED sweep
    PROVE  AloneInv'
<1>0. AloneInv /\ UNCHANGED <<co, store, lease, launched, job, config_maps, sweep>>
         /\ (subscriber' = subscriber \/ \A t \in Servers : co[t].pc = "loop") => AloneInv'
    BY DEF AloneInv, Control, Saved, Once, Held, Early
<1>1. CASE PeriodicReconcile(s)
    <2>1. co[s].pc = "loop" /\ UNCHANGED <<storeVars, workerVars, backplaneVars>>
        BY <1>1 DEF PeriodicReconcile
    <2>2. AloneAt(s)'
        BY <1>1, <2>1, AloneOpen, ReconcileFields DEF AloneAt, Control, Saved, Once, Held,
           storeVars, workerVars, backplaneVars, Early, Working, Dispatching, Late
    <2> QED
        BY <2>2, AloneClose DEF AloneInv
<1>2. CASE HeartbeatFails(s)
    BY <1>2, AloneStopped DEF HeartbeatFails, Stop
<1>3. CASE PipelineDeadline(s) \/ SubscriptionClosed(s) \/ ReceiveCancel(s)
    <2>1. PICK v : co' = [co EXCEPT ![s] = Finish(co[s], v)]
        BY <1>3 DEF PipelineDeadline, SubscriptionClosed, ReceiveCancel
    <2>2. co'[s] = Finish(co[s], v) /\ co[s].pc = "loop" /\ UNCHANGED <<storeVars, workerVars>>
        BY <1>3, <2>1, AloneOpen, Parts
        DEF CoTypeOK, PipelineDeadline, SubscriptionClosed, ReceiveCancel, Receives
    <2>3. AloneAt(s)'
        BY <2>2, AloneOpen, FinishFields DEF AloneAt, Control, Saved, Once, Held,
           storeVars, workerVars, Early, Working, Dispatching, Late
    <2> QED
        BY <2>3, AloneClose DEF AloneInv
<1>4. CASE ReceiveNodeCompleted(s)
    BY <1>4, CompletionCalls, AloneCompleted, AloneOpen
<1>5. CASE HandlePodRunning(s)
    BY <1>0, <1>5 DEF HandlePodRunning, storeVars, workerVars, backplaneVars
<1>6. CASE \E type : HandleNodeFailure(s, type)
    <2>1. CASE UNCHANGED <<store, co>>
        BY <1>0, <1>6, <2>1, FailureCalls, AloneOpen DEF workerVars, backplaneVars
    <2>2. CASE ~UNCHANGED <<store, co>>
        BY <1>6, <2>2, FailureCalls, AloneFail, AloneOpen
    <2> QED
        BY <2>1, <2>2
<1> QED
    BY <1>1, <1>2, <1>3, <1>4, <1>5, <1>6
    DEF LoopStep, HandleNodeInfraFailed, HandlePodStartTimedOut, HandleNodeTimedOut

\* After a handler.
LEMMA AloneRecordNodeCompleted ==
    ASSUME Alone, TypeInv, AloneInv, NEW s \in Servers, RecordNodeCompleted(s), UNCHANGED sweep
    PROVE  AloneInv'
<1> DEFINE r == co[s]
           q == co'[s]
<1>1. /\ r.pc = "record" /\ r.todo = {} /\ r.stage \in {"start", "loop"}
      /\ r \in CoordinatorState /\ UNCHANGED <<storeVars, workerVars, backplaneVars>>
    BY AloneOpen DEF RecordNodeCompleted, AloneAt, Control, Dispatching
<1>2. q = Finish(r, "failure") \/ q = EnterDispatch(r)
    BY AloneOpen, Parts DEF RecordNodeCompleted, CoTypeOK
<1>3. \A n \in ready_nodes(r.mem) : r.mem[n] = "pending"
    BY DEF ready_nodes
<1>4. /\ q.mem = r.mem /\ q.version = r.version /\ q.lease_version = r.lease_version
      /\ q.stage \in {"start", "loop"}
      /\ \/ q.pc \in {"fold", "loop", "finalize"} /\ q.todo = {}
         \/ q.pc = "dispatch" /\ q.todo = ready_nodes(r.mem)
    BY <1>1, <1>2, FinishFields, EnterDispatchFields
<1>5. AloneAt(s)'
    BY <1>1, <1>3, <1>4, AloneOpen DEF AloneAt, Control, Saved, Once, Held,
       storeVars, workerVars, backplaneVars, Early, Working, Dispatching, Late
<1> QED
    BY <1>5, AloneClose DEF AloneInv

\* A deletion creates nothing.
LEMMA DeletesOnly ==
    ASSUME \E jobs, cms, objects : delete_objects(jobs, cms, objects)
    PROVE  /\ launched' = launched /\ config_maps' \subseteq config_maps
           /\ \A n \in Nodes : job'[n] # "none" => job[n] # "none"
BY DEF delete_objects

\* Cancelling a node's Job takes it away.
LEMMA AloneCancelNode ==
    ASSUME Alone, TypeInv, AloneInv, NEW s \in Servers, CancelNode(s), UNCHANGED sweep
    PROVE  AloneInv'
<1>1. co[s].pc = "cancel" /\ Goto(s, "record") /\ UNCHANGED <<storeVars, backplaneVars>>
    BY DEF CancelNode
<1>2. /\ launched' = launched /\ config_maps' \subseteq config_maps
      /\ \A n \in Nodes : job'[n] # "none" => job[n] # "none"
    BY DeletesOnly DEF CancelNode, cancel_node
<1>3. AloneAt(s)'
    BY <1>1, <1>2, GotoFields, AloneOpen DEF AloneAt, Control, Saved, Once, Held, storeVars,
       backplaneVars, Early, Working, Dispatching, Late
<1> QED
    BY <1>3, AloneClose DEF AloneInv

----------------------------------------------------------------------------
(* The end of the run, and the others                                      *)

\* The end of the run in fields.
LEMMA TerminatedFields ==
    ASSUME TypeOK, NEW s \in Servers, RecordTerminated(s)
    PROVE  LET q == co'[s] r == co[s]
           IN  /\ q.pc = "report" /\ q.stage = r.stage /\ q.lease_version = r.lease_version
               /\ q.todo = r.todo /\ q.work = r.work /\ q.status = r.status
BY Parts DEF RecordTerminated, CoTypeOK, CoordinatorState

\* finalize_run and cleanup.
LEMMA AloneEpilogue ==
    ASSUME Alone, TypeInv, AloneInv, NEW s \in Servers, UNCHANGED sweep,
           \/ RecordTerminated(s) \/ ReportStatus(s) \/ CleanupRun(s)
           \/ ReleaseLease(s) \/ DeleteRun(s)
    PROVE  AloneInv'
<1> USE AloneOpen
<1>1. CASE RecordTerminated(s)
    <2>1. co[s].pc = "finalize" /\ UNCHANGED <<storeVars, workerVars>>
        BY <1>1 DEF RecordTerminated
    <2>2. AloneAt(s)'
        BY <1>1, <2>1, TerminatedFields DEF AloneAt, Control, Saved, Once, Held, storeVars,
           workerVars, Early, Working, Dispatching, Late
    <2> QED
        BY <2>2, AloneClose DEF AloneInv
<1>2. CASE ReportStatus(s)
    <2>1. co[s].pc = "report" /\ Goto(s, "cleanup") /\ UNCHANGED <<storeVars, workerVars>>
        BY <1>2 DEF ReportStatus
    <2>2. AloneAt(s)'
        BY <2>1, GotoFields DEF AloneAt, Control, Saved, Once, Held, storeVars, workerVars,
           Early, Working, Dispatching, Late
    <2> QED
        BY <2>2, AloneClose DEF AloneInv
<1>3. CASE CleanupRun(s)
    <2>1. co[s].pc = "cleanup" /\ Goto(s, "release") /\ UNCHANGED storeVars
        BY <1>3 DEF CleanupRun
    <2>2. /\ launched' = launched /\ config_maps' \subseteq config_maps
          /\ \A n \in Nodes : job'[n] # "none" => job[n] # "none"
        BY <1>3, DeletesOnly DEF CleanupRun, cleanup_run
    <2>3. AloneAt(s)'
        BY <2>1, <2>2, GotoFields DEF AloneAt, Control, Saved, Once, Held, storeVars,
           Early, Working, Dispatching, Late
    <2> QED
        BY <2>3, AloneClose DEF AloneInv
<1>4. CASE ReleaseLease(s)
    <2>1. co[s].pc = "release" /\ Goto(s, "delete") /\ UNCHANGED <<store, workerVars>>
        BY <1>4 DEF ReleaseLease
    <2>2. AloneAt(s)'
        BY <2>1, GotoFields DEF AloneAt, Control, Saved, Once, Held, workerVars,
           Early, Working, Dispatching, Late
    <2> QED
        BY <2>2, AloneClose DEF AloneInv
<1>5. CASE DeleteRun(s)
    BY <1>5, AloneStopped DEF DeleteRun, Stop
<1> QED
    BY <1>1, <1>2, <1>3, <1>4, <1>5

\* Pods only move on while they have a Job.
LEMMA AloneWorker ==
    ASSUME AloneInv, TypeInv, NEW n \in Nodes, WorkerStep(n) \/ PodFailure(n),
           UNCHANGED <<store, lease, lease_ver, subscriber, co, sweep>>
    PROVE  AloneInv'
<1>1. /\ launched' = launched /\ config_maps' = config_maps
      /\ \A m \in Nodes : job'[m] # "none" => job[m] # "none"
    <2>1. job \in [Nodes -> JobState]
        BY Parts DEF TypeInv, ClusterTypeOK, WorkersTypeOK
    <2> QED
        BY <2>1 DEF WorkerStep, PodStarts, WorkerSucceeds, WorkerFails, PodFailure, PodBreaks
<1> QED
    BY <1>1 DEF AloneInv, Control, Saved, Once, Held

\* Every step keeps the invariant.
LEMMA AloneStep == ASSUME Alone PROVE TypeInv /\ AloneInv /\ [Next]_clusterVars => AloneInv'
<1> SUFFICES ASSUME TypeInv, AloneInv, [Next]_clusterVars PROVE AloneInv'
    OBVIOUS
<1>0. UNCHANGED <<co, store, lease, launched, job, config_maps, subscriber, sweep>> => AloneInv'
    BY DEF AloneInv, Control, Saved, Once, Held
<1>1. CASE \E s \in Servers : RunStep(s) /\ UNCHANGED sweep
    BY <1>1, AloneStart, AloneNever, AloneSubscribe, AloneCancelNode, AloneRecordNodeCompleted,
       AloneDispatchNode, AlonePersistDispatch, AloneRecordDispatch, AloneEpilogue,
       CompletionCalls, AloneCompleted, AloneOpen DEF RunStep
<1>2. CASE \E s \in Servers : LoopStep(s) /\ UNCHANGED sweep
    BY <1>2, AloneLoop
<1>3. CASE \E s \in Servers : SignalStep(s) /\ UNCHANGED sweep
    BY <1>0, <1>3 DEF SignalStep, DetachedTimerFires, TimerFires, WatcherReportsRunning,
       WatcherReportsFailure, storeVars, workerVars, backplaneVars
<1>4. CASE \E n \in Nodes :
              /\ WorkerStep(n) \/ PodFailure(n)
              /\ UNCHANGED <<storeVars, historyVars, backplaneVars, coordVars, sweep, requestVars>>
    BY <1>4, AloneWorker DEF storeVars, backplaneVars, coordVars
<1>5. CASE RequestCancel \/ \E n \in Nodes : Poke(n)
    BY <1>0, <1>5 DEF RequestCancel, Poke, publish_event, storeVars, workerVars, coordVars
<1>6. CASE \E s \in Servers : Launch(s)
    BY <1>6, AloneStart DEF Launch
<1>7. CASE ExpireLease
    <2>1. \A s \in Servers : co[s].pc = "done" \/ (co[s].pc = "off" /\ lease = NoLease)
        BY <1>7 DEF ExpireLease, Spare, Alive, Alone, AloneInv, Held
    <2>2. \A s \in Servers : co[s].pc = "done" \/ lease' = lease
        BY <1>7, <2>1 DEF ExpireLease, LeaseExpires
    <2> QED
        BY <1>7, <2>1, <2>2 DEF AloneInv, Control, Saved, Once, Held, ExpireLease, LeaseExpires,
           workerVars, backplaneVars, coordVars, Early, Working, Dispatching
<1>8. CASE SweepStep \/ \E s \in Servers : ReclaimStep(s) \/ Crash(s) \/ CrashInDispatch(s)
    <2>1. CASE \E s \in Servers : TRUE
        BY <1>8, <2>1, AloneNever
    <2>2. CASE Servers = {}
        BY <1>0, <1>8, <2>2 DEF AloneInv, Alone, SweepStep, ListTerminal, FinalizeTerminal,
           ReapTerminal, ListInProgress, CheckRedisState, ListNodeRuns, RefreshRows,
           FinalizeReconciled, ResumeReconstructed, ListManaged, ReapKube
    <2> QED
        BY <2>1, <2>2
<1>9. CASE UNCHANGED clusterVars
    BY <1>0, <1>9 DEF clusterVars, vars, storeVars, workerVars, backplaneVars, coordVars
<1> QED
    BY <1>1, <1>2, <1>3, <1>4, <1>5, <1>6, <1>7, <1>8, <1>9 DEF Next

\* The initial state satisfies it.
LEMMA AloneInit == ClusterInit => AloneInv
<1>1. /\ Off.pc = "off" /\ Off.stage = "start" /\ Off.work = {} /\ Off.todo = {}
      /\ Off.mem = NewRun /\ Off.version = 0
    BY DEF Off
<1> QED
    BY <1>1 DEF ClusterInit, Init, StoreInit, WorkersInit, BackplaneInit, CoordinatorInit,
       NoSweep, AloneInv, Control, Saved, Once, Held, Early, Working, Dispatching, Late

\* A coordinator that is never replaced keeps its completions in Redis, its
\* lease, and what is left to dispatch apart from what was launched.
THEOREM AloneInvHolds == ASSUME Alone PROVE Spec => [](TypeInv /\ AloneInv)
BY AloneInit, AloneStep, TypeInvInit, TypeInvStep, PTL DEF Spec

----------------------------------------------------------------------------
(* Redis and the launches                                                  *)

\* Whenever the only coordinator waits in its loop, Redis has every completion
\* it has handled and lacks at most dispatches, although any call to Redis may
\* err, executed or not; and Redis holds exactly its memory if none does.  For
\* every graph, whatever its signals and whatever else fails.
THEOREM WaitsPersistedTheorem == ASSUME Alone PROVE Spec => []WaitsPersisted
<1>1. TypeInv /\ AloneInv => WaitsPersisted
    <2> SUFFICES ASSUME TypeInv, AloneInv, NEW s \in Servers, co[s].pc = "loop"
                 PROVE  /\ \A n \in Nodes : LosesAtMostDispatch(store.statuses[n], co[s].mem[n])
                        /\ RedisErrs \/ store = [version |-> co[s].version, statuses |-> co[s].mem]
        BY DEF WaitsPersisted
    <2>1. /\ \A n \in Nodes : LosesAtMostDispatch(store.statuses[n], co[s].mem[n])
          /\ RedisErrs \/ (store.version = co[s].version /\ store.statuses = co[s].mem)
        BY DEF AloneInv, Saved, Working
    <2>2. store \in RunState
        BY AloneOpen
    <2> QED
        BY <2>1, <2>2 DEF RunState
<1> QED
    BY <1>1, AloneInvHolds, PTL

\* A Job comes into being only in a coordinator's dispatch.
LEMMA LaunchesInDispatch ==
    ASSUME TypeInv, [Next]_clusterVars, NEW n \in Nodes, Launches(n)
    PROVE  \E s \in Servers : DispatchNode(s) /\ n \in co[s].todo
<1>0. job \in [Nodes -> JobState]
    BY Parts DEF TypeInv, ClusterTypeOK, WorkersTypeOK
<1>1. (\E jobs, cms, objects : delete_objects(jobs, cms, objects)) => ~Launches(n)
    BY DeletesOnly DEF Launches
<1>2. /\ UNCHANGED workerVars => ~Launches(n)
      /\ cleanup_run => ~Launches(n)
    BY <1>0, <1>1 DEF workerVars, cleanup_run, Launches
<1>3. CASE \E s \in Servers : RunStep(s)
    <2>1. PICK s \in Servers : RunStep(s)
        BY <1>3
    <2>2. CASE DispatchNode(s)
        <3>1. PICK m \in co[s].todo : dispatch(m) \/ dispatch_errs(m) \/ UNCHANGED workerVars
            BY <2>2 DEF DispatchNode
        <3>2. m = n
            BY <1>0, <1>2, <3>1 DEF dispatch, dispatch_errs, create_objects, Launches
        <3> QED
            BY <2>2, <3>1, <3>2
    <2>3. CASE CancelNode(s)
        BY <1>1, <2>3 DEF CancelNode, cancel_node
    <2>4. CASE CleanupRun(s)
        BY <1>2, <2>4 DEF CleanupRun
    <2> QED
        BY <1>2, <2>1, <2>2, <2>3, <2>4
        DEF RunStep, AcquireLease, RecordPipelineStarted, LoadRun, SaveInitial, ReadOutcomes,
            FoldCompletion, PromoteNode, PromoteCheck, RehydrateTimers, Subscribe,
            RecordNodeCompleted, PersistDispatch, RecordDispatch, RecordTerminated,
            ReportStatus, ReleaseLease, DeleteRun
<1>4. CASE \E s \in Servers : LoopStep(s) \/ SignalStep(s)
    BY <1>2, <1>4
    DEF LoopStep, PeriodicReconcile, HeartbeatFails, PipelineDeadline, SubscriptionClosed,
        ReceiveNodeCompleted, ReceiveCancel, HandlePodRunning, HandleNodeInfraFailed,
        HandlePodStartTimedOut, HandleNodeTimedOut, HandleNodeFailure, SignalStep,
        DetachedTimerFires, TimerFires, WatcherReportsRunning, WatcherReportsFailure
<1>5. CASE \E m \in Nodes : WorkerStep(m) \/ PodFailure(m)
    <2>1. \A m \in Nodes : job[m] = "none" => job'[m] = "none"
        BY <1>0, <1>5 DEF WorkerStep, PodStarts, WorkerSucceeds, WorkerFails, PodFailure, PodBreaks
    <2> QED
        BY <2>1 DEF Launches
<1>6. CASE RequestCancel \/ (\E m \in Nodes : Poke(m)) \/ \E s \in Servers : Launch(s)
    BY <1>2, <1>6 DEF RequestCancel, Poke, Launch
<1>7. CASE \E s \in Servers : ReclaimStep(s)
    BY <1>2, <1>7 DEF ReclaimStep, ListOrphan, LoadOrphan, ReclaimOrphan, DiscardOrphan
<1>8. CASE SweepStep
    BY <1>2, <1>8
    DEF SweepStep, ListTerminal, FinalizeTerminal, ReapTerminal, ListInProgress, CheckRedisState,
        ListNodeRuns, RefreshRows, FinalizeReconciled, ResumeReconstructed, ListManaged, ReapKube,
        vars
<1>9. CASE ExpireLease \/ \E s \in Servers : Crash(s) \/ CrashInDispatch(s)
    <2>1. (\E m : dispatch_cut_short(m)) => ~Launches(n)
        BY DEF dispatch_cut_short, Launches
    <2> QED
        BY <1>2, <1>9, <2>1 DEF ExpireLease, Crash, CrashInDispatch
<1>10. CASE UNCHANGED clusterVars
    BY <1>2, <1>10 DEF clusterVars, vars
<1> QED
    BY <1>3, <1>4, <1>5, <1>6, <1>7, <1>8, <1>9, <1>10 DEF Next

\* No node is ever given a second Job by a coordinator that is not replaced,
\* however its completions are poked, folded, timed out and cancelled, and
\* whatever fails.
THEOREM NoRelaunchTheorem == ASSUME Alone PROVE Spec => NoRelaunch
<1>1. TypeInv /\ AloneInv /\ [Next]_clusterVars
         => [\A n \in Nodes : Launches(n) => n \notin launched]_clusterVars
    <2> SUFFICES ASSUME TypeInv, AloneInv, [Next]_clusterVars, NEW n \in Nodes, Launches(n)
                 PROVE  n \notin launched
        OBVIOUS
    <2>1. PICK s \in Servers : DispatchNode(s) /\ n \in co[s].todo
        BY LaunchesInDispatch
    <2>2. co[s].mem[n] = "pending" /\ co[s].pc = "dispatch"
        BY <2>1 DEF AloneInv, Control, DispatchNode
    <2> QED
        BY <2>2 DEF AloneInv, Once, Working, Dispatching
<1> QED
    BY <1>1, AloneInvHolds, PTL DEF Spec, NoRelaunch

----------------------------------------------------------------------------
(* fail_fast                                                               *)

NoneFailed(st) == \A n \in Nodes : st[n] # "failed"

\* Until a failure is being handled no node has failed.
Unfailed(r) ==
    FailFast =>
        /\ r.pc \in Early \cup {"subscribe", "fold", "loop"} \cup Dispatching
              => NoneFailed(r.mem)
        /\ r.pc \in {"record", "cancel"} /\ r.cause = "success" => NoneFailed(r.mem)

AllUnfailed == \A s \in Servers : Unfailed(co[s])

\* The handlers and the dispatch loop keep it: without a Kubernetes error every
\* dispatch succeeds, and a failure goes to finalize_run.
LEMMA UnfailedRunStep ==
    ASSUME Alone, "kube" \notin Faults, TypeInv, AloneInv, AllUnfailed,
           NEW s \in Servers, RunStep(s)
    PROVE  Unfailed(co'[s])
<1> DEFINE r == co[s]
           q == co'[s]
<1> USE AloneOpen
<1>0. Unfailed(r)
    BY DEF AllUnfailed
<1>1. CASE \/ AcquireLease(s) \/ RecordPipelineStarted(s) \/ LoadRun(s) \/ SaveInitial(s)
    <2>1. r.pc \in Early /\ r.mem = NewRun /\ ~RunExists
        BY <1>1 DEF AcquireLease, RecordPipelineStarted, LoadRun, SaveInitial, Early, AloneAt,
           Saved, RunExists, NoRun, Absent
    <2>2. q.mem = r.mem /\ q.pc \notin {"record", "cancel"}
        <3>1. CASE \E pc \in {"off", "load", "save_initial", "subscribe"} : Goto(s, pc)
            BY <3>1, GotoFields
        <3>2. CASE co' = [co EXCEPT ![s].pc = "acquired", ![s].lease_version = lease_ver + 1]
            BY <3>2, Parts DEF CoTypeOK, CoordinatorState
        <3>3. CASE co' = [co EXCEPT ![s] = Stopped]
            BY <2>1, <3>3, Parts DEF CoTypeOK, Stopped, Off
        <3> QED
            BY <1>1, <2>1, <3>1, <3>2, <3>3
            DEF AcquireLease, RecordPipelineStarted, LoadRun, SaveInitial
    <2> QED
        BY <2>1, <2>2 DEF Unfailed, NoneFailed, NewRun
<1>2. CASE Subscribe(s)
    <2>1. r.pc = "subscribe" /\ r.stage \in {"start", "loop"}
        BY <1>2 DEF Subscribe, AloneAt, Control
    <2>2. q = Stopped \/ q = EnterDispatch(r)
        BY <1>2, Parts DEF Subscribe, Stop, CoTypeOK
    <2>3. q.pc = "done" \/ (q.mem = r.mem /\ q.pc \in {"fold", "loop", "finalize", "dispatch"})
        BY <2>1, <2>2, EnterDispatchFields DEF Stopped, Off
    <2> QED
        BY <1>0, <2>1, <2>3 DEF Unfailed, Early, Dispatching
<1>3. CASE DispatchNode(s)
    <2>1. PICK n \in r.todo :
              /\ q.pc = "dispatched"
              /\ CanDispatch(n) => q.mem = mark_running(r.mem, n)
        BY <1>3, DispatchFields
    <2>2. r.pc = "dispatch" /\ r.mem[n] = "pending" /\ n \in Nodes
        BY <1>3 DEF DispatchNode, AloneAt, Control
    <2>3. CanDispatch(n)
        BY <2>2 DEF AloneAt, Once, CanDispatch, Working, Dispatching
    <2>4. NoneFailed(r.mem) => NoneFailed(q.mem)
        BY <2>1, <2>2, <2>3 DEF NoneFailed, mark_running, Statuses
    <2> QED
        BY <1>0, <2>1, <2>2, <2>4 DEF Unfailed, Early, Dispatching
<1>4. CASE PersistDispatch(s)
    <2>1. r.pc = "dispatched" /\ q.pc = "dispatch_record" /\ q.mem = r.mem
        BY <1>4, PersistDispatchFields DEF PersistDispatch
    <2> QED
        BY <1>0, <2>1 DEF Unfailed, Early, Dispatching
<1>5. CASE RecordDispatch(s)
    <2>1. /\ r.pc = "dispatch_record" /\ q.pc \in {"fold", "loop", "finalize", "dispatch"}
          /\ q.mem = r.mem
        BY <1>5, RecordDispatchFields DEF RecordDispatch
    <2> QED
        BY <1>0, <2>1 DEF Unfailed, Early, Dispatching
<1>6. CASE FoldCompletion(s)
    <2>1. PICK p \in CoordinatorState, n \in Nodes, success \in BOOLEAN :
              /\ handle_node_completed(s, p, n, success) /\ p.mem = r.mem /\ p.pc = r.pc
              /\ p.version = r.version
        BY <1>6, CompletionCalls
    <2>2. r.pc = "fold"
        BY <1>6 DEF FoldCompletion
    <2>3. /\ \/ q.pc = "record" /\ q.cause = (IF success THEN "success" ELSE "failure")
             \/ q.pc = "finalize"
          /\ success => q.mem = mark_success(r.mem, n)
        BY <2>1, CompletedFields
    <2>4. success /\ NoneFailed(r.mem) => NoneFailed(q.mem)
        BY <2>3 DEF NoneFailed, mark_success, Statuses
    <2> QED
        BY <1>0, <2>2, <2>3, <2>4 DEF Unfailed, Early, Dispatching
<1>7. CASE CancelNode(s)
    <2>1. r.pc = "cancel" /\ q.pc = "record" /\ q.mem = r.mem /\ q.cause = r.cause
        BY <1>7, GotoFields DEF CancelNode
    <2> QED
        BY <1>0, <2>1 DEF Unfailed, Early, Dispatching
<1>8. CASE RecordNodeCompleted(s)
    <2>1. r.pc = "record" /\ r.stage \in {"start", "loop"}
        BY <1>8 DEF RecordNodeCompleted, AloneAt, Control
    <2>2. q = IF r.cause # "success" /\ FailFast THEN Finish(r, "failure") ELSE EnterDispatch(r)
        BY <1>8, Parts DEF RecordNodeCompleted, CoTypeOK
    <2>3. \/ q.pc = "finalize"
          \/ /\ q.mem = r.mem /\ q.pc \in {"fold", "loop", "finalize", "dispatch"}
             /\ FailFast => r.cause = "success"
        BY <2>1, <2>2, FinishFields, EnterDispatchFields
    <2> QED
        BY <1>0, <2>1, <2>3 DEF Unfailed, Early, Dispatching
<1>9. CASE \/ RecordTerminated(s) \/ ReportStatus(s) \/ CleanupRun(s) \/ ReleaseLease(s)
           \/ DeleteRun(s)
    <2>1. q.pc \in {"report", "cleanup", "release", "delete", "done"}
        <3>1. CASE RecordTerminated(s)
            BY <3>1, TerminatedFields
        <3>2. CASE DeleteRun(s)
            BY <3>2, Parts DEF DeleteRun, Stop, CoTypeOK, Stopped, Off
        <3> QED
            BY <1>9, <3>1, <3>2, GotoFields DEF ReportStatus, CleanupRun, ReleaseLease
    <2> QED
        BY <2>1 DEF Unfailed, Early, Dispatching
<1> QED
    BY <1>1, <1>2, <1>3, <1>4, <1>5, <1>6, <1>7, <1>8, <1>9, AloneNever DEF RunStep

\* So do the branches of the loop.
LEMMA UnfailedLoopStep ==
    ASSUME Alone, TypeInv, AloneInv, AllUnfailed, NEW s \in Servers, LoopStep(s)
    PROVE  Unfailed(co'[s])
<1> DEFINE r == co[s]
           q == co'[s]
<1> USE AloneOpen
<1>0. Unfailed(r)
    BY DEF AllUnfailed
<1>1. CASE PeriodicReconcile(s)
    <2>1. r.pc = "loop" /\ q.pc = "fold" /\ q.mem = r.mem
        BY <1>1, ReconcileFields DEF PeriodicReconcile
    <2> QED
        BY <1>0, <2>1 DEF Unfailed, Early, Dispatching
<1>2. CASE PipelineDeadline(s) \/ SubscriptionClosed(s) \/ ReceiveCancel(s)
    <2>1. \E v : q = Finish(r, v)
        BY <1>2, Parts DEF PipelineDeadline, SubscriptionClosed, ReceiveCancel, CoTypeOK
    <2> QED
        BY <2>1, FinishFields DEF Unfailed, Early, Dispatching
<1>3. CASE ReceiveNodeCompleted(s)
    <2>1. PICK p \in CoordinatorState, n \in Nodes, success \in BOOLEAN :
              /\ handle_node_completed(s, p, n, success) /\ p.mem = r.mem /\ p.pc = r.pc
              /\ p.version = r.version
        BY <1>3, CompletionCalls
    <2>2. r.pc = "loop"
        BY <1>3 DEF ReceiveNodeCompleted, Receives
    <2>3. /\ \/ q.pc = "record" /\ q.cause = (IF success THEN "success" ELSE "failure")
             \/ q.pc = "finalize"
          /\ success => q.mem = mark_success(r.mem, n)
        BY <2>1, CompletedFields
    <2>4. success /\ NoneFailed(r.mem) => NoneFailed(q.mem)
        BY <2>3 DEF NoneFailed, mark_success, Statuses
    <2> QED
        BY <1>0, <2>2, <2>3, <2>4 DEF Unfailed, Early, Dispatching
<1>4. CASE HandlePodRunning(s)
    BY <1>0, <1>4 DEF HandlePodRunning
<1>5. CASE \E type : HandleNodeFailure(s, type)
    <2>1. CASE \E n \in Nodes, cause \in {"failure", "infra"} : \E g : FailNode(s, r, n, cause, g)
        <3>1. \/ q.pc = "cancel" /\ q.cause \in {"failure", "infra"}
              \/ q.pc = "finalize"
            BY <2>1, FailFields DEF Cause
        <3> QED
            BY <3>1 DEF Unfailed, Early, Dispatching
    <2> QED
        BY <1>0, <1>5, <2>1, FailureCalls
<1>6. CASE HeartbeatFails(s)
    <2>1. q = Stopped
        BY <1>6, Parts DEF HeartbeatFails, Stop, CoTypeOK
    <2> QED
        BY <2>1 DEF Stopped, Off, Unfailed, Early, Dispatching
<1> QED
    BY <1>1, <1>2, <1>3, <1>4, <1>5, <1>6
    DEF LoopStep, HandleNodeInfraFailed, HandlePodStartTimedOut, HandleNodeTimedOut

\* Whatever else happens moves no coordinator, saves nothing, records nothing
\* and creates nothing.
Aside ==
    /\ UNCHANGED <<co, store, historyVars, launched, config_maps>>
    /\ \A n \in Nodes : job'[n] # "none" => job[n] # "none"
    /\ lease' = lease \/ lease' = NoLease

LEMMA AloneMoves ==
    ASSUME Alone, TypeInv, AloneInv, [Next]_clusterVars, NEW s \in Servers
    PROVE  RunStep(s) \/ LoopStep(s) \/ Launch(s) \/ Aside
<1>1. \A t \in Servers : t = s
    BY DEF Alone
<1>2. CASE SignalStep(s)
    BY <1>2 DEF SignalStep, DetachedTimerFires, TimerFires, WatcherReportsRunning,
       WatcherReportsFailure, storeVars, workerVars, Aside
<1>3. CASE \E n \in Nodes :
              /\ WorkerStep(n) \/ PodFailure(n)
              /\ UNCHANGED <<storeVars, historyVars, backplaneVars, coordVars, sweep, requestVars>>
    <2>1. job \in [Nodes -> JobState]
        BY Parts DEF TypeInv, ClusterTypeOK, WorkersTypeOK
    <2> QED
        BY <1>3, <2>1 DEF WorkerStep, PodStarts, WorkerSucceeds, WorkerFails, PodFailure,
           PodBreaks, storeVars, coordVars, Aside
<1>4. CASE RequestCancel \/ \E n \in Nodes : Poke(n)
    BY <1>4 DEF RequestCancel, Poke, storeVars, workerVars, coordVars, Aside
<1>5. CASE ExpireLease
    BY <1>5 DEF ExpireLease, LeaseExpires, workerVars, coordVars, Aside
<1>6. CASE UNCHANGED clusterVars
    BY <1>6 DEF clusterVars, vars, storeVars, workerVars, coordVars, Aside
<1> QED
    BY <1>1, <1>2, <1>3, <1>4, <1>5, <1>6, AloneNever DEF Next

\* With fail_fast the only coordinator goes on only while no node has failed.
LEMMA UnfailedStep ==
    ASSUME Alone, "kube" \notin Faults
    PROVE  TypeInv /\ AloneInv /\ AllUnfailed /\ [Next]_clusterVars => AllUnfailed'
<1> SUFFICES ASSUME TypeInv, AloneInv, AllUnfailed, [Next]_clusterVars, NEW s \in Servers
             PROVE  Unfailed(co[s])'
    BY DEF AllUnfailed
<1>1. CASE Launch(s)
    <2>1. co'[s].pc = "acquire" /\ co'[s].mem = co[s].mem /\ co[s].pc = "off"
        BY <1>1, AloneOpen, GotoFields DEF Launch
    <2>2. co[s].mem = NewRun
        BY <2>1, AloneOpen DEF AloneAt, Saved, Early
    <2> QED
        BY <2>1, <2>2 DEF Unfailed, NoneFailed, NewRun, Dispatching
<1>2. CASE Aside
    BY <1>2 DEF Aside, AllUnfailed, Unfailed
<1>3. CASE RunStep(s) \/ LoopStep(s)
    BY <1>3, UnfailedRunStep, UnfailedLoopStep DEF Unfailed
<1> QED
    BY <1>1, <1>2, <1>3, AloneMoves

\* With fail_fast and a Kubernetes API that answers, the only coordinator
\* creates no Job once Redis says that a node has failed.  (A failed dispatch
\* does not end the run: the other ready nodes are dispatched after it.)
THEOREM FailFastTheorem == ASSUME Alone, "kube" \notin Faults PROVE Spec => FailFastStops
<1>1. ClusterInit => AllUnfailed
    <2>1. Off.pc = "off" /\ Off.mem = NewRun
        BY DEF Off
    <2> QED
        BY <2>1 DEF ClusterInit, Init, CoordinatorInit, AllUnfailed, Unfailed, NoneFailed, NewRun,
           Dispatching, Early
<1>2. TypeInv /\ AloneInv /\ AllUnfailed /\ [Next]_clusterVars
         => [FailFast => \A n \in Nodes :
                Launches(n) => \A m \in Nodes : store.statuses[m] # "failed"]_clusterVars
    <2> SUFFICES ASSUME TypeInv, AloneInv, AllUnfailed, [Next]_clusterVars, FailFast,
                        NEW n \in Nodes, Launches(n), NEW m \in Nodes
                 PROVE  store.statuses[m] # "failed"
        OBVIOUS
    <2>1. PICK s \in Servers : DispatchNode(s)
        BY LaunchesInDispatch
    <2>2. co[s].pc = "dispatch" /\ LosesAtMostDispatch(store.statuses[m], co[s].mem[m])
        BY <2>1 DEF DispatchNode, AloneInv, Saved, Working, Dispatching
    <2> QED
        BY <2>2 DEF LosesAtMostDispatch, AllUnfailed, Unfailed, NoneFailed, Dispatching
<1> QED
    BY <1>1, <1>2, UnfailedStep, AloneInvHolds, PTL DEF Spec, FailFastStops

----------------------------------------------------------------------------
(* What is left behind                                                     *)

\* What cleanup has taken away by the time run() is past it.
Gone(r) ==
    /\ r.pc \in {"release", "delete", "done"} =>
          config_maps = {} /\ \A n \in Nodes : job[n] = "none"
    /\ r.pc \in {"delete", "done"} => lease = NoLease
    /\ r.pc = "done" => store = NoRun

AllGone == \A s \in Servers : Gone(co[s])

Leaving == {"release", "delete", "done"}

\* A subscription that the broker does not refuse succeeds, since the run's
\* queue is free.
LEMMA AloneSubscribes ==
    ASSUME TypeInv, AloneInv, "backplane" \notin Faults, NEW s \in Servers, Subscribe(s)
    PROVE  co'[s] = EnterDispatch(co[s]) /\ co[s].pc = "subscribe" /\ co[s].stage \in {"start", "loop"}
<1>1. CanSubscribe
    BY AloneOpen DEF AloneAt, Held, Subscribe, CanSubscribe
<1> QED
    BY <1>1, AloneOpen, Parts DEF Subscribe, CoTypeOK, AloneAt, Control

\* There is one way into the last three places.
LEMMA LeavingSteps ==
    ASSUME Alone, TypeInv, AloneInv, "backplane" \notin Faults, "redis" \notin Faults,
           NEW s \in Servers, RunStep(s) \/ LoopStep(s)
    PROVE  CleanupRun(s) \/ ReleaseLease(s) \/ DeleteRun(s) \/ co'[s].pc \notin Leaving
<1> USE AloneOpen DEF Leaving
<1>0. ~RedisErrs
    BY DEF RedisErrs
<1>1. CASE \/ AcquireLease(s) \/ RecordPipelineStarted(s) \/ LoadRun(s) \/ SaveInitial(s)
           \/ CancelNode(s) \/ ReportStatus(s)
    <2>1. CASE \E pc \in {"off", "load", "save_initial", "subscribe", "record", "cleanup"} : Goto(s, pc)
        BY <2>1, GotoFields
    <2>2. CASE co' = [co EXCEPT ![s].pc = "acquired", ![s].lease_version = lease_ver + 1]
        BY <2>2, Parts DEF CoTypeOK, CoordinatorState
    <2>3. LoadRun(s) => ~RunExists
        BY DEF LoadRun, AloneAt, Saved, Early, RunExists, NoRun, Absent
    <2> QED
        BY <1>0, <1>1, <2>1, <2>2, <2>3
        DEF AcquireLease, RecordPipelineStarted, LoadRun, SaveInitial, CancelNode, ReportStatus
<1>2. CASE Subscribe(s)
    BY <1>2, AloneSubscribes, EnterDispatchFields
<1>3. CASE RecordNodeCompleted(s)
    <2>1. co[s].stage \in {"start", "loop"}
        BY DEF AloneAt, Control
    <2>2. co'[s] = Finish(co[s], "failure") \/ co'[s] = EnterDispatch(co[s])
        BY <1>3, Parts DEF RecordNodeCompleted, CoTypeOK
    <2> QED
        BY <2>1, <2>2, FinishFields, EnterDispatchFields
<1>4. CASE DispatchNode(s) \/ PersistDispatch(s) \/ RecordDispatch(s)
    BY <1>4, DispatchFields, PersistDispatchFields, RecordDispatchFields
<1>5. CASE FoldCompletion(s) \/ ReceiveNodeCompleted(s)
    <2>1. PICK p \in CoordinatorState, n \in Nodes, success \in BOOLEAN :
              /\ handle_node_completed(s, p, n, success)
              /\ p.pc = co[s].pc /\ p.version = co[s].version /\ co[s].pc \in {"fold", "loop"}
        BY <1>5, CompletionCalls
    <2> QED
        BY <2>1, CompletedFields
<1>6. CASE RecordTerminated(s)
    BY <1>6, TerminatedFields
<1>7. CASE PeriodicReconcile(s)
    BY <1>7, ReconcileFields
<1>8. CASE PipelineDeadline(s) \/ SubscriptionClosed(s) \/ ReceiveCancel(s)
    <2>1. \E v : co'[s] = Finish(co[s], v)
        BY <1>8, Parts DEF PipelineDeadline, SubscriptionClosed, ReceiveCancel, CoTypeOK
    <2> QED
        BY <2>1, FinishFields
<1>9. CASE HandlePodRunning(s)
    BY <1>9 DEF HandlePodRunning, Got
<1>10. CASE \E type : HandleNodeFailure(s, type)
    <2>1. co[s].pc = "loop"
        BY <1>10, FailureCalls
    <2>2. CASE UNCHANGED <<store, co>>
        BY <2>1, <2>2
    <2> QED
        BY <1>10, <2>2, FailureCalls, FailFields DEF Cause
<1> QED
    BY <1>1, <1>2, <1>3, <1>4, <1>5, <1>6, <1>7, <1>8, <1>9, <1>10, <1>0, AloneNever
    DEF RunStep, LoopStep, HandleNodeInfraFailed, HandlePodStartTimedOut, HandleNodeTimedOut

\* Each of them takes its part away, and nothing brings it back.
LEMMA GoneStep ==
    ASSUME Alone, "kube" \notin Faults, "backplane" \notin Faults, "redis" \notin Faults
    PROVE  TypeInv /\ AloneInv /\ AllGone /\ [Next]_clusterVars => AllGone'
<1> SUFFICES ASSUME TypeInv, AloneInv, AllGone, [Next]_clusterVars, NEW s \in Servers
             PROVE  Gone(co[s])'
    BY DEF AllGone
<1> USE AloneOpen
<1>0. Gone(co[s])
    BY DEF AllGone
<1>1. CASE Launch(s)
    BY <1>1, GotoFields DEF Launch, Gone
<1>2. CASE Aside
    <2>1. job' \in [Nodes -> JobState]
        BY TypeInvStep, PartsNext DEF TypeInv, ClusterTypeOK, WorkersTypeOK
    <2> QED
        BY <1>0, <1>2, <2>1 DEF Aside, Gone
<1>3. CASE CleanupRun(s)
    <2>1. co'[s].pc = "release" /\ \E objects : delete_objects(Nodes, Nodes, objects)
        BY <1>3, GotoFields DEF CleanupRun, cleanup_run, Reached
    <2>2. config_maps' = config_maps \ Nodes /\ \A n \in Nodes : job'[n] = "none"
        BY <2>1 DEF delete_objects
    <2>3. config_maps' = {}
        BY <2>2, Parts DEF WorkersTypeOK
    <2> QED
        BY <2>1, <2>2, <2>3 DEF Gone
<1>4. CASE ReleaseLease(s)
    <2>1. /\ co[s].pc = "release" /\ lease' = NoLease /\ UNCHANGED workerVars
          /\ co'[s].pc = "delete"
        BY <1>4, GotoFields DEF ReleaseLease, release_lease, RedisErrs
    <2> QED
        BY <1>0, <2>1 DEF Gone, workerVars
<1>5. CASE DeleteRun(s)
    <2>1. /\ co[s].pc = "delete" /\ store' = NoRun /\ UNCHANGED <<lease, workerVars>>
        BY <1>5 DEF DeleteRun, delete_run, RedisErrs
    <2> QED
        BY <1>0, <2>1 DEF Gone, workerVars
<1>6. CASE co'[s].pc \notin Leaving
    BY <1>6 DEF Gone, Leaving
<1> QED
    BY <1>1, <1>2, <1>3, <1>4, <1>5, <1>6, AloneMoves, LeavingSteps

\* When a coordinator that is never replaced has returned, whichever exit it
\* took, the run's Jobs, ConfigMaps, lease and Redis state are gone, provided
\* no call to Kubernetes or Redis errs and RabbitMQ accepts the subscription:
\* a renewal that errs ends the run without a cleanup, and an error of the
\* cleanup's own calls is only logged.  Postgres and S3 may fail.
THEOREM NoLeftoversTheorem ==
    ASSUME Alone, "kube" \notin Faults, "backplane" \notin Faults, "redis" \notin Faults
    PROVE  Spec => []NoLeftovers
<1>1. ClusterInit => AllGone
    <2>1. Off.pc = "off"
        BY DEF Off
    <2> QED
        BY <2>1 DEF ClusterInit, Init, CoordinatorInit, AllGone, Gone
<1>2. AllGone => NoLeftovers
    BY DEF AllGone, Gone, NoLeftovers, RunExists, NoRun, Leased, NoLease
<1> QED
    BY <1>1, <1>2, GoneStep, AloneInvHolds, PTL DEF Spec

----------------------------------------------------------------------------
(* What Postgres knows                                                     *)

Closing == {"finalize", "report", "cleanup", "release", "delete"}

\* Once the run has a row, every launched node has a verdict in Postgres,
\* unless it is running or about to be recorded.  An ending run may leave out
\* one node, the one whose completion Redis failed to save; after
\* record_history the others have a verdict, and after the report the run has
\* its own.
Rows(r) ==
    /\ r.pc \notin {"off", "acquire", "acquired", "done"} => Referenced
    /\ r.pc \in Working =>
          \A n \in launched :
              \/ Known(node_rows[n]) \/ r.mem[n] = "running"
              \/ r.pc \in {"record", "cancel"} /\ r.node = n
              \/ /\ r.pc \in {"dispatched", "dispatch_record"} /\ r.node = n
                 /\ r.cause = "dispatch_failed"
    /\ r.pc \in Closing =>
          \E lost \in Nodes \cup {NoNode} :
              /\ lost # NoNode => RedisErrs /\ r.status = "failure"
              /\ \A n \in launched \ {lost} :
                    Known(node_rows[n]) \/ (r.pc = "finalize" /\ r.mem[n] = "running")
    /\ r.pc \in {"cleanup", "release", "delete"} => pipeline_row = r.status

AllRows == \A s \in Servers : Rows(co[s])

\* No write of a node row takes a verdict or the run's row away.
LEMMA RowsKept ==
    ASSUME TypeOK, Referenced, NEW n \in Nodes, NEW row \in NodeRow, Known(row),
           record_node_run(n, row) \/ record_node_dispatched(n) \/ UNCHANGED historyVars
    PROVE  /\ pipeline_row' = pipeline_row
           /\ \A m \in Nodes : Known(node_rows[m]) => Known(node_rows'[m])
           /\ record_node_run(n, row) => Known(node_rows'[n])
<1>1. node_rows \in [Nodes -> NodeRow] /\ row # "none"
    BY Parts DEF HistoryTypeOK, Known
<1>2. CASE record_node_run(n, row)
    BY <1>1, <1>2 DEF record_node_run, record_node_runs
<1>3. CASE record_node_dispatched(n) /\ ~record_node_run(n, row)
    BY <1>1, <1>3 DEF record_node_dispatched, Known
<1> QED
    BY <1>2, <1>3 DEF historyVars

\* Up to the first dispatch nothing has been launched.
LEMMA RowsStart ==
    ASSUME Alone, "history" \notin Faults, TypeInv, AloneInv, AllRows, NEW s \in Servers,
           \/ Launch(s) \/ AcquireLease(s) \/ RecordPipelineStarted(s) \/ LoadRun(s)
           \/ SaveInitial(s)
    PROVE  Rows(co[s])'
<1> USE AloneOpen
<1>0. Rows(co[s]) /\ launched' = launched /\ launched = {}
    BY DEF AllRows, Launch, AcquireLease, RecordPipelineStarted, LoadRun, SaveInitial, AloneAt,
       Once, Early, workerVars
<1>1. CASE Launch(s) \/ AcquireLease(s)
    <2>1. co'[s].pc \in {"off", "acquire", "acquired", "done"}
        <3>1. CASE co' = [co EXCEPT ![s].pc = "acquired", ![s].lease_version = lease_ver + 1]
            BY <3>1, Parts DEF CoTypeOK, CoordinatorState
        <3>2. CASE co' = [co EXCEPT ![s] = Stopped]
            BY <3>2, Parts DEF CoTypeOK, Stopped, Off
        <3> QED
            BY <1>1, <3>1, <3>2, GotoFields DEF Launch, AcquireLease
    <2> QED
        BY <2>1 DEF Rows, Working, Dispatching, Closing
<1>2. CASE RecordPipelineStarted(s)
    <2>1. co'[s].pc = "load" /\ record_pipeline_started
        BY <1>2, GotoFields DEF RecordPipelineStarted
    <2>2. Referenced'
        BY <2>1 DEF record_pipeline_started, Referenced
    <2> QED
        BY <2>1, <2>2 DEF Rows, Working, Dispatching, Closing, historyVars
<1>3. CASE LoadRun(s) \/ SaveInitial(s)
    <2>1. /\ co[s].pc \in {"load", "save_initial"} /\ UNCHANGED historyVars
          /\ LoadRun(s) => ~RunExists
        BY <1>3 DEF LoadRun, SaveInitial, AloneAt, Saved, Early, RunExists, NoRun, Absent
    <2>2. co'[s].pc \in {"save_initial", "subscribe"}
        BY <1>3, <2>1, GotoFields DEF LoadRun, SaveInitial
    <2> QED
        BY <1>0, <2>1, <2>2 DEF Rows, Working, Dispatching, Closing, Referenced, historyVars
<1> QED
    BY <1>1, <1>2, <1>3

\* A dispatched node is running; one whose dispatch failed gets its row next.
LEMMA RowsDispatch ==
    ASSUME Alone, "history" \notin Faults,
           TypeInv, AloneInv, AllRows, NEW s \in Servers,
           Subscribe(s) \/ DispatchNode(s) \/ PersistDispatch(s) \/ RecordDispatch(s)
    PROVE  Rows(co[s])'
<1> DEFINE r == co[s]
           q == co'[s]
<1> USE AloneOpen
<1>0. Rows(r) /\ launched \subseteq Nodes /\ NoNode \notin Nodes
    BY Parts, ConfigAssumption DEF AllRows, WorkersTypeOK
<1>1. CASE Subscribe(s)
    <2>1. r.pc = "subscribe" /\ r.stage \in {"start", "loop"} /\ (q = Stopped \/ q = EnterDispatch(r))
        BY <1>1, Parts DEF Subscribe, Stop, CoTypeOK, AloneAt, Control
    <2>2. q.pc = "done" \/ (q.mem = r.mem /\ q.pc \in {"fold", "loop", "finalize", "dispatch"})
        BY <2>1, EnterDispatchFields DEF Stopped, Off
    <2>3. UNCHANGED <<launched, historyVars>>
        BY <1>1 DEF Subscribe, workerVars
    <2> QED
        BY <1>0, <2>1, <2>2, <2>3 DEF Rows, Working, Dispatching, Closing, Referenced, historyVars
<1>2. CASE DispatchNode(s)
    <2>1. PICK n \in r.todo :
              /\ q.pc = "dispatched" /\ q.node = n
              /\ \/ dispatch(n) /\ q.mem = mark_running(r.mem, n)
                 \/ /\ UNCHANGED workerVars \/ dispatch_errs(n)
                    /\ q.mem = mark_dispatch_failed(r.mem, n) /\ q.cause = "dispatch_failed"
        BY <1>2, DispatchFields
    <2>2. /\ r.pc = "dispatch" /\ UNCHANGED historyVars
          /\ n \in Nodes /\ r.mem[n] = "pending" /\ n \notin launched
        BY <1>2 DEF DispatchNode, AloneAt, Control, Once, Working, Dispatching
    <2>3. \A m \in Nodes : m # n => q.mem[m] = r.mem[m]
        BY <2>1, <2>2, MarkFields
    <2>4. n \in launched' => q.mem[n] = "running" \/ q.cause = "dispatch_failed"
        BY <2>1, <2>2 DEF mark_running, Statuses
    <2>5. \A m \in launched' : m \in launched \/ m = n
        BY <2>1 DEF dispatch, dispatch_errs, create_objects, workerVars
    <2> QED
        BY <1>0, <2>1, <2>2, <2>3, <2>4, <2>5
        DEF Rows, Working, Dispatching, Closing, Referenced, historyVars
<1>3. CASE PersistDispatch(s)
    <2>1. /\ r.pc = "dispatched" /\ q.pc = "dispatch_record" /\ q.mem = r.mem
          /\ q.node = r.node /\ q.cause = r.cause
        BY <1>3, PersistDispatchFields DEF PersistDispatch
    <2>2. UNCHANGED <<launched, historyVars>>
        BY <1>3 DEF PersistDispatch, workerVars
    <2> QED
        BY <1>0, <2>1, <2>2 DEF Rows, Working, Dispatching, Closing, Referenced, historyVars
<1>4. CASE RecordDispatch(s)
    <2>1. /\ r.pc = "dispatch_record" /\ r.node \in Nodes
          /\ IF r.cause = "dispatched" THEN record_node_dispatched(r.node)
             ELSE record_node_run(r.node, "dispatch_failed")
          /\ launched' = launched
        BY <1>4 DEF RecordDispatch, Hands, Busy, workerVars
    <2>2. q.mem = r.mem /\ q.pc \in {"fold", "loop", "finalize", "dispatch"}
        BY <1>4, RecordDispatchFields
    <2>3. Referenced
        BY <1>0, <2>1 DEF Rows
    <2>4. "dispatch_failed" \in NodeRow /\ Known("dispatch_failed")
        BY DEF Known, NodeRow
    <2>5. /\ pipeline_row' = pipeline_row
          /\ \A m \in Nodes : Known(node_rows[m]) => Known(node_rows'[m])
          /\ r.cause # "dispatched" => Known(node_rows'[r.node])
        BY <2>1, <2>3, <2>4, RowsKept
    <2>6. \A m \in launched : Known(node_rows'[m]) \/ q.mem[m] = "running"
        BY <1>0, <2>1, <2>2, <2>5 DEF Rows, Working, Dispatching
    <2> QED
        BY <1>0, <2>1, <2>2, <2>3, <2>5, <2>6 DEF Rows, Working, Dispatching, Closing, Referenced
<1> QED
    BY <1>1, <1>2, <1>3, <1>4

\* A handler changes one node and then records it, unless the run ends because
\* its save failed.
LEMMA RowsHandled ==
    ASSUME TypeInv, AloneInv, AllRows, NEW s \in Servers, NEW n \in Nodes,
           co[s].pc \in {"fold", "loop"}, UNCHANGED <<launched, historyVars>>,
           LET q == co'[s] r == co[s]
           IN  /\ \A m \in Nodes : m # n => q.mem[m] = r.mem[m]
               /\ \/ q.pc \in {"record", "cancel"} /\ q.node = n
                  \/ q.pc = "finalize" /\ q.status = "failure" /\ RedisErrs
    PROVE  Rows(co[s])'
<1> DEFINE r == co[s]
           q == co'[s]
<1> USE AloneOpen
<1>0. Rows(r) /\ launched \subseteq Nodes
    BY Parts DEF AllRows, WorkersTypeOK
<1>1. \A m \in launched \ {n} : Known(node_rows'[m]) \/ q.mem[m] = "running"
    BY <1>0 DEF Rows, Working, historyVars
<1> QED
    BY <1>0, <1>1 DEF Rows, Working, Dispatching, Closing, Referenced, historyVars

LEMMA RowsHandler ==
    ASSUME Alone, "history" \notin Faults, TypeInv, AloneInv, AllRows, NEW s \in Servers,
           \/ FoldCompletion(s) \/ ReceiveNodeCompleted(s) \/ (\E type : HandleNodeFailure(s, type))
           \/ CancelNode(s) \/ RecordNodeCompleted(s)
    PROVE  Rows(co[s])'
<1> DEFINE r == co[s]
           q == co'[s]
<1> USE AloneOpen
<1>0. Rows(r) /\ launched \subseteq Nodes /\ NoNode \notin Nodes
    BY Parts, ConfigAssumption DEF AllRows, WorkersTypeOK
<1>1. CASE FoldCompletion(s) \/ ReceiveNodeCompleted(s)
    <2>1. PICK p \in CoordinatorState, n \in Nodes, success \in BOOLEAN :
              /\ handle_node_completed(s, p, n, success) /\ r.pc \in {"fold", "loop"}
              /\ p.mem = r.mem /\ p.version = r.version
        BY <1>1, CompletionCalls
    <2>2. RedisErrs \/ SaveAccepted(p.version)
        BY <2>1, WorkingAccepts DEF AloneAt, Working
    <2>3. /\ q.mem = IF success THEN mark_success(r.mem, n) ELSE mark_failed(r.mem, n)
          /\ \/ q.pc = "record" /\ q.node = n
             \/ q.pc = "finalize" /\ q.status = "failure" /\ RedisErrs
        BY <2>1, <2>2, CompletedFields DEF SaveFails
    <2>4. \A m \in Nodes : m # n => q.mem[m] = r.mem[m]
        BY <2>3, MarkFields
    <2>5. UNCHANGED <<launched, historyVars>>
        BY <1>1 DEF FoldCompletion, ReceiveNodeCompleted, workerVars
    <2> HIDE DEF q
    <2> QED
        BY <2>1, <2>3, <2>4, <2>5, RowsHandled DEF q
<1>2. CASE \E type : HandleNodeFailure(s, type)
    <2>1. /\ r.pc = "loop" /\ UNCHANGED <<launched, historyVars>>
          /\ RedisErrs \/ SaveAccepted(r.version)
        BY <1>2, FailureCalls, WorkingAccepts DEF AloneAt, Working, workerVars
    <2>2. CASE UNCHANGED <<store, co>>
        BY <1>0, <2>1, <2>2 DEF Rows, Referenced, historyVars
    <2>3. CASE \E n \in Nodes, cause \in {"failure", "infra"} : \E g : FailNode(s, r, n, cause, g)
        <3>1. PICK n \in Nodes :
                  /\ q.mem = mark_failed(r.mem, n)
                  /\ \/ q.pc = "cancel" /\ q.node = n
                     \/ q.pc = "finalize" /\ q.status = "failure" /\ RedisErrs
            BY <2>1, <2>3, FailFields DEF Cause, SaveFails
        <3>2. \A m \in Nodes : m # n => q.mem[m] = r.mem[m]
            BY <3>1, MarkFields
        <3> HIDE DEF q
        <3> QED
            BY <2>1, <3>1, <3>2, RowsHandled DEF q
    <2> QED
        BY <1>2, <2>2, <2>3, FailureCalls
<1>3. CASE CancelNode(s)
    <2>1. /\ r.pc = "cancel" /\ q.pc = "record" /\ q.mem = r.mem /\ q.node = r.node
          /\ UNCHANGED <<launched, historyVars>>
        BY <1>3, GotoFields, DeletesOnly DEF CancelNode, cancel_node
    <2> QED
        BY <1>0, <2>1 DEF Rows, Working, Dispatching, Closing, Referenced, historyVars
<1>4. CASE RecordNodeCompleted(s)
    <2>1. /\ r.pc = "record" /\ r.node \in Nodes /\ r.stage \in {"start", "loop"}
          /\ record_node_run(r.node, NodeRowFor(r)) /\ launched' = launched
        BY <1>4 DEF RecordNodeCompleted, Hands, Busy, workerVars, AloneAt, Control
    <2>2. q = Finish(r, "failure") \/ q = EnterDispatch(r)
        BY <1>4, Parts DEF RecordNodeCompleted, CoTypeOK
    <2>3. q.mem = r.mem /\ q.pc \in {"fold", "loop", "finalize", "dispatch"}
        BY <2>1, <2>2, FinishFields, EnterDispatchFields
    <2>4. Referenced
        BY <1>0, <2>1 DEF Rows
    <2>5. NodeRowFor(r) \in NodeRow /\ Known(NodeRowFor(r))
        BY DEF NodeRowFor, NodeRow, Known
    <2>6. /\ pipeline_row' = pipeline_row
          /\ \A m \in Nodes : Known(node_rows[m]) => Known(node_rows'[m])
          /\ Known(node_rows'[r.node])
        BY <2>1, <2>4, <2>5, RowsKept
    <2>7. \A m \in launched : Known(node_rows'[m]) \/ q.mem[m] = "running"
        BY <1>0, <2>1, <2>3, <2>6 DEF Rows, Working, Dispatching
    <2> QED
        BY <1>0, <2>1, <2>3, <2>4, <2>6, <2>7 DEF Rows, Working, Dispatching, Closing, Referenced
<1> QED
    BY <1>1, <1>2, <1>3, <1>4

\* The rest of the loop changes neither the statuses nor the rows.
LEMMA RowsLoop ==
    ASSUME Alone, TypeInv, AloneInv, AllRows, NEW s \in Servers,
           \/ PeriodicReconcile(s) \/ PipelineDeadline(s) \/ SubscriptionClosed(s)
           \/ ReceiveCancel(s) \/ HandlePodRunning(s) \/ HeartbeatFails(s)
    PROVE  Rows(co[s])'
<1> DEFINE r == co[s]
           q == co'[s]
<1> USE AloneOpen
<1>0. Rows(r) /\ launched \subseteq Nodes /\ NoNode \notin Nodes
    BY Parts, ConfigAssumption DEF AllRows, WorkersTypeOK
<1>1. r.pc = "loop" /\ UNCHANGED <<launched, historyVars>>
    BY DEF HeartbeatFails, PeriodicReconcile, PipelineDeadline, SubscriptionClosed, ReceiveCancel, Receives,
       HandlePodRunning, Got, workerVars
<1>2. q.pc = "done" \/ (q.mem = r.mem /\ q.pc \in {"loop", "fold", "finalize"})
    <2>1. CASE PeriodicReconcile(s)
        BY <2>1, ReconcileFields
    <2>2. CASE PipelineDeadline(s) \/ SubscriptionClosed(s) \/ ReceiveCancel(s)
        <3>1. \E v : q = Finish(r, v)
            BY <2>2, Parts DEF PipelineDeadline, SubscriptionClosed, ReceiveCancel, CoTypeOK
        <3> QED
            BY <3>1, FinishFields
    <2>3. CASE HandlePodRunning(s)
        BY <1>1, <2>3 DEF HandlePodRunning
    <2>4. CASE HeartbeatFails(s)
        BY <2>4, Parts DEF HeartbeatFails, Stop, CoTypeOK, Stopped, Off
    <2> QED
        BY <2>1, <2>2, <2>3, <2>4
<1> QED
    BY <1>0, <1>1, <1>2 DEF Rows, Working, Dispatching, Closing, Referenced, historyVars

\* record_history gives every node that is still running a verdict.
LEMMA RowsTerminated ==
    ASSUME "history" \notin Faults, TypeInv, AloneInv, AllRows, NEW s \in Servers,
           RecordTerminated(s)
    PROVE  Rows(co[s])'
<1> DEFINE r == co[s]
<1> USE AloneOpen
<1>0. Rows(r) /\ launched \subseteq Nodes /\ node_rows \in [Nodes -> NodeRow]
    BY Parts DEF AllRows, WorkersTypeOK, HistoryTypeOK
<1>1. /\ r.pc = "finalize" /\ co'[s].pc = "report" /\ launched' = launched
      /\ co'[s].status = r.status
    BY TerminatedFields DEF RecordTerminated, workerVars
<1>2. PICK readable \in Readable :
          record_node_runs([n \in Nodes |->
              IF n \notin {m \in Nodes : r.mem[m] = "running"} \cap Nodes THEN "none"
              ELSE IF n \in readable /\ s3[n] = "success" THEN "success" ELSE "failure"])
    BY DEF RecordTerminated, Recordable, Reached
<1>3. Referenced
    BY <1>0, <1>1 DEF Rows
<1>4. /\ pipeline_row' = pipeline_row
      /\ \A n \in Nodes : IF r.mem[n] = "running" THEN node_rows'[n] \in {"success", "failure"}
                          ELSE node_rows'[n] = node_rows[n]
    BY <1>2, <1>3 DEF record_node_runs
<1>5. PICK lost \in Nodes \cup {NoNode} :
          /\ lost # NoNode => RedisErrs /\ r.status = "failure"
          /\ \A n \in launched \ {lost} : Known(node_rows[n]) \/ r.mem[n] = "running"
    BY <1>0, <1>1 DEF Rows, Closing
<1>6. \A n \in launched \ {lost} : Known(node_rows'[n])
    BY <1>0, <1>4, <1>5 DEF Known
<1> QED
    BY <1>1, <1>3, <1>4, <1>5, <1>6 DEF Rows, Working, Dispatching, Closing, Referenced

\* The rest of the epilogue: the run's verdict, and no row is lost.
LEMMA RowsEpilogue ==
    ASSUME "history" \notin Faults, TypeInv, AloneInv, AllRows, NEW s \in Servers,
           ReportStatus(s) \/ CleanupRun(s) \/ ReleaseLease(s) \/ DeleteRun(s)
    PROVE  Rows(co[s])'
<1> DEFINE r == co[s]
           q == co'[s]
<1> USE AloneOpen
<1>0. Rows(r)
    BY DEF AllRows
<1>1. CASE ReportStatus(s)
    <2>1. /\ r.pc = "report" /\ q.pc = "cleanup" /\ launched' = launched
          /\ pipeline_row' = r.status /\ node_rows' = node_rows /\ q.status = r.status
        BY <1>1, GotoFields DEF ReportStatus, record_pipeline_run, workerVars
    <2>2. r.status \in FinalStatus
        BY <2>1 DEF Hands, Ending
    <2> QED
        BY <1>0, <2>1, <2>2 DEF Rows, Working, Dispatching, Closing, Referenced, FinalStatus
<1>2. CASE CleanupRun(s) \/ ReleaseLease(s) \/ DeleteRun(s)
    <2>1. r.pc \in {"cleanup", "release", "delete"} /\ UNCHANGED <<launched, historyVars>>
        BY <1>2, DeletesOnly DEF CleanupRun, cleanup_run, ReleaseLease, DeleteRun, workerVars
    <2>2. q.pc = "done" \/ (q.pc \in {"release", "delete"} /\ q.status = r.status)
        <3>1. CASE DeleteRun(s)
            BY <3>1, Parts DEF DeleteRun, Stop, Stopped, Off, CoTypeOK
        <3> QED
            BY <1>2, <3>1, GotoFields DEF CleanupRun, ReleaseLease
    <2> QED
        BY <1>0, <2>1, <2>2 DEF Rows, Working, Dispatching, Closing, Referenced, historyVars
<1> QED
    BY <1>1, <1>2

\* Every step keeps the rows.
LEMMA RowsStep ==
    ASSUME Alone, "history" \notin Faults
    PROVE  TypeInv /\ AloneInv /\ AllRows /\ [Next]_clusterVars => AllRows'
<1> SUFFICES ASSUME TypeInv, AloneInv, AllRows, [Next]_clusterVars, NEW s \in Servers
             PROVE  Rows(co[s])'
    BY DEF AllRows
<1>1. CASE Aside
    BY <1>1 DEF Aside, AllRows, Rows, Referenced, historyVars
<1>2. CASE Launch(s)
    BY <1>2, RowsStart
<1>3. CASE RunStep(s)
    BY <1>3, RowsStart, RowsDispatch, RowsHandler, RowsTerminated, RowsEpilogue, AloneNever
    DEF RunStep
<1>4. CASE LoopStep(s)
    BY <1>4, RowsLoop, RowsHandler, AloneNever
    DEF LoopStep, HandleNodeInfraFailed, HandlePodStartTimedOut, HandleNodeTimedOut
<1> QED
    BY <1>1, <1>2, <1>3, <1>4, AloneMoves

\* From the moment a coordinator that is never replaced starts to delete the
\* run's artifacts, Postgres has its verdict on the run and one on every node
\* that ever had a Job, but for the one node whose completion Redis failed to
\* save, which makes the run a failure.  Postgres has to accept the writes;
\* S3, Redis, Kubernetes and RabbitMQ may fail as they like.  (A coordinator
\* that a failed renewal or subscription stops deletes no artifact.)
THEOREM HistoryTheorem ==
    ASSUME Alone, "history" \notin Faults PROVE Spec => []HistoryIsComplete
<1>1. ClusterInit => AllRows
    <2>1. Off.pc = "off"
        BY DEF Off
    <2> QED
        BY <2>1 DEF ClusterInit, Init, CoordinatorInit, AllRows, Rows, Working, Dispatching, Closing
<1>2. AllRows => HistoryIsComplete
    BY DEF AllRows, Rows, HistoryIsComplete, Closing
<1> QED
    BY <1>1, <1>2, RowsStep, AloneInvHolds, PTL DEF Spec

============================================================================
