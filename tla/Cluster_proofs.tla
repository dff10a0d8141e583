--------------------------- MODULE Cluster_proofs ---------------------------
(***************************************************************************)
(* The safety theorems of Cluster, for every graph, every number of server *)
(* ids and every setting: no success is invented and nothing starts before *)
(* its dependencies (ClaimsAreReal), and the cluster implements            *)
(* PipelinePromise (KeepsPromise).                                         *)
(***************************************************************************)
EXTENDS ClusterType_proofs

----------------------------------------------------------------------------
(* The invariant in parts                                                  *)

S3Real == \A n \in Nodes : s3[n] = "success" => n \in succeeded

StoreReal == \A n \in Nodes : store.statuses[n] = "success" => n \in succeeded

RowsReal == \A n \in Nodes : node_rows[n] = "success" => n \in succeeded

SweepReal == \A n \in Nodes : sweep.rows[n] = "success" => n \in succeeded

EventReal(e) == e.type = "node_completed" => (e.success => e.node \in succeeded)

EventsReal == \A i \in DOMAIN events : EventReal(events[i])

CoReal == \A s \in Servers : Sound(co[s], succeeded)

VerdictReal == pipeline_row = "success" => succeeded = Nodes

JobsLaunched == \A n \in Nodes : job[n] # "none" => n \in launched

LaunchOrder == \A n \in launched : Deps[n] \subseteq succeeded

\* ClaimsAreReal is the conjunction of its parts, in either state.
LEMMA ClaimParts ==
    ClaimsAreReal <=> /\ S3Real /\ StoreReal /\ RowsReal /\ SweepReal /\ EventsReal
                      /\ CoReal /\ VerdictReal /\ JobsLaunched /\ LaunchOrder
BY DEF ClaimsAreReal, S3Real, StoreReal, RowsReal, SweepReal, EventsReal, EventReal,
       CoReal, VerdictReal, JobsLaunched, LaunchOrder

\* The same of the next state.
LEMMA ClaimPartsNext ==
    ClaimsAreReal' <=> /\ S3Real' /\ StoreReal' /\ RowsReal' /\ SweepReal' /\ EventsReal'
                       /\ CoReal' /\ VerdictReal' /\ JobsLaunched' /\ LaunchOrder'
BY DEF ClaimsAreReal, S3Real, StoreReal, RowsReal, SweepReal, EventsReal, EventReal,
       CoReal, VerdictReal, JobsLaunched, LaunchOrder

\* What an action leaves alone stays real: successes are never taken back.
LEMMA RealStays ==
    ASSUME succeeded \subseteq succeeded', succeeded' \subseteq Nodes
    PROVE  /\ S3Real /\ UNCHANGED s3 => S3Real'
           /\ StoreReal /\ UNCHANGED store => StoreReal'
           /\ RowsReal /\ UNCHANGED node_rows => RowsReal'
           /\ SweepReal /\ UNCHANGED sweep => SweepReal'
           /\ EventsReal /\ UNCHANGED events => EventsReal'
           /\ CoReal /\ UNCHANGED co => CoReal'
           /\ VerdictReal /\ UNCHANGED pipeline_row => VerdictReal'
           /\ JobsLaunched /\ UNCHANGED <<job, launched>> => JobsLaunched'
           /\ LaunchOrder /\ UNCHANGED launched => LaunchOrder'
BY DEF S3Real, StoreReal, RowsReal, SweepReal, EventsReal, EventReal, CoReal, Sound,
       VerdictReal, JobsLaunched, LaunchOrder

----------------------------------------------------------------------------
(* Sound coordinators                                                      *)

\* A verdict that is justified keeps a coordinator sound.
LEMMA SoundFinish ==
    ASSUME NEW r \in CoordinatorState, NEW S \in SUBSET Nodes, Sound(r, S),
           NEW v \in FinalStatus, v = "success" => S = Nodes
    PROVE  Sound(Finish(r, v), S)
<1>1. /\ Finish(r, v).mem = r.mem
      /\ Finish(r, v).outcomes = [n \in Nodes |-> "none"]
      /\ Finish(r, v).todo = {}
      /\ Finish(r, v).status = v
    BY DEF Finish, CoordinatorState
<1> QED
    BY <1>1 DEF Sound

\* The outcome of a sound memory is justified.
LEMMA OutcomeReal ==
    ASSUME NEW st, NEW S \in SUBSET Nodes,
           \A n \in Nodes : st[n] = "success" => n \in S
    PROVE  outcome_status(st) = "success" => S = Nodes
BY DEF outcome_status

\* Two records that agree on what they claim are sound together.
LEMMA SoundSame ==
    ASSUME NEW r, NEW q, NEW S, Sound(r, S),
           q.mem = r.mem, q.outcomes = r.outcomes, q.todo = r.todo, q.status = r.status
    PROVE  Sound(q, S)
BY DEF Sound

\* Returning from a handler invents no success.
LEMMA SoundResume ==
    ASSUME NEW r \in CoordinatorState, NEW S \in SUBSET Nodes, Sound(r, S)
    PROVE  Sound(Resume(r), S)
<1> DEFINE over == Finish(r, outcome_status(r.mem))
<1>1. Sound(over, S)
    BY SoundFinish, OutcomeReal, OutcomeType DEF Sound
<1>2. \/ Resume(r) = over
      \/ /\ Resume(r).mem = r.mem
         /\ Resume(r).outcomes = r.outcomes \/ Resume(r).outcomes = [n \in Nodes |-> "none"]
         /\ Resume(r).todo = r.todo
         /\ Resume(r).status = r.status
    BY DEF Resume, CoordinatorState
<1> HIDE DEF over
<1> QED
    BY <1>1, <1>2 DEF Sound

\* dispatch_ready_nodes lists only nodes whose dependencies really succeeded.
LEMMA SoundEnterDispatch ==
    ASSUME NEW r \in CoordinatorState, NEW S \in SUBSET Nodes, Sound(r, S)
    PROVE  Sound(EnterDispatch(r), S)
<1>1. CASE ready_nodes(r.mem) = {}
    BY <1>1, SoundResume DEF EnterDispatch
<1>2. CASE ready_nodes(r.mem) # {}
    <2>1. /\ EnterDispatch(r).mem = r.mem
          /\ EnterDispatch(r).outcomes = r.outcomes
          /\ EnterDispatch(r).todo = ready_nodes(r.mem)
          /\ EnterDispatch(r).status = r.status
        BY <1>2 DEF EnterDispatch, CoordinatorState
    <2>2. \A n \in ready_nodes(r.mem) : Deps[n] \subseteq S
        BY DepsAssumption DEF ready_nodes, deps_satisfied, Sound
    <2> QED
        BY <2>1, <2>2 DEF Sound
<1> QED
    BY <1>1, <1>2

\* Saving claims nothing new.
LEMMA SoundPersisted ==
    ASSUME NEW r \in CoordinatorState, NEW S, Sound(r, S)
    PROVE  Sound(Persisted(r), S)
<1>1. /\ Persisted(r).mem = r.mem /\ Persisted(r).outcomes = r.outcomes
      /\ Persisted(r).todo = r.todo /\ Persisted(r).status = r.status
    BY DEF Persisted, CoordinatorState
<1> QED
    BY <1>1, SoundSame

\* A memory in which every success was one before, or is real, is sound.
LEMMA SoundMem ==
    ASSUME NEW r \in CoordinatorState, NEW S, Sound(r, S), NEW st,
           \A n \in Nodes : st[n] = "success" => r.mem[n] = "success" \/ n \in S
    PROVE  Sound([r EXCEPT !.mem = st], S)
<1>1. /\ [r EXCEPT !.mem = st].mem = st
      /\ [r EXCEPT !.mem = st].outcomes = r.outcomes
      /\ [r EXCEPT !.mem = st].todo = r.todo
      /\ [r EXCEPT !.mem = st].status = r.status
    BY DEF CoordinatorState
<1> QED
    BY <1>1 DEF Sound

\* The transitions of run.rs add at most the success they are told of.
LEMMA MarkSuccesses ==
    ASSUME NEW st \in Statuses, NEW n \in Nodes, NEW m \in Nodes
    PROVE  /\ mark_running(st, n)[m] = "success" => st[m] = "success"
           /\ mark_failed(st, n)[m] = "success" => st[m] = "success"
           /\ mark_dispatch_failed(st, n)[m] = "success" => st[m] = "success"
           /\ mark_success(st, n)[m] = "success" => st[m] = "success" \/ m = n
BY DEF mark_running, mark_failed, mark_dispatch_failed, mark_success, Statuses, NodeStatus

\* One coordinator changes, by a sound record.
LEMMA SoundPut ==
    ASSUME CoTypeOK, CoReal, NEW s \in Servers, NEW r, co' = [co EXCEPT ![s] = r],
           Sound(r, succeeded), UNCHANGED succeeded
    PROVE  CoReal'
BY DEF CoTypeOK, CoReal

\* One coordinator moves on.
LEMMA SoundGoto ==
    ASSUME CoTypeOK, CoReal, NEW s \in Servers, NEW pc, Goto(s, pc), UNCHANGED succeeded
    PROVE  CoReal'
<1> DEFINE r == [co[s] EXCEPT !.pc = pc]
<1>1. /\ r.mem = co[s].mem /\ r.outcomes = co[s].outcomes
      /\ r.todo = co[s].todo /\ r.status = co[s].status
    BY DEF CoTypeOK, CoordinatorState
<1>2. co' = [co EXCEPT ![s] = r]
    BY DEF Goto
<1> HIDE DEF r
<1>3. Sound(r, succeeded)
    BY <1>1, SoundSame DEF CoReal
<1> QED
    BY <1>2, <1>3, SoundPut

\* A stopped coordinator claims nothing.
LEMMA SoundStopped == Sound(Stopped, succeeded)
<1>1. Stopped.mem = NewRun /\ Stopped.outcomes = [n \in Nodes |-> "none"]
      /\ Stopped.todo = {} /\ Stopped.status = "none"
    BY DEF Stopped, Off
<1> QED
    BY <1>1 DEF Sound, NewRun

\* One coordinator stops.
LEMMA SoundStop ==
    ASSUME CoTypeOK, CoReal, NEW s \in Servers, Stop(s), UNCHANGED succeeded
    PROVE  CoReal'
BY SoundStopped, SoundPut DEF Stop

----------------------------------------------------------------------------
(* The services                                                            *)

\* A queue that loses its head or its consumer holds nothing new.
LEMMA QueueReal ==
    ASSUME BackplaneTypeOK, EventsReal, UNCHANGED succeeded,
           \/ events # << >> /\ next_event
           \/ events' = << >>
           \/ \E s : unsubscribe(s)
    PROVE  EventsReal'
<1>1. CASE events # << >> /\ next_event
    <2>1. events' = Tail(events) /\ events \in Seq(BackplaneEvent)
        BY <1>1 DEF next_event, BackplaneTypeOK
    <2>2. \A i \in DOMAIN events' : i + 1 \in DOMAIN events /\ events'[i] = events[i + 1]
        BY <1>1, <2>1
    <2> QED
        BY <2>2 DEF EventsReal, EventReal
<1>2. CASE events' = << >>
    BY <1>2 DEF EventsReal
<1>3. CASE \E s : unsubscribe(s)
    BY <1>3 DEF unsubscribe, backplaneVars, EventsReal, EventReal
<1> QED
    BY <1>1, <1>2, <1>3

\* A true event in the queue.
LEMMA PublishReal ==
    ASSUME BackplaneTypeOK, EventsReal, UNCHANGED succeeded, NEW e \in BackplaneEvent,
           EventReal(e), publish_event(e)
    PROVE  EventsReal'
<1>1. CASE events' = events
    BY <1>1 DEF EventsReal, EventReal
<1>2. CASE events' = Append(events, e)
    <2>1. events \in Seq(BackplaneEvent)
        BY DEF BackplaneTypeOK
    <2>2. \A i \in DOMAIN events' :
              events'[i] = e \/ (i \in DOMAIN events /\ events'[i] = events[i])
        BY <1>2, <2>1
    <2>3. \A i \in DOMAIN events' : EventReal(events'[i])
        BY <2>2 DEF EventsReal
    <2> QED
        BY <2>3 DEF EventsReal, EventReal
<1> QED
    BY <1>1, <1>2 DEF publish_event

\* Upserting rows that claim only real successes.
LEMMA RecordRowsReal ==
    ASSUME RowsReal, UNCHANGED succeeded, NEW rows, record_node_runs(rows),
           \A n \in Nodes : rows[n] = "success" => n \in succeeded
    PROVE  RowsReal' /\ UNCHANGED pipeline_row
BY DEF RowsReal, record_node_runs

\* Upserting one such row.
LEMMA RecordRowReal ==
    ASSUME RowsReal, UNCHANGED succeeded, NEW n \in Nodes, NEW row, record_node_run(n, row),
           row = "success" => n \in succeeded
    PROVE  RowsReal' /\ UNCHANGED pipeline_row
<1> DEFINE rows == [m \in Nodes |-> IF m = n THEN row ELSE "none"]
<1>1. record_node_runs(rows)
    BY DEF record_node_run
<1>2. \A m \in Nodes : rows[m] = "success" => m \in succeeded
    OBVIOUS
<1> HIDE DEF rows
<1> QED
    BY <1>1, <1>2, RecordRowsReal

\* Cleaning up, or failing to, claims nothing and starts nothing.
LEMMA CleanupReal ==
    ASSUME S3Real, JobsLaunched, cleanup_run
    PROVE  S3Real' /\ JobsLaunched' /\ UNCHANGED <<launched, succeeded>>
BY DEF S3Real, JobsLaunched, cleanup_run, delete_objects

----------------------------------------------------------------------------
(* Steps of a coordinator                                                  *)

\* A save, whatever becomes of it, claims nothing.
LEMMA SavedReal ==
    ASSUME TypeOK, StoreReal, CoReal, UNCHANGED succeeded,
           NEW s \in Servers, NEW r \in CoordinatorState, Sound(r, succeeded), NEW pc \in Pc,
           PersistOrFinish(s, r, pc) \/ PersistAnyhow(s, r, pc)
    PROVE  StoreReal' /\ CoReal'
<1>1. PICK p \in {r, Persisted(r)} :
          \/ co' = [co EXCEPT ![s] = [p EXCEPT !.pc = pc]]
          \/ co' = [co EXCEPT ![s] = Finish(p, "failure")]
    BY PersistCases
<1>2. p \in CoordinatorState /\ Sound(p, succeeded)
    BY PersistedFields, SoundPersisted
<1> DEFINE q == [p EXCEPT !.pc = pc]
<1>3. /\ q.mem = p.mem /\ q.outcomes = p.outcomes
      /\ q.todo = p.todo /\ q.status = p.status
    BY <1>2 DEF CoordinatorState
<1>4. co' = [co EXCEPT ![s] = q] \/ co' = [co EXCEPT ![s] = Finish(p, "failure")]
    BY <1>1
<1> HIDE DEF q
<1>5. Sound(q, succeeded)
    BY <1>2, <1>3, SoundSame
<1>6. succeeded \in SUBSET Nodes
    BY Parts DEF WorkersTypeOK
<1>7. Sound(Finish(p, "failure"), succeeded)
    BY <1>2, <1>6, SoundFinish DEF FinalStatus
<1>8. CoReal'
    BY <1>4, <1>5, <1>7, SoundPut, Parts
<1>9. store' = store \/ store'.statuses = r.mem
    BY PersistCases
<1> QED
    BY <1>8, <1>9 DEF StoreReal, Sound

\* handle_node_completed with a success that is real.
LEMMA CompletedReal ==
    ASSUME TypeOK, StoreReal, CoReal, UNCHANGED succeeded,
           NEW s \in Servers, NEW r \in CoordinatorState, Sound(r, succeeded),
           NEW n \in Nodes, NEW success \in BOOLEAN, success => n \in succeeded,
           handle_node_completed(s, r, n, success)
    PROVE  StoreReal' /\ CoReal'
<1> DEFINE q == Completes(r, n, success)
           st == IF success THEN mark_success(r.mem, n) ELSE mark_failed(r.mem, n)
<1>1. r.mem \in Statuses
    BY DEF CoordinatorState
<1>2. \A m \in Nodes : st[m] = "success" => r.mem[m] = "success" \/ m \in succeeded
    BY <1>1, MarkSuccesses
<1>3. q \in CoordinatorState
    BY CompletesType
<1>4. q.mem = st /\ q.outcomes = r.outcomes /\ q.todo = r.todo /\ q.status = r.status
    BY DEF Completes, CoordinatorState
<1>5. PersistOrFinish(s, q, "record") /\ "record" \in Pc
    BY DEF handle_node_completed, Pc
<1> HIDE DEF q, st
<1>6. Sound(q, succeeded)
    BY <1>2, <1>4 DEF Sound
<1> QED
    BY <1>3, <1>5, <1>6, SavedReal

\* Failing a node claims nothing.
LEMMA FailNodeReal ==
    ASSUME TypeOK, StoreReal, CoReal, UNCHANGED succeeded,
           NEW s \in Servers, NEW r \in CoordinatorState, Sound(r, succeeded),
           NEW n \in Nodes, NEW cause \in Cause, NEW g, FailNode(s, r, n, cause, g)
    PROVE  StoreReal' /\ CoReal'
<1> DEFINE st == mark_failed(r.mem, n)
           q == [r EXCEPT !.mem = st, !.node = n, !.cause = cause]
<1>1. r.mem \in Statuses
    BY DEF CoordinatorState
<1>2. st \in Statuses /\ \A m \in Nodes : st[m] = "success" => r.mem[m] = "success"
    BY <1>1, MarkType, MarkSuccesses
<1>3. PersistOrFinish(s, q, "cancel") /\ "cancel" \in Pc
    BY DEF FailNode, Pc
<1> HIDE DEF st
<1>4. /\ q \in CoordinatorState
      /\ q.mem = st /\ q.outcomes = r.outcomes /\ q.todo = r.todo /\ q.status = r.status
    BY <1>2 DEF CoordinatorState
<1> HIDE DEF q
<1>5. Sound(q, succeeded)
    BY <1>2, <1>4 DEF Sound
<1> QED
    BY <1>3, <1>4, <1>5, SavedReal

----------------------------------------------------------------------------
(* Actions                                                                 *)

\* What an action that reports no new success leaves alone stays real.
LEMMA RealKeeps ==
    ASSUME TypeOK, UNCHANGED succeeded
    PROVE  /\ S3Real /\ UNCHANGED s3 => S3Real'
           /\ StoreReal /\ UNCHANGED store => StoreReal'
           /\ RowsReal /\ UNCHANGED node_rows => RowsReal'
           /\ SweepReal /\ UNCHANGED sweep => SweepReal'
           /\ EventsReal /\ UNCHANGED events => EventsReal'
           /\ CoReal /\ UNCHANGED co => CoReal'
           /\ VerdictReal /\ UNCHANGED pipeline_row => VerdictReal'
           /\ JobsLaunched /\ UNCHANGED <<job, launched>> => JobsLaunched'
           /\ LaunchOrder /\ UNCHANGED launched => LaunchOrder'
<1>1. succeeded \subseteq succeeded' /\ succeeded' \subseteq Nodes
    BY Parts DEF WorkersTypeOK
<1> QED
    BY <1>1, RealStays

\* Taking the lease, loading the run and saving its first state.
LEMMA StartReal ==
    ASSUME TypeOK, ClaimsAreReal, UNCHANGED sweep, NEW s \in Servers,
           AcquireLease(s) \/ RecordPipelineStarted(s) \/ LoadRun(s) \/ SaveInitial(s)
    PROVE  ClaimsAreReal'
<1> USE DEF storeVars, workerVars, historyVars, backplaneVars
<1>0. UNCHANGED <<workerVars, backplaneVars, sweep>> /\ CoTypeOK
    BY Parts DEF AcquireLease, RecordPipelineStarted, LoadRun, SaveInitial
<1>1. CoReal'
    <2> DEFINE held == [co[s] EXCEPT !.pc = "acquired", !.lease_version = lease_ver + 1]
               loaded == [co[s] EXCEPT !.pc = "read_outcomes", !.stage = "fold",
                                       !.mem = store.statuses, !.version = store.version]
    <2>1. \/ \E pc : Goto(s, pc)
          \/ co' = [co EXCEPT ![s] = held] \/ co' = [co EXCEPT ![s] = loaded]
          \/ co' = [co EXCEPT ![s] = Stopped]
        BY <1>0 DEF AcquireLease, LoadRun, RecordPipelineStarted, SaveInitial, CoTypeOK
    <2>2. /\ held.mem = co[s].mem /\ held.outcomes = co[s].outcomes
          /\ held.todo = co[s].todo /\ held.status = co[s].status
          /\ loaded.mem = store.statuses /\ loaded.outcomes = co[s].outcomes
          /\ loaded.todo = co[s].todo /\ loaded.status = co[s].status
        BY <1>0 DEF CoTypeOK, CoordinatorState
    <2> HIDE DEF held, loaded
    <2>3. Sound(held, succeeded) /\ Sound(loaded, succeeded)
        BY <2>2, ClaimParts DEF Sound, CoReal, StoreReal
    <2> QED
        BY <1>0, <2>1, <2>3, SoundPut, SoundGoto, SoundStopped, ClaimParts
<1>2. StoreReal'
    <2>1. UNCHANGED store \/ store'.statuses = NewRun
        BY DEF AcquireLease, LoadRun, RecordPipelineStarted, SaveInitial, save_run
    <2> QED
        BY <1>0, <2>1, ClaimParts DEF StoreReal, NewRun
<1>3. RowsReal' /\ VerdictReal'
    <2>1. UNCHANGED node_rows /\ (UNCHANGED pipeline_row \/ pipeline_row' = "in_progress")
        BY DEF AcquireLease, LoadRun, RecordPipelineStarted, SaveInitial, record_pipeline_started
    <2> QED
        BY <1>0, <2>1, ClaimParts DEF RowsReal, VerdictReal
<1> QED
    BY <1>0, <1>1, <1>2, <1>3, RealKeeps, ClaimParts, ClaimPartsNext

\* What is read from S3 is real.
LEMMA OutcomesReal ==
    ASSUME S3Real, NEW r \in CoordinatorState, Sound(r, succeeded), NEW readable, NEW n \in Nodes,
           read_outcomes(r, readable)[n] = "success"
    PROVE  n \in succeeded
BY DEF S3Real, read_outcomes

\* A coordinator that has read S3 claims no more than S3 does.
LEMMA ReadOutcomesReal ==
    ASSUME TypeOK, ClaimsAreReal, UNCHANGED sweep, NEW s \in Servers,
           ReadOutcomes(s) \/ PeriodicReconcile(s)
    PROVE  ClaimsAreReal'
<1> USE DEF storeVars, workerVars, historyVars, backplaneVars
<1>0. UNCHANGED <<storeVars, workerVars, historyVars, backplaneVars, sweep>>
    BY DEF ReadOutcomes, PeriodicReconcile
<1>1. /\ co[s] \in CoordinatorState /\ Sound(co[s], succeeded)
      /\ succeeded \in SUBSET Nodes
    BY Parts, ClaimParts DEF CoTypeOK, CoReal, WorkersTypeOK
<1>2. ASSUME NEW readable, NEW pc \in Pc
      PROVE  LET o == read_outcomes(co[s], readable)
                 r == [co[s] EXCEPT !.outcomes = o, !.work = CompletedIn(o)]
                 q == [co[s] EXCEPT !.pc = pc, !.outcomes = o, !.work = CompletedIn(o)]
             IN  r \in CoordinatorState /\ Sound(r, succeeded) /\ Sound(q, succeeded)
    <2> DEFINE o == read_outcomes(co[s], readable)
               r == [co[s] EXCEPT !.outcomes = o, !.work = CompletedIn(o)]
               q == [co[s] EXCEPT !.pc = pc, !.outcomes = o, !.work = CompletedIn(o)]
    <2>1. \A n \in Nodes : o[n] = "success" => n \in succeeded
        BY <1>1, OutcomesReal, ClaimParts
    <2>2. o \in [Nodes -> S3Status] /\ CompletedIn(o) \in SUBSET Nodes
        BY ReadOutcomesOperatorType, Parts
    <2> HIDE DEF o
    <2>3. /\ r.mem = co[s].mem /\ r.outcomes = o
          /\ r.todo = co[s].todo /\ r.status = co[s].status
        BY <1>1 DEF CoordinatorState
    <2>4. /\ q.mem = co[s].mem /\ q.outcomes = o
          /\ q.todo = co[s].todo /\ q.status = co[s].status
        BY <1>1 DEF CoordinatorState
    <2>5. r \in CoordinatorState
        BY <1>1, <2>2 DEF CoordinatorState
    <2> HIDE DEF r, q
    <2>6. Sound(r, succeeded) /\ Sound(q, succeeded)
        BY <1>1, <2>1, <2>3, <2>4 DEF Sound
    <2> QED
        BY <2>5, <2>6 DEF o, r, q
<1>3. CASE ReadOutcomes(s)
    <2>1. PICK readable \in Readable :
              LET o == read_outcomes(co[s], readable)
              IN  co' = [co EXCEPT ![s] = Resume([co[s] EXCEPT !.outcomes = o,
                                                      !.work = CompletedIn(o)])]
        BY <1>3 DEF ReadOutcomes
    <2> DEFINE o == read_outcomes(co[s], readable)
               r == [co[s] EXCEPT !.outcomes = o, !.work = CompletedIn(o)]
    <2>2. co' = [co EXCEPT ![s] = Resume(r)]
        BY <2>1
    <2>3. r \in CoordinatorState /\ Sound(r, succeeded)
        BY <1>2 DEF Pc
    <2> HIDE DEF r
    <2>4. Sound(Resume(r), succeeded)
        BY <1>1, <2>3, SoundResume
    <2>5. CoReal'
        BY <1>0, <2>2, <2>4, SoundPut, Parts, ClaimParts
    <2> QED
        BY <1>0, <2>5, RealKeeps, ClaimParts, ClaimPartsNext
<1>4. CASE PeriodicReconcile(s)
    <2> DEFINE o == read_outcomes(co[s], Nodes)
               q == [co[s] EXCEPT !.pc = "fold", !.outcomes = o, !.work = CompletedIn(o)]
    <2>1. co' = [co EXCEPT ![s] = q]
        BY <1>4, Parts DEF PeriodicReconcile, CoTypeOK
    <2>2. Sound(q, succeeded)
        BY <1>2 DEF Pc
    <2> HIDE DEF q
    <2>3. CoReal'
        BY <1>0, <2>1, <2>2, SoundPut, Parts, ClaimParts
    <2> QED
        BY <1>0, <2>3, RealKeeps, ClaimParts, ClaimPartsNext
<1> QED
    BY <1>3, <1>4

\* Folding S3 outcomes, or an event, into the run.
LEMMA FoldReal ==
    ASSUME TypeOK, ClaimsAreReal, UNCHANGED sweep, NEW s \in Servers, FoldCompletion(s)
    PROVE  ClaimsAreReal'
<1>1. PICK n \in co[s].work :
          handle_node_completed(s, [co[s] EXCEPT !.work = @ \ {n}], n,
                                co[s].outcomes[n] = "success")
    BY DEF FoldCompletion
<1> DEFINE r == [co[s] EXCEPT !.work = @ \ {n}]
<1>2. /\ co[s] \in CoordinatorState /\ Sound(co[s], succeeded)
      /\ UNCHANGED <<workerVars, historyVars, backplaneVars, sweep>>
    BY Parts, ClaimParts DEF CoTypeOK, CoReal, FoldCompletion
<1>3. /\ n \in Nodes /\ r \in CoordinatorState
      /\ r.mem = co[s].mem /\ r.outcomes = co[s].outcomes
      /\ r.todo = co[s].todo /\ r.status = co[s].status
    BY <1>2 DEF CoordinatorState
<1>4. handle_node_completed(s, r, n, co[s].outcomes[n] = "success")
    BY <1>1
<1> HIDE DEF r
<1>5. Sound(r, succeeded)
    BY <1>2, <1>3, SoundSame
<1>6. co[s].outcomes[n] = "success" => n \in succeeded
    BY <1>2, <1>3 DEF Sound
<1>7. StoreReal' /\ CoReal'
    BY <1>2, <1>3, <1>4, <1>5, <1>6, CompletedReal, ClaimParts DEF workerVars
<1> QED
    BY <1>2, <1>7, RealKeeps, ClaimParts, ClaimPartsNext DEF workerVars, historyVars, backplaneVars

\* An event is as real as the poke that published it.
LEMMA ReceiveReal ==
    ASSUME TypeOK, ClaimsAreReal, UNCHANGED sweep, NEW s \in Servers, ReceiveNodeCompleted(s)
    PROVE  ClaimsAreReal'
<1> DEFINE e == Head(events)
<1>1. e \in BackplaneEvent /\ events # << >> /\ next_event
    BY NextEventType, Parts DEF ReceiveNodeCompleted, Receives
<1>2. e.node \in Nodes /\ e.success \in BOOLEAN /\ e.type = "node_completed"
    BY <1>1 DEF ReceiveNodeCompleted, BackplaneEvent
<1>3. e = events[1] /\ 1 \in DOMAIN events
    BY <1>1, Parts DEF BackplaneTypeOK
<1>4. e.success => e.node \in succeeded
    BY <1>2, <1>3, ClaimParts DEF EventsReal, EventReal
<1>5. /\ UNCHANGED <<workerVars, historyVars, sweep>>
      /\ handle_node_completed(s, co[s], e.node, e.success)
    BY DEF ReceiveNodeCompleted
<1>6. co[s] \in CoordinatorState /\ Sound(co[s], succeeded)
    BY Parts, ClaimParts DEF CoTypeOK, CoReal
<1> HIDE DEF e
<1>7. StoreReal' /\ CoReal'
    BY <1>2, <1>4, <1>5, <1>6, CompletedReal, ClaimParts DEF workerVars
<1>8. EventsReal'
    BY <1>1, <1>5, QueueReal, Parts, ClaimParts DEF workerVars
<1> QED
    BY <1>5, <1>7, <1>8, RealKeeps, ClaimParts, ClaimPartsNext DEF workerVars, historyVars

\* Cancelling a node, and recording what became of it.
LEMMA CancelNodeReal ==
    ASSUME TypeOK, HandsOK, ClaimsAreReal, UNCHANGED sweep, NEW s \in Servers, CancelNode(s)
    PROVE  ClaimsAreReal'
<1>1. UNCHANGED <<storeVars, historyVars, backplaneVars, sweep, s3, launched, succeeded>>
    BY Parts DEF CancelNode, cancel_node, delete_objects, WorkersTypeOK
<1>2. CoReal'
    BY <1>1, SoundGoto, Parts, ClaimParts DEF CancelNode
<1>3. JobsLaunched'
    BY <1>1, Parts, ClaimParts DEF CancelNode, cancel_node, delete_objects, JobsLaunched, WorkersTypeOK
<1> QED
    BY <1>1, <1>2, <1>3, RealKeeps, ClaimParts, ClaimPartsNext
    DEF storeVars, historyVars, backplaneVars

\* record_node_completed writes success only for a node the memory calls one.
LEMMA RecordNodeCompletedReal ==
    ASSUME TypeOK, HandsOK, ClaimsAreReal, UNCHANGED sweep, NEW s \in Servers,
           RecordNodeCompleted(s)
    PROVE  ClaimsAreReal'
<1>1. UNCHANGED <<storeVars, workerVars, backplaneVars, sweep>>
    BY DEF RecordNodeCompleted
<1>2. /\ co[s] \in CoordinatorState /\ Sound(co[s], succeeded) /\ co[s].node \in Nodes
      /\ succeeded \in SUBSET Nodes
    BY Parts, ClaimParts DEF CoTypeOK, CoReal, HandsOK, Hands, Busy, RecordNodeCompleted,
                             WorkersTypeOK
<1>3. NodeRowFor(co[s]) = "success" => co[s].node \in succeeded
    BY <1>2 DEF NodeRowFor, Sound
<1>4. RowsReal' /\ VerdictReal'
    <2>1. CASE record_node_run(co[s].node, NodeRowFor(co[s]))
        BY <1>1, <1>2, <1>3, <2>1, RecordRowReal, RealKeeps, ClaimParts DEF workerVars
    <2>2. CASE UNCHANGED historyVars
        BY <1>1, <2>2, RealKeeps, ClaimParts DEF workerVars, historyVars
    <2> QED
        BY <2>1, <2>2 DEF RecordNodeCompleted
<1>5. Sound(Finish(co[s], "failure"), succeeded) /\ Sound(EnterDispatch(co[s]), succeeded)
    BY <1>2, SoundFinish, SoundEnterDispatch DEF FinalStatus
<1>6. CoReal'
    <2>1. \/ co' = [co EXCEPT ![s] = Finish(co[s], "failure")]
          \/ co' = [co EXCEPT ![s] = EnterDispatch(co[s])]
        BY DEF RecordNodeCompleted
    <2> QED
        BY <1>1, <1>5, <2>1, SoundPut, Parts, ClaimParts DEF workerVars
<1> QED
    BY <1>1, <1>4, <1>6, RealKeeps, ClaimParts, ClaimPartsNext
    DEF storeVars, workerVars, backplaneVars

\* A Job is created only for a node whose dependencies have succeeded.
LEMMA DispatchNodeReal ==
    ASSUME TypeOK, ClaimsAreReal, UNCHANGED sweep, NEW s \in Servers, DispatchNode(s)
    PROVE  ClaimsAreReal'
<1>1. /\ co[s] \in CoordinatorState /\ Sound(co[s], succeeded)
      /\ UNCHANGED <<storeVars, historyVars, backplaneVars, sweep>>
    BY Parts, ClaimParts DEF CoTypeOK, CoReal, DispatchNode
<1>2. PICK n \in co[s].todo :
          \/ /\ dispatch(n)
             /\ co' = [co EXCEPT ![s].pc = "dispatched", ![s].todo = @ \ {n},
                                 ![s].node = n, ![s].cause = "dispatched",
                                 ![s].mem = mark_running(@, n)]
          \/ /\ UNCHANGED workerVars \/ dispatch_errs(n)
             /\ co' = [co EXCEPT ![s].pc = "dispatched", ![s].todo = @ \ {n},
                                 ![s].node = n, ![s].cause = "dispatch_failed",
                                 ![s].mem = mark_dispatch_failed(@, n)]
    BY DEF DispatchNode
<1>3. n \in Nodes /\ Deps[n] \subseteq succeeded /\ co[s].mem \in Statuses
    BY <1>1 DEF CoordinatorState, Sound
<1>4. PICK st \in {mark_running(co[s].mem, n), mark_dispatch_failed(co[s].mem, n)},
           cause \in {"dispatched", "dispatch_failed"} :
          co' = [co EXCEPT ![s].pc = "dispatched", ![s].todo = @ \ {n}, ![s].node = n,
                           ![s].cause = cause, ![s].mem = st]
    BY <1>2, Parts DEF CoTypeOK
<1> DEFINE r == [co[s] EXCEPT !.pc = "dispatched", !.todo = @ \ {n}, !.node = n,
                              !.cause = cause, !.mem = st]
<1>5. \A m \in Nodes : st[m] = "success" => co[s].mem[m] = "success"
    BY <1>3, MarkSuccesses
<1>6. co' = [co EXCEPT ![s] = r]
    BY <1>4, Parts DEF CoTypeOK
<1>7. /\ r.mem = st /\ r.outcomes = co[s].outcomes /\ r.todo = co[s].todo \ {n}
      /\ r.status = co[s].status
    BY <1>1 DEF CoordinatorState
<1> HIDE DEF r
<1>8. Sound(r, succeeded)
    BY <1>1, <1>5, <1>7 DEF Sound
<1>9. UNCHANGED <<s3, succeeded>>
    BY <1>2 DEF dispatch, dispatch_errs, create_objects, workerVars
<1>10. CoReal'
    BY <1>6, <1>8, <1>9, SoundPut, Parts, ClaimParts
<1>11. JobsLaunched' /\ LaunchOrder'
    <2>1. CASE dispatch(n) \/ dispatch_errs(n)
        BY <1>3, <1>9, <2>1, Parts, ClaimParts
        DEF dispatch, dispatch_errs, create_objects, JobsLaunched, LaunchOrder, WorkersTypeOK
    <2>2. CASE UNCHANGED workerVars
        BY <2>2, RealKeeps, ClaimParts DEF workerVars
    <2> QED
        BY <1>2, <2>1, <2>2
<1> QED
    BY <1>1, <1>9, <1>10, <1>11, RealKeeps, ClaimParts, ClaimPartsNext
    DEF storeVars, historyVars, backplaneVars

\* Saving after a dispatch claims nothing new.
LEMMA PersistDispatchReal ==
    ASSUME TypeOK, ClaimsAreReal, UNCHANGED sweep, NEW s \in Servers, PersistDispatch(s)
    PROVE  ClaimsAreReal'
<1>1. /\ co[s] \in CoordinatorState /\ Sound(co[s], succeeded)
      /\ UNCHANGED <<workerVars, historyVars, backplaneVars, sweep>>
    BY Parts, ClaimParts DEF CoTypeOK, CoReal, PersistDispatch
<1>2. PersistAnyhow(s, co[s], "dispatch_record") /\ "dispatch_record" \in Pc
    BY DEF PersistDispatch, Pc
<1>3. StoreReal' /\ CoReal'
    BY <1>1, <1>2, SavedReal, ClaimParts DEF workerVars
<1> QED
    BY <1>1, <1>3, RealKeeps, ClaimParts, ClaimPartsNext
    DEF workerVars, historyVars, backplaneVars

\* Neither does recording it.
LEMMA RecordDispatchReal ==
    ASSUME TypeOK, HandsOK, ClaimsAreReal, UNCHANGED sweep, NEW s \in Servers, RecordDispatch(s)
    PROVE  ClaimsAreReal'
<1>1. /\ co[s] \in CoordinatorState /\ Sound(co[s], succeeded) /\ co[s].node \in Nodes
      /\ succeeded \in SUBSET Nodes
      /\ UNCHANGED <<storeVars, workerVars, backplaneVars, sweep>>
    BY Parts, ClaimParts DEF CoTypeOK, CoReal, HandsOK, Hands, Busy, RecordDispatch, WorkersTypeOK
<1>2. RowsReal' /\ VerdictReal'
    <2>1. CASE record_node_dispatched(co[s].node)
        BY <1>1, <2>1, Parts, ClaimParts
        DEF record_node_dispatched, RowsReal, VerdictReal, workerVars, HistoryTypeOK
    <2>2. CASE record_node_run(co[s].node, "dispatch_failed")
        BY <1>1, <2>2, RecordRowReal, RealKeeps, ClaimParts DEF workerVars
    <2>3. CASE UNCHANGED historyVars
        BY <1>1, <2>3, RealKeeps, ClaimParts DEF workerVars, historyVars
    <2> QED
        BY <2>1, <2>2, <2>3 DEF RecordDispatch
<1> DEFINE r == [co[s] EXCEPT !.pc = "dispatch", !.node = NoNode, !.cause = "none"]
<1>3. /\ r.mem = co[s].mem /\ r.outcomes = co[s].outcomes
      /\ r.todo = co[s].todo /\ r.status = co[s].status
    BY <1>1 DEF CoordinatorState
<1>4. co' = [co EXCEPT ![s] = Resume(co[s])] \/ co' = [co EXCEPT ![s] = r]
    BY DEF RecordDispatch
<1> HIDE DEF r
<1>5. Sound(r, succeeded) /\ Sound(Resume(co[s]), succeeded)
    BY <1>1, <1>3, SoundSame, SoundResume
<1>6. CoReal'
    BY <1>1, <1>4, <1>5, SoundPut, Parts, ClaimParts DEF workerVars
<1> QED
    BY <1>1, <1>2, <1>6, RealKeeps, ClaimParts, ClaimPartsNext
    DEF storeVars, workerVars, backplaneVars

\* Rehydration promotes pending nodes to running ones and re-arms timers.
LEMMA PromoteReal ==
    ASSUME TypeOK, HandsOK, ClaimsAreReal, UNCHANGED sweep, NEW s \in Servers, PromoteNode(s)
    PROVE  ClaimsAreReal'
<1>1. /\ co[s] \in CoordinatorState /\ Sound(co[s], succeeded)
      /\ succeeded \in SUBSET Nodes
      /\ UNCHANGED <<workerVars, historyVars, backplaneVars, sweep>>
    BY Parts, ClaimParts DEF CoTypeOK, CoReal, PromoteNode, WorkersTypeOK
<1>2. PICK n \in co[s].work :
          LET r == [co[s] EXCEPT !.work = @ \ {n}]
          IN  IF r.mem[n] = "pending"
              THEN PersistAnyhow(s, [r EXCEPT !.mem = mark_running(@, n), !.node = n],
                                 "promote_check")
              ELSE /\ co' = [co EXCEPT ![s] = Resume(r)]
                   /\ UNCHANGED store
    BY DEF PromoteNode
<1> DEFINE r == [co[s] EXCEPT !.work = @ \ {n}]
           st == mark_running(r.mem, n)
           q == [r EXCEPT !.mem = st, !.node = n]
<1>3. /\ n \in Nodes /\ r \in CoordinatorState /\ r.mem \in Statuses
      /\ r.mem = co[s].mem /\ r.outcomes = co[s].outcomes
      /\ r.todo = co[s].todo /\ r.status = co[s].status
    BY <1>1 DEF CoordinatorState
<1>4. \/ PersistAnyhow(s, q, "promote_check")
      \/ co' = [co EXCEPT ![s] = Resume(r)] /\ UNCHANGED store
    BY <1>2
<1> HIDE DEF r
<1>5. Sound(r, succeeded)
    BY <1>1, <1>3, SoundSame
<1>6. st \in Statuses /\ \A m \in Nodes : st[m] = "success" => r.mem[m] = "success"
    BY <1>3, MarkType, MarkSuccesses
<1> HIDE DEF st
<1>7. /\ q \in CoordinatorState
      /\ q.mem = st /\ q.outcomes = r.outcomes /\ q.todo = r.todo /\ q.status = r.status
    BY <1>3, <1>6 DEF CoordinatorState
<1> HIDE DEF q
<1>8. Sound(q, succeeded)
    BY <1>5, <1>6, <1>7 DEF Sound
<1>9. Sound(Resume(r), succeeded)
    BY <1>1, <1>3, <1>5, SoundResume
<1>10. StoreReal' /\ CoReal'
    <2>1. CASE PersistAnyhow(s, q, "promote_check")
        BY <1>1, <1>7, <1>8, <2>1, SavedReal, ClaimParts DEF workerVars, Pc
    <2>2. CASE co' = [co EXCEPT ![s] = Resume(r)] /\ UNCHANGED store
        BY <1>1, <1>9, <2>2, SoundPut, RealKeeps, Parts, ClaimParts DEF workerVars
    <2> QED
        BY <1>4, <2>1, <2>2
<1> QED
    BY <1>1, <1>10, RealKeeps, ClaimParts, ClaimPartsNext
    DEF workerVars, historyVars, backplaneVars

\* The pod check can only fail a node.
LEMMA PromoteCheckReal ==
    ASSUME TypeOK, HandsOK, ClaimsAreReal, UNCHANGED sweep, NEW s \in Servers, PromoteCheck(s)
    PROVE  ClaimsAreReal'
<1>1. /\ co[s] \in CoordinatorState /\ Sound(co[s], succeeded) /\ co[s].node \in Nodes
      /\ succeeded \in SUBSET Nodes /\ "infra" \in Cause
      /\ UNCHANGED <<workerVars, historyVars, backplaneVars, sweep>>
    BY Parts, ClaimParts DEF CoTypeOK, CoReal, HandsOK, Hands, Busy, PromoteCheck, WorkersTypeOK,
                             Cause
<1>2. StoreReal' /\ CoReal'
    <2>1. CASE co' = [co EXCEPT ![s] = Resume(co[s])] /\ UNCHANGED <<store, sig>>
        <3>1. Sound(Resume(co[s]), succeeded)
            BY <1>1, SoundResume
        <3> QED
            BY <1>1, <2>1, <3>1, SoundPut, RealKeeps, Parts, ClaimParts DEF workerVars
    <2>2. CASE FailNode(s, co[s], co[s].node, "infra", cancel_node_timeout(sig[s], co[s].node))
        BY <1>1, <2>2, FailNodeReal, ClaimParts DEF workerVars
    <2> QED
        BY <2>1, <2>2 DEF PromoteCheck
<1> QED
    BY <1>1, <1>2, RealKeeps, ClaimParts, ClaimPartsNext DEF workerVars, historyVars, backplaneVars

\* A rehydrated run that is over gets the outcome of its memory.
LEMMA RehydrateReal ==
    ASSUME TypeOK, ClaimsAreReal, UNCHANGED sweep, NEW s \in Servers, RehydrateTimers(s)
    PROVE  ClaimsAreReal'
<1> DEFINE next == [co[s] EXCEPT !.pc = "subscribe", !.stage = "start",
                                 !.outcomes = [n \in Nodes |-> "none"]]
           over == Finish(co[s], outcome_status(co[s].mem))
<1>1. /\ co[s] \in CoordinatorState /\ Sound(co[s], succeeded)
      /\ succeeded \in SUBSET Nodes
      /\ UNCHANGED <<storeVars, workerVars, historyVars, backplaneVars, sweep>>
    BY Parts, ClaimParts DEF CoTypeOK, CoReal, RehydrateTimers, WorkersTypeOK
<1>2. Sound(over, succeeded)
    <2>1. \A n \in Nodes : co[s].mem[n] = "success" => n \in succeeded
        BY <1>1 DEF Sound
    <2>2. outcome_status(co[s].mem) = "success" => succeeded = Nodes
        BY <1>1, <2>1, OutcomeReal
    <2> QED
        BY <1>1, <2>2, SoundFinish, OutcomeType
<1>3. /\ next.mem = co[s].mem /\ next.outcomes = [n \in Nodes |-> "none"]
      /\ next.todo = co[s].todo /\ next.status = co[s].status
    BY <1>1 DEF CoordinatorState
<1>4. co' = [co EXCEPT ![s] = IF is_complete(co[s].mem) THEN over ELSE next]
    BY DEF RehydrateTimers
<1> HIDE DEF next, over
<1>5. Sound(next, succeeded)
    BY <1>1, <1>3 DEF Sound
<1>6. CoReal'
    BY <1>1, <1>2, <1>4, <1>5, SoundPut, Parts, ClaimParts DEF workerVars
<1> QED
    BY <1>1, <1>6, RealKeeps, ClaimParts, ClaimPartsNext
    DEF storeVars, workerVars, historyVars, backplaneVars

\* Subscribing, losing the subscription or the lease, running out of time and
\* being cancelled.
LEMMA SubscriptionReal ==
    ASSUME TypeOK, ClaimsAreReal, UNCHANGED sweep, NEW s \in Servers,
           \/ Subscribe(s) \/ HeartbeatFails(s) \/ PipelineDeadline(s)
           \/ SubscriptionClosed(s) \/ ReceiveCancel(s)
    PROVE  ClaimsAreReal'
<1>1. /\ co[s] \in CoordinatorState /\ Sound(co[s], succeeded)
      /\ succeeded \in SUBSET Nodes
      /\ UNCHANGED <<storeVars, workerVars, historyVars, sweep>>
    BY Parts, ClaimParts DEF CoTypeOK, CoReal, WorkersTypeOK, Subscribe, HeartbeatFails,
                             PipelineDeadline, SubscriptionClosed, ReceiveCancel
<1>2. /\ Sound(Finish(co[s], "failure"), succeeded)
      /\ Sound(Finish(co[s], "cancelled"), succeeded)
      /\ Sound(EnterDispatch(co[s]), succeeded)
    BY <1>1, SoundFinish, SoundEnterDispatch DEF FinalStatus
<1>3. \/ Stop(s)
      \/ co' = [co EXCEPT ![s] = Finish(co[s], "failure")]
      \/ co' = [co EXCEPT ![s] = Finish(co[s], "cancelled")]
      \/ co' = [co EXCEPT ![s] = EnterDispatch(co[s])]
    BY DEF Subscribe, HeartbeatFails, PipelineDeadline, SubscriptionClosed, ReceiveCancel
<1>4. CoReal'
    BY <1>1, <1>2, <1>3, SoundPut, SoundStop, Parts, ClaimParts DEF workerVars
<1>5. \/ events # << >> /\ next_event
      \/ events' = << >>
      \/ unsubscribe(s)
      \/ UNCHANGED backplaneVars
    BY DEF Subscribe, HeartbeatFails, PipelineDeadline, SubscriptionClosed, ReceiveCancel,
           Receives, Stop, subscribe_run
<1>6. EventsReal'
    BY <1>1, <1>5, QueueReal, RealKeeps, Parts, ClaimParts DEF workerVars, backplaneVars
<1> QED
    BY <1>1, <1>4, <1>6, RealKeeps, ClaimParts, ClaimPartsNext
    DEF storeVars, workerVars, historyVars

\* Infrastructure failures, timeouts and running pods.
LEMMA FailureReal ==
    ASSUME TypeOK, ClaimsAreReal, UNCHANGED sweep, NEW s \in Servers, NEW type,
           HandleNodeFailure(s, type)
    PROVE  ClaimsAreReal'
<1> DEFINE n == Head(sig[s].inbox).node
           cause == IF type = "timed_out" THEN "failure" ELSE "infra"
           g == IF type = "timed_out" THEN Consumed(s)
                ELSE cancel_node_timeout(Consumed(s), n)
<1>1. n \in Nodes /\ cause \in Cause
    BY Parts, ConsumedType DEF HandleNodeFailure, Got, Cause
<1>2. /\ co[s] \in CoordinatorState /\ Sound(co[s], succeeded)
      /\ UNCHANGED <<workerVars, historyVars, backplaneVars, sweep>>
    BY Parts, ClaimParts DEF CoTypeOK, CoReal, HandleNodeFailure
<1>3. FailNode(s, co[s], n, cause, g) \/ UNCHANGED <<store, co>>
    BY DEF HandleNodeFailure
<1> HIDE DEF n, cause, g
<1>4. StoreReal' /\ CoReal'
    BY <1>1, <1>2, <1>3, FailNodeReal, RealKeeps, ClaimParts DEF workerVars
<1> QED
    BY <1>2, <1>4, RealKeeps, ClaimParts, ClaimPartsNext DEF workerVars, historyVars, backplaneVars

\* Nothing that carries a claim changes.
LEMMA UnclaimedReal ==
    ASSUME TypeOK, ClaimsAreReal,
           UNCHANGED <<store, workerVars, historyVars, backplaneVars, co, sweep>>
    PROVE  ClaimsAreReal'
BY RealKeeps, ClaimParts, ClaimPartsNext DEF workerVars, historyVars, backplaneVars

\* finalize_run: the rows of nodes cut off say what S3 says, the pipeline row
\* what the coordinator decided.
LEMMA RecordTerminatedReal ==
    ASSUME TypeOK, ClaimsAreReal, UNCHANGED sweep, NEW s \in Servers, RecordTerminated(s)
    PROVE  ClaimsAreReal'
<1> DEFINE running == {n \in Nodes : co[s].mem[n] = "running"}
           st == [n \in Nodes |-> IF n \in running THEN "failed" ELSE co[s].mem[n]]
           r == [co[s] EXCEPT !.pc = "report", !.mem = st]
<1>1. /\ co[s] \in CoordinatorState /\ Sound(co[s], succeeded)
      /\ UNCHANGED <<storeVars, workerVars, backplaneVars, sweep>>
    BY Parts, ClaimParts DEF CoTypeOK, CoReal, RecordTerminated
<1>2. \A n \in Nodes : st[n] = "success" => co[s].mem[n] = "success"
    OBVIOUS
<1>3. co' = [co EXCEPT ![s] = r]
    BY <1>1, Parts DEF RecordTerminated, CoTypeOK, CoordinatorState
<1> HIDE DEF st
<1>4. /\ r.mem = st /\ r.outcomes = co[s].outcomes
      /\ r.todo = co[s].todo /\ r.status = co[s].status
    BY <1>1 DEF CoordinatorState
<1> HIDE DEF r
<1>5. Sound(r, succeeded)
    BY <1>1, <1>2, <1>4 DEF Sound
<1>6. CoReal'
    BY <1>1, <1>3, <1>5, SoundPut, Parts, ClaimParts DEF workerVars
<1>7. RowsReal' /\ UNCHANGED pipeline_row
    <2>1. PICK readable \in Readable, recorded \in Recordable :
              record_node_runs([n \in Nodes |->
                    IF n \notin running \cap recorded THEN "none"
                    ELSE IF n \in readable /\ s3[n] = "success" THEN "success"
                    ELSE "failure"])
        BY DEF RecordTerminated
    <2> DEFINE rows == [n \in Nodes |->
                    IF n \notin running \cap recorded THEN "none"
                    ELSE IF n \in readable /\ s3[n] = "success" THEN "success"
                    ELSE "failure"]
    <2>2. \A n \in Nodes : rows[n] = "success" => n \in succeeded
        BY ClaimParts DEF S3Real
    <2>3. record_node_runs(rows)
        BY <2>1
    <2> HIDE DEF rows
    <2> QED
        BY <1>1, <2>2, <2>3, RecordRowsReal, ClaimParts DEF workerVars
<1> QED
    BY <1>1, <1>6, <1>7, RealKeeps, ClaimParts, ClaimPartsNext
    DEF storeVars, workerVars, backplaneVars

\* The verdict recorded is the one decided; the rest deletes.
LEMMA EpilogueReal ==
    ASSUME TypeOK, ClaimsAreReal, UNCHANGED sweep, NEW s \in Servers,
           ReportStatus(s) \/ CleanupRun(s) \/ ReleaseLease(s) \/ DeleteRun(s)
    PROVE  ClaimsAreReal'
<1>1. UNCHANGED <<launched, succeeded, node_rows, sweep>>
    BY DEF ReportStatus, CleanupRun, ReleaseLease, DeleteRun, cleanup_run, delete_objects,
           workerVars, historyVars, record_pipeline_run
<1>2. S3Real' /\ JobsLaunched'
    <2>1. UNCHANGED workerVars \/ cleanup_run
        BY DEF ReportStatus, CleanupRun, ReleaseLease, DeleteRun
    <2> QED
        BY <1>1, <2>1, CleanupReal, RealKeeps, ClaimParts DEF workerVars
<1>3. StoreReal'
    <2>1. UNCHANGED store \/ store'.statuses = NewRun
        BY DEF ReportStatus, CleanupRun, ReleaseLease, DeleteRun, storeVars, delete_run, NoRun
    <2> QED
        BY <1>1, <2>1, RealKeeps, ClaimParts DEF StoreReal, NewRun
<1>4. VerdictReal'
    <2>1. UNCHANGED pipeline_row \/ pipeline_row' = co[s].status
        BY DEF ReportStatus, CleanupRun, ReleaseLease, DeleteRun, historyVars, record_pipeline_run
    <2> QED
        BY <1>1, <2>1, ClaimParts DEF VerdictReal, CoReal, Sound
<1>5. CoReal'
    <2>1. Stop(s) \/ \E pc : Goto(s, pc)
        BY DEF ReportStatus, CleanupRun, ReleaseLease, DeleteRun
    <2> QED
        BY <1>1, <2>1, SoundStop, SoundGoto, Parts, ClaimParts
<1>6. EventsReal'
    <2>1. UNCHANGED backplaneVars \/ unsubscribe(s)
        BY DEF ReportStatus, CleanupRun, ReleaseLease, DeleteRun, Stop
    <2> QED
        BY <1>1, <2>1, QueueReal, RealKeeps, Parts, ClaimParts DEF backplaneVars
<1> QED
    BY <1>1, <1>2, <1>3, <1>4, <1>5, <1>6, RealKeeps, ClaimParts, ClaimPartsNext

\* The reclaim pass moves ids about and deletes.
LEMMA ReclaimReal ==
    ASSUME TypeOK, ClaimsAreReal, NEW s \in Servers, ReclaimStep(s)
    PROVE  ClaimsAreReal'
<1>1. UNCHANGED <<launched, succeeded, historyVars, backplaneVars, sweep>>
    BY DEF ReclaimStep, ListOrphan, LoadOrphan, ReclaimOrphan, DiscardOrphan,
           cleanup_run, delete_objects, workerVars
<1>2. S3Real' /\ JobsLaunched'
    <2>1. UNCHANGED workerVars \/ cleanup_run
        BY DEF ReclaimStep, ListOrphan, LoadOrphan, ReclaimOrphan, DiscardOrphan
    <2> QED
        BY <1>1, <2>1, CleanupReal, RealKeeps, ClaimParts DEF workerVars
<1>3. StoreReal'
    <2>1. UNCHANGED store \/ store'.statuses = NewRun
        BY DEF ReclaimStep, ListOrphan, LoadOrphan, ReclaimOrphan, DiscardOrphan,
               storeVars, delete_run, NoRun
    <2> QED
        BY <1>1, <2>1, RealKeeps, ClaimParts DEF StoreReal, NewRun
<1>4. CoReal'
    <2>1. \E pc : Goto(s, pc)
        BY DEF ReclaimStep, ListOrphan, LoadOrphan, ReclaimOrphan, DiscardOrphan
    <2> QED
        BY <1>1, <2>1, SoundGoto, Parts, ClaimParts
<1> QED
    BY <1>1, <1>2, <1>3, <1>4, RealKeeps, ClaimParts, ClaimPartsNext DEF historyVars, backplaneVars

\* The terminal sweep closes a run with the outcome Redis holds.
LEMMA SweepTerminalReal ==
    ASSUME TypeOK, sweep \in SweepState, ClaimsAreReal, FinalizeTerminal \/ ReapTerminal
    PROVE  ClaimsAreReal'
<1>1. UNCHANGED <<launched, succeeded, node_rows, backplaneVars, co>> /\ succeeded \in SUBSET Nodes
    BY Parts DEF FinalizeTerminal, ReapTerminal, cleanup_run, delete_objects, workerVars,
                 historyVars, coordVars, finalize_pipeline_run_status, WorkersTypeOK
<1>2. S3Real' /\ JobsLaunched'
    <2>1. UNCHANGED workerVars \/ cleanup_run
        BY DEF FinalizeTerminal, ReapTerminal
    <2> QED
        BY <1>1, <2>1, CleanupReal, RealKeeps, ClaimParts DEF workerVars
<1>3. StoreReal'
    <2>1. UNCHANGED store \/ store'.statuses = NewRun
        BY DEF FinalizeTerminal, ReapTerminal, storeVars, delete_run, NoRun
    <2> QED
        BY <1>1, <2>1, RealKeeps, ClaimParts DEF StoreReal, NewRun
<1>4. SweepReal'
    <2>1. \E pc : SweepGoto(pc)
        BY DEF FinalizeTerminal, ReapTerminal
    <2>2. sweep'.rows = sweep.rows
        BY <2>1 DEF SweepGoto, SweepState
    <2> QED
        BY <1>1, <2>2, ClaimParts DEF SweepReal
<1>5. VerdictReal'
    <2>1. UNCHANGED pipeline_row \/ pipeline_row' = outcome_status(store.statuses)
        BY DEF FinalizeTerminal, ReapTerminal, historyVars, finalize_pipeline_run_status
    <2>2. outcome_status(store.statuses) = "success" => succeeded = Nodes
        BY <1>1, OutcomeReal, ClaimParts DEF StoreReal
    <2> QED
        BY <1>1, <2>1, <2>2, ClaimParts DEF VerdictReal
<1> QED
    BY <1>1, <1>2, <1>3, <1>4, <1>5, RealKeeps, ClaimParts, ClaimPartsNext DEF backplaneVars

\* The reads of the sweep, the copy of the rows included.
LEMMA SweepReadReal ==
    ASSUME TypeOK, sweep \in SweepState, ClaimsAreReal,
           ListTerminal \/ ListInProgress \/ CheckRedisState \/ ListNodeRuns \/ ListManaged
    PROVE  ClaimsAreReal'
<1>1. UNCHANGED <<store, workerVars, historyVars, backplaneVars, co>>
    BY DEF ListTerminal, ListInProgress, CheckRedisState, ListNodeRuns, ListManaged, vars,
           storeVars, coordVars
<1>2. SweepReal'
    <2>1. \/ \E pc : SweepGoto(pc)
          \/ sweep' = [pc |-> "refresh", rows |-> node_rows]
        BY DEF ListTerminal, ListInProgress, CheckRedisState, ListNodeRuns, ListManaged
    <2>2. sweep'.rows = sweep.rows \/ sweep'.rows = node_rows
        BY <2>1 DEF SweepGoto, SweepState
    <2> QED
        BY <1>1, <2>2, ClaimParts DEF SweepReal, RowsReal, workerVars
<1> QED
    BY <1>1, <1>2, RealKeeps, ClaimParts, ClaimPartsNext DEF workerVars, historyVars, backplaneVars

\* The Postgres sweep completes rows from S3.
LEMMA RefreshRowsReal ==
    ASSUME TypeOK, sweep \in SweepState, ClaimsAreReal, RefreshRows
    PROVE  ClaimsAreReal'
<1>1. UNCHANGED <<store, workerVars, backplaneVars, co>>
    BY DEF RefreshRows, storeVars, coordVars
<1>2. PICK readable \in Readable, recorded \in Recordable :
          LET fresh == {n \in readable \cap recorded :
                           sweep.rows[n] = "dispatched" /\ Completed(s3[n])}
              rows == [n \in Nodes |-> IF n \in fresh THEN s3[n] ELSE sweep.rows[n]]
          IN  /\ record_node_runs([n \in Nodes |-> IF n \in fresh THEN s3[n] ELSE "none"])
              /\ sweep' = [pc |-> IF \A n \in Nodes : Known(rows[n])
                                  THEN "finalize" ELSE "reconstruct",
                           rows |-> rows]
    BY DEF RefreshRows
<1> DEFINE fresh == {n \in readable \cap recorded :
                        sweep.rows[n] = "dispatched" /\ Completed(s3[n])}
           rows == [n \in Nodes |-> IF n \in fresh THEN s3[n] ELSE sweep.rows[n]]
           written == [n \in Nodes |-> IF n \in fresh THEN s3[n] ELSE "none"]
<1>3. record_node_runs(written) /\ sweep'.rows = rows
    BY <1>2
<1> HIDE DEF fresh
<1>4. \A n \in Nodes : /\ rows[n] = "success" => n \in succeeded
                       /\ written[n] = "success" => n \in succeeded
    BY ClaimParts DEF S3Real, SweepReal
<1> HIDE DEF rows, written
<1>5. RowsReal' /\ UNCHANGED pipeline_row
    BY <1>1, <1>3, <1>4, RecordRowsReal, ClaimParts DEF workerVars
<1>6. SweepReal'
    BY <1>1, <1>3, <1>4 DEF SweepReal, workerVars
<1> QED
    BY <1>1, <1>5, <1>6, RealKeeps, ClaimParts, ClaimPartsNext DEF workerVars, backplaneVars

\* The Postgres sweep's verdict is that of the rows it read.
LEMMA FinalizeReconciledReal ==
    ASSUME TypeOK, sweep \in SweepState, ClaimsAreReal, FinalizeReconciled
    PROVE  ClaimsAreReal'
<1>1. UNCHANGED <<launched, succeeded, node_rows, store, backplaneVars, co>>
      /\ succeeded \in SUBSET Nodes
    BY Parts DEF FinalizeReconciled, cleanup_run, delete_objects, workerVars, storeVars,
                 historyVars, coordVars, finalize_pipeline_run_status, WorkersTypeOK
<1>2. S3Real' /\ JobsLaunched'
    <2>1. UNCHANGED workerVars \/ cleanup_run
        BY DEF FinalizeReconciled
    <2> QED
        BY <1>1, <2>1, CleanupReal, RealKeeps, ClaimParts DEF workerVars
<1>3. SweepReal'
    <2>1. SweepGoto("cleanup") \/ sweep' = NoSweep
        BY DEF FinalizeReconciled
    <2>2. sweep'.rows = sweep.rows \/ sweep'.rows = [n \in Nodes |-> "none"]
        BY <2>1 DEF SweepGoto, SweepState, NoSweep
    <2> QED
        BY <1>1, <2>2, ClaimParts DEF SweepReal
<1>4. VerdictReal'
    <2>1. \/ UNCHANGED pipeline_row \/ pipeline_row' = "failure"
          \/ \A n \in Nodes : sweep.rows[n] = "success"
        BY DEF FinalizeReconciled, historyVars, finalize_pipeline_run_status
    <2> QED
        BY <1>1, <2>1, ClaimParts DEF VerdictReal, SweepReal
<1> QED
    BY <1>1, <1>2, <1>3, <1>4, RealKeeps, ClaimParts, ClaimPartsNext DEF backplaneVars

\* A reconstructed run claims the successes of the rows it comes from.
LEMMA ResumeReconstructedReal ==
    ASSUME TypeOK, sweep \in SweepState, ClaimsAreReal, NEW s \in Servers,
           ResumeReconstructed(s)
    PROVE  ClaimsAreReal'
<1>1. UNCHANGED <<workerVars, historyVars, backplaneVars>>
    BY DEF ResumeReconstructed
<1>2. StoreReal'
    <2>1. \A n \in Nodes : reconstruct(sweep.rows)[n] = "success" => sweep.rows[n] = "success"
        BY DEF reconstruct, SweepState, NodeRow
    <2>2. UNCHANGED store \/ store'.statuses = reconstruct(sweep.rows)
        BY DEF ResumeReconstructed, save_run
    <2> QED
        BY <1>1, <2>1, <2>2, ClaimParts DEF StoreReal, SweepReal, workerVars
<1>3. CoReal'
    <2>1. Goto(s, "acquire") \/ UNCHANGED co
        BY DEF ResumeReconstructed
    <2> QED
        BY <1>1, <2>1, SoundGoto, RealKeeps, Parts, ClaimParts DEF workerVars
<1>4. SweepReal'
    <2>1. sweep'.rows = [n \in Nodes |-> "none"]
        BY DEF ResumeReconstructed, NoSweep
    <2> QED
        BY <2>1 DEF SweepReal
<1> QED
    BY <1>1, <1>2, <1>3, <1>4, RealKeeps, ClaimParts, ClaimPartsNext
    DEF workerVars, historyVars, backplaneVars

\* The Kubernetes sweep only deletes, the run state it could not load included.
LEMMA ReapKubeReal ==
    ASSUME TypeOK, sweep \in SweepState, ClaimsAreReal, ReapKube
    PROVE  ClaimsAreReal'
<1>1. UNCHANGED <<launched, succeeded, historyVars, backplaneVars, co>>
    BY DEF ReapKube, cleanup_run, delete_objects, workerVars, coordVars
<1>2. S3Real' /\ JobsLaunched'
    <2>1. UNCHANGED workerVars \/ cleanup_run
        BY DEF ReapKube
    <2> QED
        BY <1>1, <2>1, CleanupReal, RealKeeps, ClaimParts DEF workerVars
<1>3. StoreReal'
    <2>1. UNCHANGED store \/ store'.statuses = NewRun
        BY DEF ReapKube, delete_run, NoRun
    <2> QED
        BY <1>1, <2>1, RealKeeps, ClaimParts DEF StoreReal, NewRun
<1>4. SweepReal'
    <2>1. \E pc : SweepGoto(pc)
        BY DEF ReapKube
    <2>2. sweep'.rows = sweep.rows
        BY <2>1 DEF SweepGoto, SweepState
    <2> QED
        BY <1>1, <2>2, ClaimParts DEF SweepReal
<1> QED
    BY <1>1, <1>2, <1>3, <1>4, RealKeeps, ClaimParts, ClaimPartsNext DEF historyVars, backplaneVars

\* The server publishes what S3 says; a cancel request carries no claim.
LEMMA RequestReal ==
    ASSUME TypeOK, ClaimsAreReal, RequestCancel \/ \E n \in Nodes : Poke(n)
    PROVE  ClaimsAreReal'
<1>1. UNCHANGED <<store, workerVars, historyVars, co, sweep>>
    BY DEF RequestCancel, Poke, storeVars, coordVars
<1>2. EventsReal'
    <2>1. CASE RequestCancel
        <3> DEFINE e == [type |-> "cancel"]
        <3>1. e \in BackplaneEvent /\ EventReal(e) /\ publish_event(e)
            BY <2>1 DEF RequestCancel, BackplaneEvent, EventReal
        <3> HIDE DEF e
        <3> QED
            BY <1>1, <3>1, PublishReal, Parts, ClaimParts DEF workerVars
    <2>2. CASE \E n \in Nodes : Poke(n)
        <3>1. PICK n \in Nodes : Poke(n)
            BY <2>2
        <3> DEFINE e == [type |-> "node_completed", node |-> n, success |-> (s3[n] = "success")]
        <3>2. e \in BackplaneEvent /\ EventReal(e) /\ publish_event(e)
            BY <3>1, ClaimParts DEF Poke, BackplaneEvent, EventReal, S3Real
        <3> HIDE DEF e
        <3> QED
            BY <1>1, <3>2, PublishReal, Parts, ClaimParts DEF workerVars
    <2> QED
        BY <2>1, <2>2
<1> QED
    BY <1>1, <1>2, RealKeeps, ClaimParts, ClaimPartsNext DEF workerVars, historyVars

\* Launching and crashing.
LEMMA LaunchReal ==
    ASSUME TypeOK, ClaimsAreReal, NEW s \in Servers, Launch(s)
    PROVE  ClaimsAreReal'
<1>1. UNCHANGED <<store, workerVars, historyVars, backplaneVars, sweep>>
    BY DEF Launch, storeVars
<1>2. CoReal'
    BY <1>1, SoundGoto, Parts, ClaimParts DEF Launch, workerVars
<1> QED
    BY <1>1, <1>2, RealKeeps, ClaimParts, ClaimPartsNext DEF workerVars, historyVars, backplaneVars

\* A crash forgets claims and makes none.
LEMMA CrashReal ==
    ASSUME TypeOK, ClaimsAreReal, NEW s \in Servers, Crash(s) \/ CrashInDispatch(s)
    PROVE  ClaimsAreReal'
<1>1. UNCHANGED <<store, job, s3, launched, succeeded, historyVars, sweep>> /\ Stop(s)
    BY DEF Crash, CrashInDispatch, dispatch_cut_short, workerVars, storeVars
<1>2. CoReal' /\ EventsReal'
    BY <1>1, SoundStop, QueueReal, Parts, ClaimParts DEF Stop
<1> QED
    BY <1>1, <1>2, RealKeeps, ClaimParts, ClaimPartsNext DEF historyVars

\* A worker: the only source of successes.
LEMMA WorkerReal ==
    ASSUME TypeOK, ClaimsAreReal, NEW n \in Nodes, WorkerStep(n) \/ PodFailure(n),
           UNCHANGED <<store, historyVars, backplaneVars, co, sweep>>
    PROVE  ClaimsAreReal'
<1> USE DEF WorkerStep, PodFailure, PodStarts, WorkerSucceeds, WorkerFails, PodBreaks
<1>1. /\ succeeded \subseteq succeeded' /\ succeeded' \subseteq Nodes
      /\ UNCHANGED launched
    BY Parts DEF WorkersTypeOK
<1>2. S3Real'
    BY Parts, ClaimParts DEF S3Real, WorkersTypeOK
<1>3. JobsLaunched'
    BY Parts, ClaimParts DEF JobsLaunched, WorkersTypeOK
<1> QED
    BY <1>1, <1>2, <1>3, RealStays, ClaimParts, ClaimPartsNext DEF historyVars, backplaneVars

----------------------------------------------------------------------------
(* Theorems                                                                *)

\* The inductive invariant: types, what handlers have in hand, and claims.
SafetyInv == TypeInv /\ ClaimsAreReal

\* A coordinator's step invents no success.
LEMMA RunStepReal ==
    ASSUME TypeOK, HandsOK, ClaimsAreReal, UNCHANGED sweep, NEW s \in Servers, RunStep(s)
    PROVE  ClaimsAreReal'
BY StartReal, ReadOutcomesReal, FoldReal, PromoteReal, PromoteCheckReal, RehydrateReal,
   SubscriptionReal, CancelNodeReal, RecordNodeCompletedReal, DispatchNodeReal,
   PersistDispatchReal, RecordDispatchReal, RecordTerminatedReal, EpilogueReal
DEF RunStep

\* A branch of the select loop invents no success.
LEMMA LoopStepReal ==
    ASSUME TypeOK, ClaimsAreReal, UNCHANGED sweep, NEW s \in Servers, LoopStep(s)
    PROVE  ClaimsAreReal'
<1>1. CASE HandlePodRunning(s)
    BY <1>1, UnclaimedReal DEF HandlePodRunning, storeVars
<1>2. CASE ~HandlePodRunning(s)
    BY <1>2, ReadOutcomesReal, SubscriptionReal, ReceiveReal, FailureReal
    DEF LoopStep, HandleNodeInfraFailed, HandlePodStartTimedOut, HandleNodeTimedOut
<1> QED
    BY <1>1, <1>2

\* Timers and the watcher carry no claims.
LEMMA SignalStepReal ==
    ASSUME TypeOK, ClaimsAreReal, UNCHANGED sweep, NEW s \in Servers, SignalStep(s)
    PROVE  ClaimsAreReal'
<1>1. UNCHANGED <<store, workerVars, historyVars, backplaneVars, co>>
    BY DEF SignalStep, DetachedTimerFires, TimerFires, WatcherReportsRunning,
           WatcherReportsFailure, storeVars
<1> QED
    BY <1>1, UnclaimedReal

\* A step of the resource sweep invents no success.
LEMMA SweepStepReal ==
    ASSUME TypeOK, sweep \in SweepState, ClaimsAreReal, SweepStep
    PROVE  ClaimsAreReal'
BY SweepReadReal, SweepTerminalReal, RefreshRowsReal, FinalizeReconciledReal,
   ResumeReconstructedReal, ReapKubeReal DEF SweepStep

\* Nothing is claimed at the start.
LEMMA ClaimsInit == ClusterInit => ClaimsAreReal
<1> SUFFICES ASSUME ClusterInit PROVE ClaimsAreReal
    OBVIOUS
<1>1. S3Real /\ JobsLaunched /\ LaunchOrder
    BY DEF ClusterInit, Init, WorkersInit, S3Real, JobsLaunched, LaunchOrder
<1>2. StoreReal
    BY DEF ClusterInit, Init, StoreInit, NoRun, NewRun, StoreReal
<1>3. RowsReal /\ VerdictReal
    BY DEF ClusterInit, Init, HistoryInit, RowsReal, VerdictReal
<1>4. SweepReal
    BY DEF ClusterInit, NoSweep, SweepReal
<1>5. EventsReal
    BY DEF ClusterInit, Init, BackplaneInit, EventsReal
<1>6. CoReal
    <2>1. /\ Off.mem = NewRun /\ Off.outcomes = [n \in Nodes |-> "none"]
          /\ Off.todo = {} /\ Off.status = "none"
        BY DEF Off
    <2>2. Sound(Off, succeeded)
        BY <2>1 DEF Sound, NewRun
    <2> QED
        BY <2>2 DEF ClusterInit, Init, CoordinatorInit, CoReal
<1> QED
    BY <1>1, <1>2, <1>3, <1>4, <1>5, <1>6, ClaimParts

\* Every step keeps the invariant.
LEMMA ClaimsStep == SafetyInv /\ [Next]_clusterVars => ClaimsAreReal'
<1> SUFFICES ASSUME SafetyInv, [Next]_clusterVars PROVE ClaimsAreReal'
    OBVIOUS
<1>0. TypeOK /\ HandsOK /\ ClaimsAreReal /\ sweep \in SweepState
    BY DEF SafetyInv, TypeInv, ClusterTypeOK
<1>1. CASE \E s \in Servers :
              (RunStep(s) \/ LoopStep(s) \/ SignalStep(s)) /\ UNCHANGED <<sweep, requestVars>>
    BY <1>0, <1>1, RunStepReal, LoopStepReal, SignalStepReal
<1>2. CASE \E n \in Nodes :
              /\ WorkerStep(n) \/ PodFailure(n)
              /\ UNCHANGED <<storeVars, historyVars, backplaneVars, coordVars, sweep, requestVars>>
    BY <1>0, <1>2, WorkerReal DEF storeVars, coordVars
<1>3. CASE RequestCancel \/ \E n \in Nodes : Poke(n)
    BY <1>0, <1>3, RequestReal
<1>4. CASE \E s \in Servers : Launch(s)
    BY <1>0, <1>4, LaunchReal
<1>5. CASE \E s \in Servers : ReclaimStep(s)
    BY <1>0, <1>5, ReclaimReal
<1>6. CASE SweepStep
    BY <1>0, <1>6, SweepStepReal
<1>7. CASE \E s \in Servers : Crash(s) \/ CrashInDispatch(s)
    BY <1>0, <1>7, CrashReal
<1>8. CASE ExpireLease
    BY <1>0, <1>8, UnclaimedReal DEF ExpireLease, LeaseExpires, coordVars
<1>9. CASE UNCHANGED clusterVars
    BY <1>0, <1>9, UnclaimedReal DEF clusterVars, vars, storeVars, coordVars
<1> QED
    BY <1>1, <1>2, <1>3, <1>4, <1>5, <1>6, <1>7, <1>8, <1>9 DEF Next

\* The invariant holds in every reachable state.
THEOREM SafetyInvHolds == Spec => []SafetyInv
<1>1. ClusterInit => SafetyInv
    BY TypeInvInit, ClaimsInit DEF SafetyInv
<1>2. SafetyInv /\ [Next]_clusterVars => SafetyInv'
    BY TypeInvStep, ClaimsStep DEF SafetyInv
<1> QED
    BY <1>1, <1>2, PTL DEF Spec

\* No success is invented: whatever S3, Redis, Postgres, a queued event, a
\* sweep or a coordinator (live, deposed or fenced) says of a success, a worker
\* did report it; and dispatch_ready_nodes creates no Job before everything the
\* node depends on has really succeeded, in spite of crashes, fail-overs,
\* zombies and errors of every service.
THEOREM ClaimsTheorem == Spec => []ClaimsAreReal
<1>1. SafetyInv => ClaimsAreReal
    BY DEF SafetyInv
<1> QED
    BY <1>1, SafetyInvHolds, PTL

----------------------------------------------------------------------------
(* Cluster implements PipelinePromise                                      *)

Quiet == UNCHANGED <<launched, succeeded, pipeline_row>>

Promised == Promise!PromiseNext \/ Quiet

\* A verdict that is justified is a step of the promise.
LEMMA ClosePromised ==
    ASSUME NEW v \in FinalStatus, v = "success" => succeeded = Nodes,
           pipeline_row' = v, UNCHANGED <<launched, succeeded>>
    PROVE  Promised
BY DEF Promised, Promise!PromiseNext, Promise!Close, FinalStatus

\* The coordinator's steps: a Job, a row or a verdict, or nothing to promise.
LEMMA RunStepPromised ==
    ASSUME TypeOK, HandsOK, ClaimsAreReal, NEW s \in Servers, RunStep(s)
    PROVE  Promised
<1>1. co[s] \in CoordinatorState /\ Sound(co[s], succeeded)
    BY Parts, ClaimParts DEF CoTypeOK, CoReal
<1>2. CASE DispatchNode(s)
    <2>1. PICK n \in co[s].todo : dispatch(n) \/ dispatch_errs(n) \/ UNCHANGED workerVars
        BY <1>2 DEF DispatchNode
    <2>2. n \in Nodes /\ Deps[n] \subseteq succeeded /\ UNCHANGED pipeline_row
        BY <1>1, <1>2 DEF CoordinatorState, Sound, DispatchNode, historyVars
    <2>3. (launched' = launched \cup {n} \/ UNCHANGED launched) /\ UNCHANGED succeeded
        BY <2>1 DEF dispatch, dispatch_errs, create_objects, workerVars
    <2>4. CASE launched' = launched \cup {n}
        <3>1. Promise!Start(n)
            BY <2>2, <2>3, <2>4 DEF Promise!Start
        <3> QED
            BY <2>2, <3>1 DEF Promised, Promise!PromiseNext
    <2>5. CASE UNCHANGED launched
        BY <2>2, <2>3, <2>5 DEF Promised, Quiet
    <2> QED
        BY <2>3, <2>4, <2>5
<1>3. CASE RecordPipelineStarted(s)
    <2>1. UNCHANGED <<launched, succeeded>>
        BY <1>3 DEF RecordPipelineStarted, workerVars
    <2>2. \/ pipeline_row = "none" /\ pipeline_row' = "in_progress"
          \/ UNCHANGED pipeline_row
        BY <1>3 DEF RecordPipelineStarted, record_pipeline_started, historyVars
    <2> QED
        BY <2>1, <2>2 DEF Promised, Quiet, Promise!PromiseNext, Promise!Open
<1>4. CASE ReportStatus(s)
    <2>1. /\ UNCHANGED <<launched, succeeded>>
          /\ UNCHANGED pipeline_row \/ pipeline_row' = co[s].status
        BY <1>4 DEF ReportStatus, record_pipeline_run, workerVars, historyVars
    <2>2. co[s].status \in FinalStatus /\ (co[s].status = "success" => succeeded = Nodes)
        BY <1>1, <1>4 DEF ReportStatus, HandsOK, Hands, Ending, Sound
    <2> QED
        BY <2>1, <2>2, ClosePromised DEF Promised, Quiet
<1>5. CASE RecordNodeCompleted(s) \/ RecordDispatch(s) \/ RecordTerminated(s)
    BY <1>5 DEF RecordNodeCompleted, RecordDispatch, RecordTerminated, record_node_run,
                record_node_runs, record_node_dispatched, historyVars, workerVars, Promised, Quiet
<1>6. CASE CancelNode(s) \/ CleanupRun(s)
    BY <1>6 DEF CancelNode, CleanupRun, cancel_node, cleanup_run, delete_objects, workerVars,
                historyVars, Promised, Quiet
<1>7. CASE \/ AcquireLease(s) \/ LoadRun(s) \/ SaveInitial(s)
           \/ ReadOutcomes(s) \/ FoldCompletion(s)
           \/ PromoteNode(s) \/ PromoteCheck(s) \/ RehydrateTimers(s) \/ Subscribe(s)
           \/ PersistDispatch(s) \/ ReleaseLease(s) \/ DeleteRun(s)
    BY <1>7 DEF AcquireLease, LoadRun, SaveInitial, ReadOutcomes, FoldCompletion, PromoteNode,
                PromoteCheck, RehydrateTimers, Subscribe, PersistDispatch, ReleaseLease,
                DeleteRun, workerVars, historyVars, Promised, Quiet
<1> QED
    BY <1>2, <1>3, <1>4, <1>5, <1>6, <1>7 DEF RunStep

\* The loop, its timers and the watcher only decide.
LEMMA LoopStepPromised ==
    ASSUME NEW s \in Servers, LoopStep(s) \/ SignalStep(s)
    PROVE  Promised
<1>1. UNCHANGED <<workerVars, historyVars>>
    BY DEF LoopStep, PeriodicReconcile, HeartbeatFails, PipelineDeadline, SubscriptionClosed,
           ReceiveNodeCompleted, ReceiveCancel, HandlePodRunning, HandleNodeInfraFailed,
           HandlePodStartTimedOut, HandleNodeTimedOut, HandleNodeFailure,
           SignalStep, DetachedTimerFires, TimerFires, WatcherReportsRunning, WatcherReportsFailure
<1> QED
    BY <1>1 DEF workerVars, historyVars, Promised, Quiet

\* A worker succeeds only in a Job that was started.
LEMMA WorkerPromised ==
    ASSUME ClaimsAreReal, NEW n \in Nodes, WorkerStep(n) \/ PodFailure(n), UNCHANGED historyVars
    PROVE  Promised
<1>1. CASE WorkerSucceeds(n)
    <2>1. n \in launched
        BY <1>1, ClaimParts DEF WorkerSucceeds, JobsLaunched
    <2>2. Promise!Complete(n)
        BY <1>1, <2>1 DEF WorkerSucceeds, Promise!Complete, historyVars
    <2> QED
        BY <2>2 DEF Promised, Promise!PromiseNext
<1>2. CASE ~WorkerSucceeds(n)
    BY <1>2 DEF WorkerStep, PodFailure, PodStarts, WorkerFails, PodBreaks, historyVars,
                Promised, Quiet
<1> QED
    BY <1>1, <1>2

\* The reaper's verdicts are justified.
LEMMA SweepPromised ==
    ASSUME TypeOK, ClaimsAreReal, SweepStep
    PROVE  Promised
<1>0. succeeded \in SUBSET Nodes
    BY Parts DEF WorkersTypeOK
<1>1. CASE FinalizeTerminal
    <2> DEFINE v == outcome_status(store.statuses)
    <2>1. /\ UNCHANGED <<launched, succeeded>>
          /\ UNCHANGED pipeline_row \/ pipeline_row' = v
        BY <1>1 DEF FinalizeTerminal, finalize_pipeline_run_status, workerVars, historyVars
    <2>2. v \in FinalStatus /\ (v = "success" => succeeded = Nodes)
        BY <1>0, OutcomeType, OutcomeReal, ClaimParts DEF StoreReal
    <2> HIDE DEF v
    <2> QED
        BY <2>1, <2>2, ClosePromised DEF Promised, Quiet
<1>2. CASE FinalizeReconciled
    <2> DEFINE v == IF \A n \in Nodes : sweep.rows[n] = "success" THEN "success" ELSE "failure"
    <2>1. UNCHANGED <<launched, succeeded>>
        BY <1>2 DEF FinalizeReconciled, cleanup_run, delete_objects, workerVars
    <2>2. UNCHANGED pipeline_row \/ pipeline_row' = v
        BY <1>2 DEF FinalizeReconciled, finalize_pipeline_run_status, historyVars
    <2>3. v \in FinalStatus /\ (v = "success" => succeeded = Nodes)
        BY <1>0, ClaimParts DEF SweepReal, FinalStatus
    <2> HIDE DEF v
    <2> QED
        BY <2>1, <2>2, <2>3, ClosePromised DEF Promised, Quiet
<1>3. CASE RefreshRows
    BY <1>3 DEF RefreshRows, record_node_runs, workerVars, Promised, Quiet
<1>4. CASE ReapTerminal \/ ReapKube
    BY <1>4 DEF ReapTerminal, ReapKube, cleanup_run, delete_objects, workerVars, historyVars,
                Promised, Quiet
<1>5. CASE \/ ListTerminal \/ ListInProgress \/ CheckRedisState \/ ListNodeRuns \/ ListManaged
           \/ \E s \in Servers : ResumeReconstructed(s)
    BY <1>5 DEF ListTerminal, ListInProgress, CheckRedisState, ListNodeRuns, ListManaged,
                ResumeReconstructed, vars, workerVars, historyVars, Promised, Quiet
<1> QED
    BY <1>1, <1>2, <1>3, <1>4, <1>5 DEF SweepStep

\* Every step of the cluster is a step of the promise or none.
LEMMA StepPromised == SafetyInv /\ [Next]_clusterVars => Promised
<1> SUFFICES ASSUME SafetyInv, [Next]_clusterVars PROVE Promised
    OBVIOUS
<1>0. TypeOK /\ HandsOK /\ ClaimsAreReal
    BY DEF SafetyInv, TypeInv, ClusterTypeOK
<1>1. CASE \E s \in Servers : RunStep(s) \/ LoopStep(s) \/ SignalStep(s)
    BY <1>0, <1>1, RunStepPromised, LoopStepPromised
<1>2. CASE \E n \in Nodes :
              /\ WorkerStep(n) \/ PodFailure(n)
              /\ UNCHANGED <<storeVars, historyVars, backplaneVars, coordVars, sweep, requestVars>>
    BY <1>0, <1>2, WorkerPromised
<1>3. CASE RequestCancel \/ \E n \in Nodes : Poke(n)
    BY <1>3 DEF RequestCancel, Poke, workerVars, historyVars, Promised, Quiet
<1>4. CASE \E s \in Servers : Launch(s)
    BY <1>4 DEF Launch, workerVars, historyVars, Promised, Quiet
<1>5. CASE \E s \in Servers : ReclaimStep(s)
    BY <1>5 DEF ReclaimStep, ListOrphan, LoadOrphan, ReclaimOrphan, DiscardOrphan,
                cleanup_run, delete_objects, workerVars, historyVars, Promised, Quiet
<1>6. CASE SweepStep
    BY <1>0, <1>6, SweepPromised
<1>7. CASE \E s \in Servers : Crash(s) \/ CrashInDispatch(s)
    BY <1>7 DEF Crash, CrashInDispatch, dispatch_cut_short, workerVars, historyVars,
                Promised, Quiet
<1>8. CASE ExpireLease
    BY <1>8 DEF ExpireLease, workerVars, historyVars, Promised, Quiet
<1>9. CASE UNCHANGED clusterVars
    BY <1>9 DEF clusterVars, vars, workerVars, historyVars, Promised, Quiet
<1> QED
    BY <1>1, <1>2, <1>3, <1>4, <1>5, <1>6, <1>7, <1>8, <1>9 DEF Next

\* Refinement: with Jobs for starts, successful workers for completions and
\* the pipeline row for the verdict, the cluster keeps a run's promise.
THEOREM PromiseTheorem == Spec => KeepsPromise
<1>1. ClusterInit => Promise!PromiseInit
    BY DEF ClusterInit, Init, WorkersInit, HistoryInit, Promise!PromiseInit
<1>2. SafetyInv /\ [Next]_clusterVars => [Promise!PromiseNext]_(Promise!promiseVars)
    BY StepPromised DEF Promised, Quiet, Promise!promiseVars
<1> QED
    BY <1>1, <1>2, SafetyInvHolds, PTL DEF Spec, KeepsPromise, Promise!PromiseSpec

----------------------------------------------------------------------------
(* Two tests of the same thing                                             *)

\* The coordinator stops when its run is_complete; the reaper takes a stored
\* run for finished when run_state_is_terminal.  The two are written apart, on
\* apart data structures, and agree: no run is both over for one and an orphan
\* for the other.
THEOREM CompletionAgrees ==
    ASSUME NEW st \in Statuses
    PROVE  run_state_is_terminal(st) <=> is_complete(st)
BY DEF run_state_is_terminal, is_complete, ready_nodes, deps_satisfied

============================================================================
