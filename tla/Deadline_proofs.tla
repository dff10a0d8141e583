-------------------------- MODULE Deadline_proofs --------------------------
(***************************************************************************)
(* No coordinator waits for a running node that has no deadline, for every *)
(* graph, every number of servers and every setting:                       *)
(* Spec => []RunningNodeHasDeadline.                                       *)
(*                                                                         *)
(* The property speaks of the select loop only.  Its inductive form,       *)
(* TimedOK, says for every place of run() which running nodes must have a  *)
(* timer by then: none while the state is being rehydrated, all from       *)
(* rehydrate_phase_timers on, but for the node that is being dispatched,   *)
(* whose startup timer comes after the save and the history write.         *)
(***************************************************************************)
EXTENDS ClusterType_proofs

\* The node that dispatch_ready_nodes has marked running and not yet armed.
BeingArmed(r, n) ==
    /\ r.pc \in {"dispatched", "dispatch_record"}
    /\ r.cause = "dispatched"
    /\ r.node = n

\* The nodes the coordinator r owes a deadline by now.
Owed(r) ==
    {n \in Nodes : r.stage \in {"start", "loop"} /\ r.mem[n] = "running"}

\* The loop is entered, and nodes are promoted, in the stage for it.
Placed(r) ==
    /\ r.pc = "loop" => r.stage = "loop"
    /\ r.pc \in {"promote", "promote_check"} => r.stage = "promote"

Timed(r, g) ==
    /\ \A n \in Owed(r) : HasDeadline(g, n) \/ BeingArmed(r, n)
    /\ Placed(r)

TimedOK == \A s \in Servers : Timed(co[s], sig[s])

----------------------------------------------------------------------------
(* What the helpers owe                                                    *)

\* Leaving the loop changes no status.
LEMMA OwedFinish ==
    ASSUME NEW r \in CoordinatorState, NEW v
    PROVE  Owed(Finish(r, v)) = Owed(r) /\ Finish(r, v).pc = "finalize"
<1>1. /\ Finish(r, v).stage = r.stage /\ Finish(r, v).mem = r.mem
      /\ Finish(r, v).pc = "finalize"
    BY DEF Finish, CoordinatorState
<1> QED
    BY <1>1 DEF Owed

\* Returning from a handler owes no new node, and enters the loop as such.
LEMMA OwedResume ==
    ASSUME NEW r \in CoordinatorState
    PROVE  /\ Owed(Resume(r)) \subseteq Owed(r)
           /\ Placed(Resume(r))
           /\ Resume(r).pc \notin {"dispatched", "dispatch_record"}
<1>1. CASE Resume(r) = Finish(r, outcome_status(r.mem))
    BY <1>1, OwedFinish DEF Placed
<1>2. CASE Resume(r) # Finish(r, outcome_status(r.mem))
    <2>1. /\ Resume(r).mem = r.mem
          /\ Resume(r).stage = r.stage \/ Resume(r).stage = "promote"
             \/ (r.stage \in {"start", "loop"} /\ Resume(r).stage = "loop")
          /\ Resume(r).pc \in {"fold", "promote", "loop"}
          /\ Placed(Resume(r))
        BY <1>2 DEF Resume, CoordinatorState, Stage, Placed
    <2> QED
        BY <2>1 DEF Owed
<1> QED
    BY <1>1, <1>2

\* So does entering dispatch_ready_nodes.
LEMMA OwedEnterDispatch ==
    ASSUME NEW r \in CoordinatorState
    PROVE  /\ Owed(EnterDispatch(r)) \subseteq Owed(r)
           /\ Placed(EnterDispatch(r))
           /\ EnterDispatch(r).pc \notin {"dispatched", "dispatch_record"}
<1>1. \/ EnterDispatch(r) = Resume(r)
      \/ /\ EnterDispatch(r).mem = r.mem /\ EnterDispatch(r).stage = r.stage
         /\ EnterDispatch(r).pc = "dispatch"
    BY DEF EnterDispatch, CoordinatorState
<1> QED
    BY <1>1, OwedResume DEF Owed, Placed

\* A node that is marked success or failed is no longer owed a deadline.
LEMMA MarkedIsNotOwed ==
    ASSUME NEW st \in Statuses, NEW n \in Nodes
    PROVE  /\ mark_success(st, n)[n] # "running" /\ mark_failed(st, n)[n] # "running"
           /\ \A m \in Nodes \ {n} :
                 mark_success(st, n)[m] = st[m] /\ mark_failed(st, n)[m] = st[m]
BY DEF Statuses, NodeStatus, mark_success, mark_failed, Active

----------------------------------------------------------------------------
(* Deadlines                                                               *)

\* A deadline is a timer or a message, whatever else the signals hold.
LEMMA DeadlineSame ==
    ASSUME NEW g, NEW h, NEW n, HasDeadline(g, n),
           h.handle[n] = g.handle[n], h.inbox = g.inbox
    PROVE  HasDeadline(h, n)
BY DEF HasDeadline

\* Dropping the timer of n takes no other node's deadline.
LEMMA CancelKeepsDeadline ==
    ASSUME NEW g \in SignalState, NEW n \in Nodes, NEW m \in Nodes \ {n}, HasDeadline(g, m)
    PROVE  HasDeadline(cancel_node_timeout(g, n), m)
<1> DEFINE h == cancel_node_timeout(g, n)
<1>1. h.handle[m] = g.handle[m] /\ h.inbox = g.inbox
    BY DEF cancel_node_timeout, SignalState
<1> HIDE DEF h
<1>2. HasDeadline(h, m)
    BY <1>1, DeadlineSame
<1> QED
    BY <1>2 DEF h

\* A message more takes no deadline, and a timeout is one.
LEMMA SendKeepsDeadline ==
    ASSUME NEW g \in SignalState, NEW n \in Nodes, NEW m \in Nodes,
           NEW type \in {"start_timeout", "timed_out", "pod_running", "infra_failed"},
           NEW h, h.inbox = Send(g, type, n).inbox,
           \/ HasDeadline(g, m) /\ h.handle[m] = g.handle[m]
           \/ n = m /\ type \in {"start_timeout", "timed_out"}
    PROVE  HasDeadline(h, m)
<1> DEFINE msg == [type |-> type, node |-> n]
<1>1. g.inbox \in Seq(Message) /\ msg \in Message
    BY DEF SignalState, Message
<1>2. h.inbox = Append(g.inbox, msg)
    BY DEF Send, SignalState
<1>3. msg.type = type /\ msg.node = n
    OBVIOUS
<1> HIDE DEF msg
<1>4. /\ \A i \in DOMAIN g.inbox : i \in DOMAIN h.inbox /\ h.inbox[i] = g.inbox[i]
      /\ Len(g.inbox) + 1 \in DOMAIN h.inbox /\ h.inbox[Len(g.inbox) + 1] = msg
    BY <1>1, <1>2
<1>5. CASE HasDeadline(g, m) /\ h.handle[m] = g.handle[m]
    BY <1>4, <1>5 DEF HasDeadline
<1>6. CASE n = m /\ type \in {"start_timeout", "timed_out"}
    BY <1>3, <1>4, <1>6 DEF HasDeadline
<1> QED
    BY <1>5, <1>6

\* Taking the first message takes only the deadline it is.
LEMMA ConsumedKeepsDeadline ==
    ASSUME SigTypeOK, NEW s \in Servers, sig[s].inbox # << >>, NEW m \in Nodes,
           HasDeadline(sig[s], m),
           \/ Head(sig[s].inbox).node # m
           \/ Head(sig[s].inbox).type \notin {"start_timeout", "timed_out"}
    PROVE  HasDeadline(Consumed(s), m)
<1> DEFINE q == sig[s].inbox
           h == Consumed(s)
<1>1. q \in Seq(Message) /\ q # << >>
    BY DEF SigTypeOK, SignalState
<1>2. h.inbox = Tail(q) /\ h.handle = sig[s].handle
    BY DEF Consumed, SigTypeOK, SignalState
<1>3. /\ Running(sig[s].handle[m]) \/ \E i \in DOMAIN q : /\ q[i].node = m
                                                         /\ q[i].type \in {"start_timeout", "timed_out"}
      /\ q[1].node # m \/ q[1].type \notin {"start_timeout", "timed_out"}
    BY <1>1 DEF HasDeadline
<1> HIDE DEF q, h
<1>4. \A i \in DOMAIN q : i = 1 \/ (i - 1 \in DOMAIN Tail(q) /\ Tail(q)[i - 1] = q[i])
    BY <1>1
<1>5. HasDeadline(h, m)
    BY <1>2, <1>3, <1>4 DEF HasDeadline
<1> QED
    BY <1>5 DEF h

----------------------------------------------------------------------------
(* One coordinator changes                                                 *)

\* Its record and its signals do.
LEMMA TimedPut ==
    ASSUME CoTypeOK, SigTypeOK, TimedOK, NEW s \in Servers, NEW r, NEW g,
           co' = [co EXCEPT ![s] = r], sig' = [sig EXCEPT ![s] = g], Timed(r, g)
    PROVE  TimedOK'
BY DEF CoTypeOK, SigTypeOK, TimedOK

\* Its record only.
LEMMA TimedPutRecord ==
    ASSUME CoTypeOK, SigTypeOK, TimedOK, NEW s \in Servers, NEW r,
           co' = [co EXCEPT ![s] = r], UNCHANGED sig, Timed(r, sig[s])
    PROVE  TimedOK'
BY DEF CoTypeOK, SigTypeOK, TimedOK

\* Its signals only.
LEMMA TimedPutSignals ==
    ASSUME CoTypeOK, SigTypeOK, TimedOK, NEW s \in Servers, NEW g,
           sig' = [sig EXCEPT ![s] = g], UNCHANGED co, Timed(co[s], g)
    PROVE  TimedOK'
BY DEF CoTypeOK, SigTypeOK, TimedOK

\* Neither.
LEMMA TimedStay == TimedOK /\ UNCHANGED <<co, sig>> => TimedOK'
BY DEF TimedOK

\* A record that owes no more than co[s] did, outside the dispatch of a node.
LEMMA TimedLess ==
    ASSUME TimedOK, NEW s \in Servers, NEW r, NEW g,
           co[s].pc \notin {"dispatched", "dispatch_record"},
           Owed(r) \subseteq Owed(co[s]), Placed(r),
           \A n \in Owed(r) : HasDeadline(sig[s], n) => HasDeadline(g, n)
    PROVE  Timed(r, g)
BY DEF TimedOK, Timed, BeingArmed, Placed

\* Goto, outside the dispatch of a node and not into the loop.
LEMMA TimedGoto ==
    ASSUME CoTypeOK, SigTypeOK, TimedOK, NEW s \in Servers, NEW pc, pc \notin {"loop", "promote", "promote_check"},
           co[s].pc \notin {"dispatched", "dispatch_record"},
           Goto(s, pc), UNCHANGED sig
    PROVE  TimedOK'
<1> DEFINE r == [co[s] EXCEPT !.pc = pc]
<1>1. co' = [co EXCEPT ![s] = r]
    BY DEF Goto
<1>2. r.pc = pc /\ r.mem = co[s].mem /\ r.stage = co[s].stage
    BY DEF CoTypeOK, CoordinatorState
<1> HIDE DEF r
<1>3. Timed(r, sig[s])
    BY <1>2, TimedLess DEF Owed, Placed
<1> QED
    BY <1>1, <1>3, TimedPutRecord

\* A stopped coordinator owes nothing.
LEMMA TimedStopped ==
    ASSUME NEW g
    PROVE  Timed(Stopped, g)
<1>1. Stopped.mem = NewRun /\ Stopped.pc = "done"
    BY DEF Stopped, Off
<1> QED
    BY <1>1 DEF Timed, Owed, NewRun, Placed

\* run() returns, or its process dies.
LEMMA TimedStop ==
    ASSUME CoTypeOK, SigTypeOK, TimedOK, NEW s \in Servers, Stop(s)
    PROVE  TimedOK'
BY TimedStopped, TimedPut DEF Stop

----------------------------------------------------------------------------
(* The handlers                                                            *)

\* A handler's save, whatever becomes of it, owes no node a deadline.
LEMMA TimedSave ==
    ASSUME TypeOK, TimedOK, NEW s \in Servers, NEW r \in CoordinatorState,
           NEW pc \in {"record", "cancel"}, PersistOrFinish(s, r, pc),
           NEW g, sig' = [sig EXCEPT ![s] = g],
           co[s].pc \notin {"dispatched", "dispatch_record"},
           Owed(r) \subseteq Owed(co[s]),
           \A m \in Owed(r) : HasDeadline(sig[s], m) => HasDeadline(g, m)
    PROVE  TimedOK'
<1>1. PICK p \in {r, Persisted(r)} :
          \/ co' = [co EXCEPT ![s] = [p EXCEPT !.pc = pc]]
          \/ co' = [co EXCEPT ![s] = Finish(p, "failure")]
    BY PersistCases
<1>2. p \in CoordinatorState /\ Owed(p) = Owed(r)
    BY PersistedFields DEF Owed
<1> DEFINE q == [p EXCEPT !.pc = pc]
<1>3. q.pc = pc /\ q.mem = p.mem /\ q.stage = p.stage
    BY <1>2 DEF CoordinatorState
<1>4. co' = [co EXCEPT ![s] = q] \/ co' = [co EXCEPT ![s] = Finish(p, "failure")]
    BY <1>1
<1> HIDE DEF q
<1>5. Finish(p, "failure").pc = "finalize" /\ Owed(Finish(p, "failure")) = Owed(p)
    BY <1>2, OwedFinish
<1>6. Owed(q) = Owed(p)
    BY <1>3 DEF Owed
<1>7. Timed(q, g) /\ Timed(Finish(p, "failure"), g)
    BY <1>2, <1>3, <1>5, <1>6, TimedLess DEF Placed
<1> QED
    BY <1>4, <1>7, TimedPut, Parts

\* A completed node is owed no deadline, and the others keep theirs.
LEMMA TimedCompleted ==
    ASSUME TypeOK, TimedOK, NEW s \in Servers, NEW r \in CoordinatorState, NEW n \in Nodes,
           NEW success \in BOOLEAN, handle_node_completed(s, r, n, success),
           co[s].pc \notin {"dispatched", "dispatch_record"},
           r.mem = co[s].mem, r.stage = co[s].stage
    PROVE  TimedOK'
<1> DEFINE q == Completes(r, n, success)
           g == cancel_node_timeout(sig[s], n)
<1>1. r.mem \in Statuses /\ q \in CoordinatorState
    BY CompletesType DEF CoordinatorState
<1>2. /\ q.stage = r.stage
      /\ q.mem = IF success THEN mark_success(r.mem, n) ELSE mark_failed(r.mem, n)
    BY DEF Completes, CoordinatorState
<1>3. PersistOrFinish(s, q, "record") /\ sig' = [sig EXCEPT ![s] = g]
    BY DEF handle_node_completed
<1> HIDE DEF q
<1>4. Owed(q) \subseteq Owed(co[s]) \ {n}
    BY <1>1, <1>2, MarkedIsNotOwed DEF Owed
<1>5. \A m \in Owed(q) : HasDeadline(sig[s], m) => HasDeadline(g, m)
    BY <1>4, CancelKeepsDeadline, Parts DEF SigTypeOK, Owed
<1> HIDE DEF g
<1> QED
    BY <1>1, <1>3, <1>4, <1>5, TimedSave

\* A failed node is owed none either.
LEMMA TimedFailNode ==
    ASSUME TypeOK, TimedOK, NEW s \in Servers, NEW n \in Nodes, NEW cause \in Cause,
           NEW g, FailNode(s, co[s], n, cause, g),
           co[s].pc \notin {"dispatched", "dispatch_record"},
           \A m \in Nodes \ {n} : HasDeadline(sig[s], m) => HasDeadline(g, m)
    PROVE  TimedOK'
<1> DEFINE q == [co[s] EXCEPT !.mem = mark_failed(@, n), !.node = n, !.cause = cause]
<1>1. co[s] \in CoordinatorState /\ co[s].mem \in Statuses
    BY Parts DEF CoTypeOK, CoordinatorState
<1>2. mark_failed(co[s].mem, n) \in Statuses
    BY <1>1, MarkType
<1>3. /\ q \in CoordinatorState
      /\ q.stage = co[s].stage /\ q.mem = mark_failed(co[s].mem, n)
    BY <1>1, <1>2 DEF CoordinatorState
<1>4. PersistOrFinish(s, q, "cancel") /\ sig' = [sig EXCEPT ![s] = g]
    BY DEF FailNode
<1> HIDE DEF q
<1>5. Owed(q) \subseteq Owed(co[s]) \ {n}
    BY <1>1, <1>3, MarkedIsNotOwed DEF Owed
<1>6. \A m \in Owed(q) : HasDeadline(sig[s], m) => HasDeadline(g, m)
    BY <1>5 DEF Owed
<1> QED
    BY <1>3, <1>4, <1>5, <1>6, TimedSave

----------------------------------------------------------------------------
(* The steps of run()                                                      *)

\* The steps that only move a coordinator, outside loop and dispatch.
LEMMA TimedMove ==
    ASSUME TypeOK, TimedOK, NEW s \in Servers,
           \/ RecordPipelineStarted(s) \/ SaveInitial(s)
           \/ ReportStatus(s) \/ CleanupRun(s) \/ ReleaseLease(s)
           \/ ReclaimStep(s) \/ Launch(s) \/ ResumeReconstructed(s)
    PROVE  TimedOK'
<1>1. /\ UNCHANGED sig
      /\ \/ UNCHANGED co
         \/ /\ co[s].pc \notin {"dispatched", "dispatch_record"}
            /\ \E pc \in {"load", "subscribe", "cleanup", "release", "delete", "reclaim",
                          "reclaim_row", "off", "discard", "acquire", "discard_release",
                          "discard_delete"} : Goto(s, pc)
    BY DEF RecordPipelineStarted, SaveInitial, ReportStatus, CleanupRun, ReleaseLease,
           ReclaimStep, ListOrphan, LoadOrphan, ReclaimOrphan, DiscardOrphan,
           Launch, ResumeReconstructed, coordVars
<1>2. CASE UNCHANGED co
    BY <1>1, <1>2, TimedStay
<1>3. CASE ~UNCHANGED co
    BY <1>1, <1>3, TimedGoto, Parts
<1> QED
    BY <1>2, <1>3

\* A fresh run has nothing running; a loaded one owes nothing yet.
LEMMA TimedStart ==
    ASSUME TypeOK, TimedOK, NEW s \in Servers, AcquireLease(s) \/ LoadRun(s)
    PROVE  TimedOK'
<1> DEFINE held == [co[s] EXCEPT !.pc = "acquired", !.lease_version = lease_ver + 1]
           loaded == [co[s] EXCEPT !.pc = "read_outcomes", !.stage = "fold",
                                   !.mem = store.statuses, !.version = store.version]
           seeded == [sig[s] EXCEPT !.seed = {n \in Nodes : store.statuses[n] = "running"}]
<1>1. /\ co[s].pc \in {"acquire", "load"}
      /\ \/ UNCHANGED sig /\ \E pc \in {"off", "save_initial", "subscribe"} : Goto(s, pc)
         \/ UNCHANGED sig /\ co' = [co EXCEPT ![s] = held]
         \/ UNCHANGED sig /\ co' = [co EXCEPT ![s] = Stopped]
         \/ sig' = [sig EXCEPT ![s] = seeded] /\ co' = [co EXCEPT ![s] = loaded]
    BY Parts DEF AcquireLease, LoadRun, CoTypeOK, SigTypeOK
<1>2. /\ held.pc = "acquired" /\ held.mem = co[s].mem /\ held.stage = co[s].stage
      /\ loaded.pc = "read_outcomes" /\ loaded.stage = "fold"
    BY Parts DEF CoTypeOK, CoordinatorState
<1> HIDE DEF held, loaded, seeded
<1>3. Timed(held, sig[s])
    BY <1>1, <1>2, TimedLess DEF Owed, Placed
<1>4. Timed(loaded, seeded)
    BY <1>2 DEF Timed, Owed, Placed
<1>5. Timed(Stopped, sig[s])
    BY TimedStopped
<1> QED
    BY <1>1, <1>3, <1>4, <1>5, TimedPut, TimedPutRecord, TimedGoto, Parts

\* Reading S3 starts nothing.
LEMMA TimedOutcomes ==
    ASSUME TypeOK, TimedOK, NEW s \in Servers, ReadOutcomes(s) \/ PeriodicReconcile(s)
    PROVE  TimedOK'
<1>1. CASE ReadOutcomes(s)
    <2>1. PICK readable \in Readable :
              LET outcomes == read_outcomes(co[s], readable)
              IN  co' = [co EXCEPT ![s] = Resume([co[s] EXCEPT !.outcomes = outcomes,
                                                  !.work = CompletedIn(outcomes)])]
        BY <1>1 DEF ReadOutcomes
    <2> DEFINE outcomes == read_outcomes(co[s], readable)
               read == [co[s] EXCEPT !.outcomes = outcomes, !.work = CompletedIn(outcomes)]
    <2>2. read \in CoordinatorState /\ read.mem = co[s].mem /\ read.stage = co[s].stage
        BY ReadOutcomesOperatorType, Parts DEF CoTypeOK, CoordinatorState
    <2>3. UNCHANGED sig /\ co' = [co EXCEPT ![s] = Resume(read)]
          /\ co[s].pc = "read_outcomes"
        BY <1>1, <2>1 DEF ReadOutcomes
    <2> HIDE DEF read
    <2>4. Owed(Resume(read)) \subseteq Owed(co[s])
        BY <2>2, OwedResume DEF Owed
    <2>5. Timed(Resume(read), sig[s])
        BY <2>2, <2>3, <2>4, OwedResume, TimedLess DEF Placed
    <2> QED
        BY <2>3, <2>5, TimedPutRecord, Parts
<1>2. CASE PeriodicReconcile(s)
    <2> DEFINE outcomes == read_outcomes(co[s], Nodes)
               read == [co[s] EXCEPT !.pc = "fold", !.outcomes = outcomes,
                                     !.work = CompletedIn(outcomes)]
    <2>1. /\ co' = [co EXCEPT ![s] = read] /\ UNCHANGED sig /\ co[s].pc = "loop"
          /\ read.pc = "fold" /\ read.mem = co[s].mem /\ read.stage = co[s].stage
        BY <1>2, Parts DEF PeriodicReconcile, CoTypeOK, CoordinatorState
    <2> HIDE DEF read
    <2>2. Timed(read, sig[s])
        BY <2>1, TimedLess DEF Owed, Placed
    <2> QED
        BY <2>1, <2>2, TimedPutRecord, Parts
<1> QED
    BY <1>1, <1>2

\* A fold completes its node.
LEMMA TimedFold ==
    ASSUME TypeOK, TimedOK, NEW s \in Servers, FoldCompletion(s)
    PROVE  TimedOK'
<1>1. PICK n \in co[s].work :
          handle_node_completed(s, [co[s] EXCEPT !.work = @ \ {n}], n,
                                co[s].outcomes[n] = "success")
    BY DEF FoldCompletion
<1> DEFINE r == [co[s] EXCEPT !.work = @ \ {n}]
<1>2. /\ n \in Nodes /\ r \in CoordinatorState /\ r.mem = co[s].mem /\ r.stage = co[s].stage
      /\ co[s].pc = "fold"
    BY Parts DEF CoTypeOK, CoordinatorState, FoldCompletion
<1> HIDE DEF r
<1>3. handle_node_completed(s, r, n, co[s].outcomes[n] = "success")
    BY <1>1 DEF r
<1> QED
    BY <1>2, <1>3, TimedCompleted

\* cancel_node tells the watcher something, and no timer.
LEMMA TimedCancelNode ==
    ASSUME TypeOK, TimedOK, NEW s \in Servers, CancelNode(s)
    PROVE  TimedOK'
<1> DEFINE r == [co[s] EXCEPT !.pc = "record"]
           g == [sig[s] EXCEPT !.expected = @ \cup {co[s].node}]
<1>1. /\ co' = [co EXCEPT ![s] = r] /\ sig' = [sig EXCEPT ![s] = g] /\ co[s].pc = "cancel"
      /\ r.pc = "record" /\ r.mem = co[s].mem /\ r.stage = co[s].stage
      /\ g.handle = sig[s].handle /\ g.inbox = sig[s].inbox
    BY Parts DEF CancelNode, Goto, CoTypeOK, SigTypeOK, CoordinatorState, SignalState
<1> HIDE DEF r, g
<1>2. \A n \in Nodes : HasDeadline(sig[s], n) => HasDeadline(g, n)
    BY <1>1, DeadlineSame
<1>3. Timed(r, g)
    BY <1>1, <1>2, TimedLess DEF Owed, Placed
<1> QED
    BY <1>1, <1>3, TimedPut, Parts

\* Neither a recorded completion nor fail_fast starts anything.
LEMMA TimedRecordNodeCompleted ==
    ASSUME TypeOK, TimedOK, NEW s \in Servers, RecordNodeCompleted(s)
    PROVE  TimedOK'
<1>1. co[s] \in CoordinatorState /\ co[s].pc = "record" /\ UNCHANGED sig
    BY Parts DEF CoTypeOK, RecordNodeCompleted
<1>2. Timed(Finish(co[s], "failure"), sig[s]) /\ Timed(EnterDispatch(co[s]), sig[s])
    BY <1>1, OwedFinish, OwedEnterDispatch, TimedLess DEF Placed
<1>3. \/ co' = [co EXCEPT ![s] = Finish(co[s], "failure")]
      \/ co' = [co EXCEPT ![s] = EnterDispatch(co[s])]
    BY DEF RecordNodeCompleted
<1> QED
    BY <1>1, <1>2, <1>3, TimedPutRecord, Parts

\* A dispatched node is the one being armed.
LEMMA TimedDispatchNode ==
    ASSUME TypeOK, TimedOK, NEW s \in Servers, DispatchNode(s)
    PROVE  TimedOK'
<1>1. PICK n \in co[s].todo : \E st, cause :
          /\ co' = [co EXCEPT ![s].pc = "dispatched", ![s].todo = @ \ {n}, ![s].node = n,
                              ![s].cause = cause, ![s].mem = st]
          /\ \/ cause = "dispatched" /\ st = mark_running(co[s].mem, n)
             \/ cause = "dispatch_failed" /\ st = mark_dispatch_failed(co[s].mem, n)
    BY Parts DEF DispatchNode, CoTypeOK
<1>2. PICK st, cause :
          /\ co' = [co EXCEPT ![s].pc = "dispatched", ![s].todo = @ \ {n}, ![s].node = n,
                              ![s].cause = cause, ![s].mem = st]
          /\ \/ cause = "dispatched" /\ st = mark_running(co[s].mem, n)
             \/ cause = "dispatch_failed" /\ st = mark_dispatch_failed(co[s].mem, n)
    BY <1>1
<1> DEFINE r == [co[s] EXCEPT !.pc = "dispatched", !.todo = @ \ {n}, !.node = n,
                              !.cause = cause, !.mem = st]
<1>3. /\ n \in Nodes /\ co[s].mem \in Statuses /\ co[s].pc = "dispatch"
      /\ r.pc = "dispatched" /\ r.node = n /\ r.cause = cause /\ r.mem = st
      /\ r.stage = co[s].stage
    BY Parts DEF CoTypeOK, CoordinatorState, DispatchNode
<1>4. co' = [co EXCEPT ![s] = r] /\ UNCHANGED sig
    BY <1>2, Parts DEF CoTypeOK, DispatchNode
<1> HIDE DEF r
<1>5. \A m \in Owed(co[s]) : HasDeadline(sig[s], m)
    BY <1>3 DEF TimedOK, Timed, BeingArmed, Placed
<1>6. \A m \in Owed(r) : m \in Owed(co[s]) \/ (m = n /\ cause = "dispatched")
    BY <1>2, <1>3 DEF Owed, mark_running, mark_dispatch_failed, Statuses
<1>7. Timed(r, sig[s])
    BY <1>3, <1>5, <1>6 DEF Timed, BeingArmed, Placed
<1> QED
    BY <1>4, <1>7, TimedPutRecord, Parts

\* It still is after the save.
LEMMA TimedPersistDispatch ==
    ASSUME TypeOK, TimedOK, NEW s \in Servers, PersistDispatch(s)
    PROVE  TimedOK'
<1>1. /\ co[s] \in CoordinatorState /\ co[s].pc = "dispatched" /\ UNCHANGED sig
      /\ PersistAnyhow(s, co[s], "dispatch_record")
    BY Parts DEF CoTypeOK, PersistDispatch
<1>2. PICK p \in {co[s], Persisted(co[s])} :
          co' = [co EXCEPT ![s] = [p EXCEPT !.pc = "dispatch_record"]]
    BY <1>1, PersistCases
<1> DEFINE r == [p EXCEPT !.pc = "dispatch_record"]
<1>3. /\ p \in CoordinatorState /\ p.mem = co[s].mem /\ p.stage = co[s].stage
      /\ p.node = co[s].node /\ p.cause = co[s].cause
    BY <1>1, PersistedFields
<1>4. /\ r.pc = "dispatch_record" /\ r.mem = co[s].mem /\ r.stage = co[s].stage
      /\ r.node = co[s].node /\ r.cause = co[s].cause
    BY <1>3 DEF CoordinatorState
<1>5. co' = [co EXCEPT ![s] = r]
    BY <1>2
<1> HIDE DEF r
<1>6. Timed(r, sig[s])
    BY <1>1, <1>4 DEF TimedOK, Timed, Owed, BeingArmed, Placed
<1> QED
    BY <1>1, <1>5, <1>6, TimedPutRecord, Parts

\* After record_node_dispatched it has its startup timer.
LEMMA TimedRecordDispatch ==
    ASSUME TypeOK, HandsOK, TimedOK, NEW s \in Servers, RecordDispatch(s)
    PROVE  TimedOK'
<1> DEFINE n == co[s].node
           g == IF co[s].cause = "dispatched" THEN arm(sig[s], n, "startup") ELSE sig[s]
           r == [co[s] EXCEPT !.pc = "dispatch", !.node = NoNode, !.cause = "none"]
<1>1. /\ co[s] \in CoordinatorState /\ sig[s] \in SignalState /\ n \in Nodes
      /\ co[s].pc = "dispatch_record"
    BY Parts DEF CoTypeOK, SigTypeOK, RecordDispatch, HandsOK, Hands, Busy
<1>2. sig' = [sig EXCEPT ![s] = g]
    BY Parts DEF RecordDispatch, SigTypeOK
<1>3. co' = [co EXCEPT ![s] = Resume(co[s])] \/ co' = [co EXCEPT ![s] = r]
    BY DEF RecordDispatch
<1>4. r.pc = "dispatch" /\ r.mem = co[s].mem /\ r.stage = co[s].stage
    BY <1>1 DEF CoordinatorState
<1>5. \A m \in Owed(co[s]) : HasDeadline(g, m)
    <2> SUFFICES ASSUME NEW m \in Owed(co[s]) PROVE HasDeadline(g, m)
        OBVIOUS
    <2>1. m \in Nodes /\ (HasDeadline(sig[s], m) \/ BeingArmed(co[s], m))
        BY DEF Owed, TimedOK, Timed
    <2>2. CASE co[s].cause = "dispatched"
        <3>1. g.handle = [sig[s].handle EXCEPT ![n] = "startup"] /\ g.inbox = sig[s].inbox
            BY <1>1, <2>2 DEF arm, SignalState
        <3>2. g.handle[n] = "startup" /\ (m # n => g.handle[m] = sig[s].handle[m])
            BY <1>1, <2>1, <3>1 DEF SignalState
        <3> HIDE DEF g
        <3>3. CASE m = n
            BY <3>2, <3>3 DEF HasDeadline, Running
        <3>4. CASE m # n
            BY <2>1, <3>1, <3>2, <3>4, DeadlineSame DEF BeingArmed
        <3> QED
            BY <3>3, <3>4
    <2>3. CASE co[s].cause # "dispatched"
        BY <2>1, <2>3 DEF BeingArmed
    <2> QED
        BY <2>2, <2>3
<1> HIDE DEF g, r
<1>6. Timed(r, g)
    BY <1>4, <1>5 DEF Timed, Owed, Placed
<1>7. Timed(Resume(co[s]), g)
    BY <1>1, <1>5, OwedResume DEF Timed
<1> QED
    BY <1>2, <1>3, <1>6, <1>7, TimedPut, Parts

\* Promotion happens while nothing is owed.
LEMMA TimedPromote ==
    ASSUME TypeOK, TimedOK, NEW s \in Servers, PromoteNode(s)
    PROVE  TimedOK'
<1>1. PICK n \in co[s].work :
          LET r == [co[s] EXCEPT !.work = @ \ {n}]
          IN  IF r.mem[n] = "pending"
              THEN PersistAnyhow(s, [r EXCEPT !.mem = mark_running(@, n), !.node = n],
                                 "promote_check")
              ELSE /\ co' = [co EXCEPT ![s] = Resume(r)]
                   /\ UNCHANGED store
    BY DEF PromoteNode
<1> DEFINE r == [co[s] EXCEPT !.work = @ \ {n}]
           q == [r EXCEPT !.mem = mark_running(@, n), !.node = n]
<1>2. /\ co[s] \in CoordinatorState /\ n \in Nodes
      /\ co[s].stage = "promote" /\ UNCHANGED sig
    BY Parts DEF CoTypeOK, CoordinatorState, PromoteNode, TimedOK, Timed, Placed
<1>3. r \in CoordinatorState /\ r.mem \in Statuses /\ r.stage = "promote"
    BY <1>2 DEF CoordinatorState
<1>4. \/ PersistAnyhow(s, q, "promote_check")
      \/ co' = [co EXCEPT ![s] = Resume(r)]
    BY <1>1
<1> HIDE DEF r
<1>5. q \in CoordinatorState /\ q.stage = "promote"
    BY <1>2, <1>3, MarkType DEF CoordinatorState
<1> HIDE DEF q
<1>6. CASE PersistAnyhow(s, q, "promote_check")
    <2>1. PICK p \in {q, Persisted(q)} :
              co' = [co EXCEPT ![s] = [p EXCEPT !.pc = "promote_check"]]
        BY <1>6, PersistCases
    <2> DEFINE next == [p EXCEPT !.pc = "promote_check"]
    <2>2. p \in CoordinatorState /\ p.stage = "promote"
        BY <1>5, PersistedFields
    <2>3. next.pc = "promote_check" /\ next.stage = "promote"
        BY <2>2 DEF CoordinatorState
    <2>4. co' = [co EXCEPT ![s] = next]
        BY <2>1
    <2> HIDE DEF next
    <2>5. Timed(next, sig[s])
        BY <2>3 DEF Timed, Owed, Placed
    <2> QED
        BY <1>2, <2>4, <2>5, TimedPutRecord, Parts
<1>7. CASE co' = [co EXCEPT ![s] = Resume(r)]
    <2>1. Timed(Resume(r), sig[s])
        BY <1>3, OwedResume DEF Timed, Owed
    <2> QED
        BY <1>2, <1>7, <2>1, TimedPutRecord, Parts
<1> QED
    BY <1>4, <1>6, <1>7

\* A promoted node without a pod fails, while nothing is owed.
LEMMA TimedPromoteCheck ==
    ASSUME TypeOK, HandsOK, TimedOK, NEW s \in Servers, PromoteCheck(s)
    PROVE  TimedOK'
<1> DEFINE n == co[s].node
           g == cancel_node_timeout(sig[s], n)
<1>1. /\ co[s] \in CoordinatorState /\ sig[s] \in SignalState /\ n \in Nodes
      /\ co[s].pc = "promote_check" /\ "infra" \in Cause
    BY Parts DEF CoTypeOK, SigTypeOK, HandsOK, Hands, Busy, PromoteCheck, Cause
<1>2. \/ co' = [co EXCEPT ![s] = Resume(co[s])] /\ UNCHANGED sig
      \/ FailNode(s, co[s], n, "infra", g)
    BY DEF PromoteCheck
<1>3. Timed(Resume(co[s]), sig[s])
    BY <1>1, OwedResume, TimedLess
<1>4. \A m \in Nodes \ {n} : HasDeadline(sig[s], m) => HasDeadline(g, m)
    BY <1>1, CancelKeepsDeadline
<1> HIDE DEF n, g
<1> QED
    BY <1>1, <1>2, <1>3, <1>4, TimedPutRecord, TimedFailNode, Parts

\* rehydrate_phase_timers arms every running node.
LEMMA TimedRehydrate ==
    ASSUME TypeOK, TimedOK, NEW s \in Servers, RehydrateTimers(s)
    PROVE  TimedOK'
<1> DEFINE running == {n \in Nodes : co[s].mem[n] = "running"}
           replaced == {n \in running : Running(sig[s].handle[n])}
<1>1. PICK found \in Recordable :
         sig' = [sig EXCEPT
             ![s].handle = [n \in Nodes |-> IF n \in running
                                            THEN TimerPhaseFor(co[s], n, found) ELSE @[n]],
             ![s].detached = @ \cup {<<n, sig[s].handle[n]>> : n \in replaced}]
    BY DEF RehydrateTimers
<1> DEFINE handles == [n \in Nodes |-> IF n \in running THEN TimerPhaseFor(co[s], n, found)
                                                        ELSE sig[s].handle[n]]
           lost == sig[s].detached \cup {<<n, sig[s].handle[n]>> : n \in replaced}
           g == [sig[s] EXCEPT !.handle = handles, !.detached = lost]
           next == [co[s] EXCEPT !.pc = "subscribe", !.stage = "start",
                                 !.outcomes = [n \in Nodes |-> "none"]]
           over == Finish(co[s], outcome_status(co[s].mem))
<1>2. co[s] \in CoordinatorState /\ sig[s] \in SignalState
    BY Parts DEF CoTypeOK, SigTypeOK
<1>3. sig' = [sig EXCEPT ![s] = g]
    BY <1>1, <1>2, Parts DEF SigTypeOK, SignalState
<1>4. co' = [co EXCEPT ![s] = IF is_complete(co[s].mem) THEN over ELSE next]
    BY DEF RehydrateTimers
<1>5. \A n \in running : Running(handles[n])
    BY DEF TimerPhaseFor, Running
<1> HIDE DEF handles, lost
<1>6. g.handle = handles
    BY <1>2 DEF SignalState
<1>7. next.pc = "subscribe" /\ next.mem = co[s].mem
    BY <1>2 DEF CoordinatorState
<1>8. over.pc = "finalize" /\ Owed(over) = Owed(co[s])
    BY <1>2, OwedFinish
<1> HIDE DEF g, next, over
<1>9. Timed(next, g) /\ Timed(over, g)
    BY <1>5, <1>6, <1>7, <1>8 DEF Timed, Owed, Placed, HasDeadline
<1> QED
    BY <1>3, <1>4, <1>9, TimedPut, Parts

\* Subscribing leads into the dispatch loop or ends the task.
LEMMA TimedSubscribe ==
    ASSUME TypeOK, TimedOK, NEW s \in Servers, Subscribe(s)
    PROVE  TimedOK'
<1>1. co[s] \in CoordinatorState /\ co[s].pc = "subscribe"
    BY Parts DEF CoTypeOK, Subscribe
<1>2. Timed(EnterDispatch(co[s]), sig[s])
    BY <1>1, OwedEnterDispatch, TimedLess
<1>3. Stop(s) \/ (co' = [co EXCEPT ![s] = EnterDispatch(co[s])] /\ UNCHANGED sig)
    BY DEF Subscribe
<1> QED
    BY <1>2, <1>3, TimedPutRecord, TimedStop, Parts

\* record_history leaves no node running.
LEMMA TimedTerminated ==
    ASSUME TypeOK, TimedOK, NEW s \in Servers, RecordTerminated(s)
    PROVE  TimedOK'
<1> DEFINE running == {n \in Nodes : co[s].mem[n] = "running"}
           st == [n \in Nodes |-> IF n \in running THEN "failed" ELSE co[s].mem[n]]
           r == [co[s] EXCEPT !.pc = "report", !.mem = st]
<1>1. co' = [co EXCEPT ![s] = r] /\ UNCHANGED sig
    BY Parts DEF RecordTerminated, CoTypeOK
<1>2. r.pc = "report" /\ r.mem = st
    BY Parts DEF CoTypeOK, CoordinatorState
<1>3. \A n \in Nodes : st[n] # "running"
    OBVIOUS
<1> HIDE DEF r, st
<1>4. Timed(r, sig[s])
    BY <1>2, <1>3 DEF Timed, Owed, Placed
<1> QED
    BY <1>1, <1>4, TimedPutRecord, Parts

----------------------------------------------------------------------------
(* The select loop and the tasks beside it                                 *)

\* The loop's exits.
LEMMA TimedExit ==
    ASSUME TypeOK, TimedOK, NEW s \in Servers,
           HeartbeatFails(s) \/ PipelineDeadline(s) \/ SubscriptionClosed(s) \/ ReceiveCancel(s)
    PROVE  TimedOK'
<1>1. co[s] \in CoordinatorState /\ co[s].pc = "loop"
    BY Parts
    DEF CoTypeOK, HeartbeatFails, PipelineDeadline, SubscriptionClosed, ReceiveCancel, Receives
<1>2. Timed(Finish(co[s], "failure"), sig[s]) /\ Timed(Finish(co[s], "cancelled"), sig[s])
    BY <1>1, OwedFinish, TimedLess DEF Placed
<1>3. \/ Stop(s)
      \/ /\ UNCHANGED sig
         /\ \/ co' = [co EXCEPT ![s] = Finish(co[s], "failure")]
            \/ co' = [co EXCEPT ![s] = Finish(co[s], "cancelled")]
    BY DEF HeartbeatFails, PipelineDeadline, SubscriptionClosed, ReceiveCancel
<1> QED
    BY <1>2, <1>3, TimedPutRecord, TimedStop, Parts

\* A completion that was poked.
LEMMA TimedReceive ==
    ASSUME TypeOK, TimedOK, NEW s \in Servers, ReceiveNodeCompleted(s)
    PROVE  TimedOK'
<1>1. Head(events) \in BackplaneEvent
    BY NextEventType, Parts DEF ReceiveNodeCompleted, Receives
<1>2. Head(events).node \in Nodes /\ Head(events).success \in BOOLEAN
    BY <1>1 DEF ReceiveNodeCompleted, BackplaneEvent
<1>3. co[s] \in CoordinatorState /\ co[s].pc = "loop"
    BY Parts DEF CoTypeOK, ReceiveNodeCompleted, Receives
<1> QED
    BY <1>2, <1>3, TimedCompleted DEF ReceiveNodeCompleted

\* handle_pod_running trades the startup timer for the runtime timer, and the
\* message it takes is no deadline.
LEMMA TimedPodRunning ==
    ASSUME TypeOK, TimedOK, NEW s \in Servers, HandlePodRunning(s)
    PROVE  TimedOK'
<1> DEFINE n == Head(sig[s].inbox).node
           old == Consumed(s)
           g == [old EXCEPT !.handle[n] =
                    IF @ \in {"runtime", "runtime_fired"} THEN @ ELSE "runtime"]
<1>1. n \in Nodes /\ old \in SignalState /\ co[s].pc = "loop"
    BY Parts, ConsumedType DEF HandlePodRunning, Got
<1>2. sig' = [sig EXCEPT ![s] = g] /\ UNCHANGED co
    BY DEF HandlePodRunning
<1>3. \A m \in Nodes : HasDeadline(sig[s], m) => HasDeadline(old, m)
    BY ConsumedKeepsDeadline, Parts DEF HandlePodRunning, Got
<1> HIDE DEF n, old
<1>4. /\ g.inbox = old.inbox
      /\ \A m \in Nodes : g.handle[m] = old.handle[m] \/ g.handle[m] = "runtime"
    BY <1>1 DEF SignalState
<1> HIDE DEF g
<1>5. \A m \in Nodes : HasDeadline(old, m) => HasDeadline(g, m)
    BY <1>4 DEF HasDeadline, Running
<1>6. Timed(co[s], g)
    BY <1>1, <1>3, <1>5, TimedLess DEF TimedOK, Timed, Owed
<1> QED
    BY <1>2, <1>6, TimedPutSignals, Parts

\* A failure or a timeout taken from the channel fails its node, or finds it
\* over.
LEMMA TimedFailure ==
    ASSUME TypeOK, TimedOK, NEW s \in Servers, NEW type, HandleNodeFailure(s, type)
    PROVE  TimedOK'
<1> DEFINE n == Head(sig[s].inbox).node
           cause == IF type = "timed_out" THEN "failure" ELSE "infra"
           g == IF type = "timed_out" THEN Consumed(s)
                ELSE cancel_node_timeout(Consumed(s), n)
<1>1. /\ n \in Nodes /\ cause \in Cause /\ Consumed(s) \in SignalState
      /\ co[s].pc = "loop" /\ sig[s].inbox # << >>
    BY Parts, ConsumedType DEF HandleNodeFailure, Got, Cause
<1>2. \A m \in Nodes \ {n} : HasDeadline(sig[s], m) => HasDeadline(Consumed(s), m)
    BY <1>1, ConsumedKeepsDeadline, Parts
<1>3. \A m \in Nodes \ {n} : HasDeadline(sig[s], m) => HasDeadline(g, m)
    BY <1>1, <1>2, CancelKeepsDeadline
<1>4. \/ FailNode(s, co[s], n, cause, g)
      \/ /\ ~Active(co[s].mem, n)
         /\ sig' = [sig EXCEPT ![s] = Consumed(s)] /\ UNCHANGED co
    BY DEF HandleNodeFailure
<1> HIDE DEF n, cause, g
<1>5. CASE FailNode(s, co[s], n, cause, g)
    BY <1>1, <1>3, <1>5, TimedFailNode
<1>6. CASE /\ ~Active(co[s].mem, n)
           /\ sig' = [sig EXCEPT ![s] = Consumed(s)] /\ UNCHANGED co
    <2>1. n \notin Owed(co[s])
        BY <1>6 DEF Owed, Active
    <2>2. Timed(co[s], Consumed(s))
        BY <1>1, <1>2, <2>1, TimedLess DEF TimedOK, Timed, Owed
    <2> QED
        BY <1>6, <2>2, TimedPutSignals, Parts
<1> QED
    BY <1>4, <1>5, <1>6

\* Signals that take no deadline keep the coordinator timed.
LEMMA TimedMoreSignals ==
    ASSUME CoTypeOK, SigTypeOK, TimedOK, NEW s \in Servers, NEW g,
           sig' = [sig EXCEPT ![s] = g], UNCHANGED co,
           \A m \in Nodes : HasDeadline(sig[s], m) => HasDeadline(g, m)
    PROVE  TimedOK'
<1>1. Timed(co[s], g)
    BY DEF TimedOK, Timed, Owed
<1> QED
    BY <1>1, TimedPutSignals

\* A timer that fires becomes a timeout in the channel.
LEMMA TimedTimerFires ==
    ASSUME TypeOK, TimedOK, NEW s \in Servers, NEW n \in Nodes, TimerFires(s, n)
    PROVE  TimedOK'
<1> DEFINE phase == sig[s].handle[n]
           type == TimeoutMessage(phase)
           sent == Send(sig[s], type, n)
           g == [sent EXCEPT !.handle[n] = Fired(phase)]
<1>1. /\ sig[s] \in SignalState /\ type \in {"start_timeout", "timed_out"}
      /\ sig' = [sig EXCEPT ![s] = g] /\ UNCHANGED co
    BY Parts DEF TimerFires, SigTypeOK, TimeoutMessage
<1> HIDE DEF type
<1>2. sent \in SignalState /\ sent.handle = sig[s].handle
    BY <1>1, SendType DEF Send, SignalState
<1>3. /\ g.inbox = sent.inbox
      /\ \A m \in Nodes \ {n} : g.handle[m] = sig[s].handle[m]
    BY <1>2 DEF SignalState
<1> HIDE DEF g
<1>4. \A m \in Nodes : HasDeadline(sig[s], m) => HasDeadline(g, m)
    BY <1>1, <1>3, SendKeepsDeadline
<1> QED
    BY <1>1, <1>4, TimedMoreSignals, Parts

\* One more message takes no deadline.
LEMMA TimedSend ==
    ASSUME TypeOK, TimedOK, NEW s \in Servers, NEW n \in Nodes, NEW g,
           NEW type \in {"start_timeout", "timed_out", "pod_running", "infra_failed"},
           sig' = [sig EXCEPT ![s] = g], UNCHANGED co,
           g.inbox = Send(sig[s], type, n).inbox, g.handle = sig[s].handle
    PROVE  TimedOK'
<1>1. sig[s] \in SignalState
    BY Parts DEF SigTypeOK
<1>2. \A m \in Nodes : HasDeadline(sig[s], m) => HasDeadline(g, m)
    BY <1>1, SendKeepsDeadline
<1> QED
    BY <1>2, TimedMoreSignals, Parts

\* A detached timer that fires sends one.
LEMMA TimedDetached ==
    ASSUME TypeOK, TimedOK, NEW s \in Servers, DetachedTimerFires(s)
    PROVE  TimedOK'
<1>1. PICK t \in sig[s].detached :
          sig' = [sig EXCEPT ![s] = [Send(sig[s], TimeoutMessage(t[2]), t[1]) EXCEPT
                                          !.detached = @ \ {t}]]
    BY DEF DetachedTimerFires
<1> DEFINE type == TimeoutMessage(t[2])
           sent == Send(sig[s], type, t[1])
           g == [sent EXCEPT !.detached = @ \ {t}]
<1>2. /\ sig[s] \in SignalState /\ type \in {"start_timeout", "timed_out"}
      /\ sig' = [sig EXCEPT ![s] = g] /\ UNCHANGED co
    BY <1>1, Parts DEF DetachedTimerFires, SigTypeOK, TimeoutMessage
<1>3. t[1] \in Nodes
    BY <1>2 DEF SignalState
<1> HIDE DEF type
<1>4. sent \in SignalState /\ sent.handle = sig[s].handle
    BY <1>2, <1>3, SendType DEF Send, SignalState
<1>5. g.inbox = sent.inbox /\ g.handle = sig[s].handle
    BY <1>4 DEF SignalState
<1> HIDE DEF g
<1> QED
    BY <1>2, <1>3, <1>5, TimedSend

\* So does the pod watcher.
LEMMA TimedWatcher ==
    ASSUME TypeOK, TimedOK, NEW s \in Servers, NEW n \in Nodes,
           WatcherReportsRunning(s, n) \/ WatcherReportsFailure(s, n)
    PROVE  TimedOK'
<1> DEFINE up == Send(sig[s], "pod_running", n)
           down == Send(sig[s], "infra_failed", n)
           next_up == [up EXCEPT !.told = @ \cup {<<n, "running">>}]
           next_down == [down EXCEPT !.told = @ \cup {<<n, "failed">>}]
<1>1. /\ up \in SignalState /\ down \in SignalState
      /\ up.handle = sig[s].handle /\ down.handle = sig[s].handle
    <2>1. sig[s] \in SignalState
        BY Parts DEF SigTypeOK
    <2> QED
        BY <2>1, SendType DEF Send, SignalState
<1>2. /\ UNCHANGED co
      /\ \/ sig' = [sig EXCEPT ![s] = next_up]
         \/ sig' = [sig EXCEPT ![s] = next_down]
    BY Zenon DEF WatcherReportsRunning, WatcherReportsFailure
<1>3. /\ next_up.inbox = up.inbox /\ next_up.handle = up.handle
      /\ next_down.inbox = down.inbox /\ next_down.handle = down.handle
    BY <1>1 DEF SignalState
<1> HIDE DEF next_up, next_down
<1> QED
    BY <1>1, <1>2, <1>3, TimedSend

----------------------------------------------------------------------------
(* The invariant and the theorem                                           *)

\* A live coordinator's own step keeps every coordinator timed.
LEMMA RunStepTimed ==
    ASSUME TypeOK, HandsOK, TimedOK, NEW s \in Servers, RunStep(s)
    PROVE  TimedOK'
BY TimedStart, TimedMove, TimedOutcomes, TimedFold, TimedPromote, TimedPromoteCheck,
   TimedRehydrate, TimedSubscribe, TimedCancelNode, TimedRecordNodeCompleted,
   TimedDispatchNode, TimedPersistDispatch, TimedRecordDispatch, TimedTerminated,
   TimedStop, Parts
DEF RunStep, DeleteRun

\* A branch of the select loop does.
LEMMA LoopStepTimed ==
    ASSUME TypeOK, TimedOK, NEW s \in Servers, LoopStep(s)
    PROVE  TimedOK'
BY TimedOutcomes, TimedExit, TimedReceive, TimedPodRunning, TimedFailure
DEF LoopStep, HandleNodeInfraFailed, HandlePodStartTimedOut, HandleNodeTimedOut

\* So does a timer or the pod watcher.
LEMMA SignalStepTimed ==
    ASSUME TypeOK, TimedOK, NEW s \in Servers, SignalStep(s)
    PROVE  TimedOK'
BY TimedDetached, TimedTimerFires, TimedWatcher DEF SignalStep

\* And a step of the sweeps, which at most launch a coordinator.
LEMMA SweepStepTimed ==
    ASSUME TypeOK, TimedOK, SweepStep
    PROVE  TimedOK'
<1>1. \/ \E s \in Servers : ResumeReconstructed(s)
      \/ UNCHANGED <<co, sig>>
    BY DEF SweepStep, ListTerminal, ListInProgress, CheckRedisState, ListNodeRuns, ListManaged,
           FinalizeTerminal, ReapTerminal, RefreshRows, FinalizeReconciled, ReapKube,
           vars, coordVars
<1> QED
    BY <1>1, TimedMove, TimedStay

\* Every step of the cluster.
LEMMA TimedStep == TypeInv /\ TimedOK /\ [Next]_clusterVars => TimedOK'
<1> SUFFICES ASSUME TypeInv, TimedOK, [Next]_clusterVars PROVE TimedOK'
    OBVIOUS
<1>1. TypeOK /\ HandsOK
    BY DEF TypeInv, ClusterTypeOK
<1>2. CASE \E s \in Servers : RunStep(s) \/ LoopStep(s) \/ SignalStep(s)
    BY <1>1, <1>2, RunStepTimed, LoopStepTimed, SignalStepTimed
<1>3. CASE \E s \in Servers : Launch(s) \/ ReclaimStep(s)
    BY <1>1, <1>3, TimedMove
<1>4. CASE SweepStep
    BY <1>1, <1>4, SweepStepTimed
<1>5. CASE \E s \in Servers : Crash(s) \/ CrashInDispatch(s)
    BY <1>1, <1>5, TimedStop, Parts DEF Crash, CrashInDispatch
<1>6. CASE UNCHANGED <<co, sig>>
    BY <1>6, TimedStay
<1> QED
    BY <1>2, <1>3, <1>4, <1>5, <1>6
    DEF Next, Poke, RequestCancel, ExpireLease, clusterVars, vars, coordVars

\* From rehydrate_phase_timers on, whatever fails over, fires, is polled, is
\* cancelled or crashes, every running node has its deadline.
THEOREM TimedHolds == Spec => [](TypeInv /\ TimedOK)
<1>1. ClusterInit => TimedOK
    <2>1. Off.pc = "off" /\ Off.mem = NewRun
        BY DEF Off
    <2> QED
        BY <2>1 DEF ClusterInit, Init, CoordinatorInit, TimedOK, Timed, Owed, Placed, NewRun
<1> QED
    BY <1>1, TypeInvInit, TypeInvStep, TimedStep, PTL DEF Spec

\* A coordinator that waits in its loop waits for no running node without a
\* live timer or a timeout under way to it, for every graph, any number of
\* servers, with every signal and every fault.
THEOREM RunningNodeHasDeadlineTheorem == Spec => []RunningNodeHasDeadline
<1>1. TimedOK => RunningNodeHasDeadline
    BY DEF TimedOK, Timed, Owed, Placed, BeingArmed, RunningNodeHasDeadline
<1> QED
    BY <1>1, TimedHolds, PTL

============================================================================
