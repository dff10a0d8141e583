---------------------------- MODULE PodWatcher -----------------------------
(***************************************************************************)
(* The pod watcher of one run (coordinator/src/pod_watcher.rs) between the *)
(* Kubernetes watch it reads and the coordinator it reports to: a watcher  *)
(* task, a relay task and the coordinator's loop, joined by three bounded  *)
(* channels.  Of the coordinator only what touches these channels is kept; *)
(* the module Coordinator has the rest.                                    *)
(***************************************************************************)
EXTENDS Integers, Sequences, FiniteSets, SequencesExt

CONSTANTS
    Nodes,        \* the nodes of the pipeline
    Stages,       \* what the kubelet may report of a pod (subset of StageKinds)
    MaxPods,      \* bound: pods Kubernetes creates for one Job
    MaxBacklog,   \* bound: watch events under way
    MaxDesyncs,   \* bound: watches that expire and are listed again
    SignalCap,    \* capacity of the signal channel (128 in the code)
    CmdCap,       \* capacity of the command channel (32 in the code)
    InternalCap   \* capacity of the coordinator's channel (128 in the code)

StageKinds == {"scheduled", "init_failed", "pull_error", "create_error",
               "running", "ok", "exited", "oom"}

ASSUME WatcherAssumption ==
    /\ IsFiniteSet(Nodes)
    /\ Stages \subseteq StageKinds /\ "scheduled" \in Stages
    /\ MaxPods \in Nat \ {0} /\ MaxBacklog \in Nat /\ MaxDesyncs \in Nat
    /\ {SignalCap, CmdCap, InternalCap} \subseteq Nat \ {0}

VARIABLES
    job,        \* the nodes whose Job exists
    pod,        \* pod[n]: uid and stage of the newest pod of n
    gone,       \* gone[n][u]: how pod u of node n went away
    connected,  \* the watch is up
    stream,     \* watch events not handled yet
    desyncs,    \* watches lost so far
    w,          \* WatcherState and the signals send_signal is waiting to send
    cmds,       \* the command channel
    signals,    \* the signal channel and the signal the relay task holds
    inbox,      \* the coordinator's internal channel
    status,     \* status[n]: what the coordinator knows of node n
    c,          \* where the coordinator is
    absent,     \* history: nodes that had no pod when a list was taken
    missed      \* history: nodes whose last deletion no watch delivered

kubeVars == <<job, pod, gone>>
watchVars == <<connected, stream, desyncs>>
coordinatorVars == <<status, c>>
historyVars == <<absent, missed>>
watcherVars == <<kubeVars, watchVars, w, cmds, signals, inbox, coordinatorVars, historyVars>>

----------------------------------------------------------------------------
(* Pods and what the watcher makes of them                                 *)

Uids == 1..MaxPods
Sentinel == 0     \* REHYDRATION_SENTINEL_UID

Pod == [uid : 0..MaxPods, stage : Stages \cup {"none"}]
Exists(p) == p.stage # "none"

\* The statuses of the init container and of the main container that the
\* kubelet reports at each stage.
init_container_statuses(p) ==
    CASE p.stage = "scheduled"   -> << >>
      [] p.stage = "init_failed" -> <<"exit_nonzero">>
      [] OTHER                   -> <<"exit_zero">>

container_statuses(p) ==
    CASE p.stage = "scheduled"    -> << >>
      [] p.stage = "init_failed"  -> <<"waiting">>
      [] p.stage = "pull_error"   -> <<"ImagePullBackOff">>
      [] p.stage = "create_error" -> <<"CreateContainerError">>
      [] p.stage = "running"      -> <<"running">>
      [] p.stage = "ok"           -> <<"exit_zero">>
      [] p.stage = "exited"       -> <<"exit_nonzero">>
      [] p.stage = "oom"          -> <<"OOMKilled">>

\* stable_code of the reasons a pod's containers can give.
Reason == {"ImagePullFailed", "OOMKilled", "InitContainerFailed", "ContainerCreateError",
           "ContainerTerminated", "PodDeletedUnexpectedly"}

Signal == [kind : {"running"}, node : Nodes, uid : Uids]
              \cup [kind : {"failure"}, node : Nodes, uid : Uids \cup {Sentinel}, reason : Reason]

Running(n, u) == [kind |-> "running", node |-> n, uid |-> u]
Failure(n, u, reason) == [kind |-> "failure", node |-> n, uid |-> u, reason |-> reason]

classify_init_container_statuses(p) ==
    \E i \in DOMAIN init_container_statuses(p) :
        init_container_statuses(p)[i] \in {"ImagePullBackOff", "exit_nonzero", "OOMKilled"}

\* No signal: a classification yields at most one.
NoSignal == [kind |-> "none"]

\* The first container with something to say decides; a container that
\* waits or has ended with exit code 0 says nothing.
classify_main_container_statuses(n, p) ==
    LET statuses == container_statuses(p)
        said == {i \in DOMAIN statuses : statuses[i] \notin {"waiting", "exit_zero"}}
        first == statuses[CHOOSE i \in said : \A j \in said : i <= j]
    IN  IF said = {} THEN NoSignal
        ELSE CASE first = "ImagePullBackOff"     -> Failure(n, p.uid, "ImagePullFailed")
               [] first = "CreateContainerError" -> Failure(n, p.uid, "ContainerCreateError")
               [] first = "OOMKilled"            -> Failure(n, p.uid, "OOMKilled")
               [] first = "exit_nonzero"         -> Failure(n, p.uid, "ContainerTerminated")
               [] first = "running"              -> Running(n, p.uid)

classify_pod(n, p) ==
    IF classify_init_container_statuses(p) THEN Failure(n, p.uid, "InitContainerFailed")
    ELSE classify_main_container_statuses(n, p)

----------------------------------------------------------------------------
(* WatcherState                                                            *)

WatcherState ==
    [reported_failure_uids : [Nodes -> SUBSET (Uids \cup {Sentinel})],
     reported_running_uids : [Nodes -> SUBSET (Uids \cup {Sentinel})],
     expected_deletions : SUBSET Nodes,
     seed_running : SUBSET Nodes,
     observed_during_init : SUBSET Nodes,
     presence_diff_emitted : BOOLEAN,
     out : Seq(Signal)]     \* what send_signal is waiting to send

seeded(running) ==
    [reported_failure_uids |-> [n \in Nodes |-> {}],
     reported_running_uids |-> [n \in Nodes |-> IF n \in running THEN {Sentinel} ELSE {}],
     expected_deletions |-> {},
     seed_running |-> running,
     observed_during_init |-> {},
     presence_diff_emitted |-> FALSE,
     out |-> << >>]

\* Mutant: one set of uids for both kinds of signal.
emit_shared(s, sg) ==
    IF sg.uid \in s.reported_running_uids[sg.node] THEN s
    ELSE [s EXCEPT !.reported_running_uids[sg.node] = @ \cup {sg.uid}, !.out = Append(@, sg)]

\* should_emit and, when it says so, send_signal.
emit(s, sg) ==
    IF sg.kind = "running" THEN
        [s EXCEPT !.reported_running_uids[sg.node] = @ \cup {sg.uid},
                  !.out = IF sg.uid \in s.reported_running_uids[sg.node] THEN @ ELSE Append(@, sg)]
    ELSE
        [s EXCEPT !.reported_failure_uids[sg.node] = @ \cup {sg.uid},
                  !.out = IF sg.uid \in s.reported_failure_uids[sg.node] THEN @ ELSE Append(@, sg)]

\* The signal of a classification, if there is one.
emit_classified(s, n, p) ==
    LET sg == classify_pod(n, p) IN IF sg = NoSignal THEN s ELSE emit(s, sg)

was_running(s, n) == s.reported_running_uids[n] # {}

record_init_observation(s, n) ==
    IF n \in s.seed_running THEN [s EXCEPT !.observed_during_init = @ \cup {n}] ELSE s

\* Mutant: a deletion is reported although it was announced.
handle_delete_announced(s, n, u) ==
    IF ~was_running(s, n) THEN s
    ELSE emit(s, Failure(n, u, "PodDeletedUnexpectedly"))

handle_delete(s, n, u) ==
    IF n \in s.expected_deletions \/ ~was_running(s, n) THEN s
    ELSE emit(s, Failure(n, u, "PodDeletedUnexpectedly"))

\* take_missing_after_init and emit_presence_diff; order is a HashSet's.
emit_presence_diff(s, order) ==
    IF s.presence_diff_emitted THEN s
    ELSE LET emitted[i \in 0..Len(order)] ==
                 IF i = 0 THEN [s EXCEPT !.presence_diff_emitted = TRUE]
                 ELSE emit(emitted[i - 1], Failure(order[i], Sentinel, "PodDeletedUnexpectedly"))
         IN  emitted[Len(order)]

missing_after_init(s) == s.seed_running \ s.observed_during_init

Event == [type : {"Init", "InitDone"}]
             \cup [type : {"InitApply", "Apply", "Delete"}, node : Nodes, pod : Pod]

\* Mutant: only the list is classified, later changes are not.
handle_event_listed(s, ev, order) ==
    CASE ev.type = "InitApply" ->
             emit_classified(record_init_observation(s, ev.node), ev.node, ev.pod)
      [] ev.type \in {"Init", "Apply"} -> s
      [] ev.type = "Delete"   -> handle_delete(s, ev.node, ev.pod.uid)
      [] ev.type = "InitDone" -> emit_presence_diff(s, order)

handle_event(s, ev, order) ==
    CASE ev.type = "InitApply" ->
             emit_classified(record_init_observation(s, ev.node), ev.node, ev.pod)
      [] ev.type = "Apply"    -> emit_classified(s, ev.node, ev.pod)
      [] ev.type = "Delete"   -> handle_delete(s, ev.node, ev.pod.uid)
      [] ev.type = "Init"     -> s
      [] ev.type = "InitDone" -> emit_presence_diff(s, order)

----------------------------------------------------------------------------
(* Initial states: a fresh run, or one that was reloaded with some of its  *)
(* nodes Running and their pods, and pods dispatched but not yet saved, at *)
(* any stage or gone.                                                      *)

NoPod == [uid |-> 0, stage |-> "none"]

NodeState == {"pending", "running", "success", "failed"}

Terminal(n) == status[n] \in {"success", "failed"}

CoordinatorPc == {"loop", "notify", "cancel", "shutdown", "done"}

CoordinatorState ==
    [pc : CoordinatorPc,
     todo : Seq(Nodes),        \* the node to announce and to cancel, if any
     stopping : BOOLEAN,       \* the run has ended
     timed_out : SUBSET Nodes] \* nodes whose phase timer has fired

WatcherInit ==
    /\ status \in [Nodes -> {"pending", "running"}]
    /\ job \in SUBSET Nodes
    /\ pod \in [Nodes -> {NoPod} \cup [uid : {1}, stage : Stages]]
    /\ \A n \in Nodes : Exists(pod[n]) => n \in job
    /\ gone = [n \in Nodes |-> [u \in Uids |-> "no"]]
    /\ connected = FALSE /\ stream = << >> /\ desyncs = 0
    /\ w = seeded({n \in Nodes : status[n] = "running"})
    /\ cmds = << >> /\ signals = << >> /\ inbox = << >>
    /\ c = [pc |-> "loop", todo |-> << >>, stopping |-> FALSE, timed_out |-> {}]
    /\ absent = {} /\ missed = {}

\* Every variable has its type; no channel holds more than its capacity.
WatcherTypeOK ==
    /\ job \subseteq Nodes
    /\ pod \in [Nodes -> Pod]
    /\ gone \in [Nodes -> [Uids -> {"no", "cancelled", "lost"}]]
    /\ connected \in BOOLEAN /\ desyncs \in 0..MaxDesyncs
    /\ stream \in Seq(Event)
    /\ w \in WatcherState
    /\ cmds \in Seq(Nodes) /\ Len(cmds) <= CmdCap
    /\ signals \in Seq(Signal) /\ Len(signals) <= SignalCap
    /\ inbox \in Seq([type : {"pod_running", "infra_failed", "timed_out"}, node : Nodes])
    /\ Len(inbox) <= InternalCap
    /\ status \in [Nodes -> NodeState]
    /\ c \in CoordinatorState
    /\ absent \subseteq Nodes /\ missed \subseteq Nodes

----------------------------------------------------------------------------
(* Kubernetes (external): Jobs make pods, pods move on, are evicted, and   *)
(* go away after their Job; the watch reports each change while it is up   *)

Notice(type, n, p) ==
    /\ Len(stream) < MaxBacklog
    /\ stream' = IF connected THEN Append(stream, [type |-> type, node |-> n, pod |-> p]) ELSE stream
    /\ UNCHANGED <<connected, desyncs, w, cmds, signals, inbox, coordinatorVars, absent>>

CreatePod(n) ==
    /\ n \in job /\ ~Exists(pod[n]) /\ pod[n].uid < MaxPods
    /\ pod' = [pod EXCEPT ![n] = [uid |-> @.uid + 1, stage |-> "scheduled"]]
    /\ Notice("Apply", n, pod'[n])
    /\ missed' = missed \ {n}
    /\ UNCHANGED <<job, gone>>

Moves ==
    [scheduled    |-> {"init_failed", "pull_error", "create_error", "running"},
     pull_error   |-> {"running"},
     running      |-> {"ok", "exited", "oom"},
     init_failed  |-> {}, create_error |-> {}, ok |-> {}, exited |-> {}, oom |-> {}]

PodMoves(n) ==
    /\ Exists(pod[n])
    /\ \E stage \in Moves[pod[n].stage] \cap Stages :
           pod' = [pod EXCEPT ![n].stage = stage]
    /\ Notice("Apply", n, pod'[n])
    /\ UNCHANGED <<job, gone, missed>>

\* Evicted, or collected after its Job was deleted.
PodGoes(n) ==
    /\ Exists(pod[n])
    /\ pod' = [pod EXCEPT ![n].stage = "none"]
    /\ gone' = [gone EXCEPT ![n][pod[n].uid] = IF n \in job THEN "lost" ELSE "cancelled"]
    /\ Notice("Delete", n, pod[n])
    /\ missed' = IF connected THEN missed ELSE missed \cup {n}
    /\ UNCHANGED job

\* kube::runtime::watcher lists the pods, then watches from there.
List ==
    /\ ~connected
    /\ \E order \in SetToSeqs({n \in Nodes : Exists(pod[n])}) :
           stream' = <<[type |-> "Init"]>>
                     \o [i \in DOMAIN order |->
                            [type |-> "InitApply", node |-> order[i], pod |-> pod[order[i]]]]
                     \o <<[type |-> "InitDone"]>>
    /\ connected' = TRUE
    /\ absent' = absent \cup {n \in Nodes : ~Exists(pod[n])}
    /\ UNCHANGED <<kubeVars, desyncs, w, cmds, signals, inbox, coordinatorVars, missed>>

\* The resource version expired: what was not delivered is not delivered.
Desync ==
    /\ connected /\ desyncs < MaxDesyncs /\ c.pc # "done"
    /\ connected' = FALSE /\ stream' = << >> /\ desyncs' = desyncs + 1
    /\ missed' = missed \cup {stream[i].node : i \in {j \in DOMAIN stream : stream[j].type = "Delete"}}
    /\ UNCHANGED <<kubeVars, w, cmds, signals, inbox, coordinatorVars, absent>>

----------------------------------------------------------------------------
(* The watcher task and the relay task                                     *)

Alive == c.pc # "done"

\* ExpectDeletion.  The select is biased: commands come before events.
ReceiveCommand ==
    /\ Alive /\ w.out = << >> /\ cmds # << >>
    /\ w' = [w EXCEPT !.expected_deletions = @ \cup {Head(cmds)}]
    /\ cmds' = Tail(cmds)
    /\ UNCHANGED <<kubeVars, watchVars, signals, inbox, coordinatorVars, historyVars>>

ReceiveEvent ==
    /\ Alive /\ w.out = << >> /\ cmds = << >> /\ stream # << >>
    /\ \E order \in SetToSeqs(missing_after_init(w)) :
           w' = handle_event(w, Head(stream), order)
    /\ stream' = Tail(stream)
    /\ UNCHANGED <<kubeVars, connected, desyncs, cmds, signals, inbox, coordinatorVars, historyVars>>

send_signal ==
    /\ Alive /\ w.out # << >> /\ Len(signals) < SignalCap
    /\ signals' = Append(signals, Head(w.out))
    /\ w' = [w EXCEPT !.out = Tail(@)]
    /\ UNCHANGED <<kubeVars, watchVars, cmds, inbox, coordinatorVars, historyVars>>

\* Mutant: it does not wait.
Relay_hasty ==
    /\ Alive /\ signals # << >>
    /\ inbox' = Append(inbox, [type |-> IF Head(signals).kind = "running" THEN "pod_running" ELSE "infra_failed",
                               node |-> Head(signals).node])
    /\ signals' = Tail(signals)
    /\ UNCHANGED <<kubeVars, watchVars, w, cmds, coordinatorVars, historyVars>>

\* The relay task takes a signal and waits until it can hand it on; what it
\* holds meanwhile counts as still in the signal channel.
Relay ==
    /\ Alive /\ signals # << >> /\ Len(inbox) < InternalCap
    /\ inbox' = Append(inbox, [type |-> IF Head(signals).kind = "running" THEN "pod_running" ELSE "infra_failed",
                               node |-> Head(signals).node])
    /\ signals' = Tail(signals)
    /\ UNCHANGED <<kubeVars, watchVars, w, cmds, coordinatorVars, historyVars>>

----------------------------------------------------------------------------
(* The coordinator                                                         *)

Looping == c.pc = "loop"

\* dispatch_ready_nodes.
Dispatch(n) ==
    /\ Looping /\ status[n] = "pending" /\ n \notin job
    /\ status' = [status EXCEPT ![n] = "running"]
    /\ job' = job \cup {n}
    /\ UNCHANGED <<pod, gone, watchVars, w, cmds, signals, inbox, c, historyVars>>

\* A completion from the backplane or from S3.
NodeCompletes(n) ==
    /\ Looping /\ status[n] = "running"
    /\ \E result \in {"success", "failed"} : status' = [status EXCEPT ![n] = result]
    /\ UNCHANGED <<kubeVars, watchVars, w, cmds, signals, inbox, c, historyVars>>

\* The timer task of a running node sends its message.
TimerFires(n) ==
    /\ Alive /\ ~c.stopping /\ status[n] = "running" /\ n \notin c.timed_out /\ Len(inbox) < InternalCap
    /\ inbox' = Append(inbox, [type |-> "timed_out", node |-> n])
    /\ c' = [c EXCEPT !.timed_out = @ \cup {n}]
    /\ UNCHANGED <<kubeVars, watchVars, w, cmds, signals, status, historyVars>>

HandlePodRunning ==
    /\ Looping /\ inbox # << >> /\ Head(inbox).type = "pod_running"
    /\ inbox' = Tail(inbox)
    /\ UNCHANGED <<kubeVars, watchVars, w, cmds, signals, coordinatorVars, historyVars>>

\* Mutant: a node that is already terminal is failed and announced again.
HandleFailure_again ==
    /\ Looping /\ inbox # << >> /\ Head(inbox).type \in {"infra_failed", "timed_out"}
    /\ inbox' = Tail(inbox)
    /\ status' = [status EXCEPT ![Head(inbox).node] = "failed"]
    /\ c' = [c EXCEPT !.pc = "notify", !.todo = <<Head(inbox).node>>]
    /\ UNCHANGED <<kubeVars, watchVars, w, cmds, signals, historyVars>>

\* handle_node_infra_failed, handle_pod_start_timed_out, handle_node_timed_out.
HandleFailure ==
    /\ Looping /\ inbox # << >> /\ Head(inbox).type \in {"infra_failed", "timed_out"}
    /\ inbox' = Tail(inbox)
    /\ IF Terminal(Head(inbox).node)
       THEN UNCHANGED coordinatorVars
       ELSE /\ status' = [status EXCEPT ![Head(inbox).node] = "failed"]
            /\ c' = [c EXCEPT !.pc = "notify", !.todo = <<Head(inbox).node>>]
    /\ UNCHANGED <<kubeVars, watchVars, w, cmds, signals, historyVars>>

\* notify_watcher_of_deletion waits for room in the command channel.
NotifyWatcher ==
    /\ c.pc = "notify" /\ Len(cmds) < CmdCap
    /\ cmds' = Append(cmds, Head(c.todo))
    /\ c' = [c EXCEPT !.pc = "cancel"]
    /\ UNCHANGED <<kubeVars, watchVars, w, signals, inbox, status, historyVars>>

\* dispatcher.cancel_node, which only logs its errors.
CancelNode ==
    /\ c.pc = "cancel"
    /\ job' \in {job, job \ {Head(c.todo)}}
    /\ c' = [c EXCEPT !.todo = Tail(@), !.pc = "loop"]
    /\ UNCHANGED <<pod, gone, watchVars, w, cmds, signals, inbox, status, historyVars>>

\* The run ends.  A lost lease leaves nodes and Jobs alone.  Every other exit
\* marks the running nodes failed (record_history) and deletes the Jobs, if
\* Kubernetes lets it (cleanup); terminate_running_nodes then finds no running
\* node to announce, so these deletions come unannounced.
Stop ==
    /\ Looping
    /\ \/ UNCHANGED <<job, status>>
       \/ /\ job' \in {job, {}}
          /\ status' = [n \in Nodes |-> IF status[n] = "running" THEN "failed" ELSE status[n]]
    /\ c' = [c EXCEPT !.pc = "shutdown", !.stopping = TRUE]
    /\ UNCHANGED <<pod, gone, watchVars, w, cmds, signals, inbox, historyVars>>

\* shutdown_pod_watcher sends Shutdown, then aborts relay and watcher.
Shutdown ==
    /\ c.pc = "shutdown" /\ Len(cmds) < CmdCap
    /\ c' = [c EXCEPT !.pc = "done"]
    /\ cmds' = << >> /\ signals' = << >> /\ inbox' = << >>
    /\ stream' = << >> /\ connected' = FALSE
    /\ w' = [w EXCEPT !.out = << >>]
    /\ UNCHANGED <<kubeVars, desyncs, status, historyVars>>

----------------------------------------------------------------------------

Kubernetes == c.pc # "done" /\ \E n \in Nodes : CreatePod(n) \/ PodMoves(n) \/ PodGoes(n)

WatcherStep == ReceiveCommand \/ ReceiveEvent \/ send_signal

Handler == HandlePodRunning \/ HandleFailure \/ NotifyWatcher \/ CancelNode \/ Shutdown

WatcherNext ==
    \/ Kubernetes
    \/ Alive /\ List
    \/ Desync
    \/ WatcherStep
    \/ Relay
    \/ Handler
    \/ Stop
    \/ \E n \in Nodes : Dispatch(n) \/ NodeCompletes(n) \/ TimerFires(n)

\* The tasks are scheduled and the watch comes back (default_backoff); what
\* Kubernetes, the workers and the users do is not promised.
WatcherFairness ==
    /\ WF_watcherVars(Alive /\ List)
    /\ WF_watcherVars(WatcherStep)
    /\ WF_watcherVars(Relay)
    /\ WF_watcherVars(Handler)

WatcherSpec == WatcherInit /\ [][WatcherNext]_watcherVars /\ WatcherFairness

----------------------------------------------------------------------------
(* Properties                                                              *)

\* Whatever is on its way to the coordinator.
Reported == ToSet(w.out) \cup ToSet(signals)

\* A report that names a pod as deleted is true, and while the run goes on the
\* pod did not go through the coordinator's own cancel_node, which announces
\* the deletion first (the cleanup that ends the run announces nothing).  A
\* report that a node of a reloaded run has no pod is made only of nodes that
\* were Running in Redis and that a whole list lacked; it does not say that
\* there was a pod before: the Job's first pod may be yet to come, or the
\* coordinator may have cancelled the node before the list.
NoFalseAlarm ==
    \A sg \in Reported :
        sg.kind = "failure" /\ sg.reason = "PodDeletedUnexpectedly" =>
            IF sg.uid = Sentinel THEN sg.node \in absent \cap w.seed_running
            ELSE \/ gone[sg.node][sg.uid] = "lost"
                 \/ gone[sg.node][sg.uid] = "cancelled" /\ c.stopping

\* The coordinator never waits for room in the command channel when the pipeline
\* has fewer nodes than the channel has places, because no node is announced
\* twice.  Otherwise the coordinator waiting on the watcher, the watcher on the
\* relay and the relay on the coordinator's full channel would wait for ever.
AnnouncementsFit ==
    Cardinality(Nodes) < CmdCap /\ c.pc \in {"notify", "shutdown"} => Len(cmds) < CmdCap

\* A pod that has failed for good and stays there is noticed, however often the
\* watch is lost: the node fails, or the run ends first.
BrokenPodIsNoticed ==
    \A n \in Nodes :
        pod[n].stage \in {"init_failed", "create_error", "exited", "oom"}
            ~> Terminal(n) \/ c.stopping \/ ~Exists(pod[n])

\* The deletion the watcher has to report: of a pod whose start it has reported
\* or been seeded with, delivered by the watch, not announced; or of a pod that
\* a rehydrated run does not find in its first list.
Evicted(n) ==
    \/ /\ n \notin missed
       /\ pod[n].uid # 0 /\ gone[n][pod[n].uid] = "lost"
       /\ w.reported_running_uids[n] \cap {pod[n].uid, Sentinel} # {}
    \/ w.presence_diff_emitted /\ n \in missing_after_init(w)

\* A pod that is deleted under a running node is noticed, unless the watch was
\* down at that moment: the node fails, or the run ends first.
EvictedPodIsNoticed ==
    \A n \in Nodes :
        Evicted(n) ~> Terminal(n) \/ c.stopping \/ n \in missed \/ Exists(pod[n])

=============================================================================
