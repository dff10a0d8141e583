------------------------------- MODULE Reaper -------------------------------
(***************************************************************************)
(* The reaper (coordinator/src/reaper.rs) as one run meets it: the reclaim *)
(* pass, which starts a coordinator for an orphaned run, and the resource  *)
(* sweep with its three passes.  What a pass has listed or loaded is stale *)
(* by the time it acts on it, in later steps.  Each replica runs a reaper  *)
(* of its own: reclaim passes overlap freely here, sweeps one at a time.   *)
(***************************************************************************)
EXTENDS Coordinator

CONSTANT
    Sweeps   \* the sweep passes an instance explores

SweepKinds == {"terminal", "postgres", "kube"}

ASSUME SweepsAssumption == Sweeps \subseteq SweepKinds

VARIABLE
    sweep   \* the sweep under way: [pc, rows]

SweepPc == {"idle", "terminal", "terminal_cleanup", "terminal_release", "terminal_delete",
            "in_progress", "reconcile", "refresh", "finalize", "cleanup", "reconstruct",
            "kube", "kube_cleanup", "corrupt_cleanup", "corrupt_delete"}

SweepState == [pc : SweepPc, rows : [Nodes -> NodeRow]]

NoSweep == [pc |-> "idle", rows |-> [n \in Nodes |-> "none"]]

SweepGoto(pc) == sweep' = [sweep EXCEPT !.pc = pc]

----------------------------------------------------------------------------
(* reclaim_orphaned_runs                                                   *)

ListOrphan(s) ==
    /\ co[s].pc = "off"
    /\ IsOrphaned
    /\ Goto(s, "reclaim")
    /\ UNCHANGED <<storeVars, workerVars, historyVars, backplaneVars, sig, sweep>>

\* A state that has disappeared, or that cannot be loaded, is skipped.
LoadOrphan(s) ==
    /\ co[s].pc = "reclaim"
    /\ \/ Goto(s, IF RunExists THEN "reclaim_row" ELSE "off")
       \/ RedisErrs /\ Goto(s, "off")
    /\ UNCHANGED <<storeVars, workerVars, historyVars, backplaneVars, sig, sweep>>

\* A run without a pipeline row is given up, one whose row or state cannot be
\* read is skipped; any other is loaded again and handed to start_coordinator,
\* whatever the status in its row.
ReclaimOrphan(s) ==
    /\ co[s].pc = "reclaim_row"
    /\ \/ Goto(s, IF pipeline_row = "none" THEN "discard"
                  ELSE IF RunExists THEN "acquire" ELSE "off")
       \/ "history" \in Faults /\ Goto(s, "off")
       \/ RedisErrs /\ pipeline_row # "none" /\ Goto(s, "off")
    /\ UNCHANGED <<storeVars, workerVars, historyVars, backplaneVars, sig, sweep>>

\* finalize_unrecoverable_orphan: cleanup_run, release_lease, delete_run.  An
\* error of any of them is only logged.
DiscardOrphan(s) ==
    /\ \/ /\ co[s].pc = "discard"
          /\ cleanup_run
          /\ Goto(s, "discard_release")
          /\ UNCHANGED <<store, lease>>
       \/ /\ co[s].pc = "discard_release"
          /\ release_lease \/ (RedisErrs /\ UNCHANGED lease)
          /\ Goto(s, "discard_delete")
          /\ UNCHANGED <<store, workerVars>>
       \/ /\ co[s].pc = "discard_delete"
          /\ delete_run \/ (RedisErrs /\ UNCHANGED store)
          /\ Goto(s, "off")
          /\ UNCHANGED <<lease, workerVars>>
    /\ UNCHANGED <<lease_ver, historyVars, backplaneVars, sig, sweep>>

----------------------------------------------------------------------------
(* sweep_terminal_redis_runs                                               *)

ListTerminal ==
    /\ "terminal" \in Sweeps
    /\ sweep.pc = "idle"
    /\ IsTerminalUnleased
    /\ SweepGoto("terminal")
    /\ UNCHANGED vars

\* The outcome of a state that is still there reaches a row in progress; if
\* Redis or Postgres fails, the run is left to a later sweep.
FinalizeTerminal ==
    /\ sweep.pc = "terminal"
    /\ \/ /\ RunExists
          /\ finalize_pipeline_run_status(outcome_status(store.statuses))
          /\ SweepGoto("terminal_cleanup")
       \/ /\ ~RunExists
          /\ UNCHANGED historyVars
          /\ SweepGoto("terminal_cleanup")
       \/ /\ RedisErrs \/ (RunExists /\ "history" \in Faults)
          /\ UNCHANGED historyVars
          /\ SweepGoto("idle")
    /\ UNCHANGED <<storeVars, workerVars, backplaneVars, coordVars>>

ReapTerminal ==
    /\ \/ /\ sweep.pc = "terminal_cleanup"
          /\ cleanup_run
          /\ SweepGoto("terminal_release")
          /\ UNCHANGED <<store, lease>>
       \/ /\ sweep.pc = "terminal_release"
          /\ release_lease \/ (RedisErrs /\ UNCHANGED lease)
          /\ SweepGoto("terminal_delete")
          /\ UNCHANGED <<store, workerVars>>
       \/ /\ sweep.pc = "terminal_delete"
          /\ delete_run \/ (RedisErrs /\ UNCHANGED store)
          /\ SweepGoto("idle")
          /\ UNCHANGED <<lease, workerVars>>
    /\ UNCHANGED <<lease_ver, historyVars, backplaneVars, coordVars>>

----------------------------------------------------------------------------
(* sweep_postgres_in_progress_runs                                         *)

ListInProgress ==
    /\ "postgres" \in Sweeps
    /\ sweep.pc = "idle"
    /\ pipeline_row = "in_progress"
    /\ SweepGoto("in_progress")
    /\ UNCHANGED vars

CheckRedisState ==
    /\ sweep.pc = "in_progress"
    /\ \/ SweepGoto(IF RunExists THEN "idle" ELSE "reconcile")
       \/ RedisErrs /\ SweepGoto("idle")
    /\ UNCHANGED vars

\* list_node_runs; an error ends the pass.
ListNodeRuns ==
    /\ sweep.pc = "reconcile"
    /\ \/ sweep' = [pc |-> "refresh", rows |-> node_rows]
       \/ "history" \in Faults /\ SweepGoto("idle")
    /\ UNCHANGED vars

Known(row) == row \notin {"none", "dispatched"}

\* A listed row whose success is unknown is completed from S3, unless S3 or
\* Postgres fails; then the pass finalizes the run or resumes it.
RefreshRows ==
    /\ sweep.pc = "refresh"
    /\ \E readable \in Readable, recorded \in Recordable :
          LET fresh == {n \in readable \cap recorded :
                           sweep.rows[n] = "dispatched" /\ Completed(s3[n])}
              rows == [n \in Nodes |-> IF n \in fresh THEN s3[n] ELSE sweep.rows[n]]
          IN  /\ record_node_runs([n \in Nodes |-> IF n \in fresh THEN s3[n] ELSE "none"])
              /\ sweep' = [pc |-> IF \A n \in Nodes : Known(rows[n])
                                  THEN "finalize" ELSE "reconstruct",
                           rows |-> rows]
    /\ UNCHANGED <<storeVars, workerVars, backplaneVars, coordVars>>

FinalizeReconciled ==
    /\ \/ /\ sweep.pc = "finalize"
          /\ \/ finalize_pipeline_run_status(
                   IF \A n \in Nodes : sweep.rows[n] = "success"
                   THEN "success" ELSE "failure")
             \/ "history" \in Faults /\ UNCHANGED historyVars
          /\ SweepGoto("cleanup")
          /\ UNCHANGED workerVars
       \/ /\ sweep.pc = "cleanup"
          /\ cleanup_run
          /\ sweep' = NoSweep
          /\ UNCHANGED historyVars
    /\ UNCHANGED <<storeVars, backplaneVars, coordVars>>

\* Mutant: a dispatched row counts as a success.
reconstruct_optimistic(rows) ==
    [n \in Nodes |-> CASE rows[n] = "none" -> "pending"
                       [] rows[n] \in {"dispatched", "success"} -> "success"
                       [] OTHER -> "failed"]

\* reconstruct_run_state_from_postgres, always at version 0.
reconstruct(rows) ==
    [n \in Nodes |-> CASE rows[n] = "none" -> "pending"
                       [] rows[n] = "dispatched" -> "running"
                       [] rows[n] = "success" -> "success"
                       [] OTHER -> "failed"]

\* If the save is accepted a coordinator is started, on a fresh id.
ResumeReconstructed(s) ==
    /\ sweep.pc = "reconstruct"
    /\ co[s].pc = "off"
    /\ \/ /\ save_run(reconstruct(sweep.rows), 0, 0)
          /\ IF SaveAccepted(0) THEN Goto(s, "acquire") ELSE UNCHANGED co
       \/ /\ RedisErrs
          /\ save_run(reconstruct(sweep.rows), 0, 0) \/ UNCHANGED store
          /\ UNCHANGED co
    /\ sweep' = NoSweep
    /\ UNCHANGED <<lease, lease_ver, workerVars, historyVars, backplaneVars, sig>>

----------------------------------------------------------------------------
(* sweep_orphan_kube_resources                                             *)

ListManaged ==
    /\ "kube" \in Sweeps
    /\ sweep.pc = "idle"
    /\ config_maps # {} \/ \E n \in Nodes : job[n] # "none"
    /\ SweepGoto("kube")
    /\ UNCHANGED vars

\* Mutant: a run with a pipeline row is left alone.
ReapKube_unrecorded ==
    /\ sweep.pc = "kube"
    /\ SweepGoto(IF RunExists \/ pipeline_row # "none" THEN "idle" ELSE "kube_cleanup")
    /\ UNCHANGED vars

\* Any error of load_run is taken for corrupt state, which is deleted as well.
ReapKube ==
    /\ \/ /\ sweep.pc = "kube"
          /\ \/ SweepGoto(IF RunExists THEN "idle" ELSE "kube_cleanup")
             \/ RedisErrs /\ SweepGoto("corrupt_cleanup")
          /\ UNCHANGED <<store, workerVars>>
       \/ /\ sweep.pc = "kube_cleanup"
          /\ cleanup_run
          /\ SweepGoto("idle")
          /\ UNCHANGED store
       \/ /\ sweep.pc = "corrupt_cleanup"
          /\ cleanup_run
          /\ SweepGoto("corrupt_delete")
          /\ UNCHANGED store
       \/ /\ sweep.pc = "corrupt_delete"
          /\ delete_run \/ (RedisErrs /\ UNCHANGED store)
          /\ SweepGoto("idle")
          /\ UNCHANGED workerVars
    /\ UNCHANGED <<lease, lease_ver, historyVars, backplaneVars, coordVars>>

SweepStep ==
    \/ ListTerminal \/ FinalizeTerminal \/ ReapTerminal
    \/ ListInProgress \/ CheckRedisState
    \/ ListNodeRuns \/ RefreshRows \/ FinalizeReconciled
    \/ \E s \in Servers : ResumeReconstructed(s)
    \/ ListManaged \/ ReapKube

============================================================================
