----------------------------- MODULE StateStore -----------------------------
(***************************************************************************)
(* What Redis holds for one run (state_store/src/lib.rs): the versioned    *)
(* run state, the lease key and the counter that versions leases.  Each    *)
(* operator is one Redis command or one Lua script, and so one atomic      *)
(* step.                                                                   *)
(***************************************************************************)
EXTENDS PipelineRun, ServerIds, Integers

CONSTANT Faults   \* which services may fail a call

\* A call to Redis may error.  The caller cannot tell whether the command was
\* executed: what it would have written is written, or nothing is.
RedisErrs == "redis" \in Faults

VARIABLES
    store,      \* the run state key, [version, statuses]; Absent if deleted
    lease,      \* the lease key, [owner, version]; NoLease if expired
    lease_ver   \* the lease version counter, which outlives every lease

storeVars == <<store, lease, lease_ver>>

Absent == -1

NoRun == [version |-> Absent, statuses |-> NewRun]

NoLease == [owner |-> NoServer, version |-> 0]

RunState == [version : Nat \cup {Absent}, statuses : Statuses]

Lease == [owner : Servers \cup {NoServer}, version : Nat]

StoreTypeOK ==
    /\ store \in RunState
    /\ lease \in Lease
    /\ lease_ver \in Nat

StoreInit ==
    /\ store = NoRun
    /\ lease = NoLease
    /\ lease_ver = 0

RunExists == store.version # Absent

\* The compare-and-set script accepts a save of an absent key only at
\* version 0, and any other save only at the stored version.  The lease is
\* not looked at.
SaveAccepted(expected) ==
    IF RunExists THEN store.version = expected ELSE expected = 0

save_run(statuses, version, expected) ==
    store' = IF SaveAccepted(expected)
             THEN [version |-> version, statuses |-> statuses]
             ELSE store

delete_run == store' = NoRun

Leased == lease.owner # NoServer

try_acquire_lease(s) ==
    /\ ~Leased
    /\ lease_ver' = lease_ver + 1
    /\ lease' = [owner |-> s, version |-> lease_ver + 1]

\* renew_lease succeeds iff owner and version still match; it only extends
\* the TTL, which this model does not count.
Renewable(s, version) == lease.owner = s /\ lease.version = version

\* release_lease deletes the key whoever owns it.
release_lease == lease' = NoLease

\* An EXISTS of the lease key that errors counts as no lease.
Unleased == ~Leased \/ RedisErrs

\* Mutant: only runs with a running node are orphans.
IsOrphaned_running ==
    /\ RunExists
    /\ \E n \in Nodes : store.statuses[n] = "running"
    /\ Unleased

\* What get_orphaned_runs lists.
IsOrphaned ==
    /\ RunExists
    /\ ~run_state_is_terminal(store.statuses)
    /\ Unleased

\* What list_terminal_unleased_runs lists.
IsTerminalUnleased ==
    /\ RunExists
    /\ run_state_is_terminal(store.statuses)
    /\ Unleased

\* Redis drops the lease key once its TTL has passed without a renewal.
LeaseExpires ==
    /\ Leased
    /\ lease' = NoLease
    /\ UNCHANGED <<store, lease_ver>>

============================================================================
