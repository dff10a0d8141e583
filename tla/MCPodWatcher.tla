---------------------------- MODULE MCPodWatcher ----------------------------
(***************************************************************************)
(* One node whose Job makes two pods in turn, a watch that is lost once,   *)
(* and channels of the smallest capacities at which each can be full.      *)
(***************************************************************************)
EXTENDS PodWatcher

MCStages == {"scheduled", "running", "oom", "init_failed"}

=============================================================================
