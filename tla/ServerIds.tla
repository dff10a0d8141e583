----------------------------- MODULE ServerIds -----------------------------
(***************************************************************************)
(* Every call of start_coordinator draws a fresh server id, under which it *)
(* leases the run and stops being heard of once it has stopped: an element *)
(* of Servers is one incarnation of a coordinator, never used twice.       *)
(***************************************************************************)

CONSTANTS
    Servers,   \* the server ids an instance may draw
    NoServer   \* the owner of what nobody owns

ASSUME NoServerAssumption == NoServer \notin Servers

============================================================================
