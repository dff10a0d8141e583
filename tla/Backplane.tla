----------------------------- MODULE Backplane -----------------------------
(***************************************************************************)
(* The RabbitMQ queue of one run (backplane/src/lib.rs).  The queue is     *)
(* exclusive to the connection that declares it and deleted with its       *)
(* consumer, so it exists only while one coordinator is subscribed; what   *)
(* is published while there is none goes nowhere.                          *)
(***************************************************************************)
EXTENDS PipelineRun, ServerIds, Sequences

VARIABLES
    subscriber,  \* who holds the run's queue, or NoServer
    events       \* the queue

backplaneVars == <<subscriber, events>>

BackplaneEvent ==
    [type : {"node_completed"}, node : Nodes, success : BOOLEAN]
        \cup [type : {"cancel"}]

BackplaneTypeOK ==
    /\ subscriber \in Servers \cup {NoServer}
    /\ events \in Seq(BackplaneEvent)

BackplaneInit ==
    /\ subscriber = NoServer
    /\ events = << >>

publish_event(e) ==
    /\ events' = IF subscriber = NoServer THEN events ELSE Append(events, e)
    /\ UNCHANGED subscriber

\* queue_declare of an exclusive queue another connection holds fails.
CanSubscribe == subscriber = NoServer

subscribe_run(s) ==
    /\ subscriber' = s
    /\ events' = << >>

\* next_event acknowledges the delivery before the coordinator handles it.
next_event ==
    /\ events' = Tail(events)
    /\ UNCHANGED subscriber

\* The consumer of a stopped coordinator is dropped and the queue deleted.
unsubscribe(s) ==
    IF subscriber = s
    THEN subscriber' = NoServer /\ events' = << >>
    ELSE UNCHANGED backplaneVars

============================================================================
