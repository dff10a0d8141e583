------------------------- MODULE PodWatcher_proofs --------------------------
(***************************************************************************)
(* What holds of PodWatcher for any nodes, pods, channel capacities and    *)
(* bounds.                                                                 *)
(***************************************************************************)
EXTENDS PodWatcher, FiniteSetTheorems, TLAPS

----------------------------------------------------------------------------
(* Induction and sequences                                                 *)

\* A set of natural numbers that is not empty has a least element.
LEMMA LeastNatural ==
    ASSUME NEW T \in SUBSET Nat, T # {}
    PROVE  \E m \in T : \A k \in T : m <= k
<1> DEFINE R == OpToRel(<, Nat)
<1>1. IsWellFoundedOn(R, Nat)
    BY NatLessThanWellFounded
<1>2. R = {ss \in Nat \X Nat : ss[1] < ss[2]}
    BY DEF OpToRel
<1> HIDE DEF R
<1>3. PICK x \in T : \A y \in T : <<y, x>> \notin R
    BY <1>1, WFMin
<1>4. ASSUME NEW y \in T PROVE x <= y
    <2>1. ~(y < x)
        BY <1>2, <1>3
    <2> QED
        BY <2>1
<1> QED
    BY <1>4

\* Induction, for a set of numbers rather than for a predicate.
LEMMA SetInduction ==
    ASSUME NEW S, 0 \in S, \A n \in Nat : n \in S => n + 1 \in S
    PROVE  Nat \subseteq S
<1> DEFINE T == Nat \ S
<1> SUFFICES ASSUME T # {} PROVE FALSE
    OBVIOUS
<1>1. PICK m \in T : \A k \in T : m <= k
    BY LeastNatural
<1>2. m \in Nat /\ m # 0 /\ m - 1 \in Nat
    BY <1>1
<1>3. m - 1 \in S
    BY <1>1, <1>2
<1>4. (m - 1) + 1 \in S
    BY <1>2, <1>3
<1> QED
    BY <1>2, <1>4

\* An enumeration of a finite set is a sequence that holds each element once.
LEMMA Enumeration ==
    ASSUME NEW S, IsFiniteSet(S), NEW order \in SetToSeqs(S)
    PROVE  /\ order \in Seq(S) /\ DOMAIN order = 1..Len(order) /\ Len(order) \in Nat
           /\ IsInjective(order) /\ ToSet(order) = S
<1> DEFINE m == Cardinality(S)
<1>1. m \in Nat
    BY FS_CardinalityType
<1> HIDE DEF m
<1>2. order \in [1..m -> S] /\ \A i, j \in 1..m : i # j => order[i] # order[j]
    BY DEF SetToSeqs, m
<1>3. order \in Seq(S) /\ Len(order) = m
    BY <1>1, <1>2
<1>4. IsInjective(order)
    BY <1>2 DEF IsInjective
<1>5. order \in Injection(1..m, S)
    BY <1>2, <1>4 DEF Injection
<1>6. Cardinality(1..m) = m
    <2>1. Cardinality(1..m) = IF 1 > m THEN 0 ELSE m - 1 + 1
        BY <1>1, FS_Interval
    <2> QED
        BY <1>1, <2>1
<1>7. order \in Surjection(1..m, S)
    BY <1>5, <1>6, FS_Injection DEF m
<1>8. \A t \in S : \E s \in 1..m : order[s] = t
    BY <1>7 DEF Surjection
<1>9. ToSet(order) = S
    BY <1>2, <1>8 DEF ToSet
<1> QED
    BY <1>1, <1>2, <1>3, <1>4, <1>9

\* A sequence without repetition is no longer than its alphabet.
LEMMA NoRepetition ==
    ASSUME NEW S, IsFiniteSet(S), NEW s \in Seq(S), IsInjective(s)
    PROVE  Len(s) <= Cardinality(S)
<1>1. s \in [1..Len(s) -> S] /\ Len(s) \in Nat
    OBVIOUS
<1>2. s \in Injection(1..Len(s), S)
    BY <1>1 DEF Injection
<1>3. Cardinality(1..Len(s)) <= Cardinality(S)
    BY <1>2, FS_Injection
<1>4. Cardinality(1..Len(s)) = IF 1 > Len(s) THEN 0 ELSE Len(s) - 1 + 1
    BY <1>1, FS_Interval
<1> QED
    BY <1>1, <1>3, <1>4

LEMMA AppendSet ==
    ASSUME NEW T, NEW s \in Seq(T), NEW e \in T
    PROVE  /\ ToSet(Append(s, e)) = ToSet(s) \cup {e}
           /\ IsInjective(s) /\ e \notin ToSet(s) => IsInjective(Append(s, e))
<1> DEFINE a == Append(s, e)
<1>1. /\ DOMAIN a = 1..(Len(s) + 1) /\ DOMAIN s = 1..Len(s) /\ Len(s) \in Nat
      /\ a[Len(s) + 1] = e /\ \A i \in 1..Len(s) : a[i] = s[i]
    OBVIOUS
<1> HIDE DEF a
<1>2. ToSet(a) \subseteq ToSet(s) \cup {e}
    BY <1>1 DEF ToSet
<1>3. ToSet(s) \cup {e} \subseteq ToSet(a)
    BY <1>1 DEF ToSet
<1>4. IsInjective(s) /\ e \notin ToSet(s) => IsInjective(a)
    BY <1>1 DEF IsInjective, ToSet
<1> QED
    BY <1>2, <1>3, <1>4 DEF a

LEMMA TailSet ==
    ASSUME NEW T, NEW s \in Seq(T), s # << >>
    PROVE  /\ Tail(s) \in Seq(T) /\ Head(s) \in T /\ Head(s) \in ToSet(s)
           /\ ToSet(s) = ToSet(Tail(s)) \cup {Head(s)}
           /\ IsInjective(s) => IsInjective(Tail(s)) /\ Head(s) \notin ToSet(Tail(s))
<1> DEFINE a == Tail(s)
<1>1. /\ DOMAIN a = 1..(Len(s) - 1) /\ DOMAIN s = 1..Len(s) /\ Len(s) \in Nat /\ Len(s) > 0
      /\ Head(s) = s[1] /\ \A i \in 1..(Len(s) - 1) : a[i] = s[i + 1]
    OBVIOUS
<1>2. a \in Seq(T) /\ Head(s) \in T
    OBVIOUS
<1> HIDE DEF a
<1>3. Head(s) \in ToSet(s)
    BY <1>1 DEF ToSet
<1>4. ToSet(a) \cup {Head(s)} \subseteq ToSet(s)
    BY <1>1 DEF ToSet
<1>5. ASSUME NEW x \in ToSet(s) PROVE x \in ToSet(a) \cup {Head(s)}
    <2>1. PICK i \in 1..Len(s) : x = s[i]
        BY <1>1, <1>5 DEF ToSet
    <2>2. CASE i = 1
        BY <1>1, <2>1, <2>2
    <2>3. CASE i # 1
        <3>1. i - 1 \in 1..(Len(s) - 1) /\ a[i - 1] = s[i]
            BY <1>1, <2>1, <2>3
        <3> QED
            BY <1>1, <2>1, <3>1 DEF ToSet
    <2> QED
        BY <2>2, <2>3
<1>6. ASSUME IsInjective(s) PROVE IsInjective(a) /\ Head(s) \notin ToSet(a)
    <2>1. \A i, j \in 1..Len(s) : s[i] = s[j] => i = j
        BY <1>1, <1>6 DEF IsInjective
    <2>2. ASSUME NEW i \in 1..(Len(s) - 1), NEW j \in 1..(Len(s) - 1), a[i] = a[j] PROVE i = j
        <3>1. i + 1 \in 1..Len(s) /\ j + 1 \in 1..Len(s) /\ s[i + 1] = s[j + 1]
            BY <1>1, <2>2
        <3>2. i + 1 = j + 1
            BY <2>1, <3>1
        <3> QED
            BY <3>2
    <2>3. ASSUME NEW i \in 1..(Len(s) - 1) PROVE a[i] # Head(s)
        <3>1. i + 1 \in 1..Len(s) /\ 1 \in 1..Len(s) /\ i + 1 # 1
            BY <1>1
        <3> QED
            BY <1>1, <2>1, <3>1
    <2> QED
        BY <1>1, <2>2, <2>3 DEF IsInjective, ToSet
<1> QED
    BY <1>2, <1>3, <1>4, <1>5, <1>6 DEF a

----------------------------------------------------------------------------
(* What an event makes of the WatcherState                                 *)

LEMMA SignalTypes ==
    ASSUME NEW n \in Nodes
    PROVE  /\ \A u \in Uids : Running(n, u) \in Signal
           /\ \A u \in Uids \cup {Sentinel}, reason \in Reason : Failure(n, u, reason) \in Signal
BY DEF Signal, Running, Failure

LEMMA SignalFields ==
    ASSUME NEW sg \in Signal
    PROVE  sg.kind \in {"running", "failure"} /\ sg.node \in Nodes /\ sg.uid \in Uids \cup {Sentinel}
BY DEF Signal

\* t is s with more signals to send, and sgs are the new ones.
Sends(s, t, sgs) ==
    /\ t \in WatcherState
    /\ t.expected_deletions = s.expected_deletions
    /\ t.seed_running = s.seed_running
    /\ ToSet(t.out) \subseteq ToSet(s.out) \cup sgs

\* The sets that are not about signals stay.
Keeps(s, t) ==
    /\ t.observed_during_init = s.observed_during_init
    /\ t.presence_diff_emitted = s.presence_diff_emitted

LEMMA EmitOK ==
    ASSUME NEW s \in WatcherState, NEW sg \in Signal
    PROVE  Sends(s, emit(s, sg), {sg}) /\ Keeps(s, emit(s, sg))
<1>1. sg.kind \in {"running", "failure"} /\ sg.node \in Nodes /\ sg.uid \in Uids \cup {Sentinel}
    BY SignalFields
<1>2. s.out \in Seq(Signal) /\ Append(s.out, sg) \in Seq(Signal)
      /\ ToSet(Append(s.out, sg)) = ToSet(s.out) \cup {sg}
    BY AppendSet DEF WatcherState
<1> DEFINE out == IF sg.uid \in (IF sg.kind = "running" THEN s.reported_running_uids[sg.node]
                                 ELSE s.reported_failure_uids[sg.node])
                  THEN s.out ELSE Append(s.out, sg)
<1>3. out \in Seq(Signal) /\ ToSet(out) \subseteq ToSet(s.out) \cup {sg}
    BY <1>2
<1>4. CASE sg.kind = "running"
    <2> DEFINE uids == [s.reported_running_uids EXCEPT ![sg.node] = @ \cup {sg.uid}]
    <2>1. emit(s, sg) = [s EXCEPT !.reported_running_uids = uids, !.out = out]
        BY <1>4 DEF emit, WatcherState
    <2>2. uids \in [Nodes -> SUBSET (Uids \cup {Sentinel})]
        BY <1>1 DEF WatcherState
    <2> HIDE DEF uids, out
    <2> QED
        BY <1>3, <2>1, <2>2 DEF WatcherState, Sends, Keeps
<1>5. CASE sg.kind # "running"
    <2> DEFINE uids == [s.reported_failure_uids EXCEPT ![sg.node] = @ \cup {sg.uid}]
    <2>1. emit(s, sg) = [s EXCEPT !.reported_failure_uids = uids, !.out = out]
        BY <1>5 DEF emit, WatcherState
    <2>2. uids \in [Nodes -> SUBSET (Uids \cup {Sentinel})]
        BY <1>1 DEF WatcherState
    <2> HIDE DEF uids, out
    <2> QED
        BY <1>3, <2>1, <2>2 DEF WatcherState, Sends, Keeps
<1> QED
    BY <1>4, <1>5

\* The signal says that a pod was deleted.
Deleted(sg) == sg.kind = "failure" /\ sg.reason = "PodDeletedUnexpectedly"

\* The classification of a pod that exists is a signal about that pod, and never
\* that it was deleted.
LEMMA ClassifyOK ==
    ASSUME NEW n \in Nodes, NEW p \in Pod, Exists(p), p.uid # 0
    PROVE  classify_pod(n, p) # NoSignal =>
               classify_pod(n, p) \in Signal /\ ~Deleted(classify_pod(n, p))
<1>1. p.uid \in Uids /\ p.stage \in StageKinds
    BY WatcherAssumption DEF Pod, Exists, Uids
<1> DEFINE statuses == container_statuses(p)
           said == {i \in DOMAIN statuses : statuses[i] \notin {"waiting", "exit_zero"}}
           first == statuses[CHOOSE i \in said : \A j \in said : i <= j]
           reasons == {"ImagePullFailed", "ContainerCreateError", "OOMKilled", "ContainerTerminated",
                       "InitContainerFailed"}
<1>2. said # {} => first \in {"ImagePullBackOff", "CreateContainerError", "running", "exit_nonzero", "OOMKilled"}
    <2>1. DOMAIN statuses = {} \/ DOMAIN statuses = {1}
        BY <1>1 DEF StageKinds, container_statuses
    <2>2. said # {} => said = {1}
        BY <2>1
    <2>3. said # {} => first = statuses[1]
        <3> SUFFICES ASSUME said = {1} PROVE first = statuses[1]
            BY <2>2
        <3> HIDE DEF said
        <3>1. (CHOOSE i \in said : \A j \in said : i <= j) \in said
            OBVIOUS
        <3> QED
            BY <3>1
    <2>4. statuses[1] \in {"waiting", "exit_zero", "ImagePullBackOff", "CreateContainerError", "running",
                           "exit_nonzero", "OOMKilled"} \/ DOMAIN statuses = {}
        BY <1>1 DEF StageKinds, container_statuses
    <2> QED
        BY <2>2, <2>3, <2>4
<1>3. classify_pod(n, p) \in {NoSignal, Running(n, p.uid)} \cup {Failure(n, p.uid, r) : r \in reasons}
    <2>1. classify_main_container_statuses(n, p) = IF said = {} THEN NoSignal
              ELSE CASE first = "ImagePullBackOff"     -> Failure(n, p.uid, "ImagePullFailed")
                     [] first = "CreateContainerError" -> Failure(n, p.uid, "ContainerCreateError")
                     [] first = "OOMKilled"            -> Failure(n, p.uid, "OOMKilled")
                     [] first = "exit_nonzero"         -> Failure(n, p.uid, "ContainerTerminated")
                     [] first = "running"              -> Running(n, p.uid)
        BY DEF classify_main_container_statuses
    <2> HIDE DEF said, first
    <2> QED
        BY <1>2, <2>1 DEF classify_pod
<1>4. Running(n, p.uid) \in Signal /\ \A r \in reasons : Failure(n, p.uid, r) \in Signal
    BY <1>1, SignalTypes DEF Reason
<1>5. ~Deleted(Running(n, p.uid)) /\ \A r \in reasons : ~Deleted(Failure(n, p.uid, r))
    BY DEF Running, Failure, Deleted
<1> HIDE DEF reasons
<1> QED
    BY <1>3, <1>4, <1>5

\* Why the watcher may say, on event ev, that a pod was deleted.
Cause(s, ev, sg) ==
    \/ /\ ev.type = "Delete" /\ ev.node \notin s.expected_deletions
       /\ sg.node = ev.node /\ sg.uid = ev.pod.uid
    \/ /\ ev.type = "InitDone" /\ ~s.presence_diff_emitted
       /\ sg.uid = Sentinel /\ sg.node \in missing_after_init(s)

Justified(s, ev) == {sg \in Signal : Deleted(sg) => Cause(s, ev, sg)}

\* The loop of emit_presence_diff.
LEMMA PresenceDiffOK ==
    ASSUME NEW s \in WatcherState, ~s.presence_diff_emitted, NEW order \in Seq(missing_after_init(s)),
           NEW ev, ev.type = "InitDone"
    PROVE  LET t == emit_presence_diff(s, order)
           IN  /\ Sends(s, t, Justified(s, ev)) /\ t.presence_diff_emitted
               /\ t.observed_during_init = s.observed_during_init
<1> DEFINE yes == TRUE
           first == [s EXCEPT !.presence_diff_emitted = yes]
           sg(i) == Failure(order[i], Sentinel, "PodDeletedUnexpectedly")
           Run(n, g) == g = [i \in 0..n |-> IF i = 0 THEN first ELSE emit(g[i - 1], sg(i))]
           S == {n \in Nat : \E g : Run(n, g)}
           New == Justified(s, ev)
           Good(t) == /\ Sends(s, t, New) /\ t.presence_diff_emitted = yes
                      /\ t.observed_during_init = s.observed_during_init
<1>1. Len(order) \in Nat /\ \A i \in 1..Len(order) : order[i] \in missing_after_init(s)
    OBVIOUS
<1>2. missing_after_init(s) \subseteq Nodes
    BY DEF missing_after_init, WatcherState
<1>3. \A i \in 1..Len(order) : sg(i) \in Signal /\ sg(i) \in New
    <2>1. ASSUME NEW i \in 1..Len(order) PROVE sg(i) \in Signal /\ sg(i) \in New
        <3>1. sg(i) \in Signal
            BY <1>1, <1>2, SignalTypes DEF Reason
        <3>2. sg(i).node = order[i] /\ sg(i).uid = Sentinel
            BY DEF Failure
        <3> QED
            BY <1>1, <3>1, <3>2 DEF Justified, Cause
    <2> QED
        BY <2>1
<1>4. 0 \in S
    <2>1. Run(0, [i \in 0..0 |-> first])
        OBVIOUS
    <2> QED
        BY <2>1
<1>5. ASSUME NEW n \in Nat, n \in S PROVE n + 1 \in S
    <2>1. PICK g : Run(n, g)
        BY <1>5
    <2> DEFINE h == [i \in 0..(n + 1) |-> IF i = n + 1 THEN emit(g[n], sg(n + 1)) ELSE g[i]]
    <2>2. Run(n + 1, h)
        <3> HIDE DEF first, sg
        <3>1. ASSUME NEW i \in 0..(n + 1)
              PROVE  h[i] = IF i = 0 THEN first ELSE emit(h[i - 1], sg(i))
            BY <2>1
        <3> QED
            BY <3>1
    <2> HIDE DEF h
    <2>3. \E k : Run(n + 1, k)
        BY <2>2
    <2> HIDE DEF Run
    <2> QED
        BY <2>3
<1>6. Len(order) \in S
    BY <1>1, <1>4, <1>5, SetInduction
<1>7. PICK g : Run(Len(order), g)
    BY <1>6
<1> DEFINE f == CHOOSE k : Run(Len(order), k)
<1>8. Run(Len(order), f)
    BY <1>7
<1>9. emit_presence_diff(s, order) = f[Len(order)]
    BY DEF emit_presence_diff
<1> HIDE DEF f
<1>10. f[0] = first /\ \A i \in 1..Len(order) : f[i] = emit(f[i - 1], sg(i))
    <2> HIDE DEF first, sg
    <2>1. f[0] = first
        BY <1>1, <1>8
    <2>2. \A i \in 1..Len(order) : f[i] = emit(f[i - 1], sg(i))
        BY <1>1, <1>8
    <2> QED
        BY <2>1, <2>2
<1>11. Good(first)
    <2>1. yes \in BOOLEAN
        OBVIOUS
    <2> HIDE DEF yes, New
    <2> QED
        BY <2>1 DEF WatcherState, Sends
<1> HIDE DEF yes, first, sg, New
<1>12. ASSUME NEW t, Good(t), NEW i \in 1..Len(order) PROVE Good(emit(t, sg(i)))
    <2>1. t \in WatcherState /\ sg(i) \in Signal /\ sg(i) \in New
        BY <1>3, <1>12 DEF Sends
    <2>2. Sends(t, emit(t, sg(i)), {sg(i)}) /\ Keeps(t, emit(t, sg(i)))
        BY <2>1, EmitOK
    <2> QED
        BY <1>12, <2>1, <2>2 DEF Sends, Keeps
<1> DEFINE G == {n \in Nat : n <= Len(order) => Good(f[n])}
<1> HIDE DEF Good
<1>13. 0 \in G
    BY <1>10, <1>11
<1>14. ASSUME NEW n \in Nat, n \in G PROVE n + 1 \in G
    <2>1. CASE n + 1 <= Len(order)
        <3>1. n + 1 \in 1..Len(order) /\ (n + 1) - 1 = n /\ Good(f[n])
            BY <1>1, <1>14, <2>1
        <3>2. f[n + 1] = emit(f[n], sg(n + 1))
            BY <1>10, <3>1
        <3> QED
            BY <1>12, <3>1, <3>2
    <2>2. CASE ~(n + 1 <= Len(order))
        BY <2>2
    <2> QED
        BY <2>1, <2>2
<1>15. Len(order) \in G
    <2> HIDE DEF G
    <2> QED
        BY <1>1, <1>13, <1>14, SetInduction
<1>16. Good(f[Len(order)])
    BY <1>1, <1>15
<1> QED
    BY <1>9, <1>16 DEF Good, yes, New

\* What a handled event leaves behind: every signal it sends is justified, the
\* list is recorded, and the end of the list is remembered.
LEMMA HandleEventOK ==
    ASSUME NEW s \in WatcherState, NEW ev \in Event,
           ev.type \in {"InitApply", "Apply", "Delete"} => Exists(ev.pod) /\ ev.pod.uid # 0,
           NEW order \in SetToSeqs(missing_after_init(s))
    PROVE  LET t == handle_event(s, ev, order)
           IN  /\ Sends(s, t, Justified(s, ev))
               /\ s.observed_during_init \subseteq t.observed_during_init
               /\ ev.type = "InitApply" /\ ev.node \in s.seed_running => ev.node \in t.observed_during_init
               /\ s.presence_diff_emitted => t.presence_diff_emitted
               /\ ev.type = "InitDone" => t.presence_diff_emitted
<1> DEFINE t == handle_event(s, ev, order)
           New == Justified(s, ev)
<1>1. ev.type \in {"Init", "InitDone", "InitApply", "Apply", "Delete"}
    BY DEF Event
<1>2. ev.type \in {"InitApply", "Apply", "Delete"} => ev.node \in Nodes /\ ev.pod \in Pod /\ ev.pod.uid \in Uids
    <2>1. ev.type \in {"InitApply", "Apply", "Delete"} => ev.node \in Nodes /\ ev.pod \in Pod
        BY DEF Event
    <2> QED
        BY <2>1, WatcherAssumption DEF Pod, Uids
<1>3. Sends(s, s, New) /\ Keeps(s, s)
    BY DEF Sends, Keeps
<1>4. ASSUME NEW r \in WatcherState, Sends(s, r, New), ev.type \in {"InitApply", "Apply"}
      PROVE  /\ Sends(s, emit_classified(r, ev.node, ev.pod), New)
             /\ Keeps(r, emit_classified(r, ev.node, ev.pod))
    <2> DEFINE sg == classify_pod(ev.node, ev.pod)
    <2>1. sg # NoSignal => sg \in Signal /\ ~Deleted(sg)
        BY <1>2, <1>4, ClassifyOK
    <2> HIDE DEF sg
    <2>2. sg # NoSignal => Sends(r, emit(r, sg), {sg}) /\ Keeps(r, emit(r, sg))
        BY <2>1, EmitOK
    <2>3. sg # NoSignal => sg \in New
        BY <2>1 DEF Justified
    <2> HIDE DEF New
    <2>4. sg # NoSignal => Sends(s, emit(r, sg), New)
        BY <1>4, <2>2, <2>3 DEF Sends
    <2>5. emit_classified(r, ev.node, ev.pod) = IF sg = NoSignal THEN r ELSE emit(r, sg)
        BY DEF emit_classified, sg
    <2> QED
        BY <1>4, <2>2, <2>4, <2>5 DEF Keeps
<1>5. CASE ev.type = "Init"
    <2>1. t = s
        BY <1>5 DEF handle_event
    <2> QED
        BY <1>3, <1>5, <2>1
<1>6. CASE ev.type = "Apply"
    <2>1. t = emit_classified(s, ev.node, ev.pod)
        BY <1>6 DEF handle_event
    <2> QED
        BY <1>3, <1>4, <1>6, <2>1 DEF Keeps
<1>7. CASE ev.type = "InitApply"
    <2> DEFINE r == record_init_observation(s, ev.node)
    <2>1. t = emit_classified(r, ev.node, ev.pod)
        BY <1>7 DEF handle_event
    <2>2. /\ r \in WatcherState /\ r.observed_during_init = s.observed_during_init \cup
                                      (IF ev.node \in s.seed_running THEN {ev.node} ELSE {})
          /\ r.presence_diff_emitted = s.presence_diff_emitted
          /\ Sends(s, r, New)
        <3> HIDE DEF New
        <3> QED
            BY <1>2, <1>7 DEF record_init_observation, Sends, WatcherState
    <2> HIDE DEF r, t, New
    <2>3. Sends(s, t, New) /\ Keeps(r, t)
        BY <1>4, <1>7, <2>1, <2>2
    <2> QED
        BY <1>7, <2>2, <2>3 DEF Keeps, t, New
<1>8. CASE ev.type = "Delete"
    <2> DEFINE sg == Failure(ev.node, ev.pod.uid, "PodDeletedUnexpectedly")
    <2>1. t = IF ev.node \in s.expected_deletions \/ ~was_running(s, ev.node) THEN s ELSE emit(s, sg)
        BY <1>8 DEF handle_event, handle_delete
    <2>2. sg \in Signal /\ sg.node = ev.node /\ sg.uid = ev.pod.uid
        <3>1. sg \in Signal
            BY <1>2, <1>8, SignalTypes DEF Reason
        <3> QED
            BY <3>1 DEF Failure
    <2> HIDE DEF sg
    <2>3. ev.node \notin s.expected_deletions => sg \in New
        BY <1>8, <2>2 DEF Justified, Cause
    <2>4. Sends(s, emit(s, sg), {sg}) /\ Keeps(s, emit(s, sg))
        BY <2>2, EmitOK
    <2> HIDE DEF t, New
    <2>5. Sends(s, t, New) /\ Keeps(s, t)
        BY <1>3, <2>1, <2>3, <2>4 DEF Sends, Keeps
    <2> QED
        BY <1>8, <2>5 DEF Keeps, t, New
<1>9. CASE ev.type = "InitDone"
    <2>1. t = emit_presence_diff(s, order)
        BY <1>9 DEF handle_event
    <2>2. CASE s.presence_diff_emitted
        <3>1. t = s
            BY <2>1, <2>2 DEF emit_presence_diff
        <3> QED
            BY <1>3, <1>9, <2>2, <3>1
    <2>3. CASE ~s.presence_diff_emitted
        <3>1. missing_after_init(s) \subseteq Nodes
            BY DEF missing_after_init, WatcherState
        <3>2. IsFiniteSet(missing_after_init(s))
            BY <3>1, FS_Subset, WatcherAssumption
        <3>3. order \in Seq(missing_after_init(s))
            BY <3>2, Enumeration
        <3>4. /\ Sends(s, emit_presence_diff(s, order), New)
              /\ emit_presence_diff(s, order).presence_diff_emitted
              /\ emit_presence_diff(s, order).observed_during_init = s.observed_during_init
            BY <1>9, <2>3, <3>3, PresenceDiffOK
        <3> QED
            BY <1>9, <2>1, <2>3, <3>4
    <2> QED
        BY <2>2, <2>3
<1> QED
    BY <1>1, <1>5, <1>6, <1>7, <1>8, <1>9

----------------------------------------------------------------------------
(* The inductive invariant                                                 *)

\* A pod that exists has a uid of its own, and a pod that went away is not the
\* newest pod of its node, or is and does not exist.
PodsOK ==
    \A n \in Nodes :
        /\ Exists(pod[n]) => pod[n].uid # 0
        /\ \A u \in Uids : gone[n][u] # "no" =>
               u <= pod[n].uid /\ (u = pod[n].uid => ~Exists(pod[n]))

EventOK(ev) ==
    ev.type \in {"InitApply", "Apply", "Delete"} =>
        /\ Exists(ev.pod) /\ ev.pod.uid # 0
        /\ ev.type = "Delete" => gone[ev.node][ev.pod.uid] # "no"

\* The watch reports pods that were there, and deletions that happened.
StreamOK == \A i \in DOMAIN stream : EventOK(stream[i])

Announced(n) == n \in ToSet(cmds) \/ n \in w.expected_deletions

\* The coordinator has deleted the Job under a pod of n.
Withdrawn(n) == (Exists(pod[n]) /\ n \notin job) \/ \E u \in Uids : gone[n][u] = "cancelled"

\* While the run goes on, no Job is deleted before its node is announced.
OrdersOK ==
    /\ \A n \in Nodes : Withdrawn(n) => c.stopping \/ Announced(n)
    /\ c.pc = "cancel" => Announced(Head(c.todo))
    /\ c.pc \in {"notify", "cancel"} => c.todo # << >>
    /\ c.pc \in {"loop", "notify", "cancel"} => ~c.stopping
    /\ c.pc \in {"shutdown", "done"} => c.stopping

Listed(n, j) == \E i \in 1..(j - 1) : stream[i].type = "InitApply" /\ stream[i].node = n

\* Before the end of a list comes every seeded node that had a pod then.
ListOK ==
    \A j \in DOMAIN stream : stream[j].type = "InitDone" /\ ~w.presence_diff_emitted =>
        \A n \in w.seed_running : n \in w.observed_during_init \/ n \in absent \/ Listed(n, j)

\* No node is announced twice: an announced node is terminal.
CmdsOK ==
    /\ IsInjective(cmds)
    /\ \A n \in ToSet(cmds) : Terminal(n)
    /\ c.pc \in {"notify", "cancel"} => Terminal(Head(c.todo))
    /\ c.pc = "notify" => Head(c.todo) \notin ToSet(cmds)

WatcherInv ==
    WatcherTypeOK /\ PodsOK /\ StreamOK /\ OrdersOK /\ NoFalseAlarm /\ ListOK /\ CmdsOK

----------------------------------------------------------------------------
(* What a step that leaves something alone preserves                       *)

\* No signal is taken back and no pod that is gone comes back.
LEMMA AlarmsKept ==
    ASSUME NoFalseAlarm, Reported \subseteq Signal, Reported' \subseteq Reported, absent \subseteq absent',
           c.stopping => c'.stopping, w'.seed_running = w.seed_running,
           \A n \in Nodes, u \in Uids : gone[n][u] # "no" => gone'[n][u] = gone[n][u]
    PROVE  NoFalseAlarm'
<1> SUFFICES ASSUME NEW sg \in Reported', Deleted(sg)
             PROVE  IF sg.uid = Sentinel THEN sg.node \in absent' \cap w'.seed_running
                    ELSE \/ gone'[sg.node][sg.uid] = "lost"
                         \/ gone'[sg.node][sg.uid] = "cancelled" /\ c'.stopping
    BY DEF NoFalseAlarm, Deleted
<1>1. sg \in Reported /\ sg.node \in Nodes /\ sg.uid \in Uids \cup {Sentinel}
    BY SignalFields
<1>2. IF sg.uid = Sentinel THEN sg.node \in absent \cap w.seed_running
      ELSE \/ gone[sg.node][sg.uid] = "lost"
           \/ gone[sg.node][sg.uid] = "cancelled" /\ c.stopping
    BY <1>1 DEF NoFalseAlarm, Deleted
<1> QED
    BY <1>1, <1>2

LEMMA ReportedType ==
    ASSUME WatcherTypeOK
    PROVE  Reported \subseteq Signal
<1>1. w.out \in Seq(Signal) /\ signals \in Seq(Signal)
    BY DEF WatcherTypeOK, WatcherState
<1> QED
    BY <1>1 DEF Reported, ToSet

\* The coordinator does not move.
LEMMA CmdsKept ==
    ASSUME CmdsOK, cmds' = cmds, c'.pc = c.pc, c'.todo = c.todo, c'.stopping = c.stopping,
           \A n \in Nodes : Terminal(n) => Terminal(n)', WatcherTypeOK, OrdersOK
    PROVE  CmdsOK'
<1>1. ToSet(cmds) \subseteq Nodes
    BY DEF WatcherTypeOK, ToSet
<1>2. c.pc \in {"notify", "cancel"} => Head(c.todo) \in Nodes
    BY DEF OrdersOK, WatcherTypeOK, CoordinatorState
<1> QED
    BY <1>1, <1>2 DEF CmdsOK

LEMMA OrdersKept ==
    ASSUME OrdersOK, c'.pc = c.pc, c'.todo = c.todo, c'.stopping = c.stopping, WatcherTypeOK,
           \A n \in Nodes : Announced(n) => Announced(n)',
           \A n \in Nodes : Withdrawn(n)' => Withdrawn(n)
    PROVE  OrdersOK'
<1>1. c.pc \in {"notify", "cancel"} => Head(c.todo) \in Nodes
    BY DEF OrdersOK, WatcherTypeOK, CoordinatorState
<1> QED
    BY <1>1 DEF OrdersOK

\* The watch and what the watcher knows of the list stay.
LEMMA StreamKept ==
    ASSUME StreamOK, ListOK, stream' = stream, gone' = gone, absent \subseteq absent',
           w'.presence_diff_emitted = w.presence_diff_emitted, w'.seed_running = w.seed_running,
           w'.observed_during_init = w.observed_during_init
    PROVE  StreamOK' /\ ListOK'
<1>1. StreamOK'
    BY DEF StreamOK, EventOK
<1>2. \A n, j : Listed(n, j)' <=> Listed(n, j)
    BY DEF Listed
<1>3. ListOK'
    BY <1>2 DEF ListOK
<1> QED
    BY <1>1, <1>3

LEMMA PodsKept ==
    ASSUME PodsOK, pod' = pod, gone' = gone
    PROVE  PodsOK'
BY DEF PodsOK

----------------------------------------------------------------------------
(* Kubernetes and the watch                                                *)

\* A change of a pod is put at the end of the stream, if the watch is up.
LEMMA NoticeOK ==
    ASSUME WatcherTypeOK, StreamOK, ListOK, NEW type \in {"Apply", "Delete"}, NEW n \in Nodes, NEW p \in Pod,
           Notice(type, n, p), Exists(p), p.uid # 0,
           \A m \in Nodes, u \in Uids : gone[m][u] # "no" => gone'[m][u] # "no",
           type = "Delete" => gone'[n][p.uid] # "no"
    PROVE  stream' \in Seq(Event) /\ StreamOK' /\ ListOK'
<1> DEFINE ev == [type |-> type, node |-> n, pod |-> p]
<1>1. stream' = stream \/ stream' = Append(stream, ev)
    BY DEF Notice
<1>2. ev \in Event /\ ev.type = type /\ ev.node = n /\ ev.pod = p
    BY DEF Event
<1>3. stream \in Seq(Event) /\ DOMAIN stream = 1..Len(stream) /\ Len(stream) \in Nat
    BY DEF WatcherTypeOK
<1>4. EventOK(ev)'
    <2> HIDE DEF ev
    <2> QED
        BY <1>2 DEF EventOK
<1> HIDE DEF ev
<1>5. ASSUME NEW i \in DOMAIN stream PROVE EventOK(stream[i])'
    <2>1. PICK e \in Event : e = stream[i]
        BY <1>3
    <2>2. stream'[i] = e
        BY <1>1, <1>2, <1>3, <2>1
    <2>3. EventOK(e)
        BY <2>1 DEF StreamOK
    <2>4. e.type = "Delete" => e.node \in Nodes /\ e.pod \in Pod /\ e.pod.uid # 0
        BY <2>3 DEF EventOK, Event
    <2>5. e.type = "Delete" => e.pod.uid \in Uids
        BY <2>4, WatcherAssumption DEF Pod, Uids
    <2>6. EventOK(e)'
        BY <2>3, <2>4, <2>5 DEF EventOK
    <2> QED
        BY <2>2, <2>6 DEF EventOK
<1>6. StreamOK'
    <2>1. CASE stream' = stream
        BY <1>5, <2>1 DEF StreamOK
    <2>2. CASE stream' = Append(stream, ev)
        <3>1. /\ DOMAIN stream' = 1..(Len(stream) + 1) /\ stream'[Len(stream) + 1] = ev
              /\ \A i \in 1..Len(stream) : stream'[i] = stream[i]
            BY <1>2, <1>3, <2>2
        <3>2. \A i \in DOMAIN stream' : i \in DOMAIN stream \/ i = Len(stream) + 1
            BY <1>3, <3>1
        <3>3. ASSUME NEW i \in DOMAIN stream' PROVE EventOK(stream[i])'
            BY <1>4, <1>5, <3>1, <3>2
        <3> QED
            BY <3>3 DEF StreamOK
    <2> QED
        BY <1>1, <2>1, <2>2
<1>7. ListOK'
    <2>1. /\ \A i \in 1..Len(stream) : stream'[i] = stream[i]
          /\ \A j \in DOMAIN stream' : stream'[j].type = "InitDone" => j \in 1..Len(stream)
        BY <1>1, <1>2, <1>3
    <2>2. w' = w /\ absent' = absent
        BY DEF Notice
    <2>3. ASSUME NEW j \in DOMAIN stream', stream'[j].type = "InitDone", ~w.presence_diff_emitted,
                 NEW m \in w.seed_running
          PROVE  m \in w.observed_during_init \/ m \in absent \/ Listed(m, j)'
        <3>1. j \in 1..Len(stream) /\ stream[j].type = "InitDone"
            BY <2>1, <2>3
        <3>2. m \in w.observed_during_init \/ m \in absent \/ Listed(m, j)
            BY <1>3, <2>3, <3>1 DEF ListOK
        <3>3. Listed(m, j) => Listed(m, j)'
            BY <1>3, <2>1, <3>1 DEF Listed
        <3> QED
            BY <3>2, <3>3
    <2> QED
        BY <2>2, <2>3 DEF ListOK
<1>8. stream' \in Seq(Event)
    BY <1>1, <1>2, <1>3
<1> QED
    BY <1>6, <1>7, <1>8

LEMMA PodFields ==
    ASSUME WatcherInv, NEW n \in Nodes
    PROVE  /\ pod[n] \in Pod /\ pod[n].uid \in 0..MaxPods /\ pod[n].stage \in Stages \cup {"none"}
           /\ Exists(pod[n]) => pod[n].uid \in Uids /\ gone[n][pod[n].uid] = "no"
<1>1. pod[n] \in Pod
    BY DEF WatcherInv, WatcherTypeOK
<1>2. pod[n].uid \in 0..MaxPods /\ pod[n].stage \in Stages \cup {"none"}
    BY <1>1 DEF Pod
<1>3. Exists(pod[n]) => pod[n].uid \in Uids
    BY <1>2, WatcherAssumption DEF WatcherInv, PodsOK, Uids
<1>4. Exists(pod[n]) => gone[n][pod[n].uid] = "no"
    BY <1>3 DEF WatcherInv, PodsOK
<1> QED
    BY <1>1, <1>2, <1>3, <1>4

LEMMA CreatePodStep ==
    ASSUME WatcherInv, NEW n \in Nodes, CreatePod(n)
    PROVE  WatcherInv'
<1> DEFINE p == [uid |-> pod[n].uid + 1, stage |-> "scheduled"]
<1>1. /\ n \in job /\ ~Exists(pod[n]) /\ pod[n].uid < MaxPods /\ pod' = [pod EXCEPT ![n] = p]
      /\ missed' = missed \ {n} /\ job' = job /\ gone' = gone
    BY DEF CreatePod
<1>2. /\ connected' = connected /\ desyncs' = desyncs /\ w' = w /\ cmds' = cmds /\ signals' = signals
      /\ inbox' = inbox /\ status' = status /\ c' = c /\ absent' = absent
    BY DEF CreatePod, Notice, coordinatorVars
<1>3. p \in Pod /\ Exists(p) /\ p.uid # 0 /\ p.uid = pod[n].uid + 1
    BY <1>1, PodFields, WatcherAssumption DEF Pod, Exists
<1>4. pod' \in [Nodes -> Pod] /\ pod'[n] = p /\ \A m \in Nodes : m # n => pod'[m] = pod[m]
    BY <1>1, <1>3 DEF WatcherInv, WatcherTypeOK
<1> HIDE DEF p
<1>5. stream' \in Seq(Event) /\ StreamOK' /\ ListOK'
    BY <1>1, <1>3, <1>4, NoticeOK DEF WatcherInv, CreatePod
<1>6. WatcherTypeOK'
    BY <1>1, <1>2, <1>4, <1>5 DEF WatcherInv, WatcherTypeOK
<1>7. PodsOK'
    <2>1. \A u \in Uids : gone[n][u] # "no" => u <= pod[n].uid /\ u < pod[n].uid + 1
        BY PodFields DEF WatcherInv, PodsOK, Uids
    <2>2. \A u \in Uids : gone[n][u] # "no" => u <= p.uid /\ u # p.uid
        BY <1>3, <2>1, PodFields DEF Uids
    <2> QED
        BY <1>1, <1>3, <1>4, <2>2 DEF WatcherInv, PodsOK
<1>8. OrdersOK'
    <2>1. \A m \in Nodes : Withdrawn(m)' => Withdrawn(m)
        BY <1>1, <1>4 DEF Withdrawn
    <2>2. \A m \in Nodes : Announced(m) => Announced(m)'
        BY <1>2 DEF Announced
    <2> QED
        BY <1>2, <2>1, <2>2, OrdersKept DEF WatcherInv
<1>9. NoFalseAlarm'
    BY <1>1, <1>2, AlarmsKept, ReportedType DEF WatcherInv, Reported
<1>10. CmdsOK'
    BY <1>2, CmdsKept DEF WatcherInv, Terminal
<1> QED
    BY <1>5, <1>6, <1>7, <1>8, <1>9, <1>10 DEF WatcherInv

LEMMA PodMovesStep ==
    ASSUME WatcherInv, NEW n \in Nodes, PodMoves(n)
    PROVE  WatcherInv'
<1>1. PICK stage \in Moves[pod[n].stage] \cap Stages : pod' = [pod EXCEPT ![n].stage = stage]
    BY DEF PodMoves
<1> DEFINE p == [pod[n] EXCEPT !.stage = stage]
<1>2. Exists(pod[n]) /\ job' = job /\ gone' = gone /\ missed' = missed
    BY DEF PodMoves
<1>3. /\ connected' = connected /\ desyncs' = desyncs /\ w' = w /\ cmds' = cmds /\ signals' = signals
      /\ inbox' = inbox /\ status' = status /\ c' = c /\ absent' = absent
    BY DEF PodMoves, Notice, coordinatorVars
<1>4. p \in Pod /\ Exists(p) /\ p.uid = pod[n].uid /\ p.uid # 0
    <2>1. "none" \notin Stages
        BY WatcherAssumption DEF StageKinds
    <2>2. pod[n].uid # 0
        BY <1>2 DEF WatcherInv, PodsOK
    <2> QED
        BY <1>1, <2>1, <2>2, PodFields DEF Pod, Exists
<1>5. pod' \in [Nodes -> Pod] /\ pod'[n] = p /\ \A m \in Nodes : m # n => pod'[m] = pod[m]
    BY <1>1, <1>4 DEF WatcherInv, WatcherTypeOK
<1> HIDE DEF p
<1>6. stream' \in Seq(Event) /\ StreamOK' /\ ListOK'
    BY <1>2, <1>4, <1>5, NoticeOK DEF WatcherInv, PodMoves
<1>7. WatcherTypeOK'
    BY <1>2, <1>3, <1>5, <1>6 DEF WatcherInv, WatcherTypeOK
<1>8. PodsOK'
    BY <1>2, <1>4, <1>5 DEF WatcherInv, PodsOK
<1>9. OrdersOK'
    <2>1. \A m \in Nodes : Withdrawn(m)' => Withdrawn(m)
        BY <1>2, <1>5 DEF Withdrawn
    <2>2. \A m \in Nodes : Announced(m) => Announced(m)'
        BY <1>3 DEF Announced
    <2> QED
        BY <1>3, <2>1, <2>2, OrdersKept DEF WatcherInv
<1>10. NoFalseAlarm'
    BY <1>2, <1>3, AlarmsKept, ReportedType DEF WatcherInv, Reported
<1>11. CmdsOK'
    BY <1>3, CmdsKept DEF WatcherInv, Terminal
<1> QED
    BY <1>6, <1>7, <1>8, <1>9, <1>10, <1>11 DEF WatcherInv

LEMMA PodGoesStep ==
    ASSUME WatcherInv, NEW n \in Nodes, PodGoes(n)
    PROVE  WatcherInv'
<1> DEFINE p == [pod[n] EXCEPT !.stage = "none"]
           how == IF n \in job THEN "lost" ELSE "cancelled"
           u0 == pod[n].uid
<1>1. /\ Exists(pod[n]) /\ pod' = [pod EXCEPT ![n].stage = "none"] /\ gone' = [gone EXCEPT ![n][u0] = how]
      /\ missed' \in {missed, missed \cup {n}} /\ job' = job
    BY DEF PodGoes
<1>2. /\ connected' = connected /\ desyncs' = desyncs /\ w' = w /\ cmds' = cmds /\ signals' = signals
      /\ inbox' = inbox /\ status' = status /\ c' = c /\ absent' = absent
    BY DEF PodGoes, Notice, coordinatorVars
<1>3. p \in Pod /\ ~Exists(p) /\ p.uid = u0 /\ u0 \in Uids /\ gone[n][u0] = "no" /\ u0 # 0
    <2>1. u0 # 0
        BY <1>1 DEF WatcherInv, PodsOK
    <2> QED
        BY <1>1, <2>1, PodFields DEF Pod, Exists
<1>4. pod' \in [Nodes -> Pod] /\ pod'[n] = p /\ \A m \in Nodes : m # n => pod'[m] = pod[m]
    BY <1>1, <1>3 DEF WatcherInv, WatcherTypeOK
<1>5. /\ gone' \in [Nodes -> [Uids -> {"no", "cancelled", "lost"}]]
      /\ gone'[n][u0] = how
      /\ \A m \in Nodes, u \in Uids : m # n \/ u # u0 => gone'[m][u] = gone[m][u]
    <2> DEFINE g == [gone[n] EXCEPT ![u0] = how]
    <2>1. gone' = [gone EXCEPT ![n] = g]
        BY <1>1 DEF WatcherInv, WatcherTypeOK
    <2>2. gone \in [Nodes -> [Uids -> {"no", "cancelled", "lost"}]] /\ how \in {"no", "cancelled", "lost"}
        BY DEF WatcherInv, WatcherTypeOK
    <2> HIDE DEF how, u0
    <2>3. g \in [Uids -> {"no", "cancelled", "lost"}] /\ g[u0] = how /\ \A u \in Uids : u # u0 => g[u] = gone[n][u]
        BY <1>3, <2>2
    <2> HIDE DEF g
    <2> QED
        BY <2>1, <2>2, <2>3
<1>6. \A m \in Nodes, u \in Uids : gone[m][u] # "no" => gone'[m][u] = gone[m][u]
    BY <1>3, <1>5
<1>7. stream' \in Seq(Event) /\ StreamOK' /\ ListOK'
    <2>1. Notice("Delete", n, pod[n]) /\ pod[n] \in Pod /\ how # "no"
        BY PodFields DEF PodGoes
    <2> HIDE DEF p, how
    <2>2. \A m \in Nodes, u \in Uids : gone[m][u] # "no" => gone'[m][u] # "no"
        BY <1>6
    <2> QED
        BY <1>1, <1>3, <1>5, <2>1, <2>2, NoticeOK DEF WatcherInv
<1>8. WatcherTypeOK'
    BY <1>1, <1>2, <1>4, <1>5, <1>7 DEF WatcherInv, WatcherTypeOK
<1>9. PodsOK'
    <2> HIDE DEF p, how
    <2>1. ASSUME NEW m \in Nodes, NEW u \in Uids, gone'[m][u] # "no"
          PROVE  u <= pod'[m].uid /\ (u = pod'[m].uid => ~Exists(pod'[m]))
        <3>1. CASE m = n /\ u = u0
            BY <1>3, <1>4, <3>1 DEF Uids
        <3>2. CASE m # n \/ u # u0
            <4>1. u <= pod[m].uid /\ (u = pod[m].uid => ~Exists(pod[m]))
                BY <1>5, <2>1, <3>2 DEF WatcherInv, PodsOK
            <4> QED
                BY <1>3, <1>4, <4>1
        <3> QED
            BY <3>1, <3>2
    <2>2. ASSUME NEW m \in Nodes, Exists(pod'[m]) PROVE pod'[m].uid # 0
        BY <1>3, <1>4, <2>2 DEF WatcherInv, PodsOK
    <2>3. \A m \in Nodes : Exists(pod[m])' <=> Exists(pod'[m])
        BY DEF Exists
    <2> QED
        BY <2>1, <2>2, <2>3 DEF PodsOK
<1>10. OrdersOK'
    <2> HIDE DEF p
    <2>1. \A m \in Nodes : Withdrawn(m)' => Withdrawn(m)
        <3> SUFFICES ASSUME NEW m \in Nodes, Withdrawn(m)' PROVE Withdrawn(m)
            OBVIOUS
        <3>1. CASE Exists(pod'[m]) /\ m \notin job'
            BY <1>1, <1>3, <1>4, <3>1 DEF Withdrawn
        <3>2. CASE \E u \in Uids : gone'[m][u] = "cancelled"
            <4>1. PICK u \in Uids : gone'[m][u] = "cancelled"
                BY <3>2
            <4>2. CASE m = n /\ u = u0
                <5>1. n \notin job
                    BY <1>5, <4>1, <4>2
                <5> QED
                    BY <1>1, <4>2, <5>1 DEF Withdrawn
            <4>3. CASE m # n \/ u # u0
                BY <1>5, <4>1, <4>3 DEF Withdrawn
            <4> QED
                BY <4>2, <4>3
        <3> QED
            BY <3>1, <3>2 DEF Withdrawn, Exists
    <2>2. \A m \in Nodes : Announced(m) => Announced(m)'
        BY <1>2 DEF Announced
    <2> QED
        BY <1>2, <2>1, <2>2, OrdersKept DEF WatcherInv
<1>11. NoFalseAlarm'
    BY <1>2, <1>6, AlarmsKept, ReportedType DEF WatcherInv, Reported
<1>12. CmdsOK'
    BY <1>2, CmdsKept DEF WatcherInv, Terminal
<1> QED
    BY <1>7, <1>8, <1>9, <1>10, <1>11, <1>12 DEF WatcherInv

\* A list: Init, one InitApply for each node that has a pod, InitDone.
LEMMA ListStep ==
    ASSUME WatcherInv, List
    PROVE  WatcherInv'
<1> DEFINE S == {n \in Nodes : Exists(pod[n])}
           entry(n) == [type |-> "InitApply", node |-> n, pod |-> pod[n]]
<1>1. PICK order \in SetToSeqs(S) :
          stream' = <<[type |-> "Init"]>> \o [i \in DOMAIN order |-> entry(order[i])] \o <<[type |-> "InitDone"]>>
    BY DEF List
<1>2. /\ connected' = TRUE /\ absent' = absent \cup {n \in Nodes : ~Exists(pod[n])}
      /\ job' = job /\ pod' = pod /\ gone' = gone /\ desyncs' = desyncs /\ w' = w /\ cmds' = cmds
      /\ signals' = signals /\ inbox' = inbox /\ status' = status /\ c' = c /\ missed' = missed
    BY DEF List, kubeVars, coordinatorVars
<1>3. S \subseteq Nodes /\ IsFiniteSet(S)
    BY FS_Subset, WatcherAssumption
<1>4. order \in Seq(S) /\ DOMAIN order = 1..Len(order) /\ Len(order) \in Nat /\ ToSet(order) = S
    BY <1>3, Enumeration
<1> HIDE DEF S
<1>5. \A i \in 1..Len(order) : order[i] \in S
    BY <1>4
<1>6. \A n \in S : n \in Nodes /\ Exists(pod[n]) /\ pod[n] \in Pod /\ pod[n].uid # 0
    BY PodFields DEF S, WatcherInv, PodsOK
<1>7. \A n \in S : entry(n) \in Event /\ entry(n).type = "InitApply" /\ entry(n).node = n /\ entry(n).pod = pod[n]
    BY <1>6 DEF Event
<1> DEFINE body == [i \in 1..Len(order) |-> entry(order[i])]
           first == [type |-> "Init"]
           last == [type |-> "InitDone"]
<1>8. body \in Seq(Event) /\ Len(body) = Len(order) /\ \A i \in 1..Len(order) : body[i] = entry(order[i])
    <2> HIDE DEF entry
    <2> QED
        BY <1>4, <1>5, <1>7
<1>9. first \in Event /\ last \in Event /\ first.type = "Init" /\ last.type = "InitDone"
    BY DEF Event
<1>10. stream' = <<first>> \o body \o <<last>>
    BY <1>1, <1>4
<1> HIDE DEF entry, body, first, last
<1> DEFINE k == Len(order)
<1>11. /\ stream' \in Seq(Event) /\ DOMAIN stream' = 1..(k + 2)
       /\ stream'[1] = first /\ stream'[k + 2] = last /\ \A i \in 1..k : stream'[i + 1] = entry(order[i])
    <2>1. <<first>> \in Seq(Event) /\ <<last>> \in Seq(Event) /\ Len(<<first>>) = 1 /\ Len(<<last>>) = 1
        BY <1>9
    <2> DEFINE most == <<first>> \o body
    <2>2. most \in Seq(Event) /\ Len(most) = k + 1 /\ most[1] = first /\ \A i \in 1..k : most[i + 1] = body[i]
        BY <1>4, <1>8, <2>1
    <2>3. stream' = most \o <<last>>
        BY <1>10
    <2> HIDE DEF most
    <2>4. /\ stream' \in Seq(Event) /\ Len(stream') = k + 2
          /\ stream'[k + 2] = last /\ \A i \in 1..(k + 1) : stream'[i] = most[i]
        BY <1>4, <2>1, <2>2, <2>3
    <2>5. \A i \in 1..k : i + 1 \in 1..(k + 1)
        BY <1>4
    <2>6. 1 \in 1..(k + 1) /\ DOMAIN stream' = 1..(k + 2)
        BY <1>4, <2>4
    <2> QED
        BY <1>8, <2>2, <2>4, <2>5, <2>6
<1>12. \A i \in DOMAIN stream' : i = 1 \/ i = k + 2 \/ \E j \in 1..k : i = j + 1
    <2>1. ASSUME NEW i \in 1..(k + 2), i # 1, i # k + 2 PROVE \E j \in 1..k : i = j + 1
        <3>1. i - 1 \in 1..k /\ i = (i - 1) + 1
            BY <1>4, <2>1
        <3> QED
            BY <3>1
    <2> QED
        BY <1>11, <2>1
<1>13. StreamOK'
    <2>1. ASSUME NEW i \in DOMAIN stream' PROVE EventOK(stream[i])'
        <3>1. CASE i = 1 \/ i = k + 2
            BY <1>9, <1>11, <3>1 DEF EventOK
        <3>2. ASSUME NEW j \in 1..k, i = j + 1 PROVE EventOK(stream[i])'
            <4>1. PICK n \in S : n = order[j]
                BY <1>5
            <4>2. /\ stream'[i].type = "InitApply" /\ stream'[i].pod = pod[n]
                  /\ Exists(stream'[i].pod) /\ stream'[i].pod.uid # 0
                BY <1>6, <1>7, <1>11, <3>2, <4>1
            <4> QED
                BY <4>2 DEF EventOK, Exists
        <3> QED
            BY <1>12, <3>1, <3>2
    <2> QED
        BY <2>1 DEF StreamOK
<1>14. ListOK'
    <2>1. ASSUME NEW j \in DOMAIN stream', stream'[j].type = "InitDone", NEW n \in w.seed_running
          PROVE  n \in absent' \/ Listed(n, j)'
        <3>1. j = k + 2
            BY <1>5, <1>7, <1>9, <1>11, <1>12, <2>1
        <3>2. n \in Nodes
            BY DEF WatcherInv, WatcherTypeOK, WatcherState
        <3>3. CASE n \notin S
            BY <1>2, <3>2, <3>3 DEF S
        <3>4. CASE n \in S
            <4>1. PICK i \in 1..k : order[i] = n
                BY <1>4, <3>4 DEF ToSet
            <4>2. i + 1 \in 1..(j - 1) /\ stream'[i + 1] = entry(n)
                BY <1>4, <1>11, <3>1, <4>1
            <4> QED
                BY <1>7, <3>4, <4>2 DEF Listed
        <3> QED
            BY <3>3, <3>4
    <2> QED
        BY <1>2, <2>1 DEF ListOK
<1>15. WatcherTypeOK'
    <2>1. absent' \subseteq Nodes
        BY <1>2 DEF WatcherInv, WatcherTypeOK
    <2> QED
        BY <1>2, <1>11, <2>1 DEF WatcherInv, WatcherTypeOK
<1>16. PodsOK'
    BY <1>2, PodsKept DEF WatcherInv
<1>17. OrdersOK'
    BY <1>2, OrdersKept DEF WatcherInv, Withdrawn, Announced
<1>18. NoFalseAlarm'
    BY <1>2, AlarmsKept, ReportedType DEF WatcherInv, Reported
<1>19. CmdsOK'
    BY <1>2, CmdsKept DEF WatcherInv, Terminal
<1> QED
    BY <1>13, <1>14, <1>15, <1>16, <1>17, <1>18, <1>19 DEF WatcherInv

LEMMA DesyncStep ==
    ASSUME WatcherInv, Desync
    PROVE  WatcherInv'
<1> DEFINE lost == {stream[i].node : i \in {j \in DOMAIN stream : stream[j].type = "Delete"}}
<1>1. /\ connected' = FALSE /\ stream' = << >> /\ desyncs < MaxDesyncs /\ desyncs' = desyncs + 1
      /\ missed' = missed \cup lost
      /\ job' = job /\ pod' = pod /\ gone' = gone /\ w' = w /\ cmds' = cmds /\ signals' = signals
      /\ inbox' = inbox /\ status' = status /\ c' = c /\ absent' = absent
    BY DEF Desync, kubeVars, coordinatorVars
<1>2. lost \subseteq Nodes
    <2>1. ASSUME NEW j \in DOMAIN stream, stream[j].type = "Delete" PROVE stream[j].node \in Nodes
        <3>1. stream[j] \in Event
            BY DEF WatcherInv, WatcherTypeOK
        <3> QED
            BY <2>1, <3>1 DEF Event
    <2> QED
        BY <2>1
<1> HIDE DEF lost
<1>3. WatcherTypeOK'
    <2>1. desyncs' \in 0..MaxDesyncs
        BY <1>1, WatcherAssumption DEF WatcherInv, WatcherTypeOK
    <2>2. stream' \in Seq(Event)
        BY <1>1
    <2>3. connected' \in BOOLEAN
        BY <1>1
    <2>4. missed' \subseteq Nodes
        BY <1>1, <1>2 DEF WatcherInv, WatcherTypeOK
    <2> QED
        BY <1>1, <2>1, <2>2, <2>3, <2>4 DEF WatcherInv, WatcherTypeOK
<1>4. DOMAIN stream' = {}
    BY <1>1
<1>5. StreamOK' /\ ListOK'
    BY <1>4 DEF StreamOK, ListOK
<1>6. PodsOK'
    BY <1>1, PodsKept DEF WatcherInv
<1>7. OrdersOK'
    BY <1>1, OrdersKept DEF WatcherInv, Withdrawn, Announced
<1>8. NoFalseAlarm'
    BY <1>1, AlarmsKept, ReportedType DEF WatcherInv, Reported
<1>9. CmdsOK'
    BY <1>1, CmdsKept DEF WatcherInv, Terminal
<1> QED
    BY <1>3, <1>5, <1>6, <1>7, <1>8, <1>9 DEF WatcherInv

----------------------------------------------------------------------------
(* The watcher task and the relay task                                     *)

LEMMA ReceiveCommandStep ==
    ASSUME WatcherInv, ReceiveCommand
    PROVE  WatcherInv'
<1>1. /\ cmds # << >> /\ w' = [w EXCEPT !.expected_deletions = @ \cup {Head(cmds)}] /\ cmds' = Tail(cmds)
      /\ job' = job /\ pod' = pod /\ gone' = gone /\ stream' = stream /\ connected' = connected
      /\ desyncs' = desyncs /\ signals' = signals
      /\ inbox' = inbox /\ status' = status /\ c' = c /\ absent' = absent /\ missed' = missed
    BY DEF ReceiveCommand, kubeVars, watchVars, coordinatorVars, historyVars
<1>2. cmds \in Seq(Nodes) /\ Len(cmds) <= CmdCap /\ CmdCap \in Nat
    BY WatcherAssumption DEF WatcherInv, WatcherTypeOK
<1>3. /\ Tail(cmds) \in Seq(Nodes) /\ Head(cmds) \in Nodes /\ ToSet(cmds) = ToSet(Tail(cmds)) \cup {Head(cmds)}
      /\ IsInjective(cmds) => IsInjective(Tail(cmds))
      /\ Len(Tail(cmds)) <= CmdCap
    <2>1. Len(Tail(cmds)) <= CmdCap
        BY <1>1, <1>2
    <2> QED
        BY <1>1, <1>2, <2>1, TailSet
<1>4. /\ w' \in WatcherState /\ w'.expected_deletions = w.expected_deletions \cup {Head(cmds)}
      /\ w'.seed_running = w.seed_running /\ w'.observed_during_init = w.observed_during_init
      /\ w'.presence_diff_emitted = w.presence_diff_emitted /\ w'.out = w.out
    BY <1>1, <1>3 DEF WatcherInv, WatcherTypeOK, WatcherState
<1>5. WatcherTypeOK'
    BY <1>1, <1>3, <1>4 DEF WatcherInv, WatcherTypeOK
<1>6. PodsOK'
    BY <1>1, PodsKept DEF WatcherInv
<1>7. StreamOK' /\ ListOK'
    BY <1>1, <1>4, StreamKept DEF WatcherInv
<1>8. OrdersOK'
    <2>1. \A n \in Nodes : Announced(n) => Announced(n)'
        BY <1>1, <1>3, <1>4 DEF Announced
    <2>2. \A n \in Nodes : Withdrawn(n)' => Withdrawn(n)
        BY <1>1 DEF Withdrawn
    <2> QED
        BY <1>1, <2>1, <2>2, OrdersKept DEF WatcherInv
<1>9. NoFalseAlarm'
    BY <1>1, <1>4, AlarmsKept, ReportedType DEF WatcherInv, Reported
<1>10. CmdsOK'
    <2>1. \A n : Terminal(n)' <=> Terminal(n)
        BY <1>1 DEF Terminal
    <2>2. ToSet(cmds') \subseteq ToSet(cmds) /\ IsInjective(cmds')
        BY <1>1, <1>3 DEF WatcherInv, CmdsOK
    <2> QED
        BY <1>1, <2>1, <2>2 DEF WatcherInv, CmdsOK
<1> QED
    BY <1>5, <1>6, <1>7, <1>8, <1>9, <1>10 DEF WatcherInv

\* The only step that makes signals.  A deletion it reports is lost, or the run
\* is being stopped, because the command is read before the event; a missing pod
\* it reports was in no list, because the whole list is read first.
LEMMA ReceiveEventStep ==
    ASSUME WatcherInv, ReceiveEvent
    PROVE  WatcherInv'
<1>1. PICK order \in SetToSeqs(missing_after_init(w)) : w' = handle_event(w, Head(stream), order)
    BY DEF ReceiveEvent
<1>2. /\ w.out = << >> /\ cmds = << >> /\ stream # << >> /\ stream' = Tail(stream)
      /\ job' = job /\ pod' = pod /\ gone' = gone /\ connected' = connected
      /\ desyncs' = desyncs /\ cmds' = cmds /\ signals' = signals
      /\ inbox' = inbox /\ status' = status /\ c' = c /\ absent' = absent /\ missed' = missed
    BY DEF ReceiveEvent, kubeVars, coordinatorVars, historyVars
<1>3. /\ stream \in Seq(Event) /\ DOMAIN stream = 1..Len(stream) /\ Len(stream) \in Nat /\ Len(stream) > 0
      /\ Tail(stream) \in Seq(Event) /\ DOMAIN Tail(stream) = 1..(Len(stream) - 1)
      /\ Head(stream) = stream[1] /\ \A i \in 1..(Len(stream) - 1) : stream'[i] = stream[i + 1]
    BY <1>2 DEF WatcherInv, WatcherTypeOK
<1>4. PICK ev \in Event : ev = Head(stream)
    BY <1>3
<1>5. EventOK(ev)
    BY <1>3, <1>4 DEF WatcherInv, StreamOK
<1>6. w \in WatcherState
    BY DEF WatcherInv, WatcherTypeOK
<1> DEFINE t == handle_event(w, ev, order)
<1>7. w' = t
    BY <1>1, <1>4
<1>8. /\ Sends(w, t, Justified(w, ev)) /\ w.observed_during_init \subseteq t.observed_during_init
      /\ ev.type = "InitApply" /\ ev.node \in w.seed_running => ev.node \in t.observed_during_init
      /\ w.presence_diff_emitted => t.presence_diff_emitted
      /\ ev.type = "InitDone" => t.presence_diff_emitted
    BY <1>5, <1>6, HandleEventOK DEF EventOK
<1> HIDE DEF t
<1>9. /\ w' \in WatcherState /\ w'.expected_deletions = w.expected_deletions
      /\ w'.seed_running = w.seed_running /\ ToSet(w'.out) \subseteq ToSet(w.out) \cup Justified(w, ev)
    BY <1>7, <1>8 DEF Sends
<1>10. WatcherTypeOK'
    BY <1>2, <1>3, <1>9 DEF WatcherInv, WatcherTypeOK
<1>11. PodsOK'
    BY <1>2, PodsKept DEF WatcherInv
<1>12. StreamOK'
    <2>1. ASSUME NEW i \in DOMAIN stream' PROVE EventOK(stream[i])'
        <3>1. i \in 1..(Len(stream) - 1) /\ i + 1 \in DOMAIN stream /\ stream'[i] = stream[i + 1]
            BY <1>2, <1>3
        <3>2. EventOK(stream[i + 1])
            BY <3>1 DEF WatcherInv, StreamOK
        <3> QED
            BY <1>2, <3>1, <3>2 DEF EventOK
    <2> QED
        BY <2>1 DEF StreamOK
<1>13. OrdersOK'
    <2>1. \A n \in Nodes : Announced(n) => Announced(n)'
        BY <1>2, <1>9 DEF Announced
    <2>2. \A n \in Nodes : Withdrawn(n)' => Withdrawn(n)
        BY <1>2 DEF Withdrawn
    <2> QED
        BY <1>2, <2>1, <2>2, OrdersKept DEF WatcherInv
<1>14. NoFalseAlarm'
    <2> SUFFICES ASSUME NEW sg \in Reported', Deleted(sg)
                 PROVE  IF sg.uid = Sentinel THEN sg.node \in absent \cap w.seed_running
                        ELSE \/ gone[sg.node][sg.uid] = "lost"
                             \/ gone[sg.node][sg.uid] = "cancelled" /\ c.stopping
        BY <1>2, <1>9 DEF NoFalseAlarm, Deleted
    <2>1. CASE sg \in ToSet(signals)
        BY <2>1 DEF WatcherInv, NoFalseAlarm, Reported, Deleted
    <2>2. CASE sg \notin ToSet(signals)
        <3>1. sg \in ToSet(w'.out) /\ ToSet(w.out) = {}
            BY <1>2, <2>2 DEF Reported, ToSet
        <3>2. sg \in Signal /\ Cause(w, ev, sg)
            BY <1>9, <3>1 DEF Justified
        <3>3. CASE ev.type = "Delete" /\ ev.node \notin w.expected_deletions /\ sg.node = ev.node /\ sg.uid = ev.pod.uid
            <4>1. sg.uid # 0 /\ gone[sg.node][sg.uid] # "no"
                BY <1>5, <3>3 DEF EventOK
            <4>2. sg.node \in Nodes /\ sg.uid \in Uids
                BY <3>2, <4>1, SignalFields DEF Sentinel
            <4>3. gone[sg.node][sg.uid] \in {"lost", "cancelled"}
                BY <4>1, <4>2 DEF WatcherInv, WatcherTypeOK
            <4>4. ~Announced(sg.node)
                BY <1>2, <3>3 DEF Announced, ToSet
            <4>5. gone[sg.node][sg.uid] = "cancelled" => c.stopping
                BY <4>2, <4>4 DEF WatcherInv, OrdersOK, Withdrawn
            <4> QED
                BY <4>1, <4>3, <4>5 DEF Sentinel
        <3>4. CASE /\ ev.type = "InitDone" /\ ~w.presence_diff_emitted
                   /\ sg.uid = Sentinel /\ sg.node \in missing_after_init(w)
            <4>1. 1 \in DOMAIN stream /\ stream[1].type = "InitDone"
                BY <1>3, <1>4, <3>4
            <4>2. sg.node \in w.observed_during_init \/ sg.node \in absent \/ Listed(sg.node, 1)
                BY <3>4, <4>1 DEF WatcherInv, ListOK, missing_after_init
            <4>3. ~Listed(sg.node, 1)
                BY DEF Listed
            <4> QED
                BY <3>4, <4>2, <4>3 DEF missing_after_init
        <3> QED
            BY <3>2, <3>3, <3>4 DEF Cause
    <2> QED
        BY <2>1, <2>2
<1>15. ListOK'
    <2>1. ASSUME NEW j \in DOMAIN stream', stream'[j].type = "InitDone", ~w'.presence_diff_emitted,
                 NEW n \in w'.seed_running
          PROVE  n \in w'.observed_during_init \/ n \in absent' \/ Listed(n, j)'
        <3>1. j \in 1..(Len(stream) - 1) /\ j + 1 \in DOMAIN stream /\ stream'[j] = stream[j + 1]
            BY <1>2, <1>3
        <3>2. ~w.presence_diff_emitted /\ n \in w.seed_running
            BY <1>7, <1>8, <1>9, <2>1
        <3>3. n \in w.observed_during_init \/ n \in absent \/ Listed(n, j + 1)
            BY <2>1, <3>1, <3>2 DEF WatcherInv, ListOK
        <3>4. CASE Listed(n, j + 1)
            <4>1. PICK i \in 1..j : stream[i].type = "InitApply" /\ stream[i].node = n
                BY <1>3, <3>1, <3>4 DEF Listed
            <4>2. CASE i = 1
                <5>1. n \in w'.observed_during_init
                    BY <1>3, <1>4, <1>7, <1>8, <3>2, <4>1, <4>2
                <5> QED
                    BY <5>1
            <4>3. CASE i # 1
                <5>1. i - 1 \in 1..(j - 1) /\ i - 1 \in 1..(Len(stream) - 1) /\ (i - 1) + 1 = i
                    BY <1>3, <3>1, <4>1, <4>3
                <5>2. stream'[i - 1] = stream[i]
                    BY <1>3, <5>1
                <5> QED
                    BY <4>1, <5>1, <5>2 DEF Listed
            <4> QED
                BY <4>2, <4>3
        <3> QED
            BY <1>2, <1>7, <1>8, <3>3, <3>4
    <2> QED
        BY <2>1 DEF ListOK
<1>16. CmdsOK'
    BY <1>2, CmdsKept DEF WatcherInv, Terminal
<1> QED
    BY <1>10, <1>11, <1>12, <1>13, <1>14, <1>15, <1>16 DEF WatcherInv

LEMMA SendSignalStep ==
    ASSUME WatcherInv, send_signal
    PROVE  WatcherInv'
<1>1. /\ w.out # << >> /\ Len(signals) < SignalCap /\ signals' = Append(signals, Head(w.out))
      /\ w' = [w EXCEPT !.out = Tail(@)]
      /\ job' = job /\ pod' = pod /\ gone' = gone /\ stream' = stream /\ connected' = connected
      /\ desyncs' = desyncs /\ cmds' = cmds
      /\ inbox' = inbox /\ status' = status /\ c' = c /\ absent' = absent /\ missed' = missed
    BY DEF send_signal, kubeVars, watchVars, coordinatorVars, historyVars
<1>2. w.out \in Seq(Signal) /\ signals \in Seq(Signal) /\ SignalCap \in Nat
    BY WatcherAssumption DEF WatcherInv, WatcherTypeOK, WatcherState
<1>3. Tail(w.out) \in Seq(Signal) /\ Head(w.out) \in Signal /\ ToSet(w.out) = ToSet(Tail(w.out)) \cup {Head(w.out)}
    BY <1>1, <1>2, TailSet
<1>4. signals' \in Seq(Signal) /\ ToSet(signals') = ToSet(signals) \cup {Head(w.out)}
    BY <1>1, <1>2, <1>3, AppendSet
<1>5. Len(signals') <= SignalCap
    BY <1>1, <1>2, <1>3
<1>6. /\ w' \in WatcherState /\ w'.expected_deletions = w.expected_deletions
      /\ w'.seed_running = w.seed_running /\ w'.observed_during_init = w.observed_during_init
      /\ w'.presence_diff_emitted = w.presence_diff_emitted /\ w'.out = Tail(w.out)
    BY <1>1, <1>3 DEF WatcherInv, WatcherTypeOK, WatcherState
<1>7. WatcherTypeOK'
    BY <1>1, <1>4, <1>5, <1>6 DEF WatcherInv, WatcherTypeOK
<1>8. PodsOK'
    BY <1>1, PodsKept DEF WatcherInv
<1>9. StreamOK' /\ ListOK'
    BY <1>1, <1>6, StreamKept DEF WatcherInv
<1>10. OrdersOK'
    BY <1>1, <1>6, OrdersKept DEF WatcherInv, Withdrawn, Announced
<1>11. NoFalseAlarm'
    <2>1. Reported' \subseteq Reported
        BY <1>3, <1>4, <1>6 DEF Reported
    <2> QED
        BY <1>1, <2>1, AlarmsKept, ReportedType DEF WatcherInv
<1>12. CmdsOK'
    BY <1>1, CmdsKept DEF WatcherInv, Terminal
<1> QED
    BY <1>7, <1>8, <1>9, <1>10, <1>11, <1>12 DEF WatcherInv

Message == [type : {"pod_running", "infra_failed", "timed_out"}, node : Nodes]

LEMMA RelayStep ==
    ASSUME WatcherInv, Relay
    PROVE  WatcherInv'
<1> DEFINE m == [type |-> IF Head(signals).kind = "running" THEN "pod_running" ELSE "infra_failed",
                 node |-> Head(signals).node]
<1>1. /\ signals # << >> /\ Len(inbox) < InternalCap /\ inbox' = Append(inbox, m) /\ signals' = Tail(signals)
      /\ job' = job /\ pod' = pod /\ gone' = gone /\ stream' = stream /\ connected' = connected
      /\ desyncs' = desyncs /\ cmds' = cmds /\ w' = w
      /\ status' = status /\ c' = c /\ absent' = absent /\ missed' = missed
    BY DEF Relay, kubeVars, watchVars, coordinatorVars, historyVars
<1>2. signals \in Seq(Signal) /\ Len(signals) <= SignalCap /\ SignalCap \in Nat /\ InternalCap \in Nat
      /\ inbox \in Seq(Message)
    BY WatcherAssumption DEF WatcherInv, WatcherTypeOK, Message
<1>3. Tail(signals) \in Seq(Signal) /\ Head(signals) \in Signal
      /\ ToSet(signals) = ToSet(Tail(signals)) \cup {Head(signals)}
    BY <1>1, <1>2, TailSet
<1>4. m \in Message
    BY <1>3, SignalFields DEF Message
<1> HIDE DEF m
<1>5. inbox' \in Seq(Message) /\ Len(inbox') <= InternalCap
    BY <1>1, <1>2, <1>4
<1>6. Len(signals') <= SignalCap
    BY <1>1, <1>2
<1>7. WatcherTypeOK'
    BY <1>1, <1>3, <1>5, <1>6 DEF WatcherInv, WatcherTypeOK, Message
<1>8. PodsOK'
    BY <1>1, PodsKept DEF WatcherInv
<1>9. StreamOK' /\ ListOK'
    BY <1>1, StreamKept DEF WatcherInv
<1>10. OrdersOK'
    BY <1>1, OrdersKept DEF WatcherInv, Withdrawn, Announced
<1>11. NoFalseAlarm'
    <2>1. Reported' \subseteq Reported
        BY <1>1, <1>3 DEF Reported
    <2> QED
        BY <1>1, <2>1, AlarmsKept, ReportedType DEF WatcherInv
<1>12. CmdsOK'
    BY <1>1, CmdsKept DEF WatcherInv, Terminal
<1> QED
    BY <1>7, <1>8, <1>9, <1>10, <1>11, <1>12 DEF WatcherInv

----------------------------------------------------------------------------
(* The coordinator                                                         *)

LEMMA DispatchStep ==
    ASSUME WatcherInv, NEW n \in Nodes, Dispatch(n)
    PROVE  WatcherInv'
<1>1. /\ status[n] = "pending" /\ status' = [status EXCEPT ![n] = "running"] /\ job' = job \cup {n}
      /\ pod' = pod /\ gone' = gone /\ stream' = stream /\ connected' = connected
      /\ desyncs' = desyncs /\ cmds' = cmds /\ w' = w /\ signals' = signals /\ inbox' = inbox
      /\ c' = c /\ absent' = absent /\ missed' = missed
    BY DEF Dispatch, watchVars, historyVars
<1>2. status' \in [Nodes -> NodeState] /\ \A m \in Nodes : m # n => status'[m] = status[m]
    BY <1>1 DEF WatcherInv, WatcherTypeOK, NodeState
<1>3. WatcherTypeOK'
    BY <1>1, <1>2 DEF WatcherInv, WatcherTypeOK
<1>4. PodsOK'
    BY <1>1, PodsKept DEF WatcherInv
<1>5. StreamOK' /\ ListOK'
    BY <1>1, StreamKept DEF WatcherInv
<1>6. OrdersOK'
    BY <1>1, OrdersKept DEF WatcherInv, Withdrawn, Announced
<1>7. NoFalseAlarm'
    BY <1>1, AlarmsKept, ReportedType DEF WatcherInv, Reported
<1>8. CmdsOK'
    <2>1. \A m \in Nodes : Terminal(m) => Terminal(m)'
        BY <1>1, <1>2 DEF Terminal
    <2> QED
        BY <1>1, <2>1, CmdsKept DEF WatcherInv
<1> QED
    BY <1>3, <1>4, <1>5, <1>6, <1>7, <1>8 DEF WatcherInv

LEMMA NodeCompletesStep ==
    ASSUME WatcherInv, NEW n \in Nodes, NodeCompletes(n)
    PROVE  WatcherInv'
<1>1. PICK result \in {"success", "failed"} : status' = [status EXCEPT ![n] = result]
    BY DEF NodeCompletes
<1>2. /\ job' = job /\ pod' = pod /\ gone' = gone /\ stream' = stream /\ connected' = connected
      /\ desyncs' = desyncs /\ cmds' = cmds /\ w' = w /\ signals' = signals /\ inbox' = inbox
      /\ c' = c /\ absent' = absent /\ missed' = missed
    BY DEF NodeCompletes, kubeVars, watchVars, historyVars
<1>3. status' \in [Nodes -> NodeState] /\ \A m \in Nodes : m # n => status'[m] = status[m]
    BY <1>1 DEF WatcherInv, WatcherTypeOK, NodeState
<1>4. WatcherTypeOK'
    BY <1>2, <1>3 DEF WatcherInv, WatcherTypeOK
<1>5. PodsOK'
    BY <1>2, PodsKept DEF WatcherInv
<1>6. StreamOK' /\ ListOK'
    BY <1>2, StreamKept DEF WatcherInv
<1>7. OrdersOK'
    BY <1>2, OrdersKept DEF WatcherInv, Withdrawn, Announced
<1>8. NoFalseAlarm'
    BY <1>2, AlarmsKept, ReportedType DEF WatcherInv, Reported
<1>9. CmdsOK'
    <2>1. status'[n] = result
        BY <1>1 DEF WatcherInv, WatcherTypeOK
    <2>2. \A m \in Nodes : Terminal(m) => Terminal(m)'
        BY <1>3, <2>1 DEF Terminal
    <2> QED
        BY <1>2, <2>2, CmdsKept DEF WatcherInv
<1> QED
    BY <1>4, <1>5, <1>6, <1>7, <1>8, <1>9 DEF WatcherInv

LEMMA TimerFiresStep ==
    ASSUME WatcherInv, NEW n \in Nodes, TimerFires(n)
    PROVE  WatcherInv'
<1> DEFINE m == [type |-> "timed_out", node |-> n]
<1>1. /\ Len(inbox) < InternalCap /\ inbox' = Append(inbox, m) /\ c' = [c EXCEPT !.timed_out = @ \cup {n}]
      /\ job' = job /\ pod' = pod /\ gone' = gone /\ stream' = stream /\ connected' = connected
      /\ desyncs' = desyncs /\ cmds' = cmds /\ w' = w /\ signals' = signals /\ status' = status
      /\ absent' = absent /\ missed' = missed
    BY DEF TimerFires, kubeVars, watchVars, historyVars
<1>2. m \in Message /\ inbox \in Seq(Message) /\ InternalCap \in Nat
    BY WatcherAssumption DEF WatcherInv, WatcherTypeOK, Message
<1> HIDE DEF m
<1>3. inbox' \in Seq(Message) /\ Len(inbox') <= InternalCap
    BY <1>1, <1>2
<1>4. c' \in CoordinatorState /\ c'.pc = c.pc /\ c'.todo = c.todo /\ c'.stopping = c.stopping
    BY <1>1 DEF WatcherInv, WatcherTypeOK, CoordinatorState
<1>5. WatcherTypeOK'
    BY <1>1, <1>3, <1>4 DEF WatcherInv, WatcherTypeOK, Message
<1>6. PodsOK'
    BY <1>1, PodsKept DEF WatcherInv
<1>7. StreamOK' /\ ListOK'
    BY <1>1, StreamKept DEF WatcherInv
<1>8. OrdersOK'
    BY <1>1, <1>4, OrdersKept DEF WatcherInv, Withdrawn, Announced
<1>9. NoFalseAlarm'
    BY <1>1, <1>4, AlarmsKept, ReportedType DEF WatcherInv, Reported
<1>10. CmdsOK'
    BY <1>1, <1>4, CmdsKept DEF WatcherInv, Terminal
<1> QED
    BY <1>5, <1>6, <1>7, <1>8, <1>9, <1>10 DEF WatcherInv

LEMMA HandlePodRunningStep ==
    ASSUME WatcherInv, HandlePodRunning
    PROVE  WatcherInv'
<1>1. /\ inbox # << >> /\ inbox' = Tail(inbox)
      /\ job' = job /\ pod' = pod /\ gone' = gone /\ stream' = stream /\ connected' = connected
      /\ desyncs' = desyncs /\ cmds' = cmds /\ w' = w /\ signals' = signals /\ status' = status
      /\ c' = c /\ absent' = absent /\ missed' = missed
    BY DEF HandlePodRunning, kubeVars, watchVars, coordinatorVars, historyVars
<1>2. inbox \in Seq(Message) /\ Len(inbox) <= InternalCap /\ InternalCap \in Nat
    BY WatcherAssumption DEF WatcherInv, WatcherTypeOK, Message
<1>3. inbox' \in Seq(Message) /\ Len(inbox') <= InternalCap
    BY <1>1, <1>2
<1>4. WatcherTypeOK'
    BY <1>1, <1>3 DEF WatcherInv, WatcherTypeOK, Message
<1>5. PodsOK'
    BY <1>1, PodsKept DEF WatcherInv
<1>6. StreamOK' /\ ListOK'
    BY <1>1, StreamKept DEF WatcherInv
<1>7. OrdersOK'
    BY <1>1, OrdersKept DEF WatcherInv, Withdrawn, Announced
<1>8. NoFalseAlarm'
    BY <1>1, AlarmsKept, ReportedType DEF WatcherInv, Reported
<1>9. CmdsOK'
    BY <1>1, CmdsKept DEF WatcherInv, Terminal
<1> QED
    BY <1>4, <1>5, <1>6, <1>7, <1>8, <1>9 DEF WatcherInv

\* The channels' contents as sets of nodes.
LEMMA CmdsType ==
    ASSUME WatcherInv
    PROVE  /\ cmds \in Seq(Nodes) /\ ToSet(cmds) \subseteq Nodes /\ CmdCap \in Nat
           /\ c.todo \in Seq(Nodes)
           /\ c.pc \in {"notify", "cancel"} =>
                  /\ c.todo # << >> /\ Head(c.todo) \in Nodes /\ Tail(c.todo) \in Seq(Nodes)
<1>1. cmds \in Seq(Nodes) /\ CmdCap \in Nat /\ c.todo \in Seq(Nodes)
    BY WatcherAssumption DEF WatcherInv, WatcherTypeOK, CoordinatorState
<1>2. c.pc \in {"notify", "cancel"} => c.todo # << >>
    BY DEF WatcherInv, OrdersOK
<1>3. c.pc \in {"notify", "cancel"} => Head(c.todo) \in Nodes /\ Tail(c.todo) \in Seq(Nodes)
    BY <1>1, <1>2, TailSet
<1>4. ToSet(cmds) \subseteq Nodes
    BY <1>1 DEF ToSet
<1> QED
    BY <1>1, <1>2, <1>3, <1>4

LEMMA EmptySeqs ==
    /\ IsInjective(<< >>) /\ ToSet(<< >>) = {}
    /\ \A n : IsInjective(<<n>>) /\ ToSet(<<n>>) = {n} /\ <<n>> # << >> /\ Head(<<n>>) = n /\ Len(<<n>>) = 1
BY DEF IsInjective, ToSet

LEMMA HandleFailureStep ==
    ASSUME WatcherInv, HandleFailure
    PROVE  WatcherInv'
<1>0. PICK n : n = Head(inbox).node
    OBVIOUS
<1>1. /\ c.pc = "loop" /\ inbox # << >> /\ inbox' = Tail(inbox)
      /\ job' = job /\ pod' = pod /\ gone' = gone /\ stream' = stream /\ connected' = connected
      /\ desyncs' = desyncs /\ cmds' = cmds /\ w' = w /\ signals' = signals
      /\ absent' = absent /\ missed' = missed
      /\ \/ status' = status /\ c' = c
         \/ /\ ~Terminal(n) /\ status' = [status EXCEPT ![n] = "failed"]
            /\ c' = [c EXCEPT !.pc = "notify", !.todo = <<n>>]
    BY <1>0 DEF HandleFailure, Looping, kubeVars, watchVars, coordinatorVars, historyVars
<1>2. inbox \in Seq(Message) /\ Len(inbox) <= InternalCap /\ InternalCap \in Nat
    BY WatcherAssumption DEF WatcherInv, WatcherTypeOK, Message
<1>3. inbox' \in Seq(Message) /\ Len(inbox') <= InternalCap /\ Head(inbox) \in Message
    BY <1>1, <1>2
<1>4. n \in Nodes
    BY <1>0, <1>3 DEF Message
<1>5. /\ status' \in [Nodes -> NodeState] /\ \A m \in Nodes : Terminal(m) => Terminal(m)'
      /\ c' # c => Terminal(n)'
    <2>1. status \in [Nodes -> NodeState]
        BY DEF WatcherInv, WatcherTypeOK
    <2> QED
        BY <1>1, <1>4, <2>1 DEF Terminal, NodeState
<1>6. /\ c' \in CoordinatorState /\ c'.stopping = c.stopping
      /\ c' # c => c'.pc = "notify" /\ c'.todo = <<n>>
    <2>1. c \in CoordinatorState /\ <<n>> \in Seq(Nodes)
        BY <1>4 DEF WatcherInv, WatcherTypeOK
    <2> QED
        BY <1>1, <2>1 DEF CoordinatorState, CoordinatorPc
<1>7. WatcherTypeOK'
    BY <1>1, <1>3, <1>5, <1>6 DEF WatcherInv, WatcherTypeOK, Message
<1>8. PodsOK'
    BY <1>1, PodsKept DEF WatcherInv
<1>9. StreamOK' /\ ListOK'
    BY <1>1, StreamKept DEF WatcherInv
<1>10. NoFalseAlarm'
    BY <1>1, <1>6, AlarmsKept, ReportedType DEF WatcherInv, Reported
<1>11. CASE c' = c
    <2>1. OrdersOK'
        BY <1>1, <1>11, OrdersKept DEF WatcherInv, Withdrawn, Announced
    <2>2. CmdsOK'
        BY <1>1, <1>5, <1>11, CmdsKept DEF WatcherInv
    <2> QED
        BY <1>7, <1>8, <1>9, <1>10, <2>1, <2>2 DEF WatcherInv
<1>12. CASE c' # c
    <2>1. ~c.stopping /\ ~Terminal(n) /\ \A m \in ToSet(cmds) : Terminal(m)
        BY <1>1, <1>12 DEF WatcherInv, OrdersOK, CmdsOK
    <2>2. c'.pc = "notify" /\ c'.todo = <<n>> /\ c'.todo # << >> /\ Head(c'.todo) = n
        BY <1>6, <1>12, EmptySeqs
    <2>3. OrdersOK'
        <3>1. \A m \in Nodes : (Withdrawn(m)' <=> Withdrawn(m)) /\ (Announced(m)' <=> Announced(m))
            BY <1>1 DEF Withdrawn, Announced
        <3> QED
            BY <1>6, <2>1, <2>2, <3>1 DEF WatcherInv, OrdersOK
    <2>4. CmdsOK'
        <3>2. n \notin ToSet(cmds)
            BY <2>1
        <3>3. \A m \in ToSet(cmds) : Terminal(m)'
            BY <1>5, <2>1, CmdsType
        <3>4. Terminal(Head(c.todo))'
            BY <1>5, <1>12, <2>2 DEF Terminal
        <3> QED
            BY <1>1, <2>2, <3>2, <3>3, <3>4 DEF WatcherInv, CmdsOK
    <2> QED
        BY <1>7, <1>8, <1>9, <1>10, <2>3, <2>4 DEF WatcherInv
<1> QED
    BY <1>11, <1>12

LEMMA NotifyWatcherStep ==
    ASSUME WatcherInv, NotifyWatcher
    PROVE  WatcherInv'
<1> DEFINE n == Head(c.todo)
<1>1. /\ c.pc = "notify" /\ Len(cmds) < CmdCap /\ cmds' = Append(cmds, n) /\ c' = [c EXCEPT !.pc = "cancel"]
      /\ job' = job /\ pod' = pod /\ gone' = gone /\ stream' = stream /\ connected' = connected
      /\ desyncs' = desyncs /\ w' = w /\ signals' = signals /\ inbox' = inbox /\ status' = status
      /\ absent' = absent /\ missed' = missed
    BY DEF NotifyWatcher, kubeVars, watchVars, historyVars
<1>2. c' \in CoordinatorState /\ c'.pc = "cancel" /\ c'.todo = c.todo /\ c'.stopping = c.stopping
    BY <1>1 DEF WatcherInv, WatcherTypeOK, CoordinatorState, CoordinatorPc
<1>3. n \in Nodes /\ cmds \in Seq(Nodes) /\ CmdCap \in Nat /\ c.todo \in Seq(Nodes) /\ c.todo # << >>
    BY <1>1, CmdsType
<1>4. cmds' \in Seq(Nodes) /\ Len(cmds') <= CmdCap
    BY <1>1, <1>3
<1>5. IsInjective(cmds) /\ n \notin ToSet(cmds) /\ Terminal(n) /\ \A m \in ToSet(cmds) : Terminal(m)
    BY <1>1 DEF WatcherInv, CmdsOK
<1> HIDE DEF n
<1>8. ToSet(cmds') = ToSet(cmds) \cup {n} /\ IsInjective(cmds')
    BY <1>1, <1>3, <1>5, AppendSet
<1>9. WatcherTypeOK'
    BY <1>1, <1>2, <1>4 DEF WatcherInv, WatcherTypeOK
<1>10. PodsOK'
    BY <1>1, PodsKept DEF WatcherInv
<1>11. StreamOK' /\ ListOK'
    BY <1>1, StreamKept DEF WatcherInv
<1>12. NoFalseAlarm'
    BY <1>1, <1>2, AlarmsKept, ReportedType DEF WatcherInv, Reported
<1>13. OrdersOK'
    <2>1. \A m \in Nodes : (Withdrawn(m)' <=> Withdrawn(m)) /\ (Announced(m) => Announced(m)')
        BY <1>1, <1>8 DEF Withdrawn, Announced
    <2>2. Announced(Head(c.todo))'
        BY <1>2, <1>8 DEF Announced, n
    <2>3. ~c.stopping
        BY <1>1 DEF WatcherInv, OrdersOK
    <2> QED
        BY <1>2, <1>3, <2>1, <2>2, <2>3 DEF WatcherInv, OrdersOK
<1>14. CmdsOK'
    <2>1. \A m : Terminal(m)' <=> Terminal(m)
        BY <1>1 DEF Terminal
    <2>2. Terminal(Head(c.todo))'
        BY <1>1, <1>2, <1>5 DEF Terminal, n
    <2> QED
        BY <1>2, <1>5, <1>8, <2>1, <2>2 DEF CmdsOK
<1> QED
    BY <1>9, <1>10, <1>11, <1>12, <1>13, <1>14 DEF WatcherInv

LEMMA CancelNodeStep ==
    ASSUME WatcherInv, CancelNode
    PROVE  WatcherInv'
<1> DEFINE n == Head(c.todo)
<1>1. /\ c.pc = "cancel" /\ job' \in {job, job \ {n}}
      /\ c' = [c EXCEPT !.todo = Tail(c.todo), !.pc = "loop"]
      /\ pod' = pod /\ gone' = gone /\ stream' = stream /\ connected' = connected
      /\ desyncs' = desyncs /\ w' = w /\ cmds' = cmds /\ signals' = signals /\ inbox' = inbox /\ status' = status
      /\ absent' = absent /\ missed' = missed
    BY DEF CancelNode, watchVars, historyVars
<1>2. n \in Nodes /\ Tail(c.todo) \in Seq(Nodes) /\ c.todo \in Seq(Nodes) /\ c.todo # << >>
    BY <1>1, CmdsType
<1>4. c' \in CoordinatorState /\ c'.pc = "loop" /\ c'.todo = Tail(c.todo) /\ c'.stopping = c.stopping
    BY <1>1, <1>2 DEF WatcherInv, WatcherTypeOK, CoordinatorState, CoordinatorPc
<1>5. WatcherTypeOK'
    BY <1>1, <1>4 DEF WatcherInv, WatcherTypeOK
<1>6. PodsOK'
    BY <1>1, PodsKept DEF WatcherInv
<1>7. StreamOK' /\ ListOK'
    BY <1>1, StreamKept DEF WatcherInv
<1>8. NoFalseAlarm'
    BY <1>1, <1>4, AlarmsKept, ReportedType DEF WatcherInv, Reported
<1>9. OrdersOK'
    <2>1. Announced(n) /\ ~c.stopping
        BY <1>1 DEF WatcherInv, OrdersOK
    <2>2. \A m \in Nodes : Announced(m)' <=> Announced(m)
        BY <1>1 DEF Announced
    <2>3. \A m \in Nodes : Withdrawn(m)' => Withdrawn(m) \/ m = n
        BY <1>1 DEF Withdrawn
    <2>4. \A m \in Nodes : Withdrawn(m)' => Announced(m)'
        BY <2>1, <2>2, <2>3 DEF WatcherInv, OrdersOK
    <2> QED
        BY <1>4, <2>1, <2>4 DEF OrdersOK
<1>10. CmdsOK'
    <2>1. \A m : Terminal(m)' <=> Terminal(m)
        BY <1>1 DEF Terminal
    <2> QED
        BY <1>1, <1>4, <2>1 DEF WatcherInv, CmdsOK
<1> QED
    BY <1>5, <1>6, <1>7, <1>8, <1>9, <1>10 DEF WatcherInv

\* The run ends: running nodes become failed, so no node stops being terminal.
LEMMA StopStep ==
    ASSUME WatcherInv, Stop
    PROVE  WatcherInv'
<1> DEFINE yes == TRUE
<1>1. /\ c.pc = "loop" /\ c' = [c EXCEPT !.pc = "shutdown", !.stopping = yes]
      /\ pod' = pod /\ gone' = gone /\ stream' = stream /\ connected' = connected
      /\ desyncs' = desyncs /\ w' = w /\ cmds' = cmds /\ signals' = signals /\ inbox' = inbox
      /\ absent' = absent /\ missed' = missed
    BY DEF Stop, Looping, watchVars, historyVars
<1>2. job' \subseteq Nodes
    <2>1. job \subseteq Nodes
        BY DEF WatcherInv, WatcherTypeOK
    <2> QED
        BY <2>1 DEF Stop
<1>3. status' \in [Nodes -> NodeState] /\ \A n \in Nodes : Terminal(n) => Terminal(n)'
    <2>1. status \in [Nodes -> NodeState]
        BY DEF WatcherInv, WatcherTypeOK
    <2>2. CASE status' = status
        BY <2>1, <2>2 DEF Terminal
    <2>3. CASE status' = [n \in Nodes |-> IF status[n] = "running" THEN "failed" ELSE status[n]]
        BY <2>1, <2>3 DEF Terminal, NodeState
    <2> QED
        BY <2>2, <2>3 DEF Stop
<1>4. yes \in BOOLEAN
    OBVIOUS
<1> HIDE DEF yes
<1>5. c' \in CoordinatorState /\ c'.pc = "shutdown" /\ c'.stopping = yes
    BY <1>1, <1>4 DEF WatcherInv, WatcherTypeOK, CoordinatorState, CoordinatorPc
<1>6. c'.stopping
    BY <1>5 DEF yes
<1>7. WatcherTypeOK'
    BY <1>1, <1>2, <1>3, <1>5 DEF WatcherInv, WatcherTypeOK
<1>8. PodsOK'
    BY <1>1, PodsKept DEF WatcherInv
<1>9. StreamOK' /\ ListOK'
    BY <1>1, StreamKept DEF WatcherInv
<1>10. NoFalseAlarm'
    BY <1>1, <1>6, AlarmsKept, ReportedType DEF WatcherInv, Reported
<1>11. OrdersOK'
    BY <1>5, <1>6 DEF OrdersOK
<1>12. CmdsOK'
    <2>1. \A n \in ToSet(cmds) : Terminal(n)'
        BY <1>3, CmdsType DEF WatcherInv, CmdsOK
    <2> QED
        BY <1>1, <1>5, <2>1 DEF WatcherInv, CmdsOK
<1> QED
    BY <1>7, <1>8, <1>9, <1>10, <1>11, <1>12 DEF WatcherInv

LEMMA ShutdownStep ==
    ASSUME WatcherInv, Shutdown
    PROVE  WatcherInv'
<1>1. /\ c.pc = "shutdown" /\ c' = [c EXCEPT !.pc = "done"] /\ cmds' = << >> /\ signals' = << >> /\ inbox' = << >>
      /\ stream' = << >> /\ w' = [w EXCEPT !.out = << >>]
      /\ job' = job /\ pod' = pod /\ gone' = gone /\ desyncs' = desyncs /\ status' = status
      /\ absent' = absent /\ missed' = missed
    BY DEF Shutdown, kubeVars, historyVars
<1>2. connected' \in BOOLEAN
    BY DEF Shutdown
<1>3. c.stopping
    BY <1>1 DEF WatcherInv, OrdersOK
<1>4. c' \in CoordinatorState /\ c'.pc = "done" /\ c'.stopping = c.stopping
    BY <1>1 DEF WatcherInv, WatcherTypeOK, CoordinatorState, CoordinatorPc
<1>5. w' \in WatcherState /\ w'.out = << >>
    <2> DEFINE out == << >>
    <2>1. out \in Seq(Signal) /\ w' = [w EXCEPT !.out = out]
        BY <1>1
    <2> HIDE DEF out
    <2>2. w' \in WatcherState /\ w'.out = out
        BY <2>1 DEF WatcherInv, WatcherTypeOK, WatcherState
    <2> QED
        BY <2>2 DEF out
<1>6. WatcherTypeOK'
    <2>1. /\ cmds' \in Seq(Nodes) /\ Len(cmds') <= CmdCap
          /\ signals' \in Seq(Signal) /\ Len(signals') <= SignalCap
          /\ inbox' \in Seq(Message) /\ Len(inbox') <= InternalCap /\ stream' \in Seq(Event)
        BY <1>1, WatcherAssumption
    <2> QED
        BY <1>1, <1>2, <1>4, <1>5, <2>1 DEF WatcherInv, WatcherTypeOK, Message
<1>7. PodsOK'
    BY <1>1, PodsKept DEF WatcherInv
<1>8. DOMAIN stream' = {}
    BY <1>1
<1>9. StreamOK' /\ ListOK'
    BY <1>8 DEF StreamOK, ListOK
<1>10. NoFalseAlarm'
    <2>1. Reported' = {}
        BY <1>1, <1>5, EmptySeqs DEF Reported
    <2> QED
        BY <2>1 DEF NoFalseAlarm
<1>11. OrdersOK'
    BY <1>3, <1>4 DEF OrdersOK
<1>12. CmdsOK'
    <2>1. IsInjective(cmds') /\ ToSet(cmds') = {}
        BY <1>1, EmptySeqs
    <2> QED
        BY <1>4, <2>1 DEF CmdsOK
<1> QED
    BY <1>6, <1>7, <1>9, <1>10, <1>11, <1>12 DEF WatcherInv

----------------------------------------------------------------------------
(* The theorems                                                            *)

LEMMA InitInv == WatcherInit => WatcherInv
<1> SUFFICES ASSUME WatcherInit PROVE WatcherInv
    OBVIOUS
<1> DEFINE no == FALSE
           running == {n \in Nodes : status[n] = "running"}
<1>1. /\ status \in [Nodes -> {"pending", "running"}] /\ job \in SUBSET Nodes
      /\ pod \in [Nodes -> {NoPod} \cup [uid : {1}, stage : Stages]]
      /\ \A n \in Nodes : Exists(pod[n]) => n \in job
      /\ gone = [n \in Nodes |-> [u \in Uids |-> "no"]]
      /\ stream = << >> /\ desyncs = 0 /\ w = seeded(running)
      /\ cmds = << >> /\ signals = << >> /\ inbox = << >>
      /\ absent = {} /\ missed = {}
    BY DEF WatcherInit
<1>2. c = [pc |-> "loop", todo |-> << >>, stopping |-> no, timed_out |-> {}]
    BY DEF WatcherInit
<1>3. no \in BOOLEAN
    OBVIOUS
<1>4. \A n \in Nodes : pod[n] \in Pod /\ (Exists(pod[n]) => pod[n].uid = 1)
    BY <1>1, WatcherAssumption DEF Pod, NoPod, Exists
<1>5. gone \in [Nodes -> [Uids -> {"no", "cancelled", "lost"}]] /\ \A n \in Nodes, u \in Uids : gone[n][u] = "no"
    BY <1>1
<1>6. w \in WatcherState /\ w.out = << >>
    <2> DEFINE uids == [n \in Nodes |-> IF n \in running THEN {Sentinel} ELSE {}]
               none == [n \in Nodes |-> {}]
               empty == << >>
    <2>1. running \subseteq Nodes
        OBVIOUS
    <2> HIDE DEF running
    <2>2. uids \in [Nodes -> SUBSET (Uids \cup {Sentinel})] /\ none \in [Nodes -> SUBSET (Uids \cup {Sentinel})]
        OBVIOUS
    <2>3. empty \in Seq(Signal)
        OBVIOUS
    <2>4. w = [reported_failure_uids |-> none, reported_running_uids |-> uids, expected_deletions |-> {},
               seed_running |-> running, observed_during_init |-> {}, presence_diff_emitted |-> no, out |-> empty]
        BY <1>1 DEF seeded
    <2> HIDE DEF uids, none, no, empty
    <2>5. w \in WatcherState /\ w.out = empty
        BY <1>3, <2>1, <2>2, <2>3, <2>4 DEF WatcherState
    <2> QED
        BY <2>5 DEF empty
<1>7. c \in CoordinatorState /\ c.pc = "loop" /\ ~c.stopping
    <2> DEFINE empty == << >>
    <2>1. empty \in Seq(Nodes)
        OBVIOUS
    <2>2. c = [pc |-> "loop", todo |-> empty, stopping |-> no, timed_out |-> {}]
        BY <1>2
    <2> HIDE DEF empty, no
    <2>3. c \in CoordinatorState /\ c.pc = "loop" /\ c.stopping = no
        BY <1>3, <2>1, <2>2 DEF CoordinatorState, CoordinatorPc
    <2> QED
        BY <2>3 DEF no
<1> HIDE DEF no, running
<1>8. connected \in BOOLEAN
    BY DEF WatcherInit
<1>9. WatcherTypeOK
    <2>1. /\ cmds \in Seq(Nodes) /\ Len(cmds) <= CmdCap
          /\ signals \in Seq(Signal) /\ Len(signals) <= SignalCap
          /\ inbox \in Seq(Message) /\ Len(inbox) <= InternalCap /\ stream \in Seq(Event)
          /\ desyncs \in 0..MaxDesyncs
        BY <1>1, WatcherAssumption
    <2>2. status \in [Nodes -> NodeState] /\ pod \in [Nodes -> Pod]
        BY <1>1, <1>4 DEF NodeState
    <2> QED
        BY <1>1, <1>5, <1>6, <1>7, <1>8, <2>1, <2>2 DEF WatcherTypeOK, Message
<1>10. PodsOK
    BY <1>4, <1>5 DEF PodsOK
<1>11. DOMAIN stream = {}
    BY <1>1
<1>12. StreamOK /\ ListOK
    BY <1>11 DEF StreamOK, ListOK
<1>13. OrdersOK
    BY <1>1, <1>5, <1>7 DEF OrdersOK, Withdrawn
<1>14. Reported = {}
    BY <1>1, <1>6, EmptySeqs DEF Reported
<1>15. NoFalseAlarm
    BY <1>14 DEF NoFalseAlarm
<1>16. IsInjective(cmds) /\ ToSet(cmds) = {}
    BY <1>1, EmptySeqs
<1>17. CmdsOK
    BY <1>7, <1>16 DEF CmdsOK
<1> QED
    BY <1>9, <1>10, <1>12, <1>13, <1>15, <1>17 DEF WatcherInv

LEMMA NextInv == WatcherInv /\ [WatcherNext]_watcherVars => WatcherInv'
<1> SUFFICES ASSUME WatcherInv, [WatcherNext]_watcherVars PROVE WatcherInv'
    OBVIOUS
<1>1. CASE Kubernetes
    BY <1>1, CreatePodStep, PodMovesStep, PodGoesStep DEF Kubernetes
<1>2. CASE Alive /\ List
    BY <1>2, ListStep
<1>3. CASE Desync
    BY <1>3, DesyncStep
<1>4. CASE WatcherStep
    BY <1>4, ReceiveCommandStep, ReceiveEventStep, SendSignalStep DEF WatcherStep
<1>5. CASE Relay
    BY <1>5, RelayStep
<1>6. CASE Handler
    BY <1>6, HandlePodRunningStep, HandleFailureStep, NotifyWatcherStep, CancelNodeStep, ShutdownStep DEF Handler
<1>7. CASE Stop
    BY <1>7, StopStep
<1>8. ASSUME NEW n \in Nodes, Dispatch(n) \/ NodeCompletes(n) \/ TimerFires(n) PROVE WatcherInv'
    BY <1>8, DispatchStep, NodeCompletesStep, TimerFiresStep
<1>9. CASE UNCHANGED watcherVars
    <2>1. /\ job' = job /\ pod' = pod /\ gone' = gone /\ stream' = stream /\ connected' = connected
          /\ desyncs' = desyncs /\ w' = w /\ cmds' = cmds /\ signals' = signals /\ inbox' = inbox
          /\ status' = status /\ c' = c /\ absent' = absent /\ missed' = missed
        BY <1>9 DEF watcherVars, kubeVars, watchVars, coordinatorVars, historyVars
    <2>2. WatcherTypeOK'
        BY <2>1 DEF WatcherInv, WatcherTypeOK
    <2>3. PodsOK'
        BY <2>1, PodsKept DEF WatcherInv
    <2>4. StreamOK' /\ ListOK'
        BY <2>1, StreamKept DEF WatcherInv
    <2>5. OrdersOK'
        BY <2>1, OrdersKept DEF WatcherInv, Withdrawn, Announced
    <2>6. NoFalseAlarm'
        BY <2>1, AlarmsKept, ReportedType DEF WatcherInv, Reported
    <2>7. CmdsOK'
        BY <2>1, CmdsKept DEF WatcherInv, Terminal
    <2> QED
        BY <2>2, <2>3, <2>4, <2>5, <2>6, <2>7 DEF WatcherInv
<1> QED
    BY <1>1, <1>2, <1>3, <1>4, <1>5, <1>6, <1>7, <1>8, <1>9 DEF WatcherNext

\* The inductive invariant holds of every behaviour of the watcher, the relay
\* task and the coordinator's loop.
THEOREM WatcherInvHolds == WatcherSpec => []WatcherInv
BY InitInv, NextInv, PTL DEF WatcherSpec

\* Every variable has its type, and none of the three channels of the pod watcher
\* (pod_watcher.rs, coordinator.rs) ever holds more than its capacity.
THEOREM WatcherTypeTheorem == WatcherSpec => []WatcherTypeOK
<1>1. WatcherInv => WatcherTypeOK
    BY DEF WatcherInv
<1> QED
    BY <1>1, WatcherInvHolds, PTL

\* While the run goes on, handle_delete reports only pods that are gone and that
\* cancel_node did not remove; emit_presence_diff reports only nodes the run was
\* reloaded with as Running and that a whole list lacked.
THEOREM NoFalseAlarmTheorem == WatcherSpec => []NoFalseAlarm
<1>1. WatcherInv => NoFalseAlarm
    BY DEF WatcherInv
<1> QED
    BY <1>1, WatcherInvHolds, PTL

\* notify_watcher_of_deletion and shutdown_pod_watcher find room in the command
\* channel whenever the pipeline has fewer nodes than the channel has places.
THEOREM AnnouncementsFitTheorem == WatcherSpec => []AnnouncementsFit
<1>1. WatcherInv => AnnouncementsFit
    <2> SUFFICES ASSUME WatcherInv, Cardinality(Nodes) < CmdCap PROVE Len(cmds) < CmdCap
        BY DEF AnnouncementsFit
    <2>1. cmds \in Seq(Nodes) /\ IsInjective(cmds) /\ CmdCap \in Nat
        BY CmdsType DEF WatcherInv, CmdsOK
    <2>2. IsFiniteSet(Nodes)
        BY WatcherAssumption
    <2>3. Len(cmds) <= Cardinality(Nodes)
        BY <2>1, <2>2, NoRepetition
    <2>4. Cardinality(Nodes) \in Nat /\ Len(cmds) \in Nat
        BY <2>1, <2>2, FS_CardinalityType
    <2> QED
        BY <2>1, <2>3, <2>4
<1> QED
    BY <1>1, WatcherInvHolds, PTL

============================================================================
