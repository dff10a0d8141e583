----------------------- MODULE GithubProvider_proofs ------------------------
(***************************************************************************)
(* What holds of the ingress for every tenancy document, repository and    *)
(* number of requests: the type invariant, where runs come from, that none *)
(* is launched twice, that requests are answered in full, that sources are *)
(* whole and pipelines runnable.                                           *)
(***************************************************************************)
EXTENDS GithubProvider, Tenancy_proofs, FiniteSetTheorems, SequenceTheorems

----------------------------------------------------------------------------
(* The upload of a source                                                  *)

\* The running total of the frames' lengths.
LEMMA TotalUnrolled ==
    ASSUME NEW frames \in Seq(Nat)
    PROVE  \E received : /\ received[0] = 0
                         /\ \A k \in 1..Len(frames) : received[k] = received[k - 1] + frames[k]
                         /\ Total(frames) = received[Len(frames)]
<1> DEFINE Loop(n, g) == g = [k \in 0..n |-> IF k = 0 THEN 0 ELSE g[k - 1] + frames[k]]
           S == {n \in Nat : \E g : Loop(n, g)}
<1>0. Len(frames) \in Nat
    OBVIOUS
<1>1. 0 \in S
    <2>1. Loop(0, [k \in 0..0 |-> 0])
        OBVIOUS
    <2> QED
        BY <2>1
<1>2. ASSUME NEW n \in Nat, n \in S PROVE n + 1 \in S
    <2>1. PICK g : Loop(n, g)
        BY <1>2
    <2> DEFINE f == [k \in 0..(n + 1) |-> IF k = n + 1 THEN g[n] + frames[n + 1] ELSE g[k]]
    <2>2. Loop(n + 1, f)
        <3>1. ASSUME NEW k \in 0..(n + 1)
              PROVE  f[k] = IF k = 0 THEN 0 ELSE f[k - 1] + frames[k]
            BY <2>1
        <3> QED
            BY <3>1
    <2> HIDE DEF f, Loop
    <2>3. \E k : Loop(n + 1, k)
        BY <2>2
    <2> QED
        BY <2>3
<1>3. Len(frames) \in S
    BY <1>0, <1>1, <1>2, SetInduction
<1>4. PICK g : Loop(Len(frames), g)
    BY <1>3
<1> DEFINE f == CHOOSE k : Loop(Len(frames), k)
<1>5. Loop(Len(frames), f)
    BY <1>4
<1>6. Total(frames) = f[Len(frames)]
    BY DEF Total
<1> HIDE DEF f
<1> QED
    BY <1>0, <1>5, <1>6

\* The running total is a natural number, up to the whole one.
LEMMA TotalIsNatural ==
    ASSUME NEW frames \in Seq(Nat)
    PROVE  /\ Total(frames) \in Nat
           /\ \E received : /\ received[0] = 0 /\ received[Len(frames)] = Total(frames)
                            /\ \A k \in 0..Len(frames) : received[k] \in Nat
                            /\ \A k \in 1..Len(frames) : received[k] = received[k - 1] + frames[k]
<1>1. PICK received : /\ received[0] = 0
                      /\ \A k \in 1..Len(frames) : received[k] = received[k - 1] + frames[k]
                      /\ Total(frames) = received[Len(frames)]
    BY TotalUnrolled
<1> DEFINE S == {n \in Nat : n <= Len(frames) => received[n] \in Nat}
<1>2. 0 \in S
    BY <1>1
<1>3. ASSUME NEW n \in Nat, n \in S PROVE n + 1 \in S
    <2>1. CASE n + 1 <= Len(frames)
        <3>1. n + 1 \in 1..Len(frames) /\ (n + 1) - 1 = n
            BY <2>1
        <3>2. frames[n + 1] \in Nat
            BY <3>1
        <3>3. received[n + 1] = received[n] + frames[n + 1]
            BY <1>1, <3>1
        <3>4. received[n] \in Nat
            BY <1>3, <2>1
        <3> QED
            BY <3>2, <3>3, <3>4
    <2> QED
        BY <2>1
<1> HIDE DEF S
<1>4. Nat \subseteq S
    BY <1>2, <1>3, SetInduction
<1>5. \A k \in 0..Len(frames) : received[k] \in Nat
    BY <1>4 DEF S
<1> QED
    BY <1>1, <1>5

\* The loop of upload_parts, unrolled.
LEMMA UploadUnrolled ==
    ASSUME NEW frames \in Seq(Nat)
    PROVE  \E u : /\ u[0] = EmptyUpload
                  /\ \A n \in 1..(Len(frames) + Total(frames)) : u[n] = upload_step(frames, u[n - 1])
                  /\ upload_parts(frames) = u[Len(frames) + Total(frames)].parts
<1> DEFINE N == Len(frames) + Total(frames)
           Loop(n, g) == g = [k \in 0..n |-> IF k = 0 THEN EmptyUpload ELSE upload_step(frames, g[k - 1])]
           S == {n \in Nat : \E g : Loop(n, g)}
<1>0. N \in Nat
    BY TotalIsNatural
<1>1. 0 \in S
    <2>1. Loop(0, [k \in 0..0 |-> EmptyUpload])
        OBVIOUS
    <2> QED
        BY <2>1
<1>2. ASSUME NEW n \in Nat, n \in S PROVE n + 1 \in S
    <2>1. PICK g : Loop(n, g)
        BY <1>2
    <2> DEFINE f == [k \in 0..(n + 1) |-> IF k = n + 1 THEN upload_step(frames, g[n]) ELSE g[k]]
    <2>2. Loop(n + 1, f)
        <3>1. ASSUME NEW k \in 0..(n + 1)
              PROVE  f[k] = IF k = 0 THEN EmptyUpload ELSE upload_step(frames, f[k - 1])
            BY <2>1
        <3> QED
            BY <3>1
    <2> HIDE DEF f, Loop
    <2>3. \E k : Loop(n + 1, k)
        BY <2>2
    <2> QED
        BY <2>3
<1>3. N \in S
    BY <1>0, <1>1, <1>2, SetInduction
<1>4. PICK g : Loop(N, g)
    BY <1>3
<1> DEFINE f == CHOOSE k : Loop(N, k)
<1>5. Loop(N, f)
    BY <1>4
<1>6. upload_parts(frames) = f[N].parts
    BY DEF upload_parts
<1> HIDE DEF f
<1>7. f[0] = EmptyUpload /\ \A n \in 1..N : f[n] = upload_step(frames, f[n - 1])
    BY <1>0, <1>5
<1> QED
    BY <1>6, <1>7

PartRecord == [from : Nat, len : Nat]

UploadState == [read : Nat, buffer : Nat, sent : Nat, parts : Seq(PartRecord)]

\* The parts sent so far, the last one of which may be the last of all.
InOrder(u, frames) ==
    /\ \A i \in DOMAIN u.parts :
           /\ u.parts[i].from = (IF i = 1 THEN 0 ELSE u.parts[i - 1].from + u.parts[i - 1].len)
           /\ u.parts[i].len \in 1..PartSize
           /\ i # Len(u.parts) \/ u.read < Len(frames) \/ u.buffer # 0 => u.parts[i].len = PartSize
    /\ u.sent = IF u.parts = << >> THEN 0
                ELSE u.parts[Len(u.parts)].from + u.parts[Len(u.parts)].len

\* A state of the loop over frames whose running total is `received'.
Uploading(u, frames, received) ==
    /\ u \in UploadState /\ u.read <= Len(frames)
    /\ u.sent + u.buffer = received[u.read]
    /\ InOrder(u, frames)

Exhausted(u, frames) == u.read = Len(frames) /\ u.buffer = 0

\* A step keeps the parts in order and makes progress until the tarball is sent.
LEMMA UploadStep ==
    ASSUME NEW frames \in Seq(Nat), NEW received,
           \A k \in 0..Len(frames) : received[k] \in Nat,
           \A k \in 1..Len(frames) : received[k] = received[k - 1] + frames[k],
           NEW u, Uploading(u, frames, received)
    PROVE  LET v == upload_step(frames, u)
           IN  /\ Uploading(v, frames, received)
               /\ IF Exhausted(u, frames) THEN v = u ELSE v.read + v.sent > u.read + u.sent
<1> DEFINE v == upload_step(frames, u)
           len == IF u.buffer < PartSize THEN u.buffer ELSE PartSize
<1>0. /\ PartSize \in Nat \ {0} /\ Len(frames) \in Nat
      /\ u \in UploadState /\ u.read \in Nat /\ u.buffer \in Nat /\ u.sent \in Nat
      /\ u.parts \in Seq(PartRecord) /\ u.read <= Len(frames)
    BY PartSizeAssumption DEF Uploading, UploadState
<1>00. u.sent + u.buffer = received[u.read] /\ InOrder(u, frames)
    BY DEF Uploading
<1>1. CASE u.buffer < PartSize /\ u.read < Len(frames)
    <2>1. u.read + 1 \in 1..Len(frames) /\ (u.read + 1) - 1 = u.read
        BY <1>0, <1>1
    <2>2. frames[u.read + 1] \in Nat /\ received[u.read + 1] = received[u.read] + frames[u.read + 1]
        BY <2>1
    <2>3. v = [u EXCEPT !.read = u.read + 1, !.buffer = u.buffer + frames[u.read + 1]]
        BY <1>1 DEF upload_step
    <2> DEFINE b == u.buffer + frames[u.read + 1]
    <2>4. /\ v.read = u.read + 1 /\ v.buffer = b
          /\ v.sent = u.sent /\ v.parts = u.parts
          /\ v \in UploadState
        <3>1. b \in Nat /\ u.read + 1 \in Nat
            BY <1>0, <2>2
        <3> HIDE DEF b, v
        <3>2. v = [u EXCEPT !.read = u.read + 1, !.buffer = b]
            BY <2>3 DEF b
        <3> QED
            BY <1>0, <3>1, <3>2 DEF UploadState
    <2> HIDE DEF v
    <2>5. v.sent + v.buffer = received[v.read]
        BY <1>0, <1>00, <2>2, <2>4
    <2>6. \A i \in DOMAIN v.parts : v.parts[i].len = PartSize
        BY <1>00, <1>1, <2>4 DEF InOrder
    <2>7. Uploading(v, frames, received)
        <3>1. InOrder(v, frames)
            BY <1>00, <2>4, <2>6 DEF InOrder
        <3>2. v.read <= Len(frames)
            BY <2>1, <2>4
        <3> QED
            BY <2>4, <2>5, <3>1, <3>2 DEF Uploading
    <2>8. ~Exhausted(u, frames) /\ v.read + v.sent > u.read + u.sent
        BY <1>0, <1>1, <2>4 DEF Exhausted
    <2> QED
        BY <2>7, <2>8 DEF v
<1>2. CASE ~(u.buffer < PartSize /\ u.read < Len(frames)) /\ u.buffer = 0
    <2>1. v = u
        BY <1>2 DEF upload_step
    <2>2. Exhausted(u, frames)
        BY <1>0, <1>2 DEF Exhausted
    <2> QED
        BY <2>1, <2>2
<1>3. CASE ~(u.buffer < PartSize /\ u.read < Len(frames)) /\ u.buffer # 0
    <2>1. v = [u EXCEPT !.buffer = u.buffer - len, !.sent = u.sent + len,
                        !.parts = Append(u.parts, Part(u.sent, len))]
        BY <1>3 DEF upload_step
    <2>2. /\ len \in 1..PartSize /\ len <= u.buffer
          /\ (u.read < Len(frames) \/ u.buffer - len # 0) => len = PartSize
        BY <1>0, <1>3
    <2> HIDE DEF len
    <2> DEFINE p == Part(u.sent, len)
    <2>3. p \in PartRecord /\ p.from = u.sent /\ p.len = len
        BY <1>0, <2>2 DEF Part, PartRecord
    <2> HIDE DEF p
    <2>4. /\ v.read = u.read /\ v.buffer = u.buffer - len /\ v.sent = u.sent + len
          /\ v.parts = Append(u.parts, p)
          /\ v \in UploadState
        <3> DEFINE a == u.buffer - len
                   c == u.sent + len
                   d == Append(u.parts, p)
        <3>1. a \in Nat /\ c \in Nat /\ d \in Seq(PartRecord)
            BY <1>0, <2>2, <2>3
        <3>2. v = [u EXCEPT !.buffer = a, !.sent = c, !.parts = d]
            BY <2>1 DEF p
        <3> HIDE DEF a, c, d, v
        <3>3. v.read = u.read /\ v.buffer = a /\ v.sent = c /\ v.parts = d /\ v \in UploadState
            BY <1>0, <3>1, <3>2 DEF UploadState
        <3> QED
            BY <3>3 DEF a, c, d
    <2> HIDE DEF v
    <2>5. /\ Len(v.parts) = Len(u.parts) + 1 /\ v.parts[Len(u.parts) + 1] = p
          /\ \A i \in 1..Len(u.parts) : v.parts[i] = u.parts[i]
          /\ DOMAIN v.parts = 1..(Len(u.parts) + 1) /\ DOMAIN u.parts = 1..Len(u.parts)
          /\ Len(u.parts) \in Nat
        BY <1>0, <2>3, <2>4
    <2>6. v.sent + v.buffer = received[v.read]
        BY <1>0, <1>00, <2>2, <2>4
    <2>7. \A i \in 1..Len(u.parts) : u.parts[i].len = PartSize
        BY <1>00, <1>3, <2>5 DEF InOrder
    <2>8. ASSUME NEW i \in DOMAIN v.parts
          PROVE  /\ v.parts[i].from = (IF i = 1 THEN 0 ELSE v.parts[i - 1].from + v.parts[i - 1].len)
                 /\ v.parts[i].len \in 1..PartSize
                 /\ i # Len(v.parts) \/ v.read < Len(frames) \/ v.buffer # 0 => v.parts[i].len = PartSize
        <3>1. CASE i = Len(u.parts) + 1
            <4>1. v.parts[i].from = (IF i = 1 THEN 0 ELSE v.parts[i - 1].from + v.parts[i - 1].len)
                <5>1. CASE u.parts = << >>
                    BY <1>00, <2>3, <2>5, <3>1, <5>1 DEF InOrder
                <5>2. CASE u.parts # << >>
                    <6>1. Len(u.parts) \in 1..Len(u.parts) /\ i # 1 /\ i - 1 = Len(u.parts)
                        BY <1>0, <2>5, <3>1, <5>2
                    <6> QED
                        BY <1>00, <2>3, <2>5, <3>1, <5>2, <6>1 DEF InOrder
                <5> QED
                    BY <5>1, <5>2
            <4>2. v.parts[i] = p /\ i = Len(v.parts)
                BY <2>5, <3>1
            <4> QED
                BY <2>2, <2>3, <2>4, <4>1, <4>2
        <3>2. CASE i # Len(u.parts) + 1
            <4>1. i \in 1..Len(u.parts) /\ (i # 1 => i - 1 \in 1..Len(u.parts))
                BY <2>5, <3>2
            <4> QED
                BY <1>0, <1>00, <2>5, <2>7, <4>1 DEF InOrder
        <3> QED
            BY <3>1, <3>2
    <2>9. v.sent = IF v.parts = << >> THEN 0 ELSE v.parts[Len(v.parts)].from + v.parts[Len(v.parts)].len
        <3>1. v.parts # << >> /\ v.parts[Len(v.parts)] = p
            BY <2>5
        <3> QED
            BY <2>3, <2>4, <3>1
    <2>10. Uploading(v, frames, received)
        BY <1>0, <2>4, <2>6, <2>8, <2>9 DEF Uploading, InOrder
    <2>11. ~Exhausted(u, frames) /\ v.read + v.sent > u.read + u.sent
        <3>1. v.read = u.read /\ v.sent = u.sent + len /\ len \in Nat /\ len > 0
            BY <1>0, <2>2, <2>4
        <3>2. v.read + v.sent > u.read + u.sent
            BY <1>0, <3>1
        <3> QED
            BY <1>3, <3>2 DEF Exhausted
    <2> QED
        BY <2>10, <2>11 DEF v
<1> QED
    BY <1>1, <1>2, <1>3

\* However the tarball is cut into frames, the parts are the tarball, in order, and
\* only the last one is shorter than a part (SourceManager::upload_parts).
THEOREM UploadIsWhole ==
    ASSUME NEW frames \in Seq(Nat)
    PROVE  Whole(frames, upload_parts(frames))
<1> DEFINE N == Len(frames) + Total(frames)
<1>1. PICK received : /\ received[0] = 0 /\ received[Len(frames)] = Total(frames)
                      /\ \A k \in 0..Len(frames) : received[k] \in Nat
                      /\ \A k \in 1..Len(frames) : received[k] = received[k - 1] + frames[k]
    BY TotalIsNatural
<1>2. PICK u : /\ u[0] = EmptyUpload
               /\ \A n \in 1..N : u[n] = upload_step(frames, u[n - 1])
               /\ upload_parts(frames) = u[N].parts
    BY UploadUnrolled
<1>3. N \in Nat /\ Total(frames) \in Nat /\ Len(frames) \in Nat
    BY TotalIsNatural
<1> HIDE DEF N
<1> DEFINE Good(n) == /\ Uploading(u[n], frames, received)
                      /\ Exhausted(u[n], frames) \/ u[n].read + u[n].sent >= n
           S == {n \in Nat : n <= N => Good(n)}
<1>4. 0 \in S
    <2>1. /\ EmptyUpload \in UploadState
          /\ EmptyUpload.read = 0 /\ EmptyUpload.buffer = 0 /\ EmptyUpload.sent = 0
          /\ EmptyUpload.parts = << >> /\ DOMAIN EmptyUpload.parts = {}
        BY <1>3 DEF EmptyUpload, UploadState
    <2>2. Uploading(EmptyUpload, frames, received)
        BY <1>1, <1>3, <2>1 DEF Uploading, InOrder
    <2> QED
        BY <1>2, <2>1, <2>2
<1>5. ASSUME NEW n \in Nat, n \in S PROVE n + 1 \in S
    <2>1. SUFFICES ASSUME n + 1 <= N PROVE Good(n + 1)
        OBVIOUS
    <2>2. n + 1 \in 1..N /\ (n + 1) - 1 = n /\ n <= N
        BY <1>3, <2>1
    <2>3. u[n + 1] = upload_step(frames, u[n])
        BY <1>2, <2>2
    <2>4. Good(n)
        BY <1>5, <2>2
    <2> DEFINE x == u[n]
               y == u[n + 1]
    <2>5. /\ Uploading(y, frames, received)
          /\ IF Exhausted(x, frames) THEN y = x ELSE y.read + y.sent > x.read + x.sent
        <3> HIDE DEF x
        <3>1. Uploading(x, frames, received)
            BY <2>4 DEF x
        <3>2. y = upload_step(frames, x)
            BY <2>3 DEF x
        <3> QED
            BY <1>1, <3>1, <3>2, UploadStep
    <2>6. /\ y.read \in Nat /\ y.sent \in Nat /\ x.read \in Nat /\ x.sent \in Nat
        BY <2>4, <2>5 DEF Uploading, UploadState
    <2> QED
        BY <2>4, <2>5, <2>6
<1> HIDE DEF S
<1>6. N \in S
    BY <1>3, <1>4, <1>5, SetInduction
<1>7. Good(N)
    BY <1>3, <1>6 DEF S
<1> DEFINE last == u[N]
<1> HIDE DEF last
<1>8. Uploading(last, frames, received) /\ (Exhausted(last, frames) \/ last.read + last.sent >= N)
    BY <1>7 DEF last
<1> HIDE DEF Good
<1>9. last.read \in 0..Len(frames) /\ last.sent \in Nat /\ last.buffer \in Nat
    BY <1>3, <1>8 DEF Uploading, UploadState
<1>10. received[last.read] <= Total(frames)
    <2> DEFINE T == {n \in Nat : n <= Len(frames) => received[Len(frames) - n] <= Total(frames)}
    <2>1. 0 \in T
        BY <1>1, <1>3
    <2>2. ASSUME NEW n \in Nat, n \in T PROVE n + 1 \in T
        <3>1. SUFFICES ASSUME n + 1 <= Len(frames) PROVE received[Len(frames) - (n + 1)] <= Total(frames)
            OBVIOUS
        <3> DEFINE k == Len(frames) - n
        <3>2. k \in 1..Len(frames) /\ Len(frames) - (n + 1) = k - 1 /\ k - 1 \in 0..Len(frames)
            BY <1>3, <3>1
        <3>3. received[k] = received[k - 1] + frames[k] /\ frames[k] \in Nat /\ received[k - 1] \in Nat
            <4> HIDE DEF k
            <4>1. received[k] = received[k - 1] + frames[k]
                BY <1>1, <3>2
            <4>2. frames[k] \in Nat
                BY <3>2
            <4>3. received[k - 1] \in Nat
                BY <1>1, <3>2
            <4> QED
                BY <4>1, <4>2, <4>3
        <3>4. received[k] <= Total(frames)
            BY <1>3, <2>2, <3>1
        <3> QED
            BY <1>3, <3>2, <3>3, <3>4
    <2> HIDE DEF T
    <2>3. Len(frames) - last.read \in T
        <3>1. Nat \subseteq T
            BY <2>1, <2>2, SetInduction
        <3>2. Len(frames) - last.read \in Nat
            BY <1>3, <1>9
        <3> QED
            BY <3>1, <3>2
    <2>4. Len(frames) - last.read <= Len(frames) /\ Len(frames) - (Len(frames) - last.read) = last.read
        BY <1>3, <1>9
    <2> QED
        BY <2>3, <2>4 DEF T
<1>11. last.sent + last.buffer = received[last.read]
    BY <1>8 DEF Uploading
<1>12. Exhausted(last, frames)
    BY <1>3, <1>8, <1>9, <1>10, <1>11 DEF N, Exhausted
<1>13. last.sent = Total(frames)
    BY <1>1, <1>9, <1>11, <1>12 DEF Exhausted
<1>14. upload_parts(frames) = last.parts /\ last.parts \in Seq(PartRecord)
    BY <1>2, <1>8 DEF last, Uploading, UploadState
<1>15. Whole(frames, last.parts)
    <2>1. InOrder(last, frames)
        BY <1>8 DEF Uploading
    <2> QED
        BY <1>13, <1>14, <2>1, PartSizeAssumption DEF Whole, InOrder, Last
<1> QED
    BY <1>14, <1>15

----------------------------------------------------------------------------
(* Pipeline files                                                          *)

\* A filter matches what it admits.
LEMMA FilterAdmits ==
    ASSUME NEW filter \in Filter, NEW ref
    PROVE  /\ (deserialize_ref_filter(filter) = None) <=> (filter = None)
           /\ filter # None => (ref_filter_matches(deserialize_ref_filter(filter), ref) <=> Admitted(filter, ref))
<1>1. None # Null /\ None \notin Seq(STRING) /\ Null \notin Seq(STRING) /\ << >> \in Seq(STRING)
    BY FileAssumption
<1>2. CASE filter = Null
    BY <1>1, <1>2 DEF deserialize_ref_filter, ref_filter_matches, Admitted
<1>3. CASE filter # Null
    BY <1>1, <1>3 DEF deserialize_ref_filter, ref_filter_matches, Admitted
<1> QED
    BY <1>2, <1>3

\* A trigger as it is read: missing, without filters, or with the filters it has.
LEMMA TriggerRead ==
    ASSUME NEW raw \in Trigger
    PROVE  LET t == deserialize_trigger(raw)
           IN  /\ raw = None => t = None
               /\ raw = Null => t # None /\ t.branches = None /\ t.tags = None
               /\ raw \notin {None, Null} =>
                      /\ t # None /\ raw.branches \in Filter /\ raw.tags \in Filter
                      /\ t.branches = deserialize_ref_filter(raw.branches)
                      /\ t.tags = deserialize_ref_filter(raw.tags)
<1> DEFINE t == deserialize_trigger(raw)
<1>1. None # Null /\ None \notin [branches : Filter, tags : Filter]
    BY FileAssumption
<1>2. CASE raw = None
    BY <1>1, <1>2 DEF deserialize_trigger
<1>3. CASE raw = Null
    <2>1. t = [branches |-> None, tags |-> None]
        BY <1>1, <1>3 DEF deserialize_trigger
    <2>2. t \in [branches : Filter, tags : Filter]
        BY <2>1 DEF Filter
    <2> QED
        BY <1>1, <1>3, <2>1, <2>2
<1>4. CASE raw \notin {None, Null}
    <2>1. raw.branches \in Filter /\ raw.tags \in Filter
        BY <1>4 DEF Trigger
    <2>2. t = [branches |-> deserialize_ref_filter(raw.branches), tags |-> deserialize_ref_filter(raw.tags)]
        BY <1>4 DEF deserialize_trigger
    <2>3. deserialize_ref_filter(raw.branches) \in Filter /\ deserialize_ref_filter(raw.tags) \in Filter
        BY <2>1 DEF deserialize_ref_filter, Filter
    <2>4. t \in [branches : Filter, tags : Filter]
        BY <2>2, <2>3
    <2> QED
        BY <1>1, <1>4, <2>1, <2>2, <2>4
<1> QED
    BY <1>2, <1>3, <1>4

\* triggered_by_push says what architecture.md says of a push.
LEMMA PushTriggers ==
    ASSUME NEW yaml, yaml # None, IsFile(yaml), NEW branch, NEW tag, branch = None \/ tag = None
    PROVE  triggered_by_push(yaml, branch, tag) <=> WantsPush(yaml, branch, tag)
<1> DEFINE push == IF yaml.on = None THEN None ELSE yaml.on.push
<1>1. CASE yaml.on = None
    BY <1>1, FileAssumption DEF triggered_by_push, WantsPush
<1>2. CASE yaml.on # None
    <2>1. push = yaml.on.push /\ push \in Trigger
        BY <1>2 DEF IsFile
    <2> DEFINE t == deserialize_trigger(push)
    <2>2. triggered_by_push(yaml, branch, tag) <=> t # None /\ refs_match_push(t, branch, tag)
        BY <1>2, <2>1 DEF triggered_by_push
    <2>3. None # Null
        BY FileAssumption
    <2>4. WantsPush(yaml, branch, tag) <=>
              /\ push # None
              /\ \/ push = Null
                 \/ push.branches = None /\ push.tags = None
                 \/ branch # None /\ Admitted(push.branches, branch)
                 \/ tag # None /\ Admitted(push.tags, tag)
        BY <1>2, <2>1, <2>3 DEF WantsPush
    <2> HIDE DEF push
    <2>5. CASE push = None
        BY <2>1, <2>2, <2>4, <2>5, TriggerRead
    <2>6. CASE push = Null
        BY <2>1, <2>2, <2>3, <2>4, <2>6, TriggerRead DEF refs_match_push
    <2>7. CASE push \notin {None, Null}
        <3>1. /\ t # None /\ push.branches \in Filter /\ push.tags \in Filter
              /\ t.branches = deserialize_ref_filter(push.branches)
              /\ t.tags = deserialize_ref_filter(push.tags)
            BY <2>1, <2>7, TriggerRead
        <3> DEFINE b == push.branches
                   g == push.tags
        <3> HIDE DEF t, b, g
        <3>2. /\ b \in Filter /\ g \in Filter
              /\ t.branches = deserialize_ref_filter(b) /\ t.tags = deserialize_ref_filter(g)
            BY <3>1 DEF b, g
        <3>3. /\ (t.branches = None) <=> (b = None)
              /\ (t.tags = None) <=> (g = None)
              /\ b # None => (ref_filter_matches(t.branches, branch) <=> Admitted(b, branch))
              /\ g # None => (ref_filter_matches(t.tags, tag) <=> Admitted(g, tag))
            BY <3>2, FilterAdmits
        <3>4. Admitted(b, branch) => b # None
            BY DEF Admitted
        <3>5. Admitted(g, tag) => g # None
            BY DEF Admitted
        <3>6. refs_match_push(t, branch, tag) <=>
                  \/ b = None /\ g = None
                  \/ branch # None /\ Admitted(b, branch)
                  \/ tag # None /\ Admitted(g, tag)
            BY <3>3, <3>4, <3>5 DEF refs_match_push
        <3> QED
            BY <2>2, <2>4, <2>7, <3>1, <3>6 DEF b, g
    <2> QED
        BY <2>5, <2>6, <2>7
<1> QED
    BY <1>1, <1>2

\* The same for pull requests.
LEMMA PullRequestTriggers ==
    ASSUME NEW yaml, yaml # None, IsFile(yaml), NEW base
    PROVE  triggered_by_pull_request(yaml, base) <=> WantsPullRequest(yaml, base)
<1> DEFINE pr == IF yaml.on = None THEN None ELSE yaml.on.pull_request
<1>1. CASE yaml.on = None
    BY <1>1, FileAssumption DEF triggered_by_pull_request, WantsPullRequest
<1>2. CASE yaml.on # None
    <2>1. pr = yaml.on.pull_request /\ pr \in Trigger
        BY <1>2 DEF IsFile
    <2> DEFINE t == deserialize_trigger(pr)
    <2>2. triggered_by_pull_request(yaml, base) <=> t # None /\ refs_match_branch_filter(t.branches, base)
        BY <1>2, <2>1 DEF triggered_by_pull_request
    <2>3. None # Null
        BY FileAssumption
    <2>4. WantsPullRequest(yaml, base) <=>
              pr # None /\ (pr = Null \/ pr.branches = None \/ Admitted(pr.branches, base))
        BY <1>2, <2>1, <2>3 DEF WantsPullRequest
    <2> HIDE DEF pr
    <2>5. CASE pr = None
        BY <2>1, <2>2, <2>4, <2>5, TriggerRead
    <2>6. CASE pr = Null
        BY <2>1, <2>2, <2>3, <2>4, <2>6, TriggerRead DEF refs_match_branch_filter
    <2>7. CASE pr \notin {None, Null}
        <3> DEFINE b == pr.branches
        <3>1. t # None /\ b \in Filter /\ t.branches = deserialize_ref_filter(b)
            BY <2>1, <2>7, TriggerRead
        <3> HIDE DEF t, b
        <3>2. /\ (t.branches = None) <=> (b = None)
              /\ b # None => (ref_filter_matches(t.branches, base) <=> Admitted(b, base))
            BY <3>1, FilterAdmits
        <3>3. refs_match_branch_filter(t.branches, base) <=> b = None \/ Admitted(b, base)
            BY <3>2 DEF refs_match_branch_filter
        <3> QED
            BY <2>2, <2>4, <2>7, <3>1, <3>3 DEF b
    <2> QED
        BY <2>5, <2>6, <2>7
<1> QED
    BY <1>1, <1>2

\* The pipelines that match an event are those that ask for it.
LEMMA MatchesIsWants ==
    ASSUME NEW q, NEW yaml, yaml # None, IsFile(yaml), q.event = "push" => q.ref \in GitRef
    PROVE  Matches(q, yaml) <=> Wants(q, yaml)
<1>1. CASE q.event = "push"
    <2>1. parse_push_ref(q.ref).branch = None \/ parse_push_ref(q.ref).tag = None
        BY <1>1 DEF parse_push_ref
    <2> QED
        BY <1>1, <2>1, PushTriggers DEF Matches, Wants
<1>2. CASE q.event # "push"
    BY <1>2, PullRequestTriggers DEF Matches, Wants
<1> QED
    BY <1>1, <1>2

----------------------------------------------------------------------------
(* Lists without repetition                                                *)

LEMMA AppendNew ==
    ASSUME NEW S, NEW s \in Seq(S), IsInjective(s), NEW x \in S, x \notin ToSet(s)
    PROVE  /\ Append(s, x) \in Seq(S) /\ IsInjective(Append(s, x))
           /\ ToSet(Append(s, x)) = ToSet(s) \cup {x}
<1> DEFINE t == Append(s, x)
<1>1. /\ t \in Seq(S) /\ Len(s) \in Nat /\ DOMAIN s = 1..Len(s) /\ DOMAIN t = 1..(Len(s) + 1)
      /\ t[Len(s) + 1] = x /\ \A i \in 1..Len(s) : t[i] = s[i]
    OBVIOUS
<1> HIDE DEF t
<1>2. \A i \in DOMAIN t : i = Len(s) + 1 \/ i \in DOMAIN s
    BY <1>1
<1>3. \A i \in DOMAIN s : s[i] # x
    BY DEF ToSet
<1>4. IsInjective(t)
    BY <1>1, <1>2, <1>3 DEF IsInjective
<1>5. ToSet(t) = ToSet(s) \cup {x}
    BY <1>1, <1>2 DEF ToSet
<1> QED
    BY <1>1, <1>4, <1>5 DEF t

LEMMA TailOfDistinct ==
    ASSUME NEW S, NEW s \in Seq(S), IsInjective(s), s # << >>
    PROVE  /\ Head(s) \in S /\ Tail(s) \in Seq(S) /\ IsInjective(Tail(s))
           /\ Head(s) \in ToSet(s) /\ ToSet(Tail(s)) = ToSet(s) \ {Head(s)}
<1> DEFINE t == Tail(s)
<1>1. /\ t \in Seq(S) /\ Len(s) \in Nat /\ Len(s) > 0 /\ DOMAIN s = 1..Len(s)
      /\ DOMAIN t = 1..(Len(s) - 1) /\ Head(s) = s[1]
      /\ \A i \in 1..(Len(s) - 1) : t[i] = s[i + 1]
    OBVIOUS
<1> HIDE DEF t
<1>2. IsInjective(t)
    <2>1. ASSUME NEW i \in DOMAIN t, NEW j \in DOMAIN t, t[i] = t[j] PROVE i = j
        <3>1. i + 1 \in DOMAIN s /\ j + 1 \in DOMAIN s /\ s[i + 1] = s[j + 1]
            BY <1>1, <2>1
        <3>2. i + 1 = j + 1
            BY <3>1 DEF IsInjective
        <3> QED
            BY <1>1, <3>2
    <2> QED
        BY <2>1 DEF IsInjective
<1>3. ToSet(t) = ToSet(s) \ {Head(s)}
    <2>1. ASSUME NEW i \in DOMAIN t PROVE t[i] \in ToSet(s) \ {Head(s)}
        <3>1. i + 1 \in DOMAIN s /\ i + 1 # 1 /\ 1 \in DOMAIN s
            BY <1>1
        <3>2. s[i + 1] # s[1]
            BY <3>1 DEF IsInjective
        <3> QED
            BY <1>1, <3>1, <3>2 DEF ToSet
    <2>2. ASSUME NEW i \in DOMAIN s, s[i] # Head(s) PROVE s[i] \in ToSet(t)
        <3>1. i # 1
            BY <1>1, <2>2
        <3>2. i - 1 \in DOMAIN t /\ t[i - 1] = s[i]
            BY <1>1, <3>1
        <3> QED
            BY <3>2 DEF ToSet
    <2>3. ToSet(t) \subseteq ToSet(s) \ {Head(s)}
        <3>1. \A x \in ToSet(t) : \E i \in DOMAIN t : x = t[i]
            BY DEF ToSet
        <3> QED
            BY <2>1, <3>1
    <2>4. ToSet(s) \ {Head(s)} \subseteq ToSet(t)
        <3>1. \A x \in ToSet(s) : \E i \in DOMAIN s : x = s[i]
            BY DEF ToSet
        <3> QED
            BY <2>2, <3>1
    <2> QED
        BY <2>3, <2>4
<1>4. 1 \in DOMAIN s
    BY <1>1
<1>5. Head(s) \in ToSet(s)
    BY <1>1, <1>4 DEF ToSet
<1> QED
    BY <1>1, <1>2, <1>3, <1>5 DEF t

----------------------------------------------------------------------------
(* The pipelines an event asks for                                         *)

\* A directory entry that find_matching_pipelines takes.
Hit(q, unread, item) ==
    /\ item.type = "file" /\ item.is_yaml
    /\ item.name \in WellFormed \ unread
    /\ Matches(q, Definition[item.name])

\* The loop of find_matching_pipelines, unrolled.
LEMMA MatchingUnrolled ==
    ASSUME NEW q, NEW unread, Len(Directory[q.sha]) \in Nat
    PROVE  LET items == Directory[q.sha]
           IN  \E found : /\ found[0] = << >>
                          /\ \A i \in 1..Len(items) :
                                 found[i] = IF Hit(q, unread, items[i]) THEN Append(found[i - 1], items[i].name)
                                            ELSE found[i - 1]
                          /\ find_matching_pipelines(q, unread) = found[Len(items)]
<1> DEFINE items == Directory[q.sha]
           After(i, x) == IF Hit(q, unread, items[i]) THEN Append(x, items[i].name) ELSE x
           Loop(n, g) == g = [i \in 0..n |-> IF i = 0 THEN << >> ELSE After(i, g[i - 1])]
           S == {n \in Nat : \E g : Loop(n, g)}
<1>1. 0 \in S
    <2>1. Loop(0, [i \in 0..0 |-> << >>])
        OBVIOUS
    <2> QED
        BY <2>1
<1>2. ASSUME NEW n \in Nat, n \in S PROVE n + 1 \in S
    <2>1. PICK g : Loop(n, g)
        BY <1>2
    <2> DEFINE f == [i \in 0..(n + 1) |-> IF i = n + 1 THEN After(n + 1, g[n]) ELSE g[i]]
    <2> HIDE DEF After
    <2>2. Loop(n + 1, f)
        <3>1. ASSUME NEW i \in 0..(n + 1)
              PROVE  f[i] = IF i = 0 THEN << >> ELSE After(i, f[i - 1])
            BY <2>1
        <3> QED
            BY <3>1
    <2> HIDE DEF f, Loop
    <2>3. \E k : Loop(n + 1, k)
        BY <2>2
    <2> QED
        BY <2>3
<1>3. Len(items) \in S
    BY <1>1, <1>2, SetInduction
<1>4. PICK g : Loop(Len(items), g)
    BY <1>3
<1> DEFINE f == CHOOSE k : Loop(Len(items), k)
<1>5. Loop(Len(items), f)
    BY <1>4
<1>6. find_matching_pipelines(q, unread) = f[Len(items)]
    BY DEF find_matching_pipelines, Hit
<1> HIDE DEF f
<1>7. f[0] = << >> /\ \A i \in 1..Len(items) : f[i] = After(i, f[i - 1])
    <2> HIDE DEF After
    <2> QED
        BY <1>5
<1> QED
    BY <1>6, <1>7

\* find_matching_pipelines finds each pipeline that asks for the event, once.
LEMMA MatchingIsWanted ==
    ASSUME NEW q, NEW unread, q.sha \in DOMAIN Directory,
           q.event = "push" => q.ref \in GitRef
    PROVE  LET found == find_matching_pipelines(q, unread)
           IN  /\ found \in Seq(WellFormed) /\ IsInjective(found)
               /\ ToSet(found) = Wanted(q) \ unread
<1> DEFINE items == Directory[q.sha]
<1>1. /\ items \in Seq(Item) /\ Len(items) \in Nat /\ DOMAIN items = 1..Len(items)
      /\ \A i, j \in DOMAIN items : items[i].name = items[j].name => i = j
    BY IngressAssumption
<1>2. PICK found : /\ found[0] = << >>
                   /\ \A i \in 1..Len(items) :
                          found[i] = IF Hit(q, unread, items[i]) THEN Append(found[i - 1], items[i].name)
                                     ELSE found[i - 1]
                   /\ find_matching_pipelines(q, unread) = found[Len(items)]
    BY <1>1, MatchingUnrolled
<1> HIDE DEF items
<1> DEFINE Names(n) == {items[i].name : i \in {j \in 1..n : Hit(q, unread, items[j])}}
           Good(n) == /\ found[n] \in Seq(WellFormed) /\ IsInjective(found[n])
                      /\ ToSet(found[n]) = Names(n)
           S == {n \in Nat : n <= Len(items) => Good(n)}
<1>3. 0 \in S
    <2>1. Names(0) = {}
        OBVIOUS
    <2>2. << >> \in Seq(WellFormed) /\ IsInjective(<< >>) /\ ToSet(<< >>) = {}
        BY DEF IsInjective, ToSet
    <2> QED
        BY <1>2, <2>1, <2>2
<1>4. ASSUME NEW n \in Nat, n \in S PROVE n + 1 \in S
    <2>1. SUFFICES ASSUME n + 1 <= Len(items) PROVE Good(n + 1)
        OBVIOUS
    <2>2. n + 1 \in 1..Len(items) /\ (n + 1) - 1 = n /\ n <= Len(items)
        BY <1>1, <2>1
    <2>3. Good(n)
        BY <1>4, <2>2
    <2> DEFINE item == items[n + 1]
    <2>4. found[n + 1] = IF Hit(q, unread, item) THEN Append(found[n], item.name) ELSE found[n]
        BY <1>2, <2>2
    <2>5. CASE ~Hit(q, unread, item)
        <3>1. Names(n + 1) = Names(n)
            BY <2>5
        <3> QED
            BY <2>3, <2>4, <2>5, <3>1
    <2>6. CASE Hit(q, unread, item)
        <3>1. Names(n + 1) = Names(n) \cup {item.name}
            BY <2>6
        <3>2. item.name \notin Names(n)
            <4>1. ASSUME NEW i \in 1..n PROVE items[i].name # item.name
                <5>1. i \in DOMAIN items /\ n + 1 \in DOMAIN items /\ i # n + 1
                    BY <1>1, <2>2
                <5> QED
                    BY <1>1, <5>1
            <4> QED
                BY <4>1
        <3>3. item.name \in WellFormed
            BY <2>6 DEF Hit
        <3> DEFINE x == item.name
                   s == found[n]
        <3>4. s \in Seq(WellFormed) /\ IsInjective(s) /\ x \in WellFormed /\ x \notin ToSet(s)
            BY <2>3, <3>2, <3>3
        <3> HIDE DEF x, s
        <3>5. /\ Append(s, x) \in Seq(WellFormed) /\ IsInjective(Append(s, x))
              /\ ToSet(Append(s, x)) = ToSet(s) \cup {x}
            BY <3>4, AppendNew
        <3>6. found[n + 1] = Append(s, x)
            BY <2>4, <2>6 DEF x, s
        <3>7. ToSet(s) = Names(n)
            BY <2>3 DEF s
        <3>8. ToSet(found[n + 1]) = Names(n + 1)
            BY <3>1, <3>5, <3>6, <3>7 DEF x
        <3> QED
            BY <3>5, <3>6, <3>8
    <2> QED
        BY <2>5, <2>6
<1> HIDE DEF S
<1>5. Len(items) \in S
    BY <1>1, <1>3, <1>4, SetInduction
<1>6. Good(Len(items))
    BY <1>1, <1>5 DEF S
<1>7. Names(Len(items)) = Wanted(q) \ unread
    <2>1. ASSUME NEW name \in WellFormed PROVE Matches(q, Definition[name]) <=> Wants(q, Definition[name])
        <3>1. name \in DOMAIN Definition /\ Definition[name] # None /\ IsFile(Definition[name])
            BY IngressAssumption DEF WellFormed, from_yaml
        <3> QED
            BY <3>1, MatchesIsWants
    <2>2. ASSUME NEW name \in Names(Len(items)) PROVE name \in Wanted(q) \ unread
        <3>1. PICK i \in 1..Len(items) : Hit(q, unread, items[i]) /\ name = items[i].name
            BY <2>2
        <3>2. /\ items[i].type = "file" /\ items[i].is_yaml /\ name \in WellFormed \ unread
              /\ Matches(q, Definition[name])
            BY <3>1 DEF Hit
        <3>3. items[i] \in Item
            BY <1>1, <3>1
        <3>4. items[i] = [name |-> name, type |-> "file", is_yaml |-> TRUE]
            BY <3>1, <3>2, <3>3 DEF Item
        <3>5. items[i] \in ToSet(items)
            BY <1>1, <3>1 DEF ToSet
        <3> QED
            BY <2>1, <3>2, <3>4, <3>5 DEF Wanted, items
    <2>3. ASSUME NEW name \in Wanted(q) \ unread PROVE name \in Names(Len(items))
        <3> DEFINE item == [name |-> name, type |-> "file", is_yaml |-> TRUE]
        <3>1. item \in ToSet(items) /\ name \in WellFormed /\ Wants(q, Definition[name])
            BY DEF Wanted, items
        <3>2. PICK i \in 1..Len(items) : items[i] = item
            BY <1>1, <3>1 DEF ToSet
        <3>3. Hit(q, unread, items[i]) /\ items[i].name = name
            BY <2>1, <3>1, <3>2 DEF Hit
        <3> QED
            BY <3>3
    <2> QED
        BY <2>2, <2>3
<1> QED
    BY <1>2, <1>6, <1>7
----------------------------------------------------------------------------
(* The inductive invariant.  Its parts are operators of the values they    *)
(* speak of, so that a step that leaves these alone leaves the part alone. *)

Event(q) == q.event \in {"push", "pull_request"}

Asked(id) == [NoDelivery EXCEPT !.event = "retry", !.external_id = id]

LogEntry ==
    [request : Delivery \cup {Asked(id) : id \in RunIds}, doc : DOMAIN Docs, tenant_slug : {None} \cup Slugs,
     status : Status \cup {"open", "lost"}, fault : BOOLEAN]

HandlerState ==
    [pc : {"idle", "match", "originals", "next", "upload", "start"}, cause : Nat,
     todo : Seq(DOMAIN Definition) \cup Seq(RunIds),
     run_context : {None} \cup RunContext, run_id : 0..MaxRuns]

\* The event of entry e was signed by the App of a tenant with that slug and
\* is about a repository of its organisation.
SentFor(e, slug) ==
    \E t \in ToSet(Docs[e.doc].tenants) : \E a \in ToSet(Docs[e.doc].github_apps) :
        /\ t.slug = slug /\ t.app_ref = a.id
        /\ a.webhook_secret = e.request.secret
        /\ e.request.repository = Account(t.org_name, "Organization")

\* A request that was taken on, or answered at once.
Routed(e) ==
    /\ Complete(e.request)
    /\ IF e.tenant_slug # None
       THEN /\ e.request.event \in {"push", "pull_request", "check_run", "check_suite", "retry"}
            /\ Event(e.request) => SentFor(e, e.tenant_slug)
            /\ e.request.event = "push" => e.request.repository # None
            /\ e.request.event = "pull_request" => e.request.head # None
            /\ e.request.event = "check_suite" => e.request.repository # None
            /\ e.request.event \in {"check_run", "retry"} => e.request.external_id \in RunIds
       ELSE /\ e.status # "open" /\ e.request.event # "retry"
            /\ Event(e.request) /\ e.status = "OK" /\ DistinctSecrets(e.doc) => Addressed(e) = {}

LaunchedBy(i, rs) == {id \in RunIds : rs[id] # None /\ rs[id].cause = i}

Yamls(i, rs) == {rs[id].run_context.yaml : id \in LaunchedBy(i, rs)}

Origins(i, rs) == {rs[id].run_context.retry_of : id \in LaunchedBy(i, rs)}

Kept(id, rs) == rs[id] # None /\ rs[id].recorded

First(c) == [c EXCEPT !.retry_of = None]

\* What a closed request i has launched.
Settled(i, e, rs) ==
    e.status = "OK" /\ e.tenant_slug # None =>
        /\ Event(e.request) /\ ~e.fault => Yamls(i, rs) = Wanted(e.request)
        /\ e.request.event = "retry" =>
               \E id \in RunIds : /\ LaunchedBy(i, rs) = {id}
                                  /\ rs[id].run_context.retry_of = e.request.external_id

\* What is left to launch is what was not launched yet, each once.
EventTodo(s, e, rs) ==
    /\ s.todo \in Seq(WellFormed) /\ IsInjective(s.todo)
    /\ Yamls(s.cause, rs) \cap ToSet(s.todo) = {}
    /\ ~e.fault => Yamls(s.cause, rs) \cup ToSet(s.todo) = Wanted(e.request)

RetryTodo(s, q, rs) ==
    /\ s.todo \in Seq(RunIds) /\ IsInjective(s.todo)
    /\ Origins(s.cause, rs) \cap ToSet(s.todo) = {}
    /\ q.event = "check_suite" =>
           \A id \in ToSet(s.todo) : Kept(id, rs) /\ rs[id].run_context.retry_of = None
    /\ q.event # "check_suite" => ToSet(s.todo) \subseteq {q.external_id}
    /\ q.event = "retry" => s.todo = <<q.external_id>> /\ LaunchedBy(s.cause, rs) = {}

\* The run about to be launched.
Chosen(s, e, rs) ==
    /\ s.todo # << >>
    /\ s.run_context \in RunContext /\ s.run_context.yaml \in WellFormed
    /\ s.run_context.tenant_slug = e.tenant_slug
    /\ IF Event(e.request)
       THEN s.run_context.retry_of = None /\ s.run_context.yaml = Head(s.todo)
       ELSE /\ Kept(Head(s.todo), rs)
            /\ s.run_context = [rs[Head(s.todo)].run_context EXCEPT !.retry_of = Head(s.todo)]

Supplied(c, id, src) == c.yaml \in needs_source => Whole(Frames[c.sha], src[id])

\* A busy handler, its entry in the log, the runs, the sources, the ids issued.
Working(s, e, rs, src, n) ==
    /\ e.status = "open" /\ e.tenant_slug # None
    /\ s.pc = "match" => Event(e.request)
    /\ s.pc = "originals" => e.request.event = "check_suite"
    /\ s.pc \in {"match", "originals"} => s.todo = << >> /\ LaunchedBy(s.cause, rs) = {}
    /\ s.pc \in {"next", "upload", "start"} =>
           IF Event(e.request) THEN EventTodo(s, e, rs) ELSE RetryTodo(s, e.request, rs)
    /\ s.pc \notin {"upload", "start"} => s.run_context = None
    /\ s.pc \in {"upload", "start"} => Chosen(s, e, rs)
    /\ s.pc # "start" => s.run_id = 0
    /\ s.pc = "start" => /\ s.run_id \in 1..n /\ rs[s.run_id] = None
                         /\ ~Event(e.request) => Head(s.todo) < s.run_id
                         /\ Supplied(s.run_context, s.run_id, src)

\* A retry has the context of an earlier run that was recorded.
Retries(id, c, q, rs) ==
    /\ c.retry_of \in RunIds /\ c.retry_of < id /\ Kept(c.retry_of, rs)
    /\ First(c) = First(rs[c.retry_of].run_context)
    /\ q.event = "check_suite" => rs[c.retry_of].run_context.retry_of = None
    /\ q.event # "check_suite" => c.retry_of = q.external_id

\* A run, the request it comes from and the tenant the request was for.
Justified(id, r, q, slug, rs, src, n) ==
    /\ id <= n /\ r.run_context.tenant_slug = slug
    /\ r.run_context.yaml \in WellFormed
    /\ Event(q) => r.run_context.retry_of = None
    /\ ~Event(q) => Retries(id, r.run_context, q, rs)
    /\ Supplied(r.run_context, id, src)

StateOK ==
    /\ doc \in Accepted /\ faults \in 0..MaxFaults
    /\ log \in Seq(LogEntry) /\ Len(log) <= MaxRequests
    /\ handler \in [Handlers -> HandlerState]
    /\ issued \in 0..MaxRuns
    /\ DOMAIN source = RunIds
    /\ runs \in [RunIds -> {None} \cup Run]

LogOK == \A i \in DOMAIN log : Routed(log[i]) /\ Settled(i, log[i], runs)

Busy(h) == handler[h].pc # "idle"

HandlersOK ==
    \A h \in Handlers :
        IF Busy(h) THEN /\ handler[h].cause \in DOMAIN log
                        /\ Working(handler[h], log[handler[h].cause], runs, source, issued)
        ELSE handler[h] = Idle

\* Requests and run ids are nobody else's.
Apart ==
    \A g, h \in Handlers :
        g # h /\ Busy(g) /\ Busy(h) => /\ handler[g].cause # handler[h].cause
                                       /\ handler[g].run_id # 0 => handler[g].run_id # handler[h].run_id

RunsOK ==
    \A id \in RunIds :
        runs[id] # None =>
            /\ runs[id].cause \in DOMAIN log
            /\ Justified(id, runs[id], log[runs[id].cause].request, log[runs[id].cause].tenant_slug,
                         runs, source, issued)

\* The runs of one request differ in what they run or retry.
OneEach(rs) ==
    \A i, j \in RunIds :
        i # j /\ rs[i] # None /\ rs[j] # None /\ rs[i].cause = rs[j].cause =>
            \/ rs[i].run_context.retry_of # rs[j].run_context.retry_of
            \/ /\ rs[i].run_context.retry_of = None
               /\ rs[i].run_context.yaml # rs[j].run_context.yaml

IngressInv == StateOK /\ LogOK /\ HandlersOK /\ Apart /\ RunsOK /\ OneEach(runs)

----------------------------------------------------------------------------
(* Routing                                                                 *)

LEMMA RegistryHolds ==
    ASSUME doc \in Accepted
    PROVE  /\ Docs[doc] \in Document
           /\ Holds(registry, ToSet(Docs[doc].tenants))
           /\ Apps(registry.apps, ToSet(Docs[doc].github_apps))
<1>1. doc \in DOMAIN Docs /\ registry = from_document(Docs[doc]) /\ registry.ok
    BY DEF Accepted, Registries, registry
<1>2. Docs[doc] \in Document
    BY <1>1, IngressAssumption
<1>3. from_document(Docs[doc]).ok
    BY <1>1
<1> QED
    BY <1>1, <1>2, <1>3, AcceptedDocument

\* The App whose secret fits is an entry of the document.
LEMMA SigningApp ==
    ASSUME doc \in Accepted, NEW secret, NEW app \in identify_signing_app(secret)
    PROVE  \E a \in ToSet(Docs[doc].github_apps) : a.id = app /\ a.webhook_secret = secret
BY RegistryHolds DEF identify_signing_app, Apps

\* A tenant that is found is one of the document's, bound to that App and to the
\* organisation the request is about.
LEMMA TenantFound ==
    ASSUME doc \in Accepted, NEW q, NEW app, tenant_for(app, q) # NoTenant
    PROVE  LET t == tenant_for(app, q)
               owner == extract_owner_info(q)
           IN  /\ t \in ToSet(Docs[doc].tenants) /\ t.slug \in Slugs
               /\ t.app_ref = app /\ t.org_name = owner.login /\ owner.type = "Organization"
<1> DEFINE t == tenant_for(app, q)
           owner == extract_owner_info(q)
<1>1. /\ owner.type = "Organization"
      /\ t = by_app_and_org(registry, app, owner.login)
    BY DEF tenant_for
<1> HIDE DEF t, owner
<1>2. t # NoTenant
    BY DEF t
<1> DEFINE key == <<app, owner.login>>
<1>3. key \in DOMAIN registry.by_app_and_org /\ t = registry.by_app_and_org[key]
    BY <1>1, <1>2 DEF by_app_and_org, Lookup
<1>4. t \in ToSet(Docs[doc].tenants) /\ AppKey(t) = key
    BY <1>3, RegistryHolds DEF Holds, BindingsHeld
<1>5. t.app_ref = app /\ t.org_name = owner.login
    BY <1>4 DEF AppKey
<1>6. doc \in DOMAIN Docs
    BY DEF Accepted
<1>7. t.slug \in Slugs
    BY <1>4, <1>6 DEF Slugs
<1> QED
    BY <1>1, <1>4, <1>5, <1>7 DEF t, owner

\* What is about a repository of a tenant's organisation is recognised.
LEMMA SentForTenant ==
    ASSUME doc \in Accepted, NEW e, e.doc = doc, e.request \in Delivery, e.request.repository # None,
           NEW app \in identify_signing_app(e.request.secret), tenant_for(app, e.request) # NoTenant
    PROVE  SentFor(e, tenant_for(app, e.request).slug)
<1> DEFINE t == tenant_for(app, e.request)
           q == e.request
<1>1. extract_owner_info(q) = q.repository
    BY DEF extract_owner_info
<1>2. /\ t \in ToSet(Docs[doc].tenants) /\ t.app_ref = app
      /\ t.org_name = q.repository.login /\ q.repository.type = "Organization"
    BY <1>1, TenantFound
<1>3. q.repository \in OwnerInfo
    BY DEF Delivery
<1>4. q.repository = Account(t.org_name, "Organization")
    <2> HIDE DEF t, q
    <2> QED
        BY <1>2, <1>3 DEF OwnerInfo, Account
<1>5. PICK a \in ToSet(Docs[doc].github_apps) : a.id = app /\ a.webhook_secret = q.secret
    BY SigningApp
<1> HIDE DEF t
<1>6. SentFor(e, t.slug)
    BY <1>2, <1>4, <1>5 DEF SentFor
<1> QED
    BY <1>6 DEF t

\* What is dropped for want of a tenant is for none, if the secrets tell the Apps
\* apart.
LEMMA DroppedIsUnaddressed ==
    ASSUME doc \in Accepted, NEW e, e.doc = doc, DistinctSecrets(doc),
           NEW app \in identify_signing_app(e.request.secret), tenant_for(app, e.request) = NoTenant
    PROVE  Addressed(e) = {}
<1> DEFINE q == e.request
<1> SUFFICES ASSUME NEW t \in Addressed(e) PROVE FALSE
    OBVIOUS
<1>1. /\ t \in ToSet(Docs[doc].tenants) /\ q.repository = Account(t.org_name, "Organization")
      /\ \E a \in ToSet(Docs[doc].github_apps) : a.id = t.app_ref /\ a.webhook_secret = q.secret
    BY DEF Addressed
<1>2. PICK a \in ToSet(Docs[doc].github_apps) : a.id = t.app_ref /\ a.webhook_secret = q.secret
    BY <1>1
<1>3. PICK b \in ToSet(Docs[doc].github_apps) : b.id = app /\ b.webhook_secret = q.secret
    BY SigningApp
<1>4. a = b
    BY <1>2, <1>3 DEF DistinctSecrets, ToSet
<1>5. t \in TenantEntry
    BY <1>1, RegistryHolds DEF Document, ToSet
<1>6. q.repository.login = t.org_name /\ q.repository.type = "Organization" /\ q.repository # None
    <2>1. t.org_name \in STRING
        BY <1>5 DEF TenantEntry
    <2>2. Account(t.org_name, "Organization") \in [login : STRING, type : OwnerKind]
        BY <2>1 DEF Account, OwnerKind
    <2> QED
        BY <1>1, <2>2, IngressAssumption DEF Account
<1>7. extract_owner_info(q) = q.repository
    BY <1>6 DEF extract_owner_info
<1>8. tenant_for(app, q) = by_app_and_org(registry, app, t.org_name)
    BY <1>6, <1>7 DEF tenant_for
<1>9. by_app_and_org(registry, app, t.org_name) = t
    BY <1>1, <1>2, <1>3, <1>4, RegistryHolds DEF Holds, BindingsHeld, AppKey, by_app_and_org, Lookup
<1> QED
    BY <1>5, <1>8, <1>9, TenancyAssumption

----------------------------------------------------------------------------
(* What a step leaves as it was                                            *)

\* From rs to rs2, runs of request i may have been added.
Grown(rs, rs2, i) ==
    \A id \in RunIds : rs2[id] = rs[id] \/ (rs[id] = None /\ rs2[id] # None /\ rs2[id].cause = i)

\* The sources of the first n runs are the same.
SameSources(src, src2, n) == \A id \in RunIds : id <= n => src2[id] = src[id]

LEMMA GrownKept ==
    ASSUME NEW rs, NEW rs2, NEW i, Grown(rs, rs2, i), NEW id \in RunIds, rs[id] # None
    PROVE  rs2[id] = rs[id] /\ (Kept(id, rs) => Kept(id, rs2))
BY DEF Grown, Kept

LEMMA GrownElsewhere ==
    ASSUME NEW rs, NEW rs2, NEW i, Grown(rs, rs2, i), NEW j, i # j
    PROVE  /\ LaunchedBy(j, rs2) = LaunchedBy(j, rs)
           /\ Yamls(j, rs2) = Yamls(j, rs) /\ Origins(j, rs2) = Origins(j, rs)
<1>1. LaunchedBy(j, rs2) = LaunchedBy(j, rs)
    BY DEF Grown, LaunchedBy
<1>2. \A id \in LaunchedBy(j, rs) : rs2[id] = rs[id]
    BY DEF Grown, LaunchedBy
<1> QED
    BY <1>1, <1>2 DEF Yamls, Origins

LEMMA SettledElsewhere ==
    ASSUME NEW rs, NEW rs2, NEW i, Grown(rs, rs2, i), NEW j, i # j, NEW e, Settled(j, e, rs)
    PROVE  Settled(j, e, rs2)
<1>1. LaunchedBy(j, rs2) = LaunchedBy(j, rs) /\ Yamls(j, rs2) = Yamls(j, rs)
    BY GrownElsewhere
<1>2. \A id \in LaunchedBy(j, rs) : rs2[id] = rs[id]
    BY DEF Grown, LaunchedBy
<1> QED
    BY <1>1, <1>2 DEF Settled

LEMMA RetriesStill ==
    ASSUME NEW rs, NEW rs2, NEW i, Grown(rs, rs2, i), NEW id, NEW c, NEW q, Retries(id, c, q, rs)
    PROVE  Retries(id, c, q, rs2)
<1>1. c.retry_of \in RunIds /\ Kept(c.retry_of, rs) /\ rs[c.retry_of] # None
    BY DEF Retries, Kept
<1>2. rs2[c.retry_of] = rs[c.retry_of] /\ Kept(c.retry_of, rs2)
    BY <1>1, GrownKept
<1> QED
    BY <1>2 DEF Retries

LEMMA JustifiedStill ==
    ASSUME NEW rs, NEW rs2, NEW i, Grown(rs, rs2, i),
           NEW src, NEW src2, NEW n \in Nat, NEW n2 \in Nat, n <= n2, SameSources(src, src2, n),
           NEW id \in RunIds, NEW r, NEW q, NEW slug, Justified(id, r, q, slug, rs, src, n)
    PROVE  Justified(id, r, q, slug, rs2, src2, n2)
<1>1. id <= n /\ src2[id] = src[id]
    BY DEF Justified, SameSources
<1>2. Supplied(r.run_context, id, src2)
    BY <1>1 DEF Justified, Supplied
<1>3. ~Event(q) => Retries(id, r.run_context, q, rs2)
    BY RetriesStill DEF Justified
<1>4. id <= n2
    BY <1>1 DEF RunIds
<1> QED
    BY <1>2, <1>3, <1>4 DEF Justified

LEMMA HeadOfTodo ==
    ASSUME NEW S, NEW s \in Seq(S), s # << >>
    PROVE  Head(s) \in S /\ Head(s) \in ToSet(s)
<1>1. Head(s) = s[1] /\ 1 \in DOMAIN s
    OBVIOUS
<1> QED
    BY <1>1 DEF ToSet

LEMMA TodoStill ==
    ASSUME NEW rs, NEW rs2, NEW i, Grown(rs, rs2, i), NEW s, s.cause # i, NEW e
    PROVE  /\ EventTodo(s, e, rs) => EventTodo(s, e, rs2)
           /\ RetryTodo(s, e.request, rs) => RetryTodo(s, e.request, rs2)
<1>1. /\ LaunchedBy(s.cause, rs2) = LaunchedBy(s.cause, rs)
      /\ Yamls(s.cause, rs2) = Yamls(s.cause, rs) /\ Origins(s.cause, rs2) = Origins(s.cause, rs)
    BY GrownElsewhere
<1>2. EventTodo(s, e, rs) => EventTodo(s, e, rs2)
    BY <1>1 DEF EventTodo
<1>3. ASSUME RetryTodo(s, e.request, rs) PROVE RetryTodo(s, e.request, rs2)
    <2>1. ASSUME NEW id \in ToSet(s.todo), Kept(id, rs) PROVE Kept(id, rs2) /\ rs2[id] = rs[id]
        <3>1. id \in RunIds
            BY <1>3 DEF RetryTodo, ToSet
        <3> QED
            BY <2>1, <3>1, GrownKept DEF Kept
    <2> QED
        BY <1>1, <1>3, <2>1 DEF RetryTodo
<1> QED
    BY <1>2, <1>3

\* Another handler can go on as before.
LEMMA WorkingStill ==
    ASSUME NEW rs, NEW rs2, NEW i, Grown(rs, rs2, i),
           NEW src, NEW src2, NEW n \in Nat, NEW n2 \in Nat, n <= n2, SameSources(src, src2, n),
           NEW s \in HandlerState, NEW e, Working(s, e, rs, src, n), s.cause # i,
           s.run_id # 0 => rs2[s.run_id] = rs[s.run_id]
    PROVE  Working(s, e, rs2, src2, n2)
<1>1. LaunchedBy(s.cause, rs2) = LaunchedBy(s.cause, rs)
    BY GrownElsewhere
<1>2. /\ EventTodo(s, e, rs) => EventTodo(s, e, rs2)
      /\ RetryTodo(s, e.request, rs) => RetryTodo(s, e.request, rs2)
    BY TodoStill
<1>3. ASSUME s.pc \in {"upload", "start"} PROVE Chosen(s, e, rs2)
    <2>1. Chosen(s, e, rs) /\ s.todo # << >>
        BY <1>3 DEF Working, Chosen
    <2>2. CASE Event(e.request)
        BY <2>1, <2>2 DEF Chosen
    <2>3. CASE ~Event(e.request)
        <3>1. s.todo \in Seq(RunIds)
            BY <1>3, <2>3 DEF Working, RetryTodo
        <3>2. Head(s.todo) \in RunIds
            BY <2>1, <3>1, HeadOfTodo
        <3>3. Kept(Head(s.todo), rs)
            BY <2>1, <2>3 DEF Chosen
        <3>4. Kept(Head(s.todo), rs2) /\ rs2[Head(s.todo)] = rs[Head(s.todo)]
            BY <3>2, <3>3, GrownKept DEF Kept
        <3> QED
            BY <2>1, <2>3, <3>4 DEF Chosen
    <2> QED
        BY <2>2, <2>3
<1>4. ASSUME s.pc = "start"
      PROVE  /\ s.run_id \in 1..n2 /\ rs2[s.run_id] = None
             /\ Supplied(s.run_context, s.run_id, src2)
    <2>1. s.run_id \in 1..n /\ rs[s.run_id] = None /\ Supplied(s.run_context, s.run_id, src)
        BY <1>4 DEF Working
    <2>2. s.run_id \in RunIds /\ s.run_id <= n /\ s.run_id # 0
        BY <2>1 DEF HandlerState, RunIds
    <2>3. src2[s.run_id] = src[s.run_id]
        BY <2>2 DEF SameSources
    <2>4. s.run_id \in 1..n2
        BY <2>1
    <2> QED
        BY <2>1, <2>2, <2>3, <2>4 DEF Supplied
<1> QED
    BY <1>1, <1>2, <1>3, <1>4 DEF Working

\* The invariant from the one of the state before, for a step in which at most a
\* request was added to the log.
LEMMA Appended ==
    ASSUME IngressInv, NEW e \in LogEntry, Routed(e), Settled(Len(log) + 1, e, runs),
           Len(log) < MaxRequests, log' = Append(log, e), UNCHANGED <<doc, faults, issued, source, runs>>
    PROVE  /\ (doc \in Accepted /\ faults \in 0..MaxFaults)'
           /\ (log \in Seq(LogEntry))' /\ Len(log') <= MaxRequests
           /\ DOMAIN log' = DOMAIN log \cup {Len(log) + 1} /\ Len(log) + 1 \notin DOMAIN log
           /\ log'[Len(log) + 1] = e /\ \A i \in DOMAIN log : log'[i] = log[i]
           /\ (issued \in 0..MaxRuns /\ DOMAIN source = RunIds /\ runs \in [RunIds -> {None} \cup Run])'
           /\ LogOK' /\ RunsOK' /\ OneEach(runs')
<1>1. StateOK /\ LogOK /\ RunsOK /\ OneEach(runs)
    BY DEF IngressInv
<1>2. /\ log \in Seq(LogEntry) /\ Len(log) \in Nat /\ Len(log) <= MaxRequests /\ MaxRequests \in Nat
      /\ DOMAIN log = 1..Len(log)
    BY <1>1, IngressAssumption DEF StateOK
<1>3. /\ log' \in Seq(LogEntry) /\ Len(log') = Len(log) + 1
      /\ DOMAIN log' = 1..(Len(log) + 1) /\ log'[Len(log) + 1] = e
      /\ \A i \in DOMAIN log : log'[i] = log[i]
    BY <1>2
<1>4. DOMAIN log' = DOMAIN log \cup {Len(log) + 1} /\ Len(log) + 1 \notin DOMAIN log
    BY <1>2, <1>3
<1>5. LogOK'
    <2>1. ASSUME NEW i \in DOMAIN log' PROVE Routed(log'[i]) /\ Settled(i, log'[i], runs)
        <3>1. CASE i = Len(log) + 1
            BY <1>3, <3>1
        <3>2. CASE i # Len(log) + 1
            BY <1>1, <1>3, <1>4, <3>2 DEF LogOK
        <3> QED
            BY <3>1, <3>2
    <2>2. runs' = runs
        OBVIOUS
    <2> QED
        BY <2>1, <2>2 DEF LogOK
<1>6. RunsOK'
    <2> DEFINE J(id, lg) == /\ runs[id].cause \in DOMAIN lg
                            /\ Justified(id, runs[id], lg[runs[id].cause].request,
                                         lg[runs[id].cause].tenant_slug, runs, source, issued)
    <2>1. ASSUME NEW id \in RunIds, runs[id] # None PROVE J(id, log')
        <3>1. J(id, log)
            BY <1>1, <2>1 DEF RunsOK
        <3> QED
            BY <1>3, <1>4, <3>1
    <2>2. runs' = runs /\ source' = source /\ issued' = issued
        OBVIOUS
    <2> QED
        BY <2>1, <2>2 DEF RunsOK
<1>7. Len(log') <= MaxRequests
    BY <1>2, <1>3
<1> QED
    BY <1>1, <1>3, <1>4, <1>5, <1>6, <1>7 DEF StateOK

LEMMA HandlersType ==
    ASSUME IngressInv, NEW h \in Handlers
    PROVE  /\ handler \in [Handlers -> HandlerState] /\ handler[h] \in HandlerState
           /\ Busy(h) => /\ handler[h].cause \in DOMAIN log
                         /\ Working(handler[h], log[handler[h].cause], runs, source, issued)
           /\ ~Busy(h) => handler[h] = Idle
BY DEF IngressInv, StateOK, HandlersOK

LEMMA IdleFields == Idle.pc = "idle" /\ Idle.run_id = 0 /\ Idle \in HandlerState
<1>1. << >> \in Seq(RunIds) /\ 0 \in 0..MaxRuns
    BY IngressAssumption
<1> QED
    BY <1>1 DEF Idle, HandlerState

\* A request that is answered at once.
LEMMA AnswerStep ==
    ASSUME IngressInv, NEW e \in LogEntry, Routed(e), e.tenant_slug = None,
           Len(log) < MaxRequests, log' = Append(log, e), UNCHANGED <<doc, faults, issued, source, runs, handler>>
    PROVE  IngressInv'
<1>1. Settled(Len(log) + 1, e, runs)
    BY DEF Settled
<1>2. /\ (doc \in Accepted /\ faults \in 0..MaxFaults)'
      /\ (log \in Seq(LogEntry))' /\ Len(log') <= MaxRequests
      /\ DOMAIN log' = DOMAIN log \cup {Len(log) + 1} /\ Len(log) + 1 \notin DOMAIN log
      /\ \A i \in DOMAIN log : log'[i] = log[i]
      /\ (issued \in 0..MaxRuns /\ DOMAIN source = RunIds /\ runs \in [RunIds -> {None} \cup Run])'
      /\ LogOK' /\ RunsOK' /\ OneEach(runs')
    BY <1>1, Appended
<1>3. StateOK'
    BY <1>2 DEF IngressInv, StateOK
<1>4. HandlersOK'
    <2>1. ASSUME NEW h \in Handlers
          PROVE  IF handler[h].pc # "idle"
                 THEN /\ handler[h].cause \in DOMAIN log'
                      /\ Working(handler[h], log'[handler[h].cause], runs, source, issued)
                 ELSE handler[h] = Idle
        BY <1>2, HandlersType DEF Busy
    <2>2. handler' = handler /\ runs' = runs /\ source' = source /\ issued' = issued
        OBVIOUS
    <2> QED
        BY <2>1, <2>2 DEF HandlersOK, Busy
<1>5. Apart'
    BY DEF IngressInv, Apart, Busy
<1> QED
    BY <1>2, <1>3, <1>4, <1>5 DEF IngressInv

\* A request that a handler takes on.
LEMMA AcceptStep ==
    ASSUME IngressInv, NEW e \in LogEntry, Routed(e), e.status = "open",
           Len(log) < MaxRequests, log' = Append(log, e), UNCHANGED <<doc, faults, issued, source, runs>>,
           NEW h \in Handlers, handler[h] = Idle, NEW s \in HandlerState, s.pc # "idle",
           s.cause = Len(log) + 1, s.run_id = 0, handler' = [handler EXCEPT ![h] = s],
           LaunchedBy(s.cause, runs) = {} => Working(s, e, runs, source, issued)
    PROVE  IngressInv'
<1>1. Settled(Len(log) + 1, e, runs)
    BY DEF Settled
<1>2. /\ (doc \in Accepted /\ faults \in 0..MaxFaults)'
      /\ (log \in Seq(LogEntry))' /\ Len(log') <= MaxRequests
      /\ DOMAIN log' = DOMAIN log \cup {Len(log) + 1} /\ Len(log) + 1 \notin DOMAIN log
      /\ log'[Len(log) + 1] = e /\ \A i \in DOMAIN log : log'[i] = log[i]
      /\ (issued \in 0..MaxRuns /\ DOMAIN source = RunIds /\ runs \in [RunIds -> {None} \cup Run])'
      /\ LogOK' /\ RunsOK' /\ OneEach(runs')
    BY <1>1, Appended
<1>3. /\ handler \in [Handlers -> HandlerState] /\ handler' \in [Handlers -> HandlerState]
      /\ handler'[h] = s /\ \A g \in Handlers \ {h} : handler'[g] = handler[g]
    BY HandlersType
<1>4. LaunchedBy(s.cause, runs) = {}
    <2>1. \A id \in RunIds : runs[id] # None => runs[id].cause \in DOMAIN log
        BY DEF IngressInv, RunsOK
    <2> QED
        BY <1>2, <2>1 DEF LaunchedBy
<1>5. StateOK'
    BY <1>2, <1>3 DEF StateOK
<1>6. HandlersOK'
    <2>1. ASSUME NEW g \in Handlers
          PROVE  IF handler'[g].pc # "idle"
                 THEN /\ handler'[g].cause \in DOMAIN log'
                      /\ Working(handler'[g], log'[handler'[g].cause], runs, source, issued)
                 ELSE handler'[g] = Idle
        <3>1. CASE g = h
            BY <1>2, <1>3, <1>4, <3>1
        <3>2. CASE g # h
            BY <1>2, <1>3, <3>2, HandlersType DEF Busy
        <3> QED
            BY <3>1, <3>2
    <2>2. runs' = runs /\ source' = source /\ issued' = issued
        OBVIOUS
    <2> QED
        BY <2>1, <2>2 DEF HandlersOK, Busy
<1>7. Apart'
    <2>1. ASSUME NEW f \in Handlers, NEW g \in Handlers, f # g, handler'[f].pc # "idle", handler'[g].pc # "idle"
          PROVE  /\ handler'[f].cause # handler'[g].cause
                 /\ handler'[f].run_id # 0 => handler'[f].run_id # handler'[g].run_id
        <3>1. CASE f = h
            <4>1. g # h /\ Busy(g) /\ handler[g].cause \in DOMAIN log
                BY <1>3, <2>1, <3>1, HandlersType DEF Busy
            <4> QED
                BY <1>2, <1>3, <3>1, <4>1
        <3>2. CASE g = h
            <4>1. f # h /\ Busy(f) /\ handler[f].cause \in DOMAIN log
                BY <1>3, <2>1, <3>2, HandlersType DEF Busy
            <4> QED
                BY <1>2, <1>3, <3>2, <4>1
        <3>3. CASE f # h /\ g # h
            BY <1>3, <2>1, <3>3 DEF IngressInv, Apart, Busy
        <3> QED
            BY <3>1, <3>2, <3>3
    <2> QED
        BY <2>1 DEF Apart, Busy
<1> QED
    BY <1>2, <1>5, <1>6, <1>7 DEF IngressInv

\* The same request, perhaps with another status.
SameRequest(e, e2) == e2.request = e.request /\ e2.doc = e.doc /\ e2.tenant_slug = e.tenant_slug

LEMMA RoutedStill ==
    ASSUME NEW e, NEW e2, SameRequest(e, e2), Routed(e), e.tenant_slug # None
    PROVE  Routed(e2)
<1>1. \A slug : SentFor(e, slug) => SentFor(e2, slug)
    BY DEF SentFor, SameRequest
<1> QED
    BY <1>1 DEF Routed, SameRequest

\* A step of a handler that is at work: its next state, its entry in the log, what it
\* adds to the runs and the sources, and nothing else.
LEMMA WorkStep ==
    ASSUME IngressInv, NEW h \in Handlers, Busy(h), NEW s \in HandlerState,
           s = Idle \/ (s.pc # "idle" /\ s.cause = handler[h].cause),
           s.run_id \in {0, handler[h].run_id} \/ s.run_id > issued,
           handler' = [handler EXCEPT ![h] = s],
           NEW e2 \in LogEntry, SameRequest(log[handler[h].cause], e2),
           log' = [log EXCEPT ![handler[h].cause] = e2],
           doc' = doc, faults' \in 0..MaxFaults,
           issued' \in 0..MaxRuns, issued <= issued',
           DOMAIN source' = RunIds, SameSources(source, source', issued),
           runs' \in [RunIds -> {None} \cup Run],
           \A id \in RunIds : runs'[id] = runs[id] \/ (id = handler[h].run_id /\ runs'[id] # None),
           \A id \in RunIds : runs'[id] # runs[id] =>
               /\ runs'[id].cause = handler[h].cause
               /\ Justified(id, runs'[id], e2.request, e2.tenant_slug, runs', source', issued'),
           OneEach(runs'),
           Settled(handler[h].cause, e2, runs'),
           s.pc # "idle" => Working(s, e2, runs', source', issued')
    PROVE  IngressInv'
<1> DEFINE i == handler[h].cause
           e == log[i]
<1>1. /\ i \in DOMAIN log /\ Working(handler[h], e, runs, source, issued) /\ handler[h] \in HandlerState
      /\ handler \in [Handlers -> HandlerState]
    BY HandlersType
<1>2. /\ log \in Seq(LogEntry) /\ Len(log) <= MaxRequests /\ issued \in 0..MaxRuns /\ issued' \in Nat
      /\ issued \in Nat /\ MaxRuns \in Nat /\ doc \in Accepted
    BY IngressAssumption DEF IngressInv, StateOK
<1>3. /\ log' \in Seq(LogEntry) /\ Len(log') = Len(log) /\ DOMAIN log' = DOMAIN log /\ log'[i] = e2
      /\ \A j \in DOMAIN log : j # i => log'[j] = log[j]
    BY <1>1, <1>2
<1>4. /\ handler' \in [Handlers -> HandlerState] /\ handler'[h] = s
      /\ \A g \in Handlers \ {h} : handler'[g] = handler[g]
    BY <1>1
<1>5. /\ handler[h].run_id # 0 => runs[handler[h].run_id] = None
      /\ handler[h].run_id # 0 => handler[h].run_id <= issued
    BY <1>1, <1>2 DEF Working
<1>6. Grown(runs, runs', i)
    <2>1. \A id \in RunIds : id # 0
        BY DEF RunIds
    <2> QED
        BY <1>5, <2>1 DEF Grown
<1> HIDE DEF i
<1>7. StateOK'
    BY <1>2, <1>3, <1>4 DEF StateOK
<1>8. LogOK'
    <2>1. ASSUME NEW j \in DOMAIN log' PROVE Routed(log'[j]) /\ Settled(j, log'[j], runs')
        <3>1. Routed(log[j]) /\ Settled(j, log[j], runs)
            BY <1>3 DEF IngressInv, LogOK
        <3>2. CASE j = i
            <4>1. e.tenant_slug # None
                BY <1>1 DEF Working
            <4>2. Routed(e2)
                BY <3>1, <3>2, <4>1, RoutedStill DEF i
            <4> QED
                BY <1>3, <3>2, <4>2 DEF i
        <3>3. CASE j # i
            BY <1>3, <1>6, <3>1, <3>3, SettledElsewhere
        <3> QED
            BY <3>2, <3>3
    <2> QED
        BY <2>1 DEF LogOK
<1>9. Apart'
    <2>1. ASSUME NEW f \in Handlers, NEW g \in Handlers, f # g, handler'[f].pc # "idle", handler'[g].pc # "idle"
          PROVE  /\ handler'[f].cause # handler'[g].cause
                 /\ handler'[f].run_id # 0 => handler'[f].run_id # handler'[g].run_id
        <3>1. ASSUME NEW k \in Handlers, k # h, handler[k].pc # "idle"
              PROVE  /\ handler[k].cause # i
                     /\ handler[k].run_id # 0 => handler[k].run_id # handler[h].run_id
                     /\ handler[k].run_id \in Nat /\ handler[k].run_id <= issued
            <4>1. /\ handler[k].cause # i
                  /\ handler[k].run_id # 0 => handler[k].run_id # handler[h].run_id
                BY <3>1 DEF IngressInv, Apart, Busy, i
            <4>2. Working(handler[k], log[handler[k].cause], runs, source, issued)
                BY <3>1, HandlersType DEF Busy
            <4>3. handler[k].run_id \in Nat /\ handler[k].run_id <= issued
                BY <1>2, <4>2 DEF Working
            <4> QED
                BY <4>1, <4>3
        <3>2. s.pc # "idle" => s.cause = i
            BY IdleFields DEF i
        <3>3. s.run_id \in Nat
            BY DEF HandlerState
        <3>4. CASE f = h
            <4>1. g # h /\ handler'[g] = handler[g] /\ handler'[f] = s
                BY <1>4, <2>1, <3>4
            <4>2. /\ handler[g].cause # i
                  /\ handler[g].run_id # 0 => handler[g].run_id # handler[h].run_id
                  /\ handler[g].run_id \in Nat /\ handler[g].run_id <= issued
                BY <2>1, <3>1, <4>1
            <4> QED
                BY <1>2, <2>1, <3>2, <3>3, <4>1, <4>2
        <3>5. CASE g = h
            <4>1. f # h /\ handler'[f] = handler[f] /\ handler'[g] = s
                BY <1>4, <2>1, <3>5
            <4>2. /\ handler[f].cause # i
                  /\ handler[f].run_id # 0 => handler[f].run_id # handler[h].run_id
                  /\ handler[f].run_id \in Nat /\ handler[f].run_id <= issued
                BY <2>1, <3>1, <4>1
            <4> QED
                BY <1>2, <2>1, <3>2, <3>3, <4>1, <4>2
        <3>6. CASE f # h /\ g # h
            BY <1>4, <2>1, <3>6 DEF IngressInv, Apart, Busy
        <3> QED
            BY <3>4, <3>5, <3>6
    <2> QED
        BY <2>1 DEF Apart, Busy
<1>10. HandlersOK'
    <2>1. ASSUME NEW g \in Handlers
          PROVE  IF handler'[g].pc # "idle"
                 THEN /\ handler'[g].cause \in DOMAIN log'
                      /\ Working(handler'[g], log'[handler'[g].cause], runs', source', issued')
                 ELSE handler'[g] = Idle
        <3>1. CASE g = h /\ s = Idle
            BY <1>4, <3>1, IdleFields
        <3>2. CASE g = h /\ s # Idle
            BY <1>1, <1>3, <1>4, <3>2 DEF i
        <3>3. CASE g # h /\ handler[g].pc = "idle"
            BY <1>4, <3>3, HandlersType DEF Busy
        <3>4. CASE g # h /\ handler[g].pc # "idle"
            <4> DEFINE o == handler[g]
            <4>1. o \in HandlerState /\ o.cause \in DOMAIN log /\ Working(o, log[o.cause], runs, source, issued)
                BY <3>4, HandlersType DEF Busy
            <4>2. /\ o.cause # i
                  /\ o.run_id # 0 => o.run_id # handler[h].run_id
                BY <3>4 DEF IngressInv, Apart, Busy, i
            <4>3. o.run_id # 0 => runs'[o.run_id] = runs[o.run_id]
                <5>1. o.run_id # 0 => o.run_id \in RunIds
                    BY <4>1 DEF HandlerState, RunIds
                <5> QED
                    BY <4>2, <5>1
            <4>4. handler'[g] = o /\ log'[o.cause] = log[o.cause]
                BY <1>3, <1>4, <3>4, <4>1, <4>2
            <4> HIDE DEF o
            <4>5. Working(o, log[o.cause], runs', source', issued')
                BY <1>2, <1>6, <4>1, <4>2, <4>3, WorkingStill
            <4> QED
                BY <1>3, <3>4, <4>1, <4>4, <4>5 DEF o
        <3> QED
            BY <3>1, <3>2, <3>3, <3>4
    <2> QED
        BY <2>1 DEF HandlersOK, Busy
<1>11. RunsOK'
    <2>1. ASSUME NEW id \in RunIds, runs'[id] # None
          PROVE  /\ runs'[id].cause \in DOMAIN log'
                 /\ Justified(id, runs'[id], log'[runs'[id].cause].request,
                              log'[runs'[id].cause].tenant_slug, runs', source', issued')
        <3>1. CASE runs'[id] # runs[id]
            BY <1>1, <1>3, <3>1 DEF i
        <3>2. CASE runs'[id] = runs[id]
            <4> DEFINE c == runs[id].cause
            <4>1. c \in DOMAIN log /\ Justified(id, runs[id], log[c].request, log[c].tenant_slug, runs, source, issued)
                BY <2>1, <3>2 DEF IngressInv, RunsOK
            <4>2. log'[c].request = log[c].request /\ log'[c].tenant_slug = log[c].tenant_slug
                BY <1>3, <4>1 DEF SameRequest, i
            <4> HIDE DEF c
            <4>3. Justified(id, runs[id], log[c].request, log[c].tenant_slug, runs', source', issued')
                BY <1>2, <1>6, <4>1, JustifiedStill
            <4> QED
                BY <1>3, <3>2, <4>1, <4>2, <4>3 DEF c
        <3> QED
            BY <3>1, <3>2
    <2> QED
        BY <2>1 DEF RunsOK
<1> QED
    BY <1>7, <1>8, <1>9, <1>10, <1>11 DEF IngressInv

----------------------------------------------------------------------------
(* Requests come in                                                        *)

Entered(q, slug, status) ==
    [request |-> q, doc |-> doc, tenant_slug |-> slug, status |-> status, fault |-> FALSE]

LEMMA EnteredFields ==
    ASSUME IngressInv, NEW q \in Delivery \cup {Asked(id) : id \in RunIds},
           NEW slug \in {None} \cup Slugs, NEW status \in Status \cup {"open", "lost"}
    PROVE  LET e == Entered(q, slug, status)
           IN  /\ e \in LogEntry /\ e.request = q /\ e.doc = doc /\ e.tenant_slug = slug
               /\ e.status = status
<1>1. doc \in DOMAIN Docs
    BY DEF IngressInv, StateOK, Accepted
<1> DEFINE no == FALSE
<1>2. no \in BOOLEAN
    OBVIOUS
<1>3. Entered(q, slug, status) = [request |-> q, doc |-> doc, tenant_slug |-> slug, status |-> status, fault |-> no]
    BY Zenon DEF Entered
<1> HIDE DEF no
<1> QED
    BY <1>1, <1>2, <1>3 DEF LogEntry

\* What is delivered is a delivery.
LEMMA DeliveredType ==
    ASSUME IngressInv, NEW d \in Deliveries, NEW q \in Delivered(d)
    PROVE  /\ q \in Delivery /\ q.event # "retry" /\ Complete(q)
           /\ q.event = "check_run" => q.external_id \in {None} \cup RunIds
<1>1. d \in Delivery /\ d.event # "retry" /\ Complete(d)
    BY IngressAssumption
<1>2. issued \in 0..MaxRuns /\ MaxRuns \in Nat
    BY IngressAssumption DEF IngressInv, StateOK
<1>3. CASE q = d
    BY <1>1, <1>3 DEF Delivery, RunIds
<1>4. CASE q # d
    <2>1. PICK id \in {None} \cup 1..issued : q = [d EXCEPT !.external_id = id]
        BY <1>4 DEF Delivered
    <2>2. id \in {None} \cup 1..MaxRuns
        BY <1>2, <2>1
    <2>3. /\ q \in Delivery /\ q.event = d.event /\ q.ref = d.ref /\ q.sha = d.sha
          /\ q.repository = d.repository /\ q.repo = d.repo /\ q.base = d.base
        BY <1>1, <2>1, <2>2 DEF Delivery
    <2>4. Complete(q)
        BY <1>1, <2>3 DEF Complete
    <2> QED
        BY <1>1, <2>3, <2>4 DEF Delivery, RunIds
<1> QED
    BY <1>3, <1>4

LEMMA AnswerKeepsInv ==
    ASSUME IngressInv, NEW q \in Delivery, q.event # "retry", Complete(q), NEW status \in Status,
           Event(q) /\ status = "OK" /\ DistinctSecrets(doc) => Addressed(Entered(q, None, status)) = {},
           Len(log) < MaxRequests, Answer(q, status)
    PROVE  IngressInv'
<1> DEFINE e == Entered(q, None, status)
<1>1. /\ e \in LogEntry /\ e.request = q /\ e.doc = doc /\ e.tenant_slug = None /\ e.status = status
    BY EnteredFields
<1>2. log' = Append(log, e) /\ UNCHANGED <<doc, faults, issued, source, runs, handler>>
    BY DEF Answer, Register, Entered
<1>3. status # "open"
    BY DEF Status
<1>4. Event(q) /\ status = "OK" /\ DistinctSecrets(doc) => Addressed(e) = {}
    OBVIOUS
<1> HIDE DEF e
<1>5. Routed(e)
    BY <1>1, <1>3, <1>4 DEF Routed
<1> QED
    BY <1>1, <1>2, <1>5, AnswerStep

LEMMA SlugsAreNames == None \notin Slugs
<1> SUFFICES ASSUME NEW slug \in Slugs PROVE slug # None
    OBVIOUS
<1>1. PICK d \in DOMAIN Docs : \E t \in ToSet(Docs[d].tenants) : slug = t.slug
    BY DEF Slugs
<1>2. PICK t \in ToSet(Docs[d].tenants) : slug = t.slug
    BY <1>1
<1>3. Docs[d] \in Document
    BY IngressAssumption
<1>4. t \in TenantEntry
    BY <1>2, <1>3 DEF Document, ToSet
<1>5. slug \in STRING
    BY <1>2, <1>4 DEF TenantEntry
<1> QED
    BY <1>5, IngressAssumption

\* Starting states of a handler.
LEMMA AcceptKeepsInv ==
    ASSUME IngressInv, NEW h \in Handlers, handler[h] = Idle,
           NEW q \in Delivery \cup {Asked(id) : id \in RunIds}, NEW slug \in Slugs, NEW pc, NEW todo,
           Routed(Entered(q, slug, "open")),
           \/ pc = "match" /\ Event(q) /\ todo = << >>
           \/ pc = "originals" /\ q.event = "check_suite" /\ todo = << >>
           \/ /\ pc = "next" /\ q.event \in {"check_run", "retry"} /\ q.external_id \in RunIds
              /\ todo = <<q.external_id>>,
           Len(log) < MaxRequests, Accept(h, q, slug, pc, todo)
    PROVE  IngressInv'
<1> DEFINE e == Entered(q, slug, "open")
           s == [Idle EXCEPT !.pc = pc, !.cause = Len(log) + 1, !.todo = todo]
<1>1. e \in LogEntry /\ e.request = q /\ e.tenant_slug = slug /\ e.status = "open"
    BY EnteredFields
<1>2. /\ log' = Append(log, e) /\ UNCHANGED <<doc, faults, issued, source, runs>>
      /\ handler' = [handler EXCEPT ![h] = s]
    BY DEF Accept, Register, Entered
<1>3. todo \in Seq(RunIds) /\ Len(log) + 1 \in Nat /\ 0 \in 0..MaxRuns
    <2>1. << >> \in Seq(RunIds) /\ \A id \in RunIds : <<id>> \in Seq(RunIds)
        OBVIOUS
    <2>2. todo \in Seq(RunIds)
        BY <2>1
    <2> QED
        BY <2>2, IngressAssumption DEF IngressInv, StateOK
<1>4. pc \in {"match", "originals", "next"}
    OBVIOUS
<1>5. /\ s \in HandlerState /\ s.pc = pc /\ s.cause = Len(log) + 1 /\ s.todo = todo
      /\ s.run_context = None /\ s.run_id = 0
    BY <1>3, <1>4 DEF Idle, HandlerState
<1>6. slug # None
    BY SlugsAreNames
<1>7. Routed(e)
    OBVIOUS
<1> HIDE DEF e, s
<1>8. ASSUME LaunchedBy(s.cause, runs) = {} PROVE Working(s, e, runs, source, issued)
    <2>1. ASSUME pc = "next" PROVE ~Event(e.request) /\ RetryTodo(s, e.request, runs)
        <3>1. /\ q.event \in {"check_run", "retry"} /\ q.external_id \in RunIds /\ todo = <<q.external_id>>
            BY <2>1
        <3>2. Origins(s.cause, runs) = {}
            BY <1>8 DEF Origins
        <3> DEFINE x == q.external_id
        <3> HIDE DEF x
        <3>3. IsInjective(<<x>>) /\ ToSet(<<x>>) = {x}
            BY DEF IsInjective, ToSet
        <3>4. IsInjective(todo) /\ ToSet(todo) = {q.external_id}
            BY <3>1, <3>3 DEF x
        <3> QED
            BY <1>1, <1>3, <1>5, <1>8, <3>1, <3>2, <3>4 DEF RetryTodo, Event
    <2>2. s.pc # "next" => s.todo = << >>
        BY <1>5
    <2>3. s.pc = "match" => Event(e.request)
        BY <1>1, <1>5
    <2>4. s.pc = "originals" => e.request.event = "check_suite"
        BY <1>1, <1>5
    <2> QED
        BY <1>1, <1>4, <1>5, <1>6, <1>8, <2>1, <2>2, <2>3, <2>4 DEF Working
<1> QED
    BY <1>1, <1>2, <1>4, <1>5, <1>7, <1>8, AcceptStep

LEMMA SlugOfTenant ==
    ASSUME IngressInv, NEW q, NEW app, tenant_for(app, q) # NoTenant
    PROVE  tenant_for(app, q).slug \in Slugs
BY TenantFound DEF IngressInv, StateOK

\* A delivery for a tenant.
LEMMA HandlerTakesOn ==
    ASSUME IngressInv, NEW h \in Handlers, handler[h] = Idle, Len(log) < MaxRequests,
           NEW q \in Delivery, q.event # "retry", Complete(q),
           NEW app \in identify_signing_app(q.secret), tenant_for(app, q) # NoTenant,
           \/ handle_push(h, q, tenant_for(app, q)) /\ q.event = "push"
           \/ handle_pull_request(h, q, tenant_for(app, q)) /\ q.event = "pull_request"
           \/ handle_check_run(h, q, tenant_for(app, q)) /\ q.event = "check_run"
           \/ handle_check_suite(h, q, tenant_for(app, q)) /\ q.event = "check_suite"
    PROVE  IngressInv'
<1> DEFINE t == tenant_for(app, q)
           e == Entered(q, t.slug, "open")
<1>1. doc \in Accepted
    BY DEF IngressInv, StateOK
<1>2. t.slug \in Slugs /\ t.slug # None
    BY SlugOfTenant, SlugsAreNames
<1>3. e.request = q /\ e.doc = doc /\ e.tenant_slug = t.slug /\ e.status = "open"
    BY <1>2, EnteredFields
<1>4. ASSUME q.repository # None PROVE SentFor(e, t.slug)
    BY <1>1, <1>3, <1>4, SentForTenant
<1> HIDE DEF e, t
<1>5. ASSUME Answer(q, "OK"), ~Event(q) PROVE IngressInv'
    BY <1>5, AnswerKeepsInv DEF Status
<1>6. ASSUME NEW status \in {"INTERNAL_SERVER_ERROR", "NOT_IMPLEMENTED"}, Answer(q, status) PROVE IngressInv'
    BY <1>6, AnswerKeepsInv DEF Status
<1>7. CASE handle_push(h, q, t) /\ q.event = "push"
    <2>1. CASE q.repository = None
        BY <1>6, <1>7, <2>1 DEF handle_push
    <2>2. CASE q.repository # None
        <3>1. Accept(h, q, t.slug, "match", << >>)
            BY <1>7, <2>2 DEF handle_push
        <3>2. Routed(e)
            BY <1>2, <1>3, <1>4, <1>7, <2>2 DEF Routed
        <3> QED
            BY <1>2, <1>7, <3>1, <3>2, AcceptKeepsInv DEF e, Event
    <2> QED
        BY <2>1, <2>2
<1>8. CASE handle_pull_request(h, q, t) /\ q.event = "pull_request"
    <2>1. CASE q.action \notin {"opened", "synchronize"}
        BY <1>6, <1>8, <2>1 DEF handle_pull_request
    <2>2. CASE q.action \in {"opened", "synchronize"} /\ q.head = None
        BY <1>6, <1>8, <2>2 DEF handle_pull_request
    <2>3. CASE q.action \in {"opened", "synchronize"} /\ q.head # None
        <3>1. Accept(h, q, t.slug, "match", << >>)
            BY <1>8, <2>3 DEF handle_pull_request
        <3>2. q.repository # None
            BY <1>8 DEF Complete
        <3>3. Routed(e)
            BY <1>2, <1>3, <1>4, <1>8, <2>3, <3>2 DEF Routed
        <3> QED
            BY <1>2, <1>8, <3>1, <3>3, AcceptKeepsInv DEF e, Event
    <2> QED
        BY <2>1, <2>2, <2>3
<1>9. CASE handle_check_run(h, q, t) /\ q.event = "check_run"
    <2>1. CASE q.action # "rerequested" \/ q.external_id = None
        BY <1>5, <1>9, <2>1 DEF handle_check_run, Event
    <2>2. CASE ~(q.action # "rerequested" \/ q.external_id = None)
        <3>1. Accept(h, q, t.slug, "next", <<q.external_id>>)
            BY <1>9, <2>2 DEF handle_check_run
        <3>2. q.external_id \in RunIds
            BY <2>2 DEF Delivery, RunIds
        <3>3. Routed(e)
            BY <1>2, <1>3, <1>9, <3>2 DEF Routed, Event
        <3> QED
            BY <1>2, <1>9, <3>1, <3>2, <3>3, AcceptKeepsInv DEF e
    <2> QED
        BY <2>1, <2>2
<1>10. CASE handle_check_suite(h, q, t) /\ q.event = "check_suite"
    <2>1. CASE q.action # "rerequested"
        BY <1>5, <1>10, <2>1 DEF handle_check_suite, Event
    <2>2. CASE q.action = "rerequested" /\ q.repository = None
        BY <1>6, <1>10, <2>2 DEF handle_check_suite
    <2>3. CASE q.action = "rerequested" /\ q.repository # None /\ q.sha = None
        BY <1>5, <1>10, <2>3 DEF handle_check_suite, Event
    <2>4. CASE q.action = "rerequested" /\ q.repository # None /\ q.sha # None
        <3>1. Accept(h, q, t.slug, "originals", << >>)
            BY <1>10, <2>4 DEF handle_check_suite
        <3>2. Routed(e)
            BY <1>2, <1>3, <1>10, <2>4 DEF Routed, Event
        <3> QED
            BY <1>2, <1>10, <3>1, <3>2, AcceptKeepsInv DEF e
    <2> QED
        BY <2>1, <2>2, <2>3, <2>4
<1> QED
    BY <1>7, <1>8, <1>9, <1>10 DEF t

LEMMA WebhookKeepsInv ==
    ASSUME IngressInv, NEW h \in Handlers, handle_webhook(h)
    PROVE  IngressInv'
<1>1. handler[h] = Idle /\ Len(log) < MaxRequests /\ doc \in Accepted
    BY DEF handle_webhook, IngressInv, StateOK
<1>2. PICK d \in Deliveries : \E q \in Delivered(d) :
           \/ q.event = "installation" /\ Answer(q, "OK")
           \/ /\ q.event # "installation" /\ identify_signing_app(q.secret) = {}
              /\ Answer(q, "UNAUTHORIZED")
           \/ /\ q.event # "installation"
              /\ \E app \in identify_signing_app(q.secret) :
                     LET t == tenant_for(app, q)
                     IN  IF t = NoTenant THEN Answer(q, "OK")
                         ELSE CASE q.event = "push"         -> handle_push(h, q, t)
                                [] q.event = "pull_request" -> handle_pull_request(h, q, t)
                                [] q.event = "check_run"    -> handle_check_run(h, q, t)
                                [] q.event = "check_suite"  -> handle_check_suite(h, q, t)
                                [] OTHER                    -> Answer(q, "OK")
    BY DEF handle_webhook
<1>3. PICK q \in Delivered(d) :
           \/ q.event = "installation" /\ Answer(q, "OK")
           \/ /\ q.event # "installation" /\ identify_signing_app(q.secret) = {}
              /\ Answer(q, "UNAUTHORIZED")
           \/ /\ q.event # "installation"
              /\ \E app \in identify_signing_app(q.secret) :
                     LET t == tenant_for(app, q)
                     IN  IF t = NoTenant THEN Answer(q, "OK")
                         ELSE CASE q.event = "push"         -> handle_push(h, q, t)
                                [] q.event = "pull_request" -> handle_pull_request(h, q, t)
                                [] q.event = "check_run"    -> handle_check_run(h, q, t)
                                [] q.event = "check_suite"  -> handle_check_suite(h, q, t)
                                [] OTHER                    -> Answer(q, "OK")
    BY <1>2
<1>4. q \in Delivery /\ q.event # "retry" /\ Complete(q)
    BY DeliveredType
<1>5. ASSUME Answer(q, "OK"), ~Event(q) PROVE IngressInv'
    BY <1>1, <1>4, <1>5, AnswerKeepsInv DEF Status
<1>6. CASE q.event = "installation" /\ Answer(q, "OK")
    BY <1>5, <1>6 DEF Event
<1>7. CASE Answer(q, "UNAUTHORIZED")
    BY <1>1, <1>4, <1>7, AnswerKeepsInv DEF Status
<1>8. CASE \E app \in identify_signing_app(q.secret) :
               LET t == tenant_for(app, q)
               IN  IF t = NoTenant THEN Answer(q, "OK")
                   ELSE CASE q.event = "push"         -> handle_push(h, q, t)
                          [] q.event = "pull_request" -> handle_pull_request(h, q, t)
                          [] q.event = "check_run"    -> handle_check_run(h, q, t)
                          [] q.event = "check_suite"  -> handle_check_suite(h, q, t)
                          [] OTHER                    -> Answer(q, "OK")
    <2>1. PICK app \in identify_signing_app(q.secret) :
               LET t == tenant_for(app, q)
               IN  IF t = NoTenant THEN Answer(q, "OK")
                   ELSE CASE q.event = "push"         -> handle_push(h, q, t)
                          [] q.event = "pull_request" -> handle_pull_request(h, q, t)
                          [] q.event = "check_run"    -> handle_check_run(h, q, t)
                          [] q.event = "check_suite"  -> handle_check_suite(h, q, t)
                          [] OTHER                    -> Answer(q, "OK")
        BY <1>8
    <2> DEFINE t == tenant_for(app, q)
    <2>2. CASE t = NoTenant /\ ~Event(q)
        <3>1. Answer(q, "OK")
            BY <2>1, <2>2 DEF Event
        <3> QED
            BY <1>5, <2>2, <3>1
    <2>3. CASE t = NoTenant /\ Event(q)
        <3>1. Answer(q, "OK")
            BY <2>1, <2>3
        <3> DEFINE e == Entered(q, None, "OK")
        <3>2. e.request = q /\ e.doc = doc
            BY <1>4, EnteredFields DEF Status
        <3> HIDE DEF e
        <3>3. DistinctSecrets(doc) => Addressed(e) = {}
            BY <1>1, <2>3, <3>2, DroppedIsUnaddressed
        <3> QED
            BY <1>1, <1>4, <3>1, <3>3, AnswerKeepsInv DEF Status, e
    <2>4. CASE t # NoTenant /\ q.event \in {"push", "pull_request", "check_run", "check_suite"}
        <3>1. \/ handle_push(h, q, t) /\ q.event = "push"
              \/ handle_pull_request(h, q, t) /\ q.event = "pull_request"
              \/ handle_check_run(h, q, t) /\ q.event = "check_run"
              \/ handle_check_suite(h, q, t) /\ q.event = "check_suite"
            BY <2>1, <2>4
        <3> QED
            BY <1>1, <1>4, <2>4, <3>1, HandlerTakesOn
    <2>5. CASE t # NoTenant /\ q.event \notin {"push", "pull_request", "check_run", "check_suite"}
        <3>1. Answer(q, "OK") /\ ~Event(q)
            BY <2>1, <2>5 DEF Event
        <3> QED
            BY <1>5, <3>1
    <2> QED
        BY <2>2, <2>3, <2>4, <2>5
<1> QED
    BY <1>3, <1>6, <1>7, <1>8

LEMMA RetryRunKeepsInv ==
    ASSUME IngressInv, NEW h \in Handlers, retry_run(h)
    PROVE  IngressInv'
<1>1. handler[h] = Idle /\ Len(log) < MaxRequests
    BY DEF retry_run
<1>2. PICK slug \in Slugs : \E id \in 1..issued : Accept(h, Asked(id), slug, "next", <<id>>)
    BY DEF retry_run, Asked
<1>3. PICK id \in 1..issued : Accept(h, Asked(id), slug, "next", <<id>>)
    BY <1>2
<1>4. id \in RunIds
    BY IngressAssumption DEF IngressInv, StateOK, RunIds
<1> DEFINE q == Asked(id)
<1>5. q.event = "retry" /\ q.external_id = id
    BY DEF Asked, NoDelivery
<1>6. q \in {Asked(k) : k \in RunIds}
    BY <1>4
<1> HIDE DEF q
<1> DEFINE e == Entered(q, slug, "open")
<1>7. e.request = q /\ e.tenant_slug = slug
    BY <1>6, EnteredFields
<1>8. Routed(e)
    <2> HIDE DEF e
    <2> QED
        BY <1>4, <1>5, <1>7, SlugsAreNames DEF Routed, Complete, Event
<1>9. Accept(h, q, slug, "next", <<q.external_id>>)
    BY <1>3, <1>5 DEF q
<1> QED
    BY <1>1, <1>4, <1>5, <1>6, <1>8, <1>9, AcceptKeepsInv

----------------------------------------------------------------------------
(* Handlers at work                                                        *)

Marked(e, status, f) == [e EXCEPT !.status = status, !.fault = f]

LEMMA MarkedFields ==
    ASSUME NEW e \in LogEntry, NEW status \in Status \cup {"open", "lost"}, NEW f \in BOOLEAN
    PROVE  LET e2 == Marked(e, status, f)
           IN  /\ e2 \in LogEntry /\ SameRequest(e, e2) /\ e2.status = status /\ e2.fault = f
               /\ e2.request = e.request /\ e2.tenant_slug = e.tenant_slug
BY DEF Marked, LogEntry, SameRequest

LEMMA FaultCount ==
    ASSUME IngressInv, NEW fault \in BOOLEAN, Fault(fault)
    PROVE  faults' \in 0..MaxFaults
<1>1. faults \in 0..MaxFaults /\ MaxFaults \in Nat
    BY IngressAssumption DEF IngressInv, StateOK
<1>2. CASE fault
    BY <1>1, <1>2 DEF Fault
<1>3. CASE ~fault
    BY <1>1, <1>3 DEF Fault
<1> QED
    BY <1>2, <1>3

\* What is known of a handler at work and its entry.
LEMMA AtWork ==
    ASSUME IngressInv, NEW h \in Handlers, Busy(h)
    PROVE  LET s == handler[h]
               e == log[s.cause]
           IN  /\ s \in HandlerState /\ s.cause \in DOMAIN log /\ s.cause \in Nat
               /\ e \in LogEntry /\ Routed(e) /\ e.fault \in BOOLEAN
               /\ Working(s, e, runs, source, issued)
               /\ e.status = "open" /\ e.tenant_slug \in Slugs
               /\ log \in Seq(LogEntry) /\ handler \in [Handlers -> HandlerState]
               /\ runs \in [RunIds -> {None} \cup Run] /\ OneEach(runs)
               /\ issued \in Nat /\ issued \in 0..MaxRuns /\ MaxRuns \in Nat
               /\ faults \in 0..MaxFaults
               /\ DOMAIN source = RunIds /\ doc \in Accepted
<1> DEFINE s == handler[h]
           e == log[s.cause]
<1>1. s \in HandlerState /\ s.cause \in DOMAIN log /\ Working(s, e, runs, source, issued)
    BY HandlersType
<1>2. StateOK /\ LogOK /\ OneEach(runs)
    BY DEF IngressInv
<1>3. e \in LogEntry /\ Routed(e)
    BY <1>1, <1>2 DEF StateOK, LogOK
<1>4. e.status = "open" /\ e.tenant_slug # None
    BY <1>1 DEF Working
<1>5. e.tenant_slug \in Slugs /\ e.fault \in BOOLEAN
    <2> HIDE DEF e
    <2> QED
        BY <1>3, <1>4 DEF LogEntry
<1>6. MaxRuns \in Nat
    BY IngressAssumption
<1>7. s.cause \in Nat
    BY <1>1 DEF HandlerState
<1> QED
    BY <1>1, <1>2, <1>3, <1>4, <1>5, <1>6, <1>7 DEF StateOK

\* The handler is done.
LEMMA CloseEffect ==
    ASSUME IngressInv, NEW h \in Handlers, Busy(h), NEW status, NEW fault \in BOOLEAN,
           Close(h, status, fault)
    PROVE  /\ faults' \in 0..MaxFaults /\ handler' = [handler EXCEPT ![h] = Idle]
           /\ \E f \in BOOLEAN :
                  /\ fault => f
                  /\ log[handler[h].cause].fault => f
                  /\ log' = [log EXCEPT ![handler[h].cause] = Marked(log[handler[h].cause], status, f)]
<1> DEFINE c == handler[h].cause
           f == log[c].fault \/ fault
<1>1. c \in DOMAIN log /\ log \in Seq(LogEntry) /\ log[c] \in LogEntry
    BY AtWork
<1>2. log' = [log EXCEPT ![c].status = status, ![c].fault = @ \/ fault]
    BY DEF Close
<1>3. log' = [log EXCEPT ![c].status = status, ![c].fault = f]
    BY <1>1, <1>2 DEF LogEntry
<1>4. f \in BOOLEAN /\ (fault => f) /\ (log[c].fault => f)
    OBVIOUS
<1> HIDE DEF f
<1>5. log' = [log EXCEPT ![c] = Marked(log[c], status, f)]
    BY <1>1, <1>3 DEF Marked, LogEntry
<1>6. faults' \in 0..MaxFaults
    BY FaultCount DEF Close
<1>7. handler' = [handler EXCEPT ![h] = Idle]
    BY DEF Close
<1> QED
    BY <1>4, <1>5, <1>6, <1>7

LEMMA SameSourcesRefl == ASSUME NEW src, NEW n PROVE SameSources(src, src, n)
BY DEF SameSources

\* The handler ends its request and adds nothing.
LEMMA CloseKeepsInv ==
    ASSUME IngressInv, NEW h \in Handlers, Busy(h), NEW status \in Status, NEW fault \in BOOLEAN,
           Close(h, status, fault),
           doc' = doc, runs' = runs, source' = source,
           issued' \in 0..MaxRuns, issued <= issued',
           \A f \in BOOLEAN : (log[handler[h].cause].fault => f) =>
               Settled(handler[h].cause, Marked(log[handler[h].cause], status, f), runs)
    PROVE  IngressInv'
<1> DEFINE c == handler[h].cause
           e == log[c]
<1>1. PICK f \in BOOLEAN : /\ e.fault => f
                           /\ log' = [log EXCEPT ![c] = Marked(e, status, f)]
    BY CloseEffect
<1>2. faults' \in 0..MaxFaults /\ handler' = [handler EXCEPT ![h] = Idle]
    BY CloseEffect
<1>3. e \in LogEntry /\ DOMAIN source = RunIds /\ runs \in [RunIds -> {None} \cup Run] /\ OneEach(runs)
    BY AtWork
<1> DEFINE e2 == Marked(e, status, f)
<1>4. e2 \in LogEntry /\ SameRequest(e, e2)
    BY <1>3, MarkedFields
<1>5. Settled(c, e2, runs)
    BY <1>1
<1>6. Idle \in HandlerState /\ Idle.pc = "idle" /\ Idle.run_id = 0
    BY IdleFields
<1>7. SameSources(source, source', issued)
    BY SameSourcesRefl
<1> HIDE DEF e2
<1>8. log' = [log EXCEPT ![c] = e2]
    BY <1>1 DEF e2
<1> QED
    BY <1>2, <1>3, <1>4, <1>5, <1>6, <1>7, <1>8, WorkStep

LEMMA NotOKIsSettled ==
    ASSUME NEW i, NEW e \in LogEntry, NEW status \in (Status \ {"OK"}) \cup {"open"}, NEW f \in BOOLEAN, NEW rs
    PROVE  Settled(i, Marked(e, status, f), rs)
<1>1. Marked(e, status, f).status = status /\ status # "OK"
    BY MarkedFields
<1> QED
    BY <1>1 DEF Settled

\* On to the next launch.
Moved(s) == [s EXCEPT !.pc = "next", !.todo = Tail(s.todo), !.run_context = None, !.run_id = 0]

LEMMA ProceedEffect ==
    ASSUME IngressInv, NEW h \in Handlers, Busy(h), NEW status, NEW fault \in BOOLEAN,
           Proceed(h, status, fault), log[handler[h].cause].request.event # "retry"
    PROVE  /\ faults' \in 0..MaxFaults /\ handler' = [handler EXCEPT ![h] = Moved(handler[h])]
           /\ \E f \in BOOLEAN :
                  /\ fault => f
                  /\ log[handler[h].cause].fault => f
                  /\ f => fault \/ log[handler[h].cause].fault
                  /\ log' = [log EXCEPT ![handler[h].cause] = Marked(log[handler[h].cause], "open", f)]
<1> DEFINE c == handler[h].cause
           f == log[c].fault \/ fault
<1>1. /\ c \in DOMAIN log /\ log \in Seq(LogEntry) /\ log[c] \in LogEntry /\ log[c].status = "open"
      /\ handler \in [Handlers -> HandlerState] /\ handler[h] \in HandlerState
    BY AtWork
<1>2. /\ log' = [log EXCEPT ![c].fault = @ \/ fault] /\ Fault(fault)
      /\ handler' = [handler EXCEPT ![h].pc = "next", ![h].todo = Tail(@),
                                    ![h].run_context = None, ![h].run_id = 0]
    BY DEF Proceed, Request, Entry
<1>3. log' = [log EXCEPT ![c].fault = f]
    BY <1>1, <1>2 DEF LogEntry
<1>4. f \in BOOLEAN /\ (fault => f) /\ (log[c].fault => f) /\ (f => fault \/ log[c].fault)
    OBVIOUS
<1> HIDE DEF f
<1>5. log' = [log EXCEPT ![c] = Marked(log[c], "open", f)]
    BY <1>1, <1>3 DEF Marked, LogEntry
<1>6. faults' \in 0..MaxFaults
    BY <1>2, FaultCount
<1>7. handler' = [handler EXCEPT ![h] = Moved(handler[h])]
    BY <1>1, <1>2 DEF Moved, HandlerState
<1> QED
    BY <1>4, <1>5, <1>6, <1>7

LEMMA MovedFields ==
    ASSUME NEW s \in HandlerState, NEW S, s.todo \in Seq(S), s.todo # << >>, S = DOMAIN Definition \/ S = RunIds
    PROVE  /\ Moved(s) \in HandlerState /\ Moved(s).pc = "next" /\ Moved(s).cause = s.cause
           /\ Moved(s).todo = Tail(s.todo) /\ Moved(s).run_context = None /\ Moved(s).run_id = 0
<1> DEFINE t == Tail(s.todo)
<1>1. t \in Seq(DOMAIN Definition) \cup Seq(RunIds)
    OBVIOUS
<1>2. 0 \in 0..MaxRuns
    BY IngressAssumption
<1> HIDE DEF t
<1>3. Moved(s) = [s EXCEPT !.pc = "next", !.todo = t, !.run_context = None, !.run_id = 0]
    BY DEF Moved, t
<1> QED
    BY <1>1, <1>2, <1>3 DEF HandlerState, t

\* The list of a handler that is launching.
LEMMA TodoOf ==
    ASSUME NEW s, NEW e, NEW rs, NEW src, NEW n, Working(s, e, rs, src, n), s.pc \in {"next", "upload", "start"}
    PROVE  /\ IsInjective(s.todo)
           /\ Event(e.request) => EventTodo(s, e, rs) /\ s.todo \in Seq(DOMAIN Definition) /\ s.todo \in Seq(WellFormed)
           /\ ~Event(e.request) => RetryTodo(s, e.request, rs) /\ s.todo \in Seq(RunIds)
<1>1. CASE Event(e.request)
    <2>1. EventTodo(s, e, rs)
        BY <1>1 DEF Working
    <2>2. s.todo \in Seq(WellFormed) /\ IsInjective(s.todo)
        BY <2>1 DEF EventTodo
    <2>3. WellFormed \subseteq DOMAIN Definition
        BY DEF WellFormed
    <2>4. s.todo \in Seq(DOMAIN Definition)
        BY <2>2, <2>3
    <2> QED
        BY <1>1, <2>1, <2>2, <2>4
<1>2. CASE ~Event(e.request)
    BY <1>2 DEF Working, RetryTodo
<1> QED
    BY <1>1, <1>2

\* The launch at hand is given up: the rest of the list is still to do.
LEMMA MovedWorks ==
    ASSUME NEW s \in HandlerState, NEW e \in LogEntry, NEW rs, NEW src, NEW n, Working(s, e, rs, src, n),
           s.pc \in {"next", "upload", "start"}, s.todo # << >>, e.request.event # "retry",
           NEW f \in BOOLEAN, Event(e.request) => f, NEW n2
    PROVE  /\ Moved(s) \in HandlerState /\ Moved(s).pc = "next" /\ Moved(s).cause = s.cause
           /\ Moved(s).run_id = 0
           /\ Working(Moved(s), Marked(e, "open", f), rs, src, n2)
<1> DEFINE m == Moved(s)
           e2 == Marked(e, "open", f)
<1>1. /\ IsInjective(s.todo)
      /\ Event(e.request) => EventTodo(s, e, rs) /\ s.todo \in Seq(DOMAIN Definition) /\ s.todo \in Seq(WellFormed)
      /\ ~Event(e.request) => RetryTodo(s, e.request, rs) /\ s.todo \in Seq(RunIds)
    BY TodoOf
<1>2. /\ m \in HandlerState /\ m.pc = "next" /\ m.cause = s.cause
      /\ m.todo = Tail(s.todo) /\ m.run_context = None /\ m.run_id = 0
    BY <1>1, MovedFields
<1>3. e2.request = e.request /\ e2.status = "open" /\ e2.fault = f /\ e2.tenant_slug = e.tenant_slug
    BY MarkedFields
<1>4. e.tenant_slug # None
    BY DEF Working
<1> HIDE DEF m, e2
<1>5. CASE Event(e.request)
    <2>1. Tail(s.todo) \in Seq(WellFormed) /\ IsInjective(Tail(s.todo)) /\ ToSet(Tail(s.todo)) \subseteq ToSet(s.todo)
        BY <1>1, <1>5, TailOfDistinct
    <2>2. EventTodo(m, e2, rs)
        BY <1>1, <1>2, <1>3, <1>5, <2>1 DEF EventTodo
    <2> QED
        BY <1>2, <1>3, <1>4, <1>5, <2>2 DEF Working, m, e2
<1>6. CASE ~Event(e.request)
    <2>1. Tail(s.todo) \in Seq(RunIds) /\ IsInjective(Tail(s.todo)) /\ ToSet(Tail(s.todo)) \subseteq ToSet(s.todo)
        BY <1>1, <1>6, TailOfDistinct
    <2>2. RetryTodo(m, e.request, rs)
        BY <1>1, <1>2, <1>6, <2>1 DEF RetryTodo
    <2> QED
        BY <1>2, <1>3, <1>4, <1>6, <2>2 DEF Working, m, e2
<1> QED
    BY <1>5, <1>6

\* A launch fails: nothing was added to the runs.
LEMMA FailedLaunchKeepsInv ==
    ASSUME IngressInv, NEW h \in Handlers, handler[h].pc \in {"next", "upload", "start"}, handler[h].todo # << >>,
           NEW status \in Status \ {"OK"}, NEW fault \in BOOLEAN, Proceed(h, status, fault),
           Event(log[handler[h].cause].request) => fault,
           doc' = doc, runs' = runs, source' = source, issued' \in 0..MaxRuns, issued <= issued'
    PROVE  IngressInv'
<1> DEFINE s == handler[h]
           c == s.cause
           e == log[c]
<1>0. Busy(h)
    BY DEF Busy
<1>1. /\ s \in HandlerState /\ e \in LogEntry /\ Working(s, e, runs, source, issued)
      /\ DOMAIN source = RunIds /\ runs \in [RunIds -> {None} \cup Run] /\ OneEach(runs)
    BY <1>0, AtWork
<1>2. CASE e.request.event = "retry"
    <2>1. Close(h, status, fault)
        BY <1>2 DEF Proceed, Request, Entry
    <2>2. \A f \in BOOLEAN : Settled(c, Marked(e, status, f), runs)
        BY <1>1, NotOKIsSettled
    <2>3. status \in Status
        OBVIOUS
    <2> QED
        BY <1>0, <2>1, <2>2, <2>3, CloseKeepsInv
<1>3. CASE e.request.event # "retry"
    <2>1. PICK f \in BOOLEAN : /\ fault => f
                               /\ log' = [log EXCEPT ![c] = Marked(e, "open", f)]
        BY <1>0, <1>3, ProceedEffect
    <2>2. faults' \in 0..MaxFaults /\ handler' = [handler EXCEPT ![h] = Moved(s)]
        BY <1>0, <1>3, ProceedEffect
    <2>3. Event(e.request) => f
        BY <2>1
    <2> DEFINE m == Moved(s)
               e2 == Marked(e, "open", f)
    <2>4. /\ m \in HandlerState /\ m.pc = "next" /\ m.cause = c /\ m.run_id = 0
          /\ Working(m, e2, runs, source, issued')
        BY <1>1, <1>3, <2>3, MovedWorks
    <2>5. e2 \in LogEntry /\ SameRequest(e, e2)
        BY <1>1, MarkedFields
    <2>6. Settled(c, e2, runs)
        BY <1>1, NotOKIsSettled
    <2>7. SameSources(source, source', issued)
        BY SameSourcesRefl
    <2>8. handler' = [handler EXCEPT ![h] = m] /\ log' = [log EXCEPT ![c] = e2]
        BY <2>1, <2>2
    <2> HIDE DEF m, e2
    <2> QED
        BY <1>0, <1>1, <2>2, <2>4, <2>5, <2>6, <2>7, <2>8, WorkStep
<1> QED
    BY <1>2, <1>3

\* A handler goes on to state s, and nothing is added.
LEMMA TurnKeepsInv ==
    ASSUME IngressInv, NEW h \in Handlers, Busy(h), NEW s \in HandlerState,
           s.pc # "idle", s.cause = handler[h].cause, s.run_id = 0,
           handler' = [handler EXCEPT ![h] = s], NEW f \in BOOLEAN,
           log' = [log EXCEPT ![handler[h].cause] = Marked(log[handler[h].cause], "open", f)],
           faults' \in 0..MaxFaults, UNCHANGED <<doc, issued, source, runs>>,
           Working(s, Marked(log[handler[h].cause], "open", f), runs, source, issued)
    PROVE  IngressInv'
<1> DEFINE c == handler[h].cause
           e == log[c]
           e2 == Marked(e, "open", f)
<1>1. /\ e \in LogEntry /\ issued \in Nat /\ issued \in 0..MaxRuns
      /\ DOMAIN source = RunIds /\ runs \in [RunIds -> {None} \cup Run] /\ OneEach(runs)
    BY AtWork
<1>2. e2 \in LogEntry /\ SameRequest(e, e2)
    BY <1>1, MarkedFields
<1>3. Settled(c, e2, runs)
    BY <1>1, NotOKIsSettled
<1>4. SameSources(source, source', issued)
    BY SameSourcesRefl
<1>5. issued <= issued' /\ issued' \in 0..MaxRuns
    BY <1>1
<1>6. Working(s, e2, runs', source', issued') /\ log' = [log EXCEPT ![c] = e2]
    OBVIOUS
<1>7. OneEach(runs') /\ Settled(c, e2, runs') /\ runs' \in [RunIds -> {None} \cup Run] /\ DOMAIN source' = RunIds
      /\ \A id \in RunIds : runs'[id] = runs[id]
    BY <1>1, <1>3
<1> HIDE DEF e2
<1> QED
    BY <1>2, <1>4, <1>5, <1>6, <1>7, WorkStep

\* The entry of a busy handler is still open.
LEMMA StillOpen ==
    ASSUME IngressInv, NEW h \in Handlers, Busy(h)
    PROVE  LET c == handler[h].cause
           IN  log = [log EXCEPT ![c] = Marked(log[c], "open", log[c].fault)]
<1> DEFINE c == handler[h].cause
           e == log[c]
<1>1. c \in DOMAIN log /\ log \in Seq(LogEntry) /\ e \in LogEntry /\ e.status = "open"
    BY AtWork
<1>2. Marked(e, "open", e.fault) = e
    BY <1>1 DEF Marked, LogEntry
<1> QED
    BY <1>1, <1>2

LEMMA MarkedOpen ==
    ASSUME NEW e \in LogEntry, NEW f \in BOOLEAN
    PROVE  LET e2 == Marked(e, "open", f)
           IN  /\ e2.request = e.request /\ e2.tenant_slug = e.tenant_slug
               /\ e2.status = "open" /\ e2.fault = f
BY DEF Marked, LogEntry

\* A push or pull request in the log came from GitHub, complete.
LEMMA EventRequest ==
    ASSUME NEW e \in LogEntry, Routed(e), Event(e.request), e.tenant_slug # None
    PROVE  LET q == e.request
           IN  /\ q \in Delivery /\ q.event \in {"push", "pull_request"}
               /\ q.sha \in DOMAIN Directory /\ q.ref \in GitRef /\ q.repo \in Repos
               /\ q.event = "pull_request" => q.base \in RefNames /\ q.head \in Owners
               /\ q.event = "push" => q.repository \in OwnerInfo
<1> DEFINE q == e.request
<1>1. q \in Delivery
    <2>1. q \in Delivery \cup {Asked(id) : id \in RunIds}
        BY DEF LogEntry
    <2>2. \A id \in RunIds : Asked(id).event = "retry"
        BY DEF Asked, NoDelivery
    <2> QED
        BY <2>1, <2>2 DEF Event
<1>2. /\ q.event \in {"push", "pull_request"} /\ Complete(q)
      /\ q.event = "push" => q.repository # None
      /\ q.event = "pull_request" => q.head # None
    BY DEF Event, Routed
<1> HIDE DEF q
<1> QED
    BY <1>1, <1>2 DEF Delivery, Complete, q

LEMMA StartPipelinesKeepsInv ==
    ASSUME IngressInv, NEW h \in Handlers, start_pipelines(h)
    PROVE  IngressInv'
<1> DEFINE s == handler[h]
           c == s.cause
           e == log[c]
           q == e.request
<1>0. Busy(h) /\ s.pc = "match"
    BY DEF start_pipelines, Busy
<1>1. /\ s \in HandlerState /\ c \in DOMAIN log /\ e \in LogEntry /\ Routed(e)
      /\ Working(s, e, runs, source, issued) /\ e.status = "open" /\ e.tenant_slug \in Slugs
      /\ log \in Seq(LogEntry) /\ handler \in [Handlers -> HandlerState]
      /\ issued \in 0..MaxRuns /\ issued \in Nat
    BY <1>0, AtWork
<1>2. Event(q) /\ e.tenant_slug # None /\ s.run_id = 0 /\ s.run_context = None /\ LaunchedBy(c, runs) = {}
    BY <1>0, <1>1 DEF Working
<1>3. UNCHANGED <<doc, issued, source, runs>>
    BY DEF start_pipelines
<1>4. ASSUME NEW fault \in BOOLEAN, Close(h, "INTERNAL_SERVER_ERROR", fault)
      PROVE  IngressInv'
    <2>1. "INTERNAL_SERVER_ERROR" \in Status \ {"OK"}
        BY DEF Status
    <2>2. \A f \in BOOLEAN : Settled(c, Marked(e, "INTERNAL_SERVER_ERROR", f), runs)
        BY <1>1, <2>1, NotOKIsSettled
    <2>3. issued' \in 0..MaxRuns /\ issued <= issued'
        BY <1>1, <1>3
    <2> QED
        BY <1>0, <1>3, <1>4, <2>1, <2>2, <2>3, CloseKeepsInv
<1>5. ASSUME NEW unread \in SUBSET ToSet(find_matching_pipelines(q, {})),
             handler' = [handler EXCEPT ![h].pc = "next", ![h].todo = find_matching_pipelines(q, unread)],
             Fault(unread # {}), log' = [log EXCEPT ![c].fault = unread # {}]
      PROVE  IngressInv'
    <2> DEFINE todo == find_matching_pipelines(q, unread)
               s2 == [s EXCEPT !.pc = "next", !.todo = todo]
               f == unread # {}
               e2 == Marked(e, "open", f)
    <2>1. q.sha \in DOMAIN Directory /\ q.ref \in GitRef
        BY <1>1, <1>2, EventRequest
    <2>2. todo \in Seq(WellFormed) /\ IsInjective(todo) /\ ToSet(todo) = Wanted(q) \ unread
        BY <2>1, MatchingIsWanted
    <2>3. f \in BOOLEAN /\ (~f => unread = {}) /\ faults' \in 0..MaxFaults
        BY <1>5, FaultCount
    <2>4. todo \in Seq(DOMAIN Definition)
        <3>1. WellFormed \subseteq DOMAIN Definition
            BY DEF WellFormed
        <3> QED
            BY <2>2, <3>1
    <2>5. handler' = [handler EXCEPT ![h] = s2]
        BY <1>1, <1>5
    <2> HIDE DEF todo, f
    <2>6. log' = [log EXCEPT ![c].fault = f]
        BY <1>5 DEF f
    <2>7. log' = [log EXCEPT ![c] = e2]
        BY <1>1, <2>6 DEF Marked, LogEntry
    <2>8. /\ s2 \in HandlerState /\ s2.pc = "next" /\ s2.cause = c /\ s2.todo = todo
          /\ s2.run_context = None /\ s2.run_id = 0
        BY <1>1, <1>2, <2>4 DEF HandlerState
    <2>9. e2.request = q /\ e2.status = "open" /\ e2.fault = f /\ e2.tenant_slug = e.tenant_slug
        BY <1>1, <2>3, MarkedOpen
    <2> HIDE DEF s2
    <2>10. EventTodo(s2, e2, runs)
        <3>1. Yamls(c, runs) = {}
            BY <1>2 DEF Yamls
        <3>2. ~e2.fault => ToSet(todo) = Wanted(q)
            BY <2>2, <2>3, <2>9
        <3> HIDE DEF e2
        <3> QED
            BY <2>2, <2>8, <2>9, <3>1, <3>2 DEF EventTodo
    <2>11. Working(s2, e2, runs, source, issued)
        <3> HIDE DEF e2
        <3> QED
            BY <1>2, <2>8, <2>9, <2>10 DEF Working
    <2> QED
        BY <1>0, <1>3, <2>3, <2>5, <2>7, <2>8, <2>11, TurnKeepsInv
<1> QED
    BY <1>4, <1>5 DEF start_pipelines, Request, Entry

\* The runs of a check suite, put in order.
LEMMA OrderedIds ==
    ASSUME NEW ids \in SUBSET RunIds, NEW order \in SetToSeqs(ids)
    PROVE  order \in Seq(RunIds) /\ IsInjective(order) /\ ToSet(order) \subseteq ids
<1>1. order \in [1..Cardinality(ids) -> ids] /\ IsInjective(order)
    BY DEF SetToSeqs, IsInjective
<1>2. Cardinality(ids) \in Nat
    <2>1. IsFiniteSet(1..MaxRuns)
        BY IngressAssumption, FS_Interval
    <2>2. IsFiniteSet(ids)
        BY <2>1, FS_Subset DEF RunIds
    <2> QED
        BY <2>2, FS_CardinalityType
<1>3. order \in Seq(RunIds)
    BY <1>1, <1>2
<1>4. ToSet(order) \subseteq ids
    BY <1>1 DEF ToSet
<1> QED
    BY <1>1, <1>3, <1>4

LEMMA ListOriginatingRunsKeepsInv ==
    ASSUME IngressInv, NEW h \in Handlers, list_originating_runs(h)
    PROVE  IngressInv'
<1> DEFINE s == handler[h]
           c == s.cause
           e == log[c]
           q == e.request
           ids == list_originating_runs_for_sha(e.tenant_slug, q.repository.login, q.repo, q.sha)
<1>0. Busy(h) /\ s.pc = "originals"
    BY DEF list_originating_runs, Busy
<1>1. /\ s \in HandlerState /\ c \in DOMAIN log /\ e \in LogEntry /\ Routed(e) /\ e.fault \in BOOLEAN
      /\ Working(s, e, runs, source, issued) /\ e.status = "open" /\ e.tenant_slug \in Slugs
      /\ log \in Seq(LogEntry) /\ handler \in [Handlers -> HandlerState]
      /\ issued \in 0..MaxRuns /\ issued \in Nat /\ faults \in 0..MaxFaults
    BY <1>0, AtWork
<1>2. /\ q.event = "check_suite" /\ e.tenant_slug # None /\ s.run_id = 0 /\ s.run_context = None
      /\ LaunchedBy(c, runs) = {}
    BY <1>0, <1>1 DEF Working
<1>3. UNCHANGED <<doc, issued, source, runs>>
    BY DEF list_originating_runs
<1>4. ASSUME Close(h, "OK", TRUE) PROVE IngressInv'
    <2>1. "OK" \in Status
        BY DEF Status
    <2>2. ASSUME NEW f \in BOOLEAN PROVE Settled(c, Marked(e, "OK", f), runs)
        <3>1. Marked(e, "OK", f).request = q
            BY <1>1, <2>1, MarkedFields
        <3> QED
            BY <1>2, <3>1 DEF Settled, Event
    <2>3. issued' \in 0..MaxRuns /\ issued <= issued'
        BY <1>1, <1>3
    <2> QED
        BY <1>0, <1>3, <1>4, <2>1, <2>2, <2>3, CloseKeepsInv
<1>5. ASSUME NEW order \in SetToSeqs(ids),
             handler' = [handler EXCEPT ![h].pc = "next", ![h].todo = order], UNCHANGED <<faults, log>>
      PROVE  IngressInv'
    <2> DEFINE s2 == [s EXCEPT !.pc = "next", !.todo = order]
               e2 == Marked(e, "open", e.fault)
    <2>1. ids \subseteq RunIds /\ \A id \in ids : Kept(id, runs) /\ runs[id].run_context.retry_of = None
        BY DEF list_originating_runs_for_sha, Recorded, Kept
    <2> HIDE DEF ids
    <2>2. order \in Seq(RunIds) /\ IsInjective(order) /\ ToSet(order) \subseteq ids
        BY <1>5, <2>1, OrderedIds
    <2>3. handler' = [handler EXCEPT ![h] = s2]
        BY <1>1, <1>5
    <2>4. log' = [log EXCEPT ![c] = e2]
        BY <1>0, <1>5, StillOpen
    <2>5. /\ s2 \in HandlerState /\ s2.pc = "next" /\ s2.cause = c /\ s2.todo = order
          /\ s2.run_context = None /\ s2.run_id = 0
        BY <1>1, <1>2, <2>2 DEF HandlerState
    <2>6. e2.request = q /\ e2.status = "open" /\ e2.tenant_slug = e.tenant_slug
        BY <1>1, MarkedOpen
    <2> HIDE DEF s2, e2
    <2>7. RetryTodo(s2, q, runs)
        <3>1. Origins(c, runs) = {}
            BY <1>2 DEF Origins
        <3> QED
            BY <1>2, <2>1, <2>2, <2>5, <3>1 DEF RetryTodo
    <2>8. Working(s2, e2, runs, source, issued)
        BY <1>2, <2>5, <2>6, <2>7 DEF Working, Event
    <2>9. faults' \in 0..MaxFaults
        BY <1>1, <1>5
    <2> QED
        BY <1>0, <1>1, <1>3, <2>3, <2>4, <2>5, <2>8, <2>9, TurnKeepsInv DEF e2
<1> QED
    BY <1>4, <1>5 DEF list_originating_runs, Request, Entry

\* Nothing is left: what was launched is all there is.
LEMMA FinishKeepsInv ==
    ASSUME IngressInv, NEW h \in Handlers, Finish(h)
    PROVE  IngressInv'
<1> DEFINE s == handler[h]
           c == s.cause
           e == log[c]
           q == e.request
<1>0. Busy(h) /\ s.pc = "next" /\ s.todo = << >>
    BY DEF Finish, Busy
<1>1. /\ e \in LogEntry /\ Working(s, e, runs, source, issued) /\ e.fault \in BOOLEAN
      /\ issued \in 0..MaxRuns /\ issued \in Nat
    BY <1>0, AtWork
<1>2. UNCHANGED <<doc, issued, source, runs>> /\ Close(h, "OK", FALSE)
    BY DEF Finish
<1>3. "OK" \in Status
    BY DEF Status
<1>4. ASSUME NEW f \in BOOLEAN, e.fault => f
      PROVE  Settled(c, Marked(e, "OK", f), runs)
    <2> DEFINE e2 == Marked(e, "OK", f)
    <2>1. e2.request = q /\ e2.fault = f
        BY <1>1, <1>3, MarkedFields
    <2>2. ASSUME Event(q), ~f PROVE Yamls(c, runs) = Wanted(q)
        <3>1. EventTodo(s, e, runs)
            BY <1>0, <1>1, <2>2 DEF Working
        <3>2. ToSet(s.todo) = {}
            BY <1>0 DEF ToSet
        <3>3. ~e.fault
            BY <1>4, <2>2
        <3> QED
            BY <3>1, <3>2, <3>3 DEF EventTodo
    <2>3. q.event # "retry"
        <3>1. SUFFICES ASSUME q.event = "retry" PROVE FALSE
            OBVIOUS
        <3>2. RetryTodo(s, q, runs)
            BY <1>0, <1>1, <3>1 DEF Working, Event
        <3> QED
            BY <1>0, <3>1, <3>2 DEF RetryTodo
    <2> HIDE DEF e2
    <2>4. Event(e2.request) /\ ~e2.fault => Yamls(c, runs) = Wanted(e2.request)
        BY <2>1, <2>2
    <2> QED
        BY <2>1, <2>3, <2>4 DEF Settled, e2
<1>5. issued' \in 0..MaxRuns /\ issued <= issued'
    BY <1>1, <1>2
<1> QED
    BY <1>0, <1>2, <1>3, <1>4, <1>5, CloseKeepsInv

----------------------------------------------------------------------------
(* Launches                                                                *)

\* The context of a pipeline that a push or a pull request triggers.
LEMMA EventContext ==
    ASSUME NEW q, q \in Delivery, q.event \in {"push", "pull_request"},
           q.sha \in DOMAIN Directory, q.ref \in GitRef, q.repo \in Repos,
           q.event = "pull_request" => q.base \in RefNames /\ q.head \in Owners,
           q.event = "push" => q.repository \in OwnerInfo,
           NEW yaml \in DOMAIN Definition, NEW slug \in Slugs
    PROVE  [owner |-> Owner(q), repo |-> q.repo, sha |-> q.sha, yaml |-> yaml,
            ref |-> IF q.event = "push" THEN parse_push_ref(q.ref)
                    ELSE [branch |-> q.ref[2], tag |-> None, target_branch |-> q.base],
            retry_of |-> None, tenant_slug |-> slug] \in RunContext
<1> DEFINE R == [branch : RefNames \cup {None}, tag : RefNames \cup {None}, target_branch : RefNames \cup {None}]
           ref == IF q.event = "push" THEN parse_push_ref(q.ref)
                  ELSE [branch |-> q.ref[2], tag |-> None, target_branch |-> q.base]
           o == Owner(q)
           sha == q.sha
           repo == q.repo
<1>1. q.ref[2] \in RefNames
    BY DEF GitRef
<1>2. ref \in R
    <2>1. CASE q.event = "push"
        <3>1. parse_push_ref(q.ref) \in R
            BY <1>1 DEF parse_push_ref
        <3> QED
            BY <2>1, <3>1
    <2>2. CASE q.event # "push"
        BY <1>1, <2>2
    <2> QED
        BY <2>1, <2>2
<1>3. o \in Owners
    BY DEF Owner, OwnerInfo
<1>4. sha \in DOMAIN Directory /\ repo \in Repos
    OBVIOUS
<1> HIDE DEF ref, o, sha, repo
<1>5. [owner |-> o, repo |-> repo, sha |-> sha, yaml |-> yaml, ref |-> ref, retry_of |-> None, tenant_slug |-> slug] \in RunContext
    BY <1>2, <1>3, <1>4 DEF RunContext, R
<1> QED
    BY <1>5 DEF ref, o, sha, repo

LEMMA BuildRunContextKeepsInv ==
    ASSUME IngressInv, NEW h \in Handlers, build_run_context(h)
    PROVE  IngressInv'
<1> DEFINE s == handler[h]
           c == s.cause
           e == log[c]
           q == e.request
           ctx == [owner |-> Owner(q), repo |-> q.repo, sha |-> q.sha, yaml |-> Head(s.todo),
                   ref |-> IF q.event = "push" THEN parse_push_ref(q.ref)
                           ELSE [branch |-> q.ref[2], tag |-> None, target_branch |-> q.base],
                   retry_of |-> None, tenant_slug |-> e.tenant_slug]
           s2 == [s EXCEPT !.pc = "upload", !.run_context = ctx]
           e2 == Marked(e, "open", e.fault)
<1>0. Busy(h) /\ s.pc = "next" /\ s.todo # << >> /\ q.event \notin {"check_run", "check_suite", "retry"}
    BY DEF build_run_context, Busy, IsRetry, Request, Entry
<1>1. /\ s \in HandlerState /\ c \in DOMAIN log /\ e \in LogEntry /\ Routed(e) /\ e.fault \in BOOLEAN
      /\ Working(s, e, runs, source, issued) /\ e.status = "open" /\ e.tenant_slug \in Slugs
      /\ handler \in [Handlers -> HandlerState] /\ faults \in 0..MaxFaults
    BY <1>0, AtWork
<1>2. e.tenant_slug # None /\ s.run_id = 0
    BY <1>0, <1>1 DEF Working
<1>3. Event(q)
    BY <1>0, <1>1, <1>2 DEF Routed, Event
<1>4. EventTodo(s, e, runs) /\ s.todo \in Seq(DOMAIN Definition) /\ s.todo \in Seq(WellFormed)
    BY <1>0, <1>1, <1>3, TodoOf
<1>5. Head(s.todo) \in WellFormed /\ Head(s.todo) \in DOMAIN Definition
    BY <1>0, <1>4, HeadOfTodo
<1>6. ctx \in RunContext
    <2>1. /\ q \in Delivery /\ q.event \in {"push", "pull_request"}
          /\ q.sha \in DOMAIN Directory /\ q.ref \in GitRef /\ q.repo \in Repos
          /\ q.event = "pull_request" => q.base \in RefNames /\ q.head \in Owners
          /\ q.event = "push" => q.repository \in OwnerInfo
        BY <1>1, <1>2, <1>3, EventRequest
    <2> HIDE DEF q
    <2> QED
        BY <1>1, <1>5, <2>1, EventContext
<1>7. ctx.yaml = Head(s.todo) /\ ctx.retry_of = None /\ ctx.tenant_slug = e.tenant_slug
    OBVIOUS
<1>8. handler' = [handler EXCEPT ![h] = s2]
    <2>1. handler' = [handler EXCEPT ![h].pc = "upload", ![h].run_context = ctx]
        BY DEF build_run_context, Request, Entry
    <2> HIDE DEF ctx
    <2> QED
        BY <1>1, <2>1
<1> HIDE DEF ctx
<1>9. /\ s2 \in HandlerState /\ s2.pc = "upload" /\ s2.cause = c /\ s2.todo = s.todo
      /\ s2.run_context = ctx /\ s2.run_id = 0
    BY <1>1, <1>2, <1>6 DEF HandlerState
<1>10. e2.request = q /\ e2.status = "open" /\ e2.tenant_slug = e.tenant_slug /\ e2.fault = e.fault
    BY <1>1, MarkedOpen
<1> HIDE DEF s2, e2
<1>11. EventTodo(s2, e2, runs)
    BY <1>4, <1>9, <1>10 DEF EventTodo
<1>12. Chosen(s2, e2, runs)
    BY <1>0, <1>3, <1>5, <1>6, <1>7, <1>9, <1>10 DEF Chosen
<1>13. Working(s2, e2, runs, source, issued)
    BY <1>2, <1>3, <1>9, <1>10, <1>11, <1>12 DEF Working
<1>14. UNCHANGED <<doc, issued, source, runs>> /\ log' = [log EXCEPT ![c] = e2] /\ faults' \in 0..MaxFaults
    BY <1>0, <1>1, StillOpen DEF build_run_context, e2
<1> QED
    BY <1>0, <1>1, <1>8, <1>9, <1>13, <1>14, TurnKeepsInv DEF e2

\* The context of a retry of run id.
LEMMA RetryContext ==
    ASSUME NEW r \in Run, NEW id \in RunIds
    PROVE  LET ctx == [r.run_context EXCEPT !.retry_of = id]
           IN  /\ ctx \in RunContext /\ ctx.retry_of = id /\ ctx.yaml = r.run_context.yaml
               /\ ctx.tenant_slug = r.run_context.tenant_slug /\ ctx.sha = r.run_context.sha
               /\ First(ctx) = First(r.run_context)
<1> DEFINE o == r.run_context
<1>1. o \in RunContext
    BY DEF Run
<1> HIDE DEF o
<1>2. [o EXCEPT !.retry_of = id] \in RunContext
    BY <1>1 DEF RunContext
<1>3. First([o EXCEPT !.retry_of = id]) = First(o)
    BY <1>1 DEF RunContext, First
<1> QED
    BY <1>1, <1>2, <1>3 DEF RunContext, o

LEMMA RetryPipelineRunKeepsInv ==
    ASSUME IngressInv, NEW h \in Handlers, retry_pipeline_run(h)
    PROVE  IngressInv'
<1> DEFINE s == handler[h]
           c == s.cause
           e == log[c]
           q == e.request
           id == Head(s.todo)
           ctx == [runs[id].run_context EXCEPT !.retry_of = id]
           s2 == [s EXCEPT !.pc = "upload", !.run_context = ctx]
           e2 == Marked(e, "open", e.fault)
<1>0. Busy(h) /\ s.pc = "next" /\ s.todo # << >> /\ q.event \in {"check_run", "check_suite", "retry"}
    BY DEF retry_pipeline_run, Busy, IsRetry, Request, Entry
<1>1. /\ s \in HandlerState /\ c \in DOMAIN log /\ e \in LogEntry /\ Routed(e) /\ e.fault \in BOOLEAN
      /\ Working(s, e, runs, source, issued) /\ e.status = "open" /\ e.tenant_slug \in Slugs
      /\ handler \in [Handlers -> HandlerState] /\ faults \in 0..MaxFaults
      /\ runs \in [RunIds -> {None} \cup Run] /\ issued \in 0..MaxRuns /\ issued \in Nat
    BY <1>0, AtWork
<1>2. e.tenant_slug # None /\ s.run_id = 0 /\ ~Event(q)
    BY <1>0, <1>1 DEF Working, Event
<1>3. RetryTodo(s, q, runs) /\ s.todo \in Seq(RunIds)
    BY <1>0, <1>1, <1>2, TodoOf
<1>4. id \in RunIds
    BY <1>0, <1>3, HeadOfTodo
<1>5. UNCHANGED <<doc, issued, source, runs>> /\ issued' \in 0..MaxRuns /\ issued <= issued'
    BY <1>1 DEF retry_pipeline_run
<1>6. ASSUME NEW status \in Status \ {"OK"}, NEW fault \in BOOLEAN, Proceed(h, status, fault)
      PROVE  IngressInv'
    BY <1>0, <1>2, <1>5, <1>6, FailedLaunchKeepsInv
<1>7. "INTERNAL_SERVER_ERROR" \in Status \ {"OK"} /\ "NOT_FOUND" \in Status \ {"OK"}
    BY DEF Status
<1>8. ASSUME Belongs(id, e.tenant_slug), Retriable(runs[id].run_context),
             handler' = [handler EXCEPT ![h].pc = "upload", ![h].run_context = ctx], UNCHANGED <<faults, log>>
      PROVE  IngressInv'
    <2>1. /\ Kept(id, runs) /\ runs[id] \in Run /\ runs[id].run_context.yaml \in WellFormed
          /\ runs[id].run_context.tenant_slug = e.tenant_slug
        BY <1>1, <1>4, <1>8 DEF Belongs, Recorded, Retriable, Kept
    <2>2. /\ ctx \in RunContext /\ ctx.yaml = runs[id].run_context.yaml
          /\ ctx.tenant_slug = runs[id].run_context.tenant_slug
        BY <1>4, <2>1, RetryContext
    <2>3. ctx = [runs[Head(s.todo)].run_context EXCEPT !.retry_of = Head(s.todo)]
        OBVIOUS
    <2> HIDE DEF ctx
    <2>4. handler' = [handler EXCEPT ![h] = s2]
        BY <1>1, <1>8
    <2>5. /\ s2 \in HandlerState /\ s2.pc = "upload" /\ s2.cause = c /\ s2.todo = s.todo
          /\ s2.run_context = ctx /\ s2.run_id = 0
        BY <1>1, <1>2, <2>2 DEF HandlerState
    <2>6. e2.request = q /\ e2.status = "open" /\ e2.tenant_slug = e.tenant_slug
        BY <1>1, MarkedOpen
    <2> HIDE DEF s2, e2
    <2>7. RetryTodo(s2, q, runs)
        BY <1>3, <2>5 DEF RetryTodo
    <2>8. Chosen(s2, e2, runs)
        BY <1>0, <1>2, <2>1, <2>2, <2>3, <2>5, <2>6 DEF Chosen
    <2>9. Working(s2, e2, runs, source, issued)
        BY <1>2, <2>5, <2>6, <2>7, <2>8 DEF Working
    <2>10. log' = [log EXCEPT ![c] = e2] /\ faults' \in 0..MaxFaults
        BY <1>0, <1>1, <1>8, StillOpen DEF e2
    <2> QED
        BY <1>0, <1>1, <1>5, <2>4, <2>5, <2>9, <2>10, TurnKeepsInv DEF e2
<1> QED
    BY <1>6, <1>7, <1>8 DEF retry_pipeline_run, Entry

\* A run id that was not given out has no run.
LEMMA FreshId ==
    ASSUME IngressInv, NEW id \in RunIds, runs[id] # None
    PROVE  id <= issued
BY DEF IngressInv, RunsOK, Justified

LEMMA UploadSourceKeepsInv ==
    ASSUME IngressInv, NEW h \in Handlers, upload_source(h)
    PROVE  IngressInv'
<1> DEFINE s == handler[h]
           c == s.cause
           e == log[c]
           q == e.request
           ctx == s.run_context
           new == issued + 1
           s2 == [s EXCEPT !.pc = "start", !.run_id = new]
<1>0. Busy(h) /\ s.pc = "upload" /\ issued < MaxRuns
    BY DEF upload_source, Busy
<1>1. /\ s \in HandlerState /\ c \in DOMAIN log /\ e \in LogEntry /\ Routed(e) /\ e.fault \in BOOLEAN
      /\ Working(s, e, runs, source, issued) /\ e.status = "open" /\ e.tenant_slug \in Slugs
      /\ handler \in [Handlers -> HandlerState] /\ faults \in 0..MaxFaults /\ OneEach(runs)
      /\ runs \in [RunIds -> {None} \cup Run] /\ issued \in 0..MaxRuns /\ issued \in Nat /\ MaxRuns \in Nat
      /\ DOMAIN source = RunIds
    BY <1>0, AtWork
<1>2. e.tenant_slug # None /\ Chosen(s, e, runs) /\ s.todo # << >> /\ ctx \in RunContext
    BY <1>0, <1>1 DEF Working, Chosen
<1>3. doc' = doc /\ runs' = runs /\ issued' = new
    BY DEF upload_source
<1>4. new \in RunIds /\ new \in 0..MaxRuns /\ issued <= new /\ new > issued
    BY <1>0, <1>1 DEF RunIds
<1>5. ASSUME Proceed(h, "INTERNAL_SERVER_ERROR", TRUE), source' = source PROVE IngressInv'
    <2>1. "INTERNAL_SERVER_ERROR" \in Status \ {"OK"}
        BY DEF Status
    <2> QED
        BY <1>0, <1>2, <1>3, <1>4, <1>5, <2>1, FailedLaunchKeepsInv
<1>6. ASSUME handler' = [handler EXCEPT ![h].pc = "start", ![h].run_id = new],
             source' = IF ctx.yaml \in needs_source
                       THEN [source EXCEPT ![new] = upload_parts(Frames[ctx.sha])] ELSE source,
             UNCHANGED <<faults, log>>
      PROVE  IngressInv'
    <2> DEFINE e2 == Marked(e, "open", e.fault)
    <2>1. DOMAIN source' = RunIds /\ SameSources(source, source', issued)
        <3> HIDE DEF ctx
        <3>1. \A id \in RunIds : id <= issued => id # new
            BY <1>1, <1>4 DEF RunIds
        <3> QED
            BY <1>1, <1>4, <1>6, <3>1 DEF SameSources
    <2>2. Supplied(ctx, new, source')
        <3>1. ctx.sha \in DOMAIN Directory
            BY <1>2 DEF RunContext
        <3>2. Frames[ctx.sha] \in Seq(Nat)
            BY <3>1, IngressAssumption
        <3>3. Whole(Frames[ctx.sha], upload_parts(Frames[ctx.sha]))
            BY <3>2, UploadIsWhole
        <3>4. ctx.yaml \in needs_source => source'[new] = upload_parts(Frames[ctx.sha])
            <4> HIDE DEF ctx
            <4> QED
                BY <1>1, <1>4, <1>6
        <3> QED
            BY <3>3, <3>4 DEF Supplied
    <2>3. runs[new] = None
        BY <1>1, <1>4, FreshId
    <2>4. ~Event(q) => Head(s.todo) < new
        <3> SUFFICES ASSUME ~Event(q) PROVE Head(s.todo) < new
            OBVIOUS
        <3>1. Kept(Head(s.todo), runs) /\ s.todo \in Seq(RunIds)
            BY <1>0, <1>1, <1>2, TodoOf DEF Chosen
        <3>2. Head(s.todo) \in RunIds
            BY <1>2, <3>1, HeadOfTodo
        <3>3. Head(s.todo) <= issued
            BY <3>1, <3>2, FreshId DEF Kept
        <3> QED
            BY <1>1, <3>2, <3>3 DEF RunIds
    <2>5. handler' = [handler EXCEPT ![h] = s2]
        BY <1>1, <1>6
    <2>6. /\ s2 \in HandlerState /\ s2.pc = "start" /\ s2.cause = c /\ s2.todo = s.todo
          /\ s2.run_context = ctx /\ s2.run_id = new
        BY <1>1, <1>4 DEF HandlerState
    <2>7. e2.request = q /\ e2.status = "open" /\ e2.tenant_slug = e.tenant_slug /\ e2.fault = e.fault
        BY <1>1, MarkedOpen
    <2>8. e2 \in LogEntry /\ SameRequest(e, e2)
        BY <1>1, MarkedFields
    <2>9. Settled(c, e2, runs)
        BY <1>1, NotOKIsSettled
    <2>10. log' = [log EXCEPT ![c] = e2] /\ faults' \in 0..MaxFaults
        BY <1>0, <1>1, <1>6, StillOpen
    <2> HIDE DEF s2, e2
    <2>11. IF Event(q) THEN EventTodo(s2, e2, runs) ELSE RetryTodo(s2, q, runs)
        <3>1. IF Event(q) THEN EventTodo(s, e, runs) ELSE RetryTodo(s, q, runs)
            BY <1>0, <1>1 DEF Working
        <3> QED
            BY <2>6, <2>7, <3>1 DEF EventTodo, RetryTodo
    <2>12. Chosen(s2, e2, runs)
        BY <1>2, <2>6, <2>7 DEF Chosen
    <2>13. new \in 1..new
        BY <1>1
    <2> HIDE DEF new
    <2>14. Working(s2, e2, runs, source', new)
        BY <1>2, <2>2, <2>3, <2>4, <2>6, <2>7, <2>11, <2>12, <2>13 DEF Working
    <2> QED
        BY <1>0, <1>1, <1>3, <1>4, <2>1, <2>5, <2>6, <2>8, <2>9, <2>10, <2>14, WorkStep
<1> QED
    BY <1>5, <1>6 DEF upload_source

\* What a new run adds.
LEMMA RunAdded ==
    ASSUME NEW id \in RunIds, NEW rs2, rs2[id] # None,
           \A j \in RunIds : j # id => rs2[j] = runs[j], runs[id] = None
    PROVE  LET c == rs2[id].cause
           IN  /\ LaunchedBy(c, rs2) = LaunchedBy(c, runs) \cup {id}
               /\ Yamls(c, rs2) = Yamls(c, runs) \cup {rs2[id].run_context.yaml}
               /\ Origins(c, rs2) = Origins(c, runs) \cup {rs2[id].run_context.retry_of}
<1> DEFINE c == rs2[id].cause
<1>1. LaunchedBy(c, rs2) = LaunchedBy(c, runs) \cup {id}
    BY DEF LaunchedBy
<1>2. \A j \in LaunchedBy(c, runs) : rs2[j] = runs[j]
    BY DEF LaunchedBy
<1>3. Yamls(c, rs2) = Yamls(c, runs) \cup {rs2[id].run_context.yaml}
    BY <1>1, <1>2 DEF Yamls
<1>4. Origins(c, rs2) = Origins(c, runs) \cup {rs2[id].run_context.retry_of}
    BY <1>1, <1>2 DEF Origins
<1> QED
    BY <1>1, <1>3, <1>4

\* Two runs that differ in what they run or retry.
Differ(r1, r2) ==
    \/ r1.run_context.retry_of # r2.run_context.retry_of
    \/ /\ r1.run_context.retry_of = None
       /\ r1.run_context.yaml # r2.run_context.yaml

\* A run that differs from the others of its request.
LEMMA OneEachMore ==
    ASSUME OneEach(runs), NEW id \in RunIds, NEW rs2,
           \A j \in RunIds : j # id => rs2[j] = runs[j],
           \A j \in RunIds : j # id /\ runs[j] # None /\ runs[j].cause = rs2[id].cause => Differ(runs[j], rs2[id])
    PROVE  OneEach(rs2)
<1>1. SUFFICES ASSUME NEW i \in RunIds, NEW j \in RunIds,
                      i # j, rs2[i] # None, rs2[j] # None, rs2[i].cause = rs2[j].cause
               PROVE  Differ(rs2[i], rs2[j])
    BY DEF OneEach, Differ
<1>2. CASE i # id /\ j # id
    BY <1>1, <1>2 DEF OneEach, Differ
<1>3. CASE i = id
    <2>1. Differ(runs[j], rs2[i]) /\ rs2[j] = runs[j]
        BY <1>1, <1>3
    <2> QED
        BY <2>1 DEF Differ
<1>4. CASE j = id
    BY <1>1, <1>4
<1> QED
    BY <1>2, <1>3, <1>4

\* The run a handler at "start" launches is justified and the only one of its kind.
LEMMA NewRun ==
    ASSUME IngressInv, NEW h \in Handlers, handler[h].pc = "start", NEW r \in Run,
           r.run_context = handler[h].run_context, r.cause = handler[h].cause,
           NEW rs2, rs2 = [runs EXCEPT ![handler[h].run_id] = r]
    PROVE  LET s == handler[h]
               e == log[s.cause]
               id == s.run_id
           IN  /\ id \in RunIds /\ runs[id] = None /\ s.todo # << >>
               /\ r.run_context.yaml \in WellFormed
               /\ Event(e.request) => r.run_context.yaml = Head(s.todo)
               /\ ~Event(e.request) => r.run_context.retry_of = Head(s.todo)
               /\ Justified(id, r, e.request, e.tenant_slug, rs2, source, issued)
               /\ OneEach(rs2)
<1> DEFINE s == handler[h]
           c == s.cause
           e == log[c]
           q == e.request
           id == s.run_id
           ctx == s.run_context
<1>0. Busy(h)
    BY DEF Busy
<1>1. /\ s \in HandlerState /\ Working(s, e, runs, source, issued)
      /\ runs \in [RunIds -> {None} \cup Run] /\ issued \in 0..MaxRuns /\ issued \in Nat /\ MaxRuns \in Nat
      /\ OneEach(runs)
    BY <1>0, AtWork
<1>2. /\ id \in 1..issued /\ runs[id] = None /\ Supplied(ctx, id, source)
      /\ ~Event(q) => Head(s.todo) < id
      /\ Chosen(s, e, runs) /\ s.todo # << >> /\ ctx \in RunContext /\ ctx.yaml \in WellFormed
      /\ ctx.tenant_slug = e.tenant_slug
    BY <1>1 DEF Working, Chosen
<1>3. id \in RunIds /\ id <= issued
    BY <1>1, <1>2 DEF RunIds
<1>4. /\ Event(q) => /\ EventTodo(s, e, runs) /\ s.todo \in Seq(WellFormed)
                     /\ ctx.retry_of = None /\ ctx.yaml = Head(s.todo) /\ Head(s.todo) \in ToSet(s.todo)
      /\ ~Event(q) => /\ RetryTodo(s, q, runs) /\ s.todo \in Seq(RunIds)
                      /\ Head(s.todo) \in RunIds /\ Head(s.todo) \in ToSet(s.todo)
                      /\ Kept(Head(s.todo), runs)
                      /\ ctx = [runs[Head(s.todo)].run_context EXCEPT !.retry_of = Head(s.todo)]
    <2>1. /\ Event(q) => EventTodo(s, e, runs) /\ s.todo \in Seq(WellFormed)
          /\ ~Event(q) => RetryTodo(s, q, runs) /\ s.todo \in Seq(RunIds)
        BY <1>1, TodoOf
    <2>2. /\ Event(q) => Head(s.todo) \in ToSet(s.todo)
          /\ ~Event(q) => Head(s.todo) \in RunIds /\ Head(s.todo) \in ToSet(s.todo)
        BY <1>2, <2>1, HeadOfTodo
    <2> QED
        BY <1>2, <2>1, <2>2 DEF Chosen
<1>5. /\ rs2[id] = r /\ \A j \in RunIds : j # id => rs2[j] = runs[j]
    BY <1>1, <1>3
<1>6. ASSUME ~Event(q)
      PROVE  ctx.retry_of = Head(s.todo) /\ Retries(id, ctx, q, rs2)
    <2> DEFINE o == Head(s.todo)
    <2>1. runs[o] \in Run /\ o # id /\ rs2[o] = runs[o] /\ Kept(o, rs2)
        BY <1>1, <1>2, <1>4, <1>5, <1>6 DEF Kept
    <2>2. ctx.retry_of = o /\ First(ctx) = First(runs[o].run_context)
        <3> DEFINE x == [runs[o].run_context EXCEPT !.retry_of = o]
        <3>1. x.retry_of = o /\ First(x) = First(runs[o].run_context)
            BY <1>4, <1>6, <2>1, RetryContext
        <3>2. ctx = x
            BY <1>4, <1>6
        <3> HIDE DEF x, ctx
        <3> QED
            BY <3>1, <3>2
    <2>3. /\ q.event = "check_suite" => runs[o].run_context.retry_of = None
          /\ q.event # "check_suite" => o = q.external_id
        BY <1>4, <1>6 DEF RetryTodo
    <2> HIDE DEF ctx
    <2> QED
        BY <1>2, <1>4, <1>6, <2>1, <2>2, <2>3 DEF Retries, ctx
<1>7. Justified(id, r, q, e.tenant_slug, rs2, source, issued)
    BY <1>2, <1>3, <1>4, <1>6 DEF Justified
<1>8. OneEach(rs2)
    <2>1. ASSUME NEW j \in RunIds, j # id, runs[j] # None, runs[j].cause = c
          PROVE  \/ runs[j].run_context.retry_of # ctx.retry_of
                 \/ /\ runs[j].run_context.retry_of = None /\ ctx.retry_of = None
                    /\ runs[j].run_context.yaml # ctx.yaml
        <3>1. j \in LaunchedBy(c, runs)
            BY <2>1 DEF LaunchedBy
        <3>2. CASE Event(q)
            <4>1. Justified(j, runs[j], q, e.tenant_slug, runs, source, issued)
                BY <2>1 DEF IngressInv, RunsOK
            <4>2. runs[j].run_context.retry_of = None
                BY <3>2, <4>1 DEF Justified
            <4>3. runs[j].run_context.yaml \in Yamls(c, runs)
                BY <3>1 DEF Yamls
            <4>4. Yamls(c, runs) \cap ToSet(s.todo) = {}
                BY <1>4, <3>2 DEF EventTodo
            <4> QED
                BY <1>4, <3>2, <4>2, <4>3, <4>4
        <3>3. CASE ~Event(q)
            <4>1. runs[j].run_context.retry_of \in Origins(c, runs)
                BY <3>1 DEF Origins
            <4>2. Origins(c, runs) \cap ToSet(s.todo) = {}
                BY <1>4, <3>3 DEF RetryTodo
            <4> QED
                BY <1>4, <1>6, <3>3, <4>1, <4>2
        <3> QED
            BY <3>2, <3>3
    <2>2. rs2[id].cause = c /\ rs2[id].run_context = ctx
        BY <1>5
    <2>3. \A j \in RunIds : j # id /\ runs[j] # None /\ runs[j].cause = rs2[id].cause => Differ(runs[j], rs2[id])
        BY <2>1, <2>2 DEF Differ
    <2> QED
        BY <1>1, <1>3, <1>5, <2>3, OneEachMore
<1> QED
    BY <1>2, <1>3, <1>4, <1>6, <1>7, <1>8

\* The launch succeeded and is taken off the list.
LEMMA LaunchedAndMoved ==
    ASSUME NEW s \in HandlerState, NEW e \in LogEntry, NEW rs, NEW rs2, NEW src, NEW n, Working(s, e, rs, src, n),
           s.pc = "start", s.todo # << >>, e.request.event # "retry",
           NEW f \in BOOLEAN, e.fault => f,
           \A id \in RunIds : rs[id] # None => rs2[id] = rs[id],
           Event(e.request) => Yamls(s.cause, rs2) = Yamls(s.cause, rs) \cup {Head(s.todo)},
           ~Event(e.request) => Origins(s.cause, rs2) = Origins(s.cause, rs) \cup {Head(s.todo)}
    PROVE  /\ Moved(s) \in HandlerState /\ Moved(s).pc = "next" /\ Moved(s).cause = s.cause
           /\ Moved(s).run_id = 0
           /\ Working(Moved(s), Marked(e, "open", f), rs2, src, n)
<1> DEFINE m == Moved(s)
           e2 == Marked(e, "open", f)
<1>1. /\ IsInjective(s.todo)
      /\ Event(e.request) => EventTodo(s, e, rs) /\ s.todo \in Seq(DOMAIN Definition) /\ s.todo \in Seq(WellFormed)
      /\ ~Event(e.request) => RetryTodo(s, e.request, rs) /\ s.todo \in Seq(RunIds)
    BY TodoOf
<1>2. /\ m \in HandlerState /\ m.pc = "next" /\ m.cause = s.cause
      /\ m.todo = Tail(s.todo) /\ m.run_context = None /\ m.run_id = 0
    BY <1>1, MovedFields
<1>3. e2.request = e.request /\ e2.status = "open" /\ e2.fault = f /\ e2.tenant_slug = e.tenant_slug
    BY MarkedOpen
<1>4. e.tenant_slug # None
    BY DEF Working
<1> HIDE DEF m, e2
<1>5. CASE Event(e.request)
    <2>1. /\ Tail(s.todo) \in Seq(WellFormed) /\ IsInjective(Tail(s.todo))
          /\ Head(s.todo) \in ToSet(s.todo) /\ ToSet(Tail(s.todo)) = ToSet(s.todo) \ {Head(s.todo)}
        BY <1>1, <1>5, TailOfDistinct
    <2>2. Yamls(s.cause, rs2) \cap ToSet(Tail(s.todo)) = {}
        BY <1>1, <1>5, <2>1 DEF EventTodo
    <2>3. ~e2.fault => Yamls(s.cause, rs2) \cup ToSet(Tail(s.todo)) = Wanted(e.request)
        <3>1. ~e2.fault => ~e.fault
            BY <1>3
        <3>2. ~e.fault => Yamls(s.cause, rs) \cup ToSet(s.todo) = Wanted(e.request)
            BY <1>1, <1>5 DEF EventTodo
        <3>3. Yamls(s.cause, rs2) \cup ToSet(Tail(s.todo)) = Yamls(s.cause, rs) \cup ToSet(s.todo)
            BY <1>5, <2>1
        <3> QED
            BY <3>1, <3>2, <3>3
    <2>4. EventTodo(m, e2, rs2)
        BY <1>2, <1>3, <2>1, <2>2, <2>3 DEF EventTodo
    <2> QED
        BY <1>2, <1>3, <1>4, <1>5, <2>4 DEF Working, m, e2
<1>6. CASE ~Event(e.request)
    <2>1. /\ Tail(s.todo) \in Seq(RunIds) /\ IsInjective(Tail(s.todo))
          /\ Head(s.todo) \in ToSet(s.todo) /\ ToSet(Tail(s.todo)) = ToSet(s.todo) \ {Head(s.todo)}
        BY <1>1, <1>6, TailOfDistinct
    <2>2. Origins(s.cause, rs2) \cap ToSet(Tail(s.todo)) = {}
        BY <1>1, <1>6, <2>1 DEF RetryTodo
    <2>3. ASSUME e.request.event = "check_suite", NEW id \in ToSet(Tail(s.todo))
          PROVE  Kept(id, rs2) /\ rs2[id].run_context.retry_of = None
        <3>1. Kept(id, rs) /\ rs[id].run_context.retry_of = None
            BY <1>1, <1>6, <2>1, <2>3 DEF RetryTodo
        <3>2. id \in RunIds
            BY <2>1 DEF ToSet
        <3> QED
            BY <3>1, <3>2 DEF Kept
    <2>4. RetryTodo(m, e.request, rs2)
        BY <1>1, <1>2, <1>6, <2>1, <2>2, <2>3 DEF RetryTodo
    <2> QED
        BY <1>2, <1>3, <1>4, <1>6, <2>4 DEF Working, m, e2
<1> QED
    BY <1>5, <1>6

LEMMA StartCoordinatorKeepsInv ==
    ASSUME IngressInv, NEW h \in Handlers, start_coordinator(h)
    PROVE  IngressInv'
<1> DEFINE s == handler[h]
           c == s.cause
           e == log[c]
           q == e.request
           id == s.run_id
<1>0. Busy(h) /\ s.pc = "start"
    BY DEF start_coordinator, Busy
<1>1. /\ s \in HandlerState /\ c \in DOMAIN log /\ c \in Nat /\ e \in LogEntry /\ Routed(e) /\ e.fault \in BOOLEAN
      /\ Working(s, e, runs, source, issued) /\ e.status = "open" /\ e.tenant_slug \in Slugs
      /\ handler \in [Handlers -> HandlerState] /\ faults \in 0..MaxFaults
      /\ runs \in [RunIds -> {None} \cup Run] /\ issued \in 0..MaxRuns /\ issued \in Nat /\ MaxRuns \in Nat
      /\ DOMAIN source = RunIds
    BY <1>0, AtWork
<1>2. s.todo # << >> /\ s.run_context \in RunContext
    BY <1>0, <1>1 DEF Working, Chosen
<1>3. doc' = doc /\ issued' = issued /\ source' = source /\ issued' \in 0..MaxRuns /\ issued <= issued'
    BY <1>1 DEF start_coordinator
<1>4. ASSUME Proceed(h, "INTERNAL_SERVER_ERROR", TRUE), runs' = runs PROVE IngressInv'
    <2>1. "INTERNAL_SERVER_ERROR" \in Status \ {"OK"}
        BY DEF Status
    <2> QED
        BY <1>0, <1>2, <1>3, <1>4, <2>1, FailedLaunchKeepsInv
<1>5. ASSUME NEW recorded \in BOOLEAN,
             runs' = [runs EXCEPT ![id] = [run_context |-> s.run_context, cause |-> c, recorded |-> recorded]],
             Proceed(h, "OK", ~recorded)
      PROVE  IngressInv'
    <2> DEFINE r == [run_context |-> s.run_context, cause |-> c, recorded |-> recorded]
               fault == ~recorded
    <2>1. r \in Run /\ r.run_context = s.run_context /\ r.cause = c
        BY <1>1, <1>2 DEF Run
    <2>2. runs' = [runs EXCEPT ![id] = r] /\ fault \in BOOLEAN /\ Proceed(h, "OK", fault)
        BY <1>5
    <2> HIDE DEF r, fault
    <2>3. /\ id \in RunIds /\ runs[id] = None /\ r.run_context.yaml \in WellFormed
          /\ Event(q) => r.run_context.yaml = Head(s.todo)
          /\ ~Event(q) => r.run_context.retry_of = Head(s.todo)
          /\ Justified(id, r, q, e.tenant_slug, runs', source, issued)
          /\ OneEach(runs')
        BY <1>0, <2>1, <2>2, NewRun
    <2>4. /\ runs' \in [RunIds -> {None} \cup Run] /\ runs'[id] = r /\ r # None
          /\ \A j \in RunIds : j # id => runs'[j] = runs[j]
          /\ LaunchedBy(c, runs') = LaunchedBy(c, runs) \cup {id}
          /\ Yamls(c, runs') = Yamls(c, runs) \cup {r.run_context.yaml}
          /\ Origins(c, runs') = Origins(c, runs) \cup {r.run_context.retry_of}
        <3>1. r # None
            BY <2>1, RunAssumption
        <3>2. /\ runs' \in [RunIds -> {None} \cup Run] /\ runs'[id] = r
              /\ \A j \in RunIds : j # id => runs'[j] = runs[j]
            BY <1>1, <2>1, <2>2, <2>3
        <3>3. runs'[id].cause = c
            BY <2>1, <3>2
        <3> HIDE DEF id, c
        <3> QED
            BY <2>3, <3>1, <3>2, <3>3, RunAdded
    <2>5. \A j \in RunIds : runs'[j] = runs[j] \/ (j = id /\ runs'[j] # None)
        BY <2>4
    <2>6. ASSUME NEW e2, SameRequest(e, e2)
          PROVE  \A j \in RunIds : runs'[j] # runs[j] =>
                     /\ runs'[j].cause = c
                     /\ Justified(j, runs'[j], e2.request, e2.tenant_slug, runs', source', issued')
        BY <1>3, <2>1, <2>3, <2>4, <2>6 DEF SameRequest
    <2>7. SameSources(source, source', issued) /\ DOMAIN source' = RunIds
        BY <1>1, <1>3, SameSourcesRefl
    <2>8. CASE q.event = "retry"
        <3>1. Close(h, "OK", fault)
            BY <2>2, <2>8 DEF Proceed, Request, Entry
        <3>2. PICK f \in BOOLEAN : log' = [log EXCEPT ![c] = Marked(e, "OK", f)]
            BY <1>0, <2>2, <3>1, CloseEffect
        <3>3. faults' \in 0..MaxFaults /\ handler' = [handler EXCEPT ![h] = Idle]
            BY <1>0, <2>2, <3>1, CloseEffect
        <3> DEFINE e2 == Marked(e, "OK", f)
        <3>4. e2 \in LogEntry /\ SameRequest(e, e2) /\ e2.request = q
            <4>1. "OK" \in Status
                BY DEF Status
            <4> QED
                BY <1>1, <4>1, MarkedFields
        <3> HIDE DEF e2
        <3>5. RetryTodo(s, q, runs)
            BY <1>0, <1>1, <2>8 DEF Working, Event
        <3>6. LaunchedBy(c, runs') = {id} /\ r.run_context.retry_of = q.external_id
            <4>1. LaunchedBy(c, runs) = {} /\ s.todo = <<q.external_id>>
                BY <2>8, <3>5 DEF RetryTodo
            <4>2. Head(s.todo) = q.external_id
                BY <4>1
            <4> QED
                BY <2>3, <2>4, <2>8, <4>1, <4>2 DEF Event
        <3>7. Settled(c, e2, runs')
            BY <2>3, <2>4, <2>8, <3>4, <3>6 DEF Settled, Event
        <3>8. Idle \in HandlerState /\ Idle.pc = "idle" /\ Idle.run_id = 0
            BY IdleFields
        <3>9. log' = [log EXCEPT ![c] = e2]
            BY <3>2 DEF e2
        <3>10. \A j \in RunIds : runs'[j] # runs[j] =>
                   /\ runs'[j].cause = c
                   /\ Justified(j, runs'[j], e2.request, e2.tenant_slug, runs', source', issued')
            BY <2>6, <3>4
        <3> QED
            BY <1>0, <1>3, <2>3, <2>4, <2>5, <2>7, <3>3, <3>4, <3>7, <3>8, <3>9, <3>10, WorkStep
    <2>9. CASE q.event # "retry"
        <3>1. PICK f \in BOOLEAN : (e.fault => f) /\ log' = [log EXCEPT ![c] = Marked(e, "open", f)]
            BY <1>0, <2>2, <2>9, ProceedEffect
        <3>2. faults' \in 0..MaxFaults /\ handler' = [handler EXCEPT ![h] = Moved(s)]
            BY <1>0, <2>2, <2>9, ProceedEffect
        <3> DEFINE m == Moved(s)
                   e2 == Marked(e, "open", f)
        <3>3. /\ m \in HandlerState /\ m.pc = "next" /\ m.cause = c /\ m.run_id = 0
              /\ Working(m, e2, runs', source, issued)
            <4>1. \A j \in RunIds : runs[j] # None => runs'[j] = runs[j]
                BY <2>3, <2>4
            <4>2. Event(q) => Yamls(c, runs') = Yamls(c, runs) \cup {Head(s.todo)}
                BY <2>3, <2>4
            <4>3. ~Event(q) => Origins(c, runs') = Origins(c, runs) \cup {Head(s.todo)}
                BY <2>3, <2>4
            <4> QED
                BY <1>0, <1>1, <1>2, <2>9, <3>1, <4>1, <4>2, <4>3, LaunchedAndMoved
        <3>4. e2 \in LogEntry /\ SameRequest(e, e2)
            BY <1>1, MarkedFields
        <3>5. Settled(c, e2, runs')
            BY <1>1, NotOKIsSettled
        <3>6. handler' = [handler EXCEPT ![h] = m] /\ log' = [log EXCEPT ![c] = e2]
            BY <3>1, <3>2
        <3> HIDE DEF m, e2
        <3>7. Working(m, e2, runs', source', issued')
            BY <1>3, <3>3
        <3> QED
            BY <1>0, <1>3, <2>3, <2>4, <2>5, <2>6, <2>7, <3>2, <3>3, <3>4, <3>5, <3>6, <3>7, WorkStep
    <2> QED
        BY <2>8, <2>9
<1> QED
    BY <1>4, <1>5 DEF start_coordinator

----------------------------------------------------------------------------
(* The invariant                                                           *)

\* Restarting closes what was open and leaves every handler idle.
LEMMA RestartKeepsInv ==
    ASSUME IngressInv, Restart
    PROVE  IngressInv'
<1>1. StateOK /\ LogOK /\ RunsOK /\ OneEach(runs)
    BY DEF IngressInv
<1>2. /\ log \in Seq(LogEntry) /\ Len(log) <= MaxRequests /\ issued \in 0..MaxRuns
      /\ DOMAIN source = RunIds /\ runs \in [RunIds -> {None} \cup Run]
    BY <1>1 DEF StateOK
<1>3. /\ doc' \in Accepted /\ handler' = [h \in Handlers |-> Idle] /\ UNCHANGED <<issued, source, runs>>
      /\ log' = [i \in DOMAIN log |-> IF log[i].status = "open" THEN [log[i] EXCEPT !.status = "lost"] ELSE log[i]]
    BY DEF Restart
<1>4. faults' \in 0..MaxFaults
    BY FaultCount DEF Restart
<1>5. ASSUME NEW i \in DOMAIN log
      PROVE  /\ log'[i] \in LogEntry /\ SameRequest(log[i], log'[i])
             /\ Routed(log'[i]) /\ Settled(i, log'[i], runs)
    <2> DEFINE e == log[i]
    <2>1. e \in LogEntry /\ Routed(e) /\ Settled(i, e, runs)
        BY <1>1, <1>2 DEF LogOK
    <2>2. CASE e.status = "open"
        <3> DEFINE e2 == [e EXCEPT !.status = "lost"]
        <3>1. log'[i] = e2
            BY <1>3, <2>2
        <3>2. e2 \in LogEntry /\ SameRequest(e, e2) /\ e2.status = "lost"
            BY <2>1 DEF LogEntry, SameRequest
        <3>3. e.tenant_slug # None
            BY <2>1, <2>2 DEF Routed
        <3> HIDE DEF e2
        <3>4. Routed(e2)
            BY <2>1, <3>2, <3>3, RoutedStill
        <3>5. Settled(i, e2, runs)
            BY <3>2 DEF Settled
        <3> QED
            BY <3>1, <3>2, <3>4, <3>5
    <2>3. CASE e.status # "open"
        <3>1. log'[i] = e
            BY <1>3, <2>3
        <3> QED
            BY <2>1, <3>1 DEF SameRequest
    <2> QED
        BY <2>2, <2>3
<1>6. DOMAIN log' = DOMAIN log /\ log' \in Seq(LogEntry) /\ Len(log') = Len(log)
    <2>1. DOMAIN log = 1..Len(log) /\ Len(log) \in Nat
        BY <1>2
    <2>2. log' = [i \in 1..Len(log) |-> log'[i]]
        BY <1>3, <2>1
    <2>3. log' \in [1..Len(log) -> LogEntry]
        BY <1>5, <2>1, <2>2
    <2> QED
        BY <2>1, <2>3
<1>7. handler' \in [Handlers -> HandlerState] /\ \A h \in Handlers : handler'[h] = Idle /\ handler'[h].pc = "idle"
    BY <1>3, IdleFields
<1>8. StateOK'
    BY <1>2, <1>3, <1>4, <1>6, <1>7 DEF StateOK
<1>9. LogOK'
    BY <1>3, <1>5, <1>6 DEF LogOK
<1>10. HandlersOK' /\ Apart'
    BY <1>7 DEF HandlersOK, Apart, Busy
<1>11. RunsOK'
    <2>1. ASSUME NEW id \in RunIds, runs[id] # None
          PROVE  /\ runs[id].cause \in DOMAIN log'
                 /\ Justified(id, runs[id], log'[runs[id].cause].request, log'[runs[id].cause].tenant_slug,
                              runs, source, issued)
        <3>1. /\ runs[id].cause \in DOMAIN log
              /\ Justified(id, runs[id], log[runs[id].cause].request, log[runs[id].cause].tenant_slug,
                           runs, source, issued)
            BY <1>1, <2>1 DEF RunsOK
        <3>2. SameRequest(log[runs[id].cause], log'[runs[id].cause])
            BY <1>5, <3>1
        <3> QED
            BY <1>6, <3>1, <3>2 DEF SameRequest
    <2> QED
        BY <1>3, <2>1 DEF RunsOK
<1> QED
    BY <1>1, <1>3, <1>8, <1>9, <1>10, <1>11 DEF IngressInv

\* From rs to rs2, runs may only have been given their row.
Rowed(rs, rs2) ==
    \A id \in RunIds :
        /\ rs2[id] = None <=> rs[id] = None
        /\ rs[id] # None => rs2[id].run_context = rs[id].run_context /\ rs2[id].cause = rs[id].cause
        /\ Kept(id, rs) => Kept(id, rs2)

LEMMA RowedLaunches ==
    ASSUME NEW rs, NEW rs2, Rowed(rs, rs2), NEW i
    PROVE  /\ LaunchedBy(i, rs2) = LaunchedBy(i, rs)
           /\ Yamls(i, rs2) = Yamls(i, rs) /\ Origins(i, rs2) = Origins(i, rs)
<1>1. LaunchedBy(i, rs2) = LaunchedBy(i, rs)
    BY DEF Rowed, LaunchedBy
<1>2. \A id \in LaunchedBy(i, rs) : rs2[id].run_context = rs[id].run_context
    BY DEF Rowed, LaunchedBy
<1> QED
    BY <1>1, <1>2 DEF Yamls, Origins

LEMMA RowedSettled ==
    ASSUME NEW rs, NEW rs2, Rowed(rs, rs2), NEW i, NEW e, Settled(i, e, rs)
    PROVE  Settled(i, e, rs2)
<1>1. LaunchedBy(i, rs2) = LaunchedBy(i, rs) /\ Yamls(i, rs2) = Yamls(i, rs)
    BY RowedLaunches
<1>2. \A id \in LaunchedBy(i, rs) : rs2[id].run_context = rs[id].run_context
    BY DEF Rowed, LaunchedBy
<1> QED
    BY <1>1, <1>2 DEF Settled

LEMMA RowedJustified ==
    ASSUME NEW rs, NEW rs2, Rowed(rs, rs2), NEW id \in RunIds, rs[id] # None,
           NEW q, NEW slug, NEW src, NEW n, Justified(id, rs[id], q, slug, rs, src, n)
    PROVE  Justified(id, rs2[id], q, slug, rs2, src, n)
<1> DEFINE c == rs[id].run_context
<1>1. rs2[id].run_context = c
    BY DEF Rowed
<1>2. ASSUME Retries(id, c, q, rs) PROVE Retries(id, c, q, rs2)
    <2>1. c.retry_of \in RunIds /\ Kept(c.retry_of, rs) /\ rs[c.retry_of] # None
        BY <1>2 DEF Retries, Kept
    <2>2. Kept(c.retry_of, rs2) /\ rs2[c.retry_of].run_context = rs[c.retry_of].run_context
        BY <2>1 DEF Rowed
    <2> HIDE DEF c
    <2> QED
        BY <1>2, <2>2 DEF Retries
<1> QED
    BY <1>1, <1>2 DEF Justified

LEMMA RowedWorks ==
    ASSUME NEW rs, NEW rs2, Rowed(rs, rs2), NEW s \in HandlerState, NEW e, NEW src, NEW n \in 0..MaxRuns,
           Working(s, e, rs, src, n)
    PROVE  Working(s, e, rs2, src, n)
<1>1. /\ LaunchedBy(s.cause, rs2) = LaunchedBy(s.cause, rs)
      /\ Yamls(s.cause, rs2) = Yamls(s.cause, rs) /\ Origins(s.cause, rs2) = Origins(s.cause, rs)
    BY RowedLaunches
<1>2. EventTodo(s, e, rs) => EventTodo(s, e, rs2)
    BY <1>1 DEF EventTodo
<1>3. ASSUME RetryTodo(s, e.request, rs) PROVE RetryTodo(s, e.request, rs2)
    <2>1. ASSUME NEW id \in ToSet(s.todo), Kept(id, rs)
          PROVE  Kept(id, rs2) /\ rs2[id].run_context = rs[id].run_context
        <3>1. id \in RunIds
            BY <1>3 DEF RetryTodo, ToSet
        <3> QED
            BY <2>1, <3>1 DEF Rowed, Kept
    <2> QED
        BY <1>1, <1>3, <2>1 DEF RetryTodo
<1>4. ASSUME s.pc \in {"upload", "start"} PROVE Chosen(s, e, rs2)
    <2>1. Chosen(s, e, rs) /\ s.todo # << >>
        BY <1>4 DEF Working, Chosen
    <2>2. CASE Event(e.request)
        BY <2>1, <2>2 DEF Chosen
    <2>3. CASE ~Event(e.request)
        <3>1. s.todo \in Seq(RunIds)
            BY <1>4, <2>3 DEF Working, RetryTodo
        <3>2. Head(s.todo) \in RunIds
            BY <2>1, <3>1, HeadOfTodo
        <3>3. Kept(Head(s.todo), rs)
            BY <2>1, <2>3 DEF Chosen
        <3>4. Kept(Head(s.todo), rs2) /\ rs2[Head(s.todo)].run_context = rs[Head(s.todo)].run_context
            BY <3>2, <3>3 DEF Rowed, Kept
        <3> QED
            BY <2>1, <2>3, <3>4 DEF Chosen
    <2> QED
        BY <2>2, <2>3
<1>5. ASSUME s.pc = "start" PROVE rs2[s.run_id] = None
    <2>1. s.run_id \in 1..n /\ rs[s.run_id] = None
        BY <1>5 DEF Working
    <2>2. s.run_id \in RunIds
        BY <2>1, IngressAssumption DEF RunIds
    <2> QED
        BY <2>1, <2>2 DEF Rowed
<1> QED
    BY <1>1, <1>2, <1>3, <1>4, <1>5 DEF Working

\* A run that gets its row late was nobody's to retry until then.
LEMMA RecordPipelineRunKeepsInv ==
    ASSUME IngressInv, NEW id \in RunIds, record_pipeline_run(id)
    PROVE  IngressInv'
<1>1. /\ StateOK /\ LogOK /\ HandlersOK /\ Apart /\ RunsOK /\ OneEach(runs)
      /\ runs \in [RunIds -> {None} \cup Run] /\ issued \in 0..MaxRuns
      /\ handler \in [Handlers -> HandlerState]
    BY DEF IngressInv, StateOK
<1>2. /\ runs[id] # None /\ runs' = [runs EXCEPT ![id].recorded = TRUE]
      /\ UNCHANGED <<doc, faults, log, handler, issued, source>>
    BY DEF record_pipeline_run
<1> DEFINE r == [runs[id] EXCEPT !.recorded = TRUE]
<1>3. runs[id] \in Run
    BY <1>1, <1>2
<1>4. /\ r \in Run /\ r.run_context = runs[id].run_context /\ r.cause = runs[id].cause /\ r.recorded
    BY <1>3 DEF Run
<1>5. runs'[id] = r /\ \A j \in RunIds \ {id} : runs'[j] = runs[j]
    BY <1>1, <1>2
<1>6. runs' \in [RunIds -> {None} \cup Run]
    BY <1>1, <1>2, <1>4
<1>7. r # None
    BY <1>4, RunAssumption
<1> HIDE DEF r
<1>8. Rowed(runs, runs')
    <2>1. ASSUME NEW j \in RunIds
          PROVE  /\ runs'[j] = None <=> runs[j] = None
                 /\ runs[j] # None => /\ runs'[j].run_context = runs[j].run_context
                                      /\ runs'[j].cause = runs[j].cause
                 /\ Kept(j, runs) => Kept(j, runs')
        <3>1. CASE j = id
            BY <1>2, <1>4, <1>5, <1>7, <3>1 DEF Kept
        <3>2. CASE j # id
            BY <1>5, <3>2 DEF Kept
        <3> QED
            BY <3>1, <3>2
    <2> QED
        BY <2>1 DEF Rowed
<1>9. StateOK'
    BY <1>1, <1>2, <1>6 DEF StateOK
<1>10. LogOK'
    <2>1. ASSUME NEW i \in DOMAIN log PROVE Routed(log[i]) /\ Settled(i, log[i], runs')
        <3>1. Routed(log[i]) /\ Settled(i, log[i], runs)
            BY <1>1 DEF LogOK
        <3> QED
            BY <1>8, <3>1, RowedSettled
    <2> QED
        BY <1>2, <2>1 DEF LogOK
<1>11. HandlersOK'
    <2>1. ASSUME NEW h \in Handlers
          PROVE  IF handler[h].pc # "idle"
                 THEN /\ handler[h].cause \in DOMAIN log
                      /\ Working(handler[h], log[handler[h].cause], runs', source, issued)
                 ELSE handler[h] = Idle
        <3>1. CASE handler[h].pc # "idle"
            <4>1. handler[h] \in HandlerState
                BY <1>1
            <4>2. /\ handler[h].cause \in DOMAIN log
                  /\ Working(handler[h], log[handler[h].cause], runs, source, issued)
                BY <1>1, <3>1 DEF HandlersOK, Busy
            <4>3. Working(handler[h], log[handler[h].cause], runs', source, issued)
                BY <1>1, <1>8, <4>1, <4>2, RowedWorks
            <4> QED
                BY <3>1, <4>2, <4>3
        <3>2. CASE handler[h].pc = "idle"
            BY <1>1, <3>2 DEF HandlersOK, Busy
        <3> QED
            BY <3>1, <3>2
    <2> QED
        BY <1>2, <2>1 DEF HandlersOK, Busy
<1>12. Apart'
    BY <1>1, <1>2 DEF Apart, Busy
<1>13. RunsOK'
    <2>1. ASSUME NEW j \in RunIds, runs'[j] # None
          PROVE  /\ runs'[j].cause \in DOMAIN log
                 /\ Justified(j, runs'[j], log[runs'[j].cause].request, log[runs'[j].cause].tenant_slug,
                              runs', source, issued)
        <3>1. runs[j] # None /\ runs'[j].cause = runs[j].cause
            BY <1>8, <2>1 DEF Rowed
        <3>2. /\ runs[j].cause \in DOMAIN log
              /\ Justified(j, runs[j], log[runs[j].cause].request, log[runs[j].cause].tenant_slug,
                           runs, source, issued)
            BY <1>1, <3>1 DEF RunsOK
        <3>3. Justified(j, runs'[j], log[runs[j].cause].request, log[runs[j].cause].tenant_slug,
                        runs', source, issued)
            BY <1>8, <3>1, <3>2, RowedJustified
        <3> QED
            BY <3>1, <3>2, <3>3
    <2> QED
        BY <1>2, <2>1 DEF RunsOK
<1>14. OneEach(runs')
    <2>1. \A j \in RunIds :
              runs'[j] # None => /\ runs[j] # None /\ runs'[j].cause = runs[j].cause
                                 /\ runs'[j].run_context = runs[j].run_context
        BY <1>8 DEF Rowed
    <2> QED
        BY <1>1, <2>1 DEF OneEach
<1> QED
    BY <1>9, <1>10, <1>11, <1>12, <1>13, <1>14 DEF IngressInv

LEMMA IngressInitInv == IngressInit => IngressInv
<1> SUFFICES ASSUME IngressInit PROVE IngressInv
    OBVIOUS
<1>1. /\ doc \in Accepted /\ faults = 0 /\ log = << >> /\ handler = [h \in Handlers |-> Idle] /\ issued = 0
      /\ source = [id \in RunIds |-> << >>] /\ runs = [id \in RunIds |-> None]
    BY DEF IngressInit
<1>2. MaxFaults \in Nat /\ MaxRuns \in Nat /\ MaxRequests \in Nat
    BY IngressAssumption
<1>3. handler \in [Handlers -> HandlerState] /\ \A h \in Handlers : handler[h] = Idle /\ handler[h].pc = "idle"
    BY <1>1, IdleFields
<1>4. log \in Seq(LogEntry) /\ Len(log) = 0 /\ DOMAIN log = {}
    BY <1>1
<1>5. runs \in [RunIds -> {None} \cup Run] /\ \A id \in RunIds : runs[id] = None
    BY <1>1
<1>6. StateOK
    BY <1>1, <1>2, <1>3, <1>4, <1>5 DEF StateOK
<1>7. LogOK
    BY <1>4 DEF LogOK
<1>8. HandlersOK /\ Apart
    BY <1>3 DEF HandlersOK, Apart, Busy
<1>9. RunsOK /\ OneEach(runs)
    BY <1>5 DEF RunsOK, OneEach
<1> QED
    BY <1>6, <1>7, <1>8, <1>9 DEF IngressInv

LEMMA IngressNextInv == IngressInv /\ [IngressNext]_ingressVars => IngressInv'
<1> SUFFICES ASSUME IngressInv, [IngressNext]_ingressVars PROVE IngressInv'
    OBVIOUS
<1>1. ASSUME NEW h \in Handlers, handle_webhook(h) PROVE IngressInv'
    BY <1>1, WebhookKeepsInv
<1>2. ASSUME NEW h \in Handlers, retry_run(h) PROVE IngressInv'
    BY <1>2, RetryRunKeepsInv
<1>3. ASSUME NEW h \in Handlers, start_pipelines(h) PROVE IngressInv'
    BY <1>3, StartPipelinesKeepsInv
<1>4. ASSUME NEW h \in Handlers, list_originating_runs(h) PROVE IngressInv'
    BY <1>4, ListOriginatingRunsKeepsInv
<1>5. ASSUME NEW h \in Handlers, build_run_context(h) PROVE IngressInv'
    BY <1>5, BuildRunContextKeepsInv
<1>6. ASSUME NEW h \in Handlers, retry_pipeline_run(h) PROVE IngressInv'
    BY <1>6, RetryPipelineRunKeepsInv
<1>7. ASSUME NEW h \in Handlers, upload_source(h) PROVE IngressInv'
    BY <1>7, UploadSourceKeepsInv
<1>8. ASSUME NEW h \in Handlers, start_coordinator(h) PROVE IngressInv'
    BY <1>8, StartCoordinatorKeepsInv
<1>9. ASSUME NEW h \in Handlers, Finish(h) PROVE IngressInv'
    BY <1>9, FinishKeepsInv
<1>10. ASSUME Restart PROVE IngressInv'
    BY <1>10, RestartKeepsInv
<1>11. ASSUME NEW id \in RunIds, record_pipeline_run(id) PROVE IngressInv'
    BY <1>11, RecordPipelineRunKeepsInv
<1>12. CASE UNCHANGED ingressVars
    BY <1>12 DEF ingressVars, IngressInv, StateOK, LogOK, HandlersOK, Apart, RunsOK, Busy
<1> QED
    BY <1>1, <1>2, <1>3, <1>4, <1>5, <1>6, <1>7, <1>8, <1>9, <1>10, <1>11, <1>12
    DEF IngressNext

LEMMA IngressInvHolds == IngressSpec => []IngressInv
<1> QED
    BY IngressInitInv, IngressNextInv, PTL DEF IngressSpec

----------------------------------------------------------------------------
(* What follows                                                            *)

LEMMA InvType == IngressInv => IngressTypeOK
<1> SUFFICES ASSUME IngressInv PROVE IngressTypeOK
    OBVIOUS
<1>1. StateOK /\ RunsOK
    BY DEF IngressInv
<1>2. /\ doc \in Accepted /\ faults \in 0..MaxFaults /\ log \in Seq(LogEntry) /\ Len(log) <= MaxRequests
      /\ handler \in [Handlers -> HandlerState] /\ issued \in 0..MaxRuns
      /\ runs \in [RunIds -> {None} \cup Run]
    BY <1>1 DEF StateOK
<1>3. doc \in DOMAIN Docs
    BY <1>2 DEF Accepted
<1>4. ASSUME NEW i \in DOMAIN log
      PROVE  /\ log[i].doc \in DOMAIN Docs /\ log[i].tenant_slug \in Slugs \cup {None}
             /\ log[i].status \in Status \cup {"open", "lost"} /\ log[i].fault \in BOOLEAN
    <2>1. log[i] \in LogEntry
        BY <1>2
    <2> QED
        BY <2>1 DEF LogEntry
<1>5. ASSUME NEW h \in Handlers PROVE IsHandler(handler[h])
    <2> DEFINE s == handler[h]
               e == log[s.cause]
    <2>1. issued \in Nat /\ s \in HandlerState
        BY <1>2, IngressAssumption
    <2>2. /\ s.pc \in {"idle", "match", "originals", "next", "upload", "start"}
          /\ s.run_context # None => s.run_context \in RunContext
        BY <2>1 DEF HandlerState
    <2>3. CASE ~Busy(h)
        <3>1. s = Idle
            BY <2>3, HandlersType
        <3>2. s.run_id \in 0..issued
            BY <2>1, <3>1, IdleFields
        <3> QED
            BY <2>2, <3>1, <3>2 DEF IsHandler
    <2>4. CASE Busy(h)
        <3>1. s.cause \in DOMAIN log /\ e.status = "open" /\ Working(s, e, runs, source, issued) /\ s.pc # "idle"
            BY <2>4, AtWork DEF Busy
        <3>2. s.run_id \in 0..issued
            BY <2>1, <3>1 DEF Working
        <3>3. s.todo \in IF Event(e.request) THEN Seq(DOMAIN Definition) ELSE Seq(RunIds)
            <4>1. CASE s.pc \in {"match", "originals"}
                <5>1. s.todo = << >>
                    BY <3>1, <4>1 DEF Working
                <5> QED
                    BY <5>1
            <4>2. CASE s.pc \in {"next", "upload", "start"}
                BY <3>1, <4>2, TodoOf
            <4> QED
                BY <2>2, <3>1, <4>1, <4>2
        <3> QED
            BY <2>2, <3>1, <3>2, <3>3 DEF IsHandler, Event
    <2> QED
        BY <2>3, <2>4
<1>6. ASSUME NEW id \in RunIds, runs[id] # None
      PROVE  /\ id <= issued /\ runs[id].run_context \in RunContext /\ runs[id].recorded \in BOOLEAN
             /\ runs[id].cause \in DOMAIN log
    <2>1. runs[id] \in Run
        BY <1>2, <1>6
    <2>2. runs[id].run_context \in RunContext /\ runs[id].recorded \in BOOLEAN
        BY <2>1 DEF Run
    <2>3. runs[id].cause \in DOMAIN log
        BY <1>1, <1>6 DEF RunsOK
    <2> QED
        BY <1>6, <2>2, <2>3, FreshId
<1>7. DOMAIN handler = Handlers
    BY <1>2
<1> QED
    BY <1>2, <1>3, <1>4, <1>5, <1>6, <1>7 DEF IngressTypeOK

\* Every variable of the ingress keeps its type, whatever documents, deliveries and
\* repositories there are, and a handler is busy only while its request is open.
THEOREM IngressTypes == IngressSpec => []IngressTypeOK
<1> QED
    BY IngressInvHolds, InvType, PTL

\* What is known of a run that was started.
LEMMA StartedRun ==
    ASSUME IngressInv, NEW id \in Started
    PROVE  LET c == runs[id].run_context
               e == log[runs[id].cause]
           IN  /\ id \in RunIds /\ id \in Nat /\ runs[id] # None /\ c \in RunContext /\ runs[id].cause \in DOMAIN log
               /\ Justified(id, runs[id], e.request, e.tenant_slug, runs, source, issued)
               /\ Routed(e) /\ e.tenant_slug # None
               /\ c.retry_of = None <=> Event(e.request)
               /\ c.retry_of # None => /\ Retries(id, c, e.request, runs)
                                       /\ c.retry_of \in Started /\ c.retry_of \in Nat /\ c.retry_of < id
<1> DEFINE r == runs[id]
           c == r.run_context
           e == log[r.cause]
<1>1. id \in RunIds /\ r # None /\ id \in Nat
    BY DEF Started, RunIds
<1>2. r \in Run /\ c \in RunContext
    <2>1. runs \in [RunIds -> {None} \cup Run]
        BY DEF IngressInv, StateOK
    <2> QED
        BY <1>1, <2>1 DEF Run
<1>3. /\ r.cause \in DOMAIN log
      /\ Justified(id, r, e.request, e.tenant_slug, runs, source, issued)
    BY <1>1 DEF IngressInv, RunsOK
<1>4. Routed(e)
    BY <1>3 DEF IngressInv, LogOK
<1>5. e.tenant_slug # None
    <2>1. c.tenant_slug \in Slugs
        BY <1>2 DEF RunContext
    <2> QED
        BY <1>3, <2>1, SlugsAreNames, IngressAssumption DEF Justified
<1>6. /\ Event(e.request) => c.retry_of = None
      /\ ~Event(e.request) => Retries(id, c, e.request, runs)
    BY <1>3 DEF Justified
<1>7. ASSUME Retries(id, c, e.request, runs)
      PROVE  c.retry_of # None /\ c.retry_of \in Started /\ c.retry_of \in Nat /\ c.retry_of < id
    <2>1. c.retry_of \in RunIds /\ c.retry_of < id /\ runs[c.retry_of] # None
        BY <1>7 DEF Retries, Kept
    <2> HIDE DEF c
    <2> QED
        BY <2>1, IngressAssumption DEF RunIds, Started
<1> HIDE DEF c, e, r
<1>8. c.retry_of = None <=> Event(e.request)
    BY <1>6, <1>7
<1>9. c.retry_of # None => /\ Retries(id, c, e.request, runs)
                           /\ c.retry_of \in Started /\ c.retry_of \in Nat /\ c.retry_of < id
    BY <1>6, <1>7
<1> QED
    BY <1>1, <1>2, <1>3, <1>4, <1>5, <1>8, <1>9 DEF c, e, r

\* The chain of retries, one link at a time.
LEMMA RootStep ==
    ASSUME IngressInv, NEW id \in RunIds
    PROVE  root[id] = IF id \notin Started THEN id
                      ELSE IF runs[id].run_context.retry_of = None THEN id
                      ELSE root[runs[id].run_context.retry_of]
<1> DEFINE Link(k, g) == IF k \notin Started THEN k
                         ELSE IF runs[k].run_context.retry_of = None THEN k
                         ELSE g[runs[k].run_context.retry_of]
           Loop(n, g) == g = [k \in 1..n |-> Link(k, g)]
           S == {n \in Nat : n <= MaxRuns => \E g : Loop(n, g)}
<1>0. MaxRuns \in Nat
    BY IngressAssumption
<1>1. 0 \in S
    <2>1. Loop(0, [k \in 1..0 |-> 0])
        OBVIOUS
    <2>2. \E g : Loop(0, g)
        BY <2>1
    <2> QED
        BY <2>2
<1>2. ASSUME NEW n \in Nat, n \in S PROVE n + 1 \in S
    <2> SUFFICES ASSUME n + 1 <= MaxRuns PROVE \E g : Loop(n + 1, g)
        OBVIOUS
    <2>0. n <= MaxRuns
        BY <1>0
    <2>1. PICK g : Loop(n, g)
        BY <1>2, <2>0
    <2> DEFINE f == [k \in 1..(n + 1) |-> IF k = n + 1 THEN Link(n + 1, g) ELSE g[k]]
    <2>2. ASSUME NEW k \in 1..(n + 1) PROVE f[k] = Link(k, f)
        <3>1. f[k] = Link(k, g)
            BY <2>1
        <3>2. Link(k, g) = Link(k, f)
            <4>1. CASE k \in Started /\ runs[k].run_context.retry_of # None
                <5> DEFINE o == runs[k].run_context.retry_of
                <5>1. o \in Nat /\ o < k /\ o \in RunIds
                    BY <4>1, StartedRun DEF Started
                <5>2. o \in 1..(n + 1) /\ o # n + 1
                    BY <5>1 DEF RunIds
                <5> HIDE DEF o
                <5>3. f[o] = g[o]
                    BY <5>2
                <5> QED
                    BY <5>3 DEF o
            <4> QED
                BY <4>1
        <3> QED
            BY <3>1, <3>2
    <2>3. Loop(n + 1, f)
        BY <2>2
    <2> HIDE DEF f, Loop
    <2> QED
        BY <2>3
<1> HIDE DEF S
<1>3. MaxRuns \in S
    BY <1>0, <1>1, <1>2, SetInduction
<1>4. PICK g : Loop(MaxRuns, g)
    BY <1>0, <1>3 DEF S
<1> DEFINE f == CHOOSE k : Loop(MaxRuns, k)
<1>5. Loop(MaxRuns, f)
    BY <1>4
<1>6. root = f
    BY DEF root, RunIds
<1> HIDE DEF f
<1> QED
    BY <1>5, <1>6 DEF RunIds

\* The first run of a chain: an event's, of the same tenant and with the same context.
FirstOf(id) ==
    /\ root[id] \in Started /\ runs[root[id]].run_context.retry_of = None
    /\ First(runs[id].run_context) = runs[root[id]].run_context

LEMMA ChainsHaveFirsts ==
    ASSUME IngressInv, NEW id \in Started
    PROVE  FirstOf(id)
<1> DEFINE S == {n \in Nat : \A k \in Started : k <= n => FirstOf(k)}
<1>1. 0 \in S
    <2>1. \A k \in Started : ~(k <= 0)
        BY DEF Started, RunIds
    <2> QED
        BY <2>1
<1>2. ASSUME NEW n \in Nat, n \in S PROVE n + 1 \in S
    <2>1. SUFFICES ASSUME NEW k \in Started, k <= n + 1 PROVE FirstOf(k)
        OBVIOUS
    <2> DEFINE c == runs[k].run_context
               o == c.retry_of
    <2>2. /\ k \in RunIds /\ k \in Nat /\ c \in RunContext
          /\ o # None => /\ Retries(k, c, log[runs[k].cause].request, runs)
                         /\ o \in Started /\ o \in Nat /\ o < k
        BY StartedRun
    <2>3. root[k] = IF o = None THEN k ELSE root[o]
        BY <2>2, RootStep
    <2>4. CASE o = None
        <3>1. First(c) = c
            <4> HIDE DEF c
            <4> QED
                BY <2>2, <2>4 DEF First, RunContext
        <3> QED
            BY <2>3, <2>4, <3>1 DEF FirstOf
    <2>5. CASE o # None
        <3>1. o <= n
            <4> HIDE DEF o
            <4> QED
                BY <2>1, <2>2, <2>5
        <3>2. FirstOf(o)
            BY <1>2, <2>2, <2>5, <3>1
        <3>3. First(c) = First(runs[o].run_context) /\ root[k] = root[o]
            BY <2>2, <2>3, <2>5 DEF Retries
        <3> QED
            BY <3>2, <3>3 DEF FirstOf
    <2> QED
        BY <2>4, <2>5
<1> HIDE DEF S
<1>3. Nat \subseteq S
    BY <1>1, <1>2, SetInduction
<1>4. id \in Nat
    BY DEF Started, RunIds
<1>5. id \in S
    BY <1>3, <1>4
<1> QED
    BY <1>4, <1>5 DEF S

LEMMA InvProvenance == IngressInv => RunProvenance
<1> SUFFICES ASSUME IngressInv, NEW id \in Started
             PROVE  /\ FromEvent(root[id])
                    /\ [runs[id].run_context EXCEPT !.retry_of = None] = runs[root[id]].run_context
                    /\ log[runs[id].cause].tenant_slug = runs[id].run_context.tenant_slug
                    /\ runs[id].run_context.retry_of # None => Recorded(runs[id].run_context.retry_of)
    BY DEF RunProvenance
<1> DEFINE f == root[id]
           e == log[runs[f].cause]
<1>1. FirstOf(id)
    BY ChainsHaveFirsts
<1>2. f \in Started /\ runs[f].run_context.retry_of = None
    BY <1>1 DEF FirstOf
<1>3. [runs[id].run_context EXCEPT !.retry_of = None] = runs[f].run_context
    BY <1>1 DEF FirstOf, First
<1>4. FromEvent(f)
    <2> HIDE DEF f
    <2>1. /\ Event(e.request) /\ Routed(e) /\ e.tenant_slug # None
          /\ Justified(f, runs[f], e.request, e.tenant_slug, runs, source, issued)
        BY <1>2, StartedRun
    <2>2. runs[f].run_context.tenant_slug = e.tenant_slug
        BY <2>1 DEF Justified
    <2>3. SentFor(e, e.tenant_slug)
        BY <2>1 DEF Routed
    <2> QED
        BY <2>1, <2>2, <2>3 DEF FromEvent, SentFor, Event
<1>5. log[runs[id].cause].tenant_slug = runs[id].run_context.tenant_slug
    BY StartedRun DEF Justified
<1>6. runs[id].run_context.retry_of # None => Recorded(runs[id].run_context.retry_of)
    BY StartedRun DEF Retries, Kept, Recorded
<1> QED
    BY <1>3, <1>4, <1>5, <1>6

\* Whatever tenancy documents a server is started with and however requests interleave,
\* fail or are cut off by a restart, every run is a tenant's own: from an event its App
\* signed and its organisation sent, or a retry, by the same tenant, of a recorded
\* run of such a chain with the same context (handle_webhook, retry_pipeline_run).
THEOREM RunsHaveProvenance == IngressSpec => []RunProvenance
<1> QED
    BY IngressInvHolds, InvProvenance, PTL

LEMMA InvNoDouble == IngressInv => NoDoubleLaunch
<1> SUFFICES ASSUME IngressInv, NEW i \in Started, NEW j \in Started, i # j, runs[i].cause = runs[j].cause
             PROVE  IF runs[i].run_context.retry_of = None
                    THEN runs[i].run_context.yaml # runs[j].run_context.yaml
                    ELSE root[i] # root[j]
    BY DEF NoDoubleLaunch
<1> DEFINE q == log[runs[i].cause].request
           a == runs[i].run_context.retry_of
           b == runs[j].run_context.retry_of
<1>1. /\ i \in RunIds /\ runs[i] # None /\ (a = None <=> Event(q))
      /\ a # None => Retries(i, runs[i].run_context, q, runs) /\ a \in Started
    BY StartedRun
<1>2. /\ j \in RunIds /\ runs[j] # None /\ (b = None <=> Event(q))
      /\ b # None => Retries(j, runs[j].run_context, q, runs) /\ b \in Started
    BY StartedRun
<1>3. a # b \/ (a = None /\ runs[i].run_context.yaml # runs[j].run_context.yaml)
    BY <1>1, <1>2 DEF IngressInv, OneEach
<1>4. CASE a = None
    BY <1>1, <1>2, <1>3, <1>4
<1>5. CASE a # None
    <2>1. b # None /\ a # b
        BY <1>1, <1>2, <1>3, <1>5
    <2>2. /\ q.event = "check_suite" => /\ runs[a].run_context.retry_of = None
                                        /\ runs[b].run_context.retry_of = None
          /\ q.event # "check_suite" => a = q.external_id /\ b = q.external_id
        BY <1>1, <1>2, <1>5, <2>1 DEF Retries
    <2>3. q.event = "check_suite"
        BY <2>1, <2>2
    <2>4. a \in RunIds /\ b \in RunIds /\ a \in Started /\ b \in Started
        BY <1>1, <1>2, <1>5, <2>1 DEF Started
    <2>5. root[a] = a /\ root[b] = b
        <3> HIDE DEF a, b
        <3> QED
            BY <2>2, <2>3, <2>4, RootStep
    <2>6. root[i] = root[a] /\ root[j] = root[b]
        BY <1>1, <1>2, <1>5, <2>1, RootStep
    <2> QED
        BY <1>5, <2>1, <2>5, <2>6
<1> QED
    BY <1>4, <1>5

\* No request launches a pipeline, or a chain of retries, twice: not when the files of a
\* commit are read while others fail, nor when a check suite is run again after some
\* of its runs were retried (find_matching_pipelines, list_originating_runs_for_sha).
THEOREM NothingLaunchedTwice == IngressSpec => []NoDoubleLaunch
<1> QED
    BY IngressInvHolds, InvNoDouble, PTL

LEMMA InvSource == IngressInv => SourceIsWhole
<1> SUFFICES ASSUME IngressInv, NEW id \in Started, runs[id].run_context.yaml \in needs_source
             PROVE  Whole(Frames[runs[id].run_context.sha], source[id])
    BY DEF SourceIsWhole
<1>1. Supplied(runs[id].run_context, id, source)
    BY StartedRun DEF Justified
<1> QED
    BY <1>1 DEF Supplied

\* Whatever the frames of the tarball and the part size, a run that checks out its
\* source is started only with the whole tarball in S3, in order and in parts that S3
\* accepts (launch_coordinator_for_pipeline, upload_parts).
THEOREM SourcesAreWhole == IngressSpec => []SourceIsWhole
<1> QED
    BY IngressInvHolds, InvSource, PTL

LEMMA InvAnswered == IngressInv => AnsweredInFull
<1> SUFFICES ASSUME IngressInv, NEW i \in DOMAIN log, log[i].status = "OK"
             PROVE  LET e == log[i]
                        started == {runs[id].run_context.yaml : id \in Launched(i)}
                    IN  /\ e.request.event \in {"push", "pull_request"} /\ ~e.fault /\ DistinctSecrets(e.doc) =>
                               started = IF Addressed(e) = {} THEN {} ELSE Wanted(e.request)
                        /\ e.request.event = "retry" =>
                               \E id \in RunIds : /\ Launched(i) = {id}
                                                  /\ runs[id].run_context.retry_of = e.request.external_id
    BY DEF AnsweredInFull
<1> DEFINE e == log[i]
           started == {runs[id].run_context.yaml : id \in Launched(i)}
<1>1. Routed(e) /\ Settled(i, e, runs)
    BY DEF IngressInv, LogOK
<1>2. Launched(i) = LaunchedBy(i, runs)
    BY DEF Launched, LaunchedBy, Started
<1>3. started = Yamls(i, runs)
    BY <1>2 DEF Yamls
<1> HIDE DEF started
<1>4. ASSUME Event(e.request), ~e.fault, DistinctSecrets(e.doc)
      PROVE  started = IF Addressed(e) = {} THEN {} ELSE Wanted(e.request)
    <2>1. CASE e.tenant_slug # None
        <3>1. Yamls(i, runs) = Wanted(e.request)
            BY <1>1, <1>4, <2>1 DEF Settled
        <3>2. SentFor(e, e.tenant_slug)
            BY <1>1, <1>4, <2>1 DEF Routed
        <3>3. Addressed(e) # {}
            BY <3>2 DEF SentFor, Addressed
        <3> QED
            BY <1>3, <3>1, <3>3
    <2>2. CASE e.tenant_slug = None
        <3>1. Addressed(e) = {}
            BY <1>1, <1>4, <2>2 DEF Routed
        <3>2. Launched(i) = {}
            <4>1. ASSUME NEW id \in Launched(i) PROVE FALSE
                <5>1. id \in Started /\ runs[id].cause = i
                    BY <4>1 DEF Launched
                <5>2. log[runs[id].cause].tenant_slug # None
                    BY <5>1, StartedRun
                <5> QED
                    BY <2>2, <5>1, <5>2
            <4> QED
                BY <4>1
        <3> QED
            BY <3>1, <3>2 DEF started
    <2> QED
        BY <2>1, <2>2
<1>5. ASSUME e.request.event = "retry"
      PROVE  \E id \in RunIds : /\ Launched(i) = {id}
                                /\ runs[id].run_context.retry_of = e.request.external_id
    <2>1. e.tenant_slug # None
        BY <1>1, <1>5 DEF Routed
    <2> QED
        BY <1>1, <1>2, <1>5, <2>1 DEF Settled
<1> QED
    BY <1>4, <1>5 DEF Event, started

\* A request that was answered OK with no failure has done what it was for: an event
\* started exactly the pipelines of the commit that ask for it, or none when it is
\* for no tenant; a retry through the API started exactly the one run
\* (start_push_pipelines, start_pr_pipelines, retry_run).
THEOREM RequestsAreAnsweredInFull == IngressSpec => []AnsweredInFull
<1> QED
    BY IngressInvHolds, InvAnswered, PTL
============================================================================
