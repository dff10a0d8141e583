--------------------------- MODULE SourceUpload ----------------------------
(***************************************************************************)
(* The multipart upload of a source tarball (coordinator/src/              *)
(* source_manager.rs, upload_parts): frames of any length are collected in *)
(* a buffer and sent in parts of PartSize.  Bytes are identified by their  *)
(* position in the tarball; a part is the bytes from+1 .. from+len.        *)
(***************************************************************************)
EXTENDS Integers, Sequences, FiniteSets, SequencesExt

CONSTANT PartSize      \* PART_SIZE (8 MiB in the code)

ASSUME PartSizeAssumption == PartSize \in Nat \ {0}

\* The length of the tarball; frames are given by their lengths.
Total(frames) ==
    LET received[k \in 0..Len(frames)] == IF k = 0 THEN 0 ELSE received[k - 1] + frames[k]
    IN  received[Len(frames)]

Part(from, len) == [from |-> from, len |-> len]

\* The state of the loop: frames read, bytes in the buffer, bytes sent, parts.
EmptyUpload == [read |-> 0, buffer |-> 0, sent |-> 0, parts |-> << >>]

\* Mutant: the body's end is noticed before what is left in the buffer is sent.
upload_step_cut(frames, u) ==
    IF u.buffer < PartSize /\ u.read < Len(frames)
    THEN [u EXCEPT !.read = @ + 1, !.buffer = @ + frames[u.read + 1]]
    ELSE IF u.buffer < PartSize THEN u
    ELSE [u EXCEPT !.buffer = @ - PartSize, !.sent = @ + PartSize,
                   !.parts = Append(@, Part(u.sent, PartSize))]

\* A frame is read unless the buffer holds a part; then a part is sent.  What
\* is left at the end of the body is the last part.
upload_step(frames, u) ==
    LET len == IF u.buffer < PartSize THEN u.buffer ELSE PartSize
    IN  IF u.buffer < PartSize /\ u.read < Len(frames)
        THEN [u EXCEPT !.read = @ + 1, !.buffer = @ + frames[u.read + 1]]
        ELSE IF u.buffer = 0 THEN u
        ELSE [u EXCEPT !.buffer = @ - len, !.sent = @ + len, !.parts = Append(@, Part(u.sent, len))]

\* Every step but the last reads a frame or sends a byte at least.
upload_parts(frames) ==
    LET upload[n \in 0..Len(frames) + Total(frames)] ==
            IF n = 0 THEN EmptyUpload ELSE upload_step(frames, upload[n - 1])
    IN  upload[Len(frames) + Total(frames)].parts

\* The parts are the tarball, in order, and S3 accepts them: only the last
\* one may be shorter than PartSize.
Whole(frames, parts) ==
    /\ \A i \in DOMAIN parts :
           /\ parts[i].from = (IF i = 1 THEN 0 ELSE parts[i - 1].from + parts[i - 1].len)
           /\ parts[i].len \in (IF i = Len(parts) THEN 1..PartSize ELSE {PartSize})
    /\ Total(frames) = IF parts = << >> THEN 0 ELSE Last(parts).from + Last(parts).len

=============================================================================
