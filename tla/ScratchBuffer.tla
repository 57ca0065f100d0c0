---------------------------- MODULE ScratchBuffer ----------------------------
(***************************************************************************)
(* What the chunked transfer of section 4.5 promises its caller, with the  *)
(* chunks gone: the device holds one scratch buffer; upload(data) puts    *)
(* data at offset 0 in one step and leaves the rest of the buffer alone;  *)
(* download(n) returns the first n bytes of the buffer.  A transfer that  *)
(* does not fit the buffer fails, and a failed upload may have written    *)
(* any of its bytes in their places.  ChunkedTransfer implements this     *)
(* module.                                                                 *)
(***************************************************************************)
EXTENDS Integers, Sequences

CONSTANTS Lengths, BufferSize

VARIABLES
    state,    \* "idle", "upload", "download", "finished" or "failed"
    length,   \* the length argument of the last transfer
    staged,   \* the data argument of the last transfer, if an upload
    content,  \* the device's buffer, offset -> byte
    result    \* what the last download returned

avars == <<state, length, staged, content, result>>

Fits(n) == n <= BufferSize

\* content with bytes written from offset 0.
Overwrite(c, bytes) == [i \in DOMAIN c |-> IF i < Len(bytes) THEN bytes[i + 1] ELSE c[i]]

\* A failed upload: every byte is the old one or the data's byte for it.
PartlyOverwritten(c, c2, bytes) ==
    \A i \in DOMAIN c : c2[i] \in {c[i]} \cup (IF i < Len(bytes) THEN {bytes[i + 1]} ELSE {})

Prefix(c, n) == [i \in 1..n |-> c[i - 1]]

Init ==
    /\ state = "idle" /\ length = 0 /\ staged = <<>> /\ result = <<>>
    /\ content = [i \in 0..BufferSize - 1 |-> 0]

Upload ==
    /\ state = "idle"
    /\ \E n \in Lengths :
          /\ length' = n
          /\ staged' \in [1..n -> Nat]
          /\ IF Fits(n) THEN content' = Overwrite(content, staged')
             ELSE PartlyOverwritten(content, content', staged')
    /\ state' = "upload"
    /\ UNCHANGED result

EndUpload ==
    /\ state = "upload"
    /\ state' = IF Fits(length) THEN "idle" ELSE "failed"
    /\ UNCHANGED <<length, staged, content, result>>

Download ==
    /\ state = "idle"
    /\ \E n \in Lengths :
          /\ length' = n
          /\ result' = IF Fits(n) THEN Prefix(content, n) ELSE <<>>
    /\ staged' = <<>> /\ state' = "download"
    /\ UNCHANGED content

EndDownload ==
    /\ state = "download"
    /\ state' = IF Fits(length) THEN "idle" ELSE "failed"
    /\ UNCHANGED <<length, staged, content, result>>

Finish ==
    /\ state = "idle" /\ state' = "finished"
    /\ UNCHANGED <<length, staged, content, result>>

Next == Upload \/ EndUpload \/ Download \/ EndDownload \/ Finish

Spec == Init /\ [][Next]_avars
=============================================================================
