--------------------------- MODULE ChunkedTransfer ---------------------------
(***************************************************************************)
(* uploadData / downloadData of TestInterface.py: a payload of any length *)
(* moved through the device's scratch buffer in chunks of 256 bytes, one  *)
(* executeCommand(APP_MANAGEMENT, WRITE_BUFFER / READ_BUFFER) per chunk,  *)
(* each request carrying a 4-byte header: setShort(offset), setShort(len). *)
(*                                                                         *)
(* executeCommand is one step here (its framing is TestInterface.tla);    *)
(* the device is the environment: it writes or reads the chunk when it    *)
(* lies inside its buffer and answers WRONG PARAMETER otherwise, which    *)
(* makes executeCommand raise.                                            *)
(*                                                                         *)
(* Data bytes are abstracted to tags: byte i of the k-th upload is        *)
(* k * Tag + i, so that a byte in the wrong place or from an older upload *)
(* is told apart.                                                         *)
(***************************************************************************)
EXTENDS Integers, Sequences, SequencesExt

CONSTANTS
    Lengths,         \* data_length values the caller passes
    BufferSize,      \* bytes in the device's scratch buffer
    MaxTransfers     \* bound on uploadData + downloadData calls

ASSUME Lengths \subseteq Nat /\ BufferSize \in Nat /\ MaxTransfers \in Nat

CHUNK == 256                 \* range(0, data_length, 256)
Tag   == 100000              \* larger than any length

\* setShort(payload, index, value): two octets, (value >> 8) & 0xff first.
SetShort(value) == << (value \div 256) % 256, value % 256 >>

\* The device reads the header's shorts big-endian again.
GetShort(s) == s[1] * 256 + s[2]

\* Mutant: a full chunk announced with the 260-byte payload length.
ChunkLenWithHeader(len, x) == IF len - x < CHUNK THEN len - x ELSE CHUNK + 4

\* The chunk length the loop puts in the header at offset x.
ChunkLen(len, x) == IF len - x < CHUNK THEN len - x ELSE CHUNK

Data(k, n) == [i \in 1..n |-> k * Tag + i]

\* Python's s[a:b]: cut short at the end of s.
Slice(s, a, b) == SubSeq(s, a + 1, IF b > Len(s) THEN Len(s) ELSE b)

VARIABLES
    pc,          \* "idle", "upload", "download", "finished" or "failed"
    op,          \* the last transfer started: "none", "upload", "download"
    data_length, \* the argument of the running transfer
    data,        \* uploadData's data argument
    x,           \* the loop variable of range(0, data_length, 256)
    result,      \* downloadData's accumulated data
    ntransfers,
    headers,     \* the chunk headers sent by the running transfer, decoded
    uploaded,    \* the data of the last upload that completed
    buffer       \* device: the scratch buffer, offset -> tag (0 = never written)

vars == <<pc, op, data_length, data, x, result, ntransfers, headers, uploaded, buffer>>

TypeOK ==
    /\ pc \in {"idle", "upload", "download", "finished", "failed"}
    /\ op \in {"none", "upload", "download"}
    /\ data_length \in Nat /\ data \in Seq(Nat) /\ x \in Nat
    /\ result \in Seq(Nat) /\ ntransfers \in 0..MaxTransfers
    /\ headers \in Seq([offset : 0..65535, length : 0..CHUNK])
    /\ uploaded \in Seq(Nat)
    /\ buffer \in [0..BufferSize - 1 -> Nat]

Init ==
    /\ pc = "idle" /\ op = "none"
    /\ data_length = 0 /\ data = <<>> /\ x = 0 /\ result = <<>>
    /\ ntransfers = 0 /\ headers = <<>> /\ uploaded = <<>>
    /\ buffer = [i \in 0..BufferSize - 1 |-> 0]

-----------------------------------------------------------------------------
(* The device's WRITE_BUFFER and READ_BUFFER handlers                     *)

InBuffer(offset, n) == offset + n <= BufferSize

WriteBuffer(offset, bytes) ==
    [i \in DOMAIN buffer |-> IF offset <= i /\ i < offset + Len(bytes)
                             THEN bytes[i - offset + 1] ELSE buffer[i]]

ReadBuffer(offset, n) == [i \in 1..n |-> buffer[offset + i - 1]]

-----------------------------------------------------------------------------
(* uploadData                                                             *)

\* uploadData(data_length, data): the callers pass len(msg) with msg, or
\* (sha256) a length that may be one byte short of the data.
StartUpload ==
    /\ pc = "idle" /\ ntransfers < MaxTransfers
    /\ \E len \in Lengths, extra \in {0, 1} :
          /\ data_length' = len
          /\ data' = Data(ntransfers + 1, len + extra)
    /\ x' = 0 /\ headers' = <<>>
    /\ pc' = "upload" /\ op' = "upload" /\ ntransfers' = ntransfers + 1
    /\ UNCHANGED <<result, uploaded, buffer>>

\* Mutant: every chunk is cut from the start of data.
UploadChunkFromStart ==
    /\ pc = "upload" /\ x < data_length
    /\ LET n      == ChunkLen(data_length, x)
           hdr    == SetShort(x) \o SetShort(n)
           bytes  == Slice(data, 0, n)
           offset == GetShort(SubSeq(hdr, 1, 2))
           len    == GetShort(SubSeq(hdr, 3, 4))
       IN  /\ headers' = Append(headers, [offset |-> offset, length |-> len])
           /\ IF InBuffer(offset, len)
              THEN /\ buffer' = WriteBuffer(offset, bytes)
                   /\ x' = x + CHUNK /\ UNCHANGED pc
              ELSE /\ pc' = "failed"
                   /\ UNCHANGED <<buffer, x>>
    /\ UNCHANGED <<op, data_length, data, result, ntransfers, uploaded>>

\* One loop iteration: header + data[x:] (writePacket sends only
\* payload_length = chunk + 4 bytes of it), executeCommand(WRITE_BUFFER).
UploadChunk ==
    /\ pc = "upload" /\ x < data_length
    /\ LET n      == ChunkLen(data_length, x)
           hdr    == SetShort(x) \o SetShort(n)
           bytes  == Slice(data, x, x + n)
           offset == GetShort(SubSeq(hdr, 1, 2))
           len    == GetShort(SubSeq(hdr, 3, 4))
       IN  /\ headers' = Append(headers, [offset |-> offset, length |-> len])
           /\ IF InBuffer(offset, len)
              THEN /\ buffer' = WriteBuffer(offset, bytes)
                   /\ x' = x + CHUNK /\ UNCHANGED pc
              ELSE /\ pc' = "failed"      \* RuntimeError("ExecuteCommand Returned: ...")
                   /\ UNCHANGED <<buffer, x>>
    /\ UNCHANGED <<op, data_length, data, result, ntransfers, uploaded>>

UploadDone ==
    /\ pc = "upload" /\ x >= data_length
    /\ pc' = "idle" /\ uploaded' = SubSeq(data, 1, data_length)
    /\ UNCHANGED <<op, data_length, data, x, result, ntransfers, headers, buffer>>

-----------------------------------------------------------------------------
(* downloadData                                                           *)

StartDownload ==
    /\ pc = "idle" /\ ntransfers < MaxTransfers
    /\ \E len \in Lengths : data_length' = len
    /\ x' = 0 /\ result' = <<>> /\ headers' = <<>>
    /\ pc' = "download" /\ op' = "download" /\ ntransfers' = ntransfers + 1
    /\ UNCHANGED <<data, uploaded, buffer>>

\* Mutant: the loop runs over range(0, data_length + 1, 256).
DownloadChunkInclusive ==
    /\ pc = "download" /\ x <= data_length
    /\ LET n      == ChunkLen(data_length, x)
           hdr    == SetShort(x) \o SetShort(n)
           offset == GetShort(SubSeq(hdr, 1, 2))
           len    == GetShort(SubSeq(hdr, 3, 4))
       IN  /\ headers' = Append(headers, [offset |-> offset, length |-> len])
           /\ IF InBuffer(offset, len)
              THEN /\ result' = result \o ReadBuffer(offset, len)
                   /\ x' = x + CHUNK /\ UNCHANGED pc
              ELSE /\ pc' = "failed"
                   /\ UNCHANGED <<result, x>>
    /\ UNCHANGED <<op, data_length, data, ntransfers, uploaded, buffer>>

\* One loop iteration: executeCommand(READ_BUFFER, 4, header), then
\* data = data + self.payload.
DownloadChunk ==
    /\ pc = "download" /\ x < data_length
    /\ LET n      == ChunkLen(data_length, x)
           hdr    == SetShort(x) \o SetShort(n)
           offset == GetShort(SubSeq(hdr, 1, 2))
           len    == GetShort(SubSeq(hdr, 3, 4))
       IN  /\ headers' = Append(headers, [offset |-> offset, length |-> len])
           /\ IF InBuffer(offset, len)
              THEN /\ result' = result \o ReadBuffer(offset, len)
                   /\ x' = x + CHUNK /\ UNCHANGED pc
              ELSE /\ pc' = "failed"
                   /\ UNCHANGED <<result, x>>
    /\ UNCHANGED <<op, data_length, data, ntransfers, uploaded, buffer>>

DownloadDone ==
    /\ pc = "download" /\ x >= data_length
    /\ pc' = "idle"
    /\ UNCHANGED <<op, data_length, data, x, result, ntransfers, headers, uploaded, buffer>>

Finish ==
    /\ pc = "idle" /\ pc' = "finished"
    /\ UNCHANGED <<op, data_length, data, x, result, ntransfers, headers, uploaded, buffer>>

Next ==
    \/ StartUpload \/ UploadChunk \/ UploadDone
    \/ StartDownload \/ DownloadChunk \/ DownloadDone
    \/ Finish

Spec == Init /\ [][Next]_vars

-----------------------------------------------------------------------------
(* Refinement of ScratchBuffer.  The abstract upload happens when          *)
(* uploadData starts: from then on the abstract buffer is the concrete one *)
(* with every chunk the loop will write already written -- all of data,    *)
(* or, when data does not fit, the whole 256-byte chunks below BufferSize, *)
(* the ones before the chunk the device refuses.  Likewise the abstract    *)
(* download returns its bytes when downloadData starts; the buffer does    *)
(* not change while the loop reads it.                                     *)

\* Bytes a transfer of len bytes moves before its first refused chunk.
Reached(len) == IF InBuffer(0, len) THEN len ELSE (BufferSize \div CHUNK) * CHUNK

AbsContent ==
    IF pc = "upload" THEN WriteBuffer(0, SubSeq(data, 1, Reached(data_length)))
    ELSE buffer

AbsResult ==
    CASE pc = "download" /\ InBuffer(0, data_length) -> ReadBuffer(0, data_length)
      [] op = "download" /\ pc \in {"download", "failed"} -> <<>>
      [] OTHER -> result

SB == INSTANCE ScratchBuffer WITH
        state <- pc, length <- data_length, content <- AbsContent, result <- AbsResult,
        staged <- IF op = "upload" THEN SubSeq(data, 1, data_length) ELSE <<>>

\* uploadData / downloadData implement the atomic buffer of section 4.5:
\* each completed call leaves the buffer, and returns the bytes, that one
\* atomic upload or download would, and a refused chunk fails the call
\* with only a prefix of the data written.
ImplementsScratchBuffer == SB!Spec

-----------------------------------------------------------------------------
(* Properties                                                             *)

\* The chunks the spec prescribes for a transfer of len bytes: offsets
\* 0, 256, 512, ... below len, each min(256, len - offset) long.
SpecChunks(len) ==
    LET k == (len + CHUNK - 1) \div CHUNK
    IN  [i \in 1..k |-> [offset |-> (i - 1) * CHUNK,
                         length |-> IF len - (i - 1) * CHUNK < CHUNK
                                    THEN len - (i - 1) * CHUNK ELSE CHUNK]]

\* Chunk-boundary arithmetic of the uploadData / downloadData loops: a
\* transfer that completed sent exactly ceil(len/256) chunk headers, and
\* they tile [0, len) in order, none longer than the 256-byte buffer window.
ChunksTileTransfer ==
    (pc = "idle" /\ op # "none") => headers = SpecChunks(data_length)

\* Upload then download round trip: a download that completed, of no more
\* bytes than the last completed upload, returns that upload's bytes in
\* order -- no byte of an older upload, none shifted across a chunk border.
DownloadReturnsUpload ==
    (pc = "idle" /\ op = "download" /\ data_length <= Len(uploaded)) =>
        result = SubSeq(uploaded, 1, data_length)

=============================================================================
