# TLA+ models of the Talos test-interface client

This directory models `src/tools/test-interface`, the Python client that drives
the embedded crypto test device over a serial line or TCP. It uses TLA+ and
checks the models with TLC. The models cover:

- the client's byte-level protocol engine;
- its chunked buffer transfer;
- its timer-report decoder;
- its big-number codec;
- the CAVS test-vector reader;
- the CCM decryption benchmark, composed of the reader, the AppCCM wrapper
  and the device's switch dispatch.

## The system

The repository has these parts, and they interact as follows.

- **Byte transport** (`TestInterface.py`: `TCPWrapper`, `open`, `connect`,
  `reset`, `readByte`).
  - A serial read has a 5 s timeout.
  - `TCPWrapper.read` loops on `recv` and never times out.
  - `reset()` toggles RTS/DTR on serial. Over TCP it sends a REBOOT packet.
- **Packet framer** (`writePacket`, `readPacket`). A packet is laid out as:
  - four `0xAA` bytes;
  - app;
  - function;
  - a big-endian u16 length;
  - the payload.

  `readPacket` skips chatter before the first `0xAA`. It raises
  `IOError("Unexpected Input")` on a non-`0xAA` byte inside the magic.
- **Command executor** (`readResponse`, `executeCommand`, `getResult`).
  - `readResponse` skips `APP_DEBUG` packets.
  - `executeCommand` raises `RuntimeError` with `getResult`'s text when the
    result byte is not 0.
- **Session driver** (`TerminalApplication.main`). It opens or connects, then
  optionally calls `reset()` followed by one bare `readResponse()`. After that
  it issues commands. Only `KeyboardInterrupt` is caught, so every other error
  ends the process.
- **Chunked transfer** (`uploadData`, `downloadData`). Data moves in 256-byte
  chunks through the device's scratch buffer. Each chunk is one
  `executeCommand` with a `setShort(offset), setShort(length)` header.
- **Measurement decoder** (`AppTimer.py`).
  - `readMultiValueMeasurements` issues `GET_COUNT`, which answers with one
    byte.
  - It then issues `GET_VALUES`, which answers with `count*8` bytes of
    big-endian key/value pairs.
  - `readMeasurementsAndSum` and `readMeasurements` reduce each key's values
    to their sum and to the last value.
- **BigNum codec** (`ECurve.py`). `setBigNum` writes a hex string as
  32-bit words in word-swapped order: the least significant word first, each
  word big-endian. `getBigNum` reads the words back and formats them with
  `"%0.8x"`.
- **CAVS reader** (`CavsReader.py`). `seek()` empties the one `entry` dict,
  rewinds the file and puts every line before the section header into the
  entry. Each `next()` reads lines into that same dict until it has seen one
  line per element, reads one line more (parsed only after `enablePeekOne`)
  and returns the dict. A `[` line or the end of the file ends the iteration.
- **Application wrappers** (`AppCCM.py`, `AppAES.py`, ...). Each method is
  one or two `executeCommand` calls with a fixed (app, function) pair from
  enums copied from the firmware's `test-interface.h`.
- **Benchmark scripts** (`ccm-decrypt-benchmark.py`, `aes-benchmark.py`,
  `cmc-benchmark.py`, `ecdsa-sign-benchmark.py`, `ecdsa-keypair-benchmark.py`,
  ...). Subclasses of `TerminalApplication` whose `execute_test` loops over
  the vectors the CAVS reader yields and runs each one `cycles` times. The CCM,
  AES and CMC scripts check the downloaded result only when no output file is
  given; the ECC scripts always check the answer. All hand the timings to
  `MeasurementWriter`.
- **Generator scripts** (`aes-generate-cavs.py`, `ccm-generate-cavs.py`,
  `ecdsa-generate-cavs.py`). They draw random keys and messages, have the
  device compute the results, and write them as CAVS vectors that the
  benchmarks read.

## Modules

| Module | Models | State | Actions |
|---|---|---|---|
| `TestInterface` | transport, framer, executor, session | the client object's fields (`app`, `function`, `payload_length`, `payload`), `readPacket`'s locals (`count`, the length's high byte) and a control point; the two link directions (`tx` packets, `rx` bytes); the device (busy or idle, its UART queue, a log of every answer it sent) | `Open` (`connect` or `open`, either of which may raise `IOError`, then main's `args.reset` choice, `AfterConnect`), `ResetSerial`, `ResetTcp` (each ending in main's `readResponse()` drain, `DrainBoot`), `ExecuteCommand`, `Finish`; one action per `readByte` of `readPacket` (`HuntMagic`, `CountMagic`, `ReadApp`, `ReadFunction`, `ReadLenHi`, `ReadLenLo`, `ReadPayload`); `ByteTimeout`, `PayloadTimeout`; the device's `DevReceive`, `DevRespond`, `DevDebug`, `DevSendByte`; over TCP, `PeerClose` (the peer closes the socket) |
| `CommandRPC` | the contract `TestInterface` offers its caller | the session state (`start`, `ready`, `busy`, `done`, `failed`), the call number, the returned payload, the error, the device's answers | `Drained`, `Call`, `Return`, `Reject`, `Abort`, `Finish`, the device's `Answer` |
| `ChunkedTransfer` | `uploadData`, `downloadData` | the loop variable, the headers sent, the accumulated result, the device buffer | `StartUpload`, `UploadChunk`, `UploadDone`, `StartDownload`, `DownloadChunk`, `DownloadDone`, `Finish` |
| `ScratchBuffer` | what `uploadData` / `downloadData` promise (section 4.5), chunks taken out | the call state, the last length and upload data, the buffer, the last download's result | `Upload`, `EndUpload`, `Download`, `EndDownload`, `Finish` |
| `Measurements` | `AppTimer` | the `GET_COUNT` count, the returned measurements, the device's timer log and output switch | `SwitchTimerOutput` (`enableTimerOutput`/`disableTimerOutput`), `ClearTimer`, `ReadCount`, `ReadValues`, `Finish`, the device's `TimerEvent` |
| `BigNumCodec` | `ECurve.setBigNum` / `getBigNum` on the request payload of every `AppECC` wrapper (`EccCount`: 1, 2 or 3 operands; `VerifyPayload`: `verifySignature`'s `byte_count` word), and `ECurve.setCurve`'s `EC_SET_CURVE` payload | the wrapper (`cmd`), the leading word (`word`), the payload list, the operands, the decoded strings | `Init` (the zeroed payload, with setCurve's size word or verifySignature's `byte_count`), `SetOperand` (one `setBigNum` call), `GetOperands` |
| `CavsReader` | `CavsReader` | the file's lines, the cursor, `section`, `peek`, the shared `entry` dict, and the entries returned so far | `SelectSection`, `EnablePeekOne`, `Iter` (`__iter__`/`seek`), `Next1` (`next`); `seek` and `next`'s loops are the recursive operators `SeekFrom` and `NextFrom` |
| `MeasurementReader` | `MeasurementReader.loadAndSum`, `loadAndAggregate`, `plot` | the loaded file (test name -> key -> values), the reader's `data` (test name -> column -> values), the loads made, and whether the analysis raised | `LoadAndSum`, `LoadAndAggregate` (with its `ValueError`), `Plot` (its `ValueError` path); `loadAndSum`'s and `loadAndAggregate`'s loops are the folds `loadAndSum` and `aggregateAll` |
| `Benchmark` | `TerminalApplication.main`'s engine switch and `-e` timer output, and the `execute_test` of all twelve scripts (`app`), with the `AppCCM`, `AppAES`, `AppECC`, `AppECElgamal`, `AppPailler` and `AppTimer` wrappers (each setter an operator of its own: `setKey`, `setIV`, `switchToMode`, `selectCurve`, `setPrivateKey`, `setExponent`, `mapToECAlternative`, ...) | the reader's fields (through `INSTANCE CavsReader`, one instance per script's element list), the script's loop position, `args`, the sections, lengths or sizes still to do, the current vector, the cycle count, the vectors run and written, the client's curve; the device's switches, key, IV, buffer, curve and ECC keys, its last answer | `MainSwitch`; ccm: `CcmStart`, `NextSection`, `CcmNextVector`, `CcmCycle`; aes: `AesStart`, `AesNextVector`, `AesCycle`; cmc: `CmcStart`, `CmcNextVector`, `CmcCycle`; ecdsa-sign and -keypair: `EccNextSection` (`selectCurve`), `EcdsaNextVector`, `KeypairNextVector`, `EcdsaCycle`, `KeypairCycle`; generators: `GenVector` (AES), `EccGenVector`, `CcmGenVector`; ec-elgamal and pailler: `ElGamalStart`, `PaillierStart`, `PkNextSize`, `ElGamalCycle`, `PaillierCycle`; sha256: `ShaStart`, `ShaNextVector` (`uploadData` once per vector), `ShaCycle`, and the generator `ShaGenVector`; every cycle action also applies `MeasurementWriter.add` (`add`) to `data`; after a finished script, `Analysis` runs `MeasurementReader` on the saved data |

Notes on the modules:

- **`CommandRPC` and the refinement.** `CommandRPC` is the client's
  promise, with the byte link taken out: one call at a time. Each call
  returns the payload of the device's SUCCESS answer to that call, fails
  with `CommandFailed` on its non-success answer, or aborts on a read
  error (or, before any call, on a link that cannot be opened). A failed session stays failed. `TestInterface` instantiates it
  as `RPC` with a refinement mapping:
  - `RpcState` maps `open`, `reset`, and a read inside main's drain, to `start`;
    a read inside `executeCommand` to `busy`; `idle` to `ready`.
  - `RpcResult` is `self.payload` while the caller holds a returned
    answer.
  - `n`, `error` and `answers` are `ncmd`, `err` and `answered`.

  Each byte read is a stutter step of the contract. `test_interface`
  checks `RPC!Spec` as the property `ImplementsCommandRPC`.

- **`ScratchBuffer` and the second refinement.** `ScratchBuffer` is the
  atomic buffer: an upload writes all of its data at offset 0 in one step
  and leaves the rest alone; a download returns the first bytes. A transfer
  longer than the buffer fails, and a failed upload may leave any of its
  bytes in their places. `ChunkedTransfer` instantiates it as `SB`:
  - the abstract upload is the step that starts `uploadData`; during the
    loop, `AbsContent` is the buffer with every chunk the loop will still
    write already written (`Reached`: all of the data, or the whole chunks
    below `BufferSize` when the device will refuse one);
  - the abstract download is the step that starts `downloadData`;
    `AbsResult` is the bytes the loop will return, since the buffer does
    not change meanwhile;
  - each chunk is a stutter step; `UploadDone` / `DownloadDone` and the
    refused chunk are `EndUpload` / `EndDownload`, where the mapped value
    must meet what the chunks really did.

  `chunked_transfer` checks `SB!Spec` as `ImplementsScratchBuffer`.

- **`ChunkedTransfer`, `Measurements`, `BigNumCodec`.** Each
  `executeCommand` is one atomic step. Its framing is what `TestInterface`
  checks.
- **`CavsReader`.** A line is a record of its kind (`kv`, `section` or
  `blank`), key and value: what `line.partition("=")` and `strip()` give.
  Values are tags such as `"c1"`, so a value from the wrong record is
  visible.
- **`Benchmark`.**
  - One loop iteration of a script is one step, and every wrapper call in it
    is part of that step.
  - A cipher result is a record naming what was computed from what: an AES
    result names the operation, mode, key, IV and input; a CMC result is
    undone by the inverse operation under the same key; an EC point names its
    curve, scalar and base point, and a signature its curve, keys and message.
    So a result computed from the wrong key, IV or buffer is visible.
  - The device answers a CCM decryption (`CcmDecrypt`) with the vector's
    plaintext when it holds the vector's key and message (`CcmHolds`), and
    nothing for a Fail vector or for any other buffer, since that fails
    authentication. An in-place decryption leaves `[ccmOut |-> p]` in the
    buffer, and `CcmCycle` applies the script's re-upload (`CcmReupload`)
    when upload is on. With `DeviceFaulty` it may answer wrongly (for ECC, one
    of the two operands wrong). Whether it writes a result back into its
    buffer (`inPlace`) is firmware behaviour, and both are explored.
  - `CURVE_INFO` keeps each curve's size in words; the curve constants
    themselves are `BigNumCodec`'s subject.
  - The MC files are a `ccm-generate-cavs.py` decryption file, a NIST DVPT
    file with Pass and Fail vectors in two sections, an `[AES]` file, a
    SigGen file with two curves and a KeyPair file, each given to the
    scripts that read that format. Their ECC values are those of a correct
    device.
  - ElGamal and Paillier: a plaintext is a fresh tag per size and cycle.
    An encryption names its key and input, and decryption under the same
    key gives the input back. `AppECElgamal` and `AppPailler` have no
    `switchToSoftwareCrypto`, so main's `-r` leaves the device alone.
    ElGamal's `setPlainText` raises `IndexError` for a size whose words do
    not fit P-192's 24 bytes.
  - Measurements: `data` is `MeasurementWriter.data` and `add` is
    `MeasurementWriter.add`. Each cycle action adds what its script adds,
    under the script's test name and key: CCM `int(Plen)` with `{nb-1: ...}`;
    AES and CMC the message length with key 1 (`readMeasurements()`);
    ECDSA `"<bits>-tot"` and `"<bits>-mul"`, and keypair `"<bits>"`, with
    `{nb-1: ...}`; ElGamal and Paillier `"<size>-map"`, `"-enc"` and
    `"-dec"` with key 1. `nb` is the script's counter, reset per section
    where the script resets it.
    `save()` is file I/O and not modelled; the data it would dump is `data`.
  - A timer value is the number `MeasValue(tag, vector, cycle)`, one
    number per tag, vector and cycle, so the reader can add values and a
    lost or doubled value is still visible.
  - A test name is the list of its `"-"`-separated parts (`<<"192", "tot">>`,
    `<<"24">>`), which is what `split("-")` gives back.
- **`Benchmark` composed with `MeasurementReader`.** `Benchmark`
  instantiates the reader as `RD`, with the writer's `data` as the reader's
  `file`: the file `save()` dumps is what `json.load` gives back. Once a
  script is done and has saved measurements, `Analysis` takes one reader
  step: `loadAndSum` or `loadAndAggregate` under one of two algorithm
  names (at most `MaxLoads` loads), or `plot`. `dict` iteration order is
  not fixed by Python; the model takes one order and the properties do not
  depend on it.
- **`ChunkedTransfer`.** Data bytes are tags (byte `i` of upload `k` is
  `k*100000+i`), so a misplaced or stale byte is visible.
- **`BigNumCodec`.**
  - A hex string is a tuple of one-character strings.
  - `int(s,16)`, `setLong`, `getLong` and `"%0.8x"` are modelled digit by
    digit. That is what they compute, and it keeps TLC below 2^31.
  - Python's slice `value[x-8:x]` is modelled exactly, negative start
    included.
  - `setCurve` builds `[0]*(4 + 4*6*getNumSize())`, writes the size with
    `setLong` at offset 0, and the six curve constants at
    `4 + t*getNumSize()*4`. The constants are `getNumSize()` whole
    upper-case words, as every `CURVE_INFO` entry is; the MC takes them
    from the inputs of that form. Nothing reads the curve payload back.
  - `AppECC`'s wrappers build `[0]*(k*4*getNumSize())` and write `k`
    operands at `t*getNumSize()*4`: `k` is 1 for `setPrivateKey`,
    `setEphemeralKey` and `calculatePublicKey`, 2 for `setGenerator` and
    `setPublicKey`, 3 for `multiply`. `verifySignature` puts
    `setLong(byte_count)` first and R, S at `4 + t*getNumSize()*4`.
    No script calls `setGenerator`, `setPublicKey` or `verifySignature`;
    their payloads are checked all the same, as the wrappers a later
    script would use.
- **The device.** Each MC module binds the constants.

Definitions that model the device are marked `spec_modelled` in
`PROJECT.json`, because the firmware is not in this repository. They follow
the spec and the enums the client copies from `test-interface.h`. All other
definitions are mapped in `PROJECT.json` to the lines they translate.

## Runs

| Run | Result | What it shows |
|---|---|---|
| `test_interface` (`TestInterface.cfg`) | pass, 441,714 states | Serial or TCP link that may fail to open (`IOError`), a TCP peer that may close the connection once it is open, reset on or off, up to 2 commands and a debug packet at any moment. `ResponsePairing`: when `executeCommand` returns, `self.payload` is the success answer to that very command. `NoSpuriousFailure`: a `RuntimeError` is raised only for that command's own failure answer, with `getResult`'s text. `SerialSessionEnds`: every serial session ends. `ImplementsCommandRPC`: the client refines `CommandRPC` (see the module notes). |
| `chunked_transfer` | pass, 10,168 states | Lengths 0, 1, 255, 256, 257, 512, 513 and 700 (which overflows the 600-byte buffer). `ChunksTileTransfer`: the headers tile `[0,len)` exactly. `DownloadReturnsUpload`: a download returns the last upload's bytes. `ImplementsScratchBuffer`: the loops refine `ScratchBuffer`, so no chunk writes outside the data's place or returns a byte the buffer does not hold. |
| `measurements` | pass, 2,742,387 states | `ReadMatchesDevice`: the report and its sum/last views equal the device's log as of `GET_VALUES`, grouped in arrival order. A timer event between `GET_COUNT` and `GET_VALUES` makes the read fail; no property states more about that failure than its guard does. |
| `bignum_codec` | pass, 26,274 states | `LayoutMatchesSpec`: setBigNum writes operands that keep to the contract in the spec's layout, in the payloads of `setPublicKey`, `multiply`, `calculatePublicKey` and `verifySignature` and behind setCurve's size word and verifySignature's `byte_count`, which no operand overwrites. `RoundTripValue`: getBigNum returns the same number. |
| `cavs_reader` | pass, 126 states | `RecordsInOrder`: the i-th entry `next()` returns holds the i-th record's element values. `AllRecordsPresented`: when the iteration stops, every record of the section was returned. Files have a preamble, shared non-element lines, extra lines after the elements, empty sections and a missing section. |
| `benchmark` | pass, 16,750 states | All twelve scripts, a device that may answer wrongly, in-place or not. `EveryVectorRun`: a script that completes ran every vector of its sections (ElGamal and Paillier: every size) once, in order. `CcmTimesOwnVector`: with upload on, every CCM decryption a cycle times runs on the vector's own key and message, on an in-place device too. Without upload, the second and later cycles of a vector time a decryption of the previous output, which is why the timings are only trustworthy with upload on. `CorrectDeviceFailsOnlyOnStaleBuffer`: a correct device fails a check only through what an earlier cycle left in its buffer. `aes-benchmark` and `sha256-benchmark` upload once per vector, so they fail an in-place device after the first cycle. `cmc-benchmark`'s round trip decrypts the buffer, so it fails a device that is not in place. The ECC and Paillier checks never fail a correct device. All three failing cases are reachable, so for either buffer behaviour one of the AES and CMC benchmarks fails a correct device. `GeneratedVectorsConsistent`: every vector `ecdsa-generate-cavs`, `sha256-generate-cavs` and `ccm-generate-cavs` write is consistent (public key, shared point and signature; the digest of the `int(Len)/8` bytes `sha256-benchmark` hashes; CCM ciphertext). `MeasurementsKept`: when a script finishes, the data `save()` would dump holds every timer value of every cycle of every vector exactly once, although CCM sections with the same `Plen`, and AES and CMC vectors with the same length, share test names and keys. `SumKeepsTotals`: after any loads of that file, each column `loadAndSum` builds holds, position by position, the sum over the test's keys times the number of loads, with lists of different lengths padded, not cut. `AggregateKeepsAll`: when `loadAndAggregate` has not raised, its column algorithm-phase of each key size holds every value of the test exactly as many times as it was loaded. |
| `session_ends_tcp` | violation | `ClosedReadEnds`: a read over TCP whose peer has closed the connection should end, since spec 4.3 makes a short read a failure. In TLC's trace the host sends a command, the peer closes, and `TCPWrapper.read` spins forever on `recv`'s `''` (`TestInterface.py:48`). A silent but open peer is the waiting-without-timeout asymmetry that spec 5 concedes, and is not what this run checks. |
| `bignum_round_trip_exact` | violation | An upper-case hex operand comes back in lower case. The ECDSA benchmarks compare `getBigNum` output with file values as strings. |
| `cavs_last_record` | violation | A file whose last line is an element line loses its last record (`CavsReader.py:77`). |
| `upload_switch` | violation | `AppCCM.enableUpload` and `AppAES.enableUpload` (used by `aes-benchmark` and `cmc-benchmark`) send `(APP_MANAGEMENT, 2)`, which is `SWITCH_PKA`. The application's upload switch is never set. |
| `ccm_output_check` | violation | The `else` at `ccm-decrypt-benchmark.py:101` belongs to the wrong `if`. A Fail vector the device correctly rejects raises "Test Vector failed", because its check reads a `Payload` left in the shared entry by an earlier record. The run uses the NIST file and a correct device (`DeviceFaulty = FALSE`). A second bug of the same check is listed as a hazard, not shown by this run: a Pass vector is never compared at all, and `ccm-generate-cavs.py` writes only Pass vectors. |
| `aesgen_vectors` | violation | `aes-generate-cavs.py:72` calls `setIV` with the key but writes the fresh `iv` into the file, so its CBC and CTR values are not the encryptions of the vector's `Msg` under its `Key` and `IV`. |

Each property of a passing run has a mutant in `PROJECT.json`: a plausible bug
in the mapped code that TLC shows the property catches. The mutants are:

- a magic counter that is not reset;
- a payload that is not replaced;
- `getResult` looking up `code-255`;
- a read without a timeout;
- a command issued after a read has failed (breaks `ImplementsCommandRPC`);
- a chunk length that includes the header;
- an inclusive download loop;
- chunks cut from offset 0 (also breaks `ImplementsScratchBuffer`);
- a little-endian `getLong`;
- first value wins in `readMeasurements`;
- `"%x"` without padding;
- setCurve's operands written from offset 0, over the size word;
- ascending word order in `getBigNum`;
- `seek` stopping one line past the header;
- a `Put` that keeps a key's first value;
- `next`'s end-of-file test one line early;
- a cycle loop that runs `cycles + 1` times;
- `aes-benchmark` without the `uploadMessage` of each vector;
- `ccm-decrypt-benchmark` without the `uploadMessage` after each check;
- `ecdsa-generate-cavs` without `setPrivateKey` before the signature;
- a `MeasurementWriter.add` that replaces a key's list instead of appending;
- a `loadAndSum` that overwrites a position instead of adding to it;
- a `loadAndAggregate` column named without the phase;
- `sha256-generate-cavs` writing `Len` in bytes rather than bits.

## Bounds and why they suffice

- **`TestInterface`.**
  - `MaxCmds = 2`, so that a stale answer has a later command to pair with.
  - `MaxDebug = 1`, a debug packet that can land before, between or inside
    answers, including during a reset.
  - Result bytes 0 (success), 200 (not in the table) and 255 (`ERROR`), which
    cover every branch of `getResult`.
  - Two commands with different apps and payloads, one of them containing a
    `0xAA` byte, so that a payload byte equal to the magic is exercised.
- **`ChunkedTransfer`.** Lengths on both sides of each 256-byte boundary, and
  one that exceeds the buffer so that the device's error path runs. Three
  transfers, so that a download can follow two uploads.
- **`Measurements`.**
  - Two keys, so that grouping matters.
  - Values 5 and 0x01020304, whose four octets differ, so that byte order
    matters.
  - At most 3 log entries, so that a key can repeat.
  - 3 reads, so that a read can race with a timer event.
- **`CavsReader`.** Six files, one per layout the scripts meet. Two
  records per section, so that a value carried over from the previous record
  is visible.
- **`Benchmark`.**
  - Two cycles, so that the cycle loop repeats on one upload.
  - `-e` (`args.export`) on or off, so main's and the ccm, aes and cmc
    scripts' `enableTimerOutput` both run.
  - CCM: one or two sections in either order, so that `seek` runs after
    another section's records. A NIST file with a Fail vector after a Pass
    vector, and one opening the second section.
  - AES: modes 1 and 3 and the unknown mode 4; register or DMA; encrypt or
    decrypt. Two vectors.
  - ECC: two sections on different curves, and a section name missing from
    `CURVE_INFO` (`KeyError`). Two vectors in the first section, so the
    shared entry carries values over.
  - Measurements: both CCM sections have `Plen = 24` and every AES/CMC
    message is 16 bytes, as in the NIST files, so test names and keys
    collide across sections and vectors.
  - ElGamal and Paillier: the size ranges `1, 24` and `24, 25`. 24 is
    the last size P-192 holds and 25 the first it does not.
  - Reader: two algorithm names and `MaxLoads = 2`, so a file is loaded
    twice under one name (the sums double) or once under each, and a sum
    and an aggregate can follow each other. The ECDSA names split and the
    AES, CCM and keypair names do not, so both sides of
    `loadAndAggregate`'s `ValueError` and of `plot`'s are reached.
  - Generators: two lengths (AES, CCM); `EccGenNum = 2` vectors per curve
    over all four curves in every dict order; SHA-256 ranges `0, 1`
    (`getrandbits(0)`'s `ValueError`) and `1, 16`.
  - SHA-256: a NIST-style ShortMsg file whose first record is `Len = 0`,
    `Msg = 00` (nothing uploaded, so the buffer holds the previous
    message), then 1 and 16 bytes; and a file with a `Len` longer than its
    `Msg`, for `uploadData`'s `RuntimeError`.
- **`BigNumCodec`.**
  - Sizes 1 to 3 words; wrappers with 1 (`calculatePublicKey`), 2
    (`setPublicKey`, `verifySignature`) and 3 (`multiply`) operands, so
    that an operand lies between two others; `setCurve` with six
    constants of every size, each from the inputs of that many upper-case
    words.
  - `byte_count` 64 and 70000, whose `setLong` fills the word's upper
    bytes.
  - Upper- and lower-case words and distinct digits, so that word order and
    byte order matter.
  - Inputs of 4, 6 and 12 digits, which reach the truncating slice and the
    `ValueError` path.

## Fairness

`TestInterface` assumes:

- weak fairness of the host: the Python process keeps running, and a serial
  read returns within its timeout;
- weak fairness of the device UART sending queued bytes;
- weak fairness of the device taking a command off the link.

It does not assume that the device answers, nor that a TCP peer keeps the
connection open. The device may hang, and only the serial timeout then ends
the read. Over TCP a read has no timeout. Once the peer has closed, `recv` returns `''` at once on every call, so the read spins forever; `session_ends_tcp` shows this.
The other modules check safety only.

## Not modelled, and the plan

Later work could add these:

1. **`readMeasurements()[1]` and `raw_measurement[7]` without the key:**
   the timer's keys are firmware behaviour; the model takes them as
   present, and a missing one ends the run before `save()`.
2. **`AppSha256` itself,** if it is added to the repository: its engine
   switch and the wire form of `calculateHash`.

`TestInterface.close` and `TCPWrapper.close` are never called: every
script ends with the process, which closes the port.

The following are not modelled at all:

- `TestInterface.AppSha256`, which both SHA-256 scripts import: the
  repository does not contain it, so as they stand both scripts stop with
  `ImportError`. `Benchmark` runs them as if it were there: its engine
  switch (`SwitchSha`) leaves the device alone, and `calculateHash(n)`
  answers the digest of the buffer's first `n` bytes, which is what the
  script's `MD` check takes it to be.
- `MeasurementReader.plot`'s output: the numpy means and standard
  deviations over floats, and the file layout. Only its `ValueError` is
  modelled. Its header comes from the first test's columns; rows whose
  columns differ go out of line, and nothing states the layout a row must
  have, so no property is checked about it.
- `MeasurementWriter.save()`: `json.dump` to a file.
- The generators' random data is a fresh tag per vector, and their file
  writing is the record they append.
- Argument parsing.
- CRLF response files. `CavsReader.seek` strips `"\r"` from a header
  line, but `next` keeps it at the end of every value. On such a file
  every script fails on its first vector (`a2b_hex` raises `TypeError`,
  `setBigNum` raises `ValueError`, a string comparison fails). The MC files
  are LF-terminated, as the repository's generators write them.
- The device's firmware. Its dispatch is modelled from the copied enums,
  and its answers from the spec.
