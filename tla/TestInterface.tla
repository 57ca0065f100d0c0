---------------------------- MODULE TestInterface ----------------------------
(***************************************************************************)
(* The client protocol engine of tools/test-interface (TestInterface.py)  *)
(* driving the embedded test device over a byte stream.                   *)
(*                                                                         *)
(* The host side is the Python client: writePacket puts a command on the  *)
(* link, readPacket hunts for the 0xAA magic and decodes a packet one     *)
(* byte at a time, readResponse skips APP_DEBUG packets and               *)
(* executeCommand turns a non-zero result byte into a failure.  The       *)
(* session around it is TerminalApplication.main: an optional reset       *)
(* followed by one bare readResponse, then a series of commands.          *)
(*                                                                         *)
(* The device is the environment: it takes commands off the host-to-     *)
(* device link, may log debug packets at any time, answers each command   *)
(* with one packet, and its UART moves queued bytes onto the link one at  *)
(* a time.  A serial read times out when no byte is there (timeout = 5);  *)
(* the TCP wrapper's read never times out.  The TCP peer may close the    *)
(* connection.                                                            *)
(***************************************************************************)
EXTENDS Integers, Sequences, SequencesExt, TLC

CONSTANTS
    Commands,        \* the commands the caller may execute: [app, function, payload]
    MaxCmds,         \* bound on executeCommand calls in one session
    MaxDebug,        \* bound on debug packets the device logs in one session
    ResultCodes,     \* raw result bytes the device may answer with
    Transports,      \* the links main may open: "serial" (serial.Serial, timeout 5)
                     \* and/or "tcp" (TCPWrapper, when -a is given)
    Resets           \* the values of main's args.reset explored (-d gives FALSE)

ASSUME Transports \subseteq {"serial", "tcp"}
ASSUME MaxCmds \in Nat /\ MaxDebug \in Nat
ASSUME ResultCodes \subseteq 0..255
ASSUME Resets \subseteq BOOLEAN

\* Constants of TestInterface.py (enums copied from test-interface.h).
MAGIC          == 170      \* 0xAA, four of them start every packet
APP_DEBUG      == 1
APP_MANAGEMENT == 2
REBOOT         == 1
RES_SUCCESS    == 0
LVL_INFO       == 2
CHATTER        == 46       \* a boot-chatter byte: anything but 0xAA

\* writePacket: magic, app, function, writeShort(length), payload octets.
Frame(a, f, p) ==
    <<MAGIC, MAGIC, MAGIC, MAGIC, a, f, (Len(p) \div 256) % 256, Len(p) % 256>> \o p

\* What the device prints after a reboot: chatter, then one packet.
BootOutput(code) == <<CHATTER>> \o Frame(APP_MANAGEMENT, code, <<>>)

\* getResult: the description of a raw result byte, looked up at code-256.
ResultNames ==
    [c \in -8..0 |-> CASE c =  0 -> "SUCCESS"
                       [] c = -1 -> "ERROR"
                       [] c = -2 -> "WRONG PARAMETER"
                       [] c = -3 -> "UNKOWN APPLICATION"
                       [] c = -4 -> "UNKOWN FUNCTION"
                       [] c = -5 -> "REBOOT"
                       [] c = -6 -> "FUNCTION NOT IMPLEMENTED"
                       [] c = -7 -> "ALGORITHM FAILED"
                       [] c = -8 -> "OUT OF MEMORY"]
\* Mutant: the table looked up at code-255.
getResultOffByOne(result_code) ==
    IF result_code - 255 \in DOMAIN ResultNames
    THEN ResultNames[result_code - 255]
    ELSE ToString(result_code)

getResult(result_code) ==
    IF result_code - 256 \in DOMAIN ResultNames
    THEN ResultNames[result_code - 256]
    ELSE ToString(result_code)             \* "%s" % result_code

ReadStates == {"hunt", "magic", "app", "function", "lenhi", "lenlo", "payload"}

VARIABLES
    transport,   \* the client's link: open() or connect(), by args.ip
    \* host: the fields readPacket assigns on the TestInterface object
    app, function, payload_length, payload,
    \* host: locals of readPacket / readShort and the control point
    pc, count, hi,
    call,        \* which caller is inside readResponse: "drain" (main) or "exec"
    ncmd,        \* executeCommand calls made so far; the id of the current one
    err,         \* the exception that ended the session, or "none"
    message,     \* the text of executeCommand's RuntimeError
    \* link
    tx,          \* packets written by the host, not yet taken by the device
    rx,          \* bytes received by the host's port, not yet read
    \* device
    dev, cur, out, ndebug,
    answered     \* every answer the device has sent: [id, function, payload]

host   == <<transport, app, function, payload_length, payload, pc, count, hi, call, ncmd, err, message>>
link   == <<tx, rx>>
device == <<dev, cur, out, ndebug, answered>>
vars   == <<host, link, device>>

Bytes == 0..255
Packet == [app : Bytes, function : Bytes, payload : Seq(Bytes), id : Nat]

TypeOK ==
    /\ transport \in Transports
    /\ app \in Bytes /\ function \in Bytes
    /\ payload_length \in 0..65535 /\ payload \in Seq(Bytes)
    /\ pc \in ReadStates \cup {"open", "reset", "idle", "finished", "failed"}
    /\ count \in 0..4 /\ hi \in Bytes
    /\ call \in {"drain", "exec"}
    /\ ncmd \in 0..MaxCmds
    /\ err \in {"none", "IOError", "ReceiveTimeout", "UnexpectedInput", "CommandFailed"}
    /\ message \in STRING
    /\ tx \in Seq(Packet) /\ rx \in Seq(Bytes)
    /\ dev \in {"idle", "busy", "closed"} /\ cur \in Packet \cup {<<>>}
    /\ out \in Seq(Bytes) /\ ndebug \in 0..MaxDebug
    /\ answered \in Seq([id : Nat, function : Bytes, payload : Seq(Bytes)])

\* The class defaults (app = function = payload_length = 0, payload = [0]);
\* main has yet to open the link.  The device is quiet when the session
\* starts.
Init ==
    /\ transport \in Transports
    /\ app = 0 /\ function = 0 /\ payload_length = 0 /\ payload = <<0>>
    /\ pc = "open"
    /\ count = 0 /\ hi = 0 /\ call = "exec" /\ ncmd = 0 /\ err = "none"
    /\ message = ""
    /\ tx = <<>> /\ rx = <<>>
    /\ dev = "idle" /\ cur = <<>> /\ ndebug = 0
    /\ out = <<>> /\ answered = <<>>

-----------------------------------------------------------------------------
(* Host: the session of TerminalApplication.main                          *)

\* main's "Reset Target": with args.reset (the default) reset(), then
\* readResponse(); with -d straight on to the test.
AfterConnect == \E reset \in Resets : pc' = IF reset THEN "reset" ELSE "idle"

\* The client.readResponse() main calls after reset(): it reads one packet,
\* the boot answer, as the drain rather than as a command's answer.
DrainBoot == pc' = "hunt" /\ call' = "drain"

\* main's "Connect to Target": connect(ip, port) with -a, a TCPWrapper whose
\* socket.connect raises (socket.error, an IOError) when nothing listens;
\* otherwise open(), the first /dev/tty.usbserial* port at 460800 baud
\* with timeout 5, or IOError("Could not find serial port") when there is
\* none.  Then main resets the target (args.reset, the default) or not (-d).
Open ==
    /\ pc = "open"
    /\ \/ AfterConnect /\ UNCHANGED err
       \/ pc' = "failed" /\ err' = "IOError"
    /\ UNCHANGED <<transport, app, function, payload_length, payload, count, hi, call, ncmd, message,
                   link, device>>

\* reset() on a serial port: RTS/DTR reboot the device.  What its UART had
\* not yet sent is lost; what the port already received stays.  Then main
\* calls readResponse() to drain the boot output.
ResetSerial ==
    /\ transport = "serial"
    /\ pc = "reset"
    /\ \E code \in ResultCodes :
          /\ out' = BootOutput(code)
          /\ answered' = Append(answered, [id |-> 0, function |-> code, payload |-> <<>>])
    /\ dev' = "idle" /\ cur' = <<>>
    /\ DrainBoot
    /\ UNCHANGED <<transport, app, function, payload_length, payload, count, hi, ncmd, err, message,
                   link, ndebug>>

\* reset() over TCP: writePacket(APP_MANAGEMENT, REBOOT, 0, []), then main's
\* readResponse() takes the answer.
ResetTcp ==
    /\ transport = "tcp"
    /\ pc = "reset"
    /\ tx' = Append(tx, [app |-> APP_MANAGEMENT, function |-> REBOOT,
                         payload |-> <<>>, id |-> 0])
    /\ DrainBoot
    /\ UNCHANGED <<transport, app, function, payload_length, payload, count, hi, ncmd, err, message,
                   rx, device>>

\* Mutant: a command is also issued after a read has failed.
ExecuteCommandAfterFailure ==
    /\ pc \in {"idle", "failed"}
    /\ ncmd < MaxCmds
    /\ \E c \in Commands :
          tx' = Append(tx, [app |-> c.app, function |-> c.function,
                            payload |-> c.payload, id |-> ncmd + 1])
    /\ ncmd' = ncmd + 1
    /\ pc' = "hunt" /\ call' = "exec"
    /\ UNCHANGED <<transport, app, function, payload_length, payload, count, hi, err, message,
                   rx, device>>

\* executeCommand(app, function, len(payload), payload): writePacket, then
\* readResponse.
ExecuteCommand ==
    /\ pc = "idle"
    /\ ncmd < MaxCmds
    /\ \E c \in Commands :
          tx' = Append(tx, [app |-> c.app, function |-> c.function,
                            payload |-> c.payload, id |-> ncmd + 1])
    /\ ncmd' = ncmd + 1
    /\ pc' = "hunt" /\ call' = "exec"
    /\ UNCHANGED <<transport, app, function, payload_length, payload, count, hi, err, message,
                   rx, device>>

\* execute_test returns; the process exits.
Finish ==
    /\ pc = "idle"
    /\ pc' = "finished"
    /\ UNCHANGED <<transport, app, function, payload_length, payload, count, hi, call, ncmd, err, message,
                   link, device>>

-----------------------------------------------------------------------------
(* Host: readPacket, one readByte per step                                *)

\* Mutant: count is not set back to 1 by the next packet's first 0xAA.
HuntMagicNoReset ==
    /\ pc = "hunt" /\ rx # <<>>
    /\ rx' = Tail(rx)
    /\ IF Head(rx) = MAGIC THEN pc' = "magic" /\ count' = count + 1
                           ELSE UNCHANGED <<pc, count>>
    /\ UNCHANGED <<transport, app, function, payload_length, payload, hi, call, ncmd, err, message, tx, device>>

\* Wait for the magic header, output everything else.
HuntMagic ==
    /\ pc = "hunt" /\ rx # <<>>
    /\ rx' = Tail(rx)
    /\ IF Head(rx) = MAGIC THEN pc' = "magic" /\ count' = 1
                           ELSE UNCHANGED <<pc, count>>
    /\ UNCHANGED <<transport, app, function, payload_length, payload, hi, call, ncmd, err, message, tx, device>>

\* count != 4: another 0xAA or IOError("Unexpected Input").
CountMagic ==
    /\ pc = "magic" /\ rx # <<>>
    /\ rx' = Tail(rx)
    /\ IF Head(rx) = MAGIC
       THEN /\ count' = count + 1
            /\ pc' = IF count + 1 = 4 THEN "app" ELSE "magic"
            /\ UNCHANGED err
       ELSE pc' = "failed" /\ err' = "UnexpectedInput" /\ UNCHANGED count
    /\ UNCHANGED <<transport, message, app, function, payload_length, payload, hi, call, ncmd, tx, device>>

ReadApp ==
    /\ pc = "app" /\ rx # <<>>
    /\ app' = Head(rx) /\ rx' = Tail(rx) /\ pc' = "function"
    /\ UNCHANGED <<transport, function, payload_length, payload, count, hi, call, ncmd, err, message, tx, device>>

ReadFunction ==
    /\ pc = "function" /\ rx # <<>>
    /\ function' = Head(rx) /\ rx' = Tail(rx) /\ pc' = "lenhi"
    /\ UNCHANGED <<transport, app, payload_length, payload, count, hi, call, ncmd, err, message, tx, device>>

\* readShort: the high octet first, assigned to payload_length after both.
ReadLenHi ==
    /\ pc = "lenhi" /\ rx # <<>>
    /\ hi' = Head(rx) /\ rx' = Tail(rx) /\ pc' = "lenlo"
    /\ UNCHANGED <<transport, app, function, payload_length, payload, count, call, ncmd, err, message, tx, device>>

ReadLenLo ==
    /\ pc = "lenlo" /\ rx # <<>>
    /\ payload_length' = hi * 256 + Head(rx) /\ rx' = Tail(rx) /\ pc' = "payload"
    /\ UNCHANGED <<transport, app, function, payload, count, hi, call, ncmd, err, message, tx, device>>

\* Mutant: the payload read is dropped, self.payload keeps the last packet's.
ReadPayloadKeepsPayload ==
    /\ pc = "payload" /\ Len(rx) >= payload_length
    /\ rx' = SubSeq(rx, payload_length + 1, Len(rx))
    /\ \/ app = APP_DEBUG /\ pc' = "hunt" /\ UNCHANGED <<err, message>>
       \/ app # APP_DEBUG /\ call = "drain" /\ pc' = "idle" /\ UNCHANGED <<err, message>>
       \/ app # APP_DEBUG /\ call = "exec" /\ function = RES_SUCCESS
          /\ pc' = "idle" /\ UNCHANGED <<err, message>>
       \/ app # APP_DEBUG /\ call = "exec" /\ function # RES_SUCCESS
          /\ pc' = "failed" /\ err' = "CommandFailed"
          /\ message' = getResult(function)
    /\ UNCHANGED <<transport, payload, app, function, payload_length, count, hi, call, ncmd, tx, device>>

\* serialport.read(payload_length) returns in full, and readResponse decides:
\* a debug packet is logged and the loop reads on; otherwise readResponse
\* returns function, which main ignores and executeCommand checks.
ReadPayload ==
    /\ pc = "payload" /\ Len(rx) >= payload_length
    /\ payload' = SubSeq(rx, 1, payload_length)
    /\ rx' = SubSeq(rx, payload_length + 1, Len(rx))
    /\ \/ app = APP_DEBUG /\ pc' = "hunt" /\ UNCHANGED <<err, message>>
       \/ app # APP_DEBUG /\ call = "drain" /\ pc' = "idle" /\ UNCHANGED <<err, message>>
       \/ app # APP_DEBUG /\ call = "exec" /\ function = RES_SUCCESS
          /\ pc' = "idle" /\ UNCHANGED <<err, message>>
       \/ app # APP_DEBUG /\ call = "exec" /\ function # RES_SUCCESS
          /\ pc' = "failed" /\ err' = "CommandFailed"
          /\ message' = getResult(function)
    /\ UNCHANGED <<transport, app, function, payload_length, count, hi, call, ncmd, tx, device>>

\* Mutant: the port is read without a timeout, read(1) waits for a byte.
ByteTimeoutNever == FALSE

\* readByte: serialport.read(1) returns nothing after the 5 s timeout and
\* raises IOError("Receive Timeout").
ByteTimeout ==
    /\ transport = "serial"
    /\ pc \in ReadStates \ {"payload"} /\ rx = <<>>
    /\ pc' = "failed" /\ err' = "ReceiveTimeout"
    /\ UNCHANGED <<transport, message, app, function, payload_length, payload, count, hi, call, ncmd,
                   link, device>>

\* serialport.read(payload_length) returns short: what arrived is assigned
\* to payload before the IOError("Receive Timeout").
PayloadTimeout ==
    /\ transport = "serial"
    /\ pc = "payload" /\ Len(rx) < payload_length
    /\ payload' = rx /\ rx' = <<>>
    /\ pc' = "failed" /\ err' = "ReceiveTimeout"
    /\ UNCHANGED <<transport, message, app, function, payload_length, count, hi, call, ncmd, tx, device>>

-----------------------------------------------------------------------------
(* Device and link                                                        *)

DevReceive ==
    /\ dev = "idle" /\ tx # <<>>
    /\ cur' = Head(tx) /\ tx' = Tail(tx) /\ dev' = "busy"
    /\ UNCHANGED <<host, rx, out, ndebug, answered>>

\* One answer per command, in the command's app; the payload names the
\* command it answers so that a mix-up is visible.
DevRespond ==
    /\ dev = "busy"
    /\ \E code \in ResultCodes, p \in {<<>>, <<cur.id % 256>>} :
          /\ out' = out \o Frame(cur.app, code, p)
          /\ answered' = Append(answered, [id |-> cur.id, function |-> code, payload |-> p])
    /\ dev' = "idle" /\ cur' = <<>>
    /\ UNCHANGED <<host, link, ndebug>>

\* A debug log line, at any time, also while the host is about to reset it.
DevDebug ==
    /\ dev # "closed" /\ ndebug < MaxDebug
    /\ out' = out \o Frame(APP_DEBUG, LVL_INFO, <<CHATTER>>)
    /\ ndebug' = ndebug + 1
    /\ UNCHANGED <<host, link, dev, cur, answered>>

\* The device UART puts its next byte on the wire.
DevSendByte ==
    /\ out # <<>>
    /\ rx' = Append(rx, Head(out)) /\ out' = Tail(out)
    /\ UNCHANGED <<host, tx, dev, cur, ndebug, answered>>

\* The TCP peer closes the connection it accepted: what the host's socket already
\* received stays readable, what the device had not sent is lost, and no
\* byte follows.  TCPWrapper.read's recv then returns '' on every call,
\* and its loop "while len(buf) < size" spins without raising.  The one
\* send the host makes before it reads again is accepted by its socket.
PeerClose ==
    /\ transport = "tcp" /\ dev # "closed" /\ pc # "open"
    /\ dev' = "closed" /\ cur' = <<>> /\ out' = <<>>
    /\ UNCHANGED <<host, link, ndebug, answered>>

-----------------------------------------------------------------------------

HostNext ==
    \/ Open \/ ResetSerial \/ ResetTcp \/ ExecuteCommand \/ Finish
    \/ HuntMagic \/ CountMagic \/ ReadApp \/ ReadFunction \/ ReadLenHi \/ ReadLenLo
    \/ ReadPayload \/ ByteTimeout \/ PayloadTimeout

DeviceNext == DevReceive \/ DevRespond \/ DevDebug \/ DevSendByte \/ PeerClose

Next == HostNext \/ DeviceNext

\* The Python process always runs, and a serial read always returns within
\* its timeout; the UART sends what it has queued.  The device is not
\* assumed to answer: it may hang, and then only the timeout ends a read;
\* nor is a TCP peer assumed to keep the connection open.
Fairness ==
    /\ WF_vars(HostNext)
    /\ WF_vars(DevSendByte)
    /\ WF_vars(DevReceive)

Spec == Init /\ [][Next]_vars /\ Fairness

-----------------------------------------------------------------------------
(* Properties                                                             *)

\* Request/response pairing (readResponse, executeCommand): whenever
\* executeCommand has returned normally, the payload slot holds the
\* device's answer to that very command, and that answer was SUCCESS --
\* never a debug packet, the boot packet or the answer to another command.
ResponsePairing ==
    (pc = "idle" /\ call = "exec" /\ ncmd > 0) =>
        \E i \in 1..Len(answered) :
            /\ answered[i].id = ncmd
            /\ answered[i].function = RES_SUCCESS
            /\ answered[i].payload = payload

\* The description the spec gives a raw result byte: its two's-complement
\* value names one of the codes SUCCESS..OUT OF MEMORY, or else the byte is
\* shown as its number.
SpecResultDescription(b) ==
    LET logical == IF b >= 128 THEN b - 256 ELSE b
    IN  IF logical \in DOMAIN ResultNames THEN ResultNames[logical] ELSE ToString(b)

\* executeCommand raises CommandFailed only for a command the device really
\* answered with a non-success result; the result byte it reports is that
\* answer's, and getResult describes it the way the spec's table does.
NoSpuriousFailure ==
    (err = "CommandFailed") =>
        \E i \in 1..Len(answered) :
            /\ answered[i].id = ncmd
            /\ answered[i].function # RES_SUCCESS
            /\ answered[i].function = function
            /\ message = SpecResultDescription(function)

\* Every session ends: the script finishes or a read raises.  readByte's
\* timeout is what guarantees this when the device stops answering.
SessionEnds == <>(pc \in {"finished", "failed"})

\* A read over TCP whose peer has closed the connection ends: spec 4.1 and
\* 4.3 make a short read a ReceiveTimeout or ReceiveTruncated failure, and
\* after the close no byte can ever come.  TCPWrapper.read's
\* "buf += self.socket.recv(size-len(buf))" takes recv's '' for no data
\* and calls it again.
ClosedReadEnds ==
    (transport = "tcp" /\ dev = "closed" /\ pc \in ReadStates) ~> (pc \in {"finished", "failed"})

\* Every session over a serial port ends (spec 4.1: a read with no data
\* within the timeout fails with ReceiveTimeout).
SerialSessionEnds == (transport = "serial") => SessionEnds


-----------------------------------------------------------------------------
(* Refinement of the one-call-at-a-time contract                          *)

\* The caller's view of the session: main's drain of the boot answer is
\* "start", a read inside executeCommand is "busy".
RpcState ==
    CASE pc \in {"open", "reset"}            -> "start"
      [] pc \in ReadStates /\ call = "drain" -> "start"
      [] pc \in ReadStates                   -> "busy"
      [] pc = "idle"                        -> "ready"
      [] pc = "finished"                    -> "done"
      [] pc = "failed"                      -> "failed"

\* What executeCommand returned, shown while the caller holds it.
RpcResult == IF pc = "idle" /\ call = "exec" /\ ncmd > 0 THEN payload ELSE <<>>

RPC == INSTANCE CommandRPC WITH SUCCESS <- RES_SUCCESS, state <- RpcState, n <- ncmd,
                                result <- RpcResult, error <- err, answers <- answered

\* The client implements the one-call-at-a-time contract: calls are made
\* only from a ready session, each returns the payload of the device's
\* SUCCESS answer to that call or fails on its non-success answer, debug
\* packets and the boot answer never reach the caller, and a failed
\* session (a raised IOError or RuntimeError) takes no further call.
ImplementsCommandRPC == RPC!Spec

=============================================================================
