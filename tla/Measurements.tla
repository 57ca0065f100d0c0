----------------------------- MODULE Measurements -----------------------------
(***************************************************************************)
(* The timer report of AppTimer.py: readMultiValueMeasurements asks the   *)
(* device for the number of entries (GET_COUNT, a 1-byte payload) and     *)
(* then for the entries (GET_VALUES, 8 bytes each: key and value as       *)
(* big-endian longs), and groups the values by key in arrival order;      *)
(* readMeasurementsAndSum and readMeasurements reduce each key's values   *)
(* to their sum and to the last one.  clearTimer empties the device's     *)
(* log; enable/disableTimerOutput set its GPIO output switch.             *)
(*                                                                         *)
(* Each executeCommand is one step (its framing is TestInterface.tla).    *)
(* The device's timer may log an event at any time, so also between the   *)
(* two commands of one read.                                              *)
(***************************************************************************)
EXTENDS Integers, Sequences, SequencesExt, FiniteSets

CONSTANTS
    Keys,            \* timer ids the device logs
    Values,          \* u32 durations the device logs
    MaxEvents,       \* bound on the device's log
    MaxReads         \* bound on the caller's reads

\* u32 on the wire; TLC's integers stop at 2^31 - 1, so the checked ones do too.
ASSUME Keys \subseteq 0..2147483647 /\ Values \subseteq 0..2147483647
ASSUME MaxEvents \in 0..255 /\ MaxReads \in Nat

\* setLong / getLong: a u32 as four octets, most significant first.
LongBytes(v) ==
    << (v \div 2^24) % 256, (v \div 2^16) % 256, (v \div 2^8) % 256, v % 256 >>

\* Mutant: the operand order of getShort, least significant octet first.
getLongLittleEndian(payload, index) ==
    payload[index + 4] * 2^24 + payload[index + 3] * 2^16
      + payload[index + 2] * 2^8 + payload[index + 1]

getLong(payload, index) ==
    payload[index + 1] * 2^24 + payload[index + 2] * 2^16
      + payload[index + 3] * 2^8 + payload[index + 4]

\* The device's GET_VALUES answer: each entry as key then value.
Report(log) == FlattenSeq([i \in DOMAIN log |-> LongBytes(log[i].key) \o LongBytes(log[i].value)])

\* The decoding loop of readMultiValueMeasurements: measurements[key].append(value).
RECURSIVE Decode(_, _, _)
Decode(payload, count, i) ==
    IF i = count THEN [k \in {} |-> <<>>]
    ELSE LET key   == getLong(payload, 8 * i)
             value == getLong(payload, 8 * i + 4)
             rest  == Decode(payload, count, i + 1)
         IN  [k \in DOMAIN rest \cup {key} |->
                 IF k = key THEN <<value>> \o (IF k \in DOMAIN rest THEN rest[k] ELSE <<>>)
                 ELSE rest[k]]

\* readMeasurementsAndSum: the sum of each key's values.
SumPerKey(mmv) == [k \in DOMAIN mmv |-> FoldLeft(+, 0, mmv[k])]

\* Mutant: the first value of each key is kept.
LastPerKeyFirstWins(mmv) == [k \in DOMAIN mmv |-> mmv[k][1]]

\* readMeasurements: measurements[key] = value for each value, the last stays.
LastPerKey(mmv) == [k \in DOMAIN mmv |-> mmv[k][Len(mmv[k])]]

VARIABLES
    pc,            \* "idle", "values", "finished" or "failed"
    view,          \* which reader runs: "multi", "sum" or "last"
    count,         \* ord(self.payload[0]) of the GET_COUNT answer
    measurements,  \* what the last completed read returned
    reported,      \* the device's log as the GET_VALUES answer sent it
    nreads,
    log,           \* device: the timer's entries, oldest first
    output         \* device: the timer output switch, -1 before it is set

vars == <<pc, view, count, measurements, reported, nreads, log, output>>

Entry == [key : Keys, value : Values]

TypeOK ==
    /\ pc \in {"idle", "values", "finished", "failed"}
    /\ view \in {"multi", "sum", "last"}
    /\ count \in 0..255
    /\ DOMAIN measurements \subseteq Keys
    /\ reported \in Seq(Entry)
    /\ nreads \in 0..MaxReads
    /\ log \in Seq(Entry) /\ Len(log) <= MaxEvents
    /\ output \in {-1, 0, 1}

Init ==
    /\ pc = "idle" /\ view = "multi" /\ count = 0
    /\ measurements = [k \in {} |-> <<>>] /\ reported = <<>>
    /\ nreads = 0 /\ log = <<>> /\ output = -1

-----------------------------------------------------------------------------

\* clearTimer: executeCommand(APP_TIMER, CLEAR).
ClearTimer ==
    /\ pc = "idle"
    /\ log' = <<>>
    /\ UNCHANGED <<pc, view, count, measurements, reported, nreads, output>>

\* readMultiValueMeasurements, directly or through one of the two
\* reductions: executeCommand(APP_TIMER, GET_COUNT); the answer is one byte.
ReadCount ==
    /\ pc = "idle" /\ nreads < MaxReads
    /\ \E v \in {"multi", "sum", "last"} : view' = v
    /\ count' = Len(log) % 256
    /\ pc' = "values" /\ nreads' = nreads + 1
    /\ UNCHANGED <<measurements, reported, log, output>>

\* executeCommand(APP_TIMER, GET_VALUES); a payload of other than count*8
\* bytes is IOError("failed to upload values"); otherwise decode and reduce.
ReadValues ==
    /\ pc = "values"
    /\ LET payload == Report(log)
           mmv     == Decode(payload, count, 0)
       IN  IF Len(payload) # count * 8
           THEN pc' = "failed" /\ UNCHANGED <<measurements, reported>>
           ELSE /\ pc' = "idle"
                /\ reported' = log
                /\ measurements' = CASE view = "multi" -> mmv
                                     [] view = "sum"   -> SumPerKey(mmv)
                                     [] view = "last"  -> LastPerKey(mmv)
    /\ UNCHANGED <<view, count, nreads, log, output>>

Finish ==
    /\ pc = "idle" /\ pc' = "finished"
    /\ UNCHANGED <<view, count, measurements, reported, nreads, log, output>>

\* The device's timer logs an event.
TimerEvent ==
    /\ Len(log) < MaxEvents
    /\ \E k \in Keys, v \in Values : log' = Append(log, [key |-> k, value |-> v])
    /\ UNCHANGED <<pc, view, count, measurements, reported, nreads, output>>

\* enableTimerOutput / disableTimerOutput:
\* executeCommand(APP_TIMER, SWITCH_TIMER_OUTPUT, 1, [0x01] / [0x00]).
SwitchTimerOutput ==
    /\ pc = "idle"
    /\ \E on \in {0, 1} : output' = on
    /\ UNCHANGED <<pc, view, count, measurements, reported, nreads, log>>

Next == SwitchTimerOutput \/ ClearTimer \/ ReadCount \/ ReadValues \/ Finish \/ TimerEvent

Spec == Init /\ [][Next]_vars

-----------------------------------------------------------------------------
(* Properties                                                             *)

\* The reference grouping: each key the report names, with the values
\* logged under it in the order they were logged.
Grouped(entries) ==
    [k \in {entries[i].key : i \in DOMAIN entries} |->
        [j \in 1..Cardinality({i \in DOMAIN entries : entries[i].key = k}) |->
            entries[CHOOSE i \in DOMAIN entries :
                       /\ entries[i].key = k
                       /\ Cardinality({l \in 1..i : entries[l].key = k}) = j].value]]

\* A read that completed returned exactly the device's log as it stood when
\* it answered GET_VALUES -- no entry lost, none counted twice, values
\* in arrival order under their key -- reduced the way its view says:
\* sum per key, or the value logged last per key.
ReadMatchesDevice ==
    (pc = "idle" /\ nreads > 0) =>
        LET g == Grouped(reported)
        IN  measurements = CASE view = "multi" -> g
                             [] view = "sum"   -> [k \in DOMAIN g |-> FoldLeft(+, 0, g[k])]
                             [] view = "last"  -> [k \in DOMAIN g |-> Last(g[k])]

=============================================================================
