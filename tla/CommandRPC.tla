----------------------------- MODULE CommandRPC -----------------------------
(***************************************************************************)
(* What the test-interface client promises its caller, with the byte     *)
(* link abstracted away: a remote procedure call, one at a time.          *)
(*                                                                         *)
(* A session starts either ready or waiting for the target's boot answer *)
(* to be drained.  Each call is numbered; it returns the payload of the  *)
(* device's SUCCESS answer to that call, or fails with CommandFailed on  *)
(* the device's non-success answer to it, or aborts on a read error.     *)
(* A failed session stays failed.  The device is the environment: it may *)
(* add answers to calls already made (id 0 for the boot answer) at any   *)
(* time.                                                                  *)
(***************************************************************************)
EXTENDS Integers, Sequences

CONSTANTS SUCCESS   \* the result code of a successful call

VARIABLES
    state,     \* "start" (draining the boot answer), "ready", "busy", "done", "failed"
    n,         \* calls made; the number of the current one
    result,    \* what the last call returned, <<>> when none is being shown
    error,     \* how the session failed, or "none"
    answers    \* every answer the device has given: [id, function, payload]

vars == <<state, n, result, error, answers>>

Init ==
    /\ state \in {"start", "ready"}
    /\ n = 0 /\ result = <<>> /\ error = "none" /\ answers = <<>>

\* The boot answer has been drained; its content is not shown.
Drained ==
    /\ state = "start" /\ state' = "ready"
    /\ UNCHANGED <<n, result, error, answers>>

Call ==
    /\ state = "ready" /\ state' = "busy"
    /\ n' = n + 1 /\ result' = <<>>
    /\ UNCHANGED <<error, answers>>

\* Returns the payload of a SUCCESS answer to this very call.
Return ==
    /\ state = "busy" /\ state' = "ready"
    /\ \E i \in DOMAIN answers :
          /\ answers[i].id = n /\ answers[i].function = SUCCESS
          /\ result' = answers[i].payload
    /\ UNCHANGED <<n, error, answers>>

\* Fails on a non-success answer to this very call.
Reject ==
    /\ state = "busy" /\ state' = "failed"
    /\ \E i \in DOMAIN answers : answers[i].id = n /\ answers[i].function # SUCCESS
    /\ error' = "CommandFailed"
    /\ UNCHANGED <<n, result, answers>>

\* A read error while waiting for an answer, or, before any call, a link
\* that could not be opened.
Abort ==
    /\ state \in {"start", "busy"} /\ state' = "failed"
    /\ error' \in {"ReceiveTimeout", "UnexpectedInput"} \cup (IF state = "start" THEN {"IOError"} ELSE {})
    /\ UNCHANGED <<n, result, answers>>

Finish ==
    /\ state = "ready" /\ state' = "done" /\ result' = <<>>
    /\ UNCHANGED <<n, error, answers>>

\* The device answers a call already made; earlier answers are unchanged.
Answer ==
    /\ Len(answers') = Len(answers) + 1
    /\ SubSeq(answers', 1, Len(answers)) = answers
    /\ answers'[Len(answers')].id \in 0..n
    /\ UNCHANGED <<state, n, result, error>>

Next == Drained \/ Call \/ Return \/ Reject \/ Abort \/ Finish \/ Answer

Spec == Init /\ [][Next]_vars

=============================================================================
