--------------------------- MODULE MCTestInterface ---------------------------
(* Model values for TestInterface: a timer GET_COUNT and an AES SET_KEY     *)
(* command, SUCCESS (0), an unnamed code (200) and ERROR (255, code -1).                 *)
EXTENDS TestInterface

MCCommands ==
    { [app |-> 3, function |-> 2, payload |-> <<>>],      \* AppTimer GET_COUNT
      [app |-> 8, function |-> 4, payload |-> <<7, 170>>] } \* AppAES setKey

MCResultCodes == {0, 200, 255}
=============================================================================
