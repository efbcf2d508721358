------------------------------- MODULE GattFsm -------------------------------
(***************************************************************************)
(* components/gatt/gatt_fsm.c: the pure state machine of one connection    *)
(* attempt.  A scheduled read runs its plan's writes, then its reads, then *)
(* has the result decoded; a command runs one write and, if its action     *)
(* declares one, a confirm read.                                           *)
(*                                                                         *)
(* Payloads are abstracted to what the machine tells apart: a read answers *)
(* with enough bytes (READ_OK), with too few (READ_SHORT) or, for a        *)
(* confirm read, with a value the action's "require" refutes               *)
(* (READ_REFUTED).  The engine feeds a completion with the characteristic  *)
(* it has pending, so the machine's test of that number always passes and  *)
(* is left out.                                                            *)
(***************************************************************************)
EXTENDS Naturals

Terminal == {"DONE", "FAILED"}
FsmStates == {"IDLE", "CONNECTING", "WRITING", "READING", "DECODING"} \cup Terminal

\* writes and reads count what is still to do.
InitRead(plan) ==
  [state |-> "IDLE", command |-> FALSE, writes |-> plan.writes, reads |-> plan.reads]

InitCommand(confirm) ==
  [state |-> "IDLE", command |-> TRUE, writes |-> 1, reads |-> IF confirm THEN 1 ELSE 0]

To(f, state, act) == [fsm |-> [f EXCEPT !.state = state], act |-> act]

Ignored(f) == [fsm |-> f, act |-> "NONE"]

\* The next write, else the next read, else the end of the plan.
Proceed(f) ==
  IF f.writes > 0 THEN To(f, "WRITING", "WRITE")
  ELSE IF f.reads > 0 THEN To(f, "READING", "READ")
  ELSE IF f.command THEN To(f, "DONE", "DISCONNECT")
  ELSE To(f, "DECODING", "DECODE")

\* A link that opens, an operation that succeeds, and the end of the decode.
Advance(f, ev) ==
  IF f.state = "CONNECTING" /\ ev = "CONNECTED" THEN Proceed(f)
  ELSE IF f.state = "WRITING" /\ ev = "WRITE_OK" THEN Proceed([f EXCEPT !.writes = @ - 1])
  ELSE IF f.state = "READING" /\ ev = "READ_OK" THEN Proceed([f EXCEPT !.reads = @ - 1])
  ELSE IF f.state = "READING" /\ ev \in {"READ_SHORT", "READ_REFUTED"}
  THEN To(f, "FAILED", "DISCONNECT")
  ELSE IF f.state = "DECODING" /\ ev = "DECODED" THEN To(f, "DONE", "DISCONNECT")
  ELSE Ignored(f)

FsmStep(f, ev) ==
  IF f.state \in Terminal THEN Ignored(f)
  ELSE IF f.state = "IDLE"
  THEN IF ev = "START" THEN To(f, "CONNECTING", "CONNECT") ELSE Ignored(f)
  ELSE IF ev = "DISCONNECTED" THEN To(f, "FAILED", "REPORT_FAIL")
  ELSE IF ev \in {"TIMEOUT", "ERROR"} THEN To(f, "FAILED", "DISCONNECT")
  ELSE Advance(f, ev)

=============================================================================
