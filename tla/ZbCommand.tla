------------------------------- MODULE ZbCommand -------------------------------
(***************************************************************************)
(* Commands to Zigbee devices (zigbee/zb_cmd.c).  The dispatching task     *)
(* claims a slot, takes the stack's lock, sends and arms the slot's alarm; *)
(* the stack task, under the same lock, hands in the device's response or  *)
(* lets the alarm expire.  Slots are only guarded by a spinlock: between   *)
(* the freeing of a slot and the cancelling of its alarm the dispatching   *)
(* task may claim it again.                                                *)
(***************************************************************************)
EXTENDS Naturals, Sequences

CONSTANTS
  Slots,        \* 0 .. ZB_CMD_MAX_INFLIGHT - 1
  MaxCommands   \* bound: commands dispatched

ZbCommandAssumption == Slots # {} /\ Slots \subseteq Nat /\ MaxCommands \in Nat

VARIABLES
  slot,      \* s_inflight: the command in each slot, and whether its number is known
  alarm,     \* zb_cmd_timeout_cb of each slot: pending for which command (0: not pending)
  caller,    \* the dispatching task: the command in its hand, and its slot
  stack,     \* the stack task: the slot it freed and the command it took from there
  air,       \* responses of devices under way
  issued,    \* commands dispatched so far (bound)
  outcome    \* history: for each command, whose response or expiry it was reported by

vars == <<slot, alarm, caller, stack, air, issued, outcome>>

Commands == 1 .. MaxCommands
Free == [used |-> FALSE, sent |-> FALSE, cmd |-> 0]
Idle == [cmd |-> 0, slot |-> 0, at |-> "idle"]

Init ==
  /\ slot = [s \in Slots |-> Free] /\ alarm = [s \in Slots |-> 0]
  /\ caller = Idle /\ stack = Idle /\ air = {} /\ issued = 0
  /\ outcome = [c \in Commands |-> <<>>]

\* zb_cmd_report(): the alert and the callback, for command c, on account of
\* what happened to command "of".
Report(c, of) == outcome' = [outcome EXCEPT ![c] = Append(@, of)]

\* The command dispatched now.
Issue == caller = Idle /\ issued < MaxCommands /\ issued' = issued + 1

-----------------------------------------------------------------------------
(* The dispatching task *)

\* An action it does not implement, a device without a Zigbee key, without a
\* record or without an address: reported at once.
Refuse ==
  /\ Issue /\ Report(issued', issued')
  /\ UNCHANGED <<slot, alarm, caller, stack, air>>

FreeSlots == {s \in Slots : ~slot[s].used}

\* The first free slot; with none the command is reported as refused.
Claim ==
  /\ Issue
  /\ IF FreeSlots = {}
     THEN Report(issued', issued') /\ UNCHANGED <<slot, caller>>
     ELSE LET s == CHOOSE s \in FreeSlots : \A r \in FreeSlots : s <= r IN
          /\ slot' = [slot EXCEPT ![s] = [used |-> TRUE, sent |-> FALSE, cmd |-> issued']]
          /\ caller' = [cmd |-> issued', slot |-> s, at |-> "claimed"]
          /\ UNCHANGED outcome
  /\ UNCHANGED <<alarm, stack, air>>

\* The stack's lock was not to be had in time.
LockFails ==
  /\ caller.at = "claimed"
  /\ slot' = [slot EXCEPT ![caller.slot] = Free]
  /\ Report(caller.cmd, caller.cmd) /\ caller' = Idle
  /\ UNCHANGED <<alarm, stack, air, issued>>

\* All under the lock, so not while the stack task is in a callback.  The device
\* may answer, or the command or its response is lost.
Send == \E answers \in BOOLEAN :
  /\ caller.at = "claimed" /\ stack = Idle
  /\ slot' = [slot EXCEPT ![caller.slot].sent = TRUE]
  /\ alarm' = [alarm EXCEPT ![caller.slot] = caller.cmd]
  /\ air' = IF answers THEN air \cup {caller.cmd} ELSE air
  /\ caller' = Idle
  /\ UNCHANGED <<stack, outcome, issued>>

-----------------------------------------------------------------------------
(* The stack task *)

\* Mutant of Answers: any slot in use will do.
AnswersAny(s, c) == slot[s].used

\* The response carries the sequence number of its request: the 8-bit number is
\* taken not to come round again while a response is under way.
Answers(s, c) == slot[s].used /\ slot[s].sent /\ slot[s].cmd = c

\* zb_cmd_on_default_resp(): the slot is freed first.  A response to a command
\* that is gone is dropped.
Response == \E c \in air :
  /\ stack = Idle /\ air' = air \ {c}
  /\ \/ \E s \in Slots :
          /\ Answers(s, c)
          /\ slot' = [slot EXCEPT ![s] = Free]
          /\ stack' = [cmd |-> slot[s].cmd, slot |-> s, at |-> "freed"]
          /\ UNCHANGED <<alarm, outcome>>
     \/ /\ \A s \in Slots : ~Answers(s, c)
        /\ UNCHANGED <<slot, alarm, stack, outcome>>
  /\ UNCHANGED <<caller, issued>>

Cancelled(s) == [alarm EXCEPT ![s] = 0]

\* Then its alarm is cancelled and the result reported.
Resolve ==
  /\ stack.at = "freed"
  /\ alarm' = Cancelled(stack.slot)
  /\ Report(stack.cmd, stack.cmd) /\ stack' = Idle
  /\ UNCHANGED <<slot, caller, air, issued>>

\* zb_cmd_timeout_cb(): whatever command is in the slot by now.
Expire == \E s \in Slots :
  /\ stack = Idle /\ alarm[s] # 0 /\ alarm' = [alarm EXCEPT ![s] = 0]
  /\ IF slot[s].used
     THEN slot' = [slot EXCEPT ![s] = Free] /\ Report(slot[s].cmd, alarm[s])
     ELSE UNCHANGED <<slot, outcome>>
  /\ UNCHANGED <<caller, stack, air, issued>>

-----------------------------------------------------------------------------

Next == Refuse \/ Claim \/ LockFails \/ Send \/ Response \/ Resolve \/ Expire

Spec == Init /\ [][Next]_vars

-----------------------------------------------------------------------------
(* Properties *)

Held(c) ==
  \/ caller.cmd = c \/ stack.cmd = c
  \/ \E s \in Slots : slot[s].used /\ slot[s].cmd = c /\ alarm[s] = c

\* A command is reported once, on account of its own response, refusal or
\* expiry, although slots are claimed again before their alarm is cancelled;
\* and until then a slot with its alarm, or one of the two tasks, has it.
OutcomeIsItsOwn ==
  \A c \in Commands :
    IF c <= issued THEN outcome[c] = <<c>> \/ (outcome[c] = <<>> /\ Held(c))
    ELSE outcome[c] = <<>>
=============================================================================
