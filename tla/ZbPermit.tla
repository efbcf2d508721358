-------------------------------- MODULE ZbPermit --------------------------------
(***************************************************************************)
(* The coordinator's network and its permit-join window (zigbee/zigbee.c): *)
(* the network is formed once and restored after a restart; a caller on a  *)
(* web or swarm task opens it for a while, under the stack lock, and the   *)
(* Trust Center stops requiring the link-key exchange until an alarm of    *)
(* the stack task requires it again.  A new device closes the window.      *)
(***************************************************************************)
EXTENDS Naturals

CONSTANTS
  Callers,      \* tasks that open the window
  Window,       \* CONFIG_PLANTHUB_ZB_PERMIT_JOIN_S, in ticks
  Grace,        \* ZB_POST_JOIN_RELEASE_MS, in ticks
  MaxOpens,     \* bound: calls
  MaxReboots    \* bound: restarts

ZbPermitAssumption ==
  /\ {Window, Grace} \subseteq Nat \ {0} /\ Grace <= Window
  /\ {MaxOpens, MaxReboots} \subseteq Nat

VARIABLES
  nvram,      \* zb_storage: the network is on flash (the stack is not factory-new)
  stage,      \* of the stack: "booted" until BDB initialization ended, "forming", "up", "down"
  formed,     \* s_formed
  relaxed,    \* the Trust Center does not require the link-key exchange
  alarm,      \* ticks to zb_permit_expiry_cb(), 0: not armed
  network,    \* ticks the network still accepts joins, 0: closed
  deadline,   \* ticks to s_permit_join_deadline_us, 0: none
  callers,    \* "idle" or "opened": between the stack lock and the deadline
  calls       \* calls and restarts so far (bounds)

vars == <<nvram, stage, formed, relaxed, alarm, network, deadline, callers, calls>>

stack == <<nvram, stage, formed>>

Init ==
  /\ nvram = FALSE /\ stage = "booted" /\ formed = FALSE
  /\ relaxed = FALSE /\ alarm = 0 /\ network = 0 /\ deadline = 0
  /\ callers = [c \in Callers |-> "idle"]
  /\ calls = [opens |-> 0, reboots |-> 0]

-----------------------------------------------------------------------------
(* esp_zb_app_signal_handler(): the network *)

\* SKIP_STARTUP and DEVICE_FIRST_START or DEVICE_REBOOT: a network is formed only
\* when the stack is factory-new, else the saved one is back.
Initialized ==
  /\ stage = "booted"
  /\ stage' \in {"down", IF nvram THEN "up" ELSE "forming"}
  /\ formed' = (stage' = "up")
  /\ UNCHANGED <<nvram, relaxed, alarm, network, deadline, callers, calls>>

\* FORMATION.
Formation ==
  /\ stage = "forming"
  /\ stage' \in {"down", "up"}
  /\ formed' = (stage' = "up") /\ nvram' = formed'
  /\ UNCHANGED <<relaxed, alarm, network, deadline, callers, calls>>

\* zigbee_start() after a restart: the window is RAM only.
Reboot ==
  /\ calls.reboots < MaxReboots
  /\ calls' = [calls EXCEPT !.reboots = @ + 1]
  /\ stage' = "booted" /\ formed' = FALSE
  /\ relaxed' = FALSE /\ alarm' = 0 /\ network' = 0 /\ deadline' = 0
  /\ callers' = [c \in Callers |-> "idle"]
  /\ UNCHANGED nvram

-----------------------------------------------------------------------------
(* The window *)

\* zigbee_permit_join() under the stack lock: the old alarm is cancelled, and a
\* network that does not open requires the exchange again.
Open(c) ==
  /\ formed /\ callers[c] = "idle" /\ calls.opens < MaxOpens
  /\ calls' = [calls EXCEPT !.opens = @ + 1]
  /\ \/ /\ relaxed' = TRUE /\ alarm' = Window /\ network' = Window
        /\ callers' = [callers EXCEPT ![c] = "opened"]
     \/ relaxed' = FALSE /\ alarm' = 0 /\ UNCHANGED <<network, callers>>
  /\ UNCHANGED <<stack, deadline>>

\* zigbee_permit_join(): the deadline, after the lock was given back.
Publish(c) ==
  /\ callers[c] = "opened"
  /\ callers' = [callers EXCEPT ![c] = "idle"]
  /\ deadline' = Window
  /\ UNCHANGED <<stack, relaxed, alarm, network, calls>>

\* zb_permit_expiry_cb().
Expiry ==
  /\ alarm = 1
  /\ relaxed' = FALSE /\ deadline' = 0 /\ alarm' = 0
  /\ network' = IF network > 0 THEN network - 1 ELSE 0
  /\ UNCHANGED <<stack, callers, calls>>

\* Mutant of Rearmed: the alarm is cancelled and not armed again.
RearmedNot == 0

\* The alarm of a window a device has joined: the key is still on its way.
Rearmed == Grace

\* ESP_ZB_ZDO_SIGNAL_DEVICE_ANNCE of a device the table does not have: it joined
\* through an open network.  A network that does not close stays open to its end, and
\* so does one whose deadline its caller has not set yet.
JoinNew == \E closed \in BOOLEAN :
  /\ network > 0
  /\ IF deadline # 0
     THEN /\ deadline' = 0 /\ alarm' = Rearmed
          /\ network' = IF closed THEN 0 ELSE network
     ELSE UNCHANGED <<deadline, alarm, network>>
  /\ UNCHANGED <<stack, relaxed, callers, calls>>

\* Time: the stack closes the network itself; a deadline that passes reads as
\* zigbee_permit_join_remaining() = 0 and stays where it is.
Down(t) == IF t > 1 THEN t - 1 ELSE t
Pass ==
  /\ alarm # 1 /\ (alarm # 0 \/ network # 0 \/ deadline > 1)
  /\ alarm' = Down(alarm) /\ deadline' = Down(deadline)
  /\ network' = IF network > 0 THEN network - 1 ELSE 0
  /\ UNCHANGED <<stack, relaxed, callers, calls>>

-----------------------------------------------------------------------------

Next ==
  \/ Initialized \/ Formation \/ Reboot
  \/ (\E c \in Callers : Open(c)) \/ (\E c \in Callers : Publish(c))
  \/ Expiry \/ JoinNew \/ Pass

Spec == Init /\ [][Next]_vars

-----------------------------------------------------------------------------
(* Properties *)

\* The link-key exchange is never left off: while it is, an alarm of at most the
\* window waits that requires it again, of at most the grace once nothing can join
\* any more, however calls that open the window, fail to, or overlap, joins and
\* restarts follow each other.
RelaxedIsBounded ==
  relaxed => /\ alarm \in 1 .. Window
             /\ network = 0 => alarm <= Grace
=============================================================================
