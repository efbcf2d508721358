-------------------------------- MODULE NodeLife --------------------------------
(***************************************************************************)
(* The power mode of a node and its check-ins with the hub (swarm/swarm.c, *)
(* swarm/batt_cycle.c).  A node in a battery mode wakes, checks in, obeys  *)
(* the answer and sleeps until the next wake; an always-on node checks in  *)
(* every few minutes from a task of its own.  The hub answers each         *)
(* check-in from checkin_task: change mode, stay awake for an update, or   *)
(* nothing.  A freshly updated image must confirm itself before the next   *)
(* reset or the bootloader rolls it back.                                  *)
(***************************************************************************)
EXTENDS Naturals, Sequences, FiniteSets

CONSTANTS
  Modes,         \* swarm_power_mode_t: 0 is ALWAYS_ON, the others are battery modes
  FailLimit,     \* BATT_FAILED_WAKE_LIMIT
  MaxRetries,    \* BATT_PENDING_VERIFY_MAX_RETRIES
  QueueLen,      \* CHECKIN_QUEUE_LEN
  MaxChanges,    \* bound: mode changes the operator makes
  MaxUpdates,    \* bound: updates the operator starts
  MaxTrouble,    \* bound: frames lost, or answered too late, while the hub is there
  MaxFlashFails, \* bound: NVS and otadata writes that fail on the node
  MaxCrashes,    \* bound: power losses of the node
  MaxOutages,    \* bound: times the hub goes away
  MaxRoles       \* bound: changes of the node's radio role

ASSUME NodeLifeAssumption ==
  /\ 0 \in Modes /\ Modes \subseteq Nat
  /\ FailLimit \in Nat \ {0} /\ MaxRetries \in Nat /\ QueueLen \in Nat \ {0}
  /\ {MaxChanges, MaxUpdates, MaxTrouble, MaxFlashFails, MaxCrashes, MaxOutages,
      MaxRoles} \subseteq Nat

VARIABLES
  hub,    \* the membership store, node_stat_t, s_checkin_queue and the update session
  node,   \* the node's RAM: the two check-in tasks, s_checkin_ack_queue, swarm_store's cache
  flash,  \* the node's NVS and the state of its running image
  lost,   \* history: the restarts of the node's own that rolled a trial image back, with no
          \* power loss and no failed write of the confirmation
  spent   \* the bounds used up so far

vars == <<hub, node, flash, lost, spent>>

AlwaysOn == 0
None == [command |-> "NONE", arg |-> 0]
StayAwake == [command |-> "STAY_AWAKE", arg |-> 0]
SetMode(m) == [command |-> "SET_MODE", arg |-> m]
NoAck == [command |-> "no ack", arg |-> 0]

Spend(what) == spent' = [spent EXCEPT ![what] = @ - 1]
Can(what) == spent[what] > 0

\* The RAM of a node that has just booted: swarm_store_init() read NVS,
\* swarm_start_node() made the queues and tasks, and app_main() started the
\* battery cycle unless the stored mode is always-on.
Booted(fl) ==
  [cycle |-> IF fl.mode = AlwaysOn THEN "gone" ELSE "send", mode |-> fl.mode, round |-> 1,
   task |-> "resting", power |-> fl.mode, failed |-> fl.failed, acks |-> <<>>, got |-> NoAck,
   retries |-> 0, session |-> FALSE, healthy |-> FALSE]

\* What a reset does to the image: the bootloader boots a new image on trial,
\* and goes back to the old one when a trial boot was never confirmed.
AfterReset(fl) == [fl EXCEPT !.image = IF @ = "new" THEN "pending" ELSE "valid"]

Init ==
  /\ \E m \in Modes :
       /\ flash = [mode |-> m, failed |-> 0, image |-> "valid"]
       /\ hub = [here |-> TRUE, desired |-> m, reported |-> {}, queue |-> <<>>, ota |-> "none"]
  /\ node = Booted(flash)
  /\ lost = {}
  /\ spent = [change |-> MaxChanges, update |-> MaxUpdates, trouble |-> MaxTrouble,
              write |-> MaxFlashFails, crash |-> MaxCrashes, outage |-> MaxOutages, role |-> MaxRoles]

\* Up with swarm_start_node() behind it: not asleep, and not unpaired in the portal.
Awake == node.cycle \notin {"asleep", "portal"}
Pending == flash.image = "pending"   \* running_image_pending_verify()
Restart(fl) == flash' = AfterReset(fl) /\ node' = Booted(fl)
RollsBack(cause) == lost' = IF Pending THEN lost \cup {cause} ELSE lost

-----------------------------------------------------------------------------
(* Check-ins, from whichever task sends them *)

\* hub_rx_cb() only queues a check-in of a paired node for checkin_task; a full
\* queue drops it.
HubHears(mode) ==
  hub' = IF Len(hub.queue) < QueueLen THEN [hub EXCEPT !.queue = Append(@, mode)] ELSE hub

\* A check-in from the battery cycle reports the mode it started with, one from
\* the always-on task always reports ALWAYS_ON.  Sending drains a stale answer.
\* "fate" is the send failing, the frame lost on the way, or its arrival.
Transmit(mode, fate) ==
  CASE fate = "arrives" ->
         /\ hub.here
         /\ HubHears(mode)
         /\ UNCHANGED spent
    [] hub.here -> Can("trouble") /\ Spend("trouble") /\ UNCHANGED hub
    [] OTHER -> UNCHANGED <<hub, spent>>

\* pairing_node_resync_channel() between the two rounds of do_checkin_round()
\* finds the hub if it is there: its PONG is a health signal too.
NextRound(n) ==
  IF n.round = 1 THEN [n EXCEPT !.cycle = "send", !.round = 2, !.healthy = @ \/ hub.here]
                 ELSE [n EXCEPT !.cycle = "decide", !.got = NoAck]

CycleSend == \E fate \in {"arrives", "lost", "fails"} :
  /\ node.cycle = "send"
  /\ Transmit(node.mode, fate)
  /\ node' = IF fate = "fails" THEN NextRound([node EXCEPT !.acks = <<>>])
                               ELSE [node EXCEPT !.acks = <<>>, !.cycle = "wait"]
  /\ UNCHANGED <<flash, lost>>

\* BATT_ALWAYS_ON_CHECKIN_S goes by: far longer than any wait for an answer.
TaskRests ==
  /\ Awake /\ node.task = "resting" /\ node.cycle # "wait"
  /\ node' = [node EXCEPT !.task = IF node.power = AlwaysOn THEN "idle" ELSE @]
  /\ UNCHANGED <<hub, flash, lost, spent>>

TaskSend == \E fate \in {"arrives", "lost", "fails"} :
  /\ Awake /\ node.task = "idle"
  /\ Transmit(AlwaysOn, fate)
  /\ node' = [node EXCEPT !.acks = <<>>, !.task = IF fate = "fails" THEN "resting" ELSE "wait"]
  /\ UNCHANGED <<flash, lost>>

\* BATT_CHECKIN_WAIT_MS without an answer.
TimesOut ==
  /\ node.acks = <<>>
  /\ IF hub.queue = <<>> THEN UNCHANGED spent ELSE Can("trouble") /\ Spend("trouble")
  /\ UNCHANGED <<hub, flash, lost>>

CycleTimeout == node.cycle = "wait" /\ TimesOut /\ node' = NextRound(node)
TaskTimeout == Awake /\ node.task = "wait" /\ TimesOut /\ node' = [node EXCEPT !.task = "resting"]

CycleAck ==
  /\ node.cycle = "wait" /\ node.acks # <<>>
  /\ node' = [node EXCEPT !.cycle = "decide", !.got = Head(node.acks), !.acks = <<>>]
  /\ UNCHANGED <<hub, flash, lost, spent>>

-----------------------------------------------------------------------------
(* What the node does with the answer *)

\* swarm_store_set_power_mode(): the cache first, then NVS, which may fail.
Stores(m, written) ==
  IF written THEN [flash EXCEPT !.mode = m] ELSE flash

\* Mutant of ConfirmFirst: restarts without confirming the image.
RestartAtOnce(fl, confirmed) == fl

\* confirm_health_before_restart()
ConfirmFirst(fl, confirmed) ==
  IF confirmed /\ fl.image = "pending" THEN [fl EXCEPT !.image = "valid"] ELSE fl

\* Persist the mode, confirm the image, restart into the mode.  A write that
\* fails leaves the new mode in the cache and the restart undone.
ObeyMode(m, after) == \E written, confirmed \in BOOLEAN :
  /\ written /\ confirmed => UNCHANGED spent
  /\ ~(written /\ confirmed) => Can("write") /\ Spend("write")
  /\ written \/ confirmed
  /\ IF written
     THEN /\ Restart(ConfirmFirst(Stores(m, TRUE), confirmed))
          /\ lost' = IF confirmed /\ ConfirmFirst(flash, confirmed).image = "pending"
                     THEN lost \cup {"mode"} ELSE lost
     ELSE /\ node' = [after EXCEPT !.power = m]
          /\ UNCHANGED <<flash, lost>>
  /\ UNCHANGED hub

TaskAck ==
  /\ Awake /\ node.task = "wait" /\ node.acks # <<>>
  /\ LET n == [node EXCEPT !.task = "resting", !.acks = <<>>] IN
     IF Head(node.acks).command = "SET_MODE" THEN ObeyMode(Head(node.acks).arg, n)
     ELSE node' = n /\ UNCHANGED <<hub, flash, lost, spent>>

CycleObeys ==
  /\ node.cycle = "decide" /\ node.got.command = "SET_MODE"
  /\ ObeyMode(node.got.arg, [node EXCEPT !.cycle = "account"])

CycleStays ==
  /\ node.cycle = "decide" /\ node.got.command = "STAY_AWAKE"
  /\ node' = [node EXCEPT !.cycle = "stay"]
  /\ UNCHANGED <<hub, flash, lost, spent>>

\* battery_stay_awake_wait() returns after the grace with no session, some idle
\* seconds after one, or at the cap, whatever the session is doing.
StayEnds ==
  /\ node.cycle = "stay"
  /\ node' = [node EXCEPT !.cycle = "account"]
  /\ UNCHANGED <<hub, flash, lost, spent>>

CycleIdle ==
  /\ node.cycle = "decide" /\ node.got.command \in {"NONE", "no ack"}
  /\ node' = [node EXCEPT !.cycle = "account"]
  /\ UNCHANGED <<hub, flash, lost, spent>>

\* Mutant of FailedNext: a failed wake is not added up.
FailedNotKept == IF node.got # NoAck THEN 0 ELSE node.failed

\* batt_failed_wake_next()
FailedNext == IF node.got # NoAck THEN 0
              ELSE IF node.failed + 1 >= FailLimit THEN FailLimit ELSE node.failed + 1
FallsBack == node.got = NoAck /\ node.failed + 1 >= FailLimit

MayTryAgain == Pending /\ node.retries < MaxRetries

MaySleep == ~Pending

\* battery_enter_always_on_fallback() on the RAM: the battery task returns.
FallenBack == [node EXCEPT !.cycle = "gone", !.power = AlwaysOn, !.failed = 0,
                           !.retries = 0, !.round = 1, !.got = NoAck]

\* The end of a pass: account for the wake, then fall back to always-on, go
\* round again for an unconfirmed image, or sleep.  The count is written, and on a
\* fallback the mode, then the count again; one of these writes may fail, the cache
\* keeps what was meant.
Account == \E countWritten, modeWritten \in BOOLEAN :
  LET count(c) == [flash EXCEPT !.failed = IF countWritten THEN c ELSE @] IN
  /\ node.cycle = "account"
  /\ countWritten \/ modeWritten
  /\ IF countWritten /\ modeWritten THEN UNCHANGED spent ELSE Can("write") /\ Spend("write")
  /\ \/ /\ FallsBack \/ (Pending /\ ~MayTryAgain)
        /\ node' = FallenBack
        /\ flash' = IF modeWritten THEN [count(0) EXCEPT !.mode = AlwaysOn] ELSE count(0)
     \/ /\ ~FallsBack /\ MayTryAgain /\ modeWritten
        /\ node' = [node EXCEPT !.cycle = "send", !.round = 1, !.failed = FailedNext,
                                !.retries = @ + 1]
        /\ flash' = count(FailedNext)
     \/ /\ ~FallsBack /\ MaySleep /\ modeWritten
        /\ flash' = count(FailedNext)
        /\ node' = [Booted(flash') EXCEPT !.cycle = "asleep"]   \* RAM is gone
  /\ UNCHANGED <<hub, lost>>

\* The wake timer resets the node.
Wake ==
  /\ node.cycle = "asleep"
  /\ Restart(flash)
  /\ RollsBack("sleep")
  /\ UNCHANGED <<hub, spent>>

\* ota_rollback_guard_node_confirm() from health_confirm_task, which retries at
\* the next signal when the otadata write fails.
HealthConfirm == \E written \in BOOLEAN :
  /\ Awake /\ node.healthy
  /\ IF written \/ ~Pending THEN UNCHANGED spent ELSE Can("write") /\ Spend("write")
  /\ flash' = IF written THEN ConfirmFirst(flash, TRUE) ELSE flash
  /\ node' = [node EXCEPT !.healthy = FALSE]
  /\ UNCHANGED <<hub, lost>>

\* node_config_task persisted a radio role that the mode allows (NodeConfig has the
\* roles), acknowledged it and restarts into it.  It does not confirm the image.
RoleRestart ==
  /\ Awake /\ hub.here /\ Can("role") /\ Spend("role")
  /\ Restart(flash)
  /\ RollsBack("role")
  /\ UNCHANGED hub

\* FORGET from the hub, or the reset button: the node forgets its hub and restarts
\* into the portal, without confirming the image.  It is followed no further.
Unpair ==
  /\ Awake
  /\ flash' = AfterReset(flash)
  /\ node' = [Booted(flash) EXCEPT !.cycle = "portal"]
  /\ RollsBack("unpaired")
  /\ UNCHANGED <<hub, spent>>

\* forward_task delivers its first reading of this boot.
Delivered ==
  /\ Awake /\ hub.here /\ Pending /\ ~node.healthy
  /\ node' = [node EXCEPT !.healthy = TRUE]
  /\ UNCHANGED <<hub, flash, lost, spent>>

-----------------------------------------------------------------------------
(* The hub *)

\* Mutant of Reconcile: the two modes swapped.
ReconcileSwapped(desired, reported, ota) ==
  IF ota THEN StayAwake ELSE IF reported # desired THEN SetMode(reported) ELSE None

\* batt_reconcile()
Reconcile(desired, reported, ota) ==
  IF ota THEN StayAwake ELSE IF reported # desired THEN SetMode(desired) ELSE None

\* record_checkin_mode() keeps the reported mode, in RAM only.
Recorded(mode) == [hub EXCEPT !.queue = Tail(@), !.reported = {mode}]

\* node_rx_cb(): an answer of the hub is a sign of health, and waits in a queue
\* of one for whichever task sent the check-in.
NodeHears(ack) ==
  node' = IF Awake THEN [node EXCEPT !.acks = IF @ = <<>> THEN <<ack>> ELSE @, !.healthy = Pending]
          ELSE node

\* One item of checkin_task: record the reported mode, release a parked update,
\* answer.
CheckinTask == \E fate \in {"arrives", "lost"} :
  LET reported == Head(hub.queue)
      ack == Reconcile(hub.desired, reported, hub.ota # "none") IN
  /\ hub.here /\ hub.queue # <<>>
  /\ hub' = [Recorded(reported) EXCEPT !.ota = IF ack = StayAwake /\ @ = "parked" THEN "active" ELSE @]
  /\ IF fate = "arrives"
     THEN NodeHears(ack) /\ UNCHANGED spent
     ELSE Awake /\ Can("trouble") /\ Spend("trouble") /\ UNCHANGED node
  /\ UNCHANGED <<flash, lost>>

\* The operator changes the mode of the node (node_update_post).
SetDesired == \E m \in Modes \ {hub.desired} :
  /\ hub.here /\ Can("change") /\ Spend("change")
  /\ hub' = [hub EXCEPT !.desired = m]
  /\ UNCHANGED <<node, flash, lost>>

\* The mode a node is known to run, else the one it is meant to.
KnownOnBattery ==
  IF hub.reported # {} THEN hub.reported # {AlwaysOn} ELSE hub.desired # AlwaysOn

\* The operator starts an update, parked until the next check-in of a node on
\* battery (node_ota_start).
StartUpdate ==
  /\ hub.here /\ hub.ota = "none" /\ Can("update") /\ Spend("update")
  /\ hub' = [hub EXCEPT !.ota = IF KnownOnBattery THEN "parked" ELSE "active"]
  /\ UNCHANGED <<node, flash, lost>>

\* An active session reaches the node: NodeOta has the transfer itself.  An image
\* on trial cannot be updated over (esp_ota_begin).
SessionOpens ==
  /\ hub.here /\ hub.ota = "active" /\ Awake /\ ~node.session /\ ~Pending
  /\ node' = [node EXCEPT !.session = TRUE]
  /\ UNCHANGED <<hub, flash, lost, spent>>

\* The node has the whole image, selects it and restarts.
SessionInstalls ==
  /\ Awake /\ node.session /\ hub.ota = "active"
  /\ hub' = [hub EXCEPT !.ota = "none"]
  /\ Restart([flash EXCEPT !.image = "new"])
  /\ UNCHANGED <<lost, spent>>

\* A session ends at the hub, finished, aborted or out of time; the node drops
\* its half when it hears so or when it has been silent too long.
SessionGivenUp ==
  /\ hub.ota # "none"
  /\ hub' = [hub EXCEPT !.ota = "none"]
  /\ UNCHANGED <<node, flash, lost, spent>>

SessionDropped ==
  /\ Awake /\ node.session /\ hub.ota # "active"
  /\ node' = [node EXCEPT !.session = FALSE]
  /\ UNCHANGED <<hub, flash, lost, spent>>

-----------------------------------------------------------------------------
(* Faults *)

Crash ==
  /\ Awake /\ Can("crash") /\ Spend("crash")
  /\ Restart(flash)
  /\ UNCHANGED <<hub, lost>>

HubLeaves ==
  /\ hub.here /\ Can("outage") /\ Spend("outage")
  /\ hub' = [hub EXCEPT !.here = FALSE, !.reported = {}, !.queue = <<>>, !.ota = "none"]
  /\ UNCHANGED <<node, flash, lost>>

HubReturns ==
  /\ ~hub.here
  /\ hub' = [hub EXCEPT !.here = TRUE]
  /\ UNCHANGED <<node, flash, lost, spent>>

-----------------------------------------------------------------------------

NodeStep ==
  \/ CycleSend \/ CycleTimeout \/ CycleAck \/ CycleObeys \/ CycleStays \/ StayEnds
  \/ CycleIdle \/ Account \/ Wake
  \/ TaskRests \/ TaskSend \/ TaskTimeout \/ TaskAck
  \/ HealthConfirm

Next ==
  \/ NodeStep \/ Delivered \/ RoleRestart \/ Unpair
  \/ CheckinTask \/ SetDesired \/ StartUpdate \/ SessionOpens \/ SessionInstalls
  \/ SessionGivenUp \/ SessionDropped
  \/ Crash \/ HubLeaves \/ HubReturns

\* Timers expire and ready tasks run on both sides; frames, writes, the hub's
\* presence and the operator owe nothing.
Fairness ==
  /\ WF_vars(CycleSend \/ CycleTimeout \/ CycleAck \/ CycleObeys \/ CycleStays \/ StayEnds
             \/ CycleIdle \/ Account \/ Wake)
  /\ WF_vars(TaskRests \/ TaskSend \/ TaskTimeout \/ TaskAck)
  /\ WF_vars(HealthConfirm) /\ WF_vars(CheckinTask) /\ WF_vars(SessionGivenUp)

Spec == Init /\ [][Next]_vars /\ Fairness

-----------------------------------------------------------------------------
(* Properties *)

\* Whether a node lives in a battery cycle, and in which mode.
LivesIn == IF node.cycle \in {"gone", "portal"} THEN AlwaysOn ELSE flash.mode

\* A node that sleeps, falls back or restarts for a mode change never rolls a good
\* image back by itself: it waits until the image is confirmed, or confirms it
\* first.  Its own restarts that may roll it back are the two that confirm nothing,
\* for a radio role and into the portal; apart from them only a power loss or a
\* write of the confirmation that failed does.
NeverRollsItselfBack == lost \subseteq {"role", "unpaired"}

\* A node whose hub is gone for good ends up always-on, where it can be found,
\* even when the hub went away with an image on trial.
HubGoneEndsAlwaysOn == <>[](~hub.here) => <>[](LivesIn = AlwaysOn)

\* An always-on node whose write of a new mode failed: the cache holds the new
\* mode, and the always-on task, which looks at the cache, never checks in again.
Stranded == node.cycle = "gone" /\ node.power # AlwaysOn

\* While the hub is there and the operator has made up his mind, the node ends
\* up living in the mode he chose, whatever updates and fallbacks it went
\* through, or stranded by a failed write, or no longer paired.
ModeSettles == <>[](hub.here) => <>[](LivesIn = hub.desired \/ Stranded \/ node.cycle = "portal")

=============================================================================
