------------------------------- MODULE NodeConfig -------------------------------
(***************************************************************************)
(* The radio role of a node, pushed by the hub (swarm/swarm.c, radio_role).*)
(* The hub compares the role it wants with the role it last heard of, and  *)
(* sends NODE_CONFIG from checkin_task or node_flush_task; the node        *)
(* persists the role, answers and restarts into it.  The hub's knowledge   *)
(* and its request counter live in RAM.  BLE is the only role a hub may    *)
(* ask for; a node that used to be a hub may still have WIFI_ONLY stored.  *)
(***************************************************************************)
EXTENDS Naturals, Sequences

CONSTANTS
  QueueLen,      \* CHECKIN_QUEUE_LEN
  FlushLen,      \* NODE_FLUSH_QUEUE_LEN
  SeqMod,        \* cfg_seq is a uint16_t: 65536
  AirLen,        \* bound: answers of the node under way
  MaxFlashFails, \* bound: role writes that fail
  MaxRestarts    \* bound: restarts of the hub and power losses of the node, together

NodeConfigAssumption ==
  /\ {QueueLen, FlushLen, SeqMod, AirLen} \subseteq Nat \ {0}
  /\ {MaxFlashFails, MaxRestarts} \subseteq Nat

VARIABLES
  stat,     \* the node's node_stat_t: slot in use, reported radio, cfg_seq
  work,     \* s_checkin_queue
  flushes,  \* length of s_node_flush_queue
  node,     \* the node's stored role, role cache, running role, s_node_cfg_queue
  air,      \* NODE_CONFIG_ACK frames under way
  faults    \* failed writes and restarts so far (bounds)

vars == <<stat, work, flushes, node, air, faults>>

Roles == {"ble", "wifi_only"}
Desired == "ble"    \* swarm_store_node_desired_radio()
NoStat == [used |-> FALSE, radio |-> {}, seq |-> 0]

Boots(role) == [nvs |-> role, role |-> role, runs |-> role, config |-> <<>>, restarting |-> FALSE]

Init ==
  /\ stat = NoStat /\ work = <<>> /\ flushes = 0 /\ air = <<>>
  /\ \E role \in Roles : node = Boots(role)
  /\ faults = [write |-> 0, restart |-> 0]

-----------------------------------------------------------------------------
(* The hub *)

\* record_stat() makes the slot; record_reported_radio() needs it to be there.
Stat == [stat EXCEPT !.used = TRUE]
Noted(role) == IF stat.used THEN [stat EXCEPT !.radio = {role}] ELSE stat

\* What was heard, or else the default, differs from what is wanted.
RadioPending == IF stat.radio = {} THEN Desired # "ble" ELSE stat.radio # {Desired}

\* post_node_flush(): best effort.
Flushed(n) == IF n < FlushLen THEN n + 1 ELSE n

HubHearsCheckin ==
  /\ stat' = Stat
  /\ work' = IF Len(work) < QueueLen THEN Append(work, "checkin") ELSE work
  /\ flushes' = Flushed(flushes)
  /\ UNCHANGED <<node, air, faults>>

HubHearsPoll ==
  /\ stat' = Stat /\ flushes' = Flushed(flushes)
  /\ UNCHANGED <<work, node, air, faults>>

\* A node restarted into pairing tells its role in PAIR_REQ, and restarts again
\* when it is paired; swarm_note_node_radio() misses when there is no slot yet.
HubHearsPairReq ==
  /\ stat' = Noted(node.nvs)
  /\ node' = Boots(node.nvs)
  /\ UNCHANGED <<work, flushes, air, faults>>

\* swarm_send_node_config(): a new number, and a frame that is lost, dropped by
\* the node's full queue, or kept.
SendConfig == \E heard \in BOOLEAN :
  LET seq == (stat.seq + 1) % SeqMod IN
  /\ stat' = [Stat EXCEPT !.seq = seq]
  /\ node' = IF heard /\ node.config = <<>> THEN [node EXCEPT !.config = <<seq>>] ELSE node

CheckinTask ==
  /\ work # <<>> /\ work' = Tail(work)
  /\ IF Head(work) = "config" \/ RadioPending THEN SendConfig ELSE UNCHANGED <<stat, node>>
  /\ UNCHANGED <<flushes, air, faults>>

NodeFlushTask ==
  /\ flushes > 0 /\ flushes' = flushes - 1
  /\ IF RadioPending THEN SendConfig ELSE UNCHANGED <<stat, node>>
  /\ UNCHANGED <<work, air, faults>>

\* The operator sets the role: swarm_request_node_config() queues nothing when
\* the role is already known to run.
RequestNodeConfig ==
  /\ RadioPending /\ Len(work) < QueueLen
  /\ work' = Append(work, "config")
  /\ UNCHANGED <<stat, flushes, node, air, faults>>

\* hub_rx_cb(): only DONE, and only for the last request sent.
AckCounts(ack) == ack.status = "DONE" /\ ack.seq = stat.seq

HubHearsAck ==
  /\ air # <<>> /\ air' = Tail(air)
  /\ stat' = IF stat.used /\ AckCounts(Head(air)) THEN Noted(Desired) ELSE stat
  /\ flushes' = Flushed(flushes)
  /\ UNCHANGED <<work, node, faults>>

AckLost ==
  /\ air # <<>> /\ air' = Tail(air)
  /\ UNCHANGED <<stat, work, flushes, node, faults>>

HubRestart ==
  /\ faults.restart < MaxRestarts /\ faults' = [faults EXCEPT !.restart = @ + 1]
  /\ stat' = NoStat /\ work' = <<>> /\ flushes' = 0
  /\ UNCHANGED <<node, air>>

-----------------------------------------------------------------------------
(* The node *)

Answers(status) ==
  air' = IF Len(air) < AirLen THEN Append(air, [seq |-> node.config[1], status |-> status]) ELSE air

\* Mutant of RadioRoleSet: the role is not written.
RoleCachedOnly(n, written) == [n EXCEPT !.role = Desired]

\* radio_role_set(): the cache first, then NVS.
RadioRoleSet(n, written) ==
  [n EXCEPT !.role = Desired, !.nvs = IF written THEN Desired ELSE @]

\* node_config_task on a role that is already the cached one.
AlreadyRunning ==
  /\ node.config # <<>> /\ ~node.restarting /\ node.role = Desired
  /\ Answers("DONE")
  /\ node' = [node EXCEPT !.config = <<>>]
  /\ UNCHANGED <<stat, work, flushes, faults>>

\* On another role: persist it, answer, and restart half a second later.  BLE
\* passes swarm_rules_node_radio_ok() in every power mode.
Applies == \E written \in BOOLEAN :
  /\ node.config # <<>> /\ ~node.restarting /\ node.role # Desired
  /\ written \/ faults.write < MaxFlashFails
  /\ faults' = IF written THEN faults ELSE [faults EXCEPT !.write = @ + 1]
  /\ Answers(IF written THEN "DONE" ELSE "FAILED")
  /\ node' = [RadioRoleSet(node, written) EXCEPT !.config = <<>>, !.restarting = written]
  /\ UNCHANGED <<stat, work, flushes>>

NodeRestart ==
  /\ node.restarting
  /\ node' = Boots(node.nvs)
  /\ UNCHANGED <<stat, work, flushes, air, faults>>

NodeCrash ==
  /\ faults.restart < MaxRestarts /\ faults' = [faults EXCEPT !.restart = @ + 1]
  /\ node' = Boots(node.nvs)
  /\ UNCHANGED <<stat, work, flushes, air>>

-----------------------------------------------------------------------------

Next ==
  \/ HubHearsCheckin \/ HubHearsPoll \/ HubHearsPairReq \/ HubHearsAck \/ AckLost
  \/ CheckinTask \/ NodeFlushTask \/ RequestNodeConfig \/ HubRestart
  \/ AlreadyRunning \/ Applies \/ NodeRestart \/ NodeCrash

Spec == Init /\ [][Next]_vars

-----------------------------------------------------------------------------
(* Properties *)

\* What the hub takes for the node's role is the role the node will boot with:
\* "ack DONE (it genuinely IS done, trivially)" (swarm.c:1270), whatever was
\* lost, late or interrupted.
DoneIsPersisted == Desired \in stat.radio => node.nvs = Desired

\* The same, unless a write of the role has failed: then the cache alone holds
\* it, the next request finds it "already running" and is answered DONE.
DoneIsPersistedOrFailed == DoneIsPersisted \/ faults.write > 0
=============================================================================
