----------------------------- MODULE RadioSharing -----------------------------
(***************************************************************************)
(* One radio, two owners.  The GATT engine (gatt_engine.c, on the NimBLE   *)
(* host task) and the battery poller (battery_poll.c, on its own task)     *)
(* share the hub's single outbound connection with the scan that hears the *)
(* sensors; adv_decoder_task asks the engine for reads and commands and    *)
(* runs the decodes it hands back.  One action per posted event, callback, *)
(* timer expiry or task step; the tasks interleave between them.           *)
(***************************************************************************)
EXTENDS GattEngine

CONSTANTS
  MaxReads,  \* bound: read requests
  MaxPolls   \* bound: battery polls started

ASSUME RadioSharingAssumption == MaxReads \in Nat /\ MaxPolls \in Nat

VARIABLES
  hub,    \* the engine and the radio (see GattEngine)
  stage,  \* where poll_task is in handle_tick()
  done,   \* POLL_MSG_DONE messages queued to poll_task, by generation
  fresh,  \* the poller's connection has the generation s_poll_generation
  reads,  \* read requests so far (bound)
  polls   \* polls started so far (bound)

vars == <<hub, stage, done, fresh, reads, polls>>

Idle == [state |-> "IDLE", command |-> FALSE, writes |-> 0, reads |-> 0]

Init ==
  /\ hub = [active |-> FALSE, command |-> FALSE, phase |-> "IDLE", fsm |-> Idle,
            own |-> FALSE, conn |-> FALSE, retries |-> 0, running |-> None,
            target |-> None, timer |-> FALSE, pending |-> None, entry |-> None,
            req |-> FALSE, plan |-> [writes |-> 0, reads |-> 0], decode |-> FALSE,
            posts |-> <<>>, inFlight |-> FALSE,
            scanning |-> TRUE, proc |-> "none", cancel |-> FALSE, link |-> "none",
            closing |-> FALSE, op |-> "none", payload |-> None,
            reader |-> None, expired |-> FALSE, landed |-> <<>>, reports |-> <<>>]
  /\ stage = "idle" /\ done = {} /\ fresh = FALSE
  /\ reads = 0 /\ polls = 0

PollUnchanged == UNCHANGED <<stage, done, fresh, reads, polls>>

-----------------------------------------------------------------------------
(* adv_decoder_task *)

Requested == {hub.reports[i].cmd : i \in DOMAIN hub.reports}
               \cup {hub.pending} \cup IF hub.active /\ hub.command THEN {hub.running} ELSE {}

\* The decoder loop services the actor queue only while no command is
\* outstanding and no poll is in flight; one dispatch per command here.
RequestCommand(c) ==
  /\ c \notin Requested
  /\ ~CmdBusy(hub) /\ ~hub.inFlight
  /\ hub' = Post([hub EXCEPT !.entry = c, !.pending = c], "start")
  /\ PollUnchanged

RequestRead(d, plan) ==
  /\ reads < MaxReads
  /\ ~Busy(hub)
  /\ hub' = Post([hub EXCEPT !.plan = plan, !.target = d, !.req = TRUE], "start")
  /\ reads' = reads + 1
  /\ UNCHANGED <<stage, done, fresh, polls>>

\* gatt_engine_service(): the decode reads s_fsm.buf for s_mac_disp.
ServiceDecode ==
  /\ hub.decode
  /\ hub' = Post([hub EXCEPT !.decode = FALSE], "decoded")
  /\ PollUnchanged

-----------------------------------------------------------------------------
(* The NimBLE host task and the deadline timer *)

Handle(ev, handler(_, _)) ==
  /\ hub.posts # <<>> /\ Head(hub.posts) = ev
  /\ \E luck \in Luck : hub' = handler([hub EXCEPT !.posts = Tail(@)], luck)
  /\ PollUnchanged

HandleStart    == Handle("start", OnStart)
HandleDeadline == Handle("deadline", OnDeadline)
HandleDecoded  == Handle("decoded", OnDecoded)

Expire ==
  /\ hub.timer
  /\ hub' = Post([hub EXCEPT !.timer = FALSE, !.expired = TRUE], "deadline")
  /\ PollUnchanged

Connected ==
  /\ hub.proc = "engine"
  /\ \E luck \in Luck : hub' = OnConnected(hub, luck)
  /\ PollUnchanged

ConnectFailed ==
  /\ hub.proc = "engine"
  /\ \E luck \in Luck : hub' = OnConnectFailed(hub, luck)
  /\ PollUnchanged

\* The stack ends the link's ATT procedure before it reports the link gone.
Disconnected ==
  /\ hub.link = "engine" /\ hub.op = "none"
  /\ \E luck \in Luck : hub' = OnDisconnected(hub, luck)
  /\ PollUnchanged

\* The stack drops the link without a word and connects again by itself.
Reattempt ==
  /\ hub.link = "engine" /\ hub.op = "none" /\ hub.proc = "none" /\ ~hub.scanning
  /\ hub' = [hub EXCEPT !.link = "none", !.closing = FALSE, !.proc = "engine",
                        !.cancel = FALSE]
  /\ PollUnchanged

\* A write may reach the peer and its answer still be lost.
Outcomes ==
  IF hub.op = "read" THEN {"ERROR", "READ_OK", "READ_SHORT", "READ_REFUTED"}
  ELSE {"ERROR", "WRITE_OK"}

Complete ==
  /\ hub.op # "none"
  /\ \E outcome \in Outcomes, reached \in BOOLEAN, luck \in Luck :
       /\ outcome = "READ_REFUTED" => hub.fsm.command
       /\ outcome = "WRITE_OK" => reached
       /\ LET g == IF hub.payload # None /\ reached
                   THEN [hub EXCEPT !.landed = Append(@, hub.payload)] ELSE hub
          IN  hub' = OnComplete(g, outcome, luck)
  /\ PollUnchanged

-----------------------------------------------------------------------------
(* battery_poll.c *)

\* handle_tick() looks at the engine, stops the scan and connects; the host
\* task may run between these.
PollCheck ==
  /\ stage = "idle" /\ polls < MaxPolls
  /\ ~hub.inFlight /\ ~Busy(hub)
  /\ stage' = "checked"
  /\ UNCHANGED <<hub, done, fresh, reads, polls>>

\* A new generation: what is still queued for the last one is stale.
PollStopScan ==
  /\ stage = "checked"
  /\ stage' = "stopped"
  /\ hub' = [hub EXCEPT !.scanning = FALSE]
  /\ done' = IF done = {} THEN {} ELSE {"old"}
  /\ fresh' = FALSE
  /\ UNCHANGED <<reads, polls>>

PollClaim ==
  /\ stage = "stopped"
  /\ stage' = "claimed"
  /\ hub' = [hub EXCEPT !.inFlight = TRUE]
  /\ UNCHANGED <<done, fresh, reads, polls>>

\* The poller restarts the scan once and does not retry.
PollResume(h) == [h EXCEPT !.scanning = @ \/ CanScan(h)]

PollConnect ==
  /\ stage = "claimed"
  /\ stage' = "idle"
  /\ polls' = polls + 1
  /\ \/ /\ hub.proc = "none" /\ hub.link = "none" /\ ~hub.scanning
        /\ hub' = [hub EXCEPT !.proc = "poll", !.cancel = FALSE]
        /\ fresh' = TRUE
     \/ /\ hub' = PollResume([hub EXCEPT !.inFlight = FALSE])
        /\ UNCHANGED fresh
  /\ UNCHANGED <<done, reads>>

PollDone(h) ==
  /\ done' = done \cup {IF fresh THEN "now" ELSE "old"}
  /\ hub' = PollResume(h)
  /\ UNCHANGED <<stage, fresh, reads, polls>>

PollConnected ==
  /\ hub.proc = "poll"
  /\ hub' = [hub EXCEPT !.proc = "none", !.link = "poll", !.closing = FALSE]
  /\ PollUnchanged

PollConnectFailed == hub.proc = "poll" /\ PollDone([hub EXCEPT !.proc = "none", !.cancel = FALSE])

PollDisconnected == hub.link = "poll" /\ PollDone([hub EXCEPT !.link = "none"])

\* A DONE of an earlier generation is discarded.
PollHandleDone ==
  /\ stage = "idle"
  /\ \E m \in done :
       /\ done' = done \ {m}
       /\ hub' = [hub EXCEPT !.inFlight = @ /\ m = "old"]
  /\ UNCHANGED <<stage, fresh, reads, polls>>

PollWatchdog ==
  /\ stage = "idle" /\ done = {} /\ hub.inFlight
  /\ hub' = PollResume([hub EXCEPT !.inFlight = FALSE])
  /\ PollUnchanged

-----------------------------------------------------------------------------
Host == HandleStart \/ HandleDeadline \/ HandleDecoded

Next ==
  \/ \E c \in Commands : RequestCommand(c)
  \/ \E d \in Readers, plan \in Plans : RequestRead(d, plan)
  \/ ServiceDecode
  \/ HandleStart \/ HandleDeadline \/ HandleDecoded \/ Expire
  \/ Connected \/ ConnectFailed \/ Disconnected \/ Reattempt \/ Complete
  \/ PollCheck \/ PollStopScan \/ PollClaim \/ PollConnect \/ PollConnected
  \/ PollConnectFailed \/ PollDisconnected \/ PollHandleDone \/ PollWatchdog

Spec == Init /\ [][Next]_vars

\* The host task runs its event queue and an armed timer expires; nothing is
\* asked of the radio or the peer.
Fairness == WF_vars(Host) /\ WF_vars(Expire)

FairSpec == Spec /\ Fairness

-----------------------------------------------------------------------------
(* Properties *)

\* The done hook hears of a command exactly once, whatever else ended the
\* attempt: two reports would clear or requeue somebody else's command.
ReportedOnce ==
  /\ \A i, j \in DOMAIN hub.reports :
       hub.reports[i].cmd = hub.reports[j].cmd => i = j
  /\ \A i \in DOMAIN hub.reports :
       /\ hub.reports[i].cmd # hub.pending
       /\ ~(hub.active /\ hub.command /\ hub.running = hub.reports[i].cmd)

\* A command is reported done only after its own write reached a peer: the
\* payload is read from a buffer the decoder task refills.
OkMeansWritten ==
  \A i \in DOMAIN hub.reports :
    hub.reports[i].verdict = "ok" => Contains(hub.landed, hub.reports[i].cmd)

\* Whoever used the radio last, once nobody holds it the hub is listening:
\* no order of teardowns, refusals, retries and late callbacks leaves it deaf.
ScanNeverLost ==
  /\ ~hub.active /\ hub.phase = "IDLE"
  /\ hub.proc = "none" /\ hub.link = "none" /\ stage \notin {"stopped", "claimed"}
  => hub.scanning

\* The process-wide connect cancel never hits the battery poller's connect.
PollNeverCancelled == ~(hub.proc = "poll" /\ hub.cancel)

\* A link the engine opened is somebody's to close: the open attempt's, or
\* it is already going down.
NoOrphanLink ==
  hub.link = "engine" => hub.closing \/ (hub.active /\ hub.conn)

\* A requested command is answered, even if the radio never is: the two
\* deadlines and the retry budget see to it.
CommandIsAnswered ==
  \A c \in Commands :
    (hub.pending = c) ~> (\E i \in DOMAIN hub.reports : hub.reports[i].cmd = c)

\* gatt_engine.c:1372-1379 says that a decode belongs to the open attempt: the
\* bytes and the address it uses are still those of the device that was read.
DecodeIsForItsReader ==
  [][ServiceDecode => hub.target = hub.reader]_vars

=============================================================================
