------------------------------ MODULE GattEngine ------------------------------
(***************************************************************************)
(* components/gatt/gatt_engine.c as operators on a hub state: the handlers *)
(* that run on the NimBLE host task and drive one attempt at a time.  The  *)
(* fields of a hub are the engine's statics, the NimBLE calls they rest on *)
(* (external) and the history the properties of RadioSharing need:         *)
(*                                                                         *)
(*   active, command, phase, fsm, own, conn, retries   s_active ...        *)
(*   running   the command of the open attempt (s_fsm.cmd_action_id)       *)
(*   target    s_dev_idx and s_mac_disp                                    *)
(*   timer     s_deadline is armed                                         *)
(*   pending, entry    s_cmd_pending with its command, and s_cmd_entry     *)
(*   req, plan, decode s_req_pending, s_plan, s_decode_pending             *)
(*   posts     ble_npl events posted to the host task, in order            *)
(*   inFlight  battery_poll.c's s_in_flight, read through s_conn_busy      *)
(*   scanning, proc, cancel, link, closing, op, payload   the radio: is    *)
(*             the scan up, whose connect procedure is outstanding and was *)
(*             it cancelled, whose link is up and is it going down, and    *)
(*             the engine's ATT procedure with what it writes              *)
(*   reader, expired, landed, reports   history: the device whose read     *)
(*             asked for the decode, the timer ran out since it was last   *)
(*             armed, the commands whose write reached a peer, and what    *)
(*             the done hook was told                                      *)
(*                                                                         *)
(* Every handler issues at most one call of each kind to the stack; "luck" *)
(* says which of them are accepted.                                        *)
(***************************************************************************)
EXTENDS GattFsm, Sequences, SequencesExt

CONSTANTS
  Readers,   \* devices with a connect plan
  Plans,     \* the connect plans, as numbers of writes and reads
  Commands,  \* commands the actor layer may dispatch, one device each
  Confirmed, \* those whose action declares a confirm read
  Malformed, \* those whose action entry does not parse
  None,      \* no command, no device
  RetryMax   \* GATT_SCAN_RETRY_MAX

ASSUME GattEngineAssumption ==
  /\ Plans \subseteq [writes: Nat, reads: Nat]
  /\ Confirmed \subseteq Commands /\ Malformed \subseteq Commands
  /\ None \notin Readers \cup Commands
  /\ RetryMax \in Nat

\* A connect, read or write; a terminate or cancel; arming the timer.
Luck == [op: BOOLEAN, drop: BOOLEAN, arm: BOOLEAN]

Post(h, ev) == [h EXCEPT !.posts = IF Contains(@, ev) THEN @ ELSE Append(@, ev)]

Arm(h) == [h EXCEPT !.timer = TRUE, !.expired = FALSE]

Busy(h) ==
  h.active \/ h.req \/ h.pending # None \/ h.decode \/ h.phase = "SCAN_RETRY"

\* Mutant of CmdBusy: a command on the radio does not count.
CmdPending(h) == h.pending # None

CmdBusy(h) == h.pending # None \/ (h.active /\ h.command)

Report(h, c, verdict) ==
  [h EXCEPT !.reports = Append(@, [cmd |-> c, verdict |-> verdict])]

-----------------------------------------------------------------------------
(* Ending an attempt *)

\* ble_gap_disc() is refused while a connect procedure is outstanding.
CanScan(h) == h.proc = "none"

ResumeScan(h, luck) ==
  LET idle == [h EXCEPT !.timer = FALSE, !.retries = 0, !.phase = "IDLE"]
  IN  CASE CanScan(h) -> [idle EXCEPT !.scanning = TRUE]
        [] ~CanScan(h) /\ h.retries < RetryMax /\ luck.arm ->
             Arm([h EXCEPT !.phase = "SCAN_RETRY", !.retries = @ + 1])
        [] OTHER -> idle

\* Mutant of KickPending: a command that waited is not started.
KickNothing(h) == h

KickPending(h) ==
  IF h.pending # None /\ h.phase = "IDLE" /\ ~h.active THEN Post(h, "start") ELSE h

ResumeScanOrRetry(h, luck) == KickPending(ResumeScan(h, luck))

\* Mutant of AttemptFinish: an attempt that is over ends again.
AttemptFinishAgain(h, luck) ==
  LET told == IF h.command
              THEN Report(h, h.running, IF h.fsm.state = "DONE" THEN "ok" ELSE "failed")
              ELSE h
  IN  ResumeScanOrRetry([told EXCEPT !.timer = FALSE, !.phase = "IDLE", !.active = FALSE,
                                     !.own = FALSE, !.conn = FALSE], luck)

AttemptFinish(h, luck) ==
  LET told == IF h.command
              THEN Report(h, h.running, IF h.fsm.state = "DONE" THEN "ok" ELSE "failed")
              ELSE h
  IN  IF ~h.active THEN h
      ELSE ResumeScanOrRetry([told EXCEPT !.timer = FALSE, !.phase = "IDLE",
                                          !.active = FALSE, !.own = FALSE,
                                          !.conn = FALSE], luck)

\* A refused terminate means that the link is already going down.
Terminate(h) == [h EXCEPT !.closing = h.link = "engine" \/ @]

CancelConnect(h) == [h EXCEPT !.cancel = h.proc # "none"]

\* Mutant of Disconnect: cancels whatever connect is outstanding.
DisconnectAny(h, luck) ==
  CASE h.conn /\ h.link = "engine" /\ luck.drop -> Terminate(h)
    [] h.conn /\ ~(h.link = "engine" /\ luck.drop) -> AttemptFinish(Terminate(h), luck)
    [] ~h.conn /\ h.proc # "none" /\ luck.drop -> CancelConnect(h)
    [] OTHER -> AttemptFinish(h, luck)

Disconnect(h, luck) ==
  CASE h.conn /\ h.link = "engine" /\ luck.drop -> Terminate(h)
    [] h.conn /\ ~(h.link = "engine" /\ luck.drop) -> AttemptFinish(Terminate(h), luck)
    [] ~h.conn /\ h.own /\ h.proc # "none" /\ luck.drop -> CancelConnect(h)
    [] OTHER -> AttemptFinish(h, luck)

ForceClose(h, luck) ==
  AttemptFinish(CASE h.conn -> Terminate(h)
                  [] ~h.conn /\ h.own -> CancelConnect(h)
                  [] OTHER -> h, luck)

-----------------------------------------------------------------------------
(* Driving the state machine *)

\* A refused call is fed back as an error, in the same handler.
Refused(h, luck) == Disconnect([h EXCEPT !.fsm = FsmStep(@, "ERROR").fsm], luck)

Connect(h, luck) ==
  LET quiet == [h EXCEPT !.scanning = FALSE]
  IN  IF h.proc = "none" /\ h.link = "none" /\ luck.op
      THEN [quiet EXCEPT !.proc = "engine", !.cancel = FALSE, !.own = TRUE]
      ELSE Refused(quiet, luck)

\* An ATT procedure; it needs the link.
Operate(h, op, luck) ==
  IF h.link = "engine" /\ h.op = "none" /\ luck.op
  THEN [h EXCEPT !.op = op,
                 !.payload = IF op = "write" /\ h.command THEN h.entry ELSE None]
  ELSE Refused(h, luck)

Feed(h, ev, luck) ==
  LET step == FsmStep(h.fsm, ev)
      g    == [h EXCEPT !.fsm = step.fsm]
  IN  CASE step.act = "NONE"        -> g
        [] step.act = "CONNECT"     -> Connect(g, luck)
        [] step.act = "READ"        -> Operate(g, "read", luck)
        [] step.act = "WRITE"       -> Operate(g, "resolve", luck)
        [] step.act = "DECODE"      -> [g EXCEPT !.decode = TRUE, !.reader = g.target]
        [] step.act = "DISCONNECT"  -> Disconnect(g, luck)
        [] step.act = "REPORT_FAIL" -> AttemptFinish(g, luck)

-----------------------------------------------------------------------------
(* Events posted to the host task *)

\* A fresh attempt: clean flags, the deadline armed, the machine started.
Begin(h, fsm, command, luck) ==
  Feed(Arm([h EXCEPT !.fsm = fsm, !.command = command, !.active = TRUE, !.own = FALSE,
                     !.conn = FALSE, !.phase = "ATTEMPT"]), "START", luck)

\* A command the engine cannot start is answered, not kept; by then the
\* machine, and past the parse also the target, are already the command's.
StartCommand(h, luck) ==
  LET c      == h.pending
      taken  == [h EXCEPT !.pending = None]
      parsed == [taken EXCEPT !.fsm = InitCommand(c \in Confirmed)]
      owned  == [parsed EXCEPT !.target = c, !.running = c]
  IN  CASE h.active \/ h.phase # "IDLE" -> h
        [] OTHER ->
             IF h.inFlight THEN Report(taken, c, "busy")
             ELSE IF c \in Malformed
                  THEN Report([parsed EXCEPT !.fsm.state = "FAILED"], c, "refused")
             ELSE IF ~luck.arm THEN Report([owned EXCEPT !.command = FALSE], c, "refused")
             ELSE Begin(owned, owned.fsm, TRUE, luck)

\* A waiting command drops the read request; a read request that finds the
\* radio taken is dropped too.
OnStart(h, luck) ==
  LET g == [h EXCEPT !.req = FALSE]
  IN  IF h.pending # None THEN StartCommand(g, luck)
      ELSE IF ~h.req \/ h.active \/ h.phase # "IDLE" \/ h.inFlight THEN g
      ELSE IF h.plan.reads = 0 \/ ~luck.arm
           THEN [g EXCEPT !.fsm = InitRead(h.plan), !.command = @ /\ h.plan.reads = 0]
      ELSE Begin(g, InitRead(h.plan), FALSE, luck)

OnDeadline(h, luck) ==
  LET torn == Feed([h EXCEPT !.phase = "TEARDOWN"], "TIMEOUT", luck)
  IN  CASE h.phase \in {"ATTEMPT", "TEARDOWN"} /\ ~h.active ->
             KickPending([h EXCEPT !.phase = "IDLE"])
        [] h.phase = "ATTEMPT" /\ h.active ->
             IF ~torn.active THEN torn
             ELSE IF luck.arm THEN Arm(torn)
             ELSE ForceClose(torn, luck)
        [] h.phase = "TEARDOWN" /\ h.active -> ForceClose(h, luck)
        [] h.phase = "SCAN_RETRY" -> ResumeScanOrRetry(h, luck)
        [] OTHER -> h

OnDecoded(h, luck) == Feed(h, "DECODED", luck)

-----------------------------------------------------------------------------
(* NimBLE callbacks *)

\* Mutant of OnConnected: a link nobody waits for any more is left alone.
OnConnectedLate(h, luck) ==
  LET g == [h EXCEPT !.proc = "none", !.cancel = FALSE, !.own = FALSE,
                     !.link = "engine", !.closing = FALSE]
  IN  IF ~h.active THEN ResumeScanOrRetry(g, luck)
      ELSE Feed([g EXCEPT !.conn = TRUE], "CONNECTED", luck)

\* The connect procedure ended with a link: close it at once when the
\* attempt it belongs to is over.
OnConnected(h, luck) ==
  LET g == [h EXCEPT !.proc = "none", !.cancel = FALSE, !.own = FALSE,
                     !.link = "engine", !.closing = FALSE]
  IN  IF ~h.active
      THEN IF luck.drop THEN Terminate(g) ELSE ResumeScanOrRetry(Terminate(g), luck)
      ELSE IF h.fsm.state \in Terminal THEN Terminate([g EXCEPT !.conn = TRUE])
      ELSE Feed([g EXCEPT !.conn = TRUE], "CONNECTED", luck)

\* Mutant of OnConnectFailed: an end nobody waits for any more is ignored.
OnConnectFailedLate(h, luck) ==
  LET g == [h EXCEPT !.proc = "none", !.cancel = FALSE, !.own = FALSE, !.conn = FALSE]
  IN  IF ~h.active THEN g ELSE AttemptFinish(Feed(g, "ERROR", luck), luck)

\* ... or without one.
OnConnectFailed(h, luck) ==
  LET g == [h EXCEPT !.proc = "none", !.cancel = FALSE, !.own = FALSE, !.conn = FALSE]
  IN  IF ~h.active THEN ResumeScanOrRetry(g, luck)
      ELSE AttemptFinish(Feed(g, "ERROR", luck), luck)

\* The end of a link that is not this attempt's is ignored.
OnDisconnected(h, luck) ==
  LET g == [h EXCEPT !.link = "none", !.closing = FALSE]
  IN  IF ~h.active THEN ResumeScanOrRetry(g, luck)
      ELSE IF ~h.conn THEN g
      ELSE AttemptFinish(Feed([g EXCEPT !.conn = FALSE], "DISCONNECTED", luck), luck)

Stale(h) == ~h.active \/ h.phase = "TEARDOWN" \/ ~h.conn

\* The end of an ATT procedure: a resolved handle goes on to the write.
OnComplete(h, outcome, luck) ==
  LET g == [h EXCEPT !.op = "none", !.payload = None]
  IN  IF Stale(h) THEN g
      ELSE IF outcome = "ERROR" THEN Feed(g, "ERROR", luck)
      ELSE IF h.op = "resolve" THEN Operate(g, "write", luck)
      ELSE Feed(g, outcome, luck)

=============================================================================
