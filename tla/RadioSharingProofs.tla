--------------------------- MODULE RadioSharingProofs ---------------------------
(***************************************************************************)
(* Proofs about RadioSharing: whatever the interleaving of the host task,  *)
(* the decoder task, the poller, the deadline timer and the radio, a       *)
(* command is reported once and truthfully, the scan comes back, no link   *)
(* is left open, and the poller's connect is never cancelled.              *)
(*                                                                         *)
(* One invariant, Core, holds between any two handlers, and is shown       *)
(* operator by operator from the bottom of gatt_engine.c upwards; what     *)
(* only holds once nobody has the radio, Listens, is restored by whatever  *)
(* ends an attempt.                                                        *)
(***************************************************************************)
EXTENDS RadioSharing, TLAPS

Fields ==
  {"active", "command", "phase", "fsm", "own", "conn", "retries", "running", "target", "timer",
   "pending", "entry", "req", "plan", "decode", "posts", "inFlight", "scanning", "proc", "cancel",
   "link", "closing", "op", "payload", "reader", "expired", "landed", "reports"}
Machines == [state : FsmStates, command : BOOLEAN, writes : Nat, reads : Nat]
Plain == [writes : Nat, reads : Nat]
Reports == [cmd : Commands, verdict : {"ok", "failed", "busy", "refused"}]

Operations == {"none", "read", "resolve", "write"}

\* A hub is a record with these fields.
Shaped(h) == h = [x \in Fields |-> h[x]]

\* A machine that is done with a command has written it.
MachineOk(f) ==
  /\ f \in Machines
  /\ f.state = "WRITING" => f.writes > 0
  /\ f.state = "READING" => f.reads > 0
  /\ f.command => f.state # "DECODING" /\ (f.state = "DONE" => f.writes = 0)

\* Who has the radio: a connect of the attempt is the engine's, a link that the engine
\* opened is closing or the attempt's, and an operation needs it.
RadioOk(h) ==
  /\ h.own => h.proc = "engine"
  /\ h.proc = "poll" => ~h.cancel
  /\ h.proc # "none" => h.link = "none"
  /\ h.op # "none" => h.link = "engine"
  /\ h.link = "engine" => h.closing \/ (h.active /\ h.conn)
  /\ ~h.active => ~h.own /\ ~h.conn

PhaseOk(h) == h.active <=> h.phase \in {"ATTEMPT", "TEARDOWN"}

\* The command of the open attempt is the one whose entry is in the buffer; nothing of
\* it is left to write once it has landed.
TakenOk(h) ==
  /\ {h.pending, h.entry, h.payload} \subseteq Commands \cup {None} /\ h.op \in Operations
  /\ h.pending # None => h.entry = h.pending
  /\ h.active /\ h.command =>
       /\ h.pending = None /\ h.running \in Commands /\ h.entry = h.running
       /\ h.fsm.command /\ (h.fsm.writes = 0 => Contains(h.landed, h.running))
       /\ h.op = "write" /\ h.conn => h.payload = h.running

\* What the done hook has heard, once each, and the truth.
ReportsOk(h) ==
  /\ h.reports \in Seq(Reports) /\ h.landed \in Seq(Commands \cup {None})
  /\ \A i, j \in DOMAIN h.reports : h.reports[i].cmd = h.reports[j].cmd => i = j
  /\ \A i \in DOMAIN h.reports :
       /\ h.reports[i].cmd # h.pending
       /\ ~(h.active /\ h.command /\ h.running = h.reports[i].cmd)
       /\ h.reports[i].verdict = "ok" => Contains(h.landed, h.reports[i].cmd)

Core(h) ==
  Shaped(h) /\ h.plan \in Plain /\ MachineOk(h.fsm) /\ RadioOk(h) /\ PhaseOk(h) /\ TakenOk(h) /\ ReportsOk(h)

\* Nobody has the radio: then it listens.
Listens(h) ==
  ~h.active /\ h.phase = "IDLE" /\ h.proc = "none" /\ h.link = "none" => h.scanning

RadioInv == Core(hub) /\ (stage \notin {"stopped", "claimed"} => Listens(hub))

-----------------------------------------------------------------------------
(* GattFsm *)

LEMMA MachineStarts ==
  /\ \A plan \in Plain : MachineOk(InitRead(plan)) /\ InitRead(plan).state = "IDLE"
  /\ \A confirm \in BOOLEAN : /\ MachineOk(InitCommand(confirm)) /\ InitCommand(confirm).command
                              /\ InitCommand(confirm).writes = 1 /\ InitCommand(confirm).state = "IDLE"
BY DEF MachineOk, Machines, Plain, InitRead, InitCommand, FsmStates, Terminal

LEMMA Changed ==
  ASSUME NEW f \in Machines, NEW state \in FsmStates, NEW act
  PROVE  LET r == To(f, state, act) IN
         r.fsm \in Machines /\ r.fsm.command = f.command /\ r.fsm.writes = f.writes
         /\ r.fsm.reads = f.reads /\ r.fsm.state = state /\ r.act = act
BY DEF To, Machines

\* The continuation of a plan: no state without something to do.
LEMMA Continued ==
  ASSUME NEW f \in Machines
  PROVE  LET r == Proceed(f) IN
         /\ MachineOk(r.fsm) /\ r.fsm.command = f.command /\ r.fsm.writes = f.writes
         /\ r.act \in {"WRITE", "READ", "DISCONNECT", "DECODE"}
<1>1. {"WRITING", "READING", "DONE", "DECODING"} \subseteq FsmStates
  BY DEF FsmStates, Terminal
<1>2. f.writes \in Nat /\ f.reads \in Nat
  BY DEF Machines
<1>3. CASE f.writes > 0
  <2>1. Proceed(f) = To(f, "WRITING", "WRITE")
    BY <1>3 DEF Proceed
  <2>2. QED
    BY <1>1, <1>3, <2>1, Changed DEF MachineOk
<1>4. CASE ~(f.writes > 0) /\ f.reads > 0
  <2>1. Proceed(f) = To(f, "READING", "READ")
    BY <1>4 DEF Proceed
  <2>2. QED
    BY <1>1, <1>4, <2>1, Changed DEF MachineOk
<1>5. CASE ~(f.writes > 0) /\ ~(f.reads > 0) /\ f.command
  <2>1. Proceed(f) = To(f, "DONE", "DISCONNECT") /\ f.writes = 0
    BY <1>2, <1>5 DEF Proceed
  <2> DEFINE r == To(f, "DONE", "DISCONNECT")
  <2>2. r.fsm \in Machines /\ r.fsm.command = f.command /\ r.fsm.writes = f.writes
        /\ r.fsm.state = "DONE" /\ r.act = "DISCONNECT"
    BY <1>1, Changed
  <2> HIDE DEF r
  <2>3. QED
    BY <2>1, <2>2 DEF MachineOk, r
<1>6. CASE ~(f.writes > 0) /\ ~(f.reads > 0) /\ ~f.command
  <2>1. Proceed(f) = To(f, "DECODING", "DECODE")
    BY <1>6 DEF Proceed
  <2>2. QED
    BY <1>1, <1>6, <2>1, Changed DEF MachineOk
<1>7. QED
  BY <1>3, <1>4, <1>5, <1>6

Acts == {"NONE", "CONNECT", "WRITE", "READ", "DISCONNECT", "DECODE", "REPORT_FAIL"}

\* One step: a write is counted off by its success only, and only the end of the link
\* is reported without a disconnect.
LEMMA Stepped ==
  ASSUME NEW f, MachineOk(f), NEW ev
  PROVE  LET r == FsmStep(f, ev) IN
         /\ MachineOk(r.fsm) /\ r.fsm.command = f.command /\ r.act \in Acts
         /\ r.act = "REPORT_FAIL" => ev = "DISCONNECTED"
         /\ r.fsm.writes # f.writes => f.state = "WRITING" /\ ev = "WRITE_OK"
<1> DEFINE r == FsmStep(f, ev)
<1>1. f \in Machines /\ f.writes \in Nat /\ f.reads \in Nat
  BY DEF MachineOk, Machines
<1>2. CASE r = Ignored(f)
  BY <1>2 DEF Ignored, Acts
<1>3. CASE r = To(f, "CONNECTING", "CONNECT")
  BY <1>1, <1>3, Changed DEF MachineOk, Acts, FsmStates
<1>4. CASE r = To(f, "FAILED", "REPORT_FAIL") /\ ev = "DISCONNECTED"
  BY <1>1, <1>4, Changed DEF MachineOk, Acts, FsmStates, Terminal
<1>5. CASE r = To(f, "FAILED", "DISCONNECT")
  BY <1>1, <1>5, Changed DEF MachineOk, Acts, FsmStates, Terminal
<1>6. CASE r = To(f, "DONE", "DISCONNECT") /\ f.state = "DECODING"
  BY <1>1, <1>6, Changed DEF MachineOk, Acts, FsmStates, Terminal
<1>7. CASE r = Proceed(f)
  BY <1>1, <1>7, Continued DEF Acts
<1>8. CASE f.state = "WRITING" /\ ev = "WRITE_OK" /\ r = Proceed([f EXCEPT !.writes = f.writes - 1])
  <2> DEFINE g == [f EXCEPT !.writes = f.writes - 1]
  <2>1. f.writes - 1 \in Nat
    BY <1>1, <1>8 DEF MachineOk
  <2>2. g \in Machines /\ g.command = f.command
    BY <1>1, <2>1 DEF Machines
  <2> HIDE DEF g
  <2>3. QED
    BY <1>8, <2>2, Continued DEF Acts, g
<1>9. CASE f.state = "READING" /\ r = Proceed([f EXCEPT !.reads = f.reads - 1])
  <2> DEFINE g == [f EXCEPT !.reads = f.reads - 1]
  <2>1. f.reads - 1 \in Nat
    BY <1>1, <1>9 DEF MachineOk
  <2>2. g \in Machines /\ g.command = f.command /\ g.writes = f.writes
    BY <1>1, <2>1 DEF Machines
  <2> HIDE DEF g
  <2>3. QED
    BY <1>9, <2>2, Continued DEF Acts, g
<1>10. QED
  BY <1>2, <1>3, <1>4, <1>5, <1>6, <1>7, <1>8, <1>9, Zenon DEF FsmStep, Advance

-----------------------------------------------------------------------------
(* GattEngine: ending an attempt *)

\* What Core depends on.
Alike(g, h) ==
  /\ g.active = h.active /\ g.command = h.command /\ g.phase = h.phase /\ g.fsm = h.fsm
  /\ g.own = h.own /\ g.conn = h.conn /\ g.running = h.running /\ g.pending = h.pending
  /\ g.entry = h.entry /\ g.plan = h.plan /\ g.proc = h.proc /\ g.cancel = h.cancel
  /\ g.link = h.link /\ g.closing = h.closing /\ g.op = h.op /\ g.payload = h.payload
  /\ g.landed = h.landed /\ g.reports = h.reports

LEMMA AlikeCore == ASSUME NEW g, NEW h, Core(h), Shaped(g), Alike(g, h) PROVE Core(g)
BY DEF Core, Alike, RadioOk, PhaseOk, TakenOk, ReportsOk

\* Timers, posted events and the scan are beside the point.
LEMMA Posted ==
  ASSUME NEW h, Core(h), NEW ev
  PROVE  Core(Post(h, ev)) /\ Alike(Post(h, ev), h) /\ Post(h, ev).scanning = h.scanning
<1>1. Shaped(Post(h, ev)) /\ Alike(Post(h, ev), h) /\ Post(h, ev).scanning = h.scanning
  BY DEF Core, Shaped, Fields, Post, Alike
<1>2. QED
  BY <1>1, AlikeCore

LEMMA Armed ==
  ASSUME NEW h, Core(h)
  PROVE  Core(Arm(h)) /\ Alike(Arm(h), h) /\ Arm(h).scanning = h.scanning
<1>1. Shaped(Arm(h)) /\ Alike(Arm(h), h) /\ Arm(h).scanning = h.scanning
  BY DEF Core, Shaped, Fields, Arm, Alike
<1>2. QED
  BY <1>1, AlikeCore

LEMMA Kicked ==
  ASSUME NEW h, Core(h)
  PROVE  Core(KickPending(h)) /\ Alike(KickPending(h), h) /\ KickPending(h).scanning = h.scanning
BY Posted DEF KickPending, Alike

\* The scan resumes, or tries again later, or the radio is still in use.
LEMMA Resumed ==
  ASSUME NEW h, Core(h), ~h.active, NEW luck
  PROVE  LET g == ResumeScanOrRetry(h, luck) IN Core(g) /\ Listens(g) /\ ~g.active
<1> DEFINE g == ResumeScan(h, luck)
           idle == [h EXCEPT !.timer = FALSE, !.retries = 0, !.phase = "IDLE"]
           retry == [h EXCEPT !.phase = "SCAN_RETRY", !.retries = @ + 1]
           back == [idle EXCEPT !.scanning = TRUE]
<1>1. Core(idle) /\ idle.proc = h.proc /\ ~idle.active
  BY DEF Core, Shaped, Fields, RadioOk, PhaseOk, TakenOk, ReportsOk
<1>2. Core(retry) /\ retry.phase = "SCAN_RETRY" /\ ~retry.active
  BY DEF Core, Shaped, Fields, RadioOk, PhaseOk, TakenOk, ReportsOk
<1>3. Core(back) /\ back.scanning /\ ~back.active
  <2> HIDE DEF idle
  <2>1. Shaped(back) /\ Alike(back, idle) /\ back.scanning
    BY <1>1 DEF Core, Shaped, Fields, Alike
  <2>2. QED
    BY <1>1, <2>1, AlikeCore DEF Alike
<1>4. Core(g) /\ Listens(g) /\ ~g.active
  <2>1. CASE CanScan(h)
    <3>1. g = back
      BY <2>1, Zenon DEF ResumeScan
    <3> HIDE DEF g, back
    <3>2. QED
      BY <1>3, <3>1 DEF Listens
  <2>2. CASE ~CanScan(h) /\ h.retries < RetryMax /\ luck.arm
    <3>1. g = Arm(retry)
      BY <2>2, Zenon DEF ResumeScan
    <3> HIDE DEF g, retry
    <3>2. QED
      BY <1>2, <3>1, Armed DEF Listens, Alike
  <2>3. CASE ~CanScan(h) /\ ~(h.retries < RetryMax /\ luck.arm)
    <3>1. g = idle
      BY <2>3, Zenon DEF ResumeScan
    <3> HIDE DEF g, idle
    <3>2. QED
      BY <1>1, <2>3, <3>1 DEF Listens, CanScan
  <2>4. QED
    BY <2>1, <2>2, <2>3
<1> HIDE DEF g
<1>5. ResumeScanOrRetry(h, luck) = KickPending(g)
  BY DEF ResumeScanOrRetry, g
<1>6. QED
  BY <1>4, <1>5, Kicked DEF Listens, Alike

\* What Listens depends on.
Still(g, h) ==
  /\ g.active = h.active /\ g.phase = h.phase /\ g.proc = h.proc /\ g.link = h.link
  /\ g.scanning = h.scanning

LEMMA ContainsAppended ==
  ASSUME NEW S, NEW s \in Seq(S), NEW x \in S, NEW c
  PROVE  Contains(Append(s, x), c) <=> Contains(s, c) \/ x = c
<1> DEFINE t == Append(s, x)
<1>1. Len(s) \in Nat /\ Len(t) = Len(s) + 1 /\ t[Len(s) + 1] = x
      /\ \A i \in 1 .. Len(s) : t[i] = s[i]
  OBVIOUS
<1> HIDE DEF t
<1>2. \A i \in 1 .. Len(t) : i \in 1 .. Len(s) \/ i = Len(s) + 1
  BY <1>1
<1>3. 1 .. Len(s) \subseteq 1 .. Len(t) /\ Len(s) + 1 \in 1 .. Len(t)
  BY <1>1
<1>4. Contains(t, c) <=> Contains(s, c) \/ x = c
  BY <1>1, <1>2, <1>3 DEF Contains
<1>5. QED
  BY <1>4 DEF t

\* One more report, of a command that is neither pending, running nor reported.
LEMMA Told ==
  ASSUME NEW h, Core(h), NEW c \in Commands, NEW verdict \in {"ok", "failed", "busy", "refused"},
         c # h.pending, ~(h.active /\ h.command /\ h.running = c),
         \A i \in DOMAIN h.reports : h.reports[i].cmd # c,
         verdict = "ok" => Contains(h.landed, c)
  PROVE  Core(Report(h, c, verdict)) /\ Still(Report(h, c, verdict), h)
<1> DEFINE r == [cmd |-> c, verdict |-> verdict]
           g == Report(h, c, verdict)
<1>1. /\ Shaped(g) /\ g.active = h.active /\ g.command = h.command /\ g.phase = h.phase /\ g.fsm = h.fsm
      /\ g.own = h.own /\ g.conn = h.conn /\ g.running = h.running /\ g.pending = h.pending
      /\ g.entry = h.entry /\ g.plan = h.plan /\ g.proc = h.proc /\ g.cancel = h.cancel
      /\ g.link = h.link /\ g.closing = h.closing /\ g.op = h.op /\ g.payload = h.payload
      /\ g.landed = h.landed /\ g.reports = Append(h.reports, r) /\ g.scanning = h.scanning
  BY DEF Core, Shaped, Fields, Report
<1>2. r \in Reports /\ r.cmd = c /\ r.verdict = verdict
  BY DEF Reports
<1> HIDE DEF g, r
<1>3. ReportsOk(g)
  <2>1. h.reports \in Seq(Reports) /\ Len(h.reports) \in Nat
    BY DEF Core, ReportsOk
  <2>2. /\ g.reports \in Seq(Reports) /\ DOMAIN g.reports = 1 .. Len(h.reports) + 1
        /\ \A i \in DOMAIN h.reports : g.reports[i] = h.reports[i]
        /\ g.reports[Len(h.reports) + 1] = r /\ DOMAIN h.reports = 1 .. Len(h.reports)
    BY <1>1, <1>2, <2>1
  <2>3. \A i \in DOMAIN g.reports : i \in DOMAIN h.reports \/ i = Len(h.reports) + 1
    BY <2>1, <2>2
  <2>4. QED
    BY <1>1, <1>2, <2>2, <2>3 DEF Core, ReportsOk
<1>4. RadioOk(g) /\ PhaseOk(g)
  BY <1>1 DEF Core, RadioOk, PhaseOk
<1>5. TakenOk(g)
  BY <1>1 DEF Core, TakenOk
<1>6. QED
  BY <1>1, <1>3, <1>4, <1>5 DEF Core, Still, g

\* The attempt is over, its command answered; its link, if any, was going down.
LEMMA Finished ==
  ASSUME NEW h, Core(h), h.active, h.link = "engine" => h.closing, NEW luck
  PROVE  LET g == AttemptFinish(h, luck) IN Core(g) /\ Listens(g) /\ ~g.active
<1> DEFINE verdict == IF h.fsm.state = "DONE" THEN "ok" ELSE "failed"
           told == IF h.command THEN Report(h, h.running, verdict) ELSE h
           over == [told EXCEPT !.timer = FALSE, !.phase = "IDLE", !.active = FALSE, !.own = FALSE,
                                !.conn = FALSE]
           \* The report and the end of the attempt, the other way round.
           ended == [h EXCEPT !.timer = FALSE, !.phase = "IDLE", !.active = FALSE, !.own = FALSE,
                              !.conn = FALSE]
<1>1. /\ Shaped(ended) /\ ended.active = FALSE /\ ended.command = h.command /\ ended.phase = "IDLE"
      /\ ended.fsm = h.fsm /\ ended.own = FALSE /\ ended.conn = FALSE /\ ended.running = h.running
      /\ ended.pending = h.pending /\ ended.entry = h.entry /\ ended.plan = h.plan
      /\ ended.proc = h.proc /\ ended.cancel = h.cancel /\ ended.link = h.link
      /\ ended.closing = h.closing /\ ended.op = h.op /\ ended.payload = h.payload
      /\ ended.landed = h.landed /\ ended.reports = h.reports
  BY DEF Core, Shaped, Fields
<1>2. Core(ended) /\ ~ended.active
  <2> HIDE DEF ended
  <2>1. RadioOk(ended) /\ PhaseOk(ended)
    BY <1>1 DEF Core, RadioOk, PhaseOk
  <2>2. TakenOk(ended) /\ ReportsOk(ended)
    BY <1>1 DEF Core, TakenOk, ReportsOk
  <2>3. QED
    BY <1>1, <2>1, <2>2 DEF Core
<1>3. Core(over) /\ ~over.active
  <2>1. CASE h.command
    <3> DEFINE c == h.running
    <3>1. /\ c \in Commands /\ c # h.pending /\ \A i \in DOMAIN h.reports : h.reports[i].cmd # c
          /\ verdict = "ok" => Contains(h.landed, c)
      <4>1. c \in Commands /\ h.pending = None /\ None \notin Commands /\ h.fsm.command
            /\ (h.fsm.writes = 0 => Contains(h.landed, c))
        BY <2>1, GattEngineAssumption DEF Core, TakenOk
      <4>2. \A i \in DOMAIN h.reports : h.reports[i].cmd # c
        BY <2>1 DEF Core, ReportsOk
      <4>3. h.fsm.state = "DONE" => h.fsm.writes = 0
        BY <4>1 DEF Core, MachineOk
      <4>4. QED
        BY <4>1, <4>2, <4>3
    <3>2. over = Report(ended, c, verdict)
      <4> DEFINE e == Report(ended, c, verdict)
      <4>1. Shaped(over) /\ Shaped(e)
        BY <1>1 DEF Core, Shaped, Report
      <4>2. \A x \in Fields : over[x] = e[x]
        BY <2>1 DEF Core, Shaped, Report, Fields
      <4> HIDE DEF over, e
      <4>3. QED
        BY <4>1, <4>2 DEF Shaped, e
    <3> HIDE DEF ended, over, verdict
    <3>3. verdict \in {"ok", "failed", "busy", "refused"}
      BY DEF verdict
    <3>4. Core(over)
      BY <1>1, <1>2, <3>1, <3>2, <3>3, Told
    <3>5. ~over.active
      BY <1>1, <3>2 DEF Report, Shaped, Fields
    <3>6. QED
      BY <3>4, <3>5
  <2>2. CASE ~h.command
    <3>1. over = ended
      BY <2>2
    <3>2. QED
      BY <1>2, <3>1
  <2>3. QED
    BY <2>1, <2>2
<1>4. AttemptFinish(h, luck) = ResumeScanOrRetry(over, luck)
  BY Zenon DEF AttemptFinish
<1> HIDE DEF over
<1>5. QED
  BY <1>3, <1>4, Resumed

LEMMA NothingToFinish == ASSUME NEW h, ~h.active, NEW luck PROVE AttemptFinish(h, luck) = h
BY DEF AttemptFinish

LEMMA Terminated ==
  ASSUME NEW h, Core(h)
  PROVE  LET g == Terminate(h) IN
         /\ Core(g) /\ g.active = h.active /\ (g.link = "engine" => g.closing)
         /\ g.command = h.command /\ g.link = h.link /\ g.phase = h.phase /\ g.proc = h.proc
         /\ g.scanning = h.scanning
<1> DEFINE g == Terminate(h)
<1>1. /\ Shaped(g) /\ g.active = h.active /\ g.command = h.command /\ g.phase = h.phase /\ g.fsm = h.fsm
      /\ g.own = h.own /\ g.conn = h.conn /\ g.running = h.running /\ g.pending = h.pending
      /\ g.entry = h.entry /\ g.plan = h.plan /\ g.proc = h.proc /\ g.cancel = h.cancel
      /\ g.link = h.link /\ g.op = h.op /\ g.payload = h.payload
      /\ g.landed = h.landed /\ g.reports = h.reports /\ g.scanning = h.scanning
      /\ g.closing = (h.link = "engine" \/ h.closing)
  BY DEF Core, Shaped, Fields, Terminate
<1> HIDE DEF g
<1>2. g.link = "engine" => g.closing
  BY <1>1
<1>3. RadioOk(g)
  BY <1>1, <1>2 DEF Core, RadioOk
<1>4. PhaseOk(g) /\ TakenOk(g) /\ ReportsOk(g)
  BY <1>1 DEF Core, PhaseOk, TakenOk, ReportsOk
<1>5. QED
  BY <1>1, <1>2, <1>3, <1>4 DEF Core, g

LEMMA Cancelled ==
  ASSUME NEW h, Core(h), h.own
  PROVE  LET g == CancelConnect(h) IN
         /\ Core(g) /\ g.active = h.active /\ g.link = h.link /\ g.closing = h.closing
<1> DEFINE g == CancelConnect(h)
<1>1. /\ Shaped(g) /\ g.active = h.active /\ g.command = h.command /\ g.phase = h.phase /\ g.fsm = h.fsm
      /\ g.own = h.own /\ g.conn = h.conn /\ g.running = h.running /\ g.pending = h.pending
      /\ g.entry = h.entry /\ g.plan = h.plan /\ g.proc = h.proc /\ g.closing = h.closing
      /\ g.link = h.link /\ g.op = h.op /\ g.payload = h.payload
      /\ g.landed = h.landed /\ g.reports = h.reports
  BY DEF Core, Shaped, Fields, CancelConnect
<1> HIDE DEF g
<1>2. h.proc = "engine"
  BY DEF Core, RadioOk
<1>3. RadioOk(g)
  BY <1>1, <1>2 DEF Core, RadioOk
<1>4. PhaseOk(g) /\ TakenOk(g) /\ ReportsOk(g)
  BY <1>1 DEF Core, PhaseOk, TakenOk, ReportsOk
<1>5. QED
  BY <1>1, <1>3, <1>4 DEF Core, g

\* The link is taken down, the connect cancelled if it is the attempt's, or the attempt
\* is over at once.
LEMMA Dropped ==
  ASSUME NEW h, Core(h), h.active, NEW luck
  PROVE  LET g == Disconnect(h, luck) IN Core(g) /\ Listens(g)
<1>1. CASE h.conn /\ h.link = "engine" /\ luck.drop
  <2>1. Disconnect(h, luck) = Terminate(h)
    BY <1>1, Zenon DEF Disconnect
  <2>2. QED
    BY <2>1, Terminated DEF Listens
<1>2. CASE h.conn /\ ~(h.link = "engine" /\ luck.drop)
  <2>1. Disconnect(h, luck) = AttemptFinish(Terminate(h), luck)
    BY <1>2, Zenon DEF Disconnect
  <2>2. QED
    BY <2>1, Terminated, Finished
<1>3. CASE ~h.conn /\ h.own /\ h.proc # "none" /\ luck.drop
  <2>1. Disconnect(h, luck) = CancelConnect(h)
    BY <1>3, Zenon DEF Disconnect
  <2>2. QED
    BY <1>3, <2>1, Cancelled DEF Listens
<1>4. CASE ~h.conn /\ ~(h.own /\ h.proc # "none" /\ luck.drop)
  <2>1. Disconnect(h, luck) = AttemptFinish(h, luck)
    BY <1>4, Zenon DEF Disconnect
  <2>2. h.link = "engine" => h.closing
    BY <1>4 DEF Core, RadioOk
  <2>3. QED
    BY <2>1, <2>2, Finished
<1>5. QED
  BY <1>1, <1>2, <1>3, <1>4

LEMMA ForceClosed ==
  ASSUME NEW h, Core(h), h.active, NEW luck
  PROVE  LET g == ForceClose(h, luck) IN Core(g) /\ Listens(g)
<1>1. CASE h.conn
  <2>1. ForceClose(h, luck) = AttemptFinish(Terminate(h), luck)
    BY <1>1, Zenon DEF ForceClose
  <2>2. QED
    BY <2>1, Terminated, Finished
<1>2. CASE ~h.conn /\ h.own
  <2>1. ForceClose(h, luck) = AttemptFinish(CancelConnect(h), luck)
    BY <1>2, Zenon DEF ForceClose
  <2>2. h.link = "engine" => h.closing
    BY <1>2 DEF Core, RadioOk
  <2>3. QED
    BY <1>2, <2>1, <2>2, Cancelled, Finished
<1>3. CASE ~h.conn /\ ~h.own
  <2>1. ForceClose(h, luck) = AttemptFinish(h, luck)
    BY <1>3, Zenon DEF ForceClose
  <2>2. h.link = "engine" => h.closing
    BY <1>3 DEF Core, RadioOk
  <2>3. QED
    BY <2>1, <2>2, Finished
<1>4. QED
  BY <1>1, <1>2, <1>3

-----------------------------------------------------------------------------
(* GattEngine: driving the state machine *)

LEMMA MachineMoves ==
  ASSUME NEW h, Core(h), NEW f, MachineOk(f), f.command = h.fsm.command,
         h.active /\ h.command /\ f.writes = 0 => Contains(h.landed, h.running)
  PROVE  LET g == [h EXCEPT !.fsm = f] IN
         /\ Core(g) /\ g.fsm = f /\ g.active = h.active /\ g.link = h.link /\ g.closing = h.closing
         /\ g.proc = h.proc /\ g.phase = h.phase /\ g.scanning = h.scanning
<1> DEFINE g == [h EXCEPT !.fsm = f]
<1>1. /\ Shaped(g) /\ g.active = h.active /\ g.command = h.command /\ g.phase = h.phase /\ g.fsm = f
      /\ g.own = h.own /\ g.conn = h.conn /\ g.running = h.running /\ g.pending = h.pending
      /\ g.entry = h.entry /\ g.plan = h.plan /\ g.proc = h.proc /\ g.cancel = h.cancel
      /\ g.link = h.link /\ g.closing = h.closing /\ g.op = h.op /\ g.payload = h.payload
      /\ g.landed = h.landed /\ g.reports = h.reports /\ g.scanning = h.scanning
  BY DEF Core, Shaped, Fields
<1> HIDE DEF g
<1>2. RadioOk(g) /\ PhaseOk(g) /\ ReportsOk(g)
  BY <1>1 DEF Core, RadioOk, PhaseOk, ReportsOk
<1>3. TakenOk(g)
  BY <1>1 DEF Core, TakenOk
<1>4. QED
  BY <1>1, <1>2, <1>3 DEF Core, g

\* A refused call ends the attempt as an error would.
LEMMA RefusedEnds ==
  ASSUME NEW h, Core(h), h.active, NEW luck
  PROVE  LET g == Refused(h, luck) IN Core(g) /\ Listens(g)
<1> DEFINE f == FsmStep(h.fsm, "ERROR").fsm
           g == [h EXCEPT !.fsm = f]
<1>1. MachineOk(f) /\ f.command = h.fsm.command /\ f.writes = h.fsm.writes
  BY Stepped DEF Core
<1>2. h.active /\ h.command /\ f.writes = 0 => Contains(h.landed, h.running)
  BY <1>1 DEF Core, TakenOk
<1>3. Refused(h, luck) = Disconnect(g, luck)
  BY DEF Refused
<1> HIDE DEF f
<1>4. Core(g) /\ g.active
  BY <1>1, <1>2, MachineMoves
<1> HIDE DEF g
<1>5. QED
  BY <1>3, <1>4, Dropped

LEMMA ConnectAsked ==
  ASSUME NEW h, Core(h), h.active, NEW luck
  PROVE  LET g == Connect(h, luck) IN Core(g) /\ Listens(g)
<1> DEFINE quiet == [h EXCEPT !.scanning = FALSE]
           g == [quiet EXCEPT !.proc = "engine", !.cancel = FALSE, !.own = TRUE]
<1>1. Core(quiet) /\ quiet.active
  <2>1. Shaped(quiet) /\ Alike(quiet, h)
    BY DEF Core, Shaped, Fields, Alike
  <2> HIDE DEF quiet
  <2>2. QED
    BY <2>1, AlikeCore DEF Alike
<1>2. CASE h.proc = "none" /\ h.link = "none" /\ luck.op
  <2>1. Connect(h, luck) = g
    BY <1>2, Zenon DEF Connect
  <2>2. /\ Shaped(g) /\ g.active = h.active /\ g.command = h.command /\ g.phase = h.phase /\ g.fsm = h.fsm
        /\ g.own = TRUE /\ g.conn = h.conn /\ g.running = h.running /\ g.pending = h.pending
        /\ g.entry = h.entry /\ g.plan = h.plan /\ g.proc = "engine" /\ g.cancel = FALSE
        /\ g.link = h.link /\ g.closing = h.closing /\ g.op = h.op /\ g.payload = h.payload
        /\ g.landed = h.landed /\ g.reports = h.reports
    BY DEF Core, Shaped, Fields
  <2> HIDE DEF g
  <2>3. RadioOk(g)
    BY <1>2, <2>2 DEF Core, RadioOk
  <2>4. PhaseOk(g) /\ TakenOk(g) /\ ReportsOk(g)
    BY <2>2 DEF Core, PhaseOk, TakenOk, ReportsOk
  <2>5. Core(g) /\ Listens(g)
    BY <2>2, <2>3, <2>4 DEF Core, Listens
  <2>6. QED
    BY <2>1, <2>5
<1>3. CASE ~(h.proc = "none" /\ h.link = "none" /\ luck.op)
  <2>1. Connect(h, luck) = Refused(quiet, luck)
    BY <1>3, Zenon DEF Connect
  <2> HIDE DEF quiet
  <2>2. QED
    BY <1>1, <2>1, RefusedEnds
<1>4. QED
  BY <1>2, <1>3

\* What is written is the running command's own payload.
LEMMA Operated ==
  ASSUME NEW h, Core(h), h.active, NEW op \in Operations, NEW luck
  PROVE  LET g == Operate(h, op, luck) IN Core(g) /\ Listens(g)
<1> DEFINE payload == IF op = "write" /\ h.command THEN h.entry ELSE None
           g == [h EXCEPT !.op = op, !.payload = payload]
<1>1. CASE h.link = "engine" /\ h.op = "none" /\ luck.op
  <2>1. Operate(h, op, luck) = g
    BY <1>1, Zenon DEF Operate
  <2>2. payload \in Commands \cup {None} /\ (op = "write" /\ h.command => payload = h.entry)
    BY DEF Core, TakenOk
  <2> HIDE DEF payload
  <2>3. /\ Shaped(g) /\ g.active = h.active /\ g.command = h.command /\ g.phase = h.phase /\ g.fsm = h.fsm
        /\ g.own = h.own /\ g.conn = h.conn /\ g.running = h.running /\ g.pending = h.pending
        /\ g.entry = h.entry /\ g.plan = h.plan /\ g.proc = h.proc /\ g.cancel = h.cancel
        /\ g.link = h.link /\ g.closing = h.closing /\ g.op = op /\ g.payload = payload
        /\ g.landed = h.landed /\ g.reports = h.reports
    BY DEF Core, Shaped, Fields
  <2> HIDE DEF g
  <2>4. RadioOk(g)
    BY <1>1, <2>3 DEF Core, RadioOk
  <2>5. PhaseOk(g) /\ ReportsOk(g)
    BY <2>3 DEF Core, PhaseOk, ReportsOk
  <2>6. TakenOk(g)
    BY <2>2, <2>3 DEF Core, TakenOk
  <2>7. QED
    BY <2>1, <2>3, <2>4, <2>5, <2>6 DEF Core, Listens
<1>2. CASE ~(h.link = "engine" /\ h.op = "none" /\ luck.op)
  <2>1. Operate(h, op, luck) = Refused(h, luck)
    BY <1>2, Zenon DEF Operate
  <2>2. QED
    BY <2>1, RefusedEnds
<1>3. QED
  BY <1>1, <1>2

LEMMA DecodeAsked ==
  ASSUME NEW h, Core(h), h.active
  PROVE  LET g == [h EXCEPT !.decode = TRUE, !.reader = h.target] IN Core(g) /\ Listens(g)
<1> DEFINE g == [h EXCEPT !.decode = TRUE, !.reader = h.target]
<1>1. Shaped(g) /\ Alike(g, h)
  BY DEF Core, Shaped, Fields, Alike
<1> HIDE DEF g
<1>2. Core(g) /\ Listens(g)
  BY <1>1, AlikeCore DEF Alike, Listens
<1>3. QED
  BY <1>2 DEF g

\* An event for the open attempt.
LEMMA Fed ==
  ASSUME NEW h, Core(h), h.active, NEW ev, NEW luck,
         ev = "WRITE_OK" /\ h.command => Contains(h.landed, h.running),
         ev = "DISCONNECTED" => (h.link = "engine" => h.closing)
  PROVE  LET g == Feed(h, ev, luck) IN Core(g) /\ Listens(g)
<1> DEFINE step == FsmStep(h.fsm, ev)
           f == step.fsm
           g == [h EXCEPT !.fsm = f]
<1>1. /\ MachineOk(f) /\ f.command = h.fsm.command /\ step.act \in Acts
      /\ step.act = "REPORT_FAIL" => ev = "DISCONNECTED"
      /\ f.writes # h.fsm.writes => ev = "WRITE_OK"
  BY Stepped DEF Core
<1>2. h.active /\ h.command /\ f.writes = 0 => Contains(h.landed, h.running)
  BY <1>1 DEF Core, TakenOk
<1> HIDE DEF f
<1>3. Core(g) /\ g.active /\ g.link = h.link /\ g.closing = h.closing
  BY <1>1, <1>2, MachineMoves
<1>4. Feed(h, ev, luck) =
        CASE step.act = "NONE"        -> g
          [] step.act = "CONNECT"     -> Connect(g, luck)
          [] step.act = "READ"        -> Operate(g, "read", luck)
          [] step.act = "WRITE"       -> Operate(g, "resolve", luck)
          [] step.act = "DECODE"      -> [g EXCEPT !.decode = TRUE, !.reader = g.target]
          [] step.act = "DISCONNECT"  -> Disconnect(g, luck)
          [] step.act = "REPORT_FAIL" -> AttemptFinish(g, luck)
  BY Zenon DEF Feed, f
<1> HIDE DEF step, g
<1>5. CASE step.act = "NONE"
  <2>1. Feed(h, ev, luck) = g
    BY <1>4, <1>5
  <2>2. QED
    BY <1>3, <2>1 DEF Listens
<1>6. CASE step.act = "CONNECT"
  BY <1>3, <1>4, <1>6, ConnectAsked
<1>7. CASE step.act = "READ"
  BY <1>3, <1>4, <1>7, Operated DEF Operations
<1>8. CASE step.act = "WRITE"
  BY <1>3, <1>4, <1>8, Operated DEF Operations
<1>9. CASE step.act = "DECODE"
  BY <1>3, <1>4, <1>9, DecodeAsked
<1>10. CASE step.act = "DISCONNECT"
  BY <1>3, <1>4, <1>10, Dropped
<1>11. CASE step.act = "REPORT_FAIL"
  BY <1>1, <1>3, <1>4, <1>11, Finished
<1>12. QED
  BY <1>1, <1>5, <1>6, <1>7, <1>8, <1>9, <1>10, <1>11 DEF Acts

-----------------------------------------------------------------------------
(* GattEngine: the events posted to the host task *)

\* What a handler leaves: a hub in order, which listens if it did and nobody has the
\* radio.
Good(h, g) == Core(g) /\ (Listens(h) => Listens(g))

\* Without an open attempt, the machine and its command may be anything in order.
LEMMA IdleCore ==
  ASSUME NEW h, Core(h), ~h.active, NEW g, Shaped(g), MachineOk(g.fsm), ~g.active,
         g.phase = h.phase, g.own = h.own, g.conn = h.conn, g.pending \in {h.pending, None},
         g.entry = h.entry, g.plan = h.plan, g.proc = h.proc, g.cancel = h.cancel, g.link = h.link,
         g.closing = h.closing, g.op = h.op, g.payload = h.payload, g.landed = h.landed,
         g.reports = h.reports
  PROVE  Core(g)
<1>1. RadioOk(g) /\ PhaseOk(g)
  BY DEF Core, RadioOk, PhaseOk
<1>2. TakenOk(g)
  BY DEF Core, TakenOk
<1>3. ReportsOk(g)
  <2>1. h.reports \in Seq(Reports)
    BY DEF Core, ReportsOk
  <2>2. \A i \in DOMAIN h.reports : h.reports[i] \in Reports
    BY <2>1
  <2>3. \A i \in DOMAIN h.reports : h.reports[i].cmd # None
    BY <2>2, GattEngineAssumption DEF Reports
  <2>4. QED
    BY <2>3 DEF Core, ReportsOk
<1>4. QED
  BY <1>1, <1>2, <1>3 DEF Core

\* A fresh attempt, of a read or of a command that is ready to run.
LEMMA Begun ==
  ASSUME NEW h, Core(h), ~h.active, NEW f, MachineOk(f), NEW command \in BOOLEAN, NEW luck,
         command => /\ f.command /\ f.writes = 1 /\ h.pending = None /\ h.running \in Commands
                    /\ h.entry = h.running
                    /\ \A i \in DOMAIN h.reports : h.reports[i].cmd # h.running
  PROVE  LET g == Begin(h, f, command, luck) IN Core(g) /\ Listens(g)
<1> DEFINE g == [h EXCEPT !.fsm = f, !.command = command, !.active = TRUE, !.own = FALSE,
                          !.conn = FALSE, !.phase = "ATTEMPT"]
<1>1. /\ Shaped(g) /\ g.active = TRUE /\ g.command = command /\ g.phase = "ATTEMPT" /\ g.fsm = f
      /\ g.own = FALSE /\ g.conn = FALSE /\ g.running = h.running /\ g.pending = h.pending
      /\ g.entry = h.entry /\ g.plan = h.plan /\ g.proc = h.proc /\ g.cancel = h.cancel
      /\ g.link = h.link /\ g.closing = h.closing /\ g.op = h.op /\ g.payload = h.payload
      /\ g.landed = h.landed /\ g.reports = h.reports
  BY DEF Core, Shaped, Fields
<1>2. Begin(h, f, command, luck) = Feed(Arm(g), "START", luck)
  BY Zenon DEF Begin
<1> HIDE DEF g
<1>3. RadioOk(g) /\ PhaseOk(g)
  BY <1>1 DEF Core, RadioOk, PhaseOk
<1>4. TakenOk(g)
  BY <1>1 DEF Core, TakenOk
<1>5. ReportsOk(g)
  BY <1>1 DEF Core, ReportsOk
<1>6. Core(Arm(g)) /\ Arm(g).active
  BY <1>1, <1>3, <1>4, <1>5, Armed DEF Core, Alike
<1>7. QED
  BY <1>2, <1>6, Fed

\* A command that waited is begun, or answered and not kept.
LEMMA CommandStarted ==
  ASSUME NEW h, Core(h), h.pending # None, NEW luck
  PROVE  Good(h, StartCommand(h, luck))
<1> DEFINE c == h.pending
           f == InitCommand(c \in Confirmed)
           taken == [h EXCEPT !.pending = None]
           parsed == [taken EXCEPT !.fsm = f]
           owned == [parsed EXCEPT !.target = c, !.running = c]
           failed == [parsed EXCEPT !.fsm.state = "FAILED"]
           read == [owned EXCEPT !.command = FALSE]
<1>1. CASE h.active \/ h.phase # "IDLE"
  BY <1>1 DEF StartCommand, Good
<1>2. CASE ~(h.active \/ h.phase # "IDLE")
  <2> DEFINE Ready(g) ==
               /\ Core(g) /\ Still(g, h) /\ g.pending = None /\ g.reports = h.reports
               /\ g.entry = c
  <2>1. c \in Commands /\ c # None /\ h.entry = c /\ \A i \in DOMAIN h.reports : h.reports[i].cmd # c
    BY DEF Core, TakenOk, ReportsOk
  <2>2. f \in Machines /\ f.command /\ f.writes = 1 /\ MachineOk(f)
    <3>1. (c \in Confirmed) \in BOOLEAN
      OBVIOUS
    <3>2. QED
      BY <3>1, MachineStarts DEF MachineOk
  <2> HIDE DEF f
  <2>3. Ready(taken)
    <3>1. /\ Shaped(taken) /\ taken.fsm = h.fsm /\ Still(taken, h) /\ taken.own = h.own
          /\ taken.conn = h.conn /\ taken.pending = None /\ taken.entry = h.entry
          /\ taken.plan = h.plan /\ taken.cancel = h.cancel /\ taken.closing = h.closing
          /\ taken.op = h.op /\ taken.payload = h.payload /\ taken.landed = h.landed
          /\ taken.reports = h.reports
      BY DEF Core, Shaped, Fields, Still
    <3> HIDE DEF taken
    <3>2. Core(taken)
      BY <1>2, <3>1, IdleCore DEF Core, Still
    <3>3. QED
      BY <2>1, <3>1, <3>2
  <2>4. Ready(parsed) /\ parsed.fsm = f
    <3>1. /\ Shaped(parsed) /\ parsed.fsm = f /\ Still(parsed, h) /\ parsed.own = h.own
          /\ parsed.conn = h.conn /\ parsed.pending = None /\ parsed.entry = h.entry
          /\ parsed.plan = h.plan /\ parsed.cancel = h.cancel /\ parsed.closing = h.closing
          /\ parsed.op = h.op /\ parsed.payload = h.payload /\ parsed.landed = h.landed
          /\ parsed.reports = h.reports
      BY DEF Core, Shaped, Fields, Still
    <3> HIDE DEF parsed
    <3>2. Core(parsed)
      BY <1>2, <2>2, <3>1, IdleCore DEF Still
    <3>3. QED
      BY <2>1, <3>1, <3>2
  <2>5. Ready(owned) /\ owned.fsm = f /\ owned.running = c /\ Ready(read)
    <3>1. /\ Shaped(owned) /\ owned.fsm = f /\ Still(owned, h) /\ owned.own = h.own
          /\ owned.conn = h.conn /\ owned.pending = None /\ owned.entry = h.entry
          /\ owned.plan = h.plan /\ owned.cancel = h.cancel /\ owned.closing = h.closing
          /\ owned.op = h.op /\ owned.payload = h.payload /\ owned.landed = h.landed
          /\ owned.reports = h.reports /\ owned.running = c
      BY DEF Core, Shaped, Fields, Still
    <3>2. /\ Shaped(read) /\ read.fsm = f /\ Still(read, h) /\ read.own = h.own
          /\ read.conn = h.conn /\ read.pending = None /\ read.entry = h.entry
          /\ read.plan = h.plan /\ read.cancel = h.cancel /\ read.closing = h.closing
          /\ read.op = h.op /\ read.payload = h.payload /\ read.landed = h.landed
          /\ read.reports = h.reports
      BY DEF Core, Shaped, Fields, Still
    <3> HIDE DEF owned, read
    <3>3. Core(owned) /\ Core(read)
      BY <1>2, <2>2, <3>1, <3>2, IdleCore DEF Still
    <3>4. QED
      BY <2>1, <3>1, <3>2, <3>3
  <2>6. Ready(failed)
    <3> DEFINE t == [f EXCEPT !.state = "FAILED"]
    <3>1. MachineOk(t)
      BY <2>2 DEF MachineOk, Machines, FsmStates, Terminal
    <3>2. failed = [parsed EXCEPT !.fsm = t]
      BY <2>4 DEF Core, Shaped, Fields
    <3> HIDE DEF t
    <3>3. /\ Shaped(failed) /\ failed.fsm = t /\ Still(failed, h) /\ failed.own = h.own
          /\ failed.conn = h.conn /\ failed.pending = None /\ failed.entry = h.entry
          /\ failed.plan = h.plan /\ failed.cancel = h.cancel /\ failed.closing = h.closing
          /\ failed.op = h.op /\ failed.payload = h.payload /\ failed.landed = h.landed
          /\ failed.reports = h.reports
      BY <3>2 DEF Core, Shaped, Fields, Still
    <3> HIDE DEF failed
    <3>4. Core(failed)
      BY <1>2, <3>1, <3>3, IdleCore DEF Still
    <3>5. QED
      BY <2>1, <3>3, <3>4
  <2>7. \A g, verdict : Ready(g) /\ verdict \in {"busy", "refused"} => Good(h, Report(g, c, verdict))
    <3> SUFFICES ASSUME NEW g, NEW verdict \in {"busy", "refused"}, Ready(g)
                 PROVE  Good(h, Report(g, c, verdict))
      OBVIOUS
    <3>1. ~g.active /\ verdict \in {"ok", "failed", "busy", "refused"} /\ verdict # "ok"
      BY <1>2 DEF Still
    <3>2. Core(Report(g, c, verdict)) /\ Still(Report(g, c, verdict), g)
      BY <2>1, <3>1, Told
    <3>3. QED
      BY <3>2 DEF Good, Listens, Still
  <2> HIDE DEF taken, parsed, owned, failed, read
  <2>8. CASE h.inFlight
    <3>1. StartCommand(h, luck) = Report(taken, c, "busy")
      BY <1>2, <2>8, Zenon DEF StartCommand, taken
    <3>2. QED
      BY <2>3, <2>7, <3>1
  <2>9. CASE ~h.inFlight /\ c \in Malformed
    <3>1. StartCommand(h, luck) = Report(failed, c, "refused")
      BY <1>2, <2>9, Zenon DEF StartCommand, failed, parsed, taken, f
    <3>2. QED
      BY <2>6, <2>7, <3>1
  <2>10. CASE ~h.inFlight /\ c \notin Malformed /\ ~luck.arm
    <3>1. StartCommand(h, luck) = Report(read, c, "refused")
      BY <1>2, <2>10, Zenon DEF StartCommand, read, owned, parsed, taken, f
    <3>2. QED
      BY <2>5, <2>7, <3>1
  <2>11. CASE ~h.inFlight /\ c \notin Malformed /\ luck.arm
    <3>1. StartCommand(h, luck) = Begin(owned, owned.fsm, TRUE, luck)
      BY <1>2, <2>11, Zenon DEF StartCommand, owned, parsed, taken, f
    <3>2. ~owned.active
      BY <1>2, <2>5 DEF Still
    <3>3. QED
      BY <2>1, <2>2, <2>5, <3>1, <3>2, Begun DEF Good
  <2>12. QED
    BY <2>8, <2>9, <2>10, <2>11
<1>3. QED
  BY <1>1, <1>2

\* The plan that was asked for, if any and if it can start.
LEMMA Started == ASSUME NEW h, Core(h), NEW luck PROVE Good(h, OnStart(h, luck))
<1> DEFINE g == [h EXCEPT !.req = FALSE]
           f == InitRead(h.plan)
           missed == [g EXCEPT !.fsm = f, !.command = g.command /\ h.plan.reads = 0]
<1>1. Core(g) /\ Still(g, h) /\ g.pending = h.pending
  <2>1. Shaped(g) /\ Alike(g, h) /\ Still(g, h) /\ g.pending = h.pending
    BY DEF Core, Shaped, Fields, Alike, Still
  <2>2. QED
    BY <2>1, AlikeCore
<1>2. MachineOk(f)
  BY MachineStarts DEF Core
<1>3. CASE h.pending # None
  <2>1. OnStart(h, luck) = StartCommand(g, luck)
    BY <1>3, Zenon DEF OnStart
  <2> HIDE DEF g
  <2>2. QED
    BY <1>1, <1>3, <2>1, CommandStarted DEF Good, Listens, Still
<1>4. CASE h.pending = None /\ (~h.req \/ h.active \/ h.phase # "IDLE" \/ h.inFlight)
  <2>1. OnStart(h, luck) = g
    BY <1>4, Zenon DEF OnStart
  <2> HIDE DEF g
  <2>2. QED
    BY <1>1, <2>1 DEF Good, Listens, Still
<1>5. CASE /\ h.pending = None /\ ~(~h.req \/ h.active \/ h.phase # "IDLE" \/ h.inFlight)
           /\ (h.plan.reads = 0 \/ ~luck.arm)
  <2>1. OnStart(h, luck) = missed
    BY <1>5, Zenon DEF OnStart
  <2> HIDE DEF f
  <2>2. /\ Shaped(missed) /\ missed.fsm = f /\ Still(missed, h) /\ missed.own = h.own
        /\ missed.conn = h.conn /\ missed.pending = h.pending /\ missed.entry = h.entry
        /\ missed.plan = h.plan /\ missed.cancel = h.cancel /\ missed.closing = h.closing
        /\ missed.op = h.op /\ missed.payload = h.payload /\ missed.landed = h.landed
        /\ missed.reports = h.reports
    BY DEF Core, Shaped, Fields, Still
  <2> HIDE DEF missed
  <2>3. ~h.active
    BY <1>5
  <2>4. Core(missed)
    BY <1>2, <2>2, <2>3, IdleCore DEF Still
  <2>5. QED
    BY <2>1, <2>2, <2>4 DEF Good, Listens, Still
<1>6. CASE /\ h.pending = None /\ ~(~h.req \/ h.active \/ h.phase # "IDLE" \/ h.inFlight)
           /\ ~(h.plan.reads = 0 \/ ~luck.arm)
  <2>1. OnStart(h, luck) = Begin(g, f, FALSE, luck)
    BY <1>6, Zenon DEF OnStart
  <2> HIDE DEF g, f
  <2>2. ~g.active
    BY <1>1, <1>6 DEF Still
  <2>3. QED
    BY <1>1, <1>2, <2>1, <2>2, Begun DEF Good
<1>7. QED
  BY <1>3, <1>4, <1>5, <1>6

\* The deadline: tear down, then close by force, or try the scan again.
LEMMA DeadlinePassed == ASSUME NEW h, Core(h), NEW luck PROVE Good(h, OnDeadline(h, luck))
<1> DEFINE tearing == [h EXCEPT !.phase = "TEARDOWN"]
           torn == Feed(tearing, "TIMEOUT", luck)
<1>1. CASE h.phase = "ATTEMPT" /\ h.active
  <2>1. /\ Shaped(tearing) /\ tearing.active = h.active /\ tearing.command = h.command
        /\ tearing.phase = "TEARDOWN" /\ tearing.fsm = h.fsm /\ tearing.own = h.own
        /\ tearing.conn = h.conn /\ tearing.running = h.running /\ tearing.pending = h.pending
        /\ tearing.entry = h.entry /\ tearing.plan = h.plan /\ tearing.proc = h.proc
        /\ tearing.cancel = h.cancel /\ tearing.link = h.link /\ tearing.closing = h.closing
        /\ tearing.op = h.op /\ tearing.payload = h.payload /\ tearing.landed = h.landed
        /\ tearing.reports = h.reports
    BY DEF Core, Shaped, Fields
  <2> HIDE DEF tearing
  <2>2. RadioOk(tearing) /\ PhaseOk(tearing)
    BY <1>1, <2>1 DEF Core, RadioOk, PhaseOk
  <2>3. TakenOk(tearing) /\ ReportsOk(tearing)
    BY <2>1 DEF Core, TakenOk, ReportsOk
  <2>4. Core(tearing) /\ tearing.active
    BY <1>1, <2>1, <2>2, <2>3 DEF Core
  <2>5. Core(torn) /\ Listens(torn)
    BY <2>4, Fed
  <2>6. OnDeadline(h, luck) = IF ~torn.active THEN torn
                              ELSE IF luck.arm THEN Arm(torn) ELSE ForceClose(torn, luck)
    BY <1>1, Zenon DEF OnDeadline, tearing
  <2> HIDE DEF torn
  <2>7. CASE ~torn.active
    BY <2>5, <2>6, <2>7 DEF Good
  <2>8. CASE torn.active /\ luck.arm
    BY <2>5, <2>6, <2>8, Armed DEF Good, Listens, Alike
  <2>9. CASE torn.active /\ ~luck.arm
    BY <2>5, <2>6, <2>9, ForceClosed DEF Good
  <2>10. QED
    BY <2>7, <2>8, <2>9
<1>2. CASE h.phase = "TEARDOWN" /\ h.active
  <2>1. OnDeadline(h, luck) = ForceClose(h, luck)
    BY <1>2, Zenon DEF OnDeadline
  <2>2. QED
    BY <1>2, <2>1, ForceClosed DEF Good
<1>3. CASE h.phase = "SCAN_RETRY"
  <2>1. OnDeadline(h, luck) = ResumeScanOrRetry(h, luck) /\ ~h.active
    BY <1>3 DEF OnDeadline, Core, PhaseOk
  <2>2. QED
    BY <2>1, Resumed DEF Good
<1>4. CASE h.phase \notin {"ATTEMPT", "TEARDOWN", "SCAN_RETRY"}
  <2>1. OnDeadline(h, luck) = h
    BY <1>4 DEF OnDeadline
  <2>2. QED
    BY <2>1 DEF Good
<1>5. QED
  BY <1>1, <1>2, <1>3, <1>4 DEF Core, PhaseOk

\* The end of a decode, also of an attempt that is over.
LEMMA DecodeEnds == ASSUME NEW h, Core(h), NEW luck PROVE Good(h, OnDecoded(h, luck))
<1> DEFINE step == FsmStep(h.fsm, "DECODED")
           f == step.fsm
           g == [h EXCEPT !.fsm = f]
<1>1. CASE h.active
  BY <1>1, Fed DEF OnDecoded, Good
<1>2. CASE ~h.active
  <2>1. MachineOk(f) /\ f.command = h.fsm.command
    BY Stepped DEF Core
  <2>2. step.act \in {"NONE", "DISCONNECT"}
    BY DEF FsmStep, Advance, Ignored, To
  <2>3. OnDecoded(h, luck) = Feed(h, "DECODED", luck)
    BY DEF OnDecoded
  <2>4. Feed(h, "DECODED", luck) = IF step.act = "NONE" THEN g ELSE Disconnect(g, luck)
    BY <2>2 DEF Feed
  <2> HIDE DEF f
  <2>5. Core(g) /\ Still(g, h) /\ ~g.active
    BY <1>2, <2>1, MachineMoves DEF Still
  <2> HIDE DEF g
  <2>6. Disconnect(g, luck) = g
    <3>1. ~g.conn /\ ~g.own
      BY <2>5 DEF Core, RadioOk
    <3>2. Disconnect(g, luck) = AttemptFinish(g, luck)
      BY <3>1 DEF Disconnect
    <3>3. QED
      BY <2>5, <3>2, NothingToFinish
  <2>7. QED
    BY <2>3, <2>4, <2>5, <2>6 DEF Good, Listens, Still
<1>3. QED
  BY <1>1, <1>2

-----------------------------------------------------------------------------
(* GattEngine: the callbacks of the stack *)

\* A link, which is closed at once when the attempt it was for is over.
LEMMA LinkUp ==
  ASSUME NEW h, Core(h), h.proc = "engine", NEW luck
  PROVE  Good(h, OnConnected(h, luck))
<1> DEFINE g == [h EXCEPT !.proc = "none", !.cancel = FALSE, !.own = FALSE, !.link = "engine",
                          !.closing = FALSE]
           t == Terminate(g)
           k == [g EXCEPT !.conn = TRUE]
<1>1. h.link = "none" /\ h.op = "none"
  BY DEF Core, RadioOk
<1>2. CASE ~h.active
  <2>1. /\ Shaped(t) /\ t.active = h.active /\ t.command = h.command /\ t.phase = h.phase
        /\ t.fsm = h.fsm /\ t.own = FALSE /\ t.conn = h.conn /\ t.running = h.running
        /\ t.pending = h.pending /\ t.entry = h.entry /\ t.plan = h.plan /\ t.proc = "none"
        /\ t.cancel = FALSE /\ t.link = "engine" /\ t.closing /\ t.op = h.op
        /\ t.payload = h.payload /\ t.landed = h.landed /\ t.reports = h.reports
    BY DEF Core, Shaped, Fields, Terminate
  <2>2. OnConnected(h, luck) = IF luck.drop THEN t ELSE ResumeScanOrRetry(t, luck)
    BY <1>2, Zenon DEF OnConnected
  <2> HIDE DEF t
  <2>3. RadioOk(t)
    BY <1>2, <2>1 DEF Core, RadioOk
  <2>4. PhaseOk(t) /\ TakenOk(t) /\ ReportsOk(t)
    BY <2>1 DEF Core, PhaseOk, TakenOk, ReportsOk
  <2>5. Core(t) /\ Listens(t) /\ ~t.active
    BY <1>2, <2>1, <2>3, <2>4 DEF Core, Listens
  <2>6. CASE luck.drop
    BY <2>2, <2>5, <2>6 DEF Good
  <2>7. CASE ~luck.drop
    BY <2>2, <2>5, <2>7, Resumed DEF Good
  <2>8. QED
    BY <2>6, <2>7
<1>3. CASE h.active
  <2>1. /\ Shaped(k) /\ k.active = h.active /\ k.command = h.command /\ k.phase = h.phase
        /\ k.fsm = h.fsm /\ k.own = FALSE /\ k.conn = TRUE /\ k.running = h.running
        /\ k.pending = h.pending /\ k.entry = h.entry /\ k.plan = h.plan /\ k.proc = "none"
        /\ k.cancel = FALSE /\ k.link = "engine" /\ k.op = h.op
        /\ k.payload = h.payload /\ k.landed = h.landed /\ k.reports = h.reports
    BY DEF Core, Shaped, Fields
  <2>2. OnConnected(h, luck) = IF h.fsm.state \in Terminal THEN Terminate(k)
                               ELSE Feed(k, "CONNECTED", luck)
    BY <1>3, Zenon DEF OnConnected
  <2> HIDE DEF k
  <2>3. RadioOk(k) /\ PhaseOk(k)
    BY <1>3, <2>1 DEF Core, RadioOk, PhaseOk
  <2>4. TakenOk(k) /\ ReportsOk(k)
    BY <1>1, <2>1 DEF Core, TakenOk, ReportsOk
  <2>5. Core(k) /\ k.active
    BY <1>3, <2>1, <2>3, <2>4 DEF Core
  <2>6. CASE h.fsm.state \in Terminal
    BY <2>2, <2>5, <2>6, Terminated DEF Good, Listens
  <2>7. CASE h.fsm.state \notin Terminal
    BY <2>2, <2>5, <2>7, Fed DEF Good
  <2>8. QED
    BY <2>6, <2>7
<1>4. QED
  BY <1>2, <1>3

\* An error, or the end of the link, of an attempt without one: it is over, or its
\* machine was already, and then there is still no link.
LEMMA EndsWithoutLink ==
  ASSUME NEW h, Core(h), h.active, ~h.conn, ~h.own, h.link = "none",
         NEW ev \in {"ERROR", "DISCONNECTED"}, NEW luck
  PROVE  LET g == AttemptFinish(Feed(h, ev, luck), luck) IN Core(g) /\ Listens(g)
<1> DEFINE step == FsmStep(h.fsm, ev)
           f == step.fsm
           k == [h EXCEPT !.fsm = f]
           fed == Feed(h, ev, luck)
<1>1. Core(fed) /\ Listens(fed)
  BY Fed
<1>2. step.act \in {"NONE", "DISCONNECT", "REPORT_FAIL"}
  BY DEF FsmStep, Ignored, To
<1>3. fed = IF step.act = "NONE" THEN k
            ELSE IF step.act = "DISCONNECT" THEN Disconnect(k, luck) ELSE AttemptFinish(k, luck)
  BY <1>2 DEF Feed
<1>4. /\ Core(k) /\ k.active /\ ~k.conn /\ ~k.own /\ k.link = "none"
  <2>1. MachineOk(f) /\ f.command = h.fsm.command
        /\ (h.active /\ h.command /\ f.writes = 0 => Contains(h.landed, h.running))
    BY Stepped DEF Core, TakenOk
  <2> HIDE DEF f
  <2>2. Core(k) /\ k.active /\ k.link = "none"
    BY <2>1, MachineMoves
  <2>3. ~k.conn /\ ~k.own
    BY DEF Core, Shaped, Fields
  <2>4. QED
    BY <2>2, <2>3
<1> HIDE DEF step, k, fed
<1>5. Disconnect(k, luck) = AttemptFinish(k, luck)
  BY <1>4 DEF Disconnect
<1>6. CASE fed = k
  BY <1>1, <1>4, <1>6, Finished DEF fed
<1>7. CASE fed = AttemptFinish(k, luck)
  <2>1. ~fed.active
    BY <1>4, <1>7, Finished
  <2>2. QED
    BY <1>1, <2>1, NothingToFinish DEF fed
<1>8. QED
  BY <1>3, <1>5, <1>6, <1>7

LEMMA ConnectEnds ==
  ASSUME NEW h, Core(h), h.proc = "engine", NEW luck
  PROVE  Good(h, OnConnectFailed(h, luck))
<1> DEFINE g == [h EXCEPT !.proc = "none", !.cancel = FALSE, !.own = FALSE, !.conn = FALSE]
<1>1. /\ Shaped(g) /\ g.active = h.active /\ g.command = h.command /\ g.phase = h.phase
      /\ g.fsm = h.fsm /\ g.own = FALSE /\ g.conn = FALSE /\ g.running = h.running
      /\ g.pending = h.pending /\ g.entry = h.entry /\ g.plan = h.plan /\ g.proc = "none"
      /\ g.cancel = FALSE /\ g.link = h.link /\ g.closing = h.closing /\ g.op = h.op
      /\ g.payload = h.payload /\ g.landed = h.landed /\ g.reports = h.reports
  BY DEF Core, Shaped, Fields
<1>2. OnConnectFailed(h, luck) = IF ~h.active THEN ResumeScanOrRetry(g, luck)
                                 ELSE AttemptFinish(Feed(g, "ERROR", luck), luck)
  BY Zenon DEF OnConnectFailed
<1> HIDE DEF g
<1>3. h.link = "none"
  BY DEF Core, RadioOk
<1>4. RadioOk(g) /\ PhaseOk(g)
  BY <1>1, <1>3 DEF Core, RadioOk, PhaseOk
<1>5. TakenOk(g) /\ ReportsOk(g)
  BY <1>1 DEF Core, TakenOk, ReportsOk
<1>6. Core(g) /\ g.link = "none" /\ ~g.conn /\ ~g.own /\ g.active = h.active
  BY <1>1, <1>3, <1>4, <1>5 DEF Core
<1>7. CASE ~h.active
  BY <1>2, <1>6, <1>7, Resumed DEF Good
<1>8. CASE h.active
  BY <1>2, <1>6, <1>8, EndsWithoutLink DEF Good
<1>9. QED
  BY <1>7, <1>8

LEMMA LinkDown ==
  ASSUME NEW h, Core(h), h.link = "engine", h.op = "none", NEW luck
  PROVE  Good(h, OnDisconnected(h, luck))
<1> DEFINE g == [h EXCEPT !.link = "none", !.closing = FALSE]
           k == [g EXCEPT !.conn = FALSE]
<1>1. /\ Shaped(g) /\ g.active = h.active /\ g.command = h.command /\ g.phase = h.phase
      /\ g.fsm = h.fsm /\ g.own = h.own /\ g.conn = h.conn /\ g.running = h.running
      /\ g.pending = h.pending /\ g.entry = h.entry /\ g.plan = h.plan /\ g.proc = h.proc
      /\ g.cancel = h.cancel /\ g.link = "none" /\ g.op = h.op
      /\ g.payload = h.payload /\ g.landed = h.landed /\ g.reports = h.reports
  BY DEF Core, Shaped, Fields
<1>2. /\ Shaped(k) /\ k.active = h.active /\ k.command = h.command /\ k.phase = h.phase
      /\ k.fsm = h.fsm /\ k.own = h.own /\ k.conn = FALSE /\ k.running = h.running
      /\ k.pending = h.pending /\ k.entry = h.entry /\ k.plan = h.plan /\ k.proc = h.proc
      /\ k.cancel = h.cancel /\ k.link = "none" /\ k.op = h.op
      /\ k.payload = h.payload /\ k.landed = h.landed /\ k.reports = h.reports
  BY DEF Core, Shaped, Fields
<1>3. OnDisconnected(h, luck) =
        IF ~h.active THEN ResumeScanOrRetry(g, luck)
        ELSE IF ~h.conn THEN g
        ELSE AttemptFinish(Feed(k, "DISCONNECTED", luck), luck)
  BY Zenon DEF OnDisconnected
<1> HIDE DEF g, k
<1>4. h.proc = "none" /\ ~h.own
  BY DEF Core, RadioOk
<1>5. Core(g)
  <2>1. RadioOk(g) /\ PhaseOk(g)
    BY <1>1, <1>4 DEF Core, RadioOk, PhaseOk
  <2>2. TakenOk(g) /\ ReportsOk(g)
    BY <1>1 DEF Core, TakenOk, ReportsOk
  <2>3. QED
    BY <1>1, <2>1, <2>2 DEF Core
<1>6. Core(k)
  <2>1. RadioOk(k) /\ PhaseOk(k)
    BY <1>2, <1>4 DEF Core, RadioOk, PhaseOk
  <2>2. TakenOk(k) /\ ReportsOk(k)
    BY <1>2 DEF Core, TakenOk, ReportsOk
  <2>3. QED
    BY <1>2, <2>1, <2>2 DEF Core
<1>7. CASE ~h.active
  BY <1>1, <1>3, <1>5, <1>7, Resumed DEF Good
<1>8. CASE h.active /\ ~h.conn
  BY <1>1, <1>3, <1>5, <1>8 DEF Good, Listens
<1>9. CASE h.active /\ h.conn
  BY <1>2, <1>3, <1>4, <1>6, <1>9, EndsWithoutLink DEF Good
<1>10. QED
  BY <1>7, <1>8, <1>9

\* An answer to the attempt's operation, or to one that nobody waits for.
LEMMA OperationEnds ==
  ASSUME NEW h, Core(h), NEW outcome, NEW luck, outcome # "DISCONNECTED",
         outcome = "WRITE_OK" => h.op \in {"resolve", "write"},
         outcome = "WRITE_OK" /\ h.payload # None => Contains(h.landed, h.payload)
  PROVE  Good(h, OnComplete(h, outcome, luck))
<1> DEFINE g == [h EXCEPT !.op = "none", !.payload = None]
<1>1. /\ Shaped(g) /\ Still(g, h) /\ g.command = h.command
      /\ g.fsm = h.fsm /\ g.own = h.own /\ g.conn = h.conn /\ g.running = h.running
      /\ g.pending = h.pending /\ g.entry = h.entry /\ g.plan = h.plan
      /\ g.cancel = h.cancel /\ g.closing = h.closing /\ g.op = "none"
      /\ g.payload = None /\ g.landed = h.landed /\ g.reports = h.reports
  BY DEF Core, Shaped, Fields, Still
<1>2. OnComplete(h, outcome, luck) =
        IF Stale(h) THEN g
        ELSE IF outcome = "ERROR" THEN Feed(g, "ERROR", luck)
        ELSE IF h.op = "resolve" THEN Operate(g, "write", luck)
        ELSE Feed(g, outcome, luck)
  BY Zenon DEF OnComplete
<1> HIDE DEF g
<1>3. RadioOk(g) /\ PhaseOk(g)
  BY <1>1 DEF Core, RadioOk, PhaseOk, Still
<1>4. TakenOk(g) /\ ReportsOk(g)
  BY <1>1 DEF Core, TakenOk, ReportsOk, Still, Operations
<1>5. Core(g)
  BY <1>1, <1>3, <1>4 DEF Core
<1>6. CASE Stale(h)
  BY <1>1, <1>2, <1>5, <1>6 DEF Good, Listens, Still
<1>7. CASE ~Stale(h) /\ outcome = "ERROR"
  BY <1>1, <1>2, <1>5, <1>7, Fed DEF Good, Stale, Still
<1>8. CASE ~Stale(h) /\ outcome # "ERROR" /\ h.op = "resolve"
  BY <1>1, <1>2, <1>5, <1>8, Operated DEF Good, Stale, Still, Operations
<1>9. CASE ~Stale(h) /\ outcome # "ERROR" /\ h.op # "resolve"
  <2>1. g.active /\ h.conn
    BY <1>1, <1>9 DEF Stale, Still
  <2>2. outcome = "WRITE_OK" /\ g.command => Contains(g.landed, g.running)
    <3>1. SUFFICES ASSUME outcome = "WRITE_OK", g.command PROVE Contains(g.landed, g.running)
      OBVIOUS
    <3>2. h.active /\ h.command /\ h.op = "write" /\ h.conn
      BY <1>1, <1>9, <2>1, <3>1 DEF Still
    <3>3. h.payload = h.running /\ h.running \in Commands
      BY <3>2 DEF Core, TakenOk
    <3>4. QED
      BY <1>1, <3>1, <3>3, GattEngineAssumption
  <2>3. QED
    BY <1>2, <1>5, <1>9, <2>1, <2>2, Fed DEF Good
<1>10. QED
  BY <1>6, <1>7, <1>8, <1>9

-----------------------------------------------------------------------------
(* RadioSharing: every step of every task *)

LEMMA RadioStarts == Init => RadioInv
<1> SUFFICES ASSUME Init PROVE RadioInv
  OBVIOUS
<1>1. Shaped(hub)
  BY DEF Init, Shaped, Fields
<1>2. /\ ~hub.active /\ hub.phase = "IDLE" /\ hub.fsm = Idle /\ ~hub.own /\ ~hub.conn
      /\ hub.pending = None /\ hub.entry = None /\ hub.plan = [writes |-> 0, reads |-> 0]
      /\ hub.scanning /\ hub.proc = "none" /\ hub.link = "none" /\ hub.op = "none"
      /\ hub.payload = None /\ hub.landed = <<>> /\ hub.reports = <<>>
  BY DEF Init
<1>3. MachineOk(hub.fsm) /\ hub.plan \in Plain
  BY <1>2 DEF MachineOk, Machines, Idle, FsmStates, Plain
<1>4. RadioOk(hub) /\ PhaseOk(hub) /\ TakenOk(hub)
  BY <1>2 DEF RadioOk, PhaseOk, TakenOk, Operations
<1>5. ReportsOk(hub)
  <2>1. <<>> \in Seq(Reports) /\ <<>> \in Seq(Commands \cup {None}) /\ DOMAIN <<>> = {}
    OBVIOUS
  <2>2. QED
    BY <1>2, <2>1 DEF ReportsOk
<1>6. QED
  BY <1>1, <1>2, <1>3, <1>4, <1>5 DEF RadioInv, Core, Listens

LEMMA CommandAsked ==
  ASSUME Core(hub), NEW c \in Commands, RequestCommand(c)
  PROVE  Good(hub, hub')
<1> DEFINE g == [hub EXCEPT !.entry = c, !.pending = c]
<1>1. /\ Shaped(g) /\ Still(g, hub) /\ g.command = hub.command
      /\ g.fsm = hub.fsm /\ g.own = hub.own /\ g.conn = hub.conn /\ g.running = hub.running
      /\ g.pending = c /\ g.entry = c /\ g.plan = hub.plan
      /\ g.cancel = hub.cancel /\ g.closing = hub.closing /\ g.op = hub.op
      /\ g.payload = hub.payload /\ g.landed = hub.landed /\ g.reports = hub.reports
  BY DEF Core, Shaped, Fields, Still
<1>2. hub' = Post(g, "start")
  BY DEF RequestCommand
<1> HIDE DEF g
<1>3. ~(hub.active /\ hub.command)
  BY DEF RequestCommand, CmdBusy
<1>4. \A i \in DOMAIN hub.reports : hub.reports[i].cmd # c
  BY DEF RequestCommand, Requested
<1>5. RadioOk(g) /\ PhaseOk(g)
  BY <1>1 DEF Core, RadioOk, PhaseOk, Still
<1>6. TakenOk(g)
  BY <1>1, <1>3 DEF Core, TakenOk, Still
<1>7. ReportsOk(g)
  BY <1>1, <1>3, <1>4 DEF Core, ReportsOk, Still
<1>8. Core(g)
  BY <1>1, <1>5, <1>6, <1>7 DEF Core
<1>9. QED
  BY <1>1, <1>2, <1>8, Posted DEF Good, Listens, Still, Alike

LEMMA ReadAsked ==
  ASSUME Core(hub), NEW d \in Readers, NEW plan \in Plans, RequestRead(d, plan)
  PROVE  Good(hub, hub')
<1> DEFINE g == [hub EXCEPT !.plan = plan, !.target = d, !.req = TRUE]
<1>1. /\ Shaped(g) /\ Still(g, hub) /\ g.command = hub.command
      /\ g.fsm = hub.fsm /\ g.own = hub.own /\ g.conn = hub.conn /\ g.running = hub.running
      /\ g.pending = hub.pending /\ g.entry = hub.entry /\ g.plan = plan
      /\ g.cancel = hub.cancel /\ g.closing = hub.closing /\ g.op = hub.op
      /\ g.payload = hub.payload /\ g.landed = hub.landed /\ g.reports = hub.reports
  BY DEF Core, Shaped, Fields, Still
<1>2. hub' = Post(g, "start")
  BY DEF RequestRead
<1>3. plan \in Plain
  BY GattEngineAssumption DEF Plain
<1> HIDE DEF g
<1>4. RadioOk(g) /\ PhaseOk(g)
  BY <1>1 DEF Core, RadioOk, PhaseOk, Still
<1>5. TakenOk(g) /\ ReportsOk(g)
  BY <1>1 DEF Core, TakenOk, ReportsOk, Still
<1>6. Core(g)
  BY <1>1, <1>3, <1>4, <1>5 DEF Core
<1>7. QED
  BY <1>1, <1>2, <1>6, Posted DEF Good, Listens, Still, Alike

\* A posted event leaves the queue before its handler runs.
LEMMA Taken ==
  ASSUME NEW h, Core(h), NEW posts, NEW g, Good([h EXCEPT !.posts = posts], g)
  PROVE  Good(h, g)
<1> DEFINE k == [h EXCEPT !.posts = posts]
<1>1. Still(k, h)
  BY DEF Core, Shaped, Fields, Still
<1>2. QED
  BY <1>1 DEF Good, Listens, Still

LEMMA Unposted ==
  ASSUME NEW h, Core(h), NEW posts
  PROVE  Core([h EXCEPT !.posts = posts])
<1> DEFINE k == [h EXCEPT !.posts = posts]
<1>1. Shaped(k) /\ Alike(k, h)
  BY DEF Core, Shaped, Fields, Alike
<1>2. QED
  BY <1>1, AlikeCore

LEMMA HostStep == ASSUME Core(hub), Host PROVE Good(hub, hub')
<1> DEFINE h == [hub EXCEPT !.posts = Tail(hub.posts)]
<1>1. Core(h)
  BY Unposted
<1>2. CASE HandleStart
  <2>1. PICK luck \in Luck : hub' = OnStart(h, luck)
    BY <1>2 DEF HandleStart, Handle
  <2>2. QED
    BY <1>1, <2>1, Started, Taken
<1>3. CASE HandleDeadline
  <2>1. PICK luck \in Luck : hub' = OnDeadline(h, luck)
    BY <1>3 DEF HandleDeadline, Handle
  <2>2. QED
    BY <1>1, <2>1, DeadlinePassed, Taken
<1>4. CASE HandleDecoded
  <2>1. PICK luck \in Luck : hub' = OnDecoded(h, luck)
    BY <1>4 DEF HandleDecoded, Handle
  <2>2. QED
    BY <1>1, <2>1, DecodeEnds, Taken
<1>5. QED
  BY <1>2, <1>3, <1>4 DEF Host

\* What changes nothing but events and flags beside the point.
LEMMA FlagStep == ASSUME Core(hub), ServiceDecode \/ Expire PROVE Good(hub, hub')
<1> DEFINE served == [hub EXCEPT !.decode = FALSE]
           expired == [hub EXCEPT !.timer = FALSE, !.expired = TRUE]
<1>1. Shaped(served) /\ Alike(served, hub) /\ Still(served, hub)
  BY DEF Core, Shaped, Fields, Alike, Still
<1>2. Shaped(expired) /\ Alike(expired, hub) /\ Still(expired, hub)
  BY DEF Core, Shaped, Fields, Alike, Still
<1>3. hub' \in {Post(served, "decoded"), Post(expired, "deadline")}
  BY DEF ServiceDecode, Expire
<1> HIDE DEF served, expired
<1>4. Core(served) /\ Core(expired)
  BY <1>1, <1>2, AlikeCore
<1>5. QED
  BY <1>1, <1>2, <1>3, <1>4, Posted DEF Good, Listens, Still, Alike

\* The stack connects again by itself, in the attempt's name.
LEMMA ReattemptStep == ASSUME Core(hub), Reattempt PROVE Good(hub, hub')
<1> DEFINE g == [hub EXCEPT !.link = "none", !.closing = FALSE, !.proc = "engine", !.cancel = FALSE]
<1>1. /\ Shaped(g) /\ g.active = hub.active /\ g.command = hub.command /\ g.phase = hub.phase
      /\ g.fsm = hub.fsm /\ g.own = hub.own /\ g.conn = hub.conn /\ g.running = hub.running
      /\ g.pending = hub.pending /\ g.entry = hub.entry /\ g.plan = hub.plan /\ g.proc = "engine"
      /\ g.cancel = FALSE /\ g.link = "none" /\ g.op = hub.op
      /\ g.payload = hub.payload /\ g.landed = hub.landed /\ g.reports = hub.reports
  BY DEF Core, Shaped, Fields
<1>2. hub' = g /\ hub.op = "none"
  BY DEF Reattempt
<1> HIDE DEF g
<1>3. RadioOk(g) /\ PhaseOk(g)
  BY <1>1, <1>2 DEF Core, RadioOk, PhaseOk
<1>4. TakenOk(g) /\ ReportsOk(g)
  BY <1>1 DEF Core, TakenOk, ReportsOk
<1>5. QED
  BY <1>1, <1>2, <1>3, <1>4 DEF Core, Good, Listens

LEMMA CompleteStep == ASSUME Core(hub), Complete PROVE Good(hub, hub')
<1> DEFINE g(reached) == IF hub.payload # None /\ reached
                         THEN [hub EXCEPT !.landed = Append(@, hub.payload)] ELSE hub
<1>1. PICK outcome \in Outcomes, reached \in BOOLEAN, luck \in Luck :
        (outcome = "WRITE_OK" => reached) /\ hub' = OnComplete(g(reached), outcome, luck)
  BY Zenon DEF Complete
<1> DEFINE h == g(reached)
<1>2. outcome # "DISCONNECTED" /\ (outcome = "WRITE_OK" => hub.op # "read") /\ hub.op # "none"
  BY DEF Outcomes, Complete
<1>3. Core(h) /\ Still(h, hub) /\ h.op = hub.op /\ h.payload = hub.payload
      /\ (hub.payload # None /\ reached => Contains(h.landed, hub.payload))
  <2>1. CASE hub.payload # None /\ reached
    <3> DEFINE k == [hub EXCEPT !.landed = Append(hub.landed, hub.payload)]
    <3>1. h = k
      BY <2>1
    <3>2. /\ Shaped(k) /\ Still(k, hub) /\ k.command = hub.command
          /\ k.fsm = hub.fsm /\ k.own = hub.own /\ k.conn = hub.conn /\ k.running = hub.running
          /\ k.pending = hub.pending /\ k.entry = hub.entry /\ k.plan = hub.plan
          /\ k.cancel = hub.cancel /\ k.closing = hub.closing /\ k.op = hub.op
          /\ k.payload = hub.payload /\ k.landed = Append(hub.landed, hub.payload)
          /\ k.reports = hub.reports
      BY DEF Core, Shaped, Fields, Still
    <3> HIDE DEF k, h
    <3>3. hub.payload \in Commands \cup {None} /\ hub.landed \in Seq(Commands \cup {None})
      BY DEF Core, TakenOk, ReportsOk
    <3>4. k.landed \in Seq(Commands \cup {None})
          /\ \A c : Contains(k.landed, c) <=> Contains(hub.landed, c) \/ hub.payload = c
      <4>1. k.landed \in Seq(Commands \cup {None})
        BY <3>2, <3>3
      <4>2. QED
        BY <3>2, <3>3, <4>1, ContainsAppended
    <3>5. RadioOk(k) /\ PhaseOk(k)
      BY <3>2 DEF Core, RadioOk, PhaseOk, Still
    <3>6. TakenOk(k)
      BY <3>2, <3>4 DEF Core, TakenOk, Still
    <3>7. ReportsOk(k)
      BY <3>2, <3>4 DEF Core, ReportsOk, Still
    <3>8. QED
      BY <3>1, <3>2, <3>4, <3>5, <3>6, <3>7 DEF Core
  <2>2. CASE ~(hub.payload # None /\ reached)
    BY <2>2 DEF Still
  <2>3. QED
    BY <2>1, <2>2
<1> HIDE DEF g, h
<1>4. hub.op \in Operations
  BY DEF Core, TakenOk
<1>5. Good(h, hub')
  <2>1. hub' = OnComplete(h, outcome, luck)
    BY <1>1 DEF h
  <2>2. outcome = "WRITE_OK" => h.op \in {"resolve", "write"}
    BY <1>2, <1>3, <1>4 DEF Operations
  <2>3. outcome = "WRITE_OK" /\ h.payload # None => Contains(h.landed, h.payload)
    BY <1>1, <1>3
  <2>4. QED
    BY <1>2, <1>3, <2>1, <2>2, <2>3, OperationEnds
<1>6. QED
  BY <1>3, <1>5 DEF Good, Listens, Still

\* The poller restarts the scan unless a connect is outstanding.
LEMMA PollResumed ==
  ASSUME NEW h, Core(h)
  PROVE  /\ Core(PollResume(h)) /\ Listens(PollResume(h)) /\ Alike(PollResume(h), h)
<1> DEFINE g == PollResume(h)
<1>1. Shaped(g) /\ Alike(g, h) /\ g.scanning = (h.scanning \/ h.proc = "none")
  BY DEF Core, Shaped, Fields, Alike, PollResume, CanScan
<1> HIDE DEF g
<1>2. Core(g) /\ Listens(g)
  BY <1>1, AlikeCore DEF Listens, Alike
<1>3. QED
  BY <1>1, <1>2 DEF g

\* The poller's step, whatever it did before restarting the scan.
LEMMA PollFlags ==
  ASSUME Core(hub), NEW inFlight, NEW scanning
  PROVE  LET g == [hub EXCEPT !.inFlight = inFlight]
             k == [hub EXCEPT !.scanning = scanning]
         IN  Core(g) /\ Still(g, hub) /\ Core(k)
<1> DEFINE g == [hub EXCEPT !.inFlight = inFlight]
           k == [hub EXCEPT !.scanning = scanning]
<1>1. Shaped(g) /\ Alike(g, hub) /\ Still(g, hub) /\ Shaped(k) /\ Alike(k, hub)
  BY DEF Core, Shaped, Fields, Alike, Still
<1> HIDE DEF g, k
<1>2. Core(g) /\ Still(g, hub) /\ Core(k)
  BY <1>1, AlikeCore
<1>3. QED
  BY <1>2 DEF g, k

\* The poller's connect, its link, and the end of either: the engine has nothing on the
\* radio meanwhile.
LEMMA PollRadio ==
  ASSUME Core(hub), NEW proc \in {"none", "poll"}, NEW link \in {"none", "poll"},
         proc = "poll" => link = "none", hub.proc # "engine", hub.link # "engine",
         NEW g, Shaped(g), g.active = hub.active, g.command = hub.command, g.phase = hub.phase,
         g.fsm = hub.fsm, g.own = hub.own, g.conn = hub.conn, g.running = hub.running,
         g.pending = hub.pending, g.entry = hub.entry, g.plan = hub.plan, g.proc = proc,
         proc = "poll" => ~g.cancel, g.link = link, g.op = hub.op, g.payload = hub.payload,
         g.landed = hub.landed, g.reports = hub.reports
  PROVE  Core(g)
<1>1. RadioOk(g) /\ PhaseOk(g)
  BY DEF Core, RadioOk, PhaseOk
<1>2. TakenOk(g) /\ ReportsOk(g)
  BY DEF Core, TakenOk, ReportsOk
<1>3. QED
  BY <1>1, <1>2 DEF Core

LEMMA PollConnectStep == ASSUME Core(hub), PollConnect PROVE Core(hub') /\ Listens(hub')
<1>1. CASE /\ hub.proc = "none" /\ hub.link = "none"
           /\ hub' = [hub EXCEPT !.proc = "poll", !.cancel = FALSE]
  <2>1. /\ Shaped(hub') /\ hub'.active = hub.active /\ hub'.command = hub.command
        /\ hub'.phase = hub.phase /\ hub'.fsm = hub.fsm /\ hub'.own = hub.own
        /\ hub'.conn = hub.conn /\ hub'.running = hub.running /\ hub'.pending = hub.pending
        /\ hub'.entry = hub.entry /\ hub'.plan = hub.plan /\ hub'.proc = "poll"
        /\ ~hub'.cancel /\ hub'.link = "none" /\ hub'.op = hub.op /\ hub'.payload = hub.payload
        /\ hub'.landed = hub.landed /\ hub'.reports = hub.reports
    BY <1>1 DEF Core, Shaped, Fields
  <2>2. Core(hub')
    BY <1>1, <2>1, PollRadio
  <2>3. QED
    BY <2>1, <2>2 DEF Listens
<1>2. CASE hub' = PollResume([hub EXCEPT !.inFlight = FALSE])
  BY <1>2, PollFlags, PollResumed
<1>3. QED
  BY <1>1, <1>2 DEF PollConnect

LEMMA PollConnectedStep == ASSUME Core(hub), PollConnected PROVE Core(hub') /\ Listens(hub')
<1>1. hub.proc = "poll" /\ hub.link = "none"
  BY DEF PollConnected, Core, RadioOk
<1>2. /\ Shaped(hub') /\ hub'.active = hub.active /\ hub'.command = hub.command
      /\ hub'.phase = hub.phase /\ hub'.fsm = hub.fsm /\ hub'.own = hub.own
      /\ hub'.conn = hub.conn /\ hub'.running = hub.running /\ hub'.pending = hub.pending
      /\ hub'.entry = hub.entry /\ hub'.plan = hub.plan /\ hub'.proc = "none"
      /\ hub'.link = "poll" /\ hub'.op = hub.op /\ hub'.payload = hub.payload
      /\ hub'.landed = hub.landed /\ hub'.reports = hub.reports
  BY DEF PollConnected, Core, Shaped, Fields
<1>3. Core(hub')
  BY <1>1, <1>2, PollRadio
<1>4. QED
  BY <1>2, <1>3 DEF Listens

LEMMA PollEndStep ==
  ASSUME Core(hub), PollConnectFailed \/ PollDisconnected
  PROVE  Core(hub') /\ Listens(hub')
<1> DEFINE failed == [hub EXCEPT !.proc = "none", !.cancel = FALSE]
           gone == [hub EXCEPT !.link = "none"]
<1>1. CASE PollConnectFailed
  <2>1. hub.proc = "poll" /\ hub.link = "none" /\ hub' = PollResume(failed)
    BY <1>1 DEF PollConnectFailed, PollDone, Core, RadioOk
  <2>2. /\ Shaped(failed) /\ failed.active = hub.active /\ failed.command = hub.command
        /\ failed.phase = hub.phase /\ failed.fsm = hub.fsm /\ failed.own = hub.own
        /\ failed.conn = hub.conn /\ failed.running = hub.running /\ failed.pending = hub.pending
        /\ failed.entry = hub.entry /\ failed.plan = hub.plan /\ failed.proc = "none"
        /\ failed.link = hub.link /\ failed.op = hub.op /\ failed.payload = hub.payload
        /\ failed.landed = hub.landed /\ failed.reports = hub.reports
    BY DEF Core, Shaped, Fields
  <2> HIDE DEF failed
  <2>3. Core(failed)
    BY <2>1, <2>2, PollRadio
  <2>4. QED
    BY <2>1, <2>3, PollResumed
<1>2. CASE PollDisconnected
  <2>1. hub.link = "poll" /\ hub.proc = "none" /\ hub' = PollResume(gone)
    <3>1. hub.link = "poll" /\ hub' = PollResume(gone)
      BY <1>2 DEF PollDisconnected, PollDone
    <3>2. QED
      BY <3>1 DEF Core, RadioOk
  <2>2. /\ Shaped(gone) /\ gone.active = hub.active /\ gone.command = hub.command
        /\ gone.phase = hub.phase /\ gone.fsm = hub.fsm /\ gone.own = hub.own
        /\ gone.conn = hub.conn /\ gone.running = hub.running /\ gone.pending = hub.pending
        /\ gone.entry = hub.entry /\ gone.plan = hub.plan /\ gone.proc = hub.proc
        /\ gone.link = "none" /\ gone.op = hub.op /\ gone.payload = hub.payload
        /\ gone.landed = hub.landed /\ gone.reports = hub.reports
    BY DEF Core, Shaped, Fields
  <2> HIDE DEF gone
  <2>3. Core(gone)
    BY <2>1, <2>2, PollRadio
  <2>4. QED
    BY <2>1, <2>3, PollResumed
<1>3. QED
  BY <1>1, <1>2

LEMMA LinkStep ==
  ASSUME Core(hub), Connected \/ ConnectFailed \/ Disconnected
  PROVE  Good(hub, hub')
<1>1. CASE Connected
  BY <1>1, LinkUp DEF Connected
<1>2. CASE ConnectFailed
  BY <1>2, ConnectEnds DEF ConnectFailed
<1>3. CASE Disconnected
  BY <1>3, LinkDown DEF Disconnected
<1>4. QED
  BY <1>1, <1>2, <1>3

\* Every step of every task leaves the hub in order.  Between its scan stop and its
\* connect the poller alone owes the scan, and it restarts it if it does not connect.
LEMMA RadioStep == RadioInv /\ [Next]_vars => RadioInv'
<1> SUFFICES ASSUME RadioInv, [Next]_vars PROVE RadioInv'
  OBVIOUS
<1>1. Core(hub)
  BY DEF RadioInv
<1>2. ASSUME Good(hub, hub'), UNCHANGED stage PROVE RadioInv'
  BY <1>2 DEF RadioInv, Good
<1>3. ASSUME Core(hub'), Listens(hub') PROVE RadioInv'
  BY <1>3 DEF RadioInv
<1>4. ASSUME NEW c \in Commands, RequestCommand(c) PROVE RadioInv'
  BY <1>1, <1>2, <1>4, CommandAsked DEF RequestCommand, PollUnchanged
<1>5. ASSUME NEW d \in Readers, NEW plan \in Plans, RequestRead(d, plan) PROVE RadioInv'
  BY <1>1, <1>2, <1>5, ReadAsked DEF RequestRead
<1>6. CASE ServiceDecode \/ Expire
  <2>1. UNCHANGED stage
    BY <1>6 DEF ServiceDecode, Expire, PollUnchanged
  <2>2. QED
    BY <1>1, <1>2, <1>6, <2>1, FlagStep
<1>7. CASE HandleStart \/ HandleDeadline \/ HandleDecoded
  <2>1. Host /\ UNCHANGED stage
    BY <1>7 DEF Host, HandleStart, HandleDeadline, HandleDecoded, Handle, PollUnchanged
  <2>2. QED
    BY <1>1, <1>2, <2>1, HostStep
<1>8. CASE Connected \/ ConnectFailed \/ Disconnected
  <2>1. UNCHANGED stage
    BY <1>8 DEF Connected, ConnectFailed, Disconnected, PollUnchanged
  <2>2. QED
    BY <1>1, <1>2, <1>8, <2>1, LinkStep
<1>9. CASE Reattempt
  BY <1>1, <1>2, <1>9, ReattemptStep DEF Reattempt, PollUnchanged
<1>10. CASE Complete
  <2>1. UNCHANGED stage
    BY <1>10 DEF Complete, PollUnchanged
  <2>2. QED
    BY <1>1, <1>2, <1>10, <2>1, CompleteStep
<1>11. CASE PollCheck
  BY <1>11 DEF PollCheck, RadioInv
<1>12. CASE PollStopScan
  BY <1>1, <1>12, PollFlags DEF PollStopScan, RadioInv
<1>13. CASE PollClaim
  BY <1>1, <1>13, PollFlags DEF PollClaim, RadioInv
<1>14. CASE PollConnect
  BY <1>1, <1>3, <1>14, PollConnectStep
<1>15. CASE PollConnected
  BY <1>1, <1>3, <1>15, PollConnectedStep
<1>16. CASE PollConnectFailed \/ PollDisconnected
  BY <1>1, <1>3, <1>16, PollEndStep
<1>17. CASE PollHandleDone
  <2>1. PICK m \in done : hub' = [hub EXCEPT !.inFlight = @ /\ m = "old"]
    BY <1>17 DEF PollHandleDone
  <2>2. PICK inFlight : hub' = [hub EXCEPT !.inFlight = inFlight]
    BY <2>1
  <2>3. QED
    BY <1>1, <1>2, <1>17, <2>2, PollFlags DEF PollHandleDone, Good, Listens, Still
<1>18. CASE PollWatchdog
  BY <1>1, <1>3, <1>18, PollFlags, PollResumed DEF PollWatchdog
<1>19. CASE UNCHANGED vars
  BY <1>19 DEF vars, RadioInv
<1>20. QED
  BY <1>4, <1>5, <1>6, <1>7, <1>8, <1>9, <1>10, <1>11, <1>12, <1>13, <1>14, <1>15, <1>16, <1>17,
     <1>18, <1>19 DEF Next

LEMMA RadioInvHolds == Spec => []RadioInv
BY RadioStarts, RadioStep, PTL DEF Spec

\* The done hook hears of each command once, never of one that still waits or runs
\* (gatt_engine.c attempt_finish, start_command).
THEOREM ReportedOnceAlways == Spec => []ReportedOnce
<1>1. RadioInv => ReportedOnce
  BY DEF RadioInv, Core, ReportsOk, ReportedOnce
<1>2. QED
  BY <1>1, RadioInvHolds, PTL

\* "ok" is said of a command only whose own payload has been written, whatever else the
\* one write buffer was used for (gatt_engine.c engine_write, fsm DONE).
THEOREM OkIsTrue == Spec => []OkMeansWritten
<1>1. RadioInv => OkMeansWritten
  BY DEF RadioInv, Core, ReportsOk, OkMeansWritten
<1>2. QED
  BY <1>1, RadioInvHolds, PTL

\* When the radio is free the hub listens, whoever had it last and however that ended
\* (resume_scan_or_retry, poll_task's scan restart).
THEOREM ScanComesBack == Spec => []ScanNeverLost
<1>1. RadioInv => ScanNeverLost
  BY DEF RadioInv, Listens, ScanNeverLost
<1>2. QED
  BY <1>1, RadioInvHolds, PTL

\* ble_gap_conn_cancel(), which names no connection, is never called while the one that
\* is being made is the poller's.
THEOREM PollerIsSpared == Spec => []PollNeverCancelled
<1>1. RadioInv => PollNeverCancelled
  BY DEF RadioInv, Core, RadioOk, PollNeverCancelled
<1>2. QED
  BY <1>1, RadioInvHolds, PTL

\* No link that the engine opened outlives its attempt unless it is going down already,
\* also when the connect answered late (gatt_engine.c gap_event_cb).
THEOREM EveryLinkIsClosed == Spec => []NoOrphanLink
<1>1. RadioInv => NoOrphanLink
  BY DEF RadioInv, Core, RadioOk, NoOrphanLink
<1>2. QED
  BY <1>1, RadioInvHolds, PTL

=============================================================================
