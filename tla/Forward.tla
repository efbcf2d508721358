-------------------------------- MODULE Forward --------------------------------
(***************************************************************************)
(* A sensor's reading on its way to the hub (swarm/swarm.c, swarm_buf.c,   *)
(* data_core/data_core.c, registry.c).  A node that hears the sensor       *)
(* queues the reading for forward_task, which sends it, or buffers it with *)
(* its age when the send fails and tries again later; the hub back-dates   *)
(* what it gets by that age and keeps the newest.  The hub may hear the    *)
(* sensor itself as well.  Ages are whole seconds, clocks are finer.       *)
(***************************************************************************)
EXTENDS Integers, Sequences

CONSTANTS
  Sensors,      \* addresses of sensors
  Second,       \* clock ticks in a second
  QueueLen,     \* SWARM_FWD_QUEUE_LEN
  BufferLen,    \* SWARM_NODE_BUFFER_LEN
  MaxAge,       \* DATA_CORE_MAX_AGE_S
  AgeLimit,     \* UINT16_MAX
  CntMod,       \* the frame counter is a uint8_t: 256
  SendTicks,    \* the longest a send takes
  FailLimit,    \* SWARM_FWD_FAIL_THRESHOLD
  MaxTime,      \* bound: ticks
  MaxReadings   \* bound: readings broadcast

ForwardAssumption ==
  /\ {Second, QueueLen, BufferLen, CntMod, AgeLimit, FailLimit} \subseteq Nat \ {0}
  /\ {MaxAge, SendTicks, MaxTime, MaxReadings} \subseteq Nat
  /\ MaxAge < AgeLimit

VARIABLES
  now,      \* the clock of the node, in ticks
  hub,      \* the tick the hub booted at, its registry, and the snapshot of it on flash
  queue,    \* s_fwd_queue
  buffer,   \* s_buf, oldest first
  sending,  \* the reading forward_task works on, and until when
  made,     \* readings broadcast so far
  newest    \* history: when the newest reading was measured that the hub took and still
            \* knows of, of each sensor

vars == <<now, hub, queue, buffer, sending, made, newest>>

\* A reading: its sensor, frame counter and the age it carries; with it go, as
\* history, when it was measured, how often it was buffered and how long it
\* waited in the queue or was on its way.
Reading(s) ==
  [dev |-> s, cnt |-> made % CntMod, age |-> 0, at |-> now, tries |-> 0, waited |-> 0]

Nobody == [known |-> FALSE, at |-> 0, cnt |-> 0, seen |-> 0, via |-> FALSE, rssi |-> 0, error |-> 0]
Unsaved == [entry |-> Nobody, newest |-> 0]
Nothing == [dev |-> 0, cnt |-> 0, age |-> 0, at |-> 0, tries |-> 0, waited |-> 0]
Idle(fails) == [pc |-> "idle", until |-> 0, backlog |-> FALSE, fails |-> fails, r |-> Nothing]

Init ==
  /\ now = 0
  /\ hub = [boot |-> 0, reg |-> [s \in Sensors |-> Nobody], saved |-> [s \in Sensors |-> Unsaved]]
  /\ queue = <<>> /\ buffer = <<>> /\ sending = Idle(0) /\ made = 0
  /\ newest = [s \in Sensors |-> 0]

\* A task with something to do does it before the clock moves on.
Urgent == sending.pc = "idle" /\ (queue # <<>> \/ buffer # <<>>)

Tick ==
  /\ now < MaxTime /\ ~Urgent
  /\ sending.pc # "idle" => now < sending.until
  /\ now' = now + 1
  /\ UNCHANGED <<hub, queue, buffer, sending, made, newest>>

-----------------------------------------------------------------------------
(* The hub *)

HubSeconds == (now - hub.boot) \div Second

\* The most that whole seconds leave out of a wait.
Cut == Second - 1

\* What the age of a reading leaves out: its wait in the queue and its time on the
\* way, the part of a second cut off each time it was buffered, and what exceeds the
\* hub's uptime.
Unaccounted(r) ==
  r.waited + Cut * r.tries + (IF r.age > HubSeconds THEN Second * (r.age - HubSeconds) ELSE 0)

\* registry_attribute(): whether the values are taken, and the entry after it.
\* A repeated frame counter is the same frame: the hub's own radio wins over a
\* node, and a node over a node with a weaker signal.
Attributed(e, r, via, rssi, seconds) ==
  LET taken == \/ ~e.known \/ e.cnt # r.cnt \/ ~via
               \/ e.via /\ rssi > e.rssi
      heard == [e EXCEPT !.known = TRUE, !.seen = seconds]
      own == [heard EXCEPT !.cnt = r.cnt, !.via = via, !.rssi = rssi, !.at = r.at,
                           !.error = Unaccounted(r)] IN
  [entry |-> IF taken THEN own ELSE heard, taken |-> taken]

Submit(r, via, rssi, seconds) ==
  LET a == Attributed(hub.reg[r.dev], r, via, rssi, seconds) IN
  /\ hub' = [hub EXCEPT !.reg[r.dev] = a.entry]
  /\ newest' = IF a.taken /\ r.at > newest[r.dev] THEN [newest EXCEPT ![r.dev] = r.at] ELSE newest

\* Mutant of BackDated: the age is not looked at.
AtArrival(age) == HubSeconds

\* When the reading was captured, by the hub's clock.
BackDated(age) == IF age <= HubSeconds THEN HubSeconds - age ELSE 0

TooOld(r) ==
  \/ r.age > MaxAge
  \/ hub.reg[r.dev].known /\ BackDated(r.age) < hub.reg[r.dev].seen

\* data_core_submit_from()
SubmitFrom(r, rssi) ==
  IF TooOld(r) THEN UNCHANGED <<hub, newest>> ELSE Submit(r, TRUE, rssi, BackDated(r.age))

\* What a row of the snapshot keeps of an entry: neither the frame counter nor the
\* second it was seen in, which load back as 0.
Kept(s) == [entry |-> [hub.reg[s] EXCEPT !.cnt = 0, !.seen = 0], newest |-> newest[s]]

\* data_core_persist_snapshot(), from sampler_task: all the registry at once.
PersistSnapshot ==
  /\ hub' = [hub EXCEPT !.saved = [s \in Sensors |-> Kept(s)]]
  /\ UNCHANGED <<now, queue, buffer, sending, made, newest>>

\* The hub restarts; data_core_restore_snapshot() fills the registry, unless
\* /storage did not mount.
HubRestart == \E restored \in BOOLEAN :
  LET row(s) == IF restored THEN hub.saved[s] ELSE Unsaved IN
  /\ hub.boot < now
  /\ hub' = [hub EXCEPT !.boot = now, !.reg = [s \in Sensors |-> row(s).entry]]
  /\ newest' = [s \in Sensors |-> row(s).newest]
  /\ UNCHANGED <<now, queue, buffer, sending, made>>

-----------------------------------------------------------------------------
(* The sensor, and who hears it *)

\* on_sensor_update() on the node drops what its full queue cannot take;
\* data_core_submit_mibeacon() on the hub has no age to look at.
Broadcast(s) == \E node, direct \in BOOLEAN :
  /\ made < MaxReadings /\ made' = made + 1
  /\ node \/ direct
  /\ queue' = IF node /\ Len(queue) < QueueLen THEN Append(queue, Reading(s)) ELSE queue
  /\ IF direct THEN Submit(Reading(s), FALSE, 0, HubSeconds) ELSE UNCHANGED <<hub, newest>>
  /\ UNCHANGED <<now, buffer, sending>>

-----------------------------------------------------------------------------
(* forward_task *)

Sends(r, backlog) ==
  sending' = [pc |-> "send", until |-> now + SendTicks, backlog |-> backlog,
              fails |-> sending.fails, r |-> r]

\* A live reading goes first.
TakeLive ==
  /\ sending.pc = "idle" /\ queue # <<>>
  /\ queue' = Tail(queue)
  /\ Sends([Head(queue) EXCEPT !.waited = now - Head(queue).at], FALSE)
  /\ UNCHANGED <<now, hub, buffer, made, newest>>

AtMost(n, limit) == IF n > limit THEN limit ELSE n

\* swarm_buf_recompute_age()
RecomputeAge(base, captured) == AtMost(base + (now - captured) \div Second, AgeLimit)

TakeBacklog ==
  /\ sending.pc = "idle" /\ queue = <<>> /\ buffer # <<>>
  /\ buffer' = Tail(buffer)
  /\ LET b == Head(buffer) IN Sends([b.r EXCEPT !.age = RecomputeAge(b.r.age, b.captured)], TRUE)
  /\ UNCHANGED <<now, hub, queue, made, newest>>

\* swarm_buf_push_coalesce(): onto the entry of the same sensor, else at the
\* end, in place of the oldest one of a full buffer.
Buffered(r) ==
  LET e == [r |-> [r EXCEPT !.tries = @ + 1], captured |-> now]
      same == {i \in 1..Len(buffer) : buffer[i].r.dev = r.dev} IN
  IF same # {} THEN [i \in 1..Len(buffer) |-> IF i \in same THEN e ELSE buffer[i]]
  ELSE Append(IF Len(buffer) < BufferLen THEN buffer ELSE Tail(buffer), e)

\* The reading that is being sent, with the time it has taken so far.
OnItsWay == [sending.r EXCEPT !.waited = @ + SendTicks - (sending.until - now)]

Sent ==
  /\ sending.pc = "send"
  /\ \E rssi \in {1, 2} : SubmitFrom(OnItsWay, rssi)
  /\ sending' = Idle(0)
  /\ UNCHANGED <<now, queue, buffer, made>>

\* A send that fails may have reached the hub all the same.  FailLimit failures
\* in a row are followed by a resync of a second or so, a backlog entry that
\* failed by a second's rest.
Failed == \E arrived \in BOOLEAN :
  LET fails == (sending.fails + 1) % FailLimit
      resync == fails = 0 IN
  /\ sending.pc = "send"
  /\ IF arrived THEN SubmitFrom(OnItsWay, 1) ELSE UNCHANGED <<hub, newest>>
  /\ buffer' = Buffered(OnItsWay)
  /\ sending' = IF ~sending.backlog /\ ~resync THEN Idle(fails)
                ELSE [Idle(fails) EXCEPT !.pc = "rest",
                        !.until = now + (IF sending.backlog /\ resync THEN 2 * Second ELSE Second)]
  /\ UNCHANGED <<now, queue, made>>

Rested ==
  /\ sending.pc = "rest" /\ now = sending.until
  /\ sending' = Idle(sending.fails)
  /\ UNCHANGED <<now, hub, queue, buffer, made, newest>>

-----------------------------------------------------------------------------

Next ==
  \/ Tick \/ PersistSnapshot \/ HubRestart \/ (\E s \in Sensors : Broadcast(s))
  \/ TakeLive \/ TakeBacklog \/ Sent \/ Failed \/ Rested

Spec == Init /\ [][Next]_vars

-----------------------------------------------------------------------------
(* Properties *)

\* A buffered reading that arrives late must not regress the live view
\* (data_core.c:236): the registry goes back by no more than what the age leaves
\* out, and the second the hub itself cannot tell apart.  A value out of the snapshot
\* has lost its time (registry_persist.c:117): after a restart it gives way to an older
\* reading, by no more than what that reading's age exceeds the hub's uptime by.
RegressIsBounded ==
  \A s \in Sensors : hub.reg[s].known => hub.reg[s].at + hub.reg[s].error + Second > newest[s]
=============================================================================
