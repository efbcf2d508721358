----------------------------- MODULE CommandPath -----------------------------
(***************************************************************************)
(* ble_collector.c's wiring of one command's life: adv_decoder_task pops   *)
(* it from the queue, arms what it owes and hands it to the engine; the    *)
(* NimBLE host task says how it ended, through two single-slot latches the *)
(* decoder task drains on its next round.  Composes the command queue      *)
(* (CommandQueue) with the obligations (PendingClose) and the engine       *)
(* (RadioSharing), each reduced to what the wiring sees of it.             *)
(***************************************************************************)
EXTENDS CommandQueue, FiniteSets

CONSTANTS
  Keys,         \* device identities; every one is bound and declared
  NoCommand,
  MaxCommands   \* bound: commands accepted

ASSUME CommandPathAssumption ==
  /\ IsFiniteSet(Keys)
  /\ MaxCommands \in Nat

VARIABLES
  queue,     \* s_queue
  at,        \* decoder loop: "drain", "due", "requeue", "service", "wait"
  inflight,  \* s_cmd_inflight, with s_cmd_inflight_key
  engine,    \* "free", "pending" (s_cmd_pending) or "active"
  poll,      \* battery_poll_busy()
  requeue,   \* s_requeue, or NoCommand
  defer,     \* s_pc_defer_*: "none", or the outcome of a safety close
  owed,      \* pending_close.c's table: identities with an obligation
  valve,     \* the real actuators that are open
  accepted,  \* commands accepted so far (bound); also the next id
  ended,     \* history: ids whose end was reported, with how often
  sent,      \* history: how often each id was dispatched
  raced      \* history: a command ended between the drain and the busy test
             \* of one round

vars == <<queue, at, inflight, engine, poll, requeue, defer, owed, valve,
          accepted, ended, sent, raced>>

Ids == 1 .. MaxCommands

CommandType == [id: Ids, key: Keys, open: BOOLEAN, source: {"RULE", "SAFETY"},
                retried: BOOLEAN]

ASSUME NoCommandAssumption == NoCommand \notin CommandType

Init ==
  /\ queue = <<>> /\ at = "drain"
  /\ inflight = NoCommand /\ engine = "free" /\ poll = FALSE
  /\ requeue = NoCommand /\ defer = "none"
  /\ owed = {} /\ valve = {}
  /\ accepted = 0
  /\ ended = [i \in Ids |-> 0] /\ sent = [i \in Ids |-> 0]
  /\ raced = FALSE

\* Mutant of Accept: what is displaced is forgotten.
AcceptQuietly(c) == queue' = Push(queue, c) /\ UNCHANGED ended

\* A command the queue accepts; what it displaces ends in an alert.
Accept(c) ==
  /\ queue' = Push(queue, c)
  /\ ended' = [i \in Ids |-> ended[i] +
                 Cardinality({j \in DOMAIN queue : queue[j].id = i /\ ~Contains(queue', queue[j])})]

Ends(ids) == ended' = [i \in Ids |-> IF i \in ids THEN ended[i] + 1 ELSE ended[i]]

-----------------------------------------------------------------------------
(* Requests and the poller *)

\* A rule, the operator or the swarm asks for an open or a close.
Request(k, open) ==
  LET c == [id |-> accepted + 1, key |-> k, open |-> open, source |-> "RULE",
            retried |-> FALSE]
  IN  /\ accepted < MaxCommands /\ CanPush(queue, c)
      /\ Accept(c)
      /\ accepted' = accepted + 1
      /\ UNCHANGED <<at, inflight, engine, poll, requeue, defer, owed, valve, sent, raced>>

PollToggle ==
  /\ engine # "active"
  /\ poll' = ~poll
  /\ UNCHANGED <<queue, at, inflight, engine, requeue, defer, owed, valve,
                 accepted, ended, sent, raced>>

-----------------------------------------------------------------------------
(* One round of adv_decoder_task *)

\* Mutant of Drain: an unconfirmed close ends the obligation too.
DrainAny ==
  /\ at = "drain" /\ at' = "due"
  /\ owed' = IF defer # "none" THEN owed \ {inflight.key} ELSE owed
  /\ defer' = "none"
  /\ UNCHANGED <<queue, inflight, engine, poll, requeue, valve, accepted, ended, sent, raced>>

\* service_pending_close_defer(): the result goes to the identity captured at
\* the last dispatch; only a confirmed close ends an obligation.
Drain ==
  /\ at = "drain" /\ at' = "due"
  /\ owed' = IF defer = "confirmed" THEN owed \ {inflight.key} ELSE owed
  /\ defer' = "none"
  /\ UNCHANGED <<queue, inflight, engine, poll, requeue, valve, accepted, ended, sent, raced>>

\* pending_close_service(): a due obligation asks for a safety close.
RequestClose(k) ==
  LET c == [id |-> accepted + 1, key |-> k, open |-> FALSE, source |-> "SAFETY",
            retried |-> FALSE]
  IN  /\ at = "due" /\ k \in owed
      /\ accepted < MaxCommands /\ CanPush(queue, c)
      /\ Accept(c)
      /\ accepted' = accepted + 1
      /\ UNCHANGED <<at, inflight, engine, poll, requeue, defer, owed, valve, sent, raced>>

NoneDue ==
  /\ at = "due" /\ at' = "requeue"
  /\ UNCHANGED <<queue, inflight, engine, poll, requeue, defer, owed, valve,
                 accepted, ended, sent, raced>>

\* service_command_requeue(): the guards and the queue may refuse it.
Requeue ==
  /\ at = "requeue" /\ at' = "service"
  /\ requeue' = NoCommand
  /\ LET c == [requeue EXCEPT !.retried = TRUE]
     IN  \/ /\ requeue = NoCommand
            /\ UNCHANGED <<queue, ended>>
         \/ /\ requeue # NoCommand /\ CanPush(queue, c)
            /\ Accept(c)
         \/ /\ requeue # NoCommand
            /\ Ends({requeue.id})
            /\ UNCHANGED queue
  /\ UNCHANGED <<inflight, engine, poll, defer, owed, valve, accepted, sent, raced>>

\* A set of positions, listed from the front; there is one such list.
InOrder(S) ==
  {f \in [1 .. Cardinality(S) -> S] : \A m, n \in DOMAIN f : m < n => f[m] < f[n]}

\* actor_service() and on_actor_dispatch(): some commands have expired; the
\* next one is refused before the radio (its guards, its address, its
\* wrapper) or arms what it owes and is handed to the engine.
Service ==
  /\ at = "service" /\ at' = "wait"
  /\ engine = "free" /\ ~poll
  /\ \E late \in SUBSET DOMAIN queue : \E order \in InOrder(DOMAIN queue \ late) :
       LET live == [m \in DOMAIN order |-> queue[order[m]]]
           lost == {queue[i].id : i \in late}
           n    == PickIndex(live)
           c    == live[n]
       IN  IF live = <<>>
           THEN /\ queue' = live /\ Ends(lost)
                /\ UNCHANGED <<inflight, engine, owed, sent>>
           ELSE /\ queue' = RemoveAt(live, n)
                /\ \/ /\ Ends(lost \cup {c.id})
                      /\ UNCHANGED <<inflight, engine, owed, sent>>
                   \/ /\ Ends(lost)
                      /\ inflight' = c
                      /\ engine' = "pending"
                      /\ owed' = IF c.open THEN owed \cup {c.key} ELSE owed
                      /\ sent' = [sent EXCEPT ![c.id] = @ + 1]
  /\ UNCHANGED <<poll, requeue, defer, valve, accepted, raced>>

\* The engine or the poller is busy: no dispatch this round.
SkipService ==
  /\ at = "service" /\ at' = "wait"
  /\ engine # "free" \/ poll
  /\ UNCHANGED <<queue, inflight, engine, poll, requeue, defer, owed, valve,
                 accepted, ended, sent, raced>>

NextRound ==
  /\ at = "wait" /\ at' = "drain"
  /\ UNCHANGED <<queue, inflight, engine, poll, requeue, defer, owed, valve,
                 accepted, ended, sent, raced>>

-----------------------------------------------------------------------------
(* The NimBLE host task *)

\* start_command() finds the battery poller on the radio: the command goes
\* back to the queue once, through a single slot.
RefusedBusy ==
  /\ engine = "pending" /\ poll
  /\ engine' = "free"
  /\ IF ~inflight.retried /\ requeue = NoCommand
     THEN requeue' = inflight /\ UNCHANGED ended
     ELSE Ends({inflight.id}) /\ UNCHANGED requeue
  /\ UNCHANGED <<queue, at, inflight, poll, defer, owed, valve, accepted, sent, raced>>

Start ==
  /\ engine = "pending" /\ ~poll
  /\ engine' = "active"
  /\ UNCHANGED <<queue, at, inflight, poll, requeue, defer, owed, valve,
                 accepted, ended, sent, raced>>

\* on_gatt_cmd_done(): a failure may hide a write that took effect, and a
\* write that was accepted may have had none unless it was confirmed.  Only a safety close has its outcome kept.
Finish(landed, outcome) ==
  /\ engine = "active"
  /\ outcome = "confirmed" => landed
  /\ engine' = "free"
  /\ valve' = IF ~landed THEN valve
              ELSE IF inflight.open THEN valve \cup {inflight.key}
              ELSE valve \ {inflight.key}
  /\ defer' = IF outcome # "failed" /\ inflight.source = "SAFETY" THEN outcome ELSE defer
  /\ raced' = (raced \/ at \notin {"drain", "wait"})
  /\ Ends({inflight.id})
  /\ UNCHANGED <<queue, at, inflight, poll, requeue, owed, accepted, sent>>

Next ==
  \/ \E k \in Keys, open \in BOOLEAN : Request(k, open)
  \/ PollToggle
  \/ Drain \/ NoneDue \/ Requeue \/ Service \/ SkipService \/ NextRound
  \/ \E k \in Keys : RequestClose(k)
  \/ RefusedBusy \/ Start
  \/ \E landed \in BOOLEAN, outcome \in {"failed", "unconfirmed", "confirmed"} :
       Finish(landed, outcome)

Spec == Init /\ [][Next]_vars

-----------------------------------------------------------------------------
(* Properties *)

\* Where a command is that has not ended.
Held(i) ==
  Cardinality({j \in DOMAIN queue : queue[j].id = i})
    + (IF requeue # NoCommand /\ requeue.id = i THEN 1 ELSE 0)
    + (IF engine # "free" /\ inflight.id = i THEN 1 ELSE 0)

\* Every accepted command is in exactly one place until its end is reported
\* once: no eviction, expiry, refusal or requeue loses or doubles one.
NothingVanishes ==
  \A i \in Ids : Held(i) + ended[i] = IF i <= accepted THEN 1 ELSE 0

\* What the hub opened it owes a close: while an actuator is open, or an open
\* is on its way, its obligation stands.  ble_collector.c:797-808 rests it on
\* the result of a close being drained before the next command is dispatched.
OpenIsOwed ==
  valve \cup (IF engine # "free" /\ inflight.open THEN {inflight.key} ELSE {}) \subseteq owed

\* It holds as long as no command ends while the decoder task is between its
\* drain and its busy test: whatever is queued, expired, requeued or refused,
\* a result clears the obligation of the device it closed and no other.
OwedUnlessRaced == ~raced => OpenIsOwed

=============================================================================
