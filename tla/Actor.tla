-------------------------------- MODULE Actor --------------------------------
(***************************************************************************)
(* components/actors/actor.c: the one door every actuator command goes     *)
(* through.  Rules, the web server, the swarm and the pending-close        *)
(* machinery submit requests; one task services the queue.  Every action   *)
(* below but the last but one is one critical section of the actor mutex,  *)
(* so the interleaving of the tasks is the interleaving of the actions.    *)
(* The service task charges a command inside the mutex and dispatches it   *)
(* after letting the mutex go, which are two actions here: whatever the    *)
(* other tasks do in between, the charged command is in the task's hand.   *)
(***************************************************************************)
EXTENDS GuardTable, CommandQueue

CONSTANTS
  Callers,      \* the sources that submit requests in this run
  Params,       \* parameters a caller may pass
  Bounds,       \* param_max values a wrapper may declare
  TimedOffs,    \* whether a wrapper declares the device closes itself
  Cooldowns,    \* cooldowns an operator may configure
  Caps,         \* max_per_hour values an operator may configure
  TTLs,         \* how far ahead a request's deadline may lie
  Horizon,      \* bound: the last second of the run
  MaxRequests   \* bound: accepted requests

ASSUME ActorAssumption ==
  /\ Callers \subseteq Sources /\ TimedOffs \subseteq BOOLEAN
  /\ Params \subseteq Nat /\ Bounds \subseteq Nat /\ Cooldowns \subseteq Nat
  /\ Caps \subseteq 0 .. CountMax /\ TTLs \subseteq Nat
  /\ Horizon \in Nat /\ MaxRequests \in Nat

VARIABLES
  table,     \* s_table
  queue,     \* s_queue
  dirty,     \* s_guards_dirty
  now,       \* actor_now_s()
  requests,  \* accepted requests so far (bound)
  hand,      \* what actor_service() has charged and not yet dispatched:
             \* at most one command, in r.cmd
  recent,    \* history: per device and pair, what was charged in the last
             \* Window seconds since the pair was declared or its guards
             \* were last set
  sends,     \* history: commands charged so far, which numbers them
  slips      \* history: per device, the rule and remote commands dispatched
             \* while it was locked out, since it last came to be

vars == <<table, queue, dirty, now, requests, hand, recent, sends, slips>>

Commands == [dev: Devices, action: Actions, endpoint: Endpoints, param: Params,
             source: Callers, deadline: {stamp + ttl : stamp \in 0 .. Horizon, ttl \in TTLs}]

Fires == [n: Nat, at: Nat, source: Sources]

Init ==
  /\ table = EmptyTable
  /\ queue = <<>>
  /\ dirty = FALSE
  /\ now = 0
  /\ requests = 0
  /\ hand = {}
  /\ recent = [d \in Devices |-> [p \in Pairs |-> {}]]
  /\ sends = 0
  /\ slips = [d \in Devices |-> 0]

\* History bookkeeping: a pair that is not declared has no past.
Forget(log, t) ==
  [d \in Devices |-> [p \in Pairs |-> IF Declared(t, d, p) THEN log[d][p] ELSE {}]]

LockedOut(t, d) == d \in DOMAIN t /\ t[d].lockout

\* History bookkeeping: releasing the stop button starts the count over.
Released(count, t) == [d \in Devices |-> IF LockedOut(t, d) THEN count[d] ELSE 0]

-----------------------------------------------------------------------------
(* Declaring, undeclaring and configuring *)

Declare(d, p, max, timedOff) ==
  /\ table' = Add(table, d, p, max, timedOff)
  /\ UNCHANGED <<queue, dirty, now, requests, hand, recent, sends, slips>>

\* Commands still queued for the device stay queued.
Undeclare(d) ==
  /\ table' = Free(table, d)
  /\ dirty' = (dirty \/ d \in DOMAIN table)
  /\ recent' = Forget(recent, table')
  /\ slips' = Released(slips, table')
  /\ UNCHANGED <<queue, now, requests, hand, sends>>

Prune(d, actions) ==
  /\ table' = PruneAbsent(table, d, actions)
  /\ dirty' = (dirty \/ table' # table)
  /\ recent' = Forget(recent, table')
  /\ slips' = Released(slips, table')
  /\ UNCHANGED <<queue, now, requests, hand, sends>>

ConfigureGuards(d, p, cooldown, perHour) ==
  /\ Declared(table, d, p)
  /\ table' = SetGuards(table, d, p, cooldown, perHour)
  /\ dirty' = TRUE
  /\ recent' = [recent EXCEPT ![d][p] = {}]
  /\ UNCHANGED <<queue, now, requests, hand, sends, slips>>

\* The operator's stop button; marks the guards dirty even for a device the
\* table does not know.
PressLockout(d, on) ==
  /\ table' = SetLockout(table, d, on)
  /\ dirty' = TRUE
  /\ slips' = Released(slips, table')
  /\ UNCHANGED <<queue, now, requests, hand, recent, sends>>

-----------------------------------------------------------------------------
(* Requesting and servicing *)

\* request_common(): the clock is read before the mutex is taken, so the
\* check may run on a stamp that is already in the past.
Request(d, a, e, param, source, ttl) ==
  \E stamp \in {now, now - 1} \cap Nat :
    LET c == [dev |-> d, action |-> a, endpoint |-> ResolveEndpoint(table, d, a, e),
              param |-> param, source |-> source, deadline |-> stamp + ttl]
    IN  /\ requests < MaxRequests
        /\ Check(table, d, a, e, param, source, stamp) = "OK"
        /\ CanPush(queue, c)
        /\ queue' = Push(queue, c)
        /\ requests' = requests + 1
        /\ UNCHANGED <<table, dirty, now, hand, recent, sends, slips>>

\* Mutants of StillAllowed: the guards looked at once, when the request came
\* in; the lockout not looked at again.
StillDeclared(t, c, time) == Declared(t, c.dev, <<c.action, c.endpoint>>)

StillAllowedToAnyone(t, c, time) ==
  Check(t, c.dev, c.action, c.endpoint, c.param, Manual, time) = "OK"

\* The guards are evaluated again on the command that left the queue.
StillAllowed(t, c, time) ==
  Check(t, c.dev, c.action, c.endpoint, c.param, c.source, time) = "OK"

\* actor_service(), inside the mutex: drop what expired, take one command,
\* and charge it if the guards still agree.  One task runs it, so it holds
\* nothing when it begins.
Service ==
  LET live == Unexpired(queue, now)
      i    == PickIndex(live)
      c    == live[i]
      p    == <<c.action, c.endpoint>>
  IN  /\ hand = {}
      /\ queue # <<>>
      /\ queue' = IF live = <<>> THEN live ELSE RemoveAt(live, i)
      /\ IF live # <<>> /\ StillAllowed(table, c, now)
         THEN /\ table' = Record(table, c.dev, c.action, c.endpoint, now)
              /\ dirty' = TRUE
              /\ recent' = [recent EXCEPT ![c.dev][p] =
                              @ \cup {[n |-> sends, at |-> now, source |-> c.source]}]
              /\ hand' = {[dev |-> c.dev, source |-> c.source]}
              /\ sends' = sends + 1
         ELSE UNCHANGED <<table, dirty, hand, recent, sends>>
      /\ UNCHANGED <<now, requests, slips>>

\* actor_service(), the mutex let go: the dispatcher of the device's kind is
\* looked up in the table as it is by now and called.  No guard is looked at
\* again.  A device the table has lost has no dispatcher and its command is
\* dropped; whether a command is then sent shows in the history only.
Dispatch ==
  \E c \in hand :
    /\ hand' = {}
    /\ slips' = IF c.source \in {Rule, Remote} /\ LockedOut(table, c.dev)
                THEN [slips EXCEPT ![c.dev] = @ + 1] ELSE slips
    /\ UNCHANGED <<table, queue, dirty, now, requests, recent, sends>>

Tick ==
  /\ now < Horizon
  /\ now' = now + 1
  /\ recent' = [d \in Devices |-> [p \in Pairs |->
                  {f \in recent[d][p] : now' - f.at < Window}]]
  /\ UNCHANGED <<table, queue, dirty, requests, hand, sends, slips>>

Next ==
  \/ \E d \in Devices, p \in Pairs, max \in Bounds, timedOff \in TimedOffs :
       Declare(d, p, max, timedOff)
  \/ \E d \in Devices : Undeclare(d)
  \/ \E d \in Devices, actions \in SUBSET Actions : Prune(d, actions)
  \/ \E d \in Devices, p \in Pairs, cooldown \in Cooldowns, perHour \in Caps :
       ConfigureGuards(d, p, cooldown, perHour)
  \/ \E d \in Devices, on \in BOOLEAN : PressLockout(d, on)
  \/ \E d \in Devices, a \in Actions, e \in Endpoints \cup {0},
        param \in Params, source \in Callers, ttl \in TTLs :
       Request(d, a, e, param, source, ttl)
  \/ Service
  \/ Dispatch
  \/ Tick

Spec == Init /\ [][Next]_vars

-----------------------------------------------------------------------------
(* Properties *)

Limited(f) == f.source # Safety

\* The hourly cap, as a wall-clock promise: over ANY Window seconds a pair
\* with cap N is charged for fewer than 2N limited commands, however its
\* requests were queued, which task asked for them and whatever safety closes
\* ran in between (the documented cost of the fixed window in actor_table.h
\* is 2N).
RollingBudget ==
  \A d \in DOMAIN table : \A p \in DOMAIN table[d].slots :
    LET cap == table[d].slots[p].perHour
    IN  cap > 0 => Cardinality({f \in recent[d][p] : Limited(f)}) < 2 * cap

\* The cooldown, as a wall-clock promise: a limited command is never charged
\* less than the cooldown after an earlier command of its pair, even when
\* both passed their guards while queued side by side.
CooldownSpacing ==
  \A d \in DOMAIN table : \A p \in DOMAIN table[d].slots :
    \A f, g \in recent[d][p] :
      f.n < g.n /\ Limited(g) => g.at - f.at >= table[d].slots[p].cooldown

\* The stop button also stops what was queued before it was pressed, but for
\* the one command the service task may already hold: from the press to the
\* release (undeclaring the device is one) at most one rule or remote command
\* of the device is dispatched, however many were queued before the press and
\* however long the service task sat on the one it held.
StopLetsOneThrough == \A d \in Devices : slips[d] <= 1

\* The single compacted array behaves as two first-in-first-out lanes that
\* share a capacity, whatever the callers, the service task and the clock do:
\* urgent commands overtake and displace ordinary ones and never each other,
\* and what is overdue is dropped before anything is taken.
Lanes == INSTANCE TwoLaneQueue WITH
  Capacity <- QueueMax,
  urgent   <- Selected(queue, UrgentAt(queue)),
  ordinary <- Selected(queue, OrdinaryAt(queue))

ImplementsLanes == Lanes!Spec

\* The pair a queued command is for.
PairOf(c) == <<c.action, c.endpoint>>

=============================================================================
