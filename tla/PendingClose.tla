----------------------------- MODULE PendingClose -----------------------------
(***************************************************************************)
(* components/actors/pending_close.c: the hub's obligation to close what   *)
(* it opened.  An open of an actuator that cannot time itself off arms a   *)
(* row keyed by the device identity, in RAM and in a file, before the      *)
(* radio is touched; only a confirmed safety close removes it.             *)
(*                                                                         *)
(* Two tasks of ble_collector.c work on it.  The decoder task dispatches   *)
(* one command at a time, remembers the identity it was for, and in every  *)
(* round drains the latched result of a close, services what is due and    *)
(* only then dispatches; the host task ends the command on the radio and   *)
(* latches the result of a safety close.  The result is drained under the  *)
(* identity remembered by then, which a close that ends between the drain  *)
(* and the dispatch of one round finds to be the next command's.           *)
(*                                                                         *)
(* Time is the number of recheck periods (PENDING_CLOSE_UNKNOWN_RECHECK_S, *)
(* 5 s) a row still has to wait: "left" counts down to 0, due.             *)
(***************************************************************************)
EXTENDS Integers, FiniteSets, Functions

CONSTANTS
  Identities,    \* device identities
  NoKey,
  MaxPending,    \* PENDING_CLOSE_MAX
  MaxRetries,    \* PENDING_CLOSE_MAX_RETRIES
  AlertStreak,   \* PENDING_CLOSE_DEFERRED_ALERT_STREAK
  BackoffCap,    \* 300 s, in recheck periods
  Durations,     \* how long an actuator may be asked to stay open
  MaxKnown,      \* ACTOR_MAX_DEVICES
  MaxDispatched, \* bound: commands dispatched that are no safety closes
  MaxCrashes,    \* bound: reboots
  MaxInflight    \* bound: unanswered closes per device

ASSUME PendingCloseAssumption ==
  /\ NoKey \notin Identities
  /\ MaxPending \in Nat \ {0} /\ MaxRetries \in Nat \ {0}
  /\ AlertStreak \in Nat \ {0} /\ BackoffCap \in Nat \ {0}
  /\ Durations \subseteq Nat
  /\ MaxKnown \in Nat
  /\ MaxDispatched \in Nat /\ MaxCrashes \in Nat /\ MaxInflight \in Nat \ {0}

VARIABLES
  up,        \* the hub is running
  rows,      \* s_table: the obligations held in RAM
  file,      \* /storage/pending_close.bin: identity |-> recorded retries
  known,     \* identities some declared actuator carries right now
  closing,   \* safety closes in the command queue
  last,      \* s_cmd_inflight_key of the last command dispatched, and what the
             \* radio is still doing for it: "open", "close" (a safety close),
             \* "other" or "none"
  confirmed, \* s_pc_defer_*: a confirmed result waits to be drained
  drained,   \* the decoder task has drained in the round it is in
  actuator,  \* the real actuators: open or not
  tries,     \* history: closes requested for the row since it was armed or loaded
  alerts,    \* history: alerts raised for it since then, or since the last close
             \* was requested
  failed,    \* history: the last write of the file failed
  stale,     \* history: the waiting result is not of the last command
  excused,   \* history: identities whose obligation was lost, in one of the
             \* ways OpenHasObligation names, since their last open was armed
  dispatched, crashes

closeVars == <<up, rows, file, known, closing, last, confirmed, drained, actuator,
               tries, alerts, failed, stale, excused, dispatched, crashes>>

Never == -1   \* PENDING_CLOSE_GIVEN_UP

RowType == [left: Nat \cup {Never}, retries: 0 .. MaxRetries,
            streak: 0 .. AlertStreak, alerted: BOOLEAN]

FreshRow(left, retries) ==
  [left |-> left, retries |-> retries, streak |-> 0, alerted |-> FALSE]

NoRows == [k \in {} |-> 0]

Command(k, kind) == [key |-> k, kind |-> kind]

CloseInit ==
  /\ up = TRUE
  /\ rows = NoRows /\ file = NoRows
  /\ known = {}
  /\ closing = [k \in Identities |-> 0]
  /\ last = Command(NoKey, "none")
  /\ confirmed = FALSE /\ drained = TRUE
  /\ actuator = [k \in Identities |-> FALSE]
  /\ tries = [k \in Identities |-> 0]
  /\ alerts = [k \in Identities |-> {}]
  /\ failed = FALSE /\ stale = FALSE
  /\ excused = {}
  /\ dispatched = 0 /\ crashes = 0

-----------------------------------------------------------------------------
(* The table *)

\* An obligation that finds no row free is dropped without a word.
CanUpsert(r, k) == k \in DOMAIN r \/ Cardinality(DOMAIN r) < MaxPending

Upsert(r, k, row) ==
  IF CanUpsert(r, k)
  THEN [x \in DOMAIN r \cup {k} |-> IF x = k THEN row ELSE r[x]]
  ELSE r

\* Mutants of Snapshot: spent retries are saved; given-up rows are not.
SnapshotRetries(r) == [k \in DOMAIN r |-> r[k].retries]

SnapshotLive(r) == [k \in {x \in DOMAIN r : r[x].left # Never} |-> 0]

\* What a save records: the identities, always with a full retry budget.
Snapshot(r) == [k \in DOMAIN r |-> 0]

\* A write goes to a temporary file that replaces the old one, so a failed
\* write leaves the old file whole; an empty table just removes the file.
Save(r) ==
  \/ file' = Snapshot(r) /\ failed' = FALSE
  \/ /\ DOMAIN r # {}
     /\ failed' = TRUE
     /\ UNCHANGED file

Backoff(retries) == IF 2 ^ retries \in 0 .. BackoffCap THEN 2 ^ retries ELSE BackoffCap

\* Mutant of Step: the recheck streak never grows.
StepNoStreak(row, isKnown) ==
  IF row.retries >= MaxRetries
  THEN [outcome |-> "EXHAUSTED", row |-> [row EXCEPT !.left = Never]]
  ELSE IF ~isKnown THEN [outcome |-> "DEFERRED", row |-> [row EXCEPT !.left = 1]]
  ELSE [outcome |-> "REQUEST", row |-> FreshRow(Backoff(row.retries + 1), row.retries + 1)]

\* pending_close_step(): what a due row does next.
Step(row, isKnown) ==
  IF row.retries >= MaxRetries
  THEN [outcome |-> "EXHAUSTED", row |-> [row EXCEPT !.left = Never]]
  ELSE IF ~isKnown
  THEN LET streak == IF row.streak < AlertStreak THEN row.streak + 1 ELSE row.streak
           loud   == ~row.alerted /\ streak >= AlertStreak
       IN  [outcome |-> IF loud THEN "DEFERRED_TIMEOUT" ELSE "DEFERRED",
            row |-> [row EXCEPT !.left = 1, !.streak = streak, !.alerted = @ \/ loud]]
  ELSE [outcome |-> "REQUEST", row |-> FreshRow(Backoff(row.retries + 1), row.retries + 1)]

-----------------------------------------------------------------------------
(* The actions *)

\* actor_service() runs after the round's drain, with the radio free.
MayDispatch == up /\ drained /\ last.kind = "none"

\* on_actor_dispatch(): the identity is remembered before anything else, and what
\* still waits to be drained is now an earlier command's.
Takes(k, kind) ==
  /\ last' = Command(k, kind)
  /\ drained' = FALSE
  /\ stale' = confirmed

\* A timed open: the obligation is recorded, if a row is free for it, then the
\* radio is given the command.
DispatchOpen(k, duration) ==
  /\ MayDispatch /\ k \in known /\ dispatched < MaxDispatched
  /\ Takes(k, "open")
  /\ rows' = Upsert(rows, k, FreshRow(duration, 0))
  /\ Save(rows')
  /\ excused' = IF CanUpsert(rows, k) THEN excused \ {k} ELSE excused \cup {k}
  /\ tries' = [tries EXCEPT ![k] = 0]
  /\ alerts' = [alerts EXCEPT ![k] = {}]
  /\ dispatched' = dispatched + 1
  /\ UNCHANGED <<up, known, closing, confirmed, actuator, crashes>>

\* A command that owes nothing and is no safety close, such as a close the
\* operator asked for.  One refused before the radio (no address, no wrapper, no
\* such action) is one that fails without having done anything.
DispatchOther(k) ==
  /\ MayDispatch /\ k \in known /\ dispatched < MaxDispatched
  /\ Takes(k, "other")
  /\ dispatched' = dispatched + 1
  /\ UNCHANGED <<up, rows, file, known, closing, confirmed, actuator, tries, alerts, failed,
                 excused, crashes>>

\* A safety close, taken from the queue.
DispatchClose(k) ==
  /\ MayDispatch /\ k \in known /\ closing[k] > 0
  /\ Takes(k, "close")
  /\ closing' = [closing EXCEPT ![k] = @ - 1]
  /\ UNCHANGED <<up, rows, file, known, confirmed, actuator, tries, alerts, failed, excused,
                 dispatched, crashes>>

\* It expired in the queue, or the guards or the lookup of its device refused it.
DropClose(k) ==
  /\ MayDispatch /\ closing[k] > 0
  /\ closing' = [closing EXCEPT ![k] = @ - 1]
  /\ UNCHANGED <<up, rows, file, known, last, confirmed, drained, actuator, tries, alerts,
                 failed, stale, excused, dispatched, crashes>>

\* Mutant of EndCommand: any end of a safety close counts as a confirmed one.
EndAnswered(landed, outcome) ==
  /\ up /\ last.kind # "none"
  /\ outcome = "confirmed" => landed
  /\ actuator' = IF landed THEN [actuator EXCEPT ![last.key] = (last.kind = "open")]
                 ELSE actuator
  /\ IF last.kind = "close"
     THEN confirmed' = TRUE /\ stale' = FALSE
     ELSE UNCHANGED <<confirmed, stale>>
  /\ last' = [last EXCEPT !.kind = "none"]
  /\ UNCHANGED <<up, rows, file, known, closing, drained, tries, alerts, failed, excused,
                 dispatched, crashes>>

\* on_gatt_cmd_done(), on the host task.  A failure may hide a write that
\* landed.  What a safety close that did not fail found out is latched, over
\* whatever was not drained yet; that it may be of no use is for the drain.
EndCommand(landed, outcome) ==
  /\ up /\ last.kind # "none"
  /\ outcome = "confirmed" => landed
  /\ actuator' = IF landed THEN [actuator EXCEPT ![last.key] = (last.kind = "open")]
                 ELSE actuator
  /\ IF last.kind = "close" /\ outcome # "failed"
     THEN confirmed' = (outcome = "confirmed") /\ stale' = FALSE
     ELSE UNCHANGED <<confirmed, stale>>
  /\ last' = [last EXCEPT !.kind = "none"]
  /\ UNCHANGED <<up, rows, file, known, closing, drained, tries, alerts, failed, excused,
                 dispatched, crashes>>

\* service_pending_close_defer(): a confirmed result ends the obligation of the
\* identity remembered now, which is not the one that was closed when another
\* command went out in between.
DrainResult ==
  /\ up
  /\ drained' = TRUE
  /\ confirmed' = FALSE /\ stale' = FALSE
  /\ LET k == last.key
     IN  IF confirmed
         THEN /\ rows' = Restrict(rows, DOMAIN rows \ {k})
              /\ Save(rows')
              /\ excused' = IF stale /\ k \in DOMAIN rows THEN excused \cup {k} ELSE excused
              /\ tries' = [tries EXCEPT ![k] = 0]
              /\ alerts' = [alerts EXCEPT ![k] = {}]
         ELSE UNCHANGED <<rows, file, failed, excused, tries, alerts>>
  /\ UNCHANGED <<up, known, closing, last, actuator, dispatched, crashes>>

\* pending_close_service(), one due row.
ServiceRow(k) ==
  /\ up /\ drained /\ k \in DOMAIN rows /\ rows[k].left = 0
  /\ LET s == Step(rows[k], k \in known)
     IN  /\ rows' = [rows EXCEPT ![k] = s.row]
         /\ \/ /\ s.outcome = "REQUEST"
               /\ tries' = [tries EXCEPT ![k] = @ + 1]
               /\ \/ closing' = [closing EXCEPT ![k] = IF @ < MaxInflight THEN @ + 1 ELSE @]
                  \/ UNCHANGED closing  \* the command queue refused it
               /\ alerts' = [alerts EXCEPT ![k] = {}]
            \/ /\ s.outcome = "EXHAUSTED"
               /\ alerts' = [alerts EXCEPT ![k] = @ \cup {"CLOSE_UNCONFIRMED"}]
               /\ UNCHANGED <<tries, closing>>
            \/ /\ s.outcome = "DEFERRED_TIMEOUT"
               /\ alerts' = [alerts EXCEPT ![k] = @ \cup {"DEVICE_UNREACHABLE"}]
               /\ UNCHANGED <<tries, closing>>
            \/ /\ s.outcome = "DEFERRED"
               /\ UNCHANGED <<tries, closing, alerts>>
  /\ UNCHANGED <<up, file, known, last, confirmed, drained, actuator, failed, stale,
                 excused, dispatched, crashes>>

Discover(k) ==
  /\ up /\ k \notin known /\ Cardinality(known) < MaxKnown
  /\ known' = known \cup {k}
  /\ UNCHANGED <<up, rows, file, closing, last, confirmed, drained, actuator, tries,
                 alerts, failed, stale, excused, dispatched, crashes>>

Vanish(k) ==
  /\ up /\ k \in known
  /\ known' = known \ {k}
  /\ UNCHANGED <<up, rows, file, closing, last, confirmed, drained, actuator, tries,
                 alerts, failed, stale, excused, dispatched, crashes>>

Tick ==
  /\ up
  /\ \E k \in DOMAIN rows : rows[k].left > 0
  /\ rows' = [k \in DOMAIN rows |->
                [rows[k] EXCEPT !.left = IF @ > 0 THEN @ - 1 ELSE @]]
  /\ UNCHANGED <<up, file, known, closing, last, confirmed, drained, actuator, tries,
                 alerts, failed, stale, excused, dispatched, crashes>>

\* Power is lost; what is on the radio may still land.
Crash ==
  /\ up /\ crashes < MaxCrashes
  /\ up' = FALSE
  /\ rows' = NoRows
  /\ known' = {}
  /\ closing' = [k \in Identities |-> 0]
  /\ last' = Command(NoKey, "none")
  /\ confirmed' = FALSE /\ drained' = TRUE
  /\ \/ UNCHANGED actuator
     \/ /\ last.kind # "none"
        /\ actuator' = [actuator EXCEPT ![last.key] = (last.kind = "open")]
  /\ crashes' = crashes + 1
  /\ excused' = excused \cup (DOMAIN rows \ DOMAIN file)
  /\ failed' = FALSE /\ stale' = FALSE
  /\ tries' = [k \in Identities |-> 0]
  /\ alerts' = [k \in Identities |-> {}]
  /\ UNCHANGED <<file, dispatched>>

\* pending_close_init(): every recorded obligation is due at once, and there is
\* nothing to drain before the first due-check.
Boot ==
  /\ ~up
  /\ up' = TRUE
  /\ rows' = [k \in DOMAIN file |-> FreshRow(0, file[k])]
  /\ UNCHANGED <<file, known, closing, last, confirmed, drained, actuator, tries, alerts,
                 failed, stale, excused, dispatched, crashes>>

CloseNext ==
  \/ \E k \in Identities, duration \in Durations : DispatchOpen(k, duration)
  \/ \E k \in Identities : DispatchOther(k) \/ DispatchClose(k) \/ DropClose(k)
  \/ \E landed \in BOOLEAN, outcome \in {"failed", "unconfirmed", "confirmed"} :
       EndCommand(landed, outcome)
  \/ DrainResult
  \/ \E k \in Identities : ServiceRow(k)
  \/ \E k \in Identities : Discover(k) \/ Vanish(k)
  \/ Tick
  \/ Crash
  \/ Boot

CloseSpec == CloseInit /\ [][CloseNext]_closeVars

\* The decoder task keeps going round, draining and servicing due rows, and time
\* passes; nothing is assumed of the devices, the radio or the power supply.
CloseFairSpec == CloseSpec /\ WF_closeVars(Tick) /\ WF_closeVars(DrainResult) /\ \A k \in Identities : WF_closeVars(ServiceRow(k))

-----------------------------------------------------------------------------
(* Properties *)

TypeOK ==
  /\ up \in BOOLEAN
  /\ DOMAIN rows \subseteq Identities /\ rows \in [DOMAIN rows -> RowType]
  /\ Cardinality(DOMAIN rows) <= MaxPending
  /\ DOMAIN file \subseteq Identities /\ file \in [DOMAIN file -> 0 .. MaxRetries]
  /\ known \subseteq Identities /\ Cardinality(known) <= MaxKnown
  /\ closing \in [Identities -> 0 .. MaxInflight]
  /\ last \in [key: Identities \cup {NoKey}, kind: {"open", "close", "other", "none"}]
  /\ last.key = NoKey => last.kind = "none" /\ ~confirmed
  /\ confirmed \in BOOLEAN /\ drained \in BOOLEAN
  /\ actuator \in [Identities -> BOOLEAN]
  /\ tries \in [Identities -> Nat]
  /\ alerts \in [Identities -> SUBSET {"CLOSE_UNCONFIRMED", "DEVICE_UNREACHABLE"}]
  /\ failed \in BOOLEAN /\ stale \in BOOLEAN
  /\ excused \subseteq Identities
  /\ dispatched \in 0 .. MaxDispatched /\ crashes \in 0 .. MaxCrashes

\* The hub has opened it, or is about to.
Opened(k) == actuator[k] \/ last = Command(k, "open")

\* Whatever the radio, the device and the queue do, an open actuator has an
\* obligation in RAM while the hub is up: the arm precedes the radio write and
\* only a confirmed close removes it.  There are three ways to lose one, and
\* no other: no row was free when it was to be armed; a confirmed close was
\* drained under the next command's identity, against the comment at
\* ble_collector.c:797-808; power was lost before a write of the file that
\* held it succeeded.  Arming the device's next open repairs each of them.
OpenHasObligation ==
  up => \A k \in Identities : Opened(k) => k \in DOMAIN rows \/ k \in excused

\* Whenever the last write succeeded, every obligation is also on flash, the
\* ones earlier failures left out included, so that losing power at that
\* instant forgets no open actuator but those forgotten already.
OpenIsOnFlash ==
  ~failed => \A k \in Identities : Opened(k) => k \in DOMAIN file \/ k \in excused

\* The hub reports that a device refused to close only after it has really
\* spent every attempt on it since the last arm or boot: the reported
\* budget never comes from an earlier boot.
ExhaustedMeansTried ==
  \A k \in Identities : "CLOSE_UNCONFIRMED" \in alerts[k] => tries[k] = MaxRetries

\* Given up is per boot: no row is dropped from the file by giving up, and
\* the next boot starts over with the full budget.
GivenUpIsRetriedNextBoot ==
  [][~up /\ up' => \A k \in DOMAIN file :
       k \in DOMAIN rows' /\ rows'[k].left = 0 /\ rows'[k].retries = 0]_closeVars

\* An obligation is never silent for ever: it ends, or the hub reboots, or
\* the operator is told, even if the device comes and goes.
NeverSilent ==
  \A k \in Identities : up /\ k \in DOMAIN rows ~>
    ~up \/ k \notin DOMAIN rows \/ alerts[k] # {}

=============================================================================
