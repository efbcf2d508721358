----------------------------- MODULE RulesEngine -----------------------------
(***************************************************************************)
(* components/rules: the engine task's evaluation pass, interleaved with   *)
(* the HTTP task that edits rules, the producers of readings and presses   *)
(* (data_core.c) and the periodic timers.                                  *)
(*                                                                         *)
(* The pass holds no lock while it evaluates: it copies a slot, evaluates  *)
(* the copy, and writes back to the slot that has the copy's id by then.   *)
(* An edit is first made in RAM and then on flash, where the bytecode is   *)
(* read from at every evaluation.                                          *)
(*                                                                         *)
(* A rule's condition is one reading that is true or false, or a button    *)
(* that was pressed and whose press has not been consumed.                 *)
(***************************************************************************)
EXTENDS Integers, FiniteSets, FiniteSetsExt

CONSTANTS
  MaxRules,    \* RULES_MAX
  Settings,    \* what a user may save as a rule
  NoRule,      \* a free slot, no edit under way
  RingSize,    \* DATA_CORE_EVENT_RING
  MaxWrites,   \* bound: presses and changes of the reading
  MaxEdits,    \* bound: edits by the user
  Horizon      \* bound: the clock

\* rule_t
Rules ==
  [id: Nat, enabled: BOOLEAN, mode: {"edge", "level"}, cooldown: Nat, every: BOOLEAN,
   due: BOOLEAN, fsm: [armed: BOOLEAN, ever: BOOLEAN, last: Nat], count: Nat]

ASSUME RulesEngineAssumption ==
  /\ {MaxRules, RingSize} \subseteq Nat \ {0}
  /\ {MaxWrites, MaxEdits, Horizon} \subseteq Nat
  /\ Settings \subseteq [mode: {"edge", "level"}, code: {"value", "press"},
                         cooldown: Nat, every: BOOLEAN, enabled: BOOLEAN]
  /\ NoRule \notin Rules

VARIABLES
  slots,    \* g_rules: NoRule or a rule
  code,     \* the bytecode files, by rule id
  saving,   \* what the HTTP task still has to write: NoRule or an id and its code
  nextId,   \* g_rules_next_id
  reading,  \* the value the conditions read is on their true side
  presses,  \* s_event_seq
  pending,  \* sequence numbers in s_events_ring that are pending
  owing,    \* producers that wrote and have not notified yet
  bits,     \* s_events
  at,       \* the engine task: its step, slot, clock, peeked sequence number,
            \* copy and outcome
  now,      \* uptime in seconds
  writes, edits,  \* bounds
  past      \* history, by id: the last fire since the rule was last reset, a
            \* false evaluation or new bytecode since then, the presses it has still to be
            \* shown, those that fired it, and how often it fired

vars == <<slots, code, saving, nextId, reading, presses, pending, owing, bits,
          at, now, writes, edits, past>>

Slots == 1 .. MaxRules
Ids == 1 .. MaxEdits + 1
Unfired == -1

\* rules_fsm_reset()
FreshFsm == [armed |-> TRUE, ever |-> FALSE, last |-> 0]

NewRule(id, s) ==
  [id |-> id, enabled |-> s.enabled, mode |-> s.mode, cooldown |-> s.cooldown,
   every |-> s.every, due |-> FALSE, fsm |-> FreshFsm, count |-> 0]

NoPast == [fired |-> Unfired, rested |-> FALSE, owed |-> {}, answered |-> {}, total |-> 0]

Waiting == [step |-> "wait", slot |-> 0, due |-> FALSE, stamp |-> 0, seq |-> 0,
            copy |-> NoRule, outcome |-> "none", edited |-> FALSE]

Init ==
  /\ \E s \in Settings :
       /\ slots = [i \in Slots |-> IF i = 1 THEN NewRule(1, s) ELSE NoRule]
       /\ code = [i \in Ids |-> IF i = 1 THEN s.code ELSE "none"]
  /\ saving = NoRule /\ nextId = 2
  /\ reading \in BOOLEAN
  /\ presses = 0 /\ pending = {} /\ owing = 0 /\ bits = {}
  /\ at = Waiting
  /\ now = 1
  /\ writes = 0 /\ edits = 0
  /\ past = [i \in Ids |-> NoPast]

SlotOf(id) == {i \in Slots : slots[i] # NoRule /\ slots[i].id = id}

-----------------------------------------------------------------------------
(* Producers: data_core and the timers *)

\* A reading that moves across the conditions' threshold.
Submit ==
  /\ writes < MaxWrites
  /\ reading' = ~reading
  /\ owing' = owing + 1
  /\ writes' = writes + 1
  /\ UNCHANGED <<slots, code, saving, nextId, presses, pending, bits, at, now, edits, past>>

Watches(i) ==
  /\ slots[i] # NoRule /\ slots[i].enabled /\ code[slots[i].id] = "press"
  /\ saving = NoRule \/ saving.id # slots[i].id

\* The ring's oldest entry gives way.
Kept(seq) == {n \in pending : n + RingSize > seq}

\* data_core_submit_event()
Press ==
  LET seq  == presses + 1
      kept == Kept(seq)
  IN  /\ writes < MaxWrites
      /\ writes' = writes + 1
      /\ presses' = seq
      /\ pending' = kept \cup {seq}
      /\ owing' = owing + 1
      /\ past' = [id \in Ids |-> [past[id] EXCEPT !.owed =
                    (@ \cap kept) \cup {n \in {seq} : \E i \in SlotOf(id) : Watches(i)}]]
      /\ UNCHANGED <<slots, code, saving, nextId, reading, bits, at, now, edits>>

\* rules_notify_value_update(), which every producer calls after its write.
Notify ==
  /\ owing > 0
  /\ owing' = owing - 1
  /\ bits' = bits \cup {"VALUE"}
  /\ UNCHANGED <<slots, code, saving, nextId, reading, presses, pending, at, now,
                 writes, edits, past>>

\* periodic_timer_cb()
TimerTick(i) ==
  /\ slots[i] # NoRule /\ slots[i].every
  /\ slots' = [slots EXCEPT ![i].due = TRUE]
  /\ bits' = bits \cup {"PERIODIC"}
  /\ UNCHANGED <<code, saving, nextId, reading, presses, pending, owing, at, now,
                 writes, edits, past>>

Clock ==
  /\ now < Horizon
  /\ now' = now + 1
  /\ UNCHANGED <<slots, code, saving, nextId, reading, presses, pending, owing, bits,
                 at, writes, edits, past>>

-----------------------------------------------------------------------------
(* The HTTP task: one request at a time, RAM under the mutex and then flash *)

Editing ==
  /\ saving = NoRule /\ edits < MaxEdits
  /\ edits' = edits + 1
  /\ UNCHANGED <<reading, presses, pending, owing, bits, now, writes>>

\* History: what the rule did before a reset does not bind it any more, nor
\* does the evaluation of a copy from before it count for what follows.
ResetPast(id) ==
  /\ past' = [past EXCEPT ![id] = [NoPast EXCEPT !.total = past[id].total]]
  /\ at' = [at EXCEPT !.edited = @ \/ (at.copy # NoRule /\ at.copy.id = id)]

Create(i, s) ==
  /\ Editing
  /\ slots[i] = NoRule /\ \A j \in 1 .. i - 1 : slots[j] # NoRule
  /\ slots' = [slots EXCEPT ![i] = NewRule(nextId, s)]
  /\ saving' = [id |-> nextId, code |-> s.code]
  /\ nextId' = nextId + 1
  /\ UNCHANGED <<code, at, past>>

Update(i, s) ==
  /\ Editing
  /\ slots[i] # NoRule
  /\ slots' = [slots EXCEPT ![i] = [NewRule(@.id, s) EXCEPT !.count = slots[i].count]]
  /\ saving' = [id |-> slots[i].id, code |-> s.code]
  /\ ResetPast(slots[i].id)
  /\ UNCHANGED <<code, nextId>>

Delete(i) ==
  /\ Editing
  /\ slots[i] # NoRule
  /\ slots' = [slots EXCEPT ![i] = NoRule]
  /\ saving' = [id |-> slots[i].id, code |-> "none"]
  /\ ResetPast(slots[i].id)
  /\ UNCHANGED <<code, nextId>>

\* Only switching a rule on resets its state machine.
SetEnabled(i) ==
  /\ Editing
  /\ slots[i] # NoRule
  /\ IF slots[i].enabled
     THEN /\ slots' = [slots EXCEPT ![i].enabled = FALSE]
          /\ past' = [past EXCEPT ![slots[i].id].owed = {}]
          /\ UNCHANGED at
     ELSE /\ slots' = [slots EXCEPT ![i].enabled = TRUE, ![i].fsm = FreshFsm]
          /\ ResetPast(slots[i].id)
  /\ UNCHANGED <<code, saving, nextId>>

\* The files follow; a write may fail and leaves RAM as it is.
WriteFiles ==
  /\ saving # NoRule
  /\ \/ code' = [code EXCEPT ![saving.id] = saving.code]
     \/ saving.code # "none" /\ UNCHANGED code
  /\ saving' = NoRule
  /\ past' = [past EXCEPT ![saving.id].rested = TRUE]
  /\ UNCHANGED <<slots, nextId, reading, presses, pending, owing, bits, at, now,
                 writes, edits>>

-----------------------------------------------------------------------------
(* The engine task *)

EngineOnly == UNCHANGED <<code, saving, nextId, reading, presses, owing, now, writes, edits>>

\* xEventGroupWaitBits() takes and clears every bit.
Wake ==
  /\ at.step = "wait" /\ bits # {}
  /\ bits' = {}
  /\ at' = IF "VALUE" \in bits THEN [at EXCEPT !.step = "debounce"]
           ELSE [at EXCEPT !.step = "begin", !.due = TRUE]
  /\ EngineOnly /\ UNCHANGED <<slots, pending, past>>

Debounced ==
  /\ at.step = "debounce"
  /\ bits' = bits \ {"VALUE"}
  /\ at' = [at EXCEPT !.step = "begin", !.due = FALSE]
  /\ EngineOnly /\ UNCHANGED <<slots, pending, past>>

\* Mutant of Peek: a periodic pass consumes too.
PeekAny == IF pending = {} THEN 0 ELSE Max(pending)

\* The presses a pass consumes at its end: a periodic pass none.
Peek == IF at.due \/ pending = {} THEN 0 ELSE Max(pending)

BeginPass ==
  /\ at.step = "begin"
  /\ at' = [at EXCEPT !.step = "slot", !.slot = 1, !.stamp = now, !.seq = Peek]
  /\ EngineOnly /\ UNCHANGED <<slots, bits, pending, past>>

Candidate(r) == r # NoRule /\ r.enabled /\ (at.due => r.due)

TakeCopy ==
  /\ at.step = "slot" /\ at.slot \in Slots
  /\ LET r == slots[at.slot]
     IN  IF Candidate(r)
         THEN /\ slots' = [slots EXCEPT ![at.slot].due = FALSE]
              /\ at' = [at EXCEPT !.step = "evaluate", !.copy = r, !.edited = FALSE]
         ELSE /\ at' = [at EXCEPT !.slot = @ + 1]
              /\ UNCHANGED slots
  /\ EngineOnly /\ UNCHANGED <<bits, pending, past>>

CoolingDown(fsm, rule) ==
  /\ rule.cooldown > 0 /\ fsm.last # 0
  /\ at.stamp - fsm.last < rule.cooldown

\* Mutants of ShouldFire: a press fires whatever the cooldown; the latch of
\* an edge rule is not asked.
ShouldFireEagerly(fsm, rule, cond, event) ==
  /\ cond
  /\ event \/ ~CoolingDown(fsm, rule)
  /\ rule.mode = "edge" /\ ~event => fsm.armed

ShouldFireAgain(fsm, rule, cond, event) == cond /\ ~CoolingDown(fsm, rule)

\* rules_fsm_should_fire(): an edge rule on a reading fires on the change to
\* true, or when first looked at; the latch is not asked for a press.
ShouldFire(fsm, rule, cond, event) ==
  /\ cond
  /\ IF rule.mode = "edge" /\ ~event
     THEN ~fsm.ever \/ (fsm.armed /\ ~CoolingDown(fsm, rule))
     ELSE ~CoolingDown(fsm, rule)

AfterEvaluation(fsm, rule, cond, event) ==
  LET fires == ShouldFire(fsm, rule, cond, event)
      latch == rule.mode = "edge" /\ ~event
  IN  [armed |-> IF ~latch THEN fsm.armed ELSE ~cond \/ (fsm.armed /\ ~fires),
       ever  |-> TRUE,
       last  |-> IF fires THEN at.stamp ELSE fsm.last]

\* evaluate_real(): the bytecode is read now, a press rule is ready only
\* while a press is pending, and the actions run before the write-back.
Evaluate ==
  /\ at.step = "evaluate"
  /\ LET rule  == at.copy
         id    == rule.id
         event == code[id] = "press"
         ready == code[id] = "value" \/ (event /\ pending # {})
         cond  == event \/ reading
         fires == ready /\ ShouldFire(rule.fsm, rule, cond, event)
         shown == [past[id] EXCEPT !.owed = IF event THEN @ \ pending ELSE @,
                                   !.total = IF fires THEN @ + 1 ELSE @]
     IN  /\ at' = [at EXCEPT !.step = "back",
                     !.outcome = IF fires THEN "fired" ELSE IF ready THEN "quiet" ELSE "unready",
                     !.copy.fsm = IF ready THEN AfterEvaluation(rule.fsm, rule, cond, event)
                                  ELSE @]
         /\ past' = [past EXCEPT ![id] =
              IF at.edited \/ ~ready THEN shown
              ELSE [shown EXCEPT
                      !.fired = IF fires THEN at.stamp ELSE @,
                      !.rested = ~fires /\ (@ \/ ~cond),
                      !.answered = IF fires /\ event THEN @ \cup pending ELSE @]]
  /\ EngineOnly /\ UNCHANGED <<slots, bits, pending>>

\* Mutant of Target: back to the slot the copy came from.
TargetSlot == {i \in {at.slot} : slots[i] # NoRule}

\* The slot is found again by id.
Target == SlotOf(at.copy.id)

WriteBack ==
  /\ at.step = "back"
  /\ slots' = [i \in Slots |->
       IF i \in Target /\ at.outcome # "unready"
       THEN [slots[i] EXCEPT !.fsm = at.copy.fsm,
                             !.count = IF at.outcome = "fired" THEN @ + 1 ELSE @]
       ELSE slots[i]]
  /\ at' = [at EXCEPT !.step = "slot", !.slot = @ + 1, !.copy = NoRule, !.outcome = "none"]
  /\ EngineOnly /\ UNCHANGED <<bits, pending, past>>

\* Mutant of EndPass: the bit is cleared after the pass as well.
EndPassClearing ==
  /\ at.step = "slot" /\ at.slot \notin Slots
  /\ pending' = {n \in pending : n > at.seq}
  /\ at' = Waiting
  /\ bits' = bits \ {"VALUE"}
  /\ EngineOnly /\ UNCHANGED <<slots, past>>

\* data_core_events_consume_through() with the number peeked at the start.
EndPass ==
  /\ at.step = "slot" /\ at.slot \notin Slots
  /\ pending' = {n \in pending : n > at.seq}
  /\ at' = Waiting
  /\ EngineOnly /\ UNCHANGED <<slots, bits, past>>

Next ==
  \/ Submit \/ Press \/ Notify \/ Clock
  \/ \E i \in Slots : TimerTick(i) \/ Delete(i) \/ SetEnabled(i)
  \/ \E i \in Slots, s \in Settings : Create(i, s) \/ Update(i, s)
  \/ WriteFiles
  \/ Wake \/ Debounced \/ BeginPass \/ TakeCopy \/ Evaluate \/ WriteBack \/ EndPass

Spec == Init /\ [][Next]_vars

-----------------------------------------------------------------------------
(* Properties *)

Fires(id) == past'[id].total > past[id].total

\* Ids are never shared, the ring is never over its size, and no rule
\* remembers a fire that is still to come.
TypeOK ==
  /\ \A i \in Slots : slots[i] # NoRule =>
       /\ slots[i].id \in 1 .. nextId - 1
       /\ slots[i].fsm \in [armed: BOOLEAN, ever: BOOLEAN, last: 0 .. now]
       /\ \A j \in Slots \ {i} : slots[j] = NoRule \/ slots[j].id # slots[i].id
  /\ code \in [Ids -> {"none", "value", "press"}]
  /\ pending \subseteq 1 .. presses /\ Cardinality(pending) <= RingSize
  /\ bits \subseteq {"VALUE", "PERIODIC"}
  /\ at.step \in {"wait", "debounce", "begin", "slot", "evaluate", "back"}
  /\ at.slot \in 0 .. MaxRules + 1

\* Two fires of a rule that was not edited or switched on in between are a
\* cooldown apart, whatever woke the passes and whatever the bytecode reads.
CooldownSpacing ==
  [][\A id \in Ids : Fires(id) /\ ~at.edited /\ past[id].fired # Unfired =>
       at.stamp - past[id].fired >= at.copy.cooldown]_vars

\* An edge rule on a reading fires once per rise: between two fires it has
\* been evaluated while false.  A pass woken twice, a timer and an edit of
\* another rule in the same slot do not repeat it.
EdgeNeedsFall ==
  [][\A id \in Ids :
       /\ Fires(id) /\ ~at.edited /\ past[id].fired # Unfired
       /\ at.copy.mode = "edge" /\ code[id] = "value"
       => past[id].rested]_vars

\* Fires are counted for the rule that fired, although slots are reused
\* while a copy is evaluated: the write-back is attributed by id.
CountsOwnFires ==
  \A i \in Slots : slots[i] # NoRule =>
    LET id   == slots[i].id
        late == at.step = "back" /\ at.copy.id = id /\ at.outcome = "fired"
    IN  slots[i].count + (IF late THEN 1 ELSE 0) = past[id].total

\* No press is consumed before every rule that watched the button when it
\* was pressed, and was left alone since, has been shown it.
PressNotSwallowed == \A id \in Ids : past[id].owed \subseteq pending

\* No wake-up is lost: while a press is pending, somebody is still to notify
\* the engine, the engine has been told, or a pass is under way that began
\* late enough to consume it.
NoLostWakeup ==
  pending # {} =>
    \/ owing > 0 \/ "VALUE" \in bits
    \/ at.step = "debounce" \/ (at.step = "begin" /\ ~at.due)
    \/ at.step # "wait" /\ ~at.due /\ Max(pending) <= at.seq

\* rules_fsm.h:20-22 says that an edge rule on a button "fires once per
\* pending press": a fire needs a press that has not fired the rule yet.
PressFiresOnce ==
  [][\A id \in Ids :
       Fires(id) /\ ~at.edited /\ at.copy.mode = "edge" /\ code[id] = "press"
       => ~(pending \subseteq past[id].answered)]_vars

=============================================================================
