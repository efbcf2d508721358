--------------------------- MODULE RulesEngineProofs ---------------------------
(***************************************************************************)
(* Proofs about RulesEngine, for every value of its constants.             *)
(***************************************************************************)
EXTENDS RulesEngine, FiniteSetTheorems, TLAPS

-----------------------------------------------------------------------------
(* The ring's greatest sequence number *)

\* A set of sequence numbers that is not empty has a maximum.
LEMMA MaxExists ==
  ASSUME NEW n \in Nat, NEW S \in SUBSET (1 .. n), S # {}
  PROVE  Max(S) \in S /\ \A y \in S : y <= Max(S)
<1> DEFINE T == {n - x : x \in S}
<1>1. T \subseteq Nat /\ T # {}
  <2>1. \A x \in S : n - x \in Nat
    OBVIOUS
  <2>2. PICK x \in S : TRUE
    OBVIOUS
  <2>3. n - x \in T
    BY <2>2, Zenon
  <2>4. QED
    BY <2>1, <2>3
<1>2. \E x \in T : \A y \in T : ~ (<<y, x>> \in OpToRel(<,Nat))
  BY <1>1, WFMin, NatLessThanWellFounded, Zenon
<1>3. \A x, y \in Nat : y < x => <<y, x>> \in OpToRel(<,Nat)
  BY DEF OpToRel
<1>4. PICK t \in T : \A y \in T : ~(y < t)
  BY <1>1, <1>2, <1>3
<1>5. PICK x \in S : t = n - x
  BY <1>4
<1>6. \A y \in S : x >= y
  BY <1>4, <1>5
<1>7. QED
  BY <1>5, <1>6 DEF Max

-----------------------------------------------------------------------------
(* Types and identities *)

\* The sequence numbers the ring can hold.
InRing == pending \subseteq {n \in 1 .. presses : n + RingSize > presses}

SlotsType == slots \in [Slots -> Rules \cup {NoRule}]

EngineType ==
  at \in [step: {"wait", "debounce", "begin", "slot", "evaluate", "back"},
          slot: 0 .. MaxRules + 1, due: BOOLEAN, stamp: 0 .. now, seq: 0 .. presses,
          copy: Rules \cup {NoRule}, outcome: {"none", "fired", "quiet", "unready"},
          edited: BOOLEAN]

PastType ==
  past \in [Ids -> [fired: Nat \cup {Unfired}, rested: BOOLEAN, owed: SUBSET Nat,
                    answered: SUBSET Nat, total: Nat]]

\* The types of the other variables.  Ids are drawn in order, one per edit.
OthersType ==
  /\ code \in [Ids -> {"none", "value", "press"}]
  /\ saving = NoRule \/ saving \in [id: Ids, code: {"none", "value", "press"}]
  /\ edits \in 0 .. MaxEdits
  /\ nextId \in 2 .. edits + 2
  /\ presses \in Nat /\ InRing /\ owing \in Nat
  /\ bits \subseteq {"VALUE", "PERIODIC"}
  /\ now \in Nat \ {0}

Typed == SlotsType /\ EngineType /\ PastType /\ OthersType

Evaluating == at.step \in {"evaluate", "back"}

\* Ids identify: no two slots share one, and none was used that is not drawn.
Identified ==
  /\ \A i \in Slots : slots[i] # NoRule => slots[i].id \in 1 .. nextId - 1
  /\ \A i, j \in Slots :
       slots[i] # NoRule /\ slots[j] # NoRule /\ slots[i].id = slots[j].id => i = j
  /\ Evaluating => at.copy # NoRule /\ at.copy.id \in 1 .. nextId - 1 /\ at.slot \in Slots
  /\ ~Evaluating => at.copy = NoRule

Sound == Typed /\ Identified

USE RulesEngineAssumption DEF RulesEngineAssumption

\* A new rule, and a rule as an edit leaves it, are rules.
LEMMA NewRuleType ==
  ASSUME NEW id \in Nat, NEW s \in Settings
  PROVE  NewRule(id, s) \in Rules /\ NewRule(id, s).id = id
BY DEF NewRule, Rules, FreshFsm

\* An edit and an evaluation are different steps: one counts an edit.
LEMMA EditsAlone ==
  ASSUME Typed, Editing
  PROVE  ~Evaluate
<1>1. edits' = edits + 1
  BY DEF Editing
<1>2. Evaluate => edits' = edits
  BY DEF Evaluate, EngineOnly
<1>3. edits \in Int
  BY DEF Typed, OthersType
<1>4. QED
  BY <1>1, <1>2, <1>3

\* The state machine keeps its type.
LEMMA FsmType ==
  ASSUME Typed, NEW rule \in Rules, NEW cond \in BOOLEAN, NEW event \in BOOLEAN
  PROVE  AfterEvaluation(rule.fsm, rule, cond, event) \in [armed: BOOLEAN, ever: BOOLEAN, last: Nat]
<1>1. ShouldFire(rule.fsm, rule, cond, event) \in BOOLEAN
  BY DEF ShouldFire, CoolingDown
<1>2. at.stamp \in Nat
  BY DEF Typed, EngineType, OthersType
<1>3. QED
  BY <1>1, <1>2 DEF AfterEvaluation, Rules

\* A reset of the history keeps the types, and the engine's copy.
LEMMA ResetType ==
  ASSUME Typed, NEW id \in Ids, ResetPast(id), now' = now, presses' = presses
  PROVE  /\ PastType' /\ EngineType'
         /\ at'.step = at.step /\ at'.slot = at.slot /\ at'.copy = at.copy
<1>1. PastType'
  BY DEF Typed, PastType, ResetPast, NoPast, Unfired
<1> DEFINE e == at.edited \/ (at.copy # NoRule /\ at.copy.id = id)
<1>2. at' = [at EXCEPT !.edited = e]
  BY Zenon DEF ResetPast
<1>3. e \in BOOLEAN
  BY Zenon DEF Typed, EngineType
<1> HIDE DEF e
<1>4. QED
  BY <1>1, <1>2, <1>3 DEF Typed, EngineType

\* The store is sound when it is loaded.
LEMMA InitSound == Init => Sound
<1> SUFFICES ASSUME Init PROVE Sound
  OBVIOUS
<1>1. PICK s \in Settings :
        /\ slots = [i \in Slots |-> IF i = 1 THEN NewRule(1, s) ELSE NoRule]
        /\ code = [i \in Ids |-> IF i = 1 THEN s.code ELSE "none"]
  BY DEF Init
<1>2. NewRule(1, s) \in Rules /\ NewRule(1, s).id = 1
  BY NewRuleType
<1>3. SlotsType
  BY <1>1, <1>2 DEF SlotsType
<1>4. EngineType /\ PastType
  BY DEF EngineType, PastType, Init, Waiting, NoPast, Unfired
<1>5. OthersType
  BY <1>1 DEF OthersType, Init, InRing
<1>6. Identified
  BY <1>1, <1>2 DEF Identified, Evaluating, Init, Waiting, Slots
<1>7. QED
  BY <1>3, <1>4, <1>5, <1>6 DEF Sound, Typed

\* What an edit of slot i leaves of the other slots.
Placed(i, r) == slots' = [slots EXCEPT ![i] = r]

\* A slot may be given to a rule of its own id or of a new one.
LEMMA PlacedSound ==
  ASSUME Sound, NEW i \in Slots, NEW r \in Rules, Placed(i, r),
         \/ slots[i] # NoRule /\ r.id = slots[i].id /\ nextId' = nextId
         \/ r.id = nextId /\ nextId' = nextId + 1,
         at'.step = at.step /\ at'.slot = at.slot /\ at'.copy = at.copy
  PROVE  SlotsType' /\ Identified'
<1> USE DEF Sound, Typed, SlotsType, OthersType, Placed
<1>1. SlotsType'
  OBVIOUS
<1>2. Identified'
  BY DEF Identified, Evaluating
<1>3. QED
  BY <1>1, <1>2

\* The edits.
LEMMA EditSound ==
  ASSUME Sound, NEW i \in Slots, NEW s,
         (s \in Settings /\ (Create(i, s) \/ Update(i, s))) \/ Delete(i) \/ SetEnabled(i)
  PROVE  Sound'
<1> USE DEF Sound, Editing
<1>1. slots[i] # NoRule => slots[i] \in Rules /\ slots[i].id \in Ids /\ slots[i].id \in Nat
  BY SMTT(30) DEF Typed, SlotsType, OthersType, Identified, Ids, Rules
<1>2. ASSUME Update(i, s) \/ Delete(i) \/ SetEnabled(i)
      PROVE  OthersType' /\ now' = now /\ presses' = presses /\ nextId' = nextId /\ slots[i] # NoRule
  BY <1>1, <1>2 DEF Update, Delete, SetEnabled, Typed, OthersType, InRing
<1>3. CASE s \in Settings /\ Create(i, s)
  <2>1. nextId \in Ids /\ nextId \in Nat
    BY <1>3 DEF Create, Typed, OthersType, Ids
  <2>2. NewRule(nextId, s) \in Rules /\ NewRule(nextId, s).id = nextId
    BY <1>3, <2>1, NewRuleType
  <2>3. SlotsType' /\ Identified'
    BY <1>3, <2>2, PlacedSound DEF Create, Placed
  <2>4. EngineType' /\ PastType'
    BY <1>3 DEF Create, Typed, EngineType, PastType
  <2>5. OthersType'
    BY <1>3, <2>1 DEF Create, Typed, OthersType, InRing
  <2>6. QED
    BY <2>3, <2>4, <2>5 DEF Typed
<1>4. CASE s \in Settings /\ Update(i, s)
  <2> DEFINE r == [NewRule(slots[i].id, s) EXCEPT !.count = slots[i].count]
  <2>1. r \in Rules /\ r.id = slots[i].id
    <3> DEFINE new == NewRule(slots[i].id, s)
    <3>1. new \in Rules /\ new.id = slots[i].id
      BY <1>1, <1>2, <1>4, NewRuleType
    <3>2. slots[i].count \in Nat
      BY <1>1, <1>2, <1>4 DEF Rules
    <3> HIDE DEF new
    <3>3. [new EXCEPT !.count = slots[i].count] \in Rules
          /\ [new EXCEPT !.count = slots[i].count].id = new.id
      BY <3>1, <3>2 DEF Rules
    <3>4. QED
      BY <3>1, <3>3 DEF new
  <2>2. PastType' /\ EngineType' /\ at'.step = at.step /\ at'.slot = at.slot /\ at'.copy = at.copy
    BY <1>1, <1>2, <1>4, ResetType DEF Update
  <2>3. Placed(i, r)
    BY <1>4 DEF Update, Placed
  <2>4. SlotsType' /\ Identified'
    BY <1>2, <1>4, <2>1, <2>2, <2>3, PlacedSound
  <2>5. QED
    BY <1>2, <1>4, <2>2, <2>4 DEF Typed
<1>5. CASE Delete(i)
  <2>1. PastType' /\ EngineType' /\ at'.step = at.step /\ at'.slot = at.slot /\ at'.copy = at.copy
    BY <1>1, <1>2, <1>5, ResetType DEF Delete
  <2>2. SlotsType'
    BY <1>5 DEF Delete, Typed, SlotsType
  <2>3. Identified'
    BY <1>2, <1>5, <2>1 DEF Delete, Identified, Evaluating, Typed, SlotsType
  <2>4. QED
    BY <1>2, <1>5, <2>1, <2>2, <2>3 DEF Typed
<1>6. CASE SetEnabled(i)
  <2>1. CASE slots[i].enabled
    <3>1. [slots[i] EXCEPT !.enabled = FALSE] \in Rules
          /\ [slots[i] EXCEPT !.enabled = FALSE].id = slots[i].id
      BY <1>1, <1>2, <1>6 DEF Rules
    <3>2. Placed(i, [slots[i] EXCEPT !.enabled = FALSE]) /\ at' = at
      BY <1>6, <2>1 DEF SetEnabled, Placed, Typed, SlotsType
    <3>3. SlotsType' /\ Identified'
      BY <1>2, <1>6, <3>1, <3>2, PlacedSound
    <3>4. EngineType' /\ PastType'
      <4>1. past' = [past EXCEPT ![slots[i].id].owed = {}]
            /\ UNCHANGED <<at, now, presses>>
        BY <1>6, <2>1, <3>2 DEF SetEnabled, Editing
      <4>2. EngineType /\ PastType
        BY DEF Typed
      <4>3. EngineType'
        BY <4>1, <4>2 DEF EngineType
      <4> DEFINE Told == [fired: Nat \cup {Unfired}, rested: BOOLEAN,
                          owed: SUBSET Nat, answered: SUBSET Nat, total: Nat]
      <4>4. past \in [Ids -> Told]
        BY <4>2 DEF PastType
      <4>5. \A id \in Ids : [past[id] EXCEPT !.owed = {}] \in Told
        BY <4>4
      <4> HIDE DEF Told
      <4>6. past' \in [Ids -> Told]
        BY <4>1, <4>4, <4>5
      <4>7. QED
        BY <4>3, <4>6 DEF PastType, Told
    <3>5. QED
      BY <1>2, <1>6, <3>3, <3>4 DEF Typed
  <2>2. CASE ~slots[i].enabled
    <3> DEFINE r == [slots[i] EXCEPT !.enabled = TRUE, !.fsm = FreshFsm]
    <3>1. r \in Rules /\ r.id = slots[i].id
      BY <1>1, <1>2, <1>6 DEF Rules, FreshFsm
    <3>2. PastType' /\ EngineType' /\ at'.step = at.step /\ at'.slot = at.slot /\ at'.copy = at.copy
      BY <1>1, <1>2, <1>6, <2>2, ResetType DEF SetEnabled
    <3>3. Placed(i, r)
      BY <1>6, <2>2 DEF SetEnabled, Placed, Typed, SlotsType
    <3>4. SlotsType' /\ Identified'
      BY <1>2, <1>6, <3>1, <3>2, <3>3, PlacedSound
    <3>5. QED
      BY <1>2, <1>6, <3>2, <3>4 DEF Typed
  <2>3. QED
    BY <2>1, <2>2
<1>7. QED
  BY <1>3, <1>4, <1>5, <1>6

\* The producers, the timers and the clock.
LEMMA OutsideSound ==
  ASSUME Sound, Submit \/ Press \/ Notify \/ Clock \/ WriteFiles \/ \E i \in Slots : TimerTick(i)
  PROVE  Sound'
<1> USE DEF Sound, Typed
<1>1. CASE Submit \/ Notify
  <2>3. UNCHANGED <<slots, code, saving, nextId, presses, pending, at, now, edits, past>>
    BY <1>1 DEF Submit, Notify
  <2>4. bits' \subseteq {"VALUE", "PERIODIC"}
    BY <1>1 DEF Submit, Notify, OthersType
  <2>5. owing' \in Nat
    BY <1>1 DEF Submit, Notify, OthersType
  <2>1. EngineType' /\ PastType' /\ SlotsType' /\ OthersType'
    BY <2>3, <2>4, <2>5 DEF EngineType, PastType, SlotsType, OthersType, InRing
  <2>2. Identified'
    BY <2>3 DEF Identified, Evaluating
  <2>6. QED
    BY <2>1, <2>2
<1>2. CASE Press
  <2>1. SlotsType' /\ Identified'
    BY <1>2 DEF Press, SlotsType, Identified, Evaluating
  <2>2. presses' = presses + 1 /\ presses \in Nat /\ pending' = Kept(presses + 1) \cup {presses + 1}
    BY <1>2 DEF Press, OthersType
  <2>3. OthersType'
    BY <1>2, <2>2 DEF Press, OthersType, InRing, Kept
  <2>4. EngineType'
    BY <1>2, <2>2 DEF Press, EngineType
  <2>5. pending \in SUBSET Nat /\ Kept(presses + 1) \subseteq pending
    BY <2>2 DEF OthersType, InRing, Kept
  <2>6. PastType'
    <3> DEFINE owed(id) == (past[id].owed \cap Kept(presses + 1))
                            \cup {n \in {presses + 1} : \E i \in SlotOf(id) : Watches(i)}
    <3>1. past' = [id \in Ids |-> [past[id] EXCEPT !.owed = owed(id)]]
      BY <1>2 DEF Press
    <3>2. \A id \in Ids : owed(id) \in SUBSET Nat
      BY <2>2 DEF PastType
    <3> HIDE DEF owed
    <3>3. QED
      BY <3>1, <3>2 DEF PastType
  <2>7. QED
    BY <2>1, <2>3, <2>4, <2>6
<1>3. CASE Clock
  <2>1. EngineType' /\ PastType' /\ SlotsType' /\ OthersType'
    BY <1>3 DEF Clock, EngineType, PastType, SlotsType, OthersType, InRing
  <2>2. Identified'
    BY <1>3 DEF Clock, Identified, Evaluating
  <2>3. QED
    BY <2>1, <2>2
<1>4. CASE WriteFiles
  <2>1. saving \in [id: Ids, code: {"none", "value", "press"}]
    BY <1>4 DEF WriteFiles, OthersType
  <2>2. EngineType' /\ SlotsType'
    BY <1>4 DEF WriteFiles, EngineType, SlotsType
  <2>6. PastType'
    <3>1. saving.id \in Ids /\ past' = [past EXCEPT ![saving.id].rested = TRUE]
      BY <1>4, <2>1 DEF WriteFiles
    <3>2. QED
      <4> DEFINE Told == [fired: Nat \cup {Unfired}, rested: BOOLEAN,
                          owed: SUBSET Nat, answered: SUBSET Nat, total: Nat]
      <4>1. past \in [Ids -> Told]
        BY DEF PastType
      <4> HIDE DEF Sound, Typed
      <4>2. [past[saving.id] EXCEPT !.rested = TRUE] \in Told
        <5>1. past[saving.id] \in Told
          BY <3>1, <4>1, Zenon
        <5>2. QED
          BY <5>1
      <4> HIDE DEF Told
      <4>3. past' \in [Ids -> Told]
        BY <3>1, <4>1, <4>2
      <4>4. QED
        BY <4>3 DEF PastType, Told
  <2>3. OthersType'
    BY <1>4, <2>1 DEF WriteFiles, OthersType, InRing
  <2>4. Identified'
    BY <1>4 DEF WriteFiles, Identified, Evaluating
  <2>5. QED
    BY <2>2, <2>3, <2>4, <2>6
<1>5. ASSUME NEW i \in Slots, TimerTick(i)
      PROVE  Sound'
  <2> DEFINE r == [slots[i] EXCEPT !.due = TRUE]
  <2>1. slots[i] \in Rules
    BY <1>5 DEF TimerTick, SlotsType
  <2>5. r \in Rules /\ r.id = slots[i].id
    BY <2>1 DEF Rules
  <2>2. Placed(i, r)
    BY <1>5 DEF TimerTick, Placed, SlotsType
  <2>3. SlotsType' /\ Identified'
    BY <1>5, <2>5, <2>2, PlacedSound DEF TimerTick
  <2>4. EngineType' /\ PastType' /\ OthersType'
    BY <1>5 DEF TimerTick, EngineType, PastType, OthersType, InRing
  <2>6. QED
    BY <2>3, <2>4
<1>6. QED
  BY <1>1, <1>2, <1>3, <1>4, <1>5

\* A write-back leaves a rule its settings.
LEMMA WriteBackRule ==
  ASSUME Sound, WriteBack, NEW i \in Slots, slots[i] # NoRule
  PROVE  slots'[i] \in Rules /\ slots'[i].id = slots[i].id /\ slots'[i].enabled = slots[i].enabled
<1>1. slots[i] \in Rules /\ slots[i].count \in Nat
  BY DEF Sound, Typed, SlotsType, Rules
<1>2. at.copy.fsm \in [armed: BOOLEAN, ever: BOOLEAN, last: Nat]
  BY DEF WriteBack, Sound, Typed, EngineType, Identified, Evaluating, Rules
<1>3. \/ slots'[i] = slots[i]
      \/ slots'[i] = [slots[i] EXCEPT !.fsm = at.copy.fsm, !.count = slots[i].count + 1]
      \/ slots'[i] = [slots[i] EXCEPT !.fsm = at.copy.fsm, !.count = slots[i].count]
  BY DEF WriteBack
<1>4. \A c \in Nat :
        LET r == [slots[i] EXCEPT !.fsm = at.copy.fsm, !.count = c]
        IN  r \in Rules /\ r.id = slots[i].id /\ r.enabled = slots[i].enabled
  BY <1>1, <1>2 DEF Rules
<1>5. slots[i].count + 1 \in Nat
  BY <1>1
<1>6. QED
  BY <1>1, <1>3, <1>4, <1>5

\* The engine task.
LEMMA EngineSound ==
  ASSUME Sound,
         Wake \/ Debounced \/ BeginPass \/ TakeCopy \/ Evaluate \/ WriteBack \/ EndPass
  PROVE  Sound'
<1> USE DEF Sound, Typed, EngineOnly
<1>1. CASE Wake \/ Debounced
  <2>1. PICK step \in {"debounce", "begin"}, due \in BOOLEAN :
          at' = [at EXCEPT !.step = step] \/ at' = [at EXCEPT !.step = step, !.due = due]
    BY <1>1 DEF Wake, Debounced
  <2>2. EngineType'
    <3>1. now' = now /\ presses' = presses
      BY <1>1 DEF Wake, Debounced
    <3> HIDE DEF Sound, Typed
    <3>2. EngineType
      BY DEF Sound, Typed
    <3>3. CASE at' = [at EXCEPT !.step = step]
      BY <3>1, <3>2, <3>3 DEF EngineType
    <3>4. CASE at' = [at EXCEPT !.step = step, !.due = due]
      BY <3>1, <3>2, <3>4 DEF EngineType
    <3>5. QED
      BY <2>1, <3>3, <3>4
  <2>3. PastType' /\ SlotsType' /\ OthersType'
    BY <1>1 DEF Wake, Debounced, PastType, SlotsType, OthersType, InRing
  <2>4. Identified'
    <3>1. UNCHANGED <<slots, nextId>> /\ at'.step = step /\ at'.copy = at.copy /\ ~Evaluating
      BY <1>1, <2>1 DEF Wake, Debounced, EngineType, Evaluating
    <3>2. QED
      BY <3>1 DEF Identified, Evaluating
  <2>5. QED
    BY <2>2, <2>3, <2>4
<1>2. CASE BeginPass
  <2>1. Peek \in 0 .. presses
    <3>1. pending \in SUBSET (1 .. presses) /\ presses \in Nat
      BY DEF OthersType, InRing
    <3>2. CASE pending # {}
      <4>1. Max(pending) \in 1 .. presses
        BY <3>1, <3>2, MaxExists
      <4>2. QED
        BY <3>1, <4>1 DEF Peek
    <3>3. QED
      BY <3>1, <3>2 DEF Peek
  <2>2. EngineType'
    <3>1. now \in 0 .. now /\ 1 \in 0 .. MaxRules + 1
      BY DEF OthersType
    <3>2. /\ at' = [at EXCEPT !.step = "slot", !.slot = 1, !.stamp = now, !.seq = Peek]
          /\ now' = now /\ presses' = presses
      BY <1>2 DEF BeginPass
    <3> HIDE DEF Sound, Typed
    <3>3. EngineType
      BY DEF Sound, Typed
    <3>4. QED
      BY <2>1, <3>1, <3>2, <3>3 DEF EngineType
  <2>3. PastType' /\ SlotsType' /\ OthersType'
    BY <1>2 DEF BeginPass, PastType, SlotsType, OthersType, InRing
  <2>4. Identified'
    BY <1>2 DEF BeginPass, Identified, Evaluating, EngineType
  <2>5. QED
    BY <2>2, <2>3, <2>4
<1>3. CASE TakeCopy
  <2>1. PastType' /\ OthersType'
    BY <1>3 DEF TakeCopy, PastType, OthersType, InRing
  <2>2. CASE Candidate(slots[at.slot])
    <3> DEFINE r == [slots[at.slot] EXCEPT !.due = FALSE]
    <3>1. slots[at.slot] \in Rules /\ slots[at.slot] # NoRule /\ at.slot \in Slots
      BY <1>3, <2>2 DEF TakeCopy, Candidate, SlotsType
    <3>2. r \in Rules /\ r.id = slots[at.slot].id
      BY <3>1 DEF Rules
    <3>3. Placed(at.slot, r)
      BY <1>3, <2>2, <3>1 DEF TakeCopy, Placed, SlotsType
    <3>4. at' = [at EXCEPT !.step = "evaluate", !.copy = slots[at.slot], !.edited = FALSE]
      BY <1>3, <2>2 DEF TakeCopy
    <3>5. EngineType'
      BY <1>3, <3>1, <3>4 DEF TakeCopy, EngineType
    <3>6. SlotsType' /\ Identified'
      BY <1>3, <3>1, <3>2, <3>3, <3>4 DEF TakeCopy, Placed, SlotsType, Identified, Evaluating, EngineType
    <3>7. QED
      BY <2>1, <3>5, <3>6
  <2>3. CASE ~Candidate(slots[at.slot])
    <3>1. EngineType' /\ SlotsType'
      BY <1>3, <2>3, SMTT(30) DEF TakeCopy, EngineType, SlotsType, Slots
    <3>2. Identified'
      BY <1>3, <2>3 DEF TakeCopy, Identified, Evaluating, EngineType
    <3>3. QED
      BY <2>1, <3>1, <3>2
  <2>4. QED
    BY <2>2, <2>3
<1>4. CASE Evaluate
  <2> DEFINE rule  == at.copy
             id    == rule.id
             event == code[id] = "press"
             ready == code[id] = "value" \/ (event /\ pending # {})
             cond  == event \/ reading
             fires == ready /\ ShouldFire(rule.fsm, rule, cond, event)
             fsm   == IF ready THEN AfterEvaluation(rule.fsm, rule, cond, event) ELSE rule.fsm
  <2>1. rule \in Rules /\ id \in Ids
    <3>1. at.step = "evaluate"
      BY <1>4 DEF Evaluate
    <3>2. nextId \in Nat /\ nextId - 1 <= MaxEdits + 1
      BY DEF OthersType
    <3>3. at.copy \in Rules /\ at.copy.id \in 1 .. nextId - 1
      BY <3>1 DEF EngineType, Identified, Evaluating
    <3>4. QED
      BY <3>2, <3>3 DEF Ids
  <2>2. fsm \in [armed: BOOLEAN, ever: BOOLEAN, last: Nat]
    BY <2>1, FsmType DEF Rules
  <2>3. PICK o \in {"fired", "quiet", "unready"} :
          at' = [at EXCEPT !.step = "back", !.outcome = o, !.copy.fsm = fsm]
    BY <1>4 DEF Evaluate
  <2> HIDE DEF fsm
  <2>4. [rule EXCEPT !.fsm = fsm] \in Rules
    BY <2>1, <2>2 DEF Rules
  <2>5. EngineType' /\ at'.copy = [rule EXCEPT !.fsm = fsm] /\ at'.slot = at.slot /\ at'.step = "back"
    BY <1>4, <2>3, <2>4 DEF Evaluate, EngineType
  <2>6. Identified'
    <3>1. UNCHANGED <<slots, nextId>> /\ at.step = "evaluate"
      BY <1>4 DEF Evaluate
    <3>2. at'.copy \in Rules /\ at'.copy.id = at.copy.id
      BY <2>1, <2>4, <2>5 DEF Rules
    <3>3. Identified
      OBVIOUS
    <3> HIDE DEF Sound, Typed
    <3>4. Evaluating /\ Evaluating' /\ at'.copy # NoRule
      BY <2>5, <3>1, <3>2 DEF Evaluating
    <3>5. QED
      BY <2>5, <3>1, <3>2, <3>3, <3>4 DEF Identified
  <2>7. SlotsType' /\ OthersType'
    BY <1>4 DEF Evaluate, SlotsType, OthersType, InRing
  <2>8. PastType'
    <3> DEFINE shown == [past[id] EXCEPT !.owed = IF event THEN @ \ pending ELSE @,
                                         !.total = IF fires THEN @ + 1 ELSE @]
    <3>1. past' = [past EXCEPT ![id] =
              IF at.edited \/ ~ready THEN shown
              ELSE [shown EXCEPT
                      !.fired = IF fires THEN at.stamp ELSE @,
                      !.rested = ~fires /\ (@ \/ ~cond),
                      !.answered = IF fires /\ event THEN @ \cup pending ELSE @]]
      BY <1>4 DEF Evaluate
    <3>2. pending \in SUBSET Nat /\ at.stamp \in Nat
      BY DEF EngineType, OthersType, InRing
    <3>3. fires \in BOOLEAN /\ cond \in BOOLEAN
      BY DEF ShouldFire
    <3> HIDE DEF fires, cond, ready, event
    <3>4. shown \in [fired: Nat \cup {Unfired}, rested: BOOLEAN, owed: SUBSET Nat,
                     answered: SUBSET Nat, total: Nat]
      <4>1. past[id] \in [fired: Nat \cup {Unfired}, rested: BOOLEAN, owed: SUBSET Nat,
                          answered: SUBSET Nat, total: Nat]
        BY <2>1 DEF PastType
      <4> DEFINE w == IF event THEN past[id].owed \ pending ELSE past[id].owed
                 n == IF fires THEN past[id].total + 1 ELSE past[id].total
      <4>2. w \in SUBSET Nat /\ n \in Nat
        BY <4>1
      <4>3. shown = [past[id] EXCEPT !.owed = w, !.total = n]
        OBVIOUS
      <4> HIDE DEF w, n, shown
      <4>4. QED
        BY <4>1, <4>2, <4>3
    <3> HIDE DEF shown
    <3>5. (~fires /\ (shown.rested \/ ~cond)) \in BOOLEAN
      BY <3>3, <3>4
    <3>6. past'[id] \in [fired: Nat \cup {Unfired}, rested: BOOLEAN, owed: SUBSET Nat,
                     answered: SUBSET Nat, total: Nat]
      BY <2>1, <3>1, <3>2, <3>4, <3>5 DEF PastType
    <3>7. QED
      BY <2>1, <3>1, <3>6 DEF PastType
  <2>9. QED
    BY <2>5, <2>6, <2>7, <2>8
<1>5. CASE WriteBack
  <2>1. at.copy \in Rules /\ at.slot \in Slots
    BY <1>5 DEF WriteBack, EngineType, Identified, Evaluating
  <2>2. EngineType' /\ at'.copy = NoRule /\ at'.step = "slot"
    <3>1. /\ at' = [at EXCEPT !.step = "slot", !.slot = @ + 1, !.copy = NoRule, !.outcome = "none"]
          /\ now' = now /\ presses' = presses
      BY <1>5 DEF WriteBack
    <3>4. at.slot + 1 \in 0 .. MaxRules + 1
      BY <2>1 DEF Slots
    <3> HIDE DEF Sound, Typed
    <3>2. EngineType
      BY DEF Sound, Typed
    <3>3. QED
      BY <3>1, <3>2, <3>4 DEF EngineType
  <2>3. PastType' /\ OthersType'
    BY <1>5 DEF WriteBack, PastType, OthersType, InRing
  <2>4. \A i \in Slots : slots[i] # NoRule =>
          slots'[i] \in Rules /\ slots'[i].id = slots[i].id
    BY <1>5, WriteBackRule
  <2>5. \A i \in Slots : slots[i] = NoRule => slots'[i] = NoRule
    BY <1>5 DEF WriteBack, Target, SlotOf
  <2>6. SlotsType'
    BY <1>5, <2>4, <2>5 DEF WriteBack, SlotsType
  <2>7. Identified'
    <3>1. nextId' = nextId
      BY <1>5 DEF WriteBack
    <3>2. \A i \in Slots : slots'[i] # NoRule => slots[i] # NoRule /\ slots'[i].id = slots[i].id
      BY <2>4, <2>5
    <3>3. QED
      BY <2>2, <3>1, <3>2 DEF Identified, Evaluating
  <2>8. QED
    BY <2>2, <2>3, <2>6, <2>7
<1>6. CASE EndPass
  <2>1. EngineType' /\ at'.copy = NoRule /\ at'.step = "wait"
    BY <1>6 DEF EndPass, EngineType, OthersType, Waiting
  <2>2. PastType' /\ SlotsType' /\ OthersType'
    BY <1>6 DEF EndPass, PastType, SlotsType, OthersType, InRing
  <2>3. Identified'
    BY <1>6, <2>1 DEF EndPass, Identified, Evaluating
  <2>4. QED
    BY <2>1, <2>2, <2>3
<1>7. QED
  BY <1>1, <1>2, <1>3, <1>4, <1>5, <1>6

\* Every step keeps types and identities.
LEMMA StepSound == Sound /\ [Next]_vars => Sound'
<1> SUFFICES ASSUME Sound, [Next]_vars PROVE Sound'
  OBVIOUS
<1>1. CASE UNCHANGED vars
  BY <1>1 DEF vars, Sound, Typed, SlotsType, EngineType, PastType, OthersType, InRing,
              Identified, Evaluating
<1>2. CASE Next
  <2>1. CASE \E i \in Slots, s \in Settings : Create(i, s) \/ Update(i, s)
    BY <2>1, EditSound
  <2>2. CASE \E i \in Slots : Delete(i) \/ SetEnabled(i)
    BY <2>2, EditSound
  <2>3. QED
    BY <1>2, <2>1, <2>2, OutsideSound, EngineSound DEF Next
<1>3. QED
  BY <1>1, <1>2

\* Types and identities, in every state.
LEMMA SoundAlways == Spec => []Sound
<1>1. Sound /\ [Next]_vars => Sound'
  BY StepSound
<1>2. QED
  BY <1>1, InitSound, PTL DEF Spec

-----------------------------------------------------------------------------
(* What the fire states know of the history *)

\* A fire state, in a slot or in the engine's copy, agrees with the history:
\* it holds the time of the last fire since the last edit, and an edge rule on
\* a reading is armed only if it has been false since.
Agrees(r) ==
  past[r.id].fired # Unfired =>
    /\ r.fsm.ever /\ r.fsm.last = past[r.id].fired
    /\ r.mode = "edge" /\ code[r.id] = "value" /\ r.fsm.armed => past[r.id].rested

\* The engine is about to write a newer fire state back.
Stale(id) == at.step = "back" /\ at.copy.id = id /\ at.outcome # "unready" /\ ~at.edited

SlotsAgree == \A i \in Slots : slots[i] # NoRule /\ ~Stale(slots[i].id) => Agrees(slots[i])

\* An unedited copy agrees, and is of its slot's mode; an edited one may hold
\* anything, but then there is nothing to agree with.
CopyAgrees ==
  Evaluating =>
    /\ ~at.edited => Agrees(at.copy)
    /\ ~at.edited => \A i \in Slots : slots[i] # NoRule /\ slots[i].id = at.copy.id
                                       => slots[i].mode = at.copy.mode
    /\ at.edited => past[at.copy.id].fired = Unfired

\* Ids that are not drawn have no history.
Undrawn == \A id \in Ids : id >= nextId => past[id].fired = Unfired /\ past[id].total = 0

\* Nothing fired in the future, nor at the time zero that means never; a pass
\* stamps its fires with a time no earlier than any fire before.
Stamped ==
  /\ \A id \in Ids : past[id].fired # 0 /\ past[id].fired <= now
  /\ at.step \in {"slot", "evaluate", "back"} =>
       at.stamp > 0 /\ \A id \in Ids : past[id].fired <= at.stamp

Remembered == SlotsAgree /\ CopyAgrees /\ Undrawn /\ Stamped

\* The types a step on a rule can rely on.
LEMMA Facts ==
  ASSUME Sound
  PROVE  /\ \A i \in Slots : slots[i] # NoRule =>
              slots[i] \in Rules /\ slots[i].id \in Ids /\ slots[i].id \in Nat /\ slots[i].id < nextId
         /\ Evaluating => at.copy \in Rules /\ at.copy.id \in Ids /\ at.copy.id < nextId
         /\ \A id \in Ids : past[id].fired \in Int /\ past[id].total \in Nat
         /\ now \in Nat /\ now > 0 /\ nextId \in Nat /\ at.stamp \in Nat /\ at.stamp <= now
<1> USE DEF Sound, Typed
<1>1. nextId \in Nat /\ nextId <= MaxEdits + 2 /\ now \in Nat /\ now > 0
  BY DEF OthersType
<1>2. 1 .. nextId - 1 \subseteq Ids /\ \A id \in 1 .. nextId - 1 : id \in Nat /\ id < nextId
  BY <1>1 DEF Ids
<1>3. \A i \in Slots : slots[i] # NoRule => slots[i] \in Rules /\ slots[i].id \in 1 .. nextId - 1
  BY DEF SlotsType, Identified
<1>4. Evaluating => at.copy \in Rules /\ at.copy.id \in 1 .. nextId - 1
  BY DEF EngineType, Identified
<1>5. \A id \in Ids : past[id].fired \in Int /\ past[id].total \in Nat
  BY DEF PastType, Unfired
<1>6. at.stamp \in Nat /\ at.stamp <= now
  BY DEF EngineType, OthersType
<1>7. QED
  BY <1>1, <1>2, <1>3, <1>4, <1>5, <1>6

\* Nothing is remembered of rules that never fired.
LEMMA InitRemembered == Init => Remembered
<1> SUFFICES ASSUME Init PROVE Remembered
  OBVIOUS
<1>1. \A id \in Ids : past[id] = NoPast
  BY DEF Init
<1>2. now = 1 /\ at = Waiting
  BY DEF Init
<1>3. \A i \in Slots : slots[i] # NoRule => slots[i].id \in Ids
  BY InitSound, Facts
<1>4. SlotsAgree
  BY <1>1, <1>3 DEF SlotsAgree, Agrees, NoPast
<1>5. CopyAgrees /\ Undrawn /\ Stamped
  BY <1>1, <1>2 DEF CopyAgrees, Evaluating, Undrawn, Stamped, Waiting, NoPast, Unfired
<1>6. QED
  BY <1>4, <1>5 DEF Remembered

\* A step that changes neither the fire states nor the history.
LEMMA QuietRemembered ==
  ASSUME Sound, Remembered,
         code' = code,
         \A id \in Ids : past'[id].fired = past[id].fired /\ past'[id].rested = past[id].rested
                         /\ past'[id].total = past[id].total,
         \A i \in Slots : slots'[i] # NoRule =>
           /\ slots[i] # NoRule /\ slots'[i].id = slots[i].id
           /\ slots'[i].mode = slots[i].mode /\ slots'[i].fsm = slots[i].fsm,
         nextId' = nextId, now' \in Nat, now' >= now,
         at' = at
  PROVE  Remembered'
<1> USE Facts DEF Remembered
<1>1. SlotsAgree'
  BY DEF SlotsAgree, Agrees, Stale
<1>2. CopyAgrees'
  BY DEF CopyAgrees, Agrees, Evaluating
<1>3. Undrawn' /\ Stamped'
  BY DEF Undrawn, Stamped
<1>4. QED
  BY <1>1, <1>2, <1>3

\* The same while the engine is between two slots.
LEMMA IdleRemembered ==
  ASSUME Sound, Remembered, ~Evaluating,
         UNCHANGED <<code, past, slots, nextId, now>>,
         ~Evaluating', at'.step = "slot" => at'.stamp > 0 /\ \A id \in Ids : past[id].fired <= at'.stamp
  PROVE  Remembered'
<1> USE Facts DEF Remembered
<1>1. SlotsAgree'
  BY DEF SlotsAgree, Agrees, Stale, Evaluating
<1>2. CopyAgrees' /\ Undrawn' /\ Stamped'
  BY DEF CopyAgrees, Undrawn, Stamped, Evaluating
<1>3. QED
  BY <1>1, <1>2

\* An edit that forgets the history of the rule in slot i.
LEMMA ForgetRemembered ==
  ASSUME Sound, Remembered, NEW i \in Slots, slots[i] # NoRule,
         ResetPast(slots[i].id), UNCHANGED <<code, nextId, now>>,
         slots'[i] # NoRule => slots'[i].id = slots[i].id,
         \A j \in Slots \ {i} : slots'[j] = slots[j]
  PROVE  Remembered'
<1> USE Facts DEF Remembered
<1> DEFINE id == slots[i].id
<1>1. /\ id \in Ids /\ past'[id].fired = Unfired /\ past'[id].total = past[id].total
      /\ \A x \in Ids \ {id} : past'[x] = past[x]
  BY DEF ResetPast, NoPast, Sound, Typed, PastType
<1>2. /\ at'.step = at.step /\ at'.copy = at.copy /\ at'.outcome = at.outcome /\ at'.stamp = at.stamp
      /\ at'.edited = (at.edited \/ (at.copy # NoRule /\ at.copy.id = id))
  BY DEF ResetPast, Sound, Typed, EngineType
<1>3. Evaluating => at.copy # NoRule
  BY DEF Sound, Identified
<1>4. SlotsAgree'
  <2> SUFFICES ASSUME NEW j \in Slots, slots'[j] # NoRule, ~Stale(slots[j].id)'
               PROVE  Agrees(slots[j])'
    BY DEF SlotsAgree
  <2>1. CASE j = i
    BY <1>1, <2>1 DEF Agrees
  <2>2. CASE j # i
    <3>1. slots'[j] = slots[j] /\ slots[j].id # id /\ slots[j].id \in Ids
      BY <2>2 DEF Sound, Identified
    <3>2. ~Stale(slots[j].id)
      BY <1>2, <1>3, <3>1 DEF Stale, Evaluating
    <3>3. Agrees(slots[j])
      BY <3>1, <3>2 DEF SlotsAgree
    <3>4. QED
      BY <1>1, <3>1, <3>3 DEF Agrees
  <2>3. QED
    BY <2>1, <2>2
<1>5. CopyAgrees'
  <2> SUFFICES ASSUME Evaluating PROVE CopyAgrees'
    BY <1>2 DEF CopyAgrees, Evaluating
  <2>1. CASE at.copy.id = id
    BY <1>1, <1>2, <1>3, <2>1 DEF CopyAgrees
  <2>2. CASE at.copy.id # id
    <3>5. at.edited \in BOOLEAN
      BY DEF Sound, Typed, EngineType
    <3>1. at'.edited = at.edited
      BY <1>2, <2>2, <3>5
    <3>2. past'[at.copy.id] = past[at.copy.id]
      BY <1>1, <2>2
    <3>3. \A j \in Slots : slots'[j] # NoRule /\ slots'[j].id = at.copy.id => slots'[j] = slots[j]
      BY <2>2
    <3>4. QED
      BY <1>2, <3>1, <3>2, <3>3 DEF CopyAgrees, Agrees
  <2>3. QED
    BY <2>1, <2>2
<1>6. Undrawn' /\ Stamped'
  BY <1>1, <1>2 DEF Undrawn, Stamped, Unfired
<1>7. QED
  BY <1>4, <1>5, <1>6

\* An edit keeps fire states and history in agreement, by forgetting both or
\* neither.
LEMMA EditRemembered ==
  ASSUME Sound, Remembered, NEW i \in Slots, NEW s,
         (s \in Settings /\ (Create(i, s) \/ Update(i, s))) \/ Delete(i) \/ SetEnabled(i)
  PROVE  Remembered'
<1> USE Facts DEF Editing
<1>1. CASE s \in Settings /\ Create(i, s)
  <2>1. /\ slots' = [slots EXCEPT ![i] = NewRule(nextId, s)] /\ slots[i] = NoRule
        /\ nextId' = nextId + 1 /\ UNCHANGED <<code, at, past, now>>
    BY <1>1 DEF Create
  <2>2. nextId \in Ids /\ NewRule(nextId, s).id = nextId
    BY <1>1, NewRuleType, SMTT(30) DEF Create, Ids, Sound, Typed, OthersType
  <2>3. past[nextId].fired = Unfired
    BY <2>2 DEF Remembered, Undrawn
  <2>4. slots'[i] = NewRule(nextId, s) /\ \A j \in Slots \ {i} : slots'[j] = slots[j]
    BY <2>1 DEF Sound, Typed, SlotsType
  <2>5. SlotsAgree'
    <3> SUFFICES ASSUME NEW j \in Slots, slots'[j] # NoRule, ~Stale(slots[j].id)'
                 PROVE  Agrees(slots[j])'
      BY DEF SlotsAgree
    <3>1. CASE j = i
      BY <2>1, <2>2, <2>3, <2>4, <3>1 DEF Agrees
    <3>2. CASE j # i
      BY <2>1, <2>4, <3>2 DEF Agrees, Stale, Remembered, SlotsAgree
    <3>3. QED
      BY <3>1, <3>2
  <2>6. CopyAgrees'
    BY <2>1, <2>2, <2>4 DEF CopyAgrees, Agrees, Evaluating, Remembered
  <2>7. Undrawn' /\ Stamped'
    <3>1. \A id \in Ids : id >= nextId + 1 => id >= nextId
      BY DEF Ids
    <3>2. QED
      BY <2>1, <3>1 DEF Undrawn, Stamped, Remembered
  <2>8. QED
    BY <2>5, <2>6, <2>7 DEF Remembered
<1>2. CASE s \in Settings /\ Update(i, s)
  <2>1. /\ slots' = [slots EXCEPT ![i] = [NewRule(slots[i].id, s) EXCEPT !.count = slots[i].count]]
        /\ slots[i] # NoRule /\ ResetPast(slots[i].id) /\ UNCHANGED <<code, nextId, now>>
    BY <1>2 DEF Update
  <2>2. slots'[i].id = slots[i].id
    BY <2>1 DEF NewRule, Sound, Typed, SlotsType
  <2>3. \A j \in Slots \ {i} : slots'[j] = slots[j]
    BY <2>1 DEF Sound, Typed, SlotsType
  <2>4. QED
    BY <2>1, <2>2, <2>3, ForgetRemembered
<1>3. CASE Delete(i)
  <2>1. /\ slots' = [slots EXCEPT ![i] = NoRule]
        /\ slots[i] # NoRule /\ ResetPast(slots[i].id) /\ UNCHANGED <<code, nextId, now>>
    BY <1>3 DEF Delete
  <2>2. slots'[i] = NoRule /\ \A j \in Slots \ {i} : slots'[j] = slots[j]
    BY <2>1 DEF Sound, Typed, SlotsType
  <2>3. QED
    BY <2>1, <2>2, ForgetRemembered
<1>4. CASE SetEnabled(i)
  <2>1. slots[i] # NoRule /\ UNCHANGED <<code, nextId, now>>
    BY <1>4 DEF SetEnabled
  <2>2. CASE slots[i].enabled
    <3>1. slots' = [slots EXCEPT ![i].enabled = FALSE] /\ at' = at
          /\ past' = [past EXCEPT ![slots[i].id].owed = {}]
      BY <1>4, <2>2 DEF SetEnabled
    <3>2. \A id \in Ids : past'[id].fired = past[id].fired /\ past'[id].rested = past[id].rested
                          /\ past'[id].total = past[id].total
      BY <2>1, <3>1 DEF Sound, Typed, PastType
    <3>3. \A j \in Slots : slots'[j] # NoRule =>
           /\ slots[j] # NoRule /\ slots'[j].id = slots[j].id
           /\ slots'[j].mode = slots[j].mode /\ slots'[j].fsm = slots[j].fsm
      BY <2>1, <3>1 DEF Rules, Sound, Typed, SlotsType
    <3>4. QED
      BY <2>1, <3>1, <3>2, <3>3, QuietRemembered
  <2>3. CASE ~slots[i].enabled
    <3>1. slots' = [slots EXCEPT ![i].enabled = TRUE, ![i].fsm = FreshFsm] /\ ResetPast(slots[i].id)
      BY <1>4, <2>3 DEF SetEnabled
    <3>2. slots'[i].id = slots[i].id /\ \A j \in Slots \ {i} : slots'[j] = slots[j]
      BY <2>1, <3>1 DEF Rules, Sound, Typed, SlotsType
    <3>3. QED
      BY <2>1, <3>1, <3>2, ForgetRemembered
  <2>4. QED
    BY <2>2, <2>3
<1>5. QED
  BY <1>1, <1>2, <1>3, <1>4

\* So do the producers, the timers and the files.
LEMMA OutsideRemembered ==
  ASSUME Sound, Remembered,
         Submit \/ Press \/ Notify \/ Clock \/ WriteFiles \/ \E i \in Slots : TimerTick(i)
  PROVE  Remembered'
<1>1. CASE Submit \/ Notify \/ Clock
  BY <1>1, Facts, QuietRemembered DEF Submit, Notify, Clock
<1>2. CASE Press
  <2>1. \A id \in Ids : past'[id].fired = past[id].fired /\ past'[id].rested = past[id].rested
                        /\ past'[id].total = past[id].total
    BY <1>2 DEF Press, Sound, Typed, PastType
  <2>2. UNCHANGED <<slots, code, nextId, now, at>>
    BY <1>2 DEF Press
  <2>3. QED
    BY <2>1, <2>2, Facts, QuietRemembered
<1>3. ASSUME NEW i \in Slots, TimerTick(i)
      PROVE  Remembered'
  <2>1. slots[i] # NoRule /\ slots' = [slots EXCEPT ![i].due = TRUE]
        /\ UNCHANGED <<code, nextId, now, at, past>>
    BY <1>3 DEF TimerTick
  <2>2. \A j \in Slots : slots'[j] # NoRule =>
         /\ slots[j] # NoRule /\ slots'[j].id = slots[j].id
         /\ slots'[j].mode = slots[j].mode /\ slots'[j].fsm = slots[j].fsm
    BY <2>1 DEF Rules, Sound, Typed, SlotsType
  <2>3. QED
    BY <2>1, <2>2, Facts, QuietRemembered
<1>4. CASE WriteFiles
  <2> USE Facts DEF Remembered
  <2>1. /\ saving.id \in Ids /\ past' = [past EXCEPT ![saving.id].rested = TRUE]
        /\ UNCHANGED <<slots, nextId, now, at>>
    BY <1>4 DEF WriteFiles, Sound, Typed, OthersType
  <2>2. /\ \A id \in Ids : past'[id].fired = past[id].fired /\ past'[id].total = past[id].total
        /\ \A id \in Ids \ {saving.id} : past'[id].rested = past[id].rested
        /\ past'[saving.id].rested
    BY <2>1 DEF Sound, Typed, PastType
  <2>3. \A id \in Ids \ {saving.id} : code'[id] = code[id]
    BY <1>4 DEF WriteFiles, Sound, Typed, OthersType
  <2>5. SlotsAgree'
    BY <2>1, <2>2, <2>3 DEF SlotsAgree, Agrees, Stale
  <2>6. CopyAgrees'
    BY <2>1, <2>2, <2>3 DEF CopyAgrees, Agrees, Evaluating
  <2>7. Undrawn' /\ Stamped'
    BY <2>1, <2>2 DEF Undrawn, Stamped
  <2>8. QED
    BY <2>5, <2>6, <2>7
<1>5. QED
  BY <1>1, <1>2, <1>3, <1>4

\* An evaluation that does not reach the state machine.
Ready == code[at.copy.id] = "value" \/ (code[at.copy.id] = "press" /\ pending # {})

Holds == code[at.copy.id] = "press" \/ reading

EvaluateFires ==
  Ready /\ ShouldFire(at.copy.fsm, at.copy, Holds, code[at.copy.id] = "press")

\* What an evaluation does to the copy and the history.
LEMMA EvaluateEffect ==
  ASSUME Sound, Evaluate
  PROVE  LET id == at.copy.id
         IN /\ at.step = "evaluate" /\ at'.step = "back" /\ at'.edited = at.edited
            /\ at'.stamp = at.stamp
            /\ UNCHANGED <<slots, code, nextId, now>>
            /\ at'.outcome = IF EvaluateFires THEN "fired" ELSE IF Ready THEN "quiet" ELSE "unready"
            /\ at'.copy.id = id /\ at'.copy.mode = at.copy.mode
            /\ at'.copy.fsm = IF Ready THEN AfterEvaluation(at.copy.fsm, at.copy, Holds, code[id] = "press")
                              ELSE at.copy.fsm
            /\ \A x \in Ids \ {id} : past'[x] = past[x]
            /\ past'[id].total = IF EvaluateFires THEN past[id].total + 1 ELSE past[id].total
            /\ at.edited \/ ~Ready =>
                 past'[id].fired = past[id].fired /\ past'[id].rested = past[id].rested
            /\ ~at.edited /\ Ready =>
                 /\ past'[id].fired = IF EvaluateFires THEN at.stamp ELSE past[id].fired
                 /\ past'[id].rested = (~EvaluateFires /\ (past[id].rested \/ ~Holds))
<1> DEFINE id    == at.copy.id
           shown == [past[id] EXCEPT !.owed = IF code[id] = "press" THEN @ \ pending ELSE @,
                                     !.total = IF EvaluateFires THEN @ + 1 ELSE @]
<1>1. at.copy \in Rules /\ id \in Ids /\ at.copy # NoRule
  BY Facts DEF Evaluate, Evaluating, Sound, Identified
<1>2. at' = [at EXCEPT !.step = "back",
               !.outcome = IF EvaluateFires THEN "fired" ELSE IF Ready THEN "quiet" ELSE "unready",
               !.copy.fsm = IF Ready THEN AfterEvaluation(at.copy.fsm, at.copy, Holds, code[id] = "press")
                            ELSE @]
  BY Zenon DEF Evaluate, EvaluateFires, Ready, Holds
<1>3. past' = [past EXCEPT ![id] =
              IF at.edited \/ ~Ready THEN shown
              ELSE [shown EXCEPT
                      !.fired = IF EvaluateFires THEN at.stamp ELSE @,
                      !.rested = ~EvaluateFires /\ (@ \/ ~Holds),
                      !.answered = IF EvaluateFires /\ code[id] = "press" THEN @ \cup pending ELSE @]]
  BY Zenon DEF Evaluate, EvaluateFires, Ready, Holds
<1>4. at.step = "evaluate" /\ UNCHANGED <<slots, code, nextId, now>>
  BY DEF Evaluate, EngineOnly
<1> DEFINE fsm     == IF Ready THEN AfterEvaluation(at.copy.fsm, at.copy, Holds, code[id] = "press")
                      ELSE at.copy.fsm
           outcome == IF EvaluateFires THEN "fired" ELSE IF Ready THEN "quiet" ELSE "unready"
<1>5. at' = [at EXCEPT !.step = "back", !.outcome = outcome, !.copy.fsm = fsm]
  BY <1>2
<1>6. at \in [step: {"wait", "debounce", "begin", "slot", "evaluate", "back"},
              slot: 0 .. MaxRules + 1, due: BOOLEAN, stamp: 0 .. now, seq: 0 .. presses,
              copy: Rules \cup {NoRule}, outcome: {"none", "fired", "quiet", "unready"},
              edited: BOOLEAN]
  BY DEF Sound, Typed, EngineType
<1> HIDE DEF fsm, outcome
<1>7. /\ at'.step = "back" /\ at'.edited = at.edited /\ at'.stamp = at.stamp
      /\ at'.outcome = outcome /\ at'.copy = [at.copy EXCEPT !.fsm = fsm]
  BY <1>5, <1>6
<1>8. at'.copy.id = id /\ at'.copy.mode = at.copy.mode /\ at'.copy.fsm = fsm
  BY <1>1, <1>7 DEF Rules
<1>9. past[id] \in [fired: Nat \cup {Unfired}, rested: BOOLEAN, owed: SUBSET Nat,
                    answered: SUBSET Nat, total: Nat]
  BY <1>1 DEF Sound, Typed, PastType
<1>10. /\ shown.fired = past[id].fired /\ shown.rested = past[id].rested
       /\ shown.total = IF EvaluateFires THEN past[id].total + 1 ELSE past[id].total
       /\ shown = [past[id] EXCEPT !.owed = shown.owed, !.total = shown.total]
  BY <1>9
<1> HIDE DEF shown
<1>11. \A x \in Ids \ {id} : past'[x] = past[x]
  BY <1>3 DEF Sound, Typed, PastType
<1>12. CASE at.edited \/ ~Ready
  <2>1. past'[id] = shown
    BY <1>1, <1>3, <1>12 DEF Sound, Typed, PastType
  <2>2. QED
    BY <1>4, <1>7, <1>8, <1>10, <1>11, <1>12, <2>1 DEF fsm, outcome
<1>13. CASE ~at.edited /\ Ready
  <2> DEFINE fired    == IF EvaluateFires THEN at.stamp ELSE shown.fired
             rested   == ~EvaluateFires /\ (shown.rested \/ ~Holds)
             answered == IF EvaluateFires /\ code[id] = "press" THEN shown.answered \cup pending
                         ELSE shown.answered
  <2>1. past'[id] = [shown EXCEPT !.fired = fired, !.rested = rested, !.answered = answered]
    BY <1>1, <1>3, <1>13 DEF Sound, Typed, PastType
  <2> HIDE DEF fired, rested, answered
  <2>2. /\ past'[id].fired = fired /\ past'[id].rested = rested /\ past'[id].total = shown.total
    BY <1>9, <1>10, <2>1
  <2>3. past'[id].fired = (IF EvaluateFires THEN at.stamp ELSE past[id].fired)
        /\ past'[id].rested = (~EvaluateFires /\ (past[id].rested \/ ~Holds))
    BY <1>10, <2>2 DEF fired, rested
  <2>4. QED
    BY <1>4, <1>7, <1>8, <1>10, <1>11, <1>13, <2>2, <2>3 DEF fsm, outcome
<1>14. QED
  BY <1>12, <1>13

\* The state machine and the history take the same step.
LEMMA EvaluateAgrees ==
  ASSUME Sound, Remembered, Evaluate, ~at.edited
  PROVE  Agrees(at.copy)'
<1> DEFINE id    == at.copy.id
           event == code[id] = "press"
<1>1. Agrees(at.copy) /\ at.copy \in Rules
  BY Facts DEF Evaluate, Remembered, CopyAgrees, Evaluating
<1>2. /\ at'.copy.id = id /\ at'.copy.mode = at.copy.mode /\ code' = code
      /\ at'.copy.fsm = IF Ready THEN AfterEvaluation(at.copy.fsm, at.copy, Holds, event)
                        ELSE at.copy.fsm
  BY EvaluateEffect
<1>3. CASE ~Ready
  BY <1>1, <1>2, <1>3, EvaluateEffect DEF Agrees
<1>4. CASE Ready
  <2>1. /\ past'[id].fired = IF EvaluateFires THEN at.stamp ELSE past[id].fired
        /\ past'[id].rested = (~EvaluateFires /\ (past[id].rested \/ ~Holds))
    BY <1>4, EvaluateEffect
  <2> DEFINE fires == ShouldFire(at.copy.fsm, at.copy, Holds, event)
             latch == at.copy.mode = "edge" /\ ~event
  <2>2. EvaluateFires <=> fires
    BY <1>4 DEF EvaluateFires
  <2>3. at'.copy.fsm = [armed |-> IF ~latch THEN at.copy.fsm.armed
                                  ELSE ~Holds \/ (at.copy.fsm.armed /\ ~fires),
                        ever  |-> TRUE,
                        last  |-> IF fires THEN at.stamp ELSE at.copy.fsm.last]
    BY <1>2, <1>4, Zenon DEF AfterEvaluation
  <2>4. fires => Holds
    BY DEF ShouldFire
  <2> HIDE DEF fires
  <2>5. at'.copy.fsm.ever /\ (past'[id].fired # Unfired => at'.copy.fsm.last = past'[id].fired)
    BY <1>1, <2>1, <2>2, <2>3 DEF Agrees
  <2>6. ASSUME past'[id].fired # Unfired, at.copy.mode = "edge", code[id] = "value", at'.copy.fsm.armed
        PROVE  past'[id].rested
    <3>1. at'.copy.fsm.armed = (~Holds \/ (at.copy.fsm.armed /\ ~fires))
      BY <2>3, <2>6
    <3>2. ~Holds \/ (at.copy.fsm.armed /\ ~fires)
      BY <2>6, <3>1
    <3>3. ~fires
      BY <2>4, <3>2
    <3>4. past[id].fired # Unfired
      BY <2>1, <2>2, <2>6, <3>3
    <3>5. ~Holds \/ past[id].rested
      BY <1>1, <2>6, <3>2, <3>4 DEF Agrees
    <3>6. QED
      BY <2>1, <2>2, <3>3, <3>5
  <2>7. QED
    BY <1>2, <2>5, <2>6 DEF Agrees
<1>5. QED
  BY <1>3, <1>4

\* So does the engine: it writes back only what the history knows, or, after
\* an edit, what the history does not ask about.
LEMMA EngineRemembered ==
  ASSUME Sound, Remembered,
         Wake \/ Debounced \/ BeginPass \/ TakeCopy \/ Evaluate \/ WriteBack \/ EndPass
  PROVE  Remembered'
<1>1. CASE Wake \/ Debounced \/ EndPass
  <2>1. UNCHANGED <<code, past, slots, nextId, now>> /\ ~Evaluating /\ at'.step \in {"debounce", "begin", "wait"}
    <3>1. UNCHANGED <<code, past, slots, nextId, now>> /\ at.step \in {"wait", "debounce", "slot"}
      BY <1>1 DEF Wake, Debounced, EndPass, EngineOnly
    <3>2. EndPass => at'.step = "wait"
      BY DEF EndPass, Waiting
    <3>5. Wake => at'.step \in {"debounce", "begin"}
      BY DEF Wake, Sound, Typed, EngineType
    <3>6. Debounced => at'.step = "begin"
      BY DEF Debounced, Sound, Typed, EngineType
    <3>3. at'.step \in {"debounce", "begin", "wait"}
      BY <1>1, <3>2, <3>5, <3>6
    <3>4. QED
      BY <3>1, <3>3 DEF Evaluating
  <2>2. QED
    BY <2>1, IdleRemembered DEF Evaluating
<1>2. CASE BeginPass
  <2>1. UNCHANGED <<code, past, slots, nextId, now>> /\ ~Evaluating
        /\ at'.step = "slot" /\ at'.stamp = now
    BY <1>2 DEF BeginPass, EngineOnly, Evaluating, Sound, Typed, EngineType
  <2>2. QED
    BY <2>1, Facts, IdleRemembered DEF Evaluating, Remembered, Stamped
<1>3. CASE TakeCopy
  <2>1. CASE Candidate(slots[at.slot])
    <3>1. /\ at.slot \in Slots /\ slots[at.slot] # NoRule /\ at.step = "slot"
          /\ slots' = [slots EXCEPT ![at.slot].due = FALSE]
          /\ at' = [at EXCEPT !.step = "evaluate", !.copy = slots[at.slot], !.edited = FALSE]
          /\ UNCHANGED <<code, past, nextId, now>>
      BY <1>3, <2>1 DEF TakeCopy, Candidate, EngineOnly
    <3>2. /\ at'.step = "evaluate" /\ at'.copy = slots[at.slot] /\ ~at'.edited /\ at'.stamp = at.stamp
      BY <3>1 DEF Sound, Typed, EngineType
    <3>3. \A i \in Slots : slots'[i] # NoRule =>
            /\ slots[i] # NoRule /\ slots'[i].id = slots[i].id
            /\ slots'[i].mode = slots[i].mode /\ slots'[i].fsm = slots[i].fsm
      BY <3>1 DEF Rules, Sound, Typed, SlotsType
    <3>4. \A i \in Slots : slots[i] # NoRule => Agrees(slots[i])
      BY <3>1 DEF Remembered, SlotsAgree, Stale
    <3>5. SlotsAgree'
      BY <3>1, <3>3, <3>4 DEF SlotsAgree, Agrees
    <3>6. \A i \in Slots : slots'[i] # NoRule /\ slots'[i].id = slots[at.slot].id => i = at.slot
      BY <3>1, <3>3 DEF Sound, Identified
    <3>7. CopyAgrees'
      BY <3>1, <3>2, <3>3, <3>4, <3>6 DEF CopyAgrees, Agrees
    <3>8. Undrawn' /\ Stamped'
      BY <3>1, <3>2 DEF Remembered, Undrawn, Stamped
    <3>9. QED
      BY <3>5, <3>7, <3>8 DEF Remembered
  <2>2. CASE ~Candidate(slots[at.slot])
    <3>1. /\ UNCHANGED <<code, past, slots, nextId, now>> /\ at.step = "slot"
          /\ at' = [at EXCEPT !.slot = @ + 1]
      BY <1>3, <2>2 DEF TakeCopy, EngineOnly
    <3>2. at'.step = "slot" /\ at'.stamp = at.stamp
      BY <3>1 DEF Sound, Typed, EngineType
    <3>3. QED
      BY <3>1, <3>2, IdleRemembered DEF Evaluating, Remembered, Stamped
  <2>3. QED
    BY <2>1, <2>2
<1>4. CASE Evaluate
  <2> USE Facts DEF Remembered
  <2> DEFINE id == at.copy.id
  <2>1. Evaluating /\ id \in Ids /\ id < nextId /\ UNCHANGED <<slots, code, nextId, now>>
    BY <1>4, EvaluateEffect DEF Evaluate, Evaluating
  <2>2. SlotsAgree'
    <3> SUFFICES ASSUME NEW i \in Slots, slots[i] # NoRule, ~Stale(slots[i].id)'
                 PROVE  Agrees(slots[i])'
      BY <2>1 DEF SlotsAgree
    <3>1. Agrees(slots[i])
      BY <1>4 DEF SlotsAgree, Stale, Evaluate
    <3>2. past'[slots[i].id].fired = past[slots[i].id].fired
          /\ past'[slots[i].id].rested = past[slots[i].id].rested
      <4>1. CASE slots[i].id # id
        BY <1>4, <4>1, EvaluateEffect
      <4>2. CASE slots[i].id = id
        <5>1. at'.edited \/ at'.outcome = "unready"
          BY <1>4, <4>2, EvaluateEffect DEF Stale
        <5>2. at.edited \/ ~Ready
          BY <1>4, <5>1, EvaluateEffect DEF EvaluateFires
        <5>3. QED
          BY <1>4, <4>2, <5>2, EvaluateEffect
      <4>3. QED
        BY <4>1, <4>2
    <3>3. QED
      BY <2>1, <3>1, <3>2 DEF Agrees
  <2>3. CopyAgrees'
    <3>1. CASE at.edited
      BY <1>4, <2>1, <3>1, EvaluateEffect DEF CopyAgrees
    <3>2. CASE ~at.edited
      BY <1>4, <2>1, <3>2, EvaluateEffect, EvaluateAgrees DEF CopyAgrees
    <3>3. QED
      BY <3>1, <3>2
  <2>4. Undrawn'
    <3>1. \A x \in Ids : x >= nextId => x # id /\ past'[x] = past[x]
      BY <1>4, <2>1, EvaluateEffect DEF Ids
    <3>2. QED
      BY <2>1, <3>1 DEF Undrawn
  <2>5. Stamped'
    <3>1. at.stamp > 0 /\ at'.stamp = at.stamp /\ \A x \in Ids : past[x].fired <= at.stamp
      BY <1>4, <2>1, EvaluateEffect DEF Stamped, Evaluating
    <3>2. \A x \in Ids : past'[x].fired = past[x].fired \/ past'[x].fired = at.stamp
      BY <1>4, EvaluateEffect
    <3>3. QED
      BY <2>1, <3>1, <3>2 DEF Stamped
  <2>6. QED
    BY <2>2, <2>3, <2>4, <2>5
<1>5. CASE WriteBack
  <2> USE Facts DEF Remembered
  <2>1. /\ UNCHANGED <<code, past, nextId, now>> /\ at.step = "back" /\ Evaluating
        /\ at'.step = "slot" /\ at'.stamp = at.stamp
    BY <1>5 DEF WriteBack, EngineOnly, Evaluating, Sound, Typed, EngineType
  <2>2. SlotsAgree'
    <3> SUFFICES ASSUME NEW i \in Slots, slots'[i] # NoRule
                 PROVE  Agrees(slots[i])'
      BY DEF SlotsAgree
    <3> DEFINE hit == i \in Target /\ at.outcome # "unready"
    <3>1. CASE ~hit
      <4>1. slots'[i] = slots[i]
        BY <1>5, <3>1 DEF WriteBack
      <4>2. ~Stale(slots[i].id)
        BY <3>1, <4>1 DEF Stale, Target, SlotOf
      <4>3. QED
        BY <2>1, <4>1, <4>2 DEF SlotsAgree, Agrees
    <3>2. CASE hit
      <4>1. slots[i] # NoRule /\ slots[i].id = at.copy.id /\ slots[i] \in Rules
        BY <3>2 DEF Target, SlotOf
      <4>2. slots'[i] = [slots[i] EXCEPT !.fsm = at.copy.fsm,
                             !.count = IF at.outcome = "fired" THEN @ + 1 ELSE @]
        BY <1>5, <3>2 DEF WriteBack
      <4>3. slots'[i].id = at.copy.id /\ slots'[i].fsm = at.copy.fsm /\ slots'[i].mode = slots[i].mode
        BY <4>1, <4>2 DEF Rules
      <4>4. CASE at.edited
        BY <2>1, <4>3, <4>4 DEF CopyAgrees, Agrees
      <4>5. CASE ~at.edited
        BY <2>1, <4>1, <4>3, <4>5 DEF CopyAgrees, Agrees
      <4>6. QED
        BY <4>4, <4>5
    <3>3. QED
      BY <3>1, <3>2
  <2>3. CopyAgrees' /\ Undrawn' /\ Stamped'
    BY <2>1 DEF CopyAgrees, Evaluating, Undrawn, Stamped
  <2>4. QED
    BY <2>2, <2>3
<1>6. QED
  BY <1>1, <1>2, <1>3, <1>4, <1>5

\* Fire states and history agree after every step.
LEMMA StepRemembered == Sound /\ Remembered /\ [Next]_vars => Remembered'
<1> SUFFICES ASSUME Sound, Remembered, [Next]_vars PROVE Remembered'
  OBVIOUS
<1>1. CASE UNCHANGED vars
  BY <1>1, Facts, QuietRemembered DEF vars
<1>2. CASE Next
  <2>1. CASE \E i \in Slots, s \in Settings : Create(i, s) \/ Update(i, s)
    BY <2>1, EditRemembered
  <2>2. CASE \E i \in Slots : Delete(i) \/ SetEnabled(i)
    BY <2>2, EditRemembered
  <2>3. QED
    BY <1>2, <2>1, <2>2, OutsideRemembered, EngineRemembered DEF Next
<1>3. QED
  BY <1>1, <1>2

\* Only an evaluation counts a fire, and only for the rule that is evaluated.
LEMMA OnlyEvaluateCounts ==
  ASSUME Sound, [Next]_vars, NEW id \in Ids, past'[id].total # past[id].total
  PROVE  Evaluate /\ id = at.copy.id /\ EvaluateFires
<1>1. past[id].total \in Nat
  BY Facts
<1>2. ASSUME NEW x, x \in Ids, ResetPast(x)
      PROVE  past'[id].total = past[id].total
  BY <1>2 DEF ResetPast, NoPast, Sound, Typed, PastType
<1>3. ASSUME NEW i \in Slots, NEW s, Create(i, s) \/ Update(i, s) \/ Delete(i) \/ SetEnabled(i)
      PROVE  past'[id].total = past[id].total
  <2>1. slots[i] # NoRule => slots[i].id \in Ids
    BY Facts
  <2>2. \/ past' = past \/ (slots[i] # NoRule /\ ResetPast(slots[i].id))
        \/ (slots[i] # NoRule /\ past' = [past EXCEPT ![slots[i].id].owed = {}])
    BY <1>3 DEF Create, Update, Delete, SetEnabled
  <2>3. QED
    BY <1>2, <2>1, <2>2 DEF Sound, Typed, PastType
<1>4. CASE Press
  BY <1>1, <1>4 DEF Press, Sound, Typed, PastType
<1>5. CASE WriteFiles
  <2>1. past' = [past EXCEPT ![saving.id].rested = TRUE]
    BY <1>5 DEF WriteFiles
  <2>2. QED
    BY <1>1, <2>1 DEF Sound, Typed, PastType
<1>6. CASE past' = past
  BY <1>6
<1>7. CASE Evaluate
  BY <1>7, EvaluateEffect
<1>8. QED
  <2>1. \/ Evaluate \/ Press \/ WriteFiles \/ past' = past
        \/ \E i \in Slots, s \in Settings : Create(i, s) \/ Update(i, s)
        \/ \E i \in Slots : Delete(i) \/ SetEnabled(i)
    <3>1. Submit \/ Notify \/ Clock => past' = past
      BY DEF Submit, Notify, Clock
    <3>2. Wake \/ Debounced \/ BeginPass => past' = past
      BY DEF Wake, Debounced, BeginPass
    <3>3. TakeCopy \/ WriteBack \/ EndPass => past' = past
      BY DEF TakeCopy, WriteBack, EndPass
    <3>4. UNCHANGED vars => past' = past
      BY DEF vars
    <3>5. QED
      <4>1. (\E i \in Slots : TimerTick(i)) => past' = past
        BY DEF TimerTick
      <4>2. QED
        BY <3>1, <3>2, <3>3, <3>4, <4>1 DEF Next
  <2>2. QED
    BY <1>3, <1>4, <1>5, <1>6, <1>7, <2>1

\* A fire is such a count.
LEMMA OnlyEvaluateFires ==
  ASSUME Sound, [Next]_vars, NEW id \in Ids, Fires(id)
  PROVE  Evaluate /\ id = at.copy.id /\ EvaluateFires
<1>1. past'[id].total # past[id].total
  BY Facts DEF Fires
<1>2. QED
  BY <1>1, OnlyEvaluateCounts

-----------------------------------------------------------------------------
(* Cooldown and edge *)

\* A fire of a rule that was left alone comes a cooldown after the last one.
LEMMA SpacingStep ==
  Sound /\ Remembered /\ [Next]_vars =>
    \A id \in Ids : Fires(id) /\ ~at.edited /\ past[id].fired # Unfired =>
       at.stamp - past[id].fired >= at.copy.cooldown
<1> SUFFICES ASSUME Sound, Remembered, [Next]_vars, NEW id \in Ids,
                    Fires(id), ~at.edited, past[id].fired # Unfired
             PROVE  at.stamp - past[id].fired >= at.copy.cooldown
  OBVIOUS
<1>1. Evaluate /\ id = at.copy.id /\ EvaluateFires
  BY OnlyEvaluateFires
<1>2. at.step = "evaluate" /\ at.copy \in Rules
  BY <1>1, Facts DEF Evaluate, Evaluating
<1>3. at.copy.fsm.ever /\ at.copy.fsm.last = past[id].fired
  BY <1>1, <1>2 DEF Remembered, CopyAgrees, Agrees, Evaluating
<1>4. ~CoolingDown(at.copy.fsm, at.copy)
  BY <1>1, <1>3 DEF EvaluateFires, ShouldFire
<1>5. /\ past[id].fired # 0 /\ past[id].fired <= at.stamp /\ past[id].fired \in Int
      /\ at.stamp \in Nat /\ at.copy.cooldown \in Nat
  BY <1>2, Facts DEF Remembered, Stamped, Rules
<1>6. QED
  BY <1>3, <1>4, <1>5 DEF CoolingDown

\* Fires of a rule that was left alone are a cooldown apart, however passes,
\* edits and timers interleave.
THEOREM CooldownKept == Spec => CooldownSpacing
<1>1. Init => Sound /\ Remembered
  BY InitSound, InitRemembered
<1>2. Sound /\ Remembered /\ [Next]_vars => (Sound /\ Remembered)'
  BY StepSound, StepRemembered
<1>3. QED
  BY <1>1, <1>2, SpacingStep, PTL DEF Spec, CooldownSpacing

\* An edge rule on a reading that fires again was false in between.
LEMMA FallStep ==
  Sound /\ Remembered /\ [Next]_vars =>
    \A id \in Ids :
       /\ Fires(id) /\ ~at.edited /\ past[id].fired # Unfired
       /\ at.copy.mode = "edge" /\ code[id] = "value"
       => past[id].rested
<1> SUFFICES ASSUME Sound, Remembered, [Next]_vars, NEW id \in Ids,
                    Fires(id), ~at.edited, past[id].fired # Unfired,
                    at.copy.mode = "edge", code[id] = "value"
             PROVE  past[id].rested
  OBVIOUS
<1>1. Evaluate /\ id = at.copy.id /\ EvaluateFires
  BY OnlyEvaluateFires
<1>2. Agrees(at.copy)
  BY <1>1 DEF Evaluate, Remembered, CopyAgrees, Evaluating
<1>3. at.copy.fsm.armed
  BY <1>1, <1>2 DEF Agrees, EvaluateFires, ShouldFire
<1>4. QED
  BY <1>1, <1>2, <1>3 DEF Agrees

\* An edge rule on a reading fires once per rise, however passes, edits and
\* timers interleave.
THEOREM EdgeKept == Spec => EdgeNeedsFall
<1>1. Init => Sound /\ Remembered
  BY InitSound, InitRemembered
<1>2. Sound /\ Remembered /\ [Next]_vars => (Sound /\ Remembered)'
  BY StepSound, StepRemembered
<1>3. QED
  BY <1>1, <1>2, FallStep, PTL DEF Spec, EdgeNeedsFall

-----------------------------------------------------------------------------
(* Wake-ups *)

\* A wake-up is never lost.
LEMMA WakeupStep == Sound /\ NoLostWakeup /\ [Next]_vars => NoLostWakeup'
<1> SUFFICES ASSUME Sound, NoLostWakeup, [Next]_vars, pending' # {} PROVE NoLostWakeup'
  BY DEF NoLostWakeup
<1>1. /\ presses \in Nat /\ owing \in Nat /\ pending \in SUBSET (1 .. presses)
      /\ at.seq \in Nat /\ at.due \in BOOLEAN
  BY DEF Sound, Typed, EngineType, OthersType, InRing
<1>2. ASSUME UNCHANGED <<pending, owing, bits, at>>
      PROVE  NoLostWakeup'
  BY <1>2 DEF NoLostWakeup
<1>3. CASE Submit \/ Press
  BY <1>1, <1>3 DEF Submit, Press, NoLostWakeup
<1>4. CASE Notify
  BY <1>4 DEF Notify, NoLostWakeup
<1>5. ASSUME NEW i \in Slots, TimerTick(i)
      PROVE  NoLostWakeup'
  BY <1>5 DEF TimerTick, NoLostWakeup
<1>6. ASSUME UNCHANGED <<pending, owing, bits>>, at'.step = at.step, at'.due = at.due, at'.seq = at.seq
      PROVE  NoLostWakeup'
  BY <1>6 DEF NoLostWakeup
<1>7. ASSUME NEW i \in Slots, NEW s, Create(i, s) \/ Update(i, s) \/ Delete(i) \/ SetEnabled(i)
      PROVE  NoLostWakeup'
  <2>1. UNCHANGED <<pending, owing, bits>> /\ (at' = at \/ ResetPast(slots[i].id))
    BY <1>7 DEF Create, Update, Delete, SetEnabled, Editing
  <2>2. at'.step = at.step /\ at'.due = at.due /\ at'.seq = at.seq
    BY <2>1 DEF ResetPast, Sound, Typed, EngineType
  <2>3. QED
    BY <1>6, <2>1, <2>2
<1>8. CASE Wake
  <2>1. pending' = pending /\ owing' = owing /\ at.step = "wait"
    BY <1>8 DEF Wake, EngineOnly
  <2>2. "VALUE" \in bits => at'.step = "debounce"
    BY <1>8 DEF Wake, Sound, Typed, EngineType
  <2>3. QED
    BY <2>1, <2>2 DEF NoLostWakeup
<1>9. CASE Debounced
  <2>1. at'.step = "begin" /\ ~at'.due
    BY <1>9 DEF Debounced, Sound, Typed, EngineType
  <2>2. QED
    BY <2>1 DEF NoLostWakeup
<1>10. CASE BeginPass
  <2>1. /\ UNCHANGED <<pending, owing, bits>> /\ at.step = "begin"
        /\ at'.step = "slot" /\ at'.due = at.due /\ at'.seq = Peek
    BY <1>10 DEF BeginPass, EngineOnly, Sound, Typed, EngineType
  <2>2. ~at.due => Max(pending') <= at'.seq
    BY <1>1, <2>1, MaxExists DEF Peek
  <2>3. QED
    BY <2>1, <2>2 DEF NoLostWakeup
<1>11. CASE TakeCopy \/ Evaluate \/ WriteBack
  <2>1. UNCHANGED <<pending, owing, bits>> /\ at.step \in {"slot", "evaluate", "back"}
    BY <1>11 DEF TakeCopy, Evaluate, WriteBack, EngineOnly
  <2>2. TakeCopy => at'.step \in {"slot", "evaluate"} /\ at'.due = at.due /\ at'.seq = at.seq
    BY DEF TakeCopy, Sound, Typed, EngineType
  <2>3. Evaluate => at'.step = "back" /\ at'.due = at.due /\ at'.seq = at.seq
    BY DEF Evaluate, Sound, Typed, EngineType
  <2>4. WriteBack => at'.step = "slot" /\ at'.due = at.due /\ at'.seq = at.seq
    BY DEF WriteBack, Sound, Typed, EngineType
  <2>5. QED
    BY <1>11, <2>1, <2>2, <2>3, <2>4 DEF NoLostWakeup
<1>12. CASE EndPass
  <2>1. /\ pending' = {n \in pending : n > at.seq} /\ UNCHANGED <<owing, bits>> /\ at.step = "slot"
    BY <1>12 DEF EndPass, EngineOnly
  <2>2. ~(Max(pending) <= at.seq)
    <3>1. PICK n \in pending : n > at.seq
      BY <2>1
    <3>2. Max(pending) \in pending /\ n <= Max(pending)
      BY <1>1, <3>1, MaxExists
    <3>5. \A m \in pending : m \in Nat
      BY <1>1
    <3>3. Max(pending) \in Nat /\ n \in Nat
      BY <3>1, <3>2, <3>5
    <3>4. QED
      BY <1>1, <3>1, <3>2, <3>3
  <2>3. QED
    BY <2>1, <2>2 DEF NoLostWakeup
<1>13. CASE Clock \/ WriteFiles \/ UNCHANGED vars
  BY <1>2, <1>13 DEF Clock, WriteFiles, vars
<1>14. QED
  BY <1>3, <1>4, <1>5, <1>7, <1>8, <1>9, <1>10, <1>11, <1>12, <1>13 DEF Next

\* While a press is pending, the engine has been told, is about to be, or is
\* in a pass that will consume it.
THEOREM WakeupKept == Spec => []NoLostWakeup
<1>1. Init => NoLostWakeup
  BY DEF Init, NoLostWakeup
<1>2. QED
  BY <1>1, SoundAlways, WakeupStep, PTL DEF Spec

-----------------------------------------------------------------------------
(* Counting *)

\* The rule that fired, and the fire that is not counted yet.
Late(id) == at.step = "back" /\ at.copy.id = id /\ at.outcome = "fired"

\* Counters and history agree after every step: ids identify, so a write-back
\* meets the rule its copy was taken from or none.
LEMMA CountStep ==
  Sound /\ Undrawn /\ CountsOwnFires /\ [Next]_vars => CountsOwnFires'
<1> DEFINE Right(i) == slots[i] # NoRule =>
                         slots[i].count + (IF Late(slots[i].id) THEN 1 ELSE 0) = past[slots[i].id].total
<1> SUFFICES ASSUME Sound, Undrawn, CountsOwnFires, [Next]_vars, NEW i \in Slots, slots'[i] # NoRule
             PROVE  Right(i)'
  BY DEF CountsOwnFires, Late
<1>1. Right(i)
  BY DEF CountsOwnFires, Late
<1>2. slots[i] # NoRule => slots[i] \in Rules /\ slots[i].id \in Ids /\ slots[i].count \in Nat
  BY Facts DEF Rules
<1>3. ASSUME slots[i] # NoRule, slots'[i].id = slots[i].id, slots'[i].count = slots[i].count, ~Evaluate,
             at'.step = at.step, at'.copy.id = at.copy.id, at'.outcome = at.outcome
      PROVE  Right(i)'
  <2>1. past'[slots[i].id].total = past[slots[i].id].total
    BY <1>2, <1>3, OnlyEvaluateCounts
  <2>2. QED
    BY <1>1, <1>3, <2>1 DEF Late
<1>4. CASE Evaluate
  <2>1. slots' = slots /\ at.step = "evaluate" /\ at'.step = "back" /\ at'.copy.id = at.copy.id
    BY <1>4, EvaluateEffect
  <2>2. CASE slots[i].id = at.copy.id
    <3>1. Late(slots[i].id)' <=> EvaluateFires
      BY <1>4, <2>1, <2>2, EvaluateEffect DEF Late
    <3>2. past'[slots[i].id].total = IF EvaluateFires THEN past[slots[i].id].total + 1
                                     ELSE past[slots[i].id].total
      BY <1>4, <2>2, EvaluateEffect
    <3>3. QED
      BY <1>1, <1>2, <2>1, <3>1, <3>2 DEF Late
  <2>3. CASE slots[i].id # at.copy.id
    <3>1. past'[slots[i].id] = past[slots[i].id]
      BY <1>2, <1>4, <2>1, <2>3, EvaluateEffect
    <3>2. QED
      BY <1>1, <2>1, <2>3, <3>1 DEF Late
  <2>4. QED
    BY <2>2, <2>3
<1>5. CASE WriteBack
  <2>1. /\ past' = past /\ at.step = "back" /\ at'.step = "slot"
    BY <1>5 DEF WriteBack, Sound, Typed, EngineType
  <2>2. CASE i \in Target /\ at.outcome # "unready"
    <3>1. /\ slots[i] # NoRule /\ slots[i].id = at.copy.id
          /\ slots'[i] = [slots[i] EXCEPT !.fsm = at.copy.fsm,
                             !.count = IF at.outcome = "fired" THEN @ + 1 ELSE @]
      BY <1>5, <2>2 DEF WriteBack, Target, SlotOf
    <3>2. /\ slots'[i].id = slots[i].id
          /\ slots'[i].count = IF at.outcome = "fired" THEN slots[i].count + 1 ELSE slots[i].count
      BY <1>2, <3>1 DEF Rules
    <3>3. QED
      BY <1>1, <1>2, <2>1, <3>1, <3>2 DEF Late
  <2>3. CASE ~(i \in Target /\ at.outcome # "unready")
    <3>1. slots'[i] = slots[i]
      BY <1>5, <2>3 DEF WriteBack
    <3>2. ~Late(slots[i].id)
      BY <2>3, <3>1 DEF Late, Target, SlotOf
    <3>3. QED
      BY <1>1, <2>1, <3>1, <3>2 DEF Late
  <2>4. QED
    BY <2>2, <2>3
<1>6. ASSUME NEW j \in Slots, NEW s \in Settings, Create(j, s)
      PROVE  Right(i)'
  <2>1. /\ slots' = [slots EXCEPT ![j] = NewRule(nextId, s)] /\ slots[j] = NoRule
        /\ at' = at /\ past' = past /\ nextId \in Ids /\ nextId \in Nat
    BY <1>6 DEF Create, Editing, Ids, Sound, Typed, OthersType
  <2>2. CASE i = j
    <3>1. slots'[i] = NewRule(nextId, s)
      BY <2>1, <2>2 DEF Sound, Typed, SlotsType
    <3>2. slots'[i].id = nextId /\ slots'[i].count = 0
      BY <3>1 DEF NewRule
    <3>3. past[nextId].total = 0
      BY <2>1 DEF Undrawn
    <3>4. ~Late(slots[i].id)'
      BY <2>1, <3>2, Facts DEF Late, Evaluating
    <3>5. QED
      BY <2>1, <3>2, <3>3, <3>4
  <2>3. CASE i # j
    <3>1. slots'[i] = slots[i]
      BY <2>1, <2>3 DEF Sound, Typed, SlotsType
    <3>2. QED
      BY <1>1, <2>1, <3>1 DEF Late
  <2>4. QED
    BY <2>2, <2>3
<1>7. ASSUME NEW j \in Slots, NEW s \in Settings, Update(j, s)
      PROVE  Right(i)'
  <2>1. /\ slots' = [slots EXCEPT ![j] = [NewRule(@.id, s) EXCEPT !.count = slots[j].count]]
        /\ slots[j] # NoRule /\ ResetPast(slots[j].id)
    BY <1>7 DEF Update
  <2>2. slots[i] # NoRule /\ slots'[i].id = slots[i].id /\ slots'[i].count = slots[i].count
    BY <2>1 DEF NewRule, Sound, Typed, SlotsType
  <2>3. at'.step = at.step /\ at'.copy.id = at.copy.id /\ at'.outcome = at.outcome
    BY <2>1 DEF ResetPast, Sound, Typed, EngineType
  <2>4. ~Evaluate
    BY <1>7, EditsAlone DEF Update, Sound
  <2>5. QED
    BY <1>3, <2>2, <2>3, <2>4
<1>8. ASSUME NEW j \in Slots, Delete(j) \/ SetEnabled(j)
      PROVE  Right(i)'
  <2>1. slots[i] # NoRule /\ slots'[i].id = slots[i].id /\ slots'[i].count = slots[i].count
    BY <1>8 DEF Delete, SetEnabled, Rules, Sound, Typed, SlotsType
  <2>2. at' = at \/ ResetPast(slots[j].id)
    BY <1>8 DEF Delete, SetEnabled
  <2>3. at'.step = at.step /\ at'.copy.id = at.copy.id /\ at'.outcome = at.outcome
    BY <2>2 DEF ResetPast, Sound, Typed, EngineType
  <2>4. ~Evaluate
    BY <1>8, EditsAlone DEF Delete, SetEnabled, Sound
  <2>5. QED
    BY <1>3, <2>1, <2>3, <2>4
<1>9. CASE Submit \/ Press \/ Notify \/ Clock \/ WriteFiles \/ UNCHANGED vars
  <2>1. slots' = slots /\ at' = at
    BY <1>9 DEF Submit, Press, Notify, Clock, WriteFiles, vars
  <2>2. past'[slots[i].id].total = past[slots[i].id].total
    <3>1. \/ past' = past \/ past' = [past EXCEPT ![saving.id].rested = TRUE]
          \/ Press
      BY <1>9 DEF Submit, Notify, Clock, WriteFiles, vars
    <3>2. Press => past'[slots[i].id].total = past[slots[i].id].total
      BY <1>2, <2>1 DEF Press, Sound, Typed, PastType
    <3>3. QED
      BY <1>2, <2>1, <3>1, <3>2 DEF Sound, Typed, PastType
  <2>3. QED
    BY <1>1, <2>1, <2>2 DEF Late
<1>10. ASSUME NEW j \in Slots, TimerTick(j)
       PROVE  Right(i)'
  <2>1. slots' = [slots EXCEPT ![j].due = TRUE] /\ at' = at /\ past' = past /\ slots[j] # NoRule
    BY <1>10 DEF TimerTick
  <2>2. slots[i] # NoRule /\ slots'[i].id = slots[i].id /\ slots'[i].count = slots[i].count
    BY <2>1 DEF Rules, Sound, Typed, SlotsType
  <2>3. QED
    BY <1>1, <2>1, <2>2 DEF Late
<1>11. CASE Wake \/ Debounced \/ BeginPass \/ TakeCopy \/ EndPass
  <2>1. past' = past /\ at.step \in {"wait", "debounce", "begin", "slot"}
    BY <1>11 DEF Wake, Debounced, BeginPass, TakeCopy, EndPass
  <2>2. at'.step # "back"
    <3>1. Wake \/ Debounced \/ BeginPass => at'.step # "back"
      BY DEF Wake, Debounced, BeginPass, Sound, Typed, EngineType
    <3>2. TakeCopy => at'.step # "back"
      BY DEF TakeCopy, Sound, Typed, EngineType
    <3>3. EndPass => at'.step # "back"
      BY DEF EndPass, Waiting
    <3>4. QED
      BY <1>11, <3>1, <3>2, <3>3
  <2>3. slots[i] # NoRule /\ slots'[i].id = slots[i].id /\ slots'[i].count = slots[i].count
    <3>1. slots' = slots \/ (at.slot \in Slots /\ slots[at.slot] # NoRule
                             /\ slots' = [slots EXCEPT ![at.slot].due = FALSE])
      BY <1>11 DEF Wake, Debounced, BeginPass, TakeCopy, Candidate, EndPass
    <3>2. QED
      BY <3>1 DEF Rules, Sound, Typed, SlotsType
  <2>4. QED
    BY <1>1, <2>1, <2>2, <2>3 DEF Late
<1>12. CASE Next
  <2>1. CASE \E j \in Slots, s \in Settings : Create(j, s) \/ Update(j, s)
    BY <1>6, <1>7, <2>1
  <2>2. CASE \E j \in Slots : TimerTick(j) \/ Delete(j) \/ SetEnabled(j)
    BY <1>8, <1>10, <2>2
  <2>3. QED
    BY <1>4, <1>5, <1>9, <1>11, <1>12, <2>1, <2>2 DEF Next
<1>13. QED
  BY <1>9, <1>12

\* A fire is counted for the rule that fired, whatever became of its slot.
THEOREM CountsKept == Spec => []CountsOwnFires
<1>1. Init => CountsOwnFires
  <2> SUFFICES ASSUME Init, NEW i \in Slots, slots[i] # NoRule
               PROVE  slots[i].count = 0 /\ past[slots[i].id].total = 0 /\ at.step = "wait"
    BY DEF CountsOwnFires, Init, Waiting
  <2>1. PICK s \in Settings : slots = [j \in Slots |-> IF j = 1 THEN NewRule(1, s) ELSE NoRule]
    BY DEF Init
  <2>2. slots[i] = NewRule(1, s)
    BY <2>1
  <2>3. slots[i].count = 0 /\ slots[i].id \in Ids
    BY <2>2, InitSound, Facts DEF NewRule
  <2>4. QED
    BY <2>3 DEF Init, Waiting, NoPast
<1>2. Init => Sound /\ Remembered
  BY InitSound, InitRemembered
<1>3. Sound /\ Remembered /\ [Next]_vars => (Sound /\ Remembered)'
  BY StepSound, StepRemembered
<1>4. Remembered => Undrawn
  BY DEF Remembered
<1>5. QED
  BY <1>1, <1>2, <1>3, <1>4, CountStep, PTL DEF Spec

-----------------------------------------------------------------------------
(* Types *)

\* No fire state remembers a fire that is still to come.
LastPast ==
  /\ \A i \in Slots : slots[i] # NoRule => slots[i].fsm.last <= now
  /\ Evaluating => at.copy.fsm.last <= now

\* A fire is stamped with a clock that has been read, or carried over.
LEMMA LastStep == Sound /\ LastPast /\ [Next]_vars => LastPast'
<1> SUFFICES ASSUME Sound, LastPast, [Next]_vars PROVE LastPast'
  OBVIOUS
<1> USE Facts
<1> DEFINE Good(i) == slots[i] # NoRule => slots[i].fsm.last <= now
<1>1. \A i \in Slots : Good(i) /\ (slots[i] # NoRule => slots[i].fsm.last \in Nat)
  BY DEF LastPast, Rules
<1>2. now' \in Nat /\ now' >= now
  <2>1. now' = now \/ now' = now + 1
    BY DEF Next, vars, Submit, Press, Notify, Clock, TimerTick, Delete, SetEnabled, Create, Update, Editing,
           WriteFiles, Wake, Debounced, BeginPass, TakeCopy, Evaluate, WriteBack, EndPass, EngineOnly
  <2>2. QED
    BY <2>1
<1>3. ASSUME NEW i \in Slots, slots'[i] # NoRule
      PROVE  \/ slots[i] # NoRule /\ slots'[i].fsm = slots[i].fsm
             \/ slots'[i].fsm.last = 0
             \/ Evaluating /\ slots'[i].fsm = at.copy.fsm
  <2> DEFINE Fine == \/ slots[i] # NoRule /\ slots'[i].fsm = slots[i].fsm
                     \/ slots'[i].fsm.last = 0
                     \/ Evaluating /\ slots'[i].fsm = at.copy.fsm
  <2>1. ASSUME NEW j \in Slots, NEW s \in Settings, Create(j, s) \/ Update(j, s)
        PROVE  Fine
    BY <1>3, <2>1 DEF Create, Update, NewRule, FreshFsm, Sound, Typed, SlotsType
  <2>2. ASSUME NEW j \in Slots, TimerTick(j) \/ Delete(j) \/ SetEnabled(j)
        PROVE  Fine
    BY <1>3, <2>2 DEF TimerTick, Delete, SetEnabled, FreshFsm, Rules, Sound, Typed, SlotsType
  <2>3. CASE TakeCopy
    BY <1>3, <2>3 DEF TakeCopy, Candidate, Rules, Sound, Typed, SlotsType
  <2>4. CASE WriteBack
    <3>1. slots[i] # NoRule => slots[i] \in Rules
      OBVIOUS
    <3>2. slots'[i] # slots[i] => slots[i] # NoRule /\ slots'[i] = [slots[i] EXCEPT !.fsm = at.copy.fsm,
                             !.count = IF at.outcome = "fired" THEN @ + 1 ELSE @]
      BY <2>4 DEF WriteBack, Target, SlotOf
    <3>3. Evaluating
      BY <2>4 DEF WriteBack, Evaluating
    <3>4. QED
      BY <1>3, <3>1, <3>2, <3>3 DEF Rules
  <2>5. CASE slots' = slots
    BY <1>3, <2>5
  <2>6. Submit \/ Press \/ Notify \/ Clock \/ WriteFiles \/ Wake \/ Debounced \/ BeginPass \/ Evaluate
        \/ EndPass \/ UNCHANGED vars => slots' = slots
    BY DEF Submit, Press, Notify, Clock, WriteFiles, Wake, Debounced, BeginPass, Evaluate, EndPass, vars
  <2>7. QED
    BY <2>1, <2>2, <2>3, <2>4, <2>5, <2>6 DEF Next
<1>4. \A i \in Slots : slots'[i] # NoRule => slots'[i].fsm.last <= now'
  <2> SUFFICES ASSUME NEW i \in Slots, slots'[i] # NoRule
               PROVE  slots'[i].fsm.last <= now'
    OBVIOUS
  <2>1. CASE slots[i] # NoRule /\ slots'[i].fsm = slots[i].fsm
    BY <1>1, <1>2, <2>1
  <2>2. CASE slots'[i].fsm.last = 0
    BY <1>2, <2>2
  <2>3. CASE Evaluating /\ slots'[i].fsm = at.copy.fsm
    BY <1>2, <2>3 DEF LastPast, Rules
  <2>4. QED
    BY <1>3, <2>1, <2>2, <2>3
<1>5. Evaluating' => at'.copy.fsm.last <= now'
  <2> DEFINE Ok == Evaluating' => at'.copy.fsm.last <= now'
  <2>1. ASSUME at'.step = at.step, at'.copy = at.copy
        PROVE  Ok
    BY <1>2, <2>1 DEF LastPast, Evaluating, Rules
  <2>2. ASSUME NEW j \in Slots, NEW s, Create(j, s) \/ Update(j, s) \/ Delete(j) \/ SetEnabled(j)
        PROVE  Ok
    <3>1. at' = at \/ ResetPast(slots[j].id)
      BY <2>2 DEF Create, Update, Delete, SetEnabled
    <3>2. at'.step = at.step /\ at'.copy = at.copy
      BY <3>1 DEF ResetPast, Sound, Typed, EngineType
    <3>3. QED
      BY <2>1, <3>2
  <2>3. CASE Evaluate
    <3>1. at'.copy.fsm.last = at.copy.fsm.last \/ at'.copy.fsm.last = at.stamp
      BY <2>3, EvaluateEffect DEF AfterEvaluation
    <3>2. Evaluating
      BY <2>3 DEF Evaluate, Evaluating
    <3>3. QED
      BY <1>2, <3>1, <3>2 DEF LastPast, Rules
  <2>4. CASE TakeCopy
    <3>1. CASE Candidate(slots[at.slot])
      <4>1. at.slot \in Slots /\ slots[at.slot] # NoRule /\ at'.copy = slots[at.slot]
        BY <2>4, <3>1 DEF TakeCopy, Candidate, Sound, Typed, EngineType
      <4>2. QED
        BY <1>1, <1>2, <4>1
    <3>2. CASE ~Candidate(slots[at.slot])
      <4>1. at'.step = at.step /\ at'.copy = at.copy
        BY <2>4, <3>2 DEF TakeCopy, Sound, Typed, EngineType
      <4>2. QED
        BY <2>1, <4>1
    <3>3. QED
      BY <3>1, <3>2
  <2>5. Wake \/ Debounced \/ BeginPass \/ WriteBack => at'.step \in {"debounce", "begin", "slot"}
    BY DEF Wake, Debounced, BeginPass, WriteBack, Sound, Typed, EngineType
  <2>6. EndPass => at'.step = "wait"
    BY DEF EndPass, Waiting
  <2>7. Submit \/ Press \/ Notify \/ Clock \/ WriteFiles \/ UNCHANGED vars => at' = at
    BY DEF Submit, Press, Notify, Clock, WriteFiles, vars
  <2>8. (\E j \in Slots : TimerTick(j)) => at' = at
    BY DEF TimerTick
  <2>9. QED
    BY <2>1, <2>2, <2>3, <2>4, <2>5, <2>6, <2>7, <2>8 DEF Next, Evaluating
<1>6. QED
  BY <1>4, <1>5 DEF LastPast

\* What the invariants say of types.
LEMMA TypesHold == Sound /\ LastPast => TypeOK
<1> SUFFICES ASSUME Sound, LastPast PROVE TypeOK
  OBVIOUS
<1>1. \A i \in Slots : slots[i] # NoRule =>
       /\ slots[i].id \in 1 .. nextId - 1
       /\ slots[i].fsm \in [armed: BOOLEAN, ever: BOOLEAN, last: 0 .. now]
       /\ \A j \in Slots \ {i} : slots[j] = NoRule \/ slots[j].id # slots[i].id
  <2> SUFFICES ASSUME NEW i \in Slots, slots[i] # NoRule
               PROVE  /\ slots[i].id \in 1 .. nextId - 1
                      /\ slots[i].fsm \in [armed: BOOLEAN, ever: BOOLEAN, last: 0 .. now]
                      /\ \A j \in Slots \ {i} : slots[j] = NoRule \/ slots[j].id # slots[i].id
    OBVIOUS
  <2>1. slots[i].fsm \in [armed: BOOLEAN, ever: BOOLEAN, last: Nat] /\ slots[i].fsm.last <= now /\ now \in Nat
    BY Facts DEF LastPast, Rules
  <2>2. slots[i].fsm \in [armed: BOOLEAN, ever: BOOLEAN, last: 0 .. now]
    BY <2>1
  <2>3. QED
    BY <2>2 DEF Sound, Identified
<1>2. Cardinality(pending) <= RingSize
  <2> DEFINE low == presses - RingSize + 1
  <2>1. pending \in SUBSET (low .. presses) /\ presses \in Nat /\ low \in Int
    BY DEF Sound, Typed, OthersType, InRing
  <2>2. IsFiniteSet(low .. presses) /\ Cardinality(low .. presses) = RingSize
    <3> HIDE DEF low
    <3>1. IsFiniteSet(low .. presses)
          /\ Cardinality(low .. presses) = IF low > presses THEN 0 ELSE presses - low + 1
      <4>1. presses \in Int
        BY <2>1
      <4>2. QED
        BY <2>1, <4>1, FS_Interval, Zenon
    <3>2. RingSize \in Nat \ {0}
      OBVIOUS
    <3>3. QED
      BY <2>1, <3>1, <3>2 DEF low
  <2>3. QED
    BY <2>1, <2>2, FS_Subset
<1>3. pending \subseteq 1 .. presses
  BY DEF Sound, Typed, OthersType, InRing
<1>4. QED
  BY <1>1, <1>2, <1>3 DEF TypeOK, Sound, Typed, OthersType, EngineType

\* Ids are never shared, the ring keeps its size, no fire is in the future.
THEOREM TypeCorrect == Spec => []TypeOK
<1>1. Init => LastPast
  BY InitSound, Facts DEF LastPast, Init, NewRule, FreshFsm, Evaluating, Waiting
<1>2. QED
  BY <1>1, SoundAlways, LastStep, TypesHold, PTL DEF Spec

-----------------------------------------------------------------------------
(* Presses *)

InPass == at.step \in {"slot", "evaluate", "back"}

WatchedBy(id, i) == slots[i] # NoRule /\ slots[i].id = id /\ slots[i].enabled

\* The pass has still to evaluate the rule in slot i.
Ahead(id, i) ==
  \/ i > at.slot
  \/ i = at.slot /\ at.step = "slot"
  \/ i = at.slot /\ at.step = "evaluate" /\ at.copy.id = id

\* A rule with presses to be shown watches the button and is not being edited,
\* and a full pass that will consume one of them has still to come to it.
OwesRule(id) ==
  past[id].owed # {} =>
    /\ past[id].owed \subseteq pending
    /\ code[id] = "press" /\ (saving = NoRule \/ saving.id # id)
    /\ \E i \in Slots :
         /\ WatchedBy(id, i)
         /\ InPass /\ ~at.due /\ (\E n \in past[id].owed : n <= at.seq) => Ahead(id, i)

Owes == \A id \in Ids : OwesRule(id)

\* A pass counts its slots from 1, and a periodic one consumes nothing.
PassShape == InPass => at.slot >= 1 /\ (at.due => at.seq = 0)

\* A step that leaves the rule, its presses and the engine's place alone.
LEMMA OwesUntouched ==
  ASSUME NEW id \in Ids, OwesRule(id), past'[id].owed = past[id].owed, pending' = pending,
         code'[id] = code[id], past[id].owed # {} => saving' = NoRule \/ saving'.id # id,
         \A i \in Slots : WatchedBy(id, i) => WatchedBy(id, i)',
         at'.step = at.step, at'.slot = at.slot, at'.due = at.due, at'.seq = at.seq, at'.copy = at.copy
  PROVE  OwesRule(id)'
BY DEF OwesRule, InPass, Ahead

\* The edits.
LEMMA EditOwes ==
  ASSUME Sound, Owes, NEW j \in Slots, NEW s,
         (s \in Settings /\ (Create(j, s) \/ Update(j, s))) \/ Delete(j) \/ SetEnabled(j)
  PROVE  Owes'
<1> SUFFICES ASSUME NEW id \in Ids, past'[id].owed # {} PROVE OwesRule(id)'
  BY DEF Owes, OwesRule
<1> USE Facts
<1>1. OwesRule(id)
  BY DEF Owes
<1>2. UNCHANGED <<pending, code>>
  BY DEF Create, Update, Delete, SetEnabled, Editing
<1>3. ASSUME slots[j] # NoRule, ResetPast(slots[j].id)
      PROVE  /\ id # slots[j].id /\ past'[id].owed = past[id].owed
             /\ at'.step = at.step /\ at'.slot = at.slot /\ at'.due = at.due
             /\ at'.seq = at.seq /\ at'.copy = at.copy
  BY <1>3 DEF ResetPast, NoPast, Sound, Typed, PastType, EngineType
<1>4. ASSUME \A i \in Slots \ {j} : slots'[i] = slots[i], slots[j] = NoRule \/ slots[j].id # id
      PROVE  \A i \in Slots : WatchedBy(id, i) => WatchedBy(id, i)'
  BY <1>4 DEF WatchedBy
<1>5. CASE s \in Settings /\ Create(j, s)
  <2>1. /\ past' = past /\ at' = at /\ saving'.id = nextId
        /\ slots[j] = NoRule /\ slots' = [slots EXCEPT ![j] = NewRule(nextId, s)]
    BY <1>5 DEF Create
  <2>2. \A i \in Slots \ {j} : slots'[i] = slots[i]
    BY <2>1 DEF Sound, Typed, SlotsType
  <2>3. past[id].owed # {} => nextId # id
    BY <1>1 DEF OwesRule, WatchedBy
  <2>4. QED
    BY <1>1, <1>2, <1>4, <2>1, <2>2, <2>3, OwesUntouched
<1>6. CASE (s \in Settings /\ Update(j, s)) \/ Delete(j)
  <2>1. slots[j] # NoRule /\ ResetPast(slots[j].id) /\ saving'.id = slots[j].id
    BY <1>6 DEF Update, Delete
  <2>2. \A i \in Slots \ {j} : slots'[i] = slots[i]
    BY <1>6 DEF Update, Delete, Sound, Typed, SlotsType
  <2>3. QED
    BY <1>1, <1>2, <1>3, <1>4, <2>1, <2>2, OwesUntouched
<1>7. CASE SetEnabled(j)
  <2>1. slots[j] # NoRule /\ saving' = saving /\ slots[j].id \in Ids
    BY <1>7 DEF SetEnabled
  <2>2. \A i \in Slots \ {j} : slots'[i] = slots[i]
    BY <1>7 DEF SetEnabled, Sound, Typed, SlotsType
  <2>3. past[id].owed # {} => saving' = NoRule \/ saving'.id # id
    BY <1>1, <2>1 DEF OwesRule
  <2>4. CASE slots[j].enabled
    <3>1. at' = at /\ past' = [past EXCEPT ![slots[j].id].owed = {}]
      BY <1>7, <2>4 DEF SetEnabled
    <3>2. id # slots[j].id /\ past'[id].owed = past[id].owed
      BY <2>1, <3>1 DEF Sound, Typed, PastType
    <3>3. QED
      BY <1>1, <1>2, <1>4, <2>1, <2>2, <2>3, <3>1, <3>2, OwesUntouched
  <2>5. CASE ~slots[j].enabled
    <3>1. ResetPast(slots[j].id)
      BY <1>7, <2>5 DEF SetEnabled
    <3>2. QED
      BY <1>1, <1>2, <1>3, <1>4, <2>1, <2>2, <2>3, <3>1, OwesUntouched
  <2>6. QED
    BY <2>4, <2>5
<1>8. QED
  BY <1>5, <1>6, <1>7

\* The producers, the timers and the files.
LEMMA OutsideOwes ==
  ASSUME Sound, Owes,
         Submit \/ Press \/ Notify \/ Clock \/ WriteFiles \/ UNCHANGED vars \/ \E i \in Slots : TimerTick(i)
  PROVE  Owes'
<1> SUFFICES ASSUME NEW id \in Ids, past'[id].owed # {} PROVE OwesRule(id)'
  BY DEF Owes, OwesRule
<1> USE Facts
<1>1. OwesRule(id)
  BY DEF Owes
<1>2. CASE Submit \/ Notify \/ Clock \/ UNCHANGED vars
  <2>1. UNCHANGED <<past, pending, code, saving, slots, at>>
    BY <1>2 DEF Submit, Notify, Clock, vars
  <2>2. QED
    BY <1>1, <2>1 DEF OwesRule, WatchedBy, InPass, Ahead
<1>3. ASSUME NEW j \in Slots, TimerTick(j)
      PROVE  OwesRule(id)'
  <2>1. UNCHANGED <<past, pending, code, saving, at>> /\ slots[j] # NoRule
        /\ slots' = [slots EXCEPT ![j].due = TRUE]
    BY <1>3 DEF TimerTick
  <2>2. slots'[j] \in Rules /\ slots'[j].id = slots[j].id /\ slots'[j].enabled = slots[j].enabled
        /\ \A i \in Slots \ {j} : slots'[i] = slots[i]
    <3>1. /\ slots[j] \in Rules /\ slots'[j] = [slots[j] EXCEPT !.due = TRUE]
          /\ \A i \in Slots \ {j} : slots'[i] = slots[i]
      BY <2>1 DEF Sound, Typed, SlotsType
    <3>2. QED
      BY <3>1 DEF Rules
  <2>3. \A i \in Slots : WatchedBy(id, i) => WatchedBy(id, i)'
    BY <2>2 DEF WatchedBy
  <2>4. past[id].owed # {} => saving' = NoRule \/ saving'.id # id
    BY <1>1, <2>1 DEF OwesRule
  <2>5. QED
    BY <1>1, <2>1, <2>3, <2>4, OwesUntouched
<1>4. CASE WriteFiles
  <2>1. /\ UNCHANGED <<pending, slots, at>> /\ saving' = NoRule /\ saving # NoRule
        /\ past' = [past EXCEPT ![saving.id].rested = TRUE]
        /\ code' = code \/ code' = [code EXCEPT ![saving.id] = saving.code]
    BY <1>4 DEF WriteFiles
  <2>2. past'[id].owed = past[id].owed
    BY <2>1 DEF Sound, Typed, PastType
  <2>3. saving.id # id
    BY <1>1, <2>1, <2>2 DEF OwesRule
  <2>4. code'[id] = code[id]
    BY <2>1, <2>3 DEF Sound, Typed, OthersType
  <2>5. \A i \in Slots : WatchedBy(id, i) => WatchedBy(id, i)'
    BY <2>1 DEF WatchedBy
  <2>6. QED
    BY <1>1, <2>1, <2>2, <2>4, <2>5, OwesUntouched
<1>5. CASE Press
  <2> DEFINE seq   == presses + 1
             fresh == {n \in {seq} : \E i \in SlotOf(id) : Watches(i)}
  <2>1. /\ UNCHANGED <<code, saving, slots, at>> /\ pending' = Kept(seq) \cup {seq}
        /\ past' = [x \in Ids |-> [past[x] EXCEPT !.owed =
                     (@ \cap Kept(seq)) \cup {n \in {seq} : \E i \in SlotOf(x) : Watches(i)}]]
    BY <1>5 DEF Press
  <2>2. past'[id].owed = (past[id].owed \cap Kept(seq)) \cup fresh
    BY <2>1 DEF Sound, Typed, PastType
  <2>3. past'[id].owed \subseteq pending'
    BY <2>1, <2>2
  <2>4. ASSUME fresh # {}
        PROVE  /\ code[id] = "press" /\ (saving = NoRule \/ saving.id # id)
               /\ \E i \in Slots : WatchedBy(id, i)
    BY <2>4 DEF Watches, SlotOf, WatchedBy
  <2>5. ASSUME past[id].owed # {}
        PROVE  code[id] = "press" /\ (saving = NoRule \/ saving.id # id)
    BY <1>1, <2>5 DEF OwesRule
  <2>6. code[id] = "press" /\ (saving = NoRule \/ saving.id # id)
    BY <2>2, <2>4, <2>5
  <2>7. ~(seq <= at.seq)
    BY DEF Sound, Typed, EngineType, OthersType
  <2>8. (\E n \in past'[id].owed : n <= at.seq) => \E n \in past[id].owed : n <= at.seq
    BY <2>2, <2>7
  <2>9. \E i \in Slots :
          /\ WatchedBy(id, i)
          /\ InPass /\ ~at.due /\ (\E n \in past'[id].owed : n <= at.seq) => Ahead(id, i)
    <3>1. CASE past[id].owed # {}
      BY <1>1, <2>8, <3>1 DEF OwesRule
    <3>2. CASE past[id].owed = {}
      BY <2>2, <2>4, <2>8, <3>2
    <3>3. QED
      BY <3>1, <3>2
  <2>10. QED
    BY <2>1, <2>3, <2>6, <2>9 DEF OwesRule, WatchedBy, InPass, Ahead
<1>6. QED
  BY <1>2, <1>3, <1>4, <1>5

\* A pass keeps its shape.
LEMMA ShapeStep == Sound /\ PassShape /\ [Next]_vars => PassShape'
<1> SUFFICES ASSUME Sound, PassShape, [Next]_vars PROVE PassShape'
  OBVIOUS
<1>1. ASSUME at'.step = at.step \/ InPass, at'.slot = at.slot \/ at'.slot = at.slot + 1,
             at'.due = at.due, at'.seq = at.seq
      PROVE  PassShape'
  BY <1>1 DEF PassShape, InPass, Sound, Typed, EngineType
<1>2. ASSUME NEW j \in Slots, NEW s, Create(j, s) \/ Update(j, s) \/ Delete(j) \/ SetEnabled(j)
      PROVE  PassShape'
  <2>1. at' = at \/ ResetPast(slots[j].id)
    BY <1>2 DEF Create, Update, Delete, SetEnabled
  <2>2. at'.step = at.step /\ at'.slot = at.slot /\ at'.due = at.due /\ at'.seq = at.seq
    BY <2>1 DEF ResetPast, Sound, Typed, EngineType
  <2>3. QED
    BY <1>1, <2>2
<1>3. CASE Wake \/ Debounced
  <2>1. at'.step \in {"debounce", "begin"}
    BY <1>3 DEF Wake, Debounced, Sound, Typed, EngineType
  <2>2. QED
    BY <2>1 DEF PassShape, InPass
<1>4. CASE BeginPass
  <2>1. at'.slot = 1 /\ at'.due = at.due /\ at'.seq = Peek
    BY <1>4 DEF BeginPass, Sound, Typed, EngineType
  <2>2. QED
    BY <2>1 DEF PassShape, InPass, Peek
<1>5. CASE TakeCopy \/ Evaluate \/ WriteBack
  <2>1. InPass /\ (at'.slot = at.slot \/ at'.slot = at.slot + 1) /\ at'.due = at.due /\ at'.seq = at.seq
    <3>1. InPass
      BY <1>5 DEF TakeCopy, Evaluate, WriteBack, InPass
    <3>2. TakeCopy => at'.slot \in {at.slot, at.slot + 1} /\ at'.due = at.due /\ at'.seq = at.seq
      <4>1. TakeCopy => \/ \E r \in Rules \cup {NoRule} :
                             at' = [at EXCEPT !.step = "evaluate", !.copy = r, !.edited = FALSE]
                        \/ at' = [at EXCEPT !.slot = @ + 1]
        BY DEF TakeCopy, Sound, Typed, SlotsType
      <4>2. EngineType
        BY DEF Sound, Typed
      <4>3. QED
        BY <4>1, <4>2 DEF EngineType
    <3>3. Evaluate => at'.slot = at.slot /\ at'.due = at.due /\ at'.seq = at.seq
      BY DEF Evaluate, Sound, Typed, EngineType
    <3>4. WriteBack => at'.slot = at.slot + 1 /\ at'.due = at.due /\ at'.seq = at.seq
      BY DEF WriteBack, Sound, Typed, EngineType
    <3>5. QED
      BY <1>5, <3>1, <3>2, <3>3, <3>4
  <2>2. QED
    BY <1>1, <2>1
<1>6. CASE EndPass
  <2>1. at'.step = "wait"
    BY <1>6 DEF EndPass, Waiting
  <2>2. QED
    BY <2>1 DEF PassShape, InPass
<1>7. Submit \/ Press \/ Notify \/ Clock \/ WriteFiles \/ UNCHANGED vars => at' = at
  BY DEF Submit, Press, Notify, Clock, WriteFiles, vars
<1>8. (\E j \in Slots : TimerTick(j)) => at' = at
  BY DEF TimerTick
<1>9. QED
  BY <1>1, <1>2, <1>3, <1>4, <1>5, <1>6, <1>7, <1>8 DEF Next

\* The engine task.
LEMMA EngineOwes ==
  ASSUME Sound, Owes, PassShape,
         Wake \/ Debounced \/ BeginPass \/ TakeCopy \/ Evaluate \/ WriteBack \/ EndPass
  PROVE  Owes'
<1> SUFFICES ASSUME NEW id \in Ids, past'[id].owed # {} PROVE OwesRule(id)'
  BY DEF Owes, OwesRule
<1> USE Facts
<1>1. OwesRule(id) /\ UNCHANGED <<code, saving>>
  BY DEF Owes, Wake, Debounced, BeginPass, TakeCopy, Evaluate, WriteBack, EndPass, EngineOnly
<1>2. CASE Wake \/ Debounced
  <2>1. UNCHANGED <<past, pending, slots>> /\ at'.step \in {"debounce", "begin"}
    BY <1>2 DEF Wake, Debounced, Sound, Typed, EngineType
  <2>2. QED
    BY <1>1, <2>1 DEF OwesRule, WatchedBy, InPass
<1>3. CASE BeginPass
  <2>1. UNCHANGED <<past, pending, slots>> /\ at'.step = "slot" /\ at'.slot = 1
    BY <1>3 DEF BeginPass, Sound, Typed, EngineType
  <2>2. \A i \in Slots : Ahead(id, i)'
    BY <2>1 DEF Ahead, Slots
  <2>3. QED
    BY <1>1, <2>1, <2>2 DEF OwesRule, WatchedBy
<1>4. CASE TakeCopy
  <2>1. UNCHANGED <<past, pending>> /\ at.step = "slot" /\ at.slot \in Slots
        /\ at'.due = at.due /\ at'.seq = at.seq
    BY <1>4 DEF TakeCopy, Sound, Typed, EngineType
  <2>2. PICK i \in Slots :
          /\ WatchedBy(id, i)
          /\ InPass /\ ~at.due /\ (\E n \in past[id].owed : n <= at.seq) => Ahead(id, i)
    BY <1>1, <2>1 DEF OwesRule
  <2>3. WatchedBy(id, i)'
    <3>1. slots' = slots \/ (slots[at.slot] # NoRule /\ slots' = [slots EXCEPT ![at.slot].due = FALSE])
      BY <1>4 DEF TakeCopy, Candidate
    <3>2. /\ slots[i] \in Rules
          /\ slots'[i] = slots[i] \/ slots'[i] = [slots[i] EXCEPT !.due = FALSE]
      BY <2>1, <2>2, <3>1 DEF WatchedBy, Sound, Typed, SlotsType
    <3>4. [slots[i] EXCEPT !.due = FALSE] \in Rules
          /\ [slots[i] EXCEPT !.due = FALSE].id = slots[i].id
          /\ [slots[i] EXCEPT !.due = FALSE].enabled = slots[i].enabled
      BY <3>2 DEF Rules
    <3>3. QED
      BY <2>2, <3>2, <3>4 DEF WatchedBy
  <2>4. ASSUME ~at.due, \E n \in past[id].owed : n <= at.seq
        PROVE  Ahead(id, i)'
    <3>1. i >= at.slot
      BY <2>1, <2>2, <2>4 DEF Ahead, InPass, Slots
    <3>2. CASE Candidate(slots[at.slot])
      <4>1. at'.step = "evaluate" /\ at'.copy = slots[at.slot] /\ at'.slot = at.slot
        <5>1. at' = [at EXCEPT !.step = "evaluate", !.copy = slots[at.slot], !.edited = FALSE]
          BY <1>4, <3>2 DEF TakeCopy
        <5>2. QED
          BY <5>1 DEF Sound, Typed, EngineType
      <4>2. QED
        BY <2>1, <2>2, <3>1, <4>1 DEF Ahead, WatchedBy, Slots
    <3>3. CASE ~Candidate(slots[at.slot])
      <4>1. at'.step = "slot" /\ at'.slot = at.slot + 1
        BY <1>4, <2>1, <3>3 DEF TakeCopy, Sound, Typed, EngineType
      <4>2. i # at.slot
        BY <2>2, <2>4, <3>3 DEF Candidate, WatchedBy
      <4>3. QED
        BY <2>1, <3>1, <4>1, <4>2 DEF Ahead, Slots
    <3>4. QED
      BY <3>2, <3>3
  <2>5. QED
    BY <1>1, <2>1, <2>3, <2>4 DEF OwesRule
<1>5. CASE Evaluate
  <2>1. UNCHANGED <<slots, pending>> /\ at.step = "evaluate" /\ at'.step = "back"
        /\ at'.slot = at.slot /\ at'.due = at.due /\ at'.seq = at.seq
    BY <1>5 DEF Evaluate, Sound, Typed, EngineType
  <2>2. id # at.copy.id
    <3> SUFFICES ASSUME id = at.copy.id PROVE FALSE
      OBVIOUS
    <3>1. past'[id].owed = IF code[id] = "press" THEN past[id].owed \ pending ELSE past[id].owed
      BY <1>5 DEF Evaluate, Sound, Typed, PastType
    <3>2. QED
      BY <1>1, <3>1 DEF OwesRule
  <2>3. past'[id] = past[id]
    BY <1>5, <2>2, EvaluateEffect
  <2>4. \A i \in Slots : Ahead(id, i) => Ahead(id, i)'
    BY <2>1, <2>2 DEF Ahead
  <2>5. QED
    BY <1>1, <2>1, <2>3, <2>4 DEF OwesRule, WatchedBy, InPass
<1>6. CASE WriteBack
  <2>1. UNCHANGED <<past, pending>> /\ at.step = "back" /\ at.slot \in Slots
        /\ at'.step = "slot" /\ at'.slot = at.slot + 1 /\ at'.due = at.due /\ at'.seq = at.seq
    BY <1>6 DEF WriteBack, Sound, Typed, EngineType, Identified, Evaluating
  <2>2. \A i \in Slots : WatchedBy(id, i) => WatchedBy(id, i)'
    <3> SUFFICES ASSUME NEW i \in Slots, WatchedBy(id, i) PROVE WatchedBy(id, i)'
      OBVIOUS
    <3>1. slots'[i] \in Rules /\ slots'[i].id = slots[i].id /\ slots'[i].enabled = slots[i].enabled
      BY <1>6, WriteBackRule DEF WatchedBy
    <3>2. QED
      BY <3>1 DEF WatchedBy
  <2>3. \A i \in Slots : Ahead(id, i) => Ahead(id, i)'
    BY <2>1 DEF Ahead, Slots
  <2>4. QED
    BY <1>1, <2>1, <2>2, <2>3 DEF OwesRule, InPass
<1>7. CASE EndPass
  <2>1. /\ UNCHANGED <<past, slots>> /\ pending' = {n \in pending : n > at.seq}
        /\ at.step = "slot" /\ at.slot \notin Slots /\ at'.step = "wait"
    BY <1>7 DEF EndPass, Waiting
  <2>2. at.slot > MaxRules /\ at.seq \in Nat /\ pending \subseteq Nat \ {0}
    BY <2>1 DEF PassShape, InPass, Slots, Sound, Typed, EngineType, OthersType, InRing
  <2>3. \A i \in Slots : ~Ahead(id, i)
    <3>1. \A i \in Slots : ~(i > at.slot) /\ i # at.slot
      BY <2>1, <2>2 DEF Slots, Sound, Typed, EngineType
    <3>2. QED
      BY <3>1 DEF Ahead
  <2>4. past[id].owed \subseteq pending
    BY <1>1, <2>1 DEF OwesRule
  <2>5. \A n \in past[id].owed : n > at.seq
    <3>5. \A n \in pending : n \in Nat /\ n > 0
      BY <2>2
    <3>4. \A n \in past[id].owed : n \in Nat /\ n > 0
      BY <2>4, <3>5
    <3>1. CASE at.due
      <4>1. at.seq = 0
        BY <2>1, <3>1 DEF PassShape, InPass
      <4>2. QED
        BY <3>4, <4>1
    <3>2. CASE ~at.due
      <4>1. ~\E n \in past[id].owed : n <= at.seq
        BY <1>1, <2>1, <2>3, <3>2 DEF OwesRule, InPass
      <4>2. QED
        BY <2>2, <3>4, <4>1
    <3>3. QED
      BY <3>1, <3>2
  <2>6. past'[id].owed \subseteq pending'
    BY <2>1, <2>4, <2>5
  <2>7. QED
    BY <1>1, <2>1, <2>6 DEF OwesRule, WatchedBy, InPass
<1>8. QED
  BY <1>2, <1>3, <1>4, <1>5, <1>6, <1>7

\* A press is not consumed before the rules that watched the button have been
\* shown it.
THEOREM PressShown == Spec => []PressNotSwallowed
<1>1. Init => Owes /\ PassShape
  <2> SUFFICES ASSUME Init PROVE Owes /\ PassShape
    OBVIOUS
  <2>1. \A id \in Ids : past[id].owed = {}
    BY DEF Init, NoPast
  <2>2. ~InPass
    BY DEF Init, Waiting, InPass
  <2>3. QED
    BY <2>1, <2>2 DEF Owes, OwesRule, PassShape
<1>2. Sound /\ Owes /\ PassShape /\ [Next]_vars => Owes' /\ PassShape'
  <2> SUFFICES ASSUME Sound, Owes, PassShape, [Next]_vars PROVE Owes' /\ PassShape'
    OBVIOUS
  <2>1. CASE \E i \in Slots, s \in Settings : Create(i, s) \/ Update(i, s)
    BY <2>1, EditOwes, ShapeStep
  <2>2. CASE \E i \in Slots : Delete(i) \/ SetEnabled(i)
    BY <2>2, EditOwes, ShapeStep
  <2>3. QED
    BY <2>1, <2>2, OutsideOwes, EngineOwes, ShapeStep DEF Next
<1>3. Owes => PressNotSwallowed
  BY DEF Owes, OwesRule, PressNotSwallowed
<1>4. QED
  BY <1>1, <1>2, <1>3, SoundAlways, PTL DEF Spec

=============================================================================
