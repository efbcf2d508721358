----------------------------- MODULE GuardTable -----------------------------
(***************************************************************************)
(* The actor guard table of components/actors/actor_table.c, as operators  *)
(* on a table value.                                                       *)
(*                                                                         *)
(* A table is a function from the claimed devices to their rows, and a row *)
(* holds one slot per declared (action, endpoint) pair.  An array entry    *)
(* the C code marks free (dev_idx = -1, ACTION_NONE) is a point outside    *)
(* the domain, so "reset to what actor_table_init() leaves" and "not       *)
(* there" are the same thing here.                                         *)
(***************************************************************************)
EXTENDS Integers, FiniteSets, Functions

CONSTANTS
  Devices,     \* registry indices (dev_idx) that can carry actions
  Keys,        \* stable device identities (device_id_t)
  NoKey,       \* the all-zero key
  Actions,     \* known action ids
  HardMax,     \* firmware bound of each action; 0 for one without parameter
  Endpoints,   \* real endpoint numbers; 0 is "unspecified"
  MaxDevices,  \* ACTOR_MAX_DEVICES
  MaxActions,  \* ACTOR_MAX_ACTIONS
  Window,      \* ACTOR_WINDOW_S
  CountMax     \* UINT8_MAX, where window_count saturates

ASSUME GuardTableAssumption ==
  /\ Devices # {} /\ Actions # {}
  /\ NoKey \notin Keys
  /\ HardMax \in [Actions -> Nat]
  /\ Endpoints \subseteq Nat \ {0}
  /\ MaxDevices \in Nat \ {0} /\ MaxActions \in Nat \ {0}
  /\ Window \in Nat \ {0}
  /\ CountMax \in Nat \ {0}

Pairs == Actions \X Endpoints

Rule   == "RULE"
Manual == "MANUAL"
Safety == "SAFETY"
Remote == "REMOTE"
Sources == {Rule, Manual, Safety, Remote}

Slot == [paramMax: Nat, timedOff: BOOLEAN, cooldown: Nat, perHour: 0 .. CountMax,
         count: 0 .. CountMax, lastFire: Nat, windowStart: Nat]

IsRow(r) ==
  /\ r = [lockout |-> r.lockout, key |-> r.key, slots |-> r.slots]
  /\ r.lockout \in BOOLEAN
  /\ r.key \in Keys \cup {NoKey}
  /\ DOMAIN r.slots \subseteq Pairs
  /\ r.slots \in [DOMAIN r.slots -> Slot]

IsTable(t) ==
  /\ t = [d \in DOMAIN t |-> t[d]]
  /\ DOMAIN t \subseteq Devices
  /\ \A d \in DOMAIN t : IsRow(t[d])

EmptyTable == [d \in {} |-> 0]

Declared(t, d, p) == d \in DOMAIN t /\ p \in DOMAIN t[d].slots

NoSlots == [p \in {} |-> 0]

NewRow == [lockout |-> FALSE, key |-> NoKey, slots |-> NoSlots]

(***************************************************************************)
(* Lowest endpoint on which the device declares the action; a request that *)
(* names endpoint 0 means that one, and 0 when there is none.              *)
(***************************************************************************)
EndpointsOf(t, d, a) ==
  IF d \in DOMAIN t THEN {p[2] : p \in {q \in DOMAIN t[d].slots : q[1] = a}} ELSE {}

ResolveEndpoint(t, d, a, e) ==
  LET declared == EndpointsOf(t, d, a)
  IN  IF e # 0 \/ declared = {} THEN e
      ELSE CHOOSE m \in declared : \A o \in declared : m <= o

-----------------------------------------------------------------------------
(* Declaring and undeclaring *)

\* The device has a row, or one is free for it.
RowAvailable(t, d) == d \in DOMAIN t \/ Cardinality(DOMAIN t) < MaxDevices

CanAdd(t, d, p) ==
  /\ RowAvailable(t, d)
  /\ \/ Declared(t, d, p)
     \/ d \notin DOMAIN t
     \/ Cardinality(DOMAIN t[d].slots) < MaxActions

\* A re-declared pair keeps its guards and its spent budget; only the bound
\* and the flags are refreshed.  A new pair starts clean.
DeclaredSlot(t, d, p, max, timedOff) ==
  LET bound == IF max < HardMax[p[1]] THEN max ELSE HardMax[p[1]]
  IN  IF Declared(t, d, p)
      THEN [t[d].slots[p] EXCEPT !.paramMax = bound, !.timedOff = timedOff]
      ELSE [paramMax |-> bound, timedOff |-> timedOff, cooldown |-> 0, perHour |-> 0,
            count |-> 0, lastFire |-> 0, windowStart |-> 0]

WithSlot(row, p, s) ==
  [row EXCEPT !.slots = [q \in DOMAIN row.slots \cup {p} |->
                           IF q = p THEN s ELSE row.slots[q]]]

WithRow(t, d, row) ==
  [x \in DOMAIN t \cup {d} |-> IF x = d THEN row ELSE t[x]]

RowOf(t, d) == IF d \in DOMAIN t THEN t[d] ELSE NewRow

Add(t, d, p, max, timedOff) ==
  IF CanAdd(t, d, p)
  THEN WithRow(t, d, WithSlot(RowOf(t, d), p, DeclaredSlot(t, d, p, max, timedOff)))
  ELSE t

Free(t, d) == Restrict(t, DOMAIN t \ {d})

\* Drops the slots whose action (on whatever endpoint) is not in "actions";
\* a row left without slots is freed with its key and its lockout.
PruneAbsent(t, d, actions) ==
  IF d \notin DOMAIN t THEN t
  ELSE LET kept == {p \in DOMAIN t[d].slots : p[1] \in actions}
       IN  IF kept = DOMAIN t[d].slots THEN t
           ELSE IF kept = {} THEN Free(t, d)
           ELSE [t EXCEPT ![d].slots = Restrict(@, kept)]

SetGuards(t, d, p, cooldown, perHour) ==
  [t EXCEPT ![d].slots[p] = [@ EXCEPT !.cooldown = cooldown, !.perHour = perHour]]

SetLockout(t, d, on) ==
  IF d \in DOMAIN t THEN [t EXCEPT ![d].lockout = on] ELSE t

SetKey(t, d, k) ==
  IF d \in DOMAIN t THEN [t EXCEPT ![d].key = k] ELSE t

-----------------------------------------------------------------------------
(* Checking and charging *)

ParamOk(a, param) == IF HardMax[a] = 0 THEN param = 0 ELSE param \in 1 .. HardMax[a]

\* A clock that went backwards counts as "still inside".
WindowStillOpen(s, now) == s.count > 0 /\ (now < s.windowStart \/ now - s.windowStart < Window)

CoolingDown(s, now) ==
  s.cooldown > 0 /\ s.count > 0 /\ (now < s.lastFire \/ now - s.lastFire < s.cooldown)

\* Mutant of RateSpent: one command too many per window.
RateSpentLate(s, now) ==
  s.perHour > 0 /\ (IF WindowStillOpen(s, now) THEN s.count ELSE 0) > s.perHour

RateSpent(s, now) ==
  s.perHour > 0 /\ (IF WindowStillOpen(s, now) THEN s.count ELSE 0) >= s.perHour

Check(t, d, a, e, param, source, now) ==
  LET p == <<a, ResolveEndpoint(t, d, a, e)>>
      s == t[d].slots[p]
  IN  CASE ~Declared(t, d, p) -> "UNKNOWN"
        [] OTHER ->
             IF ~ParamOk(a, param) \/ param > s.paramMax THEN "BOUND"
             ELSE IF t[d].lockout /\ source \in {Rule, Remote} THEN "LOCKOUT"
             ELSE IF source = Safety THEN "OK"
             ELSE IF CoolingDown(s, now) THEN "COOLDOWN"
             ELSE IF RateSpent(s, now) THEN "RATE"
             ELSE "OK"

\* The window is fixed: it reopens Window seconds after its start, whatever
\* was fired in between.
Charged(s, now) ==
  LET elapsed == now >= s.windowStart /\ now - s.windowStart >= Window
  IN  IF s.count = 0 \/ elapsed
      THEN [s EXCEPT !.lastFire = now, !.windowStart = now, !.count = 1]
      ELSE [s EXCEPT !.lastFire = now,
                     !.count = IF @ < CountMax THEN @ + 1 ELSE @]

Record(t, d, a, e, now) ==
  LET p == <<a, ResolveEndpoint(t, d, a, e)>>
  IN  IF Declared(t, d, p) THEN [t EXCEPT ![d].slots[p] = Charged(@, now)] ELSE t

=============================================================================
