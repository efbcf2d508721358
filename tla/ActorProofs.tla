----------------------------- MODULE ActorProofs -----------------------------
(***************************************************************************)
(* Proofs about Actor and GuardPersist, for every value of their           *)
(* constants: whatever rows, commands, callers and cooldowns there are.    *)
(* Both stand on the lemmas about guard tables that come first.            *)
(***************************************************************************)
EXTENDS Actor, GuardPersist, FiniteSetTheorems, WellFoundedInduction, TLAPS

-----------------------------------------------------------------------------
(* Rows and slots *)

LEMMA RowFacts ==
  ASSUME NEW t, IsTable(t), NEW d \in DOMAIN t
  PROVE  /\ d \in Devices
         /\ IsRow(t[d])
         /\ t[d].lockout \in BOOLEAN /\ t[d].key \in Keys \cup {NoKey}
         /\ DOMAIN t[d].slots \subseteq Pairs
         /\ t[d].slots \in [DOMAIN t[d].slots -> Slot]
  BY DEF IsTable, IsRow

LEMMA SlotFacts ==
  ASSUME NEW t, IsTable(t), NEW d, NEW p, Declared(t, d, p)
  PROVE  d \in Devices /\ p \in Pairs /\ t[d].slots[p] \in Slot
  BY RowFacts DEF Declared

\* A row built from its three fields.
LEMMA RowIntro ==
  ASSUME NEW l \in BOOLEAN, NEW k \in Keys \cup {NoKey}, NEW s,
         DOMAIN s \subseteq Pairs, s \in [DOMAIN s -> Slot]
  PROVE  IsRow([lockout |-> l, key |-> k, slots |-> s])
  BY DEF IsRow

\* Replacing the slots of a row.
LEMMA RowSlots ==
  ASSUME NEW r, IsRow(r), NEW s, DOMAIN s \subseteq Pairs, s \in [DOMAIN s -> Slot]
  PROVE  /\ IsRow([r EXCEPT !.slots = s])
         /\ [r EXCEPT !.slots = s].slots = s
         /\ [r EXCEPT !.slots = s].lockout = r.lockout
         /\ [r EXCEPT !.slots = s].key = r.key
<1>1. r = [lockout |-> r.lockout, key |-> r.key, slots |-> r.slots]
  BY DEF IsRow
<1>2. [r EXCEPT !.slots = s] = [lockout |-> r.lockout, key |-> r.key, slots |-> s]
  BY <1>1
<1>3. r.lockout \in BOOLEAN /\ r.key \in Keys \cup {NoKey}
  BY DEF IsRow
<1>4. QED
  BY <1>2, <1>3, RowIntro

\* Updating a row that is there is the same thing.
LEMMA ExceptIsWithRow ==
  ASSUME NEW t, IsTable(t), NEW d \in DOMAIN t, NEW r
  PROVE  [t EXCEPT ![d] = r] = WithRow(t, d, r)
<1>1. t = [x \in DOMAIN t |-> t[x]] /\ DOMAIN t \cup {d} = DOMAIN t
  BY DEF IsTable
<1>2. QED
  BY <1>1 DEF WithRow

-----------------------------------------------------------------------------
(* actor_table_add() *)

LEMMA DeclaredSlotType ==
  ASSUME GuardTableAssumption, NEW t, IsTable(t), NEW d \in Devices, NEW p \in Pairs,
         NEW max \in Nat, NEW timedOff \in BOOLEAN
  PROVE  DeclaredSlot(t, d, p, max, timedOff) \in Slot
<1> DEFINE limit == IF max < HardMax[p[1]] THEN max ELSE HardMax[p[1]]
<1>1. p[1] \in Actions
  BY DEF Pairs
<1>2. limit \in Nat
  BY <1>1 DEF GuardTableAssumption
<1>3. 0 \in 0 .. CountMax
  BY DEF GuardTableAssumption
<1>4. CASE Declared(t, d, p)
  <2>1. t[d].slots[p] \in Slot
    BY <1>4, SlotFacts
  <2>2. DeclaredSlot(t, d, p, max, timedOff)
          = [t[d].slots[p] EXCEPT !.paramMax = limit, !.timedOff = timedOff]
    BY <1>4 DEF DeclaredSlot
  <2> HIDE DEF limit
  <2>3. QED
    BY <1>2, <2>1, <2>2 DEF Slot
<1>5. CASE ~Declared(t, d, p)
  <2>1. DeclaredSlot(t, d, p, max, timedOff)
          = [paramMax |-> limit, timedOff |-> timedOff, cooldown |-> 0, perHour |-> 0,
             count |-> 0, lastFire |-> 0, windowStart |-> 0]
    BY <1>5 DEF DeclaredSlot
  <2> HIDE DEF limit
  <2>2. QED
    BY <1>2, <1>3, <2>1 DEF Slot
<1>6. QED
  BY <1>4, <1>5

LEMMA RowOfIsRow ==
  ASSUME NEW t, IsTable(t), NEW d
  PROVE  IsRow(RowOf(t, d))
<1>1. CASE d \in DOMAIN t
  BY <1>1, RowFacts DEF RowOf
<1>2. CASE d \notin DOMAIN t
  <2>1. DOMAIN NoSlots = {} /\ NoSlots \in [DOMAIN NoSlots -> Slot]
    BY DEF NoSlots
  <2>2. IsRow(NewRow)
    BY <2>1, RowIntro DEF NewRow
  <2>3. QED
    BY <1>2, <2>2 DEF RowOf
<1>3. QED
  BY <1>1, <1>2

LEMMA WithSlotIsRow ==
  ASSUME NEW r, IsRow(r), NEW p \in Pairs, NEW s \in Slot
  PROVE  /\ IsRow(WithSlot(r, p, s))
         /\ DOMAIN WithSlot(r, p, s).slots = DOMAIN r.slots \cup {p}
         /\ WithSlot(r, p, s).slots[p] = s
         /\ \A q \in DOMAIN r.slots : q # p => WithSlot(r, p, s).slots[q] = r.slots[q]
         /\ WithSlot(r, p, s).lockout = r.lockout
<1> DEFINE f == [q \in DOMAIN r.slots \cup {p} |-> IF q = p THEN s ELSE r.slots[q]]
<1>1. DOMAIN f \subseteq Pairs /\ f \in [DOMAIN f -> Slot] /\ DOMAIN f = DOMAIN r.slots \cup {p}
  BY DEF IsRow
<1>2. WithSlot(r, p, s) = [r EXCEPT !.slots = f]
  BY DEF WithSlot
<1>3. f[p] = s /\ \A q \in DOMAIN r.slots : q # p => f[q] = r.slots[q]
  OBVIOUS
<1> HIDE DEF f
<1>4. QED
  BY <1>1, <1>2, <1>3, RowSlots

\* Declaring a pair never touches the history of one that is declared.
LEMMA AddFacts ==
  ASSUME GuardTableAssumption, NEW t, IsTable(t), NEW d \in Devices, NEW p \in Pairs,
         NEW max \in Nat, NEW timedOff \in BOOLEAN
  PROVE  /\ IsTable(Add(t, d, p, max, timedOff))
         /\ \A x \in DOMAIN t : \A q \in DOMAIN t[x].slots :
              LET s == Add(t, d, p, max, timedOff)[x].slots[q]
              IN  /\ Declared(Add(t, d, p, max, timedOff), x, q)
                  /\ s.count = t[x].slots[q].count
                  /\ s.lastFire = t[x].slots[q].lastFire
                  /\ s.cooldown = t[x].slots[q].cooldown
                  /\ s.perHour = t[x].slots[q].perHour
                  /\ s.windowStart = t[x].slots[q].windowStart
         /\ \A x, q : Declared(Add(t, d, p, max, timedOff), x, q) =>
              Declared(t, x, q) \/ Add(t, d, p, max, timedOff)[x].slots[q].count = 0
<1> DEFINE s == DeclaredSlot(t, d, p, max, timedOff)
           r == WithSlot(RowOf(t, d), p, s)
<1>1. CASE ~CanAdd(t, d, p)
  BY <1>1 DEF Add, Declared
<1>2. CASE CanAdd(t, d, p)
  <2>1. Add(t, d, p, max, timedOff) = WithRow(t, d, r)
    BY <1>2 DEF Add
  <2>2. s \in Slot
    BY DeclaredSlotType
  <2>3. /\ IsRow(r)
        /\ DOMAIN r.slots = DOMAIN RowOf(t, d).slots \cup {p}
        /\ r.slots[p] = s
        /\ \A q \in DOMAIN RowOf(t, d).slots : q # p => r.slots[q] = RowOf(t, d).slots[q]
    BY <2>2, RowOfIsRow, WithSlotIsRow
  <2>4. Declared(t, d, p) => /\ s.count = t[d].slots[p].count
                             /\ s.lastFire = t[d].slots[p].lastFire
                             /\ s.cooldown = t[d].slots[p].cooldown
                             /\ s.perHour = t[d].slots[p].perHour
                             /\ s.windowStart = t[d].slots[p].windowStart
    <3>1. SUFFICES ASSUME Declared(t, d, p)
                   PROVE  /\ s.count = t[d].slots[p].count
                          /\ s.lastFire = t[d].slots[p].lastFire
                          /\ s.cooldown = t[d].slots[p].cooldown
                          /\ s.perHour = t[d].slots[p].perHour
                          /\ s.windowStart = t[d].slots[p].windowStart
      OBVIOUS
    <3>2. t[d].slots[p] \in Slot
      BY <3>1, SlotFacts
    <3>3. QED
      BY <3>1, <3>2 DEF DeclaredSlot, Slot
  <2>8. ~Declared(t, d, p) => s.count = 0
    BY DEF DeclaredSlot
  <2>5. /\ IsTable(WithRow(t, d, r))
        /\ DOMAIN WithRow(t, d, r) = DOMAIN t \cup {d}
        /\ WithRow(t, d, r)[d] = r
        /\ \A x \in DOMAIN t : x # d => WithRow(t, d, r)[x] = t[x]
    <3>1. IsRow(r)
      BY <2>3
    <3> HIDE DEF s, r
    <3>2. QED
      BY <3>1 DEF WithRow, IsTable
  <2> HIDE DEF s, r
  <2>6. ASSUME NEW x \in DOMAIN t, NEW q \in DOMAIN t[x].slots
        PROVE  /\ Declared(WithRow(t, d, r), x, q)
               /\ WithRow(t, d, r)[x].slots[q].count = t[x].slots[q].count
               /\ WithRow(t, d, r)[x].slots[q].lastFire = t[x].slots[q].lastFire
               /\ WithRow(t, d, r)[x].slots[q].cooldown = t[x].slots[q].cooldown
               /\ WithRow(t, d, r)[x].slots[q].perHour = t[x].slots[q].perHour
               /\ WithRow(t, d, r)[x].slots[q].windowStart = t[x].slots[q].windowStart
    <3>1. CASE x # d
      BY <2>5, <3>1 DEF Declared
    <3>2. CASE x = d
      <4>1. RowOf(t, d) = t[d]
        BY <3>2 DEF RowOf
      <4>2. QED
        BY <2>3, <2>4, <2>5, <3>2, <4>1 DEF Declared
    <3>3. QED
      BY <3>1, <3>2
  <2>7. ASSUME NEW x, NEW q, Declared(WithRow(t, d, r), x, q)
        PROVE  Declared(t, x, q) \/ WithRow(t, d, r)[x].slots[q].count = 0
    <3>1. CASE x # d
      BY <2>5, <2>7, <3>1 DEF Declared
    <3>2. CASE x = d /\ d \in DOMAIN t
      <4>1. RowOf(t, d) = t[d]
        BY <3>2 DEF RowOf
      <4>2. QED
        BY <2>3, <2>5, <2>7, <2>8, <3>2, <4>1 DEF Declared
    <3>3. CASE x = d /\ d \notin DOMAIN t
      <4>1. DOMAIN RowOf(t, d).slots = {}
        BY <3>3 DEF RowOf, NewRow, NoSlots
      <4>2. QED
        BY <2>3, <2>5, <2>7, <2>8, <3>3, <4>1 DEF Declared
    <3>4. QED
      BY <3>1, <3>2, <3>3
  <2>9. QED
    BY <2>1, <2>5, <2>6, <2>7
<1>3. QED
  BY <1>1, <1>2

-----------------------------------------------------------------------------
(* actor_table_free() and actor_table_prune_absent() *)

LEMMA FreeFacts ==
  ASSUME NEW t, IsTable(t), NEW d
  PROVE  /\ IsTable(Free(t, d))
         /\ DOMAIN Free(t, d) = DOMAIN t \ {d}
         /\ \A x \in DOMAIN t \ {d} : Free(t, d)[x] = t[x]
<1>1. Free(t, d) = [x \in DOMAIN t \ {d} |-> t[x]]
  BY DEF Free, Restrict
<1>2. QED
  BY <1>1 DEF IsTable

\* Pruning only ever removes: what stays is untouched.
LEMMA PruneFacts ==
  ASSUME NEW t, IsTable(t), NEW d, NEW actions
  PROVE  /\ IsTable(PruneAbsent(t, d, actions))
         /\ \A x, q : Declared(PruneAbsent(t, d, actions), x, q) =>
              /\ Declared(t, x, q)
              /\ PruneAbsent(t, d, actions)[x].slots[q] = t[x].slots[q]
<1> DEFINE kept == {p \in DOMAIN t[d].slots : p[1] \in actions}
<1>1. CASE d \notin DOMAIN t \/ kept = DOMAIN t[d].slots
  <2>1. CASE d \notin DOMAIN t
    BY <2>1 DEF PruneAbsent
  <2>2. CASE d \in DOMAIN t /\ kept = DOMAIN t[d].slots
    BY <2>2 DEF PruneAbsent
  <2>3. QED
    BY <1>1, <2>1, <2>2
<1>2. CASE d \in DOMAIN t /\ kept # DOMAIN t[d].slots /\ kept = {}
  <2>1. PruneAbsent(t, d, actions) = Free(t, d)
    BY <1>2 DEF PruneAbsent
  <2>2. QED
    <3>1. /\ IsTable(Free(t, d)) /\ DOMAIN Free(t, d) = DOMAIN t \ {d}
          /\ \A x \in DOMAIN t \ {d} : Free(t, d)[x] = t[x]
      BY FreeFacts
    <3>2. QED
      BY <2>1, <3>1 DEF Declared
<1>3. CASE d \in DOMAIN t /\ kept # DOMAIN t[d].slots /\ kept # {}
  <2> DEFINE s == Restrict(t[d].slots, kept)
             r == [t[d] EXCEPT !.slots = s]
  <2>1. PruneAbsent(t, d, actions) = [t EXCEPT ![d] = r]
    BY <1>3 DEF PruneAbsent
  <2>2. /\ DOMAIN s = kept /\ \A q \in kept : s[q] = t[d].slots[q]
        /\ s = [q \in kept |-> t[d].slots[q]]
    BY DEF Restrict
  <2>3. IsRow(t[d]) /\ DOMAIN t[d].slots \subseteq Pairs
        /\ t[d].slots \in [DOMAIN t[d].slots -> Slot] /\ d \in Devices
    BY <1>3, RowFacts
  <2>4. s \in [DOMAIN s -> Slot] /\ DOMAIN s \subseteq Pairs /\ kept \subseteq DOMAIN t[d].slots
    BY <2>2, <2>3
  <2> HIDE DEF s, kept
  <2>5. IsRow(r) /\ r.slots = s
    BY <2>3, <2>4, RowSlots
  <2> HIDE DEF r
  <2>6. PruneAbsent(t, d, actions) = WithRow(t, d, r)
    BY <1>3, <2>1, ExceptIsWithRow
  <2>7. QED
    <3>1. /\ IsTable(WithRow(t, d, r)) /\ DOMAIN WithRow(t, d, r) = DOMAIN t \cup {d}
          /\ WithRow(t, d, r)[d] = r
          /\ \A x \in DOMAIN t : x # d => WithRow(t, d, r)[x] = t[x]
      BY <2>3, <2>5 DEF WithRow, IsTable
    <3>2. \A x, q : Declared(WithRow(t, d, r), x, q) =>
            /\ Declared(t, x, q)
            /\ WithRow(t, d, r)[x].slots[q] = t[x].slots[q]
      BY <1>3, <2>2, <2>4, <2>5, <3>1 DEF Declared
    <3>3. QED
      BY <2>6, <3>1, <3>2
<1>4. QED
  BY <1>1, <1>2, <1>3

-----------------------------------------------------------------------------
(* Guards, lockout and charging *)

\* Replacing the slot of a declared pair.
Put(t, d, p, s) == [t EXCEPT ![d].slots[p] = s]

LEMMA SlotUpdate ==
  ASSUME NEW t, IsTable(t), NEW d, NEW p, Declared(t, d, p), NEW s \in Slot,
         NEW u, u = Put(t, d, p, s)
  PROVE  /\ IsTable(u)
         /\ \A x, q : Declared(u, x, q) <=> Declared(t, x, q)
         /\ u[d].slots[p] = s
         /\ \A x, q : Declared(t, x, q) /\ (x # d \/ q # p) => u[x].slots[q] = t[x].slots[q]
<1> DEFINE f == [t[d].slots EXCEPT ![p] = s]
           r == [t[d] EXCEPT !.slots = f]
<1>1. d \in DOMAIN t /\ p \in DOMAIN t[d].slots
  BY DEF Declared
<1>2. IsRow(t[d]) /\ DOMAIN t[d].slots \subseteq Pairs
      /\ t[d].slots \in [DOMAIN t[d].slots -> Slot] /\ d \in Devices
  BY <1>1, RowFacts
<1>3. /\ DOMAIN f = DOMAIN t[d].slots /\ f \in [DOMAIN f -> Slot] /\ f[p] = s
      /\ \A q \in DOMAIN t[d].slots : q # p => f[q] = t[d].slots[q]
  BY <1>1, <1>2
<1>4. u = [t EXCEPT ![d] = r]
  BY DEF Put
<1> HIDE DEF f
<1>5. IsRow(r) /\ r.slots = f
  BY <1>2, <1>3, RowSlots
<1> HIDE DEF r
<1>6. u = WithRow(t, d, r)
  BY <1>1, <1>4, ExceptIsWithRow
<1>7. /\ IsTable(u) /\ DOMAIN u = DOMAIN t \cup {d} /\ u[d] = r
      /\ \A x \in DOMAIN t : x # d => u[x] = t[x]
  BY <1>2, <1>5, <1>6 DEF WithRow, IsTable
<1>8. \A x, q : Declared(u, x, q) <=> Declared(t, x, q)
  BY <1>1, <1>3, <1>5, <1>7 DEF Declared
<1>9. \A x, q : Declared(t, x, q) /\ (x # d \/ q # p) => u[x].slots[q] = t[x].slots[q]
  BY <1>1, <1>3, <1>5, <1>7 DEF Declared
<1>10. QED
  BY <1>3, <1>5, <1>7, <1>8, <1>9

\* Setting guards changes nothing but the guards of that pair.
LEMMA SetGuardsFacts ==
  ASSUME NEW t, IsTable(t), NEW d, NEW p, Declared(t, d, p),
         NEW cooldown \in Nat, NEW perHour \in 0 .. CountMax,
         NEW u, u = SetGuards(t, d, p, cooldown, perHour)
  PROVE  /\ IsTable(u)
         /\ \A x, q : Declared(u, x, q) <=> Declared(t, x, q)
         /\ \A x, q : Declared(t, x, q) /\ (x # d \/ q # p) => u[x].slots[q] = t[x].slots[q]
         /\ u[d].slots[p].count = t[d].slots[p].count
         /\ u[d].slots[p].lastFire = t[d].slots[p].lastFire
         /\ u[d].slots[p].windowStart = t[d].slots[p].windowStart
<1> DEFINE s == [t[d].slots[p] EXCEPT !.cooldown = cooldown, !.perHour = perHour]
<1>1. t[d].slots[p] \in Slot
  BY SlotFacts
<1>2. /\ s \in Slot
      /\ s.count = t[d].slots[p].count
      /\ s.lastFire = t[d].slots[p].lastFire
      /\ s.windowStart = t[d].slots[p].windowStart
  BY <1>1 DEF Slot
<1>3. u = Put(t, d, p, s)
  BY DEF SetGuards, Put
<1> HIDE DEF s
<1>4. QED
  BY <1>2, <1>3, SlotUpdate

LEMMA SetGuardsFrame ==
  ASSUME NEW t, IsTable(t), NEW d, NEW p, Declared(t, d, p),
         NEW cooldown \in Nat, NEW perHour \in 0 .. CountMax,
         NEW x, NEW q, Declared(t, x, q), x # d \/ q # p
  PROVE  SetGuards(t, d, p, cooldown, perHour)[x].slots[q] = t[x].slots[q]
  BY SetGuardsFacts

LEMMA SetLockoutFacts ==
  ASSUME NEW t, IsTable(t), NEW d, NEW on \in BOOLEAN
  PROVE  /\ IsTable(SetLockout(t, d, on))
         /\ \A x, q : Declared(SetLockout(t, d, on), x, q) <=> Declared(t, x, q)
         /\ \A x, q : Declared(t, x, q) => SetLockout(t, d, on)[x].slots[q] = t[x].slots[q]
<1>1. CASE d \notin DOMAIN t
  BY <1>1 DEF SetLockout
<1>2. CASE d \in DOMAIN t
  <2> DEFINE r == [t[d] EXCEPT !.lockout = on]
  <2>1. IsRow(t[d]) /\ d \in Devices
    BY <1>2, RowFacts
  <2>2. r = [lockout |-> on, key |-> t[d].key, slots |-> t[d].slots]
    BY <2>1 DEF IsRow
  <2>3. IsRow(r) /\ r.slots = t[d].slots
    BY <2>1, <2>2, RowIntro DEF IsRow
  <2>4. SetLockout(t, d, on) = [t EXCEPT ![d] = r]
    BY <1>2 DEF SetLockout
  <2> HIDE DEF r
  <2>5. SetLockout(t, d, on) = WithRow(t, d, r)
    BY <1>2, <2>4, ExceptIsWithRow
  <2>6. QED
    BY <1>2, <2>1, <2>3, <2>5 DEF Declared, WithRow, IsTable
<1>3. QED
  BY <1>1, <1>2

LEMMA ChargedType ==
  ASSUME GuardTableAssumption, NEW s \in Slot, NEW tick \in Nat
  PROVE  /\ Charged(s, tick) \in Slot
         /\ Charged(s, tick).count > 0 /\ Charged(s, tick).lastFire = tick
         /\ Charged(s, tick).cooldown = s.cooldown
<1>1. CASE s.count = 0 \/ (tick >= s.windowStart /\ tick - s.windowStart >= Window)
  <2>1. Charged(s, tick) = [s EXCEPT !.lastFire = tick, !.windowStart = tick, !.count = 1]
    BY <1>1 DEF Charged
  <2>2. 1 \in 0 .. CountMax
    BY DEF GuardTableAssumption
  <2>3. \A m \in 0 .. CountMax :
          [s EXCEPT !.lastFire = tick, !.windowStart = tick, !.count = m] \in Slot
    BY DEF Slot
  <2>4. \A m : LET c == [s EXCEPT !.lastFire = tick, !.windowStart = tick, !.count = m]
               IN  c.count = m /\ c.lastFire = tick /\ c.cooldown = s.cooldown
    BY DEF Slot
  <2> DEFINE n == 1
  <2>5. n \in 0 .. CountMax /\ n > 0
    BY <2>2
  <2>6. Charged(s, tick) = [s EXCEPT !.lastFire = tick, !.windowStart = tick, !.count = n]
    BY <2>1
  <2> HIDE DEF n
  <2>7. QED
    BY <2>3, <2>4, <2>5, <2>6
<1>2. CASE ~(s.count = 0 \/ (tick >= s.windowStart /\ tick - s.windowStart >= Window))
  <2> DEFINE n == IF s.count < CountMax THEN s.count + 1 ELSE s.count
  <2>1. Charged(s, tick) = [s EXCEPT !.lastFire = tick, !.count = n]
    BY <1>2 DEF Charged
  <2>2. n \in 0 .. CountMax /\ n > 0
    BY <1>2 DEF Slot, GuardTableAssumption
  <2>3. \A m \in 0 .. CountMax : [s EXCEPT !.lastFire = tick, !.count = m] \in Slot
    BY DEF Slot
  <2>4. \A m : LET c == [s EXCEPT !.lastFire = tick, !.count = m]
               IN  c.count = m /\ c.lastFire = tick /\ c.cooldown = s.cooldown
    BY DEF Slot
  <2> HIDE DEF n
  <2>5. QED
    BY <2>1, <2>2, <2>3, <2>4
<1>3. QED
  BY <1>1, <1>2

\* Charging a declared pair.
LEMMA RecordFacts ==
  ASSUME GuardTableAssumption, NEW t, IsTable(t), NEW d, NEW a, NEW e, NEW tick \in Nat,
         NEW p, p = <<a, ResolveEndpoint(t, d, a, e)>>, Declared(t, d, p),
         NEW u, u = Record(t, d, a, e, tick)
  PROVE  /\ IsTable(u)
         /\ \A x, q : Declared(u, x, q) <=> Declared(t, x, q)
         /\ u[d].slots[p].count > 0 /\ u[d].slots[p].lastFire = tick
         /\ u[d].slots[p].cooldown = t[d].slots[p].cooldown
         /\ u[d].slots[p] = Charged(t[d].slots[p], tick)
         /\ \A x, q : Declared(t, x, q) /\ (x # d \/ q # p) => u[x].slots[q] = t[x].slots[q]
<1> DEFINE s == Charged(t[d].slots[p], tick)
<1>1. t[d].slots[p] \in Slot
  BY SlotFacts
<1>2. s \in Slot /\ s.count > 0 /\ s.lastFire = tick /\ s.cooldown = t[d].slots[p].cooldown
  BY <1>1, ChargedType
<1>3. u = Put(t, d, p, s)
  BY DEF Record, Put
<1>4. s = Charged(t[d].slots[p], tick)
  OBVIOUS
<1> HIDE DEF s
<1>5. /\ IsTable(u) /\ u[d].slots[p] = s
      /\ \A x, q : Declared(u, x, q) <=> Declared(t, x, q)
      /\ \A x, q : Declared(t, x, q) /\ (x # d \/ q # p) => u[x].slots[q] = t[x].slots[q]
  BY <1>2, <1>3, SlotUpdate
<1>6. QED
  BY <1>2, <1>4, <1>5

-----------------------------------------------------------------------------
(* What a command that leaves the queue is allowed to do *)

\* "OK" means: declared, not stopped, and outside the cooldown unless it is a
\* safety close.
LEMMA CheckOK ==
  ASSUME NEW t, NEW d, NEW a, NEW e, NEW param, NEW source, NEW time,
         Check(t, d, a, e, param, source, time) = "OK"
  PROVE  LET p == <<a, ResolveEndpoint(t, d, a, e)>>
         IN  /\ Declared(t, d, p)
             /\ t[d].lockout => source \notin {Rule, Remote}
             /\ source = Safety \/ ~CoolingDown(t[d].slots[p], time)
  BY DEF Check

\* And the hourly cap not reached.
LEMMA CheckInBudget ==
  ASSUME NEW t, NEW d, NEW a, NEW e, NEW param, NEW source, NEW time,
         Check(t, d, a, e, param, source, time) = "OK", source # Safety,
         NEW p, p = <<a, ResolveEndpoint(t, d, a, e)>>
  PROVE  ~RateSpent(t[d].slots[p], time)
  BY Zenon DEF Check

\* An explicit endpoint is what it is resolved to.
LEMMA ExplicitEndpoint ==
  ASSUME NEW t, NEW d, NEW a, NEW e, e # 0
  PROVE  ResolveEndpoint(t, d, a, e) = e
  BY DEF ResolveEndpoint

\* Service either charges one command, on which the guards agreed, or none.
ServiceSends(c) ==
  /\ StillAllowed(table, c, now)
  /\ table' = Record(table, c.dev, c.action, c.endpoint, now)
  /\ recent' = [recent EXCEPT ![c.dev][<<c.action, c.endpoint>>] =
                  @ \cup {[n |-> sends, at |-> now, source |-> c.source]}]
  /\ sends' = sends + 1
  /\ now' = now

LEMMA ServiceSplit ==
  Service => (\E c : ServiceSends(c)) \/ UNCHANGED <<table, recent, sends, now>>
  BY DEF Service, ServiceSends

-----------------------------------------------------------------------------
(* The stop button *)

\* The history has an entry for every device and pair, and nothing else.
Shape == recent = [d \in Devices |-> [p \in Pairs |-> recent[d][p]]]

\* What a charged command adds to the history, and where.
LEMMA SendAdds ==
  ASSUME IsTable(table), Shape, NEW c, ServiceSends(c)
  PROVE  /\ Shape'
         /\ \A d \in Devices, p \in Pairs :
              \/ recent'[d][p] = recent[d][p]
              \/ /\ d = c.dev /\ p = <<c.action, c.endpoint>>
                 /\ recent'[d][p] = recent[d][p] \cup
                      {[n |-> sends, at |-> now, source |-> c.source]}
<1> DEFINE pc == <<c.action, c.endpoint>>
           new == {[n |-> sends, at |-> now, source |-> c.source]}
<1>1. c.dev \in Devices
  BY CheckOK, SlotFacts DEF ServiceSends, StillAllowed
<1>2. /\ DOMAIN recent = Devices /\ \A d \in Devices : DOMAIN recent[d] = Pairs
      /\ \A d \in Devices : recent[d] = [p \in Pairs |-> recent[d][p]]
  BY DEF Shape
<1>3. recent' = [recent EXCEPT ![c.dev] = [recent[c.dev] EXCEPT ![pc] = recent[c.dev][pc] \cup new]]
  BY DEF ServiceSends
<1> HIDE DEF new, pc
<1>4. \A d \in Devices : recent'[d] =
        IF d = c.dev THEN [recent[d] EXCEPT ![pc] = recent[d][pc] \cup new] ELSE recent[d]
  BY <1>1, <1>2, <1>3
<1>5. DOMAIN recent' = Devices /\ \A d \in Devices : DOMAIN recent'[d] = Pairs
  BY <1>2, <1>3, <1>4
<1>6. \A d \in Devices, p \in Pairs :
        recent'[d][p] = IF d = c.dev /\ p = pc THEN recent[d][p] \cup new ELSE recent[d][p]
  <2> SUFFICES ASSUME NEW d \in Devices, NEW p \in Pairs
               PROVE  recent'[d][p] =
                        IF d = c.dev /\ p = pc THEN recent[d][p] \cup new ELSE recent[d][p]
    OBVIOUS
  <2>1. CASE d # c.dev
    BY <1>4, <2>1
  <2>2. CASE d = c.dev
    <3>1. recent'[d] = [recent[d] EXCEPT ![pc] = recent[d][pc] \cup new]
      BY <1>4, <2>2
    <3>2. QED
      BY <1>2, <2>2, <3>1
  <2>3. QED
    BY <2>1, <2>2
<1>7. Shape'
  <2>1. \A d \in Devices : recent'[d] = [p \in Pairs |-> recent'[d][p]]
    BY <1>2, <1>4
  <2>2. recent' = [d \in Devices |-> recent'[d]]
    BY <1>3, <1>5, Shape DEF Shape
  <2>3. QED
    BY <2>1, <2>2 DEF Shape
<1>8. QED
  BY <1>6, <1>7 DEF new, pc

\* The part of the state the theorems are about.
Base == IsTable(table) /\ Shape /\ now \in Nat /\ sends \in Nat

\* The pair that is charged is the one the command is for.
LEMMA SendCharges ==
  ASSUME Base, NEW c, ServiceSends(c),
         NEW p, p = <<c.action, ResolveEndpoint(table, c.dev, c.action, c.endpoint)>>
  PROVE  /\ IsTable(table')
         /\ Declared(table, c.dev, p)
         /\ \A x, q : Declared(table', x, q) <=> Declared(table, x, q)
         /\ table'[c.dev].slots[p].count > 0 /\ table'[c.dev].slots[p].lastFire = now
         /\ table'[c.dev].slots[p].cooldown = table[c.dev].slots[p].cooldown
         /\ table'[c.dev].slots[p] = Charged(table[c.dev].slots[p], now)
         /\ \A x, q : Declared(table, x, q) /\ (x # c.dev \/ q # p) =>
              table'[x].slots[q] = table[x].slots[q]
<1>1. Declared(table, c.dev, p)
  BY CheckOK DEF ServiceSends, StillAllowed
<1>2. table' = Record(table, c.dev, c.action, c.endpoint, now)
  BY DEF ServiceSends
<1>3. QED
  BY <1>1, <1>2, RecordFacts, GuardTableAssumption DEF Base

\* The history only learns of the pair that was charged.
LEMMA SendGoesTo ==
  ASSUME Base, NEW c, ServiceSends(c), NEW d \in Devices, NEW p \in Pairs
  PROVE  \/ recent'[d][p] = recent[d][p]
         \/ /\ d = c.dev
            /\ p = <<c.action, ResolveEndpoint(table, c.dev, c.action, c.endpoint)>>
            /\ recent'[d][p] = recent[d][p] \cup {[n |-> sends, at |-> now, source |-> c.source]}
<1>1. \/ recent'[d][p] = recent[d][p]
      \/ /\ d = c.dev /\ p = <<c.action, c.endpoint>>
         /\ recent'[d][p] = recent[d][p] \cup {[n |-> sends, at |-> now, source |-> c.source]}
  BY SendAdds DEF Base
<1>2. p = <<c.action, c.endpoint>> => c.endpoint # 0
  BY GuardTableAssumption DEF Pairs, GuardTableAssumption
<1>3. p = <<c.action, c.endpoint>> =>
        p = <<c.action, ResolveEndpoint(table, c.dev, c.action, c.endpoint)>>
  BY <1>2, ExplicitEndpoint
<1>4. QED
  BY <1>1, <1>3

LEMMA BaseNext == Base /\ [Next]_vars => Base'
<1> SUFFICES ASSUME Base, [Next]_vars PROVE Base'
  OBVIOUS
<1> USE GuardTableAssumption
<1>1. ASSUME NEW d \in Devices, NEW p \in Pairs, NEW max \in Bounds, NEW timedOff \in TimedOffs,
             Declare(d, p, max, timedOff)
      PROVE  Base'
  <2>1. max \in Nat /\ timedOff \in BOOLEAN
    BY ActorAssumption DEF ActorAssumption
  <2>2. IsTable(Add(table, d, p, max, timedOff))
    BY <2>1, AddFacts DEF Base
  <2>3. QED
    BY <1>1, <2>2 DEF Declare, Base, Shape
<1>2. ASSUME NEW d \in Devices, Undeclare(d)
      PROVE  Base'
  <2>1. IsTable(Free(table, d))
    BY FreeFacts DEF Base
  <2>2. QED
    BY <1>2, <2>1 DEF Undeclare, Forget, Base, Shape
<1>3. ASSUME NEW d \in Devices, NEW actions \in SUBSET Actions, Prune(d, actions)
      PROVE  Base'
  <2>1. IsTable(PruneAbsent(table, d, actions))
    BY PruneFacts DEF Base
  <2>2. QED
    BY <1>3, <2>1 DEF Prune, Forget, Base, Shape
<1>4. ASSUME NEW d \in Devices, NEW p \in Pairs, NEW cooldown \in Cooldowns, NEW perHour \in Caps,
             ConfigureGuards(d, p, cooldown, perHour)
      PROVE  Base'
  <2>1. cooldown \in Nat /\ perHour \in 0 .. CountMax
    BY ActorAssumption DEF ActorAssumption, GuardTableAssumption
  <2>2. IsTable(table')
    BY <1>4, <2>1, SetGuardsFacts DEF ConfigureGuards, Base
  <2>3. Shape'
    BY <1>4 DEF ConfigureGuards, Base, Shape
  <2>4. QED
    BY <1>4, <2>2, <2>3 DEF ConfigureGuards, Base
<1>5. ASSUME NEW d \in Devices, NEW on \in BOOLEAN, PressLockout(d, on)
      PROVE  Base'
  <2>1. IsTable(SetLockout(table, d, on))
    BY SetLockoutFacts DEF Base
  <2>2. QED
    BY <1>5, <2>1 DEF PressLockout, Base, Shape
<1>6. ASSUME NEW d, NEW a, NEW e, NEW param, NEW source, NEW ttl,
             Request(d, a, e, param, source, ttl)
      PROVE  Base'
  BY <1>6 DEF Request, Base, Shape
<1>7. ASSUME Service
      PROVE  Base'
  <2>1. CASE \E c : ServiceSends(c)
    <3>1. PICK c : ServiceSends(c)
      BY <2>1
    <3>2. IsTable(table')
      BY <3>1, SendCharges
    <3>3. Shape'
      BY <3>1, SendAdds DEF Base
    <3>4. QED
      BY <3>1, <3>2, <3>3 DEF ServiceSends, Base
  <2>2. CASE UNCHANGED <<table, recent, sends, now>>
    BY <2>2 DEF Base, Shape
  <2>3. QED
    BY <1>7, <2>1, <2>2, ServiceSplit
<1>8. ASSUME Tick
      PROVE  Base'
  BY <1>8 DEF Tick, Base, Shape
<1>11. ASSUME Dispatch
      PROVE  Base'
  BY <1>11 DEF Dispatch, Base, Shape
<1>9. CASE UNCHANGED vars
  BY <1>9 DEF vars, Base, Shape
<1>10. QED
  BY <1>1, <1>2, <1>3, <1>4, <1>5, <1>6, <1>7, <1>8, <1>9, <1>11 DEF Next

LEMMA BaseInit == Init => Base
  BY DEF Init, Base, Shape, EmptyTable, IsTable

\* What a step may do to a pair without charging it: forget it, or leave alone
\* what its history rests on.
Untouched(d, p) ==
  \/ recent'[d][p] = {}
  \/ /\ recent'[d][p] \subseteq recent[d][p]
     /\ Declared(table, d, p) =>
          /\ Declared(table', d, p)
          /\ table'[d].slots[p].count = table[d].slots[p].count
          /\ table'[d].slots[p].lastFire = table[d].slots[p].lastFire
          /\ table'[d].slots[p].cooldown = table[d].slots[p].cooldown
          /\ table'[d].slots[p].perHour = table[d].slots[p].perHour
          /\ table'[d].slots[p].windowStart = table[d].slots[p].windowStart

\* Nor does it charge a pair: a budget is the old one, or a new pair's.
Uncharged(d, p) ==
  Declared(table', d, p) =>
    \/ table'[d].slots[p].count = 0
    \/ /\ Declared(table, d, p)
       /\ table'[d].slots[p].count = table[d].slots[p].count
       /\ table'[d].slots[p].lastFire = table[d].slots[p].lastFire
       /\ table'[d].slots[p].windowStart = table[d].slots[p].windowStart

\* And when time passes, what is older than the window is forgotten.
Aged == now' = now \/ \A d \in Devices, p \in Pairs : \A f \in recent'[d][p] : now' - f.at < Window

QuietStep ==
  /\ sends' = sends /\ now' >= now /\ now' \in Nat /\ Aged
  /\ \A d \in Devices, p \in Pairs : Untouched(d, p) /\ Uncharged(d, p)

\* Only the service task charges; everything else is quiet.
LEMMA QuietOrSend ==
  ASSUME Base, [Next]_vars
  PROVE  QuietStep \/ \E c : ServiceSends(c)
<1> USE GuardTableAssumption
<1>0. now \in Nat
  BY DEF Base
<1>1. ASSUME NEW d \in Devices, NEW p \in Pairs, NEW max \in Bounds, NEW timedOff \in TimedOffs,
             Declare(d, p, max, timedOff)
      PROVE  QuietStep
  <2>1. max \in Nat /\ timedOff \in BOOLEAN
    BY ActorAssumption DEF ActorAssumption
  <2>2. table' = Add(table, d, p, max, timedOff)
    BY <1>1 DEF Declare
  <2>3. \A x \in DOMAIN table : \A q \in DOMAIN table[x].slots :
          /\ Declared(table', x, q)
          /\ table'[x].slots[q].count = table[x].slots[q].count
          /\ table'[x].slots[q].lastFire = table[x].slots[q].lastFire
          /\ table'[x].slots[q].cooldown = table[x].slots[q].cooldown
          /\ table'[x].slots[q].perHour = table[x].slots[q].perHour
          /\ table'[x].slots[q].windowStart = table[x].slots[q].windowStart
    BY <2>1, <2>2, AddFacts DEF Base
  <2>4. \A x, q : Declared(table', x, q) => Declared(table, x, q) \/ table'[x].slots[q].count = 0
    BY <2>1, <2>2, AddFacts DEF Base
  <2>5. UNCHANGED <<now, sends, recent>>
    BY <1>1 DEF Declare
  <2>6. \A x \in Devices, q \in Pairs : Untouched(x, q)
    BY <2>3, <2>5 DEF Untouched, Declared
  <2>7. \A x \in Devices, q \in Pairs : Uncharged(x, q)
    BY <2>3, <2>4 DEF Uncharged, Declared
  <2>8. QED
    BY <1>0, <2>5, <2>6, <2>7 DEF QuietStep, Aged
<1>2. ASSUME NEW d \in Devices, Undeclare(d)
      PROVE  QuietStep
  <2>1. /\ DOMAIN table' = DOMAIN table \ {d}
        /\ \A x \in DOMAIN table \ {d} : table'[x] = table[x]
    BY <1>2, FreeFacts DEF Undeclare, Base
  <2>2. \A x \in Devices, q \in Pairs :
          recent'[x][q] = IF Declared(table', x, q) THEN recent[x][q] ELSE {}
    BY <1>2 DEF Undeclare, Forget
  <2>3. \A x \in Devices, q \in Pairs : Untouched(x, q) /\ Uncharged(x, q)
    BY <2>1, <2>2 DEF Untouched, Uncharged, Declared
  <2>4. QED
    BY <1>0, <1>2, <2>3 DEF Undeclare, QuietStep, Aged
<1>3. ASSUME NEW d \in Devices, NEW actions \in SUBSET Actions, Prune(d, actions)
      PROVE  QuietStep
  <2>1. \A x, q : Declared(table', x, q) =>
          Declared(table, x, q) /\ table'[x].slots[q] = table[x].slots[q]
    BY <1>3, PruneFacts DEF Prune, Base
  <2>2. \A x \in Devices, q \in Pairs :
          recent'[x][q] = IF Declared(table', x, q) THEN recent[x][q] ELSE {}
    BY <1>3 DEF Prune, Forget
  <2>3. \A x \in Devices, q \in Pairs : Untouched(x, q) /\ Uncharged(x, q)
    BY <2>1, <2>2 DEF Untouched, Uncharged
  <2>4. QED
    BY <1>0, <1>3, <2>3 DEF Prune, QuietStep, Aged
<1>4. ASSUME NEW d \in Devices, NEW p \in Pairs, NEW cooldown \in Cooldowns, NEW perHour \in Caps,
             ConfigureGuards(d, p, cooldown, perHour)
      PROVE  QuietStep
  <2>1. cooldown \in Nat /\ perHour \in 0 .. CountMax
    BY ActorAssumption DEF ActorAssumption, GuardTableAssumption
  <2>2. /\ \A x, q : Declared(table', x, q) <=> Declared(table, x, q)
        /\ \A x, q : Declared(table, x, q) /\ (x # d \/ q # p) =>
             table'[x].slots[q] = table[x].slots[q]
        /\ table'[d].slots[p].count = table[d].slots[p].count
        /\ table'[d].slots[p].lastFire = table[d].slots[p].lastFire
        /\ table'[d].slots[p].windowStart = table[d].slots[p].windowStart
    <3>1. /\ IsTable(table) /\ Declared(table, d, p)
          /\ table' = SetGuards(table, d, p, cooldown, perHour)
      BY <1>4 DEF ConfigureGuards, Base
    <3>2. \A x, q : Declared(table', x, q) <=> Declared(table, x, q)
      BY <2>1, <3>1, SetGuardsFacts
    <3>3. ASSUME NEW x, NEW q, Declared(table, x, q), x # d \/ q # p
          PROVE  table'[x].slots[q] = table[x].slots[q]
      BY <2>1, <3>1, <3>3, SetGuardsFrame
    <3>4. /\ table'[d].slots[p].count = table[d].slots[p].count
          /\ table'[d].slots[p].lastFire = table[d].slots[p].lastFire
          /\ table'[d].slots[p].windowStart = table[d].slots[p].windowStart
      BY <2>1, <3>1, SetGuardsFacts
    <3>5. QED
      BY <3>2, <3>3, <3>4
  <2>3. \A x \in Devices, q \in Pairs :
          IF x = d /\ q = p THEN recent'[x][q] = {} ELSE recent'[x][q] = recent[x][q]
    BY <1>4 DEF ConfigureGuards, Base, Shape
  <2>4. \A x \in Devices, q \in Pairs : Untouched(x, q)
    BY <2>2, <2>3 DEF Untouched
  <2>5. \A x \in Devices, q \in Pairs : Uncharged(x, q)
    BY <2>2 DEF Uncharged
  <2>6. QED
    BY <1>0, <1>4, <2>4, <2>5 DEF ConfigureGuards, QuietStep, Aged
<1>5. ASSUME NEW d \in Devices, NEW on \in BOOLEAN, PressLockout(d, on)
      PROVE  QuietStep
  <2>1. /\ \A x, q : Declared(table', x, q) <=> Declared(table, x, q)
        /\ \A x, q : Declared(table, x, q) => table'[x].slots[q] = table[x].slots[q]
    BY <1>5, SetLockoutFacts DEF PressLockout, Base
  <2>2. QED
    BY <1>0, <1>5, <2>1 DEF PressLockout, QuietStep, Untouched, Uncharged, Aged
<1>6. ASSUME NEW d, NEW a, NEW e, NEW param, NEW source, NEW ttl,
             Request(d, a, e, param, source, ttl)
      PROVE  QuietStep
  BY <1>0, <1>6 DEF Request, QuietStep, Untouched, Uncharged, Aged
<1>7. ASSUME Service
      PROVE  QuietStep \/ \E c : ServiceSends(c)
  <2>1. CASE UNCHANGED <<table, recent, sends, now>>
    BY <1>0, <2>1 DEF QuietStep, Untouched, Uncharged, Aged
  <2>2. QED
    BY <1>7, <2>1, ServiceSplit
<1>8. ASSUME Tick
      PROVE  QuietStep
  <2>1. \A x \in Devices, q \in Pairs : recent'[x][q] \subseteq recent[x][q]
    BY <1>8 DEF Tick
  <2>2. Aged
    BY <1>8 DEF Tick, Aged
  <2>3. QED
    BY <1>0, <1>8, <2>1, <2>2 DEF Tick, QuietStep, Untouched, Uncharged
<1>11. ASSUME Dispatch
      PROVE  QuietStep
  BY <1>0, <1>11 DEF Dispatch, QuietStep, Untouched, Uncharged, Aged
<1>9. CASE UNCHANGED vars
  BY <1>0, <1>9 DEF vars, QuietStep, Untouched, Uncharged, Aged
<1>10. QED
  BY <1>1, <1>2, <1>3, <1>4, <1>5, <1>6, <1>7, <1>8, <1>9, <1>11 DEF Next

\* The strengthening: the task holds one command at most, a device that is not
\* locked out has no slips, and one that is locked out either has had its one
\* command or still has it coming.
Stoppable(c) == c.source \in {Rule, Remote}

SlipInv ==
  /\ \A c, b \in hand : c = b
  /\ slips = [d \in Devices |-> slips[d]]
  /\ \A d \in Devices :
       /\ slips[d] \in {0, 1}
       /\ ~LockedOut(table, d) => slips[d] = 0
       /\ LockedOut(table, d) /\ (\E c \in hand : c.dev = d /\ Stoppable(c)) => slips[d] = 0

\* A step that leaves the held command and the lockouts alone.
LEMMA SlipSame ==
  ASSUME SlipInv, hand' = hand, slips' = slips,
         \A d : LockedOut(table', d) <=> LockedOut(table, d)
  PROVE  SlipInv'
<1>1. \A d \in Devices : LockedOut(table, d)' <=> LockedOut(table, d)
  BY DEF LockedOut
<1>2. QED
  BY <1>1 DEF SlipInv, Stoppable

\* And one that starts the count of the released ones over.
LEMMA SlipReleased ==
  ASSUME SlipInv, hand' = hand, slips' = Released(slips, table')
  PROVE  SlipInv'
  BY DEF SlipInv, Released, Stoppable

\* Declaring a pair, configuring it and charging it leave the stop button alone.
LEMMA AddKeepsLockout ==
  ASSUME NEW d, NEW p, NEW max, NEW timedOff, NEW x
  PROVE  LockedOut(Add(table, d, p, max, timedOff), x) <=> LockedOut(table, x)
<1> DEFINE s == DeclaredSlot(table, d, p, max, timedOff)
<1>1. CASE CanAdd(table, d, p)
  <2>1. Add(table, d, p, max, timedOff) = WithRow(table, d, WithSlot(RowOf(table, d), p, s))
    BY <1>1 DEF Add
  <2> HIDE DEF s
  <2>2. WithSlot(RowOf(table, d), p, s).lockout = RowOf(table, d).lockout
    BY DEF WithSlot, RowOf, NewRow
  <2>3. RowOf(table, d).lockout <=> LockedOut(table, d)
    BY DEF RowOf, NewRow, LockedOut
  <2>4. QED
    BY <2>1, <2>2, <2>3 DEF WithRow, LockedOut
<1>2. QED
  BY <1>1 DEF Add

LEMMA SlotKeepsLockout ==
  ASSUME NEW d, NEW p, NEW s, IsTable(table), NEW x,
         d \in DOMAIN table, NEW u, u = Put(table, d, p, s)
  PROVE  LockedOut(u, x) <=> LockedOut(table, x)
<1>1. table[d].lockout \in BOOLEAN /\ table[d] = [lockout |-> table[d].lockout,
        key |-> table[d].key, slots |-> table[d].slots]
  BY RowFacts DEF IsRow
<1>2. DOMAIN u = DOMAIN table /\ \A y \in DOMAIN table : y # d => u[y] = table[y]
  BY DEF Put
<1>3. u[d].lockout = table[d].lockout
  BY <1>1 DEF Put
<1>4. QED
  BY <1>2, <1>3 DEF LockedOut

\* A command that is charged leaves it alone too, and if it is a rule or a
\* remote command the device is not locked out.
LEMMA ChargeKeepsLockout ==
  ASSUME Base, NEW c, ServiceSends(c)
  PROVE  /\ \A x : LockedOut(table', x) <=> LockedOut(table, x)
         /\ Stoppable(c) => ~LockedOut(table, c.dev)
<1> DEFINE p == <<c.action, ResolveEndpoint(table, c.dev, c.action, c.endpoint)>>
<1>1. Declared(table, c.dev, p) /\ (table[c.dev].lockout => c.source \notin {Rule, Remote})
  BY CheckOK DEF ServiceSends, StillAllowed
<1>2. table' = Put(table, c.dev, p, Charged(table[c.dev].slots[p], now))
  BY <1>1 DEF ServiceSends, Record, Put
<1>3. c.dev \in DOMAIN table
  BY <1>1 DEF Declared
<1>4. \A x : LockedOut(table', x) <=> LockedOut(table, x)
  BY <1>2, <1>3, SlotKeepsLockout DEF Base
<1>5. QED
  BY <1>1, <1>4 DEF Stoppable, LockedOut

LEMMA SlipKept == Base /\ SlipInv /\ [Next]_vars => SlipInv'
<1> SUFFICES ASSUME Base, SlipInv, [Next]_vars PROVE SlipInv'
  OBVIOUS
<1>1. ASSUME NEW d \in Devices, NEW p \in Pairs, NEW max \in Bounds, NEW timedOff \in TimedOffs,
             Declare(d, p, max, timedOff)
      PROVE  SlipInv'
  <2>1. hand' = hand /\ slips' = slips /\ table' = Add(table, d, p, max, timedOff)
    BY <1>1 DEF Declare
  <2>2. \A x : LockedOut(table', x) <=> LockedOut(table, x)
    BY <2>1, AddKeepsLockout
  <2>3. QED
    BY <2>1, <2>2, SlipSame
<1>2. ASSUME NEW d \in Devices, Undeclare(d)
      PROVE  SlipInv'
  BY <1>2, SlipReleased DEF Undeclare
<1>3. ASSUME NEW d \in Devices, NEW actions \in SUBSET Actions, Prune(d, actions)
      PROVE  SlipInv'
  BY <1>3, SlipReleased DEF Prune
<1>4. ASSUME NEW d \in Devices, NEW p \in Pairs, NEW cooldown \in Cooldowns, NEW perHour \in Caps,
             ConfigureGuards(d, p, cooldown, perHour)
      PROVE  SlipInv'
  <2>1. /\ d \in DOMAIN table /\ hand' = hand /\ slips' = slips
        /\ table' = SetGuards(table, d, p, cooldown, perHour)
    BY <1>4 DEF ConfigureGuards, Declared
  <2> DEFINE s == [table[d].slots[p] EXCEPT !.cooldown = cooldown, !.perHour = perHour]
  <2>2. table' = Put(table, d, p, s)
    BY <2>1 DEF SetGuards, Put
  <2> HIDE DEF s
  <2>3. \A x : LockedOut(table', x) <=> LockedOut(table, x)
    BY <2>1, <2>2, SlotKeepsLockout DEF Base
  <2>4. hand' = hand /\ slips' = slips
    BY <2>1
  <2>5. QED
    BY <2>3, <2>4, SlipSame
<1>5. ASSUME NEW d \in Devices, NEW on \in BOOLEAN, PressLockout(d, on)
      PROVE  SlipInv'
  BY <1>5, SlipReleased DEF PressLockout
<1>6. ASSUME NEW d, NEW a, NEW e, NEW param, NEW source, NEW ttl,
             Request(d, a, e, param, source, ttl)
      PROVE  SlipInv'
  BY <1>6, SlipSame DEF Request
<1>7. ASSUME Service
      PROVE  SlipInv'
  <2>1. CASE UNCHANGED <<table, hand, slips>>
    BY <2>1, SlipSame
  <2>2. CASE /\ hand = {} /\ slips' = slips
             /\ \E c : ServiceSends(c) /\ hand' = {[dev |-> c.dev, source |-> c.source]}
    <3>1. PICK c : ServiceSends(c) /\ hand' = {[dev |-> c.dev, source |-> c.source]}
      BY <2>2
    <3>2. /\ \A x : LockedOut(table', x) <=> LockedOut(table, x)
          /\ c.source \in {Rule, Remote} => ~LockedOut(table, c.dev)
      BY <3>1, ChargeKeepsLockout DEF Stoppable
    <3>3. \A x : LockedOut(table, x)' <=> LockedOut(table, x)
      BY <3>2 DEF LockedOut
    <3>4. \A b \in hand' : b.dev = c.dev /\ b.source = c.source
      BY <3>1
    <3>5. QED
      BY <2>2, <3>1, <3>2, <3>3, <3>4 DEF SlipInv, Stoppable
  <2>3. QED
    BY <1>7, <2>1, <2>2 DEF Service, ServiceSends
<1>8. ASSUME Dispatch
      PROVE  SlipInv'
  <2>1. PICK c \in hand :
          /\ hand' = {}
          /\ slips' = IF c.source \in {Rule, Remote} /\ LockedOut(table, c.dev)
                      THEN [slips EXCEPT ![c.dev] = @ + 1] ELSE slips
    BY <1>8 DEF Dispatch
  <2>2. table' = table
    BY <1>8 DEF Dispatch
  <2>3. \A d : LockedOut(table, d)' <=> LockedOut(table, d)
    BY <2>2 DEF LockedOut
  <2>4. LockedOut(table, c.dev) => c.dev \in Devices
    BY DEF LockedOut, Base, IsTable
  <2>5. CASE c.source \in {Rule, Remote} /\ LockedOut(table, c.dev)
    <3>1. slips[c.dev] = 0 /\ slips' = [slips EXCEPT ![c.dev] = slips[c.dev] + 1]
      BY <2>1, <2>4, <2>5 DEF SlipInv, Stoppable
    <3>2. /\ DOMAIN slips = Devices
          /\ slips' = [d \in Devices |-> IF d = c.dev THEN 1 ELSE slips[d]]
      BY <3>1 DEF SlipInv
    <3>3. QED
      BY <2>1, <2>3, <2>5, <3>2 DEF SlipInv, Stoppable
  <2>6. CASE ~(c.source \in {Rule, Remote} /\ LockedOut(table, c.dev))
    BY <2>1, <2>3, <2>6 DEF SlipInv, Stoppable
  <2>7. QED
    BY <2>5, <2>6
<1>9. ASSUME Tick
      PROVE  SlipInv'
  BY <1>9, SlipSame DEF Tick
<1>10. CASE UNCHANGED vars
  BY <1>10, SlipSame DEF vars
<1>11. QED
  BY <1>1, <1>2, <1>3, <1>4, <1>5, <1>6, <1>7, <1>8, <1>9, <1>10 DEF Next

\* The stop button stops what was queued before it was pressed, but for the one
\* command that was out of the queue already, however long the queue and whoever
\* filled it.
THEOREM StopIsObeyed == Spec => []StopLetsOneThrough
<1>1. Init => SlipInv
  BY DEF Init, SlipInv, LockedOut, EmptyTable
<1>2. SlipInv => StopLetsOneThrough
  BY DEF SlipInv, StopLetsOneThrough
<1>3. QED
  BY <1>1, <1>2, BaseInit, BaseNext, SlipKept, PTL DEF Spec

-----------------------------------------------------------------------------
(* The cooldown *)

\* The strengthening: what the history remembers of a pair was sent earlier,
\* and the slot knows the latest of it.
Remembered ==
  \A d \in Devices, p \in Pairs : \A f \in recent[d][p] :
    /\ Declared(table, d, p)
    /\ f.n \in Nat /\ f.n < sends /\ f.at \in Nat /\ f.at <= now
    /\ table[d].slots[p].count > 0 /\ f.at <= table[d].slots[p].lastFire

SpacingInv == Base /\ Remembered /\ CooldownSpacing

LEMMA SpacingQuiet ==
  ASSUME SpacingInv, Base', QuietStep
  PROVE  SpacingInv'
<1> SUFFICES Remembered' /\ CooldownSpacing'
  BY DEF SpacingInv
<1>1. ASSUME NEW d \in Devices, NEW p \in Pairs, NEW f \in recent'[d][p]
      PROVE  /\ f \in recent[d][p]
             /\ Declared(table, d, p) /\ Declared(table', d, p)
             /\ table'[d].slots[p].count = table[d].slots[p].count
             /\ table'[d].slots[p].lastFire = table[d].slots[p].lastFire
             /\ table'[d].slots[p].cooldown = table[d].slots[p].cooldown
  BY <1>1 DEF QuietStep, Untouched, SpacingInv, Remembered
<1>2. Remembered'
  BY <1>1 DEF QuietStep, SpacingInv, Remembered, Base
<1>3. CooldownSpacing'
  <2>1. ASSUME NEW d \in DOMAIN table', NEW p \in DOMAIN table'[d].slots,
               NEW f \in recent'[d][p], NEW g \in recent'[d][p], f.n < g.n, Limited(g)
        PROVE  g.at - f.at >= table'[d].slots[p].cooldown
    <3>1. d \in Devices /\ p \in Pairs
      BY SlotFacts DEF Base, Declared
    <3>2. /\ f \in recent[d][p] /\ g \in recent[d][p] /\ Declared(table, d, p)
          /\ table'[d].slots[p].cooldown = table[d].slots[p].cooldown
      BY <1>1, <3>1
    <3>3. QED
      BY <2>1, <3>2 DEF SpacingInv, CooldownSpacing, Declared
  <2>2. QED
    BY <2>1 DEF CooldownSpacing
<1>4. QED
  BY <1>2, <1>3

LEMMA SpacingSend ==
  ASSUME SpacingInv, Base', NEW c, ServiceSends(c)
  PROVE  SpacingInv'
<1> DEFINE p0 == <<c.action, ResolveEndpoint(table, c.dev, c.action, c.endpoint)>>
           new == [n |-> sends, at |-> now, source |-> c.source]
<1>1. /\ Declared(table, c.dev, p0)
      /\ \A x, q : Declared(table', x, q) <=> Declared(table, x, q)
      /\ table'[c.dev].slots[p0].count > 0 /\ table'[c.dev].slots[p0].lastFire = now
      /\ table'[c.dev].slots[p0].cooldown = table[c.dev].slots[p0].cooldown
      /\ \A x, q : Declared(table, x, q) /\ (x # c.dev \/ q # p0) =>
           table'[x].slots[q] = table[x].slots[q]
  BY SendCharges DEF SpacingInv
<1>2. sends' = sends + 1 /\ now' = now /\ sends \in Nat /\ now \in Nat
  BY DEF ServiceSends, SpacingInv, Base
<1>3. c.source = Safety \/ ~CoolingDown(table[c.dev].slots[p0], now)
  BY CheckOK DEF ServiceSends, StillAllowed
<1>4. ASSUME NEW d \in Devices, NEW p \in Pairs
      PROVE  \/ recent'[d][p] = recent[d][p]
             \/ d = c.dev /\ p = p0 /\ recent'[d][p] = recent[d][p] \cup {new}
  BY SendGoesTo DEF SpacingInv
<1> HIDE DEF p0
<1>5. \A d \in Devices, p \in Pairs : Declared(table, d, p) =>
        /\ table'[d].slots[p].cooldown = table[d].slots[p].cooldown
        /\ table[d].slots[p].lastFire \in Nat
        /\ \A n \in Nat : n <= now /\ n <= table[d].slots[p].lastFire =>
             n <= table'[d].slots[p].lastFire
        /\ table[d].slots[p].count > 0 => table'[d].slots[p].count > 0
  <2> SUFFICES ASSUME NEW d \in Devices, NEW p \in Pairs, Declared(table, d, p)
               PROVE  /\ table'[d].slots[p].cooldown = table[d].slots[p].cooldown
                      /\ table[d].slots[p].lastFire \in Nat
                      /\ \A n \in Nat : n <= now /\ n <= table[d].slots[p].lastFire =>
                           n <= table'[d].slots[p].lastFire
                      /\ table[d].slots[p].count > 0 => table'[d].slots[p].count > 0
    OBVIOUS
  <2>1. table[d].slots[p] \in Slot
    BY SlotFacts DEF SpacingInv, Base
  <2>2. table[d].slots[p].lastFire \in Nat
    BY <2>1 DEF Slot
  <2>3. CASE d = c.dev /\ p = p0
    BY <1>1, <2>2, <2>3
  <2>4. CASE d # c.dev \/ p # p0
    BY <1>1, <2>2, <2>4
  <2>5. QED
    BY <2>3, <2>4
<1>6. new.n = sends /\ new.at = now /\ new.source = c.source
  OBVIOUS
<1> HIDE DEF new
<1>7. Remembered'
  <2> SUFFICES ASSUME NEW d \in Devices, NEW p \in Pairs, NEW f \in recent'[d][p]
               PROVE  /\ Declared(table', d, p)
                      /\ f.n \in Nat /\ f.n < sends' /\ f.at \in Nat /\ f.at <= now'
                      /\ table'[d].slots[p].count > 0 /\ f.at <= table'[d].slots[p].lastFire
    BY DEF Remembered
  <2>1. CASE f \in recent[d][p]
    BY <1>1, <1>2, <1>5, <2>1 DEF SpacingInv, Remembered
  <2>2. CASE f \notin recent[d][p]
    <3>1. d = c.dev /\ p = p0 /\ f = new
      BY <1>4, <2>2
    <3>2. QED
      BY <1>1, <1>2, <1>6, <3>1
  <2>3. QED
    BY <2>1, <2>2
<1>8. ASSUME NEW d \in Devices, NEW p \in Pairs, Declared(table, d, p),
             NEW f \in recent'[d][p], NEW g \in recent'[d][p], f.n < g.n, Limited(g)
      PROVE  g.at - f.at >= table'[d].slots[p].cooldown
  <2>1. CASE g \in recent[d][p]
    <3>1. f \in recent[d][p]
      BY <1>2, <1>4, <1>6, <1>8, <2>1 DEF SpacingInv, Remembered
    <3>2. QED
      BY <1>5, <1>8, <2>1, <3>1 DEF SpacingInv, CooldownSpacing, Declared
  <2>2. CASE g \notin recent[d][p]
    <3>1. d = c.dev /\ p = p0 /\ g = new /\ f # new
      BY <1>2, <1>4, <1>6, <1>8, <2>2
    <3>2. f \in recent[d][p]
      BY <1>4, <3>1
    <3>3. f.at \in Nat /\ f.at <= now /\ f.at <= table[d].slots[p].lastFire
          /\ table[d].slots[p].count > 0
      BY <3>2 DEF SpacingInv, Remembered
    <3>4. ~CoolingDown(table[d].slots[p], now)
      BY <1>3, <1>6, <1>8, <3>1 DEF Limited
    <3>5. table[d].slots[p] \in Slot
      BY <1>8, SlotFacts DEF SpacingInv, Base
    <3>6. table[d].slots[p].cooldown \in Nat /\ table[d].slots[p].lastFire \in Nat
      BY <3>5 DEF Slot
    <3>7. now - f.at >= table[d].slots[p].cooldown
      BY <1>2, <3>3, <3>4, <3>6 DEF CoolingDown
    <3>8. QED
      BY <1>5, <1>6, <1>8, <3>1, <3>7
  <2>3. QED
    BY <2>1, <2>2
<1>9. CooldownSpacing'
  <2>1. \A d \in DOMAIN table' : \A p \in DOMAIN table'[d].slots :
          d \in Devices /\ p \in Pairs /\ Declared(table, d, p)
    BY <1>1, SlotFacts DEF Base, Declared
  <2>2. QED
    BY <1>8, <2>1 DEF CooldownSpacing
<1>10. QED
  BY <1>7, <1>9 DEF SpacingInv

LEMMA SpacingStarts == Init => SpacingInv
<1> SUFFICES ASSUME Init PROVE Remembered /\ CooldownSpacing
  BY BaseInit DEF SpacingInv
<1>1. \A d \in Devices, p \in Pairs : recent[d][p] = {}
  BY DEF Init
<1>2. DOMAIN table = {}
  BY DEF Init, EmptyTable
<1>3. QED
  BY <1>1, <1>2 DEF Remembered, CooldownSpacing

LEMMA SpacingKept == SpacingInv /\ [Next]_vars => SpacingInv'
<1> SUFFICES ASSUME SpacingInv, [Next]_vars PROVE SpacingInv'
  OBVIOUS
<1>1. Base /\ Base'
  BY BaseNext DEF SpacingInv
<1>2. QED
  BY <1>1, QuietOrSend, SpacingQuiet, SpacingSend

\* Two commands of a pair, the second of them limited, are never charged closer
\* together than the cooldown, whichever tasks asked for them.
THEOREM CooldownHolds == Spec => []CooldownSpacing
<1>1. SpacingInv => CooldownSpacing
  BY DEF SpacingInv
<1>2. QED
  BY <1>1, SpacingStarts, SpacingKept, PTL DEF Spec

-----------------------------------------------------------------------------
(* The hourly cap *)

\* The limited commands of a history, split at the start of the window the slot
\* counts in: before it, since it, and later than its first second.
Before(R, w) == {f \in R : Limited(f) /\ f.at < w}
Since(R, w)  == {f \in R : Limited(f) /\ f.at >= w}
After(R, w)  == {f \in R : Limited(f) /\ f.at > w}

\* What is left of the window before stays under the cap, and so does the count
\* the guards go by; whatever opened the window is counted but not after it.
InBudget(R, s) ==
  /\ Cardinality(Before(R, s.windowStart)) < s.perHour
  /\ Cardinality(Since(R, s.windowStart)) <= s.count
  /\ Cardinality(Since(R, s.windowStart)) <= s.perHour
  /\ Cardinality(After(R, s.windowStart)) < s.count
  /\ Cardinality(After(R, s.windowStart)) < s.perHour

\* A slot that has counted something was last charged inside the window it counts in.
InWindow(s, time) ==
  s.count > 0 => s.windowStart <= s.lastFire /\ s.lastFire <= time
                 /\ s.lastFire - s.windowStart < Window

Budgeted(d, p) ==
  /\ IsFiniteSet(recent[d][p])
  /\ \A f \in recent[d][p] : now - f.at < Window
  /\ Declared(table, d, p) =>
       /\ InWindow(table[d].slots[p], now)
       /\ table[d].slots[p].count > 0 /\ table[d].slots[p].perHour > 0 =>
            InBudget(recent[d][p], table[d].slots[p])

BudgetInv == SpacingInv /\ \A d \in Devices, p \in Pairs : Budgeted(d, p)

\* Parts of a finite history are finite, and no larger.
LEMMA PartsFinite ==
  ASSUME NEW R, IsFiniteSet(R), NEW w
  PROVE  /\ IsFiniteSet(Before(R, w)) /\ Cardinality(Before(R, w)) \in Nat
         /\ IsFiniteSet(Since(R, w)) /\ Cardinality(Since(R, w)) \in Nat
         /\ IsFiniteSet(After(R, w)) /\ Cardinality(After(R, w)) \in Nat
<1>1. Before(R, w) \subseteq R /\ Since(R, w) \subseteq R /\ After(R, w) \subseteq R
  BY DEF Before, Since, After
<1>2. QED
  BY <1>1, FS_Subset, FS_CardinalityType

LEMMA NoLarger ==
  ASSUME NEW R, IsFiniteSet(R), NEW S, S \subseteq R
  PROVE  IsFiniteSet(S) /\ Cardinality(S) \in Nat /\ Cardinality(R) \in Nat
         /\ Cardinality(S) <= Cardinality(R)
  BY FS_Subset, FS_CardinalityType

\* One more command is one more at most.
LEMMA OneMore ==
  ASSUME NEW R, IsFiniteSet(R), NEW S, NEW e, S \subseteq R \cup {e}
  PROVE  IsFiniteSet(S) /\ Cardinality(S) \in Nat /\ Cardinality(R) \in Nat
         /\ Cardinality(S) <= Cardinality(R) + 1
<1>1. IsFiniteSet(R \cup {e}) /\ Cardinality(R \cup {e}) <= Cardinality(R) + 1
  <2>1. Cardinality(R) \in Nat
    BY FS_CardinalityType
  <2>2. /\ IsFiniteSet(R \cup {e})
        /\ Cardinality(R \cup {e}) = IF e \in R THEN Cardinality(R) ELSE Cardinality(R) + 1
    BY FS_AddElement
  <2>3. QED
    BY <2>1, <2>2
<1>2. QED
  BY <1>1, FS_Subset, FS_CardinalityType

\* Forgetting keeps within the budget.
LEMMA BudgetShrinks ==
  ASSUME NEW R, IsFiniteSet(R), NEW S, S \subseteq R, NEW s \in Slot, NEW u \in Slot,
         u.count = s.count, u.perHour = s.perHour, u.windowStart = s.windowStart, InBudget(R, s)
  PROVE  InBudget(S, u)
<1> DEFINE w == s.windowStart
<1>1. Before(S, w) \subseteq Before(R, w) /\ Since(S, w) \subseteq Since(R, w)
      /\ After(S, w) \subseteq After(R, w)
  BY DEF Before, Since, After
<1>2. /\ Cardinality(Before(S, w)) \in Nat /\ Cardinality(Before(R, w)) \in Nat
      /\ Cardinality(Before(S, w)) <= Cardinality(Before(R, w))
  BY <1>1, PartsFinite, NoLarger
<1>3. /\ Cardinality(Since(S, w)) \in Nat /\ Cardinality(Since(R, w)) \in Nat
      /\ Cardinality(Since(S, w)) <= Cardinality(Since(R, w))
  BY <1>1, PartsFinite, NoLarger
<1>4. /\ Cardinality(After(S, w)) \in Nat /\ Cardinality(After(R, w)) \in Nat
      /\ Cardinality(After(S, w)) <= Cardinality(After(R, w))
  BY <1>1, PartsFinite, NoLarger
<1>5. s.count \in Nat /\ s.perHour \in Nat
  BY GuardTableAssumption DEF Slot, GuardTableAssumption
<1>6. QED
  BY <1>2, <1>3, <1>4, <1>5 DEF InBudget

\* A history that was cleared is within any budget.
LEMMA NothingSpent ==
  ASSUME NEW s \in Slot, s.count > 0, s.perHour > 0
  PROVE  InBudget({}, s)
<1>1. \A w : Before({}, w) = {} /\ Since({}, w) = {} /\ After({}, w) = {}
  BY DEF Before, Since, After
<1>2. s.count \in Nat /\ s.perHour \in Nat
  BY GuardTableAssumption DEF Slot, GuardTableAssumption
<1>3. QED
  BY <1>1, <1>2, FS_EmptySet DEF InBudget

\* What charging does to the fields a budget is about.
OpensWindow(s) == s.count = 0 \/ (now >= s.windowStart /\ now - s.windowStart >= Window)

LEMMA ChargedFields ==
  ASSUME NEW s \in Slot, NEW c, c = Charged(s, now)
  PROVE  /\ c.perHour = s.perHour /\ c.lastFire = now
         /\ OpensWindow(s) => c.count = 1 /\ c.windowStart = now
         /\ ~OpensWindow(s) => /\ c.windowStart = s.windowStart
                               /\ c.count = IF s.count < CountMax THEN s.count + 1 ELSE s.count
<1>1. CASE OpensWindow(s)
  <2>1. c = [s EXCEPT !.lastFire = now, !.windowStart = now, !.count = 1]
    BY <1>1 DEF Charged, OpensWindow
  <2>2. QED
    BY <1>1, <2>1 DEF Slot
<1>2. CASE ~OpensWindow(s)
  <2> DEFINE n == IF s.count < CountMax THEN s.count + 1 ELSE s.count
  <2>1. c = [s EXCEPT !.lastFire = now, !.count = n]
    BY <1>2 DEF Charged, OpensWindow
  <2>2. n = IF s.count < CountMax THEN s.count + 1 ELSE s.count
    OBVIOUS
  <2> HIDE DEF n
  <2>3. c.windowStart = s.windowStart /\ c.perHour = s.perHour /\ c.lastFire = now /\ c.count = n
    BY <2>1 DEF Slot
  <2>4. QED
    BY <1>2, <2>2, <2>3
<1>3. QED
  BY <1>1, <1>2

\* A command within the cap, in the window that is open.
LEMMA BudgetInOpenWindow ==
  ASSUME now \in Nat, NEW R, IsFiniteSet(R), NEW s \in Slot, NEW c \in Slot, NEW e, e.at = now,
         c.perHour = s.perHour, c.windowStart = s.windowStart, s.windowStart <= now,
         c.count = IF s.count < CountMax THEN s.count + 1 ELSE s.count,
         s.count > 0, s.perHour > 0, InBudget(R, s),
         Limited(e) => s.count < s.perHour
  PROVE  InBudget(R \cup {e}, c)
<1> DEFINE w == s.windowStart
           T == R \cup {e}
<1>1. w \in Nat /\ s.count \in Nat /\ s.perHour \in Nat /\ s.perHour <= CountMax /\ CountMax \in Nat
      /\ c.count \in Nat
  BY GuardTableAssumption DEF Slot, GuardTableAssumption
<1>2. Before(T, w) \subseteq Before(R, w)
  BY <1>1 DEF Before
<1>3. CASE ~Limited(e)
  <2>1. Since(T, w) \subseteq Since(R, w) /\ After(T, w) \subseteq After(R, w)
    BY <1>3 DEF Since, After
  <2>2. /\ Cardinality(Before(T, w)) \in Nat /\ Cardinality(Before(R, w)) \in Nat
        /\ Cardinality(Before(T, w)) <= Cardinality(Before(R, w))
    BY <1>2, PartsFinite, NoLarger
  <2>3. /\ Cardinality(Since(T, w)) \in Nat /\ Cardinality(Since(R, w)) \in Nat
        /\ Cardinality(Since(T, w)) <= Cardinality(Since(R, w))
    BY <2>1, PartsFinite, NoLarger
  <2>4. /\ Cardinality(After(T, w)) \in Nat /\ Cardinality(After(R, w)) \in Nat
        /\ Cardinality(After(T, w)) <= Cardinality(After(R, w))
    BY <2>1, PartsFinite, NoLarger
  <2> HIDE DEF T
  <2>5. InBudget(T, c)
    BY <1>1, <2>2, <2>3, <2>4 DEF InBudget
  <2>6. QED
    BY <2>5 DEF T
<1>4. CASE Limited(e)
  <2>1. Since(T, w) \subseteq Since(R, w) \cup {e} /\ After(T, w) \subseteq After(R, w) \cup {e}
    BY DEF Since, After
  <2>2. /\ Cardinality(Before(T, w)) \in Nat /\ Cardinality(Before(R, w)) \in Nat
        /\ Cardinality(Before(T, w)) <= Cardinality(Before(R, w))
    BY <1>2, PartsFinite, NoLarger
  <2>3. /\ Cardinality(Since(T, w)) \in Nat /\ Cardinality(Since(R, w)) \in Nat
        /\ Cardinality(Since(T, w)) <= Cardinality(Since(R, w)) + 1
    BY <2>1, PartsFinite, OneMore
  <2>4. /\ Cardinality(After(T, w)) \in Nat /\ Cardinality(After(R, w)) \in Nat
        /\ Cardinality(After(T, w)) <= Cardinality(After(R, w)) + 1
    BY <2>1, PartsFinite, OneMore
  <2>5. s.count < s.perHour /\ c.count = s.count + 1
    BY <1>1, <1>4
  <2> HIDE DEF T
  <2>6. InBudget(T, c)
    BY <1>1, <2>2, <2>3, <2>4, <2>5 DEF InBudget
  <2>7. QED
    BY <2>6 DEF T
<1>5. QED
  BY <1>3, <1>4

\* A command that opens a window: what is still remembered was sent in the window
\* before, later than its first second, so it was counted there.
LEMMA BudgetInNewWindow ==
  ASSUME now \in Nat, NEW R, IsFiniteSet(R), NEW s \in Slot, NEW c \in Slot, NEW e, e.at = now,
         c.perHour = s.perHour, c.windowStart = now, c.count = 1, s.perHour > 0,
         \A f \in R : /\ f.at \in Nat /\ f.at < now
                      /\ s.count > 0 /\ InBudget(R, s) /\ f.at > s.windowStart
  PROVE  InBudget(R \cup {e}, c)
<1> DEFINE T == R \cup {e}
<1>1. s.perHour \in Nat
  BY GuardTableAssumption DEF Slot, GuardTableAssumption
<1>2. Since(T, now) \subseteq {} \cup {e} /\ After(T, now) = {}
  BY DEF Since, After
<1>3. Cardinality(Since(T, now)) \in Nat /\ Cardinality(Since(T, now)) <= 1
  <2>1. IsFiniteSet({}) /\ Cardinality({}) = 0
    BY FS_EmptySet
  <2>2. Cardinality(Since(T, now)) \in Nat /\ Cardinality(Since(T, now)) <= Cardinality({}) + 1
    BY ONLY <1>2, <2>1, OneMore
  <2>3. QED
    BY <2>1, <2>2
<1>4. Cardinality(After(T, now)) = 0
  BY <1>2, FS_EmptySet
<1>5. Cardinality(Before(T, now)) \in Nat /\ Cardinality(Before(T, now)) < s.perHour
  <2>1. CASE R = {}
    <3>1. Before(T, now) = {}
      BY <2>1 DEF Before
    <3>2. QED
      BY <1>1, <3>1, FS_EmptySet
  <2>2. CASE R # {}
    <3>1. Before(T, now) \subseteq After(R, s.windowStart)
      BY DEF Before, After
    <3>2. /\ Cardinality(Before(T, now)) \in Nat /\ Cardinality(After(R, s.windowStart)) \in Nat
          /\ Cardinality(Before(T, now)) <= Cardinality(After(R, s.windowStart))
      BY <3>1, PartsFinite, NoLarger
    <3>3. Cardinality(After(R, s.windowStart)) < s.perHour
      BY <2>2 DEF InBudget
    <3>4. QED
      BY <1>1, <3>2, <3>3
  <2>3. QED
    BY <2>1, <2>2
<1> HIDE DEF T
<1>6. InBudget(T, c)
  BY <1>1, <1>3, <1>4, <1>5 DEF InBudget
<1>7. QED
  BY <1>6 DEF T

\* Both cases, as the service task meets them.
LEMMA BudgetCharged ==
  ASSUME now \in Nat, NEW R, IsFiniteSet(R), NEW s \in Slot, NEW e, e.at = now,
         s.perHour > 0, InWindow(s, now), s.count > 0 => InBudget(R, s),
         \A f \in R : f.at \in Nat /\ f.at <= s.lastFire /\ s.count > 0 /\ now - f.at < Window,
         Limited(e) => ~RateSpent(s, now)
  PROVE  InBudget(R \cup {e}, Charged(s, now))
<1> DEFINE c == Charged(s, now)
<1>1. c \in Slot
  BY ChargedType, GuardTableAssumption
<1>2. /\ c.perHour = s.perHour /\ c.lastFire = now
      /\ OpensWindow(s) => c.count = 1 /\ c.windowStart = now
      /\ ~OpensWindow(s) => /\ c.windowStart = s.windowStart
                            /\ c.count = IF s.count < CountMax THEN s.count + 1 ELSE s.count
  BY ChargedFields
<1> HIDE DEF c
<1>3. s.count \in Nat /\ s.windowStart \in Nat /\ s.lastFire \in Nat /\ Window \in Nat /\ s.perHour \in Nat
  BY GuardTableAssumption DEF Slot, GuardTableAssumption
<1>4. CASE OpensWindow(s)
  <2>1. ASSUME NEW f \in R
        PROVE  /\ f.at \in Nat /\ f.at < now
               /\ s.count > 0 /\ InBudget(R, s) /\ f.at > s.windowStart
    <3>1. f.at \in Nat /\ f.at <= s.lastFire /\ s.count > 0 /\ now - f.at < Window
      OBVIOUS
    <3>2. s.lastFire - s.windowStart < Window
      BY <3>1 DEF InWindow
    <3>3. now - s.windowStart >= Window
      BY <1>3, <1>4, <3>1 DEF OpensWindow
    <3>4. QED
      BY <1>3, <3>1, <3>2, <3>3
  <2>2. InBudget(R \cup {e}, c)
    BY <1>1, <1>2, <1>4, <2>1, BudgetInNewWindow
  <2>3. QED
    BY <2>2 DEF c
<1>5. CASE ~OpensWindow(s)
  <2>1. s.count > 0 /\ s.windowStart <= now
    BY <1>3, <1>5 DEF OpensWindow, InWindow
  <2>2. WindowStillOpen(s, now)
    BY <1>3, <1>5, <2>1 DEF OpensWindow, WindowStillOpen
  <2>3. Limited(e) => s.count < s.perHour
    BY <1>3, <2>2 DEF RateSpent
  <2>4. InBudget(R \cup {e}, c)
    BY <1>1, <1>2, <1>5, <2>1, <2>3, BudgetInOpenWindow
  <2>5. QED
    BY <2>4 DEF c
<1>6. QED
  BY <1>4, <1>5

\* Charging also keeps the slot inside the window it counts in.
LEMMA WindowCharged ==
  ASSUME now \in Nat, NEW s \in Slot, InWindow(s, now), NEW c, c = Charged(s, now)
  PROVE  InWindow(c, now)
<1> SUFFICES c.windowStart <= c.lastFire /\ c.lastFire <= now /\ c.lastFire - c.windowStart < Window
  BY DEF InWindow
<1>1. /\ c.lastFire = now
      /\ OpensWindow(s) => c.windowStart = now
      /\ ~OpensWindow(s) => c.windowStart = s.windowStart
  BY ChargedFields
<1>2. s.count \in Nat /\ s.windowStart \in Nat /\ s.lastFire \in Nat /\ Window \in Nat \ {0}
  BY GuardTableAssumption DEF Slot, GuardTableAssumption
<1>3. QED
  BY <1>1, <1>2 DEF OpensWindow, InWindow

LEMMA BudgetQuiet ==
  ASSUME BudgetInv, Base', QuietStep, NEW d \in Devices, NEW p \in Pairs
  PROVE  Budgeted(d, p)'
<1> DEFINE R == recent[d][p]
           s == table[d].slots[p]
           u == table'[d].slots[p]
<1>1. Budgeted(d, p) /\ Untouched(d, p) /\ Uncharged(d, p) /\ Aged /\ now' >= now /\ now \in Nat /\ now' \in Nat
  BY DEF BudgetInv, QuietStep, SpacingInv, Base
<1>2. recent'[d][p] \subseteq R
  BY <1>1 DEF Untouched
<1>3. IsFiniteSet(R) /\ IsFiniteSet(recent'[d][p])
  BY <1>1, <1>2, NoLarger DEF Budgeted
<1>4. \A f \in recent'[d][p] : now' - f.at < Window
  BY <1>1, <1>2 DEF Budgeted, Aged
<1>5. ASSUME Declared(table', d, p), u.count > 0
      PROVE  /\ Declared(table, d, p) /\ s \in Slot /\ u \in Slot
             /\ u.count = s.count /\ u.lastFire = s.lastFire /\ u.windowStart = s.windowStart
  <2>1. Declared(table, d, p) /\ u.count = s.count /\ u.lastFire = s.lastFire /\ u.windowStart = s.windowStart
    BY <1>1, <1>5 DEF Uncharged
  <2>2. s \in Slot /\ u \in Slot
    BY <1>5, <2>1, SlotFacts DEF BudgetInv, SpacingInv, Base
  <2>3. QED
    BY <2>1, <2>2
<1>6. ASSUME Declared(table', d, p)
      PROVE  InWindow(u, now')
  <2> SUFFICES ASSUME u.count > 0
               PROVE  u.windowStart <= u.lastFire /\ u.lastFire <= now' /\ u.lastFire - u.windowStart < Window
    BY DEF InWindow
  <2>1. InWindow(s, now) /\ s.lastFire \in Nat
    BY <1>1, <1>5, <1>6 DEF Budgeted, Slot
  <2>2. QED
    BY <1>1, <1>5, <1>6, <2>1 DEF InWindow
<1>7. ASSUME Declared(table', d, p), u.count > 0, u.perHour > 0
      PROVE  InBudget(recent'[d][p], u)
  <2>1. CASE recent'[d][p] = {}
    BY <1>5, <1>7, <2>1, NothingSpent
  <2>2. CASE recent'[d][p] # {}
    <3>1. u.perHour = s.perHour /\ u.count = s.count /\ u.windowStart = s.windowStart
          /\ s \in Slot /\ u \in Slot /\ Declared(table, d, p)
      BY <1>1, <1>5, <1>7, <2>2 DEF Untouched
    <3>2. InBudget(R, s)
      BY <1>1, <1>7, <3>1 DEF Budgeted
    <3> HIDE DEF R, s, u
    <3>3. QED
      BY <1>2, <1>3, <3>1, <3>2, BudgetShrinks
  <2>3. QED
    BY <2>1, <2>2
<1>8. QED
  BY <1>3, <1>4, <1>6, <1>7 DEF Budgeted

LEMMA BudgetSend ==
  ASSUME BudgetInv, NEW c, ServiceSends(c), NEW d \in Devices, NEW p \in Pairs
  PROVE  Budgeted(d, p)'
<1> DEFINE p0 == <<c.action, ResolveEndpoint(table, c.dev, c.action, c.endpoint)>>
           e == [n |-> sends, at |-> now, source |-> c.source]
           s == table[d].slots[p]
<1>1. /\ Declared(table, c.dev, p0)
      /\ \A x, q : Declared(table', x, q) <=> Declared(table, x, q)
      /\ table'[c.dev].slots[p0] = Charged(table[c.dev].slots[p0], now)
      /\ \A x, q : Declared(table, x, q) /\ (x # c.dev \/ q # p0) =>
           table'[x].slots[q] = table[x].slots[q]
  BY SendCharges DEF BudgetInv, SpacingInv
<1>2. Budgeted(d, p) /\ now' = now /\ now \in Nat
  BY DEF BudgetInv, ServiceSends, SpacingInv, Base
<1>3. Limited(e) => ~RateSpent(table[c.dev].slots[p0], now)
  <2>1. c.source # Safety => ~RateSpent(table[c.dev].slots[p0], now)
    BY CheckInBudget DEF ServiceSends, StillAllowed
  <2>2. QED
    BY <2>1 DEF Limited
<1>4. \/ recent'[d][p] = recent[d][p]
      \/ d = c.dev /\ p = p0 /\ recent'[d][p] = recent[d][p] \cup {e}
  BY SendGoesTo DEF BudgetInv, SpacingInv
<1>5. e.at = now
  OBVIOUS
<1> HIDE DEF p0, e
<1>6. /\ IsFiniteSet(recent'[d][p])
      /\ \A f \in recent'[d][p] : now' - f.at < Window
  <2>1. IsFiniteSet(recent[d][p] \cup {e})
    BY <1>2, FS_AddElement DEF Budgeted
  <2>2. now - e.at < Window
    BY <1>2, <1>5, GuardTableAssumption DEF GuardTableAssumption
  <2>3. QED
    BY <1>2, <1>4, <2>1, <2>2 DEF Budgeted
<1>7. CASE d # c.dev \/ p # p0
  <2>1. recent'[d][p] = recent[d][p]
    BY <1>4, <1>7
  <2>2. Declared(table', d, p) => Declared(table, d, p) /\ table'[d].slots[p] = s
    BY <1>1, <1>7
  <2>3. QED
    BY <1>2, <1>6, <2>1, <2>2 DEF Budgeted
<1>8. CASE d = c.dev /\ p = p0
  <2>1. Declared(table, d, p) /\ s \in Slot /\ table'[d].slots[p] = Charged(s, now)
    BY <1>1, <1>8, SlotFacts DEF BudgetInv, SpacingInv, Base
  <2>2. IsFiniteSet(recent[d][p]) /\ InWindow(s, now)
        /\ (s.count > 0 /\ s.perHour > 0 => InBudget(recent[d][p], s))
    BY <1>2, <2>1 DEF Budgeted
  <2>3. \A f \in recent[d][p] : f.at \in Nat /\ f.at <= s.lastFire /\ s.count > 0 /\ now - f.at < Window
    BY <1>2 DEF BudgetInv, SpacingInv, Remembered, Budgeted
  <2>4. Limited(e) => ~RateSpent(s, now)
    BY <1>3, <1>8
  <2> HIDE DEF s
  <2>5. InWindow(Charged(s, now), now)
    BY <1>2, <2>1, <2>2, WindowCharged
  <2>6. ASSUME Charged(s, now).perHour > 0
        PROVE  InBudget(recent'[d][p], Charged(s, now))
    <3>1. s.perHour > 0 /\ Charged(s, now) \in Slot
      BY <1>2, <2>1, <2>6, ChargedFields, ChargedType, GuardTableAssumption
    <3>2. s.count > 0 => InBudget(recent[d][p], s)
      BY <2>2, <3>1
    <3>3. InBudget(recent[d][p] \cup {e}, Charged(s, now))
      BY <1>2, <1>5, <2>1, <2>2, <2>3, <2>4, <3>1, <3>2, BudgetCharged
    <3>4. IsFiniteSet(recent[d][p] \cup {e}) /\ recent'[d][p] \subseteq recent[d][p] \cup {e}
      BY <1>4, <2>2, FS_AddElement
    <3>5. QED
      BY <3>1, <3>3, <3>4, BudgetShrinks
  <2>7. QED
    BY <1>2, <1>6, <2>1, <2>5, <2>6 DEF Budgeted
<1>9. QED
  BY <1>7, <1>8

\* Limited commands are those of the window before and those of this one.
LEMMA TwoWindows ==
  ASSUME NEW R, IsFiniteSet(R), NEW s \in Slot, InBudget(R, s), \A f \in R : f.at \in Nat
  PROVE  Cardinality({f \in R : Limited(f)}) < 2 * s.perHour
<1> DEFINE w == s.windowStart
<1>1. {f \in R : Limited(f)} = Before(R, w) \cup Since(R, w)
  BY DEF Slot, Before, Since
<1>2. Before(R, w) \cap Since(R, w) = {}
  BY DEF Slot, Before, Since
<1>3. /\ IsFiniteSet(Before(R, w)) /\ Cardinality(Before(R, w)) \in Nat
      /\ IsFiniteSet(Since(R, w)) /\ Cardinality(Since(R, w)) \in Nat
  BY PartsFinite
<1>4. Cardinality(Before(R, w) \cup Since(R, w)) = Cardinality(Before(R, w)) + Cardinality(Since(R, w))
  <2>1. Cardinality(Before(R, w) \cup Since(R, w))
          = Cardinality(Before(R, w)) + Cardinality(Since(R, w)) - Cardinality(Before(R, w) \cap Since(R, w))
    BY <1>3, FS_Union
  <2>2. Cardinality(Before(R, w) \cap Since(R, w)) = 0
    BY <1>2, FS_EmptySet
  <2>3. QED
    BY <1>3, <2>1, <2>2
<1>5. s.perHour \in Nat
  BY GuardTableAssumption DEF Slot, GuardTableAssumption
<1> DEFINE L == {f \in R : Limited(f)}
<1>6. Cardinality(L) = Cardinality(Before(R, w)) + Cardinality(Since(R, w))
  BY <1>1, <1>4
<1> HIDE DEF L
<1>7. Cardinality(L) < 2 * s.perHour
  BY <1>3, <1>5, <1>6 DEF InBudget
<1>8. QED
  BY <1>7 DEF L

\* Over any Window seconds, not only those of one fixed window, a pair is charged for fewer
\* than twice its cap of limited commands, whatever safety closes ran in between.
THEOREM BudgetRolls == Spec => []RollingBudget
<1>1. Init => BudgetInv
  <2> SUFFICES ASSUME Init PROVE BudgetInv
    OBVIOUS
  <2>1. SpacingInv
    BY SpacingStarts
  <2>2. ASSUME NEW d \in Devices, NEW p \in Pairs
        PROVE  recent[d][p] = {} /\ ~Declared(table, d, p)
    BY DEF Init, EmptyTable, Declared
  <2>3. QED
    BY <2>1, <2>2, FS_EmptySet DEF BudgetInv, Budgeted
<1>2. BudgetInv /\ [Next]_vars => BudgetInv'
  <2> SUFFICES ASSUME BudgetInv, [Next]_vars PROVE BudgetInv'
    OBVIOUS
  <2>1. SpacingInv' /\ Base /\ Base'
    BY BaseNext, SpacingKept DEF BudgetInv, SpacingInv
  <2>2. QuietStep \/ \E c : ServiceSends(c)
    BY <2>1, QuietOrSend
  <2>3. \A d \in Devices, p \in Pairs : Budgeted(d, p)'
    <3>1. CASE QuietStep
      BY <2>1, <3>1, BudgetQuiet
    <3>2. CASE \E c : ServiceSends(c)
      BY <3>2, BudgetSend
    <3>3. QED
      BY <2>2, <3>1, <3>2
  <2>4. QED
    BY <2>1, <2>3 DEF BudgetInv
<1>3. BudgetInv => RollingBudget
  <2> SUFFICES ASSUME BudgetInv, NEW d \in DOMAIN table, NEW p \in DOMAIN table[d].slots,
                      table[d].slots[p].perHour > 0
               PROVE  Cardinality({f \in recent[d][p] : Limited(f)}) < 2 * table[d].slots[p].perHour
    BY DEF RollingBudget
  <2>1. d \in Devices /\ p \in Pairs /\ table[d].slots[p] \in Slot /\ Declared(table, d, p)
    BY SlotFacts DEF BudgetInv, SpacingInv, Base, Declared
  <2>2. IsFiniteSet(recent[d][p]) /\ Budgeted(d, p) /\ \A f \in recent[d][p] : f.at \in Nat
    BY <2>1 DEF BudgetInv, SpacingInv, Remembered, Budgeted
  <2>3. CASE table[d].slots[p].count > 0
    BY <2>1, <2>2, <2>3, TwoWindows DEF Budgeted
  <2>4. CASE ~(table[d].slots[p].count > 0)
    <3>1. {f \in recent[d][p] : Limited(f)} = {}
      BY <2>1, <2>4 DEF BudgetInv, SpacingInv, Remembered
    <3>2. table[d].slots[p].perHour \in Nat
      BY <2>1, GuardTableAssumption DEF Slot, GuardTableAssumption
    <3>3. QED
      BY <3>1, <3>2, FS_EmptySet
  <2>5. QED
    BY <2>3, <2>4
<1>4. QED
  BY <1>1, <1>2, <1>3, PTL DEF Spec

-----------------------------------------------------------------------------
(* Some entries of a sequence *)

\* What may be selected from a sequence.
Positions(S) == S \subseteq Nat /\ IsFiniteSet(S)

\* Ranks number the positions, in their order.
LEMMA Ranks ==
  ASSUME NEW S, Positions(S)
  PROVE  /\ Cardinality(S) \in Nat
         /\ \A i \in S : Rank(S, i) \in 1 .. Cardinality(S)
         /\ \A i, j \in S : i < j => Rank(S, i) < Rank(S, j)
         /\ \A m \in 1 .. Cardinality(S) : \E i \in S : Rank(S, i) = m
<1> DEFINE Low(i) == {j \in S : j <= i}
           N == Cardinality(S)
           rank == [i \in S |-> Rank(S, i)]
<1>1. IsFiniteSet(S) /\ N \in Nat /\ S \subseteq Nat
  BY FS_CardinalityType DEF Positions
<1>2. \A i \in S : IsFiniteSet(Low(i)) /\ Cardinality(Low(i)) \in Nat /\ Cardinality(Low(i)) <= N
  <2>1. \A i \in S : Low(i) \in SUBSET S
    OBVIOUS
  <2> HIDE DEF Low
  <2>2. QED
    BY <1>1, <2>1, FS_Subset, FS_CardinalityType
<1>3. \A i \in S : Rank(S, i) = Cardinality(Low(i))
  BY DEF Rank
<1>4. \A i \in S : Rank(S, i) \in 1 .. N
  <2>1. ASSUME NEW i \in S PROVE Cardinality(Low(i)) # 0
    <3>1. i \in Low(i)
      BY <1>1
    <3> HIDE DEF Low
    <3>2. QED
      BY <1>2, <3>1, FS_EmptySet
  <2> HIDE DEF Low
  <2>2. QED
    BY <1>1, <1>2, <1>3, <2>1
<1>5. \A i, j \in S : i < j => Rank(S, i) < Rank(S, j)
  <2> SUFFICES ASSUME NEW i \in S, NEW j \in S, i < j PROVE Rank(S, i) < Rank(S, j)
    OBVIOUS
  <2>1. Low(i) \in SUBSET Low(j) /\ j \in Low(j) /\ j \notin Low(i)
    <3>1. i \in Nat /\ j \in Nat /\ \A k \in S : k \in Nat
      BY <1>1
    <3>2. \A k \in S : k <= i => k <= j
      BY <3>1
    <3>3. j <= j /\ ~(j <= i)
      BY <3>1
    <3>4. QED
      BY <3>2, <3>3
  <2>2. Low(i) # Low(j)
    BY <2>1, Zenon
  <2> HIDE DEF Low
  <2>3. Cardinality(Low(i)) <= Cardinality(Low(j)) /\ Cardinality(Low(i)) # Cardinality(Low(j))
    <3> DEFINE a == Low(i)
               b == Low(j)
    <3>1. IsFiniteSet(b) /\ a \in SUBSET b /\ a # b
      BY <1>2, <2>1, <2>2
    <3> HIDE DEF a, b
    <3>2. Cardinality(a) <= Cardinality(b) /\ (Cardinality(b) = Cardinality(a) => b = a)
      BY <3>1, FS_Subset
    <3>3. QED
      BY <3>1, <3>2 DEF a, b
  <2>4. QED
    BY <1>2, <1>3, <2>3
<1>6. \A m \in 1 .. N : \E i \in S : Rank(S, i) = m
  <2>1. \A i, j \in S : Rank(S, i) = Rank(S, j) => i = j
    <3> SUFFICES ASSUME NEW i \in S, NEW j \in S, i # j PROVE Rank(S, i) # Rank(S, j)
      OBVIOUS
    <3>1. i < j \/ j < i
      BY <1>1
    <3>2. Rank(S, i) \in Nat /\ Rank(S, j) \in Nat
      BY <1>4
    <3>3. QED
      BY <1>5, <3>1, <3>2
  <2>2. rank \in Injection(S, 1 .. N)
    BY <1>4, <2>1 DEF Injection, IsInjective
  <2>3. Cardinality(1 .. N) = N
    BY <1>1, FS_Interval
  <2>4. rank \in Surjection(S, 1 .. N)
    <3> DEFINE T == 1 .. N
    <3>1. /\ rank \in Injection(S, T) /\ Cardinality(S) = Cardinality(T)
          /\ IsFiniteSet(S) /\ IsFiniteSet(T)
      BY <1>1, <2>2, <2>3, FS_Interval
    <3> HIDE DEF T, rank, N
    <3>2. rank \in Surjection(S, T)
      BY <3>1, FS_Injection
    <3>3. QED
      BY <3>2 DEF T
  <2>5. QED
    BY <2>4 DEF Surjection
<1>7. QED
  BY <1>1, <1>4, <1>5, <1>6

LEMMA NthFacts ==
  ASSUME NEW S, Positions(S)
  PROVE  /\ \A m \in 1 .. Cardinality(S) : Nth(S, m) \in S /\ Rank(S, Nth(S, m)) = m
         /\ \A i \in S : Nth(S, Rank(S, i)) = i
         /\ \A l, m \in 1 .. Cardinality(S) : l < m => Nth(S, l) < Nth(S, m)
<1>1. \A m \in 1 .. Cardinality(S) : Nth(S, m) \in S /\ Rank(S, Nth(S, m)) = m
  <2> SUFFICES ASSUME NEW m \in 1 .. Cardinality(S)
               PROVE  Nth(S, m) \in S /\ Rank(S, Nth(S, m)) = m
    OBVIOUS
  <2>1. \E i \in S : Rank(S, i) = m
    BY Ranks
  <2>2. QED
    BY <2>1, Zenon DEF Nth
<1>2. \A i, j \in S : Rank(S, i) = Rank(S, j) => i = j
  <2> SUFFICES ASSUME NEW i \in S, NEW j \in S, i # j PROVE Rank(S, i) # Rank(S, j)
    OBVIOUS
  <2>1. i < j \/ j < i
    BY DEF Positions
  <2>2. Rank(S, i) \in Nat /\ Rank(S, j) \in Nat
    BY Ranks
  <2>3. QED
    BY <2>1, <2>2, Ranks
<1>3. \A i \in S : Nth(S, Rank(S, i)) = i
  BY <1>1, <1>2, Ranks
<1>4. \A l, m \in 1 .. Cardinality(S) : l < m => Nth(S, l) < Nth(S, m)
  <2> SUFFICES ASSUME NEW l \in 1 .. Cardinality(S), NEW m \in 1 .. Cardinality(S), l < m
               PROVE  Nth(S, l) < Nth(S, m)
    OBVIOUS
  <2> DEFINE i == Nth(S, l)
             j == Nth(S, m)
  <2>1. i \in S /\ j \in S /\ Rank(S, i) = l /\ Rank(S, j) = m
    BY <1>1
  <2> HIDE DEF i, j
  <2>2. i \in Nat /\ j \in Nat
    BY <2>1 DEF Positions
  <2>3. j < i => m < l
    BY <2>1, Ranks
  <2>4. i # j
    BY <2>1, Ranks
  <2>5. i < j
    BY <2>2, <2>3, <2>4, Ranks
  <2>6. QED
    BY <2>5 DEF i, j
<1>5. QED
  BY <1>1, <1>3, <1>4

\* What lists the positions in their order is Nth.
LEMMA InTheirOrder ==
  ASSUME NEW S, Positions(S), NEW n \in Nat, NEW f \in [1 .. n -> S],
         \A l, m \in 1 .. n : l < m => f[l] < f[m],
         \A i \in S : \E m \in 1 .. n : f[m] = i
  PROVE  n = Cardinality(S) /\ \A m \in 1 .. n : f[m] = Nth(S, m)
<1>1. \A l, m \in 1 .. n : f[l] = f[m] => l = m
  <2> SUFFICES ASSUME NEW l \in 1 .. n, NEW m \in 1 .. n, l # m PROVE f[l] # f[m]
    OBVIOUS
  <2>1. l < m \/ m < l
    OBVIOUS
  <2>2. f[l] \in Nat /\ f[m] \in Nat
    BY DEF Positions
  <2>3. f[l] < f[m] \/ f[m] < f[l]
    BY <2>1
  <2>4. QED
    BY <2>2, <2>3
<1>2. \A m \in 1 .. n : Cardinality({j \in S : j <= f[m]}) = m /\ IsFiniteSet({j \in S : j <= f[m]})
  <2> SUFFICES ASSUME NEW m \in 1 .. n
               PROVE  /\ Cardinality({j \in S : j <= f[m]}) = m
                      /\ IsFiniteSet({j \in S : j <= f[m]})
    OBVIOUS
  <2> DEFINE T == {j \in S : j <= f[m]}
             g == [k \in 1 .. m |-> f[k]]
  <2>1. \A k \in 1 .. m : k \in 1 .. n
    OBVIOUS
  <2>2. \A k \in 1 .. m : f[k] <= f[m] /\ f[k] \in S
    <3> SUFFICES ASSUME NEW k \in 1 .. m PROVE f[k] <= f[m] /\ f[k] \in S
      OBVIOUS
    <3>1. k \in 1 .. n /\ (k < m \/ k = m)
      OBVIOUS
    <3>2. f[k] \in S /\ f[k] \in Nat /\ f[m] \in Nat
      BY <3>1 DEF Positions
    <3>3. k < m => f[k] < f[m]
      BY <3>1
    <3>4. QED
      BY <3>1, <3>2, <3>3
  <2>3. \A j \in T : \E k \in 1 .. m : f[k] = j
    <3> SUFFICES ASSUME NEW j \in S, j <= f[m] PROVE \E k \in 1 .. m : f[k] = j
      OBVIOUS
    <3>1. PICK k \in 1 .. n : f[k] = j
      OBVIOUS
    <3>2. f[k] \in Nat /\ f[m] \in Nat
      BY DEF Positions
    <3>3. ~(m < k)
      BY <3>1, <3>2
    <3>4. k \in 1 .. m
      BY <3>3
    <3>5. QED
      BY <3>1, <3>4
  <2>4. g \in [1 .. m -> T] /\ \A k, l \in 1 .. m : g[k] = g[l] => k = l
    BY <1>1, <2>1, <2>2
  <2>5. \A j \in T : \E k \in 1 .. m : g[k] = j
    BY <2>3
  <2> HIDE DEF T, g
  <2>6. g \in Bijection(1 .. m, T)
    BY <2>4, <2>5 DEF Bijection, Injection, IsInjective, Surjection
  <2>7. IsFiniteSet(1 .. m) /\ Cardinality(1 .. m) = m /\ ExistsBijection(1 .. m, T)
    BY <2>6, FS_Interval DEF ExistsBijection
  <2>8. QED
    BY <2>7, FS_Bijection DEF T
<1>3. \A m \in 1 .. n : Rank(S, f[m]) = m /\ f[m] \in S
  BY <1>2 DEF Rank
<1>4. \A m \in 1 .. n : Nth(S, m) = f[m]
  BY <1>3, NthFacts
<1>5. n = Cardinality(S)
  <2>1. f \in Bijection(1 .. n, S)
    BY <1>1 DEF Bijection, Injection, IsInjective, Surjection
  <2>2. IsFiniteSet(1 .. n) /\ Cardinality(1 .. n) = n /\ ExistsBijection(1 .. n, S)
    BY <2>1, FS_Interval DEF ExistsBijection
  <2>3. QED
    BY <2>2, FS_Bijection
<1>6. QED
  BY <1>4, <1>5

LEMMA SelectedFacts ==
  ASSUME NEW T, NEW q \in Seq(T), NEW S, S \subseteq DOMAIN q
  PROVE  /\ Positions(S) /\ Cardinality(S) \in Nat
         /\ Selected(q, S) \in Seq(T) /\ Len(Selected(q, S)) = Cardinality(S)
         /\ DOMAIN Selected(q, S) = 1 .. Cardinality(S)
         /\ \A m \in 1 .. Cardinality(S) :
              Nth(S, m) \in S /\ Selected(q, S)[m] = q[Nth(S, m)]
<1> DEFINE w == Selected(q, S)
           N == Cardinality(S)
<1>1. DOMAIN q = 1 .. Len(q) /\ Len(q) \in Nat /\ \A i \in DOMAIN q : q[i] \in T
  OBVIOUS
<1>2. Positions(S) /\ N \in Nat
  <2>1. IsFiniteSet(1 .. Len(q)) /\ S \in SUBSET (1 .. Len(q)) /\ S \subseteq Nat
    BY <1>1, FS_Interval
  <2>2. QED
    BY <2>1, FS_Subset, FS_CardinalityType DEF Positions
<1>3. \A m \in 1 .. N : Nth(S, m) \in S
  BY <1>2, NthFacts
<1>4. w = [m \in 1 .. N |-> q[Nth(S, m)]]
  BY DEF Selected
<1> HIDE DEF w, N
<1>5. \A m \in 1 .. N : q[Nth(S, m)] \in T
  BY <1>1, <1>3
<1>6. w \in Seq(T) /\ Len(w) = N /\ DOMAIN w = 1 .. N /\ \A m \in 1 .. N : w[m] = q[Nth(S, m)]
  BY <1>2, <1>4, <1>5
<1>7. QED
  BY <1>2, <1>3, <1>6 DEF w, N

\* The function f walks the positions S of q in their order, and w is what it finds there.
Spells(q, S, w, f) ==
  /\ S \subseteq DOMAIN q
  /\ f \in [1 .. Len(w) -> S]
  /\ \A l, m \in 1 .. Len(w) : l < m => f[l] < f[m]
  /\ \A i \in S : \E m \in 1 .. Len(w) : f[m] = i
  /\ \A m \in 1 .. Len(w) : w[m] = q[f[m]]

LEMMA SelectedIs ==
  ASSUME NEW T, NEW q \in Seq(T), NEW S, NEW w \in Seq(T), NEW f, Spells(q, S, w, f)
  PROVE  w = Selected(q, S)
<1>1. Len(w) \in Nat /\ w = [m \in 1 .. Len(w) |-> w[m]]
  OBVIOUS
<1>2. S \subseteq DOMAIN q
  BY DEF Spells
<1>3. Positions(S)
  BY <1>2, SelectedFacts
<1>4. Len(w) = Cardinality(S) /\ \A m \in 1 .. Len(w) : f[m] = Nth(S, m)
  BY <1>1, <1>3, InTheirOrder DEF Spells
<1>5. \A m \in 1 .. Len(w) : w[m] = q[f[m]]
  BY DEF Spells
<1>6. w = [m \in 1 .. Cardinality(S) |-> q[Nth(S, m)]]
  BY <1>1, <1>4, <1>5
<1>7. QED
  BY <1>6 DEF Selected

\* Which of the selected entries are at the positions X.
Chosen(S, X) == {m \in 1 .. Cardinality(S) : Nth(S, m) \in X}

\* Selecting twice is selecting what both select.
LEMMA SelectedTwice ==
  ASSUME NEW T, NEW q \in Seq(T), NEW S, S \subseteq DOMAIN q, NEW X
  PROVE  Selected(Selected(q, S), Chosen(S, X)) = Selected(q, S \cap X)
<1> DEFINE v == Selected(q, S)
           P == Chosen(S, X)
           w == Selected(v, P)
           f == [m \in 1 .. Len(w) |-> Nth(S, Nth(P, m))]
<1>1. /\ Positions(S) /\ Cardinality(S) \in Nat /\ v \in Seq(T) /\ DOMAIN v = 1 .. Cardinality(S)
      /\ \A m \in 1 .. Cardinality(S) : Nth(S, m) \in S /\ v[m] = q[Nth(S, m)]
  BY SelectedFacts
<1>2. P = {m \in 1 .. Cardinality(S) : Nth(S, m) \in X} /\ P \subseteq DOMAIN v
  BY <1>1 DEF Chosen
<1>3. /\ Positions(P) /\ w \in Seq(T) /\ Len(w) = Cardinality(P)
      /\ \A m \in 1 .. Cardinality(P) : Nth(P, m) \in P /\ w[m] = v[Nth(P, m)]
  <2> HIDE DEF v, P
  <2>1. QED
    BY <1>1, <1>2, SelectedFacts
<1> HIDE DEF v, w, P
<1>4. f \in [1 .. Len(w) -> S \cap X]
  BY <1>1, <1>2, <1>3
<1>5. \A l, m \in 1 .. Len(w) : l < m => f[l] < f[m]
  <2> SUFFICES ASSUME NEW l \in 1 .. Len(w), NEW m \in 1 .. Len(w), l < m PROVE f[l] < f[m]
    OBVIOUS
  <2>1. Nth(P, l) < Nth(P, m) /\ Nth(P, l) \in 1 .. Cardinality(S) /\ Nth(P, m) \in 1 .. Cardinality(S)
    BY <1>2, <1>3, NthFacts
  <2>2. Nth(S, Nth(P, l)) < Nth(S, Nth(P, m))
    BY <1>1, <2>1, NthFacts
  <2>3. QED
    BY <2>2
<1>6. \A i \in S \cap X : \E m \in 1 .. Len(w) : f[m] = i
  <2> SUFFICES ASSUME NEW i \in S, i \in X PROVE \E m \in 1 .. Len(w) : f[m] = i
    OBVIOUS
  <2>1. Rank(S, i) \in 1 .. Cardinality(S) /\ Nth(S, Rank(S, i)) = i
    BY <1>1, Ranks, NthFacts
  <2>2. Rank(S, i) \in P
    BY <1>2, <2>1
  <2>3. Rank(P, Rank(S, i)) \in 1 .. Cardinality(P) /\ Nth(P, Rank(P, Rank(S, i))) = Rank(S, i)
    BY <1>3, <2>2, Ranks, NthFacts
  <2>4. QED
    BY <1>3, <2>1, <2>3
<1>7. \A m \in 1 .. Len(w) : w[m] = q[f[m]]
  BY <1>1, <1>2, <1>3
<1>8. S \cap X \subseteq DOMAIN q
  OBVIOUS
<1> HIDE DEF f
<1>9. Spells(q, S \cap X, w, f)
  BY <1>4, <1>5, <1>6, <1>7, <1>8 DEF Spells
<1>10. w \in Seq(T)
  BY <1>3
<1>11. w = Selected(q, S \cap X)
  BY <1>9, <1>10, SelectedIs, Zenon
<1>12. QED
  BY <1>11 DEF w, v, P

\* Without one entry, wherever it is.
LEMMA Without ==
  ASSUME NEW T, NEW q \in Seq(T), NEW d \in DOMAIN q
  PROVE  RemoveAt(q, d) = Selected(q, DOMAIN q \ {d})
<1> DEFINE a == SubSeq(q, 1, d - 1)
           b == SubSeq(q, d + 1, Len(q))
           w == RemoveAt(q, d)
           f == [m \in 1 .. Len(q) - 1 |-> IF m < d THEN m ELSE m + 1]
           S == DOMAIN q \ {d}
<1>1. Len(q) \in Nat /\ DOMAIN q = 1 .. Len(q) /\ d \in 1 .. Len(q) /\ S \subseteq DOMAIN q
  OBVIOUS
<1>2. a \in Seq(T) /\ Len(a) = d - 1 /\ \A j \in 1 .. d - 1 : a[j] = q[j]
  BY <1>1
<1>3. b \in Seq(T) /\ Len(b) = Len(q) - d /\ \A j \in 1 .. Len(q) - d : b[j] = q[j + d]
  BY <1>1
<1>4. w = a \o b
  BY DEF RemoveAt
<1> HIDE DEF a, b, w
<1>5. /\ w \in Seq(T) /\ Len(w) = Len(a) + Len(b)
      /\ \A j \in 1 .. Len(w) : w[j] = IF j <= Len(a) THEN a[j] ELSE b[j - Len(a)]
  <2>1. \A x, y \in Seq(T) :
          /\ x \o y \in Seq(T) /\ Len(x \o y) = Len(x) + Len(y)
          /\ \A j \in 1 .. Len(x) + Len(y) :
               (x \o y)[j] = IF j <= Len(x) THEN x[j] ELSE y[j - Len(x)]
    OBVIOUS
  <2>2. a \in Seq(T) /\ b \in Seq(T)
    BY <1>2, <1>3
  <2>3. QED
    BY <1>4, <2>1, <2>2, Zenon
<1>6. Len(w) = Len(q) - 1
  BY <1>1, <1>2, <1>3, <1>5
<1>7. \A m \in 1 .. Len(w) : w[m] = q[f[m]]
  <2> SUFFICES ASSUME NEW m \in 1 .. Len(w) PROVE w[m] = q[f[m]]
    OBVIOUS
  <2>1. CASE m < d
    <3>1. m \in 1 .. d - 1 /\ m <= Len(a) /\ f[m] = m
      BY <1>1, <1>2, <1>6, <2>1
    <3>2. QED
      BY <1>2, <1>5, <3>1
  <2>2. CASE ~(m < d)
    <3>1. /\ ~(m <= Len(a)) /\ m - Len(a) \in 1 .. Len(q) - d /\ (m - Len(a)) + d = m + 1
          /\ f[m] = m + 1
      BY <1>1, <1>2, <1>6, <2>2
    <3>2. w[m] = b[m - Len(a)]
      BY <1>5, <3>1
    <3>3. QED
      BY <1>3, <3>1, <3>2
  <2>3. QED
    BY <2>1, <2>2
<1>8. f \in [1 .. Len(w) -> S] /\ \A l, m \in 1 .. Len(w) : l < m => f[l] < f[m]
  BY <1>1, <1>6
<1>9. \A i \in S : \E m \in 1 .. Len(w) : f[m] = i
  <2> SUFFICES ASSUME NEW i \in 1 .. Len(q), i # d PROVE \E m \in 1 .. Len(w) : f[m] = i
    BY <1>1
  <2>1. CASE i < d
    <3>1. i \in 1 .. Len(w) /\ f[i] = i
      BY <1>1, <1>6, <2>1
    <3>2. QED
      BY <3>1
  <2>2. CASE ~(i < d)
    <3>1. i - 1 \in 1 .. Len(w) /\ f[i - 1] = i
      BY <1>1, <1>6, <2>2
    <3>2. QED
      BY <3>1
  <2>3. QED
    BY <2>1, <2>2
<1> HIDE DEF f, S
<1>10. Spells(q, S, w, f) /\ w \in Seq(T)
  BY <1>1, <1>5, <1>7, <1>8, <1>9 DEF Spells
<1>11. w = Selected(q, S)
  BY <1>10, SelectedIs, Zenon
<1>12. QED
  BY <1>11 DEF w, S

LEMMA WithoutFirst ==
  ASSUME NEW T, NEW q \in Seq(T), q # <<>>
  PROVE  Tail(q) = Selected(q, DOMAIN q \ {1})
<1> DEFINE w == Tail(q)
           S == DOMAIN q \ {1}
           f == [m \in 1 .. Len(w) |-> m + 1]
<1>1. /\ Len(q) \in Nat /\ DOMAIN q = 1 .. Len(q) /\ S \subseteq DOMAIN q
      /\ w \in Seq(T) /\ Len(w) = Len(q) - 1 /\ \A m \in 1 .. Len(w) : w[m] = q[m + 1]
  OBVIOUS
<1> HIDE DEF w
<1>2. f \in [1 .. Len(w) -> S] /\ \A l, m \in 1 .. Len(w) : l < m => f[l] < f[m]
  BY <1>1
<1>3. \A i \in S : \E m \in 1 .. Len(w) : f[m] = i
  <2> SUFFICES ASSUME NEW i \in S PROVE \E m \in 1 .. Len(w) : f[m] = i
    OBVIOUS
  <2>1. i - 1 \in 1 .. Len(w) /\ f[i - 1] = i
    BY <1>1
  <2>2. QED
    BY <2>1
<1>4. \A m \in 1 .. Len(w) : w[m] = q[f[m]]
  BY <1>1
<1> HIDE DEF f, S
<1>5. Spells(q, S, w, f) /\ w \in Seq(T)
  BY <1>1, <1>2, <1>3, <1>4 DEF Spells
<1>6. w = Selected(q, S)
  BY <1>5, SelectedIs, Zenon
<1>7. QED
  BY <1>6 DEF w, S

\* With one entry more.
LEMMA WithLast ==
  ASSUME NEW T, NEW q \in Seq(T), NEW c \in T, NEW S, S \subseteq DOMAIN q
  PROVE  /\ Selected(Append(q, c), S) = Selected(q, S)
         /\ Selected(Append(q, c), S \cup {Len(q) + 1}) = Append(Selected(q, S), c)
<1> DEFINE t == Append(q, c)
           n == Len(q) + 1
           v == Selected(q, S)
           w == Append(v, c)
           N == Cardinality(S)
           f == [m \in 1 .. N |-> Nth(S, m)]
           g == [m \in 1 .. N + 1 |-> IF m <= N THEN Nth(S, m) ELSE n]
<1>1. /\ Len(q) \in Nat /\ n \in Nat /\ DOMAIN q = 1 .. Len(q) /\ t \in Seq(T) /\ DOMAIN t = 1 .. n
      /\ t[n] = c /\ \A i \in 1 .. Len(q) : t[i] = q[i]
  OBVIOUS
<1>2. /\ Positions(S) /\ N \in Nat /\ v \in Seq(T) /\ Len(v) = N
      /\ \A m \in 1 .. N : Nth(S, m) \in S /\ v[m] = q[Nth(S, m)]
  BY SelectedFacts
<1> HIDE DEF t, n, v, N
<1>3. n = Len(q) + 1
  BY DEF n
<1>4. S \subseteq 1 .. Len(q) /\ S \subseteq DOMAIN t /\ S \cup {n} \subseteq DOMAIN t
  BY <1>1, <1>3
<1>5. \A l, m \in 1 .. N : l < m => Nth(S, l) < Nth(S, m)
  BY <1>2, NthFacts DEF N
<1>6. \A i \in S : \E m \in 1 .. N : Nth(S, m) = i
  BY <1>2, Ranks, NthFacts DEF N
<1>7. v = Selected(t, S)
  <2>1. f \in [1 .. Len(v) -> S] /\ \A m \in 1 .. Len(v) : f[m] = Nth(S, m)
    BY <1>2
  <2> HIDE DEF f
  <2>2. \A m \in 1 .. Len(v) : v[m] = t[f[m]]
    BY <1>1, <1>2, <1>4, <2>1
  <2>3. \A l, m \in 1 .. Len(v) : l < m => f[l] < f[m]
    BY <1>2, <1>5, <2>1
  <2>4. \A i \in S : \E m \in 1 .. Len(v) : f[m] = i
    BY <1>2, <1>6, <2>1
  <2>5. Spells(t, S, v, f) /\ v \in Seq(T) /\ t \in Seq(T)
    BY <1>1, <1>2, <1>4, <2>1, <2>2, <2>3, <2>4 DEF Spells
  <2>6. QED
    BY <2>5, SelectedIs, Zenon
<1>8. w = Selected(t, S \cup {n})
  <2>1. w \in Seq(T) /\ Len(w) = N + 1 /\ w[N + 1] = c /\ \A m \in 1 .. N : w[m] = v[m]
    BY <1>2
  <2> HIDE DEF w
  <2>2. /\ g \in [1 .. N + 1 -> S \cup {n}] /\ g[N + 1] = n
        /\ \A m \in 1 .. N : g[m] = Nth(S, m) /\ Nth(S, m) \in S
        /\ \A m \in 1 .. N + 1 : m \in 1 .. N \/ m = N + 1
    BY <1>2
  <2> HIDE DEF g
  <2>3. \A m \in 1 .. N + 1 : w[m] = t[g[m]]
    <3> SUFFICES ASSUME NEW m \in 1 .. N + 1 PROVE w[m] = t[g[m]]
      OBVIOUS
    <3>1. CASE m \in 1 .. N
      BY <1>1, <1>2, <1>4, <2>1, <2>2, <3>1
    <3>2. CASE m = N + 1
      BY <1>1, <2>1, <2>2, <3>2
    <3>3. QED
      BY <2>2, <3>1, <3>2
  <2>4. \A l, m \in 1 .. N + 1 : l < m => g[l] < g[m]
    <3> SUFFICES ASSUME NEW l \in 1 .. N + 1, NEW m \in 1 .. N + 1, l < m PROVE g[l] < g[m]
      OBVIOUS
    <3>1. l \in 1 .. N
      BY <1>2
    <3>2. CASE m \in 1 .. N
      BY <1>5, <2>2, <3>1, <3>2
    <3>3. CASE m = N + 1
      <4>1. g[l] \in 1 .. Len(q) /\ g[m] = n
        BY <1>4, <2>2, <3>1, <3>3
      <4>2. QED
        BY <1>1, <1>3, <4>1
    <3>4. QED
      BY <2>2, <3>2, <3>3
  <2>5. \A i \in S \cup {n} : \E m \in 1 .. N + 1 : g[m] = i
    <3>1. N + 1 \in 1 .. N + 1 /\ \A m \in 1 .. N : m \in 1 .. N + 1
      BY <1>2
    <3>2. QED
      BY <1>6, <2>2, <3>1
  <2>6. QED
    <3> DEFINE R == S \cup {n}
    <3>1. g \in [1 .. Len(w) -> R] /\ R \subseteq DOMAIN t
      BY <1>4, <2>1, <2>2
    <3>2. \A i \in R : \E m \in 1 .. Len(w) : g[m] = i
      BY <2>1, <2>5
    <3>3. \A m \in 1 .. Len(w) : w[m] = t[g[m]]
      BY <2>1, <2>3
    <3>4. \A l, m \in 1 .. Len(w) : l < m => g[l] < g[m]
      BY <2>1, <2>4
    <3> HIDE DEF R
    <3>5. Spells(t, R, w, g) /\ w \in Seq(T) /\ t \in Seq(T)
      BY <1>1, <2>1, <3>1, <3>2, <3>3, <3>4 DEF Spells
    <3>6. w = Selected(t, R)
      BY <3>5, SelectedIs, Zenon
    <3>7. QED
      BY <3>6 DEF R
<1>9. QED
  BY <1>7, <1>8 DEF t, n, v, w

-----------------------------------------------------------------------------
(* The two lanes of the queue *)

UrgentLane(q)   == Selected(q, UrgentAt(q))
OrdinaryLane(q) == Selected(q, OrdinaryAt(q))

\* Where the entries are that are not overdue.
OnTimeAt(q, time) == {i \in DOMAIN q : q[i].deadline >= time}

\* Of what is selected, the urgent, the ordinary and the unexpired entries are
\* those that already were.
LEMMA KindsOfSelected ==
  ASSUME NEW T, NEW q \in Seq(T), NEW S, S \subseteq DOMAIN q, NEW time
  PROVE  /\ UrgentAt(Selected(q, S)) = Chosen(S, UrgentAt(q))
         /\ OrdinaryAt(Selected(q, S)) = Chosen(S, OrdinaryAt(q))
         /\ OnTimeAt(Selected(q, S), time) =
              Chosen(S, OnTimeAt(q, time))
<1> DEFINE w == Selected(q, S)
           N == Cardinality(S)
<1>1. DOMAIN w = 1 .. N /\ \A m \in 1 .. N : Nth(S, m) \in DOMAIN q /\ w[m] = q[Nth(S, m)]
  BY SelectedFacts
<1> HIDE DEF w, N
<1>2. UrgentAt(w) = Chosen(S, UrgentAt(q))
  BY <1>1 DEF UrgentAt, Chosen, N
<1>3. OrdinaryAt(w) = Chosen(S, OrdinaryAt(q))
  BY <1>1 DEF OrdinaryAt, Chosen, N
<1>4. OnTimeAt(w, time) = Chosen(S, OnTimeAt(q, time))
  BY <1>1 DEF OnTimeAt, Chosen, N
<1>5. QED
  BY <1>2, <1>3, <1>4 DEF w, N

\* The lanes of a selection are selections of the lanes' positions.
LEMMA LanesOfSelected ==
  ASSUME NEW T, NEW q \in Seq(T), NEW S, S \subseteq DOMAIN q
  PROVE  /\ UrgentLane(Selected(q, S)) = Selected(q, S \cap UrgentAt(q))
         /\ OrdinaryLane(Selected(q, S)) = Selected(q, S \cap OrdinaryAt(q))
<1> DEFINE w == Selected(q, S)
           P == UrgentAt(w)
           Q == OrdinaryAt(w)
           X == UrgentAt(q)
           Y == OrdinaryAt(q)
<1>1. /\ P = Chosen(S, X)
      /\ Q = Chosen(S, Y)
  BY KindsOfSelected
<1> HIDE DEF P, Q, X, Y
<1>2. Selected(w, Chosen(S, X)) = Selected(q, S \cap X)
  BY SelectedTwice
<1>3. Selected(w, Chosen(S, Y)) = Selected(q, S \cap Y)
  BY SelectedTwice
<1>4. QED
  BY <1>1, <1>2, <1>3 DEF P, Q, X, Y, UrgentLane, OrdinaryLane

\* Dropping what is overdue and splitting into lanes commute.
LEMMA LanesOfUnexpired ==
  ASSUME NEW T, NEW q \in Seq(T), NEW time
  PROVE  /\ UrgentLane(Unexpired(q, time)) = Unexpired(UrgentLane(q), time)
         /\ OrdinaryLane(Unexpired(q, time)) = Unexpired(OrdinaryLane(q), time)
<1> DEFINE X == UrgentAt(q)
           Y == OrdinaryAt(q)
           D == OnTimeAt(q, time)
<1>1. X \subseteq DOMAIN q /\ Y \subseteq DOMAIN q /\ D \subseteq DOMAIN q
  BY DEF UrgentAt, OrdinaryAt, OnTimeAt
<1>2. \A r : Unexpired(r, time) = Selected(r, OnTimeAt(r, time))
  BY DEF Unexpired, OnTimeAt
<1>3. /\ UrgentLane(Selected(q, D)) = Selected(q, D \cap X)
      /\ OrdinaryLane(Selected(q, D)) = Selected(q, D \cap Y)
  BY <1>1, LanesOfSelected, Zenon
<1>4. ASSUME NEW S, S \subseteq DOMAIN q
      PROVE  Selected(Selected(q, S), OnTimeAt(Selected(q, S), time)) = Selected(q, S \cap D)
  <2> DEFINE P == OnTimeAt(Selected(q, S), time)
  <2>1. P = Chosen(S, D)
    BY <1>4, KindsOfSelected
  <2> HIDE DEF P, D
  <2>2. Selected(Selected(q, S), Chosen(S, D)) = Selected(q, S \cap D)
    BY <1>4, SelectedTwice
  <2>3. QED
    BY <2>1, <2>2 DEF P
<1>5. D \cap X = X \cap D /\ D \cap Y = Y \cap D
  OBVIOUS
<1> HIDE DEF X, Y, D
<1>6. /\ Unexpired(Selected(q, X), time) = Selected(q, D \cap X)
      /\ Unexpired(Selected(q, Y), time) = Selected(q, D \cap Y)
  BY <1>1, <1>2, <1>4, <1>5, Zenon
<1>7. Unexpired(q, time) = Selected(q, D)
  BY <1>2 DEF D
<1>8. UrgentLane(q) = Selected(q, X) /\ OrdinaryLane(q) = Selected(q, Y)
  BY DEF UrgentLane, OrdinaryLane, X, Y
<1>9. QED
  BY <1>3, <1>6, <1>7, <1>8, Zenon

\* The first of some positions is the least of them.
LEMMA FirstIs ==
  ASSUME NEW S, S \subseteq Nat, S # {}
  PROVE  First(S) \in S /\ \A i \in S : First(S) <= i
<1>1. PICK c \in S : \A d \in S : <<d, c>> \notin OpToRel(<, Nat)
  BY NatLessThanWellFounded, WFMin, Zenon
<1>2. \A d \in S : ~(d < c)
  BY <1>1 DEF OpToRel
<1>3. c \in S /\ \A d \in S : c <= d
  BY <1>2
<1>4. QED
  BY <1>3, Zenon DEF First

\* Giving up the first of the selected entries is giving up the head of the selection.
LEMMA WithoutHead ==
  ASSUME NEW T, NEW q \in Seq(T), NEW S, S \subseteq DOMAIN q, S # {}
  PROVE  /\ First(S) \in S
         /\ Selected(q, S) # <<>>
         /\ Selected(q, S \ {First(S)}) = Tail(Selected(q, S))
<1> DEFINE d == First(S)
           w == Selected(q, S)
           N == Cardinality(S)
           R == S \ {d}
           P == DOMAIN w \ {1}
<1>1. Positions(S) /\ N \in Nat /\ w \in Seq(T) /\ Len(w) = N /\ DOMAIN w = 1 .. N
  BY SelectedFacts
<1>2. d \in S /\ d \in Nat /\ \A i \in S : i \in Nat /\ d <= i
  <2>1. S \subseteq Nat
    OBVIOUS
  <2>2. QED
    BY <2>1, FirstIs
<1> HIDE DEF d, w, N
<1>3. Rank(S, d) = 1 /\ 1 \in 1 .. N
  <2>1. {j \in S : j <= d} = {d}
    BY <1>2
  <2>2. Rank(S, d) = 1
    BY <2>1, FS_Singleton DEF Rank
  <2>3. QED
    BY <1>1, <1>2, <2>2, Ranks DEF N
<1>4. \A m \in 1 .. N : Nth(S, m) \in S /\ (Nth(S, m) = d <=> m = 1)
  BY <1>1, <1>2, <1>3, NthFacts DEF N
<1>5. P = Chosen(S, R)
  BY <1>1, <1>4 DEF Chosen, N
<1>6. S \cap R = R
  OBVIOUS
<1> HIDE DEF P, R
<1>7. Selected(w, P) = Selected(q, R)
  <2>1. Selected(Selected(q, S), Chosen(S, R)) = Selected(q, S \cap R)
    BY SelectedTwice
  <2>2. QED
    BY <1>5, <1>6, <2>1 DEF w
<1>8. w # <<>>
  BY <1>1, <1>3
<1>9. Tail(w) = Selected(w, P)
  BY <1>1, <1>8, WithoutFirst DEF P
<1>10. QED
  BY <1>2, <1>7, <1>8, <1>9 DEF d, w, R

\* Every entry is in one lane.
LEMMA Lanewise ==
  ASSUME NEW T, NEW q \in Seq(T)
  PROVE  /\ UrgentLane(q) \in Seq(T) /\ OrdinaryLane(q) \in Seq(T)
         /\ Len(UrgentLane(q)) + Len(OrdinaryLane(q)) = Len(q)
         /\ (UrgentLane(q) = <<>>) <=> (UrgentAt(q) = {})
         /\ (OrdinaryLane(q) = <<>>) <=> (OrdinaryAt(q) = {})
<1> DEFINE X == UrgentAt(q)
           Y == OrdinaryAt(q)
<1>1. /\ X \subseteq DOMAIN q /\ Y \subseteq DOMAIN q /\ X \cap Y = {} /\ X \cup Y = DOMAIN q
  BY DEF UrgentAt, OrdinaryAt
<1> HIDE DEF X, Y
<1>9. DOMAIN q = 1 .. Len(q) /\ Len(q) \in Nat
  OBVIOUS
<1>2. /\ Positions(X) /\ Cardinality(X) \in Nat /\ Selected(q, X) \in Seq(T)
      /\ Len(Selected(q, X)) = Cardinality(X)
  BY <1>1, SelectedFacts
<1>3. /\ Positions(Y) /\ Cardinality(Y) \in Nat /\ Selected(q, Y) \in Seq(T)
      /\ Len(Selected(q, Y)) = Cardinality(Y)
  BY <1>1, SelectedFacts
<1>4. Cardinality(X \cup Y) = Cardinality(X) + Cardinality(Y)
  <2>1. IsFiniteSet(X) /\ IsFiniteSet(Y) /\ Cardinality(X \cap Y) = 0
    BY <1>1, <1>2, <1>3, FS_EmptySet DEF Positions
  <2>2. Cardinality(X \cup Y) = Cardinality(X) + Cardinality(Y) - Cardinality(X \cap Y)
    BY <2>1, FS_Union
  <2>3. QED
    BY <1>2, <1>3, <2>1, <2>2
<1>5. Cardinality(X \cup Y) = Len(q)
  <2>1. Cardinality(1 .. Len(q)) = Len(q)
    <3>1. 0 <= Len(q)
      BY <1>9
    <3>2. QED
      BY <1>9, <3>1, FS_Interval
  <2>2. QED
    BY <1>1, <1>9, <2>1
<1>6. (Cardinality(X) = 0 <=> X = {}) /\ (Cardinality(Y) = 0 <=> Y = {})
  BY <1>2, <1>3, FS_EmptySet DEF Positions
<1>7. \A r \in Seq(T) : r = <<>> <=> Len(r) = 0
  OBVIOUS
<1>8. QED
  BY <1>2, <1>3, <1>4, <1>5, <1>6, <1>7 DEF X, Y, UrgentLane, OrdinaryLane

\* Taking out the first of a lane leaves its tail, and the other lane alone.
LEMMA LanesWithout ==
  ASSUME NEW T, NEW q \in Seq(T)
  PROVE  /\ UrgentAt(q) # {} =>
              LET r == RemoveAt(q, First(UrgentAt(q)))
              IN  /\ UrgentLane(r) = Tail(UrgentLane(q))
                  /\ OrdinaryLane(r) = OrdinaryLane(q)
         /\ OrdinaryAt(q) # {} =>
              LET r == RemoveAt(q, First(OrdinaryAt(q)))
              IN  /\ UrgentLane(r) = UrgentLane(q)
                  /\ OrdinaryLane(r) = Tail(OrdinaryLane(q))
                  /\ r \in Seq(T)
<1> DEFINE X == UrgentAt(q)
           Y == OrdinaryAt(q)
<1>1. X \subseteq DOMAIN q /\ Y \subseteq DOMAIN q /\ X \cap Y = {}
  BY DEF UrgentAt, OrdinaryAt
<1> HIDE DEF X, Y
<1>2. UrgentLane(q) = Selected(q, X) /\ OrdinaryLane(q) = Selected(q, Y)
  BY DEF UrgentLane, OrdinaryLane, X, Y
<1>3. ASSUME NEW d \in DOMAIN q
      PROVE  /\ UrgentLane(RemoveAt(q, d)) = Selected(q, X \ {d})
             /\ OrdinaryLane(RemoveAt(q, d)) = Selected(q, Y \ {d})
             /\ RemoveAt(q, d) \in Seq(T)
  <2> DEFINE S == DOMAIN q \ {d}
  <2>1. RemoveAt(q, d) = Selected(q, S)
    BY Without
  <2>2. S \subseteq DOMAIN q /\ S \cap X = X \ {d} /\ S \cap Y = Y \ {d}
    BY <1>1
  <2> HIDE DEF S
  <2>3. /\ UrgentLane(Selected(q, S)) = Selected(q, S \cap UrgentAt(q))
        /\ OrdinaryLane(Selected(q, S)) = Selected(q, S \cap OrdinaryAt(q))
    BY <2>2, LanesOfSelected, Zenon
  <2>4. Selected(q, S) \in Seq(T)
    BY <2>2, SelectedFacts
  <2>5. QED
    BY <2>1, <2>2, <2>3, <2>4, Zenon DEF X, Y
<1>4. ASSUME X # {}
      PROVE  /\ UrgentLane(RemoveAt(q, First(X))) = Tail(UrgentLane(q))
             /\ OrdinaryLane(RemoveAt(q, First(X))) = OrdinaryLane(q)
  <2>1. First(X) \in X /\ Selected(q, X \ {First(X)}) = Tail(Selected(q, X))
    BY <1>1, <1>4, WithoutHead, Zenon
  <2>2. Y \ {First(X)} = Y /\ First(X) \in DOMAIN q
    BY <1>1, <2>1
  <2>3. QED
    BY <1>2, <1>3, <2>1, <2>2, Zenon
<1>5. ASSUME Y # {}
      PROVE  /\ UrgentLane(RemoveAt(q, First(Y))) = UrgentLane(q)
             /\ OrdinaryLane(RemoveAt(q, First(Y))) = Tail(OrdinaryLane(q))
             /\ RemoveAt(q, First(Y)) \in Seq(T)
  <2>1. First(Y) \in Y /\ Selected(q, Y \ {First(Y)}) = Tail(Selected(q, Y))
    BY <1>1, <1>5, WithoutHead, Zenon
  <2>2. X \ {First(Y)} = X /\ First(Y) \in DOMAIN q
    BY <1>1, <2>1
  <2>3. QED
    BY <1>2, <1>3, <2>1, <2>2, Zenon
<1>6. QED
  BY <1>4, <1>5, Zenon DEF X, Y

LEMMA RemovedType ==
  ASSUME NEW T, NEW q \in Seq(T), NEW d \in DOMAIN q
  PROVE  RemoveAt(q, d) \in Seq(T)
<1> DEFINE S == DOMAIN q \ {d}
<1>1. S \subseteq DOMAIN q /\ RemoveAt(q, d) = Selected(q, S)
  BY Without
<1> HIDE DEF S
<1>2. QED
  BY <1>1, SelectedFacts

\* A new entry goes to the end of its lane.
LEMMA LanesWith ==
  ASSUME NEW T, NEW q \in Seq(T), NEW c \in T
  PROVE  /\ Append(q, c) \in Seq(T)
         /\ Urgent(c) => /\ UrgentLane(Append(q, c)) = Append(UrgentLane(q), c)
                         /\ OrdinaryLane(Append(q, c)) = OrdinaryLane(q)
         /\ ~Urgent(c) => /\ UrgentLane(Append(q, c)) = UrgentLane(q)
                          /\ OrdinaryLane(Append(q, c)) = Append(OrdinaryLane(q), c)
<1> DEFINE r == Append(q, c)
           n == Len(q) + 1
           X == UrgentAt(q)
           Y == OrdinaryAt(q)
<1>1. /\ r \in Seq(T) /\ Len(q) \in Nat /\ DOMAIN q = 1 .. Len(q) /\ DOMAIN r = 1 .. n
      /\ r[n] = c /\ \A i \in 1 .. Len(q) : r[i] = q[i]
      /\ \A i \in 1 .. n : i \in 1 .. Len(q) \/ i = n
      /\ \A i \in 1 .. Len(q) : i \in 1 .. n
      /\ n \in 1 .. n
  OBVIOUS
<1> HIDE DEF r, n
<1>2. UrgentAt(r) = IF Urgent(c) THEN X \cup {n} ELSE X
  BY <1>1 DEF UrgentAt
<1>3. OrdinaryAt(r) = IF Urgent(c) THEN Y ELSE Y \cup {n}
  BY <1>1 DEF OrdinaryAt
<1>4. X \subseteq DOMAIN q /\ Y \subseteq DOMAIN q
  BY DEF UrgentAt, OrdinaryAt
<1> HIDE DEF X, Y
<1>5. /\ Selected(r, X) = Selected(q, X)
      /\ Selected(r, X \cup {n}) = Append(Selected(q, X), c)
  BY <1>4, WithLast, Zenon DEF r, n
<1>6. /\ Selected(r, Y) = Selected(q, Y)
      /\ Selected(r, Y \cup {n}) = Append(Selected(q, Y), c)
  BY <1>4, WithLast, Zenon DEF r, n
<1>7. /\ UrgentLane(q) = Selected(q, X) /\ OrdinaryLane(q) = Selected(q, Y)
      /\ UrgentLane(r) = Selected(r, UrgentAt(r)) /\ OrdinaryLane(r) = Selected(r, OrdinaryAt(r))
  BY DEF UrgentLane, OrdinaryLane, X, Y
<1>8. CASE Urgent(c)
  BY <1>1, <1>2, <1>3, <1>5, <1>6, <1>7, <1>8 DEF r
<1>9. CASE ~Urgent(c)
  BY <1>1, <1>2, <1>3, <1>5, <1>6, <1>7, <1>9 DEF r
<1>10. QED
  BY <1>8, <1>9

-----------------------------------------------------------------------------
(* The array is the two lanes *)

\* What is selected in the abstract queue is what is selected here.
LEMMA LanesSelect == \A q, S : Lanes!Selected(q, S) = Selected(q, S)
  BY DEF Lanes!Selected, Lanes!Nth, Lanes!Rank, Lanes!Cardinality, Lanes!IsFiniteSet,
         Selected, Nth, Rank, Cardinality, IsFiniteSet

LEMMA LanesDrop ==
  ASSUME NEW q
  PROVE  Lanes!InTime(q) = Unexpired(q, now)
  BY LanesSelect DEF Lanes!InTime, Unexpired

LEMMA LanesAre ==
  /\ Lanes!vars = <<UrgentLane(queue), OrdinaryLane(queue), now>>
  /\ Lanes!Init <=> UrgentLane(queue) = <<>> /\ OrdinaryLane(queue) = <<>> /\ now = 0
  /\ Lanes!Room <=> Len(UrgentLane(queue)) + Len(OrdinaryLane(queue)) < QueueMax
  BY DEF Lanes!vars, Lanes!Init, Lanes!Room, UrgentLane, OrdinaryLane

LEMMA SubmitUrgentIs ==
  ASSUME NEW c,
         Lanes!Room \/ OrdinaryLane(queue) # <<>>,
         UrgentLane(queue') = Append(UrgentLane(queue), c),
         OrdinaryLane(queue') =
           IF Lanes!Room THEN OrdinaryLane(queue) ELSE Tail(OrdinaryLane(queue)),
         now' = now
  PROVE  Lanes!SubmitUrgent(c)
  BY DEF Lanes!SubmitUrgent, UrgentLane, OrdinaryLane

LEMMA SubmitOrdinaryIs ==
  ASSUME NEW c,
         Lanes!Room,
         UrgentLane(queue') = UrgentLane(queue),
         OrdinaryLane(queue') = Append(OrdinaryLane(queue), c),
         now' = now
  PROVE  Lanes!SubmitOrdinary(c)
  BY DEF Lanes!SubmitOrdinary, UrgentLane, OrdinaryLane

LEMMA TakeIs ==
  ASSUME NEW u, u = Unexpired(UrgentLane(queue), now),
         NEW o, o = Unexpired(OrdinaryLane(queue), now),
         \/ u # <<>> /\ UrgentLane(queue') = Tail(u) /\ OrdinaryLane(queue') = o
         \/ u = <<>> /\ o # <<>> /\ UrgentLane(queue') = u /\ OrdinaryLane(queue') = Tail(o)
         \/ u = <<>> /\ o = <<>> /\ UrgentLane(queue') = u /\ OrdinaryLane(queue') = o,
         now' = now
  PROVE  Lanes!Take
<1>1. u = Lanes!InTime(UrgentLane(queue)) /\ o = Lanes!InTime(OrdinaryLane(queue))
  BY LanesDrop
<1>2. QED
  BY <1>1 DEF Lanes!Take, UrgentLane, OrdinaryLane

\* What is queued is something that may be submitted, and the clock is in the run.
LanesInv == Base /\ queue \in Seq(Commands) /\ now \in 0 .. Horizon

\* What a request queues may be submitted.
LEMMA Submittable ==
  ASSUME LanesInv,
         NEW d \in Devices, NEW a \in Actions, NEW e \in Endpoints \cup {0}, NEW param \in Params,
         NEW source \in Callers, NEW ttl \in TTLs, NEW stamp \in {now, now - 1} \cap Nat,
         Check(table, d, a, e, param, source, stamp) = "OK"
  PROVE  [dev |-> d, action |-> a, endpoint |-> ResolveEndpoint(table, d, a, e),
          param |-> param, source |-> source, deadline |-> stamp + ttl] \in Commands
<1> DEFINE m == ResolveEndpoint(table, d, a, e)
<1>1. Declared(table, d, <<a, m>>)
  BY CheckOK
<1>2. <<a, m>> \in Pairs
  BY <1>1, SlotFacts DEF LanesInv, Base
<1> HIDE DEF m
<1>3. m \in Endpoints
  BY <1>2 DEF Pairs
<1>4. stamp \in 0 .. Horizon
  BY ActorAssumption DEF LanesInv, ActorAssumption
<1>5. stamp + ttl \in {s + t : s \in 0 .. Horizon, t \in TTLs}
  BY <1>4
<1>6. QED
  BY <1>3, <1>5 DEF Commands, m

\* A request goes to the end of its lane; a full queue gives up the head of the other one.
LEMMA RequestSubmits ==
  ASSUME LanesInv,
         NEW d \in Devices, NEW a \in Actions, NEW e \in Endpoints \cup {0}, NEW param \in Params,
         NEW source \in Callers, NEW ttl \in TTLs, Request(d, a, e, param, source, ttl)
  PROVE  queue' \in Seq(Commands) /\ Lanes!Next
<1>1. PICK stamp \in {now, now - 1} \cap Nat :
        LET c == [dev |-> d, action |-> a, endpoint |-> ResolveEndpoint(table, d, a, e),
                  param |-> param, source |-> source, deadline |-> stamp + ttl]
        IN  /\ Check(table, d, a, e, param, source, stamp) = "OK"
            /\ CanPush(queue, c)
            /\ queue' = Push(queue, c)
            /\ now' = now
  BY Zenon DEF Request
<1> DEFINE c == [dev |-> d, action |-> a, endpoint |-> ResolveEndpoint(table, d, a, e),
                 param |-> param, source |-> source, deadline |-> stamp + ttl]
           T == Commands
<1>2. c \in T
  BY <1>1, Submittable
<1>3. CanPush(queue, c) /\ queue' = Push(queue, c) /\ now' = now
  BY <1>1
<1> HIDE DEF c, T
<1>4. queue \in Seq(T) /\ Len(queue) \in Nat /\ QueueMax \in Nat
  BY CommandQueueAssumption DEF LanesInv, T, CommandQueueAssumption
<1>5. Lanes!Room <=> Len(queue) < QueueMax
  BY <1>4, LanesAre, Lanewise
<1>6. CASE Len(queue) < QueueMax
  <2>1. queue' = Append(queue, c)
    BY <1>3, <1>6 DEF Push
  <2>2. /\ queue' \in Seq(T)
        /\ Urgent(c) => /\ UrgentLane(queue') = Append(UrgentLane(queue), c)
                        /\ OrdinaryLane(queue') = OrdinaryLane(queue)
        /\ ~Urgent(c) => /\ UrgentLane(queue') = UrgentLane(queue)
                         /\ OrdinaryLane(queue') = Append(OrdinaryLane(queue), c)
    BY <1>2, <1>4, <2>1, LanesWith
  <2>3. Lanes!SubmitUrgent(c) \/ Lanes!SubmitOrdinary(c)
    BY <1>3, <1>5, <1>6, <2>2, SubmitUrgentIs, SubmitOrdinaryIs
  <2>4. QED
    BY <1>2, <2>2, <2>3 DEF Lanes!Next, T
<1>7. CASE ~(Len(queue) < QueueMax)
  <2> DEFINE r == RemoveAt(queue, First(OrdinaryAt(queue)))
  <2>1. queue' = Append(r, c) /\ Urgent(c) /\ OrdinaryAt(queue) # {}
    BY <1>3, <1>7 DEF Push, CanPush
  <2>2. /\ UrgentLane(r) = UrgentLane(queue) /\ OrdinaryLane(r) = Tail(OrdinaryLane(queue))
        /\ r \in Seq(T)
    BY <1>4, <2>1, LanesWithout
  <2> HIDE DEF r
  <2>3. /\ queue' \in Seq(T)
        /\ UrgentLane(queue') = Append(UrgentLane(r), c)
        /\ OrdinaryLane(queue') = OrdinaryLane(r)
    BY <1>2, <2>1, <2>2, LanesWith
  <2>4. OrdinaryLane(queue) # <<>>
    BY <1>4, <2>1, Lanewise
  <2>5. Lanes!SubmitUrgent(c)
    BY <1>3, <1>5, <1>7, <2>2, <2>3, <2>4, SubmitUrgentIs
  <2>6. QED
    BY <1>2, <2>3, <2>5 DEF Lanes!Next, T
<1>8. QED
  BY <1>6, <1>7

\* The service task takes the head of the better lane, or nothing at all.
LEMMA ServiceTakes ==
  ASSUME LanesInv, Service
  PROVE  queue' \in Seq(Commands) /\ Lanes!Take
<1> DEFINE T == Commands
           present == Unexpired(queue, now)
           i == PickIndex(present)
           u == Unexpired(UrgentLane(queue), now)
           o == Unexpired(OrdinaryLane(queue), now)
<1>1. queue \in Seq(T)
  BY DEF LanesInv
<1>2. queue' = (IF present = <<>> THEN present ELSE RemoveAt(present, i)) /\ now' = now
  BY DEF Service
<1> HIDE DEF T
<1>3. present \in Seq(T)
  <2> DEFINE S == {j \in DOMAIN queue : queue[j].deadline >= now}
  <2>1. present = Selected(queue, S) /\ S \subseteq DOMAIN queue
    BY DEF Unexpired
  <2> HIDE DEF S
  <2>2. QED
    BY <1>1, <2>1, SelectedFacts
<1>4. UrgentLane(present) = u /\ OrdinaryLane(present) = o
  BY <1>1, LanesOfUnexpired
<1> HIDE DEF present, u, o
<1>5. /\ (u = <<>>) <=> (UrgentAt(present) = {})
      /\ (o = <<>>) <=> (OrdinaryAt(present) = {})
      /\ Len(u) + Len(o) = Len(present) /\ u \in Seq(T) /\ o \in Seq(T)
  BY <1>3, <1>4, Lanewise
<1>6. CASE UrgentAt(present) # {}
  <2>1. i = First(UrgentAt(present)) /\ present # <<>>
    BY <1>6 DEF PickIndex, UrgentAt
  <2>2. UrgentLane(queue') = Tail(u) /\ OrdinaryLane(queue') = o
    BY <1>2, <1>3, <1>4, <1>6, <2>1, LanesWithout
  <2>3. Lanes!Take
    BY <1>2, <1>5, <1>6, <2>2, TakeIs DEF u, o
  <2>4. First(UrgentAt(present)) \in DOMAIN present
    <3> DEFINE X == UrgentAt(present)
    <3>1. X \subseteq DOMAIN present
      BY DEF UrgentAt
    <3> HIDE DEF X
    <3>2. First(X) \in X
      BY <1>3, <1>6, <3>1, WithoutHead DEF X
    <3>3. QED
      BY <3>1, <3>2 DEF X
  <2>5. queue' \in Seq(T)
    BY <1>2, <1>3, <2>1, <2>4, RemovedType
  <2>6. QED
    BY <2>3, <2>5 DEF T
<1>7. CASE UrgentAt(present) = {} /\ OrdinaryAt(present) # {}
  <2>1. OrdinaryAt(present) = DOMAIN present /\ present # <<>> /\ i = 1
    <3>1. \A j \in DOMAIN present : ~Urgent(present[j])
      BY <1>7 DEF UrgentAt
    <3>2. OrdinaryAt(present) = DOMAIN present
      BY <3>1 DEF OrdinaryAt
    <3>3. present # <<>>
      BY <1>3, <1>7, <3>2
    <3>4. i = 1
      BY <1>7 DEF PickIndex
    <3>5. QED
      BY <3>2, <3>3, <3>4
  <2>2. First(OrdinaryAt(present)) = 1
    <3>1. DOMAIN present = 1 .. Len(present) /\ Len(present) \in Nat /\ Len(present) # 0
      BY <1>3, <2>1
    <3>2. First(1 .. Len(present)) \in 1 .. Len(present) /\ First(1 .. Len(present)) <= 1
      <4>1. 1 .. Len(present) \subseteq Nat /\ 1 \in 1 .. Len(present)
        BY <3>1
      <4>2. QED
        BY <4>1, FirstIs
    <3>3. QED
      BY <2>1, <3>1, <3>2
  <2>3. /\ UrgentLane(queue') = u /\ OrdinaryLane(queue') = Tail(o) /\ queue' \in Seq(T)
    BY <1>2, <1>3, <1>4, <1>7, <2>1, <2>2, LanesWithout
  <2>4. Lanes!Take
    BY <1>2, <1>5, <1>7, <2>3, TakeIs DEF u, o
  <2>5. QED
    BY <2>3, <2>4 DEF T
<1>8. CASE UrgentAt(present) = {} /\ OrdinaryAt(present) = {}
  <2>1. u = <<>> /\ o = <<>> /\ present = <<>>
    BY <1>3, <1>5, <1>8
  <2>2. queue' = present
    BY <1>2, <2>1
  <2>3. Lanes!Take
    BY <1>2, <1>4, <2>1, <2>2, TakeIs DEF u, o
  <2>4. QED
    BY <1>3, <2>2, <2>3 DEF T
<1>9. QED
  BY <1>6, <1>7, <1>8

LEMMA LanesStart == Init => LanesInv /\ Lanes!Init
<1> SUFFICES ASSUME Init PROVE LanesInv /\ Lanes!Init
  OBVIOUS
<1>1. queue = <<>> /\ now = 0 /\ Base
  BY BaseInit DEF Init
<1>2. <<>> \in Seq(Commands)
  OBVIOUS
<1>3. UrgentLane(<<>>) = <<>> /\ OrdinaryLane(<<>>) = <<>>
  <2>1. UrgentAt(<<>>) = {} /\ OrdinaryAt(<<>>) = {}
    BY DEF UrgentAt, OrdinaryAt
  <2>2. QED
    BY <1>2, <2>1, Lanewise
<1>4. 0 \in 0 .. Horizon
  BY ActorAssumption DEF ActorAssumption
<1>5. QED
  BY <1>1, <1>2, <1>3, <1>4, LanesAre DEF LanesInv

LEMMA LanesStep == LanesInv /\ [Next]_vars => LanesInv' /\ [Lanes!Next]_Lanes!vars
<1> SUFFICES ASSUME LanesInv, [Next]_vars PROVE LanesInv' /\ [Lanes!Next]_Lanes!vars
  OBVIOUS
<1>1. Base'
  BY BaseNext DEF LanesInv
<1>2. ASSUME UNCHANGED <<queue, now>>
      PROVE  LanesInv' /\ [Lanes!Next]_Lanes!vars
  BY <1>1, <1>2 DEF LanesInv, Lanes!vars
<1>3. ASSUME NEW d \in Devices, NEW a \in Actions, NEW e \in Endpoints \cup {0},
             NEW param \in Params, NEW source \in Callers, NEW ttl \in TTLs,
             Request(d, a, e, param, source, ttl)
      PROVE  LanesInv' /\ [Lanes!Next]_Lanes!vars
  <2>1. now' = now
    BY <1>3 DEF Request
  <2>2. QED
    BY <1>1, <1>3, <2>1, RequestSubmits DEF LanesInv
<1>4. ASSUME Service
      PROVE  LanesInv' /\ [Lanes!Next]_Lanes!vars
  <2>1. now' = now
    BY <1>4 DEF Service
  <2>2. QED
    BY <1>1, <1>4, <2>1, ServiceTakes DEF LanesInv, Lanes!Next
<1>5. ASSUME Tick
      PROVE  LanesInv' /\ [Lanes!Next]_Lanes!vars
  <2>1. now' \in 0 .. Horizon /\ now' = now + 1 /\ queue' = queue
    BY <1>5, ActorAssumption DEF Tick, LanesInv, ActorAssumption
  <2>2. Lanes!Tick
    BY <2>1 DEF Lanes!Tick
  <2>3. QED
    BY <1>1, <2>1, <2>2 DEF LanesInv, Lanes!Next
<1>6. CASE UNCHANGED vars
  BY <1>2, <1>6 DEF vars
<1>7. CASE Next
  <2>1. \/ UNCHANGED <<queue, now>>
        \/ \E d \in Devices, a \in Actions, e \in Endpoints \cup {0},
              param \in Params, source \in Callers, ttl \in TTLs :
             Request(d, a, e, param, source, ttl)
        \/ Service
        \/ Tick
    BY <1>7, Zenon DEF Next, Declare, Undeclare, Prune, ConfigureGuards, PressLockout, Dispatch
  <2>2. QED
    BY <1>2, <1>3, <1>4, <1>5, <2>1
<1>8. QED
  BY <1>6, <1>7

\* The array of commands, compacted, displaced from and picked from as actor.c does
\* it, is two first-in-first-out lanes with one capacity.
THEOREM LanesImplemented == Spec => ImplementsLanes
<1>1. QED
  BY LanesStart, LanesStep, PTL DEF Spec, ImplementsLanes, Lanes!Spec

-----------------------------------------------------------------------------
(* GuardPersist: the budgets that come back from flash                     *)

Identities == [Devices -> Keys \cup {NoKey}]

\* Every device has an index of its own.
OneIndexEach == \A d, e \in Devices : owner[d] = owner[e] /\ owner[d] # NoKey => d = e

\* A row is named after the device it was declared for, and its window opened at
\* the one instant there is.
Keyed(t) == \A d \in DOMAIN t : t[d].key \in {NoKey, owner[d]}
Still(t) == \A d \in DOMAIN t : \A p \in DOMAIN t[d].slots : t[d].slots[p].windowStart = 0
Sound(t) == IsTable(t) /\ Keyed(t) /\ Still(t)

IsImage(f) == DOMAIN f \subseteq Rows /\ f \in [DOMAIN f -> Saved]

Shapes ==
  /\ owner \in Identities /\ OneIndexEach
  /\ at = [step |-> at.step, dev |-> at.dev] /\ at.dev \in Devices \cup {NoDevice}
  /\ wired = [step |-> wired.step, dev |-> wired.dev, pairs |-> wired.pairs]
  /\ wired.dev \in Devices \cup {NoDevice} /\ wired.pairs \subseteq Pairs
  /\ plan \in [Keys \ WiredKeys -> SUBSET Actions]

PersistTypes == Sound(live) /\ Shapes /\ IsImage(img) /\ IsImage(file) /\ IsImage(durable)

\* The decoder task has a BLE device in hand from its declaration to its restore,
\* the link task a wired one; without power nobody has any.
AtWork ==
  /\ IF at.dev = NoDevice THEN at.step \notin {"declare", "key", "restore"}
     ELSE at.step \in {"declare", "key", "restore"} /\ owner[at.dev] \in Keys \ WiredKeys
  /\ IF wired.dev = NoDevice THEN wired.step \notin {"prune", "key"}
     ELSE owner[wired.dev] \in WiredKeys
  /\ ~up => live = EmptyTable /\ at.dev = NoDevice

\* What reached flash and was not given up is in the file.
FileHolds == DOMAIN durable \subseteq DOMAIN file /\ \A x \in DOMAIN durable : durable[x] = file[x]

\* It is in the image too, which has seen no less spent of a BLE device.
Recorded(rows, image) ==
  /\ DOMAIN rows \subseteq DOMAIN image
  /\ \A x \in DOMAIN rows : x[1] \notin WiredKeys => rows[x].count <= image[x].count

ImageHolds == up => Recorded(durable, img)

\* A BLE device that is not being bound has spent no less than the image says.
SpentBy(t, image, d) ==
  t[d].key \in Keys \ WiredKeys =>
    \A p \in DOMAIN t[d].slots :
      LET x == <<t[d].key, p[1], p[2]>>
      IN  x \in DOMAIN image => image[x].count <= t[d].slots[p].count

SpentKept(t, image, binding) == \A d \in DOMAIN t \ {binding} : SpentBy(t, image, d)

LiveHolds == SpentKept(live, img, at.dev)

PersistInv == PersistTypes /\ AtWork /\ FileHolds /\ ImageHolds /\ LiveHolds

\* A row of a table that is no younger than it was in another: the same device,
\* with no slot added and nothing handed back.
NoneBack(u, t, d) ==
  /\ d \in DOMAIN t /\ u[d].key = t[d].key
  /\ \A p \in DOMAIN u[d].slots :
       p \in DOMAIN t[d].slots /\ t[d].slots[p].count <= u[d].slots[p].count

GivesNothingBack(u, t) == \A d \in DOMAIN u : NoneBack(u, t, d)

\* Only the row of one device is another one, or new, or gone.
OnlyRowOf(u, t, d) ==
  DOMAIN u \subseteq DOMAIN t \cup {d} /\ \A e \in DOMAIN u : e # d => u[e] = t[e]

\* What a step on one device leaves of the others.
LEMMA SpentFrame ==
  ASSUME NEW t, IsTable(t), NEW u, IsTable(u), NEW image, IsImage(image),
         NEW b, SpentKept(t, image, b),
         \A d \in DOMAIN u \ {b} : u[d].key \in Keys \ WiredKeys => NoneBack(u, t, d)
  PROVE  SpentKept(u, image, b)
<1> SUFFICES ASSUME NEW d \in DOMAIN u \ {b}, u[d].key \in Keys \ WiredKeys,
                    NEW p \in DOMAIN u[d].slots,
                    NEW x, x = <<u[d].key, p[1], p[2]>>, x \in DOMAIN image
             PROVE  image[x].count <= u[d].slots[p].count
  BY DEF SpentKept, SpentBy
<1>1. NoneBack(u, t, d)
  OBVIOUS
<1>2. image[x].count <= t[d].slots[p].count
  BY <1>1 DEF SpentKept, SpentBy, NoneBack
<1>3. t[d].slots[p].count <= u[d].slots[p].count
  BY <1>1 DEF NoneBack
<1>4. image[x].count \in Nat
  BY GuardTableAssumption DEF IsImage, Saved, GuardTableAssumption
<1>5. t[d].slots[p].count \in Nat /\ u[d].slots[p].count \in Nat
  <2>1. Declared(t, d, p) /\ Declared(u, d, p)
    BY <1>1 DEF Declared, NoneBack
  <2>2. t[d].slots[p] \in Slot /\ u[d].slots[p] \in Slot
    BY <2>1, SlotFacts
  <2>3. QED
    BY <2>2, GuardTableAssumption DEF Slot, GuardTableAssumption
<1>6. QED
  BY <1>2, <1>3, <1>4, <1>5

\* Replacing the row of one device.
LEMMA WithRowSound ==
  ASSUME NEW t, Sound(t), NEW d \in Devices, NEW r, IsRow(r), r.key \in {NoKey, owner[d]},
         \A p \in DOMAIN r.slots : r.slots[p].windowStart = 0
  PROVE  Sound(WithRow(t, d, r)) /\ OnlyRowOf(WithRow(t, d, r), t, d)
<1>1. /\ DOMAIN WithRow(t, d, r) = DOMAIN t \cup {d}
      /\ WithRow(t, d, r)[d] = r
      /\ \A e \in DOMAIN t \ {d} : WithRow(t, d, r)[e] = t[e]
      /\ WithRow(t, d, r) = [x \in DOMAIN WithRow(t, d, r) |-> WithRow(t, d, r)[x]]
  BY DEF WithRow
<1> DEFINE u == WithRow(t, d, r)
<1> HIDE DEF u
<1>2. IsTable(u)
  BY <1>1 DEF u, Sound, IsTable
<1>3. Keyed(u) /\ Still(u)
  BY <1>1 DEF u, Sound, Keyed, Still
<1>4. OnlyRowOf(u, t, d)
  BY <1>1 DEF u, OnlyRowOf
<1>5. QED
  BY <1>2, <1>3, <1>4 DEF u, Sound

LEMMA WithRowDomain ==
  ASSUME NEW t, NEW d, NEW r
  PROVE  DOMAIN WithRow(t, d, r) = DOMAIN t \cup {d} /\ WithRow(t, d, r)[d] = r
  BY DEF WithRow

\* A step that replaces the row of a device nobody's budget is asked of.
LEMMA OthersKept ==
  ASSUME NEW t, IsTable(t), NEW u, NEW d, OnlyRowOf(u, t, d),
         NEW e \in DOMAIN u, e # d
  PROVE  NoneBack(u, t, e)
<1>1. e \in DOMAIN t /\ u[e] = t[e]
  BY DEF OnlyRowOf
<1>2. \A p \in DOMAIN t[e].slots : t[e].slots[p].count \in Nat
  <2> TAKE p \in DOMAIN t[e].slots
  <2>1. t[e].slots[p] \in Slot
    BY <1>1, SlotFacts DEF Declared
  <2>2. QED
    BY <2>1, GuardTableAssumption DEF Slot, GuardTableAssumption
<1>3. QED
  BY <1>1, <1>2 DEF NoneBack

\* The counts of a table are numbers.
LEMMA CountsType ==
  ASSUME NEW t, IsTable(t), NEW d \in DOMAIN t, NEW p \in DOMAIN t[d].slots
  PROVE  t[d].slots[p] \in Slot /\ t[d].slots[p].count \in Nat
<1>1. t[d].slots[p] \in Slot
  BY SlotFacts DEF Declared
<1>2. QED
  BY <1>1, GuardTableAssumption DEF Slot, GuardTableAssumption

\* A row that gives nothing back in place of another.
LEMMA RowSwap ==
  ASSUME NEW t, Sound(t), NEW d \in DOMAIN t, NEW r, IsRow(r),
         r.key = t[d].key, DOMAIN r.slots \subseteq DOMAIN t[d].slots,
         \A p \in DOMAIN r.slots :
           r.slots[p].windowStart = 0 /\ t[d].slots[p].count <= r.slots[p].count,
         NEW u, u = [t EXCEPT ![d] = r]
  PROVE  Sound(u) /\ GivesNothingBack(u, t)
<1>1. IsTable(t) /\ d \in Devices /\ r.key \in {NoKey, owner[d]}
  BY DEF Sound, IsTable, Keyed
<1>2. u = WithRow(t, d, r)
  BY <1>1, ExceptIsWithRow
<1>3. \A p \in DOMAIN r.slots : r.slots[p].windowStart = 0
  OBVIOUS
<1>4. Sound(WithRow(t, d, r)) /\ OnlyRowOf(WithRow(t, d, r), t, d)
  BY <1>1, <1>3, WithRowSound
<1>5. Sound(u) /\ OnlyRowOf(u, t, d)
  BY <1>2, <1>4
<1>6. u[d] = r
  BY <1>2, WithRowDomain
<1>7. NoneBack(u, t, d)
  BY <1>6 DEF NoneBack
<1>8. \A e \in DOMAIN u : e # d => NoneBack(u, t, e)
  BY <1>1, <1>5, OthersKept
<1>9. QED
  BY <1>5, <1>7, <1>8 DEF GivesNothingBack

LEMMA SlotSwap ==
  ASSUME NEW t, Sound(t), NEW d, NEW p, Declared(t, d, p), NEW s \in Slot,
         s.windowStart = 0, t[d].slots[p].count <= s.count,
         NEW u, u = [t EXCEPT ![d].slots[p] = s]
  PROVE  Sound(u) /\ GivesNothingBack(u, t)
<1> DEFINE f == [t[d].slots EXCEPT ![p] = s]
           r == [t[d] EXCEPT !.slots = f]
<1>1. d \in DOMAIN t /\ p \in DOMAIN t[d].slots /\ IsTable(t)
  BY DEF Declared, Sound
<1>2. IsRow(t[d]) /\ DOMAIN t[d].slots \subseteq Pairs
      /\ t[d].slots \in [DOMAIN t[d].slots -> Slot]
  BY <1>1, RowFacts
<1>3. /\ DOMAIN f = DOMAIN t[d].slots /\ f \in [DOMAIN f -> Slot] /\ f[p] = s
      /\ \A q \in DOMAIN t[d].slots : q # p => f[q] = t[d].slots[q]
  BY <1>1, <1>2
<1>4. u = [t EXCEPT ![d] = r]
  OBVIOUS
<1> HIDE DEF f
<1>5. IsRow(r) /\ r.slots = f /\ r.key = t[d].key
  BY <1>2, <1>3, RowSlots
<1>6. \A q \in DOMAIN t[d].slots :
        t[d].slots[q].windowStart = 0 /\ t[d].slots[q].count <= t[d].slots[q].count
  BY <1>1, CountsType DEF Sound, Still
<1>7. \A q \in DOMAIN f : f[q].windowStart = 0 /\ t[d].slots[q].count <= f[q].count
  BY <1>1, <1>3, <1>6
<1> HIDE DEF r
<1>8. QED
  BY <1>1, <1>3, <1>4, <1>5, <1>7, RowSwap

LEMMA GuardsSwap ==
  ASSUME NEW t, Sound(t), NEW d, NEW p, Declared(t, d, p),
         NEW cooldown \in Nat, NEW perHour \in 0 .. CountMax,
         NEW u, u = SetGuards(t, d, p, cooldown, perHour)
  PROVE  Sound(u) /\ GivesNothingBack(u, t)
<1> DEFINE s == [t[d].slots[p] EXCEPT !.cooldown = cooldown, !.perHour = perHour]
<1>1. d \in DOMAIN t /\ p \in DOMAIN t[d].slots /\ IsTable(t)
  BY DEF Declared, Sound
<1>2. t[d].slots[p] \in Slot /\ t[d].slots[p].count \in Nat /\ t[d].slots[p].windowStart = 0
  BY <1>1, CountsType DEF Sound, Still
<1>3. s \in Slot /\ s.count = t[d].slots[p].count /\ s.windowStart = t[d].slots[p].windowStart
  BY <1>2 DEF Slot
<1>4. u = [t EXCEPT ![d].slots[p] = s]
  BY DEF SetGuards
<1> HIDE DEF s
<1>5. s.windowStart = 0 /\ t[d].slots[p].count <= s.count
  BY <1>2, <1>3
<1>6. QED
  BY <1>3, <1>4, <1>5, SlotSwap

\* A charge is added to what is spent, as long as the window is open.
LEMMA ChargedSpends ==
  ASSUME NEW s \in Slot, s.windowStart = 0
  PROVE  Charged(s, 0).windowStart = 0 /\ s.count <= Charged(s, 0).count
<1> DEFINE n == IF s.count < CountMax THEN s.count + 1 ELSE s.count
           first == [s EXCEPT !.lastFire = 0, !.windowStart = 0, !.count = 1]
           later == [s EXCEPT !.lastFire = 0, !.count = n]
<1>1. s.count \in Nat
  BY GuardTableAssumption DEF Slot, GuardTableAssumption
<1>2. ~(0 >= s.windowStart /\ 0 - s.windowStart >= Window)
  BY GuardTableAssumption DEF GuardTableAssumption
<1>3. Charged(s, 0) = IF s.count = 0 THEN first ELSE later
  BY <1>2 DEF Charged
<1>4. s.count <= n
  BY <1>1
<1> HIDE DEF n
<1>5. first.windowStart = 0 /\ first.count = 1 /\ later.windowStart = 0 /\ later.count = n
  BY DEF Slot
<1> HIDE DEF first, later
<1>6. QED
  BY <1>1, <1>3, <1>4, <1>5

\* A command that is sent is added to what is spent: the window stays open.
LEMMA ChargeSwap ==
  ASSUME NEW t, Sound(t), NEW d, NEW p \in Pairs,
         NEW u, u = Record(t, d, p[1], p[2], 0)
  PROVE  Sound(u) /\ GivesNothingBack(u, t)
<1>1. p[2] # 0 /\ <<p[1], p[2]>> = p
  BY GuardTableAssumption DEF Pairs, GuardTableAssumption
<1>2. ResolveEndpoint(t, d, p[1], p[2]) = p[2]
  BY <1>1 DEF ResolveEndpoint
<1>3. CASE ~Declared(t, d, p)
  <2>1. u = t
    BY <1>1, <1>2, <1>3 DEF Record
  <2>2. GivesNothingBack(t, t)
    BY CountsType DEF GivesNothingBack, NoneBack, Sound
  <2>3. QED
    BY <2>1, <2>2
<1>4. CASE Declared(t, d, p)
  <2> DEFINE s == t[d].slots[p]
             c == Charged(s, 0)
  <2>1. d \in DOMAIN t /\ p \in DOMAIN t[d].slots /\ IsTable(t)
    BY <1>4 DEF Declared, Sound
  <2>2. s \in Slot /\ s.count \in Nat /\ s.windowStart = 0
    BY <2>1, CountsType DEF Sound, Still
  <2>3. u = [t EXCEPT ![d].slots[p] = c]
    BY <1>1, <1>2, <1>4 DEF Record
  <2>4. c \in Slot
    BY <2>2, ChargedType, GuardTableAssumption
  <2>5. c.windowStart = 0 /\ s.count <= c.count
    BY <2>2, ChargedSpends
  <2> HIDE DEF c, s
  <2>6. t[d].slots[p] = s
    BY DEF s
  <2>7. QED
    BY <1>4, <2>3, <2>4, <2>5, <2>6, SlotSwap
<1>5. QED
  BY <1>3, <1>4

LEMMA LockoutSwap ==
  ASSUME NEW t, Sound(t), NEW d, NEW on \in BOOLEAN,
         NEW u, u = SetLockout(t, d, on)
  PROVE  Sound(u) /\ GivesNothingBack(u, t)
<1>1. CASE d \notin DOMAIN t
  <2>1. GivesNothingBack(t, t)
    BY CountsType DEF GivesNothingBack, NoneBack, Sound
  <2>2. QED
    BY <1>1, <2>1 DEF SetLockout
<1>2. CASE d \in DOMAIN t
  <2> DEFINE r == [t[d] EXCEPT !.lockout = on]
  <2>1. IsRow(t[d]) /\ IsTable(t)
    BY <1>2, RowFacts DEF Sound
  <2>2. r = [lockout |-> on, key |-> t[d].key, slots |-> t[d].slots]
    BY <2>1 DEF IsRow
  <2>3. IsRow(r) /\ r.slots = t[d].slots /\ r.key = t[d].key
    BY <2>1, <2>2, RowIntro DEF IsRow
  <2>4. u = [t EXCEPT ![d] = r]
    BY <1>2 DEF SetLockout
  <2>5. \A p \in DOMAIN t[d].slots :
          t[d].slots[p].windowStart = 0 /\ t[d].slots[p].count <= t[d].slots[p].count
    BY <1>2, <2>1, CountsType DEF Sound, Still
  <2> HIDE DEF r
  <2>6. QED
    BY <1>2, <2>3, <2>4, <2>5, RowSwap
<1>3. QED
  BY <1>1, <1>2

LEMMA KeySwap ==
  ASSUME NEW t, Sound(t), NEW d, owner[d] \in Keys \cup {NoKey},
         NEW u, u = SetKey(t, d, owner[d])
  PROVE  Sound(u) /\ DOMAIN u = DOMAIN t /\ OnlyRowOf(u, t, d)
<1>1. CASE d \notin DOMAIN t
  <2>1. u = t
    BY <1>1 DEF SetKey
  <2>2. OnlyRowOf(t, t, d)
    BY DEF OnlyRowOf
  <2>3. QED
    BY <2>1, <2>2
<1>2. CASE d \in DOMAIN t
  <2> DEFINE r == [t[d] EXCEPT !.key = owner[d]]
  <2>1. IsRow(t[d]) /\ IsTable(t) /\ d \in Devices
    BY <1>2, RowFacts DEF Sound
  <2>2. r = [lockout |-> t[d].lockout, key |-> owner[d], slots |-> t[d].slots]
    BY <2>1 DEF IsRow
  <2>3. IsRow(r) /\ r.slots = t[d].slots /\ r.key = owner[d]
    BY <2>1, <2>2, RowIntro DEF IsRow
  <2>4. u = [t EXCEPT ![d] = r]
    BY <1>2 DEF SetKey
  <2>5. \A p \in DOMAIN r.slots : r.slots[p].windowStart = 0
    BY <1>2, <2>3 DEF Sound, Still
  <2> HIDE DEF r
  <2>6. u = WithRow(t, d, r)
    BY <1>2, <2>1, <2>4, ExceptIsWithRow
  <2>7. DOMAIN t \cup {d} = DOMAIN t
    BY <1>2
  <2>8. DOMAIN u = DOMAIN t
    BY <2>6, <2>7, WithRowDomain
  <2>9. r.key \in {NoKey, owner[d]}
    BY <2>3
  <2>10. Sound(WithRow(t, d, r)) /\ OnlyRowOf(WithRow(t, d, r), t, d)
    BY <2>1, <2>3, <2>5, <2>9, WithRowSound
  <2>11. QED
    BY <2>6, <2>8, <2>10
<1>3. QED
  BY <1>1, <1>2

LEMMA RestrictSwap ==
  ASSUME NEW t, Sound(t), NEW S, S \subseteq DOMAIN t,
         NEW u, u = [d \in S |-> t[d]]
  PROVE  Sound(u) /\ GivesNothingBack(u, t)
<1>1. IsTable(u) /\ Keyed(u) /\ Still(u)
  BY DEF Sound, IsTable, Keyed, Still
<1>2. GivesNothingBack(u, t)
  BY CountsType DEF GivesNothingBack, NoneBack, Sound
<1>3. QED
  BY <1>1, <1>2 DEF Sound

LEMMA PruneSwap ==
  ASSUME NEW t, Sound(t), NEW d, NEW actions,
         NEW u, u = PruneAbsent(t, d, actions)
  PROVE  Sound(u) /\ GivesNothingBack(u, t)
<1> DEFINE kept == {p \in DOMAIN t[d].slots : p[1] \in actions}
<1>1. CASE u = t
  <2>1. GivesNothingBack(t, t)
    BY CountsType DEF GivesNothingBack, NoneBack, Sound
  <2>2. QED
    BY <1>1, <2>1
<1>2. CASE u = Free(t, d)
  <2>1. u = [x \in DOMAIN t \ {d} |-> t[x]]
    BY <1>2 DEF Free, Restrict
  <2>2. QED
    BY <2>1, RestrictSwap
<1>3. CASE d \in DOMAIN t /\ u = [t EXCEPT ![d].slots = Restrict(@, kept)]
  <2> DEFINE f == [p \in kept |-> t[d].slots[p]]
             r == [t[d] EXCEPT !.slots = f]
  <2>1. IsTable(t) /\ IsRow(t[d]) /\ DOMAIN t[d].slots \subseteq Pairs
        /\ t[d].slots \in [DOMAIN t[d].slots -> Slot]
    BY <1>3, RowFacts DEF Sound
  <2>2. /\ DOMAIN f \subseteq DOMAIN t[d].slots /\ f \in [DOMAIN f -> Slot]
        /\ \A p \in DOMAIN f : f[p] = t[d].slots[p]
    BY <2>1
  <2>3. u = [t EXCEPT ![d] = r]
    BY <1>3 DEF Restrict
  <2> HIDE DEF f
  <2>4. IsRow(r) /\ r.slots = f /\ r.key = t[d].key
    BY <2>1, <2>2, RowSlots
  <2>5. \A p \in DOMAIN f : f[p].windowStart = 0 /\ t[d].slots[p].count <= f[p].count
    BY <1>3, <2>1, <2>2, CountsType DEF Sound, Still
  <2> HIDE DEF r
  <2>6. QED
    BY <1>3, <2>2, <2>3, <2>4, <2>5, RowSwap
<1>4. QED
  BY <1>1, <1>2, <1>3 DEF PruneAbsent

-----------------------------------------------------------------------------

\* Only one device has an identity.
LEMMA OneCarrier ==
  ASSUME NEW t, Sound(t), OneIndexEach, NEW k, NEW d, NEW e, Carries(t, d, k), Carries(t, e, k)
  PROVE  d = e
<1>1. d \in Devices /\ e \in Devices /\ k # NoKey
  BY DEF Carries, Sound, IsTable
<1>2. owner[d] = k /\ owner[e] = k
  BY DEF Carries, Sound, Keyed
<1>3. QED
  BY <1>1, <1>2 DEF OneIndexEach

\* What a live row saves of its slot.
LEMMA RowNowFacts ==
  ASSUME NEW t, Sound(t), OneIndexEach, NEW x \in LiveRows(t)
  PROVE  /\ RowNow(t, x) \in Saved
         /\ \A d : Carries(t, d, x[1]) =>
              <<x[2], x[3]>> \in DOMAIN t[d].slots
              /\ RowNow(t, x).count = t[d].slots[<<x[2], x[3]>>].count
<1>1. PICK d \in DOMAIN t : Carries(t, d, x[1]) /\ <<x[2], x[3]>> \in DOMAIN t[d].slots
  BY DEF LiveRows
<1> DEFINE c == CHOOSE e \in DOMAIN t : Carries(t, e, x[1])
           s == t[d].slots[<<x[2], x[3]>>]
<1>2. c \in DOMAIN t /\ Carries(t, c, x[1])
  BY <1>1
<1>3. c = d
  BY <1>1, <1>2, OneCarrier
<1>4. RowNow(t, x) = [lockout |-> t[c].lockout, cooldown |-> t[c].slots[<<x[2], x[3]>>].cooldown,
                      perHour |-> t[c].slots[<<x[2], x[3]>>].perHour,
                      count |-> t[c].slots[<<x[2], x[3]>>].count]
  BY DEF RowNow
<1> HIDE DEF c
<1>5. RowNow(t, x) = [lockout |-> t[d].lockout, cooldown |-> s.cooldown, perHour |-> s.perHour,
                      count |-> s.count]
  BY <1>3, <1>4
<1>6. s \in Slot /\ t[d].lockout \in BOOLEAN
  BY <1>1, CountsType, RowFacts DEF Sound
<1> HIDE DEF s
<1>7. RowNow(t, x) \in Saved /\ RowNow(t, x).count = s.count
  BY <1>5, <1>6 DEF Slot, Saved
<1>8. \A e : Carries(t, e, x[1]) => e = d
  BY <1>1, OneCarrier
<1>9. QED
  BY <1>1, <1>7, <1>8 DEF s

\* A row of the image that is given up: its device is here, or the image is full.
Rightly(new, old, t) ==
  \A x \in DOMAIN old \ DOMAIN new :
    Cardinality(DOMAIN new) = MaxDevices * MaxActions \/ x[1] \in LiveKeys(t)

\* A row of the image is that of the live table, or what it was.
UpToDate(new, old, t) ==
  \A x \in DOMAIN new : IF x \in LiveRows(t) THEN new[x] = RowNow(t, x)
                        ELSE x \in DOMAIN old /\ new[x] = old[x]

LEMMA RowsFinite == IsFiniteSet(Rows)
<1> DEFINE f == [q \in Keys \X Pairs |-> <<q[1], q[2][1], q[2][2]>>]
<1>1. f \in Surjection(Keys \X Pairs, Rows)
  <2>1. f \in [Keys \X Pairs -> Rows]
    BY DEF Pairs, Rows
  <2>2. ASSUME NEW x \in Rows PROVE \E q \in Keys \X Pairs : f[q] = x
    <3>1. <<x[1], <<x[2], x[3]>> >> \in Keys \X Pairs
      BY <2>2 DEF Rows, Pairs
    <3>2. f[<<x[1], <<x[2], x[3]>> >>] = x
      BY <2>2, <3>1 DEF Rows
    <3>3. QED
      BY <3>1, <3>2
  <2>3. QED
    BY <2>1, <2>2 DEF Surjection
<1>2. IsFiniteSet(Keys \X Pairs)
  BY GuardPersistAssumption, FS_Product DEF GuardPersistAssumption
<1>3. QED
  BY <1>1, <1>2, FS_Surjection

\* As many of A, those in S first, and of B are given up as there are too many.
GivenUp(A, B, S, limit, g) ==
  LET need == Cardinality(A) + Cardinality(B) - limit
  IN  \/ g \in SUBSET S /\ Cardinality(g) = need
      \/ \E h \in SUBSET B : g = S \cup h /\ Cardinality(h) = need - Cardinality(S)

LEMMA RoomMade ==
  ASSUME NEW A, NEW B, IsFiniteSet(A), IsFiniteSet(B), A \cap B = {},
         NEW S \in SUBSET A, NEW limit \in Nat, NEW g, GivenUp(A, B, S, limit, g)
  PROVE  Cardinality((A \cup B) \ g) = limit
<1> DEFINE need == Cardinality(A) + Cardinality(B) - limit
<1>1. \/ g \in SUBSET S /\ Cardinality(g) = need
      \/ \E h \in SUBSET B : g = S \cup h /\ Cardinality(h) = need - Cardinality(S)
  BY DEF GivenUp
<1>2. PICK a \in Nat : a = Cardinality(A)
  BY FS_CardinalityType
<1>3. PICK b \in Nat : b = Cardinality(B)
  BY FS_CardinalityType
<1>4. IsFiniteSet(A \cup B) /\ Cardinality(A \cup B) = a + b
  <2>1. IsFiniteSet(A \cup B) /\ Cardinality(A \cup B) = Cardinality(A) + Cardinality(B)
                                                       - Cardinality(A \cap B)
    BY FS_Union
  <2>2. Cardinality(A \cap B) = 0
    BY FS_EmptySet
  <2>3. QED
    BY <1>2, <1>3, <2>1, <2>2
<1>5. IsFiniteSet(S)
  BY FS_Subset
<1>6. PICK s \in Nat : s = Cardinality(S)
  BY <1>5, FS_CardinalityType
<1>7. g \subseteq A \cup B /\ Cardinality(g) = need
  <2>1. CASE g \in SUBSET S /\ Cardinality(g) = need
    BY <2>1
  <2>2. CASE \E h \in SUBSET B : g = S \cup h /\ Cardinality(h) = need - Cardinality(S)
    <3>1. PICK h \in SUBSET B : g = S \cup h /\ Cardinality(h) = need - Cardinality(S)
      BY <2>2
    <3>2. IsFiniteSet(h) /\ S \cap h = {}
      BY FS_Subset
    <3>3. PICK m \in Nat : m = Cardinality(h)
      BY <3>2, FS_CardinalityType
    <3>4. Cardinality(g) = Cardinality(S) + Cardinality(h) - Cardinality(S \cap h)
      BY <1>5, <3>1, <3>2, FS_Union
    <3>5. Cardinality(S \cap h) = 0
      BY <3>2, FS_EmptySet
    <3>6. QED
      BY <1>2, <1>3, <1>6, <3>1, <3>3, <3>4, <3>5
  <2>3. QED
    BY <1>1, <2>1, <2>2
<1>8. Cardinality((A \cup B) \ g) = Cardinality(A \cup B) - Cardinality((A \cup B) \cap g)
  BY <1>4, FS_Difference
<1>9. Cardinality((A \cup B) \cap g) = need
  <2>1. (A \cup B) \cap g = g
    BY <1>7
  <2>2. QED
    BY <1>7, <2>1
<1>10. need = a + b - limit
  BY <1>2, <1>3
<1>11. QED
  BY <1>4, <1>8, <1>9, <1>10

LEMMA MergeFacts ==
  ASSUME NEW t, Sound(t), OneIndexEach, NEW old, IsImage(old), NEW new \in Merges(t, old)
  PROVE  IsImage(new) /\ Rightly(new, old, t) /\ UpToDate(new, old, t)
<1> DEFINE kept  == {x \in DOMAIN old : Survives(t, x)}
           fresh == LiveRows(t) \ kept
           stale == {x \in kept : x[1] \notin LiveKeys(t)}
           need  == Cardinality(kept) + Cardinality(fresh) - MaxDevices * MaxActions
           gone  == IF need <= 0 THEN {{}}
                    ELSE IF need <= Cardinality(stale) THEN kSubset(need, stale)
                    ELSE {stale \cup g : g \in kSubset(need - Cardinality(stale), fresh)}
<1>1. PICK g \in gone :
        new = [x \in (kept \cup fresh) \ g |-> IF x \in LiveRows(t) THEN RowNow(t, x) ELSE old[x]]
  BY DEF Merges
<1>2. kept \subseteq Rows /\ fresh \subseteq Rows
  BY DEF IsImage, LiveRows
<1>3. IsFiniteSet(kept) /\ IsFiniteSet(fresh) /\ kept \cap fresh = {}
  BY <1>2, RowsFinite, FS_Subset
<1>4. MaxDevices * MaxActions \in Nat
  BY GuardTableAssumption DEF GuardTableAssumption
<1>5. g # {} => Cardinality((kept \cup fresh) \ g) = MaxDevices * MaxActions
  <2> SUFFICES ASSUME g # {} PROVE Cardinality((kept \cup fresh) \ g) = MaxDevices * MaxActions
    OBVIOUS
  <2>1. \/ need <= Cardinality(stale) /\ g \in kSubset(need, stale)
        \/ g \in {stale \cup h : h \in kSubset(need - Cardinality(stale), fresh)}
    BY <1>1
  <2> DEFINE cap == MaxDevices * MaxActions
  <2>2. GivenUp(kept, fresh, stale, cap, g)
    BY <2>1 DEF kSubset, GivenUp
  <2>3. stale \in SUBSET kept
    OBVIOUS
  <2>4. cap \in Nat
    BY <1>4
  <2> HIDE DEF cap, need, gone, stale, fresh, kept
  <2>5. Cardinality((kept \cup fresh) \ g) = cap
    BY <1>3, <2>2, <2>3, <2>4, RoomMade
  <2>6. QED
    BY <2>5 DEF cap
<1> HIDE DEF gone, need, stale
<1>6. /\ DOMAIN new = (kept \cup fresh) \ g
      /\ new = [x \in DOMAIN new |-> new[x]]
      /\ \A x \in DOMAIN new : new[x] = IF x \in LiveRows(t) THEN RowNow(t, x) ELSE old[x]
  BY <1>1
<1>7. UpToDate(new, old, t)
  BY <1>6 DEF UpToDate
<1>8. IsImage(new)
  <2>1. DOMAIN new \subseteq Rows
    BY <1>2, <1>6
  <2>2. \A x \in DOMAIN new : new[x] \in Saved
    BY <1>7, RowNowFacts DEF UpToDate, IsImage
  <2>3. QED
    BY <1>6, <2>1, <2>2 DEF IsImage
<1>9. Rightly(new, old, t)
  <2> SUFFICES ASSUME NEW x \in DOMAIN old \ DOMAIN new, x[1] \notin LiveKeys(t)
               PROVE  Cardinality(DOMAIN new) = MaxDevices * MaxActions
    BY DEF Rightly
  <2>1. Survives(t, x)
    BY DEF Survives, LiveKeys, Carries
  <2>2. x \in g
    BY <1>6, <2>1
  <2>3. QED
    BY <1>5, <1>6, <2>2
<1>10. QED
  BY <1>7, <1>8, <1>9

\* Merging while no device is being bound: what is on flash stays in the image,
\* and the image says of every device what it has spent.
LEMMA RemergeKeeps ==
  ASSUME PersistInv, up, at.dev = NoDevice, Remerge
  PROVE  /\ IsImage(img') /\ IsImage(durable')
         /\ DOMAIN durable' \subseteq DOMAIN durable
         /\ \A x \in DOMAIN durable' : durable'[x] = durable[x]
         /\ Recorded(durable', img') /\ SpentKept(live, img', NoDevice)
<1>1. Sound(live) /\ OneIndexEach /\ IsImage(img) /\ IsImage(durable) /\ Recorded(durable, img)
      /\ SpentKept(live, img, NoDevice)
  BY DEF PersistInv, PersistTypes, Shapes, ImageHolds, LiveHolds
<1>2. IsImage(img') /\ Rightly(img', img, live) /\ UpToDate(img', img, live)
  BY <1>1, MergeFacts DEF Remerge
<1> DEFINE rightly == {x \in DOMAIN img \ DOMAIN img' :
                         Cardinality(DOMAIN img') = MaxDevices * MaxActions
                         \/ x[1] \in LiveKeys(live)}
<1>3. durable' = [x \in DOMAIN durable \ rightly |-> durable[x]]
  BY DEF Remerge, Restrict
<1>4. \A x \in DOMAIN img \ DOMAIN img' : x \in rightly
  BY <1>2 DEF Rightly
<1> HIDE DEF rightly
<1>5. /\ DOMAIN durable' \subseteq DOMAIN durable /\ DOMAIN durable' \cap rightly = {}
      /\ \A x \in DOMAIN durable' : durable'[x] = durable[x]
      /\ durable' = [x \in DOMAIN durable' |-> durable'[x]]
  BY <1>3
<1>6. IsImage(durable')
  BY <1>1, <1>5 DEF IsImage
<1>7. DOMAIN durable' \subseteq DOMAIN img'
  BY <1>1, <1>4, <1>5 DEF Recorded
<1>8. ASSUME NEW x \in DOMAIN durable', x[1] \notin WiredKeys
      PROVE  durable'[x].count <= img'[x].count
  <2>1. x \in DOMAIN img /\ x \in DOMAIN img' /\ durable'[x] = durable[x]
        /\ durable[x].count <= img[x].count
    BY <1>1, <1>5, <1>7, <1>8 DEF Recorded
  <2>2. CASE x \notin LiveRows(live)
    BY <1>2, <2>1, <2>2 DEF UpToDate
  <2>3. CASE x \in LiveRows(live)
    <3>1. PICK d \in DOMAIN live : Carries(live, d, x[1])
                                  /\ <<x[2], x[3]>> \in DOMAIN live[d].slots
      BY <2>3 DEF LiveRows
    <3>2. img'[x].count = live[d].slots[<<x[2], x[3]>>].count
      BY <1>1, <1>2, <2>1, <2>3, <3>1, RowNowFacts DEF UpToDate
    <3>3. d # NoDevice /\ live[d].key = x[1] /\ x[1] \in Keys \ WiredKeys
          /\ x = <<x[1], x[2], x[3]>>
      BY <1>1, <1>8, <2>1, <3>1, GuardPersistAssumption
      DEF GuardPersistAssumption, Carries, Sound, IsTable, IsImage, Rows
    <3>4. img[x].count <= live[d].slots[<<x[2], x[3]>>].count
      BY <1>1, <2>1, <3>1, <3>3 DEF SpentKept, SpentBy
    <3>5. durable[x].count \in Nat /\ img[x].count \in Nat
          /\ live[d].slots[<<x[2], x[3]>>].count \in Nat
      <4>1. durable[x] \in Saved /\ img[x] \in Saved
        BY <1>1, <1>5, <2>1 DEF IsImage
      <4>2. live[d].slots[<<x[2], x[3]>>].count \in Nat
        BY <1>1, <3>1, CountsType DEF Sound
      <4>3. QED
        BY <4>1, <4>2, GuardTableAssumption DEF Saved, GuardTableAssumption
    <3>6. QED
      BY <2>1, <3>2, <3>4, <3>5
  <2>4. QED
    BY <2>2, <2>3
<1>9. ASSUME NEW d \in DOMAIN live
      PROVE  SpentBy(live, img', d)
  <2> SUFFICES ASSUME live[d].key \in Keys \ WiredKeys, NEW p \in DOMAIN live[d].slots,
                      NEW x, x = <<live[d].key, p[1], p[2]>>, x \in DOMAIN img'
               PROVE  img'[x].count <= live[d].slots[p].count
    BY DEF SpentBy
  <2>1. p \in Pairs /\ p = <<p[1], p[2]>>
    BY <1>1, <1>9, RowFacts DEF Sound, Pairs
  <2>2. Carries(live, d, x[1]) /\ <<x[2], x[3]>> = p /\ x[1] = live[d].key
    BY <1>9, <2>1, GuardTableAssumption DEF Carries, GuardTableAssumption
  <2>3. x \in LiveRows(live)
    BY <1>2, <1>9, <2>2 DEF LiveRows, IsImage
  <2>4. img'[x].count = live[d].slots[p].count
    BY <1>1, <1>2, <2>2, <2>3, RowNowFacts DEF UpToDate
  <2>5. live[d].slots[p].count \in Nat
    BY <1>1, <1>9, CountsType DEF Sound
  <2>6. QED
    BY <2>4, <2>5
<1>10. QED
  BY <1>2, <1>5, <1>6, <1>7, <1>8, <1>9 DEF Recorded, SpentKept

-----------------------------------------------------------------------------

LEMMA DeclaredStill ==
  ASSUME NEW t, Sound(t), NEW d \in Devices, NEW p \in Pairs
  PROVE  DeclaredSlot(t, d, p, 0, FALSE) \in Slot /\ DeclaredSlot(t, d, p, 0, FALSE).windowStart = 0
<1> DEFINE m == IF 0 < HardMax[p[1]] THEN 0 ELSE HardMax[p[1]]
<1>1. DeclaredSlot(t, d, p, 0, FALSE) \in Slot
  BY GuardTableAssumption, DeclaredSlotType DEF Sound
<1>2. DeclaredSlot(t, d, p, 0, FALSE)
        = IF Declared(t, d, p) THEN [t[d].slots[p] EXCEPT !.paramMax = m, !.timedOff = FALSE]
          ELSE [paramMax |-> m, timedOff |-> FALSE, cooldown |-> 0, perHour |-> 0,
                count |-> 0, lastFire |-> 0, windowStart |-> 0]
  BY DEF DeclaredSlot
<1> HIDE DEF m
<1>3. CASE Declared(t, d, p)
  <2>1. t[d].slots[p] \in Slot /\ t[d].slots[p].windowStart = 0
    BY <1>3, CountsType DEF Declared, Sound, Still
  <2>2. [t[d].slots[p] EXCEPT !.paramMax = m, !.timedOff = FALSE].windowStart = 0
    BY <2>1 DEF Slot
  <2>3. QED
    BY <1>1, <1>2, <1>3, <2>2
<1>4. CASE ~Declared(t, d, p)
  <2>1. DeclaredSlot(t, d, p, 0, FALSE)
          = [paramMax |-> m, timedOff |-> FALSE, cooldown |-> 0, perHour |-> 0,
             count |-> 0, lastFire |-> 0, windowStart |-> 0]
    BY <1>2, <1>4
  <2>2. \A x : [paramMax |-> x, timedOff |-> FALSE, cooldown |-> 0, perHour |-> 0,
               count |-> 0, lastFire |-> 0, windowStart |-> 0].windowStart = 0
    OBVIOUS
  <2>3. DeclaredSlot(t, d, p, 0, FALSE).windowStart = 0
    BY <2>1, <2>2
  <2>4. QED
    BY <1>1, <2>3
<1>5. QED
  BY <1>3, <1>4

LEMMA DeclaresFacts ==
  ASSUME NEW t, Sound(t), NEW d \in Devices, NEW pairs \in SUBSET Pairs,
         NEW u \in Declares(t, d, pairs)
  PROVE  Sound(u) /\ OnlyRowOf(u, t, d)
<1> DEFINE row == RowOf(t, d)
           with(fit) == [q \in DOMAIN row.slots \cup fit |->
                           IF q \in pairs THEN DeclaredSlot(t, d, q, 0, FALSE) ELSE row.slots[q]]
<1>1. \/ u = t
      \/ \E fit \in SUBSET pairs : u = WithRow(t, d, [row EXCEPT !.slots = with(fit)])
  BY DEF Declares, kSubset
<1>2. CASE u = t
  BY <1>2 DEF OnlyRowOf
<1>3. CASE \E fit \in SUBSET pairs : u = WithRow(t, d, [row EXCEPT !.slots = with(fit)])
  <2>1. PICK fit \in SUBSET pairs : u = WithRow(t, d, [row EXCEPT !.slots = with(fit)])
    BY <1>3
  <2> DEFINE f == with(fit)
             r == [row EXCEPT !.slots = f]
  <2>2. IsRow(row) /\ row.key \in {NoKey, owner[d]}
        /\ \A q \in DOMAIN row.slots : row.slots[q] \in Slot /\ row.slots[q].windowStart = 0
    <3>1. CASE d \in DOMAIN t
      <4>1. row = t[d]
        BY <3>1 DEF RowOf
      <4>2. IsRow(t[d]) /\ t[d].key \in {NoKey, owner[d]}
        BY <3>1, RowFacts DEF Sound, Keyed
      <4>3. \A q \in DOMAIN t[d].slots : t[d].slots[q] \in Slot /\ t[d].slots[q].windowStart = 0
        BY <3>1, CountsType DEF Sound, Still
      <4>4. QED
        BY <4>1, <4>2, <4>3
    <3>2. CASE d \notin DOMAIN t
      BY <3>2, RowOfIsRow DEF RowOf, NewRow, NoSlots, Sound
    <3>3. QED
      BY <3>1, <3>2
  <2>3. /\ DOMAIN f = DOMAIN row.slots \cup fit
        /\ f = [q \in DOMAIN f |-> f[q]]
        /\ \A q \in DOMAIN f : f[q] = IF q \in pairs THEN DeclaredSlot(t, d, q, 0, FALSE)
                                      ELSE row.slots[q]
    OBVIOUS
  <2> HIDE DEF f, row
  <2>4. DOMAIN f \subseteq Pairs
    BY <2>2, <2>3 DEF IsRow
  <2>5. \A q \in DOMAIN f : f[q] \in Slot /\ f[q].windowStart = 0
    <3> TAKE q \in DOMAIN f
    <3>1. CASE q \in pairs
      <4>1. DeclaredSlot(t, d, q, 0, FALSE) \in Slot
            /\ DeclaredSlot(t, d, q, 0, FALSE).windowStart = 0
        BY <3>1, DeclaredStill
      <4>2. QED
        BY <2>3, <3>1, <4>1
    <3>2. CASE q \notin pairs
      BY <2>2, <2>3, <3>2
    <3>3. QED
      BY <3>1, <3>2
  <2>6. f \in [DOMAIN f -> Slot]
    BY <2>3, <2>5
  <2>7. IsRow(r) /\ r.slots = f /\ r.key = row.key
    BY <2>2, <2>4, <2>6, RowSlots
  <2>8. u = WithRow(t, d, r)
    BY <2>1 DEF f, row
  <2> HIDE DEF r
  <2>9. Sound(WithRow(t, d, r)) /\ OnlyRowOf(WithRow(t, d, r), t, d)
    BY <2>2, <2>5, <2>7, WithRowSound
  <2>10. QED
    BY <2>8, <2>9
<1>4. QED
  BY <1>1, <1>2, <1>3

LEMMA ApplyFacts ==
  ASSUME NEW s \in Slot, NEW v \in Saved
  PROVE  Apply(s, v) \in Slot /\ Apply(s, v).windowStart = s.windowStart
         /\ Apply(s, v).count = v.count
  BY DEF Apply, Slot, Saved

LEMMA RowBoth ==
  ASSUME NEW r, IsRow(r), NEW s, NEW l
  PROVE  [r EXCEPT !.slots = s, !.lockout = l] = [lockout |-> l, key |-> r.key, slots |-> s]
<1>1. r = [lockout |-> r.lockout, key |-> r.key, slots |-> r.slots]
  BY DEF IsRow
<1> DEFINE a == r.lockout
           b == r.key
           c == r.slots
<1> HIDE DEF a, b, c
<1>2. [[lockout |-> a, key |-> b, slots |-> c] EXCEPT !.slots = s]
        = [lockout |-> a, key |-> b, slots |-> s]
  OBVIOUS
<1>3. [[lockout |-> a, key |-> b, slots |-> s] EXCEPT !.lockout = l]
        = [lockout |-> l, key |-> b, slots |-> s]
  OBVIOUS
<1>4. r = [lockout |-> a, key |-> b, slots |-> c] /\ r.key = b
  BY <1>1 DEF a, b, c
<1>5. [r EXCEPT !.slots = s, !.lockout = l] = [[r EXCEPT !.slots = s] EXCEPT !.lockout = l]
  OBVIOUS
<1>6. QED
  BY <1>2, <1>3, <1>4, <1>5

\* A device that is restored has spent what the image says.
LEMMA RestoresFacts ==
  ASSUME NEW t, Sound(t), NEW d \in Devices, NEW image, IsImage(image),
         NEW u \in Restores(t, d, image)
  PROVE  Sound(u) /\ OnlyRowOf(u, t, d) /\ (d \in DOMAIN u => SpentBy(u, image, d))
<1> DEFINE named == [p \in Pairs |-> <<owner[d], p[1], p[2]>>]
           mine  == {p \in Pairs : named[p] \in DOMAIN image /\ Declared(t, d, p)}
           f     == [p \in DOMAIN t[d].slots |->
                       IF p \in mine THEN Apply(t[d].slots[p], image[named[p]])
                       ELSE t[d].slots[p]]
<1>1. \/ mine = {} /\ u = t
      \/ \E last \in mine :
           u = [t EXCEPT ![d] = [@ EXCEPT !.slots = f, !.lockout = image[named[last]].lockout]]
  BY DEF Restores
<1>2. \A p \in Pairs : named[p] = <<owner[d], p[1], p[2]>>
  OBVIOUS
<1>3. /\ DOMAIN f = DOMAIN t[d].slots /\ f = [p \in DOMAIN f |-> f[p]]
      /\ \A p \in DOMAIN f : f[p] = IF p \in mine THEN Apply(t[d].slots[p], image[named[p]])
                                    ELSE t[d].slots[p]
  OBVIOUS
<1>4. \A p \in mine : named[p] \in DOMAIN image /\ d \in DOMAIN t /\ p \in DOMAIN t[d].slots
  BY DEF Declared
<1>5. \A p \in Pairs : named[p] \in DOMAIN image /\ Declared(t, d, p) => p \in mine
  OBVIOUS
<1> HIDE DEF named, mine, f
<1>6. \A v \in DOMAIN image : image[v] \in Saved /\ image[v].count \in Nat
                              /\ image[v].lockout \in BOOLEAN
  BY GuardTableAssumption DEF IsImage, Saved, GuardTableAssumption
<1>7. CASE mine = {} /\ u = t
  <2>1. SpentBy(t, image, d) \/ d \notin DOMAIN t
    <3> SUFFICES ASSUME d \in DOMAIN t, t[d].key \in Keys \ WiredKeys,
                        NEW p \in DOMAIN t[d].slots,
                        <<t[d].key, p[1], p[2]>> \in DOMAIN image
                 PROVE  FALSE
      BY DEF SpentBy
    <3>1. t[d].key = owner[d] /\ p \in Pairs
      BY GuardTableAssumption, RowFacts DEF Sound, Keyed, GuardTableAssumption
    <3>2. QED
      BY <1>2, <1>5, <1>7, <3>1 DEF Declared
  <2>2. OnlyRowOf(t, t, d)
    BY DEF OnlyRowOf
  <2>3. QED
    BY <1>7, <2>1, <2>2
<1>8. CASE \E last \in mine :
           u = [t EXCEPT ![d] = [@ EXCEPT !.slots = f, !.lockout = image[named[last]].lockout]]
  <2>1. PICK last \in mine :
           u = [t EXCEPT ![d] = [@ EXCEPT !.slots = f, !.lockout = image[named[last]].lockout]]
    BY <1>8
  <2> DEFINE l == image[named[last]].lockout
             r == [t[d] EXCEPT !.slots = f, !.lockout = l]
  <2>2. d \in DOMAIN t /\ IsTable(t) /\ l \in BOOLEAN
    BY <1>4, <1>6 DEF Sound
  <2>3. u = [t EXCEPT ![d] = r]
    BY <2>1, <2>2
  <2> HIDE DEF l
  <2>4. IsRow(t[d]) /\ t[d].key \in Keys \cup {NoKey} /\ DOMAIN t[d].slots \subseteq Pairs
    BY <2>2, RowFacts
  <2>5. \A p \in DOMAIN f : f[p] \in Slot /\ f[p].windowStart = 0
    <3> TAKE p \in DOMAIN f
    <3>1. t[d].slots[p] \in Slot /\ t[d].slots[p].windowStart = 0
      BY <1>3, <2>2, CountsType DEF Sound, Still
    <3>2. CASE p \notin mine
      BY <1>3, <3>1, <3>2
    <3>3. CASE p \in mine
      BY <1>3, <1>4, <1>6, <3>1, <3>3, ApplyFacts
    <3>4. QED
      BY <3>2, <3>3
  <2>6. f \in [DOMAIN f -> Slot] /\ DOMAIN f \subseteq Pairs
    BY <1>3, <2>4, <2>5
  <2>7. r = [lockout |-> l, key |-> t[d].key, slots |-> f]
    BY <2>4, RowBoth
  <2>8. IsRow(r) /\ r.slots = f /\ r.key = t[d].key
    BY <2>2, <2>4, <2>6, <2>7, RowIntro
  <2> HIDE DEF r
  <2>9. u = WithRow(t, d, r)
    BY <2>2, <2>3, ExceptIsWithRow
  <2>10. r.key \in {NoKey, owner[d]}
    BY <2>2, <2>8 DEF Sound, Keyed
  <2>11. Sound(WithRow(t, d, r)) /\ OnlyRowOf(WithRow(t, d, r), t, d)
    BY <2>5, <2>8, <2>10, WithRowSound
  <2>12. WithRow(t, d, r)[d] = r
    BY DEF WithRow
  <2>13. u[d] = r
    BY <2>9, <2>12
  <2>14. SpentBy(u, image, d)
    <3> SUFFICES ASSUME t[d].key \in Keys \ WiredKeys, NEW p \in DOMAIN f,
                        NEW x, x = <<t[d].key, p[1], p[2]>>, x \in DOMAIN image
                 PROVE  image[x].count <= f[p].count
      BY <2>8, <2>13 DEF SpentBy
    <3>1. t[d].key = owner[d] /\ p \in Pairs /\ p \in DOMAIN t[d].slots
      BY <1>3, <2>2, <2>6, GuardTableAssumption DEF Sound, Keyed, GuardTableAssumption
    <3>2. x = named[p] /\ p \in mine
      BY <1>2, <1>5, <2>2, <3>1 DEF Declared
    <3>3. t[d].slots[p] \in Slot
      BY <2>2, <3>1, CountsType
    <3>4. f[p] = Apply(t[d].slots[p], image[x]) /\ image[x] \in Saved
      BY <1>3, <1>6, <3>2
    <3>5. f[p].count = image[x].count
      BY <3>3, <3>4, ApplyFacts
    <3>6. QED
      BY <1>6, <3>5
  <2>15. QED
    BY <2>9, <2>11, <2>14
<1>9. QED
  BY <1>1, <1>7, <1>8

-----------------------------------------------------------------------------

\* A step of the table and of who works on it, with the hub up.
LEMMA TableSteps ==
  ASSUME PersistInv, up', UNCHANGED <<img, file, owner, durable>>, up,
         Sound(live'), Shapes', AtWork', SpentKept(live', img, at'.dev)
  PROVE  PersistInv'
<1>1. Sound(live)' /\ IsImage(img)' /\ IsImage(file)' /\ IsImage(durable)'
  BY DEF PersistInv, PersistTypes, Sound, IsTable, IsRow, Keyed, Still, IsImage
<1>2. FileHolds' /\ ImageHolds'
  BY DEF PersistInv, FileHolds, ImageHolds, Recorded
<1>3. LiveHolds'
  BY DEF LiveHolds, SpentKept, SpentBy
<1>4. QED
  BY <1>1, <1>2, <1>3 DEF PersistInv, PersistTypes

\* A device that has its own row back is no worse off in the table.
LEMMA SpentGiven ==
  ASSUME PersistInv, NEW u, Sound(u), GivesNothingBack(u, live)
  PROVE  SpentKept(u, img, at.dev)
<1>1. IsTable(live) /\ IsTable(u) /\ IsImage(img) /\ SpentKept(live, img, at.dev)
  BY DEF PersistInv, PersistTypes, LiveHolds, Sound
<1>2. \A d \in DOMAIN u \ {at.dev} : u[d].key \in Keys \ WiredKeys => NoneBack(u, live, d)
  BY DEF GivesNothingBack
<1>3. QED
  BY <1>1, <1>2, SpentFrame

\* The row of a wired device is nobody's budget.
LEMMA SpentWired ==
  ASSUME PersistInv, NEW d, owner[d] \in WiredKeys, NEW u, Sound(u), OnlyRowOf(u, live, d)
  PROVE  SpentKept(u, img, at.dev)
<1>1. IsTable(live) /\ IsTable(u) /\ IsImage(img) /\ SpentKept(live, img, at.dev)
  BY DEF PersistInv, PersistTypes, LiveHolds, Sound
<1>2. ASSUME NEW e \in DOMAIN u \ {at.dev}, u[e].key \in Keys \ WiredKeys
      PROVE  NoneBack(u, live, e)
  <2>1. u[e].key \in {NoKey, owner[e]}
    BY <1>2 DEF Sound, Keyed
  <2>2. e # d
    BY <1>2, <2>1, GuardTableAssumption DEF GuardTableAssumption
  <2>3. QED
    BY <1>1, <1>2, <2>2, OthersKept
<1>3. QED
  BY <1>1, <1>2, SpentFrame

\* The row of a device that is being bound will be restored.
LEMMA SpentBinding ==
  ASSUME PersistInv, NEW u, Sound(u), OnlyRowOf(u, live, at.dev)
  PROVE  SpentKept(u, img, at.dev)
<1>1. IsTable(live) /\ IsTable(u) /\ IsImage(img) /\ SpentKept(live, img, at.dev)
  BY DEF PersistInv, PersistTypes, LiveHolds, Sound
<1>2. \A e \in DOMAIN u \ {at.dev} : u[e].key \in Keys \ WiredKeys => NoneBack(u, live, e)
  BY <1>1, OthersKept
<1>3. QED
  BY <1>1, <1>2, SpentFrame

LEMMA AnywhereElse ==
  ASSUME NEW u, NEW image, NEW b, SpentKept(u, image, b), b \notin DOMAIN u, NEW c
  PROVE  SpentKept(u, image, c)
  BY DEF SpentKept

LEMMA NobodyBound ==
  ASSUME PersistInv
  PROVE  /\ at.step \notin {"declare", "key", "restore"} => at.dev = NoDevice
         /\ at.step \in {"declare", "key", "restore"} =>
              at.dev \in Devices /\ owner[at.dev] \in Keys \ WiredKeys
         /\ wired.step \in {"prune", "key"} =>
              wired.dev \in Devices /\ owner[wired.dev] \in WiredKeys
         /\ NoDevice \notin DOMAIN live
  BY GuardPersistAssumption
  DEF GuardPersistAssumption, PersistInv, PersistTypes, Shapes, AtWork, Sound, IsTable

LEMMA DiscoverKeeps ==
  ASSUME PersistInv, NEW d \in Devices, NEW k \in Keys, Discover(d, k) PROVE PersistInv'
<1>1. owner' = [owner EXCEPT ![d] = k] /\ owner[d] = NoKey /\ up
      /\ \A e \in Devices : owner[e] # k
  BY DEF Discover
<1>2. owner \in [Devices -> Keys \cup {NoKey}] /\ OneIndexEach /\ Sound(live)
  BY DEF PersistInv, PersistTypes, Shapes, Identities
<1>3. owner' \in [Devices -> Keys \cup {NoKey}] /\ owner'[d] = k
      /\ \A e \in Devices : e # d => owner'[e] = owner[e]
  BY <1>1, <1>2
<1>4. OneIndexEach'
  BY <1>1, <1>2, <1>3 DEF OneIndexEach
<1>5. Keyed(live)'
  <2>1. UNCHANGED live /\ DOMAIN live \subseteq Devices
    BY <1>2 DEF Discover, Sound, IsTable
  <2>2. ASSUME NEW e \in DOMAIN live PROVE live[e].key \in {NoKey, owner'[e]}
    BY <1>1, <1>2, <1>3, <2>1 DEF Sound, Keyed
  <2>3. QED
    BY <2>1, <2>2 DEF Keyed
<1>6. Sound(live)'
  BY <1>2, <1>5 DEF Discover, Sound, IsTable, IsRow, Still
<1>7. Shapes'
  BY <1>3, <1>4 DEF Discover, PersistInv, PersistTypes, Shapes, Identities
<1>8. AtWork'
  <2>1. UNCHANGED <<at, wired, live, up>>
    BY DEF Discover
  <2>2. at.dev # NoDevice => at.dev \in Devices /\ owner[at.dev] \in Keys \ WiredKeys
                              /\ owner'[at.dev] = owner[at.dev]
    BY <1>1, <1>3, GuardTableAssumption
    DEF PersistInv, PersistTypes, Shapes, AtWork, GuardTableAssumption
  <2>3. wired.dev # NoDevice => wired.dev \in Devices /\ owner[wired.dev] \in WiredKeys
                                 /\ owner'[wired.dev] = owner[wired.dev]
    BY <1>1, <1>3, GuardTableAssumption, GuardPersistAssumption
    DEF PersistInv, PersistTypes, Shapes, AtWork, GuardTableAssumption, GuardPersistAssumption
  <2>4. QED
    BY <2>1, <2>2, <2>3 DEF PersistInv, AtWork
<1>9. UNCHANGED <<up, live, img, file, at, durable>>
  BY DEF Discover
<1>10. QED
  BY <1>6, <1>7, <1>8, <1>9
  DEF PersistInv, PersistTypes, IsImage, FileHolds, ImageHolds, Recorded, LiveHolds, SpentKept,
      SpentBy

\* The decoder task moves on; "s" is where it stands now.
LEMMA ShapesStay ==
  ASSUME PersistInv, up', UNCHANGED <<owner, wired>>, plan' \in [Keys \ WiredKeys -> SUBSET Actions],
         NEW step, NEW dev \in Devices \cup {NoDevice}, at' = [step |-> step, dev |-> dev],
         IF dev = NoDevice THEN step \notin {"declare", "key", "restore"}
         ELSE step \in {"declare", "key", "restore"} /\ owner[dev] \in Keys \ WiredKeys
  PROVE  Shapes' /\ AtWork'
<1>1. at' = [step |-> at'.step, dev |-> at'.dev] /\ at'.step = step /\ at'.dev = dev
  OBVIOUS
<1>2. Shapes'
  BY <1>1 DEF PersistInv, PersistTypes, Shapes, OneIndexEach
<1>3. AtWork'
  BY <1>1 DEF PersistInv, AtWork
<1>4. QED
  BY <1>2, <1>3

LEMMA NobodyInHand ==
  ASSUME PersistInv, up', UNCHANGED <<owner, wired, plan>>,
         NEW step, step \notin {"declare", "key", "restore"}, at' = At(step)
  PROVE  Shapes' /\ AtWork' /\ at'.dev = NoDevice
<1>1. at' = [step |-> step, dev |-> NoDevice]
  BY DEF At
<1>2. plan' \in [Keys \ WiredKeys -> SUBSET Actions]
  BY DEF PersistInv, PersistTypes, Shapes
<1>3. QED
  BY <1>1, <1>2, ShapesStay

\* The image was brought up to date by the decoder task, which then has "dev" in hand.
LEMMA ImageSteps ==
  ASSUME PersistInv, up, up', at.dev = NoDevice, Remerge, UNCHANGED <<live, file, owner>>,
         Shapes', AtWork'
  PROVE  PersistInv'
<1>1. /\ IsImage(img') /\ IsImage(durable')
      /\ DOMAIN durable' \subseteq DOMAIN durable
      /\ \A x \in DOMAIN durable' : durable'[x] = durable[x]
      /\ Recorded(durable', img') /\ SpentKept(live, img', NoDevice)
  BY RemergeKeeps
<1>2. Sound(live)' /\ IsImage(file)'
  BY DEF PersistInv, PersistTypes, Sound, IsTable, IsRow, Keyed, Still, IsImage
<1>3. FileHolds'
  BY <1>1 DEF PersistInv, FileHolds
<1>4. SpentKept(live, img', at'.dev)
  BY <1>1, AnywhereElse, NobodyBound
<1>5. LiveHolds'
  BY <1>4 DEF LiveHolds, SpentKept, SpentBy
<1>6. IsImage(img)' /\ IsImage(durable)' /\ ImageHolds'
  BY <1>1 DEF IsImage, ImageHolds, Recorded
<1>7. QED
  BY <1>2, <1>3, <1>5, <1>6 DEF PersistInv, PersistTypes

LEMMA NoteKeeps ==
  ASSUME PersistInv, NEW d \in Devices, NoteActorDevice(d) PROVE PersistInv'
<1>1. /\ up /\ up' /\ UNCHANGED <<live, file, owner, plan, wired>>
      /\ owner[d] \in Keys \ WiredKeys /\ at.dev = NoDevice
  BY NobodyBound DEF NoteActorDevice
<1>2. at' = At("top") \/ at' = [step |-> "declare", dev |-> d]
  BY DEF NoteActorDevice
<1>3. Shapes' /\ AtWork'
  <2>1. plan' \in [Keys \ WiredKeys -> SUBSET Actions]
    BY <1>1 DEF PersistInv, PersistTypes, Shapes
  <2>2. CASE at' = At("top")
    BY <1>1, <2>2, NobodyInHand
  <2>3. CASE at' = [step |-> "declare", dev |-> d]
    BY <1>1, <2>1, <2>3, GuardPersistAssumption, ShapesStay DEF GuardPersistAssumption
  <2>4. QED
    BY <1>2, <2>2, <2>3
<1>4. Remerge \/ UNCHANGED <<img, durable>>
  BY DEF NoteActorDevice
<1>5. CASE Remerge
  BY <1>1, <1>3, <1>5, ImageSteps
<1>6. CASE UNCHANGED <<img, durable>>
  <2>1. Sound(live') /\ SpentKept(live', img, at'.dev)
    BY <1>1, AnywhereElse, NobodyBound DEF PersistInv, PersistTypes, LiveHolds
  <2>2. QED
    BY <1>1, <1>3, <1>6, <2>1, TableSteps
<1>7. QED
  BY <1>4, <1>5, <1>6

LEMMA BindDeclareKeeps == ASSUME PersistInv, BindDeclare PROVE PersistInv'
<1> DEFINE d == at.dev
<1>1. /\ up /\ up' /\ UNCHANGED <<img, file, owner, durable, plan, wired>>
      /\ d \in Devices /\ owner[d] \in Keys \ WiredKeys /\ d # NoDevice
      /\ live' \in Declares(live, d, BlePairs(plan[owner[d]]))
  BY NobodyBound, GuardPersistAssumption DEF BindDeclare, GuardPersistAssumption
<1>2. BlePairs(plan[owner[d]]) \in SUBSET Pairs /\ Sound(live)
  BY <1>1, GuardPersistAssumption
  DEF PersistInv, PersistTypes, Shapes, BlePairs, Pairs, GuardPersistAssumption
<1>3. at' = [step |-> "key", dev |-> d]
  BY DEF BindDeclare, PersistInv, PersistTypes, Shapes
<1>4. plan' \in [Keys \ WiredKeys -> SUBSET Actions]
  BY <1>1 DEF PersistInv, PersistTypes, Shapes
<1>5. Shapes' /\ AtWork'
  BY <1>1, <1>3, <1>4, ShapesStay
<1>6. Sound(live') /\ OnlyRowOf(live', live, d)
  BY <1>1, <1>2, DeclaresFacts
<1>7. SpentKept(live', img, at'.dev)
  BY <1>3, <1>6, SpentBinding
<1>8. QED
  BY <1>1, <1>5, <1>6, <1>7, TableSteps

LEMMA BindKeyKeeps == ASSUME PersistInv, BindKey PROVE PersistInv'
<1> DEFINE d == at.dev
<1>1. /\ up /\ up' /\ UNCHANGED <<img, file, owner, durable, plan, wired>>
      /\ d \in Devices /\ owner[d] \in Keys \ WiredKeys /\ d # NoDevice
      /\ live' = SetKey(live, d, owner[d])
  BY NobodyBound, GuardPersistAssumption DEF BindKey, GuardPersistAssumption
<1>2. at' = [step |-> "restore", dev |-> d]
  BY DEF BindKey, PersistInv, PersistTypes, Shapes
<1>3. plan' \in [Keys \ WiredKeys -> SUBSET Actions] /\ Sound(live)
  BY <1>1 DEF PersistInv, PersistTypes, Shapes
<1>4. Shapes' /\ AtWork'
  BY <1>1, <1>2, <1>3, ShapesStay
<1>5. Sound(live') /\ OnlyRowOf(live', live, d)
  BY <1>1, <1>3, KeySwap
<1>6. SpentKept(live', img, at'.dev)
  BY <1>2, <1>5, SpentBinding
<1>7. QED
  BY <1>1, <1>4, <1>5, <1>6, TableSteps

\* The budget comes back with the row, so nobody is excepted any more.
LEMMA BindRestoreKeeps == ASSUME PersistInv, BindRestore PROVE PersistInv'
<1> DEFINE d == at.dev
<1>1. /\ up /\ up' /\ UNCHANGED <<img, file, owner, durable, plan, wired>>
      /\ d \in Devices /\ at' = At("top") /\ live' \in Restores(live, d, img)
  BY NobodyBound DEF BindRestore
<1>2. Sound(live) /\ IsImage(img)
  BY DEF PersistInv, PersistTypes
<1>3. Sound(live') /\ OnlyRowOf(live', live, d) /\ (d \in DOMAIN live' => SpentBy(live', img, d))
  BY <1>1, <1>2, RestoresFacts
<1>4. Shapes' /\ AtWork' /\ at'.dev = NoDevice
  BY <1>1, NobodyInHand
<1>5. SpentKept(live', img, at.dev)
  BY <1>3, SpentBinding
<1>6. SpentKept(live', img, at'.dev)
  BY <1>3, <1>5 DEF SpentKept
<1>7. QED
  BY <1>1, <1>3, <1>4, <1>6, TableSteps

\* A step of the table while nobody is being bound, or on whose row it does not bear.
LEMMA GivenSteps ==
  ASSUME PersistInv, up, up', UNCHANGED <<img, file, owner, durable>>,
         Sound(live'), GivesNothingBack(live', live), Shapes', AtWork',
         at'.dev = at.dev
  PROVE  PersistInv'
  BY SpentGiven, TableSteps

LEMMA ReindexKeeps ==
  ASSUME PersistInv, NEW k \in Keys, NEW actions \in Plans, Reindex(k, actions) PROVE PersistInv'
<1>1. /\ up /\ up' /\ UNCHANGED <<img, file, owner, durable, wired>> /\ at.dev = NoDevice
      /\ plan' = [plan EXCEPT ![k] = actions] /\ at' = [step |-> "persist", dev |-> NoDevice]
  BY NobodyBound DEF Reindex, At
<1>2. plan' \in [Keys \ WiredKeys -> SUBSET Actions]
  BY <1>1, GuardPersistAssumption DEF PersistInv, PersistTypes, Shapes, GuardPersistAssumption
<1>3. Shapes' /\ AtWork'
  BY <1>1, <1>2, ShapesStay
<1>4. PICK S \in SUBSET DOMAIN live : live' = [d \in S |-> live[d]]
  <2> DEFINE S == DOMAIN live \ {d \in bound : plan'[owner[d]] = {}}
  <2>1. live' = [d \in S |-> live[d]]
    BY DEF Reindex, Restrict
  <2>2. S \in SUBSET DOMAIN live
    OBVIOUS
  <2>3. QED
    BY <2>1, <2>2
<1>5. Sound(live)
  BY DEF PersistInv, PersistTypes
<1>6. Sound(live') /\ GivesNothingBack(live', live)
  BY <1>4, <1>5, RestrictSwap
<1>7. QED
  BY <1>1, <1>3, <1>6, GivenSteps

LEMMA FireKeeps ==
  ASSUME PersistInv, NEW d \in Devices, NEW p \in Pairs, NEW source, Fire(d, p, source)
  PROVE  PersistInv'
<1>1. /\ up /\ up' /\ UNCHANGED <<img, file, owner, durable, plan, wired>> /\ at.dev = NoDevice
      /\ at' = At("advert") /\ live' = Record(live, d, p[1], p[2], 0)
  BY NobodyBound DEF Fire
<1>2. Shapes' /\ AtWork' /\ at'.dev = NoDevice
  BY <1>1, NobodyInHand
<1>3. Sound(live)
  BY DEF PersistInv, PersistTypes
<1>4. Sound(live') /\ GivesNothingBack(live', live)
  BY <1>1, <1>3, ChargeSwap
<1>5. QED
  BY <1>1, <1>2, <1>4, GivenSteps

\* The decoder task moves on with nobody in hand, before and after.
LEMMA WalkKeeps ==
  ASSUME PersistInv, up, up', UNCHANGED <<live, img, file, owner, durable, plan, wired>>,
         at.dev = NoDevice, NEW step, step \notin {"declare", "key", "restore"}, at' = At(step)
  PROVE  PersistInv'
<1>1. Shapes' /\ AtWork' /\ at'.dev = NoDevice
  BY NobodyInHand
<1>2. Sound(live') /\ SpentKept(live', img, at'.dev)
  BY <1>1 DEF PersistInv, PersistTypes, LiveHolds
<1>3. QED
  BY <1>1, <1>2, TableSteps

LEMMA TakeKeeps == ASSUME PersistInv, NextRound \/ TakeDirty PROVE PersistInv'
<1>1. /\ up /\ up' /\ UNCHANGED <<live, img, file, owner, durable, plan, wired>>
      /\ at.dev = NoDevice
  BY NobodyBound DEF NextRound, TakeDirty
<1>2. at' = At("top") \/ at' = At("merge") \/ at' = At("service")
  BY DEF NextRound, TakeDirty
<1>3. QED
  BY <1>1, <1>2, WalkKeeps

LEMMA MergeImageKeeps == ASSUME PersistInv, MergeImage PROVE PersistInv'
<1>1. /\ up /\ up' /\ UNCHANGED <<live, file, owner, plan, wired>> /\ at.dev = NoDevice
      /\ at' = At("save") /\ Remerge
  BY NobodyBound DEF MergeImage
<1>2. Shapes' /\ AtWork'
  BY <1>1, NobodyInHand
<1>3. QED
  BY <1>1, <1>2, ImageSteps

LEMMA SaveImageKeeps == ASSUME PersistInv, SaveImage PROVE PersistInv'
<1>1. /\ up /\ up' /\ UNCHANGED <<live, img, owner, plan, wired>> /\ at.dev = NoDevice
      /\ at' = At("service")
      /\ \/ file' = img /\ durable' = Written(img, durable)
         \/ UNCHANGED <<file, durable>>
  BY NobodyBound DEF SaveImage
<1>2. CASE UNCHANGED <<file, durable>>
  BY <1>1, <1>2, WalkKeeps
<1>3. CASE file' = img /\ durable' = Written(img, durable)
  <2>1. Shapes' /\ AtWork' /\ at'.dev = NoDevice
    BY <1>1, NobodyInHand
  <2>2. Sound(live) /\ IsImage(img) /\ DOMAIN durable \subseteq DOMAIN img
        /\ SpentKept(live, img, NoDevice)
    BY <1>1 DEF PersistInv, PersistTypes, ImageHolds, LiveHolds, Recorded
  <2>3. durable' = img
    <3>1. durable' = [x \in DOMAIN img \cup DOMAIN durable |->
                        IF x \in DOMAIN img THEN img[x] ELSE durable[x]]
      BY <1>3 DEF Written
    <3>2. DOMAIN img \cup DOMAIN durable = DOMAIN img
      BY <2>2
    <3>3. img = [x \in DOMAIN img |-> img[x]]
      BY <2>2 DEF IsImage
    <3>4. QED
      BY <3>1, <3>2, <3>3
  <2>4. Sound(live)' /\ IsImage(img)' /\ IsImage(file)' /\ IsImage(durable)'
    BY <1>1, <1>3, <2>2, <2>3 DEF Sound, IsTable, IsRow, Keyed, Still, IsImage
  <2>5. FileHolds'
    BY <1>3, <2>3 DEF FileHolds
  <2>6. ImageHolds'
    <3>1. \A x \in DOMAIN img : img[x].count \in Nat
      BY <2>2, GuardTableAssumption DEF IsImage, Saved, GuardTableAssumption
    <3>2. QED
      BY <1>1, <2>3, <3>1 DEF ImageHolds, Recorded
  <2>7. LiveHolds'
    BY <1>1, <2>1, <2>2 DEF LiveHolds, SpentKept, SpentBy
  <2>8. QED
    BY <2>1, <2>4, <2>5, <2>6, <2>7 DEF PersistInv, PersistTypes
<1>4. QED
  BY <1>1, <1>2, <1>3

\* Neither task moves.
LEMMA StandStill ==
  ASSUME PersistInv, up, up', UNCHANGED <<img, file, owner, durable, at, wired, plan>>,
         Sound(live'), GivesNothingBack(live', live)
  PROVE  PersistInv'
<1>1. Shapes' /\ AtWork'
  BY DEF PersistInv, PersistTypes, Shapes, OneIndexEach, AtWork
<1>2. QED
  BY <1>1, GivenSteps

LEMMA OperatorKeeps ==
  ASSUME PersistInv, NEW d \in Devices,
         \/ \E on \in BOOLEAN : PressStop(d, on)
         \/ \E p \in Pairs, perHour \in HourlyCaps : ChangeGuards(d, p, perHour)
  PROVE  PersistInv'
<1>1. Sound(live)
  BY DEF PersistInv, PersistTypes
<1>2. CASE \E on \in BOOLEAN : PressStop(d, on)
  <2>1. PICK on \in BOOLEAN : PressStop(d, on)
    BY <1>2
  <2>2. up /\ up' /\ UNCHANGED <<img, file, owner, durable, at, wired, plan>>
        /\ live' = SetLockout(live, d, on)
    BY <2>1 DEF PressStop
  <2>3. Sound(live') /\ GivesNothingBack(live', live)
    BY <1>1, <2>2, LockoutSwap
  <2>4. QED
    BY <2>2, <2>3, StandStill
<1>3. CASE \E p \in Pairs, perHour \in HourlyCaps : ChangeGuards(d, p, perHour)
  <2>1. PICK p \in Pairs, perHour \in HourlyCaps : ChangeGuards(d, p, perHour)
    BY <1>3
  <2>2. up /\ up' /\ UNCHANGED <<img, file, owner, durable, at, wired, plan>>
        /\ live' = SetGuards(live, d, p, 0, perHour) /\ Declared(live, d, p)
        /\ perHour \in 0 .. CountMax /\ 0 \in Nat
    BY <2>1, GuardPersistAssumption DEF ChangeGuards, GuardPersistAssumption
  <2>3. Sound(live') /\ GivesNothingBack(live', live)
    BY <1>1, <2>2, GuardsSwap
  <2>4. QED
    BY <2>2, <2>3, StandStill
<1>4. QED
  BY <1>2, <1>3

\* The link task moves on, with a wired device in hand or with none.
LEMMA LinkSteps ==
  ASSUME PersistInv, up, up', UNCHANGED <<img, file, owner, durable, at, plan>>,
         NEW step, NEW dev \in Devices \cup {NoDevice}, NEW pairs \in SUBSET Pairs,
         wired' = [step |-> step, dev |-> dev, pairs |-> pairs],
         IF dev = NoDevice THEN step \notin {"prune", "key"} ELSE owner[dev] \in WiredKeys,
         Sound(live'), SpentKept(live', img, at.dev)
  PROVE  PersistInv'
<1>1. wired' = [step |-> wired'.step, dev |-> wired'.dev, pairs |-> wired'.pairs]
      /\ wired'.step = step /\ wired'.dev = dev /\ wired'.pairs = pairs
  OBVIOUS
<1>2. Shapes'
  BY <1>1 DEF PersistInv, PersistTypes, Shapes, OneIndexEach
<1>3. AtWork'
  BY <1>1 DEF PersistInv, AtWork
<1>4. QED
  BY <1>2, <1>3, TableSteps

LEMMA AnnounceDeclareKeeps ==
  ASSUME PersistInv, NEW d \in Devices, NEW pairs \in Announces, AnnounceDeclare(d, pairs)
  PROVE  PersistInv'
<1>1. /\ up /\ up' /\ UNCHANGED <<img, file, owner, durable, at, plan>>
      /\ owner[d] \in WiredKeys /\ live' \in Declares(live, d, pairs)
      /\ wired' = [step |-> "prune", dev |-> d, pairs |-> pairs]
  BY DEF AnnounceDeclare
<1>2. pairs \in SUBSET Pairs /\ Sound(live) /\ d # NoDevice
  BY GuardPersistAssumption DEF PersistInv, PersistTypes, GuardPersistAssumption
<1>3. Sound(live') /\ OnlyRowOf(live', live, d)
  BY <1>1, <1>2, DeclaresFacts
<1>4. SpentKept(live', img, at.dev)
  BY <1>1, <1>3, SpentWired
<1>5. QED
  BY <1>1, <1>2, <1>3, <1>4, LinkSteps

LEMMA AnnouncePruneKeeps == ASSUME PersistInv, AnnouncePrune PROVE PersistInv'
<1>1. /\ up /\ up' /\ UNCHANGED <<img, file, owner, durable, at, plan>>
      /\ wired.dev \in Devices /\ owner[wired.dev] \in WiredKeys
      /\ live' = PruneAbsent(live, wired.dev, {p[1] : p \in wired.pairs})
  BY NobodyBound DEF AnnouncePrune
<1>2. wired' = [step |-> "key", dev |-> wired.dev, pairs |-> wired.pairs]
      /\ wired.pairs \in SUBSET Pairs /\ Sound(live) /\ wired.dev # NoDevice
  BY <1>1, GuardPersistAssumption
  DEF AnnouncePrune, PersistInv, PersistTypes, Shapes, GuardPersistAssumption
<1>3. Sound(live') /\ GivesNothingBack(live', live)
  BY <1>1, <1>2, PruneSwap
<1>4. SpentKept(live', img, at.dev)
  BY <1>3, SpentGiven
<1>5. QED
  BY <1>1, <1>2, <1>3, <1>4, LinkSteps

LEMMA AnnounceKeyKeeps == ASSUME PersistInv, AnnounceKey PROVE PersistInv'
<1>1. /\ up /\ up' /\ UNCHANGED <<img, file, owner, durable, at, plan>>
      /\ wired.dev \in Devices /\ owner[wired.dev] \in WiredKeys
      /\ live' = SetKey(live, wired.dev, owner[wired.dev])
  BY NobodyBound DEF AnnounceKey
<1>2. wired' = [step |-> "idle", dev |-> NoDevice, pairs |-> {}] /\ Sound(live)
      /\ owner[wired.dev] \in Keys \cup {NoKey}
  BY <1>1, GuardPersistAssumption
  DEF AnnounceKey, Idle, PersistInv, PersistTypes, GuardPersistAssumption
<1>3. Sound(live') /\ OnlyRowOf(live', live, wired.dev)
  BY <1>1, <1>2, KeySwap
<1>4. SpentKept(live', img, at.dev)
  BY <1>1, <1>3, SpentWired
<1>5. QED
  BY <1>1, <1>2, <1>3, <1>4, LinkSteps

LEMMA NothingLive == Sound(EmptyTable) /\ IsImage(NoRows) /\ DOMAIN EmptyTable = {} /\ DOMAIN NoRows = {}
  BY DEF EmptyTable, Sound, IsTable, Keyed, Still, IsImage, NoRows

LEMMA NobodyOwns ==
  ASSUME owner' = [d \in Devices |-> NoKey] PROVE (owner \in Identities /\ OneIndexEach)'
  BY DEF Identities, OneIndexEach

LEMMA CrashKeeps == ASSUME PersistInv, Crash PROVE PersistInv'
<1>1. /\ ~up' /\ live' = EmptyTable /\ img' = NoRows /\ owner' = [d \in Devices |-> NoKey]
      /\ at' = [step |-> "top", dev |-> NoDevice]
      /\ wired' = [step |-> "idle", dev |-> NoDevice, pairs |-> {}]
      /\ UNCHANGED <<file, plan, durable>>
  BY DEF Crash, At, Idle
<1>2. Sound(live)' /\ IsImage(img)'
  BY <1>1 DEF EmptyTable, Sound, IsTable, Keyed, Still, IsImage, NoRows
<1>3. Shapes'
  BY <1>1, NobodyOwns DEF PersistInv, PersistTypes, Shapes
<1>4. AtWork' /\ ImageHolds' /\ FileHolds'
  BY <1>1 DEF PersistInv, AtWork, ImageHolds, FileHolds
<1>5. LiveHolds'
  BY <1>1, NothingLive DEF LiveHolds, SpentKept
<1>6. IsImage(file)' /\ IsImage(durable)'
  BY <1>1 DEF PersistInv, PersistTypes, IsImage
<1>7. QED
  BY <1>2, <1>3, <1>4, <1>5, <1>6 DEF PersistInv, PersistTypes

LEMMA BootKeeps == ASSUME PersistInv, Boot PROVE PersistInv'
<1>1. /\ up' /\ img' = file /\ live = EmptyTable
      /\ UNCHANGED <<live, file, owner, plan, at, wired, durable>>
  BY DEF Boot, PersistInv, AtWork
<1>2. PersistTypes'
  BY <1>1 DEF PersistInv, PersistTypes, Sound, IsTable, IsRow, Keyed, Still, Shapes, OneIndexEach,
     IsImage
<1>3. AtWork' /\ FileHolds'
  BY <1>1 DEF PersistInv, AtWork, FileHolds
<1>4. LiveHolds'
  BY <1>1, NothingLive DEF LiveHolds, SpentKept
<1>5. ImageHolds'
  <2>1. \A x \in DOMAIN durable : durable[x].count \in Nat
    BY GuardTableAssumption DEF PersistInv, PersistTypes, IsImage, Saved, GuardTableAssumption
  <2>2. QED
    BY <1>1, <2>1 DEF PersistInv, FileHolds, ImageHolds, Recorded
<1>6. QED
  BY <1>2, <1>3, <1>4, <1>5 DEF PersistInv

LEMMA PersistStarts == PersistInit => PersistInv
<1> SUFFICES ASSUME PersistInit PROVE PersistInv
  OBVIOUS
<1>1. /\ up /\ live = EmptyTable /\ img = NoRows /\ file = NoRows /\ durable = NoRows
      /\ owner = [d \in Devices |-> NoKey]
      /\ at = [step |-> "top", dev |-> NoDevice]
      /\ wired = [step |-> "idle", dev |-> NoDevice, pairs |-> {}]
      /\ plan \in [Keys \ WiredKeys -> Plans]
  BY DEF PersistInit, At, Idle
<1>2. Sound(live) /\ IsImage(img) /\ IsImage(file) /\ IsImage(durable)
  BY <1>1, NothingLive
<1>3. Shapes
  BY <1>1, GuardPersistAssumption DEF Shapes, Identities, OneIndexEach, GuardPersistAssumption
<1>4. AtWork
  BY <1>1 DEF AtWork
<1>5. FileHolds /\ ImageHolds /\ LiveHolds
  BY <1>1, NothingLive DEF FileHolds, ImageHolds, Recorded, LiveHolds, SpentKept
<1>6. QED
  BY <1>2, <1>3, <1>4, <1>5 DEF PersistInv, PersistTypes

LEMMA PersistKept == PersistInv /\ [PersistNext]_persistVars => PersistInv'
<1> SUFFICES ASSUME PersistInv, [PersistNext]_persistVars PROVE PersistInv'
  OBVIOUS
<1>1. CASE UNCHANGED persistVars
  BY <1>1
  DEF persistVars, PersistInv, PersistTypes, Sound, IsTable, IsRow, Keyed, Still, Shapes,
      OneIndexEach, IsImage, AtWork, FileHolds, ImageHolds, Recorded, LiveHolds, SpentKept, SpentBy
<1>2. CASE \E d \in Devices, k \in Keys : Discover(d, k)
  BY <1>2, DiscoverKeeps
<1>3. CASE \E d \in Devices : NoteActorDevice(d)
  BY <1>3, NoteKeeps
<1>4. CASE BindDeclare \/ BindKey \/ BindRestore
  BY <1>4, BindDeclareKeeps, BindKeyKeeps, BindRestoreKeeps
<1>5. CASE \E k \in Keys, actions \in Plans : Reindex(k, actions)
  BY <1>5, ReindexKeeps
<1>6. CASE \E d \in Devices, p \in Pairs, source \in Submitters : Fire(d, p, source)
  BY <1>6, FireKeeps
<1>7. CASE NextRound \/ TakeDirty
  BY <1>7, TakeKeeps
<1>8. CASE MergeImage \/ SaveImage
  BY <1>8, MergeImageKeeps, SaveImageKeeps
<1>9. CASE \/ \E d \in Devices, on \in BOOLEAN : PressStop(d, on)
           \/ \E d \in Devices, p \in Pairs, perHour \in HourlyCaps : ChangeGuards(d, p, perHour)
  BY <1>9, OperatorKeeps
<1>10. CASE \E d \in Devices, pairs \in Announces : AnnounceDeclare(d, pairs)
  BY <1>10, AnnounceDeclareKeeps
<1>11. CASE AnnouncePrune \/ AnnounceKey
  BY <1>11, AnnouncePruneKeeps, AnnounceKeyKeeps
<1>12. CASE Crash \/ Boot
  BY <1>12, CrashKeeps, BootKeeps
<1>13. QED
  BY <1>1, <1>2, <1>3, <1>4, <1>5, <1>6, <1>7, <1>8, <1>9, <1>10, <1>11, <1>12 DEF PersistNext

\* GuardPersist: a settled BLE device has spent no less than flash says, whatever
\* was restarted, evicted, edited, announced or saved in vain meanwhile.
THEOREM BudgetNotRefunded == PersistSpec => []NeverRefunded
<1>1. PersistInv => NeverRefunded
  <2> SUFFICES ASSUME PersistInv, NEW d \in Devices, Settled(d), live[d].key \notin WiredKeys,
                      NEW p \in DOMAIN live[d].slots,
                      NEW x, x = <<live[d].key, p[1], p[2]>>, x \in DOMAIN durable
               PROVE  durable[x].count <= live[d].slots[p].count
    BY DEF NeverRefunded
  <2>1. up /\ d \in DOMAIN live /\ d # at.dev /\ live[d].key \in Keys \ WiredKeys
        /\ x[1] = live[d].key
    BY RowFacts DEF Settled, PersistInv, PersistTypes, Sound
  <2>2. x \in DOMAIN img /\ durable[x].count <= img[x].count
    BY <2>1 DEF PersistInv, ImageHolds, Recorded
  <2>3. img[x].count <= live[d].slots[p].count
    BY <2>1, <2>2 DEF PersistInv, LiveHolds, SpentKept, SpentBy
  <2>4. durable[x].count \in Nat /\ img[x].count \in Nat
    BY <2>2, GuardTableAssumption DEF PersistInv, PersistTypes, IsImage, Saved, GuardTableAssumption
  <2>5. live[d].slots[p].count \in Nat
    BY <2>1, CountsType DEF PersistInv, PersistTypes, Sound
  <2>6. QED
    BY <2>2, <2>3, <2>4, <2>5
<1>2. QED
  BY <1>1, PersistStarts, PersistKept, PTL DEF PersistSpec

-----------------------------------------------------------------------------
(* GuardPersist: the stops that come back from flash                       *)

\* The same device with the same actions, stopped if it was.
SameStop(u, t, d) ==
  /\ d \in DOMAIN t /\ u[d].key = t[d].key /\ u[d].lockout = t[d].lockout
  /\ DOMAIN u[d].slots = DOMAIN t[d].slots

\* No row is new, none is another one but for what its slots hold.
NoneStopped(u, t) == \A d \in DOMAIN u : SameStop(u, t, d)

\* A row that keeps its actions in place of another.
LEMMA RowStop ==
  ASSUME NEW t, IsTable(t), NEW d \in DOMAIN t, NEW r, NEW u, u = [t EXCEPT ![d] = r]
  PROVE  DOMAIN u = DOMAIN t /\ u[d] = r /\ OnlyRowOf(u, t, d)
<1>1. DOMAIN t \cup {d} = DOMAIN t
  OBVIOUS
<1>2. QED
  BY <1>1, ExceptIsWithRow, WithRowDomain DEF OnlyRowOf, WithRow

LEMMA SlotsStop ==
  ASSUME NEW t, IsTable(t), NEW d, NEW p, Declared(t, d, p), NEW s \in Slot,
         NEW u, u = [t EXCEPT ![d].slots[p] = s]
  PROVE  NoneStopped(u, t)
<1> DEFINE f == [t[d].slots EXCEPT ![p] = s]
           r == [t[d] EXCEPT !.slots = f]
<1>1. d \in DOMAIN t /\ p \in DOMAIN t[d].slots
  BY DEF Declared
<1>2. IsRow(t[d]) /\ DOMAIN t[d].slots \subseteq Pairs
      /\ t[d].slots \in [DOMAIN t[d].slots -> Slot]
  BY <1>1, RowFacts
<1>3. DOMAIN f = DOMAIN t[d].slots /\ f \in [DOMAIN f -> Slot]
  BY <1>1, <1>2
<1>4. u = [t EXCEPT ![d] = r]
  OBVIOUS
<1> HIDE DEF f
<1>5. r.slots = f /\ r.key = t[d].key /\ r.lockout = t[d].lockout
  BY <1>2, <1>3, RowSlots
<1> HIDE DEF r
<1>6. DOMAIN u = DOMAIN t /\ u[d] = r /\ OnlyRowOf(u, t, d)
  BY <1>1, <1>4, RowStop
<1>7. QED
  BY <1>3, <1>5, <1>6 DEF NoneStopped, SameStop, OnlyRowOf

LEMMA GuardsStop ==
  ASSUME NEW t, Sound(t), NEW d, NEW p, Declared(t, d, p),
         NEW cooldown \in Nat, NEW perHour \in 0 .. CountMax,
         NEW u, u = SetGuards(t, d, p, cooldown, perHour)
  PROVE  NoneStopped(u, t)
<1> DEFINE s == [t[d].slots[p] EXCEPT !.cooldown = cooldown, !.perHour = perHour]
<1>1. d \in DOMAIN t /\ p \in DOMAIN t[d].slots /\ IsTable(t)
  BY DEF Declared, Sound
<1>2. t[d].slots[p] \in Slot
  BY <1>1, CountsType
<1>3. s \in Slot
  BY <1>2 DEF Slot
<1>4. u = [t EXCEPT ![d].slots[p] = s]
  BY DEF SetGuards
<1> HIDE DEF s
<1>5. QED
  BY <1>1, <1>3, <1>4, SlotsStop

LEMMA ChargeStop ==
  ASSUME NEW t, Sound(t), NEW d, NEW p \in Pairs,
         NEW u, u = Record(t, d, p[1], p[2], 0)
  PROVE  NoneStopped(u, t)
<1>1. p[2] # 0 /\ <<p[1], p[2]>> = p
  BY GuardTableAssumption DEF Pairs, GuardTableAssumption
<1>2. ResolveEndpoint(t, d, p[1], p[2]) = p[2]
  BY <1>1 DEF ResolveEndpoint
<1>3. CASE ~Declared(t, d, p)
  BY <1>1, <1>2, <1>3 DEF Record, NoneStopped, SameStop
<1>4. CASE Declared(t, d, p)
  <2> DEFINE c == Charged(t[d].slots[p], 0)
  <2>1. d \in DOMAIN t /\ p \in DOMAIN t[d].slots /\ IsTable(t)
    BY <1>4 DEF Declared, Sound
  <2>2. u = [t EXCEPT ![d].slots[p] = c]
    BY <1>1, <1>2, <1>4 DEF Record
  <2>3. c \in Slot
    BY <2>1, CountsType, ChargedType, GuardTableAssumption
  <2> HIDE DEF c
  <2>4. QED
    BY <1>4, <2>1, <2>2, <2>3, SlotsStop
<1>5. QED
  BY <1>3, <1>4

LEMMA LockoutStop ==
  ASSUME NEW t, Sound(t), NEW d, NEW on \in BOOLEAN, NEW u, u = SetLockout(t, d, on)
  PROVE  /\ DOMAIN u = DOMAIN t /\ OnlyRowOf(u, t, d)
         /\ d \in DOMAIN t => /\ u[d].lockout = on /\ u[d].key = t[d].key
                              /\ u[d].slots = t[d].slots
<1>1. CASE d \notin DOMAIN t
  BY <1>1 DEF SetLockout, OnlyRowOf
<1>2. CASE d \in DOMAIN t
  <2> DEFINE r == [t[d] EXCEPT !.lockout = on]
  <2>1. IsRow(t[d]) /\ IsTable(t)
    BY <1>2, RowFacts DEF Sound
  <2>2. r = [lockout |-> on, key |-> t[d].key, slots |-> t[d].slots]
    BY <2>1 DEF IsRow
  <2>3. r.lockout = on /\ r.slots = t[d].slots /\ r.key = t[d].key
    BY <2>2
  <2>4. u = [t EXCEPT ![d] = r]
    BY <1>2 DEF SetLockout
  <2> HIDE DEF r
  <2>5. QED
    BY <1>2, <2>1, <2>3, <2>4, RowStop
<1>3. QED
  BY <1>1, <1>2

LEMMA KeyStop ==
  ASSUME NEW t, Sound(t), NEW d, NEW k, NEW u, u = SetKey(t, d, k)
  PROVE  /\ DOMAIN u = DOMAIN t /\ OnlyRowOf(u, t, d)
         /\ d \in DOMAIN t => /\ u[d].lockout = t[d].lockout /\ u[d].key = k
                              /\ u[d].slots = t[d].slots
<1>1. CASE d \notin DOMAIN t
  BY <1>1 DEF SetKey, OnlyRowOf
<1>2. CASE d \in DOMAIN t
  <2> DEFINE r == [t[d] EXCEPT !.key = k]
  <2>1. IsRow(t[d]) /\ IsTable(t)
    BY <1>2, RowFacts DEF Sound
  <2>2. r = [lockout |-> t[d].lockout, key |-> k, slots |-> t[d].slots]
    BY <2>1 DEF IsRow
  <2>3. r.lockout = t[d].lockout /\ r.slots = t[d].slots /\ r.key = k
    BY <2>2
  <2>4. u = [t EXCEPT ![d] = r]
    BY <1>2 DEF SetKey
  <2> HIDE DEF r
  <2>5. QED
    BY <1>2, <2>1, <2>3, <2>4, RowStop
<1>3. QED
  BY <1>1, <1>2

LEMMA PruneStop ==
  ASSUME NEW t, Sound(t), NEW d, NEW actions, NEW u, u = PruneAbsent(t, d, actions)
  PROVE  DOMAIN u \subseteq DOMAIN t /\ OnlyRowOf(u, t, d)
<1> DEFINE kept == {p \in DOMAIN t[d].slots : p[1] \in actions}
<1>1. CASE u = t
  BY <1>1 DEF OnlyRowOf
<1>2. CASE u = Free(t, d)
  BY <1>2 DEF Free, Restrict, OnlyRowOf
<1>3. CASE d \in DOMAIN t /\ u = [t EXCEPT ![d].slots = Restrict(@, kept)]
  <2> DEFINE r == [t[d] EXCEPT !.slots = Restrict(t[d].slots, kept)]
  <2>1. u = [t EXCEPT ![d] = r] /\ IsTable(t)
    BY <1>3 DEF Sound
  <2> HIDE DEF r
  <2>2. QED
    BY <1>3, <2>1, RowStop
<1>4. QED
  BY <1>1, <1>2, <1>3 DEF PruneAbsent

SlotsOf(t, d) == IF d \in DOMAIN t THEN DOMAIN t[d].slots ELSE {}

\* The row of a device that was declared: pairs are added and nothing else changes.
Grown(u, t, d, pairs) ==
  /\ RowAvailable(t, d) /\ DOMAIN u = DOMAIN t \cup {d} /\ OnlyRowOf(u, t, d)
  /\ DOMAIN u[d].slots # {} /\ DOMAIN u[d].slots \subseteq pairs \cup SlotsOf(t, d)
  /\ u[d].lockout => d \in DOMAIN t /\ t[d].lockout

LEMMA DeclaresStop ==
  ASSUME NEW t, Sound(t), NEW d \in Devices, NEW pairs \in SUBSET Pairs,
         NEW u \in Declares(t, d, pairs)
  PROVE  u = t \/ Grown(u, t, d, pairs)
<1> DEFINE row == RowOf(t, d)
           fresh == pairs \ DOMAIN row.slots
           room == MaxActions - Cardinality(DOMAIN row.slots)
           fits == IF Cardinality(fresh) <= room THEN {fresh} ELSE kSubset(room, fresh)
           with(fit) == [q \in DOMAIN row.slots \cup fit |->
                           IF q \in pairs THEN DeclaredSlot(t, d, q, 0, FALSE) ELSE row.slots[q]]
<1>1. \/ u = t
      \/ /\ pairs # {} /\ RowAvailable(t, d)
         /\ \E fit \in fits : u = WithRow(t, d, [row EXCEPT !.slots = with(fit)])
  BY DEF Declares
<1>2. CASE u = t
  BY <1>2
<1>3. CASE /\ pairs # {} /\ RowAvailable(t, d)
           /\ \E fit \in fits : u = WithRow(t, d, [row EXCEPT !.slots = with(fit)])
  <2>1. PICK fit \in fits : u = WithRow(t, d, [row EXCEPT !.slots = with(fit)])
    BY <1>3
  <2> DEFINE f == with(fit)
             r == [row EXCEPT !.slots = f]
  <2>2. IsRow(row)
    BY RowOfIsRow DEF Sound
  <2> HIDE DEF row
  <2>3. DOMAIN f = DOMAIN row.slots \cup fit
    OBVIOUS
  <2> HIDE DEF f
  <2>4. r = [lockout |-> row.lockout, key |-> row.key, slots |-> f]
    BY <2>2 DEF IsRow
  <2>5. r.lockout = row.lockout /\ r.slots = f
    BY <2>4
  <2>6. fit \subseteq fresh /\ (DOMAIN row.slots = {} => fit # {})
    <3>1. CASE Cardinality(fresh) <= room
      <4>1. fit = fresh
        BY <3>1
      <4>2. QED
        BY <1>3, <4>1
    <3>2. CASE ~(Cardinality(fresh) <= room)
      <4>1. fit \subseteq fresh /\ Cardinality(fit) = room
        BY <3>2 DEF kSubset
      <4>2. ASSUME DOMAIN row.slots = {}, fit = {} PROVE FALSE
        <5>1. room = MaxActions - 0 /\ Cardinality(fit) = 0
          BY <4>2, FS_EmptySet
        <5>2. QED
          BY <4>1, <5>1, GuardTableAssumption DEF GuardTableAssumption
      <4>3. QED
        BY <4>1, <4>2
    <3>3. QED
      BY <3>1, <3>2
  <2>7. u = WithRow(t, d, r)
    BY <2>1 DEF f
  <2> HIDE DEF r, fits
  <2>8. DOMAIN WithRow(t, d, r) = DOMAIN t \cup {d} /\ WithRow(t, d, r)[d] = r
        /\ OnlyRowOf(WithRow(t, d, r), t, d)
    BY DEF WithRow, OnlyRowOf
  <2>9. DOMAIN u = DOMAIN t \cup {d} /\ u[d] = r /\ OnlyRowOf(u, t, d)
    BY <2>7, <2>8
  <2>10. /\ d \in DOMAIN t => row = t[d]
         /\ d \notin DOMAIN t => row.lockout = FALSE /\ DOMAIN row.slots = {}
    BY DEF row, RowOf, NewRow, NoSlots
  <2> HIDE DEF fresh
  <2>11. DOMAIN u[d].slots = DOMAIN row.slots \cup fit /\ fit \subseteq pairs
    BY <2>3, <2>5, <2>6, <2>9 DEF fresh
  <2>12. u[d].lockout = row.lockout
    BY <2>5, <2>9
  <2>13. DOMAIN u[d].slots # {}
    BY <2>6, <2>11
  <2>14. CASE d \in DOMAIN t
    BY <1>3, <2>9, <2>10, <2>11, <2>12, <2>13, <2>14 DEF SlotsOf, Grown
  <2>15. CASE d \notin DOMAIN t
    BY <1>3, <2>9, <2>10, <2>11, <2>12, <2>13, <2>15 DEF SlotsOf, Grown
  <2>16. QED
    BY <2>14, <2>15
<1>4. QED
  BY <1>1, <1>2, <1>3

\* A device that is restored is stopped when one of its rows says so.
LEMMA RestoresStop ==
  ASSUME NEW t, Sound(t), NEW d \in Devices, NEW image, IsImage(image),
         NEW u \in Restores(t, d, image)
  PROVE  \/ /\ u = t
            /\ \A p \in Pairs : <<owner[d], p[1], p[2]>> \in DOMAIN image => ~Declared(t, d, p)
         \/ /\ d \in DOMAIN t /\ DOMAIN u = DOMAIN t /\ OnlyRowOf(u, t, d)
            /\ u[d].key = t[d].key /\ DOMAIN u[d].slots = DOMAIN t[d].slots
            /\ \E x \in DOMAIN image : x[1] = owner[d] /\ u[d].lockout = image[x].lockout
<1> DEFINE named == [p \in Pairs |-> <<owner[d], p[1], p[2]>>]
           mine  == {p \in Pairs : named[p] \in DOMAIN image /\ Declared(t, d, p)}
           f     == [p \in DOMAIN t[d].slots |->
                       IF p \in mine THEN Apply(t[d].slots[p], image[named[p]])
                       ELSE t[d].slots[p]]
<1>1. \/ mine = {} /\ u = t
      \/ \E last \in mine :
           u = [t EXCEPT ![d] = [@ EXCEPT !.slots = f, !.lockout = image[named[last]].lockout]]
  BY DEF Restores
<1>2. \A p \in Pairs : named[p] = <<owner[d], p[1], p[2]>>
  OBVIOUS
<1>3. DOMAIN f = DOMAIN t[d].slots
  OBVIOUS
<1>4. \A p \in mine : p \in Pairs /\ named[p] \in DOMAIN image /\ d \in DOMAIN t
  BY DEF Declared
<1>5. \A p \in Pairs : named[p] \in DOMAIN image /\ Declared(t, d, p) => p \in mine
  OBVIOUS
<1> HIDE DEF named, mine, f
<1>6. CASE mine = {} /\ u = t
  BY <1>2, <1>5, <1>6
<1>7. CASE \E last \in mine :
           u = [t EXCEPT ![d] = [@ EXCEPT !.slots = f, !.lockout = image[named[last]].lockout]]
  <2>1. PICK last \in mine :
           u = [t EXCEPT ![d] = [@ EXCEPT !.slots = f, !.lockout = image[named[last]].lockout]]
    BY <1>7
  <2> DEFINE x == named[last]
             l == image[x].lockout
             r == [t[d] EXCEPT !.slots = f, !.lockout = l]
  <2>2. d \in DOMAIN t /\ IsTable(t) /\ x \in DOMAIN image /\ x[1] = owner[d]
    BY <1>2, <1>4 DEF Sound
  <2>3. u = [t EXCEPT ![d] = r]
    BY <2>1, <2>2
  <2>4. l = image[x].lockout
    OBVIOUS
  <2> HIDE DEF l, x
  <2>5. IsRow(t[d])
    BY <2>2, RowFacts
  <2>6. r = [lockout |-> l, key |-> t[d].key, slots |-> f]
    BY <2>5, RowBoth
  <2>7. r.lockout = l /\ r.key = t[d].key /\ r.slots = f
    BY <2>6
  <2> HIDE DEF r
  <2>8. DOMAIN u = DOMAIN t /\ u[d] = r /\ OnlyRowOf(u, t, d)
    BY <2>2, <2>3, RowStop
  <2>9. QED
    BY <1>3, <2>2, <2>4, <2>7, <2>8
<1>8. QED
  BY <1>1, <1>6, <1>7

-----------------------------------------------------------------------------

\* The rows of a BLE device are those of endpoint 1 and agree on its stop.
Alike(image) ==
  \A x \in DOMAIN image : x[1] \notin WiredKeys =>
    /\ x[3] = 1
    /\ \A y \in DOMAIN image : y[1] = x[1] => image[y].lockout = image[x].lockout

\* Every row belongs to a device with an identity, and that of a BLE device has
\* actions, all on endpoint 1.
Rowed(t) ==
  \A d \in DOMAIN t :
    /\ owner[d] \in Keys
    /\ owner[d] \notin WiredKeys =>
         DOMAIN t[d].slots # {} /\ \A p \in DOMAIN t[d].slots : p[2] = 1

\* A BLE device has its identity, unless task "s" is about to give it.
Named(t, s) ==
  \A d \in DOMAIN t :
    owner[d] \notin WiredKeys /\ (d # s.dev \/ s.step = "restore") => t[d].key = owner[d]

Room(t) == IsFiniteSet(DOMAIN t) /\ Cardinality(DOMAIN t) <= MaxDevices

Shaped(t, s) == Rowed(t) /\ Named(t, s) /\ Room(t)

\* A device of "held" that has a stop in the image is stopped, but for the one
\* that is being bound.
StopOf(t, image, d) ==
  \A x \in DOMAIN image :
    x[1] = t[d].key /\ image[x].lockout /\ <<x[2], x[3]>> \in DOMAIN t[d].slots => t[d].lockout

StopsHeld(t, image, held, binding) ==
  \A d \in DOMAIN t \ {binding} : t[d].key \in held \ WiredKeys => StopOf(t, image, d)

\* The rows that reached flash with a stop have it still, there and in the image.
StoppedRows(rows, image) ==
  \A x \in stopped \cap DOMAIN rows :
    rows[x].lockout /\ (up /\ x[1] \notin WiredKeys => image[x].lockout)

StopInv ==
  /\ pressed \subseteq Keys /\ \A x \in stopped : x[1] \in pressed
  /\ StoppedRows(durable, img)
  /\ Alike(img) /\ Alike(file)
  /\ Shaped(live, at) /\ StopsHeld(live, img, pressed, at.dev)

-----------------------------------------------------------------------------
(* Frames *)

LEMMA ElsewhereSame ==
  ASSUME NEW t, NEW u, NEW d, OnlyRowOf(u, t, d)
  PROVE  \A e \in DOMAIN u : e # d => SameStop(u, t, e)
  BY DEF OnlyRowOf, SameStop

LEMMA HeldFrame ==
  ASSUME NEW t, NEW u, NEW image, NEW held, NEW b, StopsHeld(t, image, held, b),
         \A d \in DOMAIN u \ {b} : u[d].key \in held \ WiredKeys => SameStop(u, t, d)
  PROVE  StopsHeld(u, image, held, b)
  BY DEF StopsHeld, StopOf, SameStop

LEMMA RoomFrame ==
  ASSUME NEW t, NEW u, Room(t), DOMAIN u \subseteq DOMAIN t
  PROVE  Room(u)
<1>1. IsFiniteSet(DOMAIN u) /\ Cardinality(DOMAIN u) <= Cardinality(DOMAIN t)
  BY FS_Subset DEF Room
<1>2. Cardinality(DOMAIN u) \in Nat /\ Cardinality(DOMAIN t) \in Nat
  BY <1>1, FS_CardinalityType DEF Room
<1>3. QED
  BY <1>1, <1>2, GuardTableAssumption DEF Room, GuardTableAssumption

LEMMA RoomGrown ==
  ASSUME NEW t, NEW u, NEW d, Room(t), RowAvailable(t, d), DOMAIN u = DOMAIN t \cup {d}
  PROVE  Room(u)
<1>1. IsFiniteSet(DOMAIN u)
      /\ Cardinality(DOMAIN u) = IF d \in DOMAIN t THEN Cardinality(DOMAIN t)
                                 ELSE Cardinality(DOMAIN t) + 1
  BY FS_AddElement DEF Room
<1>2. Cardinality(DOMAIN t) \in Nat
  BY FS_CardinalityType DEF Room
<1>3. QED
  BY <1>1, <1>2, GuardTableAssumption DEF Room, RowAvailable, GuardTableAssumption

\* Rows that stay as they are.
LEMMA ShapedSame ==
  ASSUME NEW t, NEW u, NEW s, NEW v, Shaped(t, s), NoneStopped(u, t),
         s.dev \notin DOMAIN u \/ v = s
  PROVE  Shaped(u, v)
<1>1. DOMAIN u \subseteq DOMAIN t
  BY DEF NoneStopped, SameStop
<1>2. Rowed(u)
  BY DEF Shaped, Rowed, NoneStopped, SameStop
<1>3. Named(u, v)
  BY DEF Shaped, Named, NoneStopped, SameStop
<1>4. QED
  BY <1>1, <1>2, <1>3, RoomFrame DEF Shaped

\* Another row for a wired device.
LEMMA ShapedWired ==
  ASSUME NEW t, NEW u, NEW s, NEW d, Shaped(t, s), OnlyRowOf(u, t, d), Room(u),
         owner[d] \in WiredKeys
  PROVE  Shaped(u, s)
<1>1. owner[d] \in Keys
  BY GuardPersistAssumption DEF GuardPersistAssumption
<1>2. Rowed(u)
  BY <1>1 DEF Shaped, Rowed, OnlyRowOf
<1>3. Named(u, s)
  BY DEF Shaped, Named, OnlyRowOf
<1>4. QED
  BY <1>2, <1>3 DEF Shaped

\* A wired device is none of those whose stop has to be kept.
LEMMA HeldWired ==
  ASSUME PersistInv, StopInv, NEW d, owner[d] \in WiredKeys,
         NEW u, Sound(u), OnlyRowOf(u, live, d)
  PROVE  StopsHeld(u, img, pressed, at.dev)
<1>1. ASSUME NEW e \in DOMAIN u, u[e].key \in pressed \ WiredKeys
      PROVE  SameStop(u, live, e)
  <2>1. u[e].key \in {NoKey, owner[e]} /\ u[e].key # NoKey
    BY <1>1, GuardTableAssumption DEF Sound, Keyed, StopInv, GuardTableAssumption
  <2>2. QED
    BY <1>1, <2>1, ElsewhereSame
<1>2. QED
  BY <1>1, HeldFrame DEF StopInv

\* So is the one that is being bound.
LEMMA HeldBinding ==
  ASSUME StopInv, NEW u, OnlyRowOf(u, live, at.dev)
  PROVE  StopsHeld(u, img, pressed, at.dev)
  BY ElsewhereSame, HeldFrame DEF StopInv

\* A step of the table and of who works on it.
LEMMA StopSteps ==
  ASSUME StopInv, UNCHANGED <<up, img, file, owner, durable, pressed, stopped>>,
         Shaped(live', at'), StopsHeld(live', img, pressed, at'.dev)
  PROVE  StopInv'
<1>1. Shaped(live, at)'
  BY DEF Shaped, Rowed, Named, Room
<1>2. StopsHeld(live, img, pressed, at.dev)'
  BY DEF StopsHeld, StopOf
<1>3. Alike(img)' /\ Alike(file)' /\ StoppedRows(durable, img)'
  BY DEF StopInv, Alike, StoppedRows
<1>4. QED
  BY <1>1, <1>2, <1>3 DEF StopInv

LEMMA NobodyHeld ==
  ASSUME NEW u, NEW image, NEW held, NEW b, StopsHeld(u, image, held, b), b \notin DOMAIN u, NEW c
  PROVE  StopsHeld(u, image, held, c)
  BY DEF StopsHeld

-----------------------------------------------------------------------------
(* The image *)

LEMMA MergeDomain ==
  ASSUME NEW t, NEW old, NEW new \in Merges(t, old)
  PROVE  DOMAIN new \subseteq {x \in DOMAIN old : Survives(t, x)} \cup LiveRows(t)
  BY DEF Merges

LEMMA RowNowStop ==
  ASSUME NEW t, Sound(t), OneIndexEach, NEW x \in LiveRows(t), NEW d, Carries(t, d, x[1])
  PROVE  RowNow(t, x).lockout = t[d].lockout
<1> DEFINE c == CHOOSE e \in DOMAIN t : Carries(t, e, x[1])
           s == t[c].slots[<<x[2], x[3]>>]
<1>1. c \in DOMAIN t /\ Carries(t, c, x[1])
  BY DEF LiveRows
<1>2. c = d
  BY <1>1, OneCarrier
<1>3. RowNow(t, x) = [lockout |-> t[c].lockout, cooldown |-> s.cooldown, perHour |-> s.perHour,
                      count |-> s.count]
  BY DEF RowNow
<1> HIDE DEF c, s
<1>4. RowNow(t, x).lockout = t[c].lockout
  BY <1>3
<1>5. QED
  BY <1>2, <1>4

\* A row of the image of a BLE device that is here is one of its actions.
LEMMA HereIsLive ==
  ASSUME NEW t, Sound(t), Rowed(t), NEW old, IsImage(old), Alike(old),
         NEW new \in Merges(t, old), NEW x \in DOMAIN new, x[1] \notin WiredKeys,
         NEW d, Carries(t, d, x[1])
  PROVE  x \in LiveRows(t) /\ x[3] = 1
<1>1. d \in DOMAIN t /\ owner[d] = x[1] /\ \A p \in DOMAIN t[d].slots : p[2] = 1 /\ p = <<p[1], p[2]>>
  <2>1. d \in DOMAIN t /\ owner[d] = x[1]
    BY DEF Carries, Sound, Keyed
  <2>2. DOMAIN t[d].slots \subseteq Pairs
    BY <2>1, RowFacts DEF Sound
  <2>3. QED
    BY <2>1, <2>2 DEF Rowed, Pairs
<1>2. CASE x \in LiveRows(t)
  <2>1. PICK e \in DOMAIN t : Carries(t, e, x[1]) /\ <<x[2], x[3]>> \in DOMAIN t[e].slots
    BY <1>2 DEF LiveRows
  <2>2. owner[e] = x[1]
    BY <2>1 DEF Carries, Sound, Keyed
  <2>3. x[3] = 1
    BY <2>1, <2>2 DEF Rowed
  <2>4. QED
    BY <1>2, <2>3
<1>3. CASE x \in DOMAIN old /\ Survives(t, x)
  <2>1. EndpointsOf(t, d, x[2]) # {}
    BY <1>3 DEF Survives, Carries
  <2>2. PICK q \in DOMAIN t[d].slots : q[1] = x[2]
    BY <1>1, <2>1 DEF EndpointsOf
  <2>3. x[3] = 1 /\ x \in Rows
    BY <1>3 DEF Alike, IsImage
  <2>4. <<x[2], x[3]>> \in DOMAIN t[d].slots
    BY <1>1, <2>2, <2>3
  <2>5. QED
    BY <1>1, <2>3, <2>4 DEF LiveRows
<1>4. QED
  BY <1>2, <1>3, MergeDomain

LEMMA MergeAlike ==
  ASSUME NEW t, Sound(t), OneIndexEach, Rowed(t), NEW old, IsImage(old), Alike(old),
         NEW new \in Merges(t, old)
  PROVE  Alike(new)
<1> SUFFICES ASSUME NEW x \in DOMAIN new, x[1] \notin WiredKeys
             PROVE  /\ x[3] = 1
                    /\ \A y \in DOMAIN new : y[1] = x[1] => new[y].lockout = new[x].lockout
  BY DEF Alike
<1>1. UpToDate(new, old, t)
  BY MergeFacts
<1>2. CASE \E d : Carries(t, d, x[1])
  <2>1. PICK d : Carries(t, d, x[1])
    BY <1>2
  <2>2. ASSUME NEW y \in DOMAIN new, y[1] = x[1]
        PROVE  y[3] = 1 /\ new[y].lockout = t[d].lockout
    <3>1. y[1] \notin WiredKeys /\ Carries(t, d, y[1])
      BY <2>1, <2>2
    <3>2. y \in LiveRows(t) /\ y[3] = 1
      BY <3>1, HereIsLive
    <3>3. RowNow(t, y).lockout = t[d].lockout
      BY <3>1, <3>2, RowNowStop
    <3>4. QED
      BY <1>1, <3>2, <3>3 DEF UpToDate
  <2>3. QED
    BY <2>2
<1>3. CASE ~\E d : Carries(t, d, x[1])
  <2>1. ASSUME NEW y \in DOMAIN new, y[1] = x[1]
        PROVE  y \in DOMAIN old /\ new[y] = old[y]
    <3>1. y \notin LiveRows(t)
      BY <1>3, <2>1 DEF LiveRows
    <3>2. QED
      BY <1>1, <3>1 DEF UpToDate
  <2>2. QED
    BY <2>1 DEF Alike
<1>4. QED
  BY <1>2, <1>3

\* Merging while no device is being bound: a stop that is on flash stays in the
\* image, and the image says of every device whether it is stopped.
LEMMA RemergeStops ==
  ASSUME PersistInv, StopInv, up, at.dev = NoDevice, Remerge
  PROVE  Alike(img') /\ StoppedRows(durable', img') /\ StopsHeld(live, img', pressed, NoDevice)
<1>1. Sound(live) /\ OneIndexEach /\ IsImage(img) /\ Recorded(durable, img)
      /\ Rowed(live) /\ Alike(img) /\ StoppedRows(durable, img)
      /\ StopsHeld(live, img, pressed, NoDevice)
  BY DEF PersistInv, PersistTypes, Shapes, ImageHolds, StopInv, Shaped
<1>2. img' \in Merges(live, img)
  BY DEF Remerge
<1>3. IsImage(img') /\ UpToDate(img', img, live) /\ Alike(img')
  BY <1>1, <1>2, MergeFacts, MergeAlike
<1>4. DOMAIN durable' \subseteq DOMAIN durable /\ DOMAIN durable' \subseteq DOMAIN img'
      /\ \A x \in DOMAIN durable' : durable'[x] = durable[x]
  BY RemergeKeeps DEF Recorded
<1>5. ASSUME NEW x \in stopped \cap DOMAIN durable', x[1] \notin WiredKeys
      PROVE  img'[x].lockout
  <2>1. x \in DOMAIN img /\ x \in DOMAIN img' /\ img[x].lockout /\ x[1] \in pressed
    BY <1>1, <1>4, <1>5 DEF Recorded, StoppedRows, StopInv
  <2>2. CASE x \notin LiveRows(live)
    BY <1>3, <2>1, <2>2 DEF UpToDate
  <2>3. CASE x \in LiveRows(live)
    <3>1. PICK d \in DOMAIN live : Carries(live, d, x[1])
                                  /\ <<x[2], x[3]>> \in DOMAIN live[d].slots
      BY <2>3 DEF LiveRows
    <3>2. d # NoDevice /\ live[d].key = x[1]
      BY <3>1, NobodyBound DEF Carries
    <3>3. live[d].lockout
      BY <1>1, <1>5, <2>1, <3>1, <3>2 DEF StopsHeld, StopOf
    <3>4. RowNow(live, x).lockout = live[d].lockout
      BY <1>1, <2>3, <3>1, RowNowStop
    <3>5. QED
      BY <1>3, <2>1, <2>3, <3>3, <3>4 DEF UpToDate
  <2>4. QED
    BY <2>2, <2>3
<1>6. StoppedRows(durable', img')
  BY <1>1, <1>4, <1>5 DEF StoppedRows
<1>7. StopsHeld(live, img', pressed, NoDevice)
  <2> SUFFICES ASSUME NEW d \in DOMAIN live, live[d].key \in pressed \ WiredKeys,
                      NEW x \in DOMAIN img', x[1] = live[d].key, img'[x].lockout,
                      <<x[2], x[3]>> \in DOMAIN live[d].slots
               PROVE  live[d].lockout
    BY DEF StopsHeld, StopOf
  <2>1. Carries(live, d, x[1])
    BY GuardTableAssumption DEF Carries, StopInv, GuardTableAssumption
  <2>2. x \in LiveRows(live)
    BY <1>3, <2>1 DEF LiveRows, IsImage
  <2>3. RowNow(live, x).lockout = live[d].lockout
    BY <1>1, <2>1, <2>2, RowNowStop
  <2>4. QED
    BY <1>3, <2>2, <2>3 DEF UpToDate
<1>8. QED
  BY <1>3, <1>6, <1>7

-----------------------------------------------------------------------------

\* What the steps below know of the table.
LEMMA TableKnown ==
  ASSUME PersistInv, StopInv
  PROVE  /\ Sound(live) /\ IsTable(live) /\ IsImage(img) /\ OneIndexEach /\ Room(live)
         /\ Shaped(live, at) /\ Rowed(live) /\ StopsHeld(live, img, pressed, at.dev)
         /\ owner \in [Devices -> Keys \cup {NoKey}]
  BY DEF PersistInv, PersistTypes, Shapes, Identities, Sound, StopInv, Shaped

\* The decoder task has nobody in hand and takes up somebody or nobody.
LEMMA HandFree ==
  ASSUME PersistInv, StopInv, at.dev = NoDevice, NEW u, Sound(u), NoneStopped(u, live), NEW s, NEW b
  PROVE  Shaped(u, s) /\ StopsHeld(u, img, pressed, b)
<1>1. at.dev \notin DOMAIN u
  BY NobodyBound DEF NoneStopped, SameStop
<1>2. Shaped(u, s)
  BY <1>1, TableKnown, ShapedSame
<1>3. StopsHeld(u, img, pressed, at.dev)
  BY TableKnown, HeldFrame DEF NoneStopped
<1>4. QED
  BY <1>1, <1>2, <1>3, NobodyHeld

LEMMA SelfSame == NoneStopped(live, live)
  BY DEF NoneStopped, SameStop

LEMMA DiscoverStops ==
  ASSUME PersistInv, StopInv, NEW d \in Devices, NEW k \in Keys, Discover(d, k) PROVE StopInv'
<1>1. owner' = [owner EXCEPT ![d] = k] /\ owner[d] = NoKey
      /\ UNCHANGED <<up, live, img, file, at, durable, pressed, stopped>>
  BY DEF Discover
<1>2. \A e \in DOMAIN live : owner'[e] = owner[e]
  <2>1. d \notin DOMAIN live
    BY <1>1, TableKnown, GuardTableAssumption DEF Rowed, GuardTableAssumption
  <2>2. QED
    BY <1>1, <2>1, TableKnown DEF IsTable
<1>3. Shaped(live, at)'
  BY <1>1, <1>2 DEF StopInv, Shaped, Rowed, Named, Room
<1>4. QED
  BY <1>1, <1>3 DEF StopInv, Alike, StoppedRows, StopsHeld, StopOf

LEMMA NoteStops ==
  ASSUME PersistInv, StopInv, NEW d \in Devices, NoteActorDevice(d) PROVE StopInv'
<1>1. /\ up /\ up' /\ at.dev = NoDevice
      /\ UNCHANGED <<live, file, owner, pressed, stopped>>
  BY NobodyBound DEF NoteActorDevice
<1>2. Shaped(live, at') /\ StopsHeld(live, img, pressed, at'.dev)
  BY <1>1, TableKnown, HandFree, SelfSame
<1>3. CASE UNCHANGED <<img, durable>>
  BY <1>1, <1>2, <1>3, StopSteps
<1>4. CASE Remerge
  <2>1. Alike(img') /\ StoppedRows(durable', img') /\ StopsHeld(live, img', pressed, NoDevice)
    BY <1>1, <1>4, RemergeStops
  <2>2. StopsHeld(live, img', pressed, at'.dev)
    BY <2>1, NobodyBound, NobodyHeld
  <2>3. Shaped(live, at)' /\ StopsHeld(live, img, pressed, at.dev)'
    BY <1>1, <1>2, <2>2 DEF Shaped, Rowed, Named, Room, StopsHeld, StopOf
  <2>4. Alike(img)' /\ Alike(file)' /\ StoppedRows(durable, img)'
    BY <1>1, <2>1 DEF StopInv, Alike, StoppedRows
  <2>5. QED
    BY <1>1, <2>3, <2>4 DEF StopInv
<1>5. QED
  BY <1>3, <1>4 DEF NoteActorDevice

LEMMA BindDeclareStops == ASSUME PersistInv, StopInv, BindDeclare PROVE StopInv'
<1> DEFINE d == at.dev
<1>1. /\ UNCHANGED <<up, img, file, owner, durable, pressed, stopped>>
      /\ at.step = "declare" /\ at'.dev = d /\ at'.step = "key"
      /\ d \in Devices /\ owner[d] \in Keys \ WiredKeys
      /\ live' \in Declares(live, d, BlePairs(plan[owner[d]]))
  BY NobodyBound DEF BindDeclare, PersistInv, PersistTypes, Shapes
<1>2. BlePairs(plan[owner[d]]) \in SUBSET Pairs /\ \A p \in BlePairs(plan[owner[d]]) : p[2] = 1
  BY <1>1, GuardPersistAssumption
  DEF PersistInv, PersistTypes, Shapes, BlePairs, Pairs, GuardPersistAssumption
<1> DEFINE pairs == BlePairs(plan[owner[d]])
<1>3. live' \in Declares(live, d, pairs) /\ pairs \in SUBSET Pairs /\ Sound(live) /\ d \in Devices
  BY <1>1, <1>2, TableKnown
<1> HIDE DEF pairs
<1>4. live' = live \/ Grown(live', live, d, pairs)
  BY <1>3, DeclaresStop
<1>5. CASE live' = live
  <2>1. Shaped(live, at')
    BY <1>1, TableKnown DEF Shaped, Named
  <2>2. QED
    BY <1>1, <1>5, <2>1, TableKnown, StopSteps
<1>6. CASE Grown(live', live, d, pairs)
  <2>1. Room(live')
    BY <1>6, TableKnown, RoomGrown DEF Grown
  <2>2. \A p \in DOMAIN live'[d].slots : p[2] = 1
    BY <1>1, <1>2, <1>6, TableKnown DEF Rowed, pairs, Grown, SlotsOf
  <2>3. Rowed(live')
    BY <1>1, <1>6, <2>2, TableKnown DEF Rowed, OnlyRowOf, Grown
  <2>4. Named(live', at')
    BY <1>1, <1>6, TableKnown DEF Shaped, Named, OnlyRowOf, Grown
  <2>5. StopsHeld(live', img, pressed, d)
    BY <1>6, HeldBinding DEF Grown
  <2>6. Shaped(live', at')
    BY <2>1, <2>3, <2>4 DEF Shaped
  <2>7. QED
    BY <1>1, <2>5, <2>6, StopSteps
<1>7. QED
  BY <1>4, <1>5, <1>6

LEMMA BindKeyStops == ASSUME PersistInv, StopInv, BindKey PROVE StopInv'
<1> DEFINE d == at.dev
<1>1. /\ UNCHANGED <<up, img, file, owner, durable, pressed, stopped>>
      /\ at'.dev = d /\ at'.step = "restore" /\ live' = SetKey(live, d, owner[d])
  BY DEF BindKey, PersistInv, PersistTypes, Shapes
<1>2. /\ DOMAIN live' = DOMAIN live /\ OnlyRowOf(live', live, d)
      /\ d \in DOMAIN live => /\ live'[d].lockout = live[d].lockout /\ live'[d].key = owner[d]
                              /\ live'[d].slots = live[d].slots
  BY <1>1, TableKnown, KeyStop
<1>3. Room(live')
  BY <1>2, TableKnown, RoomFrame
<1>4. Rowed(live')
  BY <1>2, TableKnown DEF Rowed, OnlyRowOf
<1>5. Named(live', at')
  BY <1>1, <1>2, TableKnown DEF Shaped, Named, OnlyRowOf
<1>6. StopsHeld(live', img, pressed, d)
  BY <1>2, HeldBinding
<1>7. Shaped(live', at')
  BY <1>3, <1>4, <1>5 DEF Shaped
<1>8. QED
  BY <1>1, <1>6, <1>7, StopSteps

LEMMA BindRestoreStops == ASSUME PersistInv, StopInv, BindRestore PROVE StopInv'
<1> DEFINE d == at.dev
<1>1. /\ UNCHANGED <<up, img, file, owner, durable, pressed, stopped>>
      /\ at.step = "restore" /\ at' = At("top") /\ at'.dev = NoDevice
      /\ d \in Devices /\ owner[d] \in Keys \ WiredKeys
      /\ live' \in Restores(live, d, img)
  BY NobodyBound DEF BindRestore, At
<1>2. Alike(img)
  BY DEF StopInv
<1>3. ASSUME DOMAIN live' = DOMAIN live, OnlyRowOf(live', live, d),
             d \in DOMAIN live =>
               /\ live'[d].key = live[d].key /\ DOMAIN live'[d].slots = DOMAIN live[d].slots
               /\ live[d].key = owner[d] => StopOf(live', img, d)
      PROVE  StopInv'
  <2>1. Room(live')
    BY <1>3, TableKnown, RoomFrame
  <2>2. Rowed(live')
    BY <1>3, TableKnown DEF Rowed, OnlyRowOf
  <2>3. Named(live', at')
    BY <1>1, <1>3, TableKnown DEF Shaped, Named, OnlyRowOf
  <2>4. StopsHeld(live', img, pressed, d)
    BY <1>3, HeldBinding
  <2>5. d \in DOMAIN live => live[d].key = owner[d]
    BY <1>1, TableKnown DEF Shaped, Named
  <2>6. StopsHeld(live', img, pressed, at'.dev)
    BY <1>3, <2>4, <2>5 DEF StopsHeld
  <2>7. Shaped(live', at')
    BY <2>1, <2>2, <2>3 DEF Shaped
  <2>8. QED
    BY <1>1, <2>6, <2>7, StopSteps
<1>4. CASE /\ live' = live
           /\ \A p \in Pairs : <<owner[d], p[1], p[2]>> \in DOMAIN img => ~Declared(live, d, p)
  <2>1. OnlyRowOf(live', live, d)
    BY <1>4 DEF OnlyRowOf
  <2>2. ASSUME d \in DOMAIN live, live[d].key = owner[d], NEW x \in DOMAIN img,
               x[1] = live[d].key, <<x[2], x[3]>> \in DOMAIN live[d].slots
        PROVE  FALSE
    <3>1. x = <<owner[d], x[2], x[3]>> /\ <<x[2], x[3]>> \in Pairs
      BY <2>2, TableKnown DEF IsImage, Rows, Pairs
    <3>2. QED
      BY <1>4, <2>2, <3>1 DEF Declared
  <2>3. QED
    BY <1>3, <1>4, <2>1, <2>2 DEF StopOf
<1>5. CASE /\ d \in DOMAIN live /\ DOMAIN live' = DOMAIN live /\ OnlyRowOf(live', live, d)
           /\ live'[d].key = live[d].key /\ DOMAIN live'[d].slots = DOMAIN live[d].slots
           /\ \E x \in DOMAIN img : x[1] = owner[d] /\ live'[d].lockout = img[x].lockout
  <2>1. PICK x \in DOMAIN img : x[1] = owner[d] /\ live'[d].lockout = img[x].lockout
    BY <1>5
  <2>2. live[d].key = owner[d] => StopOf(live', img, d)
    BY <1>1, <1>2, <1>5, <2>1 DEF StopOf, Alike
  <2>3. QED
    BY <1>3, <1>5, <2>2
<1>6. QED
  BY <1>1, <1>4, <1>5, TableKnown, RestoresStop

\* Rows may go, or be charged.
LEMMA SameSteps ==
  ASSUME PersistInv, StopInv, UNCHANGED <<up, img, file, owner, durable, pressed, stopped>>,
         NoneStopped(live', live), Sound(live'), at' = at \/ at.dev = NoDevice
  PROVE  StopInv'
<1>1. CASE at' = at
  <2>1. Shaped(live', at')
    BY <1>1, TableKnown, ShapedSame
  <2>2. StopsHeld(live', img, pressed, at'.dev)
    BY <1>1, TableKnown, HeldFrame DEF NoneStopped
  <2>3. QED
    BY <2>1, <2>2, StopSteps
<1>2. CASE at.dev = NoDevice
  <2>1. Shaped(live', at') /\ StopsHeld(live', img, pressed, at'.dev)
    BY <1>2, HandFree
  <2>2. QED
    BY <2>1, StopSteps
<1>3. QED
  BY <1>1, <1>2

LEMMA ReindexStops ==
  ASSUME PersistInv, StopInv, NEW k \in Keys, NEW actions \in Plans, Reindex(k, actions)
  PROVE  StopInv'
<1>1. UNCHANGED <<up, img, file, owner, durable, pressed, stopped>> /\ at.dev = NoDevice
  BY NobodyBound DEF Reindex
<1>2. NoneStopped(live', live)
  BY DEF Reindex, Restrict, NoneStopped, SameStop
<1>3. PICK S \in SUBSET DOMAIN live : live' = [d \in S |-> live[d]]
  <2> DEFINE S == DOMAIN live \ {d \in bound : plan'[owner[d]] = {}}
  <2>1. live' = [d \in S |-> live[d]]
    BY DEF Reindex, Restrict
  <2>2. QED
    BY <2>1
<1>4. Sound(live')
  BY <1>3, TableKnown, RestrictSwap
<1>5. QED
  BY <1>1, <1>2, <1>4, SameSteps

LEMMA FireStops ==
  ASSUME PersistInv, StopInv, NEW d \in Devices, NEW p \in Pairs, NEW source, Fire(d, p, source)
  PROVE  StopInv'
<1>1. UNCHANGED <<up, img, file, owner, durable, pressed, stopped>> /\ at.dev = NoDevice
      /\ live' = Record(live, d, p[1], p[2], 0)
  BY NobodyBound DEF Fire
<1>2. NoneStopped(live', live) /\ Sound(live')
  BY <1>1, TableKnown, ChargeStop, ChargeSwap
<1>3. QED
  BY <1>1, <1>2, SameSteps

LEMMA ChangeStops ==
  ASSUME PersistInv, StopInv, NEW d \in Devices, NEW p \in Pairs, NEW perHour \in HourlyCaps,
         ChangeGuards(d, p, perHour)
  PROVE  StopInv'
<1>1. UNCHANGED <<up, img, file, owner, durable, pressed, stopped, at>>
      /\ live' = SetGuards(live, d, p, 0, perHour) /\ Declared(live, d, p)
      /\ perHour \in 0 .. CountMax /\ 0 \in Nat
  BY GuardPersistAssumption DEF ChangeGuards, GuardPersistAssumption
<1>2. NoneStopped(live', live) /\ Sound(live')
  BY <1>1, TableKnown, GuardsStop, GuardsSwap
<1>3. QED
  BY <1>1, <1>2, SameSteps

LEMMA WalkStops == ASSUME PersistInv, StopInv, NextRound \/ TakeDirty PROVE StopInv'
<1>1. UNCHANGED <<up, live, img, file, owner, durable, pressed, stopped>> /\ at.dev = NoDevice
  BY NobodyBound DEF NextRound, TakeDirty
<1>2. NoneStopped(live', live) /\ Sound(live')
  BY <1>1, TableKnown, SelfSame
<1>3. QED
  BY <1>1, <1>2, SameSteps

LEMMA MergeImageStops == ASSUME PersistInv, StopInv, MergeImage PROVE StopInv'
<1>1. /\ up /\ up' /\ at.dev = NoDevice /\ Remerge /\ at'.dev = NoDevice
      /\ UNCHANGED <<live, file, owner, pressed, stopped>>
  BY NobodyBound DEF MergeImage, At
<1>2. Shaped(live, at')
  BY <1>1, TableKnown, HandFree, SelfSame
<1>3. Alike(img') /\ StoppedRows(durable', img') /\ StopsHeld(live, img', pressed, NoDevice)
  BY <1>1, RemergeStops
<1>4. Shaped(live, at)' /\ StopsHeld(live, img, pressed, at.dev)'
  BY <1>1, <1>2, <1>3 DEF Shaped, Rowed, Named, Room, StopsHeld, StopOf
<1>5. Alike(img)' /\ Alike(file)' /\ StoppedRows(durable, img)'
  BY <1>1, <1>3 DEF StopInv, Alike, StoppedRows
<1>6. QED
  BY <1>1, <1>4, <1>5 DEF StopInv

\* The image replaces what is on flash.
LEMMA WrittenWhole ==
  ASSUME NEW image, IsImage(image), NEW rows, DOMAIN rows \subseteq DOMAIN image
  PROVE  Written(image, rows) = image
<1>1. DOMAIN image \cup DOMAIN rows = DOMAIN image /\ image = [x \in DOMAIN image |-> image[x]]
  BY DEF IsImage
<1>2. QED
  BY <1>1 DEF Written

LEMMA SaveImageStops == ASSUME PersistInv, StopInv, SaveImage PROVE StopInv'
<1>1. /\ up /\ up' /\ at.dev = NoDevice /\ UNCHANGED <<live, img, owner, pressed>>
  BY NobodyBound DEF SaveImage
<1>2. CASE UNCHANGED <<file, durable, stopped>>
  <2>1. NoneStopped(live', live) /\ Sound(live') /\ UNCHANGED up
    BY <1>1, TableKnown, SelfSame DEF SaveImage
  <2>2. QED
    BY <1>1, <1>2, <2>1, SameSteps
<1>3. CASE /\ file' = img /\ durable' = Written(img, durable)
           /\ stopped' = {x \in DOMAIN img : img[x].lockout /\ x[1] \in pressed}
  <2>1. durable' = img
    BY <1>1, <1>3, TableKnown, WrittenWhole DEF PersistInv, ImageHolds, Recorded
  <2>2. Shaped(live, at') /\ StopsHeld(live, img, pressed, at'.dev)
    BY <1>1, TableKnown, HandFree, SelfSame
  <2>3. Shaped(live, at)' /\ StopsHeld(live, img, pressed, at.dev)'
    BY <1>1, <2>2 DEF Shaped, Rowed, Named, Room, StopsHeld, StopOf
  <2>4. Alike(img)' /\ Alike(file)' /\ StoppedRows(durable, img)'
    BY <1>1, <1>3, <2>1 DEF StopInv, Alike, StoppedRows
  <2>5. QED
    BY <1>1, <1>3, <2>3, <2>4 DEF StopInv
<1>4. QED
  BY <1>2, <1>3 DEF SaveImage

-----------------------------------------------------------------------------

\* A device whose button is pressed is stopped; one that is released is asked for
\* nothing any more.
LEMMA PressStops ==
  ASSUME PersistInv, StopInv, NEW d \in Devices, NEW on \in BOOLEAN, PressStop(d, on)
  PROVE  StopInv'
<1>1. UNCHANGED <<up, img, file, owner, durable, at>> /\ live' = SetLockout(live, d, on)
  BY DEF PressStop
<1>2. /\ DOMAIN live' = DOMAIN live /\ OnlyRowOf(live', live, d)
      /\ d \in DOMAIN live => /\ live'[d].lockout = on /\ live'[d].key = live[d].key
                              /\ live'[d].slots = live[d].slots
  BY <1>1, TableKnown, LockoutStop
<1>3. Shaped(live', at)
  <2>1. Room(live')
    BY <1>2, TableKnown, RoomFrame
  <2>2. Rowed(live')
    BY <1>2, TableKnown DEF Rowed, OnlyRowOf
  <2>3. Named(live', at)
    BY <1>2, TableKnown DEF Shaped, Named, OnlyRowOf
  <2>4. QED
    BY <2>1, <2>2, <2>3 DEF Shaped
<1>4. /\ pressed' \subseteq Keys /\ \A x \in stopped' : x[1] \in pressed'
      /\ stopped' \subseteq stopped
  <2>1. CASE on
    <3>1. pressed' = pressed \cup {k \in {owner[d]} : Settled(d)} /\ stopped' = stopped
      BY <2>1 DEF PressStop
    <3>2. Settled(d) => owner[d] \in Keys
      BY TableKnown DEF Settled, Rowed
    <3>3. QED
      BY <3>1, <3>2 DEF StopInv
  <2>2. CASE ~on
    <3>1. pressed' = pressed \ {owner[d]} /\ stopped' = {x \in stopped : x[1] # owner[d]}
      BY <2>2 DEF PressStop
    <3>2. QED
      BY <3>1 DEF StopInv
  <2>3. QED
    BY <2>1, <2>2
<1>5. StopsHeld(live', img, pressed', at.dev)
  <2> SUFFICES ASSUME NEW e \in DOMAIN live', e # at.dev, live'[e].key \in pressed' \ WiredKeys
               PROVE  StopOf(live', img, e)
    BY DEF StopsHeld
  <2>1. CASE e = d /\ on
    BY <1>2, <2>1 DEF StopOf
  <2>2. CASE e # d \/ ~on
    <3>1. live'[e].key = live[e].key /\ live'[e].key \in {NoKey, owner[e]}
          /\ live'[e].key # NoKey /\ e \in DOMAIN live /\ owner[e] = live[e].key
      BY <1>2, <1>4, TableKnown, GuardTableAssumption
      DEF OnlyRowOf, Sound, Keyed, GuardTableAssumption
    <3>2. e # d
      <4>1. CASE ~on
        BY <3>1, <4>1 DEF PressStop
      <4>2. QED
        BY <2>2, <4>1
    <3>3. owner[e] # owner[d]
      BY <3>1, <3>2, TableKnown, GuardTableAssumption
      DEF OneIndexEach, IsTable, GuardTableAssumption
    <3>4. live[e].key \in pressed
      BY <3>1, <3>3 DEF PressStop
    <3>5. StopOf(live, img, e)
      BY <3>1, <3>4, TableKnown DEF StopsHeld
    <3>6. live'[e] = live[e]
      BY <1>2, <3>2 DEF OnlyRowOf
    <3>7. QED
      BY <3>5, <3>6 DEF StopOf
  <2>3. QED
    BY <2>1, <2>2
<1>6. Shaped(live, at)' /\ StopsHeld(live, img, pressed, at.dev)'
  BY <1>1, <1>3, <1>5 DEF Shaped, Rowed, Named, Room, StopsHeld, StopOf
<1>7. Alike(img)' /\ Alike(file)' /\ StoppedRows(durable, img)'
  BY <1>1, <1>4 DEF StopInv, Alike, StoppedRows
<1>8. QED
  BY <1>4, <1>6, <1>7 DEF StopInv

\* The link task has to do with wired devices only.
LEMMA WiredSteps ==
  ASSUME PersistInv, StopInv, UNCHANGED <<up, img, file, owner, durable, pressed, stopped, at>>,
         NEW d, owner[d] \in WiredKeys, Sound(live'), OnlyRowOf(live', live, d), Room(live')
  PROVE  StopInv'
<1>1. Shaped(live', at')
  BY TableKnown, ShapedWired
<1>2. StopsHeld(live', img, pressed, at'.dev)
  BY HeldWired
<1>3. QED
  BY <1>1, <1>2, StopSteps

LEMMA AnnounceDeclareStops ==
  ASSUME PersistInv, StopInv, NEW d \in Devices, NEW pairs \in Announces, AnnounceDeclare(d, pairs)
  PROVE  StopInv'
<1>1. /\ UNCHANGED <<up, img, file, owner, durable, pressed, stopped, at>>
      /\ owner[d] \in WiredKeys /\ live' \in Declares(live, d, pairs) /\ pairs \in SUBSET Pairs
  BY GuardPersistAssumption DEF AnnounceDeclare, GuardPersistAssumption
<1>2. Sound(live') /\ OnlyRowOf(live', live, d)
  BY <1>1, TableKnown, DeclaresFacts
<1>3. live' = live \/ Grown(live', live, d, pairs)
  BY <1>1, TableKnown, DeclaresStop
<1>4. Room(live')
  BY <1>3, TableKnown, RoomGrown DEF Grown
<1>5. QED
  BY <1>1, <1>2, <1>4, WiredSteps

LEMMA AnnouncePruneStops == ASSUME PersistInv, StopInv, AnnouncePrune PROVE StopInv'
<1>1. /\ UNCHANGED <<up, img, file, owner, durable, pressed, stopped, at>>
      /\ owner[wired.dev] \in WiredKeys
      /\ live' = PruneAbsent(live, wired.dev, {p[1] : p \in wired.pairs})
  BY NobodyBound DEF AnnouncePrune
<1>2. Sound(live') /\ DOMAIN live' \subseteq DOMAIN live /\ OnlyRowOf(live', live, wired.dev)
  BY <1>1, TableKnown, PruneSwap, PruneStop
<1>3. Room(live')
  BY <1>2, TableKnown, RoomFrame
<1>4. QED
  BY <1>1, <1>2, <1>3, WiredSteps

LEMMA AnnounceKeyStops == ASSUME PersistInv, StopInv, AnnounceKey PROVE StopInv'
<1>1. /\ UNCHANGED <<up, img, file, owner, durable, pressed, stopped, at>>
      /\ owner[wired.dev] \in WiredKeys /\ wired.dev \in Devices
      /\ live' = SetKey(live, wired.dev, owner[wired.dev])
  BY NobodyBound DEF AnnounceKey
<1>2. owner[wired.dev] \in Keys \cup {NoKey}
  BY <1>1, GuardPersistAssumption DEF GuardPersistAssumption
<1>3. Sound(live') /\ DOMAIN live' = DOMAIN live /\ OnlyRowOf(live', live, wired.dev)
  BY <1>1, <1>2, TableKnown, KeySwap
<1>4. Room(live')
  BY <1>3, TableKnown, RoomFrame
<1>5. QED
  BY <1>1, <1>3, <1>4, WiredSteps

LEMMA EmptyShaped ==
  ASSUME NEW s, NEW image, NEW held, NEW b
  PROVE  Shaped(EmptyTable, s) /\ StopsHeld(EmptyTable, image, held, b) /\ Alike(NoRows)
<1>1. IsFiniteSet({}) /\ Cardinality({}) = 0
  BY FS_EmptySet
<1>2. Room(EmptyTable)
  BY <1>1, NothingLive, GuardTableAssumption DEF Room, GuardTableAssumption
<1>3. Rowed(EmptyTable) /\ Named(EmptyTable, s) /\ StopsHeld(EmptyTable, image, held, b)
  BY NothingLive DEF Rowed, Named, StopsHeld
<1>4. Alike(NoRows)
  BY NothingLive DEF Alike
<1>5. QED
  BY <1>2, <1>3, <1>4 DEF Shaped

LEMMA CrashStops == ASSUME PersistInv, StopInv, Crash PROVE StopInv'
<1>1. ~up' /\ live' = EmptyTable /\ img' = NoRows /\ UNCHANGED <<file, durable, pressed, stopped>>
  BY DEF Crash
<1>2. Shaped(live, at)' /\ StopsHeld(live, img, pressed, at.dev)'
  BY <1>1, NothingLive, EmptyShaped, RoomFrame DEF Shaped, Rowed, Named, Room, StopsHeld
<1>3. Alike(img)'
  BY <1>1, NothingLive DEF Alike
<1>4. Alike(file)' /\ StoppedRows(durable, img)'
  BY <1>1 DEF StopInv, Alike, StoppedRows
<1>5. QED
  BY <1>1, <1>2, <1>3, <1>4 DEF StopInv

LEMMA BootStops == ASSUME PersistInv, StopInv, Boot PROVE StopInv'
<1>1. img' = file /\ live = EmptyTable /\ UNCHANGED <<live, file, owner, at, durable, pressed, stopped>>
  BY DEF Boot, PersistInv, AtWork
<1>2. Shaped(live, at)'
  BY <1>1 DEF StopInv, Shaped, Rowed, Named, Room
<1>3. StopsHeld(live, img, pressed, at.dev)'
  BY <1>1, NothingLive DEF StopsHeld
<1>4. StoppedRows(durable, img)'
  BY <1>1 DEF StopInv, StoppedRows, PersistInv, FileHolds
<1>5. Alike(img)' /\ Alike(file)'
  BY <1>1 DEF StopInv, Alike
<1>6. QED
  BY <1>1, <1>2, <1>3, <1>4, <1>5 DEF StopInv

LEMMA StopStarts == PersistInit => StopInv
<1> SUFFICES ASSUME PersistInit PROVE StopInv
  OBVIOUS
<1>1. live = EmptyTable /\ img = NoRows /\ file = NoRows /\ durable = NoRows
      /\ pressed = {} /\ stopped = {}
  BY DEF PersistInit
<1>2. QED
  BY <1>1, EmptyShaped DEF StopInv, StoppedRows

LEMMA StopKept == PersistInv /\ StopInv /\ [PersistNext]_persistVars => StopInv'
<1> SUFFICES ASSUME PersistInv, StopInv, [PersistNext]_persistVars PROVE StopInv'
  OBVIOUS
<1>1. CASE UNCHANGED persistVars
  BY <1>1
  DEF persistVars, StopInv, Alike, StoppedRows, Shaped, Rowed, Named, Room, StopsHeld, StopOf
<1>2. CASE \E d \in Devices, k \in Keys : Discover(d, k)
  BY <1>2, DiscoverStops
<1>3. CASE \E d \in Devices : NoteActorDevice(d)
  BY <1>3, NoteStops
<1>4. CASE BindDeclare \/ BindKey \/ BindRestore
  BY <1>4, BindDeclareStops, BindKeyStops, BindRestoreStops
<1>5. CASE \E k \in Keys, actions \in Plans : Reindex(k, actions)
  BY <1>5, ReindexStops
<1>6. CASE \E d \in Devices, p \in Pairs, source \in Submitters : Fire(d, p, source)
  BY <1>6, FireStops
<1>7. CASE NextRound \/ TakeDirty
  BY <1>7, WalkStops
<1>8. CASE MergeImage \/ SaveImage
  BY <1>8, MergeImageStops, SaveImageStops
<1>9. CASE \E d \in Devices, on \in BOOLEAN : PressStop(d, on)
  BY <1>9, PressStops
<1>10. CASE \E d \in Devices, p \in Pairs, perHour \in HourlyCaps : ChangeGuards(d, p, perHour)
  BY <1>10, ChangeStops
<1>11. CASE \E d \in Devices, pairs \in Announces : AnnounceDeclare(d, pairs)
  BY <1>11, AnnounceDeclareStops
<1>12. CASE AnnouncePrune \/ AnnounceKey
  BY <1>12, AnnouncePruneStops, AnnounceKeyStops
<1>13. CASE Crash \/ Boot
  BY <1>13, CrashStops, BootStops
<1>14. QED
  BY <1>1, <1>2, <1>3, <1>4, <1>5, <1>6, <1>7, <1>8, <1>9, <1>10, <1>11, <1>12, <1>13
  DEF PersistNext

\* A stop that is on flash is on the device.
LEMMA FiledIsObeyed == PersistInv /\ StopInv => StopSurvivesFor(Keys \ WiredKeys)
<1> SUFFICES ASSUME PersistInv, StopInv, NEW d \in Devices, NEW x \in DOMAIN durable \cap stopped,
                    Settled(d), x[1] = live[d].key, x[1] \in Keys \ WiredKeys,
                    Declared(live, d, <<x[2], x[3]>>)
             PROVE  live[d].lockout
  BY DEF StopSurvivesFor
<1>1. up /\ d \in DOMAIN live /\ d # at.dev /\ <<x[2], x[3]>> \in DOMAIN live[d].slots
  BY DEF Settled, Declared
<1>2. x \in DOMAIN img /\ img[x].lockout /\ x[1] \in pressed
  BY <1>1 DEF PersistInv, ImageHolds, Recorded, StopInv, StoppedRows
<1>3. StopOf(live, img, d)
  BY <1>1, <1>2 DEF StopInv, StopsHeld
<1>4. QED
  BY <1>1, <1>2, <1>3 DEF StopOf

-----------------------------------------------------------------------------
(* The room in the file *)

\* A row of the table has room for every pair there is (8, ACTOR_MAX_ACTIONS: four
\* actions on two gangs).
RowsFit == Cardinality(Pairs) <= MaxActions

LEMMA ProductGrows ==
  ASSUME NEW a \in Nat, NEW b \in Nat, NEW m \in Nat, NEW n \in Nat, a <= m, b <= n
  PROVE  a * b <= m * n
<1>1. PICK c \in Nat : m = a + c
  <2>1. m - a \in Nat /\ m = a + (m - a)
    OBVIOUS
  <2>2. QED
    BY <2>1
<1>2. PICK e \in Nat : n = b + e
  <2>1. n - b \in Nat /\ n = b + (n - b)
    OBVIOUS
  <2>2. QED
    BY <2>1
<1>3. (a + c) * (b + e) = a * b + a * e + c * b + c * e
  OBVIOUS
<1>4. a * b \in Nat /\ a * e \in Nat /\ c * b \in Nat /\ c * e \in Nat
  OBVIOUS
<1>5. QED
  BY <1>1, <1>2, <1>3, <1>4

\* The rows of the devices that are here always fit into the file.
LEMMA HereFits ==
  ASSUME RowsFit, NEW t, Room(t), NEW S, S \subseteq {x \in Rows : x[1] \in LiveKeys(t)}
  PROVE  IsFiniteSet(S) /\ Cardinality(S) <= MaxDevices * MaxActions
<1> DEFINE K == LiveKeys(t)
           A == {t[d].key : d \in DOMAIN t}
           T == {x \in Rows : x[1] \in K}
<1>1. IsFiniteSet(K) /\ Cardinality(K) <= MaxDevices /\ Cardinality(K) \in Nat
  <2> DEFINE f == [d \in DOMAIN t |-> t[d].key]
  <2>1. f \in Surjection(DOMAIN t, A)
    BY DEF Surjection
  <2>2. IsFiniteSet(A) /\ Cardinality(A) <= Cardinality(DOMAIN t)
    BY <2>1, FS_Surjection DEF Room
  <2>3. K \in SUBSET A
    BY DEF LiveKeys
  <2>4. IsFiniteSet(K) /\ Cardinality(K) <= Cardinality(A)
    BY <2>2, <2>3, FS_Subset
  <2>5. Cardinality(K) \in Nat /\ Cardinality(A) \in Nat /\ Cardinality(DOMAIN t) \in Nat
    BY <2>2, <2>4, FS_CardinalityType DEF Room
  <2>6. QED
    BY <2>2, <2>4, <2>5, GuardTableAssumption DEF Room, GuardTableAssumption
<1>2. IsFiniteSet(Pairs) /\ Cardinality(Pairs) \in Nat /\ Cardinality(Pairs) <= MaxActions
  BY GuardPersistAssumption, FS_CardinalityType DEF GuardPersistAssumption, RowsFit
<1>3. IsFiniteSet(K \X Pairs) /\ Cardinality(K \X Pairs) = Cardinality(K) * Cardinality(Pairs)
  BY <1>1, <1>2, FS_Product
<1> HIDE DEF K
<1>4. IsFiniteSet(T) /\ Cardinality(T) <= Cardinality(K \X Pairs)
  <2> DEFINE f == [x \in T |-> <<x[1], <<x[2], x[3]>> >>]
  <2>1. f \in [T -> K \X Pairs]
    BY DEF Rows, Pairs
  <2>2. ASSUME NEW x \in T, NEW y \in T, f[x] = f[y] PROVE x = y
    <3>1. x = <<x[1], x[2], x[3]>> /\ y = <<y[1], y[2], y[3]>>
      BY DEF Rows
    <3>2. x[1] = y[1] /\ x[2] = y[2] /\ x[3] = y[3]
      BY <2>2
    <3>3. QED
      BY <3>1, <3>2
  <2>3. f \in Injection(T, K \X Pairs)
    BY <2>1, <2>2 DEF Injection, IsInjective
  <2>4. QED
    BY <1>3, <2>3, FS_Injection
<1>5. IsFiniteSet(S) /\ Cardinality(S) <= Cardinality(T)
  BY <1>4, FS_Subset DEF K
<1>6. Cardinality(K) * Cardinality(Pairs) <= MaxDevices * MaxActions
  BY <1>1, <1>2, ProductGrows, GuardTableAssumption DEF GuardTableAssumption
<1>7. Cardinality(S) \in Nat /\ Cardinality(T) \in Nat /\ MaxDevices * MaxActions \in Nat
      /\ Cardinality(K) * Cardinality(Pairs) \in Nat
  BY <1>1, <1>2, <1>4, <1>5, FS_CardinalityType, GuardTableAssumption DEF GuardTableAssumption
<1>8. QED
  BY <1>3, <1>4, <1>5, <1>6, <1>7

\* ... so that what is evicted for them belongs to absent devices.
LEMMA MergeAll ==
  ASSUME RowsFit, NEW t, Sound(t), Room(t), NEW old, IsImage(old), NEW new \in Merges(t, old)
  PROVE  LiveRows(t) \subseteq DOMAIN new
<1> DEFINE kept  == {x \in DOMAIN old : Survives(t, x)}
           fresh == LiveRows(t) \ kept
           stale == {x \in kept : x[1] \notin LiveKeys(t)}
           here  == kept \ stale
           cap   == MaxDevices * MaxActions
           need  == Cardinality(kept) + Cardinality(fresh) - cap
           gone  == IF need <= 0 THEN {{}}
                    ELSE IF need <= Cardinality(stale) THEN kSubset(need, stale)
                    ELSE {stale \cup g : g \in kSubset(need - Cardinality(stale), fresh)}
<1>1. PICK g \in gone :
        new = [x \in (kept \cup fresh) \ g |-> IF x \in LiveRows(t) THEN RowNow(t, x) ELSE old[x]]
  BY DEF Merges
<1>2. kept \subseteq Rows /\ fresh \subseteq Rows /\ here \subseteq kept /\ stale \subseteq kept
  BY DEF IsImage, LiveRows
<1>3. IsFiniteSet(kept) /\ IsFiniteSet(fresh) /\ IsFiniteSet(stale) /\ IsFiniteSet(here)
      /\ here \cap fresh = {}
  BY <1>2, RowsFinite, FS_Subset
<1>4. here \cup fresh \subseteq {x \in Rows : x[1] \in LiveKeys(t)}
  <2>1. ASSUME NEW x \in LiveRows(t) PROVE x \in Rows /\ x[1] \in LiveKeys(t)
    BY DEF LiveRows, LiveKeys, Carries
  <2>2. QED
    BY <1>2, <2>1
<1>5. Cardinality(here) + Cardinality(fresh) <= cap
  <2>1. Cardinality(here \cup fresh) <= cap
    BY <1>4, HereFits
  <2>2. Cardinality(here \cup fresh)
          = Cardinality(here) + Cardinality(fresh) - Cardinality(here \cap fresh)
    BY <1>3, FS_Union
  <2>3. Cardinality(here \cap fresh) = 0
    BY <1>3, FS_EmptySet
  <2>4. Cardinality(here) \in Nat /\ Cardinality(fresh) \in Nat
    BY <1>3, FS_CardinalityType
  <2> HIDE DEF here, fresh, cap
  <2>5. QED
    BY <2>1, <2>2, <2>3, <2>4
<1>6. Cardinality(kept) = Cardinality(here) + Cardinality(stale)
  <2>1. kept = here \cup stale /\ here \cap stale = {}
    BY <1>2
  <2>2. Cardinality(here \cup stale)
          = Cardinality(here) + Cardinality(stale) - Cardinality(here \cap stale)
    BY <1>3, FS_Union
  <2>3. /\ Cardinality(here) \in Nat /\ Cardinality(stale) \in Nat
        /\ Cardinality(here \cap stale) = 0
    BY <1>3, <2>1, FS_CardinalityType, FS_EmptySet
  <2>4. Cardinality(kept) = Cardinality(here \cup stale)
    BY <2>1
  <2> HIDE DEF here, kept, stale, fresh, need, gone
  <2>5. QED
    BY <2>2, <2>3, <2>4
<1>7. need <= Cardinality(stale)
  <2>1. /\ Cardinality(here) \in Nat /\ Cardinality(fresh) \in Nat /\ Cardinality(stale) \in Nat
        /\ cap \in Nat
    BY <1>3, FS_CardinalityType, GuardTableAssumption DEF GuardTableAssumption
  <2> HIDE DEF here, fresh, stale, kept, cap
  <2>2. Cardinality(kept) + Cardinality(fresh) - cap <= Cardinality(stale)
    BY <1>5, <1>6, <2>1
  <2>3. QED
    BY <2>2
<1>8. g \subseteq stale
  <2>1. g \in {{}} \/ g \in kSubset(need, stale)
    BY <1>1, <1>7
  <2>2. QED
    BY <2>1 DEF kSubset
<1>9. LiveRows(t) \cap stale = {}
  BY DEF LiveRows, LiveKeys, Carries
<1>10. DOMAIN new = (kept \cup fresh) \ g
  BY <1>1
<1>11. QED
  BY <1>8, <1>9, <1>10

-----------------------------------------------------------------------------
(* A stop in force is in the image, or will be *)

Kept(image, k) == \E x \in DOMAIN image : x[1] = k /\ image[x].lockout

Owed(t, image) ==
  \A d \in DOMAIN t : owner[d] \notin WiredKeys /\ t[d].lockout => Kept(image, owner[d])

KeptOrOwed == unsaved \/ at.step = "merge" \/ Owed(live, img)

LEMMA OwedFrame ==
  ASSUME NEW t, NEW u, NEW image, Owed(t, image),
         \A d \in DOMAIN u : owner[d] \notin WiredKeys /\ u[d].lockout => d \in DOMAIN t /\ t[d].lockout
  PROVE  Owed(u, image)
  BY DEF Owed

LEMMA OwedStep ==
  ASSUME KeptOrOwed, UNCHANGED <<img, owner>>,
         unsaved => unsaved' \/ at'.step = "merge", at.step = "merge" => at'.step = "merge",
         \A d \in DOMAIN live' :
           owner[d] \notin WiredKeys /\ live'[d].lockout => d \in DOMAIN live /\ live[d].lockout
  PROVE  KeptOrOwed'
<1>1. CASE unsaved \/ at.step = "merge"
  BY <1>1 DEF KeptOrOwed
<1>2. CASE Owed(live, img)
  <2>1. Owed(live', img)
    BY <1>2, OwedFrame
  <2>2. Owed(live, img)'
    BY <2>1 DEF Owed, Kept
  <2>3. QED
    BY <2>2 DEF KeptOrOwed
<1>3. QED
  BY <1>1, <1>2 DEF KeptOrOwed

\* What a step on a wired device leaves of the others.
LEMMA WiredLockouts ==
  ASSUME NEW t, NEW u, NEW d, OnlyRowOf(u, t, d), owner[d] \in WiredKeys
  PROVE  \A e \in DOMAIN u : owner[e] \notin WiredKeys /\ u[e].lockout => e \in DOMAIN t /\ t[e].lockout
  BY DEF OnlyRowOf

LEMMA MergeIsKept ==
  ASSUME RowsFit, PersistInv, StopInv, MergeImage PROVE KeptOrOwed'
<1>1. at.dev = NoDevice /\ img' \in Merges(live, img) /\ UNCHANGED <<live, owner>>
  BY NobodyBound DEF MergeImage, Remerge
<1>2. UpToDate(img', img, live) /\ LiveRows(live) \subseteq DOMAIN img'
  BY <1>1, TableKnown, MergeFacts, MergeAll
<1>3. ASSUME NEW d \in DOMAIN live, owner[d] \notin WiredKeys, live[d].lockout
      PROVE  Kept(img', owner[d])
  <2>1. live[d].key = owner[d] /\ owner[d] \in Keys /\ DOMAIN live[d].slots # {}
    BY <1>1, <1>3, TableKnown, NobodyBound DEF Shaped, Rowed, Named
  <2>2. PICK p \in DOMAIN live[d].slots : TRUE
    BY <2>1
  <2>3. p \in Pairs /\ p = <<p[1], p[2]>>
    BY TableKnown, RowFacts DEF Pairs
  <2> DEFINE x == <<owner[d], p[1], p[2]>>
  <2>4. x \in Rows /\ x[1] = owner[d] /\ <<x[2], x[3]>> = p
    BY <2>1, <2>3 DEF Rows, Pairs
  <2> HIDE DEF x
  <2>5. Carries(live, d, x[1])
    BY <2>1, <2>4, GuardTableAssumption DEF Carries, GuardTableAssumption
  <2>6. x \in LiveRows(live)
    BY <2>4, <2>5 DEF LiveRows
  <2>7. RowNow(live, x).lockout
    BY <1>3, <2>5, <2>6, TableKnown, RowNowStop
  <2>8. x \in DOMAIN img' /\ img'[x] = RowNow(live, x)
    BY <1>2, <2>6 DEF UpToDate
  <2>9. QED
    BY <2>4, <2>7, <2>8 DEF Kept
<1>4. Owed(live, img)'
  BY <1>1, <1>3 DEF Owed, Kept
<1>5. QED
  BY <1>4 DEF KeptOrOwed

LEMMA RestoreIsKept ==
  ASSUME PersistInv, StopInv, KeptOrOwed, BindRestore PROVE KeptOrOwed'
<1> DEFINE d == at.dev
<1>1. /\ UNCHANGED <<unsaved, img, owner>> /\ at.step = "restore" /\ d \in Devices
      /\ live' \in Restores(live, d, img)
  BY NobodyBound DEF BindRestore
<1>2. CASE unsaved
  BY <1>1, <1>2 DEF KeptOrOwed
<1>3. CASE Owed(live, img)
  <2>1. CASE live' = live
    BY <1>1, <1>3, <2>1 DEF KeptOrOwed, Owed, Kept
  <2>2. CASE /\ DOMAIN live' = DOMAIN live /\ OnlyRowOf(live', live, d)
             /\ \E x \in DOMAIN img : x[1] = owner[d] /\ live'[d].lockout = img[x].lockout
    <3>1. ASSUME NEW e \in DOMAIN live', owner[e] \notin WiredKeys, live'[e].lockout
          PROVE  Kept(img, owner[e])
      <4>1. CASE e = d
        BY <2>2, <3>1, <4>1 DEF Kept
      <4>2. CASE e # d
        BY <1>3, <2>2, <3>1, <4>2 DEF OnlyRowOf, Owed
      <4>3. QED
        BY <4>1, <4>2
    <3>2. Owed(live, img)'
      BY <1>1, <3>1 DEF Owed, Kept
    <3>3. QED
      BY <3>2 DEF KeptOrOwed
  <2>3. QED
    BY <1>1, <2>1, <2>2, TableKnown, RestoresStop
<1>4. QED
  BY <1>1, <1>2, <1>3 DEF KeptOrOwed

LEMMA OwedStarts == PersistInit => KeptOrOwed
  BY NothingLive DEF PersistInit, KeptOrOwed, Owed

LEMMA NoneOwed ==
  ASSUME KeptOrOwed, UNCHANGED <<img, owner>>, NoneStopped(live', live),
         unsaved => unsaved' \/ at'.step = "merge", at.step = "merge" => at'.step = "merge"
  PROVE  KeptOrOwed'
<1>1. \A d \in DOMAIN live' : d \in DOMAIN live /\ live'[d].lockout = live[d].lockout
  BY DEF NoneStopped, SameStop
<1>2. QED
  BY <1>1, OwedStep

LEMMA OwedKept ==
  RowsFit /\ PersistInv /\ StopInv /\ KeptOrOwed /\ [PersistNext]_persistVars => KeptOrOwed'
<1> SUFFICES ASSUME RowsFit, PersistInv, StopInv, KeptOrOwed, [PersistNext]_persistVars
             PROVE  KeptOrOwed'
  OBVIOUS
<1>1. CASE UNCHANGED persistVars
  BY <1>1 DEF persistVars, KeptOrOwed, Owed, Kept
<1>2. ASSUME NEW d \in Devices, NEW k \in Keys, Discover(d, k) PROVE KeptOrOwed'
  <2>1. owner' = [owner EXCEPT ![d] = k] /\ owner[d] = NoKey
        /\ UNCHANGED <<live, img, at, unsaved>>
    BY <1>2 DEF Discover
  <2>2. \A e \in DOMAIN live : owner'[e] = owner[e]
    BY <2>1, TableKnown, GuardTableAssumption DEF Rowed, IsTable, GuardTableAssumption
  <2>3. QED
    BY <2>1, <2>2 DEF KeptOrOwed, Owed, Kept
<1>3. ASSUME NEW d \in Devices, NoteActorDevice(d) PROVE KeptOrOwed'
  <2>1. UNCHANGED <<live, owner, unsaved>> /\ at.step # "merge" /\ (unsaved \/ UNCHANGED img)
    BY <1>3 DEF NoteActorDevice
  <2>2. QED
    BY <2>1 DEF KeptOrOwed, Owed, Kept
<1>4. CASE BindDeclare
  <2> DEFINE d == at.dev
             pairs == BlePairs(plan[owner[d]])
  <2>1. UNCHANGED <<img, owner, unsaved>> /\ at.step = "declare" /\ d \in Devices
        /\ owner[d] \in Keys \ WiredKeys /\ live' \in Declares(live, d, pairs)
    BY <1>4, NobodyBound DEF BindDeclare
  <2>2. pairs \in SUBSET Pairs
    BY <2>1, GuardPersistAssumption
    DEF PersistInv, PersistTypes, Shapes, BlePairs, Pairs, GuardPersistAssumption
  <2> HIDE DEF pairs
  <2>3. live' = live \/ Grown(live', live, d, pairs)
    BY <2>1, <2>2, TableKnown, DeclaresStop
  <2>4. \A e \in DOMAIN live' : live'[e].lockout => e \in DOMAIN live /\ live[e].lockout
    BY <2>3 DEF Grown, OnlyRowOf
  <2>5. QED
    BY <2>1, <2>4, OwedStep
<1>5. CASE BindKey
  <2>1. UNCHANGED <<img, owner, unsaved>> /\ at.step = "key" /\ live' = SetKey(live, at.dev, owner[at.dev])
    BY <1>5 DEF BindKey
  <2>2. \A e \in DOMAIN live' : e \in DOMAIN live /\ live'[e].lockout = live[e].lockout
    BY <2>1, TableKnown, KeyStop DEF OnlyRowOf
  <2>3. QED
    BY <2>1, <2>2, OwedStep
<1>6. CASE BindRestore
  BY <1>6, RestoreIsKept
<1>7. ASSUME NEW k \in Keys, NEW actions \in Plans, Reindex(k, actions) PROVE KeptOrOwed'
  <2>1. UNCHANGED <<img, owner>> /\ at.step = "top" /\ (unsaved => unsaved')
        /\ NoneStopped(live', live)
    BY <1>7 DEF Reindex, Restrict, NoneStopped, SameStop
  <2>2. QED
    BY <2>1, NoneOwed
<1>8. CASE \/ \E d \in Devices, p \in Pairs, source \in Submitters : Fire(d, p, source)
           \/ \E d \in Devices, on \in BOOLEAN : PressStop(d, on)
           \/ \E d \in Devices, p \in Pairs, perHour \in HourlyCaps : ChangeGuards(d, p, perHour)
  BY <1>8 DEF Fire, PressStop, ChangeGuards, KeptOrOwed
<1>9. CASE NextRound \/ TakeDirty
  <2>1. UNCHANGED <<live, img, owner>> /\ at.step # "merge"
        /\ (unsaved => unsaved' \/ at'.step = "merge")
    BY <1>9 DEF NextRound, TakeDirty, At
  <2>2. QED
    BY <2>1, SelfSame, NoneOwed
<1>10. CASE MergeImage
  BY <1>10, MergeIsKept
<1>11. CASE SaveImage
  <2>1. UNCHANGED <<live, img, owner, unsaved>> /\ at.step = "save"
    BY <1>11 DEF SaveImage
  <2>2. QED
    BY <2>1, SelfSame, NoneOwed
<1>12. ASSUME NEW d \in Devices, NEW pairs \in Announces, AnnounceDeclare(d, pairs) PROVE KeptOrOwed'
  <2>1. UNCHANGED <<img, owner, unsaved, at>> /\ owner[d] \in WiredKeys
        /\ live' \in Declares(live, d, pairs) /\ pairs \in SUBSET Pairs
    BY <1>12, GuardPersistAssumption DEF AnnounceDeclare, GuardPersistAssumption
  <2>2. OnlyRowOf(live', live, d)
    BY <2>1, TableKnown, DeclaresFacts
  <2>3. QED
    BY <2>1, <2>2, WiredLockouts, OwedStep
<1>13. CASE AnnouncePrune
  <2>1. UNCHANGED <<img, owner, at>> /\ (unsaved => unsaved') /\ owner[wired.dev] \in WiredKeys
        /\ live' = PruneAbsent(live, wired.dev, {p[1] : p \in wired.pairs})
    BY <1>13, NobodyBound DEF AnnouncePrune
  <2>2. OnlyRowOf(live', live, wired.dev)
    BY <2>1, TableKnown, PruneStop
  <2>3. QED
    BY <2>1, <2>2, WiredLockouts, OwedStep
<1>14. CASE AnnounceKey
  <2>1. UNCHANGED <<img, owner, unsaved, at>> /\ owner[wired.dev] \in WiredKeys
        /\ live' = SetKey(live, wired.dev, owner[wired.dev])
    BY <1>14, NobodyBound DEF AnnounceKey
  <2>2. OnlyRowOf(live', live, wired.dev)
    BY <2>1, TableKnown, KeyStop
  <2>3. QED
    BY <2>1, <2>2, WiredLockouts, OwedStep
<1>15. CASE Crash \/ Boot
  <2>1. live' = EmptyTable
    BY <1>15 DEF Crash, Boot, PersistInv, AtWork
  <2>2. QED
    BY <2>1, NothingLive DEF KeptOrOwed, Owed
<1>16. QED
  BY <1>1, <1>2, <1>3, <1>4, <1>5, <1>6, <1>7, <1>8, <1>9, <1>10, <1>11, <1>12, <1>13, <1>14, <1>15
  DEF PersistNext

\* GuardPersist: a stop that is in force has a row in the image once nothing is left
\* to save, as long as a row of the table has room for every pair; and one that is on
\* flash is on the device, after any restart, rediscovery, rebind, eviction or edit.
THEOREM StopComesBack == ASSUME RowsFit PROVE PersistSpec => []StopSurvives
<1>1. PersistInv /\ StopInv /\ KeptOrOwed => StopSurvives
  <2> SUFFICES ASSUME PersistInv, StopInv, KeptOrOwed PROVE StopIsKeptFor(Keys \ WiredKeys)
    BY FiledIsObeyed DEF StopSurvives
  <2> SUFFICES ASSUME ~unsaved, at = At("top"), NEW d \in Devices, Settled(d),
                      live[d].key \in Keys \ WiredKeys, live[d].lockout
               PROVE  \E x \in DOMAIN img : x[1] = live[d].key /\ img[x].lockout
    BY DEF StopIsKeptFor
  <2>1. Owed(live, img)
    BY DEF KeptOrOwed, At
  <2>2. d \in DOMAIN live /\ owner[d] = live[d].key
    BY TableKnown, GuardTableAssumption DEF Settled, Sound, Keyed, GuardTableAssumption
  <2>3. QED
    BY <2>1, <2>2 DEF Owed, Kept
<1>2. PersistInit => PersistInv /\ StopInv /\ KeptOrOwed
  BY PersistStarts, StopStarts, OwedStarts
<1>3. PersistInv /\ StopInv /\ KeptOrOwed /\ [PersistNext]_persistVars
        => (PersistInv /\ StopInv /\ KeptOrOwed)'
  BY PersistKept, StopKept, OwedKept
<1>4. QED
  BY <1>1, <1>2, <1>3, PTL DEF PersistSpec

=============================================================================
