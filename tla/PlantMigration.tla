----------------------------- MODULE PlantMigration -----------------------------
(***************************************************************************)
(* A boot over what an older firmware left (plants/plants.c,               *)
(* plants_migrate.c): the plant table in NVS becomes plants.bin, and each  *)
(* sensor with a name or with ring files under its MAC becomes a plant     *)
(* whose files and name are moved to it.  The web server is up before      *)
(* plants_init(), creates and deletes plants and names sensors meanwhile.  *)
(* The wipe of an old data format, which comes before, is PlantHistory's.  *)
(***************************************************************************)
EXTENDS Naturals, FiniteSets, SequencesExt

CONSTANTS
  Macs,        \* sensors
  PlantsMax,   \* PLANTS_MAX
  LastId,      \* ids the bounds can reach
  MaxChanges,  \* bound: plants created or deleted over HTTP
  MaxFails,    \* bound: file operations that fail
  MaxCrashes   \* bound: restarts

PlantMigrationAssumption ==
  /\ 0 \notin Macs /\ IsFiniteSet(Macs) /\ {PlantsMax, LastId} \subseteq Nat \ {0}
  /\ {MaxChanges, MaxFails, MaxCrashes} \subseteq Nat

VARIABLES
  blob,     \* the table in NVS, NoTable without
  file,     \* plants.bin, NoTable without
  table,    \* s_table: the plants and the next id
  legacy,   \* the ring files under a MAC: <<mac, tier>>
  names,    \* the sensors with a name in NVS
  rings,    \* <<id, tier>>: the sensors whose records the ring file of a plant has
  boot,     \* how far plants_init() is
  todo,     \* what is left of the plan's actions
  web,      \* the web server's task, inside a handler
  before,   \* history: what the older firmware left, and the names given since
  deleted,  \* history: sensors whose plant a user deleted
  unsaved,  \* history: a table write failed and none has succeeded since
  tainted,  \* history: a restart came then
  raced,    \* history: a plant was created before plants.bin was read
  spent     \* changes, failures and restarts so far (bounds)

vars == <<blob, file, table, legacy, names, rings, boot, todo, web,
          before, deleted, unsaved, tainted, raced, spent>>

Ids == 1 .. LastId
Tiers == {"raw", "hourly"}
NoTable == [plants |-> <<>>, next |-> 0]
EmptyTable == [plants |-> [id \in {} |-> [mac |-> 0, named |-> FALSE]], next |-> 1]
WebIdle == [at |-> "idle", id |-> 0]
history == <<before, deleted>>

\* A hub of either age, or one whose migration was cut short by that firmware.
Init ==
  /\ legacy \in SUBSET (Macs \X Tiers) /\ names \in SUBSET Macs
  /\ \/ blob = NoTable
     \/ \E m \in Macs : blob = [plants |-> [id \in {1} |-> [mac |-> m, named |-> TRUE]], next |-> 2]
  /\ file = NoTable /\ table = EmptyTable /\ rings = [f \in Ids \X Tiers |-> {}]
  /\ boot = "load" /\ todo = <<>> /\ web = WebIdle
  /\ before = [legacy |-> legacy, names |-> names, blob |-> blob]
  /\ deleted = {} /\ unsaved = FALSE /\ tainted = FALSE /\ raced = FALSE
  /\ spent = [changes |-> 0, fails |-> 0, crashes |-> 0]

Works == UNCHANGED spent
Breaks == spent.fails < MaxFails /\ spent' = [spent EXCEPT !.fails = @ + 1]

Bound(t) == {t.plants[id].mac : id \in DOMAIN t.plants}

\* persist_table(): the table as it is by now.
Persist ==
  \/ file' = table /\ unsaved' = FALSE /\ Works
  \/ unsaved' = TRUE /\ Breaks /\ UNCHANGED file

-----------------------------------------------------------------------------
(* plants_init() *)

mainOnly == <<web, history, tainted, raced>>

\* load_file(), then load_legacy_nvs_blob(), into the table that others already use.
Load ==
  /\ boot = "load"
  /\ CASE file # NoTable -> table' = file /\ boot' = "scan"
       [] file = NoTable /\ blob # NoTable -> table' = blob /\ boot' = "adopt"
       [] OTHER -> boot' = "scan" /\ UNCHANGED table
  /\ UNCHANGED <<blob, file, legacy, names, rings, todo, unsaved, spent, mainOnly>>

\* plants_adopt_legacy_nvs(): a table that could not be written keeps its key.
Adopt ==
  /\ boot = "adopt" /\ Persist
  /\ boot' = IF unsaved' THEN "scan" ELSE "erase"
  /\ UNCHANGED <<blob, table, legacy, names, rings, todo, mainOnly>>

Erase ==
  /\ boot = "erase" /\ boot' = "scan"
  /\ (blob' = NoTable /\ Works) \/ (Breaks /\ UNCHANGED blob)
  /\ UNCHANGED <<file, table, legacy, names, rings, todo, unsaved, mainOnly>>

\* migrate_scan_ring_files(), migrate_scan_names() and plants_migrate_plan(): a plant
\* for each sensor found that has none, in the order they were found, while there is
\* room.  Nobody else takes away what was found, so the scan and the plan are one step.
Found == {f[1] : f \in legacy} \cup names
Room(t) == PlantsMax - Cardinality(DOMAIN t.plants)
Planned(s) ==
  [plants |-> [id \in DOMAIN table.plants \cup (table.next .. table.next + Len(s) - 1) |->
     IF id \in DOMAIN table.plants THEN table.plants[id]
     ELSE [mac |-> s[id - table.next + 1], named |-> s[id - table.next + 1] \in names]],
   next |-> table.next + Len(s)]

\* What may have to be done for the i-th of the sensors, kind by kind: the plan has one
\* action for each file and each name that is there.
Kinds == <<"raw", "hourly", "name">>
Needed(s) ==
  {a \in (DOMAIN s) \X (1 .. 3) :
     IF Kinds[a[2]] = "name" THEN s[a[1]] \in names ELSE <<s[a[1]], Kinds[a[2]]>> \in legacy}
InOrder(q) ==
  \A i, j \in DOMAIN q : i < j => q[i][1] < q[j][1] \/ (q[i][1] = q[j][1] /\ q[i][2] < q[j][2])
Actions(s) ==
  {[i \in DOMAIN q |-> [what |-> Kinds[q[i][2]], mac |-> s[q[i][1]], id |-> table.next + q[i][1] - 1]] :
     q \in {p \in SetToSeqs(Needed(s)) : InOrder(p)}}
Placed(s) == [i \in {k \in DOMAIN s : k <= Room(table)} |-> s[i]]

Plan ==
  /\ boot = "scan"
  /\ \E s \in SetToSeqs(Found \ Bound(table)) :
       LET placed == Placed(s)
       IN  /\ table.next + Len(placed) - 1 <= LastId
           /\ boot' = IF placed = <<>> THEN "up" ELSE "persist"
           /\ table' = Planned(placed) /\ todo' \in Actions(placed)
  /\ UNCHANGED <<blob, file, legacy, names, rings, unsaved, spent, mainOnly>>

\* Mutant of NotSaved: the plan is carried out all the same.
CarriedOut == "run"

\* A plan that could not be saved stays in RAM, and none of it is carried out.
NotSaved == "up"

\* The table is written before any of the plan is carried out.
PersistPlan ==
  /\ boot = "persist" /\ Persist
  /\ boot' = IF unsaved' THEN NotSaved ELSE "run"
  /\ UNCHANGED <<blob, table, legacy, names, rings, todo, mainOnly>>

\* migrate_rename_one(): a plant's file that is there already is left, and so is the
\* sensor's.
Rename(a) ==
  /\ a.what \in Tiers
  /\ LET f == <<a.id, a.what>> old == <<a.mac, a.what>>
     IN  IF rings[f] # {} THEN Works /\ UNCHANGED <<rings, legacy>>
         ELSE \/ rings' = [rings EXCEPT ![f] = {a.mac}] /\ legacy' = legacy \ {old} /\ Works
              \/ Breaks /\ UNCHANGED <<rings, legacy>>
  /\ UNCHANGED names

ClearName(a) ==
  /\ a.what = "name"
  /\ (names' = names \ {a.mac} /\ Works) \/ (Breaks /\ UNCHANGED names)
  /\ UNCHANGED <<rings, legacy>>

\* migrate_execute_action(), one operation at a time; one that fails stops no other.
Run ==
  /\ boot = "run" /\ todo # <<>>
  /\ Rename(Head(todo)) \/ ClearName(Head(todo))
  /\ todo' = Tail(todo)
  /\ UNCHANGED <<blob, file, table, boot, unsaved, mainOnly>>

Ran ==
  /\ boot = "run" /\ todo = <<>> /\ boot' = "up"
  /\ UNCHANGED <<blob, file, table, legacy, names, rings, todo, unsaved, spent, mainOnly>>

\* Power fails.
Crash ==
  /\ spent.crashes < MaxCrashes /\ spent' = [spent EXCEPT !.crashes = @ + 1]
  /\ table' = EmptyTable /\ boot' = "load" /\ todo' = <<>> /\ web' = WebIdle
  /\ unsaved' = FALSE /\ tainted' = (tainted \/ unsaved)
  /\ UNCHANGED <<blob, file, legacy, names, rings, history, raced>>

-----------------------------------------------------------------------------
(* The web server's task, and the sampler once the hub is up *)

Change == web = WebIdle /\ spent.changes < MaxChanges /\ spent' = [spent EXCEPT !.changes = @ + 1]
webOnly == <<blob, legacy, boot, todo, tainted>>

\* plants_resolve_or_create() for a live sensor without a plant, up to its write: from
\* the moment the mutex is there.
Resolve ==
  /\ Change /\ Room(table) > 0 /\ table.next \in Ids
  /\ \E m \in Macs \ Bound(table) :
       table' = [plants |-> [id \in DOMAIN table.plants \cup {table.next} |->
                   IF id = table.next THEN [mac |-> m, named |-> FALSE] ELSE table.plants[id]],
                 next |-> table.next + 1]
  /\ web' = [at |-> "create", id |-> table.next] /\ raced' = (raced \/ boot = "load")
  /\ UNCHANGED <<webOnly, file, names, rings, history, unsaved>>

\* plants_delete(), up to its write.
Delete ==
  /\ Change
  /\ \E id \in DOMAIN table.plants :
       /\ table' = [table EXCEPT !.plants = [i \in DOMAIN @ \ {id} |-> @[i]]]
       /\ deleted' = deleted \cup {table.plants[id].mac}
       /\ web' = [at |-> "delete", id |-> id]
  /\ UNCHANGED <<webOnly, file, names, rings, before, unsaved, raced>>

\* sensors_rename_post(): a name for a sensor, whether it has a plant or not.
Name ==
  /\ Change
  /\ \E m \in Macs \ names :
       names' = names \cup {m} /\ before' = [before EXCEPT !.names = @ \cup {m}]
  /\ UNCHANGED <<webOnly, file, table, rings, web, deleted, unsaved, raced>>

WebWrite ==
  /\ web.at \in {"create", "delete"} /\ Persist
  /\ web' = IF web.at = "create" THEN WebIdle ELSE [web EXCEPT !.at = "remove"]
  /\ UNCHANGED <<webOnly, table, names, rings, history, raced>>

\* remove_ring_files()
WebRemove ==
  /\ web.at = "remove" /\ web' = WebIdle
  /\ rings' = [f \in Ids \X Tiers |-> IF f[1] = web.id THEN {} ELSE rings[f]]
  /\ UNCHANGED <<webOnly, file, table, names, history, unsaved, raced, spent>>

\* What the sampler records goes to the plant's file, which it makes.  It records what
\* a user has bound, so not for a plant whose creation is still to be answered.
Sample ==
  /\ boot = "up"
  /\ \E id \in DOMAIN table.plants, t \in Tiers :
       /\ web # [at |-> "create", id |-> id]
       /\ rings' = [rings EXCEPT ![<<id, t>>] = @ \cup {table.plants[id].mac}]
  /\ UNCHANGED <<webOnly, file, table, names, web, history, unsaved, raced, spent>>

-----------------------------------------------------------------------------

Next ==
  \/ Load \/ Adopt \/ Erase \/ Plan \/ PersistPlan \/ Run \/ Ran \/ Crash
  \/ Resolve \/ Delete \/ Name \/ WebWrite \/ WebRemove \/ Sample

Spec == Init /\ [][Next]_vars

-----------------------------------------------------------------------------
(* Properties *)

\* The plants of a sensor that plants.bin has by now.
OnFile(m) == {id \in DOMAIN file.plants : file.plants[id].mac = m}

\* Whatever is cut short or fails, nothing of what the older firmware left is lost: its
\* table is in NVS or in plants.bin, and a ring file or name that is not where it was
\* belongs to a plant that plants.bin has, so that no restart gives its id to another.
\* And a plant has only records of its own sensor.  Left out: plants a user deleted, a
\* plant created before plants.bin was read, whose write replaces the file, and, for
\* the records, a restart after a failed write of the table.
LegacyIsKept ==
  ~raced =>
    /\ \A id \in DOMAIN before.blob.plants :
         LET m == before.blob.plants[id].mac IN blob # NoTable \/ id \in OnFile(m) \/ m \in deleted
    /\ \A f \in before.legacy \ legacy :
         f[1] \in deleted \/ \E id \in OnFile(f[1]) : f[1] \in rings[<<id, f[2]>>]
    /\ \A m \in before.names \ names :
         m \in deleted \/ \E id \in OnFile(m) : file.plants[id].named
    /\ ~tainted => \A id \in DOMAIN table.plants, t \in Tiers :
         rings[<<id, t>>] \subseteq {table.plants[id].mac}
=============================================================================
