-------------------------------- MODULE HubParts --------------------------------
(***************************************************************************)
(* Nine parts of a hub, side by side: the coordinator's devices, command   *)
(* slots and permit window, the plants with their history and what they    *)
(* are made of at boot, the entities published over MQTT, the wrappers,    *)
(* the rules, and the membership store.  Each behaviour follows one part   *)
(* and leaves the others where they started: interleaving them would only  *)
(* multiply the states.  The two of plants are the same table at different *)
(* times, each with its own variables.                                     *)
(***************************************************************************)
EXTENDS Naturals, Sequences

CONSTANTS
  Devices, Addresses, Endpoints, MaxRecords, MaxRetries, MaxAnnounces,      \* ZbDevices
  Slots, MaxCommands,                                                       \* ZbCommand
  Callers, Window, Grace, MaxOpens,                                         \* ZbPermit
  Macs, Caps, PlantsMax, LastPlantId, CacheSlots, PlantChanges, MaxTicks,   \* PlantHistory
  Zigbee, EntityCaps, LastPlant, QueueDepth, EntityChanges, MaxReports,     \* MqttPub
  MaxDrops,
  Keys, WrapperSlots, WrapperChanges,                                       \* WrapperStore
  Sensors, RingMacs, NamedMacs, MigrationChanges,                           \* PlantMigration
  RuleSlots, RuleChanges,                                                   \* RulesStore
  Writers, Resetters, MaxCalls,                                             \* SwarmStore
  LastId, MaxReboots, MaxFails, MaxCrashes                                  \* several

VARIABLES
  follows,
  holds, store, queue, iv, ticking, air, astray, raced, joins,
  slot, timer, caller, stack, answers, issued, outcome,
  nvram, stage, formed, relaxed, alarm, network, deadline, callers, calls,
  format, file, table, unsaved, rings, cache, agg, boot, web, sampler, births, tainted, sampled,
  plants, lastId, valid, messages, handler, client, online, sentPlants, sentDevices, task,
  outbox, retained, dropped, published,
  code, meta, wrappers, nextId, pending, index, cached, saving, scan, apart, saved,
  blob, plantFile, plantTable, legacy, names, moved, init, todo, http, before, deleted, behind,
  reverted, early, migrated,
  psrc, psbc, json, rules, nextRule, loading, seen, editing, past, between, stray, ruled,
  ram, nvs, layout, writer, holder, acked, written

Joined == INSTANCE ZbDevices WITH spent <- joins

Command == INSTANCE ZbCommand WITH alarm <- timer, air <- answers

Permit == INSTANCE ZbPermit

Plants == INSTANCE PlantHistory WITH
  LastId <- LastPlantId, MaxChanges <- PlantChanges, spent <- sampled

Entities == INSTANCE MqttPub WITH
  Caps <- EntityCaps, MaxChanges <- EntityChanges,
  queue <- messages, web <- handler, spent <- published

Installed == INSTANCE WrapperStore WITH
  Slots <- WrapperSlots, MaxChanges <- WrapperChanges,
  table <- wrappers, web <- saving, spent <- saved

Migration == INSTANCE PlantMigration WITH
  Macs <- Sensors, MaxChanges <- MigrationChanges,
  file <- plantFile, table <- plantTable, rings <- moved, boot <- init, web <- http,
  unsaved <- behind, tainted <- reverted, raced <- early, spent <- migrated

Rules == INSTANCE RulesStore WITH
  Slots <- RuleSlots, MaxChanges <- RuleChanges,
  table <- rules, nextId <- nextRule, boot <- loading, web <- editing, raced <- between,
  spent <- ruled

Membership == INSTANCE SwarmStore WITH format <- layout, spent <- written

ASSUME HubPartsAssumption ==
  /\ Joined!ZbDevicesAssumption /\ Command!ZbCommandAssumption /\ Permit!ZbPermitAssumption
  /\ Plants!PlantHistoryAssumption /\ Entities!MqttPubAssumption
  /\ Installed!WrapperStoreAssumption /\ Membership!SwarmStoreAssumption
  /\ Migration!PlantMigrationAssumption /\ Rules!RulesStoreAssumption
  /\ RingMacs \cup NamedMacs \subseteq Sensors

deviceVars == <<holds, store, queue, iv, ticking, air, astray, raced, joins>>
commandVars == <<slot, timer, caller, stack, answers, issued, outcome>>
permitVars == <<nvram, stage, formed, relaxed, alarm, network, deadline, callers, calls>>
plantVars ==
  <<format, file, table, unsaved, rings, cache, agg, boot, web, sampler, births, tainted, sampled>>
entityVars ==
  <<plants, lastId, valid, messages, handler, client, online, sentPlants, sentDevices, task,
    outbox, retained, dropped, published>>
wrapperVars ==
  <<code, meta, wrappers, nextId, pending, index, cached, saving, scan, apart, saved>>
storeVars == <<ram, nvs, layout, writer, holder, acked, written>>
migrationVars ==
  <<blob, plantFile, plantTable, legacy, names, moved, init, todo, http, before, deleted, behind,
    reverted, early, migrated>>
ruleVars ==
  <<psrc, psbc, json, rules, nextRule, loading, seen, editing, past, between, stray, ruled>>
zigbeeVars == <<deviceVars, commandVars, permitVars>>
bootVars == <<migrationVars, ruleVars>>
fileVars == <<plantVars, wrapperVars, storeVars, bootVars>>

\* The others' beginnings are pinned where there are several.  What is migrated is
\* sensors with both files, some with a name and perhaps a table that has such a one.
Init ==
  /\ follows \in {"devices", "commands", "permit", "plants", "entities", "wrappers", "store",
                 "migration", "rules"}
  /\ Joined!Init /\ Command!Init /\ Permit!Init
  /\ Plants!Init /\ Entities!Init /\ Installed!Init /\ Membership!Init
  /\ Migration!Init /\ Rules!Init
  /\ follows # "plants" => format = "current"
  /\ follows # "store" => layout = 0
  /\ follows # "entities" => lastId = 0
  /\ legacy = RingMacs \X {"raw", "hourly"} /\ names = NamedMacs
  /\ blob # Migration!NoTable => follows = "migration" /\ blob.plants[1].mac \in NamedMacs

Next ==
  \/ /\ follows = "devices" /\ UNCHANGED <<follows, commandVars, permitVars, fileVars, entityVars>>
     /\ Joined!Next
  \/ /\ follows = "commands" /\ UNCHANGED <<follows, deviceVars, permitVars, fileVars, entityVars>>
     /\ Command!Next
  \/ /\ follows = "permit" /\ UNCHANGED <<follows, deviceVars, commandVars, fileVars, entityVars>>
     /\ Permit!Next
  \/ /\ follows = "plants" /\ UNCHANGED <<follows, zigbeeVars, wrapperVars, storeVars, bootVars, entityVars>>
     /\ Plants!Next
  \/ /\ follows = "entities" /\ UNCHANGED <<follows, zigbeeVars, fileVars>>
     /\ Entities!Next
  \/ /\ follows = "wrappers" /\ UNCHANGED <<follows, zigbeeVars, plantVars, storeVars, bootVars, entityVars>>
     /\ Installed!Next
  \/ /\ follows = "store" /\ UNCHANGED <<follows, zigbeeVars, plantVars, wrapperVars, bootVars, entityVars>>
     /\ Membership!Next
  \/ /\ follows = "migration" /\ UNCHANGED <<follows, zigbeeVars, plantVars, wrapperVars, storeVars, ruleVars, entityVars>>
     /\ Migration!Next
  \/ /\ follows = "rules" /\ UNCHANGED <<follows, zigbeeVars, plantVars, wrapperVars, storeVars, migrationVars, entityVars>>
     /\ Rules!Next

vars == <<follows, zigbeeVars, fileVars, entityVars>>

Spec == Init /\ [][Next]_vars

-----------------------------------------------------------------------------

\* A part that is not followed stays in an initial state, where its property holds.
Of(part, property) == follows = part => property

\* ZbDevices: what a device says is kept under its own name.
OwnUnlessRaced == Of("devices", Joined!OwnUnlessRaced)

\* ZbCommand: a command's outcome is its own.
OutcomeIsItsOwn == Of("commands", Command!OutcomeIsItsOwn)

\* ZbPermit: the link-key exchange is never left off.
RelaxedIsBounded == Of("permit", Permit!RelaxedIsBounded)

\* PlantHistory: a plant's rings hold its own history.  PlantMigration: what was
\* recorded before there were plants is kept, and is its own sensor's.
HistoryIsOwn ==
  Of("plants", Plants!HistoryIsOwn) /\ Of("migration", Migration!LegacyIsKept)

\* MqttPub: no entity outlives what it shows.
NoOrphan == Of("entities", Entities!NoOrphan)

\* WrapperStore: what matches is what is saved.  RulesStore: what runs is what is saved.
SavedIsWhatRuns ==
  Of("wrappers", Installed!MatchesWhatIsSaved) /\ Of("rules", Rules!SavedRuns)

\* SwarmStore: the flash follows the setters' order.
FlashMovesForward == Of("store", Membership!FlashMovesForward)
=============================================================================
