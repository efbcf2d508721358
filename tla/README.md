# PlantHub: TLA+ models and proofs

PlantHub is the firmware of a plant-care hub (ESP32, C, FreeRTOS, NimBLE). It
listens to BLE sensors, talks to ESP-NOW nodes and to a Zigbee co-processor,
evaluates user rules and drives actuators such as water valves. A valve that
stays open floods a room, so the code that opens and closes things is modelled
first and proved about; the protocols between hub and nodes and the Zigbee side
follow, model-checked and, for their safety, proved; the parts of the hub that
keep something on flash are modelled and model-checked, the membership store
proved too.

All source paths are relative to `src/components/` unless they say otherwise.

## 1. Inventory

| part | state it keeps | operations | hard behaviour | correct when |
|---|---|---|---|---|
| `actors` guard table (`actor_table.c`) | per device: declared actions per endpoint, bounds, cooldown, hourly cap, lockout, the running window | declare, undeclare, prune, configure, lockout, check, record | written by decoder, HTTP and UART tasks under one mutex | guards hold when a command is *sent* |
| `actors` queue (`actor.c`) | one array of at most `ACTOR_QUEUE_MAX` commands, urgent and ordinary | push, pop, expire | checks run before the queue and again after it | safety closes are never lost to ordinary traffic |
| `actors` pending close (`pending_close.c`) | per identity: deadline, retries, alert latch; a file | arm, tighten, service, note result, boot replay | power loss, lost confirmation, device gone, full table | an open valve is always owed a close, on flash too |
| `actors` guard file (`actor_persist.c`) | image in RAM, file, dirty flag | merge, save, load, restore | restore races with requests and the stop button; rows outlive devices | a stop and a spent budget survive a restart |
| `gatt` engine (`gatt_engine.c`, `gatt_fsm.c`) | one attempt, its phase, one timer, three host events, pending request and command | request, start, GAP/GATT callbacks, deadline, teardown, scan retry, done hook | host task, decoder task, timer task; late events | each command answered once and truthfully; scan restored |
| `ble_collector` poller (`battery_poll.c`) | in-flight flag, generation, done queue | tick, connect, callback, watchdog | second owner of the radio, no common lock with the engine | never cancelled by the engine, never leaves the hub deaf |
| `ble_collector` hand-off (`ble_collector.c`) | command in flight, its identity, deferral latch, re-queue slot | loop round, dispatch hook, completion hook, declare/restore, re-index | single-slot latches shared by two tasks | every command ends once; results go to their own device |
| `h2_link`, `swarm_ingest` | registry and actor entries for relayed devices | announce, reading | another task, other order of declare and key | same guards as for BLE devices |
| `rules` (`rules_engine.c`, `rules_fsm.c`, `rules_store.c`, `rules_resolver.c`) | slots with fire state, periodic timers, files | evaluation pass, upsert, delete, enable, test | the pass runs unlocked between snapshot and write-back; presses are consumed per pass | fires once per edge, never inside the cooldown |
| `data_core` | registry of devices and last values, ring of 8 momentary events | submit, peek, consume, find or create | eviction by several producers | a press reaches every rule that watches it |
| `psvm` | none across calls | validate, run | bounds of stack, steps, constants | a validated program cannot leave its stack |
| `swarm` pairing, membership, OTA, battery cycle | node records, session, image offset, retry state, files | frames, timeouts, commit | lost, repeated, late frames; power loss | hub and node agree; an image is whole or not used |
| `zigbee` | command transactions, interview progress, device records | dispatch, confirm, timeout, store | radio callbacks against hub tasks | one verdict per command |
| `wrappers` | arena of programs, index, bindings | upload, delete, bind, run | re-index while devices are bound | no device keeps a stale wrapper |
| `plants`, `storage`, `sampler`, `event_log`, `timekeeper`, `rtc_ds3231` | tables, aggregates, rings, boot table | edit, sample, roll over, persist | power loss in file replacement, unknown wall clock | no history lost or doubled |
| `integrations`, `wifi_manager`, `radio_role`, `webserver`, `claiming`, `app_config` | connections, sessions, configuration | publish, serve, configure | network failure | outside the control core |
| decoders: `bthome`, `mibeacon`, `tuya_dp`, `swarm_codec`, `uart_framer`, `dev_profiles`, `capability` | none | parse | malformed input | pure parsing |

How they interact: an HTTP request, a fired rule or the pending-close service
calls `actor_request*()`, which checks the guard table and pushes on the queue.
The BLE decoder task (`adv_decoder_task`, `ble_collector.c:1272-1391`) makes
rounds; in each it drains the latched result of the last command, services the
pending closes, saves the guard file if dirty, re-queues a command the radio
refused, and, when neither engine nor poller is busy, lets `actor_service()`
pop one command and dispatch it. The dispatch hook arms the obligation of a
timed open, and asks the GATT engine, which runs on the NimBLE host task and
reports through `on_gatt_cmd_done()`. The poller is a third user of the radio.
On a hub without the BLE role `swarm.c:595` calls `actor_service()` and the
dispatch hook of `zigbee/zb_cmd.c` is used instead.

## 2. Modules

| module | models | notes |
|---|---|---|
| `Subsequences` | the entries of a sequence at some of its positions | what `drop_expired()` leaves of the array, without recursion |
| `CommandQueue` | `actor_queue_t`, push, expiry, choice of the next command | operators on a sequence |
| `GuardTable` | `actor_table.c`: add, remove, prune, guards, lockout, check, record, endpoint 0 | operators on a function from device index to row |
| `TwoLaneQueue` | what the queue promises its callers: two FIFO lanes that share a capacity | abstract specification |
| `Actor` | `actor.c` as a state machine over the two above | implements `TwoLaneQueue` |
| `PendingClose` | `pending_close.c` with the hooks of `ble_collector.c` that arm and discharge it | valve and device are environment |
| `GuardPersist` | `actor_persist.c`, the merge and apply of `actor_table.c`, the two declare paths, restart | shares `GuardTable` with `Actor` |
| `GattFsm` | `gatt_fsm.c`: which action follows which event | operators |
| `GattEngine` | `gatt_engine.c`: one operator per handler on a hub record | operators, the NimBLE calls are external |
| `RadioSharing` | engine, host event queue, timer, decoder task and battery poller composed | uses `GattEngine` |
| `CommandPath` | the decoder task's round, queue, dispatch and completion hooks composed with an engine reduced to free, pending, active | uses `CommandQueue` |
| `RulesEngine` | `rules_engine.c`, `rules_fsm.c`, the edits of `rules_store.c`, the press ring of `data_core.c` | one engine task, one HTTP task, producers and timers |
| `Pairing` | `swarm/pairing.c`, the node table of `swarm_store.c`, DELETE of a node | hub, nodes, a broadcast that may be lost |
| `NodeConfig` | the radio role of `swarm.c`, `radio_role.c` | request, answer, restart into the role |
| `Resync` | `espnow_link.c: send_blocking()`, the channel search of `pairing.c` | two tasks of a node on one link |
| `Forward` | `forward_task` and `swarm_buf.c` of a node, `data_core.c` and `registry.c` of the hub | clocks finer than the ages |
| `NodeOta` | `node_ota.c` and `node_ota_recv.c` | hub task, node task, a lossy link |
| `NodeLife` | the two check-in tasks, `batt_cycle.c`, `checkin_task`, image confirmation | the update is reduced to its outcome, `NodeOta` has the transfer |
| `SwarmStore` | `swarm_store.c`: every setter in two phases, the factory reset | cache, flash, two mutexes |
| `ZbDevices` | announces, interview, table and routing of `zigbee.c`, `zb_interview.c`, `zb_store.c` | one handler after the other on the stack task |
| `ZbCommand` | `zb_cmd.c` | two tasks and a spinlock |
| `ZbPermit` | network formation and the permit window of `zigbee.c` | callers, the stack's alarm |
| `PlantHistory` | `plants.c`, `storage.c`, `sampler.c`, `hourly_agg.c`, `data_fmt.c` | one action per file operation |
| `PlantMigration` | the boot of `plants.c` over what older firmware left, `plants_migrate.c` | main task and web server |
| `MqttPub` | `mqtt_pub.c` and the handlers that feed it | four tasks, the client library and the broker as used |
| `WrapperStore` | `wrapper_store.c`, index and arena as the re-index of `ble_collector.c` uses them | two tasks |
| `RulesStore` | the files of `rules_store.c`, their load after a restart | `RulesEngine` has what the engine makes of the table |
| `SwarmParts` | `Pairing`, `NodeConfig`, `Resync`, `Forward`, `NodeOta`, `NodeLife` | six specifications side by side, see section 3 |
| `HubParts` | `ZbDevices`, `ZbCommand`, `ZbPermit`, `SwarmStore`, `WrapperStore`, `RulesStore`, `PlantHistory`, `PlantMigration`, `MqttPub` | nine of them |
| `...Proofs` | lemmas and theorems about the module they are named after; `ActorProofs` also about `GuardPersist`, `CommandPathProofs` about `PendingClose`, `HubFilesProofs` and `PlantFilesProofs` about two parts of `HubParts` each | section 5 |
| `MC...` | instances for TLC | |

### Correspondence

* `Actor`: `table`, `queue`, `dirty`, `now` are `s_table`, `s_queue`,
  `s_guards_dirty` and `actor_now_s()`. `Request` is `request_common()` with
  the clock read before the mutex, so its time stamp may be one second old.
  `actor_service()` is two actions: `Service`, its critical section (expiry, pop,
  second check, charge), and `Dispatch`, the call of the dispatcher after the mutex
  was let go, which looks at no guard again. In between the command is in `hand`,
  and any other task may press the stop button. `recent` (what was charged) and
  `slips` (what was dispatched against a stop) are history.
* `PendingClose`: `rows` is `s_table` (`left` is the time to the deadline, so
  that no absolute clock is needed), `file` the saved rows. `last` is the command
  dispatched last, with the identity `s_cmd_inflight_key` remembers of it, and
  `confirmed` the latch `s_pc_defer_*`. `DispatchOpen`, `DispatchClose` and
  `DispatchOther` are `on_actor_dispatch()` for a timed open, a safety close and
  anything else; `EndCommand` is the completion hook on the host task, which latches;
  `DrainResult` is `service_pending_close_defer()` in the decoder task's next round,
  which goes by the identity remembered *then*; `MayDispatch` keeps the order of the
  round. `ServiceRow(k)` is the body of the service loop for one row. `stale` and
  `excused` are history: the waiting result is not of the last command; the
  obligation was lost in one of the three ways there are. `Save` may fail, `Crash`
  and `Boot` are a restart:
  every loaded row is due at once with a full budget. Its constant, its actions and
  its specification have names of their own (`Identities`, `CloseInit`, ...) because
  `CommandPathProofs` extends it together with `CommandPath`.
* `GuardPersist`: the decoder task's declare, key and restore are steps of
  their own (`BindDeclare`, `BindKey`, `BindRestore`), as are taking the dirty
  flag, merging and saving, because other tasks run between them. The announce
  path has its own three steps. `live` is `s_table` and `unsaved` is
  `s_guards_dirty`: the two are `table` and `dirty` in `Actor`, and have names of
  their own here because `ActorProofs` extends both modules. `durable` (what is on
  flash, kept by `Written`), `pressed` (whose stop button was pressed last, on a
  device nobody was binding) and `stopped` (the rows that reached flash with such a
  stop) are history.
  Where rows share a lockout or new pairs compete for slots, which one comes last or
  first is a choice of the step (`Restores`, `Declares`).
* `GattEngine`/`RadioSharing`: fields of `hub` are listed with their statics at
  the head of `GattEngine`. Handlers run one at a time on the host task.
  `gatt_engine_request_command()`, `gatt_engine_request()`,
  `gatt_engine_service()`, the timer callback and each step of the poller
  interleave with them. `Post` is `ble_npl_eventq_put()`, which ignores an
  event that is already queued. `luck` is the outcome of the NimBLE call that
  the handler makes.
* `CommandPath`: `at` is the program counter in the decoder task's round.
  `inflight`, `requeue`, `defer` are `s_cmd_inflight`, `s_requeue` and
  `s_pc_defer_kind`; `engine` and `poll` are what the two busy tests read.
* `RulesEngine`: `slots` is `g_rules`, `code` the `.psbc` files, `saving` what
  the HTTP task has changed in RAM and not yet written, `pending` the ring's
  unconsumed sequence numbers, `bits` the event group, `at` the engine task:
  its program counter and the private copy it evaluates without a lock. `Wake`
  and `Debounced` are the two reads of the event group, `TakeCopy`, `Evaluate`
  and `WriteBack` the three phases of `evaluate_all()` for one slot, `EndPass`
  the consumption of presses. A producer's write (`Submit`, `Press`) and its
  `rules_notify_value_update()` (`Notify`) are two steps. `past` and
  `at.edited` are history: what a rule did since the user last touched it.

* `Pairing`: `table` is the node table, cache and NVS copy, `peer` the ESP-NOW
  peers, `window` the three statics `s_window_open`, `s_adopt_in_progress` and
  `s_adopt_queue`, `job` the locals of `hub_task`, which is between two calls in
  each of its actions. Its exits with nothing stored are `AckFails` (peer not added,
  answer not encoded, broadcast refused or timed out) and `UpgradeFails`; an answer
  that timed out may be sent all the same, which is what `late` holds and
  `AckArrivesLate` delivers. `leaving` are the nodes to which FORGET is being
  broadcast; the three broadcasts are over before a node that heard one has
  restarted.
* `NodeConfig`: `stat` is the hub's `node_stat_t`, `work` and `flushes` the two
  queues from which NODE_CONFIG is sent, `node` the stored, cached and running
  role. `RadioRoleSet` changes the cache before a write that may fail.
* `Resync`: a send takes the lock, drains the semaphore and takes a ticket in one
  action, waits in the next, and its completion (`OnSend`) may come in any later
  one, also after the wait was given up. A search that fails goes back to the channel
  read when it began (`home`).
* `Forward`: `Second` ticks make a second, so that what whole seconds lose is
  visible. `Unaccounted` is history: by how much the back-dating of a reading may
  be wrong, from where the code loses time; a send that was under way when the
  reading's age was taken is one of the places (`OnItsWay`). `forward_task` does not let the clock
  go on while it has something to send. `hub.saved` is the snapshot on flash:
  `PersistSnapshot` writes it at any time (the sampler's tick), `HubRestart` restores
  it, or nothing when the file is absent or unreadable; a row keeps its values and
  loses the second it was seen in and its frame counter (`Kept`).
* `NodeOta`: `hub.pc` is the place of `node_ota_task`, each half of a pass of the
  streaming loop an action; `gives` are the callers between the mutex and the
  give of `s_park_sem`. Chunks carry an offset and an image but no session, as on
  the air. `Booted` and `NodeCrash` do what the bootloader does with an image on
  trial.
* `NodeLife`: `node.cycle` and `node.task` are the places of the two tasks,
  `node.acks` the queue of one they share, `node.mode` the mode the cycle was
  started with, `node.power` the cached one, `flash.mode` the stored one. A
  restart is part of the action that calls it, `lost` records an image rolled
  back by it and why. Two restarts do not confirm the image first: the one into a
  radio role (`RoleRestart`, `swarm.c:1326`) and the one into the portal (`Unpair`,
  `pairing.c:651`), after which the node is followed no further.
* `SwarmStore`: a field's value is the number of the set that made it. `SetCache`
  is phase 1 of a setter, `CopyCache` and `Write` phase 2 under `s_nvs_mutex`;
  each setter is the list of fields it changes and keys it writes.
* `ZbDevices`: handlers of the stack task are actions, `Hub` is the record they
  pass on. `air` are the callbacks the stack owes, each with the generation it was
  asked under and the device that will answer, which is whoever holds the address
  by then.
* `ZbCommand`: `caller` and `stack` are the two tasks; between the freeing of a
  slot (`Response`) and the cancelling of its alarm (`Resolve`) the other may
  claim it again.
* `ZbPermit`: time left to the alarm, to the end of the window and to the deadline
  count down together in `Pass`. `Open` is the locked part of the call, `Publish`
  the deadline set after it.
* `PlantHistory`: `web` and `sampler` are the places of the two tasks between file
  operations; `births` numbers plants, so that a record can tell two plants of one
  id apart. `tainted` is history: a restart lost a table that could not be
  written, or a wipe left a file.
* `PlantMigration`: `boot` is the place of `plants_init()`, `todo` what is left of
  the plan's actions, a rename or an erased name each. A ring file is the set of
  sensors whose records it has. `before` and `deleted` are history: what the older
  firmware left, and what a user gave away; `raced` that a plant was created in the
  table `load_file()` then overwrote.
* `MqttPub`: an action of `task` is one published entity; bindings are read where
  the code reads them, once per plant and once per pass over the devices. `outbox`
  are QoS-1 messages the client keeps over a lost connection.
* `WrapperStore`: `code` and `meta` are the two files of a wrapper, `scan` the
  re-index between two directory entries, in any order, `cached` the arena.
  `FirstLoad` is the load of `ble_collector_start()`, which `main.c` calls after
  `webserver_start()`: until then requests find an empty table and first ids.
* `RulesStore`: `psrc`, `psbc` and `json` are the three files of a rule, by id; their
  content is the number of the save that wrote them. `web` is the place of the one
  request under way between file operations, `LoadOne` one entry of the directory
  scan, which holds no lock. `past` is history: what the user was told is saved.

Operators whose comment calls them a mutant are not used by any
specification: each is a plausible slip in the definition after it and serves
to show that a property would notice it.

## 3. Runs

| run | asks | bounds and why they are enough |
|---|---|---|
| `MCActor` | are cooldown and cap obeyed when a command is charged; how many commands slip past a stop; is a safety close ever lost; does the array implement two lanes | one device, one action on two endpoints, queue of 2 (full and overflowing), 3 requests, window 2 s, clock to 4 s: two windows, so the seam between fixed windows is reached |
| `MCPendingClose` | is an open valve always owed, on flash too, but for three named cases; is giving up honest; is the operator told | 2 identities, table of 2, 1 known device at a time (so the other is unreachable), 2 retries, 2 commands besides the safety closes (an open and the next command, so that a result is drained under it), 1 power loss, failing file writes. The table never fills here; with a table of 1 and 3 commands it does, with the same result (217 thousand states), and the theorems are about any size |
| `MCGuardPersist` | do a stop and a spent budget survive restarts, re-discovery, wrapper edits, eviction and failed writes (`StopSurvives` in two parts: a stop in force has a row once nothing is left to save, and a device that is back has the stop its row on flash was written with) | a BLE and a wired identity, 2 registry indices, one table row and one file row, so presence of one evicts the other; 1 power loss, 3 presses (a third is what it takes to press a stop while the device is bound again, which `StopSurvives` does not count), cap 1 |
| `MCGuardPersistWired` | the same stop for a wired device | one wired identity |
| `MCRadioSharing` | one truthful answer per command, one write, no orphan link, scan restored, every command answered | one read plan, a confirmed and a malformed command, one poll, one scan retry: every pair of users meets in every order, and each ATT operation, connect and timer may fail |
| `MCRadioSharingDecode` | an argument made in a comment of the engine | no poll, two commands, one read |
| `MCCommandPath` | is every accepted command ended exactly once; is what is open owed | two devices, queue of 2, 4 commands: one in flight, one re-queued, two waiting |
| `MCRulesEngine` | do fires keep the cooldown and the edge; is a fire counted for its own rule; is a press or a wake-up lost | one slot, 2 edits and 2 writes, ring of 2, clock 1..2, cooldown 1: the slot is deleted and reused under a copy, a press arrives in every phase of a pass, and a rule may fire, be refused and (a second later) fire again |
| `MCNodeLife` | does a node stay findable without its hub; does it settle in the wanted mode | two modes, 2 failed wakes to the fallback, 1 retry on trial, 1 mode change, 1 update, 2 frames lost, 1 failed write, 1 crash, 1 outage, 1 change of role: each may fall between any two others |
| `MCSwarm` | do hub and node keep one key; is DONE true of the flash; is a send's result its own; by how much can the registry regress; is a booted image whole, a finished update installed, an abort heard; does a node roll its own good update back | adoption: 2 nodes, a table of 1, 2 keys, 2 sweeps, 2 windows, 1 fault (a restart, a failed or late answer, a failed upgrade or write; the theorem has any number); role: queues of 1, numbers modulo 3, so that they wrap; link: 2 tasks, 2 channels, 2 sends; readings: 2 sensors, half seconds, 6 ticks, readings dropped from 2 s on; a send takes at most `s_send_wait_ms`, 200 ms, less than the half second of a tick, so no tick (the theorem has any length); update: 2 sessions of 2 chunks, the second parked, 1 restart; power mode: as in `MCNodeLife`, 1 change of role |
| `MCHubParts` | is what a Zigbee device says kept under its name; is a command reported once for itself; is the key exchange never left off; is a plant's history its own; does no entity outlive its source; is what matches, and what runs, what was saved; does the flash only move forward | 2 devices over 2 short addresses, 2 announces; 2 slots, 4 commands; window 3, grace 1, 3 opens; 2 ids, 2 ticks of the sampler, 1 crash, 1 failure; 2 devices, 1 plant, queue of 2; 3 keys, 2 slots, 3 saves; 2 writers, 2 calls; migration: 2 sensors (one with both files, one with a name and perhaps a plant in NVS), room for 2 plants, so that one created meanwhile takes the room, 2 changes, 1 failure, 1 crash; rules: 2 slots, 4 requests, so that a slot and an id come round again, 1 failure, 1 crash |
| `MCRulesEngineTwice` | does a press fire a button rule once | a button rule with a timer, no edits, clock 1..3 |

`SwarmParts` and `HubParts` put specifications that share no state side by side:
`follows` says, from the start, which one a behaviour belongs to, and the others
stay where they began. An interleaving of two of them would reach no state of
either that it does not reach alone, and the sum of the state spaces stays in
reach where their product would not. Where parts do interact one specification
has both: `CommandPath`, `RadioSharing`, `GuardPersist`, `NodeLife`, `MqttPub`.

Instances larger than those of the runs have been checked on their own, with the
same result: `NodeOta` with two silent passes of the drain (2.1 million states),
`WrapperStore` with 4 ids and 4 changes (3.0 million).

Deadlock checking is off in all of them: the models' counters
(`MaxRequests`, `MaxDispatched`, `MaxCrashes`, `MaxPresses`, `MaxReads`, `MaxPolls`,
`MaxCommands`, `MaxWrites`, `MaxEdits`, `Horizon`, and in the later modules every
constant whose comment says "bound") let the environment run out of things to ask, after
which stopping is right. That nobody waits for ever is stated as a property
instead (`CommandIsAnswered`, `NeverSilent`, `ScanNeverLost`). Bounds stand
only in guards of environment actions, never in those of the program, except
`MaxInflight` in `PendingClose`, which keeps at most one close of a device in the
command queue.

Runs that expect a violation show a claim of a comment or a header that the
code does not keep; `PROJECT.json` quotes each under `findings`:

1. `WiredStopSurvives`: the announce path never restores the saved guards.
2. `DecodeIsForItsReader`: a command may start between the end of a read and
   its decode, and replaces buffer and address under it.
3. `PressFiresOnce`: a periodic pass sees a pending press, fires on it and
   leaves it pending; the next full pass fires on it again.

Passing properties are stated around the single case found where the code
disagrees with what one would like to say. The cases, each under `hazards` with
its line, have no run of their own:

* a stop pressed after a command was charged does not stop that command
  (`StopLetsOneThrough` allows for the one);
* a full table of obligations drops one more, and power may go before a write of
  the file has succeeded (`excused` in `OpenHasObligation` and `OpenIsOnFlash`);
* a stale deadline can end the next attempt at once (`OkMeansWritten` holds);
* a close's result that arrives between the drain and the busy test of a round
  is drained under the next command (`OwedUnlessRaced`, and `excused` again);
* a stop pressed between a device's declare and its restore (`StopSurvives`
  speaks of BLE devices and of stops pressed outside that step);
* DONE is answered from a cache after a write that failed
  (`DoneIsPersistedOrFailed`), and a mode that could not be written strands an
  always-on node (`Stranded` in `ModeSettles`);
* a dismissal that could not be written, a window opened while an adoption is
  under way, which lets a repeated request in behind the answer, and a request
  repeated on the same sweep while an answer the hub gave up on may still be heard
  (`KeysAgree` leaves out the nodes these have happened to, `doubled`);
* a node that restarts into a radio role, or into the portal, with an image on trial
  (`NeverRollsItselfBack` allows for the two);
* a registry that goes back by what the age leaves out: time in the buffer, and
  time on the way, which counts when a sensor is heard again before an earlier
  reading of its own has arrived; and, after a restart, by what a reading's age
  exceeds the hub's uptime, because restored values have lost their times
  (`RegressIsBounded` allows for these);
* a former owner's join that writes a reused short address back
  (`OwnUnlessRaced`);
* a plant's id given out twice after a table write that failed, or files a wipe
  could not remove (`tainted` in `HistoryIsOwn`);
* a clean-up message dropped by a full queue (`dropped` in `NoOrphan`);
* wrapper ids that start from 1 again while a scan runs: what matches is still
  what is saved, but a wrapper may have been overwritten; the same for a rule
  created while the rule files are read (`raced` in `SavedRuns`, against "never
  reused", `rules_store.c:4`);
* a plant created over HTTP before `plants.bin` is read, which the file replaces or
  which replaces the file (`raced` in `LegacyIsKept`);
* a migration that could not be saved is not tried again once anything else saved
  the table, so its files stay where they are, against `plants.c:757-759`; and a
  name, "purely cosmetic" (`api_v1.c:1902-1903`), makes a plant of its sensor at the
  next boot and is erased then (`LegacyIsKept` holds in both cases).

## 4. Fairness

* `CloseFairSpec` of `PendingClose`: time passes, the latched result is drained, and the
  service loop visits each due row. The decoder task polls every 20 ms for as long as the hub is up
  (`ble_collector.c:1272-1391`), the loop visits every row in each visit. No
  fairness on the device appearing, on a close succeeding, or on a restart.
* `RadioSharing!FairSpec`: the host task handles its queue and an armed timer
  expires. No fairness on the peer, on NimBLE's events, on the poller or the
  decoder task: a peer that never answers is the case the deadlines are for.
* `NodeLife!Spec`: the two tasks of the node go on, `health_confirm_task` and the
  hub's `checkin_task` run, and an update session ends at the latest by its total
  timeout. No fairness on a delivered reading, on frames arriving, on the operator
  or on the hub being there: `HubGoneEndsAlwaysOn` and `ModeSettles` say in their
  premise which of the two they are about, and lost frames are bounded.

## 5. Proofs

The theorems hold for every value of the constants that the modules' named
assumptions allow. Where a module is composed by `INSTANCE`, the composing
module's assumption is the conjunction of theirs (`SwarmPartsAssumption`,
`HubPartsAssumption`). Beyond typing, what they ask for is that a reading's age
is dropped no later than the hub would drop it (`MaxAge < AgeLimit` in `Forward`),
that lists of an update, queue and counter moduli are not empty or zero, and in
`PendingClose` that tables and budgets are not empty. `StopComesBack` of `GuardPersist`
assumes `RowsFit`, that a full hub's rows fit the persisted table.

`ActorProofs`, which begins with lemmas on the operators of `GuardTable`, what each
operation leaves of the other rows, slots and guards:

* `StopIsObeyed`: `Spec => []StopLetsOneThrough`. The invariant `SlipInv` says that a
  device under a stop has let nothing through as long as the service task still
  holds one of its rule or remote commands. The task charges nothing more for it
  after the press, because it looks at the row in force, and holds one command at a
  time; every operation on the table is shown to leave the stops of other devices
  alone (`AddKeepsLockout`, `SlotKeepsLockout`, ...).
* `CooldownHolds`: `Spec => []CooldownSpacing`. Not inductive by itself: the
  inductive invariant `SpacingInv` relates the history to the slot's own
  bookkeeping (the last activation the slot remembers is the newest entry of the
  history, and no entry lies in the future), so that a passed cooldown check speaks
  about all earlier sends.
* `BudgetRolls`: `Spec => []RollingBudget`. `BudgetInv` splits a pair's limited
  sends at the start of its window: those before it were once counted by an
  earlier window and are at most the cap, those since are at most the counter. A
  counter that saturates has reached every cap. Twice the cap is excluded because
  the first send of a window is itself limited or finds the old part aged.
* `LanesImplemented`: `Spec => Lanes!Spec`, the refinement, with the lanes read off
  the array by position. Two `SelectSeq` would be defined by recursion; `Selected`
  of `Subsequences` is a function of ranks instead, and six lemmas say what the
  queue's operators do to it: selecting twice, without one entry, without the
  first, with one more, and that what walks the positions in order is the
  selection. Then expiry and lanes commute, giving up the first entry of a lane is
  taking its tail, and each step of `Actor` is a step of the lanes or stutters.

* `BudgetNotRefunded`: `PersistSpec => []NeverRefunded`, of `GuardPersist`. What is
  wanted relates the live table to flash, and neither is ever compared with the
  other: the image lies between them. `PersistInv` therefore says that what flash
  has is in the file (`FileHolds`), that the image has seen no less spent than flash
  (`ImageHolds`), and that a device has spent no less than the image says
  (`LiveHolds`), except the one the decoder task is about to bind, whose counts are
  only restored in the third of its steps (`AtWork`). The step that is hard is the
  merge: it writes the counts of the device that carries an identity, which is one
  device because an identity has one index (`OneIndexEach`, `Keyed`), and it gives up
  a row of a device that is here only when no row of an absent one is left
  (`RoomMade`). Where rows of one device compete for the slots, a restored count is the image's or
  what the slot had already (`RestoresFacts`).

* `StopComesBack`: `PersistSpec => []StopSurvives`, if a row of the table has room for
  every pair (`RowsFit`). `StopInv`, next to `PersistInv`, says of the stop what
  `PersistInv` says of the budget: a row that reached flash with a stop has it there
  and in the image (`StoppedRows`), and a device whose button is pressed and that has
  a stop in the image is stopped, but for the one that is being bound (`StopsHeld`).
  The lockout belongs to the device and is saved with each of its rows, and a restore
  takes that of whichever row comes last: so the rows of a BLE device agree
  (`Alike`), which a merge keeps because a row of a device that is here is either
  written from the table or given up (`HereIsLive`). `StopInv` needs no hypothesis,
  and gives the second half of `StopSurvives` alone (`FiledIsObeyed`).
  The first half is `KeptOrOwed`: a stop in force is in the image, or the flag is up,
  or the merge is next. There the merge must write every live row (`MergeAll`): the
  rows of the devices that are here are at most `MaxDevices * MaxActions`
  (`HereFits`), so that a full image has a row of an absent device for each one that
  is missing. This is the argument of `actor_table.c:573-580`, and `RowsFit` is what
  it leaves unsaid: rows of a present device for endpoints it no longer declares
  count as live. With 8 slots and four actions it holds for up to two gangs. With two
  endpoints and one slot TLC refutes `StopSurvives`: a wired device that was
  announced on one endpoint and later on the other fills the file.

`RadioSharingProofs`, all five safety properties of the run (`ReportedOnceAlways`,
`OkIsTrue`, `ScanComesBack`, `PollerIsSpared`, `EveryLinkIsClosed`), from one
invariant:

* `Core` says of the hub, between any two handlers, who has the radio (`RadioOk`),
  that the phase agrees with the attempt (`PhaseOk`), that a command under way is
  the one whose entry is in the buffer and has landed when its machine has nothing
  left to write (`TakenOk`), and what has been reported (`ReportsOk`). It is shown
  operator by operator, from the bottom of `gatt_engine.c` upwards: the calls of
  the stack, the ending of an attempt, the driving of the state machine, the
  posted events, the callbacks; and only then for the steps of the tasks.
* `Listens`, that an idle radio scans, does not hold within a handler. It is
  restored by whatever ends an attempt, and between the poller's stop and its
  connect the poller is the one that owes it.

`CommandPathProofs`:

* `NothingLost`: `NothingVanishes`. An accepted command is in one of four places,
  queue, re-queue slot, engine, ended (`Shared`), and the ids of the four are the
  first `accepted` numbers. First come lemmas on what push, displacement, expiry
  and removal do to a sequence whose commands have distinct ids.
* `OpenedIsOwed`: `OwedUnlessRaced`. As long as nothing raced, a kept result is
  that of the last dispatch and is drained before the next one, and what it
  confirms is not open.
* Of `PendingClose`: `TypeCorrect`; `ObligationKept` (an open valve is owed);
  `ObligationDurable` (and it is on flash when the last write succeeded);
  `ReportedBudgetIsSpent`; `BootStartsOver`. The first two need no room in the table:
  what is lost is counted in `excused`, and the theorems say that there is no fourth
  way. Their invariant `Kept` relates `rows` and `file` through the `failed` flag,
  and says of a latched result that, unless another command was dispatched over it,
  its device is closed. `ReportedBudgetIsSpent` goes by an invariant that ties the
  retry count of a row to the history of tries.

`RulesEngineProofs` (any number of slots, ring size, settings and
cooldowns), every property the run `MCRulesEngine` checks:

* `Sound` (types and identities) is inductive and under all the others: ids are
  drawn in order and no two slots share one, which is why a write-back by id
  meets the rule its copy was taken from or none.
* `CooldownKept`, `EdgeKept`: `Spec => CooldownSpacing`, `Spec => EdgeNeedsFall`.
  The properties speak of the history, the decision is made on a copy taken two
  steps before, so the inductive invariant `Remembered` says that the fire state
  in a slot, and the one in the copy, agree with the history: the slot's unless
  the engine holds a newer one it has not written back, the copy's unless the
  rule was edited meanwhile, in which case there is no history to agree with.
* `CountsKept` needs `Sound` and that ids not yet drawn have no history.
* `WakeupKept`: `NoLostWakeup` is inductive by itself, given the types. The step
  that carries it is `Debounced`, which clears the wake bit a second time: the
  pass that follows peeks after it.
* `PressShown`: a press still owed to a rule implies (`Owes`) that the rule is
  enabled, watches the button and is not between RAM and flash, and that a full
  pass which will consume the press has not come to the rule's slot yet.
* `TypeCorrect`: from `Sound` and that no fire state is ahead of the clock.

`SwarmPartsProofs`, every safety property of `MCSwarm`. Each part has an inductive
invariant over its own state, and the last section carries it to the behaviours
of `SwarmParts`:

* `KeysKept` (`KeysAgree`): `AdoptionInv` follows a key through the window's queue,
  the job and the air. `OneAdoption` is the heart: while a node's request waits it
  holds no key and nobody answers it, and while it is answered it holds at most the
  key of the answer. `LateIsAlone` says the same of an answer the hub gave up on:
  while its node would take it, nobody else is about to give that node a key. That is
  what the excepted nodes break.
* `DoneRolePersisted` (`DoneIsPersistedOrFailed`): `NobodyAhead`, until the role is
  stored neither the node's cache nor an answer under way nor the hub has it.
* `OkIsOwnAlways` (`OkIsOwn`): tickets issued and not completed are the driver's
  frames (`InOrder`), and who waits has the last ticket (`OwnTicket`), so that a
  status is its own frame's exactly when the driver has none left.
* `RegressKept` (`RegressIsBounded`): the age of a reading is never ahead of the
  clock (`Behind`) and behind it by no more than is accounted for (`Caught`),
  through every wait, buffer and retry; `RegistryWell` carries that over the
  back-dating into the registry, and `SavedWell` over the snapshot, whose rows are
  within their error of the newest reading they knew of. The property was first stated without the time a
  send takes, and held in the run only because that was one tick: in the attempt to
  prove it for every length the counterexample came up, and `OnItsWay` with it.
* `WholeImages`, `TruthBelieved`, `ParkedIsReached` (`NeverBootsMixed`,
  `HubBelievesTruth`, `AbortReachesParked`): `UpdateInv` says which sessions the
  frames and reports under way can be of (`GoodFrames`, `GoodReports`), that only
  the session that is being received writes the partition, and that the mark is set
  on an image that is whole.
* `ConfirmedBeforeSleep` (`NeverRollsItselfBack`): `SleepsConfirmed`, a node that
  is asleep has confirmed its image. Most steps leave that alone (`AwakeStep`);
  `ObeyMode` and `Account` have to confirm before they go to sleep. `Wake` then finds
  nothing on trial, and of the other restarts of the node's own only the two into a
  role and the portal may.

`HubPartsProofs`, in the same form, five of the properties of `MCHubParts`:

* `ExchangeIsRequiredAgain` (`RelaxedIsBounded`): while the exchange is off the
  alarm is no later than the network's closing, or within the grace.
* `OutcomeIsOwnAlways` (`OutcomeIsItsOwn`): `SlotsHeld` ties a slot in use to its
  command and its alarm, `AlarmsHeld` an alarm that outlived its command to the
  handler about to cancel it, while nothing is sent from that slot; `Accounted`
  says where a command is until it is reported.
* `FlashNeverGoesBack` (`FlashMovesForward`): a setter's number is in the cache or
  overtaken there until written (`SetHeld`), and the one copy being written lies
  between flash and cache (`CopyHeld`).
* `OwnNameKept` (`OwnUnlessRaced`): as long as nobody has lost an address under a
  join, every record, join, interview and answer has an address only its own device
  holds (`EachItsOwn`); a stale answer is told by its generation.
* `NoEntityOutlives` (`NoOrphan`): what the broker shows is bound (a plant's) or free
  (a device's), or its clearing is with the client, or the message that leads to it
  is `Owed`: queued, about to be, or dropped (`PlantsShown`, `DevicesShown`). The
  publisher looks before it publishes; `PlantsAhead` and `DevicesAhead` say the same
  of what it looked up: the message that it is stale by now cannot have been taken,
  because the task that would take it is the one that publishes. Assumed of the
  capabilities is that they are finitely many numbers.

`HubFilesProofs` and `PlantFilesProofs`, of the same run (modules of their own only
because of their length):

* `WhatIsSavedRuns` (`SavedIsWhatRuns`), one inductive invariant for each of its two
  halves. `WrapperInv`: an index entry leads to a wrapper with the key, a file that is
  not indexed is still to be read (`FilesHeld`), a cached copy is the file's
  (`CacheHeld`), or else a re-index is requested, about to be, or was given up with
  the save. `RulesInv`: `FilesOwed` says which saves the three files of a rule may be
  of at any step of an upsert or a deletion, `RowOwed` the same of its row in RAM,
  and `InHand` how far the request has come. That a rule which was saved is in the
  table again after a restart is a matter of room: `Fits` counts the files not yet
  read against the free slots, because a deletion frees the slot before the file,
  and a file that could not be removed (`stray`) is what breaks it. `Numbered` keeps
  the ids apart, which is why a rule created during the load is left out (`raced`).
  The rules' part assumes of `RULES_MAX` that it is finite.
* `RecordedOfItself` (`HistoryIsOwn`), again one invariant for each half.
  `HistoryInv` relates a table of plants to the ring files, the hours and what the
  sampler has in hand (`IsHistory`): what an id holds was measured at the plant that
  has it (`IsOwn`), and of ids not yet given out there is nothing (`IsFresh`). The
  property needs this of the table in RAM only; it is inductive because plants.bin,
  from which the next boot continues, has the same as long as no table write has
  failed. For that a plant plants.bin does not know must be one nothing is recorded
  of: it is being written by the sampler itself, or by the web server with nothing
  bound to it yet (`BeingWritten`), and a plant whose files are removed is in
  neither table (`Removes`). A record in hand must be in the same column of both
  files before it is written to either: `InHandOf` says what the map of the raw file
  has when the hourly one is asked. `MigrationInv` says where everything the older
  firmware left is at any step of the boot: still there, or with the plant of its
  sensor in plants.bin (`BlobHeld`, `RingsHeld`, `NamesHeld`), and what is left of
  the plan is about plants that plants.bin has when it is carried out (`PlanHeld`).
  Assumed of the sensors that left files is that they are finitely many.

What is only model-checked:

* liveness (`NeverSilent`, `CommandIsAnswered`, `HubGoneEndsAlwaysOn`,
  `ModeSettles`): it needs ENABLED, which is out of the prover's reach.

## 6. Not modelled

* Payload bytes of plans and actions, readings, names, logging.
* The BLE poller's schedule, advertisement parsing, GATT back-off per device
  (`gatt_sched.c`).
* Of the rules: in `RulesEngine` a restart (the table is loaded at `Init`;
  `RulesStore` has the restart and leaves out the fire state), the test
  endpoint, the alert drain, and a timer callback that is under way while its
  rule is deleted. A rule watches one reading or one button, so that a
  condition over several is one truth value.
* `Pairing`: the portal and the captive page, the country code, the search
  timeout as a time. `NodeConfig`: roles other than the two a paired node can
  have stored.
* `NodeLife`: the wake counter; a check-in period (300 s) is taken to be longer
  than the wait for an answer (2 s); an update is refused while the image is on
  trial, as `esp_ota_begin()` does.
* `NodeOta`: that a transfer ends well on a good link (liveness), chunk sizes and
  digests as numbers; session ids are taken to be distinct.
* `SwarmStore`: a setter that refuses its argument changes nothing and is left
  out; node names other than as a field of the table.
* `ZbDevices`: a save of the table that fails, the knob's rotation, reporting
  set-up. `ZbCommand`: the wrap of the 8-bit sequence number while an answer is
  under way, the payload. `ZbPermit`: radio arbitration with Wi-Fi.
* `RulesStore`: the lengths of source and bytecode, a meta file that cannot be
  parsed, a file that is read while it is written.
* `PlantMigration`: what a name says, a table whose file cannot be read, more than
  `MIGRATE_MAX_INPUTS` sensors, what the web server does between the scan and the
  plan (they are one step), the two removals of a deleted plant apart.
* `PendingClose`: a close the radio was too busy for is re-queued in `CommandPath`
  only.
* `Forward`: what a snapshot row says of endpoints, and the snapshot's CRC.
* `PlantHistory`: a `plants.bin` that cannot be read (the code then starts with an
  empty table and id 1), `plants_resolve_or_create()` from the MQTT task, the limit
  on columns, positions in a ring and what leaves it, a data format from the
  future, an NVS that cannot be opened.
* `MqttPub`: event messages, state topics, the throttle's and the renames'
  timing (nondeterministic), `cleanup_device` (it has no caller), a restart of the
  hub; what was sent of a plant is kept by id.
* `WrapperStore`: the `enabled` flag, match counts and errors, the source file,
  the arena's capacity and eviction, the memo and the binding of a device, a
  directory that cannot be opened, the 16-bit wrap of ids.
* Every component with status `not_modelled` in `PROJECT.json`, with its reason.

## 7. Plan

1. The alert ring; the settings a hub replays to a node.
2. `Psvm`, `EventRing`, `BootTab`: pure algorithms as recursive functions against
   reference definitions.
