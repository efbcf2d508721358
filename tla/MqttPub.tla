--------------------------------- MODULE MqttPub ---------------------------------
(***************************************************************************)
(* The entities a home-automation broker shows for this hub                *)
(* (integrations/mqtt_pub.c): a capability that a plant has bound appears  *)
(* in the plant's form, any other in its device's form, as retained        *)
(* messages that stay with the broker until they are cleared.  Four tasks  *)
(* meet: the web server's, which binds and deletes and queues what to      *)
(* clear, the event loop's, which queues the readings, the client's, which *)
(* connects, and the publisher's, which alone publishes.                   *)
(***************************************************************************)
EXTENDS Naturals, Sequences, FiniteSets, SequencesExt

CONSTANTS
  Devices,      \* devices of the registry, numbers
  Zigbee,       \* those that are not BLE, which have no plant of their own
  Caps,         \* capabilities, numbers
  LastPlant,    \* PLANTS_MAX, or the last id if that is less
  QueueDepth,   \* MQTT_PUB_QUEUE_DEPTH
  MaxChanges,   \* bound: changes by the user
  MaxReports,   \* bound: readings
  MaxDrops      \* bound: lost connections

MqttPubAssumption ==
  /\ 0 \notin Devices /\ Zigbee \subseteq Devices
  /\ Caps \subseteq Nat /\ IsFiniteSet(Caps)
  /\ {LastPlant, QueueDepth} \subseteq Nat \ {0}
  /\ {MaxChanges, MaxReports, MaxDrops} \subseteq Nat

VARIABLES
  plants,     \* the plants table: id -> its probe (0: none) and what it has bound
  lastId,     \* the id given out last
  valid,      \* registry: the <<device, capability>> reported so far
  queue,      \* s_queue
  web,        \* messages the web server's handler has still to queue
  client,     \* the client's task: "down", "lost", "connected", "reset", "up"
  online,     \* s_mqtt_connected
  sentPlants, \* s_discovery_sent, of the plants whose slot it is
  sentDevices,\* s_device_disc_sent
  task,       \* the publisher's task
  outbox,     \* clearings the client still has to deliver
  retained,   \* the broker's retained entities
  dropped,    \* history: a message of the web server's was dropped
  spent       \* changes, readings and lost connections so far (bounds)

vars == <<plants, lastId, valid, queue, web, client, online, sentPlants, sentDevices, task,
          outbox, retained, dropped, spent>>

Ids == 1 .. LastPlant
PlantForm(p, c) == <<"plant", p, c>>
DeviceForm(d, c) == <<"device", d, c>>
Idle == [at |-> "idle", of |-> 0, caps |-> {}, plants |-> {}, devs |-> {},
         covered |-> {}, valid |-> {}]

\* The hub starts with no plant, or with one that has nothing bound.
Init ==
  /\ lastId \in {0, 1} /\ plants = [id \in 1 .. lastId |-> [mac |-> 0, dev |-> [c \in Caps |-> 0]]]
  /\ valid = {} /\ queue = <<>> /\ web = <<>>
  /\ client = "down" /\ online = FALSE /\ sentPlants = {} /\ sentDevices = {}
  /\ task = Idle /\ outbox = <<>> /\ retained = {} /\ dropped = FALSE
  /\ spent = [changes |-> 0, reports |-> 0, drops |-> 0]

\* The client's session is alive: what is published now reaches the broker.
Alive == client \in {"connected", "reset", "up"}

\* cap_bound_by_plant(), of the plants as they are now.
Covered ==
  {e \in Devices \X Caps : \E id \in DOMAIN plants : plants[id].dev[e[2]] = e[1]}

-----------------------------------------------------------------------------
(* The web server's task *)

webOnly == <<valid, queue, client, online, sentPlants, sentDevices, task, outbox, retained, dropped>>

Change == web = <<>> /\ spent.changes < MaxChanges /\ spent' = [spent EXCEPT !.changes = @ + 1]

\* plants_table_create(): the next id.
WithPlant(mac) ==
  [id \in DOMAIN plants \cup {lastId + 1} |->
     IF id = lastId + 1 THEN [mac |-> mac, dev |-> [c \in Caps |-> 0]] ELSE plants[id]]

Create ==
  /\ Change /\ lastId < LastPlant
  /\ plants' = WithPlant(0) /\ lastId' = lastId + 1
  /\ UNCHANGED <<webOnly, web>>

\* plants_bind_post() with a capability and a device, which replaces what was bound.
Bind(id, c, d) ==
  /\ plants' = [plants EXCEPT ![id].dev[c] = d]
  /\ web' = <<[type |-> "cap bound", dev |-> d, cap |-> c, plant |-> id]>>

\* With a capability alone: it is unbound.
Unbind(id, c) ==
  /\ plants' = [plants EXCEPT ![id].dev[c] = 0]
  /\ web' = <<[type |-> "cap unbound", cap |-> c, plant |-> id]>>

\* With a device alone: all it reports, and a message of each, in their order.
BindDevice(id, d) ==
  LET reported == {c \in Caps : <<d, c>> \in valid}
  IN  /\ reported # {}
      /\ plants' = [plants EXCEPT ![id].dev = [c \in Caps |-> IF c \in reported THEN d ELSE @[c]]]
      /\ \E order \in SetToSeqs(reported) :
           /\ \A i, j \in DOMAIN order : i < j => order[i] < order[j]
           /\ web' = [i \in DOMAIN order |->
                        [type |-> "cap bound", dev |-> d, cap |-> order[i], plant |-> id]]

\* plants_delete_delete().
Delete(id) ==
  /\ plants' = [i \in DOMAIN plants \ {id} |-> plants[i]]
  /\ web' = <<[type |-> "plant deleted", plant |-> id]>>

Edit ==
  /\ Change
  /\ \E id \in DOMAIN plants :
       \/ \E c \in Caps, d \in Devices : Bind(id, c, d)
       \/ \E c \in Caps : Unbind(id, c)
       \/ \E d \in Devices : BindDevice(id, d)
       \/ Delete(id)
  /\ UNCHANGED <<webOnly, lastId>>

\* mqtt_pub_plant_deleted(), mqtt_pub_cap_unbound(), mqtt_pub_device_cap_bound(): a
\* full queue drops what they bring.
Tell ==
  /\ web # <<>> /\ web' = Tail(web)
  /\ IF Len(queue) < QueueDepth
     THEN queue' = Append(queue, Head(web)) /\ UNCHANGED dropped
     ELSE dropped' = TRUE /\ UNCHANGED queue
  /\ UNCHANGED <<plants, lastId, valid, client, online, sentPlants, sentDevices, task, outbox, retained, spent>>

-----------------------------------------------------------------------------
(* The event loop's task *)

\* data_event_handler(): a full queue gives up its head, whatever it is.
Report ==
  /\ spent.reports < MaxReports /\ spent' = [spent EXCEPT !.reports = @ + 1]
  /\ \E d \in Devices, c \in Caps :
       LET update == [type |-> "update", dev |-> d]
       IN  /\ valid' = valid \cup {<<d, c>>}
           /\ IF Len(queue) < QueueDepth
              THEN queue' = Append(queue, update) /\ UNCHANGED dropped
              ELSE /\ queue' = Append(Tail(queue), update)
                   /\ dropped' = (dropped \/ Head(queue).type \notin {"update", "resync"})
  /\ UNCHANGED <<plants, lastId, web, client, online, sentPlants, sentDevices, task, outbox, retained>>

-----------------------------------------------------------------------------
(* The client's task *)

clientOnly == <<plants, lastId, valid, web, task, dropped>>

\* MQTT_EVENT_CONNECTED, one statement after the other.
Connect ==
  /\ client = "down" /\ client' = "connected" /\ online' = TRUE
  /\ UNCHANGED <<clientOnly, queue, sentPlants, sentDevices, outbox, retained, spent>>

ForgetSent ==
  /\ client = "connected" /\ client' = "reset" /\ sentPlants' = {} /\ sentDevices' = {}
  /\ UNCHANGED <<clientOnly, queue, online, outbox, retained, spent>>

AskResync ==
  /\ client = "reset" /\ client' = "up"
  /\ queue' = IF Len(queue) < QueueDepth THEN Append(queue, [type |-> "resync"]) ELSE queue
  /\ UNCHANGED <<clientOnly, online, sentPlants, sentDevices, outbox, retained, spent>>

\* The broker goes away; MQTT_EVENT_DISCONNECTED follows.
Lose ==
  /\ client = "up" /\ client' = "lost"
  /\ spent.drops < MaxDrops /\ spent' = [spent EXCEPT !.drops = @ + 1]
  /\ UNCHANGED <<clientOnly, queue, online, sentPlants, sentDevices, outbox, retained>>

Disconnected ==
  /\ client = "lost" /\ client' = "down" /\ online' = FALSE
  /\ UNCHANGED <<clientOnly, queue, sentPlants, sentDevices, outbox, retained, spent>>

\* What waited in the outbox is delivered, oldest first.
Deliver ==
  /\ Alive /\ outbox # <<>> /\ outbox' = Tail(outbox)
  /\ retained' = retained \ {Head(outbox)}
  /\ UNCHANGED <<clientOnly, queue, client, online, sentPlants, sentDevices, spent>>

-----------------------------------------------------------------------------
(* The publisher's task *)

taskOnly == <<valid, web, client, online, dropped, spent>>

\* Mutant of Clear: cleared only while connected, like what is published at QoS 0.
ClearOnline(topics) ==
  retained' = (IF online THEN retained \ topics ELSE retained) /\ UNCHANGED outbox

\* QoS 1, an empty retained message each: the client keeps those it cannot send.
Clear(topics) ==
  IF Alive THEN retained' = retained \ topics /\ UNCHANGED outbox
  ELSE /\ UNCHANGED retained
       /\ outbox' = outbox \o SetToSeq(topics)

\* QoS 0: lost unless the session is alive.
Retain(topic) == retained' = IF Alive THEN retained \cup {topic} ELSE retained

\* publish_discovery() begins with the bindings of now.
Bindings(id) == IF id \in DOMAIN plants THEN {c \in Caps : plants[id].dev[c] # 0} ELSE {}

\* The next plant, whose bindings are read now, or else the next device, or the end.
Goes(t) ==
  LET First(S) == CHOOSE i \in S : \A j \in S : i <= j
  IN  IF t.plants # {}
      THEN [t EXCEPT !.at = "plant", !.of = First(t.plants), !.plants = @ \ {First(t.plants)},
                     !.caps = Bindings(First(t.plants))]
      ELSE LET devs == {d \in t.devs : \E c \in Caps : <<d, c>> \in t.valid}
           IN  IF devs = {} THEN Idle
               ELSE [t EXCEPT !.at = "device", !.of = First(devs), !.devs = devs \ {First(devs)},
                              !.caps = {c \in Caps : <<First(devs), c>> \in t.valid}]

Take == task = Idle /\ queue # <<>> /\ queue' = Tail(queue)

\* PLANT_DELETED: every form the plant may have had.
PlantDeleted ==
  /\ Take /\ Head(queue).type = "plant deleted"
  /\ Clear({PlantForm(Head(queue).plant, c) : c \in Caps})
  /\ UNCHANGED <<taskOnly, plants, lastId, sentPlants, sentDevices, task>>

\* CAP_UNBOUND.
CapUnbound ==
  /\ Take /\ Head(queue).type = "cap unbound"
  /\ Clear({PlantForm(Head(queue).plant, Head(queue).cap)})
  /\ UNCHANGED <<taskOnly, plants, lastId, sentPlants, sentDevices, task>>

\* DEVICE_CAP_BOUND: the device's form goes, the plant's forms are published.
CapBound ==
  /\ Take /\ Head(queue).type = "cap bound"
  /\ Clear({DeviceForm(Head(queue).dev, Head(queue).cap)})
  /\ task' = IF Head(queue).plant \notin DOMAIN plants THEN Idle
             ELSE Goes([Idle EXCEPT !.plants = {Head(queue).plant}])
  /\ UNCHANGED <<taskOnly, plants, lastId, sentPlants, sentDevices>>

\* RESYNC_DISCOVERY: all plants and devices of one snapshot.
Resync ==
  /\ Take /\ Head(queue).type = "resync"
  /\ task' = Goes([Idle EXCEPT !.plants = DOMAIN plants, !.devs = Devices,
                               !.covered = Covered, !.valid = valid])
  /\ UNCHANGED <<taskOnly, plants, lastId, sentPlants, sentDevices, outbox, retained>>

\* STATE_UPDATE: the reporting probe's plant, made if it has none, and then the device,
\* unless both were published within the last 30 s.  A rename asks for the forms again.
Update ==
  /\ Take /\ Head(queue).type = "update"
  /\ LET d == Head(queue).dev
         own == {id \in DOMAIN plants : plants[id].mac = d}
         known == own # {} \/ lastId < LastPlant
         id == IF own # {} THEN CHOOSE i \in own : TRUE ELSE lastId + 1
     IN  /\ IF d \in Zigbee \/ own # {} \/ ~known
            THEN UNCHANGED <<plants, lastId>>
            ELSE plants' = WithPlant(d) /\ lastId' = id
         /\ \E throttled, renamed \in BOOLEAN :
              task' = IF throttled \/ (d \notin Zigbee /\ ~known) THEN Idle
                      ELSE Goes([Idle EXCEPT !.devs = {d}, !.covered = Covered, !.valid = valid,
                              !.plants = IF d \notin Zigbee /\ (id \notin sentPlants \/ renamed)
                                         THEN {id} ELSE {}])
  /\ UNCHANGED <<taskOnly, sentPlants, sentDevices, outbox, retained>>

\* publish_discovery(), an entity at a time, with a pause after each; it breaks off when
\* the connection is known to be gone, and the plant counts as published all the same.
PlantEntity ==
  /\ task.at = "plant"
  /\ IF task.caps = {} \/ ~online
     THEN /\ sentPlants' = sentPlants \cup {task.of}
          /\ task' = Goes(task)
          /\ UNCHANGED retained
     ELSE LET c == CHOOSE i \in task.caps : \A j \in task.caps : i <= j
          IN  /\ Retain(PlantForm(task.of, c))
              /\ task' = [task EXCEPT !.caps = @ \ {c}] /\ UNCHANGED sentPlants
  /\ UNCHANGED <<taskOnly, plants, lastId, queue, sentDevices, outbox>>

\* publish_device_discovery(), an entity at a time: one that a plant of the snapshot covers is cleared if it is
\* marked as sent, and the mark with it; another is published if it is not.
DeviceEntity ==
  /\ task.at = "device"
  /\ IF ~online THEN task' = Goes(task) /\ UNCHANGED <<retained, sentDevices>>
     ELSE LET c == CHOOSE i \in task.caps : \A j \in task.caps : i <= j
              e == <<task.of, c>>
              sent == e \in sentDevices
          IN  /\ task' = IF task.caps = {c} THEN Goes(task) ELSE [task EXCEPT !.caps = @ \ {c}]
              /\ IF e \in task.covered
                 THEN /\ sentDevices' = sentDevices \ {e}
                      /\ retained' = IF sent /\ Alive THEN retained \ {DeviceForm(task.of, c)} ELSE retained
                 ELSE /\ sentDevices' = sentDevices \cup {e}
                      /\ IF sent THEN UNCHANGED retained ELSE Retain(DeviceForm(task.of, c))
  /\ UNCHANGED <<taskOnly, plants, lastId, queue, sentPlants, outbox>>

-----------------------------------------------------------------------------

Next ==
  \/ Create \/ Edit \/ Tell \/ Report
  \/ Connect \/ ForgetSent \/ AskResync \/ Lose \/ Disconnected \/ Deliver
  \/ PlantDeleted \/ CapUnbound \/ CapBound \/ Resync \/ Update
  \/ PlantEntity \/ DeviceEntity

Spec == Init /\ [][Next]_vars

-----------------------------------------------------------------------------
(* Properties *)

\* Nothing is left to be done about the entities.
Settled == queue = <<>> /\ web = <<>> /\ task = Idle /\ outbox = <<>>

\* "guarantees no orphan survives" and "must not also get a device-form entity": once
\* everything queued has been dealt with, the broker shows a plant's entity only for
\* what that plant has bound, and a device's only for what no plant has, although they
\* are published one by one from a snapshot while the user binds and deletes and the
\* connection comes and goes.  A message a full queue dropped is left out.
NoOrphan ==
  Settled /\ ~dropped =>
    /\ \A id \in Ids, c \in Caps : PlantForm(id, c) \in retained => c \in Bindings(id)
    /\ \A d \in Devices, c \in Caps : DeviceForm(d, c) \in retained => <<d, c>> \notin Covered
=============================================================================
