------------------------------- MODULE SwarmParts -------------------------------
(***************************************************************************)
(* Six protocols between a hub and its nodes, side by side.  They share    *)
(* no state, so each behaviour follows one of them and leaves the others   *)
(* where they started: interleaving them would only multiply the states.   *)
(***************************************************************************)
EXTENDS Naturals

CONSTANTS
  Nodes, MaxNodes, MaxKeys, MaxSweeps, MaxWindows, MaxFaults,    \* Pairing
  CheckinQueueLen, FlushLen, SeqMod, AckAirLen, MaxFlashFails, RoleRestarts,  \* NodeConfig
  Tasks, Channels, PongLen, MaxSends,                                         \* Resync
  Sensors, Second, ForwardQueueLen, BufferLen, MaxAge, AgeLimit, CntMod,      \* Forward
  SendTicks, FailLimit, MaxTime, MaxReadings,
  Total, RecvQueueLen, StatusAirLen, MaxStalls, MaxSilent, FinalizePolls,     \* NodeOta
  MaxSessions, OnBattery, UpdateRestarts,
  Modes, FailedWakes, MaxRetries, CheckinsWaiting, MaxChanges, MaxUpdates,    \* NodeLife
  MaxTrouble, MaxWriteFails, MaxCrashes, MaxOutages, MaxRoles

VARIABLES
  follows,
  table, peer, window, job, node, leaving, late, forget, doubled, spent,
  stat, work, flushes, member, air, faults,
  link, driver, task, resync, radio, pongs, acked,
  now, hub, queue, buffer, sending, made, newest,
  sender, gives, sem, image, receiver, chunks, answers, high, installed, restarts,
  keeper, battery, flash, lost, budget

Adoption == INSTANCE Pairing

RadioRole == INSTANCE NodeConfig WITH
  QueueLen <- CheckinQueueLen, AirLen <- AckAirLen, MaxRestarts <- RoleRestarts, node <- member

Link == INSTANCE Resync

Readings == INSTANCE Forward WITH QueueLen <- ForwardQueueLen

Update == INSTANCE NodeOta WITH
  QueueLen <- RecvQueueLen, AirLen <- StatusAirLen, MaxRestarts <- UpdateRestarts,
  hub <- sender, node <- receiver, queue <- chunks, air <- answers

Life == INSTANCE NodeLife WITH
  FailLimit <- FailedWakes, QueueLen <- CheckinsWaiting, MaxFlashFails <- MaxWriteFails,
  hub <- keeper, node <- battery, spent <- budget

ASSUME SwarmPartsAssumption ==
  /\ Adoption!PairingAssumption /\ RadioRole!NodeConfigAssumption
  /\ Link!ResyncAssumption /\ Readings!ForwardAssumption
  /\ Update!NodeOtaAssumption /\ Life!NodeLifeAssumption

adoptionVars == <<table, peer, window, job, node, leaving, late, forget, doubled, spent>>
roleVars == <<stat, work, flushes, member, air, faults>>
linkVars == <<link, driver, task, resync, radio, pongs, acked>>
readingVars == <<now, hub, queue, buffer, sending, made, newest>>
updateVars ==
  <<sender, gives, sem, image, receiver, chunks, answers, high, installed, restarts>>
lifeVars == <<keeper, battery, flash, lost, budget>>

Init ==
  /\ follows \in {"adoption", "radio role", "link", "readings", "update", "life"}
  /\ Adoption!Init /\ Link!Init /\ Readings!Init /\ RadioRole!Init
  /\ Update!Init /\ Life!Init
  /\ follows # "link" => radio.hub = Link!First
  /\ follows # "radio role" => member.nvs = "ble"
  /\ follows # "life" => flash.mode = Life!AlwaysOn

Next ==
  \/ /\ follows = "adoption"
     /\ UNCHANGED <<follows, roleVars, linkVars, readingVars, updateVars, lifeVars>>
     /\ Adoption!Next
  \/ /\ follows = "radio role"
     /\ UNCHANGED <<follows, adoptionVars, linkVars, readingVars, updateVars, lifeVars>>
     /\ RadioRole!Next
  \/ /\ follows = "link"
     /\ UNCHANGED <<follows, adoptionVars, roleVars, readingVars, updateVars, lifeVars>>
     /\ Link!Next
  \/ /\ follows = "readings"
     /\ UNCHANGED <<follows, adoptionVars, roleVars, linkVars, updateVars, lifeVars>>
     /\ Readings!Next
  \/ /\ follows = "update"
     /\ UNCHANGED <<follows, adoptionVars, roleVars, linkVars, readingVars, lifeVars>>
     /\ Update!Next
  \/ /\ follows = "life"
     /\ UNCHANGED <<follows, adoptionVars, roleVars, linkVars, readingVars, updateVars>>
     /\ Life!Next

vars == <<follows, adoptionVars, roleVars, linkVars, readingVars, updateVars, lifeVars>>

Spec == Init /\ [][Next]_vars

-----------------------------------------------------------------------------

\* A part that is not followed stays in an initial state, where its property holds.
Of(part, property) == follows = part => property

\* Pairing: hub and node never hold different keys, but for the nodes it excepts.
KeysAgree == Of("adoption", Adoption!KeysAgree)

\* NodeConfig: a role taken for done is persisted, unless its write failed.
DoneIsPersistedOrFailed == Of("radio role", RadioRole!DoneIsPersistedOrFailed)

\* Resync: a send reported as delivered was delivered.
OkIsOwn == Of("link", Link!OkIsOwn)

\* Forward: the registry regresses by no more than the age leaves out.
RegressIsBounded == Of("readings", Readings!RegressIsBounded)

\* NodeOta: no node boots an image put together from two updates.
NeverBootsMixed == Of("update", Update!NeverBootsMixed)

\* NodeOta: the hub does not take an update for done that was not installed.
HubBelievesTruth == Of("update", Update!HubBelievesTruth)

\* NodeOta: an abort that saw a parked session wakes that session.
AbortReachesParked == Of("update", Update!AbortReachesParked)

\* NodeLife: neither sleeping nor a change of mode rolls a good image back.
NeverRollsItselfBack == Of("life", Life!NeverRollsItselfBack)
=============================================================================
