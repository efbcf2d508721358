----------------------------- MODULE PlantFilesProofs -------------------------
(***************************************************************************)
(* Proofs about what a hub has recorded of its plants, now and by the      *)
(* firmware before, for every value of the constants: PlantMigration, then *)
(* PlantHistory.  As in HubPartsProofs, each has an inductive invariant    *)
(* over its own state, and the last section carries it to the behaviours   *)
(* of HubParts.                                                            *)
(***************************************************************************)
EXTENDS HubParts, FiniteSets, TLAPS, WellFoundedInduction, FiniteSetTheorems

-----------------------------------------------------------------------------
(* PlantMigration: where what the older firmware left has gone *)

FileNames == Migration!Ids \X Migration!Tiers

IsTable(t) ==
  /\ t = [plants |-> t.plants, next |-> t.next] /\ t.next \in Nat \ {0}
  /\ \A id \in DOMAIN t.plants : id \in Migration!Ids /\ id < t.next
IsFile(t) == t = Migration!NoTable \/ IsTable(t)
IsBefore(b) == b = [legacy |-> b.legacy, names |-> b.names, blob |-> b.blob]

MigrationTypes ==
  /\ IsTable(plantTable) /\ IsFile(plantFile) /\ IsFile(before.blob) /\ IsBefore(before)
  /\ blob \in {Migration!NoTable, before.blob}
  /\ legacy \subseteq Sensors \X Migration!Tiers /\ before.legacy \subseteq Sensors \X Migration!Tiers
  /\ names \subseteq Sensors
  /\ moved = [f \in FileNames |-> moved[f]]

\* What plants.bin has of a plant the table has too, unless a user deleted it.
KeptIn(f, t, gone) ==
  /\ f = Migration!NoTable \/ f.next <= t.next
  /\ \A id \in DOMAIN f.plants :
       IF id \in DOMAIN t.plants THEN f.plants[id] = t.plants[id] ELSE f.plants[id].mac \in gone

Has(t, id, m) == id \in DOMAIN t.plants /\ t.plants[id].mac = m

\* The older table is in NVS, or what it had is where it was copied to.
BlobHeld(b, f, t, at, gone, bf) ==
  \A id \in DOMAIN bf.blob.plants :
    /\ at = "adopt" => bf.blob.plants[id].mac \in gone \/ Has(t, id, bf.blob.plants[id].mac)
    /\ b = Migration!NoTable \/ at = "erase" =>
         bf.blob.plants[id].mac \in gone \/ Has(f, id, bf.blob.plants[id].mac)

\* A ring file or a name that is gone belongs to a plant in plants.bin.
RingsHeld(f, rs, lg, gone, bf) ==
  \A x \in bf.legacy \ lg :
    x[1] \in gone \/ \E id \in DOMAIN f.plants : f.plants[id].mac = x[1] /\ x[1] \in rs[<<id, x[2]>>]
NamesHeld(f, ns, gone, bf) ==
  \A m \in bf.names \ ns :
    m \in gone \/ \E id \in DOMAIN f.plants : f.plants[id].mac = m /\ f.plants[id].named

\* An action of the plan is about a plant of the table t.
IsActOf(a, t, gone) ==
  /\ a.id \in Migration!Ids /\ a.id < t.next
  /\ IF a.id \in DOMAIN t.plants
     THEN t.plants[a.id].mac = a.mac /\ (a.what = "name" => t.plants[a.id].named)
     ELSE a.mac \in gone
PlanHeld(acts, f, t, at, gone) ==
  /\ \E S : acts \in Seq(S)
  /\ at \in {"persist", "run"} => \A i \in DOMAIN acts : IsActOf(acts[i], t, gone)
  /\ at = "run" => f # Migration!NoTable /\ \A i \in DOMAIN acts : IsActOf(acts[i], f, gone)

\* The plant a handler removes is not in the table.
GoneFrom(t, h) ==
  h.at \in {"delete", "remove"} =>
    h.id \in Migration!Ids /\ h.id \notin DOMAIN t.plants /\ h.id < t.next

\* A plant that is not in plants.bin has no records yet: its creation is under way.
UnderWay(f, t, at, h) ==
  \A id \in DOMAIN t.plants \ DOMAIN f.plants :
    at \in {"adopt", "persist"} \/ h = [at |-> "create", id |-> id]

\* The records of a plant are its sensor's, and the files of ids to come are empty.
OwnFiles(t, rs) ==
  \A id \in DOMAIN t.plants, x \in Migration!Tiers : rs[<<id, x>>] \subseteq {t.plants[id].mac}
FreshFiles(t, rs) == \A id \in Migration!Ids, x \in Migration!Tiers : id >= t.next => rs[<<id, x>>] = {}
Recorded(t, rs) == OwnFiles(t, rs) /\ FreshFiles(t, rs)

AtLoad ==
  init = "load" => plantTable = Migration!EmptyTable /\ http = Migration!WebIdle /\ ~behind
AfterLoad ==
  init # "load" =>
    /\ KeptIn(plantFile, plantTable, deleted) /\ GoneFrom(plantTable, http)
    /\ ~behind => UnderWay(plantFile, plantTable, init, http)
    /\ ~reverted => Recorded(plantTable, moved)

MigrationHeld ==
  /\ MigrationTypes /\ AtLoad /\ AfterLoad
  /\ BlobHeld(blob, plantFile, plantTable, init, deleted, before)
  /\ RingsHeld(plantFile, moved, legacy, deleted, before)
  /\ NamesHeld(plantFile, names, deleted, before)
  /\ PlanHeld(todo, plantFile, plantTable, init, deleted)
  /\ ~reverted /\ ~behind => Recorded(plantFile, moved)

\* A plant created before plants.bin was read is left out.
MigrationInv == ~early => MigrationHeld

LEMMA NoTableIs ==
  /\ Migration!NoTable.plants = <<>> /\ DOMAIN Migration!NoTable.plants = {}
  /\ Migration!NoTable.next = 0
<1>1. Migration!NoTable.plants = <<>> /\ Migration!NoTable.next = 0
  BY DEF Migration!NoTable
<1>2. DOMAIN <<>> = {}
  OBVIOUS
<1>3. QED
  BY <1>1, <1>2

LEMMA EmptyTableIs ==
  /\ IsTable(Migration!EmptyTable) /\ DOMAIN Migration!EmptyTable.plants = {}
  /\ Migration!EmptyTable.next = 1
<1> DEFINE t == Migration!EmptyTable
<1>1. t = [plants |-> t.plants, next |-> t.next] /\ t.next = 1
  BY DEF Migration!EmptyTable
<1>2. DOMAIN t.plants = {}
  BY DEF Migration!EmptyTable
<1> HIDE DEF t
<1>3. IsTable(t)
  BY <1>1, <1>2 DEF IsTable
<1>4. QED
  BY <1>1, <1>2, <1>3 DEF t

LEMMA FileDomain ==
  ASSUME NEW f, IsFile(f), NEW id \in DOMAIN f.plants
  PROVE  id \in Migration!Ids /\ id < f.next /\ f # Migration!NoTable
BY NoTableIs DEF IsFile, IsTable

LEMMA MigrationStarts == Migration!Init => MigrationInv
<1> SUFFICES ASSUME Migration!Init PROVE MigrationHeld
  BY DEF MigrationInv
<1>1. /\ plantFile = Migration!NoTable /\ plantTable = Migration!EmptyTable
      /\ legacy \subseteq Sensors \X Migration!Tiers /\ names \subseteq Sensors
      /\ moved = [f \in FileNames |-> {}]
      /\ init = "load" /\ todo = <<>> /\ http = Migration!WebIdle /\ ~behind
      /\ before = [legacy |-> legacy, names |-> names, blob |-> blob] /\ deleted = {}
  BY DEF Migration!Init, FileNames
<1>2. before.blob = blob /\ before.legacy = legacy /\ before.names = names /\ IsBefore(before)
  BY <1>1 DEF IsBefore
<1>3. IsFile(blob)
  <2>1. CASE blob = Migration!NoTable
    BY <2>1 DEF IsFile
  <2>2. ASSUME NEW m, blob = [plants |-> [id \in {1} |-> [mac |-> m, named |-> TRUE]], next |-> 2]
        PROVE  IsTable(blob)
    <3>1. blob = [plants |-> blob.plants, next |-> 2] /\ blob.next = 2 /\ DOMAIN blob.plants = {1}
      BY <2>2
    <3>2. 1 \in Migration!Ids
      BY HubPartsAssumption DEF Migration!PlantMigrationAssumption, Migration!Ids
    <3>3. QED
      BY <3>1, <3>2 DEF IsTable
  <2>3. QED
    BY <2>1, <2>2 DEF Migration!Init, IsFile
<1>4. MigrationTypes
  <2>1. moved = [f \in FileNames |-> moved[f]]
    BY <1>1
  <2>2. QED
    BY <1>1, <1>2, <1>3, <2>1, EmptyTableIs DEF MigrationTypes, IsFile
<1>5. \A id \in Migration!Ids, x \in Migration!Tiers : moved[<<id, x>>] = {}
  BY <1>1 DEF FileNames
<1>6. DOMAIN plantFile.plants = {} /\ Recorded(plantFile, moved)
  BY <1>1, <1>5, NoTableIs DEF Recorded, OwnFiles, FreshFiles
<1>7. BlobHeld(blob, plantFile, plantTable, init, deleted, before)
  <2>1. ASSUME NEW id \in DOMAIN before.blob.plants
        PROVE  blob # Migration!NoTable
    BY <1>2, <2>1, NoTableIs
  <2>2. QED
    BY <1>1, <2>1 DEF BlobHeld
<1>8. /\ RingsHeld(plantFile, moved, legacy, deleted, before)
      /\ NamesHeld(plantFile, names, deleted, before)
  BY <1>2 DEF RingsHeld, NamesHeld
<1>9. PlanHeld(todo, plantFile, plantTable, init, deleted)
  <2>1. todo \in Seq({})
    BY <1>1
  <2>2. QED
    BY <1>1, <2>1 DEF PlanHeld
<1>10. AtLoad /\ AfterLoad
  BY <1>1 DEF AtLoad, AfterLoad
<1>11. QED
  BY <1>4, <1>6, <1>7, <1>8, <1>9, <1>10 DEF MigrationHeld

\* persist_table() leaves nothing of what is held behind: the table has all that
\* plants.bin had, but for what a user deleted.
LEMMA PersistHolds ==
  ASSUME MigrationHeld, init # "load", Migration!Persist,
         UNCHANGED <<plantTable, moved, legacy, names, deleted, before, reverted, blob>>
  PROVE  /\ MigrationTypes' /\ KeptIn(plantFile', plantTable, deleted)
         /\ RingsHeld(plantFile', moved, legacy, deleted, before)
         /\ NamesHeld(plantFile', names, deleted, before)
         /\ \A at : BlobHeld(blob, plantFile, plantTable, at, deleted, before) =>
                      BlobHeld(blob, plantFile', plantTable, at, deleted, before)
         /\ \A acts, at : PlanHeld(acts, plantFile, plantTable, at, deleted) =>
                            PlanHeld(acts, plantFile', plantTable, at, deleted)
         /\ ~behind' => plantFile' = plantTable
         /\ behind' \/ reverted \/ Recorded(plantFile', moved)
<1>1. /\ MigrationTypes /\ KeptIn(plantFile, plantTable, deleted)
      /\ RingsHeld(plantFile, moved, legacy, deleted, before)
      /\ NamesHeld(plantFile, names, deleted, before)
      /\ ~reverted => Recorded(plantTable, moved)
  BY DEF MigrationHeld, AfterLoad
<1>2. CASE behind' = TRUE /\ plantFile' = plantFile
  BY <1>1, <1>2 DEF MigrationTypes
<1>3. CASE behind' = FALSE /\ plantFile' = plantTable
  <2>1. IsTable(plantTable) /\ plantTable # Migration!NoTable
    BY <1>1, NoTableIs DEF MigrationTypes, IsTable
  <2>2. MigrationTypes'
    BY <1>1, <1>3, <2>1 DEF MigrationTypes, IsFile
  <2>3. KeptIn(plantTable, plantTable, deleted)
    BY <2>1 DEF KeptIn, IsTable
  <2>4. \A id \in DOMAIN plantFile.plants :
          \/ plantFile.plants[id].mac \in deleted
          \/ id \in DOMAIN plantTable.plants /\ plantTable.plants[id] = plantFile.plants[id]
    BY <1>1 DEF KeptIn
  <2>5. RingsHeld(plantTable, moved, legacy, deleted, before)
    BY <1>1, <2>4 DEF RingsHeld
  <2>6. NamesHeld(plantTable, names, deleted, before)
    BY <1>1, <2>4 DEF NamesHeld
  <2>7. ASSUME NEW at, BlobHeld(blob, plantFile, plantTable, at, deleted, before)
        PROVE  BlobHeld(blob, plantTable, plantTable, at, deleted, before)
    BY <2>4, <2>7 DEF BlobHeld, Has
  <2>8. ASSUME NEW acts, NEW at, PlanHeld(acts, plantFile, plantTable, at, deleted)
        PROVE  PlanHeld(acts, plantTable, plantTable, at, deleted)
    BY <2>1, <2>8 DEF PlanHeld
  <2>9. QED
    BY <1>1, <1>3, <2>2, <2>3, <2>5, <2>6, <2>7, <2>8
<1>4. QED
  BY <1>2, <1>3 DEF Migration!Persist

LEMMA LoadTableStep == ASSUME MigrationHeld, Migration!Load PROVE MigrationHeld'
<1>1. /\ init = "load" /\ init' \in {"scan", "adopt"}
      /\ UNCHANGED <<plantFile, legacy, names, moved, before, blob, deleted, todo, behind, reverted, http>>
  BY DEF Migration!Load, Migration!mainOnly, Migration!history
<1>2. /\ MigrationTypes /\ plantTable = Migration!EmptyTable /\ http = Migration!WebIdle /\ ~behind
      /\ BlobHeld(blob, plantFile, plantTable, init, deleted, before)
      /\ PlanHeld(todo, plantFile, plantTable, init, deleted)
      /\ ~reverted => Recorded(plantFile, moved)
  BY <1>1 DEF MigrationHeld, AtLoad
<1>3. http.at = "idle"
  BY <1>2 DEF Migration!WebIdle
<1>4. /\ IsTable(plantTable') /\ KeptIn(plantFile, plantTable', deleted)
      /\ UnderWay(plantFile, plantTable', init', http)
      /\ ~reverted => Recorded(plantTable', moved)
      /\ init' = "adopt" => plantTable' = before.blob
  <2>1. CASE plantFile # Migration!NoTable /\ plantTable' = plantFile /\ init' = "scan"
    <3>1. IsTable(plantFile)
      BY <1>2, <2>1 DEF MigrationTypes, IsFile
    <3>2. KeptIn(plantFile, plantFile, deleted)
      BY <3>1 DEF KeptIn, IsTable
    <3>3. QED
      BY <1>2, <2>1, <3>1, <3>2 DEF UnderWay
  <2>2. CASE /\ plantFile = Migration!NoTable /\ blob # Migration!NoTable
             /\ plantTable' = blob /\ init' = "adopt"
    <3>1. IsTable(plantTable') /\ plantTable' = before.blob
      BY <1>2, <2>2 DEF MigrationTypes, IsFile
    <3>2. KeptIn(plantFile, plantTable', deleted)
      BY <2>2, NoTableIs DEF KeptIn
    <3>3. ~reverted => Recorded(plantTable', moved)
      <4>1. ASSUME ~reverted
            PROVE  \A id \in Migration!Ids, x \in Migration!Tiers : moved[<<id, x>>] = {}
        BY <1>2, <2>2, <4>1, NoTableIs DEF Recorded, FreshFiles, Migration!Ids
      <4>2. QED
        BY <3>1, <4>1 DEF Recorded, OwnFiles, FreshFiles, IsTable
    <3>4. QED
      BY <2>2, <3>1, <3>2, <3>3 DEF UnderWay
  <2>3. CASE plantFile = Migration!NoTable /\ plantTable' = plantTable /\ init' = "scan"
    <3>1. DOMAIN plantTable'.plants = {} /\ IsTable(plantTable')
      BY <1>2, <2>3, EmptyTableIs
    <3>2. KeptIn(plantFile, plantTable', deleted)
      BY <2>3, NoTableIs DEF KeptIn
    <3>3. ~reverted => Recorded(plantTable', moved)
      <4>1. ASSUME ~reverted
            PROVE  \A id \in Migration!Ids, x \in Migration!Tiers : moved[<<id, x>>] = {}
        BY <1>2, <2>3, <4>1, NoTableIs DEF Recorded, FreshFiles, Migration!Ids
      <4>2. QED
        BY <3>1, <4>1 DEF Recorded, OwnFiles, FreshFiles
    <3>4. QED
      BY <2>3, <3>1, <3>2, <3>3 DEF UnderWay
  <2>4. QED
    BY <2>1, <2>2, <2>3 DEF Migration!Load
<1>5. MigrationTypes'
  BY <1>1, <1>2, <1>4 DEF MigrationTypes
<1>6. AfterLoad' /\ AtLoad'
  BY <1>1, <1>3, <1>4 DEF AfterLoad, AtLoad, GoneFrom
<1>7. BlobHeld(blob, plantFile, plantTable', init', deleted, before)
  BY <1>1, <1>2, <1>4 DEF BlobHeld, Has
<1>8. PlanHeld(todo, plantFile, plantTable', init', deleted)
  BY <1>1, <1>2 DEF PlanHeld
<1>9. QED
  BY <1>1, <1>2, <1>5, <1>6, <1>7, <1>8 DEF MigrationHeld

\* The steps of plants_init() that write the table, or have written it.
LEMMA AdoptStep ==
  ASSUME MigrationHeld, Migration!Adopt \/ Migration!PersistPlan
  PROVE  MigrationHeld'
<1>1. /\ init \in {"adopt", "persist"} /\ Migration!Persist
      /\ UNCHANGED <<plantTable, moved, legacy, names, deleted, before, reverted, blob, todo, http>>
      /\ init = "adopt" => init' = IF behind' THEN "scan" ELSE "erase"
      /\ init = "persist" => init' = IF behind' THEN "up" ELSE "run"
  BY DEF Migration!Adopt, Migration!PersistPlan, Migration!mainOnly, Migration!history, Migration!NotSaved
<1>2. /\ AfterLoad /\ BlobHeld(blob, plantFile, plantTable, init, deleted, before)
      /\ PlanHeld(todo, plantFile, plantTable, init, deleted)
      /\ ~reverted => Recorded(plantTable, moved)
      /\ IsTable(plantTable)
  BY <1>1 DEF MigrationHeld, AfterLoad, MigrationTypes
<1>3. /\ MigrationTypes' /\ KeptIn(plantFile', plantTable, deleted)
      /\ RingsHeld(plantFile', moved, legacy, deleted, before)
      /\ NamesHeld(plantFile', names, deleted, before)
      /\ BlobHeld(blob, plantFile', plantTable, init, deleted, before)
      /\ PlanHeld(todo, plantFile', plantTable, init, deleted)
      /\ ~behind' => plantFile' = plantTable
      /\ behind' \/ reverted \/ Recorded(plantFile', moved)
  BY <1>1, <1>2, PersistHolds
<1>4. AfterLoad' /\ AtLoad'
  <2>1. ~behind' => UnderWay(plantFile', plantTable, init', http)
    BY <1>3 DEF UnderWay
  <2>2. QED
    BY <1>1, <1>2, <1>3, <2>1 DEF AfterLoad, AtLoad
<1>5. BlobHeld(blob, plantFile', plantTable, init', deleted, before)
  BY <1>1, <1>3 DEF BlobHeld
<1>6. PlanHeld(todo, plantFile', plantTable, init', deleted)
  <2>1. CASE behind'
    BY <1>1, <1>3, <2>1 DEF PlanHeld
  <2>2. CASE ~behind'
    <3>1. plantTable # Migration!NoTable
      BY <1>2, NoTableIs DEF IsTable
    <3>2. QED
      BY <1>1, <1>3, <2>2, <3>1 DEF PlanHeld
  <2>3. QED
    BY <2>1, <2>2
<1>7. QED
  BY <1>1, <1>3, <1>4, <1>5, <1>6 DEF MigrationHeld

LEMMA EraseStep ==
  ASSUME MigrationHeld, Migration!Erase \/ Migration!Ran
  PROVE  MigrationHeld'
<1>1. /\ init \in {"erase", "run"} /\ init' \in {"scan", "up"}
      /\ UNCHANGED <<plantTable, plantFile, moved, legacy, names, deleted, before, reverted, behind,
                     todo, http>>
      /\ blob' = blob \/ (blob' = Migration!NoTable /\ init = "erase")
  BY DEF Migration!Erase, Migration!Ran, Migration!mainOnly, Migration!history
<1>2. /\ MigrationTypes /\ AfterLoad /\ BlobHeld(blob, plantFile, plantTable, init, deleted, before)
      /\ PlanHeld(todo, plantFile, plantTable, init, deleted)
  BY DEF MigrationHeld
<1>3. MigrationTypes'
  BY <1>1, <1>2 DEF MigrationTypes
<1>4. AfterLoad' /\ AtLoad'
  <2>1. ~behind => UnderWay(plantFile, plantTable, init', http)
    BY <1>1, <1>2 DEF AfterLoad, UnderWay
  <2>2. QED
    BY <1>1, <1>2, <2>1 DEF AfterLoad, AtLoad
<1>5. BlobHeld(blob', plantFile, plantTable, init', deleted, before)
  BY <1>1, <1>2 DEF BlobHeld
<1>6. PlanHeld(todo, plantFile, plantTable, init', deleted)
  BY <1>1, <1>2 DEF PlanHeld
<1>7. QED
  BY <1>1, <1>3, <1>4, <1>5, <1>6 DEF MigrationHeld

LEMMA MigrationCrashStep == ASSUME MigrationHeld, Migration!Crash PROVE MigrationHeld'
<1>1. /\ init' = "load" /\ plantTable' = Migration!EmptyTable /\ http' = Migration!WebIdle /\ ~behind'
      /\ todo' = <<>> /\ (reverted' <=> reverted \/ behind)
      /\ UNCHANGED <<plantFile, moved, legacy, names, deleted, before, blob>>
  BY DEF Migration!Crash, Migration!history
<1>2. MigrationTypes /\ BlobHeld(blob, plantFile, plantTable, init, deleted, before)
  BY DEF MigrationHeld
<1>3. MigrationTypes'
  BY <1>1, <1>2, EmptyTableIs DEF MigrationTypes
<1>4. AfterLoad' /\ AtLoad'
  BY <1>1 DEF AfterLoad, AtLoad
<1>5. BlobHeld(blob, plantFile, plantTable', init', deleted, before)
  BY <1>1, <1>2 DEF BlobHeld
<1>6. PlanHeld(todo', plantFile, plantTable', init', deleted)
  <2>1. todo' \in Seq({})
    BY <1>1
  <2>2. QED
    BY <1>1, <2>1 DEF PlanHeld
<1>7. QED
  BY <1>1, <1>3, <1>4, <1>5, <1>6 DEF MigrationHeld

\* One action of the plan: what it moves or clears is of a plant in plants.bin.
LEMMA RunStep == ASSUME MigrationHeld, Migration!Run PROVE MigrationHeld'
<1> DEFINE a == Head(todo)
<1>1. /\ init = "run" /\ todo # <<>> /\ todo' = Tail(todo)
      /\ Migration!Rename(a) \/ Migration!ClearName(a)
      /\ UNCHANGED <<init, plantTable, plantFile, deleted, before, reverted, behind, http, blob>>
  BY DEF Migration!Run, Migration!mainOnly, Migration!history
<1>2. /\ MigrationTypes /\ AfterLoad /\ BlobHeld(blob, plantFile, plantTable, init, deleted, before)
      /\ PlanHeld(todo, plantFile, plantTable, init, deleted)
      /\ RingsHeld(plantFile, moved, legacy, deleted, before)
      /\ NamesHeld(plantFile, names, deleted, before)
      /\ ~reverted /\ ~behind => Recorded(plantFile, moved)
  BY DEF MigrationHeld
<1>3. PICK S : todo \in Seq(S)
  BY <1>2 DEF PlanHeld
<1>4. /\ Tail(todo) \in Seq(S) /\ 1 \in DOMAIN todo /\ a = todo[1]
      /\ \A i \in DOMAIN Tail(todo) : i + 1 \in DOMAIN todo /\ Tail(todo)[i] = todo[i + 1]
  BY <1>1, <1>3
<1>5. /\ IsActOf(a, plantTable, deleted) /\ IsActOf(a, plantFile, deleted)
      /\ plantFile # Migration!NoTable
  BY <1>1, <1>2, <1>4 DEF PlanHeld
<1>6. PlanHeld(todo', plantFile, plantTable, init', deleted)
  BY <1>1, <1>2, <1>4 DEF PlanHeld
<1> HIDE DEF a
<1>7. CASE UNCHANGED <<moved, legacy, names>>
  BY <1>1, <1>2, <1>6, <1>7 DEF MigrationHeld, MigrationTypes, AfterLoad, AtLoad
<1>8. CASE /\ a.what \in Migration!Tiers /\ moved[<<a.id, a.what>>] = {}
           /\ moved' = [moved EXCEPT ![<<a.id, a.what>>] = {a.mac}]
           /\ legacy' = legacy \ {<<a.mac, a.what>>} /\ names' = names
  <2>1. <<a.id, a.what>> \in FileNames
    BY <1>5, <1>8 DEF FileNames, IsActOf
  <2>2. /\ moved' = [f \in FileNames |-> moved'[f]]
        /\ \A f \in FileNames : moved'[f] = IF f = <<a.id, a.what>> THEN {a.mac} ELSE moved[f]
    <3>1. moved = [f \in FileNames |-> moved[f]]
      BY <1>2 DEF MigrationTypes
    <3>2. QED
      BY <1>8, <2>1, <3>1
  <2>3. MigrationTypes'
    BY <1>1, <1>2, <1>8, <2>2 DEF MigrationTypes
  <2>4. RingsHeld(plantFile, moved', legacy', deleted, before)
    <3>1. SUFFICES ASSUME NEW x \in before.legacy \ legacy', x[1] \notin deleted
                   PROVE  \E id \in DOMAIN plantFile.plants :
                            plantFile.plants[id].mac = x[1] /\ x[1] \in moved'[<<id, x[2]>>]
      BY DEF RingsHeld
    <3>2. x \in Sensors \X Migration!Tiers
      BY <1>2, <3>1 DEF MigrationTypes
    <3>3. CASE x \notin legacy
      <4>1. PICK id \in DOMAIN plantFile.plants :
              plantFile.plants[id].mac = x[1] /\ x[1] \in moved[<<id, x[2]>>]
        BY <1>2, <3>1, <3>3 DEF RingsHeld
      <4>2. id \in Migration!Ids
        BY <1>2, FileDomain DEF MigrationTypes
      <4>3. <<id, x[2]>> \in FileNames /\ <<id, x[2]>> # <<a.id, a.what>>
        BY <1>8, <3>2, <4>1, <4>2 DEF FileNames
      <4>4. QED
        BY <2>2, <4>1, <4>3
    <3>4. CASE x = <<a.mac, a.what>>
      <4>1. a.id \in DOMAIN plantFile.plants /\ plantFile.plants[a.id].mac = a.mac
        BY <1>5, <3>1, <3>4 DEF IsActOf
      <4>2. moved'[<<a.id, a.what>>] = {a.mac}
        BY <2>1, <2>2
      <4>3. QED
        BY <3>4, <4>1, <4>2
    <3>5. QED
      BY <1>8, <3>1, <3>3, <3>4
  <2>5. ASSUME NEW t, IsActOf(a, t, deleted), IsFile(t), Recorded(t, moved)
        PROVE  Recorded(t, moved')
    <3>1. \A id \in DOMAIN t.plants : id \in Migration!Ids
      BY <2>5, FileDomain
    <3>2. OwnFiles(t, moved')
      BY <2>2, <2>5, <3>1 DEF Recorded, OwnFiles, IsActOf, FileNames
    <3>3. t.next \in Nat
      BY <2>5, NoTableIs DEF IsFile, IsTable
    <3>4. FreshFiles(t, moved')
      <4>1. ASSUME NEW id \in Migration!Ids, NEW x \in Migration!Tiers, id >= t.next
            PROVE  moved'[<<id, x>>] = {}
        <5>1. <<id, x>> \in FileNames /\ id # a.id /\ <<id, x>> # <<a.id, a.what>>
          BY <2>5, <3>3, <4>1 DEF FileNames, IsActOf, Migration!Ids
        <5>2. QED
          BY <2>2, <2>5, <4>1, <5>1 DEF Recorded, FreshFiles
      <4>2. QED
        BY <4>1 DEF FreshFiles
    <3>5. QED
      BY <3>2, <3>4 DEF Recorded
  <2>6. AfterLoad' /\ AtLoad'
    BY <1>1, <1>2, <1>5, <2>5 DEF AfterLoad, AtLoad, MigrationTypes, IsFile
  <2>7. ~reverted /\ ~behind => Recorded(plantFile, moved')
    BY <1>2, <1>5, <2>5 DEF MigrationTypes
  <2>8. QED
    BY <1>1, <1>2, <1>6, <1>8, <2>3, <2>4, <2>6, <2>7 DEF MigrationHeld
<1>9. CASE a.what = "name" /\ names' = names \ {a.mac} /\ UNCHANGED <<moved, legacy>>
  <2>1. MigrationTypes'
    BY <1>1, <1>2, <1>9 DEF MigrationTypes
  <2>2. NamesHeld(plantFile, names', deleted, before)
    BY <1>2, <1>5, <1>9 DEF NamesHeld, IsActOf
  <2>3. AfterLoad' /\ AtLoad'
    BY <1>1, <1>2, <1>9 DEF AfterLoad, AtLoad
  <2>4. QED
    BY <1>1, <1>2, <1>6, <1>9, <2>1, <2>2, <2>3 DEF MigrationHeld
<1>10. QED
  BY <1>1, <1>7, <1>8, <1>9 DEF Migration!Rename, Migration!ClearName

\* A plant with a new id leaves what is said of the others as it was.
LEMMA TableGrows ==
  ASSUME MigrationHeld, init # "load", NEW t, IsTable(t), plantTable.next <= t.next,
         \A id \in DOMAIN plantTable.plants : id \in DOMAIN t.plants /\ t.plants[id] = plantTable.plants[id],
         \A id \in DOMAIN t.plants : id \in DOMAIN plantTable.plants \/ id >= plantTable.next
  PROVE  /\ KeptIn(plantFile, t, deleted)
         /\ \A h : GoneFrom(plantTable, h) => GoneFrom(t, h)
         /\ BlobHeld(blob, plantFile, t, init, deleted, before)
         /\ \A a : IsActOf(a, plantTable, deleted) => IsActOf(a, t, deleted)
         /\ reverted \/ Recorded(t, moved)
<1>1. /\ MigrationTypes /\ KeptIn(plantFile, plantTable, deleted) /\ IsTable(plantTable)
      /\ BlobHeld(blob, plantFile, plantTable, init, deleted, before)
      /\ ~reverted => Recorded(plantTable, moved)
  BY DEF MigrationHeld, AfterLoad, MigrationTypes
<1>2. plantTable.next \in Nat /\ t.next \in Nat /\ DOMAIN t.plants \subseteq Migration!Ids
      /\ Migration!Ids \subseteq Nat
  BY <1>1 DEF IsTable, Migration!Ids
<1>3. KeptIn(plantFile, t, deleted)
  <2>1. CASE plantFile = Migration!NoTable
    BY <2>1, NoTableIs DEF KeptIn
  <2>2. CASE IsTable(plantFile)
    <3>1. plantFile.next \in Nat /\ \A id \in DOMAIN plantFile.plants : id \in Nat /\ id < plantFile.next
      BY <1>2, <2>2 DEF IsTable
    <3>2. plantFile.next <= plantTable.next
      BY <1>1, <2>2, NoTableIs DEF KeptIn, IsTable
    <3>3. plantFile.next <= t.next
      BY <1>2, <3>1, <3>2
    <3>4. \A id \in DOMAIN plantFile.plants : id \in DOMAIN t.plants => id \in DOMAIN plantTable.plants
      BY <1>2, <3>1, <3>2
    <3>5. QED
      BY <1>1, <3>3, <3>4 DEF KeptIn
  <2>3. QED
    BY <1>1, <2>1, <2>2 DEF MigrationTypes, IsFile
<1>4. ASSUME NEW h, GoneFrom(plantTable, h), h.at \in {"delete", "remove"}
      PROVE  h.id \in Migration!Ids /\ h.id \notin DOMAIN t.plants /\ h.id < t.next
  <2> DEFINE i == h.id
  <2>1. i \in Migration!Ids /\ i \notin DOMAIN plantTable.plants /\ i < plantTable.next
    BY <1>4 DEF GoneFrom
  <2> HIDE DEF i
  <2>2. i \in Nat
    BY <1>2, <2>1
  <2>3. ~(i >= plantTable.next) /\ i < t.next
    BY <1>2, <2>1, <2>2
  <2>4. i \notin DOMAIN t.plants
    BY <2>1, <2>3
  <2>5. QED
    BY <2>1, <2>3, <2>4 DEF i
<1>5. BlobHeld(blob, plantFile, t, init, deleted, before)
  BY <1>1 DEF BlobHeld, Has
<1>6. ASSUME NEW a, IsActOf(a, plantTable, deleted)
      PROVE  IsActOf(a, t, deleted)
  <2>1. a.id \in Nat /\ a.id < plantTable.next /\ a.id < t.next
    BY <1>2, <1>6 DEF IsActOf
  <2>2. a.id \in DOMAIN t.plants <=> a.id \in DOMAIN plantTable.plants
    BY <1>2, <2>1
  <2>3. QED
    BY <1>6, <2>1, <2>2 DEF IsActOf
<1>7. ASSUME ~reverted
      PROVE  Recorded(t, moved)
  <2>1. ASSUME NEW id \in DOMAIN t.plants, NEW x \in Migration!Tiers
        PROVE  moved[<<id, x>>] \subseteq {t.plants[id].mac}
    BY <1>1, <1>2, <1>7, <2>1 DEF Recorded, OwnFiles, FreshFiles
  <2>2. ASSUME NEW id \in Migration!Ids, id >= t.next
        PROVE  id >= plantTable.next
    BY <1>2, <2>2
  <2>3. QED
    BY <1>1, <1>7, <2>1, <2>2 DEF Recorded, OwnFiles, FreshFiles
<1>8. QED
  BY <1>3, <1>4, <1>5, <1>6, <1>7 DEF GoneFrom

LEMMA ResolveStep == ASSUME MigrationHeld, Migration!Resolve, init # "load" PROVE MigrationHeld'
<1>1. PICK m : plantTable' = [plants |-> [id \in DOMAIN plantTable.plants \cup {plantTable.next} |->
                   IF id = plantTable.next THEN [mac |-> m, named |-> FALSE] ELSE plantTable.plants[id]],
                 next |-> plantTable.next + 1]
  BY DEF Migration!Resolve
<1>2. /\ plantTable.next \in Migration!Ids
      /\ http = Migration!WebIdle /\ http' = [at |-> "create", id |-> plantTable.next]
      /\ UNCHANGED <<init, plantFile, moved, legacy, names, deleted, before, reverted, behind, todo, blob>>
  BY DEF Migration!Resolve, Migration!Change, Migration!webOnly, Migration!history
<1>3. /\ MigrationTypes /\ AfterLoad /\ IsTable(plantTable) /\ plantTable.next \in Nat
      /\ PlanHeld(todo, plantFile, plantTable, init, deleted)
  BY DEF MigrationHeld, MigrationTypes, IsTable
<1>4. http.at = "idle" /\ http'.at = "create" /\ http'.id = plantTable.next
  BY <1>2 DEF Migration!WebIdle
<1>5. /\ plantTable' = [plants |-> plantTable'.plants, next |-> plantTable'.next]
      /\ plantTable'.next = plantTable.next + 1
      /\ DOMAIN plantTable'.plants = DOMAIN plantTable.plants \cup {plantTable.next}
      /\ \A id \in DOMAIN plantTable.plants :
           id # plantTable.next => plantTable'.plants[id] = plantTable.plants[id]
  BY <1>1
<1>6. \A id \in DOMAIN plantTable.plants : id \in Nat /\ id \in Migration!Ids /\ id < plantTable.next
  BY <1>3 DEF IsTable, Migration!Ids
<1>7. IsTable(plantTable')
  BY <1>2, <1>3, <1>5, <1>6 DEF IsTable
<1>8. /\ KeptIn(plantFile, plantTable', deleted)
      /\ BlobHeld(blob, plantFile, plantTable', init, deleted, before)
      /\ \A a : IsActOf(a, plantTable, deleted) => IsActOf(a, plantTable', deleted)
      /\ reverted \/ Recorded(plantTable', moved)
  <2>1. /\ plantTable.next <= plantTable'.next
        /\ \A id \in DOMAIN plantTable.plants :
             id \in DOMAIN plantTable'.plants /\ plantTable'.plants[id] = plantTable.plants[id]
        /\ \A id \in DOMAIN plantTable'.plants : id \in DOMAIN plantTable.plants \/ id >= plantTable.next
    BY <1>3, <1>5, <1>6
  <2> DEFINE t == plantTable'
  <2> HIDE DEF t
  <2>2. /\ KeptIn(plantFile, t, deleted)
        /\ BlobHeld(blob, plantFile, t, init, deleted, before)
        /\ \A a : IsActOf(a, plantTable, deleted) => IsActOf(a, t, deleted)
        /\ reverted \/ Recorded(t, moved)
    BY <1>7, <2>1, TableGrows DEF t
  <2>3. QED
    BY <2>2 DEF t
<1>9. MigrationTypes'
  BY <1>2, <1>3, <1>7 DEF MigrationTypes
<1>10. PlanHeld(todo, plantFile, plantTable', init, deleted)
  BY <1>3, <1>8 DEF PlanHeld
<1>11. AfterLoad' /\ AtLoad'
  <2>1. GoneFrom(plantTable', http')
    BY <1>4 DEF GoneFrom
  <2>2. ASSUME ~behind
        PROVE  UnderWay(plantFile, plantTable', init, http')
    <3>1. UnderWay(plantFile, plantTable, init, http)
      BY <1>3, <2>2 DEF AfterLoad
    <3>2. \A id : http # [at |-> "create", id |-> id]
      BY <1>4
    <3>3. QED
      BY <1>2, <1>5, <3>1, <3>2 DEF UnderWay
  <2>3. QED
    BY <1>2, <1>8, <2>1, <2>2 DEF AfterLoad, AtLoad
<1>12. QED
  BY <1>2, <1>8, <1>9, <1>10, <1>11 DEF MigrationHeld

LEMMA DeletePlantStep == ASSUME MigrationHeld, Migration!Delete PROVE MigrationHeld'
<1>1. PICK id \in DOMAIN plantTable.plants :
        /\ plantTable' = [plantTable EXCEPT !.plants = [i \in DOMAIN @ \ {id} |-> @[i]]]
        /\ deleted' = deleted \cup {plantTable.plants[id].mac}
        /\ http' = [at |-> "delete", id |-> id]
  BY DEF Migration!Delete
<1>2. /\ http = Migration!WebIdle
      /\ UNCHANGED <<init, plantFile, moved, legacy, names, before, reverted, behind, todo, blob>>
  BY DEF Migration!Delete, Migration!Change, Migration!webOnly
<1>3. /\ MigrationTypes /\ AtLoad /\ AfterLoad /\ IsTable(plantTable)
      /\ PlanHeld(todo, plantFile, plantTable, init, deleted)
      /\ BlobHeld(blob, plantFile, plantTable, init, deleted, before)
      /\ RingsHeld(plantFile, moved, legacy, deleted, before)
      /\ NamesHeld(plantFile, names, deleted, before)
  BY DEF MigrationHeld, MigrationTypes
<1>4. init # "load"
  BY <1>1, <1>3, EmptyTableIs DEF AtLoad
<1>5. http'.at = "delete" /\ http'.id = id /\ http.at = "idle"
  BY <1>1, <1>2 DEF Migration!WebIdle
<1>6. /\ plantTable' = [plants |-> plantTable'.plants, next |-> plantTable'.next]
      /\ plantTable'.next = plantTable.next
      /\ DOMAIN plantTable'.plants = DOMAIN plantTable.plants \ {id}
      /\ \A i \in DOMAIN plantTable.plants : i # id => plantTable'.plants[i] = plantTable.plants[i]
  <2>1. plantTable = [plants |-> plantTable.plants, next |-> plantTable.next]
    BY <1>3 DEF IsTable
  <2>2. plantTable' = [plants |-> [i \in DOMAIN plantTable.plants \ {id} |-> plantTable.plants[i]],
                       next |-> plantTable.next]
    BY <1>1, <2>1
  <2>3. QED
    BY <2>2
<1>7. IsTable(plantTable') /\ id \in Migration!Ids /\ id < plantTable.next
  BY <1>1, <1>3, <1>6 DEF IsTable
<1>8. MigrationTypes'
  BY <1>2, <1>3, <1>7 DEF MigrationTypes
<1>9. KeptIn(plantFile, plantTable', deleted')
  BY <1>1, <1>3, <1>4, <1>6 DEF AfterLoad, KeptIn
<1>10. BlobHeld(blob, plantFile, plantTable', init, deleted', before)
  BY <1>1, <1>3, <1>6 DEF BlobHeld, Has
<1>11. /\ RingsHeld(plantFile, moved, legacy, deleted', before)
       /\ NamesHeld(plantFile, names, deleted', before)
  BY <1>1, <1>3 DEF RingsHeld, NamesHeld
<1>12. PlanHeld(todo, plantFile, plantTable', init, deleted')
  <2>1. ASSUME NEW a, IsActOf(a, plantTable, deleted)
        PROVE  IsActOf(a, plantTable', deleted')
    BY <1>1, <1>6, <2>1 DEF IsActOf
  <2>2. ASSUME NEW a, IsActOf(a, plantFile, deleted)
        PROVE  IsActOf(a, plantFile, deleted')
    BY <1>1, <2>2 DEF IsActOf
  <2>3. QED
    BY <1>3, <2>1, <2>2 DEF PlanHeld
<1>13. AfterLoad' /\ AtLoad'
  <2>1. GoneFrom(plantTable', http')
    BY <1>5, <1>6, <1>7 DEF GoneFrom
  <2>2. ASSUME ~behind
        PROVE  UnderWay(plantFile, plantTable', init, http')
    <3>1. UnderWay(plantFile, plantTable, init, http)
      BY <1>3, <1>4, <2>2 DEF AfterLoad
    <3>2. \A i : http # [at |-> "create", id |-> i]
      BY <1>5
    <3>3. QED
      BY <1>6, <3>1, <3>2 DEF UnderWay
  <2>3. ASSUME ~reverted
        PROVE  Recorded(plantTable', moved)
    BY <1>3, <1>4, <1>6, <2>3 DEF AfterLoad, Recorded, OwnFiles, FreshFiles
  <2>4. QED
    BY <1>2, <1>4, <1>9, <2>1, <2>2, <2>3 DEF AfterLoad, AtLoad
<1>14. QED
  BY <1>2, <1>3, <1>8, <1>10, <1>11, <1>12, <1>13 DEF MigrationHeld

LEMMA NameStep == ASSUME MigrationHeld, Migration!Name PROVE MigrationHeld'
<1>1. PICK m \in Sensors \ names :
        names' = names \cup {m} /\ before' = [before EXCEPT !.names = @ \cup {m}]
  BY DEF Migration!Name
<1>2. UNCHANGED <<init, plantTable, plantFile, moved, legacy, deleted, reverted, behind, todo, blob, http>>
  BY DEF Migration!Name, Migration!webOnly
<1>3. /\ MigrationTypes /\ AtLoad /\ AfterLoad
      /\ BlobHeld(blob, plantFile, plantTable, init, deleted, before)
      /\ RingsHeld(plantFile, moved, legacy, deleted, before)
      /\ NamesHeld(plantFile, names, deleted, before)
  BY DEF MigrationHeld
<1>4. /\ IsBefore(before') /\ before'.legacy = before.legacy /\ before'.blob = before.blob
      /\ before'.names = before.names \cup {m}
  <2>1. before' = [legacy |-> before.legacy, names |-> before.names \cup {m}, blob |-> before.blob]
    BY <1>1, <1>3 DEF MigrationTypes, IsBefore
  <2>2. QED
    BY <2>1 DEF IsBefore
<1>5. MigrationTypes'
  BY <1>1, <1>2, <1>3, <1>4 DEF MigrationTypes
<1>6. /\ BlobHeld(blob, plantFile, plantTable, init, deleted, before')
      /\ RingsHeld(plantFile, moved, legacy, deleted, before')
      /\ NamesHeld(plantFile, names', deleted, before')
  BY <1>1, <1>3, <1>4 DEF BlobHeld, RingsHeld, NamesHeld
<1>7. AfterLoad' /\ AtLoad'
  BY <1>2, <1>3 DEF AfterLoad, AtLoad
<1>8. QED
  BY <1>2, <1>5, <1>6, <1>7 DEF MigrationHeld

LEMMA WebWriteStep == ASSUME MigrationHeld, Migration!WebWrite PROVE MigrationHeld'
<1>1. /\ http.at \in {"create", "delete"} /\ Migration!Persist
      /\ http' = IF http.at = "create" THEN Migration!WebIdle ELSE [http EXCEPT !.at = "remove"]
      /\ UNCHANGED <<init, plantTable, moved, legacy, names, deleted, before, reverted, blob, todo>>
  BY DEF Migration!WebWrite, Migration!webOnly, Migration!history
<1>2. /\ AtLoad /\ AfterLoad /\ BlobHeld(blob, plantFile, plantTable, init, deleted, before)
      /\ PlanHeld(todo, plantFile, plantTable, init, deleted)
  BY DEF MigrationHeld
<1>3. init # "load"
  BY <1>1, <1>2 DEF AtLoad, Migration!WebIdle
<1>4. /\ MigrationTypes' /\ KeptIn(plantFile', plantTable, deleted)
      /\ RingsHeld(plantFile', moved, legacy, deleted, before)
      /\ NamesHeld(plantFile', names, deleted, before)
      /\ BlobHeld(blob, plantFile', plantTable, init, deleted, before)
      /\ PlanHeld(todo, plantFile', plantTable, init, deleted)
      /\ ~behind' => plantFile' = plantTable
      /\ behind' \/ reverted \/ Recorded(plantFile', moved)
  BY <1>1, <1>2, <1>3, PersistHolds
<1>5. GoneFrom(plantTable, http')
  <2>1. CASE http.at = "create"
    BY <1>1, <2>1 DEF GoneFrom, Migration!WebIdle
  <2>2. CASE http.at = "delete"
    <3>1. http' = [http EXCEPT !.at = "remove"]
      BY <1>1, <2>2
    <3>2. http'.id = http.id
      BY <3>1
    <3>3. QED
      BY <1>2, <1>3, <2>2, <3>2 DEF AfterLoad, GoneFrom
  <2>3. QED
    BY <1>1, <2>1, <2>2
<1>6. AfterLoad' /\ AtLoad'
  <2>1. ~behind' => UnderWay(plantFile', plantTable, init, http')
    BY <1>4 DEF UnderWay
  <2>2. QED
    BY <1>1, <1>2, <1>3, <1>4, <1>5, <2>1 DEF AfterLoad, AtLoad
<1>7. QED
  BY <1>1, <1>4, <1>6 DEF MigrationHeld

\* The files of a plant that was deleted go, and nobody counts on them.
LEMMA RemoveFilesStep == ASSUME MigrationHeld, Migration!WebRemove PROVE MigrationHeld'
<1>1. /\ http.at = "remove" /\ http' = Migration!WebIdle
      /\ moved' = [f \in FileNames |-> IF f[1] = http.id THEN {} ELSE moved[f]]
      /\ UNCHANGED <<init, plantTable, plantFile, legacy, names, deleted, before, reverted, behind, todo, blob>>
  BY DEF Migration!WebRemove, Migration!webOnly, Migration!history, FileNames
<1>2. /\ MigrationTypes /\ AtLoad /\ AfterLoad
      /\ RingsHeld(plantFile, moved, legacy, deleted, before)
      /\ ~reverted /\ ~behind => Recorded(plantFile, moved)
  BY DEF MigrationHeld
<1>3. init # "load"
  BY <1>1, <1>2 DEF AtLoad, Migration!WebIdle
<1>4. /\ GoneFrom(plantTable, http) /\ KeptIn(plantFile, plantTable, deleted)
      /\ http'.at = "idle"
  BY <1>1, <1>2, <1>3 DEF AfterLoad, Migration!WebIdle
<1>5. /\ \A f \in FileNames : moved'[f] = IF f[1] = http.id THEN {} ELSE moved[f]
      /\ moved' = [f \in FileNames |-> moved'[f]]
  BY <1>1
<1>6. MigrationTypes'
  BY <1>1, <1>2, <1>5 DEF MigrationTypes
<1>7. RingsHeld(plantFile, moved', legacy, deleted, before)
  <2>1. SUFFICES ASSUME NEW x \in before.legacy \ legacy, x[1] \notin deleted
                 PROVE  \E id \in DOMAIN plantFile.plants :
                          plantFile.plants[id].mac = x[1] /\ x[1] \in moved'[<<id, x[2]>>]
    BY DEF RingsHeld
  <2>2. PICK id \in DOMAIN plantFile.plants :
          plantFile.plants[id].mac = x[1] /\ x[1] \in moved[<<id, x[2]>>]
    BY <1>2, <2>1 DEF RingsHeld
  <2>3. id # http.id
    BY <1>1, <1>4, <2>1, <2>2 DEF KeptIn, GoneFrom
  <2>4. x \in Sensors \X Migration!Tiers /\ id \in Migration!Ids
    BY <1>2, <2>1, FileDomain DEF MigrationTypes
  <2>5. <<id, x[2]>> \in FileNames
    BY <2>4 DEF FileNames
  <2>6. moved'[<<id, x[2]>>] = moved[<<id, x[2]>>]
    BY <1>5, <2>3, <2>5
  <2>7. QED
    BY <2>2, <2>6
<1>8. ASSUME NEW t, IsFile(t), Recorded(t, moved)
      PROVE  Recorded(t, moved')
  <2>1. \A id \in DOMAIN t.plants : id \in Migration!Ids
    BY <1>8, FileDomain
  <2>2. \A id \in Migration!Ids, x \in Migration!Tiers : moved'[<<id, x>>] \in {{}, moved[<<id, x>>]}
    BY <1>5 DEF FileNames
  <2>3. OwnFiles(t, moved')
    BY <1>8, <2>1, <2>2 DEF Recorded, OwnFiles
  <2>4. FreshFiles(t, moved')
    BY <1>8, <2>2 DEF Recorded, FreshFiles
  <2>5. QED
    BY <2>3, <2>4 DEF Recorded
<1>9. AfterLoad' /\ AtLoad'
  <2>1. GoneFrom(plantTable, http')
    BY <1>4 DEF GoneFrom
  <2>2. ~behind => UnderWay(plantFile, plantTable, init, http')
    <3>1. \A id : http # [at |-> "create", id |-> id]
      BY <1>1
    <3>2. QED
      BY <1>2, <1>3, <3>1 DEF AfterLoad, UnderWay
  <2>3. ~reverted => Recorded(plantTable, moved')
    BY <1>2, <1>3, <1>8 DEF AfterLoad, MigrationTypes, IsFile
  <2>4. QED
    BY <1>1, <1>3, <1>4, <2>1, <2>2, <2>3 DEF AfterLoad, AtLoad
<1>10. ~reverted /\ ~behind => Recorded(plantFile, moved')
  BY <1>2, <1>8 DEF MigrationTypes
<1>11. MigrationHeld /\ UNCHANGED <<blob, plantFile, plantTable, init, deleted, before, names, todo>>
  BY <1>1
<1>12. QED
  BY <1>1, <1>6, <1>7, <1>9, <1>10, <1>11 DEF MigrationHeld

\* What is sampled is the plant's own, and the plant is in plants.bin.
LEMMA SampleStep == ASSUME MigrationHeld, Migration!Sample PROVE MigrationHeld'
<1>1. PICK id \in DOMAIN plantTable.plants, x \in Migration!Tiers :
        /\ http # [at |-> "create", id |-> id]
        /\ moved' = [moved EXCEPT ![<<id, x>>] = @ \cup {plantTable.plants[id].mac}]
  BY DEF Migration!Sample
<1>2. /\ init = "up"
      /\ UNCHANGED <<init, plantTable, plantFile, legacy, names, deleted, before, reverted, behind, todo,
                     blob, http>>
  BY DEF Migration!Sample, Migration!webOnly, Migration!history
<1>3. /\ MigrationTypes /\ AtLoad /\ AfterLoad /\ IsTable(plantTable)
      /\ RingsHeld(plantFile, moved, legacy, deleted, before)
      /\ ~reverted /\ ~behind => Recorded(plantFile, moved)
      /\ KeptIn(plantFile, plantTable, deleted)
      /\ ~behind => UnderWay(plantFile, plantTable, init, http)
      /\ ~reverted => Recorded(plantTable, moved)
  BY <1>2 DEF MigrationHeld, MigrationTypes, AfterLoad
<1>4. id \in Migration!Ids /\ id < plantTable.next /\ <<id, x>> \in FileNames
  BY <1>3 DEF IsTable, FileNames
<1>5. /\ moved' = [f \in FileNames |-> moved'[f]]
      /\ \A f \in FileNames :
           moved'[f] = IF f = <<id, x>> THEN moved[f] \cup {plantTable.plants[id].mac} ELSE moved[f]
  <2>1. moved = [f \in FileNames |-> moved[f]]
    BY <1>3 DEF MigrationTypes
  <2>2. QED
    BY <1>1, <1>4, <2>1
<1>6. MigrationTypes'
  BY <1>2, <1>3, <1>5 DEF MigrationTypes
<1>7. RingsHeld(plantFile, moved', legacy, deleted, before)
  <2>1. SUFFICES ASSUME NEW y \in before.legacy \ legacy, y[1] \notin deleted
                 PROVE  \E i \in DOMAIN plantFile.plants :
                          plantFile.plants[i].mac = y[1] /\ y[1] \in moved'[<<i, y[2]>>]
    BY DEF RingsHeld
  <2>2. PICK i \in DOMAIN plantFile.plants :
          plantFile.plants[i].mac = y[1] /\ y[1] \in moved[<<i, y[2]>>]
    BY <1>3, <2>1 DEF RingsHeld
  <2>3. y \in Sensors \X Migration!Tiers /\ i \in Migration!Ids
    BY <1>3, <2>1, FileDomain DEF MigrationTypes
  <2>4. <<i, y[2]>> \in FileNames
    BY <2>3 DEF FileNames
  <2>5. moved[<<i, y[2]>>] \subseteq moved'[<<i, y[2]>>]
    BY <1>5, <2>4
  <2>6. QED
    BY <2>2, <2>5
<1>8. ASSUME NEW t, IsFile(t), Recorded(t, moved), id \in DOMAIN t.plants,
             t.plants[id].mac = plantTable.plants[id].mac
      PROVE  Recorded(t, moved')
  <2>1. \A i \in DOMAIN t.plants : i \in Migration!Ids
    BY <1>8, FileDomain
  <2>2. ASSUME NEW i \in DOMAIN t.plants, NEW z \in Migration!Tiers
        PROVE  moved'[<<i, z>>] \subseteq {t.plants[i].mac}
    <3>1. <<i, z>> \in FileNames /\ moved[<<i, z>>] \subseteq {t.plants[i].mac}
      BY <1>8, <2>1 DEF FileNames, Recorded, OwnFiles
    <3>2. <<i, z>> = <<id, x>> => i = id
      OBVIOUS
    <3>3. QED
      BY <1>5, <1>8, <3>1, <3>2
  <2>3. ASSUME NEW i \in Migration!Ids, NEW z \in Migration!Tiers, i >= t.next
        PROVE  moved'[<<i, z>>] = {}
    <3>1. id < t.next /\ t.next \in Nat /\ i \in Nat /\ id \in Nat
      BY <1>4, <1>8, NoTableIs, FileDomain DEF IsFile, IsTable, Migration!Ids
    <3>2. i # id /\ <<i, z>> # <<id, x>> /\ <<i, z>> \in FileNames
      BY <2>3, <3>1 DEF FileNames
    <3>3. QED
      BY <1>5, <1>8, <2>3, <3>2 DEF Recorded, FreshFiles
  <2>4. QED
    BY <2>2, <2>3 DEF Recorded, OwnFiles, FreshFiles
<1>9. ~reverted => Recorded(plantTable, moved')
  BY <1>3, <1>8 DEF IsFile
<1>10. ASSUME ~reverted, ~behind
       PROVE  Recorded(plantFile, moved')
  <2>1. id \in DOMAIN plantFile.plants
    BY <1>1, <1>2, <1>3, <1>10 DEF UnderWay
  <2>2. plantFile.plants[id] = plantTable.plants[id]
    BY <1>3, <2>1 DEF KeptIn
  <2>3. QED
    BY <1>3, <1>8, <1>10, <2>1, <2>2 DEF MigrationTypes
<1>11. AfterLoad' /\ AtLoad'
  BY <1>2, <1>3, <1>9 DEF AfterLoad, AtLoad
<1>12. MigrationHeld /\ UNCHANGED <<blob, plantFile, plantTable, init, deleted, before, names, todo>>
  BY <1>2
<1>13. QED
  BY <1>2, <1>6, <1>7, <1>10, <1>11, <1>12 DEF MigrationHeld

\* As many of the sensors found as there is room for.
LEMMA PlacedIs ==
  ASSUME MigrationTypes, NEW s \in Migration!SetToSeqs(Migration!Found \ Migration!Bound(plantTable))
  PROVE  \E n \in Nat : DOMAIN Migration!Placed(s) = 1 .. n /\ Len(Migration!Placed(s)) = n
<1> DEFINE F == Migration!Found \ Migration!Bound(plantTable)
           r == Migration!Room(plantTable)
<1>1. F \subseteq Sensors /\ IsFiniteSet(Sensors) /\ LastId \in Nat /\ PlantsMax \in Nat
  BY HubPartsAssumption DEF Migration!Found, MigrationTypes, Migration!PlantMigrationAssumption,
     Migration!IsFiniteSet, IsFiniteSet
<1> HIDE DEF F
<1>2. PICK k \in Nat : k = Cardinality(F)
  BY <1>1, FS_Subset, FS_CardinalityType
<1>3. DOMAIN s = 1 .. k
  <2>1. s \in [1 .. Cardinality(F) -> F]
    BY DEF F, Migration!SetToSeqs, Migration!Cardinality, Cardinality
  <2>2. QED
    BY <1>2, <2>1
<1>4. DOMAIN plantTable.plants \subseteq 1 .. LastId
  BY DEF MigrationTypes, IsTable, Migration!Ids
<1>5. PICK c \in Nat : c = Cardinality(DOMAIN plantTable.plants)
  <2>1. IsFiniteSet(1 .. LastId)
    BY <1>1, FS_Interval
  <2>2. QED
    BY <1>4, <2>1, FS_Subset, FS_CardinalityType
<1>6. r = PlantsMax - c
  BY <1>5 DEF Migration!Room, Migration!Cardinality, Cardinality
<1> HIDE DEF r
<1>7. r \in Int
  BY <1>1, <1>6
<1>8. PICK n \in Nat : {j \in 1 .. k : j <= r} = 1 .. n
  <2>1. CASE r <= 0
    <3>1. {j \in 1 .. k : j <= r} = 1 .. 0
      BY <1>7, <2>1
    <3>2. QED
      BY <3>1
  <2>2. CASE r > 0 /\ r <= k
    <3>1. {j \in 1 .. k : j <= r} = 1 .. r /\ r \in Nat
      BY <1>7, <2>2
    <3>2. QED
      BY <3>1
  <2>3. CASE r > k
    <3>1. {j \in 1 .. k : j <= r} = 1 .. k
      BY <1>7, <2>3
    <3>2. QED
      BY <3>1
  <2>4. QED
    BY <1>7, <2>1, <2>2, <2>3
<1>9. Migration!Placed(s) = [i \in 1 .. n |-> s[i]]
  BY <1>3, <1>8 DEF Migration!Placed, r
<1>10. QED
  BY <1>9

\* The actions of a plan: each is of one of the new plants.
LEMMA ActionsAre ==
  ASSUME NEW s, NEW n \in Nat, DOMAIN s = 1 .. n, NEW acts \in Migration!Actions(s)
  PROVE  /\ \E S : acts \in Seq(S)
         /\ \A i \in DOMAIN acts : \E k \in 1 .. n :
              /\ acts[i].mac = s[k] /\ acts[i].id = plantTable.next + k - 1
              /\ acts[i].what = "name" => s[k] \in names
<1> DEFINE N == Migration!Needed(s)
           Act(a) == [what |-> Migration!Kinds[a[2]], mac |-> s[a[1]], id |-> plantTable.next + a[1] - 1]
<1>1. N \subseteq (1 .. n) \X (1 .. 3)
  BY DEF Migration!Needed
<1>2. PICK c \in Nat : c = Cardinality(N)
  <2>1. \A j \in Nat : IsFiniteSet(1 .. j)
    BY FS_Interval
  <2>2. IsFiniteSet(1 .. 3)
    BY <2>1
  <2>3. IsFiniteSet((1 .. n) \X (1 .. 3))
    BY <2>1, <2>2, FS_Product
  <2>4. QED
    BY <1>1, <2>3, FS_Subset, FS_CardinalityType
<1>3. PICK q \in Migration!SetToSeqs(N) : acts = [i \in DOMAIN q |-> Act(q[i])]
  BY DEF Migration!Actions
<1>4. q \in [1 .. c -> N]
  BY <1>2, <1>3 DEF Migration!SetToSeqs, Migration!Cardinality, Cardinality
<1>5. \A a \in N : a[1] \in 1 .. n /\ (Migration!Kinds[a[2]] = "name" => s[a[1]] \in names)
  BY <1>1 DEF Migration!Needed
<1> HIDE DEF N
<1>6. acts = [i \in 1 .. c |-> Act(q[i])] /\ \A i \in 1 .. c : q[i] \in N
  BY <1>3, <1>4
<1>7. acts \in Seq({Act(q[i]) : i \in 1 .. c})
  <2> DEFINE R == {Act(q[i]) : i \in 1 .. c}
  <2>1. \A i \in 1 .. c : Act(q[i]) \in R
    OBVIOUS
  <2> HIDE DEF R, Act
  <2>2. acts \in [1 .. c -> R]
    BY <1>6, <2>1
  <2>3. acts \in Seq(R)
    BY <2>2
  <2>4. QED
    BY <2>3 DEF R, Act
<1>8. ASSUME NEW i \in DOMAIN acts
      PROVE  \E k \in 1 .. n :
               /\ acts[i].mac = s[k] /\ acts[i].id = plantTable.next + k - 1
               /\ acts[i].what = "name" => s[k] \in names
  <2>1. i \in 1 .. c /\ q[i] \in N /\ acts[i] = Act(q[i])
    BY <1>6, <1>8
  <2>2. /\ acts[i].mac = s[q[i][1]] /\ acts[i].id = plantTable.next + q[i][1] - 1
        /\ acts[i].what = Migration!Kinds[q[i][2]]
    BY <2>1
  <2>3. QED
    BY <1>5, <2>1, <2>2
<1>9. QED
  BY <1>7, <1>8

LEMMA PlanStep == ASSUME MigrationHeld, Migration!Plan PROVE MigrationHeld'
<1>1. PICK s \in Migration!SetToSeqs(Migration!Found \ Migration!Bound(plantTable)) :
        /\ plantTable.next + Len(Migration!Placed(s)) - 1 <= LastId
        /\ init' = IF Migration!Placed(s) = <<>> THEN "up" ELSE "persist"
        /\ plantTable' = Migration!Planned(Migration!Placed(s))
        /\ todo' \in Migration!Actions(Migration!Placed(s))
  BY DEF Migration!Plan
<1>2. /\ init = "scan"
      /\ UNCHANGED <<plantFile, moved, legacy, names, deleted, before, reverted, behind, blob, http>>
  BY DEF Migration!Plan, Migration!mainOnly, Migration!history
<1>3. /\ MigrationTypes /\ AtLoad /\ AfterLoad /\ IsTable(plantTable) /\ plantTable.next \in Nat \ {0}
      /\ BlobHeld(blob, plantFile, plantTable, init, deleted, before)
      /\ GoneFrom(plantTable, http)
      /\ ~behind => UnderWay(plantFile, plantTable, init, http)
  BY <1>2 DEF MigrationHeld, MigrationTypes, AfterLoad, IsTable
<1> DEFINE p == Migration!Placed(s)
           t == plantTable'
<1>4. PICK n \in Nat : DOMAIN p = 1 .. n /\ Len(p) = n
  BY <1>3, PlacedIs
<1>5. p = <<>> => n = 0
  BY <1>4
<1> HIDE DEF p
<1> DEFINE New == plantTable.next .. plantTable.next + n - 1
<1>6. t = [plants |-> [id \in DOMAIN plantTable.plants \cup New |->
             IF id \in DOMAIN plantTable.plants THEN plantTable.plants[id]
             ELSE [mac |-> p[id - plantTable.next + 1], named |-> p[id - plantTable.next + 1] \in names]],
           next |-> plantTable.next + n]
  BY <1>1, <1>4 DEF p, Migration!Planned
<1>7. /\ t = [plants |-> t.plants, next |-> t.next] /\ t.next = plantTable.next + n
      /\ DOMAIN t.plants = DOMAIN plantTable.plants \cup New
      /\ \A id \in DOMAIN plantTable.plants : t.plants[id] = plantTable.plants[id]
      /\ \A id \in New : id \notin DOMAIN plantTable.plants =>
           t.plants[id] = [mac |-> p[id - plantTable.next + 1], named |-> p[id - plantTable.next + 1] \in names]
  <2> HIDE DEF t, New
  <2>1. QED
    BY <1>6
<1>8. /\ \A id \in New : id \in Migration!Ids /\ id >= plantTable.next /\ id < t.next
      /\ \A id \in DOMAIN plantTable.plants : id \in Nat /\ id \in Migration!Ids /\ id < plantTable.next
  <2>1. plantTable.next + n - 1 <= LastId /\ LastId \in Nat
    BY <1>1, <1>4, HubPartsAssumption DEF p, Migration!PlantMigrationAssumption
  <2> HIDE DEF t
  <2>2. \A id \in New : id \in Migration!Ids /\ id >= plantTable.next /\ id < t.next
    BY <1>3, <1>7, <2>1 DEF Migration!Ids
  <2>3. QED
    BY <1>3, <2>2 DEF IsTable, Migration!Ids
<1> HIDE DEF t, New
<1>9. IsTable(t) /\ plantTable.next <= t.next
  <2>1. t.next \in Nat \ {0} /\ plantTable.next <= t.next
    BY <1>3, <1>7
  <2>2. \A id \in DOMAIN t.plants : id \in Migration!Ids /\ id < t.next
    BY <1>3, <1>7, <1>8, <2>1
  <2>3. QED
    BY <1>7, <2>1, <2>2 DEF IsTable
<1>10. /\ KeptIn(plantFile, t, deleted) /\ GoneFrom(t, http)
       /\ BlobHeld(blob, plantFile, t, init, deleted, before)
       /\ reverted \/ Recorded(t, moved)
  <2>1. /\ \A id \in DOMAIN plantTable.plants :
             id \in DOMAIN t.plants /\ t.plants[id] = plantTable.plants[id]
        /\ \A id \in DOMAIN t.plants : id \in DOMAIN plantTable.plants \/ id >= plantTable.next
    BY <1>7, <1>8
  <2>2. QED
    BY <1>2, <1>3, <1>9, <2>1, TableGrows
<1>11. PlanHeld(todo', plantFile, t, init', deleted)
  <2>1. /\ \E S : todo' \in Seq(S)
        /\ \A i \in DOMAIN todo' : \E k \in 1 .. n :
             /\ todo'[i].mac = p[k] /\ todo'[i].id = plantTable.next + k - 1
             /\ todo'[i].what = "name" => p[k] \in names
    BY <1>1, <1>4, ActionsAre DEF p
  <2>2. ASSUME NEW a, NEW k \in 1 .. n, a.mac = p[k], a.id = plantTable.next + k - 1,
               a.what = "name" => p[k] \in names
        PROVE  IsActOf(a, t, deleted)
    <3> DEFINE i == plantTable.next + k - 1
    <3>1. i \in New /\ i - plantTable.next + 1 = k
      BY <1>3, <2>2 DEF New
    <3> HIDE DEF i
    <3>2. a.id = i
      BY <2>2 DEF i
    <3>3. i \in Migration!Ids /\ i < t.next /\ i \in DOMAIN t.plants /\ i \notin DOMAIN plantTable.plants
      <4>1. i \in Nat
        BY <1>8, <3>1 DEF Migration!Ids
      <4>2. QED
        BY <1>3, <1>7, <1>8, <3>1, <4>1
    <3>4. t.plants[i] = [mac |-> p[k], named |-> p[k] \in names]
      BY <1>7, <3>1, <3>3
    <3>5. t.plants[i].mac = p[k] /\ t.plants[i].named = (p[k] \in names)
      BY <3>4
    <3>6. QED
      BY <2>2, <3>2, <3>3, <3>5 DEF IsActOf
  <2>3. \A i \in DOMAIN todo' : IsActOf(todo'[i], t, deleted)
    BY <2>1, <2>2
  <2>4. QED
    BY <1>1, <2>1, <2>3 DEF PlanHeld
<1>12. BlobHeld(blob, plantFile, t, init', deleted, before)
  BY <1>1, <1>2, <1>10 DEF BlobHeld
<1>13. ASSUME ~behind
       PROVE  UnderWay(plantFile, t, init', http)
  <2>1. CASE p = <<>>
    <3>1. New = {}
      BY <1>3, <1>5, <2>1 DEF New
    <3>2. QED
      BY <1>2, <1>3, <1>7, <1>13, <3>1 DEF UnderWay
  <2>2. CASE p # <<>>
    <3>1. init' = "persist"
      BY <1>1, <2>2 DEF p
    <3>2. QED
      BY <3>1 DEF UnderWay
  <2>3. QED
    BY <2>1, <2>2
<1>14. MigrationTypes'
  BY <1>2, <1>3, <1>9 DEF MigrationTypes, t
<1>15. AfterLoad' /\ AtLoad'
  BY <1>1, <1>2, <1>10, <1>13 DEF AfterLoad, AtLoad, t
<1>16. MigrationHeld
  OBVIOUS
<1>17. QED
  BY <1>2, <1>11, <1>12, <1>14, <1>15, <1>16 DEF MigrationHeld, t

LEMMA MigrationStep == MigrationInv /\ [Migration!Next]_migrationVars => MigrationInv'
<1> SUFFICES ASSUME MigrationInv, [Migration!Next]_migrationVars, ~early'
             PROVE  MigrationHeld'
  BY DEF MigrationInv
<1>1. CASE UNCHANGED migrationVars
  <2>1. /\ UNCHANGED <<blob, plantFile, plantTable, legacy, names, moved, init, todo, http, before, deleted>>
        /\ UNCHANGED <<behind, reverted, early>>
    BY <1>1 DEF migrationVars
  <2>2. MigrationHeld
    BY <2>1 DEF MigrationInv
  <2>3. MigrationTypes' /\ AtLoad' /\ AfterLoad'
    BY <2>1, <2>2 DEF MigrationHeld, MigrationTypes, AtLoad, AfterLoad
  <2>4. QED
    BY <2>1, <2>2, <2>3 DEF MigrationHeld
<1>2. CASE Migration!Next
  <2>1. ~early
    BY <1>2 DEF Migration!Next, Migration!Load, Migration!Adopt, Migration!Erase, Migration!Plan,
       Migration!PersistPlan, Migration!Run, Migration!Ran, Migration!Crash, Migration!Resolve,
       Migration!Delete, Migration!Name, Migration!WebWrite, Migration!WebRemove, Migration!Sample,
       Migration!mainOnly
  <2>2. MigrationHeld
    BY <2>1 DEF MigrationInv
  <2>3. Migration!Resolve => init # "load"
    BY DEF Migration!Resolve
  <2>4. QED
    BY <1>2, <2>2, <2>3, LoadTableStep, AdoptStep, EraseStep, PlanStep, RunStep, MigrationCrashStep,
       ResolveStep, DeletePlantStep, NameStep, WebWriteStep, RemoveFilesStep, SampleStep
       DEF Migration!Next
<1>3. QED
  BY <1>1, <1>2

LEMMA LegacyOk == MigrationInv => Migration!LegacyIsKept
<1> SUFFICES ASSUME MigrationHeld
             PROVE  /\ \A id \in DOMAIN before.blob.plants :
                         \/ blob # Migration!NoTable \/ before.blob.plants[id].mac \in deleted
                         \/ id \in Migration!OnFile(before.blob.plants[id].mac)
                    /\ \A f \in before.legacy \ legacy :
                         f[1] \in deleted \/ \E id \in Migration!OnFile(f[1]) : f[1] \in moved[<<id, f[2]>>]
                    /\ \A m \in before.names \ names :
                         m \in deleted \/ \E id \in Migration!OnFile(m) : plantFile.plants[id].named
                    /\ ~reverted => \A id \in DOMAIN plantTable.plants, t \in Migration!Tiers :
                         moved[<<id, t>>] \subseteq {plantTable.plants[id].mac}
  BY DEF MigrationInv, Migration!LegacyIsKept
<1>1. \A id \in DOMAIN before.blob.plants :
        \/ blob # Migration!NoTable \/ before.blob.plants[id].mac \in deleted
        \/ id \in Migration!OnFile(before.blob.plants[id].mac)
  BY DEF MigrationHeld, BlobHeld, Has, Migration!OnFile
<1>2. \A f \in before.legacy \ legacy :
        f[1] \in deleted \/ \E id \in Migration!OnFile(f[1]) : f[1] \in moved[<<id, f[2]>>]
  BY DEF MigrationHeld, RingsHeld, Migration!OnFile
<1>3. \A m \in before.names \ names :
        m \in deleted \/ \E id \in Migration!OnFile(m) : plantFile.plants[id].named
  BY DEF MigrationHeld, NamesHeld, Migration!OnFile
<1>4. ASSUME ~reverted
      PROVE  \A id \in DOMAIN plantTable.plants, t \in Migration!Tiers :
               moved[<<id, t>>] \subseteq {plantTable.plants[id].mac}
  <2>1. CASE init = "load"
    BY <2>1, EmptyTableIs DEF MigrationHeld, AtLoad
  <2>2. CASE init # "load"
    BY <1>4, <2>2 DEF MigrationHeld, AfterLoad, Recorded, OwnFiles
  <2>3. QED
    BY <2>1, <2>2
<1>5. QED
  BY <1>1, <1>2, <1>3, <1>4

-----------------------------------------------------------------------------
(* PlantHistory: whose the records of a plant's files are *)

PlantIds == Plants!Ids
Working == {"raw", "hourly", "append", "aggregate"}

\* The column map names the capability of a record.
Says(map, r) == r[2] \in DOMAIN map /\ map[r[2]] = r[3]
BelongTo(recs, map, b) == \A r \in recs : r[1] = b /\ Says(map, r)

\* What the sampler has in hand of a plant was measured at it, and has its column in
\* both files, or has it in the raw one while the other is asked.
InHandOf(s, files, b) ==
  /\ s.birth = b /\ \A t \in Plants!Tiers : BelongTo(s.rec, files[t].map, b)
  /\ s.at = "hourly" /\ s.col # 0 => Says(files["raw"].map, <<b, s.col, Head(s.caps)>>)

\* Both files of the plant id, its hour and what is in hand of it are of the birth b.
IsOwn(files, hour, s, id, b) ==
  /\ \A t \in Plants!Tiers : BelongTo(files[t].recs, files[t].map, b)
  /\ BelongTo(hour, files["hourly"].map, b)
  /\ s.at \in Working /\ s.id = id => InHandOf(s, files, b)

\* Nothing has been recorded under an id.
IsFresh(files, hour, s, id) ==
  /\ \A t \in Plants!Tiers : files[t].recs = {}
  /\ hour = {} /\ ~(s.at \in Working /\ s.id = id)

OwnIn(tbl, rs, ag, s) ==
  \A id \in DOMAIN tbl.plants : IsOwn(rs[id], ag[id], s, id, tbl.plants[id].birth)
FreshFrom(n, rs, ag, s) == \A id \in PlantIds : id >= n => IsFresh(rs[id], ag[id], s, id)
IsHistory(tbl, rs, ag, s) == OwnIn(tbl, rs, ag, s) /\ FreshFrom(tbl.next, rs, ag, s)

IsRingRecord(r) == r = [there |-> r.there, map |-> r.map, recs |-> r.recs]
IsRing(r) ==
  /\ IsRingRecord(r) /\ r.there \in BOOLEAN
  /\ \E S : r.map \in Seq(S)
  /\ ~r.there => r.recs = {}
AreRings(rs) ==
  /\ rs = [id \in PlantIds |-> rs[id]]
  /\ \A id \in PlantIds :
       rs[id] = [t \in Plants!Tiers |-> rs[id][t]] /\ \A t \in Plants!Tiers : IsRing(rs[id][t])
AreHours(ag) == ag = [id \in PlantIds |-> ag[id]]
IsPlantRecord(p) == p = [birth |-> p.birth, mac |-> p.mac, caps |-> p.caps]
IsPlantTable(t) == t = [plants |-> t.plants, next |-> t.next]
IsPlants(t) ==
  /\ IsPlantTable(t) /\ t.next \in Nat \ {0}
  /\ t.plants = [id \in DOMAIN t.plants |-> t.plants[id]]
  /\ \A id \in DOMAIN t.plants : id \in PlantIds /\ id < t.next /\ IsPlantRecord(t.plants[id])
IsSamplerRecord(s) ==
  s = [at |-> s.at, ids |-> s.ids, id |-> s.id, birth |-> s.birth, caps |-> s.caps, col |-> s.col,
       rec |-> s.rec]
IsSampler(s) == IsSamplerRecord(s) /\ (s.at \in Working => s.id \in PlantIds)
IsWebRecord(w) == w = [at |-> w.at, id |-> w.id]
IsWeb(w) ==
  IsWebRecord(w) /\ w.id \in PlantIds \cup {0} /\ (w.at \in Plants!Tiers => w.id \in PlantIds)

HistoryTypes ==
  /\ AreRings(rings) /\ AreHours(agg) /\ IsPlants(file) /\ IsPlants(table)
  /\ IsSampler(sampler) /\ IsWeb(web) /\ unsaved \in BOOLEAN

\* A file that holds a plant of the table holds the same one.
SameBirths(f, t) ==
  \A id \in DOMAIN f.plants : id \in DOMAIN t.plants => f.plants[id].birth = t.plants[id].birth

\* An id that plants.bin does not know is being written; with nothing bound if it is the
\* web server's, which has not answered yet.
BeingWritten(f, t, h, s) ==
  t.next # f.next =>
    \/ s.at = "write"
    \/ /\ h = [at |-> "write", id |-> 0]
       /\ \A id \in DOMAIN t.plants : id >= f.next => t.plants[id].caps = {}

\* The plant whose files go is in no table any more.
IsGone(id, t) == id \in PlantIds /\ id \notin DOMAIN t.plants /\ id < t.next
Removes(h, f, t, u) ==
  /\ h.at = "write" /\ h.id # 0 => IsGone(h.id, t)
  /\ h.at \in {"raw", "hourly", "drop"} => IsGone(h.id, t) /\ (~u => h.id \notin DOMAIN f.plants)

\* The rings and the table on flash belong together: no wipe is under way.
Together == boot \in {"load", "up"} \/ format = "current"

NotUp ==
  boot # "up" =>
    /\ table = Plants!EmptyTable /\ unsaved = FALSE /\ agg = Plants!NoAgg
    /\ web = Plants!WebIdle /\ sampler = Plants!SamplerIdle
BootHeld ==
  boot \in {"wipe", "wipe rings", "load", "up"} /\ (boot = "wipe rings" => file = Plants!EmptyTable)
UpHeld ==
  boot = "up" =>
    /\ file.next <= table.next /\ SameBirths(file, table) /\ Removes(web, file, table, unsaved)
    /\ ~unsaved => BeingWritten(file, table, web, sampler)
    /\ IsHistory(table, rings, agg, sampler)

HistoryInv ==
  /\ HistoryTypes /\ NotUp
  /\ ~tainted =>
       /\ BootHeld /\ UpHeld
       /\ ~unsaved /\ Together => IsHistory(file, rings, agg, sampler)

-----------------------------------------------------------------------------
(* The operators of the model on rings *)

\* One ring is replaced.
LEMMA RingSet ==
  ASSUME NEW rs, AreRings(rs), NEW id \in PlantIds, NEW t \in Plants!Tiers, NEW v
  PROVE  /\ [rs EXCEPT ![id][t] = v][id][t] = v
         /\ \A i \in PlantIds, x \in Plants!Tiers :
              <<i, x>> # <<id, t>> => [rs EXCEPT ![id][t] = v][i][x] = rs[i][x]
         /\ IsRing(v) => AreRings([rs EXCEPT ![id][t] = v])
<1> DEFINE old == rs[id]
           new == [old EXCEPT ![t] = v]
           out == [rs EXCEPT ![id] = new]
<1>1. old = [x \in Plants!Tiers |-> old[x]] /\ \A x \in Plants!Tiers : IsRing(old[x])
  BY DEF AreRings
<1>2. rs = [i \in PlantIds |-> rs[i]]
  BY DEF AreRings
<1> HIDE DEF old
<1>3. new = [x \in Plants!Tiers |-> new[x]] /\ new[t] = v /\ \A x \in Plants!Tiers : x # t => new[x] = old[x]
  BY <1>1
<1> HIDE DEF new
<1>4. out = [i \in PlantIds |-> out[i]] /\ out[id] = new /\ \A i \in PlantIds : i # id => out[i] = rs[i]
  BY <1>2
<1> HIDE DEF out
<1>5. out[id][t] = v
  BY <1>3, <1>4
<1>6. \A i \in PlantIds, x \in Plants!Tiers : <<i, x>> # <<id, t>> => out[i][x] = rs[i][x]
  BY <1>3, <1>4 DEF old
<1>7. ASSUME IsRing(v)
      PROVE  AreRings(out)
  <2>1. \A x \in Plants!Tiers : IsRing(new[x])
    BY <1>1, <1>3, <1>7
  <2>2. QED
    BY <1>3, <1>4, <2>1 DEF AreRings
<1>8. out = [rs EXCEPT ![id][t] = v]
  BY DEF out, new, old
<1>9. QED
  BY <1>5, <1>6, <1>7, <1>8

\* A field of a ring is replaced.
LEMMA ThereSet ==
  ASSUME NEW r, IsRingRecord(r), NEW v
  PROVE  LET m == [r EXCEPT !.there = v]
         IN  m.there = v /\ m.map = r.map /\ m.recs = r.recs /\ IsRingRecord(m)
BY DEF IsRingRecord

LEMMA MapSet ==
  ASSUME NEW r, IsRingRecord(r), NEW v
  PROVE  LET m == [r EXCEPT !.map = v]
         IN  m.map = v /\ m.there = r.there /\ m.recs = r.recs /\ IsRingRecord(m)
BY DEF IsRingRecord

LEMMA RecsSet ==
  ASSUME NEW r, IsRingRecord(r), NEW v
  PROVE  LET m == [r EXCEPT !.recs = v]
         IN  m.recs = v /\ m.there = r.there /\ m.map = r.map /\ IsRingRecord(m)
BY DEF IsRingRecord

\* history_map_ensure(): the columns there were are as they were, and c has one.
LEMMA MappedIs ==
  ASSUME NEW r, IsRing(r), NEW c
  PROVE  /\ IsRing(Plants!Mapped(r, c)) /\ Plants!Mapped(r, c).recs = r.recs
         /\ \A e : Says(r.map, e) => Says(Plants!Mapped(r, c).map, e)
         /\ \A b : Says(Plants!Mapped(r, c).map, <<b, Plants!Column(Plants!Mapped(r, c), c), c>>)
<1> DEFINE m == Plants!Mapped(r, c)
           new == IF \E i \in DOMAIN r.map : r.map[i] = c THEN r.map ELSE Append(r.map, c)
           one == [r EXCEPT !.there = TRUE]
<1>1. m.there = TRUE /\ m.map = new /\ m.recs = r.recs /\ IsRingRecord(m)
  <2> DEFINE two == [one EXCEPT !.map = new]
  <2>1. one.there = TRUE /\ one.map = r.map /\ one.recs = r.recs /\ IsRingRecord(one)
    BY ThereSet DEF IsRing
  <2>2. m = [one EXCEPT !.map = IF \E i \in DOMAIN @ : @[i] = c THEN @ ELSE Append(@, c)]
    BY DEF Plants!Mapped
  <2> HIDE DEF one, m
  <2>3. m = two
    BY <2>1, <2>2
  <2>4. two.map = new /\ two.there = TRUE /\ two.recs = r.recs /\ IsRingRecord(two)
    <3> HIDE DEF new
    <3>1. QED
      BY <2>1, MapSet
  <2>5. QED
    BY <2>3, <2>4
<1>2. PICK S : r.map \in Seq(S)
  BY DEF IsRing
<1>3. /\ \E T : new \in Seq(T)
      /\ \A i \in DOMAIN r.map : i \in DOMAIN new /\ new[i] = r.map[i]
      /\ \E i \in DOMAIN new : new[i] = c
  <2>1. CASE \E i \in DOMAIN r.map : r.map[i] = c
    BY <1>2, <2>1
  <2>2. CASE ~\E i \in DOMAIN r.map : r.map[i] = c
    <3>1. new = Append(r.map, c)
      BY <2>2
    <3>2. r.map \in Seq(S \cup {c})
      BY <1>2
    <3>3. /\ Append(r.map, c) \in Seq(S \cup {c}) /\ Len(r.map) \in Nat
          /\ DOMAIN r.map = 1 .. Len(r.map) /\ DOMAIN Append(r.map, c) = 1 .. Len(r.map) + 1
          /\ \A i \in 1 .. Len(r.map) : Append(r.map, c)[i] = r.map[i]
          /\ Append(r.map, c)[Len(r.map) + 1] = c
      BY <3>2
    <3>4. Len(r.map) + 1 \in DOMAIN Append(r.map, c)
      BY <3>3
    <3>5. \A i \in DOMAIN r.map : i \in DOMAIN Append(r.map, c)
      BY <3>3
    <3>6. QED
      BY <3>1, <3>3, <3>4, <3>5
  <2>3. QED
    BY <2>1, <2>2
<1> HIDE DEF new
<1> HIDE DEF m, one
<1>4. m.there = TRUE /\ m.map = new /\ m.recs = r.recs /\ IsRingRecord(m)
  BY <1>1
<1>5. \E i \in DOMAIN m.map : m.map[i] = c
  BY <1>3, <1>4
<1> DEFINE k == Plants!Column(m, c)
<1>6. k \in DOMAIN m.map /\ m.map[k] = c
  BY <1>5 DEF Plants!Column
<1> HIDE DEF k
<1>7. IsRing(m)
  BY <1>3, <1>4 DEF IsRing
<1>8. \A e : Says(r.map, e) => Says(m.map, e)
  BY <1>3, <1>4 DEF Says
<1>9. \A b : Says(m.map, <<b, k, c>>)
  BY <1>6 DEF Says
<1>10. QED
  BY <1>4, <1>7, <1>8, <1>9 DEF m, k

\* storage_append(): the file is there and has what it had and what is appended.
Appended(rs, id, t, X) == [rs EXCEPT ![id][t].there = TRUE, ![id][t].recs = @ \cup X]
LEMMA AppendedIs ==
  ASSUME NEW rs, AreRings(rs), NEW id \in PlantIds, NEW t \in Plants!Tiers, NEW X
  PROVE  LET out == Appended(rs, id, t, X)
         IN  /\ AreRings(out)
             /\ \A i \in PlantIds, x \in Plants!Tiers :
                  /\ out[i][x].map = rs[i][x].map
                  /\ \A e \in out[i][x].recs : e \in rs[i][x].recs \/ (i = id /\ x = t /\ e \in X)
<1> DEFINE r == rs[id][t]
           there == [r EXCEPT !.there = TRUE]
           one == [rs EXCEPT ![id][t] = there]
           full == [there EXCEPT !.recs = @ \cup X]
           out == [one EXCEPT ![id][t] = full]
<1>1. IsRing(r)
  BY DEF AreRings
<1>2. there.there = TRUE /\ there.map = r.map /\ there.recs = r.recs /\ IsRingRecord(there)
  <2> HIDE DEF r
  <2>1. QED
    BY <1>1, ThereSet DEF IsRing
<1> HIDE DEF r, there
<1>3. IsRing(there)
  BY <1>1, <1>2 DEF IsRing
<1>4. /\ AreRings(one) /\ one[id][t] = there
      /\ \A i \in PlantIds, x \in Plants!Tiers : <<i, x>> # <<id, t>> => one[i][x] = rs[i][x]
  BY <1>3, RingSet
<1>5. full.recs = r.recs \cup X /\ full.there = TRUE /\ full.map = r.map /\ IsRingRecord(full)
  <2> DEFINE all == r.recs \cup X
  <2>1. full = [there EXCEPT !.recs = all]
    BY <1>2
  <2> HIDE DEF all, full
  <2>2. full.recs = all /\ full.there = TRUE /\ full.map = r.map /\ IsRingRecord(full)
    BY <1>2, <2>1, RecsSet
  <2>3. QED
    BY <2>2 DEF all
<1> HIDE DEF full, one
<1>6. IsRing(full)
  BY <1>1, <1>5 DEF IsRing
<1>7. /\ AreRings(out) /\ out[id][t] = full
      /\ \A i \in PlantIds, x \in Plants!Tiers : <<i, x>> # <<id, t>> => out[i][x] = one[i][x]
  BY <1>4, <1>6, RingSet
<1>8. out = Appended(rs, id, t, X)
  <2>1. one = [rs EXCEPT ![id][t].there = TRUE]
    BY DEF one, there, r
  <2>2. out = [one EXCEPT ![id][t].recs = @ \cup X]
    BY <1>4 DEF full
  <2> HIDE DEF out
  <2>3. QED
    BY <2>1, <2>2 DEF Appended
<1> HIDE DEF out
<1>9. \A i \in PlantIds, x \in Plants!Tiers :
        /\ out[i][x].map = rs[i][x].map
        /\ \A e \in out[i][x].recs : e \in rs[i][x].recs \/ (i = id /\ x = t /\ e \in X)
  <2>1. TAKE i \in PlantIds, x \in Plants!Tiers
  <2>2. CASE <<i, x>> = <<id, t>>
    <3>1. i = id /\ x = t
      BY <2>2
    <3>2. QED
      BY <1>5, <1>7, <3>1 DEF r
  <2>3. CASE <<i, x>> # <<id, t>>
    BY <1>4, <1>7, <2>3
  <2>4. QED
    BY <2>2, <2>3
<1>10. QED
  BY <1>7, <1>8, <1>9

\* A file that is made is empty, and one that is there is as it was.
LEMMA MadeIs ==
  ASSUME NEW rs, AreRings(rs), NEW id \in PlantIds, NEW t \in Plants!Tiers
  PROVE  LET out == [rs EXCEPT ![id][t].there = TRUE]
         IN  /\ AreRings(out)
             /\ \A i \in PlantIds, x \in Plants!Tiers :
                  out[i][x].map = rs[i][x].map /\ out[i][x].recs = rs[i][x].recs
<1> DEFINE r == rs[id][t]
           there == [r EXCEPT !.there = TRUE]
           out == [rs EXCEPT ![id][t] = there]
<1>1. IsRing(r)
  BY DEF AreRings
<1>2. there.there = TRUE /\ there.map = r.map /\ there.recs = r.recs /\ IsRingRecord(there)
  <2> HIDE DEF r
  <2>1. QED
    BY <1>1, ThereSet DEF IsRing
<1> HIDE DEF r, there
<1>3. IsRing(there)
  BY <1>1, <1>2 DEF IsRing
<1>4. /\ AreRings(out) /\ out[id][t] = there
      /\ \A i \in PlantIds, x \in Plants!Tiers : <<i, x>> # <<id, t>> => out[i][x] = rs[i][x]
  BY <1>3, RingSet
<1>5. out = [rs EXCEPT ![id][t].there = TRUE]
  BY DEF out, there, r
<1> HIDE DEF out
<1>6. \A i \in PlantIds, x \in Plants!Tiers :
        out[i][x].map = rs[i][x].map /\ out[i][x].recs = rs[i][x].recs
  BY <1>2, <1>4 DEF r
<1>7. QED
  BY <1>4, <1>5, <1>6

-----------------------------------------------------------------------------
(* The sampler in the middle of a plant *)

\* A field of the sampler's state is replaced.
LEMMA AtSet ==
  ASSUME NEW s, IsSamplerRecord(s), NEW v
  PROVE  LET m == [s EXCEPT !.at = v]
         IN  /\ m.at = v /\ m.ids = s.ids /\ m.id = s.id /\ m.birth = s.birth /\ m.caps = s.caps
             /\ m.col = s.col /\ m.rec = s.rec /\ IsSamplerRecord(m)
BY DEF IsSamplerRecord

LEMMA ColSet ==
  ASSUME NEW s, IsSamplerRecord(s), NEW v
  PROVE  LET m == [s EXCEPT !.col = v]
         IN  /\ m.col = v /\ m.ids = s.ids /\ m.id = s.id /\ m.birth = s.birth /\ m.caps = s.caps
             /\ m.at = s.at /\ m.rec = s.rec /\ IsSamplerRecord(m)
BY DEF IsSamplerRecord

LEMMA CapsSet ==
  ASSUME NEW s, IsSamplerRecord(s), NEW v
  PROVE  LET m == [s EXCEPT !.caps = v]
         IN  /\ m.caps = v /\ m.ids = s.ids /\ m.id = s.id /\ m.birth = s.birth /\ m.col = s.col
             /\ m.at = s.at /\ m.rec = s.rec /\ IsSamplerRecord(m)
BY DEF IsSamplerRecord

LEMMA RecSet ==
  ASSUME NEW s, IsSamplerRecord(s), NEW v
  PROVE  LET m == [s EXCEPT !.rec = v]
         IN  /\ m.rec = v /\ m.ids = s.ids /\ m.id = s.id /\ m.birth = s.birth /\ m.col = s.col
             /\ m.at = s.at /\ m.caps = s.caps /\ IsSamplerRecord(m)
BY DEF IsSamplerRecord

LEMMA IdsSet ==
  ASSUME NEW s, IsSamplerRecord(s), NEW v
  PROVE  LET m == [s EXCEPT !.ids = v]
         IN  /\ m.ids = v /\ m.rec = s.rec /\ m.id = s.id /\ m.birth = s.birth /\ m.col = s.col
             /\ m.at = s.at /\ m.caps = s.caps /\ IsSamplerRecord(m)
BY DEF IsSamplerRecord

LEMMA IdSet ==
  ASSUME NEW s, IsSamplerRecord(s), NEW v
  PROVE  LET m == [s EXCEPT !.id = v]
         IN  /\ m.id = v /\ m.rec = s.rec /\ m.ids = s.ids /\ m.birth = s.birth /\ m.col = s.col
             /\ m.at = s.at /\ m.caps = s.caps /\ IsSamplerRecord(m)
BY DEF IsSamplerRecord

LEMMA BirthSet ==
  ASSUME NEW s, IsSamplerRecord(s), NEW v
  PROVE  LET m == [s EXCEPT !.birth = v]
         IN  /\ m.birth = v /\ m.rec = s.rec /\ m.ids = s.ids /\ m.id = s.id /\ m.col = s.col
             /\ m.at = s.at /\ m.caps = s.caps /\ IsSamplerRecord(m)
BY DEF IsSamplerRecord

\* The next capability, with what is in hand.
LEMMA NextCapIs ==
  ASSUME NEW s, IsSamplerRecord(s)
  PROVE  LET m == Plants!NextCap(s)
         IN  /\ m.at \in {"raw", "append", "plant"} /\ m.id = s.id /\ m.birth = s.birth /\ m.rec = s.rec
             /\ IsSamplerRecord(m)
<1> DEFINE where == IF Len(s.caps) > 1 THEN "raw" ELSE IF s.rec # {} THEN "append" ELSE "plant"
           one == [s EXCEPT !.caps = Tail(@)]
           left == Tail(s.caps)
           m == Plants!NextCap(s)
<1>1. one = [s EXCEPT !.caps = left]
  OBVIOUS
<1>2. where \in {"raw", "append", "plant"}
  OBVIOUS
<1>3. m = [one EXCEPT !.col = 0, !.at = where]
  BY DEF Plants!NextCap
<1> HIDE DEF left, one, where, m
<1>4. one.id = s.id /\ one.birth = s.birth /\ one.rec = s.rec /\ IsSamplerRecord(one)
  BY <1>1, CapsSet
<1> DEFINE two == [one EXCEPT !.col = 0]
<1>5. two.id = s.id /\ two.birth = s.birth /\ two.rec = s.rec /\ IsSamplerRecord(two)
  BY <1>4, ColSet
<1>6. m = [two EXCEPT !.at = where]
  BY <1>3
<1> HIDE DEF two
<1>7. m.at = where /\ m.id = s.id /\ m.birth = s.birth /\ m.rec = s.rec /\ IsSamplerRecord(m)
  BY <1>5, <1>6, AtSet
<1>8. QED
  BY <1>2, <1>7 DEF m

\* A plant's record stays its own: the columns there are stay, and what is added to the
\* files and to the hour was measured at it.
LEMMA OwnGrows ==
  ASSUME NEW f, NEW f2, NEW h, NEW h2, NEW s, NEW s2, NEW id, NEW b,
         IsOwn(f, h, s, id, b),
         \A t \in Plants!Tiers : \A e : Says(f[t].map, e) => Says(f2[t].map, e),
         \A t \in Plants!Tiers : \A e \in f2[t].recs :
           e \in f[t].recs \/ (e[1] = b /\ Says(f[t].map, e)),
         \A e \in h2 : e \in h \/ (e[1] = b /\ Says(f["hourly"].map, e)),
         s2.at \in Working /\ s2.id = id => InHandOf(s2, f2, b)
  PROVE  IsOwn(f2, h2, s2, id, b)
<1>1. "hourly" \in Plants!Tiers
  BY DEF Plants!Tiers
<1>2. \A t \in Plants!Tiers : BelongTo(f2[t].recs, f2[t].map, b)
  BY DEF IsOwn, BelongTo
<1>3. BelongTo(h2, f2["hourly"].map, b)
  BY <1>1 DEF IsOwn, BelongTo
<1>4. QED
  BY <1>2, <1>3 DEF IsOwn

\* What holds of each plant's files holds of all.
LEMMA HistoryByPlant ==
  ASSUME NEW t, IsPlants(t), NEW rs, NEW ag, NEW s, NEW rs2, NEW ag2, NEW s2,
         IsHistory(t, rs, ag, s),
         \A id \in DOMAIN t.plants :
           IsOwn(rs[id], ag[id], s, id, t.plants[id].birth)
             => IsOwn(rs2[id], ag2[id], s2, id, t.plants[id].birth),
         \A id \in PlantIds :
           id >= t.next /\ IsFresh(rs[id], ag[id], s, id) => IsFresh(rs2[id], ag2[id], s2, id)
  PROVE  IsHistory(t, rs2, ag2, s2)
BY DEF IsHistory, OwnIn, FreshFrom

\* A step of the sampler changes the rings, the hours and where it is.
LEMMA SamplerFrame ==
  ASSUME HistoryInv, boot = "up", UNCHANGED <<format, file, table, unsaved, boot, web, tainted>>,
         sampler.at # "write", AreRings(rings'), AreHours(agg'), IsSampler(sampler'),
         IsHistory(table, rings, agg, sampler) => IsHistory(table, rings', agg', sampler'),
         ~unsaved /\ BeingWritten(file, table, web, sampler) /\ SameBirths(file, table)
           /\ IsHistory(file, rings, agg, sampler)
           => IsHistory(file, rings', agg', sampler')
  PROVE  HistoryInv'
<1>1. HistoryTypes'
  BY DEF HistoryInv, HistoryTypes
<1>2. NotUp'
  BY DEF HistoryInv, NotUp
<1>3. ASSUME ~tainted'
      PROVE  /\ BootHeld' /\ UpHeld'
             /\ (~unsaved /\ Together => IsHistory(file, rings, agg, sampler))'
  <2>1. BootHeld /\ UpHeld /\ (~unsaved /\ Together => IsHistory(file, rings, agg, sampler))
    BY <1>3 DEF HistoryInv
  <2>2. BootHeld'
    BY <2>1 DEF BootHeld
  <2>3. Together' <=> Together
    BY DEF Together
  <2>4. ~unsaved => BeingWritten(file, table, web, sampler)
    BY <2>1 DEF UpHeld
  <2>5. ~unsaved => BeingWritten(file, table, web, sampler)'
    BY <2>4 DEF BeingWritten
  <2>6. SameBirths(file, table)
    BY <2>1 DEF UpHeld
  <2>7. UpHeld'
    BY <2>1, <2>5 DEF UpHeld, SameBirths, Removes, IsGone
  <2>8. QED
    BY <2>1, <2>2, <2>3, <2>4, <2>6, <2>7
<1>4. QED
  BY <1>1, <1>2, <1>3 DEF HistoryInv

LEMMA SamplerIsUp ==
  ASSUME HistoryInv, sampler.at # "idle"
  PROVE  boot = "up"
<1>1. Plants!SamplerIdle.at = "idle"
  BY DEF Plants!SamplerIdle
<1>2. QED
  BY <1>1 DEF HistoryInv, NotUp

\* The same, of a step that takes every plant further that is at its own, and no other.
LEMMA SamplerGrows ==
  ASSUME HistoryInv, boot = "up", UNCHANGED <<format, file, table, unsaved, boot, web, tainted>>,
         sampler.at # "write", AreRings(rings'), AreHours(agg'), IsSampler(sampler'),
         \A id \in PlantIds : \A b :
           IsOwn(rings[id], agg[id], sampler, id, b) => IsOwn(rings'[id], agg'[id], sampler', id, b),
         \A id \in PlantIds :
           IsFresh(rings[id], agg[id], sampler, id) => IsFresh(rings'[id], agg'[id], sampler', id)
  PROVE  HistoryInv'
<1>1. IsPlants(table) /\ IsPlants(file)
  BY DEF HistoryInv, HistoryTypes
<1>2. ASSUME NEW t, IsPlants(t), IsHistory(t, rings, agg, sampler)
      PROVE  IsHistory(t, rings', agg', sampler')
  <2>1. \A id \in DOMAIN t.plants : id \in PlantIds
    BY <1>2 DEF IsPlants
  <2>2. QED
    BY <1>2, <2>1, HistoryByPlant
<1>3. IsHistory(table, rings, agg, sampler) => IsHistory(table, rings', agg', sampler')
  BY <1>1, <1>2
<1>4. IsHistory(file, rings, agg, sampler) => IsHistory(file, rings', agg', sampler')
  BY <1>1, <1>2
<1>5. QED
  BY <1>3, <1>4, SamplerFrame

\* A step that only asks the next capability keeps what is in hand.
LEMMA NextCapOwn ==
  ASSUME NEW s, IsSamplerRecord(s), NEW f, NEW b, \A t \in Plants!Tiers : BelongTo(s.rec, f[t].map, b),
         s.birth = b
  PROVE  InHandOf(Plants!NextCap(s), f, b)
<1> DEFINE m == Plants!NextCap(s)
<1>1. m.at \in {"raw", "append", "plant"} /\ m.birth = s.birth /\ m.rec = s.rec
  BY NextCapIs
<1> HIDE DEF m
<1>2. InHandOf(m, f, b)
  BY <1>1 DEF InHandOf
<1>3. QED
  BY <1>2 DEF m

LEMMA EnsureRawStep == HistoryInv /\ Plants!EnsureRaw => HistoryInv'
<1> DEFINE sid == sampler.id
           c == Head(sampler.caps)
           ring == Plants!Mapped(rings[sid]["raw"], c)
           col == Plants!Column(ring, c)
           next == Plants!NextCap(sampler)
           asked == [sampler EXCEPT !.at = "hourly", !.col = col]
           failed == [sampler EXCEPT !.at = "hourly", !.col = 0]
<1> SUFFICES ASSUME HistoryInv, Plants!EnsureRaw
             PROVE  HistoryInv'
  OBVIOUS
<1>1. sampler.at = "raw" /\ UNCHANGED <<format, file, table, unsaved, boot, web, tainted, agg>>
  BY DEF Plants!EnsureRaw, Plants!samplerOnly
<1>2. boot = "up"
  BY <1>1, SamplerIsUp
<1>3. AreRings(rings) /\ AreHours(agg) /\ IsSampler(sampler)
  BY DEF HistoryInv, HistoryTypes
<1>4. sid \in PlantIds /\ IsSamplerRecord(sampler) /\ "raw" \in Plants!Tiers /\ "hourly" \in Plants!Tiers
  BY <1>1, <1>3 DEF IsSampler, Working, Plants!Tiers
<1>5. IsRing(rings[sid]["raw"])
  BY <1>3, <1>4 DEF AreRings
<1>6. /\ IsRing(ring) /\ ring.recs = rings[sid]["raw"].recs
      /\ \A e : Says(rings[sid]["raw"].map, e) => Says(ring.map, e)
      /\ \A b : Says(ring.map, <<b, col, c>>)
  BY <1>5, MappedIs
<1>7. /\ next.at \in {"raw", "append", "plant"} /\ next.id = sid /\ next.birth = sampler.birth
      /\ next.rec = sampler.rec /\ IsSamplerRecord(next)
  BY <1>4, NextCapIs
<1>8. \/ sampler' = next /\ rings' = rings
      \/ sampler' = asked /\ rings' = [rings EXCEPT ![sid]["raw"] = ring]
      \/ sampler' = failed /\ rings' = rings
  BY DEF Plants!EnsureRaw, Plants!Breaks
<1> HIDE DEF ring, col, next
<1> DEFINE hourly == [sampler EXCEPT !.at = "hourly"]
<1>9. /\ hourly.at = "hourly" /\ hourly.id = sid /\ hourly.birth = sampler.birth
      /\ hourly.caps = sampler.caps /\ hourly.rec = sampler.rec /\ IsSamplerRecord(hourly)
  BY <1>4, AtSet
<1>10. asked = [hourly EXCEPT !.col = col] /\ failed = [hourly EXCEPT !.col = 0]
  OBVIOUS
<1> HIDE DEF hourly, asked, failed
<1>11. /\ asked.at = "hourly" /\ asked.id = sid /\ asked.birth = sampler.birth /\ asked.col = col
       /\ asked.caps = sampler.caps /\ asked.rec = sampler.rec /\ IsSamplerRecord(asked)
  BY <1>9, <1>10, ColSet
<1>12. /\ failed.at = "hourly" /\ failed.id = sid /\ failed.birth = sampler.birth /\ failed.col = 0
       /\ failed.rec = sampler.rec /\ IsSamplerRecord(failed)
  BY <1>9, <1>10, ColSet
<1>13. IsSampler(sampler') /\ sampler'.id = sid /\ sampler'.birth = sampler.birth /\ sampler'.rec = sampler.rec
  BY <1>4, <1>7, <1>8, <1>11, <1>12 DEF IsSampler
<1> DEFINE put == [rings EXCEPT ![sid]["raw"] = ring]
<1>14. /\ AreRings(put) /\ put[sid]["raw"] = ring
       /\ \A i \in PlantIds, x \in Plants!Tiers : <<i, x>> # <<sid, "raw">> => put[i][x] = rings[i][x]
  BY <1>3, <1>4, <1>6, RingSet
<1> HIDE DEF put
<1>15. AreRings(rings')
  BY <1>3, <1>8, <1>14 DEF put
<1>16. \A i \in PlantIds, x \in Plants!Tiers :
         /\ rings'[i][x].recs = rings[i][x].recs
         /\ \A e : Says(rings[i][x].map, e) => Says(rings'[i][x].map, e)
  <2>1. TAKE i \in PlantIds, x \in Plants!Tiers
  <2>2. CASE rings' = rings
    BY <2>2
  <2>3. CASE rings' = put
    <3>1. CASE i = sid /\ x = "raw"
      BY <1>6, <1>14, <2>3, <3>1
    <3>2. CASE ~(i = sid /\ x = "raw")
      BY <1>14, <2>3, <3>2
    <3>3. QED
      BY <3>1, <3>2
  <2>4. QED
    BY <1>8, <2>2, <2>3 DEF put
<1>17. ASSUME NEW id \in PlantIds, NEW b, IsOwn(rings[id], agg[id], sampler, id, b)
       PROVE  IsOwn(rings'[id], agg'[id], sampler', id, b)
  <2>1. ASSUME id = sid
        PROVE  InHandOf(sampler', rings'[id], b)
    <3>1. InHandOf(sampler, rings[id], b)
      BY <1>1, <1>17, <2>1 DEF IsOwn, Working
    <3>2. sampler'.birth = b
      BY <1>13, <3>1 DEF InHandOf
    <3>3. \A t \in Plants!Tiers : BelongTo(sampler'.rec, rings'[id][t].map, b)
      BY <1>13, <1>16, <3>1 DEF InHandOf, BelongTo
    <3>4. sampler'.at = "hourly" /\ sampler'.col # 0 => Says(rings'[id]["raw"].map, <<b, sampler'.col, Head(sampler'.caps)>>)
      <4>1. CASE sampler' = asked /\ rings' = put
        <5>1. rings'[id]["raw"] = ring
          BY <1>14, <2>1, <4>1
        <5>2. QED
          BY <1>6, <1>11, <4>1, <5>1
      <4>2. CASE sampler' = next \/ sampler' = failed
        BY <1>7, <1>12, <4>2
      <4>3. QED
        BY <1>8, <4>1, <4>2 DEF put
    <3>5. QED
      BY <3>2, <3>3, <3>4 DEF InHandOf
  <2>2. \A t \in Plants!Tiers : \A e : Says(rings[id][t].map, e) => Says(rings'[id][t].map, e)
    BY <1>16
  <2>3. \A t \in Plants!Tiers : \A e \in rings'[id][t].recs : e \in rings[id][t].recs
    BY <1>16
  <2>4. agg'[id] = agg[id]
    BY <1>1
  <2>5. QED
    BY <1>13, <1>17, <2>1, <2>2, <2>3, <2>4, OwnGrows
<1>18. ASSUME NEW id \in PlantIds, IsFresh(rings[id], agg[id], sampler, id)
       PROVE  IsFresh(rings'[id], agg'[id], sampler', id)
  BY <1>1, <1>13, <1>16, <1>18 DEF IsFresh, Working
<1>19. QED
  BY <1>1, <1>2, <1>3, <1>13, <1>15, <1>17, <1>18, SamplerGrows

LEMMA EnsureHourlyStep == HistoryInv /\ Plants!EnsureHourly => HistoryInv'
<1> DEFINE sid == sampler.id
           c == Head(sampler.caps)
           col == sampler.col
           ring == Plants!Mapped(rings[sid]["hourly"], c)
           more == {e \in sampler.rec : e[2] # col} \cup {<<sampler.birth, col, c>>}
           taken == [sampler EXCEPT !.rec = more]
           kept == Plants!NextCap(sampler)
           with == Plants!NextCap(taken)
           put == [rings EXCEPT ![sid]["hourly"] = ring]
<1> SUFFICES ASSUME HistoryInv, Plants!EnsureHourly
             PROVE  HistoryInv'
  OBVIOUS
<1>1. sampler.at = "hourly" /\ UNCHANGED <<format, file, table, unsaved, boot, web, tainted, agg>>
  BY DEF Plants!EnsureHourly, Plants!samplerOnly
<1>2. boot = "up"
  BY <1>1, SamplerIsUp
<1>3. AreRings(rings) /\ AreHours(agg) /\ IsSampler(sampler)
  BY DEF HistoryInv, HistoryTypes
<1>4. sid \in PlantIds /\ IsSamplerRecord(sampler) /\ "raw" \in Plants!Tiers /\ "hourly" \in Plants!Tiers
  BY <1>1, <1>3 DEF IsSampler, Working, Plants!Tiers
<1>5. IsRing(rings[sid]["hourly"])
  BY <1>3, <1>4 DEF AreRings
<1>6. /\ IsRing(ring) /\ ring.recs = rings[sid]["hourly"].recs
      /\ \A e : Says(rings[sid]["hourly"].map, e) => Says(ring.map, e)
      /\ \A b : Says(ring.map, <<b, Plants!Column(ring, c), c>>)
  BY <1>5, MappedIs
<1>7. \/ sampler' = kept /\ (rings' = rings \/ rings' = put)
      \/ sampler' = with /\ rings' = put /\ col # 0 /\ col = Plants!Column(ring, c)
  BY DEF Plants!EnsureHourly, Plants!Breaks, Plants!Agree
<1> HIDE DEF more, ring
<1>8. IsSamplerRecord(taken) /\ taken.id = sid /\ taken.birth = sampler.birth /\ taken.rec = more
  BY <1>4, RecSet
<1>9. /\ kept.at \in {"raw", "append", "plant"} /\ kept.id = sid /\ kept.birth = sampler.birth
      /\ kept.rec = sampler.rec /\ IsSamplerRecord(kept)
  BY <1>4, NextCapIs
<1> HIDE DEF taken, kept
<1>10. /\ with.at \in {"raw", "append", "plant"} /\ with.id = sid /\ with.birth = sampler.birth
       /\ with.rec = more /\ IsSamplerRecord(with)
  BY <1>8, NextCapIs
<1>11. /\ AreRings(put) /\ put[sid]["hourly"] = ring
       /\ \A i \in PlantIds, x \in Plants!Tiers : <<i, x>> # <<sid, "hourly">> => put[i][x] = rings[i][x]
  BY <1>3, <1>4, <1>6, RingSet
<1> HIDE DEF put, with
<1>12. IsSampler(sampler') /\ sampler'.id = sid /\ sampler'.birth = sampler.birth /\ sampler'.at \in {"raw", "append", "plant"}
  BY <1>4, <1>7, <1>9, <1>10 DEF IsSampler
<1>13. AreRings(rings')
  BY <1>3, <1>7, <1>11
<1>14. \A i \in PlantIds, x \in Plants!Tiers :
         /\ rings'[i][x].recs = rings[i][x].recs
         /\ \A e : Says(rings[i][x].map, e) => Says(rings'[i][x].map, e)
  <2>1. TAKE i \in PlantIds, x \in Plants!Tiers
  <2>2. CASE rings' = rings
    BY <2>2
  <2>3. CASE rings' = put
    <3>1. CASE i = sid /\ x = "hourly"
      BY <1>6, <1>11, <2>3, <3>1
    <3>2. CASE ~(i = sid /\ x = "hourly")
      BY <1>11, <2>3, <3>2
    <3>3. QED
      BY <3>1, <3>2
  <2>4. QED
    BY <1>7, <2>2, <2>3
<1>15. ASSUME NEW id \in PlantIds, NEW b, IsOwn(rings[id], agg[id], sampler, id, b)
       PROVE  IsOwn(rings'[id], agg'[id], sampler', id, b)
  <2>1. ASSUME id = sid
        PROVE  InHandOf(sampler', rings'[id], b)
    <3>1. InHandOf(sampler, rings[id], b)
      BY <1>1, <1>15, <2>1 DEF IsOwn, Working
    <3>2. sampler.birth = b /\ \A t \in Plants!Tiers : BelongTo(sampler.rec, rings[id][t].map, b)
      BY <3>1 DEF InHandOf
    <3>3. \A t \in Plants!Tiers : BelongTo(sampler.rec, rings'[id][t].map, b)
      BY <1>14, <3>2 DEF BelongTo
    <3>4. \A t \in Plants!Tiers : BelongTo(sampler'.rec, rings'[id][t].map, b)
      <4>1. CASE sampler' = kept
        BY <1>9, <3>3, <4>1
      <4>2. CASE sampler' = with /\ rings' = put /\ col # 0 /\ col = Plants!Column(ring, c)
        <5>1. Says(rings[id]["raw"].map, <<b, col, c>>)
          BY <1>1, <3>1, <4>2 DEF InHandOf
        <5>2. Says(rings'[id]["raw"].map, <<b, col, c>>)
          BY <1>4, <1>14, <5>1
        <5>3. Says(rings'[id]["hourly"].map, <<b, col, c>>)
          BY <1>6, <1>11, <2>1, <4>2
        <5>4. \A t \in Plants!Tiers : Says(rings'[id][t].map, <<b, col, c>>)
          BY <5>2, <5>3 DEF Plants!Tiers
        <5>5. \A e \in more : e \in sampler.rec \/ e = <<b, col, c>>
          BY <3>2 DEF more
        <5>6. <<b, col, c>>[1] = b
          OBVIOUS
        <5>7. \A t \in Plants!Tiers : BelongTo(more, rings'[id][t].map, b)
          <6>1. ASSUME NEW t \in Plants!Tiers, NEW e \in more
                PROVE  e[1] = b /\ Says(rings'[id][t].map, e)
            <7>1. CASE e \in sampler.rec
              BY <3>3, <7>1 DEF BelongTo
            <7>2. CASE e = <<b, col, c>>
              BY <5>4, <5>6, <7>2
            <7>3. QED
              BY <5>5, <7>1, <7>2
          <6>2. QED
            BY <6>1 DEF BelongTo
        <5>8. QED
          BY <1>10, <4>2, <5>7
      <4>3. QED
        BY <1>7, <4>1, <4>2
    <3>5. QED
      BY <1>12, <3>2, <3>4 DEF InHandOf
  <2>2. \A t \in Plants!Tiers : \A e : Says(rings[id][t].map, e) => Says(rings'[id][t].map, e)
    BY <1>14
  <2>3. \A t \in Plants!Tiers : \A e \in rings'[id][t].recs : e \in rings[id][t].recs
    BY <1>14
  <2>4. agg'[id] = agg[id]
    BY <1>1
  <2>5. QED
    BY <1>12, <1>15, <2>1, <2>2, <2>3, <2>4, OwnGrows
<1>16. ASSUME NEW id \in PlantIds, IsFresh(rings[id], agg[id], sampler, id)
       PROVE  IsFresh(rings'[id], agg'[id], sampler', id)
  BY <1>1, <1>12, <1>14, <1>16 DEF IsFresh, Working
<1>17. QED
  BY <1>1, <1>2, <1>3, <1>12, <1>13, <1>15, <1>16, SamplerGrows

\* storage_append(), whatever comes of it: the columns stay, and what a file gains is X.
LEMMA FiledIs ==
  ASSUME AreRings(rings), NEW t \in Plants!Tiers, NEW X, sampler.id \in PlantIds,
         rings' = rings \/ Plants!Appends(t, X) \/ Plants!CannotAppend(t)
  PROVE  /\ AreRings(rings')
         /\ \A i \in PlantIds, x \in Plants!Tiers :
              /\ rings'[i][x].map = rings[i][x].map
              /\ \A e \in rings'[i][x].recs :
                   e \in rings[i][x].recs \/ (i = sampler.id /\ x = t /\ e \in X)
<1> DEFINE sid == sampler.id
           more == Appended(rings, sid, t, X)
           made == [rings EXCEPT ![sid][t].there = TRUE]
<1>1. rings' = rings \/ rings' = more \/ rings' = made
  BY DEF Plants!Appends, Plants!CannotAppend, Appended
<1> sid \in PlantIds
  OBVIOUS
<1> HIDE DEF sid
<1>2. /\ AreRings(more)
      /\ \A i \in PlantIds, x \in Plants!Tiers :
           /\ more[i][x].map = rings[i][x].map
           /\ \A e \in more[i][x].recs : e \in rings[i][x].recs \/ (i = sid /\ x = t /\ e \in X)
  BY AppendedIs
<1>3. /\ AreRings(made)
      /\ \A i \in PlantIds, x \in Plants!Tiers :
           made[i][x].map = rings[i][x].map /\ made[i][x].recs = rings[i][x].recs
  BY MadeIs
<1> HIDE DEF more, made
<1>4. CASE rings' = more
  BY <1>2, <1>4 DEF sid
<1>5. CASE rings' = made
  BY <1>3, <1>5
<1>6. QED
  BY <1>1, <1>4, <1>5

LEMMA AppendRawStep == HistoryInv /\ Plants!AppendRaw => HistoryInv'
<1> DEFINE sid == sampler.id
<1> SUFFICES ASSUME HistoryInv, Plants!AppendRaw
             PROVE  HistoryInv'
  OBVIOUS
<1>1. sampler.at = "append" /\ UNCHANGED <<format, file, table, unsaved, boot, web, tainted, agg>>
  BY DEF Plants!AppendRaw, Plants!samplerOnly
<1>2. boot = "up"
  BY <1>1, SamplerIsUp
<1>3. AreRings(rings) /\ AreHours(agg) /\ IsSampler(sampler)
  BY DEF HistoryInv, HistoryTypes
<1>4. sid \in PlantIds /\ IsSamplerRecord(sampler) /\ "raw" \in Plants!Tiers
  BY <1>1, <1>3 DEF IsSampler, Working, Plants!Tiers
<1>5. Plants!Appends("raw", sampler.rec) \/ Plants!CannotAppend("raw")
  BY DEF Plants!AppendRaw
<1>6. /\ AreRings(rings')
      /\ \A i \in PlantIds, x \in Plants!Tiers :
           /\ rings'[i][x].map = rings[i][x].map
           /\ \A e \in rings'[i][x].recs :
                e \in rings[i][x].recs \/ (i = sid /\ x = "raw" /\ e \in sampler.rec)
  BY <1>3, <1>4, <1>5, FiledIs
<1>7. /\ IsSamplerRecord(sampler') /\ sampler'.id = sid /\ sampler'.birth = sampler.birth
      /\ sampler'.rec = sampler.rec /\ sampler'.at # "hourly"
  <2> DEFINE filed == [sampler EXCEPT !.at = "aggregate"]
             given == [sampler EXCEPT !.at = "plant"]
  <2>1. sampler' = filed \/ sampler' = given
    BY DEF Plants!AppendRaw
  <2>2. /\ IsSamplerRecord(filed) /\ filed.id = sid /\ filed.birth = sampler.birth
        /\ filed.rec = sampler.rec /\ filed.at = "aggregate"
    BY <1>4, AtSet
  <2>3. /\ IsSamplerRecord(given) /\ given.id = sid /\ given.birth = sampler.birth
        /\ given.rec = sampler.rec /\ given.at = "plant"
    BY <1>4, AtSet
  <2> HIDE DEF filed, given
  <2>4. QED
    BY <2>1, <2>2, <2>3
<1>8. IsSampler(sampler')
  BY <1>4, <1>7 DEF IsSampler
<1>9. ASSUME NEW id \in PlantIds, NEW b, IsOwn(rings[id], agg[id], sampler, id, b)
      PROVE  IsOwn(rings'[id], agg'[id], sampler', id, b)
  <2>1. ASSUME id = sid
        PROVE  InHandOf(sampler, rings[id], b)
    BY <1>1, <1>9, <2>1 DEF IsOwn, Working
  <2>2. ASSUME id = sid
        PROVE  InHandOf(sampler', rings'[id], b)
    BY <1>6, <1>7, <2>1, <2>2 DEF InHandOf, BelongTo
  <2>3. \A t \in Plants!Tiers : \A e : Says(rings[id][t].map, e) => Says(rings'[id][t].map, e)
    BY <1>6
  <2>4. ASSUME NEW t \in Plants!Tiers, NEW e \in rings'[id][t].recs
        PROVE  e \in rings[id][t].recs \/ (e[1] = b /\ Says(rings[id][t].map, e))
    BY <1>6, <2>1 DEF InHandOf, BelongTo
  <2>5. agg'[id] = agg[id]
    BY <1>1
  <2>6. QED
    BY <1>7, <1>9, <2>2, <2>3, <2>4, <2>5, OwnGrows
<1>10. ASSUME NEW id \in PlantIds, IsFresh(rings[id], agg[id], sampler, id)
       PROVE  IsFresh(rings'[id], agg'[id], sampler', id)
  <2>1. id # sid
    BY <1>1, <1>10 DEF IsFresh, Working
  <2>2. \A t \in Plants!Tiers : rings'[id][t].recs = {}
    BY <1>6, <1>10, <2>1 DEF IsFresh
  <2>3. QED
    BY <1>1, <1>7, <1>10, <2>1, <2>2 DEF IsFresh
<1>11. AreHours(agg')
  BY <1>1, <1>3
<1>12. QED
  BY <1>1, <1>2, <1>6, <1>8, <1>9, <1>10, <1>11, SamplerGrows

LEMMA AggregateStep == HistoryInv /\ Plants!Aggregate => HistoryInv'
<1> DEFINE sid == sampler.id
           hour == agg[sid]
           rec == sampler.rec
           both == hour \cup rec
<1> SUFFICES ASSUME HistoryInv, Plants!Aggregate
             PROVE  HistoryInv'
  OBVIOUS
<1>1. sampler.at = "aggregate" /\ UNCHANGED <<format, file, table, unsaved, boot, web, tainted>>
      /\ sampler' = [sampler EXCEPT !.at = "plant"]
  BY DEF Plants!Aggregate, Plants!samplerOnly
<1>2. boot = "up"
  BY <1>1, SamplerIsUp
<1>3. AreRings(rings) /\ AreHours(agg) /\ IsSampler(sampler)
  BY DEF HistoryInv, HistoryTypes
<1>4. sid \in PlantIds /\ IsSamplerRecord(sampler) /\ "hourly" \in Plants!Tiers
  BY <1>1, <1>3 DEF IsSampler, Working, Plants!Tiers
<1>5. /\ rings' = rings \/ Plants!Appends("hourly", hour) \/ Plants!CannotAppend("hourly")
      /\ agg' = [agg EXCEPT ![sid] = both] \/ agg' = [agg EXCEPT ![sid] = rec]
  BY DEF Plants!Aggregate
<1> HIDE DEF hour
<1>6. /\ AreRings(rings')
      /\ \A i \in PlantIds, x \in Plants!Tiers :
           /\ rings'[i][x].map = rings[i][x].map
           /\ \A e \in rings'[i][x].recs :
                e \in rings[i][x].recs \/ (i = sid /\ x = "hourly" /\ e \in hour)
  BY <1>3, <1>4, <1>5, FiledIs
<1>7. /\ IsSamplerRecord(sampler') /\ sampler'.at = "plant"
  BY <1>1, <1>4, AtSet
<1>8. IsSampler(sampler')
  BY <1>7 DEF IsSampler, Working
<1>9. /\ AreHours(agg')
      /\ \A i \in PlantIds : i # sid => agg'[i] = agg[i]
      /\ \A e \in agg'[sid] : e \in hour \/ e \in rec
  <2>1. ASSUME NEW v
        PROVE  LET a == [agg EXCEPT ![sid] = v]
               IN  /\ AreHours(a) /\ a[sid] = v /\ \A i \in PlantIds : i # sid => a[i] = agg[i]
    BY <1>3, <1>4 DEF AreHours
  <2>2. CASE agg' = [agg EXCEPT ![sid] = both]
    <3> HIDE DEF both
    <3>1. AreHours(agg') /\ agg'[sid] = both /\ \A i \in PlantIds : i # sid => agg'[i] = agg[i]
      BY <2>1, <2>2
    <3>2. QED
      BY <3>1 DEF both
  <2>3. CASE agg' = [agg EXCEPT ![sid] = rec]
    BY <2>1, <2>3
  <2>4. QED
    BY <1>5, <2>2, <2>3
<1>10. ASSUME NEW id \in PlantIds, NEW b, IsOwn(rings[id], agg[id], sampler, id, b)
       PROVE  IsOwn(rings'[id], agg'[id], sampler', id, b)
  <2>1. BelongTo(agg[id], rings[id]["hourly"].map, b)
    BY <1>10 DEF IsOwn
  <2>2. ASSUME id = sid
        PROVE  BelongTo(rec, rings[id]["hourly"].map, b)
    BY <1>1, <1>4, <1>10, <2>2 DEF IsOwn, Working, InHandOf
  <2>3. \A t \in Plants!Tiers : \A e : Says(rings[id][t].map, e) => Says(rings'[id][t].map, e)
    BY <1>6
  <2>4. ASSUME NEW t \in Plants!Tiers, NEW e \in rings'[id][t].recs
        PROVE  e \in rings[id][t].recs \/ (e[1] = b /\ Says(rings[id][t].map, e))
    BY <1>6, <2>1 DEF BelongTo, hour
  <2>5. ASSUME NEW e \in agg'[id]
        PROVE  e \in agg[id] \/ (e[1] = b /\ Says(rings[id]["hourly"].map, e))
    BY <1>9, <2>2 DEF BelongTo, hour
  <2>6. sampler'.at \notin Working
    BY <1>7 DEF Working
  <2>7. QED
    BY <1>10, <2>3, <2>4, <2>5, <2>6, OwnGrows
<1>11. ASSUME NEW id \in PlantIds, IsFresh(rings[id], agg[id], sampler, id)
       PROVE  IsFresh(rings'[id], agg'[id], sampler', id)
  <2>1. id # sid
    BY <1>1, <1>11 DEF IsFresh, Working
  <2>2. \A t \in Plants!Tiers : rings'[id][t].recs = {}
    BY <1>6, <1>11, <2>1 DEF IsFresh
  <2>3. QED
    BY <1>7, <1>9, <1>11, <2>1, <2>2 DEF IsFresh, Working
<1>12. QED
  BY <1>1, <1>2, <1>6, <1>8, <1>9, <1>10, <1>11, SamplerGrows

LEMMA TickStep == HistoryInv /\ Plants!Tick => HistoryInv'
<1> DEFINE ids == DOMAIN table.plants
           begun == [Plants!SamplerIdle EXCEPT !.at = "plant"]
           next == [begun EXCEPT !.ids = ids]
<1> SUFFICES ASSUME HistoryInv, Plants!Tick
             PROVE  HistoryInv'
  OBVIOUS
<1>1. /\ boot = "up" /\ sampler = Plants!SamplerIdle /\ sampler' = next /\ rings' = rings
      /\ UNCHANGED <<format, file, table, unsaved, boot, web, tainted>>
      /\ agg' = [id \in PlantIds |-> IF id \in ids THEN agg[id] ELSE {}]
  BY DEF Plants!Tick, Plants!samplerOnly, PlantIds
<1>2. AreRings(rings) /\ AreHours(agg)
  BY DEF HistoryInv, HistoryTypes
<1>3. sampler.at = "idle"
  BY <1>1 DEF Plants!SamplerIdle
<1>4. sampler'.at = "plant" /\ IsSamplerRecord(sampler')
  <2>1. IsSamplerRecord(Plants!SamplerIdle)
    BY DEF IsSamplerRecord, Plants!SamplerIdle
  <2>2. IsSamplerRecord(begun) /\ begun.at = "plant"
    BY <2>1, AtSet
  <2> HIDE DEF begun, ids
  <2>3. IsSamplerRecord(next) /\ next.at = "plant"
    BY <2>2, IdsSet
  <2> HIDE DEF next
  <2>4. QED
    BY <1>1, <2>3
<1> HIDE DEF next, begun
<1>5. AreHours(agg') /\ \A id \in PlantIds : agg'[id] = agg[id] \/ agg'[id] = {}
  BY <1>1 DEF AreHours
<1>6. IsSampler(sampler')
  BY <1>4 DEF IsSampler, Working
<1>7. ASSUME NEW id \in PlantIds, NEW b, IsOwn(rings[id], agg[id], sampler, id, b)
      PROVE  IsOwn(rings'[id], agg'[id], sampler', id, b)
  <2>1. sampler'.at \notin Working
    BY <1>4 DEF Working
  <2>2. QED
    BY <1>1, <1>5, <1>7, <2>1 DEF IsOwn, BelongTo
<1>8. ASSUME NEW id \in PlantIds, IsFresh(rings[id], agg[id], sampler, id)
      PROVE  IsFresh(rings'[id], agg'[id], sampler', id)
  <2>1. sampler'.at \notin Working
    BY <1>4 DEF Working
  <2>2. QED
    BY <1>1, <1>5, <1>8, <2>1 DEF IsFresh
<1>9. AreRings(rings') /\ sampler.at # "write"
  BY <1>1, <1>2, <1>3
<1>10. QED
  BY <1>1, <1>5, <1>6, <1>7, <1>8, <1>9, SamplerGrows

\* The plant the sampler takes up is in the table, with its birth, and in plants.bin if
\* that is up to date: one that is not there yet has nothing bound.
LEMMA NextPlantStep == HistoryInv /\ Plants!NextPlant => HistoryInv'
<1> SUFFICES ASSUME HistoryInv, Plants!NextPlant
             PROVE  HistoryInv'
  OBVIOUS
<1> DEFINE id == CHOOSE i \in sampler.ids : \A j \in sampler.ids : i <= j
           bound == IF id \in DOMAIN table.plants THEN table.plants[id].caps ELSE {}
<1>1. PICK fresh \in SUBSET bound :
        sampler' = [sampler EXCEPT !.ids = @ \ {id}, !.id = id,
             !.birth = IF bound = {} THEN 0 ELSE table.plants[id].birth,
             !.at = IF fresh = {} THEN "plant" ELSE "raw", !.rec = {},
             !.caps = CHOOSE s \in [1 .. Cardinality(fresh) -> fresh] :
                        \A i, j \in DOMAIN s : i # j => s[i] # s[j]]
  BY DEF Plants!NextPlant, Plants!Cardinality, Cardinality
<1> DEFINE ids == sampler.ids \ {id}
           birth == IF bound = {} THEN 0 ELSE table.plants[id].birth
           where == IF fresh = {} THEN "plant" ELSE "raw"
           caps == CHOOSE s \in [1 .. Cardinality(fresh) -> fresh] :
                        \A i, j \in DOMAIN s : i # j => s[i] # s[j]
           a1 == [sampler EXCEPT !.ids = ids]
           a2 == [a1 EXCEPT !.id = id]
           a3 == [a2 EXCEPT !.birth = birth]
           a4 == [a3 EXCEPT !.at = where]
           a5 == [a4 EXCEPT !.rec = {}]
           a6 == [a5 EXCEPT !.caps = caps]
<1>2. sampler.at = "plant" /\ UNCHANGED <<format, file, table, unsaved, boot, web, tainted, rings, agg>>
  BY DEF Plants!NextPlant, Plants!samplerOnly
<1>3. boot = "up"
  BY <1>2, SamplerIsUp
<1>4. AreRings(rings) /\ AreHours(agg) /\ IsSamplerRecord(sampler) /\ IsPlants(table) /\ IsPlants(file)
  BY DEF HistoryInv, HistoryTypes, IsSampler
<1>5. fresh # {} => id \in DOMAIN table.plants /\ birth = table.plants[id].birth /\ table.plants[id].caps # {}
  BY <1>1
<1>6. where = "plant" \/ (where = "raw" /\ fresh # {})
  OBVIOUS
<1>7. sampler' = a6
  <2> HIDE DEF ids, id, birth, where, caps
  <2>1. sampler' = [sampler EXCEPT !.ids = ids, !.id = id, !.birth = birth, !.at = where, !.rec = {}, !.caps = caps]
    BY <1>1 DEF ids, birth, where, caps
  <2>2. QED
    BY <2>1
<1> HIDE DEF ids, id, birth, where, caps, a1, a2, a3, a4, a5, a6
<1>8. IsSamplerRecord(a1)
  BY <1>4, IdsSet DEF a1
<1>9. IsSamplerRecord(a2) /\ a2.id = id
  BY <1>8, IdSet DEF a2
<1>10. IsSamplerRecord(a3) /\ a3.id = id /\ a3.birth = birth
  BY <1>9, BirthSet DEF a3
<1>11. IsSamplerRecord(a4) /\ a4.id = id /\ a4.birth = birth /\ a4.at = where
  BY <1>10, AtSet DEF a4
<1>12. IsSamplerRecord(a5) /\ a5.id = id /\ a5.birth = birth /\ a5.at = where /\ a5.rec = {}
  BY <1>11, RecSet DEF a5
<1>13. /\ IsSamplerRecord(sampler') /\ sampler'.id = id /\ sampler'.birth = birth /\ sampler'.at = where
       /\ sampler'.rec = {}
  BY <1>7, <1>12, CapsSet DEF a6
<1>14. IsSampler(sampler')
  BY <1>4, <1>5, <1>6, <1>13 DEF IsSampler, IsPlants, Working
<1>15. ASSUME NEW i \in PlantIds, NEW b, IsOwn(rings[i], agg[i], sampler, i, b),
              fresh # {} /\ i = id => b = birth
       PROVE  IsOwn(rings'[i], agg'[i], sampler', i, b)
  <2>1. where # "hourly"
    BY <1>6
  <2>2. where \in Working => fresh # {}
    BY <1>6 DEF Working
  <2>3. sampler'.at \in Working /\ sampler'.id = i => InHandOf(sampler', rings[i], b)
    BY <1>13, <1>15, <2>1, <2>2 DEF InHandOf, BelongTo
  <2>4. QED
    BY <1>2, <1>15, <2>3 DEF IsOwn
<1>16. ASSUME NEW i \in PlantIds, IsFresh(rings[i], agg[i], sampler, i), fresh = {} \/ i # id
       PROVE  IsFresh(rings'[i], agg'[i], sampler', i)
  <2>1. where \in Working => fresh # {}
    BY <1>6 DEF Working
  <2>2. QED
    BY <1>2, <1>13, <1>16, <2>1 DEF IsFresh
<1>17. fresh # {} => id \in Nat /\ id < table.next /\ table.next \in Nat
  <2>1. \A i \in PlantIds : i \in Nat
    BY DEF PlantIds, Plants!Ids
  <2>2. QED
    BY <1>4, <1>5, <2>1 DEF IsPlants
<1>18. ASSUME IsHistory(table, rings, agg, sampler)
       PROVE  IsHistory(table, rings', agg', sampler')
  <2>1. ASSUME NEW i \in DOMAIN table.plants,
               IsOwn(rings[i], agg[i], sampler, i, table.plants[i].birth)
        PROVE  IsOwn(rings'[i], agg'[i], sampler', i, table.plants[i].birth)
    BY <1>4, <1>5, <1>15, <2>1 DEF IsPlants
  <2>2. ASSUME NEW i \in PlantIds, i >= table.next, IsFresh(rings[i], agg[i], sampler, i)
        PROVE  IsFresh(rings'[i], agg'[i], sampler', i)
    BY <1>16, <1>17, <2>2
  <2>3. QED
    BY <1>4, <1>18, <2>1, <2>2, HistoryByPlant
<1>19. ASSUME ~unsaved, BeingWritten(file, table, web, sampler), SameBirths(file, table),
              IsHistory(file, rings, agg, sampler)
       PROVE  IsHistory(file, rings', agg', sampler')
  <2>1. ASSUME NEW i \in DOMAIN file.plants,
               IsOwn(rings[i], agg[i], sampler, i, file.plants[i].birth)
        PROVE  IsOwn(rings'[i], agg'[i], sampler', i, file.plants[i].birth)
    <3>1. fresh # {} /\ i = id => file.plants[i].birth = birth
      BY <1>5, <1>19 DEF SameBirths
    <3>2. QED
      BY <1>4, <1>15, <2>1, <3>1 DEF IsPlants
  <2>2. ASSUME NEW i \in PlantIds, i >= file.next, IsFresh(rings[i], agg[i], sampler, i)
        PROVE  IsFresh(rings'[i], agg'[i], sampler', i)
    <3>1. ASSUME fresh # {}, i = id
          PROVE  FALSE
      <4>1. table.next # file.next
        BY <1>17, <2>2, <3>1
      <4>2. table.plants[id].caps = {}
        BY <1>2, <1>5, <1>19, <2>2, <3>1, <4>1 DEF BeingWritten
      <4>3. QED
        BY <1>5, <3>1, <4>2
    <3>2. QED
      BY <1>16, <2>2, <3>1
  <2>3. QED
    BY <1>4, <1>19, <2>1, <2>2, HistoryByPlant
<1>20. AreRings(rings') /\ AreHours(agg') /\ sampler.at # "write"
  BY <1>2, <1>4
<1>21. QED
  BY <1>2, <1>3, <1>14, <1>18, <1>19, <1>20, SamplerFrame

-----------------------------------------------------------------------------
(* The table and its file *)

\* plants_table_create(): one plant more, with nothing bound, and all others as they are.
LEMMA CreatedIs ==
  ASSUME IsPlants(table), table.next \in PlantIds, NEW mac
  PROVE  LET t == Plants!Created(mac)
         IN  /\ IsPlants(t) /\ t.next = table.next + 1
             /\ DOMAIN t.plants = DOMAIN table.plants \cup {table.next}
             /\ table.next \notin DOMAIN table.plants
             /\ \A id \in DOMAIN table.plants : t.plants[id] = table.plants[id]
             /\ t.plants[table.next].caps = {}
<1> DEFINE t == Plants!Created(mac)
           new == [birth |-> births + 1, mac |-> mac, caps |-> {}]
           ids == DOMAIN table.plants \cup {table.next}
           all == [id \in ids |-> IF id = table.next THEN new ELSE table.plants[id]]
           n == table.next
<1>1. t = [plants |-> all, next |-> n + 1]
  BY DEF Plants!Created
<1>2. n \in Nat \ {0} /\ \A id \in PlantIds : id \in Nat
  BY DEF IsPlants, PlantIds, Plants!Ids
<1>3. IsPlantRecord(new) /\ new.caps = {}
  BY DEF IsPlantRecord
<1> HIDE DEF new
<1>4. n \notin DOMAIN table.plants /\ \A id \in DOMAIN table.plants : id \in PlantIds /\ id < n
  BY <1>2 DEF IsPlants
<1>5. DOMAIN all = ids /\ all[n] = new /\ \A id \in DOMAIN table.plants : all[id] = table.plants[id]
  BY <1>4
<1>6. all = [id \in DOMAIN all |-> all[id]]
  OBVIOUS
<1> HIDE DEF all
<1>7. t.plants = all /\ t.next = n + 1
  BY <1>1
<1>8. IsPlantTable(t)
  BY <1>1, <1>7 DEF IsPlantTable
<1> HIDE DEF t
<1>9. \A id \in ids : id \in PlantIds /\ id < n + 1 /\ IsPlantRecord(all[id])
  <2>1. TAKE id \in ids
  <2>2. CASE id = n
    BY <1>2, <1>3, <1>5, <2>2
  <2>3. CASE id \in DOMAIN table.plants
    <3>1. id \in Nat /\ id < n /\ id \in PlantIds
      BY <1>2, <1>4, <2>3
    <3>2. id < n + 1
      BY <1>2, <3>1
    <3>3. IsPlantRecord(all[id])
      BY <1>5, <2>3 DEF IsPlants
    <3>4. QED
      BY <3>1, <3>2, <3>3
  <2>4. QED
    BY <2>2, <2>3
<1>10. n + 1 \in Nat \ {0}
  BY <1>2
<1>11. IsPlants(t)
  BY <1>5, <1>6, <1>7, <1>8, <1>9, <1>10 DEF IsPlants
<1>12. QED
  BY <1>3, <1>4, <1>5, <1>7, <1>11 DEF t

\* The id of a plant that is created has recorded nothing.
LEMMA CreatedOwn ==
  ASSUME IsPlants(table), table.next \in PlantIds, NEW mac, IsHistory(table, rings, agg, sampler)
  PROVE  IsHistory(Plants!Created(mac), rings, agg, sampler)
<1> DEFINE t == Plants!Created(mac)
<1>1. /\ t.next = table.next + 1
      /\ DOMAIN t.plants = DOMAIN table.plants \cup {table.next}
      /\ \A id \in DOMAIN table.plants : t.plants[id] = table.plants[id]
  BY CreatedIs
<1> HIDE DEF t
<1>2. table.next \in Nat /\ \A id \in PlantIds : id \in Nat
  BY DEF IsPlants, PlantIds, Plants!Ids
<1>3. IsFresh(rings[table.next], agg[table.next], sampler, table.next)
  BY <1>2 DEF IsHistory, FreshFrom
<1>4. \A b : IsOwn(rings[table.next], agg[table.next], sampler, table.next, b)
  BY <1>3 DEF IsFresh, IsOwn, BelongTo
<1>5. OwnIn(t, rings, agg, sampler)
  <2>1. ASSUME NEW id \in DOMAIN t.plants
        PROVE  IsOwn(rings[id], agg[id], sampler, id, t.plants[id].birth)
    <3>1. CASE id \in DOMAIN table.plants
      BY <1>1, <3>1 DEF IsHistory, OwnIn
    <3>2. CASE id = table.next
      BY <1>4, <3>2
    <3>3. QED
      BY <1>1, <2>1, <3>1, <3>2
  <2>2. QED
    BY <2>1 DEF OwnIn
<1>6. FreshFrom(t.next, rings, agg, sampler)
  <2>1. \A id \in PlantIds : id >= t.next => id >= table.next
    BY <1>1, <1>2
  <2>2. QED
    BY <2>1 DEF IsHistory, FreshFrom
<1>7. QED
  BY <1>5, <1>6 DEF IsHistory, t

\* A change of the table that keeps the files as they are.
LEMMA TableFrame ==
  ASSUME HistoryInv, boot = "up", UNCHANGED <<format, file, unsaved, rings, agg, boot, tainted>>,
         IsPlants(table'), IsSampler(sampler'), IsWeb(web'),
         sampler' = sampler \/ (sampler.at \notin Working /\ sampler'.at \notin Working),
         UpHeld => /\ file.next <= table'.next /\ SameBirths(file, table')
                   /\ Removes(web', file, table', unsaved)
                   /\ ~unsaved => BeingWritten(file, table', web', sampler')
                   /\ IsHistory(table', rings, agg, sampler)
  PROVE  HistoryInv'
<1>1. HistoryTypes'
  BY DEF HistoryInv, HistoryTypes
<1>2. NotUp'
  BY DEF NotUp
<1>3. ASSUME NEW t, IsHistory(t, rings, agg, sampler)
      PROVE  IsHistory(t, rings, agg, sampler')
  BY <1>3 DEF IsHistory, OwnIn, FreshFrom, IsOwn, IsFresh
<1>4. ASSUME ~tainted'
      PROVE  /\ BootHeld' /\ UpHeld'
             /\ (~unsaved /\ Together => IsHistory(file, rings, agg, sampler))'
  <2>1. BootHeld /\ UpHeld /\ (~unsaved /\ Together => IsHistory(file, rings, agg, sampler))
    BY <1>4 DEF HistoryInv
  <2>2. BootHeld'
    BY <2>1 DEF BootHeld
  <2>3. Together' <=> Together
    BY DEF Together
  <2>4. UpHeld'
    <3>1. IsHistory(table', rings, agg, sampler')
      BY <1>3, <2>1
    <3>2. IsHistory(table', rings', agg', sampler')
      BY <3>1
    <3>3. SameBirths(file', table') /\ Removes(web', file', table', unsaved')
      BY <2>1
    <3>4. ~unsaved' => BeingWritten(file', table', web', sampler')
      BY <2>1
    <3>5. QED
      BY <2>1, <3>2, <3>3, <3>4 DEF UpHeld
  <2>5. ~unsaved /\ Together => IsHistory(file, rings, agg, sampler')
    BY <1>3, <2>1
  <2>6. QED
    BY <2>2, <2>3, <2>4, <2>5
<1>5. QED
  BY <1>1, <1>2, <1>4 DEF HistoryInv

LEMMA PlantCreateStep == HistoryInv /\ Plants!Create => HistoryInv'
<1> SUFFICES ASSUME HistoryInv, Plants!Create
             PROVE  HistoryInv'
  OBVIOUS
<1> DEFINE t == Plants!Created(0)
<1>1. /\ boot = "up" /\ UNCHANGED <<format, file, unsaved, rings, agg, boot, sampler, tainted>>
      /\ table' = t /\ table.next \in PlantIds /\ web = Plants!WebIdle /\ web' = [at |-> "write", id |-> 0]
  BY DEF Plants!Create, Plants!Change, Plants!Room, PlantIds
<1>2. IsPlants(table) /\ IsPlants(file) /\ IsSampler(sampler)
  BY DEF HistoryInv, HistoryTypes
<1>3. /\ IsPlants(t) /\ t.next = table.next + 1
      /\ DOMAIN t.plants = DOMAIN table.plants \cup {table.next}
      /\ \A id \in DOMAIN table.plants : t.plants[id] = table.plants[id]
      /\ t.plants[table.next].caps = {} /\ table.next \notin DOMAIN table.plants
  BY <1>1, <1>2, CreatedIs
<1> HIDE DEF t
<1>4. \A id \in PlantIds : id \in Nat
  BY DEF PlantIds, Plants!Ids
<1>5. table.next \in Nat /\ file.next \in Nat /\ \A id \in DOMAIN file.plants : id \in Nat /\ id < file.next
  BY <1>2, <1>4 DEF IsPlants
<1>6. \A id \in DOMAIN table.plants : id \in Nat /\ id < table.next
  BY <1>2, <1>4 DEF IsPlants
<1>7. web'.at = "write" /\ web'.id = 0 /\ web.at = "idle"
  BY <1>1 DEF Plants!WebIdle
<1>8. IsWeb(web')
  BY <1>1, <1>7 DEF IsWeb, IsWebRecord, Plants!Tiers
<1>9. ASSUME UpHeld
      PROVE  /\ file.next <= t.next /\ SameBirths(file, t)
             /\ Removes(web', file, t, unsaved)
             /\ ~unsaved => BeingWritten(file, t, web', sampler)
             /\ IsHistory(t, rings, agg, sampler)
  <2>1. file.next <= table.next /\ SameBirths(file, table) /\ IsHistory(table, rings, agg, sampler)
    BY <1>1, <1>9 DEF UpHeld
  <2>2. file.next <= t.next
    BY <1>3, <1>5, <2>1
  <2>3. SameBirths(file, t)
    <3>1. \A id \in DOMAIN file.plants : id # table.next
      BY <1>5, <2>1
    <3>2. QED
      BY <1>3, <2>1, <3>1 DEF SameBirths
  <2>4. Removes(web', file, t, unsaved)
    BY <1>7 DEF Removes
  <2>5. ASSUME ~unsaved
        PROVE  BeingWritten(file, t, web', sampler)
    <3>1. BeingWritten(file, table, web, sampler)
      BY <1>1, <1>9, <2>5 DEF UpHeld
    <3>2. CASE sampler.at = "write"
      BY <3>2 DEF BeingWritten
    <3>3. CASE sampler.at # "write"
      <4>1. web # [at |-> "write", id |-> 0]
        BY <1>7
      <4>2. table.next = file.next
        BY <3>1, <3>3, <4>1 DEF BeingWritten
      <4>3. \A id \in DOMAIN t.plants : id >= file.next => t.plants[id].caps = {}
        <5>1. \A id \in DOMAIN table.plants : ~(id >= file.next)
          BY <1>5, <1>6, <4>2
        <5>2. QED
          BY <1>3, <5>1
      <4>4. QED
        BY <1>1, <4>3 DEF BeingWritten
    <3>4. QED
      BY <3>2, <3>3
  <2>6. IsHistory(t, rings, agg, sampler)
    BY <1>1, <1>2, <2>1, CreatedOwn DEF t
  <2>7. QED
    BY <2>2, <2>3, <2>4, <2>5, <2>6
<1>10. QED
  BY <1>1, <1>2, <1>3, <1>8, <1>9, TableFrame

LEMMA AdoptProbeStep == HistoryInv /\ Plants!Adopt => HistoryInv'
<1> SUFFICES ASSUME HistoryInv, Plants!Adopt
             PROVE  HistoryInv'
  OBVIOUS
<1> DEFINE done == [sampler EXCEPT !.at = "write"]
<1>1. /\ UNCHANGED <<format, file, unsaved, rings, agg, boot, web, tainted>>
      /\ sampler.at = "plant"
      /\ \/ sampler' = Plants!SamplerIdle /\ table' = table
         \/ /\ table.next \in PlantIds /\ sampler' = done
            /\ \E m : table' = Plants!Created(m)
  BY DEF Plants!Adopt, Plants!Change, Plants!Room, PlantIds
<1>2. boot = "up"
  BY <1>1, SamplerIsUp
<1>3. IsPlants(table) /\ IsPlants(file) /\ IsSampler(sampler) /\ IsWeb(web')
  BY <1>1 DEF HistoryInv, HistoryTypes
<1>4. sampler.at \notin Working
  BY <1>1 DEF Working
<1>5. CASE sampler' = Plants!SamplerIdle /\ table' = table
  <2>1. IsSampler(sampler') /\ sampler'.at \notin Working
    BY <1>5 DEF IsSampler, IsSamplerRecord, Plants!SamplerIdle, Working
  <2>2. ASSUME UpHeld
        PROVE  /\ file.next <= table'.next /\ SameBirths(file, table')
               /\ Removes(web', file, table', unsaved)
               /\ ~unsaved => BeingWritten(file, table', web', sampler')
               /\ IsHistory(table', rings, agg, sampler)
    <3>1. BeingWritten(file, table, web, sampler) => BeingWritten(file, table, web, sampler')
      BY <1>1 DEF BeingWritten
    <3>2. QED
      BY <1>1, <1>2, <1>5, <2>2, <3>1 DEF UpHeld
  <2>3. IsPlants(table')
    BY <1>3, <1>5
  <2>4. QED
    BY <1>1, <1>2, <1>3, <1>4, <2>1, <2>2, <2>3, TableFrame
<1>6. CASE table.next \in PlantIds /\ sampler' = done /\ \E m : table' = Plants!Created(m)
  <2>1. PICK m : table' = Plants!Created(m)
    BY <1>6
  <2> DEFINE t == table'
  <2>2. /\ IsPlants(t) /\ t.next = table.next + 1
        /\ DOMAIN t.plants = DOMAIN table.plants \cup {table.next}
        /\ \A id \in DOMAIN table.plants : t.plants[id] = table.plants[id]
    BY <1>3, <1>6, <2>1, CreatedIs
  <2>3. IsHistory(table, rings, agg, sampler) => IsHistory(t, rings, agg, sampler)
    BY <1>3, <1>6, <2>1, CreatedOwn
  <2> HIDE DEF t
  <2>4. IsSamplerRecord(sampler') /\ sampler'.at = "write"
    <3>1. IsSamplerRecord(done) /\ done.at = "write"
      BY <1>3, AtSet DEF IsSampler
    <3> HIDE DEF done
    <3>2. QED
      BY <1>6, <3>1
  <2>5. IsSampler(sampler') /\ sampler'.at \notin Working
    BY <2>4 DEF IsSampler, Working
  <2>6. \A id \in PlantIds : id \in Nat
    BY DEF PlantIds, Plants!Ids
  <2>7. table.next \in Nat /\ file.next \in Nat /\ \A id \in DOMAIN file.plants : id \in Nat /\ id < file.next
    BY <1>3, <2>6 DEF IsPlants
  <2>8. ASSUME UpHeld
        PROVE  /\ file.next <= t.next /\ SameBirths(file, t)
               /\ Removes(web', file, t, unsaved)
               /\ ~unsaved => BeingWritten(file, t, web', sampler')
               /\ IsHistory(t, rings, agg, sampler)
    <3>1. /\ file.next <= table.next /\ SameBirths(file, table) /\ Removes(web, file, table, unsaved)
          /\ IsHistory(table, rings, agg, sampler)
      BY <1>2, <2>8 DEF UpHeld
    <3>2. file.next <= t.next
      BY <2>2, <2>7, <3>1
    <3>3. SameBirths(file, t)
      <4>1. \A id \in DOMAIN file.plants : id # table.next
        BY <2>7, <3>1
      <4>2. QED
        BY <2>2, <3>1, <4>1 DEF SameBirths
    <3>4. \A id : IsGone(id, table) => IsGone(id, t)
      <4>1. ASSUME NEW id, IsGone(id, table)
            PROVE  IsGone(id, t)
        <5>1. id \in PlantIds /\ id \in Nat /\ id < table.next /\ id \notin DOMAIN table.plants
          BY <2>6, <4>1 DEF IsGone
        <5>2. id # table.next /\ id < t.next
          BY <2>2, <2>7, <5>1
        <5>3. QED
          BY <2>2, <5>1, <5>2 DEF IsGone
      <4>2. QED
        BY <4>1
    <3>5. Removes(web', file, t, unsaved)
      BY <1>1, <3>1, <3>4 DEF Removes
    <3>6. BeingWritten(file, t, web', sampler')
      BY <2>4 DEF BeingWritten
    <3>7. QED
      BY <2>3, <3>1, <3>2, <3>3, <3>5, <3>6
  <2>9. QED
    BY <1>1, <1>2, <1>3, <1>4, <2>2, <2>5, <2>8, TableFrame DEF t
<1>7. QED
  BY <1>1, <1>5, <1>6

LEMMA BindStep == HistoryInv /\ Plants!Bind => HistoryInv'
<1> SUFFICES ASSUME HistoryInv, Plants!Bind
             PROVE  HistoryInv'
  OBVIOUS
<1>1. /\ boot = "up" /\ UNCHANGED <<format, file, unsaved, rings, agg, boot, sampler, tainted>>
      /\ web = Plants!WebIdle /\ web' = [at |-> "write", id |-> 0]
  BY DEF Plants!Bind, Plants!Change
<1>2. PICK id \in DOMAIN table.plants, c \in Caps :
        \/ table' = [table EXCEPT !.plants[id].caps = @ \cup {c}]
        \/ table' = [table EXCEPT !.plants[id].caps = @ \ {c}]
  BY DEF Plants!Bind
<1>3. IsPlants(table) /\ IsPlants(file) /\ IsSampler(sampler)
  BY DEF HistoryInv, HistoryTypes
<1>4. ASSUME NEW caps
      PROVE  LET t == [table EXCEPT !.plants[id].caps = caps]
             IN  /\ IsPlants(t) /\ t.next = table.next /\ DOMAIN t.plants = DOMAIN table.plants
                 /\ \A i \in DOMAIN t.plants : t.plants[i].birth = table.plants[i].birth
  <2> DEFINE old == table.plants
             p == old[id]
             q == [p EXCEPT !.caps = caps]
             new == [old EXCEPT ![id] = q]
             t == [table EXCEPT !.plants = new]
  <2>1. t = [table EXCEPT !.plants[id].caps = caps]
    OBVIOUS
  <2>2. IsPlantRecord(p) /\ old = [i \in DOMAIN old |-> old[i]]
    BY <1>3 DEF IsPlants
  <2> HIDE DEF p
  <2>3. IsPlantRecord(q) /\ q.birth = p.birth
    BY <2>2 DEF IsPlantRecord
  <2> HIDE DEF q, old
  <2>4. /\ DOMAIN new = DOMAIN old /\ new = [i \in DOMAIN new |-> new[i]]
        /\ \A i \in DOMAIN old : i # id => new[i] = old[i]
    BY <2>2
  <2>5. new[id] = q
    BY <2>2, <1>2 DEF old
  <2> HIDE DEF new
  <2>6. t.plants = new /\ t.next = table.next /\ IsPlantTable(t)
    BY <1>3 DEF IsPlants, IsPlantTable
  <2> HIDE DEF t
  <2>7. \A i \in DOMAIN old : new[i].birth = old[i].birth /\ IsPlantRecord(new[i])
    BY <1>3, <2>3, <2>4, <2>5 DEF p, IsPlants, old
  <2>8. IsPlants(t)
    BY <1>3, <2>4, <2>6, <2>7 DEF IsPlants, old
  <2>9. QED
    BY <2>1, <2>4, <2>6, <2>7, <2>8 DEF old
<1>5. /\ IsPlants(table') /\ table'.next = table.next /\ DOMAIN table'.plants = DOMAIN table.plants
      /\ \A i \in DOMAIN table'.plants : table'.plants[i].birth = table.plants[i].birth
  <2> DEFINE more == table.plants[id].caps \cup {c}
             fewer == table.plants[id].caps \ {c}
             t1 == [table EXCEPT !.plants[id].caps = more]
             t2 == [table EXCEPT !.plants[id].caps = fewer]
  <2>1. table' = t1 \/ table' = t2
    BY <1>2
  <2> HIDE DEF more, fewer
  <2>2. /\ IsPlants(t1) /\ t1.next = table.next /\ DOMAIN t1.plants = DOMAIN table.plants
        /\ \A i \in DOMAIN t1.plants : t1.plants[i].birth = table.plants[i].birth
    BY <1>4
  <2>3. /\ IsPlants(t2) /\ t2.next = table.next /\ DOMAIN t2.plants = DOMAIN table.plants
        /\ \A i \in DOMAIN t2.plants : t2.plants[i].birth = table.plants[i].birth
    BY <1>4
  <2> HIDE DEF t1, t2
  <2>4. QED
    BY <2>1, <2>2, <2>3
<1>6. web'.at = "write" /\ web'.id = 0 /\ web.at = "idle" /\ IsWeb(web')
  <2>1. web'.at = "write" /\ web'.id = 0 /\ web.at = "idle" /\ IsWebRecord(web')
    BY <1>1 DEF Plants!WebIdle, IsWebRecord
  <2>2. QED
    BY <2>1 DEF IsWeb, Plants!Tiers
<1>7. ASSUME UpHeld
      PROVE  /\ file.next <= table'.next /\ SameBirths(file, table')
             /\ Removes(web', file, table', unsaved)
             /\ ~unsaved => BeingWritten(file, table', web', sampler')
             /\ IsHistory(table', rings, agg, sampler)
  <2>1. file.next <= table.next /\ SameBirths(file, table) /\ IsHistory(table, rings, agg, sampler)
    BY <1>1, <1>7 DEF UpHeld
  <2>2. SameBirths(file, table')
    BY <1>5, <2>1 DEF SameBirths
  <2>3. Removes(web', file, table', unsaved)
    BY <1>6 DEF Removes
  <2>4. ASSUME ~unsaved
        PROVE  BeingWritten(file, table', web', sampler')
    <3>1. BeingWritten(file, table, web, sampler)
      BY <1>1, <1>7, <2>4 DEF UpHeld
    <3>2. web # [at |-> "write", id |-> 0]
      BY <1>6
    <3>3. table.next # file.next => sampler.at = "write"
      BY <3>1, <3>2 DEF BeingWritten
    <3>4. QED
      BY <1>1, <1>5, <3>3 DEF BeingWritten
  <2>5. IsHistory(table', rings, agg, sampler)
    BY <1>5, <2>1 DEF IsHistory, OwnIn, FreshFrom
  <2>6. QED
    BY <1>5, <2>1, <2>2, <2>3, <2>4, <2>5
<1>8. QED
  BY <1>1, <1>3, <1>5, <1>6, <1>7, TableFrame

LEMMA PlantDeleteStep == HistoryInv /\ Plants!Delete => HistoryInv'
<1> SUFFICES ASSUME HistoryInv, Plants!Delete
             PROVE  HistoryInv'
  OBVIOUS
<1>1. /\ boot = "up" /\ UNCHANGED <<format, file, unsaved, rings, agg, boot, sampler, tainted>>
      /\ web = Plants!WebIdle
  BY DEF Plants!Delete, Plants!Change
<1>2. PICK id \in DOMAIN table.plants :
        /\ table' = [table EXCEPT !.plants = [i \in DOMAIN @ \ {id} |-> @[i]]]
        /\ web' = [at |-> "write", id |-> id]
  BY DEF Plants!Delete
<1>3. IsPlants(table) /\ IsPlants(file) /\ IsSampler(sampler)
  BY DEF HistoryInv, HistoryTypes
<1> DEFINE left == [i \in DOMAIN table.plants \ {id} |-> table.plants[i]]
           t == [table EXCEPT !.plants = left]
<1>4. table' = t
  BY <1>2
<1>5. /\ DOMAIN left = DOMAIN table.plants \ {id} /\ left = [i \in DOMAIN left |-> left[i]]
      /\ \A i \in DOMAIN left : left[i] = table.plants[i]
  OBVIOUS
<1> HIDE DEF left
<1>6. t.plants = left /\ t.next = table.next /\ IsPlantTable(t)
  BY <1>3 DEF IsPlants, IsPlantTable
<1> HIDE DEF t
<1>7. IsPlants(t)
  BY <1>3, <1>5, <1>6 DEF IsPlants
<1>8. IsGone(id, t)
  BY <1>2, <1>3, <1>5, <1>6 DEF IsGone, IsPlants
<1>9. web'.at = "write" /\ web'.id = id /\ web.at = "idle" /\ IsWeb(web')
  <2>1. web'.at = "write" /\ web'.id = id /\ web.at = "idle" /\ IsWebRecord(web')
    BY <1>1, <1>2 DEF Plants!WebIdle, IsWebRecord
  <2>2. id \in PlantIds
    BY <1>3 DEF IsPlants
  <2>3. QED
    BY <2>1, <2>2 DEF IsWeb, Plants!Tiers
<1>10. ASSUME UpHeld
       PROVE  /\ file.next <= t.next /\ SameBirths(file, t)
              /\ Removes(web', file, t, unsaved)
              /\ ~unsaved => BeingWritten(file, t, web', sampler')
              /\ IsHistory(t, rings, agg, sampler)
  <2>1. file.next <= table.next /\ SameBirths(file, table) /\ IsHistory(table, rings, agg, sampler)
    BY <1>1, <1>10 DEF UpHeld
  <2>2. SameBirths(file, t)
    BY <1>5, <1>6, <2>1 DEF SameBirths
  <2>3. Removes(web', file, t, unsaved)
    BY <1>8, <1>9 DEF Removes
  <2>4. ASSUME ~unsaved
        PROVE  BeingWritten(file, t, web', sampler')
    <3>1. BeingWritten(file, table, web, sampler)
      BY <1>1, <1>10, <2>4 DEF UpHeld
    <3>2. web # [at |-> "write", id |-> 0]
      BY <1>9
    <3>3. table.next # file.next => sampler.at = "write"
      BY <3>1, <3>2 DEF BeingWritten
    <3>4. QED
      BY <1>1, <1>6, <3>3 DEF BeingWritten
  <2>5. IsHistory(t, rings, agg, sampler)
    BY <1>5, <1>6, <2>1 DEF IsHistory, OwnIn, FreshFrom
  <2>6. QED
    BY <1>6, <2>1, <2>2, <2>3, <2>4, <2>5
<1>11. QED
  BY <1>1, <1>3, <1>4, <1>7, <1>9, <1>10, TableFrame

\* A write of the table: plants.bin then holds what the table holds, or the table has what
\* plants.bin does not.
LEMMA WriteFrame ==
  ASSUME HistoryInv, boot = "up", Plants!Persist,
         UNCHANGED <<format, table, rings, agg, boot, tainted>>, IsSampler(sampler'), IsWeb(web'),
         sampler' = sampler \/ (sampler.at \notin Working /\ sampler'.at \notin Working),
         Removes(web, file, table, unsaved) => Removes(web', file', table, unsaved')
  PROVE  HistoryInv'
<1>1. (file' = table /\ unsaved' = FALSE) \/ (file' = file /\ unsaved' = TRUE)
  BY DEF Plants!Persist
<1>2. HistoryTypes'
  BY <1>1 DEF HistoryInv, HistoryTypes
<1>3. NotUp'
  BY DEF NotUp
<1>4. ASSUME NEW t, IsHistory(t, rings, agg, sampler)
      PROVE  IsHistory(t, rings, agg, sampler')
  BY <1>4 DEF IsHistory, OwnIn, FreshFrom, IsOwn, IsFresh
<1>5. ASSUME ~tainted'
      PROVE  /\ BootHeld' /\ UpHeld'
             /\ (~unsaved /\ Together => IsHistory(file, rings, agg, sampler))'
  <2>1. UpHeld
    BY <1>5 DEF HistoryInv
  <2>2. file.next <= table.next /\ SameBirths(file, table) /\ Removes(web, file, table, unsaved)
        /\ IsHistory(table, rings, agg, sampler)
    BY <2>1 DEF UpHeld
  <2>3. IsHistory(table, rings, agg, sampler')
    BY <1>4, <2>2
  <2>4. BootHeld'
    BY DEF BootHeld
  <2>5. file'.next <= table.next /\ SameBirths(file', table)
    <3>1. table.next \in Nat
      BY DEF HistoryInv, HistoryTypes, IsPlants
    <3>2. SameBirths(table, table) /\ table.next <= table.next
      BY <3>1 DEF SameBirths
    <3>3. QED
      BY <1>1, <2>2, <3>2
  <2>6. ~unsaved' => BeingWritten(file', table', web', sampler')
    BY <1>1 DEF BeingWritten
  <2>7. Removes(web', file', table', unsaved')
    BY <2>2
  <2>8. UpHeld'
    BY <2>3, <2>5, <2>6, <2>7 DEF UpHeld
  <2>9. (~unsaved /\ Together => IsHistory(file, rings, agg, sampler))'
    BY <1>1, <2>3
  <2>10. QED
    BY <2>4, <2>8, <2>9
<1>6. QED
  BY <1>2, <1>3, <1>5 DEF HistoryInv

LEMMA WebIsUp ==
  ASSUME HistoryInv, web.at # "idle"
  PROVE  boot = "up"
<1>1. Plants!WebIdle.at = "idle"
  BY DEF Plants!WebIdle
<1>2. QED
  BY <1>1 DEF HistoryInv, NotUp

LEMMA PlantWebWriteStep == HistoryInv /\ Plants!WebWrite => HistoryInv'
<1> SUFFICES ASSUME HistoryInv, Plants!WebWrite
             PROVE  HistoryInv'
  OBVIOUS
<1>1. /\ web.at = "write" /\ Plants!Persist /\ UNCHANGED <<format, table, rings, agg, boot, sampler, tainted>>
      /\ web' = IF web.id = 0 THEN Plants!WebIdle ELSE [web EXCEPT !.at = "raw"]
  BY DEF Plants!WebWrite
<1>2. boot = "up"
  BY <1>1, WebIsUp
<1>3. IsSampler(sampler) /\ IsWeb(web)
  BY DEF HistoryInv, HistoryTypes
<1>4. /\ (web.id = 0 /\ web'.at = "idle") \/ (web.id # 0 /\ web'.at = "raw" /\ web'.id = web.id)
      /\ IsWebRecord(web') /\ (web'.id = web.id \/ web'.id = 0)
  BY <1>1, <1>3 DEF Plants!WebIdle, IsWeb, IsWebRecord
<1>5. ASSUME Removes(web, file, table, unsaved)
      PROVE  Removes(web', file', table, unsaved')
  <2>1. CASE web'.at = "idle"
    BY <2>1 DEF Removes
  <2>2. CASE web.id # 0 /\ web'.at = "raw" /\ web'.id = web.id
    <3>1. IsGone(web.id, table)
      BY <1>1, <1>5, <2>2 DEF Removes
    <3>2. ~unsaved' => file' = table
      BY <1>1 DEF Plants!Persist
    <3>3. QED
      BY <2>2, <3>1, <3>2 DEF Removes, IsGone
  <2>3. QED
    BY <1>4, <2>1, <2>2
<1>6. IsWeb(web')
  BY <1>3, <1>4 DEF IsWeb, Plants!Tiers
<1>7. QED
  BY <1>1, <1>2, <1>3, <1>5, <1>6, WriteFrame

LEMMA SamplerWriteStep == HistoryInv /\ Plants!SamplerWrite => HistoryInv'
<1> SUFFICES ASSUME HistoryInv, Plants!SamplerWrite
             PROVE  HistoryInv'
  OBVIOUS
<1>1. /\ sampler.at = "write" /\ Plants!Persist /\ UNCHANGED <<format, table, rings, agg, boot, web, tainted>>
      /\ sampler' = [sampler EXCEPT !.at = "plant"]
  BY DEF Plants!SamplerWrite
<1>2. boot = "up"
  BY <1>1, SamplerIsUp
<1>3. IsSampler(sampler) /\ IsWeb(web')
  BY <1>1 DEF HistoryInv, HistoryTypes
<1>4. IsSamplerRecord(sampler') /\ sampler'.at = "plant"
  <2> DEFINE done == [sampler EXCEPT !.at = "plant"]
  <2>1. IsSamplerRecord(done) /\ done.at = "plant"
    BY <1>3, AtSet DEF IsSampler
  <2> HIDE DEF done
  <2>2. QED
    BY <1>1, <2>1 DEF done
<1>5. IsSampler(sampler') /\ sampler.at \notin Working /\ sampler'.at \notin Working
  BY <1>1, <1>4 DEF IsSampler, Working
<1>6. ASSUME Removes(web, file, table, unsaved)
      PROVE  Removes(web', file', table, unsaved')
  <2>1. (file' = table /\ unsaved' = FALSE) \/ (file' = file /\ unsaved' = TRUE)
    BY <1>1 DEF Plants!Persist
  <2>2. QED
    BY <1>1, <1>6, <2>1 DEF Removes, IsGone
<1>7. QED
  BY <1>1, <1>2, <1>3, <1>5, <1>6, WriteFrame

LEMMA NoRingIs == IsRing(Plants!NoRing) /\ Plants!NoRing.recs = {}
<1>1. <<>> \in Seq({})
  OBVIOUS
<1>2. Plants!NoRing.map = <<>> /\ Plants!NoRing.recs = {} /\ Plants!NoRing.there = FALSE
  BY DEF Plants!NoRing
<1>3. IsRingRecord(Plants!NoRing)
  BY DEF IsRingRecord, Plants!NoRing
<1>4. QED
  BY <1>1, <1>2, <1>3 DEF IsRing

\* A ring file that is removed takes nothing of another plant with it.
Without(rs, i, t) == [rs EXCEPT ![i][t] = Plants!NoRing]
LEMMA RemovedKeeps ==
  ASSUME NEW rs, AreRings(rs), NEW i \in PlantIds, NEW t \in Plants!Tiers
  PROVE  /\ AreRings(Without(rs, i, t))
         /\ \A id \in PlantIds, x \in Plants!Tiers :
              Without(rs, i, t)[id][x] = rs[id][x] \/ (id = i /\ Without(rs, i, t)[id][x].recs = {})
         /\ \A id \in PlantIds : id # i => Without(rs, i, t)[id] = rs[id]
<1> DEFINE none == Plants!NoRing
           out == [rs EXCEPT ![i][t] = none]
<1>1. IsRing(none) /\ none.recs = {}
  BY NoRingIs
<1>2. Without(rs, i, t) = out
  BY DEF Without
<1> HIDE DEF none
<1>3. /\ AreRings(out) /\ out[i][t] = none
      /\ \A id \in PlantIds, x \in Plants!Tiers : <<id, x>> # <<i, t>> => out[id][x] = rs[id][x]
  BY <1>1, RingSet
<1>4. \A id \in PlantIds : id # i => out[id] = rs[id]
  BY DEF AreRings
<1> HIDE DEF out
<1>5. \A id \in PlantIds, x \in Plants!Tiers :
        out[id][x] = rs[id][x] \/ (id = i /\ out[id][x].recs = {})
  <2>1. TAKE id \in PlantIds, x \in Plants!Tiers
  <2>2. CASE <<id, x>> = <<i, t>>
    <3>1. id = i /\ x = t
      BY <2>2
    <3>2. QED
      BY <1>1, <1>3, <3>1
  <2>3. CASE <<id, x>> # <<i, t>>
    BY <1>3, <2>3
  <2>4. QED
    BY <2>2, <2>3
<1>6. QED
  BY <1>2, <1>3, <1>4, <1>5

LEMMA RemovedFresh ==
  ASSUME NEW f, NEW f2, NEW h, NEW s, NEW id, IsFresh(f, h, s, id),
         \A x \in Plants!Tiers : f2[x] = f[x] \/ f2[x].recs = {}
  PROVE  IsFresh(f2, h, s, id)
BY DEF IsFresh

LEMMA WebRemoveStep == HistoryInv /\ Plants!WebRemove => HistoryInv'
<1> SUFFICES ASSUME HistoryInv, Plants!WebRemove
             PROVE  HistoryInv'
  OBVIOUS
<1> DEFINE id == web.id
           put == Without(rings, id, web.at)
<1>1. /\ web.at \in Plants!Tiers /\ UNCHANGED <<format, file, table, unsaved, agg, boot, sampler, tainted>>
      /\ rings' = put \/ rings' = rings
      /\ web' = [web EXCEPT !.at = IF web.at = "raw" THEN "hourly" ELSE "drop"]
  BY DEF Plants!WebRemove, Without, Plants!Breaks
<1>2. web.at \in {"raw", "hourly"}
  BY <1>1 DEF Plants!Tiers
<1>3. boot = "up"
  BY <1>2, WebIsUp
<1>4. AreRings(rings) /\ IsPlants(table) /\ IsPlants(file) /\ IsWeb(web)
  BY DEF HistoryInv, HistoryTypes
<1>5. web'.at \in {"hourly", "drop"} /\ web'.id = id /\ IsWeb(web') /\ id \in PlantIds
  <2>1. web'.at \in {"hourly", "drop"} /\ web'.id = id /\ IsWebRecord(web')
    BY <1>1, <1>2, <1>4 DEF IsWeb, IsWebRecord
  <2>2. QED
    BY <1>1, <1>4, <2>1 DEF IsWeb
<1>6. /\ AreRings(rings')
      /\ \A i \in PlantIds, x \in Plants!Tiers :
           rings'[i][x] = rings[i][x] \/ rings'[i][x].recs = {}
      /\ \A i \in PlantIds : i # id => rings'[i] = rings[i]
  <2> HIDE DEF id
  <2>1. /\ AreRings(put)
        /\ \A i \in PlantIds, x \in Plants!Tiers : put[i][x] = rings[i][x] \/ put[i][x].recs = {}
        /\ \A i \in PlantIds : i # id => put[i] = rings[i]
    BY <1>1, <1>4, <1>5, RemovedKeeps
  <2> HIDE DEF put
  <2>2. QED
    BY <1>1, <1>4, <2>1
<1>7. HistoryTypes'
  BY <1>1, <1>5, <1>6 DEF HistoryInv, HistoryTypes
<1>8. NotUp'
  BY <1>1, <1>3 DEF NotUp
<1>9. ASSUME NEW t, IsPlants(t), id \notin DOMAIN t.plants, IsHistory(t, rings, agg, sampler)
      PROVE  IsHistory(t, rings', agg', sampler')
  <2>1. ASSUME NEW i \in DOMAIN t.plants, IsOwn(rings[i], agg[i], sampler, i, t.plants[i].birth)
        PROVE  IsOwn(rings'[i], agg'[i], sampler', i, t.plants[i].birth)
    <3>1. i \in PlantIds /\ i # id
      BY <1>9 DEF IsPlants
    <3>2. rings'[i] = rings[i]
      BY <1>6, <3>1
    <3>3. QED
      BY <1>1, <2>1, <3>2
  <2>2. ASSUME NEW i \in PlantIds, IsFresh(rings[i], agg[i], sampler, i)
        PROVE  IsFresh(rings'[i], agg'[i], sampler', i)
    BY <1>1, <1>6, <2>2, RemovedFresh
  <2>3. QED
    BY <1>9, <2>1, <2>2, HistoryByPlant
<1>10. ASSUME ~tainted'
       PROVE  /\ BootHeld' /\ UpHeld'
              /\ (~unsaved /\ Together => IsHistory(file, rings, agg, sampler))'
  <2>1. UpHeld /\ (~unsaved /\ Together => IsHistory(file, rings, agg, sampler))
    BY <1>1, <1>10 DEF HistoryInv
  <2>2. /\ file.next <= table.next /\ SameBirths(file, table) /\ Removes(web, file, table, unsaved)
        /\ IsHistory(table, rings, agg, sampler)
        /\ ~unsaved => BeingWritten(file, table, web, sampler)
    BY <1>3, <2>1 DEF UpHeld
  <2>3. IsGone(id, table) /\ (~unsaved => id \notin DOMAIN file.plants)
    BY <1>2, <2>2 DEF Removes
  <2>4. BootHeld'
    BY <1>1, <1>3 DEF BootHeld
  <2>5. UpHeld'
    <3>1. IsHistory(table', rings', agg', sampler')
      BY <1>1, <1>4, <1>9, <2>2, <2>3 DEF IsGone
    <3>2. Removes(web', file', table', unsaved')
      BY <1>1, <1>5, <2>3 DEF Removes, IsGone
    <3>3. ASSUME ~unsaved
          PROVE  BeingWritten(file', table', web', sampler')
      <4>1. web # [at |-> "write", id |-> 0]
        BY <1>2
      <4>2. table.next # file.next => sampler.at = "write"
        BY <2>2, <3>3, <4>1 DEF BeingWritten
      <4>3. QED
        BY <1>1, <4>2 DEF BeingWritten
    <3>4. QED
      BY <1>1, <2>2, <3>1, <3>2, <3>3 DEF UpHeld, SameBirths
  <2>6. (~unsaved /\ Together => IsHistory(file, rings, agg, sampler))'
    BY <1>1, <1>4, <1>9, <2>1, <2>3 DEF Together
  <2>7. QED
    BY <2>4, <2>5, <2>6
<1>11. QED
  BY <1>7, <1>8, <1>10 DEF HistoryInv

LEMMA WebDropStep == HistoryInv /\ Plants!WebDrop => HistoryInv'
<1> SUFFICES ASSUME HistoryInv, Plants!WebDrop
             PROVE  HistoryInv'
  OBVIOUS
<1>1. /\ web.at = "drop" /\ web' = Plants!WebIdle
      /\ UNCHANGED <<format, file, table, unsaved, rings, agg, boot, sampler, tainted>>
  BY DEF Plants!WebDrop
<1>2. boot = "up"
  BY <1>1, WebIsUp
<1>3. IsPlants(table) /\ IsSampler(sampler)
  BY DEF HistoryInv, HistoryTypes
<1>4. IsWeb(web') /\ web'.at = "idle"
  BY <1>1 DEF IsWeb, IsWebRecord, Plants!WebIdle, Plants!Tiers
<1>5. ASSUME UpHeld
      PROVE  /\ file.next <= table'.next /\ SameBirths(file, table')
             /\ Removes(web', file, table', unsaved)
             /\ ~unsaved => BeingWritten(file, table', web', sampler')
             /\ IsHistory(table', rings, agg, sampler)
  <2>1. web # [at |-> "write", id |-> 0]
    BY <1>1
  <2>2. BeingWritten(file, table, web, sampler) => BeingWritten(file, table', web', sampler')
    BY <1>1, <2>1 DEF BeingWritten
  <2>3. Removes(web', file, table', unsaved)
    BY <1>4 DEF Removes
  <2>4. QED
    BY <1>1, <1>2, <1>5, <2>2, <2>3 DEF UpHeld
<1>6. IsPlants(table') /\ IsSampler(sampler')
  BY <1>1, <1>3
<1>7. QED
  BY <1>1, <1>2, <1>4, <1>5, <1>6, TableFrame

-----------------------------------------------------------------------------
(* The boot *)

LEMMA IdleIs ==
  /\ AreHours(Plants!NoAgg) /\ IsPlants(Plants!EmptyTable) /\ Plants!EmptyTable.next = 1
  /\ DOMAIN Plants!EmptyTable.plants = {} /\ IsSampler(Plants!SamplerIdle) /\ IsWeb(Plants!WebIdle)
  /\ Plants!SamplerIdle.at = "idle" /\ \A id \in PlantIds : Plants!NoAgg[id] = {}
<1>1. IsSampler(Plants!SamplerIdle) /\ IsWeb(Plants!WebIdle) /\ Plants!SamplerIdle.at = "idle"
  BY DEF IsSampler, IsSamplerRecord, IsWeb, IsWebRecord, Working, Plants!SamplerIdle, Plants!WebIdle, Plants!Tiers
<1>2. AreHours(Plants!NoAgg) /\ \A id \in PlantIds : Plants!NoAgg[id] = {}
  BY DEF AreHours, Plants!NoAgg, PlantIds
<1> DEFINE none == [id \in {} |-> [birth |-> 0, mac |-> 0, caps |-> {}]]
           t == Plants!EmptyTable
<1>3. t = [plants |-> none, next |-> 1]
  BY DEF Plants!EmptyTable
<1>4. DOMAIN none = {} /\ none = [id \in DOMAIN none |-> none[id]]
  OBVIOUS
<1> HIDE DEF none, t
<1>5. t.plants = none /\ t.next = 1 /\ IsPlantTable(t)
  BY <1>3 DEF IsPlantTable
<1>6. IsPlants(t)
  BY <1>4, <1>5 DEF IsPlants
<1>7. QED
  BY <1>1, <1>2, <1>4, <1>5, <1>6 DEF t

\* What the rings are to a table they are with no hour and nothing in hand.
LEMMA HistoryOfBoot ==
  ASSUME NEW t, IsPlants(t), NEW rs, NEW ag, NEW s, IsHistory(t, rs, ag, s)
  PROVE  IsHistory(t, rs, Plants!NoAgg, Plants!SamplerIdle)
<1>1. Plants!SamplerIdle.at \notin Working /\ \A id \in PlantIds : Plants!NoAgg[id] = {}
  BY IdleIs DEF Working
<1>2. ASSUME NEW id \in DOMAIN t.plants, IsOwn(rs[id], ag[id], s, id, t.plants[id].birth)
      PROVE  IsOwn(rs[id], Plants!NoAgg[id], Plants!SamplerIdle, id, t.plants[id].birth)
  BY <1>1, <1>2 DEF IsOwn, IsPlants, BelongTo
<1>3. ASSUME NEW id \in PlantIds, IsFresh(rs[id], ag[id], s, id)
      PROVE  IsFresh(rs[id], Plants!NoAgg[id], Plants!SamplerIdle, id)
  BY <1>1, <1>3 DEF IsFresh
<1>4. QED
  BY <1>2, <1>3, HistoryByPlant

\* A step before the table is loaded.
LEMMA BootFrame ==
  ASSUME HistoryInv, boot # "up", boot' # "up", UNCHANGED <<table, unsaved, agg, web, sampler>>,
         AreRings(rings'), IsPlants(file'), ~tainted' => ~tainted,
         ~tainted' => BootHeld' /\ (Together' => IsHistory(file', rings', agg, sampler))
  PROVE  HistoryInv'
<1>1. HistoryTypes'
  BY DEF HistoryInv, HistoryTypes
<1>2. NotUp'
  BY DEF HistoryInv, NotUp
<1>3. UpHeld'
  BY DEF UpHeld
<1>4. QED
  BY <1>1, <1>2, <1>3 DEF HistoryInv

LEMMA WipeTableStep == HistoryInv /\ Plants!WipeTable => HistoryInv'
<1> SUFFICES ASSUME HistoryInv, Plants!WipeTable
             PROVE  HistoryInv'
  OBVIOUS
<1>1. boot = "wipe" /\ UNCHANGED <<format, table, unsaved, rings, agg, web, sampler>>
  BY DEF Plants!WipeTable
<1>2. AreRings(rings') /\ IsPlants(file)
  BY <1>1 DEF HistoryInv, HistoryTypes
<1>3. unsaved = FALSE
  BY <1>1 DEF HistoryInv, NotUp
<1>4. CASE format = "current" /\ boot' = "load" /\ UNCHANGED <<file, tainted>>
  <2>1. ASSUME ~tainted'
        PROVE  BootHeld' /\ (Together' => IsHistory(file', rings', agg, sampler))
    BY <1>1, <1>3, <1>4, <2>1 DEF HistoryInv, BootHeld, Together
  <2>2. QED
    BY <1>1, <1>2, <1>4, <2>1, BootFrame
<1>5. CASE format # "current" /\ boot' = "wipe rings" /\ file' = Plants!EmptyTable /\ tainted' = tainted
  <2>1. BootHeld' /\ ~Together'
    BY <1>1, <1>5 DEF BootHeld, Together
  <2>2. IsPlants(file')
    BY <1>5, IdleIs
  <2>3. QED
    BY <1>1, <1>2, <1>5, <2>1, <2>2, BootFrame
<1>6. CASE boot' = "wipe rings" /\ tainted' = TRUE /\ file' = file
  <2>1. IsPlants(file') /\ tainted'
    BY <1>2, <1>6
  <2>2. QED
    BY <1>1, <1>2, <1>6, <2>1, BootFrame
<1>7. QED
  BY <1>4, <1>5, <1>6 DEF Plants!WipeTable

LEMMA WipeRingStep == HistoryInv /\ Plants!WipeRing => HistoryInv'
<1> SUFFICES ASSUME HistoryInv, Plants!WipeRing
             PROVE  HistoryInv'
  OBVIOUS
<1>1. boot = "wipe rings" /\ UNCHANGED <<format, file, table, unsaved, agg, web, sampler>>
  BY DEF Plants!WipeRing
<1>2. PICK id \in PlantIds, t \in Plants!Tiers :
        \/ rings' = Without(rings, id, t) /\ UNCHANGED <<boot, tainted>>
        \/ /\ tainted' = TRUE /\ boot' = "wiped"
           /\ rings' = [Plants!NoRings EXCEPT ![id][t] = rings[id][t]]
  BY DEF Plants!WipeRing, Without, PlantIds
<1>3. AreRings(rings) /\ IsPlants(file)
  BY DEF HistoryInv, HistoryTypes
<1>4. unsaved = FALSE
  BY <1>1 DEF HistoryInv, NotUp
<1>5. CASE rings' = Without(rings, id, t) /\ UNCHANGED <<boot, tainted>>
  <2> DEFINE put == Without(rings, id, t)
  <2>1. /\ AreRings(put)
        /\ \A i \in PlantIds, x \in Plants!Tiers : put[i][x] = rings[i][x] \/ put[i][x].recs = {}
    BY <1>3, RemovedKeeps
  <2> HIDE DEF put
  <2>2. AreRings(rings') /\ \A i \in PlantIds, x \in Plants!Tiers : rings'[i][x] = rings[i][x] \/ rings'[i][x].recs = {}
    BY <1>5, <2>1 DEF put
  <2>3. ASSUME ~tainted'
        PROVE  BootHeld' /\ (Together' => IsHistory(file', rings', agg, sampler))
    <3>1. BootHeld /\ (Together => IsHistory(file, rings, agg, sampler))
      BY <1>4, <1>5, <2>3 DEF HistoryInv
    <3>2. file = Plants!EmptyTable
      BY <1>1, <3>1 DEF BootHeld
    <3>3. ASSUME IsHistory(file, rings, agg, sampler)
          PROVE  IsHistory(file, rings', agg, sampler)
      <4>1. DOMAIN file.plants = {}
        BY <3>2, IdleIs
      <4>2. ASSUME NEW i \in PlantIds, IsFresh(rings[i], agg[i], sampler, i)
            PROVE  IsFresh(rings'[i], agg[i], sampler, i)
        BY <2>2, <4>2, RemovedFresh
      <4>3. QED
        BY <3>3, <4>1, <4>2 DEF IsHistory, OwnIn, FreshFrom
    <3>4. QED
      BY <1>1, <1>5, <3>1, <3>2, <3>3 DEF BootHeld, Together
  <2>4. IsPlants(file')
    BY <1>1, <1>3
  <2>5. QED
    BY <1>1, <1>5, <2>2, <2>3, <2>4, BootFrame
<1>6. CASE tainted' = TRUE /\ boot' = "wiped" /\ rings' = [Plants!NoRings EXCEPT ![id][t] = rings[id][t]]
  <2> DEFINE none == Plants!NoRings
             left == rings[id][t]
  <2>1. AreRings(none)
    <3> DEFINE ring == Plants!NoRing
    <3>1. IsRing(ring)
      BY NoRingIs
    <3> HIDE DEF ring
    <3>2. none = [i \in PlantIds |-> [x \in Plants!Tiers |-> ring]]
      BY DEF Plants!NoRings, PlantIds, ring
    <3>3. QED
      BY <3>1, <3>2 DEF AreRings
  <2>2. IsRing(left)
    BY <1>3 DEF AreRings
  <2> HIDE DEF none, left
  <2>3. AreRings([none EXCEPT ![id][t] = left])
    BY <2>1, <2>2, RingSet
  <2>4. AreRings(rings') /\ IsPlants(file') /\ tainted'
    BY <1>1, <1>3, <1>6, <2>3 DEF none, left
  <2>5. QED
    BY <1>1, <1>6, <2>4, BootFrame
<1>7. QED
  BY <1>2, <1>5, <1>6

LEMMA WipeMarkerStep == HistoryInv /\ Plants!WipeMarker => HistoryInv'
<1> SUFFICES ASSUME HistoryInv, Plants!WipeMarker
             PROVE  HistoryInv'
  OBVIOUS
<1>1. /\ boot' = "load" /\ UNCHANGED <<file, table, unsaved, rings, agg, web, sampler, tainted>>
      /\ \/ boot = "wiped"
         \/ boot = "wipe rings" /\ \A id \in PlantIds, t \in Plants!Tiers : ~rings[id][t].there
  BY DEF Plants!WipeMarker, Plants!Wiped, PlantIds
<1>2. AreRings(rings) /\ IsPlants(file)
  BY DEF HistoryInv, HistoryTypes
<1>3. agg = Plants!NoAgg /\ sampler = Plants!SamplerIdle
  BY <1>1 DEF HistoryInv, NotUp
<1>4. ASSUME ~tainted'
      PROVE  BootHeld' /\ (Together' => IsHistory(file', rings', agg, sampler))
  <2>1. BootHeld
    BY <1>1, <1>4 DEF HistoryInv
  <2>2. boot = "wipe rings" /\ file = Plants!EmptyTable
    BY <1>1, <2>1 DEF BootHeld
  <2>3. \A id \in PlantIds, t \in Plants!Tiers : rings[id][t].recs = {}
    BY <1>1, <1>2, <2>2 DEF AreRings, IsRing
  <2>4. DOMAIN file.plants = {}
    BY <2>2, IdleIs
  <2>5. \A id \in PlantIds : IsFresh(rings[id], agg[id], sampler, id)
    BY <1>3, <2>3, IdleIs DEF IsFresh, Working
  <2>6. IsHistory(file, rings, agg, sampler)
    BY <2>4, <2>5 DEF IsHistory, OwnIn, FreshFrom
  <2>7. QED
    BY <1>1, <2>6 DEF BootHeld
<1>5. AreRings(rings') /\ IsPlants(file')
  BY <1>1, <1>2
<1>6. QED
  BY <1>1, <1>4, <1>5, BootFrame

\* plants_init(): what plants.bin holds is what the rings belong to.
LEMMA PlantLoadStep == HistoryInv /\ Plants!Load => HistoryInv'
<1> SUFFICES ASSUME HistoryInv, Plants!Load
             PROVE  HistoryInv'
  OBVIOUS
<1>1. /\ boot = "load" /\ boot' = "up" /\ table' = file
      /\ UNCHANGED <<format, file, unsaved, rings, agg, web, sampler, tainted>>
  BY DEF Plants!Load
<1>2. HistoryTypes'
  BY <1>1 DEF HistoryInv, HistoryTypes
<1>3. NotUp'
  BY <1>1 DEF NotUp
<1>4. unsaved = FALSE /\ web.at = "idle"
  BY <1>1 DEF HistoryInv, NotUp, Plants!WebIdle
<1>5. ASSUME ~tainted'
      PROVE  /\ BootHeld' /\ UpHeld'
             /\ (~unsaved /\ Together => IsHistory(file, rings, agg, sampler))'
  <2>1. IsHistory(file, rings, agg, sampler)
    BY <1>1, <1>4, <1>5 DEF HistoryInv, Together
  <2>2. file.next \in Nat
    BY DEF HistoryInv, HistoryTypes, IsPlants
  <2>3. Removes(web', file', table', unsaved')
    BY <1>1, <1>4 DEF Removes
  <2>4. BeingWritten(file', table', web', sampler') /\ SameBirths(file', table')
    BY <1>1 DEF BeingWritten, SameBirths
  <2>5. file'.next <= table'.next
    BY <1>1, <2>2
  <2>6. UpHeld'
    BY <1>1, <2>1, <2>3, <2>4, <2>5 DEF UpHeld
  <2>7. BootHeld'
    BY <1>1 DEF BootHeld
  <2>8. QED
    BY <1>1, <2>1, <2>6, <2>7
<1>6. QED
  BY <1>2, <1>3, <1>5 DEF HistoryInv

LEMMA PlantCrashStep == HistoryInv /\ Plants!Crash => HistoryInv'
<1> SUFFICES ASSUME HistoryInv, Plants!Crash
             PROVE  HistoryInv'
  OBVIOUS
<1>1. /\ boot' = "wipe" /\ table' = Plants!EmptyTable /\ unsaved' = FALSE /\ agg' = Plants!NoAgg
      /\ web' = Plants!WebIdle /\ sampler' = Plants!SamplerIdle /\ tainted' = (tainted \/ unsaved)
      /\ UNCHANGED <<format, file, rings>>
  BY DEF Plants!Crash
<1>2. IsPlants(file)
  BY DEF HistoryInv, HistoryTypes
<1>3. HistoryTypes'
  BY <1>1, IdleIs DEF HistoryInv, HistoryTypes
<1>4. NotUp'
  BY <1>1 DEF NotUp
<1>5. ASSUME ~tainted'
      PROVE  /\ BootHeld' /\ UpHeld'
             /\ (~unsaved /\ Together => IsHistory(file, rings, agg, sampler))'
  <2>1. ~tainted /\ ~unsaved
    BY <1>1, <1>5
  <2>2. Together => IsHistory(file, rings, agg, sampler)
    BY <2>1 DEF HistoryInv
  <2>3. Together' => Together
    BY <1>1 DEF Together
  <2>4. Together' => IsHistory(file', rings', agg', sampler')
    BY <1>1, <1>2, <2>2, <2>3, HistoryOfBoot
  <2>5. BootHeld' /\ UpHeld'
    BY <1>1 DEF BootHeld, UpHeld
  <2>6. QED
    BY <2>4, <2>5
<1>6. QED
  BY <1>3, <1>4, <1>5 DEF HistoryInv

-----------------------------------------------------------------------------
(* All steps *)

\* The first boot finds an empty hub, or one whose data are of an old format.
LEMMA HistoryStarts == Plants!Init => HistoryInv
<1> SUFFICES ASSUME Plants!Init
             PROVE  HistoryInv
  OBVIOUS
<1>1. /\ table = Plants!EmptyTable /\ unsaved = FALSE /\ agg = Plants!NoAgg /\ boot = "wipe"
      /\ web = Plants!WebIdle /\ sampler = Plants!SamplerIdle
  BY DEF Plants!Init
<1> DEFINE none == Plants!NoRings
<1>2. AreRings(none) /\ \A id \in PlantIds, t \in Plants!Tiers : none[id][t].recs = {}
  <2> DEFINE ring == Plants!NoRing
  <2>1. IsRing(ring) /\ ring.recs = {}
    BY NoRingIs
  <2> HIDE DEF ring
  <2>2. none = [i \in PlantIds |-> [x \in Plants!Tiers |-> ring]]
    BY DEF Plants!NoRings, PlantIds, ring
  <2>3. QED
    BY <2>1, <2>2 DEF AreRings
<1> HIDE DEF none
<1>3. NotUp /\ BootHeld /\ UpHeld
  BY <1>1 DEF NotUp, BootHeld, UpHeld
<1>4. CASE format = "current" /\ file = Plants!EmptyTable /\ rings = none
  <2>1. HistoryTypes
    BY <1>1, <1>2, <1>4, IdleIs DEF HistoryTypes
  <2>2. \A id \in PlantIds : IsFresh(rings[id], agg[id], sampler, id)
    BY <1>1, <1>2, <1>4, IdleIs DEF IsFresh, Working
  <2>3. IsHistory(file, rings, agg, sampler)
    BY <1>4, <2>2, IdleIs DEF IsHistory, OwnIn, FreshFrom
  <2>4. QED
    BY <1>3, <2>1, <2>3 DEF HistoryInv
<1>5. ASSUME NEW c \in Caps, format = "old", file = Plants!OldTable(c),
             rings = [none EXCEPT ![1] = [t \in Plants!Tiers |-> Plants!OldRing(c)]]
      PROVE  HistoryInv
  <2> DEFINE p == [birth |-> 1, mac |-> 0, caps |-> {c}]
             listed == [id \in {1} |-> p]
             t == Plants!OldTable(c)
             ring == Plants!OldRing(c)
             both == [x \in Plants!Tiers |-> ring]
             out == [none EXCEPT ![1] = both]
  <2>1. t = [plants |-> listed, next |-> 2]
    BY DEF Plants!OldTable
  <2>2. IsPlantRecord(p)
    BY DEF IsPlantRecord
  <2> HIDE DEF p
  <2>3. DOMAIN listed = {1} /\ listed = [id \in DOMAIN listed |-> listed[id]] /\ listed[1] = p
    OBVIOUS
  <2> HIDE DEF listed, t
  <2>4. t.plants = listed /\ t.next = 2 /\ IsPlantTable(t)
    BY <2>1 DEF IsPlantTable
  <2>5. 1 \in PlantIds
    BY HubPartsAssumption DEF Plants!PlantHistoryAssumption, PlantIds, Plants!Ids
  <2>6. IsPlants(t)
    BY <2>2, <2>3, <2>4, <2>5 DEF IsPlants
  <2>7. IsRing(ring)
    <3> DEFINE map == <<c>>
               recs == {<<1, 1, c>>}
    <3>1. map \in Seq({c})
      OBVIOUS
    <3>2. ring = [there |-> TRUE, map |-> map, recs |-> recs]
      BY DEF Plants!OldRing
    <3> HIDE DEF map, recs, ring
    <3>3. ring.there = TRUE /\ ring.map = map /\ ring.recs = recs
      BY <3>2
    <3>4. IsRingRecord(ring)
      BY <3>2 DEF IsRingRecord
    <3>5. QED
      BY <3>1, <3>3, <3>4 DEF IsRing
  <2> HIDE DEF ring
  <2>8. both = [x \in Plants!Tiers |-> both[x]] /\ \A x \in Plants!Tiers : both[x] = ring
    OBVIOUS
  <2> HIDE DEF both
  <2>9. AreRings(out)
    <3>1. out = [id \in PlantIds |-> out[id]] /\ out[1] = both
          /\ \A id \in PlantIds : id # 1 => out[id] = none[id]
      BY <1>2, <2>5 DEF AreRings
    <3> HIDE DEF out
    <3>2. QED
      BY <1>2, <2>7, <2>8, <3>1 DEF AreRings
  <2>10. rings = out /\ file = t
    BY <1>5 DEF out, both, ring, t
  <2>11. HistoryTypes
    BY <1>1, <2>6, <2>9, <2>10, IdleIs DEF HistoryTypes
  <2>12. ~Together
    BY <1>1, <1>5 DEF Together
  <2>13. QED
    BY <1>3, <2>11, <2>12 DEF HistoryInv
<1>6. QED
  BY <1>4, <1>5 DEF Plants!Init, none

LEMMA HistoryStep == HistoryInv /\ [Plants!Next]_plantVars => HistoryInv'
<1> SUFFICES ASSUME HistoryInv, [Plants!Next]_plantVars
             PROVE  HistoryInv'
  OBVIOUS
<1>1. CASE UNCHANGED plantVars
  BY <1>1 DEF plantVars, HistoryInv, HistoryTypes, NotUp, BootHeld, UpHeld, Together, SameBirths,
     BeingWritten, Removes, IsGone
<1>2. CASE Plants!Next
  BY <1>2, WipeTableStep, WipeRingStep, WipeMarkerStep, PlantLoadStep, PlantCrashStep, PlantCreateStep, BindStep,
     PlantDeleteStep, PlantWebWriteStep, WebRemoveStep, WebDropStep, TickStep, NextPlantStep, EnsureRawStep,
     EnsureHourlyStep, AppendRawStep, AggregateStep, AdoptProbeStep, SamplerWriteStep
     DEF Plants!Next
<1>3. QED
  BY <1>1, <1>2

LEMMA HistoryOk == HistoryInv => Plants!HistoryIsOwn
<1> SUFFICES ASSUME HistoryInv, ~tainted, NEW id \in DOMAIN table.plants, NEW t \in Plants!Tiers,
                    NEW r \in rings[id][t].recs
             PROVE  /\ r[1] = table.plants[id].birth
                    /\ r[2] \in DOMAIN rings[id][t].map => rings[id][t].map[r[2]] = r[3]
  BY DEF Plants!HistoryIsOwn
<1>1. CASE boot = "up"
  <2>1. IsOwn(rings[id], agg[id], sampler, id, table.plants[id].birth)
    BY <1>1 DEF HistoryInv, UpHeld, IsHistory, OwnIn
  <2>2. QED
    BY <2>1 DEF IsOwn, BelongTo, Says
<1>2. CASE boot # "up"
  <2>1. table = Plants!EmptyTable
    BY <1>2 DEF HistoryInv, NotUp
  <2>2. QED
    BY <2>1, IdleIs
<1>3. QED
  BY <1>1, <1>2

-----------------------------------------------------------------------------
(* The parts together *)

\* PlantHistory: what the ring files of a plant hold was measured at this plant, and the
\* maps name its capabilities, though a table write, a sample and a wipe are each many
\* file operations of two tasks.  PlantMigration: until the older firmware's files are
\* converted nothing of them is lost, and what is converted is the same sensor's.
THEOREM RecordedOfItself == Spec => []HistoryIsOwn
<1> DEFINE Inv == Of("plants", HistoryInv) /\ Of("migration", MigrationInv)
<1>1. Init => Inv
  BY HistoryStarts, MigrationStarts DEF Init, Of
<1>2. Inv /\ [Next]_vars => Inv'
  <2>1. ASSUME Inv, [Next]_vars, follows' = "plants"
        PROVE  HistoryInv'
    <3>1. follows = "plants" /\ [Plants!Next]_plantVars
      BY <2>1 DEF Next, vars, fileVars
    <3>2. QED
      BY <2>1, <3>1, HistoryStep DEF Of
  <2>2. ASSUME Inv, [Next]_vars, follows' = "migration"
        PROVE  MigrationInv'
    <3>1. follows = "migration" /\ [Migration!Next]_migrationVars
      BY <2>2 DEF Next, vars, fileVars, bootVars, migrationVars
    <3>2. QED
      BY <2>2, <3>1, MigrationStep DEF Of
  <2>3. QED
    BY <2>1, <2>2 DEF Of
<1>3. Inv => HistoryIsOwn
  BY HistoryOk, LegacyOk DEF Of, HistoryIsOwn
<1>4. QED
  BY <1>1, <1>2, <1>3, PTL DEF Spec

=============================================================================
