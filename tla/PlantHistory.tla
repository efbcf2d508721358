------------------------------ MODULE PlantHistory ------------------------------
(***************************************************************************)
(* The plants and what is recorded of them: the table in RAM and in        *)
(* plants.bin (plants/plants.c, plants_table.c), the two ring files of a   *)
(* plant with their column maps (storage/storage.c), the sampler that      *)
(* fills them (sampler/sampler.c, storage/hourly_agg.c) and the wipe of an *)
(* old data format before all that (app_config/data_fmt.c).  The web       *)
(* server's task and the sampler's interleave at every file operation.     *)
(***************************************************************************)
EXTENDS Naturals, Sequences, FiniteSets

CONSTANTS
  Macs,         \* probes in the air, for the sampler to adopt
  Caps,         \* capabilities
  PlantsMax,    \* PLANTS_MAX
  LastId,       \* 255: the id after it is 0, and none is given out any more
  CacheSlots,   \* CACHE_SLOTS
  MaxChanges,   \* bound: changes of the table
  MaxTicks,     \* bound: ticks of the sampler
  MaxCrashes,   \* bound: restarts
  MaxFails      \* bound: file operations that fail

PlantHistoryAssumption ==
  /\ 0 \notin Macs
  /\ {PlantsMax, LastId, CacheSlots} \subseteq Nat \ {0}
  /\ {MaxChanges, MaxTicks, MaxCrashes, MaxFails} \subseteq Nat

VARIABLES
  format,    \* data_fmt in NVS: "old" or "current"
  file,      \* plants.bin
  table,     \* s_table: the plants and the next id
  unsaved,   \* a table write failed and none has succeeded since
  rings,     \* the ring files
  cache,     \* s_cache: ring files with a write cursor
  agg,       \* s_agg: what this hour's record of a plant is made of
  boot,      \* how far the boot is: "wipe", "load", "up"
  web,       \* the web server's task, inside a handler
  sampler,   \* the sampler's task, inside sample_once()
  births,    \* history: plants created so far
  tainted,   \* history: a restart lost what could not be written, or a wipe left a file
  spent      \* changes, ticks, restarts and failures so far (bounds)

vars == <<format, file, table, unsaved, rings, cache, agg, boot, web, sampler, births, tainted, spent>>

Ids == 1 .. LastId
Tiers == {"raw", "hourly"}

\* Each plant carries the number of its creation, which no code sees.
EmptyTable == [plants |-> [id \in {} |-> [birth |-> 0, mac |-> 0, caps |-> {}]], next |-> 1]
NoRing == [there |-> FALSE, map |-> <<>>, recs |-> {}]
NoRings == [id \in Ids |-> [t \in Tiers |-> NoRing]]
WebIdle == [at |-> "idle", id |-> 0]
SamplerIdle == [at |-> "idle", ids |-> {}, id |-> 0, birth |-> 0, caps |-> <<>>, col |-> 0, rec |-> {}]
NoAgg == [id \in Ids |-> {}]

\* A hub with nothing on it, or one with a plant that an older firmware recorded.
OldTable(c) == [plants |-> [id \in {1} |-> [birth |-> 1, mac |-> 0, caps |-> {c}]], next |-> 2]
OldRing(c) == [there |-> TRUE, map |-> <<c>>, recs |-> {<<1, 1, c>>}]

Init ==
  /\ \/ format = "current" /\ file = EmptyTable /\ rings = NoRings /\ births = 0
     \/ /\ format = "old" /\ births = 1
        /\ \E c \in Caps : file = OldTable(c) /\ rings = [NoRings EXCEPT ![1] = [t \in Tiers |-> OldRing(c)]]
  /\ table = EmptyTable /\ unsaved = FALSE /\ cache = {} /\ agg = NoAgg
  /\ boot = "wipe" /\ web = WebIdle /\ sampler = SamplerIdle /\ tainted = FALSE
  /\ spent = [changes |-> 0, ticks |-> 0, crashes |-> 0, fails |-> 0]

\* A file operation that succeeds, or one that fails.
Works == UNCHANGED spent
Breaks == spent.fails < MaxFails /\ spent' = [spent EXCEPT !.fails = @ + 1]

-----------------------------------------------------------------------------
(* Boot *)

\* data_fmt_apply(): the table goes first.  A file that cannot be removed stays.
WipeTable ==
  /\ boot = "wipe"
  /\ IF format = "current"
     THEN boot' = "load" /\ UNCHANGED <<file, tainted, spent>>
     ELSE /\ boot' = "wipe rings"
          /\ \/ file' = EmptyTable /\ Works /\ UNCHANGED tainted
             \/ Breaks /\ tainted' = TRUE /\ UNCHANGED file
  /\ UNCHANGED <<format, table, unsaved, rings, cache, agg, web, sampler, births>>

\* Then the rings, one by one; a crash leaves the rest to the next boot, and one that
\* cannot be removed stays while the others go.
WipeRing ==
  /\ boot = "wipe rings"
  /\ \E id \in Ids, t \in Tiers :
       /\ rings[id][t].there
       /\ \/ rings' = [rings EXCEPT ![id][t] = NoRing] /\ Works /\ UNCHANGED <<boot, tainted>>
          \/ /\ Breaks /\ tainted' = TRUE /\ boot' = "wiped"
             /\ rings' = [NoRings EXCEPT ![id][t] = rings[id][t]]
  /\ UNCHANGED <<format, file, table, unsaved, cache, agg, web, sampler, births>>

\* Mutant of Wiped: the marker is written when the table is gone.
WipedTable == boot \in {"wipe rings", "wiped"}

Wiped == boot = "wiped" \/ (boot = "wipe rings" /\ \A id \in Ids, t \in Tiers : ~rings[id][t].there)

\* The marker is last.  Without it the hub goes on and wipes again at the next boot.
WipeMarker ==
  /\ Wiped /\ boot' = "load"
  /\ (format' = "current" /\ Works) \/ (Breaks /\ UNCHANGED format)
  /\ UNCHANGED <<file, table, unsaved, rings, cache, agg, web, sampler, births, tainted>>

\* plants_init().
Load ==
  /\ boot = "load" /\ boot' = "up" /\ table' = file
  /\ UNCHANGED <<format, file, unsaved, rings, cache, agg, web, sampler, births, tainted, spent>>

\* Power fails.
Crash ==
  /\ spent.crashes < MaxCrashes /\ spent' = [spent EXCEPT !.crashes = @ + 1]
  /\ boot' = "wipe" /\ table' = EmptyTable /\ unsaved' = FALSE /\ cache' = {} /\ agg' = NoAgg
  /\ web' = WebIdle /\ sampler' = SamplerIdle
  /\ tainted' = (tainted \/ unsaved)
  /\ UNCHANGED <<format, file, rings, births>>

-----------------------------------------------------------------------------
(* The table *)

Change == boot = "up" /\ spent.changes < MaxChanges /\ spent' = [spent EXCEPT !.changes = @ + 1]

\* plants_table_create().
Room == table.next \in Ids /\ Cardinality(DOMAIN table.plants) < PlantsMax
Created(mac) ==
  [plants |-> [id \in DOMAIN table.plants \cup {table.next} |->
     IF id = table.next THEN [birth |-> births + 1, mac |-> mac, caps |-> {}] ELSE table.plants[id]],
   next |-> table.next + 1]

\* plants_create(), up to its write.
Create ==
  /\ Change /\ web = WebIdle /\ Room
  /\ table' = Created(0) /\ births' = births + 1
  /\ web' = [at |-> "write", id |-> 0]
  /\ UNCHANGED <<format, file, unsaved, rings, cache, agg, boot, sampler, tainted>>

\* plants_bind_cap(), which replaces what was bound, and unbinds without a device.
Bind ==
  /\ Change /\ web = WebIdle
  /\ \E id \in DOMAIN table.plants, c \in Caps :
       \/ table' = [table EXCEPT !.plants[id].caps = @ \cup {c}]
       \/ table' = [table EXCEPT !.plants[id].caps = @ \ {c}]
  /\ table' # table
  /\ web' = [at |-> "write", id |-> 0]
  /\ UNCHANGED <<format, file, unsaved, rings, cache, agg, boot, sampler, births, tainted>>

\* plants_delete(), up to its write.
Delete ==
  /\ Change /\ web = WebIdle
  /\ \E id \in DOMAIN table.plants :
       /\ table' = [table EXCEPT !.plants = [i \in DOMAIN @ \ {id} |-> @[i]]]
       /\ web' = [at |-> "write", id |-> id]
  /\ UNCHANGED <<format, file, unsaved, rings, cache, agg, boot, sampler, births, tainted>>

\* persist_table(): whatever the table is by now goes to a file of its own that
\* replaces plants.bin, or does not.
Persist ==
  \/ file' = table /\ unsaved' = FALSE /\ Works
  \/ unsaved' = TRUE /\ Breaks /\ UNCHANGED file

\* The write of the web server's task; a plant that is deleted then loses its files.
WebWrite ==
  /\ web.at = "write" /\ Persist
  /\ web' = IF web.id = 0 THEN WebIdle ELSE [web EXCEPT !.at = "raw"]
  /\ UNCHANGED <<format, table, rings, cache, agg, boot, sampler, births, tainted>>

\* remove_ring_files(), then storage_drop().
WebRemove ==
  /\ web.at \in Tiers
  /\ \/ rings' = [rings EXCEPT ![web.id][web.at] = NoRing] /\ Works
     \/ Breaks /\ UNCHANGED rings
  /\ web' = [web EXCEPT !.at = IF web.at = "raw" THEN "hourly" ELSE "drop"]
  /\ UNCHANGED <<format, file, table, unsaved, cache, agg, boot, sampler, births, tainted>>

WebDrop ==
  /\ web.at = "drop" /\ web' = WebIdle
  /\ cache' = {e \in cache : e[1] # web.id}
  /\ UNCHANGED <<format, file, table, unsaved, rings, agg, boot, sampler, births, tainted, spent>>

-----------------------------------------------------------------------------
(* The sampler *)

samplerOnly == <<format, file, table, unsaved, boot, web, births, tainted>>

\* sample_once(): the ids as they are now; hours of plants that are gone are dropped.
Tick ==
  /\ boot = "up" /\ sampler = SamplerIdle
  /\ spent.ticks < MaxTicks /\ spent' = [spent EXCEPT !.ticks = @ + 1]
  /\ sampler' = [SamplerIdle EXCEPT !.at = "plant", !.ids = DOMAIN table.plants]
  /\ agg' = [id \in Ids |-> IF id \in DOMAIN table.plants THEN agg[id] ELSE {}]
  /\ UNCHANGED <<samplerOnly, rings, cache>>

\* The bindings of the next plant as they are now, in the order of the capabilities,
\* those with a fresh value.
NextPlant ==
  /\ sampler.at = "plant" /\ sampler.ids # {}
  /\ LET id == CHOOSE i \in sampler.ids : \A j \in sampler.ids : i <= j
         bound == IF id \in DOMAIN table.plants THEN table.plants[id].caps ELSE {}
     IN  \E fresh \in SUBSET bound :
           sampler' = [sampler EXCEPT !.ids = @ \ {id}, !.id = id,
             !.birth = IF bound = {} THEN 0 ELSE table.plants[id].birth,
             !.at = IF fresh = {} THEN "plant" ELSE "raw", !.rec = {},
             !.caps = CHOOSE s \in [1 .. Cardinality(fresh) -> fresh] :
                        \A i, j \in DOMAIN s : i # j => s[i] # s[j]]
  /\ UNCHANGED <<samplerOnly, rings, cache, agg, spent>>

\* open_or_create() and history_map_ensure(): the column of a capability in a file
\* that is there, or made.
Mapped(ring, c) ==
  [ring EXCEPT !.there = TRUE,
               !.map = IF \E i \in DOMAIN @ : @[i] = c THEN @ ELSE Append(@, c)]
Column(ring, c) == CHOOSE i \in DOMAIN ring.map : ring.map[i] = c

NextCap(s) ==
  [s EXCEPT !.caps = Tail(@), !.col = 0,
            !.at = IF Len(s.caps) > 1 THEN "raw" ELSE IF s.rec # {} THEN "append" ELSE "plant"]

StillBound == sampler.id \in DOMAIN table.plants /\ Head(sampler.caps) \in table.plants[sampler.id].caps

\* plants_cap_value(), and storage_col_for() of the raw file.  Its result is looked at
\* after the other's.
EnsureRaw ==
  /\ sampler.at = "raw"
  /\ LET ring == Mapped(rings[sampler.id]["raw"], Head(sampler.caps))
     IN  \/ ~StillBound /\ sampler' = NextCap(sampler) /\ Works /\ UNCHANGED rings
         \/ /\ StillBound /\ rings' = [rings EXCEPT ![sampler.id]["raw"] = ring] /\ Works
            /\ sampler' = [sampler EXCEPT !.at = "hourly", !.col = Column(ring, Head(sampler.caps))]
         \/ /\ StillBound /\ Breaks /\ UNCHANGED rings
            /\ sampler' = [sampler EXCEPT !.at = "hourly", !.col = 0]
  /\ UNCHANGED <<samplerOnly, cache, agg>>

\* The same column in both files, or the value is dropped.
Agree(raw, hourly) == raw # 0 /\ raw = hourly

\* storage_col_for() of the hourly file.
EnsureHourly ==
  /\ sampler.at = "hourly"
  /\ LET c == Head(sampler.caps)
         ring == Mapped(rings[sampler.id]["hourly"], c)
         taken == [sampler EXCEPT !.rec = {e \in @ : e[2] # sampler.col} \cup
                                          {<<sampler.birth, sampler.col, c>>}]
     IN  \/ /\ rings' = [rings EXCEPT ![sampler.id]["hourly"] = ring] /\ Works
            /\ sampler' = NextCap(IF Agree(sampler.col, Column(ring, c)) THEN taken ELSE sampler)
         \/ Breaks /\ sampler' = NextCap(sampler) /\ UNCHANGED rings
  /\ UNCHANGED <<samplerOnly, cache, agg>>

\* storage_append(): a file that is there, or made, and a write cursor of the cache.
Cursor(t) == <<sampler.id, t>> \in cache \/ Cardinality(cache) < CacheSlots
Appends(t, recs) ==
  /\ Cursor(t) /\ cache' = cache \cup {<<sampler.id, t>>}
  /\ rings' = [rings EXCEPT ![sampler.id][t].there = TRUE, ![sampler.id][t].recs = @ \cup recs]
  /\ Works
CannotAppend(t) ==
  \/ ~Cursor(t) /\ rings' = [rings EXCEPT ![sampler.id][t].there = TRUE] /\ Works /\ UNCHANGED cache
  \/ /\ Breaks
     /\ \/ UNCHANGED <<cache, rings>>
        \/ /\ Cursor(t) /\ cache' = cache \cup {<<sampler.id, t>>}
           /\ rings' = [rings EXCEPT ![sampler.id][t].there = TRUE]

\* The raw record; without it the hour does not get it either.
AppendRaw ==
  /\ sampler.at = "append"
  /\ \/ Appends("raw", sampler.rec) /\ sampler' = [sampler EXCEPT !.at = "aggregate"]
     \/ CannotAppend("raw") /\ sampler' = [sampler EXCEPT !.at = "plant"]
  /\ UNCHANGED <<samplerOnly, agg>>

\* hourly_agg_add(): the record joins its hour, column by column, or opens the next
\* one, and then the hour before is written.
Aggregate ==
  /\ sampler.at = "aggregate"
  /\ sampler' = [sampler EXCEPT !.at = "plant"]
  /\ \/ /\ agg' = [agg EXCEPT ![sampler.id] = @ \cup sampler.rec]
        /\ UNCHANGED <<rings, cache, spent>>
     \/ /\ agg[sampler.id] # {} /\ agg' = [agg EXCEPT ![sampler.id] = sampler.rec]
        /\ Appends("hourly", agg[sampler.id]) \/ CannotAppend("hourly")
  /\ UNCHANGED samplerOnly

\* plants_adopt_from_registry() and plants_resolve_or_create(): a plant for a live
\* probe that has none, written at once.
Adopt ==
  /\ sampler.at = "plant" /\ sampler.ids = {}
  /\ \/ sampler' = SamplerIdle /\ UNCHANGED <<table, births, spent>>
     \/ /\ Change /\ Room
        /\ \E m \in Macs :
             /\ \A id \in DOMAIN table.plants : table.plants[id].mac # m
             /\ table' = Created(m)
        /\ births' = births + 1 /\ sampler' = [sampler EXCEPT !.at = "write"]
  /\ UNCHANGED <<format, file, unsaved, rings, cache, agg, boot, web, tainted>>

SamplerWrite ==
  /\ sampler.at = "write" /\ Persist
  /\ sampler' = [sampler EXCEPT !.at = "plant"]
  /\ UNCHANGED <<format, table, rings, cache, agg, boot, web, births, tainted>>

-----------------------------------------------------------------------------

Next ==
  \/ WipeTable \/ WipeRing \/ WipeMarker \/ Load \/ Crash
  \/ Create \/ Bind \/ Delete \/ WebWrite \/ WebRemove \/ WebDrop
  \/ Tick \/ NextPlant \/ EnsureRaw \/ EnsureHourly \/ AppendRaw \/ Aggregate
  \/ Adopt \/ SamplerWrite

Spec == Init /\ [][Next]_vars

-----------------------------------------------------------------------------
(* Properties *)

\* What the files of a plant say was measured at this plant, not at one that had its
\* id before, and was the capability the map names, in both files: although the files
\* are made, mapped, filled, removed and wiped one operation at a time, between which
\* the other task or a crash may come.  A restart after a table write that failed,
\* or a file a wipe could not remove, is left out.
HistoryIsOwn ==
  ~tainted => \A id \in DOMAIN table.plants, t \in Tiers :
    \A r \in rings[id][t].recs :
      /\ r[1] = table.plants[id].birth
      /\ r[2] \in DOMAIN rings[id][t].map => rings[id][t].map[r[2]] = r[3]
=============================================================================
