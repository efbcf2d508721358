----------------------------- MODULE GuardPersist -----------------------------
(***************************************************************************)
(* components/actors/actor_persist.c and its callers: the guards of every  *)
(* actuator (lockout, cooldown, hourly cap, spent budget) in the live      *)
(* table, in the image s_img and in the file, across wrapper changes and   *)
(* reboots.                                                                *)
(*                                                                         *)
(* Three tasks share the table.  adv_decoder_task binds devices            *)
(* (note_actor_device), re-reads the wrappers (do_wrapper_reindex), sends  *)
(* commands and writes the file; the web server changes guards at any      *)
(* moment; the wired link (swarm_ingest_announce) declares the devices its *)
(* coordinator announces.  "at" is where the decoder task stands, "wired"  *)
(* where the link task stands.  Clocks stand still: this module is about   *)
(* which guards a device has, Actor is about what they permit when.        *)
(* Names are kept apart from those of Actor, so that the proofs about both *)
(* stand on the same lemmas on guard tables.                               *)
(***************************************************************************)
EXTENDS GuardTable, FiniteSetsExt

CONSTANTS
  NoDevice,
  Plans,         \* action sets a wrapper may declare (endpoint 1 each)
  WiredKeys,     \* devices announced over the wired link; the others are BLE
  Announces,     \* sets of (action, endpoint) pairs an announce may carry
  Submitters,    \* who submits commands
  HourlyCaps,    \* hourly caps the operator may set
  MaxCrashes,    \* bound: reboots
  MaxPresses     \* bound: operator changes

ASSUME GuardPersistAssumption ==
  /\ NoDevice \notin Devices
  /\ Plans \subseteq SUBSET Actions /\ 1 \in Endpoints
  /\ WiredKeys \subseteq Keys
  /\ Announces \subseteq SUBSET Pairs
  /\ Submitters \subseteq Sources
  /\ HourlyCaps \subseteq 0 .. CountMax
  /\ MaxCrashes \in Nat /\ MaxPresses \in Nat
  /\ IsFiniteSet(Keys) /\ IsFiniteSet(Pairs)

VARIABLES
  up,        \* the hub is running
  live,      \* s_table
  unsaved,   \* s_guards_dirty
  img,       \* s_img: (key, action, endpoint) |-> saved guards
  file,      \* /storage/actor_guards.bin
  owner,     \* the registry: device index |-> identity, in discovery order
  plan,      \* what the wrapper of each BLE device declares
  bound,     \* s_actor_conn: devices bound to their wrapper
  asked,     \* s_actor_asked: devices looked at since the last reindex
  at,        \* the decoder task: [step, dev]
  wired,     \* the link task: [step, dev, pairs]
  durable,   \* history: the rows that reached the file, less those given up for
             \* a good reason
  pressed,   \* history: identities whose stop button was last pressed, not released,
             \* less those that were being bound then
  stopped,   \* history: the rows that reached the file with such a stop
  crashes, presses

persistVars == <<up, live, unsaved, img, file, owner, plan, bound, asked, at, wired,
                 durable, pressed, stopped, crashes, presses>>

\* One round of the loop: "top", "merge", "save", "service", "advert", and
\* for an advert of a new actuator "declare", "key", "restore".
At(step) == [step |-> step, dev |-> NoDevice]
Idle == [step |-> "idle", dev |-> NoDevice, pairs |-> {}]
Rows == Keys \X Actions \X Endpoints

Saved == [lockout: BOOLEAN, cooldown: Nat, perHour: 0 .. CountMax, count: 0 .. CountMax]

NoRows == [x \in {} |-> 0]

PersistInit ==
  /\ up = TRUE
  /\ live = EmptyTable /\ unsaved = FALSE
  /\ img = NoRows /\ file = NoRows
  /\ owner = [d \in Devices |-> NoKey]
  /\ plan \in [Keys \ WiredKeys -> Plans]
  /\ bound = {} /\ asked = {}
  /\ at = At("top") /\ wired = Idle
  /\ durable = NoRows /\ pressed = {} /\ stopped = {}
  /\ crashes = 0 /\ presses = 0

-----------------------------------------------------------------------------
(* The image *)

Carries(t, d, k) == d \in DOMAIN t /\ k # NoKey /\ t[d].key = k

LiveKeys(t) == {t[d].key : d \in DOMAIN t} \ {NoKey}

\* The rows of every device that has an identity right now.
LiveRows(t) ==
  {x \in Rows : \E d \in DOMAIN t : Carries(t, d, x[1]) /\ <<x[2], x[3]>> \in DOMAIN t[d].slots}

RowNow(t, x) ==
  LET d == CHOOSE e \in DOMAIN t : Carries(t, e, x[1])
      s == t[d].slots[<<x[2], x[3]>>]
  IN  [lockout |-> t[d].lockout, cooldown |-> s.cooldown, perHour |-> s.perHour,
       count |-> s.count]

\* Mutant of Survives: the rows of absent devices are dropped as well.
SurvivesIfPresent(t, x) ==
  \E d \in DOMAIN t : Carries(t, d, x[1]) /\ EndpointsOf(t, d, x[2]) # {}

\* A present device that no longer declares an action, on any endpoint,
\* loses the rows of that action; absent devices keep theirs.
Survives(t, x) ==
  \A d \in DOMAIN t : Carries(t, d, x[1]) => EndpointsOf(t, d, x[2]) # {}

\* Mutant of Merges: a full image turns new rows away.
MergesNoEviction(t, old) ==
  LET kept == {x \in DOMAIN old : Survives(t, x)}
      new  == IF Cardinality(kept) < MaxDevices * MaxActions THEN LiveRows(t) ELSE {}
  IN  {[x \in kept \cup new |-> IF x \in LiveRows(t) THEN RowNow(t, x) ELSE old[x]]}

\* What actor_table_guard_merge() may leave.  A full image gives up rows of
\* absent devices, whichever come first; when there are none left a live row
\* is not written.
Merges(t, old) ==
  LET kept  == {x \in DOMAIN old : Survives(t, x)}
      new   == LiveRows(t) \ kept
      stale == {x \in kept : x[1] \notin LiveKeys(t)}
      need  == Cardinality(kept) + Cardinality(new) - MaxDevices * MaxActions
      gone  == IF need <= 0 THEN {{}}
               ELSE IF need <= Cardinality(stale) THEN kSubset(need, stale)
               ELSE {stale \cup g : g \in kSubset(need - Cardinality(stale), new)}
  IN  {[x \in (kept \cup new) \ g |-> IF x \in LiveRows(t) THEN RowNow(t, x) ELSE old[x]] :
         g \in gone}

\* Mutant of Apply: the configuration comes back, the spent budget does not.
ApplyConfiguration(slot, saved) ==
  [slot EXCEPT !.cooldown = saved.cooldown, !.perHour = saved.perHour]

\* A saved row on its slot: the counters verbatim, the clocks restarted (they
\* stand still here).
Apply(slot, saved) ==
  [slot EXCEPT !.cooldown = saved.cooldown, !.perHour = saved.perHour, !.count = saved.count]

\* actor_persist_restore_device(): every saved row of the device, in whatever
\* order the image has them.  Each sets the lockout of the whole device, so that
\* of the last one stays.
Restores(t, d, image) ==
  LET saved == [p \in Pairs |-> <<owner[d], p[1], p[2]>>]
      mine  == {p \in Pairs : saved[p] \in DOMAIN image /\ Declared(t, d, p)}
      slots == [p \in DOMAIN t[d].slots |->
                  IF p \in mine THEN Apply(t[d].slots[p], image[saved[p]]) ELSE t[d].slots[p]]
  IN  IF mine = {} THEN {t}
      ELSE {[t EXCEPT ![d] = [@ EXCEPT !.slots = slots, !.lockout = image[saved[last]].lockout]] :
              last \in mine}

\* Declares a set of pairs without parameter, one after the other: when the row
\* is too small for the new ones, whichever come first.
Declares(t, d, pairs) ==
  LET row  == RowOf(t, d)
      new  == pairs \ DOMAIN row.slots
      room == MaxActions - Cardinality(DOMAIN row.slots)
      with(fit) == [q \in DOMAIN row.slots \cup fit |->
                      IF q \in pairs THEN DeclaredSlot(t, d, q, 0, FALSE) ELSE row.slots[q]]
  IN  IF pairs = {} \/ ~RowAvailable(t, d) THEN {t}
      ELSE {WithRow(t, d, [row EXCEPT !.slots = with(fit)]) :
              fit \in IF Cardinality(new) <= room THEN {new} ELSE kSubset(room, new)}

\* Merges the table into the image.  A row is rightly given up only when its
\* device is here without the action, or when the image is full.
Remerge ==
  /\ img' \in Merges(live, img)
  /\ LET lost    == DOMAIN img \ DOMAIN img'
         full    == Cardinality(DOMAIN img') = MaxDevices * MaxActions
         rightly == {x \in lost : full \/ x[1] \in LiveKeys(live)}
     IN  durable' = Restrict(durable, DOMAIN durable \ rightly)

\* A declared device that its task has finished binding.
Settled(d) ==
  /\ up /\ d \in DOMAIN live /\ live[d].key # NoKey
  /\ at.dev # d /\ wired.dev # d

BlePairs(actions) == {<<a, 1>> : a \in actions}

-----------------------------------------------------------------------------
(* The decoder task *)

\* The registry hands out indices in discovery order.
Discover(d, k) ==
  /\ up /\ owner[d] = NoKey /\ \A e \in Devices : owner[e] # k
  /\ owner' = [owner EXCEPT ![d] = k]
  /\ UNCHANGED <<up, live, unsaved, img, file, plan, bound, asked, at, wired,
                 durable, pressed, stopped, crashes, presses>>

\* note_actor_device(), first half: a device whose wrapper declares actions is
\* noticed; the image is brought up to date before it is read.
NoteActorDevice(d) ==
  /\ up /\ at.step \in {"service", "advert"} /\ owner[d] \in Keys \ WiredKeys
  /\ d \notin bound /\ d \notin asked
  /\ asked' = asked \cup {d}
  /\ IF plan[owner[d]] = {}
     THEN UNCHANGED <<img, durable, bound>> /\ at' = At("top")
     ELSE /\ IF unsaved THEN Remerge ELSE UNCHANGED <<img, durable>>
          /\ IF Cardinality(bound) < MaxDevices
             THEN bound' = bound \cup {d} /\ at' = [step |-> "declare", dev |-> d]
             ELSE UNCHANGED bound /\ at' = At("top")
  /\ UNCHANGED <<up, live, unsaved, file, owner, plan, wired, pressed, stopped, crashes, presses>>

BindDeclare ==
  /\ up /\ at.step = "declare"
  /\ live' \in Declares(live, at.dev, BlePairs(plan[owner[at.dev]]))
  /\ at' = [at EXCEPT !.step = "key"]
  /\ UNCHANGED <<up, unsaved, img, file, owner, plan, bound, asked, wired,
                 durable, pressed, stopped, crashes, presses>>

BindKey ==
  /\ up /\ at.step = "key"
  /\ live' = SetKey(live, at.dev, owner[at.dev])
  /\ at' = [at EXCEPT !.step = "restore"]
  /\ UNCHANGED <<up, unsaved, img, file, owner, plan, bound, asked, wired,
                 durable, pressed, stopped, crashes, presses>>

BindRestore ==
  /\ up /\ at.step = "restore"
  /\ live' \in Restores(live, at.dev, img)
  /\ at' = At("top")
  /\ UNCHANGED <<up, unsaved, img, file, owner, plan, bound, asked, wired,
                 durable, pressed, stopped, crashes, presses>>

\* do_wrapper_reindex() after the wrapper of one device was installed, edited
\* or deleted: every bound device is asked again, and one whose wrapper
\* declares nothing any more is undeclared.
Reindex(k, actions) ==
  /\ up /\ at.step = "top" /\ k \notin WiredKeys
  /\ plan' = [plan EXCEPT ![k] = actions]
  /\ LET dropped == {d \in bound : plan'[owner[d]] = {}}
     IN  /\ live' = Restrict(live, DOMAIN live \ dropped)
         /\ unsaved' = (unsaved \/ live' # live)
  /\ bound' = {} /\ asked' = {}
  /\ at' = At("persist")
  /\ UNCHANGED <<up, img, file, owner, wired, durable, pressed, stopped, crashes, presses>>

\* actor_service() lets a command through, which is charged to the budget.
Fire(d, p, source) ==
  /\ up /\ at.step = "service"
  /\ Check(live, d, p[1], p[2], 0, source, 0) = "OK"
  /\ live' = Record(live, d, p[1], p[2], 0)
  /\ unsaved' = TRUE
  /\ at' = At("advert")
  /\ UNCHANGED <<up, img, file, owner, plan, bound, asked, wired,
                 durable, pressed, stopped, crashes, presses>>

\* Nothing to send, no advert waiting: the loop comes round.
NextRound ==
  /\ up /\ at.step \in {"service", "advert"}
  /\ at' = At("top")
  /\ UNCHANGED <<up, live, unsaved, img, file, owner, plan, bound, asked, wired,
                 durable, pressed, stopped, crashes, presses>>

\* actor_persist_service() in the three steps other tasks and a power loss
\* can come between: take the flag, merge, write.
TakeDirty ==
  /\ up /\ at.step \in {"top", "persist"}
  /\ unsaved' = FALSE
  /\ at' = At(IF unsaved THEN "merge" ELSE "service")
  /\ UNCHANGED <<up, live, img, file, owner, plan, bound, asked, wired,
                 durable, pressed, stopped, crashes, presses>>

MergeImage ==
  /\ up /\ at.step = "merge"
  /\ Remerge
  /\ at' = At("save")
  /\ UNCHANGED <<up, live, unsaved, file, owner, plan, bound, asked, wired,
                 pressed, stopped, crashes, presses>>

\* The rows on flash once an image was written over them.
Written(image, rows) ==
  [x \in DOMAIN image \cup DOMAIN rows |-> IF x \in DOMAIN image THEN image[x] ELSE rows[x]]

SaveImage ==
  /\ up /\ at.step = "save"
  /\ at' = At("service")
  /\ \/ /\ file' = img /\ durable' = Written(img, durable)
        /\ stopped' = {x \in DOMAIN img : img[x].lockout /\ x[1] \in pressed}
     \/ img # NoRows /\ UNCHANGED <<file, durable, stopped>>
  /\ UNCHANGED <<up, live, unsaved, img, owner, plan, bound, asked, wired,
                 pressed, crashes, presses>>

-----------------------------------------------------------------------------
(* The web server and the wired link *)

\* A stop pressed while its device is being bound is overwritten by the restore,
\* which reads the older image; it does not count.
PressStop(d, on) ==
  /\ up /\ presses < MaxPresses
  /\ live' = SetLockout(live, d, on)
  /\ unsaved' = TRUE
  /\ presses' = presses + 1
  /\ IF on
     THEN /\ pressed' = pressed \cup {k \in {owner[d]} : Settled(d)}
          /\ UNCHANGED stopped
     ELSE /\ pressed' = pressed \ {owner[d]}
          /\ stopped' = {x \in stopped : x[1] # owner[d]}
  /\ UNCHANGED <<up, img, file, owner, plan, bound, asked, at, wired, durable, crashes>>

ChangeGuards(d, p, perHour) ==
  /\ up /\ presses < MaxPresses /\ Declared(live, d, p)
  /\ live' = SetGuards(live, d, p, 0, perHour)
  /\ unsaved' = TRUE
  /\ presses' = presses + 1
  /\ UNCHANGED <<up, img, file, owner, plan, bound, asked, at, wired, durable, pressed,
                 stopped, crashes>>

\* swarm_ingest_announce(): the announced set is declared, what it no longer
\* names is pruned, then the device gets its identity.
AnnounceDeclare(d, pairs) ==
  /\ up /\ wired = Idle /\ owner[d] \in WiredKeys
  /\ live' \in Declares(live, d, pairs)
  /\ wired' = [step |-> "prune", dev |-> d, pairs |-> pairs]
  /\ UNCHANGED <<up, unsaved, img, file, owner, plan, bound, asked, at,
                 durable, pressed, stopped, crashes, presses>>

AnnouncePrune ==
  /\ up /\ wired.step = "prune"
  /\ live' = PruneAbsent(live, wired.dev, {p[1] : p \in wired.pairs})
  /\ unsaved' = (unsaved \/ live' # live)
  /\ wired' = [wired EXCEPT !.step = "key"]
  /\ UNCHANGED <<up, img, file, owner, plan, bound, asked, at, durable, pressed, stopped,
                 crashes, presses>>

AnnounceKey ==
  /\ up /\ wired.step = "key"
  /\ live' = SetKey(live, wired.dev, owner[wired.dev])
  /\ wired' = Idle
  /\ UNCHANGED <<up, unsaved, img, file, owner, plan, bound, asked, at,
                 durable, pressed, stopped, crashes, presses>>

-----------------------------------------------------------------------------
(* Power *)

Crash ==
  /\ up /\ crashes < MaxCrashes
  /\ up' = FALSE
  /\ live' = EmptyTable /\ unsaved' = FALSE /\ img' = NoRows
  /\ owner' = [d \in Devices |-> NoKey]
  /\ bound' = {} /\ asked' = {}
  /\ at' = At("top") /\ wired' = Idle
  /\ crashes' = crashes + 1
  /\ UNCHANGED <<file, plan, durable, pressed, stopped, presses>>

\* actor_persist_init().
Boot ==
  /\ ~up
  /\ up' = TRUE
  /\ img' = file
  /\ UNCHANGED <<live, unsaved, file, owner, plan, bound, asked, at, wired,
                 durable, pressed, stopped, crashes, presses>>

PersistNext ==
  \/ \E d \in Devices, k \in Keys : Discover(d, k)
  \/ \E d \in Devices : NoteActorDevice(d)
  \/ BindDeclare \/ BindKey \/ BindRestore
  \/ \E k \in Keys, actions \in Plans : Reindex(k, actions)
  \/ \E d \in Devices, p \in Pairs, source \in Submitters : Fire(d, p, source)
  \/ NextRound \/ TakeDirty \/ MergeImage \/ SaveImage
  \/ \E d \in Devices, on \in BOOLEAN : PressStop(d, on)
  \/ \E d \in Devices, p \in Pairs, perHour \in HourlyCaps : ChangeGuards(d, p, perHour)
  \/ \E d \in Devices, pairs \in Announces : AnnounceDeclare(d, pairs)
  \/ AnnouncePrune \/ AnnounceKey
  \/ Crash \/ Boot

PersistSpec == PersistInit /\ [][PersistNext]_persistVars

-----------------------------------------------------------------------------
(* Properties *)

StopSurvivesFor(keys) ==
  \A d \in Devices : \A x \in DOMAIN durable \cap stopped :
    Settled(d) /\ x[1] = live[d].key /\ x[1] \in keys /\ Declared(live, d, <<x[2], x[3]>>)
      => live[d].lockout

\* A stop in force has a row in the image by the time nothing is left to save.
StopIsKeptFor(keys) ==
  ~unsaved /\ at = At("top") =>
    \A d \in Devices :
      Settled(d) /\ live[d].key \in keys /\ live[d].lockout =>
        \E x \in DOMAIN img : x[1] = live[d].key /\ img[x].lockout

\* What the file exists for: the stop button of a BLE device reaches the image
\* that is written, though it is full of rows of absent devices ("One provably
\* exists", actor_table.c, to evict); and once it is on flash, the device comes
\* back stopped from any reboot, rediscovery under another index, rebind or
\* wrapper edit that leaves it an action it was stopped with, until the operator
\* lets go and whatever other devices come and go meanwhile.
StopSurvives == StopIsKeptFor(Keys \ WiredKeys) /\ StopSurvivesFor(Keys \ WiredKeys)

\* A budget that reached flash is never refunded: no settled BLE device has a
\* smaller count than the row the flash has for it.
NeverRefunded ==
  \A d \in Devices : Settled(d) /\ live[d].key \notin WiredKeys =>
    \A p \in DOMAIN live[d].slots :
      LET x == <<live[d].key, p[1], p[2]>>
      IN  x \in DOMAIN durable => durable[x].count <= live[d].slots[p].count

\* actor_persist.h states the same of every actuator ("after an OTA, a
\* brownout or an ordinary power cycle the operator's LOCKOUT came up off").
\* Announced devices get their identity but never their saved guards.
WiredStopSurvives == StopSurvivesFor(WiredKeys)
=============================================================================
