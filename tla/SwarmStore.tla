------------------------------- MODULE SwarmStore -------------------------------
(***************************************************************************)
(* The membership store (swarm/swarm_store.c): a cache in RAM, and one NVS *)
(* entry per key.  A setter changes the cache first, then takes the flash  *)
(* mutex, copies what the cache holds by then, and writes that.  Setters   *)
(* run on any task, a write may fail, and the power may go at any moment.  *)
(* A value is known by the number of the set that made it: 1 is what the   *)
(* flash held to begin with, 0 is a default.                               *)
(***************************************************************************)
EXTENDS Naturals, Sequences

CONSTANTS
  Writers,     \* the tasks that call setters
  Resetters,   \* those among them that also reset everything (web server, button)
  MaxCalls,    \* bound: calls of setters, and of a reset of all
  MaxFails,    \* bound: NVS writes that fail
  MaxCrashes   \* bound: power losses

SwarmStoreAssumption == Resetters \subseteq Writers /\ {MaxCalls, MaxFails, MaxCrashes} \subseteq Nat

VARIABLES
  ram,      \* the cache, guarded by s_mutex
  nvs,      \* the flash
  format,   \* the layout of the stored node table
  writer,   \* the locals of each writer: what it has yet to set and to write
  holder,   \* s_nvs_mutex: the writer that has it, if any
  acked,    \* history: the newest set of each field a setter returned ESP_OK for
  spent     \* calls, failed writes and power losses so far (bounds), and the number of the last set

vars == <<ram, nvs, format, writer, holder, acked, spent>>

\* What each key holds.  The node table is one blob.
Content(key) ==
  CASE key = "sw_nodes" -> {"members", "name", "desired_mode", "desired_radio"}
    [] OTHER -> {key}

Scalars == {"sw_role", "sw_hub", "sw_hubcc", "sw_region", "sw_pfail", "sw_otad", "sw_pm", "sw_fwk", "sw_wkc"}
Fields == Scalars \cup Content("sw_nodes")

\* A setter: the fields it changes in the cache at once, and the keys it then
\* writes.  One that finds no hub, no such node, no room or a value it does not
\* accept returns before it changes anything; that call is left out.
Setter(fields, keys) == [fields |-> fields, keys |-> keys]
Scalar(key) == Setter({key}, <<key>>)
OfNode(fields) == Setter(fields, <<"sw_nodes">>)

SetRole == Scalar("sw_role")
SetHub == Scalar("sw_hub")
SetChannel == SetHub             \* the channel is part of the hub's entry
SetHubCountry == Scalar("sw_hubcc")
SetRegion == Scalar("sw_region")
SetPowerMode == Scalar("sw_pm")
SetFailedWakes == Scalar("sw_fwk")
SetWakeCounter == Scalar("sw_wkc")
SetPairFailed == Scalar("sw_pfail")
SetCompletedOta == Scalar("sw_otad")
ClearCompletedOta == SetCompletedOta

\* Both fields are cleared at once and written one after the other; the result
\* of the second is not returned.
ClearHub == Setter({"sw_hub", "sw_hubcc"}, <<"sw_hub", "sw_hubcc">>)

\* A node that is known already only gets its new key.
AddNode(known) == OfNode(IF known THEN {"members"} ELSE Content("sw_nodes"))
SetNodeName == OfNode({"name"})
ForgetNode == OfNode(Content("sw_nodes"))
SetNodeDesiredMode == OfNode({"desired_mode"})
SetNodeDesiredRadio == OfNode({"desired_radio"})
ClearNodes == OfNode(Content("sw_nodes"))

Setters ==
  {SetRole, SetHub, SetChannel, SetHubCountry, SetRegion, SetPowerMode, SetFailedWakes,
   SetWakeCounter, SetPairFailed, SetCompletedOta, ClearCompletedOta, ClearHub, AddNode(TRUE),
   AddNode(FALSE), SetNodeName, ForgetNode, SetNodeDesiredMode, SetNodeDesiredRadio, ClearNodes}

\* swarm_store_reset_all(), whatever the result of each.
ResetAll ==
  <<SetRole, ClearHub, ClearNodes, SetPairFailed, ClearCompletedOta, SetPowerMode,
    SetFailedWakes, SetWakeCounter, SetRegion>>

Idle == [todo |-> <<>>, keys |-> <<>>, copy |-> [f \in {} |-> 0], main |-> "", sets |-> {}, number |-> 0]

\* Which fields an entry of a node table of each layout has.
InFormat(n) ==
  {"members"} \cup (IF n >= 1 THEN {"name"} ELSE {}) \cup (IF n >= 2 THEN {"desired_mode"} ELSE {})
              \cup (IF n >= 3 THEN {"desired_radio"} ELSE {})

\* load_nodes_blob(): a field an old layout does not have gets its default.
LoadNodes(fl, n) == [f \in Content("sw_nodes") |-> IF f \in InFormat(n) THEN fl[f] ELSE 0]

\* swarm_store_init().
Loaded(fl, n) ==
  [f \in DOMAIN fl |-> IF f \in Content("sw_nodes") THEN LoadNodes(fl, n)[f] ELSE fl[f]]

Init ==
  /\ format \in 0..3
  /\ nvs = [f \in Fields |-> IF f \in Scalars \cup InFormat(format) THEN 1 ELSE 0]
  /\ ram = Loaded(nvs, format) /\ acked = nvs
  /\ writer = [w \in Writers |-> Idle] /\ holder = {}
  /\ spent = [calls |-> 0, sets |-> 1, fails |-> 0, crashes |-> 0]

-----------------------------------------------------------------------------

Call(w) ==
  /\ writer[w] = Idle /\ spent.calls < MaxCalls
  /\ \E todo \in {<<s>> : s \in Setters} \cup (IF w \in Resetters THEN {ResetAll} ELSE {}) :
       writer' = [writer EXCEPT ![w].todo = todo]
  /\ spent' = [spent EXCEPT !.calls = @ + 1]
  /\ UNCHANGED <<ram, nvs, format, holder, acked>>

\* Phase 1: the cache, under s_mutex.
SetCache(w) ==
  LET s == Head(writer[w].todo) IN
  /\ writer[w].todo # <<>> /\ writer[w].keys = <<>>
  /\ spent' = [spent EXCEPT !.sets = @ + 1]
  /\ ram' = [f \in DOMAIN ram |-> IF f \in s.fields THEN spent.sets + 1 ELSE ram[f]]
  /\ writer' = [writer EXCEPT ![w].todo = Tail(@), ![w].keys = s.keys, ![w].main = s.keys[1],
                              ![w].sets = s.fields, ![w].number = spent.sets + 1]
  /\ UNCHANGED <<nvs, format, holder, acked>>

\* Mutant of FlashFree: a writer copies the cache while another one writes.
FlashNeverBusy == TRUE

FlashFree == holder = {}

\* Phase 2: under s_nvs_mutex, the cache as it is by now.
CopyCache(w) ==
  /\ writer[w].keys # <<>> /\ w \notin holder /\ FlashFree
  /\ holder' = holder \cup {w}
  /\ writer' = [writer EXCEPT ![w].copy = [f \in Content(Head(writer[w].keys)) |-> ram[f]]]
  /\ UNCHANGED <<ram, nvs, format, acked, spent>>

Returned(w) == [f \in DOMAIN acked |->
  IF f \in writer[w].sets \cap Content(writer[w].main) /\ writer[w].number > acked[f]
  THEN writer[w].number ELSE acked[f]]

\* The next entry of the call, or the next call.
AfterWrite(l) ==
  IF Len(l.keys) = 1 THEN [Idle EXCEPT !.todo = l.todo]
  ELSE [l EXCEPT !.keys = Tail(l.keys), !.copy = Idle.copy]

\* nvs_set and nvs_commit(): all of the entry or nothing.  A node table is always
\* written in the newest layout.  A failed write leaves the cache as it is.
Write(w) == \E written \in BOOLEAN :
  LET key == Head(writer[w].keys) IN
  /\ w \in holder /\ holder' = holder \ {w}
  /\ IF written
     THEN /\ nvs' = [f \in DOMAIN nvs |-> IF f \in Content(key) THEN writer[w].copy[f] ELSE nvs[f]]
          /\ format' = IF key = "sw_nodes" THEN 3 ELSE format
          /\ acked' = IF key = writer[w].main THEN Returned(w) ELSE acked
          /\ UNCHANGED spent
     ELSE /\ spent.fails < MaxFails /\ spent' = [spent EXCEPT !.fails = @ + 1]
          /\ UNCHANGED <<nvs, format, acked>>
  /\ writer' = [writer EXCEPT ![w] = AfterWrite(@)]
  /\ UNCHANGED ram

\* A restart loads the flash; an old layout is migrated and written back at once,
\* which may fail.
Crash == \E written \in BOOLEAN :
  /\ spent.crashes < MaxCrashes
  /\ spent' = [spent EXCEPT !.crashes = @ + 1]
  /\ ram' = Loaded(nvs, format)
  /\ IF written \/ format = 3 THEN nvs' = ram' /\ format' = 3 ELSE UNCHANGED <<nvs, format>>
  /\ writer' = [w \in Writers |-> Idle] /\ holder' = {}
  /\ UNCHANGED acked

-----------------------------------------------------------------------------

Next == Crash \/ (\E w \in Writers : Call(w) \/ SetCache(w) \/ CopyCache(w) \/ Write(w))

Spec == Init /\ [][Next]_vars

-----------------------------------------------------------------------------
(* Properties *)

\* What a setter returned ESP_OK for is not lost: the flash is at least as new,
\* whatever other setters of the same or another field of the same key were
\* between their two phases, and never newer than the cache: "Flash therefore
\* only ever moves forward in freshness" (swarm_store.c:159).
FlashMovesForward == \A f \in DOMAIN nvs : acked[f] <= nvs[f] /\ nvs[f] <= ram[f]
=============================================================================
