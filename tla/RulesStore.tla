------------------------------- MODULE RulesStore -------------------------------
(***************************************************************************)
(* The rules a user saves, on flash: the source, the bytecode and the meta *)
(* file of each, the table in RAM, and how a restart brings the table back *)
(* (rules/rules_store.c).  What the engine makes of the table is           *)
(* RulesEngine's.  The web server's task saves, deletes and switches rules *)
(* one request at a time; it is up before the files are read.              *)
(***************************************************************************)
EXTENDS Naturals, FiniteSets, FiniteSetsExt

CONSTANTS
  Slots,       \* 1 .. RULES_MAX
  LastId,      \* ids the bounds can reach
  MaxChanges,  \* bound: requests
  MaxFails,    \* bound: files that cannot be written or removed
  MaxCrashes   \* bound: restarts

RulesStoreAssumption ==
  /\ IsFiniteSet(Slots) /\ Slots # {} /\ Slots \subseteq Nat /\ LastId \in Nat \ {0}
  /\ {MaxChanges, MaxFails, MaxCrashes} \subseteq Nat

VARIABLES
  psrc, psbc,  \* the source and bytecode files: the save they are of, 0 without
  json,        \* the meta files: the save and the switch, NoMeta without
  table,       \* g_rules
  nextId,      \* g_rules_next_id
  boot,        \* how far rules_store_load_all() is
  seen,        \* the ids it has read
  web,         \* the web server's task, inside a handler
  past,        \* history, by id: the last save that was answered with ok, what the
               \* switch may be, the saves of this rule, a write of it failed
  raced,       \* history: a rule was created while the files were being read
  stray,       \* history: a meta file could not be removed
  spent        \* requests, failures and restarts so far (bounds)

vars == <<psrc, psbc, json, table, nextId, boot, seen, web, past, raced, stray, spent>>

Ids == 1 .. LastId
NoMeta == [save |-> 0, on |-> FALSE]
NoRule == [id |-> 0, save |-> 0, on |-> FALSE]
WebIdle == [at |-> "idle", rule |-> NoRule]
NoPast == [ok |-> 0, on |-> {}, own |-> {}, failed |-> FALSE]
There == {id \in Ids : json[id] # NoMeta}
NoTable == [s \in Slots |-> NoRule]

Init ==
  /\ psrc = [id \in Ids |-> 0] /\ psbc = [id \in Ids |-> 0] /\ json = [id \in Ids |-> NoMeta]
  /\ table = NoTable /\ nextId = 1 /\ boot = "load" /\ seen = {} /\ web = WebIdle
  /\ past = [id \in Ids |-> NoPast] /\ raced = FALSE /\ stray = FALSE
  /\ spent = [changes |-> 0, fails |-> 0, crashes |-> 0]

Works == UNCHANGED spent
Breaks == spent.fails < MaxFails /\ spent' = [spent EXCEPT !.fails = @ + 1]
files == <<psrc, psbc, json>>

-----------------------------------------------------------------------------
(* rules_store_load_all(), which holds no lock *)

Free == {s \in Slots : table[s] = NoRule}

\* load_one(): a rule for each meta file, into the first free slot, or none; its source
\* and bytecode may be missing.
LoadOne ==
  /\ boot = "load"
  /\ \E id \in There \ seen :
       /\ seen' = seen \cup {id}
       /\ table' = IF Free = {} THEN table
                   ELSE [table EXCEPT ![Min(Free)] = [id |-> id, save |-> json[id].save, on |-> json[id].on]]
  /\ UNCHANGED <<files, nextId, boot, web, past, raced, stray, spent>>

\* Mutant of NextFree: the rules that were read are counted.
CountNext == Cardinality(seen) + 1

\* The highest id with a meta file, loaded or not, stays taken.
NextFree == IF seen = {} THEN 1 ELSE Max(seen) + 1

\* A file that was made meanwhile is taken to be seen.
Loaded ==
  /\ boot = "load" /\ There \subseteq seen
  /\ boot' = "up" /\ nextId' = NextFree
  /\ UNCHANGED <<files, table, seen, web, past, raced, stray, spent>>

\* Power fails.
Crash ==
  /\ spent.crashes < MaxCrashes /\ spent' = [spent EXCEPT !.crashes = @ + 1]
  /\ table' = NoTable /\ nextId' = 1 /\ boot' = "load" /\ seen' = {} /\ web' = WebIdle
  /\ UNCHANGED <<files, past, raced, stray>>

-----------------------------------------------------------------------------
(* The web server's task: RAM under the mutex, then the files *)

Request == web = WebIdle /\ spent.changes < MaxChanges /\ spent' = [spent EXCEPT !.changes = @ + 1]
ramOnly == <<files, boot, seen, stray>>
SlotsOf(id) == {s \in Slots : table[s].id = id}
Known == {table[s].id : s \in Slots} \ {0}

\* rules_upsert() without an id.  Saves are numbered by the requests.
Create ==
  /\ Request /\ Free # {} /\ nextId \in Ids
  /\ LET r == [id |-> nextId, save |-> spent'.changes, on |-> TRUE]
     IN  /\ table' = [table EXCEPT ![Min(Free)] = r] /\ web' = [at |-> "psrc", rule |-> r]
         /\ past' = [past EXCEPT ![r.id] = [NoPast EXCEPT !.own = {r.save}]]
  /\ nextId' = nextId + 1 /\ raced' = (raced \/ boot = "load")
  /\ UNCHANGED ramOnly

\* rules_upsert() of a rule that is there.
Update ==
  /\ Request
  /\ \E id \in Known, on \in BOOLEAN :
       LET r == [id |-> id, save |-> spent'.changes, on |-> on]
       IN  /\ table' = [table EXCEPT ![Min(SlotsOf(id))] = r] /\ web' = [at |-> "psrc", rule |-> r]
           /\ past' = [past EXCEPT ![id].own = @ \cup {r.save}, ![id].on = @ \cup {on}]
  /\ UNCHANGED <<ramOnly, nextId, raced>>

\* rules_set_enabled(), which answers ok whatever becomes of the file.
SetEnabled ==
  /\ Request
  /\ \E id \in Known :
       LET s == Min(SlotsOf(id))
           r == [table[s] EXCEPT !.on = ~@]
       IN  /\ table' = [table EXCEPT ![s] = r] /\ web' = [at |-> "switch", rule |-> r]
           /\ past' = [past EXCEPT ![id].on = @ \cup {r.on}]
  /\ UNCHANGED <<ramOnly, nextId, raced>>

\* rules_delete()
Delete ==
  /\ Request
  /\ \E id \in Known :
       LET s == Min(SlotsOf(id))
       IN  /\ table' = [table EXCEPT ![s] = NoRule]
           /\ web' = [at |-> "remove psrc", rule |-> table[s]]
           /\ past' = [past EXCEPT ![id].ok = 0]
  /\ UNCHANGED <<ramOnly, nextId, raced>>

\* write_atomic() of the next file; the first that fails ends the request.
webOnly == <<table, nextId, boot, seen, raced>>
GivesUp == Breaks /\ web' = WebIdle /\ past' = [past EXCEPT ![web.rule.id].failed = TRUE]

WriteSource ==
  /\ web.at = "psrc"
  /\ \/ psrc' = [psrc EXCEPT ![web.rule.id] = web.rule.save] /\ web' = [web EXCEPT !.at = "psbc"]
        /\ Works /\ UNCHANGED past
     \/ GivesUp /\ UNCHANGED psrc
  /\ UNCHANGED <<webOnly, psbc, json, stray>>

WriteBytecode ==
  /\ web.at = "psbc"
  /\ \/ psbc' = [psbc EXCEPT ![web.rule.id] = web.rule.save] /\ web' = [web EXCEPT !.at = "json"]
        /\ Works /\ UNCHANGED past
     \/ GivesUp /\ UNCHANGED psbc
  /\ UNCHANGED <<webOnly, psrc, json, stray>>

Meta(r) == [save |-> r.save, on |-> r.on]

\* save_meta(), the last of an upsert and all of a switch.
WriteMeta ==
  /\ web.at \in {"json", "switch"}
  /\ LET r == web.rule
     IN  \/ /\ json' = [json EXCEPT ![r.id] = Meta(r)] /\ web' = WebIdle /\ Works
            /\ past' = IF web.at = "json"
                       THEN [past EXCEPT ![r.id].ok = r.save, ![r.id].on = {r.on}, ![r.id].failed = FALSE]
                       ELSE [past EXCEPT ![r.id].on = {r.on}]
         \/ web.at = "json" /\ GivesUp /\ UNCHANGED json
         \/ web.at = "switch" /\ Breaks /\ web' = WebIdle /\ UNCHANGED <<json, past>>
  /\ UNCHANGED <<webOnly, psrc, psbc, stray>>

\* remove(), one file after the other, whatever becomes of each.
RemoveSource ==
  /\ web.at = "remove psrc" /\ web' = [web EXCEPT !.at = "remove psbc"]
  /\ (psrc' = [psrc EXCEPT ![web.rule.id] = 0] /\ Works) \/ (Breaks /\ UNCHANGED psrc)
  /\ UNCHANGED <<webOnly, psbc, json, past, stray>>

RemoveBytecode ==
  /\ web.at = "remove psbc" /\ web' = [web EXCEPT !.at = "remove json"]
  /\ (psbc' = [psbc EXCEPT ![web.rule.id] = 0] /\ Works) \/ (Breaks /\ UNCHANGED psbc)
  /\ UNCHANGED <<webOnly, psrc, json, past, stray>>

RemoveMeta ==
  /\ web.at = "remove json" /\ web' = WebIdle
  /\ \/ json' = [json EXCEPT ![web.rule.id] = NoMeta] /\ Works /\ UNCHANGED stray
     \/ Breaks /\ stray' = TRUE /\ UNCHANGED json
  /\ UNCHANGED <<webOnly, psrc, psbc, past>>

-----------------------------------------------------------------------------

Next ==
  \/ LoadOne \/ Loaded \/ Crash
  \/ Create \/ Update \/ SetEnabled \/ Delete
  \/ WriteSource \/ WriteBytecode \/ WriteMeta
  \/ RemoveSource \/ RemoveBytecode \/ RemoveMeta

Spec == Init /\ [][Next]_vars

-----------------------------------------------------------------------------
(* Properties *)

\* What a user was told is saved is what runs, after whatever restarts: the files of
\* the rule are of that save or of a later one of the same rule, its switch is what was
\* asked last, and it is in the table once the files are read.  And unless a write of
\* it failed, bytecode on flash is the rule's own and never older than the settings it
\* runs under; a deletion cut short may leave a rule without any.  Left out: a rule
\* created while the files were being read, whose id was another's; and, for the table,
\* a meta file that could not be removed and takes a slot.
SavedRuns ==
  ~raced => \A id \in Ids :
    LET p == past[id]
        current == {n \in p.own : n >= p.ok}
    IN  /\ p.ok # 0 =>
             /\ {psrc[id], psbc[id], json[id].save} \subseteq current /\ json[id].on \in p.on
             /\ boot = "up" /\ ~stray =>
                  \E s \in Slots : SlotsOf(id) = {s} /\ table[s].save \in current /\ table[s].on \in p.on
        /\ json[id] # NoMeta /\ psbc[id] # 0 /\ ~p.failed =>
             psbc[id] \in p.own /\ psbc[id] >= json[id].save
=============================================================================
