------------------------------ MODULE WrapperStore ------------------------------
(***************************************************************************)
(* The wrappers a user installs: the table in RAM and the files of each    *)
(* (wrappers/wrapper_store.c), the index by match key                      *)
(* (wrappers/wrapper_index.c), the cache of bytecode                       *)
(* (wrappers/wrapper_arena.c) and the re-index that brings them together   *)
(* (ble_collector/ble_collector.c).  The web server's task saves and       *)
(* deletes; the decoder's task re-indexes, on request, and runs what       *)
(* matches.                                                                *)
(***************************************************************************)
EXTENDS Naturals, FiniteSets, SequencesExt

CONSTANTS
  Keys,        \* match keys
  LastId,      \* ids the bounds can reach
  Slots,       \* WRAPPERS_MAX
  MaxChanges,  \* bound: saves and deletions
  MaxFails,    \* bound: files that cannot be written
  MaxCrashes   \* bound: restarts

WrapperStoreAssumption ==
  /\ 0 \notin Keys /\ {LastId, Slots} \subseteq Nat \ {0}
  /\ {MaxChanges, MaxFails, MaxCrashes} \subseteq Nat

VARIABLES
  code,     \* <id>.wbc: the save it is of, 0 without
  meta,     \* <id>.json: the save it is of and its key, NoMeta without
  table,    \* g_wrappers: the wrappers in use, <<slot, id, key>>
  nextId,   \* s_wrapper_next_id
  pending,  \* s_wrapper_reindex_pending
  index,    \* s_wrapper_index: key -> id, 0 without
  cached,   \* the arena: id -> the save its bytecode is of, 0 without
  web,      \* the web server's task, inside a handler
  scan,     \* the decoder's task, inside a re-index
  apart,    \* history: a file could not be written, and no restart has come since
  spent     \* changes, failures and restarts so far (bounds)

vars == <<code, meta, table, nextId, pending, index, cached, web, scan, apart, spent>>

Ids == 1 .. LastId
NoMeta == [save |-> 0, key |-> 0]
WebIdle == [at |-> "idle", id |-> 0, save |-> 0, key |-> 0]
NoScan == [at |-> "idle", left |-> {}, seen |-> <<>>]
Boot == [NoScan EXCEPT !.at = "boot"]
There == {id \in Ids : meta[id] # NoMeta}

Init ==
  /\ code = [id \in Ids |-> 0] /\ meta = [id \in Ids |-> NoMeta]
  /\ table = {} /\ nextId = 1 /\ pending = FALSE
  /\ index = [k \in Keys |-> 0] /\ cached = [id \in Ids |-> 0]
  /\ web = WebIdle /\ scan = Boot /\ apart = FALSE
  /\ spent = [changes |-> 0, fails |-> 0, crashes |-> 0]

-----------------------------------------------------------------------------
(* The web server's task *)

Change == web = WebIdle /\ spent.changes < MaxChanges /\ spent' = [spent EXCEPT !.changes = @ + 1]
webOnly == <<pending, index, cached, scan, apart>>

Slot(e) == e[1]
IdOf(e) == e[2]
KeyOf(e) == e[3]

\* wrapper_index_add() on a copy of the table: no two wrappers share a key.
KeyFree(slot, k) == \A e \in table : Slot(e) # slot => KeyOf(e) # k

\* wrapper_store_upsert(), as far as its lock goes: a new wrapper in the first free slot,
\* or a change of the first one with that id.
Save(slot, id, k) ==
  /\ KeyFree(slot, k)
  /\ table' = {e \in table : Slot(e) # slot} \cup {<<slot, id, k>>}
  /\ web' = [at |-> "code", id |-> id, save |-> spent.changes + 1, key |-> k]

FirstOf(S) == CHOOSE i \in S : \A j \in S : i <= j
FreeSlots == 1 .. Slots \ {Slot(e) : e \in table}

Create ==
  /\ Change /\ FreeSlots # {} /\ nextId \in Ids
  /\ \E k \in Keys : Save(FirstOf(FreeSlots), nextId, k)
  /\ nextId' = nextId + 1
  /\ UNCHANGED <<webOnly, code, meta>>

\* A new wrapper with a key that is in use: its id is spent all the same.
Refused ==
  /\ Change /\ FreeSlots # {} /\ nextId \in Ids
  /\ \E k \in Keys : ~KeyFree(FirstOf(FreeSlots), k)
  /\ nextId' = nextId + 1
  /\ UNCHANGED <<webOnly, code, meta, table, web>>

Edit ==
  /\ Change
  /\ \E id \in {IdOf(e) : e \in table}, k \in Keys :
       Save(FirstOf({Slot(e) : e \in {f \in table : IdOf(f) = id}}), id, k)
  /\ UNCHANGED <<webOnly, code, meta, nextId>>

\* wrapper_store_delete(), as far as its lock goes.
Delete ==
  /\ Change
  /\ \E e \in table :
       /\ \A f \in table : IdOf(f) = IdOf(e) => Slot(e) <= Slot(f)
       /\ table' = table \ {e}
       /\ web' = [WebIdle EXCEPT !.at = "remove code", !.id = IdOf(e)]
  /\ UNCHANGED <<webOnly, code, meta, nextId>>

\* The files, each replaced as a whole; the source goes first, and matters to nobody
\* here.  When one cannot be written the handler gives up and asks for nothing.
WriteCode ==
  /\ web.at = "code"
  /\ code' = [code EXCEPT ![web.id] = web.save] /\ web' = [web EXCEPT !.at = "meta"]
  /\ UNCHANGED <<webOnly, meta, table, nextId, spent>>

WriteMeta ==
  /\ web.at = "meta"
  /\ meta' = [meta EXCEPT ![web.id] = [save |-> web.save, key |-> web.key]]
  /\ web' = [web EXCEPT !.at = "ask"]
  /\ UNCHANGED <<webOnly, code, table, nextId, spent>>

CannotWrite ==
  /\ web.at \in {"code", "meta"} /\ web' = WebIdle /\ apart' = TRUE
  /\ spent.fails < MaxFails /\ spent' = [spent EXCEPT !.fails = @ + 1]
  /\ UNCHANGED <<code, meta, table, nextId, pending, index, cached, scan>>

RemoveCode ==
  /\ web.at = "remove code"
  /\ code' = [code EXCEPT ![web.id] = 0] /\ web' = [web EXCEPT !.at = "remove meta"]
  /\ UNCHANGED <<webOnly, meta, table, nextId, spent>>

RemoveMeta ==
  /\ web.at = "remove meta"
  /\ meta' = [meta EXCEPT ![web.id] = NoMeta] /\ web' = [web EXCEPT !.at = "ask"]
  /\ UNCHANGED <<webOnly, code, table, nextId, spent>>

\* ble_collector_wrapper_reindex_request().
Ask ==
  /\ web.at = "ask" /\ web' = WebIdle /\ pending' = TRUE
  /\ UNCHANGED <<code, meta, table, nextId, index, cached, scan, apart, spent>>

-----------------------------------------------------------------------------
(* The decoder's task *)

decoderOnly == <<code, meta, web, apart, spent>>

\* Mutant of Taken: the request is taken back when the work is done.
TakenAfter(done) == pending' = ~done

\* The request is taken back before the work begins.
Taken(done) == pending' = IF done THEN pending ELSE FALSE

\* wrapper_store_load_all() begins: no lock is held while ids start again from 1.
LoadAll ==
  /\ index' = [k \in Keys |-> 0] /\ nextId' = 1
  /\ scan' = [at |-> "scan", left |-> There, seen |-> <<>>]
  /\ UNCHANGED <<decoderOnly, table, cached>>

Start == scan = NoScan /\ pending /\ Taken(FALSE) /\ LoadAll

\* ble_collector_start(), before the decoder's task is there.  The web server's already
\* is, and its first save makes the lock.
FirstLoad == scan = Boot /\ LoadAll /\ UNCHANGED pending

\* load_one(): the table and the index as this file has them.  A wrapper whose id is in
\* the table is updated in place.
LoadOne(tab, id) ==
  LET old == {e \in tab : IdOf(e) = id}
      free == 1 .. Slots \ {Slot(e) : e \in tab}
      slot == IF old # {} THEN FirstOf({Slot(e) : e \in old}) ELSE FirstOf(free)
  IN  IF old = {} /\ free = {} THEN tab
      ELSE {e \in tab : Slot(e) # slot} \cup {<<slot, id, meta[id].key>>}
Full(ix) == Cardinality({k \in Keys : ix[k] # 0}) = Slots
Indexed(ix, id) ==
  IF ix[meta[id].key] = 0 /\ ~Full(ix) THEN [ix EXCEPT ![meta[id].key] = id] ELSE ix

\* One directory entry after the other.  One made since the scan began may be seen; one
\* removed since is counted, and cannot be read.
ScanOne ==
  /\ scan.at = "scan"
  /\ \E id \in scan.left \cup (There \ Range(scan.seen)) :
       /\ scan' = [scan EXCEPT !.left = @ \ {id}, !.seen = Append(@, id)]
       /\ IF id \in There
          THEN table' = LoadOne(table, id) /\ index' = Indexed(index, id)
          ELSE UNCHANGED <<table, index>>
  /\ UNCHANGED <<decoderOnly, nextId, pending, cached>>

HighestOf(S) == IF S = {} THEN 0 ELSE CHOOSE i \in S : \A j \in S : j <= i

ScanEnds ==
  /\ scan.at = "scan" /\ scan.left = {}
  /\ nextId' = HighestOf(Range(scan.seen)) + 1 /\ scan' = [scan EXCEPT !.at = "prune"]
  /\ UNCHANGED <<decoderOnly, table, pending, index, cached>>

\* What was not seen, or seen when as many as the table holds had been, leaves the table;
\* do_wrapper_reindex() empties the arena.
Prune ==
  /\ scan.at = "prune" /\ scan' = NoScan /\ Taken(TRUE)
  /\ table' = {e \in table : IdOf(e) \in {scan.seen[i] : i \in DOMAIN scan.seen \cap 1 .. Slots}}
  /\ cached' = [id \in Ids |-> 0]
  /\ UNCHANGED <<decoderOnly, nextId, index>>

\* decode_adv_item(): an advertisement matches, and wrapper_arena_get() has its bytecode
\* or reads it.
Match ==
  /\ scan = NoScan
  /\ \E k \in Keys :
       /\ index[k] # 0 /\ cached[index[k]] = 0
       /\ cached' = [cached EXCEPT ![index[k]] = code[index[k]]]
  /\ UNCHANGED <<decoderOnly, table, nextId, pending, index, scan>>

\* A restart at any point.
Restart ==
  /\ spent.crashes < MaxCrashes /\ spent' = [spent EXCEPT !.crashes = @ + 1]
  /\ table' = {} /\ index' = [k \in Keys |-> 0] /\ cached' = [id \in Ids |-> 0]
  /\ nextId' = 1 /\ pending' = FALSE
  /\ web' = WebIdle /\ scan' = Boot /\ apart' = FALSE
  /\ UNCHANGED <<code, meta>>

Next ==
  \/ Create \/ Refused \/ Edit \/ Delete
  \/ WriteCode \/ WriteMeta \/ CannotWrite \/ RemoveCode \/ RemoveMeta \/ Ask
  \/ Start \/ FirstLoad \/ ScanOne \/ ScanEnds \/ Prune \/ Match \/ Restart

Spec == Init /\ [][Next]_vars

-----------------------------------------------------------------------------
(* Properties *)

Settled == web = WebIdle /\ scan = NoScan /\ ~pending

\* Once the last request has been dealt with, what matches is what is saved: the index
\* leads from a key to a wrapper with that key, and the bytecode kept for it is the
\* one in its file, although files change while they are scanned, matched and read.
\* A file that could not be written counts until the next restart.
MatchesWhatIsSaved ==
  Settled /\ ~apart =>
    /\ \A k \in Keys : index[k] # 0 => meta[index[k]].key = k
    /\ \A id \in There : index[meta[id].key] # 0 \/ Full(index)
    /\ \A id \in Ids : cached[id] \in {0, code[id]}

=============================================================================
