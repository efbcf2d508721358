-------------------------------- MODULE Pairing --------------------------------
(***************************************************************************)
(* Adoption of nodes and their dismissal (swarm/pairing.c, the node table  *)
(* of swarm/swarm_store.c, DELETE of a node in webserver/api_v1.c).  While *)
(* a pairing window is open the hub answers a searching node with a link   *)
(* key, then upgrades its radio peer and stores the node, in that order,   *)
(* on a task of its own.  The node that hears the answer to its current    *)
(* sweep stores the hub and stops searching.                               *)
(***************************************************************************)
EXTENDS Naturals, FiniteSets

CONSTANTS
  Nodes,
  MaxNodes,     \* SWARM_MAX_NODES
  MaxKeys,      \* bound: link keys drawn
  MaxSweeps,    \* bound: sweeps of a node, each with a nonce of its own
  MaxWindows,   \* bound: windows opened
  MaxFaults     \* bound: restarts of the hub, failed answers and upgrades, failed NVS writes
                \*        of either side, together

PairingAssumption ==
  /\ IsFiniteSet(Nodes) /\ MaxNodes \in Nat \ {0}
  /\ {MaxKeys, MaxSweeps, MaxWindows, MaxFaults} \subseteq Nat

VARIABLES
  table,   \* key of each node in the hub's table: the cache and the NVS copy
  peer,    \* the hub's ESP-NOW peers: none, plain, or the key
  window,  \* s_window_open, s_adopt_in_progress, s_adopt_queue
  job,     \* the locals of hub_task
  node,    \* each node: what it does, its nonce, s_node_ack, the stored hub key
  leaving, \* nodes whose FORGET broadcasts are under way
  late,    \* answers given up on while the radio still had them to send
  forget,  \* the DELETE handler: the node it works on, or none
  doubled, \* history: nodes that may have been given a second key, see KeysAgree
  spent    \* the bounds used up so far

vars == <<table, peer, window, job, node, leaving, late, forget, doubled, spent>>

None == 0
Plain == "plain"
Idle == [pc |-> "idle", n |-> None, nonce |-> None, key |-> None, known |-> FALSE]
Unpaired == [pc |-> "portal", nonce |-> None, ack |-> None, key |-> None]
Use(what) == spent' = [spent EXCEPT ![what] = @ + 1]

Init ==
  /\ table = [ram |-> [n \in Nodes |-> None], nvs |-> [n \in Nodes |-> None]]
  /\ peer = [n \in Nodes |-> None]
  /\ window = [open |-> FALSE, busy |-> FALSE, queue |-> {}]
  /\ job = Idle /\ node = [n \in Nodes |-> Unpaired]
  /\ leaving = {} /\ late = {} /\ forget = None /\ doubled = {}
  /\ spent = [keys |-> 0, sweeps |-> 0, windows |-> 0, faults |-> 0]

Count(t) == Cardinality({n \in Nodes : t[n] # None})

\* A table or hub record is written to NVS after the cache; the write may fail.
Writes(written) ==
  IF written THEN UNCHANGED spent ELSE spent.faults < MaxFaults /\ Use("faults")

-----------------------------------------------------------------------------
(* The hub: the window and the receive callback *)

\* pairing_open_window() also lets a new adoption in: a second request can then
\* wait behind the one being answered.
OpenWindow ==
  /\ spent.windows < MaxWindows /\ Use("windows")
  /\ window' = [window EXCEPT !.open = TRUE, !.busy = FALSE]
  /\ UNCHANGED <<table, peer, job, node, leaving, forget, doubled, late>>

WindowCloses ==
  /\ window.open /\ window' = [window EXCEPT !.open = FALSE]
  /\ UNCHANGED <<table, peer, job, node, leaving, forget, doubled, spent, late>>

\* A late answer to the sweep the node is on.
MayHearLate(n) == \E a \in late : a.n = n /\ a.nonce = node[n].nonce

\* A searching node broadcasts PAIR_REQ and the hub hears it: one adoption at a
\* time, through a queue of one.
PairReq(n) ==
  /\ node[n].pc = "search" /\ node[n].ack = None
  /\ window.open /\ ~window.busy
  /\ window' = IF window.queue = {}
               THEN [window EXCEPT !.busy = TRUE, !.queue = {[n |-> n, nonce |-> node[n].nonce]}]
               ELSE [window EXCEPT !.busy = FALSE]
  /\ doubled' = IF window.queue = {} /\ ((job.pc # "idle" /\ job.n = n) \/ MayHearLate(n))
                THEN doubled \cup {n} ELSE doubled
  /\ UNCHANGED <<table, peer, job, node, leaving, forget, spent, late>>

-----------------------------------------------------------------------------
(* The hub: hub_task *)

\* Mutant of KeyFor: a fresh key for a node that already has one.
AlwaysFresh(n) == spent.keys + 1

\* find_stored_lmk(), else esp_fill_random().
KeyFor(n) == IF table.ram[n] # None THEN table.ram[n] ELSE spent.keys + 1

TakeRequest == \E r \in window.queue :
  /\ job.pc = "idle"
  /\ KeyFor(r.n) <= MaxKeys
  /\ job' = [pc |-> "ack", n |-> r.n, nonce |-> r.nonce, key |-> KeyFor(r.n),
             known |-> table.ram[r.n] # None]
  /\ IF KeyFor(r.n) > spent.keys THEN Use("keys") ELSE UNCHANGED spent
  /\ window' = [window EXCEPT !.queue = {}]
  /\ UNCHANGED <<table, peer, node, leaving, forget, doubled, late>>

\* pairing_handle_frame() on the node: only while it searches, and only an answer
\* to its current nonce.
HearsPairAck(n, nonce, key) ==
  IF node[n].pc = "search" /\ node[n].nonce = nonce THEN [node EXCEPT ![n].ack = key] ELSE node

AdoptionOver ==
  /\ job' = Idle
  /\ window' = [window EXCEPT !.busy = FALSE]

\* A plain peer, then the broadcast answer, heard or not.
SendPairAck ==
  /\ job.pc = "ack"
  /\ peer' = [peer EXCEPT ![job.n] = Plain]
  /\ node' \in {node, HearsPairAck(job.n, job.nonce, job.key)}
  /\ job' = [job EXCEPT !.pc = "peer"]
  /\ UNCHANGED <<table, window, leaving, forget, doubled, spent, late>>

\* The peer is not added, the answer is not encoded or not sent, or its broadcast
\* times out: hub_task gives the request up, with nothing stored.  An answer that
\* timed out may be sent all the same.
AckFails == \E peered, sent \in BOOLEAN :
  /\ job.pc = "ack" /\ (sent => peered)
  /\ spent.faults < MaxFaults /\ Use("faults")
  /\ peer' = IF peered THEN [peer EXCEPT ![job.n] = Plain] ELSE peer
  /\ late' = IF sent THEN late \cup {[n |-> job.n, nonce |-> job.nonce, key |-> job.key]} ELSE late
  /\ AdoptionOver
  /\ UNCHANGED <<table, node, leaving, forget, doubled>>

AckArrivesLate == \E a \in late :
  /\ late' = late \ {a}
  /\ node' \in {node, HearsPairAck(a.n, a.nonce, a.key)}
  /\ UNCHANGED <<table, peer, window, job, leaving, forget, doubled, spent>>

\* The peer is upgraded with the key; a known node is done then.
UpgradePeer ==
  /\ job.pc = "peer"
  /\ peer' = [peer EXCEPT ![job.n] = job.key]
  /\ IF job.known THEN AdoptionOver ELSE job' = [job EXCEPT !.pc = "store"] /\ UNCHANGED window
  /\ UNCHANGED <<table, node, leaving, forget, doubled, spent, late>>

\* An upgrade that fails costs the peer, and nothing is stored.
UpgradeFails ==
  /\ job.pc = "peer"
  /\ spent.faults < MaxFaults /\ Use("faults")
  /\ peer' = [peer EXCEPT ![job.n] = None]
  /\ AdoptionOver
  /\ UNCHANGED <<table, node, leaving, forget, doubled, late>>

\* swarm_store_add_node(): refused when the table is full; the cache first.
Added(t, n, key, written) ==
  [ram |-> [t.ram EXCEPT ![n] = key],
   nvs |-> IF written THEN [t.ram EXCEPT ![n] = key] ELSE t.nvs]

Full(n) == table.ram[n] = None /\ Count(table.ram) >= MaxNodes

\* A node that could not be stored loses its peer again.
StoreNode == \E written \in BOOLEAN :
  /\ job.pc = "store"
  /\ IF Full(job.n) THEN written /\ UNCHANGED table
                    ELSE table' = Added(table, job.n, job.key, written)
  /\ peer' = IF Full(job.n) \/ ~written THEN [peer EXCEPT ![job.n] = None] ELSE peer
  /\ Writes(written)
  /\ AdoptionOver
  /\ UNCHANGED <<node, leaving, forget, doubled, late>>

-----------------------------------------------------------------------------
(* The hub: the operator deletes a node (node_forget_delete) *)

\* swarm_store_forget_node(): a failed write ends the handler.
ForgetNode(n) == \E written \in BOOLEAN :
  LET ram == [table.ram EXCEPT ![n] = None] IN
  /\ forget = None /\ table.ram[n] # None
  /\ table' = [ram |-> ram, nvs |-> IF written THEN ram ELSE table.nvs]
  /\ forget' = IF written THEN n ELSE None
  /\ doubled' = IF written THEN doubled ELSE doubled \cup {n}
  /\ Writes(written)
  /\ UNCHANGED <<peer, window, job, node, leaving, late>>

\* The peer goes, and FORGET is broadcast.
ForgetPeer ==
  /\ forget # None
  /\ peer' = [peer EXCEPT ![forget] = None]
  /\ leaving' = leaving \cup {forget}
  /\ forget' = None
  /\ UNCHANGED <<table, window, job, node, doubled, spent, late>>

ForgetOver(n) ==
  /\ n \in leaving /\ leaving' = leaving \ {n}
  /\ UNCHANGED <<table, peer, window, job, node, forget, doubled, spent, late>>

\* espnow_link_init() restores the peers of the stored nodes.
HubRestart ==
  /\ spent.faults < MaxFaults /\ Use("faults")
  /\ table' = [table EXCEPT !.ram = table.nvs]
  /\ peer' = table.nvs
  /\ window' = [open |-> FALSE, busy |-> FALSE, queue |-> {}]
  /\ job' = Idle /\ forget' = None /\ leaving' = {} /\ late' = {}
  /\ UNCHANGED <<node, doubled>>

-----------------------------------------------------------------------------
(* A node *)

\* node_task: a sweep of the channels under a nonce of its own.  Three FORGETs
\* 200 ms apart are over before a node that heard one has restarted.
Sweep(n) ==
  /\ node[n].pc \in {"portal", "search"} /\ node[n].ack = None /\ n \notin leaving
  /\ spent.sweeps < MaxSweeps /\ Use("sweeps")
  /\ node' = [node EXCEPT ![n] = [Unpaired EXCEPT !.pc = "search", !.nonce = spent.sweeps + 1]]
  /\ UNCHANGED <<table, peer, window, job, leaving, forget, doubled, late>>

\* SWARM_PAIR_SEARCH_TIMEOUT_S without an answer: pair_watch_task restarts the
\* node into the portal.
SearchFails(n) ==
  /\ node[n].pc = "search" /\ node[n].ack = None
  /\ node' = [node EXCEPT ![n] = Unpaired]
  /\ UNCHANGED <<table, peer, window, job, leaving, forget, doubled, spent, late>>

\* The answer is taken: swarm_store_set_hub(), then a restart as a paired node,
\* or into the portal when the write failed.
TakePairAck(n) == \E written \in BOOLEAN :
  /\ node[n].pc = "search" /\ node[n].ack # None
  /\ node' = [node EXCEPT ![n] = IF written THEN [Unpaired EXCEPT !.pc = "paired", !.key = node[n].ack]
                                 ELSE Unpaired]
  /\ Writes(written)
  /\ UNCHANGED <<table, peer, window, job, leaving, forget, doubled, late>>

\* forget_task: FORGET from its hub naming this node.
HearsForget(n) ==
  /\ n \in leaving /\ node[n].pc = "paired"
  /\ node' = [node EXCEPT ![n] = Unpaired]
  /\ UNCHANGED <<table, peer, window, job, leaving, forget, doubled, spent, late>>

\* Somebody resets a node: the hub is not told.
NodeReset(n) ==
  /\ node[n].pc = "paired" /\ n \notin leaving
  /\ node' = [node EXCEPT ![n] = Unpaired]
  /\ UNCHANGED <<table, peer, window, job, leaving, forget, doubled, spent, late>>

-----------------------------------------------------------------------------

Next ==
  \/ OpenWindow \/ WindowCloses \/ TakeRequest \/ SendPairAck \/ UpgradePeer \/ StoreNode
  \/ AckFails \/ AckArrivesLate \/ UpgradeFails \/ ForgetPeer \/ HubRestart
  \/ \E n \in Nodes : PairReq(n) \/ ForgetNode(n) \/ ForgetOver(n) \/ Sweep(n) \/ SearchFails(n)
                      \/ TakePairAck(n) \/ HearsForget(n) \/ NodeReset(n)

Spec == Init /\ [][Next]_vars

-----------------------------------------------------------------------------
(* Properties *)

\* A node of the hub's table that has stored the hub has stored the same key:
\* retried requests, lost and failed answers, forgetting and adopting again, restarts
\* and failed writes never leave the two with different keys.  Excepted are a node
\* whose dismissal could not be written (a restart of the hub brings its old key back,
\* whatever key the node was given meanwhile), one whose next request is let in behind
\* the answer to its last by a window opened in between, and one that asks again on the
\* same sweep while an answer the hub gave up on may still reach it (that answer's key
\* was not stored, so the next answer has another).
KeysAgree == \A n \in Nodes \ doubled :
  table.ram[n] # None /\ node[n].key # None => table.ram[n] = node[n].key

=============================================================================
