---------------------------- MODULE SwarmPartsProofs ----------------------------
(***************************************************************************)
(* Proofs about the parts of SwarmParts, for every value of their          *)
(* constants.  Each part has an inductive invariant of its own; the last   *)
(* section carries them over to the behaviours of SwarmParts, which follow *)
(* one part and leave the others alone.                                    *)
(***************************************************************************)
EXTENDS SwarmParts, Sequences, TLAPS, WellFoundedInduction

-----------------------------------------------------------------------------
(* Pairing: a key in the table, in the job and on its way to a node *)

AdoptionTypes ==
  /\ table \in [ram : [Nodes -> Nat], nvs : [Nodes -> Nat]]
  /\ node \in [Nodes -> [pc : {"portal", "search", "paired"}, nonce : Nat, ack : Nat, key : Nat]]
  /\ job \in [pc : {"idle", "ack", "peer", "store"}, n : Nodes \cup {0}, nonce : Nat, key : Nat,
              known : BOOLEAN]
  /\ job.pc # "idle" => job.n \in Nodes
  /\ window \in [open : BOOLEAN, busy : BOOLEAN, queue : SUBSET [n : Nodes, nonce : Nat]]
  /\ spent \in [keys : Nat, sweeps : Nat, windows : Nat, faults : Nat]
  /\ \A n \in Nodes : node[n].key # 0 => node[n].pc = "paired"
  /\ job.pc = "store" => ~job.known
  /\ forget = 0 \/ forget \in Nodes
  /\ doubled \subseteq Nodes
  /\ late \in SUBSET [n : Nodes, nonce : Nat, key : Nat]

\* A sweep's nonce is not used twice: the next one is larger than any there is.
NoncesUsed ==
  /\ job.nonce <= spent.sweeps
  /\ \A n \in Nodes : node[n].nonce <= spent.sweeps
  /\ \A r \in window.queue : r.nonce <= spent.sweeps
  /\ \A a \in late : a.nonce <= spent.sweeps

\* Whatever key a node has, or is about to take, is this one.
HasAtMost(n, key) == node[n].key \in {0, key} /\ node[n].ack \in {0, key}

\* Unless a node may have two requests in: while its request waits it has no key and
\* is not being answered, and while it is answered it has no other key than the one
\* it is answered with.
OneAdoption ==
  /\ \A r, q \in window.queue : r = q
  /\ \A r \in window.queue : r.n \notin doubled =>
       HasAtMost(r.n, 0) /\ (job.pc = "idle" \/ job.n # r.n)
  /\ job.n \notin doubled =>
       /\ job.pc = "ack" => HasAtMost(job.n, 0)
       /\ job.pc \in {"peer", "store"} => HasAtMost(job.n, job.key)

\* The key of the job is the one in the table, and a new node is in neither copy.
JobKey ==
  job.pc # "idle" =>
    /\ table.ram[job.n] \in {0, job.key}
    /\ ~job.known => table.ram[job.n] = 0

\* Table, flash and node, unless a dismissal was not written.
KeysMatch ==
  \A n \in Nodes :
    /\ n \notin doubled /\ table.nvs[n] # 0 => table.ram[n] = table.nvs[n]
    /\ n \notin doubled /\ table.ram[n] # 0 => HasAtMost(n, table.ram[n])

\* A late answer the node would still take: nobody else is about to give the node a
\* key, and the table has no other for it.
LateIsAlone ==
  \A a \in late : a.n \notin doubled /\ node[a.n].pc = "search" /\ node[a.n].nonce = a.nonce =>
    /\ \A r \in window.queue : r.n # a.n
    /\ job.pc = "idle" \/ job.n # a.n
    /\ table.ram[a.n] \in {0, a.key}

OneKey == AdoptionTypes /\ OneAdoption /\ JobKey /\ KeysMatch

AdoptionInv == OneKey /\ NoncesUsed /\ LateIsAlone

LEMMA AdoptionStarts == Adoption!Init => AdoptionInv
  BY DEF Adoption!Init, Adoption!Idle, Adoption!Unpaired, Adoption!None, AdoptionInv, OneKey, AdoptionTypes,
         NoncesUsed, OneAdoption, JobKey, KeysMatch, LateIsAlone

\* What a bound is used up by.
LEMMA SpentTypes ==
  ASSUME spent \in [keys : Nat, sweeps : Nat, windows : Nat, faults : Nat],
         NEW what \in {"keys", "sweeps", "windows", "faults"},
         Adoption!Use(what) \/ UNCHANGED spent
  PROVE  spent' \in [keys : Nat, sweeps : Nat, windows : Nat, faults : Nat]
<1>1. CASE Adoption!Use(what)
  <2>1. spent[what] + 1 \in Nat
    OBVIOUS
  <2>2. spent' = [spent EXCEPT ![what] = spent[what] + 1]
    BY <1>1 DEF Adoption!Use
  <2>3. QED
    BY <2>1, <2>2
<1>2. QED
  BY <1>1

\* A node that has, and is about to take, no key it did not have or was about to
\* take before disturbs nothing.
LEMMA NodeGainsNothing ==
  ASSUME OneKey,
         UNCHANGED <<table, window, job, forget, doubled, late>>,
         spent' \in [keys : Nat, sweeps : Nat, windows : Nat, faults : Nat],
         node' \in [Nodes -> [pc : {"portal", "search", "paired"}, nonce : Nat, ack : Nat, key : Nat]],
         \A m \in Nodes : node'[m].key # 0 => node'[m].pc = "paired",
         \A m \in Nodes, key \in Nat : HasAtMost(m, key) => HasAtMost(m, key)'
  PROVE  OneKey'
<1>1. AdoptionTypes'
  BY DEF OneKey, AdoptionTypes
<1>2. OneAdoption'
  <2>1. \A r \in window.queue : r.n \in Nodes
    BY DEF OneKey, AdoptionTypes
  <2>2. job.key \in Nat /\ (job.pc # "idle" => job.n \in Nodes)
    BY DEF OneKey, AdoptionTypes
  <2>3. QED
    BY <2>1, <2>2 DEF OneKey, OneAdoption
<1>3. JobKey'
  BY DEF OneKey, JobKey
<1>4. KeysMatch'
  <2>1. \A n \in Nodes : table.ram[n] \in Nat
    BY DEF OneKey, AdoptionTypes
  <2>2. QED
    BY <2>1 DEF OneKey, KeysMatch
<1>5. QED
  BY <1>1, <1>2, <1>3, <1>4 DEF OneKey

\* A step leaves each node at most one key, as long as no late answer brings another.
LEMMA OneKeyStep ==
  ASSUME OneKey, LateIsAlone, [Adoption!Next]_adoptionVars
  PROVE  OneKey'
<1> USE DEF OneKey, AdoptionTypes, OneAdoption, JobKey, KeysMatch, HasAtMost, Adoption!None,
            Adoption!Idle, Adoption!Unpaired
<1>1. CASE Adoption!OpenWindow
  <2>1. spent' \in [keys : Nat, sweeps : Nat, windows : Nat, faults : Nat]
    BY <1>1, SpentTypes DEF Adoption!OpenWindow
  <2>2. window' = [open |-> TRUE, busy |-> FALSE, queue |-> window.queue]
    BY <1>1 DEF Adoption!OpenWindow
  <2>3. UNCHANGED <<table, job, node, forget, doubled, late>>
    BY <1>1 DEF Adoption!OpenWindow
  <2>4. AdoptionTypes'
    BY <2>1, <2>2, <2>3
  <2>5. OneAdoption' /\ JobKey' /\ KeysMatch'
    BY <2>2, <2>3
  <2>6. QED
    BY <2>4, <2>5
<1>2. CASE Adoption!WindowCloses
  <2>1. window' = [open |-> FALSE, busy |-> window.busy, queue |-> window.queue]
    BY <1>2 DEF Adoption!WindowCloses
  <2>2. UNCHANGED <<table, job, node, forget, doubled, spent, late>>
    BY <1>2 DEF Adoption!WindowCloses
  <2>3. AdoptionTypes'
    BY <2>1, <2>2
  <2>4. OneAdoption' /\ JobKey' /\ KeysMatch'
    BY <2>1, <2>2
  <2>5. QED
    BY <2>3, <2>4
<1>3. CASE Adoption!TakeRequest
  <2>1. PICK r \in window.queue :
          /\ job.pc = "idle"
          /\ job' = [pc |-> "ack", n |-> r.n, nonce |-> r.nonce, key |-> Adoption!KeyFor(r.n),
                     known |-> table.ram[r.n] # 0]
          /\ IF Adoption!KeyFor(r.n) > spent.keys THEN Adoption!Use("keys") ELSE UNCHANGED spent
          /\ window' = [window EXCEPT !.queue = {}]
    BY <1>3 DEF Adoption!TakeRequest
  <2>2. spent' \in [keys : Nat, sweeps : Nat, windows : Nat, faults : Nat]
    BY <2>1, SpentTypes
  <2>3. r.n \in Nodes /\ r.nonce \in Nat
    BY <2>1
  <2>4. Adoption!KeyFor(r.n) \in Nat /\ table.ram[r.n] \in {0, Adoption!KeyFor(r.n)}
    BY <2>3 DEF Adoption!KeyFor
  <2>5. window' = [open |-> window.open, busy |-> window.busy, queue |-> {}]
    BY <2>1
  <2>6. UNCHANGED <<table, node, forget, doubled, late>>
    BY <1>3 DEF Adoption!TakeRequest
  <2>7. AdoptionTypes'
    BY <2>1, <2>2, <2>3, <2>4, <2>5, <2>6
  <2>8. OneAdoption'
    BY <2>1, <2>3, <2>4, <2>5, <2>6
  <2>9. QED
    BY <2>1, <2>3, <2>4, <2>5, <2>6, <2>7, <2>8
<1>4. CASE Adoption!SendPairAck
  <2>1. job.pc = "ack" /\ job' = [job EXCEPT !.pc = "peer"] /\ UNCHANGED <<table, window, forget, doubled, spent, late>>
    BY <1>4 DEF Adoption!SendPairAck
  <2>2. CASE node' = node
    BY <2>1, <2>2
  <2>3. CASE node' = [node EXCEPT ![job.n].ack = job.key] /\ node[job.n].pc = "search"
    <3>1. node'[job.n] = [node[job.n] EXCEPT !.ack = job.key]
      BY <2>1, <2>3
    <3>2. \A n \in Nodes \ {job.n} : node'[n] = node[n]
      BY <2>1, <2>3
    <3>3. node' \in [Nodes -> [pc : {"portal", "search", "paired"}, nonce : Nat, ack : Nat, key : Nat]]
      BY <2>1, <2>3
    <3>4. AdoptionTypes'
      BY <2>1, <2>3, <3>1, <3>2, <3>3
    <3>5. OneAdoption'
      BY <2>1, <2>3, <3>1, <3>2, <3>3
    <3>6. KeysMatch'
      BY <2>1, <2>3, <3>1, <3>2, <3>3
    <3>7. QED
      BY <2>1, <3>4, <3>5, <3>6
  <2>4. QED
    BY <1>4, <2>2, <2>3 DEF Adoption!SendPairAck, Adoption!HearsPairAck
<1>5. CASE Adoption!UpgradePeer
  <2>1. CASE job.known
    <3>1. window' = [open |-> window.open, busy |-> FALSE, queue |-> window.queue]
      BY <1>5, <2>1 DEF Adoption!UpgradePeer, Adoption!AdoptionOver
    <3>2. job' = Adoption!Idle /\ UNCHANGED <<table, node, forget, doubled, spent, late>>
      BY <1>5, <2>1 DEF Adoption!UpgradePeer, Adoption!AdoptionOver
    <3>3. QED
      BY <3>1, <3>2
  <2>2. CASE ~job.known
    BY <1>5, <2>2 DEF Adoption!UpgradePeer
  <2>3. QED
    BY <2>1, <2>2
<1>6. CASE Adoption!StoreNode
  <2>1. PICK written \in BOOLEAN :
          /\ job.pc = "store"
          /\ IF Adoption!Full(job.n) THEN written /\ UNCHANGED table
                    ELSE table' = Adoption!Added(table, job.n, job.key, written)
          /\ Adoption!Writes(written)
          /\ job' = Adoption!Idle
          /\ window' = [window EXCEPT !.busy = FALSE]
          /\ UNCHANGED <<node, leaving, forget, doubled, late>>
    BY <1>6 DEF Adoption!StoreNode, Adoption!AdoptionOver
  <2>2. spent' \in [keys : Nat, sweeps : Nat, windows : Nat, faults : Nat]
    BY <2>1, SpentTypes DEF Adoption!Writes
  <2>3. window' = [open |-> window.open, busy |-> FALSE, queue |-> window.queue]
    BY <2>1
  <2>4. CASE UNCHANGED table
    BY <2>1, <2>2, <2>3, <2>4
  <2>5. CASE table' = Adoption!Added(table, job.n, job.key, written)
    <3>1. table' \in [ram : [Nodes -> Nat], nvs : [Nodes -> Nat]]
      BY <2>1, <2>5 DEF Adoption!Added
    <3>2. table'.ram[job.n] = job.key /\ \A n \in Nodes \ {job.n} : table'.ram[n] = table.ram[n]
      BY <2>1, <2>5 DEF Adoption!Added
    <3>3. table'.nvs = IF written THEN table'.ram ELSE table.nvs
      BY <2>1, <2>5 DEF Adoption!Added
    <3>4. KeysMatch'
      BY <2>1, <3>1, <3>2, <3>3
    <3>5. AdoptionTypes'
      BY <2>1, <2>2, <2>3, <3>1
    <3>6. OneAdoption' /\ JobKey'
      BY <2>1, <2>3
    <3>7. QED
      BY <3>4, <3>5, <3>6
  <2>6. QED
    BY <2>1, <2>4, <2>5
<1>7. CASE Adoption!ForgetPeer
  BY <1>7 DEF Adoption!ForgetPeer
<1>8. CASE Adoption!HubRestart
  <2>1. spent' \in [keys : Nat, sweeps : Nat, windows : Nat, faults : Nat]
    BY <1>8, SpentTypes DEF Adoption!HubRestart
  <2>2. QED
    BY <1>8, <2>1 DEF Adoption!HubRestart
<1>9. ASSUME NEW n \in Nodes, Adoption!PairReq(n)
      PROVE  OneKey'
  <2>1. node[n].key = 0 /\ node[n].ack = 0
    BY <1>9 DEF Adoption!PairReq
  <2>2. UNCHANGED <<table, job, node, forget, spent, late>> /\ doubled \subseteq doubled' /\ doubled' \subseteq Nodes
    BY <1>9 DEF Adoption!PairReq
  <2>3. CASE window.queue # {}
    <3>1. window' = [open |-> window.open, busy |-> FALSE, queue |-> window.queue]
      BY <1>9, <2>3 DEF Adoption!PairReq
    <3>2. QED
      BY <2>2, <3>1
  <2>4. CASE window.queue = {}
    <3>1. window' = [open |-> window.open, busy |-> TRUE, queue |-> {[n |-> n, nonce |-> node[n].nonce]}]
      BY <1>9, <2>4 DEF Adoption!PairReq
    <3>2. job.pc = "idle" \/ job.n # n \/ n \in doubled'
      BY <1>9, <2>4 DEF Adoption!PairReq
    <3>3. node[n].nonce \in Nat /\ \A r \in window'.queue : r = [n |-> n, nonce |-> node[n].nonce]
      BY <1>9, <3>1
    <3>4. AdoptionTypes'
      BY <2>2, <3>1, <3>3
    <3>5. OneAdoption'
      BY <2>1, <2>2, <3>1, <3>2, <3>3
    <3>6. QED
      BY <2>2, <3>4, <3>5
  <2>5. QED
    BY <2>3, <2>4
<1>10. ASSUME NEW n \in Nodes, Adoption!ForgetNode(n)
      PROVE  OneKey'
  <2> DEFINE ram == [table.ram EXCEPT ![n] = 0]
  <2>1. PICK written \in BOOLEAN :
          /\ table' = [ram |-> ram, nvs |-> IF written THEN ram ELSE table.nvs]
          /\ forget' = IF written THEN n ELSE 0
          /\ doubled' = IF written THEN doubled ELSE doubled \cup {n}
          /\ Adoption!Writes(written)
          /\ UNCHANGED <<peer, window, job, node, leaving, late>>
    BY <1>10 DEF Adoption!ForgetNode
  <2>2. spent' \in [keys : Nat, sweeps : Nat, windows : Nat, faults : Nat]
    BY <2>1, SpentTypes DEF Adoption!Writes
  <2>3. ram \in [Nodes -> Nat] /\ ram[n] = 0 /\ \A m \in Nodes \ {n} : ram[m] = table.ram[m]
    BY <1>10
  <2> HIDE DEF ram
  <2>4. AdoptionTypes'
    BY <2>1, <2>2, <2>3
  <2>5. JobKey'
    BY <2>1, <2>3
  <2>6. KeysMatch'
    BY <2>1, <2>3
  <2>7. QED
    BY <2>1, <2>4, <2>5, <2>6
<1>11. ASSUME NEW n \in Nodes, Adoption!ForgetOver(n)
      PROVE  OneKey'
  BY <1>11 DEF Adoption!ForgetOver
<1>12. ASSUME NEW n \in Nodes, Adoption!Sweep(n)
      PROVE  OneKey'
  <2>1. spent' \in [keys : Nat, sweeps : Nat, windows : Nat, faults : Nat]
    BY <1>12, SpentTypes DEF Adoption!Sweep
  <2>2. QED
    <3> DEFINE searching == [Adoption!Unpaired EXCEPT !.pc = "search", !.nonce = spent.sweeps + 1]
    <3>1. /\ searching \in [pc : {"portal", "search", "paired"}, nonce : Nat, ack : Nat, key : Nat]
          /\ searching.ack = 0 /\ searching.key = 0
      <4>1. spent.sweeps + 1 \in Nat
        OBVIOUS
      <4>2. QED
        BY <4>1
    <3>2. node' = [node EXCEPT ![n] = searching]
      BY <1>12 DEF Adoption!Sweep
    <3> HIDE DEF searching
    <3>3. UNCHANGED <<table, window, job, forget, doubled, late>>
      BY <1>12 DEF Adoption!Sweep
    <3>4. node' \in [Nodes -> [pc : {"portal", "search", "paired"}, nonce : Nat, ack : Nat, key : Nat]]
      BY <3>1, <3>2
    <3>5. \A m \in Nodes : node'[m].key # 0 => node'[m].pc = "paired"
      BY <3>1, <3>2
    <3>6. \A m \in Nodes, key \in Nat : HasAtMost(m, key) => HasAtMost(m, key)'
      BY <3>1, <3>2
    <3> HIDE DEF OneKey, HasAtMost
    <3>7. QED
      BY <2>1, <3>3, <3>4, <3>5, <3>6, NodeGainsNothing
<1>13. ASSUME NEW n \in Nodes, Adoption!SearchFails(n)
      PROVE  OneKey'
  BY <1>13 DEF Adoption!SearchFails
<1>14. ASSUME NEW n \in Nodes, Adoption!TakePairAck(n)
      PROVE  OneKey'
  <2>1. spent' \in [keys : Nat, sweeps : Nat, windows : Nat, faults : Nat]
    BY <1>14, SpentTypes DEF Adoption!TakePairAck, Adoption!Writes
  <2>2. QED
    <3> DEFINE paired == [Adoption!Unpaired EXCEPT !.pc = "paired", !.key = node[n].ack]
    <3>1. /\ paired \in [pc : {"portal", "search", "paired"}, nonce : Nat, ack : Nat, key : Nat]
          /\ paired.pc = "paired" /\ paired.ack = 0 /\ paired.key = node[n].ack
      OBVIOUS
    <3>2. node' = [node EXCEPT ![n] = paired] \/ node' = [node EXCEPT ![n] = Adoption!Unpaired]
      BY <1>14 DEF Adoption!TakePairAck
    <3> HIDE DEF paired
    <3>3. UNCHANGED <<table, window, job, forget, doubled, late>>
      BY <1>14 DEF Adoption!TakePairAck
    <3>4. /\ Adoption!Unpaired \in [pc : {"portal", "search", "paired"}, nonce : Nat, ack : Nat, key : Nat]
          /\ Adoption!Unpaired.ack = 0 /\ Adoption!Unpaired.key = 0
      OBVIOUS
    <3> HIDE DEF Adoption!Unpaired
    <3>5. node' \in [Nodes -> [pc : {"portal", "search", "paired"}, nonce : Nat, ack : Nat, key : Nat]]
      <4> DEFINE Kept == [pc : {"portal", "search", "paired"}, nonce : Nat, ack : Nat, key : Nat]
      <4>1. node \in [Nodes -> Kept]
        BY DEF AdoptionTypes
      <4>2. paired \in Kept /\ Adoption!Unpaired \in Kept
        BY <3>1, <3>4
      <4> HIDE DEF Kept
      <4>3. node' \in [Nodes -> Kept]
        BY <3>2, <4>1, <4>2
      <4>4. QED
        BY <4>3 DEF Kept
    <3>6. \A m \in Nodes :
            \/ node'[m] = node[m]
            \/ m = n /\ node'[m] \in {paired, Adoption!Unpaired}
      BY <3>2
    <3>7. \A m \in Nodes : node'[m].key # 0 => node'[m].pc = "paired"
      BY <3>1, <3>4, <3>6
    <3>8. \A m \in Nodes, key \in Nat : HasAtMost(m, key) => HasAtMost(m, key)'
      BY <3>1, <3>4, <3>6
    <3> HIDE DEF OneKey, HasAtMost
    <3>9. QED
      BY <2>1, <3>3, <3>5, <3>7, <3>8, NodeGainsNothing
<1>15. ASSUME NEW n \in Nodes, Adoption!HearsForget(n)
      PROVE  OneKey'
  BY <1>15 DEF Adoption!HearsForget
<1>16. ASSUME NEW n \in Nodes, Adoption!NodeReset(n)
      PROVE  OneKey'
  BY <1>16 DEF Adoption!NodeReset
<1>17. CASE Adoption!AckFails
  <2>1. PICK peered, sent \in BOOLEAN :
          /\ job.pc = "ack"
          /\ Adoption!Use("faults")
          /\ late' = IF sent THEN late \cup {[n |-> job.n, nonce |-> job.nonce, key |-> job.key]}
                    ELSE late
          /\ job' = Adoption!Idle
          /\ window' = [window EXCEPT !.busy = FALSE]
          /\ UNCHANGED <<table, node, forget, doubled>>
    BY <1>17 DEF Adoption!AckFails, Adoption!AdoptionOver
  <2>2. spent' \in [keys : Nat, sweeps : Nat, windows : Nat, faults : Nat]
    BY <2>1, SpentTypes
  <2>3. window' = [open |-> window.open, busy |-> FALSE, queue |-> window.queue]
    BY <2>1
  <2>4. late' \in SUBSET [n : Nodes, nonce : Nat, key : Nat]
    BY <2>1
  <2>5. AdoptionTypes'
    BY <2>1, <2>2, <2>3, <2>4
  <2>6. OneAdoption' /\ JobKey' /\ KeysMatch'
    BY <2>1, <2>3
  <2>7. QED
    BY <2>5, <2>6
<1>18. CASE Adoption!UpgradeFails
  <2>1. /\ Adoption!Use("faults") /\ job' = Adoption!Idle
        /\ window' = [window EXCEPT !.busy = FALSE]
        /\ UNCHANGED <<table, node, forget, doubled, late>>
    BY <1>18 DEF Adoption!UpgradeFails, Adoption!AdoptionOver
  <2>2. spent' \in [keys : Nat, sweeps : Nat, windows : Nat, faults : Nat]
    BY <2>1, SpentTypes
  <2>3. window' = [open |-> window.open, busy |-> FALSE, queue |-> window.queue]
    BY <2>1
  <2>4. AdoptionTypes'
    BY <2>1, <2>2, <2>3
  <2>5. OneAdoption' /\ JobKey' /\ KeysMatch'
    BY <2>1, <2>3
  <2>6. QED
    BY <2>4, <2>5
<1>19. CASE Adoption!AckArrivesLate
  <2>1. PICK a \in late :
          /\ late' = late \ {a}
          /\ node' \in {node, Adoption!HearsPairAck(a.n, a.nonce, a.key)}
          /\ UNCHANGED <<table, window, job, forget, doubled, spent>>
    BY <1>19 DEF Adoption!AckArrivesLate
  <2>2. a.n \in Nodes /\ a.key \in Nat
    BY <2>1
  <2>3. CASE node' = node
    BY <2>1, <2>3
  <2>4. CASE node[a.n].pc = "search" /\ node[a.n].nonce = a.nonce /\ node' = [node EXCEPT ![a.n].ack = a.key]
    <3>1. node'[a.n] = [node[a.n] EXCEPT !.ack = a.key]
      BY <2>2, <2>4
    <3>2. \A n \in Nodes \ {a.n} : node'[n] = node[n]
      BY <2>2, <2>4
    <3>3. node' \in [Nodes -> [pc : {"portal", "search", "paired"}, nonce : Nat, ack : Nat, key : Nat]]
      BY <2>2, <2>4
    <3>4. a.n \notin doubled =>
            /\ \A r \in window.queue : r.n # a.n
            /\ job.pc = "idle" \/ job.n # a.n
            /\ table.ram[a.n] \in {0, a.key}
      BY <2>1, <2>4 DEF LateIsAlone
    <3>5. AdoptionTypes'
      BY <2>1, <2>2, <3>1, <3>2, <3>3
    <3>6. OneAdoption'
      BY <2>1, <2>2, <3>1, <3>2, <3>4
    <3>7. KeysMatch'
      BY <2>1, <2>2, <2>4, <3>1, <3>2, <3>4
    <3>8. QED
      BY <2>1, <3>5, <3>6, <3>7
  <2>5. QED
    BY <2>1, <2>3, <2>4 DEF Adoption!HearsPairAck
<1>20. CASE UNCHANGED adoptionVars
  BY <1>20 DEF adoptionVars
<1>21. QED
  BY <1>1, <1>2, <1>3, <1>4, <1>5, <1>6, <1>7, <1>8, <1>9, <1>10, <1>11, <1>12, <1>13, <1>14,
     <1>15, <1>16, <1>17, <1>18, <1>19, <1>20 DEF Adoption!Next

\* What a step does to a node, as far as its sweeps go.
LEMMA SweepsMove ==
  ASSUME AdoptionTypes, [Adoption!Next]_adoptionVars
  PROVE  /\ spent.sweeps \in Nat /\ spent'.sweeps \in Nat /\ spent.sweeps <= spent'.sweeps
         /\ \A n \in Nodes :
              \/ node'[n].pc = node[n].pc /\ node'[n].nonce = node[n].nonce
              \/ node'[n].pc # "search" /\ node'[n].nonce = 0
              \/ node'[n].nonce = spent'.sweeps /\ spent.sweeps < spent'.sweeps
<1> USE DEF AdoptionTypes, Adoption!None, Adoption!Unpaired, Adoption!Use
<1> DEFINE Moves(n) ==
             \/ node'[n].pc = node[n].pc /\ node'[n].nonce = node[n].nonce
             \/ node'[n].pc # "search" /\ node'[n].nonce = 0
             \/ node'[n].nonce = spent'.sweeps /\ spent.sweeps < spent'.sweeps
           Spends == \A what \in {"keys", "windows", "faults"} :
                       Adoption!Use(what) => spent'.sweeps = spent.sweeps
<1>1. Spends
  OBVIOUS
<1>2. CASE UNCHANGED node
  <2>1. spent'.sweeps = spent.sweeps \/ spent'.sweeps = spent.sweeps + 1
    <3>1. \A what \in {"keys", "sweeps", "windows", "faults"} : Adoption!Use(what) =>
            spent'.sweeps = spent.sweeps \/ spent'.sweeps = spent.sweeps + 1
      OBVIOUS
    <3>2. UNCHANGED spent \/ \E what \in {"keys", "sweeps", "windows", "faults"} : Adoption!Use(what)
      <4> HIDE DEF Adoption!Use
      <4>1. QED
        BY DEF Adoption!Next, adoptionVars, Adoption!OpenWindow, Adoption!WindowCloses,
               Adoption!TakeRequest, Adoption!SendPairAck, Adoption!UpgradePeer, Adoption!StoreNode,
               Adoption!AckFails, Adoption!AckArrivesLate, Adoption!UpgradeFails,
               Adoption!ForgetPeer, Adoption!HubRestart, Adoption!PairReq, Adoption!ForgetNode,
               Adoption!ForgetOver, Adoption!Sweep, Adoption!SearchFails, Adoption!TakePairAck,
               Adoption!HearsForget, Adoption!NodeReset, Adoption!Writes
    <3>3. QED
      BY <3>1, <3>2
  <2>2. QED
    BY <1>2, <2>1
<1>3. ASSUME NEW m \in Nodes, NEW nonce, NEW key, node' = Adoption!HearsPairAck(m, nonce, key),
             UNCHANGED spent
      PROVE  spent'.sweeps = spent.sweeps /\ \A n \in Nodes : Moves(n)
  BY <1>3 DEF Adoption!HearsPairAck
<1>4. CASE Adoption!SendPairAck
  BY <1>2, <1>3, <1>4 DEF Adoption!SendPairAck
<1>5. CASE Adoption!AckArrivesLate
  BY <1>2, <1>3, <1>5 DEF Adoption!AckArrivesLate
<1>6. ASSUME NEW m \in Nodes, Adoption!Sweep(m)
      PROVE  spent'.sweeps = spent.sweeps + 1 /\ \A n \in Nodes : Moves(n)
  BY <1>6 DEF Adoption!Sweep
<1>7. ASSUME NEW m \in Nodes, Adoption!TakePairAck(m)
      PROVE  spent'.sweeps = spent.sweeps /\ \A n \in Nodes : Moves(n)
  BY <1>1, <1>7 DEF Adoption!TakePairAck, Adoption!Writes
<1>8. ASSUME NEW m \in Nodes, Adoption!SearchFails(m) \/ Adoption!HearsForget(m) \/ Adoption!NodeReset(m)
      PROVE  spent'.sweeps = spent.sweeps /\ \A n \in Nodes : Moves(n)
  BY <1>8 DEF Adoption!SearchFails, Adoption!HearsForget, Adoption!NodeReset
<1>9. \/ UNCHANGED node \/ Adoption!SendPairAck \/ Adoption!AckArrivesLate
      \/ \E m \in Nodes : \/ Adoption!Sweep(m) \/ Adoption!TakePairAck(m) \/ Adoption!SearchFails(m)
                          \/ Adoption!HearsForget(m) \/ Adoption!NodeReset(m)
  BY DEF Adoption!Next, adoptionVars, Adoption!OpenWindow, Adoption!WindowCloses,
         Adoption!TakeRequest, Adoption!UpgradePeer, Adoption!StoreNode, Adoption!AckFails,
         Adoption!UpgradeFails, Adoption!ForgetPeer, Adoption!HubRestart, Adoption!PairReq,
         Adoption!ForgetNode, Adoption!ForgetOver
<1>10. QED
  BY <1>2, <1>4, <1>5, <1>6, <1>7, <1>8, <1>9

\* Where a nonce comes from: the node's sweep, then the request, then the job.
LEMMA NoncesStep ==
  ASSUME AdoptionTypes, NoncesUsed, [Adoption!Next]_adoptionVars
  PROVE  NoncesUsed'
<1>1. /\ spent.sweeps \in Nat /\ spent'.sweeps \in Nat /\ spent.sweeps <= spent'.sweeps
      /\ \A n \in Nodes :
              \/ node'[n].pc = node[n].pc /\ node'[n].nonce = node[n].nonce
              \/ node'[n].pc # "search" /\ node'[n].nonce = 0
              \/ node'[n].nonce = spent'.sweeps /\ spent.sweeps < spent'.sweeps
  BY SweepsMove
<1>2. job'.nonce \in {0, job.nonce} \/ \E r \in window.queue : job'.nonce = r.nonce
  <2>1. CASE Adoption!TakeRequest
    BY <2>1 DEF Adoption!TakeRequest
  <2>2. CASE Adoption!SendPairAck \/ Adoption!UpgradePeer
    BY <2>2 DEF Adoption!SendPairAck, Adoption!UpgradePeer, Adoption!AdoptionOver, Adoption!Idle,
         Adoption!None, AdoptionTypes
  <2>3. CASE Adoption!StoreNode \/ Adoption!AckFails \/ Adoption!UpgradeFails \/ Adoption!HubRestart
    BY <2>3 DEF Adoption!StoreNode, Adoption!AckFails, Adoption!UpgradeFails, Adoption!HubRestart,
         Adoption!AdoptionOver, Adoption!Idle, Adoption!None
  <2>4. \/ UNCHANGED job
        \/ Adoption!TakeRequest \/ Adoption!SendPairAck \/ Adoption!UpgradePeer
        \/ Adoption!StoreNode \/ Adoption!AckFails \/ Adoption!UpgradeFails \/ Adoption!HubRestart
    BY DEF Adoption!Next, adoptionVars, Adoption!OpenWindow, Adoption!WindowCloses,
         Adoption!AckArrivesLate, Adoption!ForgetPeer, Adoption!PairReq, Adoption!ForgetNode,
         Adoption!ForgetOver, Adoption!Sweep, Adoption!SearchFails, Adoption!TakePairAck,
         Adoption!HearsForget, Adoption!NodeReset
  <2>5. QED
    BY <2>1, <2>2, <2>3, <2>4
<1>3. \A r \in window'.queue : r \in window.queue \/ \E n \in Nodes : r.nonce = node[n].nonce
  <2>1. ASSUME NEW n \in Nodes, Adoption!PairReq(n)
        PROVE  \A r \in window'.queue : r \in window.queue \/ r.nonce = node[n].nonce
    BY <2>1 DEF Adoption!PairReq, AdoptionTypes
  <2>2. CASE Adoption!TakeRequest \/ Adoption!HubRestart
    BY <2>2 DEF Adoption!TakeRequest, Adoption!HubRestart, AdoptionTypes
  <2>3. CASE Adoption!OpenWindow \/ Adoption!WindowCloses
    BY <2>3 DEF Adoption!OpenWindow, Adoption!WindowCloses, AdoptionTypes
  <2>4. CASE Adoption!UpgradePeer \/ Adoption!StoreNode \/ Adoption!AckFails \/ Adoption!UpgradeFails
    BY <2>4 DEF Adoption!UpgradePeer, Adoption!StoreNode, Adoption!AckFails, Adoption!UpgradeFails,
         Adoption!AdoptionOver, AdoptionTypes
  <2>5. \/ UNCHANGED window
        \/ Adoption!TakeRequest \/ Adoption!HubRestart \/ Adoption!OpenWindow \/ Adoption!WindowCloses
        \/ Adoption!UpgradePeer \/ Adoption!StoreNode \/ Adoption!AckFails \/ Adoption!UpgradeFails
        \/ \E n \in Nodes : Adoption!PairReq(n)
    BY DEF Adoption!Next, adoptionVars, Adoption!SendPairAck, Adoption!AckArrivesLate,
         Adoption!ForgetPeer, Adoption!ForgetNode, Adoption!ForgetOver, Adoption!Sweep,
         Adoption!SearchFails, Adoption!TakePairAck, Adoption!HearsForget, Adoption!NodeReset
  <2>6. QED
    BY <2>1, <2>2, <2>3, <2>4, <2>5
<1>4. \A a \in late' : a \in late \/ a.nonce = job.nonce
  <2>1. CASE Adoption!AckFails
    BY <2>1 DEF Adoption!AckFails
  <2>2. CASE Adoption!AckArrivesLate \/ Adoption!HubRestart
    BY <2>2 DEF Adoption!AckArrivesLate, Adoption!HubRestart
  <2>3. UNCHANGED late \/ Adoption!AckFails \/ Adoption!AckArrivesLate \/ Adoption!HubRestart
    BY DEF Adoption!Next, adoptionVars, Adoption!OpenWindow, Adoption!WindowCloses,
         Adoption!TakeRequest, Adoption!SendPairAck, Adoption!UpgradePeer, Adoption!StoreNode,
         Adoption!UpgradeFails, Adoption!ForgetPeer, Adoption!PairReq, Adoption!ForgetNode,
         Adoption!ForgetOver, Adoption!Sweep, Adoption!SearchFails, Adoption!TakePairAck,
         Adoption!HearsForget, Adoption!NodeReset
  <2>4. QED
    BY <2>1, <2>2, <2>3
<1>5. /\ job.nonce \in Nat /\ \A n \in Nodes : node[n].nonce \in Nat
      /\ \A r \in window.queue : r.nonce \in Nat
      /\ \A a \in late : a.nonce \in Nat
  BY DEF AdoptionTypes
<1>6. job'.nonce <= spent'.sweeps
  BY <1>1, <1>2, <1>5 DEF NoncesUsed
<1>7. \A n \in Nodes : node'[n].nonce <= spent'.sweeps
  BY <1>1, <1>5 DEF NoncesUsed
<1>8. \A r \in window'.queue : r.nonce <= spent'.sweeps
  BY <1>1, <1>3, <1>5 DEF NoncesUsed
<1>9. \A a \in late' : a.nonce <= spent'.sweeps
  BY <1>1, <1>4, <1>5 DEF NoncesUsed
<1>10. QED
  BY <1>6, <1>7, <1>8, <1>9 DEF NoncesUsed

\* A late answer stays alone: a node it may reach asks again only as one of `doubled'.
LEMMA LateStep ==
  ASSUME AdoptionInv, [Adoption!Next]_adoptionVars
  PROVE  LateIsAlone'
<1> DEFINE Live(a) == node[a.n].pc = "search" /\ node[a.n].nonce = a.nonce
           Alone(a) == /\ \A r \in window.queue : r.n # a.n
                       /\ job.pc = "idle" \/ job.n # a.n
                       /\ table.ram[a.n] \in {0, a.key}
<1> USE DEF Adoption!None
<1>1. \A a \in late : a.n \in Nodes /\ a.nonce \in Nat /\ a.nonce <= spent.sweeps
  BY DEF AdoptionInv, OneKey, AdoptionTypes, NoncesUsed
<1>2. \A a \in late : Live(a)' => Live(a)
  <2>1. /\ spent.sweeps \in Nat /\ spent'.sweeps \in Nat
        /\ \A n \in Nodes :
              \/ node'[n].pc = node[n].pc /\ node'[n].nonce = node[n].nonce
              \/ node'[n].pc # "search" /\ node'[n].nonce = 0
              \/ node'[n].nonce = spent'.sweeps /\ spent.sweeps < spent'.sweeps
    BY SweepsMove DEF AdoptionInv, OneKey
  <2>2. QED
    BY <1>1, <2>1
<1>3. \A a \in late : a.n \notin doubled /\ Live(a) => Alone(a)
  BY DEF AdoptionInv, LateIsAlone
<1>4. ASSUME late' \subseteq late, doubled \subseteq doubled',
             \A a \in late : a.n \notin doubled' /\ Live(a) /\ Live(a)' /\ Alone(a) => Alone(a)'
      PROVE  LateIsAlone'
  BY <1>2, <1>3, <1>4 DEF LateIsAlone
<1>5. CASE Adoption!AckFails
  <2>1. PICK sent \in BOOLEAN :
          /\ job.pc = "ack"
          /\ late' = IF sent THEN late \cup {[n |-> job.n, nonce |-> job.nonce, key |-> job.key]}
                    ELSE late
          /\ job'.pc = "idle" /\ window'.queue = window.queue
          /\ UNCHANGED <<table, node, doubled>>
    BY <1>5 DEF Adoption!AckFails, Adoption!AdoptionOver, Adoption!Idle, AdoptionInv, OneKey, AdoptionTypes
  <2>2. job.n \notin doubled => \A r \in window.queue : r.n # job.n
    BY <2>1 DEF AdoptionInv, OneKey, OneAdoption
  <2>3. table.ram[job.n] \in {0, job.key}
    BY <2>1 DEF AdoptionInv, OneKey, JobKey
  <2>4. QED
    BY <1>3, <2>1, <2>2, <2>3 DEF LateIsAlone
<1>6. CASE Adoption!TakeRequest
  <2>1. PICK r \in window.queue : job'.n = r.n /\ window'.queue = {}
    BY <1>6 DEF Adoption!TakeRequest, AdoptionInv, OneKey, AdoptionTypes
  <2>2. UNCHANGED <<table, node, doubled, late>>
    BY <1>6 DEF Adoption!TakeRequest
  <2>3. QED
    BY <1>4, <2>1, <2>2
<1>7. CASE Adoption!StoreNode
  <2>1. PICK written \in BOOLEAN :
          /\ job.pc = "store" /\ job'.pc = "idle" /\ window'.queue = window.queue
          /\ UNCHANGED table \/ table' = Adoption!Added(table, job.n, job.key, written)
          /\ UNCHANGED <<node, doubled, late>>
    BY <1>7 DEF Adoption!StoreNode, Adoption!AdoptionOver, Adoption!Idle, AdoptionInv, OneKey, AdoptionTypes
  <2>2. \A n \in Nodes \ {job.n} : table'.ram[n] = table.ram[n]
    BY <2>1 DEF Adoption!Added, AdoptionInv, OneKey, AdoptionTypes
  <2>3. QED
    BY <1>1, <1>4, <2>1, <2>2
<1>8. ASSUME NEW n \in Nodes, Adoption!PairReq(n)
      PROVE  LateIsAlone'
  <2>1. UNCHANGED <<table, job, node, late>> /\ doubled \subseteq doubled'
    BY <1>8 DEF Adoption!PairReq
  <2>2. \/ window'.queue = window.queue
        \/ /\ window'.queue = {[n |-> n, nonce |-> node[n].nonce]}
           /\ Adoption!MayHearLate(n) => n \in doubled'
    BY <1>8 DEF Adoption!PairReq, AdoptionInv, OneKey, AdoptionTypes
  <2>3. QED
    BY <1>4, <2>1, <2>2 DEF Adoption!MayHearLate
<1>9. ASSUME NEW n \in Nodes, Adoption!ForgetNode(n)
      PROVE  LateIsAlone'
  <2>1. UNCHANGED <<window, job, node, late>> /\ doubled \subseteq doubled'
    BY <1>9 DEF Adoption!ForgetNode
  <2>2. table'.ram = [table.ram EXCEPT ![n] = 0]
    BY <1>9 DEF Adoption!ForgetNode
  <2>3. table.ram \in [Nodes -> Nat]
    BY DEF AdoptionInv, OneKey, AdoptionTypes
  <2>4. QED
    BY <1>1, <1>4, <2>1, <2>2, <2>3
<1>10. CASE Adoption!HubRestart
  BY <1>10 DEF Adoption!HubRestart, LateIsAlone
<1>11. CASE Adoption!SendPairAck \/ Adoption!UpgradePeer \/ Adoption!UpgradeFails
  <2>1. UNCHANGED <<table, doubled, late>> /\ window'.queue = window.queue
    BY <1>11 DEF Adoption!SendPairAck, Adoption!UpgradePeer, Adoption!UpgradeFails, Adoption!AdoptionOver,
         AdoptionInv, OneKey, AdoptionTypes
  <2>2. job.pc # "idle" /\ (job'.pc = "idle" \/ job'.n = job.n)
    BY <1>11 DEF Adoption!SendPairAck, Adoption!UpgradePeer, Adoption!UpgradeFails, Adoption!AdoptionOver,
         Adoption!Idle, AdoptionInv, OneKey, AdoptionTypes
  <2>3. QED
    BY <1>4, <2>1, <2>2
<1>12. CASE /\ UNCHANGED <<table, doubled, job>> /\ window'.queue = window.queue
            /\ late' \subseteq late
  BY <1>4, <1>12
<1>13. QED
  <2>1. ASSUME \/ Adoption!OpenWindow \/ Adoption!WindowCloses \/ Adoption!AckArrivesLate
               \/ Adoption!ForgetPeer \/ UNCHANGED adoptionVars
               \/ \E n \in Nodes : \/ Adoption!ForgetOver(n) \/ Adoption!Sweep(n)
                                   \/ Adoption!SearchFails(n) \/ Adoption!TakePairAck(n)
                                   \/ Adoption!HearsForget(n) \/ Adoption!NodeReset(n)
        PROVE  /\ UNCHANGED <<table, doubled, job>> /\ window'.queue = window.queue
               /\ late' \subseteq late
    BY <2>1 DEF adoptionVars, Adoption!OpenWindow, Adoption!WindowCloses, Adoption!AckArrivesLate,
         Adoption!ForgetPeer, Adoption!ForgetOver, Adoption!Sweep, Adoption!SearchFails,
         Adoption!TakePairAck, Adoption!HearsForget, Adoption!NodeReset, AdoptionInv, OneKey,
         AdoptionTypes
  <2>2. QED
    BY <1>5, <1>6, <1>7, <1>8, <1>9, <1>10, <1>11, <1>12, <2>1 DEF Adoption!Next

LEMMA AdoptionStep ==
  ASSUME AdoptionInv, [Adoption!Next]_adoptionVars
  PROVE  AdoptionInv'
<1>1. OneKey'
  BY OneKeyStep DEF AdoptionInv
<1>2. NoncesUsed'
  BY NoncesStep DEF AdoptionInv, OneKey
<1>3. LateIsAlone'
  BY LateStep
<1>4. QED
  BY <1>1, <1>2, <1>3 DEF AdoptionInv

-----------------------------------------------------------------------------
(* NodeConfig: what the hub knows of a node's role, and what the node stores *)

Stats == [used : BOOLEAN, radio : SUBSET RadioRole!Roles, seq : Nat]
Members == [nvs : RadioRole!Roles, role : RadioRole!Roles, runs : RadioRole!Roles,
            config : Seq(Nat), restarting : BOOLEAN]
Acks == [seq : Nat, status : {"DONE", "FAILED"}]

RoleTypes ==
  /\ stat \in Stats /\ member \in Members
  /\ air \in Seq(Acks)
  /\ faults \in [write : Nat, restart : Nat]

\* Until the role is stored nobody takes it for done: not the cache of the node,
\* no answer under way, not the hub.
NobodyAhead ==
  member.nvs # RadioRole!Desired =>
    /\ member.role # RadioRole!Desired
    /\ \A i \in 1 .. Len(air) : air[i].status # "DONE"
    /\ RadioRole!Desired \notin stat.radio

RoleInv == RoleTypes /\ (faults.write = 0 => NobodyAhead)

LEMMA RoleStarts == RadioRole!Init => RoleInv
  BY DEF RadioRole!Init, RadioRole!NoStat, RadioRole!Boots, RadioRole!Roles, RadioRole!Desired,
         RoleInv, RoleTypes, NobodyAhead, Stats, Members

\* A request sent changes the counter of the hub and at most the queue of the node.
LEMMA ConfigSent ==
  ASSUME RoleTypes, SeqMod \in Nat \ {0}, RadioRole!SendConfig
  PROVE  /\ stat' \in Stats
         /\ stat'.radio = stat.radio
         /\ member' \in Members
         /\ member'.nvs = member.nvs /\ member'.role = member.role
<1> DEFINE seq == (stat.seq + 1) % SeqMod
<1>1. seq \in Nat /\ <<seq>> \in Seq(Nat)
  BY DEF RoleTypes, Stats, Members
<1> HIDE DEF seq
<1>2. stat' = [stat EXCEPT !.used = TRUE, !.seq = seq]
  BY DEF RadioRole!SendConfig, RadioRole!Stat, seq, RoleTypes, Stats
<1>3. member' = member \/ member' = [member EXCEPT !.config = <<seq>>]
  BY DEF RadioRole!SendConfig, seq
<1>4. QED
  BY <1>1, <1>2, <1>3 DEF RoleTypes, Stats, Members

\* An answer is put on the air, or finds no room there.
LEMMA Answered ==
  ASSUME RoleTypes, member.config # <<>>, NEW status \in {"DONE", "FAILED"}, RadioRole!Answers(status)
  PROVE  /\ air' \in Seq(Acks)
         /\ \A i \in 1 .. Len(air') :
              (i \in 1 .. Len(air) /\ air'[i] = air[i]) \/ air'[i].status = status
<1> DEFINE ack == [seq |-> member.config[1], status |-> status]
<1>1. ack \in Acks /\ ack.status = status
  BY DEF RoleTypes, Members, Acks
<1> HIDE DEF ack
<1>2. air' = Append(air, ack) \/ air' = air
  BY DEF RadioRole!Answers, ack
<1>3. air \in Seq(Acks)
  BY DEF RoleTypes, Stats, Members
<1>4. QED
  BY <1>1, <1>2, <1>3

\* An answer is taken off the air.
LEMMA OneAnswerLess ==
  ASSUME air \in Seq(Acks), air # <<>>, air' = Tail(air)
  PROVE  /\ air' \in Seq(Acks) /\ Head(air) = air[1] /\ 1 \in 1 .. Len(air)
         /\ \A i \in 1 .. Len(air') : i + 1 \in 1 .. Len(air) /\ air'[i] = air[i + 1]
  OBVIOUS

LEMMA RoleStep ==
  ASSUME SwarmPartsAssumption, RoleInv, [RadioRole!Next]_roleVars
  PROVE  RoleInv'
<1> USE DEF RoleInv, RoleTypes, NobodyAhead, Stats, Members, RadioRole!Roles, RadioRole!Desired
<1>0. SeqMod \in Nat \ {0}
  BY DEF SwarmPartsAssumption, RadioRole!NodeConfigAssumption
<1>a. <<>> \in Seq(Nat)
  OBVIOUS
<1>1. CASE RadioRole!HubHearsCheckin
  BY <1>1 DEF RadioRole!HubHearsCheckin, RadioRole!Stat
<1>2. CASE RadioRole!HubHearsPoll
  BY <1>2 DEF RadioRole!HubHearsPoll, RadioRole!Stat
<1>3. CASE RadioRole!HubHearsPairReq
  <2>1. stat' = stat \/ stat' = [stat EXCEPT !.radio = {member.nvs}]
    BY <1>3 DEF RadioRole!HubHearsPairReq, RadioRole!Noted
  <2>2. member' = [nvs |-> member.nvs, role |-> member.nvs, runs |-> member.nvs, config |-> <<>>,
                   restarting |-> FALSE]
        /\ UNCHANGED <<air, faults>>
    BY <1>3 DEF RadioRole!HubHearsPairReq, RadioRole!Boots
  <2>3. stat' \in Stats
    <3>1. stat \in Stats /\ {member.nvs} \in SUBSET RadioRole!Roles
      OBVIOUS
    <3> HIDE DEF RoleInv, NobodyAhead, Members
    <3>2. QED
      BY <2>1, <3>1
  <2>4. member' \in Members
    BY <2>2
  <2>5. faults.write = 0 => NobodyAhead'
    BY <2>1, <2>2
  <2> HIDE DEF Stats, Members, NobodyAhead
  <2>6. QED
    BY <2>2, <2>3, <2>4, <2>5
<1>4. CASE RadioRole!HubHearsAck
  <2>1. air # <<>> /\ air' = Tail(air) /\ UNCHANGED <<member, faults>>
    BY <1>4 DEF RadioRole!HubHearsAck
  <2>2. \/ stat' = stat
        \/ Head(air).status = "DONE" /\ stat' = [stat EXCEPT !.radio = {"ble"}]
    BY <1>4 DEF RadioRole!HubHearsAck, RadioRole!AckCounts, RadioRole!Noted
  <2>3. /\ air' \in Seq(Acks) /\ Head(air) = air[1] /\ 1 \in 1 .. Len(air)
        /\ \A i \in 1 .. Len(air') : i + 1 \in 1 .. Len(air) /\ air'[i] = air[i + 1]
    BY <2>1, OneAnswerLess
  <2>4. stat' \in Stats
    <3>1. stat \in Stats
      OBVIOUS
    <3> HIDE DEF RoleInv, NobodyAhead, Members
    <3>2. QED
      BY <2>2, <3>1
  <2>5. faults.write = 0 => NobodyAhead'
    <3>1. SUFFICES ASSUME faults.write = 0, member.nvs # "ble"
                   PROVE  /\ member.role # "ble" /\ "ble" \notin stat'.radio
                          /\ \A i \in 1 .. Len(air') : air'[i].status # "DONE"
      BY <2>1
    <3>2. /\ member.role # "ble" /\ "ble" \notin stat.radio
          /\ \A i \in 1 .. Len(air) : air[i].status # "DONE"
      BY <3>1
    <3> HIDE DEF RoleInv, Stats, Members, NobodyAhead
    <3>3. stat' = stat
      BY <2>2, <2>3, <3>2
    <3>4. \A i \in 1 .. Len(air') : air'[i].status # "DONE"
      BY <2>3, <3>2
    <3>5. QED
      BY <3>2, <3>3, <3>4
  <2> HIDE DEF Stats, Members
  <2>6. QED
    BY <2>1, <2>3, <2>4, <2>5
<1>5. CASE RadioRole!AckLost
  BY <1>5, OneAnswerLess DEF RadioRole!AckLost
<1>6. CASE RadioRole!CheckinTask
  <2>1. RadioRole!SendConfig \/ UNCHANGED <<stat, member>>
    BY <1>6 DEF RadioRole!CheckinTask
  <2>2. UNCHANGED <<air, faults>>
    BY <1>6 DEF RadioRole!CheckinTask
  <2>3. QED
    BY <1>0, <2>1, <2>2, ConfigSent
<1>7. CASE RadioRole!NodeFlushTask
  <2>1. RadioRole!SendConfig \/ UNCHANGED <<stat, member>>
    BY <1>7 DEF RadioRole!NodeFlushTask
  <2>2. UNCHANGED <<air, faults>>
    BY <1>7 DEF RadioRole!NodeFlushTask
  <2>3. QED
    BY <1>0, <2>1, <2>2, ConfigSent
<1>8. CASE RadioRole!RequestNodeConfig
  BY <1>8 DEF RadioRole!RequestNodeConfig
<1>9. CASE RadioRole!HubRestart
  <2>1. stat' \in Stats /\ stat'.radio = {} /\ UNCHANGED <<air, member, faults.write>>
    BY <1>9 DEF RadioRole!HubRestart, RadioRole!NoStat
  <2>2. faults' \in [write : Nat, restart : Nat]
    <3>1. faults \in [write : Nat, restart : Nat]
      OBVIOUS
    <3>2. faults' = [faults EXCEPT !.restart = faults.restart + 1]
      BY <1>9 DEF RadioRole!HubRestart
    <3> HIDE DEF RoleInv, NobodyAhead, Members, Stats
    <3>3. QED
      BY <3>1, <3>2
  <2>3. NobodyAhead => NobodyAhead'
    BY <2>1
  <2> HIDE DEF Stats, Members, NobodyAhead
  <2>4. QED
    BY <2>1, <2>2, <2>3
<1>10. CASE RadioRole!AlreadyRunning
  <2>1. member.config # <<>> /\ member.role = "ble" /\ RadioRole!Answers("DONE")
        /\ member' = [member EXCEPT !.config = <<>>] /\ UNCHANGED <<stat, faults>>
    BY <1>10 DEF RadioRole!AlreadyRunning
  <2>2. /\ air' \in Seq(Acks)
        /\ \A i \in 1 .. Len(air') :
             (i \in 1 .. Len(air) /\ air'[i] = air[i]) \/ air'[i].status = "DONE"
    BY <2>1, Answered
  <2>3. member' \in Members
    BY <1>a, <2>1
  <2>4. faults.write = 0 => member'.nvs = "ble"
    BY <2>1
  <2> HIDE DEF Stats, Members
  <2>5. QED
    BY <2>1, <2>2, <2>3, <2>4
<1>11. CASE RadioRole!Applies
  <2>1. PICK written \in BOOLEAN :
          /\ member.config # <<>>
          /\ faults' = IF written THEN faults ELSE [faults EXCEPT !.write = @ + 1]
          /\ RadioRole!Answers(IF written THEN "DONE" ELSE "FAILED")
          /\ member' = [RadioRole!RadioRoleSet(member, written) EXCEPT !.config = <<>>, !.restarting = written]
          /\ UNCHANGED <<stat, work, flushes>>
    BY <1>11 DEF RadioRole!Applies
  <2>2. air' \in Seq(Acks)
    BY <2>1, Answered
  <2>3. CASE written
    <3>1. member' = [member EXCEPT !.role = "ble", !.nvs = "ble", !.config = <<>>, !.restarting = TRUE]
      BY <2>1, <2>3 DEF RadioRole!RadioRoleSet
    <3>2. member' \in Members
      BY <1>a, <3>1
    <3>3. NobodyAhead'
      BY <3>1
    <3> HIDE DEF Stats, Members
    <3>4. QED
      BY <2>1, <2>2, <2>3, <3>2, <3>3
  <2>4. CASE ~written
    <3>1. member' = [member EXCEPT !.role = "ble", !.config = <<>>, !.restarting = FALSE]
      BY <2>1, <2>4 DEF RadioRole!RadioRoleSet
    <3>2. faults' = [faults EXCEPT !.write = faults.write + 1] /\ faults.write + 1 # 0
      BY <2>1, <2>4
    <3>3. member' \in Members
      BY <1>a, <3>1
    <3>4. faults' \in [write : Nat, restart : Nat] /\ faults'.write # 0
      <4>1. faults \in [write : Nat, restart : Nat]
        OBVIOUS
      <4> HIDE DEF RoleInv, Stats, Members, NobodyAhead
      <4>2. QED
        BY <3>2, <4>1
    <3> HIDE DEF Stats, Members
    <3>5. QED
      BY <2>1, <2>2, <3>3, <3>4
  <2>5. QED
    BY <2>3, <2>4
<1>12. CASE RadioRole!NodeRestart
  BY <1>12 DEF RadioRole!NodeRestart, RadioRole!Boots
<1>13. CASE RadioRole!NodeCrash
  <2>1. member' = [nvs |-> member.nvs, role |-> member.nvs, runs |-> member.nvs, config |-> <<>>,
                   restarting |-> FALSE]
        /\ UNCHANGED <<stat, air>> /\ faults' = [faults EXCEPT !.restart = faults.restart + 1]
    BY <1>13 DEF RadioRole!NodeCrash, RadioRole!Boots
  <2>2. member' \in Members
    BY <2>1
  <2>3. faults' \in [write : Nat, restart : Nat] /\ faults'.write = faults.write
    <3>1. faults \in [write : Nat, restart : Nat]
      OBVIOUS
    <3> HIDE DEF RoleInv, NobodyAhead, Members, Stats
    <3>2. QED
      BY <2>1, <3>1
  <2>4. NobodyAhead => NobodyAhead'
    BY <2>1
  <2> HIDE DEF Stats, Members, NobodyAhead
  <2>5. QED
    BY <2>1, <2>2, <2>3, <2>4
<1>14. CASE UNCHANGED roleVars
  BY <1>14 DEF roleVars
<1>15. QED
  BY <1>1, <1>2, <1>3, <1>4, <1>5, <1>6, <1>7, <1>8, <1>9, <1>10, <1>11, <1>12, <1>13, <1>14
     DEF RadioRole!Next

-----------------------------------------------------------------------------
(* Resync: the tickets of send_blocking() *)

LEMMA LeastOf ==
  ASSUME NEW S, S \subseteq Nat, S # {}
  PROVE  \E c \in S : \A d \in S : c <= d
<1>1. PICK c \in S : \A d \in S : <<d, c>> \notin OpToRel(<, Nat)
  BY NatLessThanWellFounded, WFMin, Zenon
<1>2. \A d \in S : ~(d < c)
  BY <1>1 DEF OpToRel
<1>3. QED
  BY <1>2

Nonces == {<<>>} \cup (Tasks \X Nat)
Frames == [id : Nat, nonce : Nonces, sent : {"no", "acked", "failed"}]
Places == {"idle", "wait", "told", "answer", "tune", "arm", "drain", "ping", "store", "restore"}
Locals == [pc : Places, ch : Nat, home : Nat, nonce : Nonces, id : Nat, ticket : Nat, ok : BOOLEAN]

LinkTypes ==
  /\ link \in [issue : Nat, complete : Nat, status : BOOLEAN, done : BOOLEAN, lock : SUBSET Tasks,
              sends : Nat]
  /\ driver \in Seq(Frames)
  /\ task \in [Tasks -> Locals]

\* What was issued and not completed is with the driver.
InOrder == link.complete + Len(driver) = link.issue

\* Who waits has the lock and the last ticket: the last frame of the driver is its
\* own, and when the driver has none left the last status is of its own frame.
OwnTicket(t) ==
  task[t].pc = "wait" =>
    /\ link.lock = {t} /\ task[t].ticket = link.issue
    /\ Len(driver) > 0 => driver[Len(driver)].id = task[t].id
    /\ Len(driver) = 0 /\ link.status => task[t].id \in acked

AckedIsHeard == \A i \in 1 .. Len(driver) : driver[i].sent = "acked" => driver[i].id \in acked

OkIsHeard(t) == task[t].ok => task[t].id \in acked

LinkInv ==
  /\ LinkTypes /\ InOrder /\ AckedIsHeard
  /\ \A t \in Tasks : OwnTicket(t) /\ OkIsHeard(t)

LEMMA FirstIsChannel ==
  ASSUME SwarmPartsAssumption
  PROVE  Link!First \in Nat
<1>1. Channels \subseteq Nat /\ Channels # {}
  BY DEF SwarmPartsAssumption, Link!ResyncAssumption
<1>2. \E c \in Channels : \A d \in Channels : c <= d
  BY <1>1, LeastOf
<1>3. QED
  BY <1>1, <1>2 DEF Link!First

LEMMA LinkStarts == Link!Init => LinkInv
<1>1. <<>> \in Seq(Frames) /\ Len(<<>>) = 0
  OBVIOUS
<1>2. QED
  BY <1>1 DEF Link!Init, Link!AtRest, Link!None, LinkInv, LinkTypes, InOrder, AckedIsHeard, OwnTicket,
         OkIsHeard, Locals, Places, Nonces

\* A step of a task that neither sends nor is woken leaves the tickets alone.
LEMMA OwnBusiness ==
  ASSUME LinkInv, NEW t \in Tasks, UNCHANGED <<link, driver, acked>>,
         task' \in [Tasks -> Locals],
         \A u \in Tasks \ {t} : task'[u] = task[u],
         task'[t].pc # "wait",
         task'[t].ok => task[t].ok /\ task'[t].id = task[t].id
  PROVE  LinkInv'
<1>1. \A u \in Tasks : (OwnTicket(u) /\ OkIsHeard(u))'
  <2>1. TAKE u \in Tasks
  <2>2. OwnTicket(u) /\ OkIsHeard(u) /\ OkIsHeard(t)
    BY DEF LinkInv
  <2>3. CASE u = t
    BY <2>2, <2>3 DEF OwnTicket, OkIsHeard
  <2>4. CASE u # t
    BY <2>2, <2>4 DEF OwnTicket, OkIsHeard
  <2>5. QED
    BY <2>3, <2>4
<1>2. LinkTypes' /\ InOrder' /\ AckedIsHeard'
  BY DEF LinkInv, LinkTypes, InOrder, AckedIsHeard
<1>3. QED
  BY <1>1, <1>2 DEF LinkInv

\* send_blocking() up to the wait.
LEMMA Sends ==
  ASSUME LinkInv, NEW t \in Tasks, NEW pc, NEW after \in Places \ {"wait"}, Link!SendFrom(t, pc, after)
  PROVE  LinkInv'
<1>1. PICK accepted \in BOOLEAN :
        /\ link.lock = {}
        /\ link' = [link EXCEPT !.done = FALSE, !.sends = @ + 1,
                                !.lock = IF accepted THEN {t} ELSE {},
                                !.issue = IF accepted THEN @ + 1 ELSE @]
        /\ driver' = IF accepted
                     THEN Append(driver, [id |-> link.sends + 1, nonce |-> task[t].nonce, sent |-> "no"])
                     ELSE driver
        /\ task' = [task EXCEPT ![t].pc = IF accepted THEN "wait" ELSE after,
                                ![t].id = link.sends + 1, ![t].ticket = link.issue + 1, ![t].ok = FALSE]
        /\ UNCHANGED acked
  BY DEF Link!SendFrom
<1>2. link.sends + 1 \in Nat /\ link.issue + 1 \in Nat /\ task[t] \in Locals
  BY DEF LinkInv, LinkTypes
<1>3. /\ task' \in [Tasks -> Locals]
      /\ \A u \in Tasks \ {t} : task'[u] = task[u]
      /\ task'[t].ok = FALSE /\ task'[t].id = link.sends + 1 /\ task'[t].ticket = link.issue + 1
      /\ task'[t].pc = IF accepted THEN "wait" ELSE after
  BY <1>1, <1>2 DEF LinkInv, LinkTypes, Locals, Places
<1>4. \A u \in Tasks : task[u].pc # "wait"
  BY <1>1 DEF LinkInv, OwnTicket
<1>5. \A u \in Tasks : OkIsHeard(u)'
  <2>1. TAKE u \in Tasks
  <2>2. CASE u = t
    BY <1>3, <2>2 DEF OkIsHeard
  <2>3. CASE u # t
    BY <1>1, <1>3, <2>3 DEF OkIsHeard, LinkInv
  <2>4. QED
    BY <2>2, <2>3
<1>6. CASE accepted
  <2> DEFINE frame == [id |-> link.sends + 1, nonce |-> task[t].nonce, sent |-> "no"]
  <2>1. frame \in Frames /\ frame.id = link.sends + 1 /\ frame.sent = "no"
    BY <1>2 DEF Frames, Locals
  <2>2. driver' = Append(driver, frame) /\ driver \in Seq(Frames)
    BY <1>1, <1>6 DEF LinkInv, LinkTypes
  <2> HIDE DEF frame
  <2>3. /\ driver' \in Seq(Frames) /\ Len(driver') = Len(driver) + 1 /\ driver'[Len(driver')] = frame
        /\ \A i \in 1 .. Len(driver') : i = Len(driver') \/ (i \in 1 .. Len(driver) /\ driver'[i] = driver[i])
    BY <2>1, <2>2
  <2>4. link' \in [issue : Nat, complete : Nat, status : BOOLEAN, done : BOOLEAN, lock : SUBSET Tasks,
                   sends : Nat]
        /\ link'.lock = {t} /\ link'.issue = link.issue + 1 /\ link'.complete = link.complete
    BY <1>1, <1>2, <1>6 DEF LinkInv, LinkTypes
  <2>5. LinkTypes' /\ InOrder' /\ AckedIsHeard'
    <3>1. Len(driver) \in Nat
      BY <2>2
    <3>2. LinkTypes'
      BY <1>3, <2>3, <2>4 DEF LinkTypes
    <3>3. InOrder'
      BY <2>3, <2>4, <3>1 DEF LinkInv, LinkTypes, InOrder
    <3>4. AckedIsHeard'
      BY <1>1, <2>1, <2>3 DEF LinkInv, AckedIsHeard
    <3>5. QED
      BY <3>2, <3>3, <3>4
  <2>6. \A u \in Tasks : OwnTicket(u)'
    <3>1. TAKE u \in Tasks
    <3>2. CASE u = t
      <4>1. Len(driver') > 0
        BY <2>2, <2>3
      <4>2. QED
        BY <1>3, <2>1, <2>3, <2>4, <3>2, <4>1 DEF OwnTicket
    <3>3. CASE u # t
      BY <1>3, <1>4, <3>3 DEF OwnTicket
    <3>4. QED
      BY <3>2, <3>3
  <2>7. QED
    BY <1>5, <2>5, <2>6 DEF LinkInv
<1>7. CASE ~accepted
  <2>1. link' \in [issue : Nat, complete : Nat, status : BOOLEAN, done : BOOLEAN, lock : SUBSET Tasks,
                   sends : Nat]
        /\ link'.issue = link.issue /\ link'.complete = link.complete /\ driver' = driver
    BY <1>1, <1>2, <1>7 DEF LinkInv, LinkTypes
  <2>2. \A u \in Tasks : task'[u].pc # "wait"
    BY <1>3, <1>4, <1>7
  <2>3. LinkTypes' /\ InOrder' /\ AckedIsHeard'
    BY <1>1, <1>3, <2>1 DEF LinkInv, LinkTypes, InOrder, AckedIsHeard
  <2>4. QED
    BY <1>5, <2>2, <2>3 DEF LinkInv, OwnTicket
<1>8. QED
  BY <1>6, <1>7

\* The wait of send_blocking() is over: only its own status makes it a success.
LEMMA WaitEnds ==
  ASSUME LinkInv, NEW t \in Tasks, Link!Woken(t) \/ Link!WaitsTooLong(t)
  PROVE  LinkInv'
<1>1. /\ task[t].pc = "wait"
      /\ UNCHANGED <<driver, acked>>
      /\ \E ok \in BOOLEAN :
           /\ ok => link.complete = task[t].ticket /\ link.status
           /\ task' = [task EXCEPT ![t].pc = Link!After(t), ![t].ok = ok]
  BY DEF Link!Woken, Link!WaitsTooLong, Link!IsOwn, LinkInv, LinkTypes
<1>2. /\ link' \in [issue : Nat, complete : Nat, status : BOOLEAN, done : BOOLEAN, lock : SUBSET Tasks,
                   sends : Nat]
      /\ link'.issue = link.issue /\ link'.complete = link.complete
  BY DEF Link!Woken, Link!WaitsTooLong, LinkInv, LinkTypes
<1>3. PICK ok \in BOOLEAN :
        /\ ok => link.complete = task[t].ticket /\ link.status
        /\ task' = [task EXCEPT ![t].pc = Link!After(t), ![t].ok = ok]
  BY <1>1
<1>4. Link!After(t) \in Places \ {"wait"} /\ task[t] \in Locals
  BY DEF Link!After, Places, LinkInv, LinkTypes
<1>5. /\ task' \in [Tasks -> Locals]
      /\ \A u \in Tasks \ {t} : task'[u] = task[u]
      /\ task'[t].ok = ok /\ task'[t].id = task[t].id /\ task'[t].pc # "wait"
  BY <1>3, <1>4 DEF LinkInv, LinkTypes, Locals
<1>6. \A u \in Tasks \ {t} : task[u].pc # "wait"
  BY <1>1 DEF LinkInv, OwnTicket
<1>7. ok => task[t].id \in acked
  <2>1. link.complete = task[t].ticket => Len(driver) = 0
    <3>1. link.complete \in Nat /\ link.issue \in Nat /\ Len(driver) \in Nat
      BY DEF LinkInv, LinkTypes
    <3>2. link.complete + Len(driver) = link.issue /\ task[t].ticket = link.issue
      BY <1>1 DEF LinkInv, InOrder, OwnTicket
    <3>3. QED
      BY <3>1, <3>2
  <2>2. QED
    BY <1>1, <1>3, <2>1 DEF LinkInv, OwnTicket
<1>8. \A u \in Tasks : (OwnTicket(u) /\ OkIsHeard(u))'
  <2>1. TAKE u \in Tasks
  <2>2. CASE u = t
    BY <1>1, <1>5, <1>7, <2>2 DEF OwnTicket, OkIsHeard
  <2>3. CASE u # t
    BY <1>1, <1>5, <1>6, <2>3 DEF OwnTicket, OkIsHeard, LinkInv
  <2>4. QED
    BY <2>2, <2>3
<1>9. LinkTypes' /\ InOrder' /\ AckedIsHeard'
  BY <1>1, <1>2, <1>5 DEF LinkInv, LinkTypes, InOrder, AckedIsHeard
<1>10. QED
  BY <1>8, <1>9 DEF LinkInv

\* A frame goes on the air, heard or not.
LEMMA FrameSent == LinkInv /\ Link!Transmit => LinkInv'
<1> SUFFICES ASSUME LinkInv, Link!Transmit
             PROVE  LinkInv'
  OBVIOUS
<1>1. PICK heard \in BOOLEAN, i \in 1 .. Len(driver) :
        /\ driver' = [driver EXCEPT ![i].sent = IF heard THEN "acked" ELSE "failed"]
        /\ acked' = IF heard THEN acked \cup {driver[i].id} ELSE acked
        /\ UNCHANGED <<link, task>>
  BY DEF Link!Transmit
<1>2. driver \in Seq(Frames) /\ driver[i] \in Frames
  BY DEF LinkInv, LinkTypes
<1> DEFINE sent == [driver[i] EXCEPT !.sent = IF heard THEN "acked" ELSE "failed"]
<1>3. sent \in Frames /\ sent.id = driver[i].id /\ (sent.sent = "acked" => heard)
  BY <1>2 DEF Frames
<1>4. driver' = [driver EXCEPT ![i] = sent]
  BY <1>1
<1> HIDE DEF sent
<1>5. /\ driver' \in Seq(Frames) /\ Len(driver') = Len(driver) /\ driver'[i] = sent
      /\ \A j \in 1 .. Len(driver) : j # i => driver'[j] = driver[j]
  BY <1>2, <1>3, <1>4
<1>6. \A j \in 1 .. Len(driver) : driver'[j].id = driver[j].id
  BY <1>3, <1>5
<1>7. acked \subseteq acked' /\ (heard => driver[i].id \in acked')
  BY <1>1
<1>8. AckedIsHeard'
  BY <1>3, <1>5, <1>7 DEF LinkInv, AckedIsHeard
<1>9. \A u \in Tasks : (OwnTicket(u) /\ OkIsHeard(u))'
  <2>1. TAKE u \in Tasks
  <2>2. OwnTicket(u) /\ OkIsHeard(u)
    BY DEF LinkInv
  <2>3. Len(driver) \in Nat /\ (Len(driver) > 0 => Len(driver) \in 1 .. Len(driver))
    BY <1>2
  <2>4. OwnTicket(u)'
    BY <1>1, <1>5, <1>6, <1>7, <2>2, <2>3 DEF OwnTicket
  <2>5. OkIsHeard(u)'
    BY <1>1, <1>7, <2>2 DEF OkIsHeard
  <2>6. QED
    BY <2>4, <2>5
<1>10. LinkTypes' /\ InOrder'
  BY <1>1, <1>5 DEF LinkInv, LinkTypes, InOrder
<1>11. QED
  BY <1>8, <1>9, <1>10 DEF LinkInv

\* The driver reports its oldest frame.
LEMMA FrameReported == LinkInv /\ Link!OnSend => LinkInv'
<1> SUFFICES ASSUME LinkInv, Link!OnSend
             PROVE  LinkInv'
  OBVIOUS
<1>1. /\ driver # <<>> /\ driver' = Tail(driver)
      /\ link' = [link EXCEPT !.status = Head(driver).sent = "acked", !.complete = @ + 1, !.done = TRUE]
      /\ UNCHANGED <<task, acked>>
  BY DEF Link!OnSend
<1>2. driver \in Seq(Frames)
  BY DEF LinkInv, LinkTypes
<1>3. /\ driver' \in Seq(Frames) /\ Len(driver) \in Nat /\ Len(driver) > 0
      /\ Len(driver') = Len(driver) - 1 /\ Head(driver) = driver[1]
      /\ \A i \in 1 .. Len(driver') : i + 1 \in 1 .. Len(driver) /\ driver'[i] = driver[i + 1]
  BY <1>1, <1>2
<1>4. /\ link.complete + 1 \in Nat
      /\ link' \in [issue : Nat, complete : Nat, status : BOOLEAN, done : BOOLEAN, lock : SUBSET Tasks,
                    sends : Nat]
      /\ link'.issue = link.issue /\ link'.complete = link.complete + 1 /\ link'.lock = link.lock
      /\ link'.status <=> (Head(driver).sent = "acked")
  <2> DEFINE status == Head(driver).sent = "acked"
  <2>1. link' = [link EXCEPT !.status = status, !.complete = link.complete + 1, !.done = TRUE]
    BY <1>1
  <2>2. status \in BOOLEAN /\ (status <=> (Head(driver).sent = "acked"))
    OBVIOUS
  <2> HIDE DEF status
  <2>3. link.complete + 1 \in Nat
    BY DEF LinkInv, LinkTypes
  <2>4. QED
    BY <2>1, <2>2, <2>3 DEF LinkInv, LinkTypes
<1>5. LinkTypes'
  BY <1>1, <1>3, <1>4 DEF LinkInv, LinkTypes
<1>6. InOrder'
  BY <1>3, <1>4 DEF LinkInv, LinkTypes, InOrder
<1>7. AckedIsHeard'
  BY <1>1, <1>3 DEF LinkInv, AckedIsHeard
<1>8. \A u \in Tasks : (OwnTicket(u) /\ OkIsHeard(u))'
  <2>1. TAKE u \in Tasks
  <2>2. OwnTicket(u) /\ OkIsHeard(u) /\ AckedIsHeard
    BY DEF LinkInv
  <2>3. CASE Len(driver) = 1
    <3>1. Len(driver') = 0 /\ (link'.status => driver[1].id \in acked)
      BY <1>3, <1>4, <2>2, <2>3 DEF AckedIsHeard
    <3>2. task[u].pc = "wait" => driver[1].id = task[u].id
      BY <2>2, <2>3 DEF OwnTicket
    <3>3. OwnTicket(u)'
      BY <1>1, <1>4, <2>2, <3>1, <3>2 DEF OwnTicket
    <3>4. QED
      BY <1>1, <2>2, <3>3 DEF OkIsHeard
  <2>4. CASE Len(driver) > 1
    <3>1. Len(driver') > 0 /\ driver'[Len(driver')] = driver[Len(driver)]
      BY <1>3, <2>4
    <3>2. QED
      BY <1>1, <1>3, <1>4, <2>2, <3>1 DEF OwnTicket, OkIsHeard
  <2>5. QED
    BY <1>3, <2>3, <2>4
<1>9. QED
  BY <1>5, <1>6, <1>7, <1>8 DEF LinkInv

LEMMA NextChannelStays ==
  ASSUME SwarmPartsAssumption, LinkInv, NEW t \in Tasks, task[t].pc # "wait", task' = Link!NextChannel(t)
  PROVE  /\ task' \in [Tasks -> Locals]
         /\ \A u \in Tasks \ {t} : task'[u] = task[u]
         /\ task'[t].pc # "wait" /\ task'[t].ok = task[t].ok /\ task'[t].id = task[t].id
<1>1. Channels \subseteq Nat /\ task[t] \in Locals /\ task \in [Tasks -> Locals]
  BY DEF SwarmPartsAssumption, Link!ResyncAssumption, LinkInv, LinkTypes
<1>2. CASE Link!Later(task[t].ch) = {}
  BY <1>1, <1>2 DEF Link!NextChannel, Link!Goes, Locals, Places
<1>3. CASE Link!Later(task[t].ch) # {}
  <2> DEFINE later == Link!Later(task[t].ch)
             next == CHOOSE d \in later : \A e \in later : d <= e
  <2>1. later \subseteq Nat /\ later # {}
    BY <1>1, <1>3 DEF Link!Later
  <2>2. next \in Nat
    <3> HIDE DEF later
    <3>1. \E d \in later : \A e \in later : d <= e
      BY <2>1, LeastOf
    <3>2. QED
      BY <2>1, <3>1
  <2>3. task' = [task EXCEPT ![t].pc = "tune", ![t].ch = next]
    BY <1>3 DEF Link!NextChannel
  <2>4. PICK ch \in Nat : task' = [task EXCEPT ![t].pc = "tune", ![t].ch = ch]
    BY <2>2, <2>3
  <2> HIDE DEF later, next
  <2>5. ch \in Nat /\ "tune" \in Places
    BY DEF Places
  <2>6. task' \in [Tasks -> Locals]
    BY <1>1, <2>4, <2>5 DEF Locals
  <2>7. QED
    BY <1>1, <2>4, <2>6 DEF Locals
<1>4. QED
  BY <1>2, <1>3

\* The channels a task tunes to, or comes back to, are channels.
RadioTyped == radio \in [ch : Nat, stored : Nat, hub : Nat]

LEMMA RadioKept ==
  ASSUME LinkInv, RadioTyped, [Link!Next]_linkVars
  PROVE  RadioTyped'
<1>1. CASE UNCHANGED radio
  BY <1>1 DEF RadioTyped
<1>2. ASSUME NEW t \in Tasks, Link!Tune(t) \/ Link!Store(t) \/ Link!Restore(t)
      PROVE  RadioTyped'
  <2>1. task[t].ch \in Nat /\ task[t].home \in Nat
    BY DEF LinkInv, LinkTypes, Locals
  <2>2. \/ radio' = radio
        \/ \E c \in Nat : radio' = [radio EXCEPT !.ch = c] \/ radio' = [radio EXCEPT !.stored = c]
    BY <1>2, <2>1 DEF Link!Tune, Link!Store, Link!Restore
  <2>3. QED
    BY <2>2 DEF RadioTyped
<1>3. QED
  BY <1>1, <1>2 DEF linkVars, Link!Next, Link!Transmit, Link!OnSend, Link!Pong, Link!GivePong,
     Link!TaskStep, Link!Woken, Link!WaitsTooLong, Link!SendData, Link!SendFrom, Link!DataSent,
     Link!StartResync, Link!Arm, Link!Drain, Link!SendPing, Link!Answered

\* The steps of a resync that only concern the task itself.
LEMMA ResyncSteps ==
  ASSUME SwarmPartsAssumption, LinkInv, RadioTyped, NEW t \in Tasks,
         \/ Link!DataSent(t) \/ Link!StartResync(t) \/ Link!Tune(t) \/ Link!Arm(t) \/ Link!Drain(t)
         \/ Link!Answered(t) \/ Link!Store(t) \/ Link!Restore(t)
  PROVE  LinkInv'
<1>1. task \in [Tasks -> Locals] /\ task[t] \in Locals /\ Link!First \in Nat
  BY FirstIsChannel DEF LinkInv, LinkTypes
<1>2. link.sends \in Nat /\ <<t, link.sends>> \in Nonces
  BY DEF LinkInv, LinkTypes, Nonces
<1>3. Link!AtRest \in Locals /\ Link!AtRest.pc = "idle" /\ Link!AtRest.ok = FALSE
  <2>1. <<>> \in Nonces
    BY DEF Nonces
  <2>2. QED
    BY <2>1 DEF Link!AtRest, Link!None, Locals, Places
<1>4. UNCHANGED <<link, driver, acked>>
  BY DEF Link!DataSent, Link!StartResync, Link!Tune, Link!Arm, Link!Drain, Link!Answered, Link!Store,
         Link!Restore
<1>5. \/ task[t].pc # "wait" /\ task' = Link!NextChannel(t)
      \/ task' = [task EXCEPT ![t] = Link!AtRest]
      \/ \E pc \in Places \ {"wait"} : task' = [task EXCEPT ![t].pc = pc]
      \/ task' = [task EXCEPT ![t].pc = "tune", ![t].ch = Link!First, ![t].home = radio.stored]
      \/ task' = [task EXCEPT ![t].pc = "drain", ![t].nonce = <<t, link.sends>>]
  BY DEF Link!DataSent, Link!StartResync, Link!Tune, Link!Arm, Link!Drain, Link!Answered, Link!Store,
         Link!Restore, Link!Goes, Places
<1>6. CASE task[t].pc # "wait" /\ task' = Link!NextChannel(t)
  BY <1>4, <1>6, NextChannelStays, OwnBusiness
<1>7. CASE task' = [task EXCEPT ![t] = Link!AtRest]
  <2>1. /\ task' \in [Tasks -> Locals]
        /\ \A u \in Tasks \ {t} : task'[u] = task[u]
        /\ task'[t].pc # "wait" /\ ~task'[t].ok
    BY <1>1, <1>3, <1>7
  <2>2. QED
    BY <1>4, <2>1, OwnBusiness
<1>8. CASE \E pc \in Places \ {"wait"} : task' = [task EXCEPT ![t].pc = pc]
  <2>1. /\ task' \in [Tasks -> Locals]
        /\ \A u \in Tasks \ {t} : task'[u] = task[u]
        /\ task'[t].pc # "wait" /\ task'[t].ok = task[t].ok /\ task'[t].id = task[t].id
    BY <1>1, <1>8 DEF Locals
  <2>2. QED
    BY <1>4, <2>1, OwnBusiness
<1>9. CASE task' = [task EXCEPT ![t].pc = "tune", ![t].ch = Link!First, ![t].home = radio.stored]
  <2>1. radio.stored \in Nat
    BY DEF RadioTyped
  <2>2. /\ task' \in [Tasks -> Locals]
        /\ \A u \in Tasks \ {t} : task'[u] = task[u]
        /\ task'[t].pc # "wait" /\ task'[t].ok = task[t].ok /\ task'[t].id = task[t].id
    BY <1>1, <1>9, <2>1 DEF Locals, Places
  <2>3. QED
    BY <1>4, <2>2, OwnBusiness
<1>10. CASE task' = [task EXCEPT ![t].pc = "drain", ![t].nonce = <<t, link.sends>>]
  <2>1. /\ task' \in [Tasks -> Locals]
        /\ \A u \in Tasks \ {t} : task'[u] = task[u]
        /\ task'[t].pc # "wait" /\ task'[t].ok = task[t].ok /\ task'[t].id = task[t].id
    BY <1>1, <1>2, <1>10 DEF Locals, Places
  <2>2. QED
    BY <1>4, <2>1, OwnBusiness
<1>11. QED
  BY <1>5, <1>6, <1>7, <1>8, <1>9, <1>10

LEMMA LinkStep ==
  ASSUME SwarmPartsAssumption, LinkInv, RadioTyped, [Link!Next]_linkVars
  PROVE  LinkInv'
<1>1. CASE Link!Transmit
  BY <1>1, FrameSent
<1>2. CASE Link!OnSend
  BY <1>2, FrameReported
<1>3. CASE Link!Pong \/ Link!GivePong \/ UNCHANGED linkVars
  <2>1. UNCHANGED <<link, driver, task, acked>>
    BY <1>3 DEF Link!Pong, Link!GivePong, linkVars
  <2>2. QED
    BY <2>1 DEF LinkInv, LinkTypes, InOrder, AckedIsHeard, OwnTicket, OkIsHeard
<1>4. ASSUME NEW t \in Tasks, Link!TaskStep(t)
      PROVE  LinkInv'
  <2>1. CASE Link!Woken(t) \/ Link!WaitsTooLong(t)
    BY <2>1, WaitEnds
  <2>2. CASE Link!SendData(t)
    BY <2>2, Sends DEF Link!SendData, Places
  <2>3. CASE Link!SendPing(t)
    BY <2>3, Sends DEF Link!SendPing, Places
  <2>4. CASE \/ Link!DataSent(t) \/ Link!StartResync(t) \/ Link!Tune(t) \/ Link!Arm(t)
             \/ Link!Drain(t) \/ Link!Answered(t) \/ Link!Store(t) \/ Link!Restore(t)
    BY <2>4, ResyncSteps
  <2>5. QED
    BY <1>4, <2>1, <2>2, <2>3, <2>4 DEF Link!TaskStep
<1>5. QED
  BY <1>1, <1>2, <1>3, <1>4 DEF Link!Next

-----------------------------------------------------------------------------
(* NodeOta: whose frames are under way, and what the hub and the node know *)

Image == [1 .. Total -> Nat]
StatusFrames == [session : Nat, state : {"IDLE", "RECEIVING", "DONE", "FAILED"}, next : Nat]
NodeFrames ==
  [type : {"BEGIN"}, session : Nat, image : Nat] \cup [type : {"CHUNK"}, offset : Nat, image : Nat]
  \cup [type : {"ABORT"}]
Receptions == [active : BOOLEAN, session : Nat, expected : Nat, next : Nat,
               stage : {"idle", "end", "mark", "tell"}]
Receivers == [recv : Receptions, part : Image, selected : BOOLEAN, marker : Nat, runs : Image,
              previous : Image, pending : BOOLEAN]
Stream == {"begin", "top", "act", "grace"}
Senders ==
  [active : BOOLEAN, state : {"NONE", "PENDING_WAKE", "RECEIVING", "DONE", "FAILED"},
   pc : {"gone", "parked", "prepare"} \cup Stream, abort : BOOLEAN, started : Nat, session : Nat,
   sent : Nat, acked : Nat, status : Seq(StatusFrames), got : BOOLEAN, last : Seq(Nat),
   stalls : Nat, silent : Nat, polls : Nat]

UpdateTypes ==
  /\ sender \in Senders /\ receiver \in Receivers
  /\ sem \in BOOLEAN /\ image \in Nat /\ high \in Nat

\* The session has a number from Prepare on; a parked one has none yet.
SenderShape ==
  /\ sender.active <=> sender.pc # "gone"
  /\ sender.active => sender.state \in {"PENDING_WAKE", "RECEIVING"}
  /\ sender.pc = "parked" => sender.state = "PENDING_WAKE"
  /\ sender.pc \in {"parked", "prepare"} => sender.session = 0 /\ sender.acked = 0
  /\ sender.pc \in Stream => sender.session = sender.started
  /\ sender.active => sender.started # 0
  /\ sender.session \in {0, sender.started}

\* The number of a session the hub started, and not of the one about to begin.
Begun(id) ==
  /\ id \in 1 .. sender.started
  /\ sender.active /\ sender.session = 0 => id # sender.started

Written(id, next) == id = sender.session => next <= high

GoodFrames == {f \in NodeFrames : f.type = "BEGIN" => Begun(f.session)}

GoodReports ==
  {st \in StatusFrames : st.state # "IDLE" =>
     /\ Begun(st.session)
     /\ st.state = "DONE" => st.session \in installed
     /\ st.state = "RECEIVING" => Written(st.session, st.next)}

\* The status that waits to be read is a report about this session.
StatusIsOwn ==
  \A i \in 1 .. Len(sender.status) :
    /\ sender.status[i] \in GoodReports
    /\ sender.status[i].state # "IDLE" => sender.status[i].session = sender.session

ReceiverShape ==
  /\ receiver.recv.stage \in {"end", "mark"} => receiver.recv.active
  /\ receiver.recv.stage = "tell" => ~receiver.recv.active
  /\ receiver.recv.active \/ receiver.recv.stage = "tell" => Begun(receiver.recv.session)
  /\ receiver.recv.active => Written(receiver.recv.session, receiver.recv.next)
  /\ receiver.recv.stage \in {"mark", "tell"} => receiver.recv.session \in installed
  /\ receiver.marker # 0 => Begun(receiver.marker) /\ receiver.marker \in installed

\* What is selected for boot is only in the partition until the restart.
Selection ==
  /\ receiver.selected => receiver.recv.stage \in {"mark", "tell"}
  /\ Update!NeverBootsMixed

UpdateInv ==
  /\ UpdateTypes /\ SenderShape /\ StatusIsOwn
  /\ chunks \in Seq(GoodFrames) /\ answers \in Seq(GoodReports)
  /\ ReceiverShape /\ Selection
  /\ Update!HubBelievesTruth /\ Update!AbortReachesParked

LEMMA SeqGrows ==
  ASSUME NEW S, NEW T, S \subseteq T, NEW s \in Seq(S)
  PROVE  s \in Seq(T)
  OBVIOUS

LEMMA SeqTakes ==
  ASSUME NEW S, NEW s \in Seq(S), s # <<>>
  PROVE  Head(s) \in S /\ Tail(s) \in Seq(S)
  OBVIOUS

LEMMA SeqAdds ==
  ASSUME NEW S, NEW s \in Seq(S), NEW e \in S
  PROVE  Append(s, e) \in Seq(S)
  OBVIOUS

LEMMA FrameArrives ==
  ASSUME NEW S, chunks \in Seq(S), NEW frame \in S, NEW copies, Update!Arrives(frame, copies)
  PROVE  chunks' \in Seq(S)
  BY SeqAdds DEF Update!Arrives

LEMMA StatusReported ==
  ASSUME NEW S, answers \in Seq(S), NEW id, NEW state, NEW next,
         [session |-> id, state |-> state, next |-> next] \in S, Update!Reports(id, state, next)
  PROVE  answers' \in Seq(S)
<1>1. answers' = answers \/ answers' = Append(answers, [session |-> id, state |-> state, next |-> next])
  BY DEF Update!Reports
<1>2. QED
  BY <1>1, SeqAdds

\* What is known of a session stays known as long as its number means the same.
LEMMA StaysGood ==
  ASSUME \A id : Begun(id) => Begun(id)',
         \A id, next \in Nat : Begun(id) /\ Written(id, next) => Written(id, next)',
         installed \subseteq installed'
  PROVE  GoodFrames \subseteq GoodFrames' /\ GoodReports \subseteq GoodReports'
<1>1. GoodFrames \subseteq GoodFrames'
  BY DEF GoodFrames
<1>2. GoodReports \subseteq GoodReports'
  BY DEF GoodReports, StatusFrames
<1>3. QED
  BY <1>1, <1>2

LEMMA SameSession ==
  ASSUME UpdateInv, sender'.started = sender.started, sender'.session = sender.session,
         sender'.active => sender.active, high' \in Nat, high <= high', installed \subseteq installed'
  PROVE  /\ \A id : Begun(id) => Begun(id)'
         /\ \A id, next \in Nat : Written(id, next) => Written(id, next)'
<1>1. high \in Nat
  BY DEF UpdateInv, UpdateTypes
<1>2. QED
  BY <1>1 DEF Begun, Written

\* What a step of the hub must show that does not change its session's number.
LEMMA SenderSteps ==
  ASSUME UpdateInv, UNCHANGED <<image, receiver, high, installed>>,
         sender' \in Senders, SenderShape', sem' \in BOOLEAN, Update!AbortReachesParked',
         sender'.started = sender.started, sender'.session = sender.session,
         sender'.active => sender.active,
         chunks' \in Seq(GoodFrames), answers' \in Seq(GoodReports),
         \A i \in 1 .. Len(sender'.status) :
           /\ sender'.status[i] \in GoodReports
           /\ sender'.status[i].state # "IDLE" => sender'.status[i].session = sender.session,
         sender'.state = "DONE" => sender.session \in installed,
         sender.session # 0 /\ sender'.state # "DONE" => sender'.acked <= high
  PROVE  UpdateInv'
<1>1. high \in Nat /\ high' = high /\ installed' = installed /\ receiver' = receiver
  BY DEF UpdateInv, UpdateTypes
<1>2. /\ \A id : Begun(id) => Begun(id)'
      /\ \A id, next \in Nat : Written(id, next) => Written(id, next)'
  BY <1>1, SameSession
<1>3. GoodFrames \subseteq GoodFrames' /\ GoodReports \subseteq GoodReports'
  BY <1>1, <1>2, StaysGood
<1>4. UpdateTypes'
  BY <1>1 DEF UpdateInv, UpdateTypes
<1>5. StatusIsOwn'
  BY <1>3 DEF StatusIsOwn
<1>6. chunks' \in Seq(GoodFrames)' /\ answers' \in Seq(GoodReports)'
  BY <1>3, SeqGrows
<1>7. ReceiverShape'
  BY <1>1, <1>2 DEF UpdateInv, UpdateTypes, Receivers, Receptions, ReceiverShape
<1>8. Selection'
  BY <1>1 DEF UpdateInv, Selection, Update!NeverBootsMixed
<1>9. Update!HubBelievesTruth'
  BY <1>1 DEF Update!HubBelievesTruth, Update!None
<1>10. QED
  BY <1>4, <1>5, <1>6, <1>7, <1>8, <1>9 DEF UpdateInv

\* finish_session() of a session that failed.
LEMMA SessionFails ==
  ASSUME UpdateInv, sender.active, UNCHANGED <<image, receiver, high, installed, answers>>, sem' \in BOOLEAN,
         chunks' \in Seq(GoodFrames),
         \/ sender' = Update!Finished(sender, "FAILED")
         \/ sender' = Update!Finished([sender EXCEPT !.status = <<>>], "FAILED")
  PROVE  UpdateInv'
<1>1. sender \in Senders /\ SenderShape /\ answers \in Seq(GoodReports)
  BY DEF UpdateInv, UpdateTypes
<1>2. <<>> \in Seq(StatusFrames) /\ <<>> \in Seq(Nat) /\ Len(<<>>) = 0
  OBVIOUS
<1>3. /\ sender' \in Senders /\ sender'.pc = "gone" /\ sender'.active = FALSE /\ sender'.state = "FAILED"
      /\ sender'.started = sender.started /\ sender'.session = sender.session
      /\ sender'.status = <<>> /\ sender'.acked = sender.acked
  <2> DEFINE read == [sender EXCEPT !.status = <<>>]
  <2>1. read \in Senders /\ read.started = sender.started /\ read.session = sender.session
        /\ read.acked = sender.acked
    BY <1>1, <1>2 DEF Senders
  <2>2. PICK h \in {sender, read} : sender' = Update!Finished(h, "FAILED")
    OBVIOUS
  <2>3. h \in Senders /\ h.started = sender.started /\ h.session = sender.session /\ h.acked = sender.acked
    BY <1>1, <2>1
  <2>4. sender' = [h EXCEPT !.active = FALSE, !.state = "FAILED", !.pc = "gone", !.abort = FALSE,
                            !.status = <<>>, !.got = FALSE, !.last = <<>>, !.stalls = 0,
                            !.silent = 0, !.polls = 0, !.sent = h.sent, !.acked = h.acked]
    BY <2>2 DEF Update!Finished
  <2> HIDE DEF read
  <2>5. QED
    BY <1>2, <2>3, <2>4 DEF Senders
<1>4. SenderShape'
  BY <1>1, <1>3 DEF SenderShape, Stream
<1>5. Update!AbortReachesParked'
  BY <1>3 DEF Update!AbortReachesParked
<1>6. sender.session # 0 => sender.acked <= high
  BY <1>1 DEF SenderShape, UpdateInv, Update!HubBelievesTruth, Update!None
<1>7. QED
  BY <1>1, <1>2, <1>3, <1>4, <1>5, <1>6, SenderSteps

LEMMA AbortFrameArrives ==
  ASSUME UpdateInv, \E copies \in 0 .. 1 : Update!Arrives(Update!AbortFrame, copies)
  PROVE  chunks' \in Seq(GoodFrames)
<1>1. Update!AbortFrame \in GoodFrames
  BY DEF Update!AbortFrame, GoodFrames, NodeFrames
<1>2. QED
  BY <1>1, FrameArrives DEF UpdateInv

\* What a step of the hub must show that does.
LEMMA SessionChanges ==
  ASSUME UpdateInv, UNCHANGED <<receiver, installed, chunks>>,
         sender' \in Senders, SenderShape', sem' \in BOOLEAN, image' \in Nat, high' \in Nat,
         answers' \in Seq(GoodReports), StatusIsOwn', Update!HubBelievesTruth',
         Update!AbortReachesParked',
         \A id : Begun(id) => Begun(id)',
         \A id, next \in Nat : Begun(id) /\ Written(id, next) => Written(id, next)'
  PROVE  UpdateInv'
<1>1. GoodFrames \subseteq GoodFrames' /\ GoodReports \subseteq GoodReports'
  BY StaysGood
<1>2. chunks' \in Seq(GoodFrames)' /\ answers' \in Seq(GoodReports)'
  BY <1>1, SeqGrows DEF UpdateInv
<1>3. UpdateTypes'
  BY DEF UpdateInv, UpdateTypes
<1>4. ReceiverShape'
  BY DEF UpdateInv, UpdateTypes, Receivers, Receptions, ReceiverShape
<1>5. Selection'
  BY DEF UpdateInv, Selection, Update!NeverBootsMixed
<1>6. QED
  BY <1>2, <1>3, <1>4, <1>5 DEF UpdateInv

LEMMA StartStep == UpdateInv /\ Update!Start => UpdateInv'
<1> SUFFICES ASSUME UpdateInv, Update!Start
             PROVE  UpdateInv'
  OBVIOUS
<1>1. sender \in Senders /\ SenderShape /\ sender.started + 1 \in Nat /\ sender.started + 1 # 0
  BY DEF UpdateInv, UpdateTypes, Senders
<1>2. PICK parked \in BOOLEAN : sender' = Update!NewSession(parked, sender.started + 1)
  <2> DEFINE p == sender.started + 1 \in OnBattery
  <2>1. p \in BOOLEAN /\ sender' = Update!NewSession(p, sender.started + 1)
    BY DEF Update!Start
  <2>2. QED
    BY <2>1
<1>3. /\ UNCHANGED <<receiver, installed, chunks, answers, image>> /\ high' = 0
      /\ sem' \in BOOLEAN
  BY DEF Update!Start, UpdateInv, UpdateTypes
<1>4. <<>> \in Seq(StatusFrames) /\ <<>> \in Seq(Nat) /\ Len(<<>>) = 0
  OBVIOUS
<1>5. /\ sender' \in Senders /\ sender'.started = sender.started + 1 /\ sender'.session = 0
      /\ sender'.status = <<>> /\ sender'.abort = FALSE /\ sender'.active = TRUE /\ sender'.acked = 0
      /\ sender'.state = IF parked THEN "PENDING_WAKE" ELSE "RECEIVING"
      /\ sender'.pc = IF parked THEN "parked" ELSE "prepare"
  BY <1>1, <1>2, <1>4 DEF Update!NewSession, Update!None, Senders
<1>6. SenderShape'
  BY <1>1, <1>5 DEF SenderShape, Stream
<1>7. /\ StatusIsOwn' /\ Update!HubBelievesTruth' /\ Update!AbortReachesParked'
  BY <1>4, <1>5 DEF StatusIsOwn, Update!HubBelievesTruth, Update!AbortReachesParked, Update!None
<1>8. \A id : Begun(id) => id \in Nat /\ id # 0 /\ Begun(id)'
  BY <1>1, <1>5 DEF Begun, Senders
<1>9. \A id, next \in Nat : Begun(id) /\ Written(id, next) => Written(id, next)'
  BY <1>5, <1>8 DEF Written
<1>10. image' \in Nat /\ high' \in Nat /\ answers' \in Seq(GoodReports)
  BY <1>3 DEF UpdateInv, UpdateTypes
<1>11. QED
  BY <1>3, <1>5, <1>6, <1>7, <1>8, <1>9, <1>10, SessionChanges

LEMMA PrepareStep == UpdateInv /\ Update!Prepare => UpdateInv'
<1> SUFFICES ASSUME UpdateInv, Update!Prepare
             PROVE  UpdateInv'
  OBVIOUS
<1>1. sender \in Senders /\ SenderShape /\ sender.pc = "prepare" /\ sender.active /\ sender.session = 0
      /\ sem \in BOOLEAN /\ chunks \in Seq(GoodFrames) /\ answers \in Seq(GoodReports)
      /\ image \in Nat /\ high \in Nat
  BY DEF Update!Prepare, UpdateInv, UpdateTypes, SenderShape
<1>2. UNCHANGED <<image, receiver, high, installed, answers, sem, chunks>>
  BY DEF Update!Prepare, Update!HubOnly, Update!FailSilently
<1>3. CASE Update!FailSilently(sender)
  BY <1>1, <1>2, <1>3, SessionFails DEF Update!FailSilently
<1>4. CASE sender' = [sender EXCEPT !.session = sender.started, !.pc = "begin"]
  <2>1. /\ sender' \in Senders /\ sender'.started = sender.started /\ sender'.session = sender.started
        /\ sender'.pc = "begin" /\ sender'.active = sender.active /\ sender'.state = sender.state
        /\ sender'.status = sender.status /\ sender'.acked = sender.acked
    BY <1>1, <1>4 DEF Senders, Stream
  <2>2. SenderShape'
    BY <1>1, <2>1 DEF SenderShape, Stream
  <2>3. \A id : Begun(id) => Begun(id)' /\ id # sender'.session
    BY <1>1, <2>1 DEF Begun
  <2>4. \A id, next \in Nat : Begun(id) /\ Written(id, next) => Written(id, next)'
    BY <2>3 DEF Written
  <2>5. GoodReports \subseteq GoodReports'
    BY <1>2, <2>3, <2>4, StaysGood
  <2>6. \A i \in 1 .. Len(sender.status) : sender.status[i].state = "IDLE"
    BY <1>1 DEF UpdateInv, StatusIsOwn, GoodReports, Begun
  <2>7. StatusIsOwn'
    BY <2>1, <2>5, <2>6 DEF UpdateInv, StatusIsOwn
  <2>8. Update!HubBelievesTruth'
    <3>1. sender.acked = 0 /\ sender.state # "DONE"
      BY <1>1 DEF SenderShape
    <3>2. QED
      BY <1>1, <1>2, <2>1, <3>1 DEF Update!HubBelievesTruth
  <2>9. Update!AbortReachesParked'
    BY <2>1 DEF Update!AbortReachesParked
  <2>10. QED
    BY <1>1, <1>2, <2>1, <2>2, <2>3, <2>4, <2>7, <2>8, <2>9, SessionChanges
<1>5. QED
  BY <1>3, <1>4 DEF Update!Prepare

LEMMA HubRestartStep == UpdateInv /\ Update!HubRestart => UpdateInv'
<1> SUFFICES ASSUME UpdateInv, Update!HubRestart
             PROVE  UpdateInv'
  OBVIOUS
<1>1. sender \in Senders /\ image \in Nat /\ image + 1 \in Nat /\ high \in Nat
  BY DEF UpdateInv, UpdateTypes
<1>2. /\ sender' = Update!NoSession(sender.started) /\ sem' = FALSE /\ answers' = <<>>
      /\ image' \in {image, image + 1} /\ UNCHANGED <<receiver, chunks, high, installed>>
  BY DEF Update!HubRestart
<1>3. <<>> \in Seq(StatusFrames) /\ <<>> \in Seq(Nat) /\ Len(<<>>) = 0 /\ <<>> \in Seq(GoodReports)
  OBVIOUS
<1>4. /\ sender' \in Senders /\ sender'.started = sender.started /\ sender'.session = 0
      /\ sender'.status = <<>> /\ sender'.active = FALSE /\ sender'.pc = "gone"
      /\ sender'.state = "NONE"
  BY <1>1, <1>2, <1>3 DEF Update!NoSession, Update!NewSession, Update!None, Senders
<1>5. SenderShape'
  BY <1>4 DEF SenderShape, Stream
<1>6. StatusIsOwn' /\ Update!HubBelievesTruth' /\ Update!AbortReachesParked'
  BY <1>3, <1>4 DEF StatusIsOwn, Update!HubBelievesTruth, Update!AbortReachesParked, Update!None
<1>7. \A id : Begun(id) => id # 0 /\ Begun(id)'
  BY <1>1, <1>4 DEF Begun, Senders
<1>8. \A id, next \in Nat : Begun(id) /\ Written(id, next) => Written(id, next)'
  BY <1>4, <1>7 DEF Written
<1>9. QED
  BY <1>1, <1>2, <1>3, <1>4, <1>5, <1>6, <1>7, <1>8, SessionChanges

\* What the callers of the hub, and the receive callback, do to a session.
LEMMA CallerSteps ==
  ASSUME UpdateInv,
         Update!Abort \/ Update!CheckinSeen \/ Update!Give \/ Update!HandleStatus
  PROVE  UpdateInv'
<1>1. /\ sender \in Senders /\ SenderShape /\ sem \in BOOLEAN /\ StatusIsOwn
      /\ chunks \in Seq(GoodFrames) /\ answers \in Seq(GoodReports)
      /\ Update!HubBelievesTruth /\ Update!AbortReachesParked
  BY DEF UpdateInv, UpdateTypes
<1>2. UNCHANGED <<image, receiver, high, installed, chunks>>
  BY DEF Update!Abort, Update!CheckinSeen, Update!Give, Update!HandleStatus, Update!HubOnly
<1>3. CASE Update!Abort
  <2>1. /\ sender' = [sender EXCEPT !.abort = TRUE] /\ UNCHANGED <<sem, answers>>
        /\ sender.state = "PENDING_WAKE" => "abort" \in gives'
    BY <1>3 DEF Update!Abort
  <2>2. /\ sender' \in Senders /\ sender'.pc = sender.pc /\ sender'.active = sender.active
        /\ sender'.state = sender.state /\ sender'.started = sender.started
        /\ sender'.session = sender.session /\ sender'.acked = sender.acked
        /\ sender'.status = sender.status
    BY <1>1, <2>1 DEF Senders
  <2>3. SenderShape' /\ Update!AbortReachesParked'
    BY <1>1, <2>1, <2>2 DEF SenderShape, Update!AbortReachesParked
  <2>4. QED
    BY <1>1, <1>2, <2>1, <2>2, <2>3, SenderSteps DEF StatusIsOwn, Update!HubBelievesTruth, Update!None
<1>4. CASE Update!CheckinSeen \/ Update!Give
  <2>1. UNCHANGED <<sender, answers>> /\ sem' \in BOOLEAN /\ (sem' \/ gives' # {})
    BY <1>1, <1>4 DEF Update!CheckinSeen, Update!Give
  <2>2. SenderShape' /\ Update!AbortReachesParked'
    BY <1>1, <2>1 DEF SenderShape, Update!AbortReachesParked
  <2>3. QED
    BY <1>1, <1>2, <2>1, <2>2, SenderSteps DEF StatusIsOwn, Update!HubBelievesTruth, Update!None
<1>5. CASE Update!HandleStatus
  <2>1. answers # <<>> /\ answers' = Tail(answers) /\ UNCHANGED <<gives, sem>>
    BY <1>5 DEF Update!HandleStatus
  <2>2. Head(answers) \in GoodReports /\ answers' \in Seq(GoodReports)
    BY <1>1, <2>1, SeqTakes
  <2>3. CASE sender' = sender
    <3>1. SenderShape' /\ Update!AbortReachesParked'
      BY <1>1, <2>1, <2>3 DEF SenderShape, Update!AbortReachesParked
    <3>2. QED
      BY <1>1, <1>2, <2>1, <2>2, <2>3, <3>1, SenderSteps
         DEF StatusIsOwn, Update!HubBelievesTruth, Update!None
  <2>4. CASE Update!Accepts(Head(answers)) /\ sender' = [sender EXCEPT !.status = <<Head(answers)>>]
    <3> DEFINE st == Head(answers)
    <3>1. /\ st \in GoodReports /\ st \in StatusFrames
          /\ st.state # "IDLE" => st.session = sender.session
      BY <2>2, <2>4 DEF GoodReports, Update!Accepts
    <3>2. sender' = [sender EXCEPT !.status = <<st>>]
      BY <2>4
    <3> HIDE DEF st
    <3>3. <<st>> \in Seq(StatusFrames) /\ Len(<<st>>) = 1 /\ <<st>>[1] = st
      BY <3>1
    <3>4. /\ sender' \in Senders /\ sender'.pc = sender.pc /\ sender'.active = sender.active
          /\ sender'.state = sender.state /\ sender'.started = sender.started
          /\ sender'.session = sender.session /\ sender'.acked = sender.acked
          /\ sender'.status = <<st>> /\ sender'.abort = sender.abort
      BY <1>1, <3>2, <3>3 DEF Senders
    <3>5. SenderShape' /\ Update!AbortReachesParked'
      BY <1>1, <2>1, <3>4 DEF SenderShape, Update!AbortReachesParked
    <3>6. \A i \in 1 .. Len(sender'.status) :
            /\ sender'.status[i] \in GoodReports
            /\ sender'.status[i].state # "IDLE" => sender'.status[i].session = sender.session
      BY <3>1, <3>3, <3>4
    <3>7. QED
      BY <1>1, <1>2, <2>1, <2>2, <3>4, <3>5, <3>6, SenderSteps DEF Update!HubBelievesTruth, Update!None
  <2>5. QED
    BY <1>5, <2>3, <2>4 DEF Update!HandleStatus
<1>6. QED
  BY <1>3, <1>4, <1>5

\* A step of node_ota_task that stays in the stream.
LEMMA StreamGoesOn ==
  ASSUME UpdateInv, sender.active, sender.session = sender.started,
         UNCHANGED <<image, receiver, high, installed, answers>>, chunks' \in Seq(GoodFrames),
         sem' \in BOOLEAN, sender' \in Senders, sender'.pc \in Stream, sender'.active = TRUE,
         sender'.state = sender.state, sender'.started = sender.started,
         sender'.session = sender.session, sender'.acked \in {sender.acked} \cup 0 .. high,
         sender'.status \in {sender.status, <<>>}
  PROVE  UpdateInv'
<1>1. /\ sender \in Senders /\ SenderShape /\ StatusIsOwn /\ answers \in Seq(GoodReports)
      /\ Update!HubBelievesTruth /\ high \in Nat /\ sender.state # "DONE"
  BY DEF UpdateInv, UpdateTypes, SenderShape
<1>2. Len(<<>>) = 0
  OBVIOUS
<1>3. SenderShape' /\ Update!AbortReachesParked'
  BY <1>1 DEF SenderShape, Stream, Update!AbortReachesParked
<1>4. \A i \in 1 .. Len(sender'.status) :
        /\ sender'.status[i] \in GoodReports
        /\ sender'.status[i].state # "IDLE" => sender'.status[i].session = sender.session
  BY <1>1, <1>2 DEF StatusIsOwn
<1>5. sender.session # 0 => sender'.acked <= high
  BY <1>1 DEF Update!HubBelievesTruth, Update!None
<1>6. QED
  BY <1>1, <1>3, <1>4, <1>5, SenderSteps

LEMMA UnparkStep == UpdateInv /\ Update!Unpark => UpdateInv'
<1> SUFFICES ASSUME UpdateInv, Update!Unpark
             PROVE  UpdateInv'
  OBVIOUS
<1>1. /\ sender \in Senders /\ SenderShape /\ StatusIsOwn /\ answers \in Seq(GoodReports)
      /\ chunks \in Seq(GoodFrames) /\ Update!HubBelievesTruth /\ sender.active
      /\ sender.pc = "parked" /\ sender.session = 0 /\ sender.acked = 0
  BY DEF UpdateInv, UpdateTypes, SenderShape, Update!Unpark
<1>2. sem' = FALSE /\ UNCHANGED <<image, receiver, high, installed, answers, chunks>>
  BY DEF Update!Unpark, Update!HubOnly, Update!FailSilently
<1>3. CASE Update!FailSilently(sender)
  BY <1>1, <1>2, <1>3, SessionFails DEF Update!FailSilently
<1>4. CASE sender' = [sender EXCEPT !.state = "RECEIVING", !.pc = "prepare"]
  <2>1. /\ sender' \in Senders /\ sender'.pc = "prepare" /\ sender'.active = sender.active
        /\ sender'.state = "RECEIVING" /\ sender'.started = sender.started
        /\ sender'.session = 0 /\ sender'.acked = 0 /\ sender'.status = sender.status
    BY <1>1, <1>4 DEF Senders
  <2>2. SenderShape' /\ Update!AbortReachesParked'
    BY <1>1, <2>1 DEF SenderShape, Stream, Update!AbortReachesParked
  <2>3. QED
    BY <1>1, <1>2, <2>1, <2>2, SenderSteps DEF StatusIsOwn
<1>5. QED
  BY <1>3, <1>4 DEF Update!Unpark

\* What the stream sends: the BEGIN of its own session, and chunks.
LEMMA SendSteps ==
  ASSUME UpdateInv, Update!SendBegin \/ Update!SendChunk
  PROVE  UpdateInv'
<1>1. /\ sender \in Senders /\ SenderShape /\ chunks \in Seq(GoodFrames) /\ sem \in BOOLEAN
      /\ image \in Nat /\ sender.sent + 1 \in Nat
  BY DEF UpdateInv, UpdateTypes, Senders
<1>2. /\ sender.pc \in Stream /\ sender.active /\ sender.session = sender.started /\ sender.started # 0
  BY <1>1 DEF Update!SendBegin, Update!SendChunk, SenderShape, Stream
<1>3. UNCHANGED <<image, receiver, high, installed, answers, sem>>
  BY DEF Update!SendBegin, Update!SendChunk, Update!HubOnly
<1>4. CASE Update!SendBegin
  <2>1. PICK copies \in 0 .. 1, again \in BOOLEAN :
          /\ Update!Arrives(Update!BeginFrame, copies)
          /\ sender' = [sender EXCEPT !.pc = IF again THEN "begin" ELSE "top"]
    BY <1>4 DEF Update!SendBegin
  <2>2. Update!BeginFrame \in GoodFrames
    BY <1>1, <1>2 DEF Update!BeginFrame, GoodFrames, NodeFrames, Begun, Senders
  <2>3. chunks' \in Seq(GoodFrames)
    BY <1>1, <2>1, <2>2, FrameArrives
  <2>4. /\ sender' \in Senders /\ sender'.pc \in Stream /\ sender'.active = sender.active
        /\ sender'.state = sender.state /\ sender'.started = sender.started
        /\ sender'.session = sender.session /\ sender'.acked = sender.acked
        /\ sender'.status = sender.status
    BY <1>1, <2>1 DEF Senders, Stream
  <2>5. QED
    BY <1>1, <1>2, <1>3, <2>3, <2>4, StreamGoesOn
<1>5. CASE Update!SendChunk
  <2>1. PICK copies \in 0 .. 1, acknowledged \in BOOLEAN :
          /\ Update!Arrives(Update!ChunkFrame, copies)
          /\ sender' = [sender EXCEPT !.pc = "top",
                                      !.sent = IF acknowledged THEN sender.sent + 1 ELSE sender.sent]
    BY <1>5 DEF Update!SendChunk
  <2>2. Update!ChunkFrame \in GoodFrames
    BY <1>1 DEF Update!ChunkFrame, GoodFrames, NodeFrames, Senders
  <2>3. chunks' \in Seq(GoodFrames)
    BY <1>1, <2>1, <2>2, FrameArrives
  <2>4. /\ sender' \in Senders /\ sender'.pc \in Stream /\ sender'.active = sender.active
        /\ sender'.state = sender.state /\ sender'.started = sender.started
        /\ sender'.session = sender.session /\ sender'.acked = sender.acked
        /\ sender'.status = sender.status
    BY <1>1, <2>1 DEF Senders, Stream
  <2>5. QED
    BY <1>1, <1>2, <1>3, <2>3, <2>4, StreamGoesOn
<1>6. QED
  BY <1>4, <1>5

\* The stream gives up, or waits.
LEMMA WaitSteps ==
  ASSUME UpdateInv,
         Update!TotalTimeout \/ Update!ReadError \/ Update!AwaitFinal \/ Update!Drain \/ Update!Rewind
  PROVE  UpdateInv'
<1>1. /\ sender \in Senders /\ SenderShape /\ chunks \in Seq(GoodFrames) /\ sem \in BOOLEAN
      /\ sender.polls + 1 \in Nat /\ sender.silent + 1 \in Nat
  BY DEF UpdateInv, UpdateTypes, Senders
<1>2. sender.pc \in Stream /\ sender.active /\ sender.session = sender.started
  BY <1>1 DEF Update!TotalTimeout, Update!ReadError, Update!AwaitFinal, Update!Drain, Update!Rewind,
              SenderShape, Stream
<1>3. UNCHANGED <<image, receiver, high, installed, answers, sem>>
  BY DEF Update!TotalTimeout, Update!ReadError, Update!AwaitFinal, Update!Drain, Update!Rewind,
         Update!HubOnly
<1>4. CASE Update!FailTelling(sender)
  BY <1>1, <1>2, <1>3, <1>4, AbortFrameArrives, SessionFails DEF Update!FailTelling
<1>5. CASE /\ UNCHANGED chunks
           /\ \/ sender' = [sender EXCEPT !.polls = sender.polls + 1, !.pc = "begin"]
              \/ \E n \in Nat : sender' = [sender EXCEPT !.silent = n, !.pc = "grace"]
              \/ \E n \in Nat : sender' = [sender EXCEPT !.pc = "top", !.sent = n]
  <2>1. /\ sender' \in Senders /\ sender'.pc \in Stream /\ sender'.active = sender.active
        /\ sender'.state = sender.state /\ sender'.started = sender.started
        /\ sender'.session = sender.session /\ sender'.acked = sender.acked
        /\ sender'.status = sender.status
    BY <1>1, <1>5 DEF Senders, Stream
  <2>2. QED
    BY <1>1, <1>2, <1>3, <1>5, <2>1, StreamGoesOn
<1>6. CASE Update!TotalTimeout \/ Update!ReadError
  BY <1>4, <1>6 DEF Update!TotalTimeout, Update!ReadError
<1>7. CASE Update!AwaitFinal
  BY <1>4, <1>5, <1>7 DEF Update!AwaitFinal
<1>8. CASE Update!Drain
  <2>1. CASE UNCHANGED chunks /\ sender' = [sender EXCEPT !.silent = IF sender.got THEN 0 ELSE sender.silent + 1,
                                                        !.pc = "grace"]
    BY <1>1, <1>5, <2>1
  <2>2. QED
    BY <1>4, <1>8, <2>1 DEF Update!Drain
<1>9. CASE Update!Rewind
  <2> DEFINE n == IF sender.status = <<>> /\ sender.acked < sender.sent THEN sender.acked ELSE sender.sent
  <2>1. n \in Nat
    BY <1>1 DEF Senders
  <2>2. UNCHANGED chunks /\ sender' = [sender EXCEPT !.pc = "top", !.sent = n]
    BY <1>9 DEF Update!Rewind
  <2> HIDE DEF n
  <2>3. QED
    BY <1>5, <2>1, <2>2
<1>10. QED
  BY <1>6, <1>7, <1>8, <1>9

\* The report that waits is read: DONE is of this session, and so of an image
\* its node installed.
LEMMA ReadStep == UpdateInv /\ Update!ReadStatus => UpdateInv'
<1> SUFFICES ASSUME UpdateInv, Update!ReadStatus
             PROVE  UpdateInv'
  OBVIOUS
<1>1. /\ sender \in Senders /\ SenderShape /\ chunks \in Seq(GoodFrames) /\ sem \in BOOLEAN
      /\ StatusIsOwn /\ answers \in Seq(GoodReports) /\ high \in Nat
  BY DEF UpdateInv, UpdateTypes
<1>2. sender.pc = "top" /\ sender.active /\ sender.session = sender.started
  BY <1>1 DEF Update!ReadStatus, SenderShape, Stream
<1>3. UNCHANGED <<image, receiver, high, installed, answers, sem>>
  BY DEF Update!ReadStatus, Update!HubOnly
<1> DEFINE read == [sender EXCEPT !.status = <<>>]
<1>4. CASE Update!FailTelling(sender) \/ Update!FailTelling(read) \/ Update!FailSilently(read)
  BY <1>1, <1>2, <1>3, <1>4, AbortFrameArrives, SessionFails DEF Update!FailTelling, Update!FailSilently
<1>5. CASE sender.status = <<>> /\ ~sender.abort
  <2>1. sender' = [sender EXCEPT !.got = FALSE, !.pc = "act"] /\ UNCHANGED chunks
    BY <1>5 DEF Update!ReadStatus
  <2>2. /\ sender' \in Senders /\ sender'.pc \in Stream /\ sender'.active = sender.active
        /\ sender'.state = sender.state /\ sender'.started = sender.started
        /\ sender'.session = sender.session /\ sender'.acked = sender.acked
        /\ sender'.status = sender.status
    BY <1>1, <2>1 DEF Senders, Stream
  <2>3. QED
    BY <1>1, <1>2, <1>3, <2>1, <2>2, StreamGoesOn
<1>6. CASE sender.status # <<>> /\ ~sender.abort
  <2> DEFINE st == sender.status[1]
  <2>1. /\ st \in GoodReports /\ st \in StatusFrames
        /\ st.state # "IDLE" => st.session = sender.session
    <3>1. 1 \in 1 .. Len(sender.status)
      BY <1>1, <1>6 DEF Senders
    <3>2. QED
      BY <1>1, <3>1 DEF StatusIsOwn, GoodReports
  <2>2. CASE st.state = "DONE"
    <3>1. sender' = Update!Finished(read, "DONE") /\ UNCHANGED chunks
      BY <1>6, <2>2 DEF Update!ReadStatus
    <3>2. sender.session \in installed
      BY <2>1, <2>2 DEF GoodReports
    <3>3. <<>> \in Seq(StatusFrames) /\ <<>> \in Seq(Nat) /\ Len(<<>>) = 0
      OBVIOUS
    <3>4. Total \in Nat
      BY SwarmPartsAssumption DEF SwarmPartsAssumption, Update!NodeOtaAssumption
    <3>5. read \in Senders /\ read.started = sender.started /\ read.session = sender.session
      BY <1>1, <3>3 DEF Senders
    <3>6. sender' = [read EXCEPT !.active = FALSE, !.state = "DONE", !.pc = "gone", !.abort = FALSE,
                              !.status = <<>>, !.got = FALSE, !.last = <<>>, !.stalls = 0,
                              !.silent = 0, !.polls = 0, !.sent = Total, !.acked = Total]
      BY <3>1 DEF Update!Finished
    <3> HIDE DEF read
    <3>7. /\ sender' \in Senders /\ sender'.pc = "gone" /\ sender'.active = FALSE
          /\ sender'.state = "DONE" /\ sender'.status = <<>>
          /\ sender'.started = sender.started /\ sender'.session = sender.session
      BY <3>3, <3>4, <3>5, <3>6 DEF Senders
    <3>8. SenderShape' /\ Update!AbortReachesParked'
      BY <1>1, <3>7 DEF SenderShape, Stream, Update!AbortReachesParked
    <3>9. QED
      BY <1>1, <1>3, <3>1, <3>2, <3>3, <3>7, <3>8, SenderSteps
  <2>3. CASE st.state \in {"FAILED", "IDLE"}
    BY <1>4, <1>6, <2>3 DEF Update!ReadStatus
  <2>4. CASE st.state = "RECEIVING"
    <3>1. \/ Update!FailTelling(read)
          \/ sender' = Update!Reconciled(st) /\ UNCHANGED chunks
      BY <1>6, <2>4 DEF Update!ReadStatus
    <3>2. CASE sender' = Update!Reconciled(st) /\ UNCHANGED chunks
      <4>1. st.next \in 0 .. high
        BY <1>1, <2>1, <2>4 DEF GoodReports, StatusFrames, Written
      <4>2. PICK stalls \in Nat, acknowledged \in {sender.acked, st.next}, sent \in Nat :
              sender' = [sender EXCEPT !.status = <<>>, !.got = TRUE, !.pc = "act",
                                      !.last = <<st.next>>, !.stalls = stalls,
                                      !.acked = acknowledged, !.sent = sent]
        <5> DEFINE stalls == IF sender.last = <<>> \/ st.next > sender.last[1] THEN 0 ELSE sender.stalls + 1
                   acknowledged == IF st.next > sender.acked THEN st.next ELSE sender.acked
                   sent == IF st.next < sender.sent THEN st.next ELSE sender.sent
        <5>1. stalls \in Nat /\ acknowledged \in {sender.acked, st.next} /\ sent \in Nat
          <6>1. sender.stalls \in Nat /\ sender.sent \in Nat /\ st.next \in Nat
            BY <1>1, <4>1 DEF Senders
          <6>2. stalls \in Nat
            <7>1. stalls \in {0, sender.stalls + 1}
              BY Zenon
            <7>2. QED
              BY <6>1, <7>1
          <6>3. acknowledged \in {sender.acked, st.next}
            BY Zenon
          <6>4. sent \in {st.next, sender.sent}
            BY Zenon
          <6>5. QED
            BY <6>1, <6>2, <6>3, <6>4
        <5>2. sender' = [sender EXCEPT !.status = <<>>, !.got = TRUE, !.pc = "act",
                                      !.last = <<st.next>>, !.stalls = stalls,
                                      !.acked = acknowledged, !.sent = sent]
          BY <3>2 DEF Update!Reconciled
        <5> HIDE DEF stalls, acknowledged, sent
        <5>3. QED
          BY <5>1, <5>2, Zenon
      <4>3. <<>> \in Seq(StatusFrames) /\ st.next \in Nat /\ <<st.next>> \in Seq(Nat) /\ acknowledged \in Nat
        <5>1. <<>> \in Seq(StatusFrames)
          OBVIOUS
        <5>2. st.next \in Nat
          BY <1>1, <4>1
        <5>3. <<st.next>> \in Seq(Nat)
          BY <5>2
        <5>4. acknowledged \in Nat
          <6>1. sender.acked \in Nat
            BY <1>1 DEF Senders
          <6>2. QED
            BY <4>2, <5>2, <6>1, Zenon
        <5>5. QED
          BY <5>1, <5>2, <5>3, <5>4
      <4>4. /\ sender' \in Senders /\ sender'.pc \in Stream /\ sender'.active = sender.active
            /\ sender'.state = sender.state /\ sender'.started = sender.started
            /\ sender'.session = sender.session /\ sender'.acked = acknowledged
            /\ sender'.status = <<>>
        BY <1>1, <4>2, <4>3 DEF Senders, Stream
      <4>5. QED
        BY <1>1, <1>2, <1>3, <3>2, <4>1, <4>2, <4>4, StreamGoesOn
    <3>3. QED
      BY <1>4, <3>1, <3>2
  <2>5. QED
    BY <2>1, <2>2, <2>3, <2>4 DEF StatusFrames
<1>7. QED
  BY <1>4, <1>5, <1>6 DEF Update!ReadStatus

\* A step of the node that only takes a frame and tells something.
LEMMA NodeTalks ==
  ASSUME UpdateInv, UNCHANGED <<sender, gives, sem, image, receiver, high, installed>>,
         chunks' \in Seq(GoodFrames), answers' \in Seq(GoodReports)
  PROVE  UpdateInv'
<1>1. /\ sender \in Senders /\ SenderShape /\ sem \in BOOLEAN /\ StatusIsOwn
      /\ Update!HubBelievesTruth /\ Update!AbortReachesParked
  BY DEF UpdateInv, UpdateTypes
<1>2. SenderShape' /\ Update!AbortReachesParked'
  BY <1>1 DEF SenderShape, Update!AbortReachesParked
<1>3. QED
  BY <1>1, <1>2, SenderSteps DEF StatusIsOwn, Update!HubBelievesTruth, Update!None

\* What any other step of the node must show.
LEMMA ReceiverSteps ==
  ASSUME UpdateInv, UNCHANGED <<sender, gives, sem, image>>, receiver' \in Receivers,
         high' \in Nat, high <= high', installed \subseteq installed',
         chunks' \in Seq(GoodFrames), answers' \in Seq(GoodReports) \/ answers' \in Seq(GoodReports'),
         ReceiverShape', Selection'
  PROVE  UpdateInv'
<1>1. /\ sender \in Senders /\ SenderShape /\ sem \in BOOLEAN /\ StatusIsOwn /\ image \in Nat
      /\ Update!HubBelievesTruth /\ Update!AbortReachesParked /\ high \in Nat
  BY DEF UpdateInv, UpdateTypes
<1>2. GoodFrames \subseteq GoodFrames' /\ GoodReports \subseteq GoodReports'
  BY SameSession, StaysGood
<1>3. chunks' \in Seq(GoodFrames)' /\ answers' \in Seq(GoodReports)'
  BY <1>2, SeqGrows
<1>4. UpdateTypes' /\ SenderShape'
  BY <1>1 DEF UpdateTypes, SenderShape
<1>5. StatusIsOwn'
  BY <1>1, <1>2 DEF StatusIsOwn
<1>6. Update!HubBelievesTruth' /\ Update!AbortReachesParked'
  BY <1>1 DEF Update!HubBelievesTruth, Update!AbortReachesParked, Update!None, Senders
<1>7. QED
  BY <1>3, <1>4, <1>5, <1>6 DEF UpdateInv

LEMMA FrameTaken ==
  ASSUME UpdateInv, NEW type, Update!Receives(type), chunks' = Tail(chunks)
  PROVE  /\ chunks' \in Seq(GoodFrames) /\ receiver.recv.stage = "idle"
         /\ type = "BEGIN" => Head(chunks).session \in Nat /\ Head(chunks).image \in Nat
                              /\ Begun(Head(chunks).session)
         /\ type = "CHUNK" => Head(chunks).image \in Nat
<1>1. chunks \in Seq(GoodFrames) /\ chunks # <<>> /\ Head(chunks).type = type /\ receiver.recv.stage = "idle"
  BY DEF UpdateInv, Update!Receives
<1>2. Head(chunks) \in GoodFrames /\ Tail(chunks) \in Seq(GoodFrames)
  BY <1>1, SeqTakes
<1>3. QED
  BY <1>1, <1>2 DEF GoodFrames, NodeFrames

\* The node reports how far its own session is.
LEMMA ProgressTold ==
  ASSUME UpdateInv, receiver.recv.active, Update!Progress(receiver.recv)
  PROVE  answers' \in Seq(GoodReports)
<1> DEFINE st == [session |-> receiver.recv.session, state |-> "RECEIVING", next |-> receiver.recv.next]
<1>1. st \in GoodReports
  BY DEF UpdateInv, UpdateTypes, Receivers, Receptions, ReceiverShape, GoodReports, StatusFrames
<1> HIDE DEF st
<1>2. Update!Reports(receiver.recv.session, "RECEIVING", receiver.recv.next)
  BY DEF Update!Progress
<1>3. QED
  BY <1>1, <1>2, StatusReported DEF UpdateInv, st

\* Failure of a session that was begun.
LEMMA FailureTold ==
  ASSUME UpdateInv, NEW id \in Nat, Begun(id), NEW next \in Nat, Update!Reports(id, "FAILED", next)
  PROVE  answers' \in Seq(GoodReports)
<1> DEFINE st == [session |-> id, state |-> "FAILED", next |-> next]
<1>1. st \in GoodReports
  BY DEF GoodReports, StatusFrames
<1> HIDE DEF st
<1>2. QED
  BY <1>1, StatusReported DEF UpdateInv, st

\* DONE is told of a session whose image was selected.
LEMMA DoneTold ==
  ASSUME UpdateInv, NEW id \in Nat, Begun(id), id \in installed, NEW next \in Nat,
         Update!Reports(id, "DONE", next)
  PROVE  answers' \in Seq(GoodReports)
<1> DEFINE st == [session |-> id, state |-> "DONE", next |-> next]
<1>1. st \in GoodReports
  BY DEF GoodReports, StatusFrames
<1> HIDE DEF st
<1>2. QED
  BY <1>1, StatusReported DEF UpdateInv, st

\* The session is dropped; nothing was selected.
LEMMA ReceptionDropped ==
  ASSUME UpdateInv, UNCHANGED <<sender, gives, sem, image, high, installed>>,
         receiver.recv.stage \in {"idle", "end"}, receiver' = Update!Dropped,
         chunks' \in Seq(GoodFrames), answers' \in Seq(GoodReports)
  PROVE  UpdateInv'
<1>1. receiver \in Receivers /\ ReceiverShape /\ Selection /\ high \in Nat
  BY DEF UpdateInv, UpdateTypes
<1>2. ~receiver.selected
  BY <1>1 DEF Selection
<1>3. Update!NoRecv \in Receptions /\ Update!Blank \in Image
  BY DEF Update!NoRecv, Update!Blank, Update!None, Receptions, Image
<1>4. /\ receiver' \in Receivers /\ receiver'.recv = Update!NoRecv /\ receiver'.selected = FALSE
      /\ receiver'.runs = receiver.runs /\ receiver'.previous = receiver.previous
      /\ receiver'.marker = receiver.marker
  BY <1>1, <1>2, <1>3 DEF Update!Dropped, Receivers
<1>5. ReceiverShape'
  BY <1>1, <1>4 DEF ReceiverShape, Update!NoRecv, Update!None, Begun
<1>6. Selection'
  BY <1>1, <1>2, <1>4 DEF Selection, Update!NeverBootsMixed
<1>7. QED
  BY <1>1, <1>4, <1>5, <1>6, ReceiverSteps

\* handle_begin(), handle_chunk() and the timers, where they only answer.
LEMMA AnswerSteps ==
  ASSUME UpdateInv,
         \/ Update!BeginRetransmitted \/ Update!BeginRefused \/ Update!BeginAlreadyDone
         \/ Update!BeginFails \/ Update!ChunkUnexpected \/ Update!ChunkOutOfOrder
         \/ Update!Heartbeat \/ Update!TellDone
  PROVE  UpdateInv'
<1>1. UNCHANGED <<sender, gives, sem, image, receiver, high, installed>>
  BY DEF Update!BeginRetransmitted, Update!BeginRefused, Update!BeginAlreadyDone, Update!BeginFails,
         Update!ChunkUnexpected, Update!ChunkOutOfOrder, Update!Heartbeat, Update!TellDone, Update!NodeOnly
<1>2. /\ chunks \in Seq(GoodFrames) /\ answers \in Seq(GoodReports) /\ ReceiverShape
      /\ receiver.recv.session \in Nat /\ receiver.recv.next \in Nat /\ receiver.marker \in Nat
      /\ Total \in Nat
  BY SwarmPartsAssumption
     DEF UpdateInv, UpdateTypes, Receivers, Receptions, SwarmPartsAssumption, Update!NodeOtaAssumption
<1>3. CASE Update!BeginRetransmitted
  <2>1. chunks' \in Seq(GoodFrames)
    BY <1>3, FrameTaken DEF Update!BeginRetransmitted
  <2>2. answers' \in Seq(GoodReports)
    BY <1>3, ProgressTold DEF Update!BeginRetransmitted, Update!Retransmit
  <2>3. QED
    BY <1>1, <2>1, <2>2, NodeTalks
<1>4. CASE Update!BeginRefused \/ Update!BeginFails
  <2>1. /\ Update!Receives("BEGIN") /\ chunks' = Tail(chunks)
        /\ Update!Reports(Head(chunks).session, "FAILED", 0)
    BY <1>4 DEF Update!BeginRefused, Update!BeginFails
  <2>2. /\ chunks' \in Seq(GoodFrames) /\ Head(chunks).session \in Nat /\ Begun(Head(chunks).session)
    BY <2>1, FrameTaken
  <2>3. answers' \in Seq(GoodReports)
    BY <2>1, <2>2, FailureTold
  <2>4. QED
    BY <1>1, <2>2, <2>3, NodeTalks
<1>5. CASE Update!BeginAlreadyDone
  <2>1. /\ Update!Receives("BEGIN") /\ chunks' = Tail(chunks) /\ Head(chunks).session = receiver.marker
        /\ Update!Reports(receiver.marker, "DONE", Total)
    BY <1>5 DEF Update!BeginAlreadyDone
  <2>2. chunks' \in Seq(GoodFrames) /\ Begun(receiver.marker)
    BY <2>1, FrameTaken
  <2>3. receiver.marker # 0
    BY <2>2 DEF Begun
  <2>4. answers' \in Seq(GoodReports)
    BY <1>2, <2>1, <2>2, <2>3, DoneTold DEF ReceiverShape
  <2>5. QED
    BY <1>1, <2>2, <2>4, NodeTalks
<1>6. CASE Update!ChunkUnexpected
  <2>1. Update!Receives("CHUNK") /\ chunks' = Tail(chunks)
    BY <1>6 DEF Update!ChunkUnexpected
  <2>2. chunks' \in Seq(GoodFrames)
    BY <2>1, FrameTaken
  <2>3. \/ receiver.marker = 0 /\ Update!Reports(0, "IDLE", 0)
        \/ receiver.marker # 0 /\ Update!Reports(receiver.marker, "DONE", Total)
        \/ UNCHANGED answers
    BY <1>6 DEF Update!ChunkUnexpected, Update!None
  <2>4. [session |-> 0, state |-> "IDLE", next |-> 0] \in GoodReports
    BY DEF GoodReports, StatusFrames
  <2>5. answers' \in Seq(GoodReports)
    BY <1>2, <2>3, <2>4, StatusReported, DoneTold DEF ReceiverShape
  <2>6. QED
    BY <1>1, <2>2, <2>5, NodeTalks
<1>7. CASE Update!ChunkOutOfOrder
  <2>1. /\ Update!Receives("CHUNK") /\ chunks' = Tail(chunks) /\ receiver.recv.active
        /\ Update!Progress(receiver.recv) \/ UNCHANGED answers
    BY <1>7 DEF Update!ChunkOutOfOrder
  <2>2. chunks' \in Seq(GoodFrames)
    BY <2>1, FrameTaken
  <2>3. answers' \in Seq(GoodReports)
    BY <1>2, <2>1, ProgressTold
  <2>4. QED
    BY <1>1, <2>2, <2>3, NodeTalks
<1>8. CASE Update!Heartbeat
  <2>1. receiver.recv.active /\ Update!Progress(receiver.recv) /\ chunks' = chunks
    BY <1>8 DEF Update!Heartbeat
  <2>2. QED
    BY <1>1, <1>2, <2>1, ProgressTold, NodeTalks
<1>9. CASE Update!TellDone
  <2>1. /\ receiver.recv.stage = "tell" /\ chunks' = chunks
        /\ Update!Reports(receiver.recv.session, "DONE", receiver.recv.next)
    BY <1>9 DEF Update!TellDone
  <2>2. Begun(receiver.recv.session) /\ receiver.recv.session \in installed
    BY <1>2, <2>1 DEF ReceiverShape
  <2>3. QED
    BY <1>1, <1>2, <2>1, <2>2, DoneTold, NodeTalks
<1>10. QED
  BY <1>3, <1>4, <1>5, <1>6, <1>7, <1>8, <1>9

LEMMA BeginStep == UpdateInv /\ Update!Begin => UpdateInv'
<1> SUFFICES ASSUME UpdateInv, Update!Begin
             PROVE  UpdateInv'
  OBVIOUS
<1> DEFINE b == Head(chunks)
           r == [active |-> TRUE, session |-> b.session, expected |-> b.image, next |-> 0, stage |-> "idle"]
<1>1. /\ Update!Receives("BEGIN") /\ chunks' = Tail(chunks) /\ ~receiver.recv.active
      /\ receiver' = [receiver EXCEPT !.recv = r, !.part = Update!Blank, !.marker = 0]
      /\ Update!Reports(r.session, "RECEIVING", r.next)
      /\ UNCHANGED <<sender, gives, sem, image, high, installed>>
  BY DEF Update!Begin, Update!None, Update!Progress, Update!NodeOnly
<1>2. /\ chunks' \in Seq(GoodFrames) /\ b.session \in Nat /\ b.image \in Nat /\ Begun(b.session)
      /\ receiver.recv.stage = "idle"
  BY <1>1, FrameTaken
<1>3. /\ receiver \in Receivers /\ Selection /\ answers \in Seq(GoodReports) /\ high \in Nat
      /\ ~receiver.selected
  BY <1>2 DEF UpdateInv, UpdateTypes, Selection
<1>4. /\ r \in Receptions /\ r.active = TRUE /\ r.session = b.session /\ r.next = 0 /\ r.stage = "idle"
      /\ Update!Blank \in Image
  BY <1>2 DEF Receptions, Update!Blank, Update!None, Image
<1>5. [session |-> r.session, state |-> "RECEIVING", next |-> r.next] \in GoodReports
  BY <1>2, <1>3, <1>4 DEF GoodReports, StatusFrames, Written
<1> HIDE DEF r, b
<1>6. answers' \in Seq(GoodReports)
  BY <1>1, <1>3, <1>5, StatusReported
<1>7. /\ receiver' \in Receivers /\ receiver'.recv = r /\ receiver'.marker = 0
      /\ receiver'.selected = FALSE
      /\ receiver'.runs = receiver.runs /\ receiver'.previous = receiver.previous
  BY <1>1, <1>3, <1>4 DEF Receivers
<1>8. ReceiverShape'
  BY <1>1, <1>2, <1>3, <1>4, <1>7 DEF ReceiverShape, Begun, Written
<1>9. Selection'
  BY <1>3, <1>7 DEF Selection, Update!NeverBootsMixed
<1>10. QED
  BY <1>1, <1>2, <1>3, <1>6, <1>7, <1>8, <1>9, ReceiverSteps

LEMMA DropSteps ==
  ASSUME UpdateInv, Update!HandleAbort \/ Update!IdleTimeout
  PROVE  UpdateInv'
<1>1. chunks \in Seq(GoodFrames) /\ answers \in Seq(GoodReports)
  BY DEF UpdateInv
<1>2. UNCHANGED <<sender, gives, sem, image, answers, high, installed>>
  BY DEF Update!HandleAbort, Update!IdleTimeout, Update!NodeOnly
<1>3. CASE Update!HandleAbort
  <2>1. Update!Receives("ABORT") /\ chunks' = Tail(chunks) /\ receiver' \in {Update!Dropped, receiver}
    BY <1>3 DEF Update!HandleAbort
  <2>2. chunks' \in Seq(GoodFrames) /\ receiver.recv.stage = "idle"
    BY <2>1, FrameTaken
  <2>3. QED
    BY <1>1, <1>2, <2>1, <2>2, ReceptionDropped, NodeTalks
<1>4. CASE Update!IdleTimeout
  <2>1. receiver.recv.stage = "idle" /\ chunks' = chunks /\ receiver' = Update!Dropped
    BY <1>4 DEF Update!IdleTimeout
  <2>2. QED
    BY <1>1, <1>2, <2>1, ReceptionDropped
<1>5. QED
  BY <1>3, <1>4

LEMMA ChunkStep == UpdateInv /\ Update!ChunkDue => UpdateInv'
<1> SUFFICES ASSUME UpdateInv, Update!ChunkDue
             PROVE  UpdateInv'
  OBVIOUS
<1> DEFINE next == receiver.recv.next + 1
           r == [receiver.recv EXCEPT !.next = next, !.stage = IF next = Total THEN "end" ELSE "idle"]
<1>1. /\ Update!Receives("CHUNK") /\ chunks' = Tail(chunks) /\ receiver.recv.active
      /\ UNCHANGED <<sender, gives, sem, image, installed>>
  BY DEF Update!ChunkDue, Update!NodeOnly
<1>2. chunks' \in Seq(GoodFrames) /\ receiver.recv.stage = "idle" /\ Head(chunks).image \in Nat
  BY <1>1, FrameTaken
<1>3. /\ receiver \in Receivers /\ Selection /\ ReceiverShape /\ answers \in Seq(GoodReports)
      /\ high \in Nat /\ receiver.recv \in Receptions
  BY DEF UpdateInv, UpdateTypes, Receivers
<1>4. /\ receiver.recv.next \in Nat /\ next \in Nat /\ receiver.recv.session \in Nat
      /\ Begun(receiver.recv.session) /\ ~receiver.selected
  BY <1>1, <1>2, <1>3 DEF Receptions, ReceiverShape, Selection
<1>5. /\ r \in Receptions /\ r.active = TRUE /\ r.session = receiver.recv.session /\ r.next = next
      /\ r.stage \in {"idle", "end"}
  BY <1>1, <1>3, <1>4 DEF Receptions
<1>6. CASE /\ receiver' = Update!Dropped
           /\ Update!Reports(r.session, "FAILED", receiver.recv.next) /\ UNCHANGED high
  <2>1. answers' \in Seq(GoodReports)
    BY <1>4, <1>5, <1>6, FailureTold
  <2>2. QED
    BY <1>1, <1>2, <1>6, <2>1, ReceptionDropped
<1>7. CASE /\ receiver' = [receiver EXCEPT !.recv = r, !.part[next] = Head(chunks).image]
           /\ high' = IF r.session = sender.session /\ next > high THEN next ELSE high
           /\ Update!Progress(r) \/ UNCHANGED answers
  <2> DEFINE part == [receiver.part EXCEPT ![next] = Head(chunks).image]
  <2>1. part \in Image
    BY <1>2, <1>3 DEF Receivers, Image
  <2>2. receiver' = [receiver EXCEPT !.recv = r, !.part = part]
    BY <1>7
  <2> HIDE DEF r, part
  <2>3. /\ receiver' \in Receivers /\ receiver'.recv = r /\ receiver'.selected = FALSE
        /\ receiver'.runs = receiver.runs /\ receiver'.previous = receiver.previous
        /\ receiver'.marker = receiver.marker
    BY <1>3, <1>4, <1>5, <2>1, <2>2 DEF Receivers
  <2> HIDE DEF next
  <2>4. high' \in Nat /\ high <= high' /\ (r.session = sender.session => next <= high')
    BY <1>3, <1>4, <1>7
  <2>5. /\ \A id : Begun(id) => Begun(id)'
        /\ GoodReports \subseteq GoodReports'
    BY <1>1, <2>4, SameSession, StaysGood
  <2>6. answers' \in Seq(GoodReports')
    <3>1. [session |-> r.session, state |-> "RECEIVING", next |-> r.next] \in GoodReports'
      BY <1>1, <1>4, <1>5, <2>4, <2>5 DEF GoodReports, StatusFrames, Written
    <3>2. answers \in Seq(GoodReports')
      BY <1>3, <2>5, SeqGrows
    <3>3. UNCHANGED answers \/ Update!Reports(r.session, "RECEIVING", r.next)
      BY <1>7 DEF Update!Progress
    <3>4. QED
      BY <3>1, <3>2, <3>3, StatusReported
  <2>7. ReceiverShape'
    BY <1>1, <1>3, <1>4, <1>5, <2>3, <2>4, <2>5 DEF ReceiverShape, Written
  <2>8. Selection'
    BY <1>3, <1>4, <2>3 DEF Selection, Update!NeverBootsMixed
  <2>9. QED
    BY <1>1, <1>2, <1>3, <2>3, <2>4, <2>6, <2>7, <2>8, ReceiverSteps
<1>8. QED
  BY <1>6, <1>7 DEF Update!ChunkDue

\* finalize_session(): what is selected was compared, end to end, with one image.
LEMMA FinalizeStep == UpdateInv /\ Update!Finalize => UpdateInv'
<1> SUFFICES ASSUME UpdateInv, Update!Finalize
             PROVE  UpdateInv'
  OBVIOUS
<1>1. /\ receiver \in Receivers /\ Selection /\ ReceiverShape /\ answers \in Seq(GoodReports)
      /\ chunks \in Seq(GoodFrames) /\ high \in Nat /\ receiver.recv \in Receptions
  BY DEF UpdateInv, UpdateTypes, Receivers
<1>2. /\ receiver.recv.stage = "end" /\ UNCHANGED <<sender, gives, sem, image, chunks, high>>
      /\ receiver.recv.active /\ Begun(receiver.recv.session)
      /\ receiver.recv.session \in Nat /\ receiver.recv.next \in Nat
  BY <1>1 DEF Update!Finalize, Update!NodeOnly, ReceiverShape, Receptions
<1>3. CASE /\ receiver' = Update!Dropped
           /\ Update!Reports(receiver.recv.session, "FAILED", receiver.recv.next)
           /\ UNCHANGED installed
  <2>1. answers' \in Seq(GoodReports)
    BY <1>2, <1>3, FailureTold
  <2>2. QED
    BY <1>1, <1>2, <1>3, <2>1, ReceptionDropped
<1>4. CASE /\ Update!DigestMatches
           /\ receiver' = [receiver EXCEPT !.selected = TRUE, !.recv.stage = "mark"]
           /\ installed' = installed \cup {receiver.recv.session}
           /\ UNCHANGED answers
  <2> DEFINE r == [receiver.recv EXCEPT !.stage = "mark"]
  <2>1. /\ r \in Receptions /\ r.active = TRUE /\ r.session = receiver.recv.session
        /\ r.next = receiver.recv.next /\ r.stage = "mark"
    BY <1>1, <1>2 DEF Receptions
  <2>2. receiver' = [receiver EXCEPT !.selected = TRUE, !.recv = r]
    BY <1>4
  <2> HIDE DEF r
  <2>3. /\ receiver' \in Receivers /\ receiver'.recv = r /\ receiver'.selected = TRUE
        /\ receiver'.runs = receiver.runs /\ receiver'.previous = receiver.previous
        /\ receiver'.marker = receiver.marker /\ receiver'.part = receiver.part
    BY <1>1, <2>1, <2>2 DEF Receivers
  <2>4. \A id : Begun(id) => Begun(id)'
    BY <1>2 DEF Begun
  <2>5. ReceiverShape'
    BY <1>1, <1>2, <1>4, <2>1, <2>3, <2>4 DEF ReceiverShape, Written
  <2>6. \A i, j \in 1 .. Total : receiver.part[i] = receiver.part[j]
    BY <1>4 DEF Update!DigestMatches, Update!Whole
  <2>7. Selection'
    BY <1>1, <2>1, <2>3, <2>6 DEF Selection, Update!NeverBootsMixed
  <2>8. QED
    BY <1>1, <1>2, <1>4, <2>3, <2>5, <2>7, ReceiverSteps
<1>5. QED
  BY <1>3, <1>4 DEF Update!Finalize

LEMMA MarkStep == UpdateInv /\ Update!Mark => UpdateInv'
<1> SUFFICES ASSUME UpdateInv, Update!Mark
             PROVE  UpdateInv'
  OBVIOUS
<1>1. /\ receiver \in Receivers /\ Selection /\ ReceiverShape /\ answers \in Seq(GoodReports)
      /\ chunks \in Seq(GoodFrames) /\ high \in Nat /\ receiver.recv \in Receptions
  BY DEF UpdateInv, UpdateTypes, Receivers
<1>2. /\ receiver.recv.stage = "mark"
      /\ UNCHANGED <<sender, gives, sem, image, chunks, answers, high, installed>>
      /\ Begun(receiver.recv.session) /\ receiver.recv.session \in installed
      /\ receiver.recv.session \in Nat /\ receiver.marker \in Nat
  BY <1>1 DEF Update!Mark, Update!NodeOnly, ReceiverShape, Receptions, Receivers
<1> DEFINE r == [receiver.recv EXCEPT !.active = FALSE, !.stage = "tell"]
<1>3. /\ r \in Receptions /\ r.active = FALSE /\ r.session = receiver.recv.session /\ r.stage = "tell"
  BY <1>1 DEF Receptions
<1>4. PICK marker \in {receiver.recv.session, receiver.marker} :
        receiver' = [receiver EXCEPT !.recv = r, !.marker = marker]
  BY DEF Update!Mark
<1> HIDE DEF r
<1>5. /\ receiver' \in Receivers /\ receiver'.recv = r /\ receiver'.selected = receiver.selected
      /\ receiver'.runs = receiver.runs /\ receiver'.previous = receiver.previous
      /\ receiver'.marker = marker /\ receiver'.part = receiver.part
  BY <1>1, <1>2, <1>3, <1>4 DEF Receivers
<1>6. \A id : Begun(id) => Begun(id)'
  BY <1>2 DEF Begun
<1>7. ReceiverShape'
  BY <1>1, <1>2, <1>3, <1>5, <1>6 DEF ReceiverShape
<1>8. Selection'
  BY <1>1, <1>3, <1>5 DEF Selection, Update!NeverBootsMixed
<1>9. QED
  BY <1>1, <1>2, <1>5, <1>7, <1>8, ReceiverSteps

\* A restart boots what was selected, or falls back to a whole image.
LEMMA BootSteps ==
  ASSUME UpdateInv, Update!NodeRestart \/ Update!NodeCrash \/ Update!Confirm
  PROVE  UpdateInv'
<1>1. /\ receiver \in Receivers /\ Selection /\ ReceiverShape /\ answers \in Seq(GoodReports)
      /\ chunks \in Seq(GoodFrames) /\ high \in Nat
  BY DEF UpdateInv, UpdateTypes
<1>2. UNCHANGED <<sender, gives, sem, image, answers, high, installed>>
  BY DEF Update!NodeRestart, Update!NodeCrash, Update!Confirm, Update!NodeOnly
<1>3. \A id : Begun(id) => Begun(id)'
  BY <1>2 DEF Begun
<1>4. CASE Update!NodeRestart \/ Update!NodeCrash
  <2> DEFINE next == IF receiver.selected THEN receiver.part
                     ELSE IF receiver.pending THEN receiver.previous ELSE receiver.runs
             previous == IF receiver.selected THEN receiver.runs ELSE next
  <2>1. /\ next \in Image /\ previous \in Image
        /\ \A i, j \in 1 .. Total : next[i] = next[j] /\ previous[i] = previous[j]
    BY <1>1 DEF Receivers, Selection, Update!NeverBootsMixed
  <2>2. Update!NoRecv \in Receptions /\ Update!Blank \in Image /\ receiver.selected \in BOOLEAN
    BY <1>1 DEF Update!NoRecv, Update!Blank, Update!None, Receptions, Image, Receivers
  <2>3. receiver' = [receiver EXCEPT !.recv = Update!NoRecv, !.part = Update!Blank, !.selected = FALSE,
                                    !.runs = next, !.previous = previous, !.pending = receiver.selected]
        /\ chunks' = <<>>
    BY <1>4 DEF Update!NodeRestart, Update!NodeCrash, Update!Booted
  <2> HIDE DEF next, previous
  <2>4. /\ receiver' \in Receivers /\ receiver'.recv = Update!NoRecv /\ receiver'.selected = FALSE
        /\ receiver'.runs = next /\ receiver'.previous = previous
        /\ receiver'.marker = receiver.marker
    BY <1>1, <2>1, <2>2, <2>3 DEF Receivers
  <2>5. ReceiverShape'
    BY <1>1, <1>2, <1>3, <2>4 DEF ReceiverShape, Update!NoRecv
  <2>6. Selection'
    BY <2>1, <2>4 DEF Selection, Update!NeverBootsMixed
  <2>7. chunks' \in Seq(GoodFrames)
    BY <2>3
  <2>8. QED
    BY <1>1, <1>2, <2>4, <2>5, <2>6, <2>7, ReceiverSteps
<1>5. CASE Update!Confirm
  <2>1. receiver' = [receiver EXCEPT !.pending = FALSE, !.previous = receiver.runs] /\ chunks' = chunks
    BY <1>5 DEF Update!Confirm
  <2>2. /\ receiver' \in Receivers /\ receiver'.recv = receiver.recv
        /\ receiver'.selected = receiver.selected /\ receiver'.part = receiver.part
        /\ receiver'.runs = receiver.runs /\ receiver'.previous = receiver.runs
        /\ receiver'.marker = receiver.marker
    BY <1>1, <2>1 DEF Receivers
  <2>3. ReceiverShape'
    BY <1>1, <1>2, <1>3, <2>2 DEF ReceiverShape, Written
  <2>4. Selection'
    BY <1>1, <2>2 DEF Selection, Update!NeverBootsMixed
  <2>5. QED
    BY <1>1, <1>2, <2>1, <2>2, <2>3, <2>4, ReceiverSteps
<1>6. QED
  BY <1>4, <1>5

LEMMA UpdateStarts == Update!Init => UpdateInv
<1> SUFFICES ASSUME Update!Init
             PROVE  UpdateInv
  OBVIOUS
<1>1. /\ <<>> \in Seq(StatusFrames) /\ <<>> \in Seq(Nat) /\ Len(<<>>) = 0
      /\ <<>> \in Seq(GoodFrames) /\ <<>> \in Seq(GoodReports)
  OBVIOUS
<1>2. /\ sender \in Senders /\ sender.active = FALSE /\ sender.pc = "gone" /\ sender.session = 0
      /\ sender.state = "NONE" /\ sender.status = <<>>
  BY <1>1 DEF Update!Init, Update!NoSession, Update!NewSession, Update!None, Senders
<1>3. /\ Update!NoRecv \in Receptions /\ Update!Blank \in Image /\ Update!Whole(0) \in Image
      /\ \A i, j \in 1 .. Total : Update!Whole(0)[i] = Update!Whole(0)[j]
  BY DEF Update!NoRecv, Update!Blank, Update!Whole, Update!None, Receptions, Image
<1>4. /\ receiver \in Receivers /\ receiver.recv = Update!NoRecv /\ receiver.selected = FALSE
      /\ receiver.marker = 0 /\ receiver.runs = Update!Whole(0) /\ receiver.previous = Update!Whole(0)
  BY <1>3 DEF Update!Init, Update!None, Receivers
<1>5. UpdateTypes /\ chunks \in Seq(GoodFrames) /\ answers \in Seq(GoodReports)
  BY <1>1, <1>2, <1>4 DEF Update!Init, UpdateTypes
<1>6. SenderShape /\ StatusIsOwn /\ Update!HubBelievesTruth /\ Update!AbortReachesParked
  BY <1>1, <1>2 DEF SenderShape, Stream, StatusIsOwn, Update!HubBelievesTruth, Update!AbortReachesParked,
                    Update!None
<1>7. ReceiverShape /\ Selection
  BY <1>3, <1>4 DEF ReceiverShape, Selection, Update!NeverBootsMixed, Update!NoRecv
<1>8. QED
  BY <1>5, <1>6, <1>7 DEF UpdateInv

LEMMA UpdateStep ==
  ASSUME UpdateInv, [Update!Next]_updateVars
  PROVE  UpdateInv'
<1>1. CASE Update!Start \/ Update!Prepare \/ Update!HubRestart
  BY <1>1, StartStep, PrepareStep, HubRestartStep
<1>2. CASE Update!Abort \/ Update!CheckinSeen \/ Update!Give \/ Update!HandleStatus
  BY <1>2, CallerSteps
<1>3. CASE Update!Unpark \/ Update!ReadStatus
  BY <1>3, UnparkStep, ReadStep
<1>4. CASE Update!SendBegin \/ Update!SendChunk
  BY <1>4, SendSteps
<1>5. CASE Update!TotalTimeout \/ Update!ReadError \/ Update!AwaitFinal \/ Update!Drain \/ Update!Rewind
  BY <1>5, WaitSteps
<1>6. CASE \/ Update!BeginRetransmitted \/ Update!BeginRefused \/ Update!BeginAlreadyDone
           \/ Update!BeginFails \/ Update!ChunkUnexpected \/ Update!ChunkOutOfOrder
           \/ Update!Heartbeat \/ Update!TellDone
  BY <1>6, AnswerSteps
<1>7. CASE Update!Begin \/ Update!ChunkDue \/ Update!Finalize \/ Update!Mark
  BY <1>7, BeginStep, ChunkStep, FinalizeStep, MarkStep
<1>8. CASE Update!HandleAbort \/ Update!IdleTimeout
  BY <1>8, DropSteps
<1>9. CASE Update!NodeRestart \/ Update!NodeCrash \/ Update!Confirm
  BY <1>9, BootSteps
<1>10. CASE UNCHANGED updateVars
  BY <1>10, NodeTalks DEF updateVars, UpdateInv
<1>11. QED
  BY <1>1, <1>2, <1>3, <1>4, <1>5, <1>6, <1>7, <1>8, <1>9, <1>10
     DEF Update!Next, Update!HubStep, Update!NodeStep

-----------------------------------------------------------------------------
(* Forward: how far behind the clock the age of a reading may be *)

LEMMA Seconds ==
  /\ Second \in Nat \ {0} /\ SendTicks \in Nat /\ AgeLimit \in Nat \ {0} /\ MaxAge \in Nat
  /\ MaxAge < AgeLimit /\ CntMod \in Nat \ {0} /\ FailLimit \in Nat \ {0}
  /\ Readings!Cut \in Nat /\ Readings!Cut + 1 = Second
  BY SwarmPartsAssumption DEF SwarmPartsAssumption, Readings!ForwardAssumption, Readings!Cut

LEMMA Times ==
  ASSUME NEW m \in Int, NEW n \in Int
  PROVE  /\ Second * m \in Int
         /\ Second * (m + n) = Second * m + Second * n
         /\ Second * (m - n) = Second * m - Second * n
         /\ m <= n => Second * m <= Second * n
<1>1. Second \in Nat
  BY Seconds
<1>2. QED
  BY <1>1

LEMMA Whole ==
  ASSUME NEW x \in Nat
  PROVE  /\ x \div Second \in Nat
         /\ Second * (x \div Second) <= x
         /\ x < Second * (x \div Second) + Second
<1>1. Second \in Nat \ {0}
  BY Seconds
<1>2. QED
  BY <1>1

\* A reading as forward_task and the buffer hold it.
Held == [dev : Sensors, cnt : Nat, age : Nat, at : Nat, tries : Nat, waited : Nat]
Entries == [known : BOOLEAN, at : Nat, cnt : Nat, seen : Nat, via : BOOLEAN, rssi : Nat, error : Nat]
\* A row of the snapshot.
Rows == [entry : Entries, newest : Nat]

ForwardTypes ==
  /\ now \in Nat /\ made \in Nat
  /\ hub \in [boot : Nat, reg : [Sensors -> Entries], saved : [Sensors -> Rows]]
  /\ hub.boot <= now
  /\ queue \in Seq(Held)
  /\ buffer \in Seq([r : Held, captured : Nat])
  /\ newest \in [Sensors -> Nat]

\* The age never runs ahead of the clock, and until it is capped it is behind by what
\* the reading waited and a second for each time it was buffered.
Behind(r, time) == r.at + Second * r.age <= time
Caught(r, time) == r.age < AgeLimit => time <= r.at + r.waited + Second * r.age + Readings!Cut * r.tries

Queued == \A i \in 1 .. Len(queue) :
  queue[i].at <= now /\ queue[i].age = 0 /\ queue[i].tries = 0 /\ queue[i].waited = 0

\* What the next look at the clock cuts off is accounted for already.
IsBuffered(b) == Behind(b.r, b.captured) /\ Caught(b.r, b.captured + Readings!Cut) /\ b.captured <= now
BufferedWell == \A i \in 1 .. Len(buffer) : IsBuffered(buffer[i])

\* A reading is on its way since "start".
UnderWay ==
  sending.pc = "send" =>
    /\ sending.r \in Held
    /\ \E start \in Nat :
         /\ sending.until = start + SendTicks /\ start <= now
         /\ Behind(sending.r, start) /\ Caught(sending.r, start)

\* What the hub loads after a restart is as new as what it held when it was saved.
SavedWell(s) ==
  /\ hub.saved[s].newest <= now
  /\ hub.saved[s].entry.seen = 0
  /\ ~hub.saved[s].entry.known => hub.saved[s].newest = 0
  /\ hub.saved[s].entry.known =>
       hub.saved[s].entry.at + hub.saved[s].entry.error + Second > hub.saved[s].newest

\* The newest reading was taken within the second the hub has it seen in, and what
\* the entry holds is as new but for its error.
RegistryWell(s) ==
  /\ SavedWell(s)
  /\ newest[s] <= now
  /\ ~hub.reg[s].known => newest[s] = 0
  /\ hub.reg[s].known =>
       /\ newest[s] < hub.boot + Second * hub.reg[s].seen + Second
       /\ hub.reg[s].at + hub.reg[s].error + Second > newest[s]

ForwardInv ==
  ForwardTypes /\ Queued /\ BufferedWell /\ UnderWay /\ \A s \in Sensors : RegistryWell(s)

\* What back-dating by the age does with a reading that arrives.
LEMMA Arrival ==
  ASSUME ForwardTypes, NEW r \in Held, Behind(r, now), Caught(r, now), r.age < AgeLimit,
         NEW seconds, seconds = Readings!BackDated(r.age)
  PROVE  /\ seconds \in Nat /\ Readings!Unaccounted(r) \in Nat
         /\ r.at < hub.boot + Second * seconds + Second
         /\ hub.boot + Second * seconds <= r.at + Readings!Unaccounted(r)
<1> DEFINE h == Readings!HubSeconds
           left == r.waited + Readings!Cut * r.tries
<1>1. now \in Nat /\ hub.boot \in Nat /\ now - hub.boot \in Nat /\ Second \in Nat \ {0}
  BY Seconds DEF ForwardTypes
<1>2. h \in Nat /\ hub.boot + Second * h <= now /\ now < hub.boot + Second * h + Second /\ Second * h \in Nat
  <2> DEFINE x == now - hub.boot
  <2>1. h = x \div Second /\ x \in Nat
    BY <1>1 DEF Readings!HubSeconds
  <2> HIDE DEF x, h
  <2>2. h \in Nat /\ Second * h <= x /\ x < Second * h + Second
    BY <2>1, Whole
  <2>3. Second * h \in Nat
    BY <1>1, <2>2
  <2>4. x = now - hub.boot
    BY DEF x
  <2>5. QED
    BY <1>1, <2>1, <2>2, <2>3, <2>4
<1>3. r.at \in Nat /\ r.age \in Nat /\ r.waited \in Nat /\ r.tries \in Nat
  BY DEF Held
<1>4. Second * r.age \in Nat /\ Readings!Cut * r.tries \in Nat /\ left \in Nat
  BY <1>1, <1>3, Seconds
<1>5. r.at + Second * r.age <= now /\ now <= r.at + left + Second * r.age
  BY <1>1, <1>3, <1>4 DEF Behind, Caught
<1> HIDE DEF h, left
<1>6. CASE r.age <= h
  <2>1. seconds = h - r.age /\ seconds \in Nat
    BY <1>2, <1>3, <1>6 DEF Readings!BackDated, h
  <2>2. Readings!Unaccounted(r) = left
    BY <1>2, <1>3, <1>4, <1>6 DEF Readings!Unaccounted, h, left
  <2>3. Second * seconds = Second * h - Second * r.age
    <3>1. h \in Int /\ r.age \in Int
      BY <1>2, <1>3
    <3>2. Second * (h - r.age) = Second * h - Second * r.age
      BY <3>1, Times, Zenon
    <3>3. QED
      BY <2>1, <3>2, Zenon
  <2>4. QED
    BY <1>1, <1>2, <1>3, <1>4, <1>5, <2>1, <2>2, <2>3
<1>7. CASE r.age > h
  <2>1. seconds = 0
    BY <1>2, <1>3, <1>7 DEF Readings!BackDated, h
  <2>2. Readings!Unaccounted(r) = left + Second * (r.age - h)
    BY <1>2, <1>3, <1>4, <1>7 DEF Readings!Unaccounted, h, left
  <2>3. Second * (r.age - h) = Second * r.age - Second * h /\ Second * (r.age - h) \in Nat
    BY <1>1, <1>2, <1>3, <1>7, Times
  <2>4. Second * seconds = 0
    BY <1>1, <2>1
  <2>5. Second * (h + 1) <= Second * r.age /\ Second * (h + 1) = Second * h + Second
    <3>1. Second * (h + 1) = Second * h + Second * 1 /\ Second * 1 = Second
      BY <1>1, <1>2, Times
    <3>2. h + 1 \in Int /\ r.age \in Int /\ h + 1 <= r.age
      BY <1>2, <1>3, <1>7
    <3>3. Second * (h + 1) <= Second * r.age
      BY <3>2, Times, Zenon
    <3>4. QED
      BY <3>1, <3>3, Zenon
  <2>6. QED
    BY <1>1, <1>2, <1>3, <1>4, <1>5, <2>1, <2>2, <2>3, <2>4, <2>5
<1>8. QED
  BY <1>2, <1>3, <1>6, <1>7

\* The entry a reading leaves behind: its own, or the old one seen again.
LeftBehind(a, e, r, via, seconds) ==
  /\ a.entry \in Entries /\ a.entry.known /\ a.entry.seen = seconds
  /\ a.taken => a.entry.at = r.at /\ a.entry.error = Readings!Unaccounted(r)
  /\ ~a.taken => via /\ e.known /\ a.entry.at = e.at /\ a.entry.error = e.error

LEMMA EntryAfter ==
  ASSUME NEW e \in Entries, NEW r \in Held, NEW via \in BOOLEAN, NEW rssi \in Nat, NEW seconds \in Nat,
         Readings!Unaccounted(r) \in Nat,
         NEW a, a = Readings!Attributed(e, r, via, rssi, seconds)
  PROVE  LeftBehind(a, e, r, via, seconds)
<1> USE DEF LeftBehind
<1> DEFINE u == Readings!Unaccounted(r)
           heard == [e EXCEPT !.known = TRUE, !.seen = seconds]
           own == [heard EXCEPT !.cnt = r.cnt, !.via = via, !.rssi = rssi, !.at = r.at, !.error = u]
           taken == \/ ~e.known \/ e.cnt # r.cnt \/ ~via
                    \/ e.via /\ rssi > e.rssi
<1>1. a.entry = IF taken THEN own ELSE heard
  BY DEF Readings!Attributed
<1>2. a.taken <=> taken
  BY DEF Readings!Attributed
<1>3. /\ heard \in Entries /\ heard.known = TRUE /\ heard.seen = seconds
      /\ heard.at = e.at /\ heard.error = e.error
  BY DEF Entries
<1>4. u \in Nat /\ r.cnt \in Nat /\ r.at \in Nat
  BY DEF Held
<1>5. ~taken => via /\ e.known
  OBVIOUS
<1>6. u = Readings!Unaccounted(r)
  OBVIOUS
<1> HIDE DEF heard, u, taken
<1>7. own \in Entries /\ own.known /\ own.seen = seconds /\ own.at = r.at /\ own.error = u
  BY <1>3, <1>4 DEF Entries
<1> HIDE DEF own
<1>8. CASE taken
  BY <1>1, <1>2, <1>6, <1>7, <1>8
<1>9. CASE ~taken
  BY <1>1, <1>2, <1>3, <1>5, <1>9
<1>10. QED
  BY <1>8, <1>9

\* A reading that is submitted keeps the registry within bounds.
LEMMA RegistryTakes ==
  ASSUME ForwardTypes, \A s \in Sensors : RegistryWell(s), now' = now,
         NEW r \in Held, Behind(r, now), Caught(r, now), r.age < AgeLimit,
         NEW via \in BOOLEAN, NEW rssi \in Nat, NEW seconds, seconds = Readings!BackDated(r.age),
         \/ r.at = now
         \/ hub.reg[r.dev].known => seconds >= hub.reg[r.dev].seen,
         ~via => r.at = now,
         Readings!Submit(r, via, rssi, seconds)
  PROVE  /\ hub' \in [boot : Nat, reg : [Sensors -> Entries], saved : [Sensors -> Rows]]
         /\ hub'.boot = hub.boot
         /\ newest' \in [Sensors -> Nat]
         /\ \A s \in Sensors : RegistryWell(s)'
<1> DEFINE e == hub.reg[r.dev]
           a == Readings!Attributed(e, r, via, rssi, seconds)
           u == Readings!Unaccounted(r)
<1>1. /\ seconds \in Nat /\ u \in Nat
      /\ r.at < hub.boot + Second * seconds + Second
      /\ hub.boot + Second * seconds <= r.at + u
  BY Arrival
<1>2. /\ r.dev \in Sensors /\ r.at \in Nat /\ e \in Entries /\ now \in Nat /\ hub.boot \in Nat
      /\ Second \in Nat \ {0} /\ newest \in [Sensors -> Nat] /\ r.at <= now
  <2>1. Second * r.age \in Nat
    BY Seconds DEF Held
  <2>2. QED
    BY <2>1, Seconds DEF ForwardTypes, Held, Behind
<1>3. /\ a.entry \in Entries /\ a.entry.known /\ a.entry.seen = seconds
      /\ a.taken => a.entry.at = r.at /\ a.entry.error = u
      /\ ~a.taken => via /\ e.known /\ a.entry.at = e.at /\ a.entry.error = e.error
  <2>1. LeftBehind(a, e, r, via, seconds)
    BY <1>1, <1>2, EntryAfter, Zenon
  <2>2. QED
    BY <2>1 DEF LeftBehind
<1>4. /\ hub' = [hub EXCEPT !.reg[r.dev] = a.entry]
      /\ newest' = IF a.taken /\ r.at > newest[r.dev] THEN [newest EXCEPT ![r.dev] = r.at] ELSE newest
  BY DEF Readings!Submit
<1> HIDE DEF a, u
<1>5. /\ hub' \in [boot : Nat, reg : [Sensors -> Entries], saved : [Sensors -> Rows]]
      /\ hub'.boot = hub.boot /\ hub'.saved = hub.saved
      /\ hub'.reg[r.dev] = a.entry
      /\ \A s \in Sensors : s # r.dev => hub'.reg[s] = hub.reg[s]
  BY <1>2, <1>3, <1>4 DEF ForwardTypes
<1>6. /\ newest' \in [Sensors -> Nat]
      /\ \A s \in Sensors : s # r.dev => newest'[s] = newest[s]
      /\ newest'[r.dev] = newest[r.dev] \/ (a.taken /\ newest'[r.dev] = r.at)
      /\ a.taken => r.at <= newest'[r.dev]
  BY <1>2, <1>4
<1>7. ASSUME NEW s \in Sensors, s # r.dev
      PROVE  RegistryWell(s)'
  BY <1>5, <1>6, <1>7 DEF RegistryWell, SavedWell
<1>8. RegistryWell(r.dev)'
  <2>1. RegistryWell(r.dev) /\ newest[r.dev] \in Nat /\ e.seen \in Nat /\ e.at \in Nat /\ e.error \in Nat
    BY <1>2 DEF Entries
  <2>2. newest'[r.dev] <= now /\ newest'[r.dev] \in Nat
    BY <1>2, <1>6, <2>1 DEF RegistryWell
  <2>3. Second * seconds \in Nat /\ Second * e.seen \in Nat
    BY <1>1, <1>2, <2>1
  <2>4. e.known /\ r.at # now => Second * e.seen <= Second * seconds
    <3>1. e.seen \in Int /\ seconds \in Int
      BY <1>1, <2>1
    <3>2. SUFFICES ASSUME e.known, r.at # now PROVE e.seen <= seconds
      BY <3>1, Times, Zenon
    <3>3. QED
      BY <3>1, <3>2
  \* The newest was taken within the second it is now seen in.
  <2>5. newest'[r.dev] < hub.boot + Second * seconds + Second
    <3>1. CASE newest'[r.dev] = r.at
      BY <1>1, <3>1
    <3>2. CASE newest'[r.dev] = newest[r.dev] /\ r.at = now
      BY <1>1, <1>2, <2>1, <2>3, <3>2 DEF RegistryWell
    <3>3. CASE newest'[r.dev] = newest[r.dev] /\ r.at # now /\ e.known
      BY <1>1, <1>2, <2>1, <2>3, <2>4, <3>3 DEF RegistryWell
    <3>4. CASE newest'[r.dev] = newest[r.dev] /\ ~e.known
      BY <1>1, <1>2, <1>3, <1>6, <2>1, <2>3, <3>4 DEF RegistryWell
    <3>5. QED
      BY <1>6, <3>1, <3>2, <3>3, <3>4
  <2>6. a.entry.at + a.entry.error + Second > newest'[r.dev]
    <3>1. CASE a.taken
      BY <1>1, <1>2, <1>3, <2>2, <2>3, <2>5, <3>1
    <3>2. CASE ~a.taken
      <4>1. newest'[r.dev] = newest[r.dev]
        BY <1>6, <3>2
      <4>2. QED
        BY <1>3, <2>1, <3>2, <4>1 DEF RegistryWell
    <3>3. QED
      BY <3>1, <3>2
  <2>7. QED
    BY <1>2, <1>3, <1>5, <2>2, <2>5, <2>6 DEF RegistryWell, SavedWell
<1>9. QED
  BY <1>5, <1>6, <1>7, <1>8

LEMMA ForwardStarts == Readings!Init => ForwardInv
<1> SUFFICES ASSUME Readings!Init PROVE ForwardInv
  OBVIOUS
<1>1. /\ Readings!Nobody \in Entries /\ Readings!Nobody.known = FALSE
      /\ Readings!Unsaved \in Rows /\ Readings!Unsaved.newest = 0
      /\ Readings!Unsaved.entry.known = FALSE /\ Readings!Unsaved.entry.seen = 0
  BY DEF Readings!Nobody, Readings!Unsaved, Entries, Rows
<1>2. /\ now = 0
      /\ hub = [boot |-> 0, reg |-> [s \in Sensors |-> Readings!Nobody],
                saved |-> [s \in Sensors |-> Readings!Unsaved]]
      /\ queue = <<>> /\ buffer = <<>> /\ sending.pc = "idle" /\ made = 0
      /\ newest = [s \in Sensors |-> 0]
  BY DEF Readings!Init, Readings!Idle
<1>3. <<>> \in Seq(Held) /\ <<>> \in Seq([r : Held, captured : Nat])
  OBVIOUS
<1>4. ForwardTypes
  BY <1>1, <1>2, <1>3 DEF ForwardTypes
<1>5. Queued /\ BufferedWell /\ UnderWay
  BY <1>2 DEF Queued, BufferedWell, UnderWay
<1>6. \A s \in Sensors : RegistryWell(s)
  BY <1>1, <1>2 DEF RegistryWell, SavedWell
<1>7. QED
  BY <1>4, <1>5, <1>6 DEF ForwardInv

\* What a reading must be like to be sent, or to be buffered.
LEMMA QueueShrinks ==
  ASSUME ForwardTypes, Queued, queue # <<>>, now' = now, queue' = Tail(queue)
  PROVE  /\ Head(queue) \in Held /\ Head(queue).at <= now
         /\ Head(queue).age = 0 /\ Head(queue).tries = 0
         /\ queue' \in Seq(Held) /\ Queued'
<1>1. queue \in Seq(Held) /\ 1 \in 1 .. Len(queue) /\ Head(queue) = queue[1]
  BY DEF ForwardTypes
<1>2. /\ Tail(queue) \in Seq(Held)
      /\ \A i \in 1 .. Len(Tail(queue)) : i + 1 \in 1 .. Len(queue) /\ Tail(queue)[i] = queue[i + 1]
  BY <1>1
<1>3. QED
  BY <1>1, <1>2 DEF Queued

LEMMA BufferShrinks ==
  ASSUME ForwardTypes, BufferedWell, buffer # <<>>, NEW b, b = Head(buffer)
  PROVE  /\ b \in [r : Held, captured : Nat] /\ IsBuffered(b)
         /\ Tail(buffer) \in Seq([r : Held, captured : Nat])
         /\ \A i \in 1 .. Len(Tail(buffer)) : IsBuffered(Tail(buffer)[i])
<1> DEFINE B == [r : Held, captured : Nat]
<1>1. buffer \in Seq(B)
  BY DEF ForwardTypes
<1> HIDE DEF B
<1>2. 1 \in 1 .. Len(buffer) /\ b = buffer[1] /\ b \in B
  BY <1>1
<1>3. /\ Tail(buffer) \in Seq(B)
      /\ \A i \in 1 .. Len(Tail(buffer)) : i + 1 \in 1 .. Len(buffer) /\ Tail(buffer)[i] = buffer[i + 1]
  BY <1>1
<1>4. IsBuffered(b) /\ \A i \in 1 .. Len(Tail(buffer)) : IsBuffered(Tail(buffer)[i])
  BY <1>2, <1>3 DEF BufferedWell
<1>5. QED
  BY <1>2, <1>3, <1>4 DEF B

\* A reading goes on its way.
LEMMA GoesOnItsWay ==
  ASSUME now \in Nat, now' = now, NEW r \in Held, NEW backlog, Readings!Sends(r, backlog),
         Behind(r, now), Caught(r, now)
  PROVE  UnderWay'
<1>1. sending'.pc = "send" /\ sending'.r = r /\ sending'.until = now + SendTicks
  BY DEF Readings!Sends
<1>2. QED
  BY <1>1 DEF UnderWay, Behind, Caught

\* Its age when the buffer gives it back.
LEMMA AgeAgain ==
  ASSUME now \in Nat, NEW b \in [r : Held, captured : Nat], IsBuffered(b),
         NEW age, age = Readings!RecomputeAge(b.r.age, b.captured),
         NEW r, r = [b.r EXCEPT !.age = age]
  PROVE  r \in Held /\ Behind(r, now) /\ Caught(r, now)
<1> DEFINE x == now - b.captured
           q == x \div Second
<1>1. b.r \in Held /\ b.captured \in Nat /\ b.captured <= now /\ x \in Nat
  BY DEF IsBuffered
<1>2. age = IF b.r.age + q > AgeLimit THEN AgeLimit ELSE b.r.age + q
  BY DEF Readings!RecomputeAge, Readings!AtMost
<1>3. q \in Nat /\ Second * q <= x /\ x < Second * q + Second
  <2> HIDE DEF x
  <2>1. QED
    BY <1>1, Whole
<1>4. x = now - b.captured
  OBVIOUS
<1> HIDE DEF q, x
<1>5. /\ b.r.at \in Nat /\ b.r.age \in Nat /\ b.r.tries \in Nat /\ b.r.waited \in Nat
      /\ age \in Nat /\ age <= b.r.age + q /\ (age < AgeLimit => age = b.r.age + q)
  BY <1>1, <1>2, <1>3, Seconds DEF Held
<1>6. /\ r \in Held /\ r.at = b.r.at /\ r.age = age /\ r.tries = b.r.tries /\ r.waited = b.r.waited
  BY <1>1, <1>5 DEF Held
<1>7. /\ Second * (b.r.age + q) = Second * b.r.age + Second * q
      /\ Second * age <= Second * (b.r.age + q)
  <2>1. b.r.age \in Int /\ q \in Int /\ age \in Int /\ b.r.age + q \in Int
    BY <1>3, <1>5
  <2>2. QED
    BY <1>5, <2>1, Times, Zenon
<1>8. Second * b.r.age \in Nat /\ Second * q \in Nat /\ Second * age \in Nat /\ Readings!Cut * b.r.tries \in Nat
  BY <1>3, <1>5, Seconds
<1>9. Behind(r, now)
  <2>1. b.r.at + Second * b.r.age <= b.captured
    BY DEF IsBuffered, Behind
  <2>2. QED
    BY <1>1, <1>3, <1>4, <1>5, <1>6, <1>7, <1>8, <2>1 DEF Behind
<1>10. Caught(r, now)
  <2>1. SUFFICES ASSUME age < AgeLimit
                 PROVE  now <= b.r.at + b.r.waited + Second * age + Readings!Cut * b.r.tries
    BY <1>6 DEF Caught
  <2>2. age = b.r.age + q /\ b.r.age < AgeLimit
    BY <1>3, <1>5, <2>1, Seconds
  <2>3. b.captured + Readings!Cut <= b.r.at + b.r.waited + Second * b.r.age + Readings!Cut * b.r.tries
    BY <2>2 DEF IsBuffered, Caught
  <2>4. Second * age = Second * b.r.age + Second * q
    BY <1>7, <2>2, Zenon
  <2>5. Second \in Nat /\ Readings!Cut \in Nat /\ Readings!Cut + 1 = Second
    BY Seconds
  <2>6. QED
    BY <1>1, <1>3, <1>4, <1>5, <1>8, <2>3, <2>4, <2>5
<1>11. QED
  BY <1>6, <1>9, <1>10

\* And when it arrives, or is given up.
LEMMA Flown ==
  ASSUME ForwardTypes, UnderWay, sending.pc = "send", NEW r, r = Readings!OnItsWay
  PROVE  r \in Held /\ Behind(r, now) /\ Caught(r, now)
<1>1. PICK start \in Nat :
        /\ sending.until = start + SendTicks /\ start <= now
        /\ Behind(sending.r, start) /\ Caught(sending.r, start)
  BY DEF UnderWay
<1> DEFINE o == sending.r
           w == o.waited + SendTicks - (sending.until - now)
<1>2. o \in Held /\ now \in Nat /\ SendTicks \in Nat /\ Second \in Nat
  BY Seconds DEF UnderWay, ForwardTypes
<1>3. o.waited \in Nat /\ o.at \in Nat /\ o.age \in Nat /\ o.tries \in Nat
      /\ Second * o.age \in Nat /\ Readings!Cut * o.tries \in Nat
  BY <1>2, Seconds DEF Held
<1>4. w \in Nat /\ w = o.waited + (now - start)
  BY <1>1, <1>2, <1>3
<1>5. r = [o EXCEPT !.waited = w]
  BY DEF Readings!OnItsWay
<1>6. Behind(o, start) /\ Caught(o, start)
  BY <1>1
<1> HIDE DEF o, w
<1>7. r \in Held /\ r.at = o.at /\ r.age = o.age /\ r.tries = o.tries /\ r.waited = w
  BY <1>2, <1>4, <1>5 DEF Held
<1>8. Behind(r, now)
  BY <1>1, <1>2, <1>3, <1>6, <1>7 DEF Behind
<1>9. Caught(r, now)
  BY <1>1, <1>2, <1>3, <1>4, <1>6, <1>7 DEF Caught
<1>10. QED
  BY <1>7, <1>8, <1>9

LEMMA BufferedAgain ==
  ASSUME ForwardTypes, BufferedWell, now' = now, NEW r \in Held, Behind(r, now), Caught(r, now),
         buffer' = Readings!Buffered(r)
  PROVE  buffer' \in Seq([r : Held, captured : Nat]) /\ BufferedWell'
<1> DEFINE B == [r : Held, captured : Nat]
           k == [r EXCEPT !.tries = @ + 1]
           e == [r |-> k, captured |-> now]
           same == {i \in 1 .. Len(buffer) : buffer[i].r.dev = r.dev}
           short == IF Len(buffer) < BufferLen THEN buffer ELSE Tail(buffer)
<1>1. now \in Nat /\ buffer \in Seq(B) /\ Second \in Nat
  BY Seconds DEF ForwardTypes
<1>2. /\ r.tries \in Nat /\ r.at \in Nat /\ r.age \in Nat /\ r.waited \in Nat
      /\ Second * r.age \in Nat /\ Readings!Cut * r.tries \in Nat
  BY <1>1, Seconds DEF Held
<1>3. k \in Held /\ k.at = r.at /\ k.age = r.age /\ k.waited = r.waited /\ k.tries = r.tries + 1
  BY <1>2 DEF Held
<1>4. e \in B /\ e.r = k /\ e.captured = now
  BY <1>1, <1>3
<1>5. Readings!Cut * (r.tries + 1) = Readings!Cut * r.tries + Readings!Cut
  <2>1. \A m, n \in Nat : m * (n + 1) = m * n + m
    OBVIOUS
  <2>2. QED
    BY <1>2, <2>1, Seconds, Zenon
<1> HIDE DEF k, e, same, short
<1>6. IsBuffered(e)
  <2>1. Behind(k, now)
    BY <1>3 DEF Behind
  <2>2. Caught(k, now + Readings!Cut)
    <3>1. SUFFICES ASSUME r.age < AgeLimit
                   PROVE  now + Readings!Cut <= r.at + r.waited + Second * r.age + Readings!Cut * (r.tries + 1)
      BY <1>3, Zenon DEF Caught
    <3>2. now <= r.at + r.waited + Second * r.age + Readings!Cut * r.tries
      BY <3>1 DEF Caught
    <3> DEFINE a == Second * r.age
               t == Readings!Cut * r.tries
               more == Readings!Cut * (r.tries + 1)
    <3>3. /\ now <= r.at + r.waited + a + t /\ more = t + Readings!Cut
          /\ {now, r.at, r.waited, a, t, Readings!Cut} \subseteq Nat
      BY <1>1, <1>2, <1>5, <3>2, Seconds, Zenon
    <3> HIDE DEF a, t, more
    <3>4. now + Readings!Cut <= r.at + r.waited + a + more
      BY <3>3
    <3>5. QED
      BY <3>4 DEF a, more
  <2>3. QED
    BY <1>1, <1>4, <2>1, <2>2 DEF IsBuffered
<1> HIDE DEF B
<1>7. \A i \in 1 .. Len(buffer) : buffer[i] \in B /\ IsBuffered(buffer[i])
  BY <1>1 DEF BufferedWell
<1>8. buffer' = IF same # {} THEN [i \in 1 .. Len(buffer) |-> IF i \in same THEN e ELSE buffer[i]]
                ELSE Append(short, e)
  BY Zenon DEF Readings!Buffered, k, e, same, short
<1>9. CASE same # {}
  <2>1. buffer' = [i \in 1 .. Len(buffer) |-> IF i \in same THEN e ELSE buffer[i]]
    BY <1>8, <1>9
  <2>2. Len(buffer) \in Nat
    BY <1>1
  <2>3. buffer' \in [1 .. Len(buffer) -> B]
    BY <1>4, <1>7, <2>1
  <2>4. buffer' \in Seq(B) /\ Len(buffer') = Len(buffer)
    BY <2>2, <2>3
  <2>5. \A i \in 1 .. Len(buffer) : IsBuffered(buffer'[i])
    BY <1>6, <1>7, <2>1
  <2>6. BufferedWell'
    BY <2>4, <2>5 DEF BufferedWell, IsBuffered
  <2>7. QED
    BY <2>4, <2>6 DEF B
<1>10. CASE same = {}
  <2>1. buffer' = Append(short, e)
    BY <1>8, <1>10
  <2>2. short \in Seq(B) /\ \A i \in 1 .. Len(short) : IsBuffered(short[i])
    <3>1. CASE Len(buffer) < BufferLen
      BY <1>1, <1>7, <3>1 DEF short
    <3>2. CASE ~(Len(buffer) < BufferLen) /\ buffer # <<>>
      <4>1. short = Tail(buffer)
        BY <3>2 DEF short
      <4>2. QED
        BY <3>2, <4>1, BufferShrinks DEF B
    <3>3. CASE ~(Len(buffer) < BufferLen) /\ buffer = <<>>
      <4>1. Len(buffer) = 0 /\ BufferLen \in Nat \ {0}
        BY <3>3, SwarmPartsAssumption DEF SwarmPartsAssumption, Readings!ForwardAssumption
      <4>2. QED
        BY <3>3, <4>1
    <3>4. QED
      BY <3>1, <3>2, <3>3
  <2>3. buffer' \in Seq(B) /\ Len(buffer') = Len(short) + 1
    BY <1>4, <2>1, <2>2
  <2>4. \A i \in 1 .. Len(buffer') : IsBuffered(buffer'[i])
    <3>1. \A i \in 1 .. Len(short) + 1 :
            buffer'[i] = IF i \in 1 .. Len(short) THEN short[i] ELSE e
      BY <1>4, <2>1, <2>2
    <3>2. QED
      BY <1>6, <2>2, <2>3, <3>1
  <2>5. BufferedWell'
    BY <2>4 DEF BufferedWell, IsBuffered
  <2>6. QED
    BY <2>3, <2>5 DEF B
<1>11. QED
  BY <1>9, <1>10

LEMMA SubmitWell ==
  ASSUME ForwardTypes, \A s \in Sensors : RegistryWell(s), now' = now,
         NEW r \in Held, Behind(r, now), Caught(r, now), NEW rssi \in Nat,
         Readings!SubmitFrom(r, rssi)
  PROVE  /\ hub' \in [boot : Nat, reg : [Sensors -> Entries], saved : [Sensors -> Rows]]
         /\ hub'.boot = hub.boot
         /\ newest' \in [Sensors -> Nat]
         /\ \A s \in Sensors : RegistryWell(s)'
<1> DEFINE seconds == Readings!BackDated(r.age)
<1>1. CASE Readings!TooOld(r)
  <2>1. UNCHANGED <<hub, newest>>
    BY <1>1 DEF Readings!SubmitFrom
  <2>2. QED
    BY <2>1 DEF ForwardTypes, RegistryWell, SavedWell
<1>2. CASE ~Readings!TooOld(r)
  <2>1. Readings!Submit(r, TRUE, rssi, seconds)
    BY <1>2 DEF Readings!SubmitFrom
  <2>2. r.age < AgeLimit
    BY <1>2, Seconds DEF Readings!TooOld, Held
  <2>3. seconds \in Nat
    BY <2>2, Arrival
  <2>4. hub.reg[r.dev].known => seconds >= hub.reg[r.dev].seen
    <3>1. hub.reg[r.dev].seen \in Nat
      BY DEF ForwardTypes, Entries, Held
    <3>2. hub.reg[r.dev].known => ~(seconds < hub.reg[r.dev].seen)
      BY <1>2 DEF Readings!TooOld
    <3> HIDE DEF seconds
    <3>3. QED
      BY <2>3, <3>1, <3>2
  <2>5. TRUE \in BOOLEAN /\ seconds = Readings!BackDated(r.age)
    OBVIOUS
  <2> HIDE DEF seconds
  <2>6. QED
    BY <2>1, <2>2, <2>4, <2>5, RegistryTakes
<1>3. QED
  BY <1>1, <1>2

\* The node and the readings on it stay as they are.
LEMMA ReadingTypes ==
  ASSUME NEW s \in Sensors, ForwardTypes
  PROVE  /\ Readings!Reading(s) \in Held
         /\ Readings!Reading(s).at = now /\ Readings!Reading(s).dev = s
         /\ Readings!Reading(s).age = 0 /\ Readings!Reading(s).tries = 0 /\ Readings!Reading(s).waited = 0
<1>1. made \in Nat /\ now \in Nat /\ CntMod \in Nat \ {0}
  BY Seconds DEF ForwardTypes
<1>2. made % CntMod \in Nat
  BY <1>1
<1>3. QED
  BY <1>1, <1>2 DEF Readings!Reading, Held

LEMMA BroadcastStep ==
  ASSUME ForwardInv, NEW s \in Sensors, Readings!Broadcast(s)
  PROVE  ForwardInv'
<1> DEFINE r == Readings!Reading(s)
<1>1. ForwardTypes /\ Queued /\ BufferedWell /\ UnderWay /\ \A d \in Sensors : RegistryWell(d)
  BY DEF ForwardInv
<1>2. PICK direct \in BOOLEAN, heard \in BOOLEAN :
        /\ queue' = IF heard /\ Len(queue) < ForwardQueueLen THEN Append(queue, r) ELSE queue
        /\ IF direct THEN Readings!Submit(r, FALSE, 0, Readings!HubSeconds) ELSE UNCHANGED <<hub, newest>>
  BY DEF Readings!Broadcast
<1>3. made' = made + 1 /\ UNCHANGED <<now, buffer, sending>>
  BY DEF Readings!Broadcast
<1>4. /\ r \in Held /\ r.at = now /\ r.dev = s /\ r.age = 0 /\ r.tries = 0 /\ r.waited = 0
      /\ now \in Nat /\ Second \in Nat \ {0} /\ AgeLimit \in Nat \ {0}
  BY <1>1, ReadingTypes, Seconds DEF ForwardTypes
<1> HIDE DEF r
<1>5. Behind(r, now) /\ Caught(r, now)
  <2>1. Readings!Cut \in Nat /\ Readings!Cut * r.tries = 0
    BY <1>4, Seconds
  <2>2. QED
    BY <1>4, <2>1 DEF Behind, Caught
<1>6. /\ hub' \in [boot : Nat, reg : [Sensors -> Entries], saved : [Sensors -> Rows]]
      /\ hub'.boot = hub.boot
      /\ newest' \in [Sensors -> Nat]
      /\ \A d \in Sensors : RegistryWell(d)'
  <2>1. CASE direct
    <3> DEFINE h == Readings!HubSeconds
    <3>1. Readings!Submit(r, FALSE, 0, h)
      BY <1>2, <2>1
    <3>2. h \in Nat
      <4>1. now - hub.boot \in Nat
        BY <1>1 DEF ForwardTypes
      <4>2. QED
        BY <4>1, Whole DEF Readings!HubSeconds
    <3>3. h = Readings!BackDated(r.age)
      BY <1>4, <3>2 DEF Readings!BackDated
    <3> HIDE DEF h
    <3>4. FALSE \in BOOLEAN /\ 0 \in Nat /\ r.age < AgeLimit
      BY <1>4
    <3>5. now' = now /\ (\/ r.at = now
                         \/ hub.reg[r.dev].known => h >= hub.reg[r.dev].seen)
      BY <1>3, <1>4
    <3>6. QED
      BY <1>1, <1>4, <1>5, <3>1, <3>3, <3>4, <3>5, RegistryTakes
  <2>2. CASE ~direct
    <3>1. UNCHANGED <<hub, newest>>
      BY <1>2, <2>2
    <3>2. QED
      BY <1>1, <1>3, <3>1 DEF ForwardTypes, RegistryWell, SavedWell
  <2>3. QED
    BY <2>1, <2>2
<1>7. queue' \in Seq(Held) /\ Queued'
  <2>1. CASE queue' = queue
    BY <1>1, <1>3, <2>1 DEF ForwardTypes, Queued
  <2>2. CASE queue' = Append(queue, r)
    <3>1. queue \in Seq(Held)
      BY <1>1 DEF ForwardTypes
    <3>2. queue' \in Seq(Held) /\ Len(queue') = Len(queue) + 1
      BY <1>4, <2>2, <3>1
    <3>3. \A i \in 1 .. Len(queue') : queue'[i] = IF i \in 1 .. Len(queue) THEN queue[i] ELSE r
      BY <1>4, <2>2, <3>1, <3>2
    <3>4. Queued'
      BY <1>1, <1>3, <1>4, <3>2, <3>3 DEF Queued
    <3>5. QED
      BY <3>2, <3>4
  <2>3. QED
    BY <1>2, <2>1, <2>2
<1>8. ForwardTypes'
  BY <1>1, <1>3, <1>6, <1>7 DEF ForwardTypes
<1>9. BufferedWell' /\ UnderWay'
  BY <1>1, <1>3 DEF BufferedWell, IsBuffered, UnderWay
<1>10. QED
  BY <1>6, <1>7, <1>8, <1>9 DEF ForwardInv

LEMMA TakeSteps ==
  ASSUME ForwardInv, Readings!TakeLive \/ Readings!TakeBacklog
  PROVE  ForwardInv'
<1>1. ForwardTypes /\ Queued /\ BufferedWell /\ UnderWay /\ \A d \in Sensors : RegistryWell(d)
  BY DEF ForwardInv
<1>2. now' = now /\ UNCHANGED <<hub, made, newest>> /\ now \in Nat /\ Second \in Nat \ {0}
  BY <1>1, Seconds DEF Readings!TakeLive, Readings!TakeBacklog, ForwardTypes
<1>3. \A d \in Sensors : RegistryWell(d)'
  BY <1>1, <1>2 DEF RegistryWell, SavedWell
<1>4. CASE Readings!TakeLive
  <2> DEFINE h == Head(queue)
             w == now - h.at
             r == [h EXCEPT !.waited = w]
  <2>1. queue # <<>> /\ queue' = Tail(queue) /\ buffer' = buffer /\ Readings!Sends(r, FALSE)
    BY <1>4 DEF Readings!TakeLive
  <2>2. h \in Held /\ h.at <= now /\ h.age = 0 /\ h.tries = 0 /\ queue' \in Seq(Held) /\ Queued'
    BY <1>1, <1>2, <2>1, QueueShrinks
  <2>3. w \in Nat /\ h.at + w = now /\ h.at \in Nat
    BY <1>2, <2>2 DEF Held
  <2> HIDE DEF h, w
  <2>4. r \in Held /\ r.at = h.at /\ r.age = 0 /\ r.tries = 0 /\ r.waited = w
    BY <2>2, <2>3 DEF Held
  <2> HIDE DEF r
  <2>5. Behind(r, now) /\ Caught(r, now)
    <3>1. r.tries = 0
      BY <2>4
    <3>2. Readings!Cut \in Nat /\ Readings!Cut * r.tries = 0
      BY <3>1, Seconds
    <3>3. QED
      BY <1>2, <2>2, <2>3, <2>4, <3>1, <3>2 DEF Behind, Caught
  <2>6. UnderWay'
    BY <1>2, <2>1, <2>4, <2>5, GoesOnItsWay
  <2>7. ForwardTypes' /\ BufferedWell'
    BY <1>1, <1>2, <2>1, <2>2 DEF ForwardTypes, BufferedWell, IsBuffered
  <2>8. QED
    BY <1>3, <2>2, <2>6, <2>7 DEF ForwardInv
<1>5. CASE Readings!TakeBacklog
  <2> DEFINE b == Head(buffer)
             age == Readings!RecomputeAge(b.r.age, b.captured)
             r == [b.r EXCEPT !.age = age]
  <2>1. buffer # <<>> /\ buffer' = Tail(buffer) /\ queue' = queue /\ Readings!Sends(r, TRUE)
    BY <1>5 DEF Readings!TakeBacklog
  <2>2. /\ b \in [r : Held, captured : Nat] /\ IsBuffered(b)
        /\ Tail(buffer) \in Seq([r : Held, captured : Nat])
        /\ \A i \in 1 .. Len(Tail(buffer)) : IsBuffered(Tail(buffer)[i])
    BY <1>1, <2>1, BufferShrinks
  <2> HIDE DEF b
  <2>3. r \in Held /\ Behind(r, now) /\ Caught(r, now)
    BY <1>2, <2>2, AgeAgain
  <2> HIDE DEF r, age
  <2>4. UnderWay'
    BY <1>2, <2>1, <2>3, GoesOnItsWay
  <2>5. ForwardTypes'
    BY <1>1, <1>2, <2>1, <2>2 DEF ForwardTypes
  <2>6. Queued'
    BY <1>1, <1>2, <2>1 DEF Queued
  <2>7. BufferedWell'
    BY <1>2, <2>1, <2>2 DEF BufferedWell, IsBuffered
  <2>8. QED
    BY <1>3, <2>4, <2>5, <2>6, <2>7 DEF ForwardInv
<1>6. QED
  BY <1>4, <1>5

LEMMA SentSteps ==
  ASSUME ForwardInv, Readings!Sent \/ Readings!Failed
  PROVE  ForwardInv'
<1> DEFINE r == Readings!OnItsWay
<1>1. ForwardTypes /\ Queued /\ BufferedWell /\ UnderWay /\ \A d \in Sensors : RegistryWell(d)
  BY DEF ForwardInv
<1>2. sending.pc = "send" /\ UNCHANGED <<now, queue, made>>
  BY DEF Readings!Sent, Readings!Failed
<1>3. sending'.pc # "send"
  <2>1. CASE Readings!Sent
    BY <2>1 DEF Readings!Sent, Readings!Idle
  <2>2. CASE Readings!Failed
    <3> DEFINE fails == (sending.fails + 1) % FailLimit
               idle == Readings!Idle(fails)
               till == now + (IF sending.backlog /\ fails = 0 THEN 2 * Second ELSE Second)
    <3>1. sending' = IF ~sending.backlog /\ ~(fails = 0) THEN idle
                     ELSE [idle EXCEPT !.pc = "rest", !.until = till]
      BY <2>2, Zenon DEF Readings!Failed
    <3>2. idle = [pc |-> "idle", until |-> 0, backlog |-> FALSE, fails |-> fails, r |-> Readings!Nothing]
      BY Zenon DEF Readings!Idle
    <3> HIDE DEF fails, idle, till
    <3>3. QED
      BY <3>1, <3>2
  <2>3. QED
    BY <2>1, <2>2
<1>4. \/ UNCHANGED <<hub, newest>>
      \/ \E rssi \in Nat : Readings!SubmitFrom(r, rssi)
  BY DEF Readings!Sent, Readings!Failed
<1>5. buffer' = buffer \/ buffer' = Readings!Buffered(r)
  BY DEF Readings!Sent, Readings!Failed
<1>6. r \in Held /\ Behind(r, now) /\ Caught(r, now)
  BY <1>1, <1>2, Flown
<1> HIDE DEF r
<1>7. /\ hub' \in [boot : Nat, reg : [Sensors -> Entries], saved : [Sensors -> Rows]]
      /\ hub'.boot = hub.boot
      /\ newest' \in [Sensors -> Nat]
      /\ \A d \in Sensors : RegistryWell(d)'
  <2>1. CASE UNCHANGED <<hub, newest>>
    BY <1>1, <1>2, <2>1 DEF ForwardTypes, RegistryWell, SavedWell
  <2>2. CASE \E rssi \in Nat : Readings!SubmitFrom(r, rssi)
    <3>1. PICK rssi \in Nat : Readings!SubmitFrom(r, rssi)
      BY <2>2
    <3>2. now' = now
      BY <1>2
    <3>3. QED
      BY <1>1, <1>6, <3>1, <3>2, SubmitWell
  <2>3. QED
    BY <1>4, <2>1, <2>2
<1>8. buffer' \in Seq([r : Held, captured : Nat]) /\ BufferedWell'
  <2>1. CASE buffer' = buffer
    BY <1>1, <1>2, <2>1 DEF ForwardTypes, BufferedWell, IsBuffered
  <2>2. CASE buffer' = Readings!Buffered(r)
    <3>1. now' = now
      BY <1>2
    <3>2. QED
      BY <1>1, <1>6, <2>2, <3>1, BufferedAgain
  <2>3. QED
    BY <1>5, <2>1, <2>2
<1>9. ForwardTypes'
  BY <1>1, <1>2, <1>7, <1>8 DEF ForwardTypes
<1>10. Queued' /\ UnderWay'
  BY <1>1, <1>2, <1>3 DEF Queued, UnderWay
<1>11. QED
  BY <1>7, <1>8, <1>9, <1>10 DEF ForwardInv

LEMMA ForwardStep ==
  ASSUME ForwardInv, [Readings!Next]_readingVars
  PROVE  ForwardInv'
<1>1. ForwardTypes /\ Queued /\ BufferedWell /\ UnderWay /\ \A s \in Sensors : RegistryWell(s)
  BY DEF ForwardInv
<1>2. CASE Readings!Tick
  <2>1. now' = now + 1 /\ UNCHANGED <<hub, queue, buffer, sending, made, newest>>
    BY <1>2 DEF Readings!Tick
  <2>2. now \in Nat
    BY <1>1 DEF ForwardTypes
  <2>3. ForwardTypes'
    BY <1>1, <2>1, <2>2 DEF ForwardTypes
  <2>4. Queued' /\ UnderWay'
    <3>1. Queued'
      <4>1. queue \in Seq(Held)
        BY <1>1 DEF ForwardTypes
      <4>2. \A i \in 1 .. Len(queue) : queue[i] \in Held
        BY <4>1
      <4>3. \A i \in 1 .. Len(queue) : queue[i].at \in Nat /\ queue[i].at <= now
        BY <1>1, <4>2 DEF Queued, Held
      <4>4. QED
        BY <1>1, <2>1, <2>2, <4>3 DEF Queued
    <3>2. UnderWay'
      BY <1>1, <2>1, <2>2 DEF UnderWay
    <3>3. QED
      BY <3>1, <3>2
  <2>5. BufferedWell'
    <3> DEFINE B == [r : Held, captured : Nat]
    <3>1. buffer \in Seq(B)
      BY <1>1 DEF ForwardTypes
    <3> HIDE DEF B
    <3>2. \A i \in 1 .. Len(buffer) : buffer[i] \in B
      BY <3>1
    <3>3. \A i \in 1 .. Len(buffer) : buffer[i].captured \in Nat
      BY <3>2 DEF B
    <3>4. \A i \in 1 .. Len(buffer) : buffer[i].captured <= now'
      BY <1>1, <2>1, <2>2, <3>3 DEF BufferedWell, IsBuffered
    <3>5. QED
      BY <1>1, <2>1, <3>4 DEF BufferedWell, IsBuffered
  <2>6. ASSUME NEW s \in Sensors PROVE RegistryWell(s)'
    <3>1. newest[s] \in Nat /\ hub.saved[s].newest \in Nat /\ RegistryWell(s)
      BY <1>1 DEF ForwardTypes, Rows
    <3>2. QED
      BY <2>1, <2>2, <3>1 DEF RegistryWell, SavedWell
  <2>7. QED
    BY <2>3, <2>4, <2>5, <2>6 DEF ForwardInv
<1>3. CASE Readings!HubRestart
  <2>1. PICK restored \in BOOLEAN :
          LET row(s) == IF restored THEN hub.saved[s] ELSE Readings!Unsaved IN
          /\ hub' = [hub EXCEPT !.boot = now, !.reg = [s \in Sensors |-> row(s).entry]]
          /\ newest' = [s \in Sensors |-> row(s).newest]
    BY <1>3 DEF Readings!HubRestart
  <2>2. UNCHANGED <<now, queue, buffer, sending, made>>
    BY <1>3 DEF Readings!HubRestart
  <2> DEFINE row(s) == IF restored THEN hub.saved[s] ELSE Readings!Unsaved
  <2>3. ASSUME NEW s \in Sensors
        PROVE  /\ row(s) \in Rows /\ row(s).entry.seen = 0 /\ row(s).newest <= now
               /\ ~row(s).entry.known => row(s).newest = 0
               /\ row(s).entry.known => row(s).entry.at + row(s).entry.error + Second > row(s).newest
    <3>1. CASE restored
      BY <1>1, <3>1 DEF ForwardTypes, RegistryWell, SavedWell
    <3>2. CASE ~restored
      BY <1>1, <3>2 DEF ForwardTypes, Readings!Unsaved, Readings!Nobody, Rows, Entries
    <3>3. QED
      BY <3>1, <3>2
  <2>4. /\ hub' = [hub EXCEPT !.boot = now, !.reg = [s \in Sensors |-> row(s).entry]]
        /\ newest' = [s \in Sensors |-> row(s).newest]
    BY <2>1
  <2> HIDE DEF row
  <2>5. /\ hub'.boot = now /\ hub'.saved = hub.saved
        /\ \A s \in Sensors : hub'.reg[s] = row(s).entry /\ newest'[s] = row(s).newest
    BY <1>1, <2>4 DEF ForwardTypes
  <2>6. ForwardTypes'
    <3>1. \A s \in Sensors : row(s).entry \in Entries /\ row(s).newest \in Nat
      BY <2>3 DEF Rows
    <3> DEFINE loaded == [s \in Sensors |-> row(s).entry]
    <3>2. newest' \in [Sensors -> Nat] /\ loaded \in [Sensors -> Entries]
      BY <2>4, <3>1
    <3>3. hub' = [hub EXCEPT !.boot = now, !.reg = loaded]
      BY <2>4
    <3> HIDE DEF loaded
    <3>4. now \in Nat /\ now' = now /\ hub.saved \in [Sensors -> Rows]
      BY <1>1, <2>2 DEF ForwardTypes
    <3>5. hub' = [boot |-> now, reg |-> loaded, saved |-> hub.saved]
      BY <1>1, <3>3 DEF ForwardTypes
    <3>6. /\ hub' \in [boot : Nat, reg : [Sensors -> Entries], saved : [Sensors -> Rows]]
          /\ hub'.boot <= now'
      BY <3>2, <3>4, <3>5
    <3>7. QED
      BY <1>1, <2>2, <3>2, <3>6 DEF ForwardTypes
  <2>7. ASSUME NEW s \in Sensors PROVE RegistryWell(s)'
    <3>1. SavedWell(s)'
      BY <1>1, <2>2, <2>5 DEF RegistryWell, SavedWell
    <3>2. now \in Nat /\ Second \in Nat \ {0} /\ row(s).newest \in Nat
      BY <1>1, <2>3, Seconds DEF ForwardTypes, Rows
    <3>3. QED
      BY <2>2, <2>3, <2>5, <3>1, <3>2 DEF RegistryWell
  <2>8. Queued' /\ BufferedWell' /\ UnderWay'
    BY <1>1, <2>2 DEF Queued, BufferedWell, IsBuffered, UnderWay
  <2>9. QED
    BY <2>6, <2>7, <2>8 DEF ForwardInv
<1>4. CASE \E s \in Sensors : Readings!Broadcast(s)
  BY <1>4, BroadcastStep
<1>5. CASE Readings!TakeLive \/ Readings!TakeBacklog
  BY <1>5, TakeSteps
<1>6. CASE Readings!Sent \/ Readings!Failed
  BY <1>6, SentSteps
<1>7. CASE Readings!Rested \/ UNCHANGED readingVars
  <2>1. UNCHANGED <<now, hub, queue, buffer, made, newest>>
        /\ (UNCHANGED sending \/ sending'.pc # "send")
    BY <1>7 DEF Readings!Rested, Readings!Idle, readingVars
  <2>2. ForwardTypes' /\ Queued' /\ BufferedWell' /\ \A s \in Sensors : RegistryWell(s)'
    BY <1>1, <2>1 DEF ForwardTypes, Queued, BufferedWell, IsBuffered, RegistryWell, SavedWell
  <2>3. UnderWay'
    BY <1>1, <2>1 DEF UnderWay
  <2>4. QED
    BY <2>2, <2>3 DEF ForwardInv
<1>8. CASE Readings!PersistSnapshot
  <2>1. /\ hub' = [hub EXCEPT !.saved = [s \in Sensors |-> Readings!Kept(s)]]
        /\ UNCHANGED <<now, queue, buffer, sending, made, newest>>
    BY <1>8 DEF Readings!PersistSnapshot
  <2>2. ASSUME NEW s \in Sensors
        PROVE  /\ Readings!Kept(s) \in Rows /\ Readings!Kept(s).newest = newest[s]
               /\ Readings!Kept(s).entry.seen = 0
               /\ Readings!Kept(s).entry.known = hub.reg[s].known
               /\ Readings!Kept(s).entry.at = hub.reg[s].at
               /\ Readings!Kept(s).entry.error = hub.reg[s].error
    <3>1. hub.reg[s] \in Entries /\ newest[s] \in Nat
      BY <1>1 DEF ForwardTypes
    <3>2. QED
      BY <3>1 DEF Readings!Kept, Rows, Entries
  <2>3. ForwardTypes'
    BY <1>1, <2>1, <2>2 DEF ForwardTypes
  <2>4. /\ hub'.boot = hub.boot /\ hub'.reg = hub.reg
        /\ \A s \in Sensors : hub'.saved[s] = Readings!Kept(s)
    BY <1>1, <2>1 DEF ForwardTypes
  <2>5. ASSUME NEW s \in Sensors PROVE RegistryWell(s)'
    BY <1>1, <2>1, <2>2, <2>4 DEF RegistryWell, SavedWell
  <2>6. Queued' /\ BufferedWell' /\ UnderWay'
    BY <1>1, <2>1 DEF Queued, BufferedWell, IsBuffered, UnderWay
  <2>7. QED
    BY <2>3, <2>5, <2>6 DEF ForwardInv
<1>9. QED
  BY <1>2, <1>3, <1>4, <1>5, <1>6, <1>7, <1>8 DEF Readings!Next

-----------------------------------------------------------------------------
(* NodeLife: an image on trial is confirmed before sleep or a mode change    *)

\* The fields that decide whether an image on trial is lost are there.
LifeTypes == "image" \in DOMAIN flash /\ "cycle" \in DOMAIN battery

\* A node that sleeps, and so will be reset by its timer, has confirmed its image.
SleepsConfirmed == battery.cycle = "asleep" => flash.image # "pending"

LifeInv == LifeTypes /\ SleepsConfirmed /\ Life!NeverRollsItselfBack

LEMMA BootedCycle ==
  ASSUME NEW f
  PROVE  "cycle" \in DOMAIN Life!Booted(f) /\ Life!Booted(f).cycle # "asleep"
  BY DEF Life!Booted

LEMMA ResetKeeps ==
  ASSUME NEW f, "image" \in DOMAIN f PROVE "image" \in DOMAIN Life!AfterReset(f)
  BY DEF Life!AfterReset

\* The node boots awake, whatever its flash holds.
LEMMA RestartKeeps ==
  ASSUME NEW f, "image" \in DOMAIN f, Life!Restart(f)
  PROVE  LifeTypes' /\ SleepsConfirmed'
  BY BootedCycle, ResetKeeps DEF Life!Restart, LifeTypes, SleepsConfirmed

\* Steps that leave flash and the place in the cycle alone, or move it while the
\* node is awake.
LEMMA AwakeStep ==
  ASSUME LifeInv, "cycle" \in DOMAIN battery', battery'.cycle \in {battery.cycle} \cup
           {"send", "wait", "decide", "stay", "account", "gone"},
         UNCHANGED <<flash, lost>>
  PROVE  LifeInv'
  BY DEF LifeInv, LifeTypes, SleepsConfirmed, Life!NeverRollsItselfBack

LEMMA LifeStarts == Life!Init => LifeInv
  BY BootedCycle DEF Life!Init, LifeInv, LifeTypes, SleepsConfirmed, Life!NeverRollsItselfBack

\* Confirming an image never leaves it on trial.
LEMMA ConfirmedFirst ==
  ASSUME NEW f, "image" \in DOMAIN f, NEW confirmed
  PROVE  /\ "image" \in DOMAIN Life!ConfirmFirst(f, confirmed)
         /\ confirmed => Life!ConfirmFirst(f, confirmed).image # "pending"
         /\ f.image # "pending" => Life!ConfirmFirst(f, confirmed).image # "pending"
  BY DEF Life!ConfirmFirst

LEMMA RoundMoves ==
  ASSUME NEW n, "cycle" \in DOMAIN n
  PROVE  "cycle" \in DOMAIN Life!NextRound(n) /\ Life!NextRound(n).cycle \in {"send", "decide"}
<1>1. CASE n.round = 1
  BY <1>1 DEF Life!NextRound
<1>2. CASE n.round # 1
  BY <1>2 DEF Life!NextRound
<1>3. QED
  BY <1>1, <1>2

\* A mode is obeyed by a node that is awake.
LEMMA ObeyKeeps ==
  ASSUME LifeInv, NEW m, NEW after, "cycle" \in DOMAIN after, after.cycle # "asleep",
         Life!ObeyMode(m, after)
  PROVE  LifeInv'
<1>1. PICK written \in BOOLEAN, confirmed \in BOOLEAN :
        IF written
        THEN /\ Life!Restart(Life!ConfirmFirst(Life!Stores(m, TRUE), confirmed))
             /\ lost' = IF confirmed /\ Life!ConfirmFirst(flash, confirmed).image = "pending"
                        THEN lost \cup {"mode"} ELSE lost
        ELSE battery' = [after EXCEPT !.power = m] /\ UNCHANGED <<flash, lost>>
  BY DEF Life!ObeyMode
<1>2. CASE written
  <2>1. "image" \in DOMAIN Life!Stores(m, TRUE)
    BY DEF Life!Stores, LifeInv, LifeTypes
  <2>2. LifeTypes' /\ SleepsConfirmed'
    BY <1>1, <1>2, <2>1, ConfirmedFirst, RestartKeeps
  <2>3. lost' = lost
    BY <1>1, <1>2, ConfirmedFirst DEF LifeInv, LifeTypes
  <2>4. QED
    BY <2>2, <2>3 DEF LifeInv, Life!NeverRollsItselfBack
<1>3. CASE ~written
  <2>1. "cycle" \in DOMAIN battery' /\ battery'.cycle # "asleep" /\ UNCHANGED <<flash, lost>>
    BY <1>1, <1>3
  <2>2. QED
    BY <2>1 DEF LifeInv, LifeTypes, SleepsConfirmed, Life!NeverRollsItselfBack
<1>4. QED
  BY <1>2, <1>3

LEMMA AccountKeeps == ASSUME LifeInv, Life!Account PROVE LifeInv'
<1>1. PICK c \in BOOLEAN, w \in BOOLEAN :
        \/ /\ battery' = Life!FallenBack
           /\ \E k : flash' = IF w THEN [[flash EXCEPT !.failed = k] EXCEPT !.mode = 0]
                                   ELSE [flash EXCEPT !.failed = k]
        \/ /\ \E a, b : battery' = [battery EXCEPT !.cycle = "send", !.round = 1, !.failed = a,
                                                   !.retries = b]
           /\ \E k : flash' = [flash EXCEPT !.failed = k]
        \/ /\ Life!MaySleep
           /\ \E k : flash' = [flash EXCEPT !.failed = k]
           /\ battery' = [Life!Booted(flash') EXCEPT !.cycle = "asleep"]
  BY DEF Life!Account, Life!AlwaysOn
<1>2. UNCHANGED lost
  BY DEF Life!Account
<1>3. "image" \in DOMAIN flash' /\ flash'.image = flash.image
  BY <1>1 DEF LifeInv, LifeTypes
<1>4. "cycle" \in DOMAIN battery' /\ (battery'.cycle = "asleep" => Life!MaySleep)
  BY <1>1, BootedCycle DEF LifeInv, LifeTypes, Life!FallenBack
<1>5. QED
  BY <1>2, <1>3, <1>4 DEF LifeInv, LifeTypes, SleepsConfirmed, Life!NeverRollsItselfBack,
     Life!MaySleep, Life!Pending

LEMMA LifeSteps == ASSUME LifeInv, Life!NodeStep PROVE LifeInv'
<1> USE DEF LifeInv
<1>1. CASE Life!CycleSend
  <2>1. PICK fate \in {"arrives", "lost", "fails"} :
          battery' = IF fate = "fails" THEN Life!NextRound([battery EXCEPT !.acks = <<>>])
                     ELSE [battery EXCEPT !.acks = <<>>, !.cycle = "wait"]
    BY <1>1 DEF Life!CycleSend
  <2>2. "cycle" \in DOMAIN [battery EXCEPT !.acks = <<>>]
    BY DEF LifeTypes
  <2>3. QED
    BY <1>1, <2>1, <2>2, RoundMoves, AwakeStep DEF Life!CycleSend, LifeTypes
<1>2. CASE Life!CycleTimeout
  BY <1>2, RoundMoves, AwakeStep DEF Life!CycleTimeout, Life!TimesOut, LifeTypes
<1>3. CASE Life!CycleAck
  BY <1>3, AwakeStep DEF Life!CycleAck, LifeTypes
<1>4. CASE Life!CycleObeys
  <2>1. /\ "cycle" \in DOMAIN [battery EXCEPT !.cycle = "account"]
        /\ [battery EXCEPT !.cycle = "account"].cycle # "asleep"
    BY DEF LifeTypes
  <2>2. QED
    BY <1>4, <2>1, ObeyKeeps DEF Life!CycleObeys
<1>5. CASE Life!CycleStays \/ Life!StayEnds \/ Life!CycleIdle
  BY <1>5, AwakeStep DEF Life!CycleStays, Life!StayEnds, Life!CycleIdle, LifeTypes
<1>6. CASE Life!Account
  BY <1>6, AccountKeeps
<1>7. CASE Life!Wake
  BY <1>7, RestartKeeps
  DEF Life!Wake, Life!RollsBack, LifeTypes, SleepsConfirmed, Life!Pending,
      Life!NeverRollsItselfBack
<1>8. CASE Life!TaskRests
  <2>1. battery' = [battery EXCEPT !.task = IF battery.power = 0 THEN "idle" ELSE @]
    BY <1>8 DEF Life!TaskRests, Life!AlwaysOn
  <2>2. QED
    BY <1>8, <2>1, AwakeStep DEF Life!TaskRests, LifeTypes
<1>9. CASE Life!TaskSend
  <2>1. PICK t : battery' = [battery EXCEPT !.acks = <<>>, !.task = t]
    BY <1>9 DEF Life!TaskSend
  <2>2. QED
    BY <1>9, <2>1, AwakeStep DEF Life!TaskSend, LifeTypes
<1>10. CASE Life!TaskTimeout
  BY <1>10, AwakeStep DEF Life!TaskTimeout, Life!TimesOut, LifeTypes
<1>11. CASE Life!TaskAck
  <2> DEFINE n == [battery EXCEPT !.task = "resting", !.acks = <<>>]
  <2>1. "cycle" \in DOMAIN n /\ n.cycle = battery.cycle
    BY DEF LifeTypes
  <2>2. \/ Life!ObeyMode(Head(battery.acks).arg, n)
        \/ battery' = n /\ UNCHANGED <<flash, lost>>
    BY <1>11 DEF Life!TaskAck
  <2>3. battery.cycle # "asleep"
    BY <1>11 DEF Life!TaskAck, Life!Awake
  <2> HIDE DEF n
  <2>4. QED
    BY <2>1, <2>2, <2>3, ObeyKeeps, AwakeStep
<1>12. CASE Life!HealthConfirm
  <2>1. PICK written \in BOOLEAN :
          flash' = IF written THEN Life!ConfirmFirst(flash, TRUE) ELSE flash
    BY <1>12 DEF Life!HealthConfirm
  <2>2. "image" \in DOMAIN flash'
    BY <2>1, ConfirmedFirst DEF LifeTypes
  <2>3. "cycle" \in DOMAIN battery' /\ battery'.cycle # "asleep" /\ lost' = lost
    BY <1>12 DEF Life!HealthConfirm, Life!Awake, LifeTypes
  <2>4. QED
    BY <2>2, <2>3 DEF LifeTypes, SleepsConfirmed, Life!NeverRollsItselfBack
<1>13. QED
  BY <1>1, <1>2, <1>3, <1>4, <1>5, <1>6, <1>7, <1>8, <1>9, <1>10, <1>11, <1>12 DEF Life!NodeStep

LEMMA LifeKept == LifeInv /\ [Life!Next]_(Life!vars) => LifeInv'
<1> SUFFICES ASSUME LifeInv, [Life!Next]_(Life!vars) PROVE LifeInv'
  OBVIOUS
<1>1. CASE Life!NodeStep
  BY <1>1, LifeSteps
<1>2. CASE Life!Delivered
  BY <1>2, AwakeStep DEF Life!Delivered, LifeInv, LifeTypes
<1>3. CASE Life!CheckinTask
  <2>1. \/ battery' = battery
        \/ \E q, h : battery' = [battery EXCEPT !.acks = q, !.healthy = h]
    BY <1>3 DEF Life!CheckinTask, Life!NodeHears
  <2>2. QED
    BY <1>3, <2>1, AwakeStep DEF Life!CheckinTask, LifeInv, LifeTypes
<1>4. CASE Life!SetDesired \/ Life!StartUpdate \/ Life!SessionGivenUp \/ Life!HubLeaves
           \/ Life!HubReturns \/ UNCHANGED Life!vars
  BY <1>4, AwakeStep DEF Life!SetDesired, Life!StartUpdate, Life!SessionGivenUp, Life!HubLeaves,
     Life!HubReturns, Life!vars, LifeInv, LifeTypes
<1>5. CASE Life!SessionOpens \/ Life!SessionDropped
  BY <1>5, AwakeStep DEF Life!SessionOpens, Life!SessionDropped, LifeInv, LifeTypes
<1>6. CASE Life!SessionInstalls \/ Life!Crash
  <2>1. \E f : "image" \in DOMAIN f /\ Life!Restart(f)
    BY <1>6 DEF Life!SessionInstalls, Life!Crash, LifeInv, LifeTypes
  <2>2. QED
    BY <1>6, <2>1, RestartKeeps
    DEF Life!SessionInstalls, Life!Crash, LifeInv, Life!NeverRollsItselfBack
<1>7. CASE Life!RoleRestart
  BY <1>7, RestartKeeps
  DEF Life!RoleRestart, Life!RollsBack, LifeInv, LifeTypes, Life!NeverRollsItselfBack
<1>8. CASE Life!Unpair
  <2>1. LifeTypes' /\ battery'.cycle = "portal"
    BY <1>8, BootedCycle, ResetKeeps DEF Life!Unpair, LifeInv, LifeTypes
  <2>2. QED
    BY <1>8, <2>1
    DEF Life!Unpair, Life!RollsBack, LifeInv, SleepsConfirmed, Life!NeverRollsItselfBack
<1>9. QED
  BY <1>1, <1>2, <1>3, <1>4, <1>5, <1>6, <1>7, <1>8 DEF Life!Next

-----------------------------------------------------------------------------
(* The behaviours of SwarmParts *)

\* Pairing: hub and node never hold different keys, whatever is lost, late, given up
\* on, retried, restarted or not written, and whenever windows are opened, but for the
\* three cases KeysAgree names.
THEOREM KeysKept == Spec => []KeysAgree
<1> DEFINE Inv == Of("adoption", AdoptionInv)
<1>1. Init => Inv
  BY AdoptionStarts DEF Init, Of
<1>2. Inv /\ [Next]_vars => Inv'
  <2>1. SUFFICES ASSUME Inv, [Next]_vars, follows' = "adoption"
                 PROVE  AdoptionInv'
    BY DEF Of
  <2>2. follows = "adoption" /\ [Adoption!Next]_adoptionVars
    BY <2>1 DEF Next, vars, adoptionVars
  <2>3. QED
    BY <2>1, <2>2, AdoptionStep DEF Of
<1>3. Inv => KeysAgree
  BY DEF Of, AdoptionInv, OneKey, AdoptionTypes, KeysMatch, HasAtMost, KeysAgree, Adoption!KeysAgree, Adoption!None
<1>4. QED
  BY <1>1, <1>2, <1>3, PTL DEF Spec

\* NodeConfig: the role the hub takes for done is stored by the node, unless a
\* write of it failed: for answers lost, late or of an older request, queues that
\* are full, and restarts of either side at any point.
THEOREM DoneRolePersisted == Spec => []DoneIsPersistedOrFailed
<1> DEFINE Inv == Of("radio role", RoleInv)
<1>1. Init => Inv
  BY RoleStarts DEF Init, Of
<1>2. Inv /\ [Next]_vars => Inv'
  <2>1. SUFFICES ASSUME Inv, [Next]_vars, follows' = "radio role"
                 PROVE  RoleInv'
    BY DEF Of
  <2>2. follows = "radio role" /\ [RadioRole!Next]_roleVars
    BY <2>1 DEF Next, vars, roleVars
  <2>3. QED
    BY <2>1, <2>2, RoleStep, SwarmPartsAssumption DEF Of
<1>3. Inv => DoneIsPersistedOrFailed
  <2>1. RoleInv => RadioRole!DoneIsPersisted \/ faults.write > 0
    <3>1. RoleInv => faults.write = 0 \/ faults.write > 0
      BY DEF RoleInv, RoleTypes
    <3>2. QED
      BY <3>1 DEF RoleInv, NobodyAhead, RadioRole!DoneIsPersisted
  <2>2. QED
    BY <2>1 DEF Of, DoneIsPersistedOrFailed, RadioRole!DoneIsPersistedOrFailed
<1>4. QED
  BY <1>1, <1>2, <1>3, PTL DEF Spec

\* Resync: a send reported as delivered was delivered.  A completion that comes
\* after its sender gave up, in the middle of another task's send, has an older
\* ticket than the one that task waits for.
THEOREM OkIsOwnAlways == Spec => []OkIsOwn
<1> DEFINE Inv == Of("link", LinkInv /\ RadioTyped)
<1>1. Init => Inv
  <2>1. SUFFICES ASSUME Init PROVE RadioTyped
    BY LinkStarts DEF Init, Of
  <2>2. Link!First \in Nat /\ Channels \subseteq Nat
    BY FirstIsChannel, SwarmPartsAssumption DEF SwarmPartsAssumption, Link!ResyncAssumption
  <2>3. QED
    BY <2>1, <2>2 DEF Init, Link!Init, RadioTyped
<1>2. Inv /\ [Next]_vars => Inv'
  <2>1. SUFFICES ASSUME Inv, [Next]_vars, follows' = "link"
                 PROVE  LinkInv' /\ RadioTyped'
    BY DEF Of
  <2>2. follows = "link" /\ [Link!Next]_linkVars
    BY <2>1 DEF Next, vars, linkVars
  <2>3. QED
    BY <2>1, <2>2, LinkStep, RadioKept, SwarmPartsAssumption DEF Of
<1>3. Inv => OkIsOwn
  BY DEF Of, LinkInv, OkIsHeard, OkIsOwn, Link!OkIsOwn
<1>4. QED
  BY <1>1, <1>2, <1>3, PTL DEF Spec

\* Forward: the registry regresses by no more than what the age of a reading leaves
\* out and the second the hub cannot tell apart, for any delays, failures, frames the
\* hub hears itself, and restarts with whatever snapshot was saved last.  Right after
\* one, what an age exceeds the uptime by is left out too: a value out of the snapshot,
\* which loads without its time, gives way to an older one by that much.
THEOREM RegressKept == Spec => []RegressIsBounded
<1> DEFINE Inv == Of("readings", ForwardInv)
<1>1. Init => Inv
  BY ForwardStarts DEF Init, Of
<1>2. Inv /\ [Next]_vars => Inv'
  <2>1. SUFFICES ASSUME Inv, [Next]_vars, follows' = "readings"
                 PROVE  ForwardInv'
    BY DEF Of
  <2>2. follows = "readings" /\ [Readings!Next]_readingVars
    BY <2>1 DEF Next, vars, readingVars
  <2>3. QED
    BY <2>1, <2>2, ForwardStep DEF Of
<1>3. Inv => RegressIsBounded
  BY DEF Of, ForwardInv, RegistryWell, RegressIsBounded, Readings!RegressIsBounded
<1>4. QED
  BY <1>1, <1>2, <1>3, PTL DEF Spec

LEMMA UpdateKept == Spec => []Of("update", UpdateInv)
<1> DEFINE Inv == Of("update", UpdateInv)
<1>1. Init => Inv
  BY UpdateStarts DEF Init, Of
<1>2. Inv /\ [Next]_vars => Inv'
  <2>1. SUFFICES ASSUME Inv, [Next]_vars, follows' = "update"
                 PROVE  UpdateInv'
    BY DEF Of
  <2>2. follows = "update" /\ [Update!Next]_updateVars
    BY <2>1 DEF Next, vars, updateVars
  <2>3. QED
    BY <2>1, <2>2, UpdateStep DEF Of
<1>3. QED
  BY <1>1, <1>2, PTL DEF Spec

\* NodeOta: no node boots, or would boot next, an image put together from two
\* updates, although chunks carry no session number.
THEOREM WholeImages == Spec => []NeverBootsMixed
<1>1. Of("update", UpdateInv) => NeverBootsMixed
  BY DEF Of, UpdateInv, Selection, NeverBootsMixed
<1>2. QED
  BY <1>1, UpdateKept, PTL

\* NodeOta: what the hub shows of its session is true of the node, whatever report
\* is late, lost, from another session or from before a restart.
THEOREM TruthBelieved == Spec => []HubBelievesTruth
<1>1. Of("update", UpdateInv) => HubBelievesTruth
  BY DEF Of, UpdateInv, HubBelievesTruth
<1>2. QED
  BY <1>1, UpdateKept, PTL

\* NodeOta: a parked session that was aborted has its semaphore given, or about
\* to be.
THEOREM ParkedIsReached == Spec => []AbortReachesParked
<1>1. Of("update", UpdateInv) => AbortReachesParked
  BY DEF Of, UpdateInv, AbortReachesParked
<1>2. QED
  BY <1>1, UpdateKept, PTL

\* NodeLife: a node never sleeps with its image on trial, nor restarts for a mode
\* with one it could have confirmed.  Only a power loss, a write of the confirmation
\* that failed, or one of the restarts that confirm nothing, for a radio role and
\* into the portal, can lose an update.
THEOREM ConfirmedBeforeSleep == Spec => []NeverRollsItselfBack
<1> DEFINE Inv == Of("life", LifeInv)
<1>1. Init => Inv
  BY LifeStarts DEF Init, Of
<1>2. Inv /\ [Next]_vars => Inv'
  <2>1. SUFFICES ASSUME Inv, [Next]_vars, follows' = "life"
                 PROVE  LifeInv'
    BY DEF Of
  <2>2. follows = "life" /\ [Life!Next]_lifeVars
    BY <2>1 DEF Next, vars, lifeVars
  <2>3. QED
    BY <2>1, <2>2, LifeKept DEF Of, lifeVars, Life!vars
<1>3. Inv => NeverRollsItselfBack
  BY DEF Of, LifeInv, NeverRollsItselfBack
<1>4. QED
  BY <1>1, <1>2, <1>3, PTL DEF Spec

=============================================================================
