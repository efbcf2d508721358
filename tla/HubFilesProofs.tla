------------------------------- MODULE HubFilesProofs ------------------------
(***************************************************************************)
(* Proofs about the parts of a hub that keep what a user saved on flash,   *)
(* for every value of their constants: the wrappers and the rules.  As in  *)
(* HubPartsProofs, each has an inductive invariant over its own state, and *)
(* the last section carries it to the behaviours of HubParts.              *)
(***************************************************************************)
EXTENDS HubParts, FiniteSets, TLAPS, WellFoundedInduction, FiniteSetTheorems

LEMMA LeastOf ==
  ASSUME NEW S, S \subseteq Nat, S # {}
  PROVE  \E c \in S : \A d \in S : c <= d
<1>1. PICK c \in S : \A d \in S : <<d, c>> \notin OpToRel(<, Nat)
  BY NatLessThanWellFounded, WFMin, Zenon
<1>2. \A d \in S : ~(d < c)
  BY <1>1 DEF OpToRel
<1>3. QED
  BY <1>2

-----------------------------------------------------------------------------
(* WrapperStore: what the index and the cache owe to the files *)

WrapperIds == Installed!Ids
Metas == [save : Nat, key : Keys \cup {0}]
Handlers ==
  [at : {"idle", "code", "meta", "ask", "remove code", "remove meta"},
   id : WrapperIds \cup {0}, save : Nat, key : Keys \cup {0}]
Scans == [at : {"boot", "scan", "prune", "idle"}, left : SUBSET WrapperIds, seen : Seq(WrapperIds)]

WrapperTypes ==
  /\ code \in [WrapperIds -> Nat] /\ meta \in [WrapperIds -> Metas]
  /\ \A id \in Installed!There : meta[id].key \in Keys
  /\ index \in [Keys -> WrapperIds \cup {0}] /\ cached \in [WrapperIds -> Nat]
  /\ scan \in Scans /\ (scan.at # "scan" => scan.left = {})
  /\ \A e \in wrappers : Installed!IdOf(e) \in WrapperIds
  /\ saving \in Handlers
  /\ saving.at \in {"code", "meta"} => saving.id \in WrapperIds /\ saving.key \in Keys
  /\ saved \in [changes : Nat, fails : Nat, crashes : Nat]

\* A request to re-index is there or is being made, or a file could not be written.
ReindexOwed == apart \/ pending \/ saving.at = "ask"

\* The index leads to a wrapper with the key, a file that is not indexed is still to be
\* read, and so is what the cache has an old copy of; or else a re-index is to come.
IndexHeld == \A k \in Keys : index[k] # 0 => ReindexOwed \/ meta[index[k]].key = k
FilesHeld ==
  \A id \in Installed!There :
    \/ ReindexOwed \/ index[meta[id].key] # 0 \/ Installed!Full(index)
    \/ scan.at = "boot" \/ id \in scan.left
CacheHeld ==
  \A id \in WrapperIds :
    \/ ReindexOwed \/ saving.at \in {"meta", "remove meta"} \/ scan.at # "idle"
    \/ cached[id] \in {0, code[id]}

WrapperInv == WrapperTypes /\ IndexHeld /\ FilesHeld /\ CacheHeld

LEMMA WrappersStart == Installed!Init => WrapperInv
<1> SUFFICES ASSUME Installed!Init PROVE WrapperInv
  OBVIOUS
<1>1. /\ code = [id \in WrapperIds |-> 0] /\ meta = [id \in WrapperIds |-> Installed!NoMeta]
      /\ wrappers = {} /\ index = [k \in Keys |-> 0] /\ cached = [id \in WrapperIds |-> 0]
      /\ saving = Installed!WebIdle /\ scan = Installed!Boot
      /\ saved = [changes |-> 0, fails |-> 0, crashes |-> 0]
  BY DEF Installed!Init, WrapperIds
<1>2. Installed!There = {} /\ Installed!NoMeta \in Metas
  BY <1>1 DEF Installed!There, Metas, Installed!NoMeta, WrapperIds
<1>3. scan \in Scans /\ scan.at = "boot" /\ scan.left = {}
  <2>1. <<>> \in Seq(WrapperIds)
    OBVIOUS
  <2>2. QED
    BY <1>1, <2>1 DEF Scans, Installed!Boot, Installed!NoScan
<1>4. WrapperTypes
  BY <1>1, <1>2, <1>3 DEF WrapperTypes, Installed!WebIdle, Handlers
<1>5. IndexHeld /\ FilesHeld /\ CacheHeld
  BY <1>1, <1>2 DEF IndexHeld, FilesHeld, CacheHeld
<1>6. QED
  BY <1>4, <1>5 DEF WrapperInv

\* The web server's task, under its lock: neither a file nor what is made of it changes.
LEMMA ChangeStep ==
  ASSUME WrapperInv,
         Installed!Create \/ Installed!Refused \/ Installed!Edit \/ Installed!Delete
  PROVE  WrapperInv'
<1>1. /\ saving = Installed!WebIdle /\ saved' = [saved EXCEPT !.changes = @ + 1]
      /\ UNCHANGED <<pending, index, cached, scan, apart, code, meta>>
  BY DEF Installed!Create, Installed!Refused, Installed!Edit, Installed!Delete, Installed!Change,
         Installed!webOnly
<1>2. WrapperTypes /\ IndexHeld /\ FilesHeld /\ CacheHeld
  BY DEF WrapperInv
<1>3. saved' \in [changes : Nat, fails : Nat, crashes : Nat] /\ saved.changes \in Nat
  BY <1>1, <1>2 DEF WrapperTypes
<1>4. /\ saving'.at # "ask" /\ (saving'.at = "meta" => FALSE)
      /\ \A e \in wrappers' : Installed!IdOf(e) \in WrapperIds
      /\ saving' \in Handlers
      /\ saving'.at \in {"code", "meta"} => saving'.id \in WrapperIds /\ saving'.key \in Keys
  <2>1. ASSUME NEW place, NEW id \in WrapperIds, NEW k \in Keys, Installed!Save(place, id, k)
        PROVE  <1>4
    <3>1. saving' = [at |-> "code", id |-> id, save |-> saved.changes + 1, key |-> k]
      BY <2>1 DEF Installed!Save
    <3>2. \A e \in wrappers' : e \in wrappers \/ e = <<place, id, k>>
      BY <2>1 DEF Installed!Save
    <3>3. saving' \in Handlers
      BY <1>3, <2>1, <3>1 DEF Handlers
    <3>4. \A e \in wrappers' : Installed!IdOf(e) \in WrapperIds
      BY <1>2, <2>1, <3>2 DEF WrapperTypes, Installed!IdOf
    <3>5. QED
      BY <2>1, <3>1, <3>3, <3>4
  <2>2. CASE Installed!Create
    BY <2>1, <2>2 DEF Installed!Create, WrapperIds
  <2>3. CASE Installed!Refused
    BY <1>1, <1>2, <2>3 DEF Installed!Refused, Installed!WebIdle, WrapperTypes
  <2>4. CASE Installed!Edit
    <3>1. PICK id \in {Installed!IdOf(e) : e \in wrappers}, k \in Keys :
            Installed!Save(Installed!FirstOf({Installed!Slot(e) :
              e \in {f \in wrappers : Installed!IdOf(f) = id}}), id, k)
      BY <2>4 DEF Installed!Edit
    <3>2. id \in WrapperIds
      BY <1>2 DEF WrapperTypes
    <3>3. QED
      BY <2>1, <3>1, <3>2
  <2>5. CASE Installed!Delete
    <3>1. PICK e \in wrappers :
            /\ wrappers' = wrappers \ {e}
            /\ saving' = [Installed!WebIdle EXCEPT !.at = "remove code", !.id = Installed!IdOf(e)]
      BY <2>5 DEF Installed!Delete
    <3>2. QED
      BY <1>2, <3>1 DEF WrapperTypes, Installed!WebIdle, Handlers
  <2>6. QED
    BY <2>2, <2>3, <2>4, <2>5
<1>5. WrapperTypes'
  BY <1>1, <1>2, <1>3, <1>4 DEF WrapperTypes, Installed!There
<1>6. ReindexOwed' <=> ReindexOwed
  BY <1>1, <1>4 DEF ReindexOwed, Installed!WebIdle
<1>7. IndexHeld' /\ FilesHeld' /\ CacheHeld'
  BY <1>1, <1>2, <1>4, <1>6 DEF IndexHeld, FilesHeld, CacheHeld, Installed!There, Installed!Full,
     Installed!WebIdle
<1>8. QED
  BY <1>5, <1>7 DEF WrapperInv

\* A file changes, and a request follows or the handler has given up.
LEMMA FileStep ==
  ASSUME WrapperInv,
         \/ Installed!WriteCode \/ Installed!WriteMeta \/ Installed!CannotWrite
         \/ Installed!RemoveCode \/ Installed!RemoveMeta \/ Installed!Ask
  PROVE  WrapperInv'
<1>1. UNCHANGED <<wrappers, index, cached, scan>>
  BY DEF Installed!WriteCode, Installed!WriteMeta, Installed!CannotWrite, Installed!RemoveCode,
         Installed!RemoveMeta, Installed!Ask, Installed!webOnly
<1>2. WrapperTypes /\ IndexHeld /\ FilesHeld /\ CacheHeld
  BY DEF WrapperInv
<1>0. saved' \in [changes : Nat, fails : Nat, crashes : Nat] /\ saving' \in Handlers
  <2>1. saved' = saved \/ saved' = [saved EXCEPT !.fails = @ + 1]
    BY DEF Installed!WriteCode, Installed!WriteMeta, Installed!CannotWrite, Installed!RemoveCode,
           Installed!RemoveMeta, Installed!Ask
  <2>2. saving' = Installed!WebIdle \/ \E at \in {"meta", "ask", "remove meta"} : saving' = [saving EXCEPT !.at = at]
    BY DEF Installed!WriteCode, Installed!WriteMeta, Installed!CannotWrite, Installed!RemoveCode,
           Installed!RemoveMeta, Installed!Ask
  <2>3. Installed!WebIdle \in Handlers
    BY DEF Installed!WebIdle, Handlers
  <2>4. saved' \in [changes : Nat, fails : Nat, crashes : Nat]
    BY <1>2, <2>1 DEF WrapperTypes
  <2>5. saving' \in Handlers
    BY <1>2, <2>2, <2>3 DEF WrapperTypes, Handlers
  <2>6. QED
    BY <2>4, <2>5
<1>3. CASE Installed!WriteCode
  <2>1. /\ saving.at = "code" /\ code' = [code EXCEPT ![saving.id] = saving.save]
        /\ saving' = [saving EXCEPT !.at = "meta"] /\ UNCHANGED <<meta, pending, apart>>
    BY <1>3 DEF Installed!WriteCode, Installed!webOnly
  <2>2. saving'.at = "meta" /\ saving'.id = saving.id /\ saving'.key = saving.key /\ saving'.save = saving.save
    BY <1>2, <2>1 DEF WrapperTypes, Handlers
  <2>3. saving.save \in Nat /\ code' \in [WrapperIds -> Nat] /\ saving.id \in WrapperIds /\ saving.key \in Keys
    BY <1>2, <2>1 DEF WrapperTypes, Handlers
  <2>4. WrapperTypes'
    BY <1>0, <1>1, <1>2, <2>1, <2>2, <2>3 DEF WrapperTypes, Installed!There
  <2>5. IndexHeld' /\ FilesHeld' /\ CacheHeld'
    BY <1>1, <1>2, <2>1, <2>2 DEF IndexHeld, FilesHeld, CacheHeld, ReindexOwed, Installed!There, Installed!Full
  <2>6. QED
    BY <2>4, <2>5 DEF WrapperInv
<1>4. CASE Installed!WriteMeta \/ Installed!RemoveMeta
  <2>1. ReindexOwed' /\ saving'.at = "ask" /\ code' = code
    BY <1>2, <1>4 DEF Installed!WriteMeta, Installed!RemoveMeta, ReindexOwed, WrapperTypes, Handlers
  <2>2. /\ meta' \in [WrapperIds -> Metas]
        /\ \A id \in Installed!There' : meta'[id].key \in Keys
    <3>1. PICK new \in Metas :
            /\ meta' = [meta EXCEPT ![saving.id] = new]
            /\ new = Installed!NoMeta \/ new.key \in Keys
      <4>1. CASE Installed!WriteMeta
        <5>1. [save |-> saving.save, key |-> saving.key] \in Metas /\ saving.key \in Keys
          BY <1>2, <4>1 DEF Installed!WriteMeta, WrapperTypes, Handlers, Metas
        <5>2. QED
          BY <4>1, <5>1 DEF Installed!WriteMeta
      <4>2. CASE Installed!RemoveMeta
        <5>1. Installed!NoMeta \in Metas
          BY DEF Installed!NoMeta, Metas
        <5>2. QED
          BY <4>2, <5>1 DEF Installed!RemoveMeta
      <4>3. QED
        BY <1>4, <4>1, <4>2
    <3>2. meta \in [WrapperIds -> Metas]
      BY <1>2 DEF WrapperTypes
    <3>3. \A id \in WrapperIds : meta'[id] = meta[id] \/ meta'[id] = new
      BY <3>1, <3>2
    <3>4. QED
      BY <1>2, <3>1, <3>2, <3>3 DEF WrapperTypes, Installed!There, WrapperIds
  <2>3. QED
    BY <1>0, <1>1, <1>2, <2>1, <2>2 DEF WrapperInv, WrapperTypes, IndexHeld, FilesHeld, CacheHeld
<1>5. CASE Installed!CannotWrite
  BY <1>0, <1>1, <1>2, <1>5
     DEF Installed!CannotWrite, WrapperInv, WrapperTypes, IndexHeld, FilesHeld, CacheHeld, ReindexOwed,
         Installed!WebIdle, Installed!There
<1>6. CASE Installed!RemoveCode
  <2>1. /\ saving.at = "remove code" /\ code' = [code EXCEPT ![saving.id] = 0]
        /\ saving'.at = "remove meta" /\ UNCHANGED <<meta, pending, apart>>
    BY <1>2, <1>6 DEF Installed!RemoveCode, Installed!webOnly, WrapperTypes, Handlers
  <2>2. QED
    BY <1>0, <1>1, <1>2, <2>1
       DEF WrapperInv, WrapperTypes, IndexHeld, FilesHeld, CacheHeld, ReindexOwed, Installed!There,
           Installed!Full
<1>7. CASE Installed!Ask
  BY <1>0, <1>1, <1>2, <1>7
     DEF Installed!Ask, WrapperInv, WrapperTypes, IndexHeld, FilesHeld, CacheHeld, ReindexOwed,
         Installed!WebIdle, Installed!There
<1>8. QED
  BY <1>3, <1>4, <1>5, <1>6, <1>7

\* The index begins again, and every file is still to be read.
LEMMA LoadStep ==
  ASSUME WrapperInv, Installed!Start \/ Installed!FirstLoad
  PROVE  WrapperInv'
<1>1. /\ index' = [k \in Keys |-> 0] /\ scan' = [at |-> "scan", left |-> Installed!There, seen |-> <<>>]
      /\ UNCHANGED <<code, meta, saving, apart, saved, wrappers, cached>>
  BY DEF Installed!Start, Installed!FirstLoad, Installed!LoadAll, Installed!decoderOnly
<1>2. WrapperTypes
  BY DEF WrapperInv
<1>3. scan' \in Scans
  <2>1. Installed!There \subseteq WrapperIds /\ <<>> \in Seq(WrapperIds)
    BY DEF Installed!There, WrapperIds
  <2>2. QED
    BY <1>1, <2>1 DEF Scans
<1>4. WrapperTypes'
  BY <1>1, <1>2, <1>3 DEF WrapperTypes, Installed!There
<1>5. IndexHeld' /\ FilesHeld' /\ CacheHeld'
  BY <1>1 DEF IndexHeld, FilesHeld, CacheHeld, Installed!There
<1>6. QED
  BY <1>4, <1>5 DEF WrapperInv

\* A file that is read is indexed, or the key has an owner, or the index is full.
LEMMA ReadOne ==
  ASSUME WrapperTypes, NEW id \in Installed!There
  PROVE  LET ix == Installed!Indexed(index, id)
         IN  /\ ix \in [Keys -> WrapperIds \cup {0}]
             /\ ix[meta[id].key] # 0 \/ Installed!Full(ix)
             /\ Installed!Full(index) => Installed!Full(ix)
             /\ \A k \in Keys : index[k] # 0 => ix[k] = index[k]
             /\ \A k \in Keys : index[k] = 0 /\ ix[k] # 0 => ix[k] = id /\ meta[id].key = k
<1>1. meta[id].key \in Keys /\ id \in WrapperIds /\ 0 \notin WrapperIds
  BY DEF WrapperTypes, WrapperIds, Installed!Ids, Installed!There
<1>2. CASE index[meta[id].key] = 0 /\ ~Installed!Full(index)
  <2>1. Installed!Indexed(index, id) = [index EXCEPT ![meta[id].key] = id]
    BY <1>2 DEF Installed!Indexed
  <2>2. QED
    BY <1>1, <1>2, <2>1 DEF WrapperTypes
<1>3. CASE ~(index[meta[id].key] = 0 /\ ~Installed!Full(index))
  <2>1. Installed!Indexed(index, id) = index
    BY <1>3 DEF Installed!Indexed
  <2>2. QED
    BY <1>3, <2>1 DEF WrapperTypes
<1>4. QED
  BY <1>2, <1>3

LEMMA ScanStep == ASSUME WrapperInv, Installed!ScanOne PROVE WrapperInv'
<1>1. WrapperTypes /\ IndexHeld /\ FilesHeld /\ CacheHeld
  BY DEF WrapperInv
<1>2. PICK id \in scan.left \cup (Installed!There \ Installed!Range(scan.seen)) :
        /\ scan' = [scan EXCEPT !.left = @ \ {id}, !.seen = Append(@, id)]
        /\ IF id \in Installed!There
           THEN wrappers' = Installed!LoadOne(wrappers, id) /\ index' = Installed!Indexed(index, id)
           ELSE UNCHANGED <<wrappers, index>>
  BY DEF Installed!ScanOne
<1>3. UNCHANGED <<code, meta, saving, apart, saved, pending, cached>> /\ scan.at = "scan"
  BY DEF Installed!ScanOne, Installed!decoderOnly
<1>4. id \in WrapperIds
  BY <1>1 DEF WrapperTypes, Scans, Installed!There, WrapperIds
<1>5. scan' \in Scans /\ scan'.at = "scan" /\ scan'.left = scan.left \ {id}
  <2>1. scan.seen \in Seq(WrapperIds) /\ scan.left \in SUBSET WrapperIds
    BY <1>1 DEF WrapperTypes, Scans
  <2>2. Append(scan.seen, id) \in Seq(WrapperIds)
    BY <1>4, <2>1
  <2>3. QED
    BY <1>1, <1>2, <1>3, <2>1, <2>2 DEF WrapperTypes, Scans
<1>6. \A e \in wrappers' : Installed!IdOf(e) \in WrapperIds
  <2>1. \A e \in wrappers' : e \in wrappers \/ Installed!IdOf(e) = id
    <3> DEFINE old == {e \in wrappers : Installed!IdOf(e) = id}
               free == 1 .. WrapperSlots \ {Installed!Slot(e) : e \in wrappers}
               place == IF old # {} THEN Installed!FirstOf({Installed!Slot(e) : e \in old})
                       ELSE Installed!FirstOf(free)
    <3>1. \/ wrappers' = wrappers
          \/ wrappers' = {e \in wrappers : Installed!Slot(e) # place} \cup {<<place, id, meta[id].key>>}
      BY <1>2 DEF Installed!LoadOne
    <3> HIDE DEF place
    <3>2. QED
      BY <3>1 DEF Installed!IdOf
  <2>2. QED
    BY <1>1, <1>4, <2>1 DEF WrapperTypes
<1>7. CASE id \in Installed!There
  <2>1. index' = Installed!Indexed(index, id)
    BY <1>2, <1>7
  <2>2. /\ index' \in [Keys -> WrapperIds \cup {0}]
        /\ index'[meta[id].key] # 0 \/ Installed!Full(index')
        /\ Installed!Full(index) => Installed!Full(index')
        /\ \A k \in Keys : index[k] # 0 => index'[k] = index[k]
        /\ \A k \in Keys : index[k] = 0 /\ index'[k] # 0 => index'[k] = id /\ meta[id].key = k
    BY <1>1, <1>7, <2>1, ReadOne
  <2>3. WrapperTypes'
    BY <1>1, <1>3, <1>5, <1>6, <2>2 DEF WrapperTypes, Installed!There
  <2>4. IndexHeld'
    BY <1>1, <1>3, <2>2 DEF IndexHeld, ReindexOwed
  <2>5. FilesHeld'
    <3> SUFFICES ASSUME NEW other \in Installed!There, ~ReindexOwed
                 PROVE  index'[meta[other].key] # 0 \/ Installed!Full(index') \/ other \in scan'.left
      BY <1>3 DEF FilesHeld, ReindexOwed, Installed!There, Installed!Full
    <3>1. meta[other].key \in Keys
      BY <1>1 DEF WrapperTypes
    <3>2. QED
      BY <1>1, <1>3, <1>5, <2>2, <3>1 DEF FilesHeld
  <2>6. CacheHeld'
    BY <1>3, <1>5 DEF CacheHeld
  <2>7. QED
    BY <2>3, <2>4, <2>5, <2>6 DEF WrapperInv
<1>8. CASE id \notin Installed!There
  <2>1. index' = index
    BY <1>2, <1>8
  <2>2. WrapperTypes'
    BY <1>1, <1>3, <1>5, <1>6, <2>1 DEF WrapperTypes, Installed!There
  <2>3. IndexHeld' /\ FilesHeld' /\ CacheHeld'
    BY <1>1, <1>3, <1>5, <1>8, <2>1
       DEF IndexHeld, FilesHeld, CacheHeld, ReindexOwed, Installed!There, Installed!Full
  <2>4. QED
    BY <2>2, <2>3 DEF WrapperInv
<1>9. QED
  BY <1>7, <1>8

LEMMA DecoderStep ==
  ASSUME WrapperInv, Installed!ScanEnds \/ Installed!Prune \/ Installed!Match
  PROVE  WrapperInv'
<1>1. WrapperTypes /\ IndexHeld /\ FilesHeld /\ CacheHeld
  BY DEF WrapperInv
<1>2. UNCHANGED <<code, meta, saving, apart, saved, index, pending>>
  BY DEF Installed!ScanEnds, Installed!Prune, Installed!Match, Installed!decoderOnly, Installed!Taken
<1>3. CASE Installed!ScanEnds
  <2>1. /\ scan' = [scan EXCEPT !.at = "prune"] /\ scan.at = "scan" /\ scan.left = {}
        /\ UNCHANGED <<wrappers, cached>>
    BY <1>3 DEF Installed!ScanEnds
  <2>2. scan' \in Scans /\ scan'.at = "prune" /\ scan'.left = {}
    BY <1>1, <2>1 DEF WrapperTypes, Scans
  <2>3. QED
    BY <1>1, <1>2, <2>1, <2>2
       DEF WrapperInv, WrapperTypes, IndexHeld, FilesHeld, CacheHeld, ReindexOwed, Installed!There,
           Installed!Full
<1>4. CASE Installed!Prune
  <2>1. /\ scan.at = "prune" /\ scan' = Installed!NoScan /\ wrappers' \subseteq wrappers
        /\ cached' = [id \in WrapperIds |-> 0]
    BY <1>4 DEF Installed!Prune, WrapperIds
  <2>2. scan' \in Scans /\ scan.left \in SUBSET WrapperIds
    <3>1. <<>> \in Seq(WrapperIds)
      OBVIOUS
    <3>2. QED
      BY <1>1, <2>1, <3>1 DEF WrapperTypes, Scans, Installed!NoScan
  <2>3. cached' \in [WrapperIds -> Nat] /\ scan'.at = "idle" /\ scan'.left = {} /\ scan.left = {}
    BY <1>1, <2>1 DEF Installed!NoScan, WrapperTypes
  <2>4. WrapperTypes'
    BY <1>1, <1>2, <2>1, <2>2, <2>3 DEF WrapperTypes, Installed!There
  <2>5. IndexHeld' /\ FilesHeld' /\ CacheHeld'
    BY <1>1, <1>2, <2>1, <2>3 DEF IndexHeld, FilesHeld, CacheHeld, ReindexOwed, Installed!There, Installed!Full
  <2>6. QED
    BY <2>4, <2>5 DEF WrapperInv
<1>5. CASE Installed!Match
  <2>1. PICK k \in Keys : index[k] # 0 /\ cached' = [cached EXCEPT ![index[k]] = code[index[k]]]
    BY <1>5 DEF Installed!Match
  <2>2. index[k] \in WrapperIds /\ UNCHANGED <<scan, wrappers>>
    BY <1>1, <1>5, <2>1 DEF WrapperTypes, Installed!Match
  <2>3. WrapperTypes'
    BY <1>1, <1>2, <2>1, <2>2 DEF WrapperTypes, Installed!There
  <2>4. CacheHeld'
    BY <1>1, <1>2, <2>1, <2>2 DEF WrapperTypes, CacheHeld, ReindexOwed
  <2>5. IndexHeld' /\ FilesHeld'
    BY <1>1, <1>2, <2>2 DEF IndexHeld, FilesHeld, ReindexOwed, Installed!There, Installed!Full
  <2>6. QED
    BY <2>3, <2>4, <2>5 DEF WrapperInv
<1>6. QED
  BY <1>3, <1>4, <1>5

LEMMA WrapperStep == WrapperInv /\ [Installed!Next]_wrapperVars => WrapperInv'
<1> SUFFICES ASSUME WrapperInv, [Installed!Next]_wrapperVars PROVE WrapperInv'
  OBVIOUS
<1>1. CASE Installed!Restart
  <2>1. /\ code' = code /\ meta' = meta /\ wrappers' = {} /\ index' = [k \in Keys |-> 0]
        /\ cached' = [id \in WrapperIds |-> 0] /\ saving' = Installed!WebIdle
        /\ scan' = Installed!Boot /\ saved' = [saved EXCEPT !.crashes = @ + 1]
    BY <1>1 DEF Installed!Restart, WrapperIds
  <2>2. scan' \in Scans /\ scan'.at = "boot" /\ scan'.left = {}
    <3>1. <<>> \in Seq(WrapperIds)
      OBVIOUS
    <3>2. QED
      BY <2>1, <3>1 DEF Scans, Installed!Boot, Installed!NoScan
  <2>3. WrapperTypes
    BY DEF WrapperInv
  <2>4. saving' \in Handlers /\ saved' \in [changes : Nat, fails : Nat, crashes : Nat]
    <3>1. Installed!WebIdle \in Handlers
      BY DEF Installed!WebIdle, Handlers
    <3>2. saved \in [changes : Nat, fails : Nat, crashes : Nat]
      BY <2>3 DEF WrapperTypes
    <3>3. QED
      BY <2>1, <3>1, <3>2
  <2>5. WrapperTypes'
    <3>1. index' \in [Keys -> WrapperIds \cup {0}] /\ cached' \in [WrapperIds -> Nat]
      BY <2>1
    <3>2. Installed!There' = Installed!There /\ saving'.at = "idle"
      BY <2>1 DEF Installed!There, Installed!WebIdle
    <3>3. QED
      BY <2>1, <2>2, <2>3, <2>4, <3>1, <3>2 DEF WrapperTypes
  <2>6. IndexHeld' /\ FilesHeld' /\ CacheHeld'
    BY <2>1, <2>2 DEF IndexHeld, FilesHeld, CacheHeld
  <2>7. QED
    BY <2>5, <2>6 DEF WrapperInv
<1>2. CASE UNCHANGED wrapperVars
  BY <1>2 DEF wrapperVars, WrapperInv, WrapperTypes, IndexHeld, FilesHeld, CacheHeld, ReindexOwed,
              Installed!There, Installed!Full
<1>3. QED
  BY <1>1, <1>2, ChangeStep, FileStep, LoadStep, ScanStep, DecoderStep DEF Installed!Next

LEMMA WrapOk == WrapperInv => Installed!MatchesWhatIsSaved
<1> SUFFICES ASSUME WrapperInv, Installed!Settled, ~apart PROVE Installed!MatchesWhatIsSaved
  BY DEF Installed!MatchesWhatIsSaved
<1>1. ~ReindexOwed /\ scan.at = "idle" /\ scan.left = {} /\ saving.at = "idle"
  BY DEF Installed!Settled, ReindexOwed, Installed!NoScan, Installed!WebIdle
<1>2. QED
  BY <1>1 DEF Installed!MatchesWhatIsSaved, WrapperInv, IndexHeld, FilesHeld, CacheHeld, WrapperIds

-----------------------------------------------------------------------------
(* RulesStore: what the table, the files and the web server's task owe to the saves *)

RuleIds == Rules!Ids
RuleMetas == [save : Nat, on : BOOLEAN]
RuleRows == [id : RuleIds \cup {0}, save : Nat, on : BOOLEAN]
RuleTasks ==
  [at : {"idle", "psrc", "psbc", "json", "switch", "remove psrc", "remove psbc", "remove json"},
   rule : RuleRows]
RulePasts == [ok : Nat, on : SUBSET BOOLEAN, own : SUBSET Nat, failed : BOOLEAN]

RulesTypes ==
  /\ psrc \in [RuleIds -> Nat] /\ psbc \in [RuleIds -> Nat] /\ json \in [RuleIds -> RuleMetas]
  /\ rules \in [RuleSlots -> RuleRows] /\ nextRule \in Nat /\ loading \in {"load", "up"}
  /\ seen \subseteq RuleIds /\ editing \in RuleTasks /\ past \in [RuleIds -> RulePasts]
  /\ ruled \in [changes : Nat, fails : Nat, crashes : Nat]

\* The task is in an upsert of the rule, or in its deletion.
Upserts(w, id) == w.at \in {"psrc", "psbc", "json"} /\ w.rule.id = id
Deletes(w, id) == w.at \in {"remove psrc", "remove psbc", "remove json"} /\ w.rule.id = id

\* Of the files of one rule, whose history is p, after n requests.
FilesOwed(p, src, bc, j, n) ==
  /\ p.own \subseteq 1 .. n
  /\ j # Rules!NoMeta => j.save \in p.own /\ j.on \in p.on
  /\ p.ok # 0 => {src, bc, j.save} \subseteq {m \in p.own : m >= p.ok}
  /\ j # Rules!NoMeta /\ bc # 0 /\ ~p.failed => bc \in p.own /\ bc >= j.save

\* Of its row: a later save than the files' is being written, or a write failed.
RowOwed(r, p, bc, j, w) ==
  /\ r.id \in RuleIds /\ r.save \in p.own /\ r.save >= p.ok
  /\ j # Rules!NoMeta => r.on \in p.on
  /\ j = Rules!NoMeta => p.failed \/ Upserts(w, r.id)
  /\ bc # 0 /\ ~p.failed => bc >= r.save \/ (Upserts(w, r.id) /\ w.at # "json")

OnFlash ==
  \A id \in RuleIds : FilesOwed(past[id], psrc[id], psbc[id], json[id], ruled.changes)
InTable ==
  \A s \in RuleSlots : rules[s] # Rules!NoRule =>
    RowOwed(rules[s], past[rules[s].id], psbc[rules[s].id], json[rules[s].id], editing)
OnceEach ==
  \A s, q \in RuleSlots : rules[s] # Rules!NoRule /\ rules[q].id = rules[s].id => q = s

\* No id in use is given again; and while the files are read, only what was read is used.
Numbered ==
  /\ loading = "up" =>
       /\ \A s \in RuleSlots : rules[s] # Rules!NoRule => rules[s].id < nextRule
       /\ \A id \in Rules!There : id < nextRule
  /\ loading = "load" =>
       /\ \A s \in RuleSlots : rules[s] # Rules!NoRule => rules[s].id \in seen \cap Rules!There
       /\ \A id : Deletes(editing, id) => id \in seen

\* How far the task is with the rule in its hand.
InHand ==
  LET r == editing.rule
  IN  /\ editing.at \in {"psrc", "psbc", "json", "switch"} =>
           r # Rules!NoRule /\ \E s \in RuleSlots : rules[s] = r
      /\ editing.at \in {"psrc", "psbc", "json"} => r.save = ruled.changes
      /\ editing.at \in {"psbc", "json"} => psrc[r.id] = r.save
      /\ editing.at = "json" => psbc[r.id] = r.save
      /\ \A id : Deletes(editing, id) =>
           id \in RuleIds /\ past[id].ok = 0 /\ \A s \in RuleSlots : rules[s].id # id

\* Every meta file has a slot, or is sure to find one.
Fits ==
  ~stray =>
    /\ Cardinality(Rules!There) <= Cardinality(RuleSlots)
    /\ \A id \in Rules!There :
         id \in Rules!Known \/ Deletes(editing, id) \/ (loading = "load" /\ id \notin seen)
    /\ loading = "load" => Cardinality(Rules!There \ seen) <= Cardinality(Rules!Free)

RulesHeld ==
  RulesTypes /\ OnFlash /\ InTable /\ OnceEach /\ Numbered /\ InHand /\ Fits
RulesInv == ~between => RulesHeld

LEMMA SlotsFinite ==
  /\ IsFiniteSet(RuleSlots) /\ IsFiniteSet(RuleIds) /\ RuleSlots \subseteq Nat /\ RuleIds \subseteq Nat
  /\ LastId \in Nat
<1>1. IsFiniteSet(RuleSlots) /\ RuleSlots \subseteq Nat /\ LastId \in Nat
  BY HubPartsAssumption DEF Rules!RulesStoreAssumption, Rules!IsFiniteSet, IsFiniteSet
<1>2. 1 \in Int /\ LastId \in Int
  BY <1>1
<1>3. IsFiniteSet(1 .. LastId)
  BY <1>2, FS_Interval
<1>4. QED
  BY <1>1, <1>3 DEF RuleIds, Rules!Ids

LEMMA RulesStart == Rules!Init => RulesInv
<1> SUFFICES ASSUME Rules!Init PROVE RulesHeld
  BY DEF RulesInv
<1>1. /\ psrc = [id \in RuleIds |-> 0] /\ psbc = [id \in RuleIds |-> 0]
      /\ json = [id \in RuleIds |-> Rules!NoMeta] /\ rules = [s \in RuleSlots |-> Rules!NoRule]
      /\ nextRule = 1 /\ loading = "load" /\ seen = {} /\ editing = Rules!WebIdle
      /\ past = [id \in RuleIds |-> Rules!NoPast]
      /\ ruled = [changes |-> 0, fails |-> 0, crashes |-> 0]
  BY DEF Rules!Init, RuleIds, Rules!NoTable
<1>2. Rules!There = {}
  BY <1>1 DEF Rules!There, RuleIds
<1>3. Rules!NoMeta \in RuleMetas /\ Rules!NoRule \in RuleRows /\ Rules!NoPast \in RulePasts
  BY DEF Rules!NoMeta, RuleMetas, Rules!NoRule, RuleRows, Rules!NoPast, RulePasts
<1>4. editing \in RuleTasks /\ editing.at = "idle"
  BY <1>1, <1>3 DEF Rules!WebIdle, RuleTasks
<1>5. RulesTypes
  BY <1>1, <1>3, <1>4 DEF RulesTypes
<1>6. \A id : ~Deletes(editing, id)
  BY <1>4 DEF Deletes
<1>7. OnFlash
  BY <1>1 DEF OnFlash, FilesOwed, Rules!NoPast
<1>8. InTable /\ OnceEach /\ Numbered /\ InHand
  BY <1>1, <1>4, <1>6 DEF InTable, OnceEach, Numbered, InHand
<1>9. Fits
  <2>1. Cardinality({}) = 0 /\ {} \ seen = {}
    BY FS_EmptySet
  <2>2. IsFiniteSet(Rules!Free) /\ IsFiniteSet(RuleSlots)
    BY SlotsFinite, FS_Subset DEF Rules!Free
  <2>3. Cardinality(Rules!Free) \in Nat /\ Cardinality(RuleSlots) \in Nat
    BY <2>2, FS_CardinalityType
  <2>4. QED
    BY <1>2, <2>1, <2>3 DEF Fits
<1>10. QED
  BY <1>5, <1>7, <1>8, <1>9 DEF RulesHeld

\* The slot a rule is in, and the first free one.
LEMMA RowThere ==
  ASSUME RulesHeld, NEW id \in Rules!Known
  PROVE  \E s \in RuleSlots :
           /\ rules[s].id = id /\ rules[s] # Rules!NoRule /\ id \in RuleIds
           /\ Rules!SlotsOf(id) = {s} /\ Rules!Min(Rules!SlotsOf(id)) = s
<1>1. PICK s \in RuleSlots : rules[s].id = id /\ id # 0
  BY DEF Rules!Known
<1>2. rules[s] # Rules!NoRule
  BY <1>1 DEF Rules!NoRule
<1>3. id \in RuleIds
  BY <1>1, <1>2 DEF RulesHeld, InTable, RowOwed
<1>4. Rules!SlotsOf(id) = {s}
  BY <1>1, <1>2 DEF RulesHeld, OnceEach, Rules!SlotsOf
<1>5. s <= s
  BY SlotsFinite
<1>6. Rules!Min({s}) = s
  BY <1>5 DEF Rules!Min
<1>7. QED
  BY <1>1, <1>2, <1>3, <1>4, <1>6

LEMMA FirstFree ==
  ASSUME Rules!Free # {}
  PROVE  Rules!Min(Rules!Free) \in RuleSlots /\ rules[Rules!Min(Rules!Free)] = Rules!NoRule
<1>1. Rules!Free \subseteq Nat
  BY SlotsFinite DEF Rules!Free
<1>2. \E c \in Rules!Free : \A d \in Rules!Free : c <= d
  BY <1>1, LeastOf
<1>3. Rules!Min(Rules!Free) \in Rules!Free
  BY <1>2 DEF Rules!Min
<1>4. QED
  BY <1>3 DEF Rules!Free

\* load_one(): the slot it takes is there, as there are no more files than slots.
LEMMA LoadOneStep ==
  ASSUME RulesHeld, Rules!LoadOne
  PROVE  RulesHeld'
<1>1. PICK id \in Rules!There \ seen :
        /\ seen' = seen \cup {id}
        /\ rules' = IF Rules!Free = {} THEN rules
                    ELSE [rules EXCEPT ![Rules!Min(Rules!Free)] =
                                         [id |-> id, save |-> json[id].save, on |-> json[id].on]]
  BY DEF Rules!LoadOne
<1>2. loading = "load" /\ UNCHANGED <<psrc, psbc, json, nextRule, loading, editing, past, stray, ruled>>
  BY DEF Rules!LoadOne, Rules!files
<1>3. id \in RuleIds /\ id # 0 /\ json[id] # Rules!NoMeta /\ id \notin seen /\ id \in Rules!There
  BY SlotsFinite DEF Rules!There, RuleIds, Rules!Ids
<1> DEFINE r == [id |-> id, save |-> json[id].save, on |-> json[id].on]
<1>4. json[id].save \in Nat /\ json[id].on \in BOOLEAN
  BY <1>3 DEF RulesHeld, RulesTypes, RuleMetas
<1>5. r \in RuleRows /\ r # Rules!NoRule
  BY <1>3, <1>4 DEF RuleRows, Rules!NoRule
<1>6. RowOwed(r, past[id], psbc[id], json[id], editing)
  <2>1. FilesOwed(past[id], psrc[id], psbc[id], json[id], ruled.changes)
    BY <1>3 DEF RulesHeld, OnFlash
  <2>2. past[id].ok \in Nat
    BY <1>3 DEF RulesHeld, RulesTypes, RulePasts
  <2>3. QED
    BY <1>3, <1>4, <2>1, <2>2 DEF FilesOwed, RowOwed
<1>7. r.id = id
  OBVIOUS
<1> HIDE DEF r
<1>8. \A s \in RuleSlots : rules[s] # Rules!NoRule => rules[s].id \in seen
  BY <1>2 DEF RulesHeld, Numbered
<1>9. Rules!There' = Rules!There
  BY <1>2 DEF Rules!There
<1>10. OnFlash'
  BY <1>2 DEF RulesHeld, OnFlash
<1>11. CASE Rules!Free = {}
  <2>1. rules' = rules
    BY <1>1, <1>11
  <2>2. RulesTypes'
    BY <1>1, <1>2, <1>3, <2>1 DEF RulesHeld, RulesTypes
  <2>3. InTable' /\ OnceEach' /\ InHand'
    BY <1>2, <2>1 DEF RulesHeld, InTable, OnceEach, InHand
  <2>4. Numbered'
    BY <1>1, <1>2, <1>9, <2>1 DEF RulesHeld, Numbered
  <2>5. stray
    <3>1. SUFFICES ASSUME ~stray PROVE FALSE
      OBVIOUS
    <3>2. Cardinality(Rules!There \ seen) <= 0
      BY <1>2, <1>11, <3>1, FS_EmptySet DEF RulesHeld, Fits
    <3>3. IsFiniteSet(Rules!There \ seen)
      BY SlotsFinite, FS_Subset DEF Rules!There, RuleIds
    <3>4. Cardinality(Rules!There \ seen) = 0
      BY <3>2, <3>3, FS_CardinalityType
    <3>5. QED
      BY <3>3, <3>4, FS_EmptySet
  <2>6. Fits'
    BY <1>2, <2>5 DEF Fits
  <2>7. QED
    BY <1>10, <2>2, <2>3, <2>4, <2>6 DEF RulesHeld
<1>12. CASE Rules!Free # {}
  <2>1. PICK s \in RuleSlots :
          rules[s] = Rules!NoRule /\ s \in Rules!Free /\ rules' = [rules EXCEPT ![s] = r]
    BY <1>1, <1>12, FirstFree DEF r, Rules!Free
  <2>2. /\ rules' \in [RuleSlots -> RuleRows] /\ rules'[s] = r
        /\ \A q \in RuleSlots : q # s => rules'[q] = rules[q]
    BY <1>5, <2>1 DEF RulesHeld, RulesTypes
  <2>3. RulesTypes'
    BY <1>1, <1>2, <1>3, <2>2 DEF RulesHeld, RulesTypes
  <2>4. InTable'
    <3>1. ASSUME NEW q \in RuleSlots, rules'[q] # Rules!NoRule
          PROVE  RowOwed(rules'[q], past[rules'[q].id], psbc[rules'[q].id], json[rules'[q].id], editing)
      <4>1. CASE q = s
        BY <1>6, <1>7, <2>2, <4>1
      <4>2. CASE q # s
        BY <2>2, <3>1, <4>2 DEF RulesHeld, InTable
      <4>3. QED
        BY <4>1, <4>2
    <3>2. QED
      BY <1>2, <3>1 DEF InTable
  <2>5. OnceEach'
    BY <1>3, <1>5, <1>7, <1>8, <2>2 DEF RulesHeld, OnceEach, Rules!NoRule
  <2>6. Numbered'
    BY <1>1, <1>2, <1>3, <1>7, <1>9, <2>2 DEF RulesHeld, Numbered
  <2>7. InHand'
    <3>1. \A x : Deletes(editing, x) => x # id
      BY <1>2, <1>3 DEF RulesHeld, Numbered
    <3>2. \A x : Deletes(editing, x) =>
            x \in RuleIds /\ past[x].ok = 0 /\ \A q \in RuleSlots : rules'[q].id # x
      BY <1>7, <2>2, <3>1 DEF RulesHeld, InHand
    <3>3. editing.rule # Rules!NoRule /\ (\E q \in RuleSlots : rules[q] = editing.rule) =>
            \E q \in RuleSlots : rules'[q] = editing.rule
      BY <2>1, <2>2
    <3>4. QED
      BY <1>2, <3>2, <3>3 DEF RulesHeld, InHand
  <2>8. Fits'
    <3>1. SUFFICES ASSUME ~stray PROVE Fits'
      BY <1>2 DEF Fits
    <3>2. Rules!There' \ seen' = (Rules!There \ seen) \ {id} /\ Rules!Free' = Rules!Free \ {s}
      BY <1>1, <1>5, <1>9, <2>2 DEF Rules!Free
    <3>3. IsFiniteSet(Rules!There \ seen) /\ IsFiniteSet(Rules!Free)
      BY SlotsFinite, FS_Subset DEF Rules!There, Rules!Free, RuleIds
    <3>4. /\ Cardinality((Rules!There \ seen) \ {id}) = Cardinality(Rules!There \ seen) - 1
          /\ Cardinality(Rules!Free \ {s}) = Cardinality(Rules!Free) - 1
      BY <1>3, <2>1, <3>3, FS_RemoveElement
    <3>5. Cardinality(Rules!There \ seen) \in Nat /\ Cardinality(Rules!Free) \in Nat
      BY <3>3, FS_CardinalityType
    <3>6. Cardinality(Rules!There' \ seen') <= Cardinality(Rules!Free')
      <4>1. Cardinality(Rules!There \ seen) <= Cardinality(Rules!Free)
        BY <1>2, <3>1 DEF RulesHeld, Fits
      <4>2. PICK a \in Nat, b \in Nat :
              a = Cardinality(Rules!There \ seen) /\ b = Cardinality(Rules!Free)
        BY <3>5
      <4>3. a - 1 <= b - 1
        BY <4>1, <4>2
      <4>4. QED
        BY <3>2, <3>4, <4>2, <4>3
    <3>7. Rules!Known \cup {id} \subseteq Rules!Known'
      <4>1. id \in Rules!Known'
        BY <1>3, <1>7, <2>2 DEF Rules!Known
      <4>2. ASSUME NEW x \in Rules!Known PROVE x \in Rules!Known'
        <5>1. PICK q \in RuleSlots : rules[q].id = x /\ x # 0
          BY DEF Rules!Known
        <5>2. rules'[q].id = x
          BY <2>1, <2>2, <5>1 DEF Rules!NoRule
        <5>3. QED
          BY <5>1, <5>2 DEF Rules!Known
      <4>3. QED
        BY <4>1, <4>2
    <3>8. \A x \in Rules!There :
            x \in Rules!Known' \/ Deletes(editing, x) \/ (loading = "load" /\ x \notin seen')
      BY <1>1, <3>1, <3>7 DEF RulesHeld, Fits
    <3>9. QED
      BY <1>2, <1>9, <3>1, <3>6, <3>8 DEF RulesHeld, Fits
  <2>9. QED
    BY <1>10, <2>3, <2>4, <2>5, <2>6, <2>7, <2>8 DEF RulesHeld
<1>13. QED
  BY <1>11, <1>12

\* A set of ids has a greatest.
LEMMA GreatestOf ==
  ASSUME NEW S, S \subseteq RuleIds, S # {}
  PROVE  \E c \in S : \A d \in S : c >= d
<1> DEFINE Above == {m \in Nat : \A d \in S : m >= d}
<1>1. Above \subseteq Nat /\ LastId \in Above /\ S \subseteq Nat /\ \A d \in S : d >= 1
  BY SlotsFinite DEF RuleIds, Rules!Ids
<1>2. PICK c \in Above : \A m \in Above : c <= m
  BY <1>1, LeastOf
<1>3. c \in S
  <2>1. SUFFICES ASSUME c \notin S PROVE FALSE
    OBVIOUS
  <2>2. \A d \in S : c - 1 >= d /\ c - 1 \in Nat
    BY <1>1, <2>1
  <2>3. c - 1 \in Above
    BY <2>2
  <2>4. QED
    BY <1>1, <1>2, <2>3
<1>4. QED
  BY <1>3

\* The last of load_all(): the ids that were read stay below the next.
LEMMA LoadedStep ==
  ASSUME RulesHeld, Rules!Loaded
  PROVE  RulesHeld'
<1>1. /\ loading = "load" /\ Rules!There \subseteq seen /\ loading' = "up" /\ nextRule' = Rules!NextFree
      /\ UNCHANGED <<psrc, psbc, json, rules, seen, editing, past, stray, ruled>>
  BY DEF Rules!Loaded, Rules!files
<1>2. seen \subseteq RuleIds
  BY DEF RulesHeld, RulesTypes
<1>3. Rules!NextFree \in Nat /\ \A id \in seen : id < Rules!NextFree
  <2>1. CASE seen = {}
    BY <2>1 DEF Rules!NextFree
  <2>2. CASE seen # {}
    <3>1. \E c \in seen : \A d \in seen : c >= d
      BY <1>2, <2>2, GreatestOf
    <3>2. Rules!Max(seen) \in seen /\ \A d \in seen : Rules!Max(seen) >= d
      BY <3>1 DEF Rules!Max
    <3>3. Rules!NextFree = Rules!Max(seen) + 1
      BY <2>2 DEF Rules!NextFree
    <3>4. PICK m : m = Rules!Max(seen)
      OBVIOUS
    <3>5. m \in Nat /\ \A d \in seen : d \in Nat /\ m >= d
      BY <1>2, <3>2, <3>4, SlotsFinite
    <3>6. m + 1 \in Nat /\ \A d \in seen : d < m + 1
      BY <3>5
    <3>7. QED
      BY <3>3, <3>4, <3>6
  <2>3. QED
    BY <2>1, <2>2
<1>4. Rules!There' = Rules!There /\ Rules!Known' = Rules!Known
  BY <1>1 DEF Rules!There, Rules!Known
<1>5. RulesTypes'
  BY <1>1, <1>3 DEF RulesHeld, RulesTypes
<1>6. OnFlash' /\ InTable' /\ OnceEach' /\ InHand'
  BY <1>1 DEF RulesHeld, OnFlash, InTable, OnceEach, InHand
<1>7. Numbered'
  BY <1>1, <1>3, <1>4 DEF RulesHeld, Numbered
<1>8. Fits'
  BY <1>1, <1>4 DEF RulesHeld, Fits
<1>9. QED
  BY <1>5, <1>6, <1>7, <1>8 DEF RulesHeld

LEMMA RulesCrashStep ==
  ASSUME RulesHeld, Rules!Crash
  PROVE  RulesHeld'
<1>1. /\ ruled' = [ruled EXCEPT !.crashes = @ + 1] /\ rules' = [s \in RuleSlots |-> Rules!NoRule]
      /\ nextRule' = 1 /\ loading' = "load" /\ seen' = {} /\ editing' = Rules!WebIdle
      /\ UNCHANGED <<psrc, psbc, json, past, stray>>
  BY DEF Rules!Crash, Rules!files, Rules!NoTable
<1>2. Rules!NoRule \in RuleRows /\ editing' \in RuleTasks /\ editing'.at = "idle"
  BY <1>1 DEF Rules!NoRule, RuleRows, Rules!WebIdle, RuleTasks
<1>3. ruled' \in [changes : Nat, fails : Nat, crashes : Nat] /\ ruled'.changes = ruled.changes
  BY <1>1 DEF RulesHeld, RulesTypes
<1>4. RulesTypes'
  BY <1>1, <1>2, <1>3 DEF RulesHeld, RulesTypes
<1>5. \A id : ~Deletes(editing', id)
  BY <1>2 DEF Deletes
<1>6. OnFlash'
  BY <1>1, <1>3 DEF RulesHeld, OnFlash
<1>7. InTable' /\ OnceEach' /\ Numbered' /\ InHand'
  BY <1>1, <1>2, <1>5 DEF InTable, OnceEach, Numbered, InHand
<1>8. Rules!There' = Rules!There /\ Rules!Free' = RuleSlots /\ Rules!There' \ seen' = Rules!There
  BY <1>1 DEF Rules!There, Rules!Free
<1>9. Fits'
  BY <1>1, <1>8 DEF RulesHeld, Fits
<1>10. QED
  BY <1>4, <1>6, <1>7, <1>9 DEF RulesHeld

\* A request begins: the number of its save is new.
LEMMA RequestMade ==
  ASSUME RulesHeld, Rules!Request
  PROVE  /\ editing.at = "idle" /\ (\A id : ~Upserts(editing, id) /\ ~Deletes(editing, id))
         /\ ruled' \in [changes : Nat, fails : Nat, crashes : Nat]
         /\ ruled'.changes = ruled.changes + 1 /\ ruled.changes \in Nat /\ ruled'.changes \in Nat
<1>1. editing.at = "idle" /\ ruled' = [ruled EXCEPT !.changes = @ + 1]
  BY DEF Rules!Request, Rules!WebIdle
<1>2. ruled \in [changes : Nat, fails : Nat, crashes : Nat]
  BY DEF RulesHeld, RulesTypes
<1>3. QED
  BY <1>1, <1>2 DEF Upserts, Deletes

\* What is owed to one rule stays so when its history grows.
LEMMA OwedMore ==
  ASSUME NEW p \in RulePasts, NEW q \in RulePasts, NEW src, NEW bc, NEW j, NEW n \in Nat, NEW m \in Nat,
         n <= m, FilesOwed(p, src, bc, j, n),
         p.own \subseteq q.own, q.own \subseteq 1 .. m, p.on \subseteq q.on,
         q.ok \in {0, p.ok}, q.failed = p.failed
  PROVE  FilesOwed(q, src, bc, j, m)
BY DEF FilesOwed

LEMMA OwedLater ==
  ASSUME NEW p, NEW src, NEW bc, NEW j, NEW n \in Nat, FilesOwed(p, src, bc, j, n)
  PROVE  FilesOwed(p, src, bc, j, n + 1)
<1>1. 1 .. n \subseteq 1 .. (n + 1)
  OBVIOUS
<1>2. QED
  BY <1>1 DEF FilesOwed

\* The row of a rule is replaced by a newer one of it: an update or a switch.
LEMMA RowReplaced ==
  ASSUME RulesHeld, Rules!Request, NEW s \in RuleSlots, NEW r \in RuleRows, NEW at, NEW p \in RulePasts,
         at \in {"psrc", "switch"}, rules[s] # Rules!NoRule, r.id = rules[s].id,
         rules' = [rules EXCEPT ![s] = r], editing' = [at |-> at, rule |-> r],
         past' = [past EXCEPT ![r.id] = p],
         past[r.id].own \subseteq p.own, p.own \subseteq 1 .. ruled'.changes,
         past[r.id].on \subseteq p.on, p.ok = past[r.id].ok, p.failed = past[r.id].failed,
         at = "psrc" => r.save = ruled'.changes,
         RowOwed(r, p, psbc[r.id], json[r.id], editing'),
         UNCHANGED <<Rules!ramOnly, nextRule>>
  PROVE  RulesHeld'
<1>1. UNCHANGED <<psrc, psbc, json, loading, seen, stray, nextRule>>
  BY DEF Rules!ramOnly, Rules!files
<1>2. r.id \in RuleIds /\ r.id # 0 /\ r # Rules!NoRule
  <2>1. r.id \in RuleIds
    BY DEF RowOwed
  <2>2. QED
    BY <2>1, SlotsFinite DEF RuleIds, Rules!Ids, Rules!NoRule
<1>3. /\ rules' \in [RuleSlots -> RuleRows] /\ rules'[s] = r
      /\ \A q \in RuleSlots : q # s => rules'[q] = rules[q]
      /\ \A q \in RuleSlots : rules'[q].id = rules[q].id
      /\ \A q \in RuleSlots : rules'[q] = Rules!NoRule <=> rules[q] = Rules!NoRule
  BY <1>2 DEF RulesHeld, RulesTypes
<1>4. /\ past' \in [RuleIds -> RulePasts] /\ past'[r.id] = p
      /\ \A id \in RuleIds : id # r.id => past'[id] = past[id]
  BY <1>2 DEF RulesHeld, RulesTypes
<1>5. editing' \in RuleTasks /\ editing'.at = at /\ editing'.rule = r
  BY DEF RuleTasks
<1>6. \A id : ~Deletes(editing', id)
  BY <1>5 DEF Deletes
<1>7. RulesTypes'
  BY <1>1, <1>3, <1>4, <1>5, RequestMade DEF RulesHeld, RulesTypes
<1>8. OnFlash'
  <2>1. ASSUME NEW id \in RuleIds
        PROVE  FilesOwed(past'[id], psrc[id], psbc[id], json[id], ruled'.changes)
    <3>1. FilesOwed(past[id], psrc[id], psbc[id], json[id], ruled.changes)
      BY DEF RulesHeld, OnFlash
    <3>2. past[id] \in RulePasts /\ past'[id] \in RulePasts
      BY <1>4 DEF RulesHeld, RulesTypes
    <3>3. CASE id = r.id
      BY <1>4, <3>1, <3>2, <3>3, RequestMade, OwedMore
    <3>4. CASE id # r.id
      BY <1>4, <3>1, <3>4, RequestMade, OwedLater
    <3>5. QED
      BY <3>3, <3>4
  <2>2. QED
    BY <1>1, <2>1 DEF OnFlash
<1>9. InTable'
  <2>1. ASSUME NEW q \in RuleSlots, rules'[q] # Rules!NoRule
        PROVE  RowOwed(rules'[q], past'[rules'[q].id], psbc[rules'[q].id], json[rules'[q].id], editing')
    <3>1. CASE q = s
      BY <1>3, <1>4, <3>1
    <3>2. CASE q # s
      <4>1. RowOwed(rules[q], past[rules[q].id], psbc[rules[q].id], json[rules[q].id], editing)
        BY <1>3, <2>1 DEF RulesHeld, InTable
      <4>2. rules'[q] = rules[q] /\ rules[q].id # r.id /\ rules[q].id \in RuleIds
        BY <1>3, <2>1, <3>2, <4>1 DEF RulesHeld, OnceEach, RowOwed
      <4>3. past'[rules[q].id] = past[rules[q].id]
        BY <1>4, <4>2
      <4>4. QED
        BY <4>1, <4>2, <4>3, RequestMade DEF RowOwed
    <3>3. QED
      BY <3>1, <3>2
  <2>2. QED
    BY <1>1, <2>1 DEF InTable
<1>10. OnceEach'
  BY <1>3 DEF RulesHeld, OnceEach
<1>11. Rules!There' = Rules!There /\ Rules!Known' = Rules!Known /\ Rules!Free' = Rules!Free
  BY <1>1, <1>3 DEF Rules!There, Rules!Known, Rules!Free
<1>12. Numbered'
  BY <1>1, <1>3, <1>6, <1>11 DEF RulesHeld, Numbered
<1>13. InHand'
  BY <1>2, <1>3, <1>5, <1>6 DEF InHand
<1>14. Fits'
  BY <1>1, <1>6, <1>11, RequestMade DEF RulesHeld, Fits
<1>15. QED
  BY <1>7, <1>8, <1>9, <1>10, <1>12, <1>13, <1>14 DEF RulesHeld

LEMMA UpdateStep ==
  ASSUME RulesHeld, Rules!Update
  PROVE  RulesHeld'
<1>1. Rules!Request /\ UNCHANGED <<Rules!ramOnly, nextRule>>
  BY DEF Rules!Update
<1>2. PICK id \in Rules!Known, on \in BOOLEAN :
        LET r == [id |-> id, save |-> ruled'.changes, on |-> on]
        IN  /\ rules' = [rules EXCEPT ![Rules!Min(Rules!SlotsOf(id))] = r]
            /\ editing' = [at |-> "psrc", rule |-> r]
            /\ past' = [past EXCEPT ![id].own = @ \cup {r.save}, ![id].on = @ \cup {on}]
  BY DEF Rules!Update
<1>3. PICK s \in RuleSlots : rules[s].id = id /\ rules[s] # Rules!NoRule /\ id \in RuleIds
                             /\ Rules!Min(Rules!SlotsOf(id)) = s
  BY RowThere
<1> DEFINE n == ruled'.changes
           r == [id |-> id, save |-> n, on |-> on]
           p == [past[id] EXCEPT !.own = @ \cup {n}, !.on = @ \cup {on}]
<1>4. n \in Nat /\ n = ruled.changes + 1 /\ ruled.changes \in Nat
  BY <1>1, RequestMade
<1>5. past[id] \in RulePasts /\ past \in [RuleIds -> RulePasts]
  BY <1>3 DEF RulesHeld, RulesTypes
<1>6. /\ p \in RulePasts /\ p.own = past[id].own \cup {n} /\ p.on = past[id].on \cup {on}
      /\ p.ok = past[id].ok /\ p.failed = past[id].failed
  BY <1>4, <1>5 DEF RulePasts
<1>7. r \in RuleRows /\ r.id = id /\ r.save = n /\ r.on = on
  BY <1>3, <1>4 DEF RuleRows
<1>8. /\ rules' = [rules EXCEPT ![s] = r] /\ editing' = [at |-> "psrc", rule |-> r]
      /\ past' = [past EXCEPT ![id] = p]
  BY <1>2, <1>3, <1>5
<1> HIDE DEF r, p, n
<1>9. FilesOwed(past[id], psrc[id], psbc[id], json[id], ruled.changes)
  BY <1>3 DEF RulesHeld, OnFlash
<1>10. p.own \subseteq 1 .. n
  BY <1>4, <1>6, <1>9 DEF FilesOwed
<1>11. n >= p.ok
  BY <1>4, <1>5, <1>6, <1>9 DEF FilesOwed, RulePasts
<1>12. Upserts(editing', id) /\ editing'.at = "psrc"
  BY <1>7, <1>8 DEF Upserts
<1>13. RowOwed(r, p, psbc[id], json[id], editing')
  BY <1>3, <1>6, <1>7, <1>11, <1>12 DEF RowOwed
<1>14. r.save = ruled'.changes /\ p.own \subseteq 1 .. ruled'.changes
  BY <1>7, <1>10 DEF n
<1>15. QED
  BY <1>1, <1>3, <1>6, <1>7, <1>8, <1>13, <1>14, RowReplaced

LEMMA SetEnabledStep ==
  ASSUME RulesHeld, Rules!SetEnabled
  PROVE  RulesHeld'
<1>1. Rules!Request /\ UNCHANGED <<Rules!ramOnly, nextRule>>
  BY DEF Rules!SetEnabled
<1>2. PICK id \in Rules!Known :
        LET s == Rules!Min(Rules!SlotsOf(id))
            r == [rules[s] EXCEPT !.on = ~@]
        IN  /\ rules' = [rules EXCEPT ![s] = r] /\ editing' = [at |-> "switch", rule |-> r]
            /\ past' = [past EXCEPT ![id].on = @ \cup {r.on}]
  BY DEF Rules!SetEnabled
<1>3. PICK s \in RuleSlots : rules[s].id = id /\ rules[s] # Rules!NoRule /\ id \in RuleIds
                             /\ Rules!Min(Rules!SlotsOf(id)) = s
  BY RowThere
<1> DEFINE r == [rules[s] EXCEPT !.on = ~@]
           p == [past[id] EXCEPT !.on = @ \cup {r.on}]
<1>4. rules[s] \in RuleRows /\ past[id] \in RulePasts /\ past \in [RuleIds -> RulePasts]
  BY <1>3 DEF RulesHeld, RulesTypes
<1>5. r \in RuleRows /\ r.id = id /\ r.save = rules[s].save /\ r.on \in BOOLEAN
  BY <1>3, <1>4 DEF RuleRows
<1>6. /\ rules' = [rules EXCEPT ![s] = r] /\ editing' = [at |-> "switch", rule |-> r]
      /\ past' = [past EXCEPT ![id] = p]
  BY <1>2, <1>3, <1>4
<1> HIDE DEF r
<1>7. /\ p \in RulePasts /\ p.own = past[id].own /\ p.on = past[id].on \cup {r.on}
      /\ p.ok = past[id].ok /\ p.failed = past[id].failed
  BY <1>4, <1>5 DEF RulePasts
<1> HIDE DEF p
<1>8. RowOwed(rules[s], past[id], psbc[id], json[id], editing)
  BY <1>3 DEF RulesHeld, InTable
<1>9. ~Upserts(editing, id)
  BY <1>1, RequestMade
<1>10. RowOwed(r, p, psbc[id], json[id], editing')
  BY <1>3, <1>5, <1>7, <1>8, <1>9 DEF RowOwed
<1>11. p.own \subseteq 1 .. ruled'.changes
  <2>1. FilesOwed(past[id], psrc[id], psbc[id], json[id], ruled.changes)
    BY <1>3 DEF RulesHeld, OnFlash
  <2>2. QED
    BY <1>1, <1>7, <2>1, RequestMade DEF FilesOwed
<1>12. QED
  BY <1>1, <1>3, <1>5, <1>6, <1>7, <1>10, <1>11, RowReplaced

\* Once the files are read, the id a new rule is given is nobody's.
LEMMA CreateStep ==
  ASSUME RulesHeld, Rules!Create, loading = "up"
  PROVE  RulesHeld'
<1>1. Rules!Request /\ Rules!Free # {} /\ nextRule \in RuleIds /\ nextRule' = nextRule + 1
  BY DEF Rules!Create, RuleIds
<1>2. UNCHANGED <<psrc, psbc, json, loading, seen, stray>>
  BY DEF Rules!Create, Rules!ramOnly, Rules!files
<1>3. PICK s \in RuleSlots : s = Rules!Min(Rules!Free) /\ rules[s] = Rules!NoRule
  BY <1>1, FirstFree
<1>0. PICK x \in RuleIds : x = nextRule
  BY <1>1
<1> DEFINE n == ruled'.changes
           r == [id |-> x, save |-> n, on |-> TRUE]
           p == [Rules!NoPast EXCEPT !.own = {n}]
<1>4. /\ rules' = [rules EXCEPT ![s] = r] /\ editing' = [at |-> "psrc", rule |-> r]
      /\ past' = [past EXCEPT ![x] = p]
  BY <1>0, <1>3 DEF Rules!Create
<1>5. n \in Nat /\ n = ruled.changes + 1 /\ ruled.changes \in Nat
  BY <1>1, RequestMade
<1>6. x \in Nat /\ x # 0
  BY SlotsFinite DEF RuleIds, Rules!Ids
<1>7. r \in RuleRows /\ r.id = x /\ r.save = n /\ r # Rules!NoRule
  BY <1>5, <1>6 DEF RuleRows, Rules!NoRule
<1>8. p \in RulePasts /\ p.own = {n} /\ p.ok = 0 /\ ~p.failed
  BY <1>5 DEF RulePasts, Rules!NoPast
<1> HIDE DEF r, p, n
<1>9. /\ rules' \in [RuleSlots -> RuleRows] /\ rules'[s] = r
      /\ \A q \in RuleSlots : q # s => rules'[q] = rules[q]
  BY <1>4, <1>7 DEF RulesHeld, RulesTypes
<1>10. /\ past' \in [RuleIds -> RulePasts] /\ past'[x] = p
       /\ \A id \in RuleIds : id # x => past'[id] = past[id]
  BY <1>4, <1>8 DEF RulesHeld, RulesTypes
<1>11. editing' \in RuleTasks /\ editing'.at = "psrc" /\ editing'.rule = r
  BY <1>4, <1>7 DEF RuleTasks
<1>12. Upserts(editing', x) /\ \A id : ~Deletes(editing', id)
  BY <1>7, <1>11 DEF Upserts, Deletes
<1>13. RulesTypes'
  BY <1>0, <1>1, <1>2, <1>6, <1>9, <1>10, <1>11, RequestMade DEF RulesHeld, RulesTypes
<1>14. json[x] = Rules!NoMeta
  <2>1. \A id \in Rules!There : id < nextRule
    BY DEF RulesHeld, Numbered
  <2>2. x \notin Rules!There
    BY <1>0, <1>6, <2>1
  <2>3. QED
    BY <2>2 DEF Rules!There, RuleIds
<1>15. \A q \in RuleSlots : rules[q] # Rules!NoRule => rules[q].id < x /\ rules[q].id \in RuleIds
  BY <1>0 DEF RulesHeld, Numbered, InTable, RowOwed
<1>16. \A q \in RuleSlots : rules[q].id # x
  BY <1>6, <1>15, SlotsFinite DEF Rules!NoRule
<1>17. OnFlash'
  <2>1. ASSUME NEW id \in RuleIds
        PROVE  FilesOwed(past'[id], psrc[id], psbc[id], json[id], ruled'.changes)
    <3>1. CASE id = x
      <4>1. {n} \subseteq 1 .. n
        BY <1>5
      <4>2. FilesOwed(p, psrc[id], psbc[id], json[id], n)
        BY <1>8, <1>14, <3>1, <4>1 DEF FilesOwed
      <4>3. QED
        BY <1>10, <3>1, <4>2 DEF n
    <3>2. CASE id # x
      <4>1. FilesOwed(past[id], psrc[id], psbc[id], json[id], ruled.changes)
        BY DEF RulesHeld, OnFlash
      <4>2. QED
        BY <1>1, <1>10, <3>2, <4>1, RequestMade, OwedLater
    <3>3. QED
      BY <3>1, <3>2
  <2>2. QED
    BY <1>2, <2>1 DEF OnFlash
<1>18. InTable'
  <2>1. ASSUME NEW q \in RuleSlots, rules'[q] # Rules!NoRule
        PROVE  RowOwed(rules'[q], past'[rules'[q].id], psbc[rules'[q].id], json[rules'[q].id], editing')
    <3>1. CASE q = s
      <4>1. RowOwed(r, p, psbc[x], json[x], editing')
        BY <1>5, <1>7, <1>8, <1>11, <1>12, <1>14 DEF RowOwed
      <4>2. QED
        BY <1>7, <1>9, <1>10, <3>1, <4>1
    <3>2. CASE q # s
      <4>1. /\ RowOwed(rules[q], past[rules[q].id], psbc[rules[q].id], json[rules[q].id], editing)
            /\ rules'[q] = rules[q]
        BY <1>9, <2>1, <3>2 DEF RulesHeld, InTable
      <4>2. past'[rules[q].id] = past[rules[q].id]
        BY <1>10, <1>16, <4>1 DEF RowOwed
      <4>3. QED
        BY <1>1, <4>1, <4>2, RequestMade DEF RowOwed
    <3>3. QED
      BY <3>1, <3>2
  <2>2. QED
    BY <1>2, <2>1 DEF InTable
<1>19. OnceEach'
  BY <1>7, <1>9, <1>16 DEF RulesHeld, OnceEach
<1>20. Rules!There' = Rules!There
  BY <1>2 DEF Rules!There
<1>21. Numbered'
  <2>1. ASSUME NEW q \in RuleSlots, rules'[q] # Rules!NoRule PROVE rules'[q].id < x + 1
    <3>1. CASE q = s
      BY <1>6, <1>7, <1>9, <3>1
    <3>2. CASE q # s
      <4>1. rules'[q] = rules[q] /\ rules[q].id < x /\ rules[q].id \in Nat
        BY <1>9, <1>15, <2>1, <3>2, SlotsFinite
      <4>2. QED
        BY <1>6, <4>1
    <3>3. QED
      BY <3>1, <3>2
  <2>2. \A id \in Rules!There : id < x + 1
    BY <1>0, <1>6, SlotsFinite DEF RulesHeld, Numbered, Rules!There, RuleIds
  <2>3. QED
    BY <1>0, <1>1, <1>2, <1>20, <2>1, <2>2 DEF Numbered
<1>22. InHand'
  <2>1. r.save = ruled'.changes
    BY <1>7 DEF n
  <2>2. QED
    BY <1>7, <1>9, <1>11, <1>12, <2>1 DEF InHand
<1>23. Fits'
  <2>1. SUFFICES ASSUME ~stray PROVE Fits'
    BY <1>2 DEF Fits
  <2>2. ASSUME NEW id \in Rules!Known PROVE id \in Rules!Known'
    <3>1. PICK q \in RuleSlots : rules[q].id = id /\ id # 0
      BY DEF Rules!Known
    <3>2. rules'[q].id = id
      BY <1>3, <1>9, <3>1 DEF Rules!NoRule
    <3>3. QED
      BY <3>1, <3>2 DEF Rules!Known
  <2>3. \A id \in Rules!There : id \in Rules!Known'
    BY <1>1, <2>1, <2>2, RequestMade DEF RulesHeld, Fits
  <2>4. QED
    BY <1>2, <1>20, <2>1, <2>3 DEF RulesHeld, Fits
<1>24. QED
  BY <1>13, <1>17, <1>18, <1>19, <1>21, <1>22, <1>23 DEF RulesHeld

LEMMA DeleteStep ==
  ASSUME RulesHeld, Rules!Delete
  PROVE  RulesHeld'
<1>1. Rules!Request /\ UNCHANGED <<psrc, psbc, json, loading, seen, stray, nextRule>>
  BY DEF Rules!Delete, Rules!ramOnly, Rules!files
<1>2. PICK id \in Rules!Known :
        LET s == Rules!Min(Rules!SlotsOf(id))
        IN  /\ rules' = [rules EXCEPT ![s] = Rules!NoRule]
            /\ editing' = [at |-> "remove psrc", rule |-> rules[s]]
            /\ past' = [past EXCEPT ![id].ok = 0]
  BY DEF Rules!Delete
<1>3. PICK s \in RuleSlots : rules[s].id = id /\ rules[s] # Rules!NoRule /\ id \in RuleIds
                             /\ Rules!Min(Rules!SlotsOf(id)) = s
  BY RowThere
<1> DEFINE p == [past[id] EXCEPT !.ok = 0]
<1>4. rules[s] \in RuleRows /\ past[id] \in RulePasts /\ past \in [RuleIds -> RulePasts]
  BY <1>3 DEF RulesHeld, RulesTypes
<1>5. /\ rules' = [rules EXCEPT ![s] = Rules!NoRule]
      /\ editing' = [at |-> "remove psrc", rule |-> rules[s]]
      /\ past' = [past EXCEPT ![id] = p]
  BY <1>2, <1>3, <1>4
<1>6. /\ p \in RulePasts /\ p.own = past[id].own /\ p.on = past[id].on
      /\ p.ok = 0 /\ p.failed = past[id].failed
  BY <1>4 DEF RulePasts
<1> HIDE DEF p
<1>7. /\ rules' \in [RuleSlots -> RuleRows] /\ rules'[s] = Rules!NoRule
      /\ \A q \in RuleSlots : q # s => rules'[q] = rules[q]
  <2>1. Rules!NoRule \in RuleRows
    BY DEF Rules!NoRule, RuleRows
  <2>2. QED
    BY <1>5, <2>1 DEF RulesHeld, RulesTypes
<1>8. /\ past' \in [RuleIds -> RulePasts] /\ past'[id] = p
      /\ \A i \in RuleIds : i # id => past'[i] = past[i]
  BY <1>3, <1>4, <1>5, <1>6
<1>9. editing' \in RuleTasks /\ editing'.at = "remove psrc" /\ editing'.rule.id = id
  BY <1>3, <1>4, <1>5 DEF RuleTasks
<1>10. \A i : Deletes(editing', i) <=> i = id
  BY <1>9 DEF Deletes
<1>11. id # 0
  BY <1>3, SlotsFinite DEF RuleIds, Rules!Ids
<1>12. \A q \in RuleSlots : rules'[q].id # id
  BY <1>3, <1>7, <1>11 DEF RulesHeld, OnceEach, Rules!NoRule
<1>13. RulesTypes'
  BY <1>1, <1>7, <1>8, <1>9, RequestMade DEF RulesHeld, RulesTypes
<1>14. OnFlash'
  <2>1. ASSUME NEW i \in RuleIds
        PROVE  FilesOwed(past'[i], psrc[i], psbc[i], json[i], ruled'.changes)
    <3>1. FilesOwed(past[i], psrc[i], psbc[i], json[i], ruled.changes)
      BY DEF RulesHeld, OnFlash
    <3>2. CASE i = id
      <4>1. p.own \subseteq 1 .. ruled'.changes
        BY <1>1, <1>6, <3>1, <3>2, RequestMade DEF FilesOwed
      <4>2. QED
        BY <1>1, <1>4, <1>6, <1>8, <3>1, <3>2, <4>1, RequestMade, OwedMore
    <3>3. CASE i # id
      BY <1>1, <1>8, <3>1, <3>3, RequestMade, OwedLater
    <3>4. QED
      BY <3>2, <3>3
  <2>2. QED
    BY <1>1, <2>1 DEF OnFlash
<1>15. InTable'
  <2>1. ASSUME NEW q \in RuleSlots, rules'[q] # Rules!NoRule
        PROVE  RowOwed(rules'[q], past'[rules'[q].id], psbc[rules'[q].id], json[rules'[q].id], editing')
    <3>1. /\ RowOwed(rules[q], past[rules[q].id], psbc[rules[q].id], json[rules[q].id], editing)
          /\ rules'[q] = rules[q] /\ rules[q].id # id
      BY <1>7, <1>12, <2>1 DEF RulesHeld, InTable
    <3>2. past'[rules[q].id] = past[rules[q].id]
      BY <1>8, <3>1 DEF RowOwed
    <3>3. QED
      BY <1>1, <3>1, <3>2, RequestMade DEF RowOwed
  <2>2. QED
    BY <1>1, <2>1 DEF InTable
<1>16. OnceEach'
  <2>1. \A q \in RuleSlots : rules[q] # Rules!NoRule => rules[q].id # 0
    BY SlotsFinite DEF RulesHeld, InTable, RowOwed, RuleIds, Rules!Ids
  <2>2. QED
    BY <1>7, <1>12, <2>1 DEF RulesHeld, OnceEach, Rules!NoRule
<1>17. Rules!There' = Rules!There
  BY <1>1 DEF Rules!There
<1>18. Numbered'
  BY <1>1, <1>3, <1>7, <1>10, <1>17 DEF RulesHeld, Numbered
<1>19. InHand'
  BY <1>3, <1>6, <1>8, <1>9, <1>10, <1>12 DEF InHand
<1>20. Fits'
  <2>1. SUFFICES ASSUME ~stray PROVE Fits'
    BY <1>1 DEF Fits
  <2>2. \A i \in Rules!Known : i \in Rules!Known' \/ i = id
    <3>1. SUFFICES ASSUME NEW i \in Rules!Known, i # id PROVE i \in Rules!Known'
      OBVIOUS
    <3>2. PICK q \in RuleSlots : rules[q].id = i /\ i # 0
      BY DEF Rules!Known
    <3>3. rules'[q] = rules[q]
      BY <1>3, <1>7, <3>1, <3>2
    <3>4. QED
      BY <3>2, <3>3 DEF Rules!Known
  <2>3. \A i \in Rules!There :
          i \in Rules!Known' \/ Deletes(editing', i) \/ (loading = "load" /\ i \notin seen)
    BY <1>1, <1>10, <2>1, <2>2, RequestMade DEF RulesHeld, Fits
  <2>4. Rules!Free \subseteq Rules!Free' /\ IsFiniteSet(Rules!Free')
    <3>1. Rules!Free' \subseteq RuleSlots
      BY DEF Rules!Free
    <3>2. Rules!Free \subseteq Rules!Free'
      BY <1>3, <1>7 DEF Rules!Free
    <3>3. QED
      BY <3>1, <3>2, SlotsFinite, FS_Subset
  <2>5. Cardinality(Rules!Free) <= Cardinality(Rules!Free')
    BY <2>4, FS_Subset
  <2>6. loading = "load" => Cardinality(Rules!There \ seen) <= Cardinality(Rules!Free')
    <3>1. /\ Cardinality(Rules!There \ seen) \in Nat /\ Cardinality(Rules!Free) \in Nat
          /\ Cardinality(Rules!Free') \in Nat
      <4>1. Rules!There \ seen \subseteq RuleIds /\ Rules!Free \subseteq RuleSlots
        BY DEF Rules!There, Rules!Free, RuleIds
      <4>2. QED
        BY <2>4, <4>1, SlotsFinite, FS_Subset, FS_CardinalityType
    <3>2. loading = "load" => Cardinality(Rules!There \ seen) <= Cardinality(Rules!Free)
      BY <2>1 DEF RulesHeld, Fits
    <3>3. PICK a \in Nat, b \in Nat, c \in Nat :
            /\ a = Cardinality(Rules!There \ seen) /\ b = Cardinality(Rules!Free)
            /\ c = Cardinality(Rules!Free')
      BY <3>1
    <3>4. QED
      BY <2>5, <3>2, <3>3
  <2>7. QED
    BY <1>1, <1>17, <2>1, <2>3, <2>6 DEF RulesHeld, Fits
<1>21. QED
  BY <1>13, <1>14, <1>15, <1>16, <1>18, <1>19, <1>20 DEF RulesHeld

\* The rule in the task's hand is in one slot.
LEMMA HandledRule ==
  ASSUME RulesHeld, editing.at \in {"psrc", "psbc", "json", "switch"}
  PROVE  LET r == editing.rule
         IN  /\ r # Rules!NoRule /\ r.id \in RuleIds /\ r \in RuleRows /\ past[r.id] \in RulePasts
             /\ \A q \in RuleSlots : rules[q].id = r.id => rules[q] = r
             /\ r.id \in Rules!Known
             /\ RowOwed(r, past[r.id], psbc[r.id], json[r.id], editing)
             /\ FilesOwed(past[r.id], psrc[r.id], psbc[r.id], json[r.id], ruled.changes)
<1>1. PICK s \in RuleSlots : rules[s] = editing.rule /\ editing.rule # Rules!NoRule
  BY DEF RulesHeld, InHand
<1>2. RowOwed(rules[s], past[rules[s].id], psbc[rules[s].id], json[rules[s].id], editing)
  BY <1>1 DEF RulesHeld, InTable
<1>3. rules[s].id \in RuleIds /\ rules[s].id # 0
  BY <1>2, SlotsFinite DEF RowOwed, RuleIds, Rules!Ids
<1>4. \A q \in RuleSlots : rules[q].id = rules[s].id => q = s
  BY <1>1 DEF RulesHeld, OnceEach
<1>5. rules[s].id \in Rules!Known
  BY <1>3 DEF Rules!Known
<1>6. rules[s] \in RuleRows /\ past[rules[s].id] \in RulePasts
  BY <1>3 DEF RulesHeld, RulesTypes
<1>7. FilesOwed(past[rules[s].id], psrc[rules[s].id], psbc[rules[s].id], json[rules[s].id],
                ruled.changes)
  BY <1>3 DEF RulesHeld, OnFlash
<1>8. QED
  BY <1>1, <1>2, <1>3, <1>4, <1>5, <1>6, <1>7

\* A step on the files of one rule.
LEMMA OneTouched ==
  ASSUME RulesHeld, NEW x \in RuleIds, rules' = rules, ruled'.changes = ruled.changes,
         \A id \in RuleIds : id # x =>
           past'[id] = past[id] /\ psrc'[id] = psrc[id] /\ psbc'[id] = psbc[id] /\ json'[id] = json[id],
         \A id : id # x => ~Upserts(editing, id),
         FilesOwed(past'[x], psrc'[x], psbc'[x], json'[x], ruled.changes),
         \A s \in RuleSlots : rules[s] # Rules!NoRule /\ rules[s].id = x =>
           RowOwed(rules[s], past'[x], psbc'[x], json'[x], editing')
  PROVE  OnFlash' /\ InTable' /\ OnceEach'
<1>1. OnFlash'
  <2>1. ASSUME NEW id \in RuleIds
        PROVE  FilesOwed(past'[id], psrc'[id], psbc'[id], json'[id], ruled'.changes)
    BY DEF RulesHeld, OnFlash
  <2>2. QED
    BY <2>1 DEF OnFlash
<1>2. InTable'
  <2>1. ASSUME NEW s \in RuleSlots, rules[s] # Rules!NoRule
        PROVE  RowOwed(rules[s], past'[rules[s].id], psbc'[rules[s].id], json'[rules[s].id], editing')
    <3>1. CASE rules[s].id = x
      BY <2>1, <3>1
    <3>2. CASE rules[s].id # x
      <4>1. RowOwed(rules[s], past[rules[s].id], psbc[rules[s].id], json[rules[s].id], editing)
        BY <2>1 DEF RulesHeld, InTable
      <4>2. /\ rules[s].id \in RuleIds /\ past'[rules[s].id] = past[rules[s].id]
            /\ psbc'[rules[s].id] = psbc[rules[s].id] /\ json'[rules[s].id] = json[rules[s].id]
        BY <3>2, <4>1 DEF RowOwed
      <4>3. QED
        BY <3>2, <4>1, <4>2 DEF RowOwed
    <3>3. QED
      BY <3>1, <3>2
  <2>2. QED
    BY <2>1 DEF InTable
<1>3. OnceEach'
  BY DEF RulesHeld, OnceEach
<1>4. QED
  BY <1>1, <1>2, <1>3

\* The bounds of the model, whether a file can be written or not.
LEMMA StillCounted ==
  ASSUME RulesHeld, Rules!Works \/ Rules!Breaks
  PROVE  ruled' \in [changes : Nat, fails : Nat, crashes : Nat] /\ ruled'.changes = ruled.changes
<1>1. ruled \in [changes : Nat, fails : Nat, crashes : Nat]
  BY DEF RulesHeld, RulesTypes
<1>2. QED
  BY <1>1 DEF Rules!Works, Rules!Breaks

\* A step that leaves the meta files alone, and starts no deletion.
LEMMA PlacesKept ==
  ASSUME RulesHeld, UNCHANGED <<rules, nextRule, loading, seen, json>>, stray => stray',
         \A id : Deletes(editing, id) <=> Deletes(editing', id)
  PROVE  Numbered' /\ Fits'
<1>1. Rules!There' = Rules!There /\ Rules!Known' = Rules!Known /\ Rules!Free' = Rules!Free
  BY DEF Rules!There, Rules!Known, Rules!Free
<1>2. Numbered'
  BY <1>1 DEF RulesHeld, Numbered
<1>3. Fits'
  BY <1>1 DEF RulesHeld, Fits
<1>4. QED
  BY <1>2, <1>3

LEMMA GivesUpStep ==
  ASSUME RulesHeld, Rules!GivesUp, editing.at \in {"psrc", "psbc", "json"},
         UNCHANGED <<psrc, psbc, json, rules, nextRule, loading, seen, stray>>
  PROVE  RulesHeld'
<1> DEFINE x == editing.rule.id
           p == [past[x] EXCEPT !.failed = TRUE]
<1>1. x \in RuleIds /\ past[x] \in RulePasts
      /\ RowOwed(editing.rule, past[x], psbc[x], json[x], editing)
      /\ FilesOwed(past[x], psrc[x], psbc[x], json[x], ruled.changes)
      /\ \A q \in RuleSlots : rules[q].id = x => rules[q] = editing.rule
  BY HandledRule
<1>2. past' = [past EXCEPT ![x] = p] /\ editing' = Rules!WebIdle
  BY <1>1 DEF Rules!GivesUp, RulesHeld, RulesTypes
<1>3. /\ p \in RulePasts /\ p.own = past[x].own /\ p.on = past[x].on /\ p.ok = past[x].ok
      /\ p.failed = TRUE
  BY <1>1 DEF RulePasts
<1>4. \A id : ~Deletes(editing, id) /\ (id # x => ~Upserts(editing, id))
  BY DEF Deletes, Upserts
<1> HIDE DEF x, p
<1>5. editing' \in RuleTasks /\ editing'.at = "idle"
  BY <1>2 DEF Rules!WebIdle, RuleTasks, RuleRows, Rules!NoRule
<1>6. past' \in [RuleIds -> RulePasts] /\ past'[x] = p /\ \A id \in RuleIds : id # x => past'[id] = past[id]
  BY <1>1, <1>2, <1>3 DEF RulesHeld, RulesTypes
<1>7. ruled' \in [changes : Nat, fails : Nat, crashes : Nat] /\ ruled'.changes = ruled.changes
  BY StillCounted DEF Rules!GivesUp
<1>8. RulesTypes'
  BY <1>5, <1>6, <1>7 DEF RulesHeld, RulesTypes
<1>9. FilesOwed(past'[x], psrc[x], psbc[x], json[x], ruled.changes)
  BY <1>1, <1>3, <1>6 DEF FilesOwed
<1>10. RowOwed(editing.rule, past'[x], psbc[x], json[x], editing')
  BY <1>1, <1>3, <1>6 DEF RowOwed
<1>11. OnFlash' /\ InTable' /\ OnceEach'
  BY <1>1, <1>4, <1>6, <1>7, <1>9, <1>10, OneTouched
<1>12. \A id : ~Deletes(editing', id)
  BY <1>5 DEF Deletes
<1>13. Numbered' /\ Fits'
  BY <1>4, <1>12, PlacesKept
<1>14. InHand'
  BY <1>5, <1>12 DEF InHand
<1>15. QED
  BY <1>8, <1>11, <1>13, <1>14 DEF RulesHeld

LEMMA WriteSourceStep ==
  ASSUME RulesHeld, Rules!WriteSource
  PROVE  RulesHeld'
<1>1. editing.at = "psrc" /\ UNCHANGED <<rules, nextRule, loading, seen, psbc, json, stray>>
  BY DEF Rules!WriteSource, Rules!webOnly
<1>2. CASE Rules!GivesUp /\ UNCHANGED psrc
  BY <1>1, <1>2, GivesUpStep
<1>3. CASE /\ psrc' = [psrc EXCEPT ![editing.rule.id] = editing.rule.save]
           /\ editing' = [editing EXCEPT !.at = "psbc"] /\ Rules!Works /\ UNCHANGED past
  <2> DEFINE x == editing.rule.id
             n == editing.rule.save
  <2>1. /\ x \in RuleIds /\ n \in Nat /\ editing.rule # Rules!NoRule /\ editing.rule \in RuleRows
        /\ RowOwed(editing.rule, past[x], psbc[x], json[x], editing)
        /\ FilesOwed(past[x], psrc[x], psbc[x], json[x], ruled.changes)
        /\ \A q \in RuleSlots : rules[q].id = x => rules[q] = editing.rule
    BY <1>1, HandledRule DEF RuleRows
  <2>2. editing' \in RuleTasks /\ editing'.at = "psbc" /\ editing'.rule = editing.rule
    BY <1>3 DEF RulesHeld, RulesTypes, RuleTasks
  <2>3. \A id : ~Deletes(editing, id) /\ ~Deletes(editing', id) /\ (Upserts(editing', id) <=> id = x)
    BY <1>1, <2>2 DEF Deletes, Upserts
  <2>4. \A id : id # x => ~Upserts(editing, id)
    BY DEF Upserts
  <2>5. n \in past[x].own /\ n >= past[x].ok
    BY <2>1 DEF RowOwed
  <2>6. psrc' = [psrc EXCEPT ![x] = n]
    BY <1>3
  <2>7. n = ruled.changes
    BY <1>1 DEF RulesHeld, InHand
  <2> HIDE DEF x, n
  <2>8. /\ psrc' \in [RuleIds -> Nat] /\ psrc'[x] = n
        /\ \A id \in RuleIds : id # x => psrc'[id] = psrc[id]
    BY <2>1, <2>6 DEF RulesHeld, RulesTypes
  <2>9. ruled' \in [changes : Nat, fails : Nat, crashes : Nat] /\ ruled'.changes = ruled.changes
    BY <1>3, StillCounted
  <2>10. RulesTypes'
    BY <1>1, <1>3, <2>2, <2>8, <2>9 DEF RulesHeld, RulesTypes
  <2>11. FilesOwed(past[x], psrc'[x], psbc[x], json[x], ruled.changes)
    BY <2>1, <2>5, <2>8 DEF FilesOwed
  <2>12. RowOwed(editing.rule, past[x], psbc[x], json[x], editing')
    BY <2>1, <2>2, <2>3 DEF RowOwed, x
  <2>13. OnFlash' /\ InTable' /\ OnceEach'
    BY <1>1, <1>3, <2>1, <2>4, <2>8, <2>9, <2>11, <2>12, OneTouched
  <2>14. Numbered' /\ Fits'
    BY <1>1, <2>3, PlacesKept
  <2>15. InHand'
    <3>1. \E s \in RuleSlots : rules[s] = editing.rule
      BY <1>1 DEF RulesHeld, InHand
    <3>2. QED
      BY <1>1, <2>1, <2>2, <2>3, <2>7, <2>8, <2>9, <3>1 DEF InHand, x, n
  <2>16. QED
    BY <2>10, <2>13, <2>14, <2>15 DEF RulesHeld
<1>4. QED
  BY <1>2, <1>3 DEF Rules!WriteSource

LEMMA WriteBytecodeStep ==
  ASSUME RulesHeld, Rules!WriteBytecode
  PROVE  RulesHeld'
<1>1. editing.at = "psbc" /\ UNCHANGED <<rules, nextRule, loading, seen, psrc, json, stray>>
  BY DEF Rules!WriteBytecode, Rules!webOnly
<1>2. CASE Rules!GivesUp /\ UNCHANGED psbc
  BY <1>1, <1>2, GivesUpStep
<1>3. CASE /\ psbc' = [psbc EXCEPT ![editing.rule.id] = editing.rule.save]
           /\ editing' = [editing EXCEPT !.at = "json"] /\ Rules!Works /\ UNCHANGED past
  <2> DEFINE x == editing.rule.id
             n == editing.rule.save
  <2>1. /\ x \in RuleIds /\ n \in Nat /\ editing.rule # Rules!NoRule /\ editing.rule \in RuleRows
        /\ RowOwed(editing.rule, past[x], psbc[x], json[x], editing)
        /\ FilesOwed(past[x], psrc[x], psbc[x], json[x], ruled.changes)
        /\ \A q \in RuleSlots : rules[q].id = x => rules[q] = editing.rule
    BY <1>1, HandledRule DEF RuleRows
  <2>2. editing' \in RuleTasks /\ editing'.at = "json" /\ editing'.rule = editing.rule
    BY <1>3 DEF RulesHeld, RulesTypes, RuleTasks
  <2>3. \A id : ~Deletes(editing, id) /\ ~Deletes(editing', id) /\ (Upserts(editing', id) <=> id = x)
    BY <1>1, <2>2 DEF Deletes, Upserts
  <2>4. \A id : id # x => ~Upserts(editing, id)
    BY DEF Upserts
  <2>5. n \in past[x].own /\ n >= past[x].ok
    BY <2>1 DEF RowOwed
  <2>6. psbc' = [psbc EXCEPT ![x] = n]
    BY <1>3
  <2>7. n = ruled.changes /\ psrc[x] = n
    BY <1>1 DEF RulesHeld, InHand
  <2> HIDE DEF x, n
  <2>8. /\ psbc' \in [RuleIds -> Nat] /\ psbc'[x] = n
        /\ \A id \in RuleIds : id # x => psbc'[id] = psbc[id]
    BY <2>1, <2>6 DEF RulesHeld, RulesTypes
  <2>9. ruled' \in [changes : Nat, fails : Nat, crashes : Nat] /\ ruled'.changes = ruled.changes
    BY <1>3, StillCounted
  <2>10. RulesTypes'
    BY <1>1, <1>3, <2>2, <2>8, <2>9 DEF RulesHeld, RulesTypes
  <2>11. FilesOwed(past[x], psrc[x], psbc'[x], json[x], ruled.changes)
    <3>1. json[x] # Rules!NoMeta => n >= json[x].save
      BY <2>1, <2>7 DEF FilesOwed
    <3>2. QED
      BY <2>1, <2>5, <2>8, <3>1 DEF FilesOwed
  <2>12. RowOwed(editing.rule, past[x], psbc'[x], json[x], editing')
    <3>1. n >= editing.rule.save
      BY <2>1 DEF n
    <3>2. QED
      BY <2>1, <2>2, <2>3, <2>8, <3>1 DEF RowOwed, x
  <2>13. OnFlash' /\ InTable' /\ OnceEach'
    BY <1>1, <1>3, <2>1, <2>4, <2>8, <2>9, <2>11, <2>12, OneTouched
  <2>14. Numbered' /\ Fits'
    BY <1>1, <2>3, PlacesKept
  <2>15. InHand'
    <3>1. \E s \in RuleSlots : rules[s] = editing.rule
      BY <1>1 DEF RulesHeld, InHand
    <3>2. QED
      BY <1>1, <2>1, <2>2, <2>3, <2>7, <2>8, <2>9, <3>1 DEF InHand, x, n
  <2>16. QED
    BY <2>10, <2>13, <2>14, <2>15 DEF RulesHeld
<1>4. QED
  BY <1>2, <1>3 DEF Rules!WriteBytecode

LEMMA KnownFits ==
  IsFiniteSet(Rules!Known) /\ Cardinality(Rules!Known) <= Cardinality(RuleSlots)
<1> DEFINE f == [s \in RuleSlots |-> rules[s].id]
           T == {rules[s].id : s \in RuleSlots}
<1>1. f \in Surjection(RuleSlots, T)
  BY DEF Surjection
<1> HIDE DEF f
<1>2. IsFiniteSet(T) /\ Cardinality(T) <= Cardinality(RuleSlots)
  BY <1>1, SlotsFinite, FS_Surjection
<1>3. Rules!Known \in SUBSET T
  BY DEF Rules!Known
<1> HIDE DEF T
<1>4. IsFiniteSet(Rules!Known) /\ Cardinality(Rules!Known) <= Cardinality(T)
  BY <1>2, <1>3, FS_Subset
<1>5. Cardinality(Rules!Known) \in Nat /\ Cardinality(T) \in Nat /\ Cardinality(RuleSlots) \in Nat
  BY <1>2, <1>4, SlotsFinite, FS_CardinalityType
<1>6. PICK a \in Nat, b \in Nat, c \in Nat :
        a = Cardinality(Rules!Known) /\ b = Cardinality(T) /\ c = Cardinality(RuleSlots)
  BY <1>5
<1>7. a <= c
  BY <1>2, <1>4, <1>6
<1>8. QED
  BY <1>4, <1>6, <1>7

\* The meta file is written: the rule's files and its row agree.
LEMMA MetaWritten ==
  ASSUME RulesHeld, editing.at \in {"json", "switch"},
         UNCHANGED <<rules, nextRule, loading, seen, psrc, psbc, stray>>, Rules!Works,
         NEW p \in RulePasts,
         json' = [json EXCEPT ![editing.rule.id] = Rules!Meta(editing.rule)],
         editing' = Rules!WebIdle, past' = [past EXCEPT ![editing.rule.id] = p],
         p.own = past[editing.rule.id].own, p.on = {editing.rule.on},
         IF editing.at = "json" THEN p.ok = editing.rule.save /\ p.failed = FALSE
                                ELSE p.ok = past[editing.rule.id].ok /\ p.failed = past[editing.rule.id].failed
  PROVE  RulesHeld'
<1>0. PICK r, x : r = editing.rule /\ x = editing.rule.id /\ x = r.id
  OBVIOUS
<1>1. /\ x \in RuleIds /\ r # Rules!NoRule /\ r \in RuleRows /\ past[x] \in RulePasts /\ x \in Rules!Known
      /\ RowOwed(r, past[x], psbc[x], json[x], editing)
      /\ FilesOwed(past[x], psrc[x], psbc[x], json[x], ruled.changes)
      /\ \A q \in RuleSlots : rules[q].id = x => rules[q] = r
  BY <1>0, HandledRule
<1>2. PICK j : j = Rules!Meta(r)
  OBVIOUS
<1>3. j \in RuleMetas /\ j.save = r.save /\ j.on = r.on
  BY <1>1, <1>2 DEF Rules!Meta, RuleMetas, RuleRows
<1>4. /\ json' \in [RuleIds -> RuleMetas] /\ json'[x] = j
      /\ \A id \in RuleIds : id # x => json'[id] = json[id]
  BY <1>0, <1>1, <1>2, <1>3 DEF RulesHeld, RulesTypes
<1>5. past' \in [RuleIds -> RulePasts] /\ past'[x] = p /\ \A id \in RuleIds : id # x => past'[id] = past[id]
  BY <1>0, <1>1 DEF RulesHeld, RulesTypes
<1>6. editing' \in RuleTasks /\ editing'.at = "idle"
  BY DEF Rules!WebIdle, RuleTasks, RuleRows, Rules!NoRule
<1>7. \A id : ~Deletes(editing, id) /\ ~Deletes(editing', id) /\ (id # x => ~Upserts(editing, id))
  BY <1>0, <1>6 DEF Deletes, Upserts
<1>8. ruled' \in [changes : Nat, fails : Nat, crashes : Nat] /\ ruled'.changes = ruled.changes
  BY StillCounted
<1>9. RulesTypes'
  BY <1>4, <1>5, <1>6, <1>8 DEF RulesHeld, RulesTypes
<1>10. r.save \in p.own /\ r.save >= p.ok /\ r.save \in Nat /\ p.ok \in Nat
  BY <1>0, <1>1 DEF RowOwed, RuleRows, RulePasts
<1>11. /\ p.own \subseteq 1 .. ruled.changes /\ j # Rules!NoMeta
       /\ p.ok # 0 => {psrc[x], psbc[x], j.save} \subseteq {m \in p.own : m >= p.ok}
       /\ psbc[x] # 0 /\ ~p.failed => psbc[x] \in p.own /\ psbc[x] >= r.save
  <2>1. p.own \subseteq 1 .. ruled.changes
    BY <1>0, <1>1 DEF FilesOwed
  <2>2. j # Rules!NoMeta
    BY <1>3, <1>10, <2>1 DEF Rules!NoMeta
  <2>3. CASE editing.at = "json"
    <3>1. psrc[x] = r.save /\ psbc[x] = r.save
      BY <1>0, <2>3 DEF RulesHeld, InHand
    <3>2. QED
      BY <1>3, <1>10, <2>1, <2>2, <3>1
  <2>4. CASE editing.at = "switch"
    <3>1. p.ok = past[x].ok /\ p.failed = past[x].failed /\ ~Upserts(editing, x)
      BY <1>0, <2>4 DEF Upserts
    <3>2. psbc[x] # 0 /\ ~p.failed => psbc[x] \in p.own /\ psbc[x] >= r.save
      BY <1>0, <1>1, <3>1 DEF RowOwed, FilesOwed
    <3>3. p.ok # 0 => {psrc[x], psbc[x]} \subseteq {m \in p.own : m >= p.ok}
      BY <1>0, <1>1, <3>1 DEF FilesOwed
    <3>4. QED
      BY <1>3, <1>10, <2>1, <2>2, <3>2, <3>3
  <2>5. QED
    BY <2>3, <2>4
<1>12. r.on \in p.on
  BY <1>0
<1>13. FilesOwed(p, psrc[x], psbc[x], j, ruled.changes)
  BY <1>3, <1>10, <1>11, <1>12 DEF FilesOwed
<1>14. RowOwed(r, p, psbc[x], j, editing')
  BY <1>0, <1>1, <1>10, <1>11, <1>12 DEF RowOwed
<1>15. OnFlash' /\ InTable' /\ OnceEach'
  BY <1>1, <1>4, <1>5, <1>7, <1>8, <1>13, <1>14, OneTouched
<1>16. Rules!There' = Rules!There \cup {x} /\ Rules!Known' = Rules!Known /\ Rules!Free' = Rules!Free
  BY <1>1, <1>4, <1>11 DEF Rules!There, Rules!Known, Rules!Free, RuleIds
<1>17. loading = "load" => x \in seen \cap Rules!There
  BY <1>0, HandledRule DEF RulesHeld, Numbered, Rules!Known
<1>18. loading = "up" => x < nextRule
  BY <1>0, HandledRule DEF RulesHeld, Numbered, Rules!Known
<1>19. Numbered'
  BY <1>7, <1>16, <1>18 DEF RulesHeld, Numbered
<1>20. InHand'
  BY <1>6, <1>7 DEF InHand
<1>21. Fits'
  <2>1. SUFFICES ASSUME ~stray PROVE Fits'
    BY DEF Fits
  <2>2. CASE loading = "load"
    <3>1. Rules!There' = Rules!There
      BY <1>16, <1>17, <2>2
    <3>2. QED
      BY <1>7, <1>16, <2>1, <2>2, <3>1 DEF RulesHeld, Fits
  <2>3. CASE loading = "up"
    <3>1. Rules!There' \in SUBSET Rules!Known
      BY <1>1, <1>7, <1>16, <2>1, <2>3 DEF RulesHeld, Fits
    <3>2. IsFiniteSet(Rules!There') /\ Cardinality(Rules!There') <= Cardinality(Rules!Known)
      BY <3>1, KnownFits, FS_Subset
    <3>3. /\ Cardinality(Rules!There') \in Nat /\ Cardinality(Rules!Known) \in Nat
          /\ Cardinality(RuleSlots) \in Nat
      BY <3>2, KnownFits, SlotsFinite, FS_CardinalityType
    <3>4. PICK a \in Nat, b \in Nat, c \in Nat :
            a = Cardinality(Rules!There') /\ b = Cardinality(Rules!Known) /\ c = Cardinality(RuleSlots)
      BY <3>3
    <3>5. a <= c
      BY <3>2, <3>4, KnownFits
    <3>6. QED
      BY <1>16, <2>3, <3>1, <3>4, <3>5 DEF Fits
  <2>4. QED
    BY <2>2, <2>3 DEF RulesHeld, RulesTypes
<1>22. QED
  BY <1>9, <1>15, <1>19, <1>20, <1>21 DEF RulesHeld

LEMMA WriteMetaStep ==
  ASSUME RulesHeld, Rules!WriteMeta
  PROVE  RulesHeld'
<1>1. editing.at \in {"json", "switch"} /\ UNCHANGED <<rules, nextRule, loading, seen, psrc, psbc, stray>>
  BY DEF Rules!WriteMeta, Rules!webOnly
<1>2. past[editing.rule.id] \in RulePasts /\ editing.rule \in RuleRows /\ editing.rule.id \in RuleIds
  BY <1>1, HandledRule
<1>3. past \in [RuleIds -> RulePasts] /\ editing.rule.save \in Nat /\ editing.rule.on \in BOOLEAN
  BY <1>2 DEF RulesHeld, RulesTypes, RuleRows
<1>4. CASE editing.at = "json" /\ Rules!GivesUp /\ UNCHANGED json
  BY <1>1, <1>4, GivesUpStep
<1>5. CASE editing.at = "switch" /\ Rules!Breaks /\ editing' = Rules!WebIdle /\ UNCHANGED <<json, past>>
  <2>1. ruled' \in [changes : Nat, fails : Nat, crashes : Nat] /\ ruled'.changes = ruled.changes
    BY <1>5, StillCounted
  <2>2. editing' \in RuleTasks /\ editing'.at = "idle"
    BY <1>5 DEF Rules!WebIdle, RuleTasks, RuleRows, Rules!NoRule
  <2>3. \A id : ~Deletes(editing, id) /\ ~Deletes(editing', id) /\ ~Upserts(editing, id)
    BY <1>5, <2>2 DEF Deletes, Upserts
  <2>4. RulesTypes'
    BY <1>1, <1>5, <2>1, <2>2 DEF RulesHeld, RulesTypes
  <2>5. OnFlash' /\ InTable' /\ OnceEach'
    BY <1>1, <1>5, <2>1, <2>3 DEF RulesHeld, OnFlash, InTable, OnceEach, RowOwed
  <2>6. Numbered' /\ Fits'
    BY <1>1, <1>5, <2>3, PlacesKept
  <2>7. InHand'
    BY <2>2, <2>3 DEF InHand
  <2>8. QED
    BY <2>4, <2>5, <2>6, <2>7 DEF RulesHeld
<1>6. CASE /\ json' = [json EXCEPT ![editing.rule.id] = Rules!Meta(editing.rule)]
           /\ editing' = Rules!WebIdle /\ Rules!Works
           /\ past' = IF editing.at = "json"
                      THEN [past EXCEPT ![editing.rule.id].ok = editing.rule.save,
                                        ![editing.rule.id].on = {editing.rule.on},
                                        ![editing.rule.id].failed = FALSE]
                      ELSE [past EXCEPT ![editing.rule.id].on = {editing.rule.on}]
  <2>0. PICK r, x : r = editing.rule /\ x = editing.rule.id
    OBVIOUS
  <2>1. CASE editing.at = "json"
    <3> DEFINE p == [past[x] EXCEPT !.ok = r.save, !.on = {r.on}, !.failed = FALSE]
    <3>1. past' = [past EXCEPT ![x] = p]
      BY <1>2, <1>3, <1>6, <2>0, <2>1
    <3>2. p \in RulePasts /\ p.own = past[x].own /\ p.on = {r.on} /\ p.ok = r.save /\ p.failed = FALSE
      BY <1>2, <1>3, <2>0 DEF RulePasts
    <3> HIDE DEF p
    <3>3. QED
      BY <1>1, <1>6, <2>0, <2>1, <3>1, <3>2, MetaWritten
  <2>2. CASE editing.at # "json"
    <3> DEFINE p == [past[x] EXCEPT !.on = {r.on}]
    <3>1. past' = [past EXCEPT ![x] = p]
      BY <1>2, <1>3, <1>6, <2>0, <2>2
    <3>2. /\ p \in RulePasts /\ p.own = past[x].own /\ p.on = {r.on} /\ p.ok = past[x].ok
          /\ p.failed = past[x].failed
      BY <1>2, <1>3, <2>0 DEF RulePasts
    <3> HIDE DEF p
    <3>3. QED
      BY <1>1, <1>6, <2>0, <2>2, <3>1, <3>2, MetaWritten
  <2>3. QED
    BY <2>1, <2>2
<1>7. QED
  BY <1>4, <1>5, <1>6 DEF Rules!WriteMeta

\* A file of a deleted rule is removed, or cannot be: it has no row and nothing is promised.
LEMMA FileRemoved ==
  ASSUME RulesHeld, editing.at \in {"remove psrc", "remove psbc", "remove json"},
         UNCHANGED <<rules, nextRule, loading, seen, past>>, Rules!Works \/ Rules!Breaks,
         psrc' \in {psrc, [psrc EXCEPT ![editing.rule.id] = 0]},
         psbc' \in {psbc, [psbc EXCEPT ![editing.rule.id] = 0]},
         json' \in {json, [json EXCEPT ![editing.rule.id] = Rules!NoMeta]},
         editing' \in RuleTasks, \A id : ~Upserts(editing', id)
  PROVE  RulesTypes' /\ OnFlash' /\ InTable' /\ OnceEach'
<1>0. PICK x : x = editing.rule.id
  OBVIOUS
<1>1. Deletes(editing, x) /\ \A id : ~Upserts(editing, id)
  BY <1>0 DEF Deletes, Upserts
<1>2. x \in RuleIds /\ past[x].ok = 0 /\ \A s \in RuleSlots : rules[s].id # x
  BY <1>1 DEF RulesHeld, InHand
<1>3. ruled' \in [changes : Nat, fails : Nat, crashes : Nat] /\ ruled'.changes = ruled.changes
  BY StillCounted
<1>4. Rules!NoMeta \in RuleMetas
  BY DEF Rules!NoMeta, RuleMetas
<1>5. /\ psrc' \in [RuleIds -> Nat] /\ psbc' \in [RuleIds -> Nat] /\ json' \in [RuleIds -> RuleMetas]
      /\ psbc'[x] \in {psbc[x], 0} /\ json'[x] \in {json[x], Rules!NoMeta}
      /\ \A id \in RuleIds : id # x =>
           psrc'[id] = psrc[id] /\ psbc'[id] = psbc[id] /\ json'[id] = json[id]
  <2>1. psrc \in [RuleIds -> Nat] /\ psbc \in [RuleIds -> Nat] /\ json \in [RuleIds -> RuleMetas]
    BY DEF RulesHeld, RulesTypes
  <2>2. psrc' \in [RuleIds -> Nat] /\ \A id \in RuleIds : id # x => psrc'[id] = psrc[id]
    <3>1. CASE psrc' = psrc
      BY <1>2, <2>1, <3>1
    <3>2. CASE psrc' = [psrc EXCEPT ![x] = 0]
      BY <1>2, <2>1, <3>2
    <3>3. QED
      BY <1>0, <3>1, <3>2
  <2>3. /\ psbc' \in [RuleIds -> Nat] /\ psbc'[x] \in {psbc[x], 0}
        /\ \A id \in RuleIds : id # x => psbc'[id] = psbc[id]
    <3>1. CASE psbc' = psbc
      BY <1>2, <2>1, <3>1
    <3>2. CASE psbc' = [psbc EXCEPT ![x] = 0]
      BY <1>2, <2>1, <3>2
    <3>3. QED
      BY <1>0, <3>1, <3>2
  <2>4. /\ json' \in [RuleIds -> RuleMetas] /\ json'[x] \in {json[x], Rules!NoMeta}
        /\ \A id \in RuleIds : id # x => json'[id] = json[id]
    <3>1. CASE json' = json
      BY <1>2, <2>1, <3>1
    <3>2. CASE json' = [json EXCEPT ![x] = Rules!NoMeta]
      BY <1>2, <1>4, <2>1, <3>2
    <3>3. QED
      BY <1>0, <3>1, <3>2
  <2>5. QED
    BY <2>2, <2>3, <2>4
<1>6. RulesTypes'
  BY <1>3, <1>5 DEF RulesHeld, RulesTypes
<1>7. FilesOwed(past[x], psrc'[x], psbc'[x], json'[x], ruled.changes)
  <2>1. FilesOwed(past[x], psrc[x], psbc[x], json[x], ruled.changes)
    BY <1>2 DEF RulesHeld, OnFlash
  <2>2. QED
    BY <1>2, <1>5, <2>1 DEF FilesOwed
<1>8. OnFlash' /\ InTable' /\ OnceEach'
  BY <1>1, <1>2, <1>3, <1>5, <1>7, OneTouched
<1>9. QED
  BY <1>6, <1>8

LEMMA RemoveFileStep ==
  ASSUME RulesHeld, Rules!RemoveSource \/ Rules!RemoveBytecode
  PROVE  RulesHeld'
<1>0. PICK at \in {"remove psbc", "remove json"} :
        /\ editing.at \in {"remove psrc", "remove psbc"} /\ editing' = [editing EXCEPT !.at = at]
        /\ Rules!Works \/ Rules!Breaks
        /\ psrc' \in {psrc, [psrc EXCEPT ![editing.rule.id] = 0]}
        /\ psbc' \in {psbc, [psbc EXCEPT ![editing.rule.id] = 0]}
        /\ UNCHANGED <<rules, nextRule, loading, seen, json, past, stray>>
  BY DEF Rules!RemoveSource, Rules!RemoveBytecode, Rules!webOnly
<1>1. editing' \in RuleTasks /\ editing'.at = at /\ editing'.rule = editing.rule
  BY <1>0 DEF RulesHeld, RulesTypes, RuleTasks
<1>2. \A id : ~Upserts(editing', id) /\ (Deletes(editing, id) <=> Deletes(editing', id))
  BY <1>0, <1>1 DEF Deletes, Upserts
<1>3. RulesTypes' /\ OnFlash' /\ InTable' /\ OnceEach'
  BY <1>0, <1>1, <1>2, FileRemoved
<1>4. Numbered' /\ Fits'
  BY <1>0, <1>2, PlacesKept
<1>5. InHand'
  BY <1>0, <1>1, <1>2 DEF RulesHeld, InHand
<1>6. QED
  BY <1>3, <1>4, <1>5 DEF RulesHeld

LEMMA RemoveMetaStep ==
  ASSUME RulesHeld, Rules!RemoveMeta
  PROVE  RulesHeld'
<1>0. PICK x : x = editing.rule.id
  OBVIOUS
<1>1. editing.at = "remove json" /\ editing' = Rules!WebIdle
      /\ UNCHANGED <<rules, nextRule, loading, seen, psrc, psbc, past>>
  BY DEF Rules!RemoveMeta, Rules!webOnly
<1>2. \/ json' = [json EXCEPT ![x] = Rules!NoMeta] /\ Rules!Works /\ UNCHANGED stray
      \/ Rules!Breaks /\ stray' = TRUE /\ UNCHANGED json
  BY <1>0 DEF Rules!RemoveMeta
<1>3. editing' \in RuleTasks /\ editing'.at = "idle"
  BY <1>1 DEF Rules!WebIdle, RuleTasks, RuleRows, Rules!NoRule
<1>4. \A id : ~Deletes(editing', id) /\ ~Upserts(editing', id) /\ (Deletes(editing, id) <=> id = x)
  BY <1>0, <1>1, <1>3 DEF Deletes, Upserts
<1>5. RulesTypes' /\ OnFlash' /\ InTable' /\ OnceEach'
  <2>1. Rules!Works \/ Rules!Breaks
    BY <1>2
  <2>2. json' \in {json, [json EXCEPT ![x] = Rules!NoMeta]}
    BY <1>2
  <2>3. QED
    BY <1>0, <1>1, <1>3, <1>4, <2>1, <2>2, FileRemoved
<1>6. InHand'
  BY <1>3, <1>4 DEF InHand
<1>7. x \in RuleIds /\ \A s \in RuleSlots : rules[s].id # x
  BY <1>4 DEF RulesHeld, InHand
<1>8. Rules!There' \subseteq Rules!There /\ Rules!Known' = Rules!Known /\ Rules!Free' = Rules!Free
  BY <1>1, <1>2, <1>7 DEF RulesHeld, RulesTypes, Rules!There, Rules!Known, Rules!Free, RuleIds
<1>9. Rules!There \ {x} \subseteq Rules!There'
  BY <1>2, <1>7 DEF RulesHeld, RulesTypes, Rules!There, RuleIds
<1>10. Numbered'
  <2>1. loading = "load" =>
          \A s \in RuleSlots : rules[s] # Rules!NoRule => rules[s].id \in seen \cap Rules!There'
    BY <1>7, <1>9 DEF RulesHeld, Numbered
  <2>2. QED
    BY <1>1, <1>4, <1>8, <2>1 DEF RulesHeld, Numbered
<1>11. Fits'
  <2>1. SUFFICES ASSUME ~stray' PROVE Fits'
    BY DEF Fits
  <2>2. ~stray /\ json' = [json EXCEPT ![x] = Rules!NoMeta]
    BY <1>2, <2>1
  <2>3. Rules!There' = Rules!There \ {x}
    BY <1>7, <2>2 DEF RulesHeld, RulesTypes, Rules!There, RuleIds
  <2>4. IsFiniteSet(Rules!There) /\ IsFiniteSet(Rules!There \ seen) /\ IsFiniteSet(Rules!Free)
    <3>1. Rules!There \subseteq RuleIds /\ Rules!There \ seen \subseteq RuleIds /\ Rules!Free \subseteq RuleSlots
      BY DEF Rules!There, RuleIds, Rules!Free
    <3>2. QED
      BY <3>1, SlotsFinite, FS_Subset
  <2>5. Rules!There' \in SUBSET Rules!There /\ Rules!There' \ seen \in SUBSET (Rules!There \ seen)
    BY <1>8
  <2>6. /\ IsFiniteSet(Rules!There') /\ Cardinality(Rules!There') <= Cardinality(Rules!There)
        /\ IsFiniteSet(Rules!There' \ seen)
        /\ Cardinality(Rules!There' \ seen) <= Cardinality(Rules!There \ seen)
    BY <2>4, <2>5, FS_Subset
  <2>7. PICK a \in Nat, b \in Nat, c \in Nat, d \in Nat, e \in Nat, f \in Nat :
          /\ a = Cardinality(Rules!There') /\ b = Cardinality(Rules!There) /\ c = Cardinality(RuleSlots)
          /\ d = Cardinality(Rules!There' \ seen) /\ e = Cardinality(Rules!There \ seen)
          /\ f = Cardinality(Rules!Free)
    BY <2>4, <2>6, SlotsFinite, FS_CardinalityType
  <2>8. b <= c /\ (loading = "load" => e <= f)
    BY <2>2, <2>7 DEF RulesHeld, Fits
  <2>9. a <= c /\ (loading = "load" => d <= f)
    BY <2>6, <2>7, <2>8
  <2>10. \A id \in Rules!There' : id \in Rules!Known' \/ (loading = "load" /\ id \notin seen)
    BY <1>4, <1>8, <2>2, <2>3 DEF RulesHeld, Fits
  <2>11. QED
    BY <1>1, <1>8, <2>7, <2>9, <2>10 DEF Fits
<1>12. QED
  BY <1>5, <1>6, <1>10, <1>11 DEF RulesHeld

LEMMA RulesStep ==
  ASSUME RulesInv, [Rules!Next]_ruleVars
  PROVE  RulesInv'
<1> SUFFICES ASSUME ~between' PROVE RulesHeld'
  BY DEF RulesInv
<1>1. ~between
  BY DEF Rules!Next, Rules!LoadOne, Rules!Loaded, Rules!Crash, Rules!Create, Rules!Update,
         Rules!SetEnabled, Rules!Delete, Rules!WriteSource, Rules!WriteBytecode, Rules!WriteMeta,
         Rules!RemoveSource, Rules!RemoveBytecode, Rules!RemoveMeta, Rules!webOnly, ruleVars
<1>2. RulesHeld
  BY <1>1 DEF RulesInv
<1>3. CASE Rules!Create
  <2>1. loading = "up"
    BY <1>2, <1>3 DEF Rules!Create, RulesHeld, RulesTypes
  <2>2. QED
    BY <1>2, <1>3, <2>1, CreateStep
<1>4. CASE UNCHANGED ruleVars
  BY <1>2, <1>4 DEF ruleVars, RulesHeld, RulesTypes, OnFlash, InTable, OnceEach, Numbered, InHand, Fits,
                    Rules!There, Rules!Known, Rules!Free
<1>5. QED
  BY <1>2, <1>3, <1>4, LoadOneStep, LoadedStep, RulesCrashStep, UpdateStep, SetEnabledStep, DeleteStep,
     WriteSourceStep, WriteBytecodeStep, WriteMetaStep, RemoveFileStep, RemoveMetaStep DEF Rules!Next

LEMMA RulesOk == RulesInv => Rules!SavedRuns
<1> SUFFICES ASSUME RulesHeld, NEW id \in RuleIds
             PROVE  LET p == past[id]
                        current == {n \in p.own : n >= p.ok}
                    IN  /\ p.ok # 0 =>
                             /\ {psrc[id], psbc[id], json[id].save} \subseteq current
                             /\ json[id].on \in p.on
                             /\ loading = "up" /\ ~stray =>
                                  \E s \in RuleSlots :
                                    /\ Rules!SlotsOf(id) = {s}
                                    /\ rules[s].save \in current /\ rules[s].on \in p.on
                        /\ json[id] # Rules!NoMeta /\ psbc[id] # 0 /\ ~p.failed =>
                             psbc[id] \in p.own /\ psbc[id] >= json[id].save
  BY DEF RulesInv, Rules!SavedRuns, RuleIds
<1>1. FilesOwed(past[id], psrc[id], psbc[id], json[id], ruled.changes)
  BY DEF RulesHeld, OnFlash
<1>2. past[id].ok # 0 => json[id] # Rules!NoMeta
  BY <1>1 DEF FilesOwed, Rules!NoMeta
<1>3. ASSUME past[id].ok # 0, loading = "up", ~stray
      PROVE  \E s \in RuleSlots :
               /\ Rules!SlotsOf(id) = {s} /\ rules[s].save \in {n \in past[id].own : n >= past[id].ok}
               /\ rules[s].on \in past[id].on
  <2>1. id \in Rules!There /\ ~Deletes(editing, id)
    BY <1>2, <1>3 DEF Rules!There, RuleIds, RulesHeld, InHand
  <2>2. id \in Rules!Known
    BY <1>3, <2>1 DEF RulesHeld, Fits
  <2>3. PICK s \in RuleSlots : rules[s].id = id /\ rules[s] # Rules!NoRule /\ Rules!SlotsOf(id) = {s}
    BY <2>2, RowThere
  <2>4. RowOwed(rules[s], past[id], psbc[id], json[id], editing)
    BY <2>3 DEF RulesHeld, InTable
  <2>5. QED
    BY <1>2, <1>3, <2>3, <2>4 DEF RowOwed
<1>4. QED
  BY <1>1, <1>2, <1>3 DEF FilesOwed

-----------------------------------------------------------------------------
(* The parts together *)

\* WrapperStore and RulesStore: what a user was told is saved is what decodes and what
\* runs.  Once the index is settled it leads to the wrapper with the key and the cache
\* has no old copy; the files and the row of a rule are of the save that was answered or
\* of a later one: whatever fails, whenever the hub restarts, and although the requests
\* are up before the files are read.
THEOREM WhatIsSavedRuns == Spec => []SavedIsWhatRuns
<1> DEFINE Inv == Of("wrappers", WrapperInv) /\ Of("rules", RulesInv)
<1>1. Init => Inv
  BY WrappersStart, RulesStart DEF Init, Of
<1>2. Inv /\ [Next]_vars => Inv'
  <2>1. ASSUME Inv, [Next]_vars, follows' = "wrappers"
        PROVE  WrapperInv'
    <3>1. follows = "wrappers" /\ [Installed!Next]_wrapperVars
      BY <2>1 DEF Next, vars, fileVars, wrapperVars
    <3>2. QED
      BY <2>1, <3>1, WrapperStep DEF Of
  <2>2. ASSUME Inv, [Next]_vars, follows' = "rules"
        PROVE  RulesInv'
    <3>1. follows = "rules" /\ [Rules!Next]_ruleVars
      BY <2>2 DEF Next, vars, fileVars, bootVars, ruleVars
    <3>2. QED
      BY <2>2, <3>1, RulesStep DEF Of
  <2>3. QED
    BY <2>1, <2>2 DEF Of
<1>3. Inv => SavedIsWhatRuns
  BY WrapOk, RulesOk DEF Of, SavedIsWhatRuns
<1>4. QED
  BY <1>1, <1>2, <1>3, PTL DEF Spec

=============================================================================
