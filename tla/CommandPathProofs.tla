--------------------------- MODULE CommandPathProofs ---------------------------
(***************************************************************************)
(* Proofs about CommandPath and PendingClose, for every number of devices  *)
(* and commands and every queue length: no accepted command is lost or     *)
(* ended twice, and what the hub opened stays owed a close, also over a    *)
(* loss of power.  The first part says what the queue's operators do to a  *)
(* sequence whose commands have ids of their own, the second reasons about *)
(* the four places a command can be in, and the last is about the table of *)
(* obligations and its file.                                               *)
(***************************************************************************)
EXTENDS CommandPath, PendingClose, FiniteSetTheorems, WellFoundedInduction, TLAPS

-----------------------------------------------------------------------------
(* Sequences of commands *)

Elems(q) == {q[j] : j \in DOMAIN q}

\* A queue of commands, each with an id of its own.
Clean(q) ==
  /\ q \in Seq(CommandType)
  /\ \A j, k \in DOMAIN q : q[j].id = q[k].id => j = k

LEMMA CleanElems ==
  ASSUME NEW q, Clean(q)
  PROVE  /\ DOMAIN q = 1 .. Len(q) /\ Len(q) \in Nat
         /\ \A j \in DOMAIN q : q[j] \in CommandType /\ q[j].id \in Ids
         /\ Elems(q) \subseteq CommandType
<1>1. q \in Seq(CommandType)
  BY DEF Clean
<1>2. DOMAIN q = 1 .. Len(q) /\ Len(q) \in Nat /\ \A j \in DOMAIN q : q[j] \in CommandType
  BY <1>1
<1>3. \A c \in CommandType : c.id \in Ids
  BY DEF CommandType
<1>4. QED
  BY <1>2, <1>3 DEF Elems

LEMMA Appended ==
  ASSUME NEW q, Clean(q), NEW c \in CommandType, \A e \in Elems(q) : e.id # c.id
  PROVE  Clean(Append(q, c)) /\ Elems(Append(q, c)) = Elems(q) \cup {c}
<1> DEFINE t == Append(q, c)
<1>1. /\ t \in Seq(CommandType) /\ Len(t) = Len(q) + 1 /\ DOMAIN t = 1 .. Len(t)
      /\ \A j \in DOMAIN q : t[j] = q[j] /\ t[Len(q) + 1] = c
  BY CleanElems DEF Clean
<1>2. Len(q) \in Nat /\ DOMAIN q = 1 .. Len(q) /\ t[Len(q) + 1] = c
  BY CleanElems
<1> HIDE DEF t
<1>3. \A j \in DOMAIN t : j \in DOMAIN q \/ j = Len(q) + 1
  BY <1>1, <1>2
<1>4. DOMAIN q \subseteq DOMAIN t /\ Len(q) + 1 \in DOMAIN t
  BY <1>1, <1>2
<1>5. Elems(t) = Elems(q) \cup {c}
  BY <1>1, <1>2, <1>3, <1>4 DEF Elems
<1>6. \A j, k \in DOMAIN t : t[j].id = t[k].id => j = k
  BY <1>1, <1>2, <1>3 DEF Clean, Elems
<1>7. QED
  BY <1>1, <1>5, <1>6 DEF Clean, t

LEMMA Removed ==
  ASSUME NEW q, Clean(q), NEW d \in DOMAIN q
  PROVE  Clean(RemoveAt(q, d)) /\ Elems(RemoveAt(q, d)) = Elems(q) \ {q[d]}
<1> DEFINE a == SubSeq(q, 1, d - 1)
           b == SubSeq(q, d + 1, Len(q))
           t == RemoveAt(q, d)
           from(j) == IF j < d THEN j ELSE j + 1
<1>1. q \in Seq(CommandType) /\ Len(q) \in Nat /\ DOMAIN q = 1 .. Len(q) /\ d \in 1 .. Len(q)
  BY CleanElems DEF Clean
<1>2. a \in Seq(CommandType) /\ Len(a) = d - 1 /\ \A j \in 1 .. d - 1 : a[j] = q[j]
  BY <1>1
<1>3. b \in Seq(CommandType) /\ Len(b) = Len(q) - d /\ \A j \in 1 .. Len(q) - d : b[j] = q[j + d]
  BY <1>1
<1>4. t = a \o b
  BY DEF RemoveAt
<1> HIDE DEF a, b, t
<1>5. /\ t \in Seq(CommandType) /\ Len(t) = Len(q) - 1 /\ DOMAIN t = 1 .. Len(q) - 1
      /\ \A j \in 1 .. d - 1 : t[j] = a[j]
      /\ \A j \in d .. Len(q) - 1 : t[j] = b[j - (d - 1)]
  <2>1. /\ t \in Seq(CommandType) /\ Len(t) = Len(a) + Len(b) /\ DOMAIN t = 1 .. Len(t)
        /\ \A j \in 1 .. Len(t) : t[j] = IF j <= Len(a) THEN a[j] ELSE b[j - Len(a)]
    <3>1. \A x, y \in Seq(CommandType) :
            /\ x \o y \in Seq(CommandType) /\ Len(x \o y) = Len(x) + Len(y)
            /\ \A j \in 1 .. Len(x) + Len(y) :
                 (x \o y)[j] = IF j <= Len(x) THEN x[j] ELSE y[j - Len(x)]
      OBVIOUS
    <3>2. \A x \in Seq(CommandType) : DOMAIN x = 1 .. Len(x)
      OBVIOUS
    <3>3. a \in Seq(CommandType) /\ b \in Seq(CommandType)
      BY <1>2, <1>3
    <3>4. QED
      BY <1>4, <3>1, <3>2, <3>3, Zenon
  <2>2. Len(t) = Len(q) - 1 /\ Len(a) = d - 1
    BY <1>1, <1>2, <1>3, <2>1
  <2>3. \A j \in 1 .. d - 1 : j \in 1 .. Len(t) /\ j <= Len(a)
    BY <1>1, <2>2
  <2>4. \A j \in d .. Len(q) - 1 : j \in 1 .. Len(t) /\ ~(j <= Len(a))
    BY <1>1, <2>2
  <2>5. QED
    BY <2>1, <2>2, <2>3, <2>4
<1>6. \A j \in DOMAIN t : from(j) \in DOMAIN q /\ from(j) # d /\ t[j] = q[from(j)]
  <2> SUFFICES ASSUME NEW j \in DOMAIN t
               PROVE  from(j) \in DOMAIN q /\ from(j) # d /\ t[j] = q[from(j)]
    OBVIOUS
  <2>1. CASE j < d
    <3>1. j \in 1 .. d - 1
      BY <1>1, <1>5, <2>1
    <3>2. QED
      BY <1>1, <1>2, <1>5, <2>1, <3>1
  <2>2. CASE ~(j < d)
    <3>1. j \in d .. Len(q) - 1 /\ j - (d - 1) \in 1 .. Len(q) - d /\ (j - (d - 1)) + d = j + 1
      BY <1>1, <1>5, <2>2
    <3>2. t[j] = q[j + 1]
      BY <1>3, <1>5, <3>1
    <3>3. QED
      BY <1>1, <2>2, <3>1, <3>2
  <2>3. QED
    BY <2>1, <2>2
<1>7. \A i \in DOMAIN q : i # d => \E j \in DOMAIN t : from(j) = i
  <2> SUFFICES ASSUME NEW i \in DOMAIN q, i # d PROVE \E j \in DOMAIN t : from(j) = i
    OBVIOUS
  <2>1. CASE i < d
    <3>1. i \in DOMAIN t /\ from(i) = i
      BY <1>1, <1>5, <2>1
    <3>2. QED
      BY <3>1
  <2>2. CASE i > d
    <3>1. i - 1 \in DOMAIN t /\ from(i - 1) = i
      BY <1>1, <1>5, <2>2
    <3>2. QED
      BY <3>1
  <2>3. QED
    BY <1>1, <2>1, <2>2
<1>8. \A j, k \in DOMAIN t : from(j) = from(k) => j = k
  BY <1>1, <1>5
<1> HIDE DEF from
<1>9. \A j, k \in DOMAIN t : t[j].id = t[k].id => j = k
  BY <1>6, <1>8 DEF Clean
<1>10. Elems(t) = Elems(q) \ {q[d]}
  <2>1. \A j \in DOMAIN t : t[j] \in Elems(q) /\ t[j] # q[d]
    BY <1>6 DEF Clean, Elems
  <2>2. \A i \in DOMAIN q : q[i] # q[d] => \E j \in DOMAIN t : t[j] = q[i]
    BY <1>6, <1>7
  <2>3. QED
    BY <2>1, <2>2 DEF Elems
<1>11. QED
  BY <1>5, <1>9, <1>10 DEF Clean, t

\* A list of positions, each once.
Lists(order, S) ==
  /\ \E l \in Nat : DOMAIN order = 1 .. l
  /\ \A m \in DOMAIN order : order[m] \in S
  /\ \A l, m \in DOMAIN order : order[l] = order[m] => l = m
  /\ \A i \in S : \E m \in DOMAIN order : order[m] = i

LEMMA Listed ==
  ASSUME NEW n \in Nat, NEW S, S \subseteq 1 .. n, NEW order \in InOrder(S)
  PROVE  Lists(order, S)
<1>1. IsFiniteSet(S) /\ Cardinality(S) \in Nat
  <2>1. IsFiniteSet(1 .. n) /\ S \in SUBSET (1 .. n)
    BY FS_Interval
  <2>2. QED
    BY <2>1, FS_Subset, FS_CardinalityType
<1> DEFINE D == 1 .. Cardinality(S)
<1>2. order \in [D -> S] /\ \A l, m \in D : l < m => order[l] < order[m]
  BY DEF InOrder
<1>3. \A l, m \in D : order[l] = order[m] => l = m
  <2> SUFFICES ASSUME NEW l \in D, NEW m \in D, order[l] = order[m], l # m PROVE FALSE
    OBVIOUS
  <2>1. l < m \/ m < l
    BY <1>1
  <2>2. order[l] \in 1 .. n
    BY <1>2
  <2>3. QED
    BY <1>2, <2>1, <2>2
<1>4. order \in Injection(D, S)
  BY <1>2, <1>3 DEF Injection, IsInjective
<1>5. Cardinality(D) = Cardinality(S)
  BY <1>1, FS_Interval
<1>6. order \in Surjection(D, S)
  BY <1>1, <1>4, <1>5, FS_Injection
<1>7. \A i \in S : \E m \in D : order[m] = i
  BY <1>6 DEF Surjection
<1>8. DOMAIN order = D /\ \A m \in D : order[m] \in S
  BY <1>2
<1>9. QED
  BY <1>1, <1>3, <1>7, <1>8 DEF Lists

\* What is left of a queue when some have expired.
LEMMA Survive ==
  ASSUME NEW q, Clean(q), NEW late, late \subseteq DOMAIN q, NEW order \in InOrder(DOMAIN q \ late)
  PROVE  LET live == [m \in DOMAIN order |-> q[order[m]]]
         IN  Clean(live) /\ Elems(live) = Elems(q) \ {q[i] : i \in late}
<1> DEFINE S == DOMAIN q \ late
           live == [m \in DOMAIN order |-> q[order[m]]]
<1>1. Len(q) \in Nat /\ S \subseteq 1 .. Len(q) /\ \A i \in DOMAIN q : q[i] \in CommandType
  BY CleanElems
<1>2. /\ \E l \in Nat : DOMAIN order = 1 .. l
      /\ \A m \in DOMAIN order : order[m] \in S
      /\ \A l, m \in DOMAIN order : order[l] = order[m] => l = m
      /\ \A i \in S : \E m \in DOMAIN order : order[m] = i
  <2>1. Lists(order, S)
    BY <1>1, Listed
  <2>2. QED
    BY <2>1 DEF Lists
<1>3. DOMAIN live = DOMAIN order /\ \A m \in DOMAIN order : live[m] = q[order[m]] /\ order[m] \in DOMAIN q
  BY <1>2
<1>4. live \in Seq(CommandType)
  <2>1. PICK l \in Nat : DOMAIN order = 1 .. l
    BY <1>2
  <2>2. \A m \in 1 .. l : q[order[m]] \in CommandType
    BY <1>1, <1>3, <2>1
  <2>3. QED
    BY <2>1, <2>2
<1> HIDE DEF live
<1>5. Clean(live)
  BY <1>2, <1>3, <1>4 DEF Clean
<1>6. Elems(live) = Elems(q) \ {q[i] : i \in late}
  <2>1. \A m \in DOMAIN live : live[m] \in Elems(q) /\ \A i \in late : live[m] # q[i]
    BY <1>2, <1>3 DEF Clean, Elems
  <2>2. \A i \in DOMAIN q : i \in late \/ \E m \in DOMAIN live : live[m] = q[i]
    BY <1>2, <1>3
  <2>3. QED
    BY <2>1, <2>2 DEF Elems
<1>7. QED
  BY <1>5, <1>6 DEF live

\* The oldest of some entries is one of them.
LEMMA FirstIs ==
  ASSUME NEW S, S \subseteq Nat, S # {}
  PROVE  First(S) \in S
<1>1. PICK c \in S : \A d \in S : <<d, c>> \notin OpToRel(<, Nat)
  BY NatLessThanWellFounded, WFMin, Zenon
<1>2. \A d \in S : ~(d < c)
  BY <1>1 DEF OpToRel
<1>3. c \in S /\ \A d \in S : c <= d
  BY <1>2
<1>4. QED
  BY <1>3 DEF First

\* A queue that takes a command gives up one at most, and never the new one.
LEMMA Pushed ==
  ASSUME NEW q, Clean(q), NEW c \in CommandType, \A e \in Elems(q) : e.id # c.id, CanPush(q, c)
  PROVE  /\ Clean(Push(q, c))
         /\ \E out \in SUBSET Elems(q) : Elems(Push(q, c)) = (Elems(q) \ out) \cup {c}
<1>1. CASE Len(q) < QueueMax
  <2>1. Push(q, c) = Append(q, c)
    BY <1>1 DEF Push
  <2>2. Elems(q) \ {} = Elems(q) /\ {} \in SUBSET Elems(q)
    OBVIOUS
  <2>3. Clean(Append(q, c)) /\ Elems(Append(q, c)) = Elems(q) \cup {c}
    BY Appended
  <2>4. QED
    BY <2>1, <2>2, <2>3
<1>2. CASE ~(Len(q) < QueueMax)
  <2> DEFINE d == First(OrdinaryAt(q))
             r == RemoveAt(q, d)
  <2>1. d \in DOMAIN q
    <3>1. OrdinaryAt(q) \subseteq DOMAIN q /\ DOMAIN q \subseteq Nat /\ OrdinaryAt(q) # {}
      BY <1>2, CleanElems DEF OrdinaryAt, CanPush
    <3>2. QED
      BY <3>1, FirstIs
  <2>2. Push(q, c) = Append(r, c)
    BY <1>2 DEF Push
  <2> HIDE DEF d
  <2>3. Clean(r) /\ Elems(r) = Elems(q) \ {q[d]} /\ q[d] \in Elems(q)
    BY <2>1, Removed DEF Elems
  <2> HIDE DEF r
  <2>4. Clean(Append(r, c)) /\ Elems(Append(r, c)) = Elems(r) \cup {c}
    BY <2>3, Appended
  <2>5. {q[d]} \in SUBSET Elems(q)
    BY <2>3
  <2>6. QED
    BY <2>2, <2>3, <2>4, <2>5
<1>3. QED
  BY <1>1, <1>2

\* The command that is sent next is in the queue.
LEMMA Picked ==
  ASSUME NEW q, Clean(q), q # <<>>
  PROVE  PickIndex(q) \in DOMAIN q
<1>1. DOMAIN q = 1 .. Len(q) /\ Len(q) \in Nat /\ Len(q) # 0
  BY CleanElems DEF Clean
<1>2. UrgentAt(q) \subseteq DOMAIN q
  BY DEF UrgentAt
<1>3. UrgentAt(q) # {} => First(UrgentAt(q)) \in UrgentAt(q)
  BY <1>1, <1>2, FirstIs
<1>4. QED
  BY <1>1, <1>2, <1>3 DEF PickIndex

\* How many ends a displacement reports of a command: one of what is displaced.
LEMMA Displaced ==
  ASSUME NEW q, Clean(q), NEW r, Clean(r), NEW i
  PROVE  Cardinality({j \in DOMAIN q : q[j].id = i /\ ~Contains(r, q[j])})
           = IF \E e \in Elems(q) \ Elems(r) : e.id = i THEN 1 ELSE 0
<1> DEFINE D == {j \in DOMAIN q : q[j].id = i /\ ~Contains(r, q[j])}
<1>1. \A e : Contains(r, e) <=> e \in Elems(r)
  BY CleanElems DEF Contains, Elems
<1>2. CASE \E e \in Elems(q) \ Elems(r) : e.id = i
  <2>1. PICK j \in DOMAIN q : q[j] \notin Elems(r) /\ q[j].id = i
    BY <1>2 DEF Elems
  <2>2. D = {j}
    BY <1>1, <2>1 DEF Clean
  <2>3. QED
    BY <1>2, <2>2, FS_Singleton
<1>3. CASE ~\E e \in Elems(q) \ Elems(r) : e.id = i
  <2>1. D = {}
    BY <1>1, <1>3 DEF Elems
  <2>2. QED
    BY <1>3, <2>1, FS_EmptySet
<1>4. QED
  BY <1>2, <1>3

\* How many entries a command has in the queue.
LEMMA Counted ==
  ASSUME NEW q, Clean(q), NEW i
  PROVE  Cardinality({j \in DOMAIN q : q[j].id = i}) = IF \E e \in Elems(q) : e.id = i THEN 1 ELSE 0
<1> DEFINE D == {j \in DOMAIN q : q[j].id = i}
<1>1. CASE \E e \in Elems(q) : e.id = i
  <2>1. PICK j \in DOMAIN q : q[j].id = i
    BY <1>1 DEF Elems
  <2>2. D = {j}
    BY <2>1 DEF Clean
  <2>3. QED
    BY <1>1, <2>2, FS_Singleton
<1>2. CASE ~\E e \in Elems(q) : e.id = i
  <2>1. D = {}
    BY <1>2 DEF Elems
  <2>2. QED
    BY <1>2, <2>1, FS_EmptySet
<1>3. QED
  BY <1>1, <1>2

-----------------------------------------------------------------------------
(* Every command is in one place *)

IdsOf(commands) == {c.id : c \in commands}

QueuedIds == IdsOf(Elems(queue))
WaitingIds == IF requeue # NoCommand THEN {requeue.id} ELSE {}
FlyingIds == IF engine # "free" THEN {inflight.id} ELSE {}
EndedIds == {i \in Ids : ended[i] = 1}

\* Four places share out the first n ids.
Shared(q, w, f, e, n) ==
  /\ q \cap w = {} /\ q \cap f = {} /\ q \cap e = {} /\ w \cap f = {} /\ w \cap e = {} /\ f \cap e = {}
  /\ q \cup w \cup f \cup e = 1 .. n

CommandsOk ==
  /\ Clean(queue)
  /\ requeue \in CommandType \cup {NoCommand}
  /\ engine # "free" => inflight \in CommandType
  /\ ended \in [Ids -> {0, 1}] /\ accepted \in 0 .. MaxCommands

PlaceInv == CommandsOk /\ Shared(QueuedIds, WaitingIds, FlyingIds, EndedIds, accepted)

LEMMA Different ==
  ASSUME NEW q, Clean(q), NEW e \in Elems(q), NEW f \in Elems(q), e.id = f.id
  PROVE  e = f
BY DEF Clean, Elems

\* A queue without some of its commands is without their ids.
LEMMA IdsWithout ==
  ASSUME NEW q, Clean(q), NEW out \in SUBSET Elems(q)
  PROVE  IdsOf(Elems(q) \ out) = IdsOf(Elems(q)) \ IdsOf(out) /\ IdsOf(out) \subseteq IdsOf(Elems(q))
BY Different DEF IdsOf

\* What an accepted command displaces has ended.
LEMMA Accepted ==
  ASSUME CommandsOk, NEW c \in CommandType, c.id \notin QueuedIds, QueuedIds \cap EndedIds = {},
         CanPush(queue, c), Accept(c)
  PROVE  /\ Clean(queue') /\ ended' \in [Ids -> {0, 1}]
         /\ \A e \in Elems(queue') : e \in Elems(queue) \/ e = c
         /\ \E gone \in SUBSET QueuedIds :
              /\ QueuedIds' = (QueuedIds \ gone) \cup {c.id}
              /\ EndedIds' = EndedIds \cup gone
<1>1. Clean(queue) /\ \A e \in Elems(queue) : e.id # c.id
  BY DEF CommandsOk, QueuedIds, IdsOf
<1>2. queue' = Push(queue, c)
  BY DEF Accept
<1>3. Clean(queue')
  BY <1>1, <1>2, Pushed
<1>4. PICK out \in SUBSET Elems(queue) : Elems(queue') = (Elems(queue) \ out) \cup {c}
  BY <1>1, <1>2, Pushed
<1> DEFINE gone == IdsOf(out)
<1>5. IdsOf(Elems(queue) \ out) = QueuedIds \ gone /\ gone \subseteq QueuedIds
  BY <1>1, IdsWithout DEF QueuedIds
<1>6. QueuedIds' = (QueuedIds \ gone) \cup {c.id}
  <2>1. QueuedIds' = IdsOf(Elems(queue'))
    BY DEF QueuedIds
  <2>2. IdsOf(Elems(queue')) = IdsOf(Elems(queue) \ out) \cup {c.id}
    BY <1>4 DEF IdsOf
  <2>3. QED
    BY <1>5, <2>1, <2>2
<1>7. Elems(queue) \ Elems(queue') = out
  BY <1>1, <1>4
<1>8. ended' = [i \in Ids |-> ended[i] + IF i \in gone THEN 1 ELSE 0]
  <2>1. \A i \in Ids : Cardinality({j \in DOMAIN queue : queue[j].id = i /\ ~Contains(queue', queue[j])})
                         = IF i \in gone THEN 1 ELSE 0
    <3> SUFFICES ASSUME NEW i \in Ids
                 PROVE  Cardinality({j \in DOMAIN queue : queue[j].id = i /\ ~Contains(queue', queue[j])})
                          = IF i \in gone THEN 1 ELSE 0
      OBVIOUS
    <3>1. (\E e \in out : e.id = i) <=> i \in gone
      BY DEF IdsOf
    <3>2. Cardinality({j \in DOMAIN queue : queue[j].id = i /\ ~Contains(queue', queue[j])})
            = IF \E e \in out : e.id = i THEN 1 ELSE 0
      BY <1>1, <1>3, <1>7, Displaced
    <3>3. QED
      BY <3>1, <3>2
  <2>2. QED
    BY <2>1 DEF Accept
<1> HIDE DEF gone
<1>9. \A i \in Ids : ended[i] \in {0, 1} /\ (i \in gone => ended[i] = 0)
  BY <1>5 DEF CommandsOk, EndedIds
<1>10. ended' \in [Ids -> {0, 1}] /\ EndedIds' = EndedIds \cup gone
  <2>1. \A i \in Ids : ended'[i] = IF i \in gone THEN 1 ELSE ended[i]
    BY <1>8, <1>9
  <2>2. gone \subseteq Ids
    <3>1. QueuedIds \subseteq Ids
      BY <1>1, CleanElems DEF QueuedIds, IdsOf, Elems
    <3>2. QED
      BY <1>5, <3>1
  <2>3. QED
    BY <1>8, <1>9, <2>1, <2>2 DEF EndedIds
<1>11. QED
  BY <1>3, <1>4, <1>5, <1>6, <1>10

\* The end of commands that had not ended.
LEMMA EndsThem ==
  ASSUME CommandsOk, NEW ids, ids \subseteq Ids, ids \cap EndedIds = {}, Ends(ids)
  PROVE  ended' \in [Ids -> {0, 1}] /\ EndedIds' = EndedIds \cup ids
<1>1. \A i \in Ids : ended[i] \in {0, 1} /\ (i \in ids => ended[i] = 0)
  BY DEF CommandsOk, EndedIds
<1>2. \A i \in Ids : ended'[i] = IF i \in ids THEN 1 ELSE ended[i]
  BY <1>1 DEF Ends
<1>3. QED
  BY <1>1, <1>2 DEF Ends, EndedIds

LEMMA IdTypes ==
  ASSUME PlaceInv
  PROVE  /\ {QueuedIds, WaitingIds, FlyingIds, EndedIds} \subseteq SUBSET Ids
         /\ 1 .. accepted \subseteq Ids
BY CommandPathAssumption DEF PlaceInv, CommandsOk, Shared, Ids

\* A new command, and one more accepted.
LEMMA NewCommand ==
  ASSUME PlaceInv, accepted < MaxCommands, NEW c \in CommandType, c.id = accepted + 1,
         CanPush(queue, c), Accept(c), accepted' = accepted + 1,
         UNCHANGED <<requeue, engine, inflight>>
  PROVE  PlaceInv'
<1>1. c.id \notin 1 .. accepted /\ 1 .. accepted + 1 = (1 .. accepted) \cup {c.id} /\ accepted + 1 \in 0 .. MaxCommands
  BY CommandPathAssumption DEF PlaceInv, CommandsOk
<1>2. c.id \notin QueuedIds \cup WaitingIds \cup FlyingIds \cup EndedIds /\ QueuedIds \cap EndedIds = {}
  BY <1>1 DEF PlaceInv, Shared
<1>3. /\ Clean(queue') /\ ended' \in [Ids -> {0, 1}]
      /\ \E gone \in SUBSET QueuedIds :
           QueuedIds' = (QueuedIds \ gone) \cup {c.id} /\ EndedIds' = EndedIds \cup gone
  BY <1>2, Accepted DEF PlaceInv
<1>4. WaitingIds' = WaitingIds /\ FlyingIds' = FlyingIds
  BY DEF WaitingIds, FlyingIds
<1>5. CommandsOk'
  BY <1>1, <1>3 DEF PlaceInv, CommandsOk
<1>6. Shared(QueuedIds', WaitingIds', FlyingIds', EndedIds', accepted')
  BY <1>1, <1>2, <1>3, <1>4 DEF PlaceInv, Shared
<1>7. QED
  BY <1>5, <1>6 DEF PlaceInv, Shared

\* Some commands end, wherever they were.
LEMMA Ended ==
  ASSUME PlaceInv, NEW ids, ids \subseteq QueuedIds \cup WaitingIds \cup FlyingIds, Ends(ids)
  PROVE  ended' \in [Ids -> {0, 1}] /\ EndedIds' = EndedIds \cup ids
<1>1. ids \subseteq Ids
  BY IdTypes
<1>2. ids \cap EndedIds = {}
  BY DEF PlaceInv, Shared
<1>3. QED
  BY <1>1, <1>2, EndsThem DEF PlaceInv

LEMMA PlaceRequeue == ASSUME PlaceInv, Requeue PROVE PlaceInv'
<1> DEFINE c == [requeue EXCEPT !.retried = TRUE]
<1>1. requeue' = NoCommand /\ UNCHANGED <<inflight, engine, accepted>>
  BY DEF Requeue
<1>2. WaitingIds' = {} /\ FlyingIds' = FlyingIds
  BY <1>1 DEF WaitingIds, FlyingIds
<1>3. CASE requeue = NoCommand /\ UNCHANGED <<queue, ended>>
  <2>1. QueuedIds' = QueuedIds /\ EndedIds' = EndedIds /\ WaitingIds = {}
    BY <1>3 DEF QueuedIds, EndedIds, WaitingIds
  <2>2. CommandsOk'
    BY <1>1, <1>3 DEF PlaceInv, CommandsOk
  <2>3. QED
    BY <1>1, <1>2, <2>1, <2>2 DEF PlaceInv, Shared
<1>4. CASE requeue # NoCommand /\ CanPush(queue, c) /\ Accept(c)
  <2>1. requeue \in CommandType
    BY <1>4 DEF PlaceInv, CommandsOk
  <2>2. c \in CommandType /\ c.id = requeue.id /\ WaitingIds = {c.id}
    BY <1>4, <2>1 DEF CommandType, WaitingIds
  <2> HIDE DEF c
  <2>3. c.id \notin QueuedIds \cup FlyingIds \cup EndedIds /\ QueuedIds \cap EndedIds = {}
    BY <2>2 DEF PlaceInv, Shared
  <2>4. /\ Clean(queue') /\ ended' \in [Ids -> {0, 1}]
        /\ \E gone \in SUBSET QueuedIds :
             QueuedIds' = (QueuedIds \ gone) \cup {c.id} /\ EndedIds' = EndedIds \cup gone
    BY <1>4, <2>2, <2>3, Accepted DEF PlaceInv
  <2>5. CommandsOk'
    BY <1>1, <2>4 DEF PlaceInv, CommandsOk
  <2>6. Shared(QueuedIds', WaitingIds', FlyingIds', EndedIds', accepted')
    BY <1>1, <1>2, <2>2, <2>3, <2>4 DEF PlaceInv, Shared
  <2>7. QED
    BY <2>5, <2>6 DEF PlaceInv, Shared
<1>5. CASE requeue # NoCommand /\ Ends({requeue.id}) /\ UNCHANGED queue
  <2>1. WaitingIds = {requeue.id} /\ QueuedIds' = QueuedIds
    BY <1>5 DEF WaitingIds, QueuedIds
  <2>2. ended' \in [Ids -> {0, 1}] /\ EndedIds' = EndedIds \cup WaitingIds
    BY <1>5, <2>1, Ended
  <2>3. CommandsOk'
    BY <1>1, <1>5, <2>2 DEF PlaceInv, CommandsOk
  <2>4. Shared(QueuedIds', WaitingIds', FlyingIds', EndedIds', accepted')
    BY <1>1, <1>2, <2>1, <2>2 DEF PlaceInv, Shared
  <2>5. QED
    BY <2>3, <2>4 DEF PlaceInv, Shared
<1>6. QED
  BY <1>3, <1>4, <1>5 DEF Requeue

\* What one round of the decoder does to the queue: some expire, one leaves.
Serviced(lost, c) ==
  /\ Clean(queue') /\ Elems(queue') \subseteq Elems(queue) /\ lost \subseteq QueuedIds
  /\ c \in Elems(queue) /\ c.id \notin lost
  /\ QueuedIds' = QueuedIds \ (lost \cup {c.id})

LEMMA ServiceSplits ==
  ASSUME Clean(queue), Service
  PROVE  \/ \E lost : /\ Clean(queue') /\ Elems(queue') \subseteq Elems(queue)
                      /\ lost \subseteq QueuedIds
                      /\ QueuedIds' = QueuedIds \ lost
                      /\ Ends(lost) /\ UNCHANGED <<inflight, engine, owed>>
         \/ \E lost, c : /\ Serviced(lost, c) /\ Ends(lost \cup {c.id})
                         /\ UNCHANGED <<inflight, engine, owed>>
         \/ \E lost, c : /\ Serviced(lost, c) /\ Ends(lost) /\ inflight' = c /\ engine' = "pending"
                         /\ owed' = IF c.open THEN owed \cup {c.key} ELSE owed
<1> DEFINE Of(late, order) ==
        LET live == [m \in DOMAIN order |-> queue[order[m]]]
            lost == {queue[i].id : i \in late}
            n    == PickIndex(live)
            c    == live[n]
        IN  IF live = <<>>
            THEN /\ queue' = live /\ Ends(lost)
                 /\ UNCHANGED <<inflight, engine, owed, sent>>
            ELSE /\ queue' = RemoveAt(live, n)
                 /\ \/ /\ Ends(lost \cup {c.id})
                       /\ UNCHANGED <<inflight, engine, owed, sent>>
                    \/ /\ Ends(lost)
                       /\ inflight' = c
                       /\ engine' = "pending"
                       /\ owed' = IF c.open THEN owed \cup {c.key} ELSE owed
                       /\ sent' = [sent EXCEPT ![c.id] = @ + 1]
<1>0. PICK late \in SUBSET DOMAIN queue : \E order \in InOrder(DOMAIN queue \ late) : Of(late, order)
  BY Zenon DEF Service
<1>1. PICK order \in InOrder(DOMAIN queue \ late) : Of(late, order)
  BY <1>0
<1> DEFINE live == [m \in DOMAIN order |-> queue[order[m]]]
           dead == {queue[i] : i \in late}
           lost == {queue[i].id : i \in late}
           n    == PickIndex(live)
           c    == live[n]
<1>2. Clean(live) /\ Elems(live) = Elems(queue) \ dead
  BY Survive
<1>3. dead \in SUBSET Elems(queue) /\ lost = IdsOf(dead)
  BY DEF Elems, IdsOf
<1> HIDE DEF live, dead, lost
<1>4. IdsOf(Elems(live)) = QueuedIds \ lost /\ lost \subseteq QueuedIds
  BY <1>2, <1>3, IdsWithout DEF QueuedIds
<1>5. CASE live = <<>>
  <2>1. queue' = live /\ Ends(lost) /\ UNCHANGED <<inflight, engine, owed>>
    BY <1>1, <1>5, Zenon DEF live, lost
  <2>2. QueuedIds' = QueuedIds \ lost /\ Clean(queue') /\ Elems(queue') \subseteq Elems(queue)
    BY <1>2, <1>4, <2>1 DEF QueuedIds
  <2>3. QED
    BY <1>4, <2>1, <2>2
<1>6. CASE live # <<>>
  <2>1. /\ queue' = RemoveAt(live, n)
        /\ \/ Ends(lost \cup {c.id}) /\ UNCHANGED <<inflight, engine, owed>>
           \/ /\ Ends(lost) /\ inflight' = c /\ engine' = "pending"
              /\ owed' = IF c.open THEN owed \cup {c.key} ELSE owed
    BY <1>1, <1>6, Zenon DEF live, lost
  <2>2. n \in DOMAIN live
    BY <1>2, <1>6, Picked
  <2>3. c \in Elems(live)
    BY <2>2 DEF Elems
  <2>4. Clean(RemoveAt(live, n)) /\ Elems(RemoveAt(live, n)) = Elems(live) \ {c}
    BY <1>2, <2>2, Removed
  <2> HIDE DEF n, c
  <2>5. Serviced(lost, c)
    <3>1. {c} \in SUBSET Elems(live)
      BY <2>3
    <3>2. IdsOf(Elems(live) \ {c}) = IdsOf(Elems(live)) \ IdsOf({c})
      BY <1>2, <3>1, IdsWithout
    <3>3. IdsOf({c}) = {c.id}
      BY DEF IdsOf
    <3>4. QueuedIds' = QueuedIds \ (lost \cup {c.id})
      BY <1>4, <2>1, <2>4, <3>2, <3>3 DEF QueuedIds
    <3>5. c.id \in IdsOf(Elems(live))
      BY <2>3 DEF IdsOf
    <3>6. QED
      BY <1>2, <1>4, <2>1, <2>3, <2>4, <3>4, <3>5 DEF Serviced
  <2>6. QED
    BY <2>1, <2>5
<1>7. QED
  BY <1>5, <1>6

LEMMA PlaceService == ASSUME PlaceInv, Service PROVE PlaceInv'
<1>1. Clean(queue) /\ engine = "free" /\ UNCHANGED <<requeue, accepted>>
  BY DEF PlaceInv, CommandsOk, Service
<1>2. WaitingIds' = WaitingIds /\ FlyingIds = {}
  BY <1>1 DEF WaitingIds, FlyingIds
<1>3. ASSUME NEW lost, Clean(queue'), lost \subseteq QueuedIds, QueuedIds' = QueuedIds \ lost,
             Ends(lost), UNCHANGED <<inflight, engine, owed>>
      PROVE  PlaceInv'
  <2>1. FlyingIds' = {}
    BY <1>1, <1>3 DEF FlyingIds
  <2>2. ended' \in [Ids -> {0, 1}] /\ EndedIds' = EndedIds \cup lost
    BY <1>3, Ended
  <2>3. CommandsOk'
    BY <1>1, <1>3, <2>2 DEF PlaceInv, CommandsOk
  <2>4. Shared(QueuedIds', WaitingIds', FlyingIds', EndedIds', accepted')
    BY <1>1, <1>2, <1>3, <2>1, <2>2 DEF PlaceInv, Shared
  <2>5. QED
    BY <2>3, <2>4 DEF PlaceInv, Shared
<1>4. ASSUME NEW lost, NEW c, Serviced(lost, c), Ends(lost \cup {c.id}),
             UNCHANGED <<inflight, engine, owed>>
      PROVE  PlaceInv'
  <2>1. c.id \in QueuedIds
    BY <1>4 DEF Serviced, QueuedIds, IdsOf
  <2>2. lost \cup {c.id} \subseteq QueuedIds
    BY <1>4, <2>1 DEF Serviced
  <2>3. QED
    BY <1>3, <1>4, <2>2 DEF Serviced
<1>5. ASSUME NEW lost, NEW c, Serviced(lost, c), Ends(lost), inflight' = c, engine' = "pending"
      PROVE  PlaceInv'
  <2>1. FlyingIds' = {c.id} /\ c \in CommandType
    BY <1>1, <1>5, CleanElems DEF FlyingIds, Serviced
  <2>2. c.id \in QueuedIds /\ lost \subseteq QueuedIds
    BY <1>5 DEF Serviced, QueuedIds, IdsOf
  <2>3. ended' \in [Ids -> {0, 1}] /\ EndedIds' = EndedIds \cup lost
    BY <1>5, <2>2, Ended
  <2>4. CommandsOk'
    BY <1>1, <1>5, <2>1, <2>3 DEF PlaceInv, CommandsOk, Serviced
  <2>5. Shared(QueuedIds', WaitingIds', FlyingIds', EndedIds', accepted')
    BY <1>1, <1>2, <1>5, <2>1, <2>2, <2>3 DEF PlaceInv, Shared, Serviced
  <2>6. QED
    BY <2>4, <2>5 DEF PlaceInv, Shared
<1>6. QED
  BY <1>1, <1>3, <1>4, <1>5, ServiceSplits

LEMMA PlaceBusy == ASSUME PlaceInv, RefusedBusy PROVE PlaceInv'
<1>1. /\ engine # "free" /\ engine' = "free" /\ UNCHANGED <<queue, inflight, accepted>>
      /\ inflight \in CommandType /\ inflight # NoCommand
  BY NoCommandAssumption DEF RefusedBusy, PlaceInv, CommandsOk
<1>2. QueuedIds' = QueuedIds /\ FlyingIds = {inflight.id} /\ FlyingIds' = {}
  BY <1>1 DEF QueuedIds, FlyingIds
<1>3. CASE requeue = NoCommand /\ requeue' = inflight /\ UNCHANGED ended
  <2>1. WaitingIds = {} /\ WaitingIds' = {inflight.id} /\ EndedIds' = EndedIds
    BY <1>1, <1>3 DEF WaitingIds, EndedIds
  <2>2. CommandsOk'
    BY <1>1, <1>3 DEF PlaceInv, CommandsOk
  <2>3. Shared(QueuedIds', WaitingIds', FlyingIds', EndedIds', accepted')
    BY <1>1, <1>2, <2>1 DEF PlaceInv, Shared
  <2>4. QED
    BY <2>2, <2>3 DEF PlaceInv, Shared
<1>4. CASE Ends({inflight.id}) /\ UNCHANGED requeue
  <2>1. WaitingIds' = WaitingIds
    BY <1>4 DEF WaitingIds
  <2>2. ended' \in [Ids -> {0, 1}] /\ EndedIds' = EndedIds \cup {inflight.id}
    BY <1>2, <1>4, Ended
  <2>3. CommandsOk'
    BY <1>1, <1>4, <2>2 DEF PlaceInv, CommandsOk
  <2>4. Shared(QueuedIds', WaitingIds', FlyingIds', EndedIds', accepted')
    BY <1>1, <1>2, <2>1, <2>2 DEF PlaceInv, Shared
  <2>5. QED
    BY <2>3, <2>4 DEF PlaceInv, Shared
<1>5. QED
  BY <1>3, <1>4 DEF RefusedBusy

LEMMA PlaceFinish ==
  ASSUME PlaceInv, NEW landed, NEW outcome, Finish(landed, outcome)
  PROVE  PlaceInv'
<1>1. /\ engine # "free" /\ engine' = "free" /\ UNCHANGED <<queue, inflight, accepted, requeue>>
      /\ Ends({inflight.id})
  BY DEF Finish
<1>2. /\ QueuedIds' = QueuedIds /\ FlyingIds = {inflight.id} /\ FlyingIds' = {}
      /\ WaitingIds' = WaitingIds
  BY <1>1 DEF QueuedIds, FlyingIds, WaitingIds
<1>3. ended' \in [Ids -> {0, 1}] /\ EndedIds' = EndedIds \cup {inflight.id}
  BY <1>1, <1>2, Ended
<1>4. CommandsOk'
  BY <1>1, <1>3 DEF PlaceInv, CommandsOk
<1>5. Shared(QueuedIds', WaitingIds', FlyingIds', EndedIds', accepted')
  BY <1>1, <1>2, <1>3 DEF PlaceInv, Shared
<1>6. QED
  BY <1>4, <1>5 DEF PlaceInv, Shared

LEMMA PlaceStill ==
  ASSUME PlaceInv, UNCHANGED <<queue, requeue, inflight, ended, accepted>>,
         (engine' = "free") <=> (engine = "free")
  PROVE  PlaceInv'
<1>1. /\ QueuedIds' = QueuedIds /\ WaitingIds' = WaitingIds /\ FlyingIds' = FlyingIds
      /\ EndedIds' = EndedIds
  BY DEF QueuedIds, WaitingIds, FlyingIds, EndedIds
<1>2. CommandsOk'
  BY DEF PlaceInv, CommandsOk
<1>3. QED
  BY <1>1, <1>2 DEF PlaceInv, Shared

LEMMA PlaceNext == PlaceInv /\ [Next]_vars => PlaceInv'
<1> SUFFICES ASSUME PlaceInv, [Next]_vars PROVE PlaceInv'
  OBVIOUS
<1>1. ASSUME accepted < MaxCommands, NEW k \in Keys, NEW open \in BOOLEAN, NEW source \in {"RULE", "SAFETY"}
      PROVE  [id |-> accepted + 1, key |-> k, open |-> open, source |-> source, retried |-> FALSE]
               \in CommandType
  BY <1>1, CommandPathAssumption DEF CommandType, Ids, PlaceInv, CommandsOk
<1>2. ASSUME NEW k \in Keys, NEW open \in BOOLEAN, Request(k, open) PROVE PlaceInv'
  BY <1>1, <1>2, NewCommand DEF Request
<1>3. ASSUME NEW k \in Keys, RequestClose(k) PROVE PlaceInv'
  BY <1>1, <1>3, NewCommand DEF RequestClose
<1>4. CASE PollToggle \/ Drain \/ NoneDue \/ SkipService \/ NextRound
  BY <1>4, PlaceStill DEF PollToggle, Drain, NoneDue, SkipService, NextRound
<1>5. CASE Start
  BY <1>5, PlaceStill DEF Start
<1>6. CASE UNCHANGED vars
  BY <1>6, PlaceStill DEF vars
<1>7. QED
  BY <1>2, <1>3, <1>4, <1>5, <1>6, PlaceRequeue, PlaceService, PlaceBusy, PlaceFinish DEF Next

LEMMA PlaceInit == Init => PlaceInv
<1> SUFFICES ASSUME Init PROVE PlaceInv
  OBVIOUS
<1>1. Clean(queue) /\ QueuedIds = {}
  <2>1. <<>> \in Seq(CommandType) /\ DOMAIN <<>> = {}
    OBVIOUS
  <2>2. QED
    BY <2>1 DEF Init, Clean, QueuedIds, IdsOf, Elems
<1>2. WaitingIds = {} /\ FlyingIds = {} /\ EndedIds = {} /\ ended \in [Ids -> {0, 1}]
  BY DEF Init, WaitingIds, FlyingIds, EndedIds
<1>3. 1 .. accepted = {} /\ accepted \in 0 .. MaxCommands
  BY CommandPathAssumption DEF Init
<1>4. QED
  BY <1>1, <1>2, <1>3 DEF Init, PlaceInv, CommandsOk, Shared

LEMMA PlaceInvHolds == Spec => []PlaceInv
BY PlaceInit, PlaceNext, PTL DEF Spec

\* An accepted command is always in exactly one place, and when it is nowhere any more
\* its end has been reported once: the queue's eviction and expiry, the dispatch, the
\* single re-queue slot and the done hook neither lose nor double one.
THEOREM NothingLost == Spec => []NothingVanishes
<1>1. PlaceInv => NothingVanishes
  <2> SUFFICES ASSUME PlaceInv, NEW i \in Ids
               PROVE  Held(i) + ended[i] = IF i <= accepted THEN 1 ELSE 0
    BY DEF NothingVanishes
  <2>1. Cardinality({j \in DOMAIN queue : queue[j].id = i}) = IF i \in QueuedIds THEN 1 ELSE 0
    <3>1. i \in QueuedIds <=> \E e \in Elems(queue) : e.id = i
      BY DEF QueuedIds, IdsOf
    <3>2. QED
      BY <3>1, Counted DEF PlaceInv, CommandsOk
  <2>2. Held(i) = (IF i \in QueuedIds THEN 1 ELSE 0) + (IF i \in WaitingIds THEN 1 ELSE 0)
                    + (IF i \in FlyingIds THEN 1 ELSE 0)
    <3>1. (requeue # NoCommand /\ requeue.id = i) <=> i \in WaitingIds
      BY DEF WaitingIds
    <3>2. (engine # "free" /\ inflight.id = i) <=> i \in FlyingIds
      BY DEF FlyingIds
    <3>3. QED
      BY <2>1, <3>1, <3>2 DEF Held
  <2>3. ended[i] = IF i \in EndedIds THEN 1 ELSE 0
    BY DEF PlaceInv, CommandsOk, EndedIds
  <2>4. i <= accepted <=> i \in QueuedIds \cup WaitingIds \cup FlyingIds \cup EndedIds
    BY CommandPathAssumption DEF PlaceInv, CommandsOk, Shared, Ids
  <2>5. QED
    BY <2>2, <2>3, <2>4 DEF PlaceInv, Shared
<1>2. QED
  BY <1>1, PlaceInvHolds, PTL

-----------------------------------------------------------------------------
(* What is open is owed a close *)

\* Safety commands only ever close.
Sound(c) == c.source = "SAFETY" => ~c.open

SourcesOk ==
  /\ \A c \in Elems(queue) : Sound(c)
  /\ requeue # NoCommand => Sound(requeue)
  /\ engine # "free" => Sound(inflight)

\* While no command ended behind the decoder's back: a kept result is that of the last
\* dispatch, which is over, and it is drained before there is another.
OwedOk ==
  /\ OpenIsOwed
  /\ defer # "none" => engine = "free" /\ at \in {"drain", "wait"}
  /\ defer = "confirmed" => inflight.key \notin valve

OwedInv == PlaceInv /\ SourcesOk /\ (~raced => OwedOk)

\* A command that is accepted keeps the queue sound.
LEMMA SoundAccepted ==
  ASSUME PlaceInv, SourcesOk, NEW c \in CommandType, Sound(c), c.id \notin QueuedIds,
         CanPush(queue, c), Accept(c)
  PROVE  \A e \in Elems(queue') : Sound(e)
<1>1. QueuedIds \cap EndedIds = {} /\ CommandsOk
  BY DEF PlaceInv, Shared
<1>2. \A e \in Elems(queue') : e \in Elems(queue) \/ e = c
  BY <1>1, Accepted
<1>3. QED
  BY <1>2 DEF SourcesOk

LEMMA Fresh == ASSUME PlaceInv PROVE accepted + 1 \notin QueuedIds
<1>1. accepted + 1 \notin 1 .. accepted
  BY CommandPathAssumption DEF PlaceInv, CommandsOk
<1>2. QED
  BY <1>1 DEF PlaceInv, Shared

LEMMA SourcesNext == OwedInv /\ [Next]_vars => SourcesOk'
<1> SUFFICES ASSUME OwedInv, [Next]_vars PROVE SourcesOk'
  OBVIOUS
<1> USE DEF OwedInv
<1>1. ASSUME accepted < MaxCommands, NEW k \in Keys, NEW open \in BOOLEAN, NEW source \in {"RULE", "SAFETY"},
             source = "SAFETY" => ~open, NEW c,
             c = [id |-> accepted + 1, key |-> k, open |-> open, source |-> source, retried |-> FALSE]
      PROVE  c \in CommandType /\ Sound(c) /\ c.id \notin QueuedIds
  <2>1. c \in CommandType
    BY <1>1, CommandPathAssumption DEF CommandType, Ids, PlaceInv, CommandsOk
  <2>2. c.id \notin QueuedIds
    BY <1>1, Fresh
  <2>3. QED
    BY <1>1, <2>1, <2>2 DEF Sound
<1>2. ASSUME NEW k \in Keys, NEW open \in BOOLEAN, Request(k, open) PROVE SourcesOk'
  <2> DEFINE c == [id |-> accepted + 1, key |-> k, open |-> open, source |-> "RULE", retried |-> FALSE]
  <2>1. /\ accepted < MaxCommands /\ CanPush(queue, c) /\ Accept(c)
        /\ UNCHANGED <<requeue, engine, inflight>>
    BY <1>2 DEF Request
  <2>2. c \in CommandType /\ Sound(c) /\ c.id \notin QueuedIds
    BY <1>1, <2>1
  <2> HIDE DEF c
  <2>3. \A e \in Elems(queue') : Sound(e)
    BY <2>1, <2>2, SoundAccepted
  <2>4. QED
    BY <2>1, <2>3 DEF SourcesOk
<1>3. ASSUME NEW k \in Keys, RequestClose(k) PROVE SourcesOk'
  <2> DEFINE c == [id |-> accepted + 1, key |-> k, open |-> FALSE, source |-> "SAFETY", retried |-> FALSE]
  <2>1. /\ accepted < MaxCommands /\ CanPush(queue, c) /\ Accept(c)
        /\ UNCHANGED <<requeue, engine, inflight>>
    BY <1>3 DEF RequestClose
  <2>2. c \in CommandType /\ Sound(c) /\ c.id \notin QueuedIds
    BY <1>1, <2>1
  <2> HIDE DEF c
  <2>3. \A e \in Elems(queue') : Sound(e)
    BY <2>1, <2>2, SoundAccepted
  <2>4. QED
    BY <2>1, <2>3 DEF SourcesOk
<1>4. CASE Requeue
  <2> DEFINE c == [requeue EXCEPT !.retried = TRUE]
  <2>1. requeue' = NoCommand /\ UNCHANGED <<inflight, engine>>
    BY <1>4 DEF Requeue
  <2>2. CASE UNCHANGED queue
    BY <2>1, <2>2 DEF SourcesOk
  <2>3. CASE requeue # NoCommand /\ CanPush(queue, c) /\ Accept(c)
    <3>1. requeue \in CommandType /\ Sound(requeue)
      BY <2>3 DEF PlaceInv, CommandsOk, SourcesOk
    <3>2. c \in CommandType /\ Sound(c) /\ c.id = requeue.id
      BY <3>1 DEF CommandType, Sound
    <3>3. c.id \notin QueuedIds
      BY <2>3, <3>2 DEF PlaceInv, Shared, WaitingIds
    <3> HIDE DEF c
    <3>4. \A e \in Elems(queue') : Sound(e)
      BY <2>3, <3>2, <3>3, SoundAccepted
    <3>5. QED
      BY <2>1, <3>4 DEF SourcesOk
  <2>4. QED
    BY <1>4, <2>2, <2>3 DEF Requeue
<1>5. CASE Service
  <2>1. Clean(queue) /\ engine = "free" /\ UNCHANGED requeue
    BY <1>5 DEF PlaceInv, CommandsOk, Service
  <2>2. /\ Elems(queue') \subseteq Elems(queue)
        /\ UNCHANGED <<inflight, engine>> \/ inflight' \in Elems(queue)
    BY <1>5, <2>1, ServiceSplits DEF Serviced
  <2>3. QED
    BY <2>1, <2>2 DEF SourcesOk
<1>6. CASE RefusedBusy
  BY <1>6 DEF RefusedBusy, SourcesOk
<1>7. CASE Start
  BY <1>7 DEF Start, SourcesOk
<1>8. ASSUME NEW landed, NEW outcome, Finish(landed, outcome) PROVE SourcesOk'
  BY <1>8 DEF Finish, SourcesOk
<1>9. CASE PollToggle \/ Drain \/ NoneDue \/ SkipService \/ NextRound \/ UNCHANGED vars
  BY <1>9 DEF PollToggle, Drain, NoneDue, SkipService, NextRound, vars, SourcesOk
<1>10. QED
  BY <1>2, <1>3, <1>4, <1>5, <1>6, <1>7, <1>8, <1>9 DEF Next

LEMMA OwedNext == OwedInv /\ [Next]_vars => (~raced' => OwedOk')
<1> SUFFICES ASSUME OwedInv, [Next]_vars, ~raced' PROVE OwedOk'
  OBVIOUS
<1>1. ASSUME NEW k \in Keys, NEW open \in BOOLEAN, Request(k, open) PROVE OwedOk'
  BY <1>1 DEF Request, OwedInv, OwedOk, OpenIsOwed
<1>2. ASSUME NEW k \in Keys, RequestClose(k) PROVE OwedOk'
  BY <1>2 DEF RequestClose, OwedInv, OwedOk, OpenIsOwed
<1>3. CASE PollToggle \/ NoneDue \/ SkipService \/ NextRound \/ UNCHANGED vars
  BY <1>3 DEF PollToggle, NoneDue, SkipService, NextRound, vars, OwedInv, OwedOk, OpenIsOwed
<1>4. CASE Drain
  BY <1>4 DEF Drain, OwedInv, OwedOk, OpenIsOwed
<1>5. CASE Requeue
  BY <1>5 DEF Requeue, OwedInv, OwedOk, OpenIsOwed
<1>6. CASE Service
  <2>1. /\ Clean(queue) /\ engine = "free" /\ at = "service" /\ ~raced
        /\ UNCHANGED <<defer, valve>>
    BY <1>6 DEF OwedInv, PlaceInv, CommandsOk, Service
  <2>2. defer = "none" /\ valve \subseteq owed
    BY <2>1 DEF OwedInv, OwedOk, OpenIsOwed
  <2>3. CASE UNCHANGED <<inflight, engine, owed>>
    BY <2>1, <2>2, <2>3 DEF OwedOk, OpenIsOwed
  <2>4. ASSUME NEW c, inflight' = c, engine' = "pending",
               owed' = IF c.open THEN owed \cup {c.key} ELSE owed
        PROVE  OwedOk'
    BY <2>1, <2>2, <2>4 DEF OwedOk, OpenIsOwed
  <2>5. QED
    BY <1>6, <2>1, <2>3, <2>4, ServiceSplits
<1>7. CASE RefusedBusy
  BY <1>7 DEF RefusedBusy, OwedInv, OwedOk, OpenIsOwed
<1>8. CASE Start
  BY <1>8 DEF Start, OwedInv, OwedOk, OpenIsOwed
<1>9. ASSUME NEW landed \in BOOLEAN, NEW outcome \in {"failed", "unconfirmed", "confirmed"},
             Finish(landed, outcome)
      PROVE  OwedOk'
  <2>1. ~raced /\ at \in {"drain", "wait"} /\ engine = "active" /\ engine' = "free"
        /\ UNCHANGED <<inflight, owed, at>> /\ Sound(inflight)
    BY <1>9 DEF Finish, OwedInv, SourcesOk
  <2>2. defer = "none" /\ valve \subseteq owed /\ (inflight.open => inflight.key \in owed)
    BY <2>1 DEF OwedInv, OwedOk, OpenIsOwed
  <2>3. valve' \subseteq owed
    BY <1>9, <2>2 DEF Finish
  <2>4. defer' = "confirmed" => inflight.key \notin valve'
    BY <1>9, <2>1, <2>2 DEF Finish, Sound
  <2>5. QED
    BY <2>1, <2>3, <2>4 DEF OwedOk, OpenIsOwed
<1>10. QED
  BY <1>1, <1>2, <1>3, <1>4, <1>5, <1>6, <1>7, <1>8, <1>9 DEF Next

\* While no command ends between the decoder's drain and its busy test, whatever the
\* hub has opened, or is about to open, has its close owed: results clear the obligation of the
\* device that was closed, and no other (service_pending_close_defer, on_gatt_cmd_done).
THEOREM OpenedIsOwed == Spec => []OwedUnlessRaced
<1>1. Init => OwedInv
  <2> SUFFICES ASSUME Init PROVE OwedInv
    OBVIOUS
  <2>1. SourcesOk
    BY DEF Init, SourcesOk, Elems
  <2>2. OwedOk
    BY DEF Init, OwedOk, OpenIsOwed
  <2>3. QED
    BY <2>1, <2>2, PlaceInit DEF OwedInv
<1>2. OwedInv /\ [Next]_vars => OwedInv'
  BY PlaceNext, SourcesNext, OwedNext DEF OwedInv
<1>3. OwedInv => OwedUnlessRaced
  BY DEF OwedInv, OwedOk, OwedUnlessRaced
<1>4. QED
  BY <1>1, <1>2, <1>3, PTL DEF Spec

-----------------------------------------------------------------------------
(* PendingClose: the operators on the table of obligations *)

\* table_upsert() adds at most the row it was given.
LEMMA UpsertDomain ==
  ASSUME NEW r, NEW k, NEW row
  PROVE  /\ DOMAIN Upsert(r, k, row) = IF CanUpsert(r, k) THEN DOMAIN r \cup {k} ELSE DOMAIN r
         /\ CanUpsert(r, k) => Upsert(r, k, row)[k] = row
         /\ \A x \in DOMAIN r : x # k => Upsert(r, k, row)[x] = r[x]
  BY DEF Upsert

\* A row is added to a table only while there is room.
LEMMA UpsertBounded ==
  ASSUME NEW r, NEW k, NEW row,
         IsFiniteSet(DOMAIN r), Cardinality(DOMAIN r) <= MaxPending
  PROVE  /\ IsFiniteSet(DOMAIN Upsert(r, k, row))
         /\ Cardinality(DOMAIN Upsert(r, k, row)) <= MaxPending
<1>1. CASE ~CanUpsert(r, k)
  BY <1>1, UpsertDomain
<1>2. CASE k \in DOMAIN r
  <2>1. CanUpsert(r, k) /\ DOMAIN r \cup {k} = DOMAIN r
    BY <1>2 DEF CanUpsert
  <2>2. DOMAIN Upsert(r, k, row) = DOMAIN r
    BY <2>1, UpsertDomain
  <2>3. QED
    BY <2>2
<1>3. CASE CanUpsert(r, k) /\ k \notin DOMAIN r
  <2>1. DOMAIN Upsert(r, k, row) = DOMAIN r \cup {k}
    BY <1>3, UpsertDomain
  <2>2. Cardinality(DOMAIN r) < MaxPending
    BY <1>3 DEF CanUpsert
  <2>3. /\ IsFiniteSet(DOMAIN r \cup {k})
        /\ Cardinality(DOMAIN r \cup {k}) = Cardinality(DOMAIN r) + 1
    BY <1>3, FS_AddElement
  <2>4. Cardinality(DOMAIN r) \in Nat
    BY FS_CardinalityType
  <2>5. QED
    BY <2>1, <2>2, <2>3, <2>4, PendingCloseAssumption DEF PendingCloseAssumption
<1>4. QED
  BY <1>1, <1>2, <1>3

\* The backoff is a duration.
LEMMA BackoffType == \A n \in Nat : Backoff(n) \in Nat
  BY PendingCloseAssumption DEF Backoff, PendingCloseAssumption

-----------------------------------------------------------------------------
(* PendingClose: types *)

\* TypeOK with what its inductive step needs: the tables are finite, and a
\* powered-off hub holds nothing in RAM.
Typed ==
  /\ TypeOK
  /\ IsFiniteSet(DOMAIN rows) /\ IsFiniteSet(DOMAIN file) /\ IsFiniteSet(known)
  /\ Cardinality(DOMAIN file) <= MaxPending
  /\ ~up => last.kind = "none" /\ rows = NoRows

\* What Typed says of the command of the engine.
CommandTyped ==
  /\ last \in [key : Identities \cup {NoKey}, kind : {"open", "close", "other", "none"}]
  /\ last.key = NoKey => last.kind = "none" /\ ~confirmed
  /\ confirmed \in BOOLEAN

LEMMA TypedInit == CloseInit => Typed
<1> SUFFICES ASSUME CloseInit PROVE Typed
  OBVIOUS
<1>1. /\ DOMAIN NoRows = {} /\ NoRows \in [{} -> RowType] /\ NoRows \in [{} -> 0 .. MaxRetries]
  BY DEF NoRows
<1>2. IsFiniteSet({}) /\ Cardinality({}) = 0
  BY FS_EmptySet
<1>3. 0 <= MaxPending /\ 0 <= MaxKnown /\ 0 \in 0 .. MaxInflight /\ 0 \in 0 .. MaxDispatched /\ 0 \in 0 .. MaxCrashes
  BY PendingCloseAssumption DEF PendingCloseAssumption
<1>4. TypeOK
  BY <1>1, <1>2, <1>3 DEF CloseInit, Command, TypeOK
<1>5. QED
  BY <1>1, <1>2, <1>3, <1>4 DEF CloseInit, Command, Typed

\* What a save writes has the type of the file and no more rows than the table.
LEMMA SaveTyped ==
  ASSUME NEW r, DOMAIN r \subseteq Identities, IsFiniteSet(DOMAIN r),
         Cardinality(DOMAIN r) <= MaxPending, Typed, Save(r)
  PROVE  /\ failed' \in BOOLEAN
         /\ DOMAIN file' \subseteq Identities /\ file' \in [DOMAIN file' -> 0 .. MaxRetries]
         /\ IsFiniteSet(DOMAIN file') /\ Cardinality(DOMAIN file') <= MaxPending
<1>1. CASE file' = Snapshot(r) /\ failed' = FALSE
  <2>1. DOMAIN file' = DOMAIN r /\ file' = [k \in DOMAIN r |-> 0]
    BY <1>1 DEF Snapshot
  <2>2. 0 \in 0 .. MaxRetries
    BY PendingCloseAssumption DEF PendingCloseAssumption
  <2>3. QED
    BY <1>1, <2>1, <2>2
<1>2. CASE failed' = TRUE /\ UNCHANGED file
  BY <1>2 DEF Typed, TypeOK
<1>3. QED
  BY <1>1, <1>2 DEF Save

\* A due row steps to a row.
LEMMA StepTyped ==
  ASSUME NEW row \in RowType, NEW isKnown \in BOOLEAN
  PROVE  Step(row, isKnown).row \in RowType
<1> USE PendingCloseAssumption DEF PendingCloseAssumption, RowType
<1>1. CASE row.retries >= MaxRetries
  BY <1>1 DEF Step, Never
<1>2. CASE row.retries < MaxRetries /\ ~isKnown
  <2> DEFINE streak == IF row.streak < AlertStreak THEN row.streak + 1 ELSE row.streak
             loud   == ~row.alerted /\ streak >= AlertStreak
  <2>1. streak \in 0 .. AlertStreak
    OBVIOUS
  <2>2. (row.alerted \/ loud) \in BOOLEAN
    OBVIOUS
  <2>3. Step(row, isKnown).row
          = [row EXCEPT !.left = 1, !.streak = streak, !.alerted = @ \/ loud]
    BY <1>2 DEF Step
  <2>4. \A n \in 0 .. AlertStreak, b \in BOOLEAN :
          [row EXCEPT !.left = 1, !.streak = n, !.alerted = b] \in RowType
    OBVIOUS
  <2> HIDE DEF streak, loud, RowType
  <2>5. QED
    BY <2>1, <2>2, <2>3, <2>4
<1>3. CASE row.retries < MaxRetries /\ isKnown
  <2>1. row.retries + 1 \in 0 .. MaxRetries /\ Backoff(row.retries + 1) \in Nat
    BY <1>3, BackoffType
  <2>2. Step(row, isKnown).row = FreshRow(Backoff(row.retries + 1), row.retries + 1)
    BY <1>3 DEF Step
  <2>3. QED
    BY <2>1, <2>2 DEF FreshRow
<1>4. QED
  BY <1>1, <1>2, <1>3

LEMMA TypedNext == Typed /\ [CloseNext]_closeVars => Typed'
<1> SUFFICES ASSUME Typed, [CloseNext]_closeVars
             PROVE  Typed'
  OBVIOUS
<1> USE PendingCloseAssumption DEF PendingCloseAssumption
<1>1. ASSUME NEW k \in Identities, NEW duration \in Durations, DispatchOpen(k, duration)
      PROVE  Typed'
  <2>1. FreshRow(duration, 0) \in RowType
    BY DEF FreshRow, RowType
  <2>2. DOMAIN rows' \subseteq Identities /\ rows' \in [DOMAIN rows' -> RowType]
    <3>1. DOMAIN rows \subseteq Identities /\ rows \in [DOMAIN rows -> RowType]
      BY DEF Typed, TypeOK
    <3>2. CASE CanUpsert(rows, k)
      <4>1. rows' = [x \in DOMAIN rows \cup {k} |->
                       IF x = k THEN FreshRow(duration, 0) ELSE rows[x]]
        BY <1>1, <3>2 DEF DispatchOpen, Upsert
      <4>2. QED
        BY <2>1, <3>1, <4>1
    <3>3. CASE ~CanUpsert(rows, k)
      BY <1>1, <3>1, <3>3 DEF DispatchOpen, Upsert
    <3>4. QED
      BY <3>2, <3>3
  <2>3. IsFiniteSet(DOMAIN rows') /\ Cardinality(DOMAIN rows') <= MaxPending
    BY <1>1, UpsertBounded DEF DispatchOpen, Typed, TypeOK
  <2>4. Save(rows')
    BY <1>1 DEF DispatchOpen
  <2>5. /\ failed' \in BOOLEAN
        /\ DOMAIN file' \subseteq Identities /\ file' \in [DOMAIN file' -> 0 .. MaxRetries]
        /\ IsFiniteSet(DOMAIN file') /\ Cardinality(DOMAIN file') <= MaxPending
    BY <2>2, <2>3, <2>4, SaveTyped
  <2>6. CommandTyped' /\ drained' \in BOOLEAN /\ stale' \in BOOLEAN
    <3>1. last' = [key |-> k, kind |-> "open"] /\ UNCHANGED confirmed /\ k # NoKey
      BY <1>1 DEF DispatchOpen, Takes, Command
    <3>2. CommandTyped'
      BY <3>1 DEF Typed, TypeOK, CommandTyped
    <3>3. QED
      BY <1>1, <3>2 DEF DispatchOpen, Takes, Typed, TypeOK
  <2>7. /\ UNCHANGED <<up, known, closing, actuator, crashes>> /\ up
        /\ excused' \subseteq Identities /\ dispatched' \in 0 .. MaxDispatched
    BY <1>1 DEF DispatchOpen, MayDispatch, Typed, TypeOK
  <2>8. tries' \in [Identities -> Nat]
    BY <1>1 DEF DispatchOpen, Typed, TypeOK
  <2>9. alerts' \in [Identities -> SUBSET {"CLOSE_UNCONFIRMED", "DEVICE_UNREACHABLE"}]
    BY <1>1 DEF DispatchOpen, Typed, TypeOK
  <2>10. QED
    BY <2>2, <2>3, <2>5, <2>6, <2>7, <2>8, <2>9 DEF CommandTyped, Typed, TypeOK
<1>2. ASSUME NEW k \in Identities, DispatchOther(k) \/ DispatchClose(k) \/ DropClose(k)
      PROVE  Typed'
  <2>1. CASE DispatchOther(k)
    <3>1. last' = [key |-> k, kind |-> "other"] /\ UNCHANGED confirmed /\ k # NoKey
      BY <2>1 DEF DispatchOther, Takes, Command
    <3>2. CommandTyped' /\ up
      BY <2>1, <3>1 DEF DispatchOther, MayDispatch, Typed, TypeOK, CommandTyped
    <3>3. /\ UNCHANGED <<up, rows, file, known, closing, actuator, tries, alerts, failed, excused,
                         crashes>>
          /\ drained' = FALSE /\ stale' = confirmed /\ confirmed \in BOOLEAN
      BY <2>1 DEF DispatchOther, Takes, Typed, TypeOK
    <3>4. dispatched' \in 0 .. MaxDispatched
      BY <2>1 DEF DispatchOther, Typed, TypeOK
    <3>5. QED
      BY <3>2, <3>3, <3>4 DEF CommandTyped, Typed, TypeOK
  <2>2. CASE DispatchClose(k)
    <3>1. last' = [key |-> k, kind |-> "close"] /\ UNCHANGED confirmed /\ k # NoKey
      BY <2>2 DEF DispatchClose, Takes, Command
    <3>2. CommandTyped' /\ up
      BY <2>2, <3>1 DEF DispatchClose, MayDispatch, Typed, TypeOK, CommandTyped
    <3>3. /\ UNCHANGED <<up, rows, file, known, dispatched, actuator, tries, alerts, failed, excused,
                         crashes>>
          /\ drained' = FALSE /\ stale' = confirmed /\ confirmed \in BOOLEAN
      BY <2>2 DEF DispatchClose, Takes, Typed, TypeOK
    <3>4. closing' \in [Identities -> 0 .. MaxInflight]
      BY <2>2 DEF DispatchClose, Typed, TypeOK
    <3>5. QED
      BY <3>2, <3>3, <3>4 DEF CommandTyped, Typed, TypeOK
  <2>3. CASE DropClose(k)
    BY <2>3 DEF DropClose, Typed, TypeOK
  <2>4. QED
    BY <1>2, <2>1, <2>2, <2>3
<1>3. ASSUME NEW k \in Identities, ServiceRow(k)
      PROVE  Typed'
  <2>1. rows[k] \in RowType
    BY <1>3 DEF ServiceRow, Typed, TypeOK
  <2>2. DOMAIN rows' = DOMAIN rows /\ rows' \in [DOMAIN rows -> RowType]
    <3>1. Step(rows[k], k \in known).row \in RowType
      <4>1. (k \in known) \in BOOLEAN
        OBVIOUS
      <4>2. QED
        BY <2>1, <4>1, StepTyped
    <3>2. rows' = [rows EXCEPT ![k] = Step(rows[k], k \in known).row]
      BY <1>3 DEF ServiceRow
    <3>3. QED
      BY <3>1, <3>2 DEF Typed, TypeOK
  <2>3. tries' \in [Identities -> Nat] /\ closing' \in [Identities -> 0 .. MaxInflight]
    BY <1>3 DEF ServiceRow, Typed, TypeOK
  <2>4. alerts' \in [Identities -> SUBSET {"CLOSE_UNCONFIRMED", "DEVICE_UNREACHABLE"}]
    BY <1>3 DEF ServiceRow, Typed, TypeOK
  <2>5. QED
    BY <1>3, <2>2, <2>3, <2>4 DEF ServiceRow, Typed, TypeOK
<1>4. ASSUME DrainResult
      PROVE  Typed'
  <2>0. CASE ~confirmed
    BY <1>4, <2>0 DEF DrainResult, Typed, TypeOK
  <2> DEFINE k == last.key
  <2> SUFFICES ASSUME confirmed PROVE Typed'
    BY <2>0
  <2>1. k \in Identities /\ rows' = Restrict(rows, DOMAIN rows \ {k}) /\ Save(rows')
    BY <1>4 DEF DrainResult, Typed, TypeOK
  <2>2. DOMAIN rows' = DOMAIN rows \ {k} /\ rows' \in [DOMAIN rows' -> RowType]
    <3>1. rows' = [x \in DOMAIN rows \ {k} |-> rows[x]]
      BY <2>1 DEF Restrict
    <3>2. rows \in [DOMAIN rows -> RowType]
      BY DEF Typed, TypeOK
    <3>3. QED
      BY <3>1, <3>2
  <2>3. IsFiniteSet(DOMAIN rows') /\ Cardinality(DOMAIN rows') <= Cardinality(DOMAIN rows)
    BY <2>2, FS_Subset DEF Typed
  <2>4. /\ Cardinality(DOMAIN rows') \in Nat /\ Cardinality(DOMAIN rows) \in Nat
    BY <2>3, FS_CardinalityType DEF Typed
  <2>5. Cardinality(DOMAIN rows') <= MaxPending /\ DOMAIN rows' \subseteq Identities
    BY <2>2, <2>3, <2>4 DEF Typed, TypeOK
  <2>6. /\ failed' \in BOOLEAN
        /\ DOMAIN file' \subseteq Identities /\ file' \in [DOMAIN file' -> 0 .. MaxRetries]
        /\ IsFiniteSet(DOMAIN file') /\ Cardinality(DOMAIN file') <= MaxPending
    BY <2>1, <2>3, <2>5, SaveTyped
  <2>7. /\ up /\ drained' = TRUE /\ confirmed' = FALSE /\ stale' = FALSE
        /\ UNCHANGED <<up, known, closing, last, actuator, dispatched, crashes>>
    BY <1>4 DEF DrainResult
  <2>8. excused' \subseteq Identities
    BY <1>4, <2>1 DEF DrainResult, Typed, TypeOK
  <2>9. /\ tries' \in [Identities -> Nat]
        /\ alerts' \in [Identities -> SUBSET {"CLOSE_UNCONFIRMED", "DEVICE_UNREACHABLE"}]
    BY <1>4 DEF DrainResult, Typed, TypeOK
  <2>10. QED
    BY <2>2, <2>3, <2>5, <2>6, <2>7, <2>8, <2>9 DEF Typed, TypeOK
<1>5. ASSUME NEW landed \in BOOLEAN, NEW outcome \in {"failed", "unconfirmed", "confirmed"},
             EndCommand(landed, outcome)
      PROVE  Typed'
  <2>1. last.key \in Identities /\ last' = Command(last.key, "none")
    BY <1>5 DEF EndCommand, Command, Typed, TypeOK
  <2>2. actuator' \in [Identities -> BOOLEAN] /\ confirmed' \in BOOLEAN /\ stale' \in BOOLEAN
    BY <1>5 DEF EndCommand, Typed, TypeOK
  <2>3. UNCHANGED <<up, rows, file, known, closing, drained, tries, alerts, failed, excused,
                    dispatched, crashes>>
    BY <1>5 DEF EndCommand
  <2>4. QED
    BY <2>1, <2>2, <2>3 DEF Command, Typed, TypeOK
<1>6. ASSUME NEW k \in Identities, Discover(k)
      PROVE  Typed'
  <2>1. /\ IsFiniteSet(known \cup {k})
        /\ Cardinality(known \cup {k}) = Cardinality(known) + 1
    BY <1>6, FS_AddElement DEF Discover, Typed
  <2>2. Cardinality(known) \in Nat
    BY FS_CardinalityType DEF Typed
  <2>3. QED
    BY <1>6, <2>1, <2>2 DEF Discover, Typed, TypeOK
<1>7. ASSUME NEW k \in Identities, Vanish(k)
      PROVE  Typed'
  <2>1. /\ IsFiniteSet(known \ {k})
        /\ Cardinality(known \ {k}) = Cardinality(known) - 1
    BY <1>7, FS_RemoveElement DEF Vanish, Typed
  <2>2. Cardinality(known) \in Nat
    BY FS_CardinalityType DEF Typed
  <2>3. QED
    BY <1>7, <2>1, <2>2 DEF Vanish, Typed, TypeOK
<1>8. ASSUME Tick
      PROVE  Typed'
  <2>1. DOMAIN rows' = DOMAIN rows /\ rows' \in [DOMAIN rows -> RowType]
    <3>1. rows' = [k \in DOMAIN rows |->
                     [rows[k] EXCEPT !.left = IF @ > 0 THEN @ - 1 ELSE @]]
      BY <1>8 DEF Tick
    <3>2. \A row \in RowType : [row EXCEPT !.left = IF @ > 0 THEN @ - 1 ELSE @] \in RowType
      BY DEF RowType, Never
    <3>3. \A k \in DOMAIN rows : rows[k] \in RowType
      BY DEF Typed, TypeOK
    <3>4. QED
      BY <3>1, <3>2, <3>3
  <2>2. QED
    BY <1>8, <2>1 DEF Tick, Typed, TypeOK
<1>9. ASSUME Crash
      PROVE  Typed'
  <2>1. actuator' \in [Identities -> BOOLEAN]
    BY <1>9 DEF Crash, Typed, TypeOK
  <2>2. known' = {} /\ IsFiniteSet(known') /\ Cardinality(known') = 0
    BY <1>9, FS_EmptySet DEF Crash
  <2>3. DOMAIN rows' = {} /\ IsFiniteSet(DOMAIN rows') /\ Cardinality(DOMAIN rows') = 0
    BY <1>9, FS_EmptySet DEF Crash, NoRows
  <2>4. rows' = NoRows /\ rows' \in [DOMAIN rows' -> RowType]
    BY <1>9 DEF Crash, NoRows
  <2>5. /\ up' = FALSE /\ last' = Command(NoKey, "none")
        /\ closing' = [k \in Identities |-> 0]
        /\ confirmed' = FALSE /\ drained' = TRUE /\ failed' = FALSE /\ stale' = FALSE
        /\ crashes' \in 0 .. MaxCrashes
        /\ tries' = [k \in Identities |-> 0] /\ alerts' = [k \in Identities |-> {}]
        /\ excused' \subseteq Identities
        /\ UNCHANGED <<file, dispatched>>
    BY <1>9 DEF Crash, Typed, TypeOK
  <2>6. closing' \in [Identities -> 0 .. MaxInflight]
    BY <2>5
  <2>7. TypeOK'
    <3>1. /\ Cardinality(DOMAIN rows') <= MaxPending /\ DOMAIN rows' \subseteq Identities
          /\ Cardinality(known') <= MaxKnown /\ known' \subseteq Identities
      BY <2>2, <2>3
    <3>2. /\ DOMAIN file' \subseteq Identities /\ file' \in [DOMAIN file' -> 0 .. MaxRetries]
          /\ tries' \in [Identities -> Nat]
          /\ alerts' \in [Identities -> SUBSET {"CLOSE_UNCONFIRMED", "DEVICE_UNREACHABLE"}]
          /\ dispatched' \in 0 .. MaxDispatched
      BY <2>5 DEF Typed, TypeOK
    <3>3. /\ last' \in [key: Identities \cup {NoKey}, kind: {"open", "close", "other", "none"}]
          /\ last'.kind = "none"
      BY <2>5 DEF Command
    <3>4. QED
      BY <2>1, <2>4, <2>5, <2>6, <3>1, <3>2, <3>3 DEF TypeOK
  <2>8. QED
    BY <2>2, <2>3, <2>4, <2>5, <2>7 DEF Command, Typed
<1>10. ASSUME Boot
       PROVE  Typed'
  <2>1. DOMAIN rows' = DOMAIN file /\ rows' \in [DOMAIN file -> RowType]
    BY <1>10 DEF Boot, Typed, TypeOK, FreshRow, RowType
  <2>2. QED
    BY <1>10, <2>1 DEF Boot, Typed, TypeOK
<1>11. CASE UNCHANGED closeVars
  BY <1>11 DEF closeVars, Typed, TypeOK
<1>12. QED
  BY <1>1, <1>2, <1>3, <1>4, <1>5, <1>6, <1>7, <1>8, <1>9, <1>10, <1>11 DEF CloseNext

\* Every variable keeps its type and neither table ever outgrows its array.
THEOREM TypeCorrect == CloseSpec => []TypeOK
<1>1. Typed => TypeOK
  BY DEF Typed
<1>2. QED
  BY <1>1, TypedInit, TypedNext, PTL DEF CloseSpec

-----------------------------------------------------------------------------
(* PendingClose: obligations are kept *)

\* The strengthening: whatever is open or being opened is in RAM while the hub
\* runs and on flash while it does not, after a write that succeeded the two
\* agree, and a result that is of the last command is one of a device that is
\* closed by now.
Kept ==
  /\ OpenHasObligation
  /\ ~up => \A k \in Identities : Opened(k) => k \in DOMAIN file \/ k \in excused
  /\ ~failed /\ up => DOMAIN rows = DOMAIN file
  /\ confirmed /\ ~stale => last.kind = "none" /\ ~actuator[last.key]

\* What the invariant rests on, when a step leaves all of it alone.
LEMMA KeptFrame ==
  ASSUME Kept, UNCHANGED <<up, rows, file, last, confirmed, actuator, failed, stale, excused>>
  PROVE  Kept'
  BY DEF Kept, OpenHasObligation, Opened, Command

\* A save that succeeds leaves the table's identities in the file.
LEMMA SaveDomain ==
  ASSUME NEW r, Save(r)
  PROVE  failed' \/ DOMAIN file' = DOMAIN r
  BY DEF Save, Snapshot

LEMMA KeptInit == CloseInit => Kept
<1> SUFFICES ASSUME CloseInit PROVE Kept
  OBVIOUS
<1>1. \A k \in Identities : ~Opened(k)
  BY DEF CloseInit, Opened, Command
<1>2. QED
  BY <1>1 DEF CloseInit, Kept, OpenHasObligation, NoRows

LEMMA KeptNext ==
  ASSUME Typed, Kept, [CloseNext]_closeVars
  PROVE  Kept'
<1> USE PendingCloseAssumption DEF PendingCloseAssumption
<1>1. ASSUME NEW k \in Identities, NEW duration \in Durations, DispatchOpen(k, duration)
      PROVE  Kept'
  <2>1. /\ up /\ up' /\ last.kind = "none" /\ last' = Command(k, "open")
        /\ actuator' = actuator /\ confirmed' = confirmed /\ stale' = confirmed
    BY <1>1 DEF DispatchOpen, MayDispatch, Takes
  <2>2. \A x \in Identities : Opened(x)' => x = k \/ Opened(x)
    BY <2>1 DEF Opened, Command
  <2>3. failed' \/ DOMAIN file' = DOMAIN rows'
    BY <1>1, SaveDomain DEF DispatchOpen
  <2>4. \A x \in Identities : Opened(x)' => x \in DOMAIN rows' \/ x \in excused'
    <3>1. CASE CanUpsert(rows, k)
      <4>1. DOMAIN rows' = DOMAIN rows \cup {k} /\ excused' = excused \ {k}
        BY <1>1, <3>1, UpsertDomain DEF DispatchOpen
      <4>2. QED
        BY <2>1, <2>2, <4>1 DEF Kept, OpenHasObligation
    <3>2. CASE ~CanUpsert(rows, k)
      <4>1. DOMAIN rows' = DOMAIN rows /\ excused' = excused \cup {k}
        BY <1>1, <3>2, UpsertDomain DEF DispatchOpen
      <4>2. QED
        BY <2>1, <2>2, <4>1 DEF Kept, OpenHasObligation
    <3>3. QED
      BY <3>1, <3>2
  <2>5. QED
    BY <2>1, <2>3, <2>4 DEF Kept, OpenHasObligation
<1>2. ASSUME NEW k \in Identities, DispatchOther(k) \/ DispatchClose(k)
      PROVE  Kept'
  <2>1. /\ up /\ stale' = confirmed /\ confirmed' = confirmed
        /\ UNCHANGED <<up, rows, file, actuator, failed, excused>>
        /\ last'.kind # "open"
    BY <1>2 DEF DispatchOther, DispatchClose, MayDispatch, Takes, Command
  <2>2. \A x \in Identities : Opened(x)' => Opened(x)
    BY <2>1 DEF Opened, Command
  <2>3. QED
    BY <2>1, <2>2 DEF Kept, OpenHasObligation
<1>3. ASSUME NEW k \in Identities, ServiceRow(k)
      PROVE  Kept'
  <2>1. UNCHANGED <<up, file, last, confirmed, actuator, failed, stale, excused>>
    BY <1>3 DEF ServiceRow
  <2>2. DOMAIN rows' = DOMAIN rows
    BY <1>3 DEF ServiceRow
  <2>3. QED
    BY <2>1, <2>2 DEF Kept, OpenHasObligation, Opened, Command
<1>4. ASSUME DrainResult
      PROVE  Kept'
  <2>1. up /\ up' = up /\ last' = last /\ actuator' = actuator /\ confirmed' = FALSE
    BY <1>4 DEF DrainResult
  <2>2. \A x : Opened(x)' <=> Opened(x)
    BY <2>1 DEF Opened, Command
  <2>3. CASE ~confirmed
    <3>1. UNCHANGED <<rows, file, failed, excused>>
      BY <1>4, <2>3 DEF DrainResult
    <3>2. QED
      BY <2>1, <2>2, <3>1 DEF Kept, OpenHasObligation
  <2>4. CASE confirmed
    <3> DEFINE k == last.key
    <3>1. /\ rows' = Restrict(rows, DOMAIN rows \ {k}) /\ Save(rows')
          /\ excused' = IF stale /\ k \in DOMAIN rows THEN excused \cup {k} ELSE excused
      BY <1>4, <2>4 DEF DrainResult
    <3>2. DOMAIN rows' = DOMAIN rows \ {k}
      BY <3>1 DEF Restrict
    <3>3. failed' \/ DOMAIN file' = DOMAIN rows'
      BY <3>1, SaveDomain
    <3>4. ~stale => ~Opened(k)
      BY <2>4 DEF Kept, Opened, Command
    <3> HIDE DEF k
    <3>5. \A x \in Identities : Opened(x)' => x \in DOMAIN rows' \/ x \in excused'
      BY <2>1, <2>2, <3>1, <3>2, <3>4 DEF Kept, OpenHasObligation
    <3>6. QED
      BY <2>1, <3>3, <3>5 DEF Kept, OpenHasObligation
  <2>5. QED
    BY <2>3, <2>4
<1>5. ASSUME NEW landed \in BOOLEAN, NEW outcome \in {"failed", "unconfirmed", "confirmed"},
             EndCommand(landed, outcome)
      PROVE  Kept'
  <2>1. /\ last.key \in Identities /\ last.kind # "none" /\ up
        /\ last = Command(last.key, last.kind)
        /\ actuator \in [Identities -> BOOLEAN]
    BY <1>5 DEF EndCommand, Command, Typed, TypeOK
  <2>2. /\ UNCHANGED <<up, rows, file, failed, excused>>
        /\ last'.kind = "none" /\ last'.key = last.key
    BY <1>5, <2>1 DEF EndCommand, Command
  <2>3. \A x \in Identities : actuator'[x] => Opened(x)
    BY <1>5, <2>1 DEF EndCommand, Opened, Command
  <2>4. \A x \in Identities : Opened(x)' => Opened(x)
    BY <2>2, <2>3 DEF Opened, Command
  <2>5. confirmed' /\ ~stale' => ~actuator'[last.key]
    <3>1. confirmed => stale
      BY <2>1 DEF Kept
    <3>2. CASE last.kind = "close" /\ outcome = "confirmed"
      <4>1. actuator' = [actuator EXCEPT ![last.key] = FALSE]
        BY <1>5, <3>2 DEF EndCommand
      <4>2. QED
        BY <2>1, <4>1
    <3>3. CASE ~(last.kind = "close" /\ outcome = "confirmed")
      BY <1>5, <3>1, <3>3 DEF EndCommand
    <3>4. QED
      BY <3>2, <3>3
  <2>6. QED
    BY <2>1, <2>2, <2>4, <2>5 DEF Kept, OpenHasObligation
<1>6. ASSUME NEW k \in Identities, Discover(k) \/ Vanish(k) \/ DropClose(k)
      PROVE  Kept'
  BY <1>6, KeptFrame DEF Discover, Vanish, DropClose
<1>7. ASSUME Tick
      PROVE  Kept'
  <2>1. UNCHANGED <<up, file, last, confirmed, actuator, failed, stale, excused>>
    BY <1>7 DEF Tick
  <2>2. DOMAIN rows' = DOMAIN rows
    BY <1>7 DEF Tick
  <2>3. QED
    BY <2>1, <2>2 DEF Kept, OpenHasObligation, Opened, Command
<1>8. ASSUME Crash
      PROVE  Kept'
  <2>1. /\ up /\ ~up' /\ file' = file /\ failed' = FALSE /\ confirmed' = FALSE
        /\ last' = Command(NoKey, "none")
        /\ excused' = excused \cup (DOMAIN rows \ DOMAIN file)
    BY <1>8 DEF Crash
  <2>2. \A x \in Identities : actuator'[x] => Opened(x)
    <3>1. last = Command(last.key, last.kind) /\ actuator \in [Identities -> BOOLEAN]
      BY DEF Typed, TypeOK, Command
    <3>2. QED
      BY <1>8, <3>1 DEF Crash, Opened
  <2>3. \A x \in Identities : Opened(x)' => Opened(x)
    BY <2>1, <2>2 DEF Opened, Command
  <2>4. QED
    BY <2>1, <2>3 DEF Kept, OpenHasObligation
<1>9. ASSUME Boot
      PROVE  Kept'
  <2>1. /\ ~up /\ DOMAIN rows' = DOMAIN file /\ file' = file
        /\ UNCHANGED <<last, confirmed, actuator, failed, stale, excused>>
    BY <1>9 DEF Boot
  <2>2. QED
    BY <2>1 DEF Kept, OpenHasObligation, Opened, Command
<1>10. CASE UNCHANGED closeVars
  BY <1>10, KeptFrame DEF closeVars
<1>11. QED
  BY <1>1, <1>2, <1>3, <1>4, <1>5, <1>6, <1>7, <1>8, <1>9, <1>10 DEF CloseNext

\* Nothing is ever open, or being opened, without an obligation in RAM while
\* the hub runs, but for the three ways to lose one: whatever the size of the
\* table, whichever writes fail and whichever result meets which command ...
THEOREM ObligationKept == CloseSpec => []OpenHasObligation
<1>1. Kept => OpenHasObligation
  BY DEF Kept
<1>2. QED
  BY <1>1, KeptInit, KeptNext, TypedInit, TypedNext, PTL DEF CloseSpec

\* ... nor without one on flash whenever the last write succeeded, so losing
\* power at such an instant forgets nothing that was not forgotten.
THEOREM ObligationDurable == CloseSpec => []OpenIsOnFlash
<1>1. Kept => OpenIsOnFlash
  BY DEF Kept, OpenHasObligation, OpenIsOnFlash
<1>2. QED
  BY <1>1, KeptInit, KeptNext, TypedInit, TypedNext, PTL DEF CloseSpec

-----------------------------------------------------------------------------
(* PendingClose: the retry budget *)

\* The strengthening: the file carries no spent attempt, and a row's counter
\* is exactly what this boot has requested for it.
Honest ==
  /\ \A k \in DOMAIN file : file[k] = 0
  /\ ~up => \A k \in Identities : tries[k] = 0
  /\ \A k \in DOMAIN rows : rows[k].retries = tries[k]
  /\ ExhaustedMeansTried

LEMMA HonestSave ==
  ASSUME Honest, NEW r, Save(r)
  PROVE  \A k \in DOMAIN file' : file'[k] = 0
  BY DEF Honest, Save, Snapshot

LEMMA HonestNext ==
  ASSUME Typed, Honest, [CloseNext]_closeVars
  PROVE  Honest'
<1> USE PendingCloseAssumption DEF PendingCloseAssumption
<1>1. ASSUME NEW k \in Identities, NEW duration \in Durations, DispatchOpen(k, duration)
      PROVE  Honest'
  <2>1. \A x \in DOMAIN file' : file'[x] = 0
    BY <1>1, HonestSave DEF DispatchOpen
  <2>2. tries' = [tries EXCEPT ![k] = 0] /\ alerts' = [alerts EXCEPT ![k] = {}]
    BY <1>1 DEF DispatchOpen
  <2>3. \A x \in DOMAIN rows' : rows'[x].retries = tries'[x]
    <3>1. DOMAIN rows \subseteq Identities /\ tries \in [Identities -> Nat]
      BY DEF Typed, TypeOK
    <3>2. CASE CanUpsert(rows, k)
      <4>1. rows' = [x \in DOMAIN rows \cup {k} |->
                       IF x = k THEN FreshRow(duration, 0) ELSE rows[x]]
        BY <1>1, <3>2 DEF DispatchOpen, Upsert
      <4>2. FreshRow(duration, 0).retries = 0
        BY DEF FreshRow
      <4>3. QED
        BY <2>2, <3>1, <4>1, <4>2 DEF Honest
    <3>3. CASE ~CanUpsert(rows, k)
      <4>1. rows' = rows /\ k \notin DOMAIN rows
        BY <1>1, <3>3 DEF DispatchOpen, Upsert, CanUpsert
      <4>2. QED
        BY <2>2, <3>1, <4>1 DEF Honest
    <3>4. QED
      BY <3>2, <3>3
  <2>4. ExhaustedMeansTried'
    BY <2>2 DEF Honest, ExhaustedMeansTried, Typed, TypeOK
  <2>5. QED
    BY <1>1, <2>1, <2>3, <2>4 DEF DispatchOpen, Honest
<1>2. ASSUME NEW k \in Identities, DispatchOther(k) \/ DispatchClose(k) \/ DropClose(k)
      PROVE  Honest'
  BY <1>2 DEF DispatchOther, DispatchClose, DropClose, MayDispatch, Honest, ExhaustedMeansTried
<1>3. ASSUME NEW k \in Identities, ServiceRow(k)
      PROVE  Honest'
  <2> DEFINE s == Step(rows[k], k \in known)
  <2>1. rows[k] \in RowType /\ k \in DOMAIN rows /\ rows[k].retries = tries[k]
    BY <1>3 DEF ServiceRow, Typed, TypeOK, Honest
  <2>2. rows' = [rows EXCEPT ![k] = s.row] /\ file' = file
    BY <1>3 DEF ServiceRow
  <2>3. CASE s.outcome = "REQUEST"
    <3>1. s.row.retries = rows[k].retries + 1 /\ rows[k].retries < MaxRetries
      BY <2>1, <2>3 DEF Step, FreshRow, RowType
    <3>2. tries' = [tries EXCEPT ![k] = @ + 1] /\ alerts' = [alerts EXCEPT ![k] = {}]
      BY <1>3, <2>3 DEF ServiceRow
    <3> HIDE DEF s
    <3>4. \A x \in DOMAIN rows' : rows'[x].retries = tries'[x]
      BY <2>1, <2>2, <3>1, <3>2 DEF Honest, Typed, TypeOK
    <3>5. ExhaustedMeansTried'
      BY <3>2 DEF Honest, ExhaustedMeansTried, Typed, TypeOK
    <3>6. QED
      BY <1>3, <2>2, <3>4, <3>5 DEF ServiceRow, Honest
  <2>4. CASE s.outcome # "REQUEST"
    <3>1. s.row.retries = rows[k].retries
      BY <2>1, <2>4 DEF Step, RowType
    <3>2. tries' = tries
      BY <1>3, <2>4 DEF ServiceRow
    <3>3. alerts' = alerts \/ (\E a \in {"DEVICE_UNREACHABLE", "CLOSE_UNCONFIRMED"} :
            /\ alerts' = [alerts EXCEPT ![k] = @ \cup {a}]
            /\ a = "CLOSE_UNCONFIRMED" => s.outcome = "EXHAUSTED")
      BY <1>3, <2>4 DEF ServiceRow
    <3>4. s.outcome = "EXHAUSTED" => rows[k].retries = MaxRetries
      BY <2>1 DEF Step, RowType
    <3> HIDE DEF s
    <3>5. \A x \in DOMAIN rows' : rows'[x].retries = tries'[x]
      BY <2>1, <2>2, <3>1, <3>2 DEF Honest, Typed, TypeOK
    <3>6. ExhaustedMeansTried'
      BY <2>1, <3>2, <3>3, <3>4 DEF Honest, ExhaustedMeansTried, Typed, TypeOK
    <3>7. QED
      BY <1>3, <2>2, <3>5, <3>6 DEF ServiceRow, Honest
  <2>5. QED
    BY <2>3, <2>4
<1>4. ASSUME DrainResult
      PROVE  Honest'
  <2>1. CASE ~confirmed
    BY <1>4, <2>1 DEF DrainResult, Honest, ExhaustedMeansTried
  <2>2. CASE confirmed
    <3> DEFINE k == last.key
    <3>1. /\ rows' = [x \in DOMAIN rows \ {k} |-> rows[x]] /\ Save(rows') /\ up /\ up'
          /\ tries' = [tries EXCEPT ![k] = 0] /\ alerts' = [alerts EXCEPT ![k] = {}]
      BY <1>4, <2>2 DEF DrainResult, Restrict
    <3>2. \A x \in DOMAIN file' : file'[x] = 0
      BY <3>1, HonestSave
    <3> HIDE DEF k
    <3>3. \A x \in DOMAIN rows' : rows'[x].retries = tries'[x]
      BY <3>1 DEF Honest, Typed, TypeOK
    <3>4. ExhaustedMeansTried'
      BY <3>1 DEF Honest, ExhaustedMeansTried, Typed, TypeOK
    <3>5. QED
      BY <3>1, <3>2, <3>3, <3>4 DEF Honest
  <2>3. QED
    BY <2>1, <2>2
<1>5. ASSUME NEW landed \in BOOLEAN, NEW outcome \in {"failed", "unconfirmed", "confirmed"},
             EndCommand(landed, outcome)
      PROVE  Honest'
  BY <1>5 DEF EndCommand, Honest, ExhaustedMeansTried
<1>6. ASSUME NEW k \in Identities, Discover(k) \/ Vanish(k)
      PROVE  Honest'
  BY <1>6 DEF Discover, Vanish, Honest, ExhaustedMeansTried
<1>7. ASSUME Tick
      PROVE  Honest'
  <2>1. \A k \in DOMAIN rows : rows[k] \in RowType
    BY DEF Typed, TypeOK
  <2>2. DOMAIN rows' = DOMAIN rows /\ \A k \in DOMAIN rows : rows'[k].retries = rows[k].retries
    BY <1>7, <2>1 DEF Tick, RowType
  <2>3. QED
    BY <1>7, <2>2 DEF Tick, Honest, ExhaustedMeansTried
<1>8. ASSUME Crash
      PROVE  Honest'
  BY <1>8 DEF Crash, NoRows, Honest, ExhaustedMeansTried
<1>9. ASSUME Boot
      PROVE  Honest'
  <2>1. rows' = [k \in DOMAIN file |-> FreshRow(0, file[k])] /\ file' = file
    BY <1>9 DEF Boot
  <2>2. tries' = tries /\ alerts' = alerts /\ ~up
    BY <1>9 DEF Boot
  <2>3. DOMAIN file \subseteq Identities
    BY DEF Typed, TypeOK
  <2>4. \A k \in DOMAIN rows' : rows'[k].retries = tries'[k]
    BY <2>1, <2>2, <2>3 DEF Honest, FreshRow
  <2>5. QED
    BY <2>1, <2>2, <2>4 DEF Honest, ExhaustedMeansTried
<1>10. CASE UNCHANGED closeVars
  BY <1>10 DEF closeVars, Honest, ExhaustedMeansTried
<1>11. QED
  BY <1>1, <1>2, <1>3, <1>4, <1>5, <1>6, <1>7, <1>8, <1>9, <1>10 DEF CloseNext

LEMMA HonestInit == CloseInit => Honest
  BY DEF CloseInit, Honest, ExhaustedMeansTried, NoRows

\* The operator is told that a device refused to close only when this boot
\* really has spent every attempt on it, whether or not writes fail.
THEOREM ReportedBudgetIsSpent == CloseSpec => []ExhaustedMeansTried
<1>1. Typed /\ Honest /\ [CloseNext]_closeVars => Honest'
  BY HonestNext
<1>2. Honest => ExhaustedMeansTried
  BY DEF Honest
<1>3. QED
  BY <1>1, <1>2, HonestInit, TypedInit, TypedNext, PTL DEF CloseSpec

\* Giving up never outlives a boot: every recorded obligation comes back due
\* at once with its whole budget.
THEOREM BootStartsOver == CloseSpec => GivenUpIsRetriedNextBoot
<1>1. Typed /\ Honest /\ [CloseNext]_closeVars => Honest'
  BY HonestNext
<1>2. Typed /\ Honest /\ [CloseNext]_closeVars
        => [~up /\ up' => \A k \in DOMAIN file :
              k \in DOMAIN rows' /\ rows'[k].left = 0 /\ rows'[k].retries = 0]_closeVars
  <2> SUFFICES ASSUME Honest, [CloseNext]_closeVars, ~up, up'
               PROVE  \A k \in DOMAIN file :
                        k \in DOMAIN rows' /\ rows'[k].left = 0 /\ rows'[k].retries = 0
    OBVIOUS
  <2>1. Boot
    BY DEF CloseNext, closeVars, DispatchOpen, DispatchOther, DispatchClose, DropClose, MayDispatch,
           EndCommand, DrainResult, ServiceRow, Discover, Vanish, Tick, Crash
  <2>2. QED
    BY <2>1 DEF Boot, Honest, FreshRow
<1>3. QED
  BY <1>1, <1>2, HonestInit, TypedInit, TypedNext, PTL DEF CloseSpec, GivenUpIsRetriedNextBoot

=============================================================================
