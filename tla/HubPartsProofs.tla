----------------------------- MODULE HubPartsProofs -----------------------------
(***************************************************************************)
(* Proofs about the parts of HubParts, for every value of their constants. *)
(* Each part has an inductive invariant of its own; the last section       *)
(* carries them over to the behaviours of HubParts, which follow one part  *)
(* and leave the others alone.                                             *)
(***************************************************************************)
EXTENDS HubParts, FiniteSets, TLAPS, WellFoundedInduction, FiniteSetTheorems

-----------------------------------------------------------------------------
(* ZbPermit: the alarm and what it is there to end *)

\* While the exchange is off the alarm comes no later than the network closes, or
\* within the grace: that is what is left of the window when it closes by itself.
PermitInv ==
  /\ relaxed \in BOOLEAN /\ alarm \in Nat /\ network \in Nat
  /\ relaxed => alarm \in 1 .. Window /\ (alarm <= network \/ alarm <= Grace)

LEMMA Required ==
  ASSUME relaxed' = FALSE, alarm' = 0, network' \in Nat
  PROVE  PermitInv'
<1>1. relaxed' \in BOOLEAN /\ ~relaxed'
  BY Zenon
<1>2. QED
  BY <1>1 DEF PermitInv

LEMMA PermitStarts == Permit!Init => PermitInv
<1> SUFFICES ASSUME Permit!Init PROVE PermitInv
  OBVIOUS
<1>1. relaxed \in BOOLEAN /\ ~relaxed
  BY Zenon DEF Permit!Init
<1>2. alarm = 0 /\ network = 0
  BY DEF Permit!Init
<1>3. QED
  BY <1>1, <1>2 DEF PermitInv

LEMMA PermitStep ==
  ASSUME Permit!ZbPermitAssumption, PermitInv, [Permit!Next]_permitVars
  PROVE  PermitInv'
<1> USE DEF PermitInv
<1>1. Window \in Nat /\ Grace \in Nat /\ 1 <= Grace /\ Grace <= Window
  BY DEF Permit!ZbPermitAssumption
<1>2. CASE Permit!Initialized \/ Permit!Formation \/ UNCHANGED permitVars
  BY <1>2 DEF Permit!Initialized, Permit!Formation, permitVars
<1>3. CASE Permit!Reboot
  BY <1>3, Required DEF Permit!Reboot
<1>4. CASE \E c \in Callers : Permit!Open(c)
  <2>1. \/ relaxed' = TRUE /\ alarm' = Window /\ network' = Window
        \/ relaxed' = FALSE /\ alarm' = 0 /\ network' = network
    BY <1>4 DEF Permit!Open
  <2>2. CASE relaxed' = TRUE /\ alarm' = Window /\ network' = Window
    BY <1>1, <2>2
  <2>3. QED
    BY <2>1, <2>2, Required
<1>5. CASE \E c \in Callers : Permit!Publish(c)
  BY <1>5 DEF Permit!Publish
<1>6. CASE Permit!Expiry
  <2>1. relaxed' = FALSE /\ alarm' = 0 /\ network' \in Nat
    BY <1>6 DEF Permit!Expiry
  <2>2. QED
    BY <2>1, Required
<1>7. CASE Permit!JoinNew
  <2>1. relaxed' = relaxed /\ network' \in {0, network}
    BY <1>7 DEF Permit!JoinNew
  <2>2. alarm' = Grace \/ UNCHANGED <<alarm, network>>
    BY <1>7 DEF Permit!JoinNew, Permit!Rearmed
  <2>3. QED
    BY <1>1, <2>1, <2>2
<1>8. CASE Permit!Pass
  BY <1>1, <1>8 DEF Permit!Pass, Permit!Down
<1>9. QED
  BY <1>2, <1>3, <1>4, <1>5, <1>6, <1>7, <1>8 DEF Permit!Next

-----------------------------------------------------------------------------
(* ZbCommand: who has a command until it is reported *)

Tasks == [cmd : Nat, slot : Slots \cup {0}, at : {"idle", "claimed", "freed"}]
Contents == [used : BOOLEAN, sent : BOOLEAN, cmd : Nat]

CommandTypes ==
  /\ slot \in [Slots -> Contents] /\ timer \in [Slots -> Nat]
  /\ caller \in Tasks /\ stack \in Tasks
  /\ issued \in 0 .. MaxCommands /\ answers \subseteq 1 .. issued
  /\ outcome \in [Command!Commands -> Seq(Nat)]
  /\ caller.at = "idle" => caller = Command!Idle
  /\ stack.at = "idle" => stack = Command!Idle
  /\ caller.at # "freed" /\ stack.at # "claimed"

Unreported(c) == c \in 1 .. issued /\ outcome[c] = <<>>

\* Only the dispatching task has a slot that is in use and not sent, and a slot that
\* is has the alarm of its command.
SlotsHeld ==
  /\ \A s \in Slots : slot[s].used =>
       /\ Unreported(slot[s].cmd)
       /\ IF slot[s].sent THEN timer[s] = slot[s].cmd
          ELSE caller = [cmd |-> slot[s].cmd, slot |-> s, at |-> "claimed"]
  /\ \A s, r \in Slots : slot[s].used /\ slot[r].used /\ slot[s].cmd = slot[r].cmd => s = r
  /\ caller.at = "claimed" =>
       /\ caller.slot \in Slots
       /\ slot[caller.slot] = [used |-> TRUE, sent |-> FALSE, cmd |-> caller.cmd]

\* An alarm without its command waits to be cancelled, and nothing is sent meanwhile.
AlarmsHeld ==
  /\ stack.at = "freed" =>
       /\ stack.slot \in Slots /\ Unreported(stack.cmd)
       /\ \A s \in Slots : slot[s].used => slot[s].cmd # stack.cmd
       /\ slot[stack.slot].used => ~slot[stack.slot].sent
  /\ \A s \in Slots : timer[s] # 0 =>
       \/ slot[s].used /\ slot[s].sent
       \/ stack.at = "freed" /\ stack.slot = s

Accounted ==
  \A c \in Command!Commands :
    IF c <= issued
    THEN \/ outcome[c] = <<c>>
         \/ /\ outcome[c] = <<>>
            /\ \/ stack.at = "freed" /\ stack.cmd = c
               \/ \E s \in Slots : slot[s].used /\ slot[s].cmd = c
    ELSE outcome[c] = <<>>

CommandInv == CommandTypes /\ SlotsHeld /\ AlarmsHeld /\ Accounted

LEMMA CommandStarts == Command!Init => CommandInv
<1> SUFFICES ASSUME Command!Init PROVE CommandInv
  OBVIOUS
<1>1. Command!Free \in Contents /\ Command!Idle \in Tasks
  BY DEF Command!Free, Command!Idle, Contents, Tasks
<1>2. <<>> \in Seq(Nat)
  OBVIOUS
<1>3. CommandTypes
  BY <1>1, <1>2, HubPartsAssumption
     DEF Command!Init, CommandTypes, Command!Idle, Command!ZbCommandAssumption
<1>4. SlotsHeld /\ AlarmsHeld /\ Accounted
  BY DEF Command!Init, SlotsHeld, AlarmsHeld, Accounted, Command!Free, Command!Idle, Command!Commands
<1>5. QED
  BY <1>3, <1>4 DEF CommandInv

\* What was not reported is reported, as its own.
LEMMA Reported ==
  ASSUME outcome \in [Command!Commands -> Seq(Nat)], NEW c \in Command!Commands,
         outcome[c] = <<>>, Command!Report(c, c)
  PROVE  /\ outcome' \in [Command!Commands -> Seq(Nat)]
         /\ outcome'[c] = <<c>>
         /\ \A d \in Command!Commands : d # c => outcome'[d] = outcome[d]
<1>1. c \in Nat /\ Append(<<>>, c) = <<c>> /\ <<c>> \in Seq(Nat)
  BY DEF Command!Commands
<1>2. outcome' = [outcome EXCEPT ![c] = <<c>>]
  BY <1>1 DEF Command!Report
<1>3. QED
  BY <1>1, <1>2

\* The next command is a new one.
LEMMA Issued ==
  ASSUME CommandInv, Command!Issue
  PROVE  /\ MaxCommands \in Nat /\ issued' \in 1 .. MaxCommands /\ issued' = issued + 1 /\ issued \in Nat
         /\ issued' \in Command!Commands /\ outcome[issued'] = <<>>
         /\ answers \subseteq 1 .. issued'
         /\ \A d \in Command!Commands : d <= issued' <=> d <= issued \/ d = issued'
<1>1. issued \in Nat /\ issued' = issued + 1 /\ issued < MaxCommands /\ MaxCommands \in Nat
  BY HubPartsAssumption DEF CommandInv, CommandTypes, Command!Issue, Command!ZbCommandAssumption
<1>2. issued' \in Command!Commands
  BY <1>1 DEF Command!Commands
<1>3. outcome[issued'] = <<>>
  BY <1>1, <1>2 DEF CommandInv, Accounted
<1>4. answers \subseteq 1 .. issued'
  BY <1>1 DEF CommandInv, CommandTypes
<1>5. QED
  BY <1>1, <1>2, <1>3, <1>4 DEF Command!Commands

\* A new command is reported and nothing else happens.
LEMMA Refused ==
  ASSUME CommandInv, Command!Issue, Command!Report(issued', issued'),
         UNCHANGED <<slot, timer, caller, stack, answers>>
  PROVE  CommandInv'
<1>1. /\ outcome' \in [Command!Commands -> Seq(Nat)] /\ outcome'[issued'] = <<issued'>>
      /\ \A d \in Command!Commands : d # issued' => outcome'[d] = outcome[d]
  BY Issued, Reported DEF CommandInv, CommandTypes
<1>2. CommandTypes'
  BY <1>1, Issued DEF CommandInv, CommandTypes
<1>3. \A c : Unreported(c) => Unreported(c)'
  <2> SUFFICES ASSUME NEW c, Unreported(c) PROVE Unreported(c)'
    OBVIOUS
  <2>1. c \in 1 .. issued /\ outcome[c] = <<>>
    BY DEF Unreported
  <2>2. c \in Command!Commands /\ c # issued' /\ c \in 1 .. issued'
    BY <2>1, Issued DEF Command!Commands
  <2>3. QED
    BY <1>1, <2>1, <2>2 DEF Unreported
<1>4. SlotsHeld' /\ AlarmsHeld'
  BY <1>3 DEF CommandInv, SlotsHeld, AlarmsHeld
<1>5. Accounted'
  BY <1>1, Issued DEF CommandInv, Accounted
<1>6. QED
  BY <1>2, <1>4, <1>5 DEF CommandInv

LEMMA LeastOf ==
  ASSUME NEW S, S \subseteq Nat, S # {}
  PROVE  \E c \in S : \A d \in S : c <= d
<1>1. PICK c \in S : \A d \in S : <<d, c>> \notin OpToRel(<, Nat)
  BY NatLessThanWellFounded, WFMin, Zenon
<1>2. \A d \in S : ~(d < c)
  BY <1>1 DEF OpToRel
<1>3. QED
  BY <1>2

\* A slot is claimed for a new command.
LEMMA Claimed ==
  ASSUME CommandInv, Command!Claim, Command!FreeSlots # {}
  PROVE  CommandInv'
<1>1. Slots \subseteq Nat
  BY HubPartsAssumption DEF Command!ZbCommandAssumption
<1>2. \E s \in Command!FreeSlots : \A r \in Command!FreeSlots : s <= r
  BY <1>1, LeastOf DEF Command!FreeSlots
<1>3. PICK s \in Slots :
        /\ ~slot[s].used
        /\ slot' = [slot EXCEPT ![s] = [used |-> TRUE, sent |-> FALSE, cmd |-> issued']]
        /\ caller' = [cmd |-> issued', slot |-> s, at |-> "claimed"]
        /\ UNCHANGED <<outcome, timer, stack, answers>>
  <2> DEFINE first == CHOOSE s \in Command!FreeSlots : \A r \in Command!FreeSlots : s <= r
  <2>1. first \in Command!FreeSlots
    BY <1>2
  <2>2. /\ slot' = [slot EXCEPT ![first] = [used |-> TRUE, sent |-> FALSE, cmd |-> issued']]
        /\ caller' = [cmd |-> issued', slot |-> first, at |-> "claimed"]
        /\ UNCHANGED <<outcome, timer, stack, answers>>
    BY DEF Command!Claim
  <2> HIDE DEF first
  <2>3. first \in Slots /\ ~slot[first].used
    BY <2>1 DEF Command!FreeSlots
  <2>4. QED
    BY <2>2, <2>3
<1>4. Command!Issue
  BY DEF Command!Claim
<1>0. PICK k : k = issued'
  OBVIOUS
<1>5. [used |-> TRUE, sent |-> FALSE, cmd |-> k] \in Contents /\ caller' \in Tasks
  BY <1>3, <1>0, <1>4, Issued DEF Contents, Tasks
<1>6. CommandTypes'
  <2>1. slot' \in [Slots -> Contents]
    BY <1>3, <1>0, <1>5 DEF CommandInv, CommandTypes
  <2>2. caller'.at = "claimed"
    BY <1>3, <1>0
  <2>3. QED
    BY <1>3, <1>0, <1>4, <1>5, <2>1, <2>2, Issued DEF CommandInv, CommandTypes
<1>7. \A r \in Slots : slot'[r] = IF r = s THEN [used |-> TRUE, sent |-> FALSE, cmd |-> k] ELSE slot[r]
  BY <1>3, <1>0 DEF CommandInv, CommandTypes
<1>8. Unreported(k)' /\ \A c : Unreported(c) => Unreported(c)' /\ c # k
  BY <1>3, <1>0, <1>4, Issued DEF Unreported
<1>9. caller.at = "idle" /\ \A r \in Slots : slot[r].used => slot[r].sent
  BY <1>4 DEF CommandInv, SlotsHeld, Command!Issue, Command!Idle
<1>10. SlotsHeld'
  <2>1. \A r \in Slots : slot'[r].used => r = s \/ (slot[r].used /\ slot[r].sent /\ slot'[r] = slot[r])
    BY <1>7, <1>9
  <2>2. \A r \in Slots : slot[r].used => slot[r].cmd # k
    BY <1>8 DEF CommandInv, SlotsHeld
  <2>3. slot'[s] = [used |-> TRUE, sent |-> FALSE, cmd |-> k]
    BY <1>7
  <2>4. QED
    BY <1>3, <1>0, <1>8, <2>1, <2>2, <2>3 DEF CommandInv, SlotsHeld
<1>11. AlarmsHeld'
  <2>1. slot'[s] = [used |-> TRUE, sent |-> FALSE, cmd |-> k]
    BY <1>7
  <2>2. stack.at = "freed" => stack.cmd # k
    BY <1>8 DEF CommandInv, AlarmsHeld
  <2>3. QED
    BY <1>3, <1>0, <1>7, <1>8, <2>1, <2>2 DEF CommandInv, AlarmsHeld
<1>12. Accounted'
  <2>1. slot'[s] = [used |-> TRUE, sent |-> FALSE, cmd |-> k]
    BY <1>7
  <2>2. \A r \in Slots : slot[r].used => slot'[r] = slot[r]
    BY <1>3, <1>0, <1>7
  <2>3. QED
    BY <1>3, <1>0, <1>4, <2>1, <2>2, Issued DEF CommandInv, Accounted
<1>13. QED
  BY <1>6, <1>10, <1>11, <1>12 DEF CommandInv

\* A slot is freed: what it had must go on somewhere else, or have been reported.
LEMMA Freed ==
  ASSUME CommandTypes, NEW s \in Slots, slot' = [slot EXCEPT ![s] = Command!Free]
  PROVE  /\ slot' \in [Slots -> Contents] /\ ~slot'[s].used
         /\ \A r \in Slots : slot'[r].used => r # s /\ slot'[r] = slot[r]
         /\ \A r \in Slots : r # s => slot'[r] = slot[r]
<1>1. Command!Free \in Contents /\ ~Command!Free.used
  BY DEF Command!Free, Contents
<1>2. QED
  BY <1>1 DEF CommandTypes

LEMMA LockFailsStep == CommandInv /\ Command!LockFails => CommandInv'
<1> SUFFICES ASSUME CommandInv, Command!LockFails PROVE CommandInv'
  OBVIOUS
<1>1. PICK s \in Slots, c \in 1 .. issued :
        /\ s = caller.slot /\ c = caller.cmd /\ outcome[c] = <<>> /\ Command!Report(c, c)
        /\ slot[s] = [used |-> TRUE, sent |-> FALSE, cmd |-> c]
        /\ slot' = [slot EXCEPT ![s] = Command!Free] /\ caller' = Command!Idle
        /\ UNCHANGED <<timer, stack, answers, issued>>
  <2>1. caller.slot \in Slots /\ slot[caller.slot] = [used |-> TRUE, sent |-> FALSE, cmd |-> caller.cmd]
    BY DEF CommandInv, SlotsHeld, Command!LockFails
  <2>2. Unreported(caller.cmd)
    BY <2>1 DEF CommandInv, SlotsHeld
  <2>3. QED
    BY <2>1, <2>2 DEF Command!LockFails, Unreported
<1>2. c \in Command!Commands /\ issued \in Nat
  BY HubPartsAssumption DEF CommandInv, CommandTypes, Command!Commands, Command!ZbCommandAssumption
<1>3. /\ outcome' \in [Command!Commands -> Seq(Nat)] /\ outcome'[c] = <<c>>
      /\ \A d \in Command!Commands : d # c => outcome'[d] = outcome[d]
  BY <1>1, <1>2, Reported DEF CommandInv, CommandTypes
<1>4. /\ slot' \in [Slots -> Contents] /\ ~slot'[s].used
      /\ \A r \in Slots : slot'[r].used => r # s /\ slot'[r] = slot[r]
      /\ \A r \in Slots : r # s => slot'[r] = slot[r]
  BY <1>1, Freed DEF CommandInv
<1>5. CommandTypes'
  <2>1. Command!Idle \in Tasks /\ Command!Idle.at = "idle"
    BY DEF Command!Idle, Tasks
  <2>2. QED
    BY <1>1, <1>3, <1>4, <2>1 DEF CommandInv, CommandTypes
<1>6. \A d : Unreported(d) /\ d # c => Unreported(d)'
  <2> SUFFICES ASSUME NEW d, Unreported(d), d # c PROVE Unreported(d)'
    OBVIOUS
  <2>1. d \in 1 .. issued /\ outcome[d] = <<>>
    BY DEF Unreported
  <2>2. d \in Command!Commands
    BY <2>1, HubPartsAssumption DEF CommandInv, CommandTypes, Command!Commands, Command!ZbCommandAssumption
  <2>3. QED
    BY <1>1, <1>3, <2>1, <2>2 DEF Unreported
<1>7. SlotsHeld'
  <2>1. \A r \in Slots : slot'[r].used => slot[r].used /\ slot[r].sent /\ slot[r].cmd # c
    BY <1>1, <1>4 DEF CommandInv, SlotsHeld
  <2>2. caller'.at = "idle"
    BY <1>1 DEF Command!Idle
  <2>3. QED
    BY <1>1, <1>4, <1>6, <2>1, <2>2 DEF CommandInv, SlotsHeld
<1>8. AlarmsHeld'
  <2>1. stack.at = "freed" => stack.cmd # c
    BY <1>1 DEF CommandInv, AlarmsHeld
  <2>2. QED
    BY <1>1, <1>4, <1>6, <2>1 DEF CommandInv, AlarmsHeld
<1>9. Accounted'
  BY <1>1, <1>2, <1>3, <1>4 DEF CommandInv, Accounted
<1>10. QED
  BY <1>5, <1>7, <1>8, <1>9 DEF CommandInv

LEMMA SendStep == CommandInv /\ Command!Send => CommandInv'
<1> SUFFICES ASSUME CommandInv, Command!Send PROVE CommandInv'
  OBVIOUS
<1>1. PICK s \in Slots, c \in 1 .. issued :
        /\ slot[s] = [used |-> TRUE, sent |-> FALSE, cmd |-> c]
        /\ slot' = [slot EXCEPT ![s].sent = TRUE]
        /\ timer' = [timer EXCEPT ![s] = c]
        /\ answers' \subseteq answers \cup {c}
        /\ s = caller.slot /\ stack = Command!Idle /\ caller' = Command!Idle
        /\ UNCHANGED <<stack, outcome, issued>>
  <2>1. caller.slot \in Slots /\ slot[caller.slot] = [used |-> TRUE, sent |-> FALSE, cmd |-> caller.cmd]
    BY DEF CommandInv, SlotsHeld, Command!Send
  <2>2. caller.cmd \in 1 .. issued
    BY <2>1 DEF CommandInv, SlotsHeld, Unreported
  <2>3. QED
    BY <2>1, <2>2 DEF Command!Send
<1>2. /\ slot' \in [Slots -> Contents] /\ slot'[s].used /\ slot'[s].sent /\ slot'[s].cmd = c
      /\ timer' \in [Slots -> Nat] /\ timer'[s] = c
      /\ \A r \in Slots : r # s => slot'[r] = slot[r] /\ timer'[r] = timer[r]
  <2>1. slot \in [Slots -> Contents] /\ slot[s].used /\ slot[s].cmd = c
    BY <1>1 DEF CommandInv, CommandTypes
  <2>2. /\ slot' \in [Slots -> Contents] /\ slot'[s].used /\ slot'[s].sent /\ slot'[s].cmd = c
        /\ \A r \in Slots : r # s => slot'[r] = slot[r]
    BY <1>1, <2>1 DEF Contents
  <2>3. QED
    BY <1>1, <2>2 DEF CommandInv, CommandTypes
<1>3. CommandTypes'
  <2>1. Command!Idle \in Tasks /\ Command!Idle.at = "idle"
    BY DEF Command!Idle, Tasks
  <2>2. QED
    BY <1>1, <1>2, <2>1 DEF CommandInv, CommandTypes
<1>4. \A d : Unreported(d) => Unreported(d)'
  BY <1>1 DEF Unreported
<1>5. caller'.at = "idle" /\ stack'.at = "idle"
  BY <1>1 DEF Command!Idle
<1>6. \A r \in Slots : slot'[r].used => slot[r].used /\ slot'[r].sent /\ slot'[r].cmd = slot[r].cmd
  BY <1>1, <1>2 DEF CommandInv, SlotsHeld
<1>7. SlotsHeld'
  <2>1. \A r \in Slots : slot'[r].used => Unreported(slot[r].cmd)' /\ timer'[r] = slot'[r].cmd
    BY <1>1, <1>2, <1>4, <1>6 DEF CommandInv, SlotsHeld
  <2>2. \A q, r \in Slots : slot'[q].used /\ slot'[r].used /\ slot'[q].cmd = slot'[r].cmd => q = r
    BY <1>6 DEF CommandInv, SlotsHeld
  <2>3. QED
    BY <1>5, <1>6, <2>1, <2>2 DEF SlotsHeld
<1>8. AlarmsHeld'
  <2>1. \A r \in Slots : timer'[r] # 0 => slot'[r].used /\ slot'[r].sent
    BY <1>1, <1>2, <1>5 DEF CommandInv, AlarmsHeld
  <2>2. QED
    BY <1>5, <2>1 DEF AlarmsHeld
<1>9. Accounted'
  <2>1. \A r \in Slots : slot[r].used => slot'[r].used /\ slot'[r].cmd = slot[r].cmd
    BY <1>1, <1>2
  <2>2. QED
    BY <1>1, <2>1 DEF CommandInv, Accounted
<1>10. QED
  BY <1>3, <1>7, <1>8, <1>9 DEF CommandInv

LEMMA ResponseStep == CommandInv /\ Command!Response => CommandInv'
<1> SUFFICES ASSUME CommandInv, Command!Response PROVE CommandInv'
  OBVIOUS
<1>1. answers' \subseteq answers /\ stack = Command!Idle /\ UNCHANGED <<timer, outcome, caller, issued>>
  BY DEF Command!Response
<1>2. CASE UNCHANGED <<slot, stack>>
  <2>1. CommandTypes'
    BY <1>1, <1>2 DEF CommandInv, CommandTypes
  <2>2. SlotsHeld' /\ AlarmsHeld' /\ Accounted'
    BY <1>1, <1>2 DEF CommandInv, SlotsHeld, AlarmsHeld, Accounted, Unreported
  <2>3. QED
    BY <2>1, <2>2 DEF CommandInv
<1>3. CASE ~UNCHANGED <<slot, stack>>
  <2>1. PICK s \in Slots, c \in Nat :
          /\ c = slot[s].cmd /\ slot[s].used /\ slot[s].sent /\ slot' = [slot EXCEPT ![s] = Command!Free]
          /\ stack' = [cmd |-> c, slot |-> s, at |-> "freed"]
    <3>1. \A s \in Slots : slot[s].cmd \in Nat
      BY DEF CommandInv, CommandTypes, Contents
    <3>2. QED
      BY <1>3, <3>1 DEF Command!Response, Command!Answers
  <2>2. /\ slot' \in [Slots -> Contents] /\ ~slot'[s].used
        /\ \A r \in Slots : slot'[r].used => r # s /\ slot'[r] = slot[r]
        /\ \A r \in Slots : r # s => slot'[r] = slot[r]
    BY <2>1, Freed DEF CommandInv
  <2>3. stack' \in Tasks /\ stack'.at = "freed"
    BY <2>1 DEF CommandInv, CommandTypes, Contents, Tasks
  <2>4. CommandTypes'
    BY <1>1, <2>2, <2>3 DEF CommandInv, CommandTypes
  <2>5. \A d : Unreported(d) => Unreported(d)'
    BY <1>1 DEF Unreported
  <2>6. SlotsHeld'
    <3>1. caller.at = "claimed" => caller.slot # s
      BY <2>1 DEF CommandInv, SlotsHeld
    <3>2. QED
      BY <1>1, <2>2, <2>5, <3>1 DEF CommandInv, SlotsHeld
  <2>7. AlarmsHeld'
    <3>1. stack'.cmd = c /\ stack'.slot = s
      BY <2>1
    <3>2. Unreported(c)' /\ \A r \in Slots : slot'[r].used => slot'[r].cmd # c
      BY <2>1, <2>2, <2>5 DEF CommandInv, SlotsHeld
    <3>3. \A r \in Slots : timer[r] # 0 => slot[r].used /\ slot[r].sent
      BY <1>1 DEF CommandInv, AlarmsHeld, Command!Idle
    <3>4. Unreported(stack.cmd)'
      BY <3>1, <3>2 DEF Unreported
    <3>5. QED
      BY <1>1, <2>2, <2>3, <3>1, <3>2, <3>3, <3>4 DEF AlarmsHeld
  <2>8. Accounted'
    <3>1. stack'.cmd = c /\ stack'.at = "freed" /\ stack.at = "idle"
      BY <1>1, <2>1 DEF Command!Idle
    <3>2. \A r \in Slots : slot[r].used /\ slot[r].cmd # c => slot'[r].used /\ slot'[r].cmd = slot[r].cmd
      BY <2>1, <2>2
    <3>3. \A d \in Command!Commands :
            (\E r \in Slots : slot[r].used /\ slot[r].cmd = d)
              => d = c \/ \E r \in Slots : slot'[r].used /\ slot'[r].cmd = d
      BY <3>2
    <3>4. QED
      BY <1>1, <3>1, <3>3 DEF CommandInv, Accounted
  <2>9. QED
    BY <2>4, <2>6, <2>7, <2>8 DEF CommandInv
<1>4. QED
  BY <1>2, <1>3

LEMMA ResolveStep == CommandInv /\ Command!Resolve => CommandInv'
<1> SUFFICES ASSUME CommandInv, Command!Resolve PROVE CommandInv'
  OBVIOUS
<1>1. PICK s \in Slots, c \in 1 .. issued :
        /\ stack.at = "freed" /\ s = stack.slot /\ c = stack.cmd
        /\ outcome[c] = <<>> /\ Command!Report(c, c)
        /\ timer' = [timer EXCEPT ![s] = 0] /\ stack' = Command!Idle
        /\ UNCHANGED <<slot, caller, answers, issued>>
  BY DEF Command!Resolve, Command!Cancelled, CommandInv, AlarmsHeld, Unreported
<1>2. c \in Command!Commands /\ issued \in Nat
  BY HubPartsAssumption DEF CommandInv, CommandTypes, Command!Commands, Command!ZbCommandAssumption
<1>3. /\ outcome' \in [Command!Commands -> Seq(Nat)] /\ outcome'[c] = <<c>>
      /\ \A d \in Command!Commands : d # c => outcome'[d] = outcome[d]
  BY <1>1, <1>2, Reported DEF CommandInv, CommandTypes
<1>4. stack'.at = "idle" /\ stack' \in Tasks
  BY <1>1 DEF Command!Idle, Tasks
<1>5. timer' \in [Slots -> Nat] /\ timer'[s] = 0 /\ \A r \in Slots : r # s => timer'[r] = timer[r]
  BY <1>1 DEF CommandInv, CommandTypes
<1>6. CommandTypes'
  BY <1>1, <1>3, <1>4, <1>5 DEF CommandInv, CommandTypes
<1>7. \A d : Unreported(d) /\ d # c => Unreported(d)'
  <2> SUFFICES ASSUME NEW d, Unreported(d), d # c PROVE Unreported(d)'
    OBVIOUS
  <2>1. d \in 1 .. issued /\ outcome[d] = <<>>
    BY DEF Unreported
  <2>2. d \in Command!Commands
    BY <2>1, HubPartsAssumption DEF CommandInv, CommandTypes, Command!Commands, Command!ZbCommandAssumption
  <2>3. QED
    BY <1>1, <1>3, <2>1, <2>2 DEF Unreported
<1>8. \A r \in Slots : slot[r].used => slot[r].cmd # c
  BY <1>1 DEF CommandInv, AlarmsHeld
<1>9. SlotsHeld'
  <2>1. \A r \in Slots : slot[r].used /\ slot[r].sent => r # s
    BY <1>1 DEF CommandInv, AlarmsHeld
  <2>2. QED
    BY <1>1, <1>5, <1>7, <1>8, <2>1 DEF CommandInv, SlotsHeld
<1>10. AlarmsHeld'
  BY <1>1, <1>4, <1>5 DEF CommandInv, AlarmsHeld
<1>11. Accounted'
  BY <1>1, <1>2, <1>3, <1>4 DEF CommandInv, Accounted
<1>12. QED
  BY <1>6, <1>9, <1>10, <1>11 DEF CommandInv

\* An alarm that goes off is that of the command in the slot.
LEMMA ExpireStep == CommandInv /\ Command!Expire => CommandInv'
<1> SUFFICES ASSUME CommandInv, Command!Expire PROVE CommandInv'
  OBVIOUS
<1>1. PICK s \in Slots :
        /\ stack = Command!Idle /\ timer[s] # 0 /\ timer' = [timer EXCEPT ![s] = 0]
        /\ slot[s].used => slot' = [slot EXCEPT ![s] = Command!Free] /\ Command!Report(slot[s].cmd, timer[s])
        /\ UNCHANGED <<caller, stack, answers, issued>>
  BY DEF Command!Expire
<1>2. stack.at = "idle" /\ slot[s].used /\ slot[s].sent
  BY <1>1 DEF CommandInv, AlarmsHeld, Command!Idle
<1>3. PICK c \in 1 .. issued : c = slot[s].cmd /\ c = timer[s] /\ outcome[c] = <<>>
  BY <1>2 DEF CommandInv, SlotsHeld, Unreported
<1>4. c \in Command!Commands /\ issued \in Nat
  BY HubPartsAssumption DEF CommandInv, CommandTypes, Command!Commands, Command!ZbCommandAssumption
<1>5. /\ outcome' \in [Command!Commands -> Seq(Nat)] /\ outcome'[c] = <<c>>
      /\ \A d \in Command!Commands : d # c => outcome'[d] = outcome[d]
  BY <1>1, <1>2, <1>3, <1>4, Reported DEF CommandInv, CommandTypes
<1>6. /\ slot' \in [Slots -> Contents] /\ ~slot'[s].used
      /\ \A r \in Slots : slot'[r].used => r # s /\ slot'[r] = slot[r]
      /\ \A r \in Slots : r # s => slot'[r] = slot[r]
  BY <1>1, <1>2, Freed DEF CommandInv
<1>7. timer' \in [Slots -> Nat] /\ timer'[s] = 0 /\ \A r \in Slots : r # s => timer'[r] = timer[r]
  BY <1>1 DEF CommandInv, CommandTypes
<1>8. CommandTypes'
  BY <1>1, <1>5, <1>6, <1>7 DEF CommandInv, CommandTypes
<1>9. \A d : Unreported(d) /\ d # c => Unreported(d)'
  <2> SUFFICES ASSUME NEW d, Unreported(d), d # c PROVE Unreported(d)'
    OBVIOUS
  <2>1. d \in 1 .. issued /\ outcome[d] = <<>>
    BY DEF Unreported
  <2>2. d \in Command!Commands
    BY <2>1, HubPartsAssumption DEF CommandInv, CommandTypes, Command!Commands, Command!ZbCommandAssumption
  <2>3. QED
    BY <1>1, <1>5, <2>1, <2>2 DEF Unreported
<1>10. SlotsHeld'
  <2>1. \A r \in Slots : slot'[r].used => slot[r].used /\ slot[r].cmd # c
    BY <1>2, <1>3, <1>6 DEF CommandInv, SlotsHeld
  <2>2. caller.at = "claimed" => caller.slot # s
    BY <1>2 DEF CommandInv, SlotsHeld
  <2>3. QED
    BY <1>1, <1>6, <1>7, <1>9, <2>1, <2>2 DEF CommandInv, SlotsHeld
<1>11. AlarmsHeld'
  BY <1>1, <1>2, <1>6, <1>7 DEF CommandInv, AlarmsHeld
<1>12. Accounted'
  <2>1. \A r \in Slots : slot[r].used /\ slot[r].cmd # c => slot'[r].used /\ slot'[r].cmd = slot[r].cmd
    BY <1>3, <1>6
  <2>2. \A d \in Command!Commands :
          (\E r \in Slots : slot[r].used /\ slot[r].cmd = d)
            => d = c \/ \E r \in Slots : slot'[r].used /\ slot'[r].cmd = d
    BY <2>1
  <2>3. QED
    BY <1>1, <1>4, <1>5, <2>2 DEF CommandInv, Accounted
<1>13. QED
  BY <1>8, <1>10, <1>11, <1>12 DEF CommandInv

LEMMA CommandStep == CommandInv /\ [Command!Next]_commandVars => CommandInv'
<1> SUFFICES ASSUME CommandInv, [Command!Next]_commandVars PROVE CommandInv'
  OBVIOUS
<1>1. CASE UNCHANGED commandVars
  <2>1. CommandTypes'
    BY <1>1 DEF CommandInv, CommandTypes, commandVars
  <2>2. SlotsHeld' /\ AlarmsHeld' /\ Accounted'
    BY <1>1 DEF CommandInv, SlotsHeld, AlarmsHeld, Accounted, Unreported, commandVars
  <2>3. QED
    BY <2>1, <2>2 DEF CommandInv
<1>2. CASE Command!Refuse
  BY <1>2, Refused DEF Command!Refuse
<1>3. CASE Command!Claim
  <2>1. CASE Command!FreeSlots = {}
    BY <1>3, <2>1, Refused DEF Command!Claim
  <2>2. QED
    BY <1>3, <2>1, Claimed
<1>4. QED
  BY <1>1, <1>2, <1>3, LockFailsStep, SendStep, ResponseStep, ResolveStep, ExpireStep DEF Command!Next

-----------------------------------------------------------------------------
(* SwarmStore: what a setter returned, the flash and the cache *)

Fields == Membership!Fields
Entries == Membership!Scalars \cup {"sw_nodes"}
EntryKeys == {<<"sw_hub", "sw_hubcc">>} \cup {<<k>> : k \in Entries}
Calls == [fields : SUBSET Fields, keys : EntryKeys]
Copies == UNION {[D -> Nat] : D \in SUBSET Fields}
WriterLocals ==
  [todo : Seq(Calls), keys : EntryKeys \cup {<<>>}, copy : Copies, main : Entries \cup {""},
   sets : SUBSET Fields, number : Nat]

StoreTypes ==
  /\ ram \in [Fields -> Nat] /\ nvs \in [Fields -> Nat] /\ acked \in [Fields -> Nat]
  /\ layout \in 0 .. 3 /\ writer \in [Writers -> WriterLocals] /\ holder \subseteq Writers
  /\ written \in [calls : Nat, sets : Nat, fails : Nat, crashes : Nat]

\* Nothing is newer than the last set, and an old layout has only defaults where it
\* has no field.
LayoutHeld ==
  /\ \A f \in Fields : ram[f] <= written.sets
  /\ \A f \in Membership!Content("sw_nodes") \ Membership!InFormat(layout) : nvs[f] = 0

\* What a writer has set is in the cache, as that or newer, until it has written it.
SetHeld ==
  \A w \in Writers : writer[w].keys # <<>> =>
    \A f \in writer[w].sets : writer[w].number <= ram[f]

\* One writer at a time copies and writes: its copy is between the flash and the cache.
CopyHeld ==
  /\ \A v, w \in holder : v = w
  /\ \A w \in holder :
       /\ writer[w].keys # <<>>
       /\ writer[w].copy \in [Membership!Content(Head(writer[w].keys)) -> Nat]
       /\ \A f \in Membership!Content(Head(writer[w].keys)) :
            /\ nvs[f] <= writer[w].copy[f] /\ writer[w].copy[f] <= ram[f]
            /\ f \in writer[w].sets => writer[w].number <= writer[w].copy[f]

StoreInv == StoreTypes /\ LayoutHeld /\ SetHeld /\ CopyHeld /\ Membership!FlashMovesForward

LEMMA ContentOf ==
  /\ \A key \in Membership!Scalars : Membership!Content(key) = {key}
  /\ Membership!Content("sw_nodes") = {"members", "name", "desired_mode", "desired_radio"}
  /\ \A key \in Entries : Membership!Content(key) \subseteq Fields
  /\ Fields = Membership!Scalars \cup Membership!Content("sw_nodes")
<1>1. \A key \in Membership!Scalars : Membership!Content(key) = {key}
  BY DEF Membership!Content, Membership!Scalars
<1>2. Membership!Content("sw_nodes") = {"members", "name", "desired_mode", "desired_radio"}
  BY DEF Membership!Content
<1>3. Fields = Membership!Scalars \cup Membership!Content("sw_nodes")
  BY DEF Fields, Membership!Fields
<1>4. QED
  BY <1>1, <1>2, <1>3 DEF Entries

\* The keys a setter has to write, one after the other.
LEMMA KeysLeft ==
  ASSUME NEW keys \in EntryKeys
  PROVE  /\ keys # <<>> /\ Head(keys) \in Entries /\ keys[1] = Head(keys)
         /\ Len(keys) = 1 \/ Tail(keys) \in EntryKeys
<1>1. CASE \E k \in Entries : keys = <<k>>
  BY <1>1
<1>2. CASE keys = <<"sw_hub", "sw_hubcc">>
  <2>1. "sw_hub" \in Entries /\ "sw_hubcc" \in Entries
    BY DEF Entries, Membership!Scalars
  <2>2. Head(keys) = "sw_hub" /\ Tail(keys) = <<"sw_hubcc">> /\ keys[1] = "sw_hub"
    BY <1>2
  <2>3. QED
    BY <1>2, <2>1, <2>2 DEF EntryKeys
<1>3. QED
  BY <1>1, <1>2 DEF EntryKeys

\* Every setter changes fields and writes entries there are.
LEMMA SettersAreCalls == Membership!Setters \subseteq Calls /\ Membership!ResetAll \in Seq(Calls)
<1>1. \A key \in Membership!Scalars : Membership!Scalar(key) \in Calls
  BY ContentOf DEF Membership!Scalar, Membership!Setter, Calls, EntryKeys, Entries
<1>2. \A fields \in SUBSET Membership!Content("sw_nodes") : Membership!OfNode(fields) \in Calls
  BY ContentOf DEF Membership!OfNode, Membership!Setter, Calls, EntryKeys, Entries
<1>3. Membership!ClearHub \in Calls
  BY ContentOf DEF Membership!ClearHub, Membership!Setter, Calls, EntryKeys, Membership!Scalars
<1>4. /\ {Membership!SetRole, Membership!SetHub, Membership!SetHubCountry, Membership!SetRegion,
          Membership!SetPowerMode, Membership!SetFailedWakes, Membership!SetWakeCounter,
          Membership!SetPairFailed, Membership!SetCompletedOta} \subseteq Calls
      /\ Membership!SetChannel = Membership!SetHub
      /\ Membership!ClearCompletedOta = Membership!SetCompletedOta
  BY <1>1 DEF Membership!Scalars, Membership!SetRole, Membership!SetHub, Membership!SetHubCountry,
              Membership!SetRegion, Membership!SetPowerMode, Membership!SetFailedWakes,
              Membership!SetWakeCounter, Membership!SetPairFailed, Membership!SetCompletedOta,
              Membership!SetChannel, Membership!ClearCompletedOta
<1>5. {Membership!AddNode(TRUE), Membership!AddNode(FALSE), Membership!SetNodeName, Membership!ForgetNode,
       Membership!SetNodeDesiredMode, Membership!SetNodeDesiredRadio, Membership!ClearNodes} \subseteq Calls
  BY <1>2, ContentOf
     DEF Membership!AddNode, Membership!SetNodeName, Membership!ForgetNode, Membership!SetNodeDesiredMode,
         Membership!SetNodeDesiredRadio, Membership!ClearNodes
<1>6. Membership!Setters \subseteq Calls
  BY <1>3, <1>4, <1>5 DEF Membership!Setters
<1>7. Membership!ResetAll \in Seq(Calls)
  BY <1>3, <1>4, <1>5 DEF Membership!ResetAll
<1>8. QED
  BY <1>6, <1>7

\* A restart finds in the cache what is on flash: a field that the layout does not
\* have has its default there.
LEMMA LoadedAsIs ==
  ASSUME StoreTypes, LayoutHeld
  PROVE  Membership!Loaded(nvs, layout) = nvs
<1>1. nvs \in [Fields -> Nat] /\ DOMAIN nvs = Fields
  BY DEF StoreTypes
<1>2. \A f \in Membership!Content("sw_nodes") : Membership!LoadNodes(nvs, layout)[f] = nvs[f]
  BY DEF Membership!LoadNodes, LayoutHeld
<1>3. QED
  BY <1>1, <1>2 DEF Membership!Loaded

LEMMA InFormat3 == Membership!Content("sw_nodes") \ Membership!InFormat(3) = {}
  BY ContentOf DEF Membership!InFormat

LEMMA IdleLocals ==
  /\ Membership!Idle \in WriterLocals
  /\ Membership!Idle.keys = <<>> /\ Membership!Idle.todo = <<>>
<1>1. [f \in {} |-> 0] \in Copies
  <2>1. [f \in {} |-> 0] \in [{} -> Nat]
    OBVIOUS
  <2>2. {} \in SUBSET Fields
    OBVIOUS
  <2>3. QED
    BY <2>1, <2>2 DEF Copies
<1>2. <<>> \in Seq(Calls)
  OBVIOUS
<1>3. QED
  BY <1>1, <1>2 DEF Membership!Idle, WriterLocals

LEMMA StoreStarts == Membership!Init => StoreInv
<1> SUFFICES ASSUME Membership!Init PROVE StoreInv
  OBVIOUS
<1>1. /\ layout \in 0 .. 3 /\ acked = nvs /\ holder = {}
      /\ nvs = [f \in Fields |-> IF f \in Membership!Scalars \cup Membership!InFormat(layout) THEN 1 ELSE 0]
      /\ ram = Membership!Loaded(nvs, layout) /\ writer = [w \in Writers |-> Membership!Idle]
      /\ written = [calls |-> 0, sets |-> 1, fails |-> 0, crashes |-> 0]
  BY DEF Membership!Init, Fields
<1>2. nvs \in [Fields -> Nat] /\ \A f \in Fields : nvs[f] <= 1
  BY <1>1
<1>3. \A f \in Membership!Content("sw_nodes") \ Membership!InFormat(layout) : nvs[f] = 0
  BY <1>1, ContentOf DEF Membership!Scalars
<1>4. ram = nvs
  <2>1. \A f \in Membership!Content("sw_nodes") : Membership!LoadNodes(nvs, layout)[f] = nvs[f]
    BY <1>3 DEF Membership!LoadNodes
  <2>2. QED
    BY <1>1, <1>2, <2>1 DEF Membership!Loaded
<1>5. StoreTypes
  BY <1>1, <1>2, <1>4, IdleLocals DEF StoreTypes
<1>6. LayoutHeld
  BY <1>1, <1>2, <1>3, <1>4 DEF LayoutHeld
<1>7. SetHeld /\ CopyHeld
  BY <1>1, IdleLocals DEF SetHeld, CopyHeld
<1>8. Membership!FlashMovesForward
  BY <1>1, <1>2, <1>4 DEF Membership!FlashMovesForward
<1>9. QED
  BY <1>5, <1>6, <1>7, <1>8 DEF StoreInv

LEMMA CrashStep == StoreInv /\ Membership!Crash => StoreInv'
<1> SUFFICES ASSUME StoreInv, Membership!Crash PROVE StoreInv'
  OBVIOUS
<1>1. /\ ram' = nvs /\ nvs' = nvs /\ layout' \in {3, layout} /\ acked' = acked /\ holder' = {}
      /\ writer' = [w \in Writers |-> Membership!Idle]
      /\ written' = [written EXCEPT !.crashes = @ + 1]
  BY LoadedAsIs DEF StoreInv, Membership!Crash
<1>2. StoreTypes'
  <2>1. written' \in [calls : Nat, sets : Nat, fails : Nat, crashes : Nat]
    <3>1. written \in [calls : Nat, sets : Nat, fails : Nat, crashes : Nat] /\ written.crashes + 1 \in Nat
      BY DEF StoreInv, StoreTypes
    <3>2. QED
      BY <1>1, <3>1
  <2>2. writer' \in [Writers -> WriterLocals] /\ layout' \in 0 .. 3
    BY <1>1, IdleLocals DEF StoreInv, StoreTypes
  <2>3. QED
    BY <1>1, <2>1, <2>2 DEF StoreInv, StoreTypes
<1>3. LayoutHeld'
  <2>1. \A f \in Fields : nvs[f] <= ram[f] /\ ram[f] <= written.sets /\ nvs[f] \in Nat /\ ram[f] \in Nat
    BY DEF StoreInv, StoreTypes, LayoutHeld, Membership!FlashMovesForward
  <2>2. written'.sets = written.sets /\ written.sets \in Nat
    BY <1>1 DEF StoreInv, StoreTypes
  <2>3. \A f \in Membership!Content("sw_nodes") \ Membership!InFormat(layout') : nvs[f] = 0
    BY <1>1, InFormat3 DEF StoreInv, LayoutHeld
  <2>4. QED
    BY <1>1, <2>1, <2>2, <2>3 DEF LayoutHeld
<1>4. SetHeld' /\ CopyHeld'
  BY <1>1, IdleLocals DEF SetHeld, CopyHeld
<1>5. Membership!FlashMovesForward'
  BY <1>1 DEF StoreInv, StoreTypes, Membership!FlashMovesForward
<1>6. QED
  BY <1>2, <1>3, <1>4, <1>5 DEF StoreInv

LEMMA CallStep ==
  ASSUME StoreInv, NEW w \in Writers, Membership!Call(w)
  PROVE  StoreInv'
<1>1. PICK asked \in Seq(Calls) :
        /\ writer[w] = Membership!Idle /\ writer' = [writer EXCEPT ![w].todo = asked]
        /\ written' = [written EXCEPT !.calls = @ + 1]
        /\ UNCHANGED <<ram, nvs, layout, holder, acked>>
  <2>1. \A s \in Membership!Setters : <<s>> \in Seq(Calls)
    BY SettersAreCalls
  <2>2. QED
    BY <2>1, SettersAreCalls DEF Membership!Call
<1>2. /\ writer \in [Writers -> WriterLocals] /\ writer' \in [Writers -> WriterLocals]
      /\ writer'[w].keys = <<>> /\ \A v \in Writers : v # w => writer'[v] = writer[v]
  <2>1. writer \in [Writers -> WriterLocals]
    BY DEF StoreInv, StoreTypes
  <2>2. [writer[w] EXCEPT !.todo = asked] \in WriterLocals /\ [writer[w] EXCEPT !.todo = asked].keys = <<>>
    BY <1>1, <2>1, IdleLocals DEF WriterLocals
  <2>3. QED
    BY <1>1, <2>1, <2>2
<1>3. /\ written' \in [calls : Nat, sets : Nat, fails : Nat, crashes : Nat]
      /\ written'.sets = written.sets
  <2>1. written \in [calls : Nat, sets : Nat, fails : Nat, crashes : Nat] /\ written.calls + 1 \in Nat
    BY DEF StoreInv, StoreTypes
  <2>2. QED
    BY <1>1, <2>1
<1>4. StoreTypes'
  BY <1>1, <1>2, <1>3 DEF StoreInv, StoreTypes
<1>5. LayoutHeld' /\ Membership!FlashMovesForward'
  BY <1>1, <1>3 DEF StoreInv, LayoutHeld, Membership!FlashMovesForward
<1>6. SetHeld'
  BY <1>1, <1>2 DEF StoreInv, SetHeld
<1>7. CopyHeld'
  <2>1. w \notin holder
    BY <1>1, IdleLocals DEF StoreInv, CopyHeld
  <2>2. \A v \in holder : writer'[v] = writer[v]
    BY <1>2, <2>1 DEF StoreInv, StoreTypes
  <2>3. QED
    BY <1>1, <2>2 DEF StoreInv, CopyHeld
<1>8. QED
  BY <1>4, <1>5, <1>6, <1>7 DEF StoreInv

LEMMA SetCacheStep ==
  ASSUME StoreInv, NEW w \in Writers, Membership!SetCache(w)
  PROVE  StoreInv'
<1> DEFINE s == Head(writer[w].todo)
           n == written.sets + 1
<1>1. /\ writer \in [Writers -> WriterLocals] /\ written.sets \in Nat
      /\ ram \in [Fields -> Nat] /\ nvs \in [Fields -> Nat] /\ DOMAIN ram = Fields
  BY DEF StoreInv, StoreTypes
<1>2. /\ writer[w].todo \in Seq(Calls) /\ writer[w].todo # <<>> /\ writer[w].keys = <<>>
      /\ ram' = [f \in Fields |-> IF f \in s.fields THEN n ELSE ram[f]]
      /\ writer' = [writer EXCEPT ![w].todo = Tail(@), ![w].keys = s.keys, ![w].main = s.keys[1],
                                  ![w].sets = s.fields, ![w].number = n]
      /\ written' = [written EXCEPT !.sets = n]
      /\ UNCHANGED <<nvs, layout, holder, acked>>
  BY <1>1 DEF Membership!SetCache, WriterLocals
<1>3. s \in Calls /\ Tail(writer[w].todo) \in Seq(Calls)
  BY <1>2
<1>4. s.keys \in EntryKeys /\ s.fields \in SUBSET Fields /\ s.keys[1] \in Entries
  BY <1>3, KeysLeft DEF Calls
<1> HIDE DEF s
<1>5. n \in Nat /\ n > written.sets
  BY <1>1
<1> HIDE DEF n
<1>6. /\ writer' \in [Writers -> WriterLocals] /\ \A v \in Writers : v # w => writer'[v] = writer[v]
      /\ writer'[w].sets = s.fields /\ writer'[w].number = n
  <2> DEFINE locals == [writer[w] EXCEPT !.todo = Tail(@), !.keys = s.keys, !.main = s.keys[1],
                                         !.sets = s.fields, !.number = n]
  <2>1. locals \in WriterLocals /\ locals.sets = s.fields /\ locals.number = n
    BY <1>1, <1>3, <1>4, <1>5 DEF WriterLocals
  <2>2. writer' = [writer EXCEPT ![w] = locals]
    BY <1>1, <1>2
  <2> HIDE DEF locals
  <2>3. QED
    BY <1>1, <2>1, <2>2
<1>7. /\ written' \in [calls : Nat, sets : Nat, fails : Nat, crashes : Nat] /\ written'.sets = n
      /\ ram' \in [Fields -> Nat]
  BY <1>1, <1>2, <1>5 DEF StoreInv, StoreTypes
<1>8. \A f \in Fields : ram[f] <= ram'[f] /\ ram'[f] <= n /\ (f \in s.fields => ram'[f] = n)
  BY <1>1, <1>2, <1>5 DEF StoreInv, LayoutHeld
<1>9. StoreTypes'
  BY <1>2, <1>6, <1>7 DEF StoreInv, StoreTypes
<1>10. LayoutHeld'
  BY <1>2, <1>7, <1>8 DEF StoreInv, LayoutHeld
<1>11. SetHeld'
  <2> SUFFICES ASSUME NEW v \in Writers, writer'[v].keys # <<>>, NEW f \in writer'[v].sets
               PROVE  writer'[v].number <= ram'[f]
    BY DEF SetHeld
  <2>1. f \in Fields /\ writer'[v].number \in Nat
    BY <1>6 DEF WriterLocals
  <2>2. CASE v = w
    BY <1>4, <1>5, <1>6, <1>8, <2>2
  <2>3. CASE v # w
    BY <1>1, <1>6, <1>7, <1>8, <2>1, <2>3 DEF StoreInv, SetHeld
  <2>4. QED
    BY <2>2, <2>3
<1>12. w \notin holder
  BY <1>2 DEF StoreInv, CopyHeld
<1>13. CopyHeld'
  <2>0. holder' = holder /\ nvs' = nvs /\ \A v \in holder : writer'[v] = writer[v]
    BY <1>2, <1>6, <1>12 DEF StoreInv, StoreTypes
  <2> SUFFICES ASSUME NEW v \in holder, NEW f \in Membership!Content(Head(writer[v].keys))
               PROVE  writer[v].copy[f] <= ram'[f]
    BY <2>0 DEF StoreInv, CopyHeld
  <2>1. writer[v].copy[f] <= ram[f] /\ writer[v].copy[f] \in Nat
    BY DEF StoreInv, CopyHeld
  <2>2. Head(writer[v].keys) \in Entries
    BY <1>1, KeysLeft DEF StoreInv, StoreTypes, CopyHeld, WriterLocals
  <2>3. f \in Fields
    BY <2>2, ContentOf
  <2>4. QED
    BY <1>1, <1>7, <1>8, <2>1, <2>3
<1>14. Membership!FlashMovesForward'
  BY <1>1, <1>2, <1>7, <1>8 DEF StoreInv, StoreTypes, Membership!FlashMovesForward
<1>15. QED
  BY <1>9, <1>10, <1>11, <1>13, <1>14 DEF StoreInv

LEMMA CopyCacheStep ==
  ASSUME StoreInv, NEW w \in Writers, Membership!CopyCache(w)
  PROVE  StoreInv'
<1> DEFINE D == Membership!Content(Head(writer[w].keys))
           c == [f \in D |-> ram[f]]
<1>1. /\ writer[w].keys # <<>> /\ holder' = {w} /\ writer' = [writer EXCEPT ![w].copy = c]
      /\ UNCHANGED <<ram, nvs, layout, acked, written>>
  BY DEF Membership!CopyCache, Membership!FlashFree
<1>2. writer \in [Writers -> WriterLocals] /\ ram \in [Fields -> Nat] /\ nvs \in [Fields -> Nat]
  BY DEF StoreInv, StoreTypes
<1>3. D \subseteq Fields
  BY <1>1, <1>2, KeysLeft, ContentOf DEF WriterLocals
<1>4. c \in [D -> Nat] /\ \A f \in D : c[f] = ram[f]
  BY <1>2, <1>3
<1>5. c \in Copies
  BY <1>3, <1>4 DEF Copies
<1> HIDE DEF c
<1>6. /\ writer' \in [Writers -> WriterLocals] /\ \A v \in Writers : v # w => writer'[v] = writer[v]
      /\ writer'[w].keys = writer[w].keys /\ writer'[w].sets = writer[w].sets
      /\ writer'[w].number = writer[w].number /\ writer'[w].copy = c
  BY <1>1, <1>2, <1>5 DEF WriterLocals
<1>7. StoreTypes'
  BY <1>1, <1>6 DEF StoreInv, StoreTypes
<1>8. LayoutHeld' /\ Membership!FlashMovesForward'
  BY <1>1 DEF StoreInv, LayoutHeld, Membership!FlashMovesForward
<1>9. SetHeld'
  BY <1>1, <1>6 DEF StoreInv, SetHeld
<1>10. CopyHeld'
  <2>1. \A f \in D : nvs[f] <= c[f] /\ c[f] <= ram[f]
    BY <1>2, <1>3, <1>4 DEF StoreInv, Membership!FlashMovesForward
  <2>2. \A f \in D : f \in writer[w].sets => writer[w].number <= c[f]
    BY <1>1, <1>4 DEF StoreInv, SetHeld
  <2>3. QED
    BY <1>1, <1>4, <1>6, <2>1, <2>2 DEF CopyHeld
<1>11. QED
  BY <1>7, <1>8, <1>9, <1>10 DEF StoreInv

LEMMA GoesOn ==
  ASSUME NEW l \in WriterLocals, l.keys \in EntryKeys
  PROVE  /\ Membership!AfterWrite(l) \in WriterLocals
         /\ \/ Membership!AfterWrite(l).keys = <<>>
            \/ Membership!AfterWrite(l).sets = l.sets /\ Membership!AfterWrite(l).number = l.number
<1>1. CASE Len(l.keys) = 1
  <2> DEFINE rest == [Membership!Idle EXCEPT !.todo = l.todo]
  <2>1. rest \in WriterLocals /\ rest.keys = <<>>
    BY IdleLocals DEF WriterLocals
  <2> HIDE DEF rest
  <2>2. Membership!AfterWrite(l) = rest
    BY <1>1 DEF Membership!AfterWrite, rest
  <2>3. QED
    BY <2>1, <2>2
<1>2. CASE Len(l.keys) # 1
  <2> DEFINE next == [l EXCEPT !.keys = Tail(l.keys), !.copy = Membership!Idle.copy]
  <2>1. Membership!Idle.copy \in Copies
    BY IdleLocals DEF WriterLocals
  <2>2. Tail(l.keys) \in EntryKeys
    BY <1>2, KeysLeft
  <2>3. next \in WriterLocals /\ next.sets = l.sets /\ next.number = l.number
    BY <2>1, <2>2 DEF WriterLocals
  <2> HIDE DEF next
  <2>4. Membership!AfterWrite(l) = next
    BY <1>2 DEF Membership!AfterWrite, next
  <2>5. QED
    BY <2>3, <2>4
<1>3. QED
  BY <1>1, <1>2

\* What is left of a writer's call after a write, whether it succeeded or not.
LEMMA WriteDone ==
  ASSUME StoreInv, NEW w \in Writers, Membership!Write(w)
  PROVE  /\ writer' \in [Writers -> WriterLocals] /\ holder' = {} /\ ram' = ram
         /\ \A v \in Writers : v # w => writer'[v] = writer[v]
         /\ \/ writer'[w].keys = <<>>
            \/ writer'[w].sets = writer[w].sets /\ writer'[w].number = writer[w].number
<1>1. writer \in [Writers -> WriterLocals] /\ w \in holder
  BY DEF StoreInv, StoreTypes, Membership!Write
<1>2. holder' = {} /\ ram' = ram
  BY DEF StoreInv, CopyHeld, Membership!Write
<1>3. writer[w] \in WriterLocals /\ writer[w].keys \in EntryKeys
  BY <1>1 DEF StoreInv, CopyHeld, WriterLocals
<1>4. writer' = [writer EXCEPT ![w] = Membership!AfterWrite(writer[w])]
  BY Zenon DEF Membership!Write
<1>5. QED
  BY <1>1, <1>2, <1>3, <1>4, GoesOn

LEMMA WriteStep ==
  ASSUME StoreInv, NEW w \in Writers, Membership!Write(w)
  PROVE  StoreInv'
<1> DEFINE key == Head(writer[w].keys)
           c == writer[w].copy
           D == Membership!Content(key)
<1>1. /\ ram \in [Fields -> Nat] /\ nvs \in [Fields -> Nat] /\ acked \in [Fields -> Nat]
      /\ writer \in [Writers -> WriterLocals] /\ layout \in 0 .. 3 /\ holder \subseteq Writers
      /\ written \in [calls : Nat, sets : Nat, fails : Nat, crashes : Nat]
  BY DEF StoreInv, StoreTypes
<1>2. w \in holder /\ writer[w].keys \in EntryKeys /\ key \in Entries /\ D \subseteq Fields
  BY <1>1, KeysLeft, ContentOf DEF StoreInv, CopyHeld, WriterLocals, Membership!Write
<1>3. /\ c \in [D -> Nat]
      /\ \A f \in D : nvs[f] <= c[f] /\ c[f] <= ram[f]
      /\ \A f \in D : f \in writer[w].sets => writer[w].number <= c[f]
  BY <1>2 DEF StoreInv, CopyHeld
<1>4. SetHeld'
  <2> SUFFICES ASSUME NEW v \in Writers, writer'[v].keys # <<>> PROVE \A f \in writer'[v].sets : writer'[v].number <= ram[f]
    BY WriteDone DEF SetHeld
  <2>1. CASE v = w
    <3>1. writer'[w].sets = writer[w].sets /\ writer'[w].number = writer[w].number /\ writer[w].keys # <<>>
      BY <1>2, <2>1, KeysLeft, WriteDone
    <3>2. QED
      BY <2>1, <3>1 DEF StoreInv, SetHeld
  <2>2. CASE v # w
    BY <2>2, WriteDone DEF StoreInv, SetHeld
  <2>3. QED
    BY <2>1, <2>2
<1>5. CopyHeld'
  BY WriteDone DEF CopyHeld
<1>6. CASE /\ UNCHANGED <<nvs, layout, acked>>
           /\ written' = [written EXCEPT !.fails = @ + 1]
  <2>1. /\ written' \in [calls : Nat, sets : Nat, fails : Nat, crashes : Nat]
        /\ written'.sets = written.sets
    <3>1. written.fails + 1 \in Nat
      BY <1>1
    <3>2. QED
      BY <1>1, <1>6, <3>1
  <2>2. StoreTypes'
    BY <1>1, <1>6, <2>1, WriteDone DEF StoreTypes
  <2>3. LayoutHeld' /\ Membership!FlashMovesForward'
    BY <1>6, <2>1, WriteDone DEF StoreInv, LayoutHeld, Membership!FlashMovesForward
  <2>4. QED
    BY <1>4, <1>5, <2>2, <2>3 DEF StoreInv
<1>7. CASE /\ nvs' = [f \in Fields |-> IF f \in D THEN c[f] ELSE nvs[f]]
           /\ layout' = IF key = "sw_nodes" THEN 3 ELSE layout
           /\ acked' = acked \/ (key = writer[w].main /\ acked' = Membership!Returned(w))
           /\ written' = written
  <2>1. /\ nvs' \in [Fields -> Nat] /\ \A f \in D : nvs'[f] = c[f]
        /\ \A f \in Fields \ D : nvs'[f] = nvs[f]
    BY <1>1, <1>2, <1>3, <1>7
  <2> HIDE DEF c
  <2>2. writer[w].number \in Nat
    BY <1>1 DEF WriterLocals
  <2>3. /\ acked' \in [Fields -> Nat]
        /\ \A f \in Fields : \/ acked'[f] = acked[f]
                             \/ f \in D /\ f \in writer[w].sets /\ acked'[f] = writer[w].number
    BY <1>1, <1>7, <2>2 DEF Membership!Returned
  <2>4. StoreTypes'
    BY <1>1, <1>7, <2>1, <2>3, WriteDone DEF StoreTypes
  <2>5. LayoutHeld'
    <3>1. CASE key = "sw_nodes"
      BY <1>7, <3>1, InFormat3, WriteDone DEF StoreInv, LayoutHeld
    <3>2. CASE key # "sw_nodes"
      <4>1. key \in Membership!Scalars
        BY <1>2, <3>2 DEF Entries
      <4>2. D = {key} /\ key \notin Membership!Content("sw_nodes")
        BY <4>1, ContentOf DEF Membership!Scalars
      <4>3. \A f \in Membership!Content("sw_nodes") : nvs'[f] = nvs[f]
        BY <2>1, <4>2, ContentOf
      <4>4. QED
        BY <1>7, <3>2, <4>3, WriteDone DEF StoreInv, LayoutHeld
    <3>3. QED
      BY <3>1, <3>2
  <2>6. Membership!FlashMovesForward'
    <3> SUFFICES ASSUME NEW f \in Fields PROVE acked'[f] <= nvs'[f] /\ nvs'[f] <= ram'[f]
      BY <2>1 DEF Membership!FlashMovesForward
    <3>1. acked[f] <= nvs[f] /\ nvs[f] <= ram[f] /\ {acked[f], nvs[f], ram[f]} \subseteq Nat /\ ram' = ram
      BY <1>1, WriteDone DEF StoreInv, Membership!FlashMovesForward
    <3>2. CASE f \in D
      <4>1. c[f] \in Nat /\ nvs[f] <= c[f] /\ c[f] <= ram[f] /\ nvs'[f] = c[f]
        BY <1>3, <2>1, <3>2
      <4>2. acked'[f] = acked[f] \/ acked'[f] <= c[f]
        BY <1>3, <2>3, <3>2
      <4>3. QED
        BY <3>1, <4>1, <4>2
    <3>3. CASE f \notin D
      BY <2>1, <2>3, <3>1, <3>3
    <3>4. QED
      BY <3>2, <3>3
  <2>7. QED
    BY <1>4, <1>5, <2>4, <2>5, <2>6 DEF StoreInv
<1>8. QED
  BY <1>1, <1>6, <1>7 DEF Membership!Write

LEMMA StoreStep == StoreInv /\ [Membership!Next]_storeVars => StoreInv'
<1> SUFFICES ASSUME StoreInv, [Membership!Next]_storeVars PROVE StoreInv'
  OBVIOUS
<1>1. CASE UNCHANGED storeVars
  <2>1. StoreTypes'
    BY <1>1 DEF StoreInv, StoreTypes, storeVars
  <2>2. LayoutHeld' /\ SetHeld' /\ CopyHeld' /\ Membership!FlashMovesForward'
    BY <1>1 DEF StoreInv, LayoutHeld, SetHeld, CopyHeld, Membership!FlashMovesForward, storeVars
  <2>3. QED
    BY <2>1, <2>2 DEF StoreInv
<1>2. QED
  BY <1>1, CrashStep, CallStep, SetCacheStep, CopyCacheStep, WriteStep DEF Membership!Next

-----------------------------------------------------------------------------
(* ZbDevices: whose an address is, and what is known under it *)

Shorts == Addresses \cup {0}
Names == STRING \cup {"sensor", "answer", "button"}   \* the provers do not know these are strings
Capabilities == Devices \X Names
Records == [short : Shorts, interviewed : BOOLEAN, caps : SUBSET Capabilities]
Tables == UNION {[D -> Records] : D \in SUBSET Devices}
Joins == [dev : Devices, short : Addresses]
Kinds == {"active_ep", "simple_desc", "retry"}
Requests == [gen : Nat, kind : Kinds, from : SUBSET Devices]
Anyone == CHOOSE d \in Devices : TRUE
Interviews ==
  [active : BOOLEAN, dev : Devices \cup {Anyone}, short : Shorts, gen : Nat, left : Seq(Nat),
   caps : SUBSET Capabilities, retries : Nat]
Coordinators ==
  [holds : [Devices -> Shorts], store : Tables, queue : Seq(Joins), iv : Interviews,
   air : SUBSET Requests]

\* Nobody but d can hold this address.
OnlyHolder(h, d, short) == \A e \in Devices : h.holds[e] = short => e = d

\* A record has an address that nobody else holds, and capabilities of its own device.
RecordsOwn(h) ==
  \A e \in DOMAIN h.store :
    /\ h.store[e].short # 0 => OnlyHolder(h, e, h.store[e].short)
    /\ \A c \in h.store[e].caps : c[1] = e

\* So has a join that waits, and the one that runs, and what it has asked so far.
JoinsOwn(h) == h.queue \in Seq({j \in Joins : OnlyHolder(h, j.dev, j.short)})

InterviewOwn(h) ==
  h.iv.active =>
    /\ h.iv.dev \in Devices /\ h.iv.short \in Addresses /\ OnlyHolder(h, h.iv.dev, h.iv.short)
    /\ \A c \in h.iv.caps : c[1] = h.iv.dev

AnswersOwn(h) ==
  \A r \in h.air :
    /\ r.gen <= h.iv.gen
    /\ h.iv.active /\ r.gen = h.iv.gen => r.from \subseteq {h.iv.dev}

EachItsOwn(h) ==
  h \in Coordinators /\ RecordsOwn(h) /\ JoinsOwn(h) /\ InterviewOwn(h) /\ AnswersOwn(h)

DeviceInv == raced \/ (astray = {} /\ EachItsOwn(Joined!Hub))

LEMMA DevicesStart == Joined!Init => DeviceInv
<1> SUFFICES ASSUME Joined!Init PROVE DeviceInv
  OBVIOUS
<1>1. /\ holds = [d \in Devices |-> 0] /\ DOMAIN store = {} /\ queue = <<>> /\ air = {} /\ astray = {}
      /\ store = [d \in {} |-> Joined!Record(0, FALSE, {})]
      /\ iv = [active |-> FALSE, dev |-> Anyone, short |-> 0, gen |-> 0, left |-> <<>>, caps |-> {},
               retries |-> 0]
  BY DEF Joined!Init, Joined!Off, Joined!NoInterview, Joined!Interview, Anyone
<1>2. holds \in [Devices -> Shorts] /\ queue \in Seq(Joins) /\ iv \in Interviews
  <2>1. <<>> \in Seq(Joins) /\ <<>> \in Seq(Nat)
    OBVIOUS
  <2>2. iv \in Interviews
    BY <1>1, <2>1 DEF Interviews, Shorts
  <2>3. QED
    BY <1>1, <2>1, <2>2 DEF Shorts
<1>3. store \in Tables
  <2>1. store \in [{} -> Records] /\ {} \in SUBSET Devices
    BY <1>1
  <2>2. QED
    BY <2>1 DEF Tables
<1>4. Joined!Hub \in Coordinators
  BY <1>1, <1>2, <1>3 DEF Joined!Hub, Coordinators
<1>5. RecordsOwn(Joined!Hub) /\ InterviewOwn(Joined!Hub) /\ AnswersOwn(Joined!Hub)
  BY <1>1 DEF Joined!Hub, RecordsOwn, InterviewOwn, AnswersOwn
<1>6. JoinsOwn(Joined!Hub)
  BY <1>1 DEF Joined!Hub, JoinsOwn
<1>7. QED
  BY <1>1, <1>4, <1>5, <1>6 DEF DeviceInv, EachItsOwn

\* A handler that leaves everybody with their own does so in the next state.
LEMMA HandlerEnds ==
  ASSUME NEW h, EachItsOwn(h), Joined!Becomes(h)
  PROVE  EachItsOwn(Joined!Hub)'
<1>1. Joined!Hub' = h
  <2>1. h \in Coordinators
    BY DEF EachItsOwn
  <2>2. h = [holds |-> h.holds, store |-> h.store, queue |-> h.queue, iv |-> h.iv, air |-> h.air]
    BY <2>1 DEF Coordinators
  <2>3. QED
    BY <2>2 DEF Joined!Becomes, Joined!Hub
<1>2. QED
  BY <1>1

\* What is asked is asked of whoever holds the address, which is the interviewed device.
LEMMA Asked ==
  ASSUME NEW h, EachItsOwn(h), h.iv.active, NEW kind \in Kinds
  PROVE  EachItsOwn(Joined!Ask(h, kind))
<1> DEFINE r == [gen |-> h.iv.gen, kind |-> kind, from |-> Joined!Holder(h, h.iv.short)]
           g == Joined!Ask(h, kind)
<1>1. h \in Coordinators /\ h.iv \in Interviews /\ h.iv.gen \in Nat
  BY DEF EachItsOwn, Coordinators, Interviews
<1>2. Joined!Holder(h, h.iv.short) \subseteq {h.iv.dev}
  BY DEF EachItsOwn, InterviewOwn, OnlyHolder, Joined!Holder
<1>3. r \in Requests
  BY <1>1 DEF Requests, Joined!Holder
<1>4. g = [h EXCEPT !.air = @ \cup {r}]
  BY DEF Joined!Ask
<1> HIDE DEF g
<1>5. /\ g \in Coordinators /\ g.holds = h.holds /\ g.store = h.store /\ g.queue = h.queue /\ g.iv = h.iv
      /\ g.air = h.air \cup {r}
  BY <1>1, <1>3, <1>4 DEF Coordinators
<1>6. RecordsOwn(g) /\ JoinsOwn(g) /\ InterviewOwn(g)
  BY <1>5 DEF EachItsOwn, RecordsOwn, JoinsOwn, InterviewOwn, OnlyHolder
<1>7. AnswersOwn(g)
  BY <1>1, <1>2, <1>5 DEF EachItsOwn, AnswersOwn
<1>8. QED
  BY <1>5, <1>6, <1>7 DEF EachItsOwn, g

LEMMA NextJoin ==
  ASSUME NEW h, EachItsOwn(h)
  PROVE  EachItsOwn(Joined!StartNext(h))
<1>1. CASE h.iv.active \/ h.queue = <<>>
  BY <1>1 DEF Joined!StartNext
<1>2. CASE ~(h.iv.active \/ h.queue = <<>>)
  <2> DEFINE j == Head(h.queue)
             i == Joined!Interview(TRUE, j.dev, j.short, h.iv.gen + 1)
             g == [h EXCEPT !.queue = Tail(h.queue), !.iv = i]
  <2>1. h \in Coordinators /\ h.iv \in Interviews /\ h.iv.gen \in Nat
    BY DEF EachItsOwn, Coordinators, Interviews
  <2>2. /\ h.queue \in Seq({q \in Joins : OnlyHolder(h, q.dev, q.short)})
        /\ j \in Joins /\ OnlyHolder(h, j.dev, j.short)
        /\ Tail(h.queue) \in Seq({q \in Joins : OnlyHolder(h, q.dev, q.short)})
        /\ Tail(h.queue) \in Seq(Joins)
    <3>1. h.queue \in Seq({q \in Joins : OnlyHolder(h, q.dev, q.short)}) /\ h.queue \in Seq(Joins)
      BY <2>1 DEF EachItsOwn, JoinsOwn, Coordinators
    <3>2. j \in {q \in Joins : OnlyHolder(h, q.dev, q.short)}
      BY <1>2, <3>1
    <3>3. QED
      BY <1>2, <3>1, <3>2
  <2>3. j.dev \in Devices /\ j.short \in Addresses
    BY <2>2 DEF Joins
  <2> HIDE DEF j
  <2>4. i \in Interviews /\ i.active
    <3>1. <<>> \in Seq(Nat) /\ h.iv.gen + 1 \in Nat
      BY <2>1
    <3>2. QED
      BY <2>3, <3>1 DEF Interviews, Shorts, Joined!Interview
  <2>5. i.dev = j.dev /\ i.short = j.short /\ i.gen = h.iv.gen + 1 /\ i.caps = {}
    BY DEF Joined!Interview
  <2>6. Joined!StartNext(h) = Joined!Ask(g, "active_ep")
    BY <1>2, Zenon DEF Joined!StartNext, j
  <2> HIDE DEF i
  <2>7. /\ g \in Coordinators /\ g.holds = h.holds /\ g.store = h.store /\ g.queue = Tail(h.queue)
        /\ g.iv = i /\ g.air = h.air
    BY <2>1, <2>2, <2>4 DEF Coordinators
  <2> HIDE DEF g
  <2>8. RecordsOwn(g)
    BY <2>7 DEF EachItsOwn, RecordsOwn, OnlyHolder
  <2>9. \A d, s : OnlyHolder(g, d, s) <=> OnlyHolder(h, d, s)
    BY <2>7 DEF OnlyHolder
  <2>10. JoinsOwn(g)
    <3>1. {q \in Joins : OnlyHolder(h, q.dev, q.short)} = {q \in Joins : OnlyHolder(g, q.dev, q.short)}
      BY <2>9
    <3>2. QED
      BY <2>2, <2>7, <3>1 DEF JoinsOwn
  <2>11. InterviewOwn(g)
    BY <2>2, <2>3, <2>5, <2>7, <2>9 DEF InterviewOwn
  <2>12. AnswersOwn(g)
    <3>1. \A r \in h.air : r \in Requests /\ r.gen \in Nat /\ r.gen <= h.iv.gen
      BY <2>1 DEF EachItsOwn, AnswersOwn, Coordinators, Requests
    <3>2. QED
      BY <2>1, <2>5, <2>7, <3>1 DEF AnswersOwn
  <2>13. EachItsOwn(g)
    BY <2>7, <2>8, <2>10, <2>11, <2>12 DEF EachItsOwn
  <2>14. QED
    BY <2>4, <2>6, <2>7, <2>13, Asked DEF Kinds
<1>3. QED
  BY <1>1, <1>2

\* The interview of the same device goes on.
LEMMA SameInterview ==
  ASSUME NEW h, EachItsOwn(h), h.iv.active, NEW i \in Interviews,
         i.active => i.dev = h.iv.dev /\ i.short \in Addresses /\ OnlyHolder(h, i.dev, i.short)
                     /\ (\A c \in i.caps : c[1] = i.dev),
         i.gen = h.iv.gen
  PROVE  LET g == [h EXCEPT !.iv = i] IN
         /\ EachItsOwn(g) /\ g.iv = i /\ g.air = h.air /\ g.holds = h.holds /\ g.queue = h.queue
         /\ g.store = h.store
<1> DEFINE g == [h EXCEPT !.iv = i]
<1>1. h \in Coordinators /\ h.iv \in Interviews
  BY DEF EachItsOwn, Coordinators
<1>2. /\ g \in Coordinators /\ g.holds = h.holds /\ g.store = h.store /\ g.queue = h.queue
      /\ g.iv = i /\ g.air = h.air
  BY <1>1 DEF Coordinators
<1> HIDE DEF g
<1>3. RecordsOwn(g) /\ JoinsOwn(g)
  BY <1>2 DEF EachItsOwn, RecordsOwn, JoinsOwn, OnlyHolder
<1>4. InterviewOwn(g) /\ AnswersOwn(g)
  BY <1>2 DEF EachItsOwn, InterviewOwn, AnswersOwn, OnlyHolder
<1>5. QED
  BY <1>2, <1>3, <1>4 DEF EachItsOwn, g

\* A record of the table is made or replaced.
LEMMA RecordKept ==
  ASSUME NEW h, EachItsOwn(h), NEW d \in Devices, NEW rec \in Records,
         rec.short # 0 => OnlyHolder(h, d, rec.short), \A c \in rec.caps : c[1] = d,
         NEW t, t = [e \in DOMAIN h.store \cup {d} |-> IF e = d THEN rec ELSE h.store[e]]
  PROVE  LET g == [h EXCEPT !.store = t] IN
         EachItsOwn(g) /\ g.iv = h.iv /\ g.air = h.air /\ g.holds = h.holds /\ g.queue = h.queue
<1> DEFINE g == [h EXCEPT !.store = t]
<1>1. h \in Coordinators
  BY DEF EachItsOwn
<1>2. DOMAIN h.store \subseteq Devices /\ h.store \in [DOMAIN h.store -> Records]
  BY <1>1 DEF Coordinators, Tables
<1>3. DOMAIN t \in SUBSET Devices /\ t \in [DOMAIN t -> Records]
  BY <1>2
<1>4. t \in Tables
  BY <1>3 DEF Tables
<1>5. /\ g \in Coordinators /\ g.holds = h.holds /\ g.store = t /\ g.queue = h.queue
      /\ g.iv = h.iv /\ g.air = h.air
  BY <1>1, <1>4 DEF Coordinators
<1> HIDE DEF g
<1>6. RecordsOwn(g)
  <2>1. \A e \in DOMAIN t : IF e = d THEN t[e] = rec ELSE e \in DOMAIN h.store /\ t[e] = h.store[e]
    OBVIOUS
  <2>2. \A e, s : OnlyHolder(g, e, s) <=> OnlyHolder(h, e, s)
    BY <1>5 DEF OnlyHolder
  <2>3. QED
    BY <1>5, <2>1, <2>2 DEF EachItsOwn, RecordsOwn
<1>7. JoinsOwn(g) /\ InterviewOwn(g) /\ AnswersOwn(g)
  BY <1>5 DEF EachItsOwn, JoinsOwn, InterviewOwn, AnswersOwn, OnlyHolder
<1>8. QED
  BY <1>5, <1>6, <1>7 DEF EachItsOwn, g

LEMMA FinalizedWithin == ASSUME NEW caps PROVE Joined!Finalized(caps) \subseteq caps
  BY DEF Joined!Finalized

\* An interview ends and leaves what it learnt, or not, under its own device.
LEMMA Kept ==
  ASSUME NEW h, EachItsOwn(h), h.iv.active, NEW done \in BOOLEAN
  PROVE  EachItsOwn(Joined!Keep(h, done))
<1> DEFINE d == h.iv.dev
           rec == Joined!Learnt(h, done)
           t == Joined!Stored(h, done)
           g == [h EXCEPT !.store = t]
           over == [h.iv EXCEPT !.active = FALSE]
<1>1. /\ h \in Coordinators /\ h.iv \in Interviews /\ d \in Devices /\ h.iv.short \in Addresses
      /\ OnlyHolder(h, d, h.iv.short) /\ h.iv.caps \subseteq Capabilities /\ \A c \in h.iv.caps : c[1] = d
  BY DEF EachItsOwn, Coordinators, InterviewOwn, Interviews
<1>2. rec \in Records /\ rec.short = h.iv.short /\ \A c \in rec.caps : c[1] = d
  <2> DEFINE new == Joined!Record(h.iv.short, done, Joined!Finalized(h.iv.caps))
  <2>1. new \in Records /\ new.short = h.iv.short /\ new.caps \subseteq h.iv.caps
    BY <1>1, FinalizedWithin DEF Joined!Record, Records, Shorts
  <2> HIDE DEF new
  <2>2. CASE rec = new
    BY <1>1, <2>1, <2>2
  <2>3. CASE d \in DOMAIN h.store /\ rec = [h.store[d] EXCEPT !.short = h.iv.short]
    <3>1. h.store[d] \in Records /\ \A c \in h.store[d].caps : c[1] = d
      BY <1>1, <2>3 DEF EachItsOwn, RecordsOwn, Coordinators, Tables
    <3> HIDE DEF rec
    <3>2. QED
      BY <1>1, <2>3, <3>1 DEF Records, Shorts
  <2>4. QED
    BY <2>2, <2>3 DEF Joined!Learnt, new
<1> HIDE DEF rec
<1>3. EachItsOwn(g) /\ g.iv = h.iv
  <2>1. CASE t = [e \in DOMAIN h.store \cup {d} |-> IF e = d THEN rec ELSE h.store[e]]
    <3> HIDE DEF t
    <3>1. QED
      BY <1>1, <1>2, <2>1, RecordKept
  <2>2. CASE t = h.store
    <3> HIDE DEF t
    <3>1. g = h
      BY <1>1, <2>2 DEF Coordinators
    <3>2. QED
      BY <3>1
  <2>3. QED
    BY <2>1, <2>2 DEF Joined!Stored, rec
<1>4. over \in Interviews /\ ~over.active /\ over.gen = h.iv.gen
  BY <1>1 DEF Interviews
<1>5. Joined!Keep(h, done) = Joined!StartNext([g EXCEPT !.iv.active = FALSE])
  <2> HIDE DEF t
  <2>1. [g EXCEPT !.iv.active = FALSE] = [h EXCEPT !.store = t, !.iv.active = FALSE]
    BY <1>1 DEF Coordinators
  <2>2. QED
    BY <2>1, Zenon DEF Joined!Keep, t
<1> HIDE DEF over, g
<1>6. [g EXCEPT !.iv.active = FALSE] = [g EXCEPT !.iv = over]
  BY <1>3 DEF over
<1>7. EachItsOwn([g EXCEPT !.iv = over])
  BY <1>3, <1>4, SameInterview
<1>8. QED
  BY <1>5, <1>6, <1>7, NextJoin

\* An interview goes on with what is left, or is over.
LEMMA Proceeds ==
  ASSUME NEW h, EachItsOwn(h), h.iv.active
  PROVE  EachItsOwn(Joined!Proceed(h))
BY Kept, Asked DEF Joined!Proceed, Kinds

LEMMA EndpointsFound ==
  ASSUME NEW h, EachItsOwn(h), h.iv.active, NEW answer, answer \subseteq {h.iv.dev}
  PROVE  EachItsOwn(Joined!ActiveEndpoints(h, answer))
<1>1. CASE answer = {}
  BY <1>1 DEF Joined!ActiveEndpoints
<1>2. CASE answer # {}
  <2> DEFINE left == [e \in DOMAIN Endpoints[h.iv.dev] |-> e]
             i == [h.iv EXCEPT !.left = left]
  <2>1. h \in Coordinators /\ h.iv \in Interviews /\ h.iv.dev \in Devices
    BY DEF EachItsOwn, Coordinators, InterviewOwn
  <2>2. left \in Seq(Nat)
    <3>1. Endpoints[h.iv.dev] \in Seq(SUBSET STRING)
      BY <2>1, HubPartsAssumption DEF Joined!ZbDevicesAssumption
    <3>2. PICK n \in Nat : DOMAIN Endpoints[h.iv.dev] = 1 .. n
      BY <3>1
    <3>3. left \in [1 .. n -> Nat]
      BY <3>2
    <3> HIDE DEF left
    <3>4. QED
      BY <3>3
  <2> HIDE DEF left
  <2>3. i \in Interviews /\ i.active /\ i.dev = h.iv.dev /\ i.short = h.iv.short /\ i.gen = h.iv.gen /\ i.caps = h.iv.caps
    BY <2>1, <2>2 DEF Interviews
  <2>4. [h EXCEPT !.iv.left = left] = [h EXCEPT !.iv = i]
    BY <2>1 DEF Coordinators
  <2> HIDE DEF i
  <2>5. EachItsOwn([h EXCEPT !.iv = i]) /\ [h EXCEPT !.iv = i].iv = i
    BY <2>3, SameInterview DEF EachItsOwn, InterviewOwn
  <2> DEFINE k == [h EXCEPT !.iv.left = left]
  <2>6. EachItsOwn(k) /\ k.iv.active
    BY <2>3, <2>4, <2>5
  <2>7. (CHOOSE d \in answer : TRUE) = h.iv.dev
    BY <1>2
  <2>8. Joined!ActiveEndpoints(h, answer) = Joined!Proceed(k)
    BY <1>2, <2>7, Zenon DEF Joined!ActiveEndpoints, left
  <2> HIDE DEF k
  <2>9. EachItsOwn(Joined!Proceed(k))
    BY ONLY <2>6, Proceeds
  <2>10. QED
    BY <2>8, <2>9, Zenon
<1>3. QED
  BY <1>1, <1>2

\* What an endpoint says is the interviewed device's own; one that does not answer is
\* asked again, and the repetition waits without a device.
LEMMA EndpointDescribed ==
  ASSUME NEW h, EachItsOwn(h), h.iv.active, h.iv.left # <<>>, NEW answer, answer \subseteq {h.iv.dev}
  PROVE  EachItsOwn(Joined!SimpleDescriptor(h, answer))
<1> DEFINE e == Head(h.iv.left)
           found == UNION {IF e \in DOMAIN Endpoints[d] THEN {<<d, c>> : c \in Endpoints[d][e]} ELSE {} :
                           d \in answer}
<1>1. h \in Coordinators /\ h.iv \in Interviews /\ h.iv.dev \in Devices /\ h.iv.left \in Seq(Nat)
      /\ h.iv.retries \in Nat /\ h.iv.gen \in Nat /\ h.iv.caps \subseteq Capabilities
  BY DEF EachItsOwn, Coordinators, InterviewOwn, Interviews
<1>2. CASE answer = {} /\ h.iv.retries < MaxRetries
  <2> DEFINE r == [gen |-> h.iv.gen, kind |-> "retry", from |-> {}]
             i == [h.iv EXCEPT !.retries = h.iv.retries + 1]
             g == [h EXCEPT !.iv = i]
             k == [g EXCEPT !.air = g.air \cup {r}]
  <2>1. i \in Interviews /\ i.active /\ i.dev = h.iv.dev /\ i.short = h.iv.short /\ i.gen = h.iv.gen
        /\ i.caps = h.iv.caps
    <3>1. h.iv.retries + 1 \in Nat
      BY <1>1
    <3>2. QED
      BY <1>1, <3>1 DEF Interviews
  <2>2. r \in Requests
    BY <1>1 DEF Requests, Kinds
  <2>3. [h EXCEPT !.iv.retries = h.iv.retries + 1, !.air = h.air \cup {r}] = k
    BY <1>1 DEF Coordinators
  <2>4. Joined!SimpleDescriptor(h, answer)
          = [h EXCEPT !.iv.retries = h.iv.retries + 1, !.air = h.air \cup {r}]
    BY <1>2, Zenon DEF Joined!SimpleDescriptor
  <2> HIDE DEF i
  <2>5. EachItsOwn(g) /\ g.iv = i
    BY <2>1, SameInterview DEF EachItsOwn, InterviewOwn
  <2> HIDE DEF g
  <2>6. /\ k \in Coordinators /\ k.holds = g.holds /\ k.store = g.store /\ k.queue = g.queue
        /\ k.iv = g.iv /\ k.air = g.air \cup {r}
    BY <2>2, <2>5 DEF EachItsOwn, Coordinators
  <2>7. r.gen = g.iv.gen /\ r.from = {} /\ g.iv.gen \in Nat
    BY <1>1, <2>1, <2>5
  <2> HIDE DEF k, r
  <2>8. RecordsOwn(k) /\ JoinsOwn(k) /\ InterviewOwn(k)
    BY <2>5, <2>6 DEF EachItsOwn, RecordsOwn, JoinsOwn, InterviewOwn, OnlyHolder
  <2>9. AnswersOwn(k)
    BY <2>5, <2>6, <2>7 DEF EachItsOwn, AnswersOwn
  <2>10. QED
    BY <2>3, <2>4, <2>6, <2>8, <2>9 DEF EachItsOwn
<1>3. CASE ~(answer = {} /\ h.iv.retries < MaxRetries)
  <2> DEFINE i == [h.iv EXCEPT !.left = Tail(h.iv.left), !.caps = h.iv.caps \cup found, !.retries = 0]
  <2>1. found \subseteq Capabilities /\ \A c \in found : c[1] = h.iv.dev
    <3>1. \A x \in found : \E c \in STRING : x = <<h.iv.dev, c>>
      <4> TAKE x \in found
      <4>1. PICK d \in answer : x \in IF e \in DOMAIN Endpoints[d] THEN {<<d, c>> : c \in Endpoints[d][e]} ELSE {}
        BY Zenon
      <4>2. d = h.iv.dev /\ e \in DOMAIN Endpoints[d] /\ \E c \in Endpoints[d][e] : x = <<d, c>>
        BY <4>1
      <4>3. Endpoints[d] \in Seq(SUBSET STRING)
        BY <1>1, <4>2, HubPartsAssumption DEF Joined!ZbDevicesAssumption
      <4>4. Endpoints[d][e] \subseteq STRING
        BY <4>2, <4>3
      <4>5. QED
        BY <4>2, <4>4
    <3> HIDE DEF found
    <3>2. QED
      BY <1>1, <3>1 DEF Capabilities, Names
  <2> HIDE DEF found
  <2>2. i \in Interviews /\ i.active /\ i.dev = h.iv.dev /\ i.short = h.iv.short /\ i.gen = h.iv.gen
        /\ i.caps = h.iv.caps \cup found
    <3>1. Tail(h.iv.left) \in Seq(Nat) /\ h.iv.caps \cup found \subseteq Capabilities
      BY <1>1, <2>1
    <3>2. QED
      BY <1>1, <3>1 DEF Interviews
  <2>3. [h EXCEPT !.iv.left = Tail(h.iv.left), !.iv.caps = h.iv.caps \cup found, !.iv.retries = 0]
          = [h EXCEPT !.iv = i]
    BY <1>1 DEF Coordinators
  <2>4. Joined!SimpleDescriptor(h, answer) = Joined!Proceed(
          [h EXCEPT !.iv.left = Tail(h.iv.left), !.iv.caps = h.iv.caps \cup found, !.iv.retries = 0])
    BY <1>3, Zenon DEF Joined!SimpleDescriptor, found
  <2> HIDE DEF i
  <2>5. EachItsOwn([h EXCEPT !.iv = i]) /\ [h EXCEPT !.iv = i].iv = i
    BY <2>1, <2>2, SameInterview DEF EachItsOwn, InterviewOwn
  <2>6. QED
    <3> DEFINE g == [h EXCEPT !.iv = i]
    <3>1. EachItsOwn(g) /\ g.iv.active
      BY <2>2, <2>5
    <3>2. Joined!SimpleDescriptor(h, answer) = Joined!Proceed(g)
      BY <2>3, <2>4, Zenon
    <3> HIDE DEF g
    <3>3. QED
      BY <3>1, <3>2, Proceeds
<1>4. QED
  BY <1>2, <1>3

\* The stack's answer reaches the interview that asked, and only that.
LEMMA CallbackStep == ASSUME EachItsOwn(Joined!Hub), Joined!Callback PROVE EachItsOwn(Joined!Hub)'
<1> DEFINE kept(r) == [Joined!Hub EXCEPT !.air = @ \ {r}]
<1>0. PICK r \in air : \E answer \in {r.from, {}} :
        Joined!Becomes(IF ~Joined!Current(r) \/ (r.kind # "active_ep" /\ iv.left = <<>>) THEN kept(r)
             ELSE CASE r.kind = "active_ep" -> Joined!ActiveEndpoints(kept(r), answer)
                    [] r.kind = "simple_desc" -> Joined!SimpleDescriptor(kept(r), answer)
                    [] r.kind = "retry" -> Joined!Ask(kept(r), "simple_desc"))
  BY Zenon DEF Joined!Callback
<1>1. PICK answer \in {r.from, {}} :
        Joined!Becomes(IF ~Joined!Current(r) \/ (r.kind # "active_ep" /\ iv.left = <<>>) THEN kept(r)
             ELSE CASE r.kind = "active_ep" -> Joined!ActiveEndpoints(kept(r), answer)
                    [] r.kind = "simple_desc" -> Joined!SimpleDescriptor(kept(r), answer)
                    [] r.kind = "retry" -> Joined!Ask(kept(r), "simple_desc"))
  BY <1>0
<1> DEFINE h == kept(r)
<1>2. Joined!Hub \in Coordinators /\ Joined!Hub.iv = iv /\ Joined!Hub.air = air
  BY DEF EachItsOwn, Joined!Hub
<1>3. /\ h \in Coordinators /\ h.holds = Joined!Hub.holds /\ h.store = Joined!Hub.store
      /\ h.queue = Joined!Hub.queue /\ h.iv = Joined!Hub.iv /\ h.air = Joined!Hub.air \ {r}
  BY <1>2 DEF Coordinators
<1> HIDE DEF kept
<1>4. EachItsOwn(h)
  <2>1. RecordsOwn(h) /\ JoinsOwn(h) /\ InterviewOwn(h)
    BY <1>3 DEF EachItsOwn, RecordsOwn, JoinsOwn, InterviewOwn, OnlyHolder
  <2>2. AnswersOwn(h)
    BY <1>3 DEF EachItsOwn, AnswersOwn
  <2>3. QED
    BY <1>3, <2>1, <2>2 DEF EachItsOwn
<1>5. h.iv = iv
  BY <1>2, <1>3
<1>6. Joined!Current(r) => h.iv.active /\ answer \subseteq {h.iv.dev}
  BY <1>0, <1>1, <1>2, <1>5 DEF EachItsOwn, AnswersOwn, Joined!Current
<1>7. r.kind \in Kinds
  BY <1>0, <1>2 DEF Coordinators, Requests
<1> HIDE DEF h
<1>8. CASE ~Joined!Current(r) \/ (r.kind # "active_ep" /\ iv.left = <<>>)
  <2>1. Joined!Becomes(h)
    BY <1>1, <1>8, Zenon DEF h
  <2>2. QED
    BY <1>4, <2>1, HandlerEnds
<1>9. CASE Joined!Current(r) /\ r.kind = "active_ep"
  <2>1. Joined!Becomes(Joined!ActiveEndpoints(h, answer))
    <3>1. ~(~Joined!Current(r) \/ (r.kind # "active_ep" /\ iv.left = <<>>))
      BY <1>9
    <3>2. QED
      BY <1>1, <1>9, <3>1 DEF h
  <2>2. QED
    BY <1>4, <1>6, <1>9, <2>1, HandlerEnds, EndpointsFound
<1>10. CASE Joined!Current(r) /\ r.kind = "simple_desc" /\ iv.left # <<>>
  <2>1. Joined!Becomes(Joined!SimpleDescriptor(h, answer))
    <3>1. ~(~Joined!Current(r) \/ (r.kind # "active_ep" /\ iv.left = <<>>)) /\ r.kind # "active_ep"
      BY <1>10
    <3>2. QED
      BY <1>1, <1>10, <3>1 DEF h
  <2>2. QED
    BY <1>4, <1>5, <1>6, <1>10, <2>1, HandlerEnds, EndpointDescribed
<1>11. CASE Joined!Current(r) /\ r.kind = "retry" /\ iv.left # <<>>
  <2>1. Joined!Becomes(Joined!Ask(h, "simple_desc"))
    <3>1. /\ ~(~Joined!Current(r) \/ (r.kind # "active_ep" /\ iv.left = <<>>))
          /\ r.kind # "active_ep" /\ r.kind # "simple_desc"
      BY <1>11
    <3>2. QED
      BY <1>1, <1>11, <3>1 DEF h
  <2>2. QED
    BY <1>4, <1>6, <1>11, <2>1, HandlerEnds, Asked DEF Kinds
<1>12. QED
  BY <1>7, <1>8, <1>9, <1>10, <1>11 DEF Kinds

LEMMA TickStep == ASSUME EachItsOwn(Joined!Hub), Joined!Tick PROVE EachItsOwn(Joined!Hub)'
<1>1. PICK expired \in BOOLEAN :
        Joined!Becomes(IF iv.active /\ expired THEN Joined!Keep(Joined!Hub, FALSE)
                       ELSE Joined!StartNext(Joined!Hub))
  BY DEF Joined!Tick
<1>2. Joined!Hub.iv = iv
  BY DEF Joined!Hub
<1>3. CASE iv.active /\ expired
  BY <1>1, <1>2, <1>3, Kept, HandlerEnds
<1>4. CASE ~(iv.active /\ expired)
  BY <1>1, <1>4, NextJoin, HandlerEnds
<1>5. QED
  BY <1>3, <1>4

LEMMA QueueKept ==
  ASSUME NEW h, EachItsOwn(h), NEW q \in Seq({j \in Joins : OnlyHolder(h, j.dev, j.short)})
  PROVE  EachItsOwn([h EXCEPT !.queue = q])
<1> DEFINE g == [h EXCEPT !.queue = q]
<1>1. h \in Coordinators /\ q \in Seq(Joins)
  BY DEF EachItsOwn
<1>2. /\ g \in Coordinators /\ g.holds = h.holds /\ g.store = h.store /\ g.queue = q
      /\ g.iv = h.iv /\ g.air = h.air
  BY <1>1 DEF Coordinators
<1> HIDE DEF g
<1>3. JoinsOwn(g)
  <2>1. {j \in Joins : OnlyHolder(g, j.dev, j.short)} = {j \in Joins : OnlyHolder(h, j.dev, j.short)}
    BY <1>2 DEF OnlyHolder
  <2>2. QED
    BY <1>2, <2>1 DEF JoinsOwn
<1>4. RecordsOwn(g) /\ InterviewOwn(g) /\ AnswersOwn(g)
  BY <1>2 DEF EachItsOwn, RecordsOwn, InterviewOwn, AnswersOwn, OnlyHolder
<1>5. QED
  BY <1>2, <1>3, <1>4 DEF EachItsOwn, g

\* A join for an address that is its device's alone waits, starts, or renews the one
\* that does.
LEMMA Enqueued ==
  ASSUME NEW h, EachItsOwn(h), NEW d \in Devices, NEW short \in Addresses, OnlyHolder(h, d, short)
  PROVE  EachItsOwn(Joined!Enqueue(h, d, short))
<1> DEFINE Own == {j \in Joins : OnlyHolder(h, j.dev, j.short)}
<1>1. h \in Coordinators /\ h.iv \in Interviews /\ h.queue \in Seq(Own)
  BY DEF EachItsOwn, JoinsOwn, Coordinators
<1>2. CASE h.iv.active /\ h.iv.dev = d
  <2> DEFINE i == [h.iv EXCEPT !.short = short]
  <2>1. i \in Interviews /\ i.active /\ i.dev = h.iv.dev /\ i.short = short /\ i.gen = h.iv.gen
        /\ i.caps = h.iv.caps
    BY <1>1, <1>2 DEF Interviews, Shorts
  <2>2. [h EXCEPT !.iv.short = short] = [h EXCEPT !.iv = i]
    BY <1>1 DEF Coordinators
  <2> HIDE DEF i
  <2>3. EachItsOwn([h EXCEPT !.iv = i])
    BY <1>2, <2>1, SameInterview DEF EachItsOwn, InterviewOwn
  <2>4. Joined!Enqueue(h, d, short) = [h EXCEPT !.iv.short = short]
    BY <1>2, Zenon DEF Joined!Enqueue
  <2>5. QED
    BY <2>2, <2>3, <2>4
<1>3. CASE ~(h.iv.active /\ h.iv.dev = d) /\ \E i \in DOMAIN h.queue : h.queue[i].dev = d
  <2> DEFINE renewed(j) == IF j.dev = d THEN [j EXCEPT !.short = short] ELSE j
             q == [i \in DOMAIN h.queue |-> renewed(h.queue[i])]
  <2>1. \A j \in Own : renewed(j) \in Own
    <3> TAKE j \in Own
    <3>1. CASE j.dev = d
      <4> DEFINE k == [j EXCEPT !.short = short]
      <4>1. k \in Joins /\ k.dev = d /\ k.short = short
        BY <3>1 DEF Joins
      <4>2. renewed(j) = k
        BY <3>1
      <4> HIDE DEF k, renewed
      <4>3. QED
        BY <4>1, <4>2
    <3>2. CASE j.dev # d
      BY <3>2
    <3>3. QED
      BY <3>1, <3>2
  <2>2. q \in Seq(Own)
    <3>1. \E n \in Nat : DOMAIN h.queue = 1 .. n /\ \A i \in 1 .. n : h.queue[i] \in Own
      BY <1>1
    <3> HIDE DEF renewed, Own
    <3>2. PICK n \in Nat : DOMAIN h.queue = 1 .. n /\ \A i \in 1 .. n : h.queue[i] \in Own
      BY <3>1
    <3>3. q \in [1 .. n -> Own]
      BY <2>1, <3>2
    <3> HIDE DEF q
    <3>4. QED
      BY <3>3
  <2>3. Joined!Enqueue(h, d, short) = [h EXCEPT !.queue = q]
    BY <1>3, Zenon DEF Joined!Enqueue
  <2> HIDE DEF q
  <2>4. QED
    BY <2>2, <2>3, QueueKept
<1>4. CASE /\ ~(h.iv.active /\ h.iv.dev = d) /\ ~\E i \in DOMAIN h.queue : h.queue[i].dev = d
           /\ Len(h.queue) >= MaxRecords
  BY <1>4 DEF Joined!Enqueue
<1>5. CASE /\ ~(h.iv.active /\ h.iv.dev = d) /\ ~\E i \in DOMAIN h.queue : h.queue[i].dev = d
           /\ ~(Len(h.queue) >= MaxRecords)
  <2> DEFINE j == [dev |-> d, short |-> short]
             q == Append(h.queue, j)
  <2>1. q \in Seq(Own)
    <3>1. j \in Own
      BY DEF Joins
    <3> HIDE DEF j, Own
    <3>2. QED
      BY <1>1, <3>1
  <2>2. Joined!Enqueue(h, d, short) = Joined!StartNext([h EXCEPT !.queue = q])
    BY <1>5, Zenon DEF Joined!Enqueue
  <2> HIDE DEF q
  <2>3. QED
    BY <2>1, <2>2, QueueKept, NextJoin
<1>6. QED
  BY <1>2, <1>3, <1>4, <1>5

\* Whoever announces an address is the only one to hold it.  The records of the others
\* lose it; a join of another for it is what the exception is about.
LEMMA AnnounceStep ==
  ASSUME EachItsOwn(Joined!Hub), Joined!Announce, ~raced'
  PROVE  EachItsOwn(Joined!Hub)'
<1> DEFINE held(d, short) ==
             [e \in Devices |-> IF e = d THEN short ELSE IF holds[e] = short THEN Joined!Off ELSE holds[e]]
           told(d, short) ==
             [Joined!Hub EXCEPT !.holds = held(d, short), !.store = Joined!Renumbered(d, short)]
<1>1. PICK d \in Devices, short \in Addresses :
        /\ raced' = (raced \/ Joined!Waits(d, short))
        /\ Joined!Becomes(Joined!Enqueue(told(d, short), d, short))
  BY Zenon DEF Joined!Announce
<1> DEFINE h == told(d, short)
           now == held(d, short)
           t == Joined!Renumbered(d, short)
<1>2. /\ holds \in [Devices -> Shorts] /\ store \in Tables /\ queue \in Seq(Joins) /\ iv \in Interviews
      /\ Joined!Hub \in Coordinators /\ Joined!Hub.holds = holds /\ Joined!Hub.store = store
      /\ Joined!Hub.queue = queue /\ Joined!Hub.iv = iv /\ Joined!Hub.air = air
      /\ RecordsOwn(Joined!Hub) /\ JoinsOwn(Joined!Hub) /\ InterviewOwn(Joined!Hub)
      /\ AnswersOwn(Joined!Hub)
  BY DEF EachItsOwn, Coordinators, Joined!Hub
<1>3. ~Joined!Waits(d, short)
  BY <1>1
<1>4. short # 0
  BY HubPartsAssumption DEF Joined!ZbDevicesAssumption
<1>5. now \in [Devices -> Shorts] /\ now[d] = short
      /\ \A e \in Devices : e # d => now[e] # short /\ now[e] \in {0, holds[e]}
  BY <1>2, <1>4 DEF Shorts, Joined!Off
<1>6. DOMAIN t = DOMAIN store /\ t \in Tables
      /\ \A e \in DOMAIN t : /\ t[e].caps = store[e].caps
                             /\ IF e = d THEN t[e].short = short
                                ELSE t[e].short = 0 \/ (t[e].short = store[e].short /\ t[e].short # short)
  <2>1. DOMAIN store \in SUBSET Devices /\ store \in [DOMAIN store -> Records]
    BY <1>2 DEF Tables
  <2>2. \A e \in DOMAIN store :
          LET r == IF e = d THEN [store[e] EXCEPT !.short = short]
                   ELSE IF store[e].short = short THEN [store[e] EXCEPT !.short = 0] ELSE store[e]
          IN  /\ r \in Records /\ r.caps = store[e].caps
              /\ IF e = d THEN r.short = short
                 ELSE r.short = 0 \/ (r.short = store[e].short /\ r.short # short)
    BY <2>1 DEF Records, Shorts
  <2>3. t = [e \in DOMAIN store |->
              IF e = d THEN [store[e] EXCEPT !.short = short]
              ELSE IF store[e].short = short THEN [store[e] EXCEPT !.short = 0] ELSE store[e]]
    BY DEF Joined!Renumbered, Joined!Off
  <2> HIDE DEF t
  <2>4. t \in [DOMAIN store -> Records]
    BY <2>2, <2>3
  <2>5. t \in Tables
    BY <2>1, <2>4 DEF Tables
  <2>6. QED
    BY <2>2, <2>3, <2>5
<1> HIDE DEF now, t
<1>7. /\ h \in Coordinators /\ h.holds = now /\ h.store = t /\ h.queue = queue /\ h.iv = iv /\ h.air = air
  BY <1>2, <1>5, <1>6 DEF Coordinators, now, t
<1> HIDE DEF held, told, h
<1>8. OnlyHolder(h, d, short)
  BY <1>5, <1>7 DEF OnlyHolder
\* Who alone held another address still does.
<1>9. \A e, s : (s # 0 /\ OnlyHolder(Joined!Hub, e, s) /\ (s = short => e = d)) => OnlyHolder(h, e, s)
  BY <1>2, <1>5, <1>7 DEF OnlyHolder
<1>10. RecordsOwn(h)
  BY <1>2, <1>6, <1>7, <1>8, <1>9 DEF RecordsOwn
<1>11. JoinsOwn(h)
  <2> DEFINE Before == {j \in Joins : OnlyHolder(Joined!Hub, j.dev, j.short)}
             Own == {j \in Joins : OnlyHolder(h, j.dev, j.short)}
  <2>1. queue \in Seq(Before)
    BY <1>2 DEF JoinsOwn
  <2>2. PICK n \in Nat : DOMAIN queue = 1 .. n /\ queue \in [1 .. n -> Before]
    <3> HIDE DEF Before
    <3>1. QED
      BY <2>1
  <2>3. \A i \in 1 .. n : queue[i] \in Own
    <3> TAKE i \in 1 .. n
    <3>1. queue[i] \in Joins /\ OnlyHolder(Joined!Hub, queue[i].dev, queue[i].short)
      BY <2>2
    <3>2. queue[i].short # 0
      BY <3>1, HubPartsAssumption DEF Joined!ZbDevicesAssumption, Joins
    <3>3. queue[i].short = short => queue[i].dev = d
      BY <1>3, <2>2 DEF Joined!Waits
    <3>4. QED
      BY <1>9, <3>1, <3>2, <3>3
  <2> HIDE DEF Own
  <2>4. queue \in [1 .. n -> Own]
    BY <2>2, <2>3
  <2>5. queue \in Seq(Own)
    BY <2>4
  <2>6. QED
    BY <1>7, <2>5 DEF JoinsOwn, Own
<1>12. InterviewOwn(h)
  <2>1. iv.active => iv.short # 0
    BY <1>2, HubPartsAssumption DEF Joined!ZbDevicesAssumption, InterviewOwn
  <2>2. iv.active => (iv.short = short => iv.dev = d)
    BY <1>3 DEF Joined!Waits
  <2>3. QED
    BY <1>2, <1>7, <1>9, <2>1, <2>2 DEF InterviewOwn
<1>13. AnswersOwn(h)
  BY <1>2, <1>7 DEF AnswersOwn
<1>14. EachItsOwn(h)
  BY <1>7, <1>10, <1>11, <1>12, <1>13 DEF EachItsOwn
<1>15. Joined!Becomes(Joined!Enqueue(h, d, short))
  BY <1>1 DEF h
<1>16. QED
  BY <1>8, <1>14, <1>15, Enqueued, HandlerEnds

\* An address finds a record of its holder.
LEMMA Found ==
  ASSUME EachItsOwn(Joined!Hub), NEW d \in Devices, holds[d] # Joined!Off,
         NEW e \in Joined!FoundBy(holds[d])
  PROVE  e = d
<1>1. e \in DOMAIN store /\ store[e].short = holds[d] /\ store[e].short # 0
  BY DEF Joined!FoundBy, Joined!Off
<1>2. OnlyHolder(Joined!Hub, e, store[e].short)
  BY <1>1 DEF EachItsOwn, RecordsOwn, Joined!Hub
<1>3. QED
  BY <1>1, <1>2 DEF OnlyHolder, Joined!Hub

\* What a device tells later on goes to its own record.
LEMMA Told ==
  ASSUME EachItsOwn(Joined!Hub), NEW d \in Devices, d \in DOMAIN store,
         NEW caps \in SUBSET Capabilities, \A c \in caps : c[1] = d,
         store' = [store EXCEPT ![d].caps = caps], UNCHANGED <<holds, queue, iv, air>>
  PROVE  EachItsOwn(Joined!Hub)'
<1> DEFINE rec == [store[d] EXCEPT !.caps = caps]
           t == [e \in DOMAIN store \cup {d} |-> IF e = d THEN rec ELSE store[e]]
           g == [Joined!Hub EXCEPT !.store = t]
<1>1. store[d] \in Records /\ Joined!Hub.store = store /\ Joined!Hub \in Coordinators
  BY DEF EachItsOwn, Coordinators, Tables, Joined!Hub
<1>2. rec \in Records /\ rec.short = store[d].short /\ rec.caps = caps
  BY <1>1 DEF Records
<1>3. rec.short # 0 => OnlyHolder(Joined!Hub, d, rec.short)
  BY <1>1, <1>2 DEF EachItsOwn, RecordsOwn
<1>4. store' = t
  OBVIOUS
<1> HIDE DEF rec
<1>5. t = [e \in DOMAIN Joined!Hub.store \cup {d} |-> IF e = d THEN rec ELSE Joined!Hub.store[e]]
  BY <1>1
<1> HIDE DEF t
<1>6. EachItsOwn(g)
  BY <1>2, <1>3, <1>5, RecordKept
<1>7. Joined!Becomes(g)
  BY <1>4 DEF Joined!Becomes, Joined!Hub
<1>8. QED
  BY <1>6, <1>7, HandlerEnds

LEMMA OwnCaps ==
  ASSUME EachItsOwn(Joined!Hub), NEW d \in DOMAIN store
  PROVE  d \in Devices /\ store[d].caps \subseteq Capabilities /\ \A c \in store[d].caps : c[1] = d
BY DEF EachItsOwn, RecordsOwn, Coordinators, Tables, Records, Joined!Hub

LEMMA ReportStep ==
  ASSUME EachItsOwn(Joined!Hub), Joined!Report
  PROVE  EachItsOwn(Joined!Hub)' /\ astray' = astray
<1>1. PICK d \in Devices : holds[d] # Joined!Off /\ \E e \in Joined!FoundBy(holds[d]) :
        /\ astray' = astray \cup ({<<d, e>>} \ {<<d, d>>}) /\ store' = Joined!Ingested(e, d)
        /\ UNCHANGED <<holds, queue, iv, air>>
  BY DEF Joined!Report
<1>2. d \in Joined!FoundBy(holds[d]) /\ astray' = astray \cup ({<<d, d>>} \ {<<d, d>>})
      /\ store' = Joined!Ingested(d, d) /\ UNCHANGED <<holds, queue, iv, air>>
  BY <1>1, Found
<1>3. d \in DOMAIN store
  BY <1>2 DEF Joined!FoundBy
<1>4. CASE store' = store
  BY <1>2, <1>4 DEF Joined!Hub
<1>5. CASE store' = [store EXCEPT ![d].caps = @ \cup {<<d, "sensor">>}]
  <2> DEFINE caps == store[d].caps \cup {<<d, "sensor">>}
  <2>1. caps \in SUBSET Capabilities /\ \A c \in caps : c[1] = d
    BY <1>3, OwnCaps DEF Capabilities, Names
  <2>2. store' = [store EXCEPT ![d].caps = caps]
    BY <1>5
  <2> HIDE DEF caps
  <2>3. QED
    BY <1>2, <1>3, <2>1, <2>2, Told
<1>6. QED
  BY <1>2, <1>4, <1>5 DEF Joined!Ingested

LEMMA AnswerStep ==
  ASSUME EachItsOwn(Joined!Hub), Joined!Answer
  PROVE  EachItsOwn(Joined!Hub)' /\ astray' = astray
<1>1. PICK d \in Devices : holds[d] # Joined!Off /\ \E e \in Joined!FoundBy(holds[d]) :
        /\ store' = [store EXCEPT ![e].caps = {c \in @ : c[2] # "answer"} \cup {<<d, "answer">>}]
        /\ UNCHANGED <<holds, queue, iv, air, astray>>
  BY DEF Joined!Answer
<1> DEFINE caps == {c \in store[d].caps : c[2] # "answer"} \cup {<<d, "answer">>}
<1>2. d \in Joined!FoundBy(holds[d]) /\ store' = [store EXCEPT ![d].caps = caps]
      /\ UNCHANGED <<holds, queue, iv, air, astray>>
  BY <1>1, Found
<1>3. d \in DOMAIN store
  BY <1>2 DEF Joined!FoundBy
<1>4. caps \in SUBSET Capabilities /\ \A c \in caps : c[1] = d
  BY <1>3, OwnCaps DEF Capabilities, Names
<1> HIDE DEF caps
<1>5. QED
  BY <1>2, <1>3, <1>4, Told

LEMMA KnobStep ==
  ASSUME EachItsOwn(Joined!Hub), Joined!Knob
  PROVE  EachItsOwn(Joined!Hub)' /\ astray' = astray
<1>1. PICK d \in Devices : holds[d] # Joined!Off /\ \E e \in Joined!FoundBy(holds[d]) :
        /\ astray' = astray \cup ({<<d, e>>} \ {<<d, d>>}) /\ store' = Joined!Reclassified(e, d)
        /\ UNCHANGED <<holds, queue, iv, air>>
  BY DEF Joined!Knob
<1> DEFINE new == IF \E c \in store[d].caps : c[2] = "button" THEN {} ELSE {<<d, "button">>}
           caps == {c \in store[d].caps : c[2] # "switch"} \cup new
<1>2. d \in Joined!FoundBy(holds[d]) /\ astray' = astray \cup ({<<d, d>>} \ {<<d, d>>})
      /\ store' = Joined!Reclassified(d, d) /\ UNCHANGED <<holds, queue, iv, air>>
  BY <1>1, Found
<1>3. d \in DOMAIN store
  BY <1>2 DEF Joined!FoundBy
<1>4. caps \in SUBSET Capabilities /\ \A c \in caps : c[1] = d
  <2>1. new \subseteq {<<d, "button">>}
    OBVIOUS
  <2> HIDE DEF new
  <2>2. QED
    BY <1>3, <2>1, OwnCaps DEF Capabilities, Names
<1>5. store' = [store EXCEPT ![d].caps = caps]
  BY <1>2, Zenon DEF Joined!Reclassified
<1> HIDE DEF caps, new
<1>6. QED
  BY <1>2, <1>3, <1>4, <1>5, Told

LEMMA RemoveStep == ASSUME EachItsOwn(Joined!Hub), Joined!Remove PROVE EachItsOwn(Joined!Hub)'
<1>1. PICK d \in DOMAIN store : \E leaves \in {FALSE, holds[d] # Joined!Off} :
        /\ store' = [e \in DOMAIN store \ {d} |-> store[e]]
        /\ holds' = IF leaves THEN [holds EXCEPT ![d] = Joined!Off] ELSE holds
        /\ UNCHANGED <<queue, iv, air>>
  BY DEF Joined!Remove
<1>2. /\ Joined!Hub \in Coordinators /\ holds \in [Devices -> Shorts] /\ store \in Tables
      /\ queue \in Seq(Joins) /\ iv \in Interviews /\ air \in SUBSET Requests
      /\ Joined!Hub.holds = holds /\ Joined!Hub.store = store /\ Joined!Hub.queue = queue
      /\ Joined!Hub.iv = iv /\ Joined!Hub.air = air
  BY DEF EachItsOwn, Coordinators, Joined!Hub
<1>3. holds' \in [Devices -> Shorts] /\ \A e \in Devices : holds'[e] \in {0, holds[e]}
  BY <1>1, <1>2 DEF Joined!Off, Shorts
<1>4. store' \in Tables /\ DOMAIN store' \subseteq DOMAIN store /\ \A e \in DOMAIN store' : store'[e] = store[e]
  <2>1. DOMAIN store \subseteq Devices /\ store \in [DOMAIN store -> Records]
    BY <1>2 DEF Tables
  <2>2. DOMAIN store' \in SUBSET Devices /\ store' \in [DOMAIN store' -> Records]
    BY <1>1, <2>1
  <2>3. store' \in Tables
    BY <2>2 DEF Tables
  <2>4. QED
    BY <1>1, <2>3
<1> DEFINE h == Joined!Hub'
<1>5. /\ h \in Coordinators /\ h.holds = holds' /\ h.store = store' /\ h.queue = queue
      /\ h.iv = iv /\ h.air = air
  BY <1>1, <1>2, <1>3, <1>4 DEF Coordinators, Joined!Hub
<1> HIDE DEF h
<1>6. \A e, s : s # 0 /\ OnlyHolder(Joined!Hub, e, s) => OnlyHolder(h, e, s)
  BY <1>2, <1>3, <1>5 DEF OnlyHolder
<1>7. RecordsOwn(h)
  BY <1>2, <1>4, <1>5, <1>6 DEF EachItsOwn, RecordsOwn
<1>8. JoinsOwn(h)
  <2> DEFINE Before == {j \in Joins : OnlyHolder(Joined!Hub, j.dev, j.short)}
             Own == {j \in Joins : OnlyHolder(h, j.dev, j.short)}
  <2>1. Before \subseteq Own
    <3>1. \A j \in Joins : j.short # 0
      BY HubPartsAssumption DEF Joined!ZbDevicesAssumption, Joins
    <3>2. QED
      BY <1>6, <3>1
  <2>2. queue \in Seq(Before)
    BY <1>2 DEF EachItsOwn, JoinsOwn
  <2>3. queue \in Seq(Own)
    <3> HIDE DEF Before, Own
    <3>1. QED
      BY <2>1, <2>2
  <2>4. QED
    BY <1>5, <2>3 DEF JoinsOwn
<1>9. InterviewOwn(h)
  <2>1. iv.active => iv.short # 0
    BY <1>2, HubPartsAssumption DEF Joined!ZbDevicesAssumption, EachItsOwn, InterviewOwn
  <2>2. QED
    BY <1>2, <1>5, <1>6, <2>1 DEF EachItsOwn, InterviewOwn
<1>10. AnswersOwn(h)
  BY <1>2, <1>5 DEF EachItsOwn, AnswersOwn
<1>11. EachItsOwn(h)
  BY <1>5, <1>7, <1>8, <1>9, <1>10 DEF EachItsOwn
<1>12. QED
  BY <1>11 DEF h

LEMMA RebootStep == ASSUME EachItsOwn(Joined!Hub), Joined!Reboot PROVE EachItsOwn(Joined!Hub)'
<1>1. /\ queue' = <<>> /\ air' = {} /\ holds' = holds /\ store' = store
      /\ iv' = [active |-> FALSE, dev |-> Anyone, short |-> 0, gen |-> 0, left |-> <<>>, caps |-> {},
                retries |-> 0]
  BY DEF Joined!Reboot, Joined!Off, Joined!NoInterview, Joined!Interview, Anyone
<1>2. holds \in [Devices -> Shorts] /\ store \in Tables /\ RecordsOwn(Joined!Hub)
  BY DEF EachItsOwn, Coordinators, Joined!Hub
<1>3. iv' \in Interviews /\ queue' \in Seq(Joins)
  <2>1. <<>> \in Seq(Joins) /\ <<>> \in Seq(Nat)
    OBVIOUS
  <2>2. QED
    BY <1>1, <2>1 DEF Interviews, Shorts
<1> DEFINE h == Joined!Hub'
<1>4. /\ h \in Coordinators /\ h.holds = holds /\ h.store = store /\ h.queue = <<>>
      /\ h.iv = iv' /\ h.air = {} /\ ~iv'.active
  BY <1>1, <1>2, <1>3 DEF Coordinators, Joined!Hub
<1> HIDE DEF h
<1>5. RecordsOwn(h) /\ InterviewOwn(h) /\ AnswersOwn(h)
  BY <1>2, <1>4 DEF RecordsOwn, InterviewOwn, AnswersOwn, OnlyHolder, Joined!Hub
<1>6. JoinsOwn(h)
  BY <1>4 DEF JoinsOwn
<1>7. EachItsOwn(h)
  BY <1>4, <1>5, <1>6 DEF EachItsOwn
<1>8. QED
  BY <1>7 DEF h

LEMMA DeviceStep == DeviceInv /\ [Joined!Next]_deviceVars => DeviceInv'
<1> SUFFICES ASSUME DeviceInv, [Joined!Next]_deviceVars, ~raced' PROVE DeviceInv'
  BY DEF DeviceInv
<1>1. ~raced
  BY DEF Joined!Next, Joined!Callback, Joined!Tick, Joined!Announce, Joined!Report, Joined!Answer,
         Joined!Knob, Joined!Remove, Joined!Reboot, deviceVars
<1>2. astray = {} /\ EachItsOwn(Joined!Hub)
  BY <1>1 DEF DeviceInv
<1>3. CASE Joined!Callback
  BY <1>2, <1>3, CallbackStep DEF DeviceInv, Joined!Callback
<1>4. CASE Joined!Tick
  BY <1>2, <1>4, TickStep DEF DeviceInv, Joined!Tick
<1>5. CASE Joined!Announce
  BY <1>2, <1>5, AnnounceStep DEF DeviceInv, Joined!Announce
<1>6. CASE Joined!Report
  BY <1>2, <1>6, ReportStep DEF DeviceInv
<1>7. CASE Joined!Answer
  BY <1>2, <1>7, AnswerStep DEF DeviceInv
<1>8. CASE Joined!Knob
  BY <1>2, <1>8, KnobStep DEF DeviceInv
<1>9. CASE Joined!Remove
  BY <1>2, <1>9, RemoveStep DEF DeviceInv, Joined!Remove
<1>10. CASE Joined!Reboot
  BY <1>2, <1>10, RebootStep DEF DeviceInv, Joined!Reboot
<1>11. CASE UNCHANGED deviceVars
  BY <1>2, <1>11 DEF DeviceInv, deviceVars, Joined!Hub
<1>12. QED
  BY <1>3, <1>4, <1>5, <1>6, <1>7, <1>8, <1>9, <1>10, <1>11 DEF Joined!Next

-----------------------------------------------------------------------------
(* MqttPub: what the broker shows and what is still to be cleared *)

IsSeq(s) == \E S : s \in Seq(S)
InSeq(x, s) == \E i \in DOMAIN s : s[i] = x

LEMMA EmptySeq == IsSeq(<<>>) /\ \A x : ~InSeq(x, <<>>)
<1>1. <<>> \in Seq({})
  OBVIOUS
<1>2. QED
  BY <1>1 DEF IsSeq, InSeq

LEMMA SeqAppend ==
  ASSUME NEW s, IsSeq(s), NEW y
  PROVE  /\ IsSeq(Append(s, y)) /\ InSeq(y, Append(s, y))
         /\ \A x : InSeq(x, s) => InSeq(x, Append(s, y))
<1>1. PICK S : s \in Seq(S)
  BY DEF IsSeq
<1>2. s \in Seq(S \cup {y})
  BY <1>1
<1>3. Append(s, y) \in Seq(S \cup {y}) /\ Len(Append(s, y)) = Len(s) + 1 /\ Len(s) \in Nat
  BY <1>2
<1>4. Append(s, y)[Len(s) + 1] = y /\ \A i \in 1 .. Len(s) : Append(s, y)[i] = s[i]
  BY <1>2
<1>5. DOMAIN s = 1 .. Len(s) /\ DOMAIN Append(s, y) = 1 .. Len(s) + 1
  BY <1>2, <1>3
<1>6. QED
  BY <1>3, <1>4, <1>5 DEF IsSeq, InSeq

LEMMA SeqPop ==
  ASSUME NEW s, IsSeq(s), s # <<>>
  PROVE  /\ IsSeq(Tail(s))
         /\ \A x : InSeq(x, s) => x = Head(s) \/ InSeq(x, Tail(s))
<1>1. PICK S : s \in Seq(S)
  BY DEF IsSeq
<1>2. /\ Tail(s) \in Seq(S) /\ Len(s) \in Nat /\ Len(s) # 0
      /\ DOMAIN s = 1 .. Len(s) /\ DOMAIN Tail(s) = 1 .. Len(s) - 1
      /\ Head(s) = s[1] /\ \A i \in 1 .. Len(s) - 1 : Tail(s)[i] = s[i + 1]
  BY <1>1
<1>3. ASSUME NEW i \in DOMAIN s, i # 1
      PROVE  i - 1 \in DOMAIN Tail(s) /\ Tail(s)[i - 1] = s[i]
  BY <1>2, <1>3
<1>4. QED
  BY <1>2, <1>3 DEF IsSeq, InSeq

LEMMA SeqJoin ==
  ASSUME NEW s, IsSeq(s), NEW u, IsSeq(u)
  PROVE  IsSeq(s \o u) /\ \A x : InSeq(x, s) \/ InSeq(x, u) => InSeq(x, s \o u)
<1>1. PICK S : s \in Seq(S)
  BY DEF IsSeq
<1>2. PICK U : u \in Seq(U)
  BY DEF IsSeq
<1>3. s \in Seq(S \cup U) /\ u \in Seq(S \cup U)
  BY <1>1, <1>2
<1>4. /\ s \o u \in Seq(S \cup U) /\ Len(s) \in Nat /\ Len(u) \in Nat
      /\ DOMAIN s = 1 .. Len(s) /\ DOMAIN u = 1 .. Len(u)
      /\ DOMAIN (s \o u) = 1 .. Len(s) + Len(u)
      /\ \A i \in 1 .. Len(s) : (s \o u)[i] = s[i]
      /\ \A i \in 1 .. Len(u) : (s \o u)[Len(s) + i] = u[i]
  BY <1>3
<1>5. ASSUME NEW i \in DOMAIN u
      PROVE  Len(s) + i \in DOMAIN (s \o u) /\ (s \o u)[Len(s) + i] = u[i]
  BY <1>4, <1>5
<1>6. ASSUME NEW i \in DOMAIN s
      PROVE  i \in DOMAIN (s \o u) /\ (s \o u)[i] = s[i]
  BY <1>4, <1>6
<1>7. QED
  BY <1>4, <1>5, <1>6 DEF IsSeq, InSeq

\* As many places as elements, each in another one: all are there.
LEMMA AllListed ==
  ASSUME NEW S, IsFiniteSet(S), NEW f \in [1 .. Cardinality(S) -> S],
         \A i, j \in 1 .. Cardinality(S) : f[i] = f[j] => i = j
  PROVE  IsSeq(f) /\ \A x \in S : InSeq(x, f)
<1>1. Cardinality(S) \in Nat
  BY FS_CardinalityType
<1>2. f \in Seq(S)
  BY <1>1
<1>3. f \in Injection(1 .. Cardinality(S), S)
  BY DEF Injection, IsInjective
<1>4. Cardinality(1 .. Cardinality(S)) = Cardinality(S)
  BY <1>1, FS_Interval
<1>5. f \in Surjection(1 .. Cardinality(S), S)
  BY <1>3, <1>4, FS_Injection
<1>6. QED
  BY <1>2, <1>5 DEF Surjection, IsSeq, InSeq

LEMMA ListOfSet ==
  ASSUME NEW S, IsFiniteSet(S)
  PROVE  IsSeq(Entities!SetToSeq(S)) /\ \A x \in S : InSeq(x, Entities!SetToSeq(S))
<1> DEFINE f == Entities!SetToSeq(S)
<1>1. PICK g : g \in Bijection(1 .. Cardinality(S), S)
  BY FS_CardinalityType DEF ExistsBijection
<1>2. g \in [1 .. Cardinality(S) -> S] /\ Entities!IsInjective(g)
  BY <1>1 DEF Bijection, Injection, IsInjective, Entities!IsInjective
<1>3. f \in [1 .. Cardinality(S) -> S] /\ Entities!IsInjective(f)
  <2>1. f = CHOOSE h \in [1 .. Cardinality(S) -> S] : Entities!IsInjective(h)
    BY DEF Entities!SetToSeq, Entities!Cardinality, Cardinality
  <2> HIDE DEF f
  <2>2. QED
    BY <1>2, <2>1
<1>4. \A i, j \in 1 .. Cardinality(S) : f[i] = f[j] => i = j
  BY <1>3 DEF Entities!IsInjective
<1> HIDE DEF f
<1>5. QED
  BY <1>3, <1>4, AllListed DEF f

\* A message that has been queued, is about to be, or was dropped.
Owed(m) == dropped \/ InSeq(m, handler) \/ InSeq(m, messages)
Cleanups == {"plant deleted", "cap unbound", "cap bound"}

DeletedNote(id) == [type |-> "plant deleted", plant |-> id]
UnboundNote(id, c) == [type |-> "cap unbound", cap |-> c, plant |-> id]
BoundNote(d, c, id) == [type |-> "cap bound", dev |-> d, cap |-> c, plant |-> id]

\* The entity of a plant is owed a clearing, and the device's of what a plant has bound.
GoneOwed(id, c) == Owed(DeletedNote(id)) \/ Owed(UnboundNote(id, c))
CoverOwed(d, c) == \E id \in Entities!Ids : Owed(BoundNote(d, c, id))

IsPlant(r) == r = [mac |-> r.mac, dev |-> r.dev] /\ r.dev \in [EntityCaps -> Devices \cup {0}]
ArePlants(t) == t = [id \in DOMAIN t |-> t[id]] /\ \A id \in DOMAIN t : IsPlant(t[id])

IsTask(t) ==
  /\ t = [at |-> t.at, of |-> t.of, caps |-> t.caps, plants |-> t.plants, devs |-> t.devs,
          covered |-> t.covered, valid |-> t.valid]
  /\ t.at = "plant" => t.caps \subseteq EntityCaps

EntityTypes ==
  /\ IsSeq(messages) /\ IsSeq(handler) /\ IsSeq(outbox) /\ dropped \in BOOLEAN
  /\ lastId \in 0 .. LastPlant /\ DOMAIN plants \subseteq 1 .. lastId
  /\ ArePlants(plants)
  /\ IsTask(task)

\* What the broker shows of a plant is bound, or its clearing is owed or under way.
PlantsShown ==
  \A id \in Entities!Ids, c \in EntityCaps :
    Entities!PlantForm(id, c) \in retained =>
      c \in Entities!Bindings(id) \/ GoneOwed(id, c) \/ InSeq(Entities!PlantForm(id, c), outbox)

\* What the publisher is about to show of a plant was bound when it looked, and the
\* message that it no longer is cannot have been taken since.
PlantsAhead ==
  task.at = "plant" =>
    \A id \in Entities!Ids, c \in task.caps :
      id = task.of => c \in Entities!Bindings(id) \/ GoneOwed(id, c)

\* The same of devices, and of what plants have bound of theirs.
DevicesShown ==
  \A d \in Devices, c \in EntityCaps :
    Entities!DeviceForm(d, c) \in retained /\ <<d, c>> \in Entities!Covered =>
      CoverOwed(d, c) \/ InSeq(Entities!DeviceForm(d, c), outbox)

ShowsDevices(t) == t.at = "device" \/ (t.at = "plant" /\ t.devs # {})
DevicesAhead ==
  ShowsDevices(task) =>
    \A d \in Devices, c \in EntityCaps :
      <<d, c>> \in Entities!Covered => <<d, c>> \in task.covered \/ CoverOwed(d, c)

EntityInv == EntityTypes /\ PlantsShown /\ PlantsAhead /\ DevicesShown /\ DevicesAhead

\* What was queued stays so, but for m.
NotesStay(m) == \A n : n.type \in Cleanups /\ n # m /\ Owed(n) => Owed(n)'

LEMMA NoteTypes ==
  /\ \A id : DeletedNote(id).type \in Cleanups
  /\ \A id, c : UnboundNote(id, c).type \in Cleanups
  /\ \A d, c, id : BoundNote(d, c, id).type \in Cleanups
<1>1. \A id : DeletedNote(id).type \in Cleanups
  BY DEF DeletedNote, Cleanups
<1>2. \A id, c : UnboundNote(id, c).type \in Cleanups
  BY DEF UnboundNote, Cleanups
<1>3. \A d, c, id : BoundNote(d, c, id).type \in Cleanups
  BY DEF BoundNote, Cleanups
<1>4. QED
  BY <1>1, <1>2, <1>3

LEMMA OwedStay ==
  ASSUME NEW m, NotesStay(m)
  PROVE  /\ \A id, c : GoneOwed(id, c) => GoneOwed(id, c)' \/ m = DeletedNote(id) \/ m = UnboundNote(id, c)
         /\ \A d, c : CoverOwed(d, c) => CoverOwed(d, c)' \/ \E id \in Entities!Ids : m = BoundNote(d, c, id)
<1>1. ASSUME NEW id, NEW c, GoneOwed(id, c), m # DeletedNote(id), m # UnboundNote(id, c)
      PROVE  GoneOwed(id, c)'
  <2>1. Owed(DeletedNote(id)) => Owed(DeletedNote(id))'
    BY NoteTypes, <1>1 DEF NotesStay
  <2>2. Owed(UnboundNote(id, c)) => Owed(UnboundNote(id, c))'
    BY NoteTypes, <1>1 DEF NotesStay
  <2>3. QED
    BY <1>1, <2>1, <2>2 DEF GoneOwed
<1>2. ASSUME NEW d, NEW c, NEW id \in Entities!Ids, Owed(BoundNote(d, c, id)), m # BoundNote(d, c, id)
      PROVE  CoverOwed(d, c)'
  <2>1. Owed(BoundNote(d, c, id))'
    BY NoteTypes, <1>2 DEF NotesStay
  <2>2. QED
    BY <2>1 DEF CoverOwed, Entities!Ids
<1>3. QED
  BY <1>1, <1>2 DEF CoverOwed

\* The bindings of all plants and what they cover depend on the table alone.
SameBindings ==
  (\A id : Entities!Bindings(id)' = Entities!Bindings(id)) /\ Entities!Covered' = Entities!Covered

ClearingsStay == \A x \in retained' : x \in retained /\ (InSeq(x, outbox) => InSeq(x, outbox)')

\* No cleanup is taken, and nothing is shown.
LEMMA EntityFrame ==
  ASSUME EntityInv, EntityTypes', SameBindings, ClearingsStay, NEW m, NotesStay(m), m.type \notin Cleanups,
         task' = task
  PROVE  EntityInv'
<1>1. /\ \A id, c : GoneOwed(id, c) => GoneOwed(id, c)'
      /\ \A d, c : CoverOwed(d, c) => CoverOwed(d, c)'
  <2>1. \A id, c : m # DeletedNote(id) /\ m # UnboundNote(id, c)
    BY NoteTypes
  <2>2. \A d, c, id : m # BoundNote(d, c, id)
    BY NoteTypes
  <2>3. QED
    BY <2>1, <2>2, OwedStay
<1> USE DEF EntityInv
<1>2. PlantsShown'
  BY <1>1 DEF PlantsShown, SameBindings, ClearingsStay, Entities!Ids, Entities!PlantForm
<1>3. PlantsAhead'
  BY <1>1 DEF PlantsAhead, SameBindings, Entities!Ids
<1>4. DevicesShown'
  BY <1>1 DEF DevicesShown, SameBindings, ClearingsStay, Entities!DeviceForm
<1>5. DevicesAhead'
  BY <1>1 DEF DevicesAhead, SameBindings, ShowsDevices
<1>6. QED
  BY <1>2, <1>3, <1>4, <1>5

Resyncing == [type |-> "resync"]
LEMMA NoCleanup == Resyncing.type \notin Cleanups /\ \A d : [type |-> "update", dev |-> d].type \notin Cleanups
<1>1. Resyncing.type \notin Cleanups
  BY DEF Resyncing, Cleanups
<1>2. \A d : [type |-> "update", dev |-> d].type \notin Cleanups
  BY DEF Cleanups
<1>3. QED
  BY <1>1, <1>2

LEMMA SameTable == ASSUME UNCHANGED plants PROVE SameBindings
  BY DEF SameBindings, Entities!Bindings, Entities!Covered

LEMMA TellStep == ASSUME EntityInv, Entities!Tell PROVE EntityInv'
<1>1. EntityTypes
  BY DEF EntityInv
<1>2. /\ handler # <<>> /\ handler' = Tail(handler)
      /\ UNCHANGED <<plants, lastId, task, outbox, retained>>
      /\ \/ messages' = Append(messages, Head(handler)) /\ dropped' = dropped
         \/ messages' = messages /\ dropped' = TRUE
  BY DEF Entities!Tell
<1>3. IsSeq(handler') /\ \A x : InSeq(x, handler) => x = Head(handler) \/ InSeq(x, handler')
  BY <1>1, <1>2, SeqPop DEF EntityTypes
<1>4. /\ IsSeq(messages') /\ dropped' \in BOOLEAN /\ (dropped => dropped')
      /\ \A x : InSeq(x, messages) => InSeq(x, messages')
      /\ dropped' \/ InSeq(Head(handler), messages')
  <2>1. CASE messages' = Append(messages, Head(handler)) /\ dropped' = dropped
    BY <1>1, <2>1, SeqAppend DEF EntityTypes
  <2>2. CASE messages' = messages /\ dropped' = TRUE
    BY <1>1, <2>2 DEF EntityTypes
  <2>3. QED
    BY <1>2, <2>1, <2>2
<1>5. NotesStay(Resyncing)
  BY <1>3, <1>4 DEF NotesStay, Owed
<1>6. EntityTypes'
  BY <1>1, <1>2, <1>3, <1>4 DEF EntityTypes, IsTask
<1>7. ClearingsStay
  BY <1>2 DEF ClearingsStay
<1>8. QED
  BY <1>2, <1>5, <1>6, <1>7, SameTable, NoCleanup, EntityFrame

\* A message at the end, and perhaps the head gives way.
LEMMA ShownStep == ASSUME EntityInv, Entities!Report PROVE EntityInv'
<1>1. EntityTypes
  BY DEF EntityInv
<1>2. PICK d \in Devices, c \in EntityCaps :
        LET update == [type |-> "update", dev |-> d]
        IN  IF Len(messages) < QueueDepth
            THEN messages' = Append(messages, update) /\ UNCHANGED dropped
            ELSE /\ messages' = Append(Tail(messages), update)
                 /\ dropped' = (dropped \/ Head(messages).type \notin {"update", "resync"})
  BY DEF Entities!Report
<1>3. UNCHANGED <<plants, lastId, handler, task, outbox, retained>>
  BY DEF Entities!Report
<1> DEFINE update == [type |-> "update", dev |-> d]
<1> HIDE DEF update
<1>4. CASE messages' = Append(messages, update) /\ UNCHANGED dropped
  <2>1. IsSeq(messages') /\ \A x : InSeq(x, messages) => InSeq(x, messages')
    BY <1>1, <1>4, SeqAppend DEF EntityTypes
  <2>2. NotesStay(Resyncing)
    BY <1>3, <1>4, <2>1 DEF NotesStay, Owed
  <2>3. EntityTypes'
    BY <1>1, <1>3, <1>4, <2>1 DEF EntityTypes, IsTask
  <2>4. ClearingsStay
    BY <1>3 DEF ClearingsStay
  <2>5. QED
    BY <1>3, <2>2, <2>3, <2>4, SameTable, NoCleanup, EntityFrame
<1>5. CASE /\ messages' = Append(Tail(messages), update) /\ messages # <<>>
           /\ dropped' = (dropped \/ Head(messages).type \notin {"update", "resync"})
  <2>1. IsSeq(Tail(messages)) /\ \A x : InSeq(x, messages) => x = Head(messages) \/ InSeq(x, Tail(messages))
    BY <1>1, <1>5, SeqPop DEF EntityTypes
  <2>2. IsSeq(messages') /\ \A x : InSeq(x, Tail(messages)) => InSeq(x, messages')
    BY <1>5, <2>1, SeqAppend
  <2>3. dropped' \in BOOLEAN /\ (dropped => dropped')
        /\ (Head(messages).type \notin {"update", "resync"} => dropped')
    BY <1>5
  <2>4. NotesStay(Resyncing)
    <3> SUFFICES ASSUME NEW n, n.type \in Cleanups, Owed(n)
                 PROVE  Owed(n)'
      BY DEF NotesStay
    <3>1. CASE dropped \/ InSeq(n, handler)
      BY <1>3, <2>3, <3>1 DEF Owed
    <3>2. CASE n = Head(messages)
      BY <2>3, <3>2 DEF Owed, Cleanups
    <3>3. CASE InSeq(n, Tail(messages))
      BY <2>2, <3>3 DEF Owed
    <3>4. QED
      BY <2>1, <3>1, <3>2, <3>3 DEF Owed
  <2>5. EntityTypes'
    BY <1>1, <1>3, <2>2, <2>3 DEF EntityTypes, IsTask
  <2>6. ClearingsStay
    BY <1>3 DEF ClearingsStay
  <2>7. QED
    BY <1>3, <2>4, <2>5, <2>6, SameTable, NoCleanup, EntityFrame
<1>6. messages # <<>> \/ Len(messages) < QueueDepth
  BY HubPartsAssumption DEF Entities!MqttPubAssumption
<1>7. QED
  BY <1>2, <1>4, <1>5, <1>6 DEF update

LEMMA ClientStep ==
  ASSUME EntityInv,
         \/ Entities!Connect \/ Entities!ForgetSent \/ Entities!AskResync \/ Entities!Lose
         \/ Entities!Disconnected \/ Entities!Deliver
  PROVE  EntityInv'
<1>1. EntityTypes
  BY DEF EntityInv
<1>2. UNCHANGED <<plants, lastId, handler, task, dropped>>
  BY DEF Entities!Connect, Entities!ForgetSent, Entities!AskResync, Entities!Lose,
         Entities!Disconnected, Entities!Deliver, Entities!clientOnly
<1>3. \/ UNCHANGED <<outbox, retained>>
      \/ outbox # <<>> /\ outbox' = Tail(outbox) /\ retained' = retained \ {Head(outbox)}
  BY DEF Entities!Connect, Entities!ForgetSent, Entities!AskResync, Entities!Lose,
         Entities!Disconnected, Entities!Deliver, Entities!clientOnly
<1>4. messages' = messages \/ messages' = Append(messages, Resyncing)
  BY DEF Entities!Connect, Entities!ForgetSent, Entities!AskResync, Entities!Lose,
         Entities!Disconnected, Entities!Deliver, Entities!clientOnly, Resyncing
<1>5. IsSeq(messages') /\ \A x : InSeq(x, messages) => InSeq(x, messages')
  <2>1. CASE messages' = messages
    BY <1>1, <2>1 DEF EntityTypes
  <2>2. CASE messages' = Append(messages, Resyncing)
    BY <1>1, <2>2, SeqAppend DEF EntityTypes
  <2>3. QED
    BY <1>4, <2>1, <2>2
<1>6. IsSeq(outbox') /\ ClearingsStay
  <2>1. CASE UNCHANGED <<outbox, retained>>
    BY <1>1, <2>1 DEF EntityTypes, ClearingsStay
  <2>2. CASE outbox # <<>> /\ outbox' = Tail(outbox) /\ retained' = retained \ {Head(outbox)}
    <3>1. IsSeq(outbox') /\ \A x : InSeq(x, outbox) => x = Head(outbox) \/ InSeq(x, outbox')
      BY <1>1, <2>2, SeqPop DEF EntityTypes
    <3>2. QED
      BY <2>2, <3>1 DEF ClearingsStay
  <2>3. QED
    BY <1>3, <2>1, <2>2
<1>7. NotesStay(Resyncing)
  BY <1>2, <1>5 DEF NotesStay, Owed
<1>8. EntityTypes'
  BY <1>1, <1>2, <1>5, <1>6 DEF EntityTypes, IsTask
<1>9. QED
  BY <1>2, <1>6, <1>7, <1>8, SameTable, NoCleanup, EntityFrame

LEMMA NewPlant ==
  ASSUME EntityTypes, NEW mac, lastId < LastPlant,
         plants' = Entities!WithPlant(mac), lastId' = lastId + 1
  PROVE  /\ lastId' \in 0 .. LastPlant /\ DOMAIN plants' \subseteq 1 .. lastId'
         /\ ArePlants(plants') /\ SameBindings
<1> DEFINE empty == [mac |-> mac, dev |-> [c \in EntityCaps |-> 0]]
<1>1. /\ LastPlant \in Nat /\ 0 \notin Devices /\ lastId \in Nat
      /\ DOMAIN plants \subseteq 1 .. lastId /\ ArePlants(plants)
  BY HubPartsAssumption DEF Entities!MqttPubAssumption, EntityTypes
<1>2. /\ DOMAIN plants' = DOMAIN plants \cup {lastId + 1} /\ lastId + 1 \notin DOMAIN plants
      /\ plants'[lastId + 1] = empty /\ \A id \in DOMAIN plants : plants'[id] = plants[id]
      /\ plants' = [id \in DOMAIN plants' |-> plants'[id]]
  BY <1>1 DEF Entities!WithPlant
<1>3. IsPlant(empty) /\ \A c \in EntityCaps : empty.dev[c] = 0
  BY DEF IsPlant
<1> HIDE DEF empty
<1>4. ASSUME NEW id PROVE Entities!Bindings(id)' = Entities!Bindings(id)
  <2>1. CASE id = lastId + 1
    BY <1>2, <1>3, <2>1 DEF Entities!Bindings
  <2>2. CASE id # lastId + 1
    BY <1>2, <2>2 DEF Entities!Bindings
  <2>3. QED
    BY <2>1, <2>2
<1>5. Entities!Covered' = Entities!Covered
  <2>1. ASSUME NEW e \in Devices \X EntityCaps
        PROVE  (\E id \in DOMAIN plants' : plants'[id].dev[e[2]] = e[1])
                 <=> (\E id \in DOMAIN plants : plants[id].dev[e[2]] = e[1])
    <3>1. plants'[lastId + 1].dev[e[2]] # e[1]
      BY <1>1, <1>2, <1>3, <2>1
    <3>2. QED
      BY <1>2, <3>1
  <2>2. QED
    BY <2>1 DEF Entities!Covered
<1>6. lastId' \in 0 .. LastPlant /\ DOMAIN plants' \subseteq 1 .. lastId'
  BY <1>1, <1>2
<1>7. ArePlants(plants')
  <2>1. \A id \in DOMAIN plants' : IsPlant(plants'[id])
    BY <1>1, <1>2, <1>3 DEF ArePlants
  <2>2. QED
    BY <1>2, <2>1 DEF ArePlants
<1>8. QED
  BY <1>4, <1>5, <1>6, <1>7 DEF SameBindings

LEMMA CreateStep == ASSUME EntityInv, Entities!Create PROVE EntityInv'
<1>1. EntityTypes
  BY DEF EntityInv
<1>2. /\ UNCHANGED <<messages, handler, dropped, outbox, retained, task>>
      /\ lastId < LastPlant /\ plants' = Entities!WithPlant(0) /\ lastId' = lastId + 1
  BY DEF Entities!Create, Entities!webOnly
<1>3. /\ lastId' \in 0 .. LastPlant /\ DOMAIN plants' \subseteq 1 .. lastId'
      /\ ArePlants(plants') /\ SameBindings
  BY <1>1, <1>2, NewPlant
<1>4. EntityTypes'
  BY <1>1, <1>2, <1>3 DEF EntityTypes, IsTask
<1>5. NotesStay(Resyncing) /\ ClearingsStay
  BY <1>2 DEF NotesStay, Owed, ClearingsStay
<1>6. QED
  BY <1>2, <1>3, <1>4, <1>5, NoCleanup, EntityFrame

\* What an edit leaves bound, and what it tells of the rest.
EditTells(told) ==
  /\ DOMAIN plants' \subseteq DOMAIN plants /\ ArePlants(plants')
  /\ \A id \in Entities!Ids, c \in EntityCaps :
       c \in Entities!Bindings(id) =>
         c \in Entities!Bindings(id)' \/ InSeq(DeletedNote(id), told) \/ InSeq(UnboundNote(id, c), told)
  /\ \A d \in Devices, c \in EntityCaps :
       <<d, c>> \in Entities!Covered' =>
         <<d, c>> \in Entities!Covered \/ \E id \in Entities!Ids : InSeq(BoundNote(d, c, id), told)

\* The row of one plant is another one.
LEMMA RowEdited ==
  ASSUME EntityTypes, NEW id \in DOMAIN plants, NEW dev \in [EntityCaps -> Devices \cup {0}],
         plants' = [plants EXCEPT ![id].dev = dev]
  PROVE  /\ DOMAIN plants' = DOMAIN plants /\ ArePlants(plants')
         /\ \A c \in EntityCaps : c \in Entities!Bindings(id)' <=> dev[c] # 0
         /\ \A i : i # id => Entities!Bindings(i)' = Entities!Bindings(i)
         /\ \A e \in Entities!Covered' : e \in Entities!Covered \/ dev[e[2]] = e[1]
<1>1. ArePlants(plants) /\ IsPlant(plants[id])
  BY DEF EntityTypes, ArePlants
<1>2. plants = [i \in DOMAIN plants |-> plants[i]] /\ plants[id] = [mac |-> plants[id].mac, dev |-> plants[id].dev]
  BY <1>1 DEF ArePlants, IsPlant
<1>3. [plants[id] EXCEPT !.dev = dev] = [mac |-> plants[id].mac, dev |-> dev]
  BY <1>2
<1>4. plants' = [i \in DOMAIN plants |-> IF i = id THEN [mac |-> plants[id].mac, dev |-> dev] ELSE plants[i]]
  BY <1>2, <1>3
<1>5. IsPlant([mac |-> plants[id].mac, dev |-> dev])
  BY DEF IsPlant
<1>6. /\ DOMAIN plants' = DOMAIN plants /\ plants'[id].dev = dev
      /\ \A i \in DOMAIN plants : i # id => plants'[i] = plants[i]
  BY <1>4
<1>7. ArePlants(plants')
  <2>1. \A i \in DOMAIN plants' : IsPlant(plants'[i])
    BY <1>1, <1>4, <1>5 DEF ArePlants
  <2>2. plants' = [i \in DOMAIN plants' |-> plants'[i]]
    BY <1>4
  <2>3. QED
    BY <2>1, <2>2 DEF ArePlants
<1>8. \A c \in EntityCaps : c \in Entities!Bindings(id)' <=> dev[c] # 0
  BY <1>6 DEF Entities!Bindings
<1>9. \A i : i # id => Entities!Bindings(i)' = Entities!Bindings(i)
  BY <1>6 DEF Entities!Bindings
<1>10. \A e \in Entities!Covered' : e \in Entities!Covered \/ dev[e[2]] = e[1]
  BY <1>6 DEF Entities!Covered
<1>11. QED
  BY <1>6, <1>7, <1>8, <1>9, <1>10

\* EXCEPT ![id].dev[c], on the row as a whole.
LEMMA OneCap ==
  ASSUME EntityTypes, NEW id \in DOMAIN plants, NEW c \in EntityCaps, NEW d \in Devices \cup {0}
  PROVE  /\ [plants EXCEPT ![id].dev[c] = d] = [plants EXCEPT ![id].dev = [plants[id].dev EXCEPT ![c] = d]]
         /\ [plants[id].dev EXCEPT ![c] = d] \in [EntityCaps -> Devices \cup {0}]
         /\ [plants[id].dev EXCEPT ![c] = d][c] = d
         /\ \A k \in EntityCaps : k # c => [plants[id].dev EXCEPT ![c] = d][k] = plants[id].dev[k]
<1>1. plants = [i \in DOMAIN plants |-> plants[i]] /\ plants[id] = [mac |-> plants[id].mac, dev |-> plants[id].dev]
      /\ plants[id].dev \in [EntityCaps -> Devices \cup {0}]
  BY DEF EntityTypes, ArePlants, IsPlant
<1>2. QED
  BY <1>1

\* A row with another binding, and what is told of it.
LEMMA BindingTold ==
  ASSUME EntityTypes, NEW id \in DOMAIN plants, NEW dev \in [EntityCaps -> Devices \cup {0}], NEW told,
         plants' = [plants EXCEPT ![id].dev = dev],
         \A c \in EntityCaps : \/ dev[c] = plants[id].dev[c]
                               \/ dev[c] = 0 /\ InSeq(UnboundNote(id, c), told)
                               \/ dev[c] # 0 /\ InSeq(BoundNote(dev[c], c, id), told)
  PROVE  EditTells(told)
<1>1. id \in Entities!Ids
  BY HubPartsAssumption DEF EntityTypes, Entities!Ids, Entities!MqttPubAssumption
<1>2. /\ DOMAIN plants' = DOMAIN plants /\ ArePlants(plants')
      /\ \A c \in EntityCaps : c \in Entities!Bindings(id)' <=> dev[c] # 0
      /\ \A i : i # id => Entities!Bindings(i)' = Entities!Bindings(i)
      /\ \A e \in Entities!Covered' : e \in Entities!Covered \/ dev[e[2]] = e[1]
  BY RowEdited
<1>3. \A c \in Entities!Bindings(id) : c \in EntityCaps /\ plants[id].dev[c] # 0
  BY DEF Entities!Bindings
<1>4. ASSUME NEW i \in Entities!Ids, NEW c \in EntityCaps, c \in Entities!Bindings(i)
      PROVE  c \in Entities!Bindings(i)' \/ InSeq(DeletedNote(i), told) \/ InSeq(UnboundNote(i, c), told)
  BY <1>2, <1>3, <1>4
<1>5. 0 \notin Devices
  BY HubPartsAssumption DEF Entities!MqttPubAssumption
<1>6. ASSUME NEW d \in Devices, NEW c \in EntityCaps, <<d, c>> \in Entities!Covered', <<d, c>> \notin Entities!Covered
      PROVE  \E i \in Entities!Ids : InSeq(BoundNote(d, c, i), told)
  <2>1. dev[c] = d
    BY <1>2, <1>6
  <2>2. plants[id].dev[c] # d
    BY <1>6 DEF Entities!Covered
  <2>3. QED
    BY <1>1, <1>5, <2>1, <2>2
<1>7. QED
  BY <1>2, <1>4, <1>6 DEF EditTells

LEMMA OneTold == \A m : IsSeq(<<m>>) /\ InSeq(m, <<m>>)
<1> TAKE m
<1>1. <<m>> \in Seq({m}) /\ <<m>>[1] = m /\ 1 \in DOMAIN <<m>>
  OBVIOUS
<1>2. QED
  BY <1>1 DEF IsSeq, InSeq

LEMMA EditTold ==
  ASSUME EntityTypes, NEW id \in DOMAIN plants,
         \/ \E c \in EntityCaps, d \in Devices : Entities!Bind(id, c, d)
         \/ \E c \in EntityCaps : Entities!Unbind(id, c)
         \/ \E d \in Devices : Entities!BindDevice(id, d)
         \/ Entities!Delete(id)
  PROVE  IsSeq(handler') /\ EditTells(handler')
<1>1. plants[id].dev \in [EntityCaps -> Devices \cup {0}] /\ 0 \notin Devices
  BY HubPartsAssumption DEF EntityTypes, ArePlants, IsPlant, Entities!MqttPubAssumption
<1>2. CASE \E c \in EntityCaps, d \in Devices : Entities!Bind(id, c, d)
  <2>1. PICK c \in EntityCaps, d \in Devices : Entities!Bind(id, c, d)
    BY <1>2
  <2>2. handler' = <<BoundNote(d, c, id)>> /\ plants' = [plants EXCEPT ![id].dev[c] = d]
    BY <2>1 DEF Entities!Bind, BoundNote
  <2> DEFINE dev == [plants[id].dev EXCEPT ![c] = d]
  <2>3. /\ plants' = [plants EXCEPT ![id].dev = dev] /\ dev \in [EntityCaps -> Devices \cup {0}]
        /\ dev[c] = d /\ \A k \in EntityCaps : k # c => dev[k] = plants[id].dev[k]
    BY <2>2, OneCap
  <2> HIDE DEF dev
  <2>4. IsSeq(handler') /\ InSeq(BoundNote(d, c, id), handler') /\ d # 0
    BY <1>1, <2>2, OneTold
  <2>5. QED
    BY <2>3, <2>4, BindingTold
<1>3. CASE \E c \in EntityCaps : Entities!Unbind(id, c)
  <2>1. PICK c \in EntityCaps : Entities!Unbind(id, c)
    BY <1>3
  <2>2. handler' = <<UnboundNote(id, c)>> /\ plants' = [plants EXCEPT ![id].dev[c] = 0]
    BY <2>1 DEF Entities!Unbind, UnboundNote
  <2> DEFINE dev == [plants[id].dev EXCEPT ![c] = 0]
  <2>3. /\ plants' = [plants EXCEPT ![id].dev = dev] /\ dev \in [EntityCaps -> Devices \cup {0}]
        /\ dev[c] = 0 /\ \A k \in EntityCaps : k # c => dev[k] = plants[id].dev[k]
    BY <2>2, OneCap
  <2> HIDE DEF dev
  <2>4. IsSeq(handler') /\ InSeq(UnboundNote(id, c), handler')
    BY <2>2, OneTold
  <2>5. QED
    BY <2>3, <2>4, BindingTold
<1>4. CASE \E d \in Devices : Entities!BindDevice(id, d)
  <2>1. PICK d \in Devices : Entities!BindDevice(id, d)
    BY <1>4
  <2> DEFINE reported == {c \in EntityCaps : <<d, c>> \in valid}
             dev == [c \in EntityCaps |-> IF c \in reported THEN d ELSE plants[id].dev[c]]
  <2>2. plants' = [plants EXCEPT ![id].dev = dev]
    BY <1>1, <2>1 DEF Entities!BindDevice
  <2>3. PICK order \in Entities!SetToSeqs(reported) :
          handler' = [i \in DOMAIN order |-> [type |-> "cap bound", dev |-> d, cap |-> order[i], plant |-> id]]
    BY <2>1 DEF Entities!BindDevice
  <2>4. IsFiniteSet(reported)
    <3>1. IsFiniteSet(EntityCaps)
      BY HubPartsAssumption DEF Entities!MqttPubAssumption, Entities!IsFiniteSet, IsFiniteSet
    <3>2. QED
      BY <3>1, FS_Subset
  <2>5. dev \in [EntityCaps -> Devices \cup {0}]
        /\ \A c \in EntityCaps : dev[c] = IF c \in reported THEN d ELSE plants[id].dev[c]
    BY <1>1
  <2> HIDE DEF dev, reported
  <2>6. /\ order \in [1 .. Cardinality(reported) -> reported]
        /\ \A i, j \in 1 .. Cardinality(reported) : i # j => order[i] # order[j]
    <3>1. order \in Entities!SetToSeqs(reported)
      BY <2>3
    <3>2. QED
      BY <3>1, Zenon DEF Entities!SetToSeqs, Entities!Cardinality, Cardinality
  <2>7. IsSeq(order) /\ \A c \in reported : InSeq(c, order)
    BY <2>4, <2>6, AllListed
  <2>8. \A i \in DOMAIN order : handler'[i] = BoundNote(d, order[i], id)
    BY <2>3 DEF BoundNote
  <2>9. IsSeq(handler') /\ \A c \in reported : InSeq(BoundNote(d, c, id), handler')
    <3>1. DOMAIN order = 1 .. Cardinality(reported) /\ Cardinality(reported) \in Nat
      BY <2>4, <2>6, FS_CardinalityType
    <3>2. handler' \in Seq({BoundNote(d, order[i], id) : i \in DOMAIN order})
      <4> DEFINE T == {BoundNote(d, order[i], id) : i \in DOMAIN order}
      <4>1. \A i \in DOMAIN order : handler'[i] \in T
        BY <2>8
      <4>2. handler' \in [1 .. Cardinality(reported) -> T]
        <5>1. handler' = [i \in DOMAIN order |-> handler'[i]]
          BY <2>3
        <5> HIDE DEF T
        <5>2. QED
          BY <3>1, <4>1, <5>1
      <4> HIDE DEF T
      <4>3. handler' \in Seq(T)
        BY <3>1, <4>2
      <4>4. QED
        BY <4>3 DEF T
    <3>3. \A c \in reported : InSeq(BoundNote(d, c, id), handler')
      BY <2>3, <2>7, <2>8 DEF InSeq
    <3>4. QED
      BY <3>2, <3>3 DEF IsSeq
  <2>10. d # 0
    BY <1>1
  <2>11. QED
    BY <2>2, <2>5, <2>9, <2>10, BindingTold
<1>5. CASE Entities!Delete(id)
  <2>1. handler' = <<DeletedNote(id)>> /\ plants' = [i \in DOMAIN plants \ {id} |-> plants[i]]
    BY <1>5 DEF Entities!Delete, DeletedNote
  <2>2. IsSeq(handler') /\ InSeq(DeletedNote(id), handler')
    BY <2>1, OneTold
  <2>3. DOMAIN plants' = DOMAIN plants \ {id} /\ \A i \in DOMAIN plants' : plants'[i] = plants[i]
    BY <2>1
  <2>4. ArePlants(plants')
    BY <2>1, <2>3 DEF EntityTypes, ArePlants
  <2>5. \A i : i # id => Entities!Bindings(i)' = Entities!Bindings(i)
    BY <2>3 DEF Entities!Bindings
  <2>6. Entities!Covered' \subseteq Entities!Covered
    BY <2>3 DEF Entities!Covered
  <2>7. QED
    BY <2>2, <2>3, <2>4, <2>5, <2>6 DEF EditTells
<1>6. QED
  BY <1>2, <1>3, <1>4, <1>5

LEMMA EditStep == ASSUME EntityInv, Entities!Edit PROVE EntityInv'
<1>1. EntityTypes
  BY DEF EntityInv
<1>2. /\ handler = <<>>
      /\ UNCHANGED <<messages, dropped, outbox, retained, task, lastId>>
  BY DEF Entities!Edit, Entities!Change, Entities!webOnly
<1>3. IsSeq(handler') /\ EditTells(handler')
  <2>1. PICK id \in DOMAIN plants :
          \/ \E c \in EntityCaps, d \in Devices : Entities!Bind(id, c, d)
          \/ \E c \in EntityCaps : Entities!Unbind(id, c)
          \/ \E d \in Devices : Entities!BindDevice(id, d)
          \/ Entities!Delete(id)
    BY DEF Entities!Edit
  <2>2. QED
    BY <1>1, <2>1, EditTold
<1>4. EntityTypes'
  <2>1. DOMAIN plants' \subseteq 1 .. lastId' /\ ArePlants(plants')
    BY <1>1, <1>2, <1>3 DEF EditTells, EntityTypes
  <2>2. QED
    BY <1>1, <1>2, <1>3, <2>1 DEF EntityTypes, IsTask
<1>5. \A n : Owed(n) => Owed(n)'
  BY <1>2, EmptySeq DEF Owed
<1>6. \A n : InSeq(n, handler') => Owed(n)'
  BY DEF Owed
<1>7. /\ \A id, c : GoneOwed(id, c) => GoneOwed(id, c)'
      /\ \A d, c : CoverOwed(d, c) => CoverOwed(d, c)'
  BY <1>5 DEF GoneOwed, CoverOwed, Entities!Ids
<1>8. \A id \in Entities!Ids, c \in EntityCaps :
        c \in Entities!Bindings(id) => c \in Entities!Bindings(id)' \/ GoneOwed(id, c)'
  BY <1>3, <1>6 DEF EditTells, GoneOwed
<1>9. \A d \in Devices, c \in EntityCaps :
        <<d, c>> \in Entities!Covered' => <<d, c>> \in Entities!Covered \/ CoverOwed(d, c)'
  BY <1>3, <1>6 DEF EditTells, CoverOwed, Entities!Ids
<1> USE DEF EntityInv
<1>10. PlantsShown'
  BY <1>2, <1>7, <1>8 DEF PlantsShown, Entities!Ids, Entities!PlantForm
<1>11. PlantsAhead'
  <2> SUFFICES ASSUME task.at = "plant", NEW id \in Entities!Ids, NEW c \in task.caps, id = task.of
               PROVE  c \in Entities!Bindings(id)' \/ GoneOwed(id, c)'
    BY <1>2 DEF PlantsAhead, Entities!Ids
  <2>1. c \in EntityCaps
    BY <1>1 DEF EntityTypes, IsTask
  <2>2. c \in Entities!Bindings(id) \/ GoneOwed(id, c)
    BY DEF PlantsAhead
  <2>3. QED
    BY <1>7, <1>8, <2>1, <2>2
<1>12. DevicesShown'
  BY <1>2, <1>7, <1>9 DEF DevicesShown, Entities!DeviceForm
<1>13. DevicesAhead'
  BY <1>2, <1>7, <1>9 DEF DevicesAhead, ShowsDevices
<1>14. QED
  BY <1>4, <1>10, <1>11, <1>12, <1>13

-----------------------------------------------------------------------------
(* MqttPub: the publisher's task *)

\* Clear(topics): what is not taken away is under way.
LEMMA Clears ==
  ASSUME EntityTypes, NEW topics, IsFiniteSet(topics), Entities!Clear(topics)
  PROVE  /\ IsSeq(outbox') /\ ClearingsStay
         /\ \A x \in topics : x \in retained' => InSeq(x, outbox)'
<1>1. IsSeq(Entities!SetToSeq(topics)) /\ \A x \in topics : InSeq(x, Entities!SetToSeq(topics))
  BY ListOfSet
<1>2. IsSeq(outbox)
  BY DEF EntityTypes
<1>3. CASE retained' = retained \ topics /\ outbox' = outbox
  BY <1>2, <1>3 DEF ClearingsStay
<1>4. CASE retained' = retained /\ outbox' = outbox \o Entities!SetToSeq(topics)
  <2>1. IsSeq(outbox') /\ \A x : InSeq(x, outbox) \/ InSeq(x, Entities!SetToSeq(topics)) => InSeq(x, outbox')
    BY <1>1, <1>2, <1>4, SeqJoin
  <2>2. QED
    BY <1>1, <1>4, <2>1 DEF ClearingsStay
<1>5. QED
  BY <1>3, <1>4 DEF Entities!Clear

\* What the publisher goes on with was looked up just now, and what it knows of the
\* devices it was given.
LEMMA PublishGoesOn ==
  ASSUME NEW t, t = [at |-> t.at, of |-> t.of, caps |-> t.caps, plants |-> t.plants, devs |-> t.devs,
                     covered |-> t.covered, valid |-> t.valid],
         NEW u, u = Entities!Goes(t)
  PROVE  /\ IsTask(u)
         /\ u.at = "plant" => u.caps = Entities!Bindings(u.of)
         /\ ShowsDevices(u) => t.devs # {} /\ u.covered = t.covered
<1> DEFINE First(S) == CHOOSE i \in S : \A j \in S : i <= j
           left == {d \in t.devs : \E c \in EntityCaps : <<d, c>> \in t.valid}
<1>1. CASE t.plants # {}
  <2>1. u = [t EXCEPT !.at = "plant", !.of = First(t.plants), !.plants = @ \ {First(t.plants)},
                      !.caps = Entities!Bindings(First(t.plants))]
    BY <1>1 DEF Entities!Goes
  <2> HIDE DEF First
  <2>2. u = [at |-> "plant", of |-> First(t.plants), caps |-> Entities!Bindings(First(t.plants)),
             plants |-> t.plants \ {First(t.plants)}, devs |-> t.devs, covered |-> t.covered,
             valid |-> t.valid]
    BY <2>1
  <2>3. Entities!Bindings(First(t.plants)) \subseteq EntityCaps
    BY DEF Entities!Bindings
  <2>4. /\ u.at = "plant" /\ u.of = First(t.plants) /\ u.caps = Entities!Bindings(First(t.plants))
        /\ u.devs = t.devs /\ u.covered = t.covered
    BY <2>2
  <2>5. u = [at |-> u.at, of |-> u.of, caps |-> u.caps, plants |-> u.plants, devs |-> u.devs,
             covered |-> u.covered, valid |-> u.valid]
    BY <2>2
  <2>6. QED
    BY <2>3, <2>4, <2>5 DEF IsTask, ShowsDevices
<1>2. CASE t.plants = {} /\ left = {}
  <2>1. u = Entities!Idle
    BY <1>2 DEF Entities!Goes
  <2>2. QED
    BY <2>1 DEF Entities!Idle, IsTask, ShowsDevices
<1>3. CASE t.plants = {} /\ left # {}
  <2>1. u = [t EXCEPT !.at = "device", !.of = First(left), !.devs = left \ {First(left)},
                      !.caps = {c \in EntityCaps : <<First(left), c>> \in t.valid}]
    BY <1>3 DEF Entities!Goes
  <2>2. t.devs # {}
    BY <1>3
  <2> HIDE DEF First, left
  <2>3. u = [at |-> "device", of |-> First(left), caps |-> {c \in EntityCaps : <<First(left), c>> \in t.valid},
             plants |-> t.plants, devs |-> left \ {First(left)}, covered |-> t.covered,
             valid |-> t.valid]
    BY <2>1
  <2>4. QED
    BY <2>2, <2>3 DEF IsTask, ShowsDevices
<1>4. QED
  BY <1>1, <1>2, <1>3

LEMMA DeletedIs ==
  ASSUME NEW m, NEW id, m = DeletedNote(id)
  PROVE  m.type = "plant deleted" /\ m.plant = id
  BY DEF DeletedNote

LEMMA UnboundIs ==
  ASSUME NEW m, NEW id, NEW c, m = UnboundNote(id, c)
  PROVE  m.type = "cap unbound" /\ m.plant = id /\ m.cap = c
  BY DEF UnboundNote

LEMMA BoundIs ==
  ASSUME NEW m, NEW d, NEW c, NEW id, m = BoundNote(d, c, id)
  PROVE  m.type = "cap bound" /\ m.dev = d /\ m.cap = c
  BY DEF BoundNote

\* A message is taken by a publisher that has nothing else to do: what it asks to be
\* cleared is, or is under way, and what is to be shown was looked up just now.
LEMMA TakenFrame ==
  ASSUME EntityInv, EntityTypes', SameBindings, ClearingsStay, NEW m, NotesStay(m),
         \A id \in Entities!Ids, c \in EntityCaps :
           /\ m = DeletedNote(id) \/ m = UnboundNote(id, c)
           /\ Entities!PlantForm(id, c) \in retained'
           => InSeq(Entities!PlantForm(id, c), outbox)',
         \A d \in Devices, c \in EntityCaps :
           /\ \E id \in Entities!Ids : m = BoundNote(d, c, id)
           /\ Entities!DeviceForm(d, c) \in retained'
           => InSeq(Entities!DeviceForm(d, c), outbox)',
         task'.at = "plant" => task'.caps = Entities!Bindings(task'.of),
         ShowsDevices(task') => Entities!Covered \subseteq task'.covered
  PROVE  EntityInv'
<1> USE DEF EntityInv
<1>1. /\ \A id, c : GoneOwed(id, c) => GoneOwed(id, c)' \/ m = DeletedNote(id) \/ m = UnboundNote(id, c)
      /\ \A d, c : CoverOwed(d, c) => CoverOwed(d, c)' \/ \E id \in Entities!Ids : m = BoundNote(d, c, id)
  BY OwedStay
<1>2. PlantsShown'
  <2> SUFFICES ASSUME NEW id \in Entities!Ids, NEW c \in EntityCaps,
                      Entities!PlantForm(id, c) \in retained', ~(c \in Entities!Bindings(id)'),
                      ~InSeq(Entities!PlantForm(id, c), outbox)'
               PROVE  GoneOwed(id, c)'
    BY DEF PlantsShown, Entities!Ids, Entities!PlantForm
  <2>1. Entities!PlantForm(id, c) \in retained /\ ~InSeq(Entities!PlantForm(id, c), outbox)
    BY DEF ClearingsStay
  <2>2. c \notin Entities!Bindings(id)
    BY DEF SameBindings
  <2>3. GoneOwed(id, c)
    BY <2>1, <2>2 DEF PlantsShown
  <2>4. QED
    BY <1>1, <2>3
<1>3. DevicesShown'
  <2> SUFFICES ASSUME NEW d \in Devices, NEW c \in EntityCaps,
                      Entities!DeviceForm(d, c) \in retained', <<d, c>> \in Entities!Covered',
                      ~InSeq(Entities!DeviceForm(d, c), outbox)'
               PROVE  CoverOwed(d, c)'
    BY DEF DevicesShown, Entities!DeviceForm
  <2>1. Entities!DeviceForm(d, c) \in retained /\ ~InSeq(Entities!DeviceForm(d, c), outbox)
    BY DEF ClearingsStay
  <2>2. <<d, c>> \in Entities!Covered
    BY DEF SameBindings
  <2>3. CoverOwed(d, c)
    BY <2>1, <2>2 DEF DevicesShown
  <2>4. QED
    BY <1>1, <2>3
<1>4. PlantsAhead'
  BY DEF PlantsAhead, SameBindings, Entities!Ids
<1>5. DevicesAhead'
  BY DEF DevicesAhead, SameBindings, ShowsDevices
<1>6. QED
  BY <1>2, <1>3, <1>4, <1>5

LEMMA Takes ==
  ASSUME EntityTypes, Entities!Take, UNCHANGED <<handler, dropped>>
  PROVE  /\ task = Entities!Idle /\ IsSeq(messages') /\ NotesStay(Head(messages))
         /\ dropped' \in BOOLEAN /\ IsSeq(handler')
<1>1. messages # <<>> /\ messages' = Tail(messages) /\ task = Entities!Idle
  BY DEF Entities!Take
<1>2. IsSeq(messages') /\ \A x : InSeq(x, messages) => x = Head(messages) \/ InSeq(x, messages')
  BY <1>1, SeqPop DEF EntityTypes
<1>3. NotesStay(Head(messages))
  BY <1>2 DEF NotesStay, Owed
<1>4. QED
  BY <1>1, <1>2, <1>3 DEF EntityTypes

LEMMA CapsFinite == IsFiniteSet(EntityCaps)
  BY HubPartsAssumption DEF Entities!MqttPubAssumption, Entities!IsFiniteSet, IsFiniteSet

\* PLANT_DELETED and CAP_UNBOUND.
LEMMA GoneStep ==
  ASSUME EntityInv, Entities!PlantDeleted \/ Entities!CapUnbound
  PROVE  EntityInv'
<1> DEFINE m == Head(messages)
<1>1. EntityTypes
  BY DEF EntityInv
<1>2. Entities!Take /\ UNCHANGED <<handler, dropped, plants, lastId, task>>
  BY DEF Entities!PlantDeleted, Entities!CapUnbound, Entities!taskOnly
<1>3. /\ task = Entities!Idle /\ IsSeq(messages') /\ NotesStay(m)
      /\ dropped' \in BOOLEAN /\ IsSeq(handler')
  BY <1>1, <1>2, Takes
<1>4. SameBindings
  BY <1>2, SameTable
<1>5. task'.at = "idle"
  BY <1>2, <1>3 DEF Entities!Idle
<1> HIDE DEF m
<1>6. ASSUME NEW topics, IsFiniteSet(topics), Entities!Clear(topics), m.type # "cap bound",
             \A id \in Entities!Ids, c \in EntityCaps :
               m = DeletedNote(id) \/ m = UnboundNote(id, c) => Entities!PlantForm(id, c) \in topics
      PROVE  EntityInv'
  <2>1. /\ IsSeq(outbox') /\ ClearingsStay
        /\ \A x \in topics : x \in retained' => InSeq(x, outbox)'
    BY <1>1, <1>6, Clears
  <2>2. EntityTypes'
    BY <1>1, <1>2, <1>3, <2>1 DEF EntityTypes, IsTask
  <2>3. \A d, c, id : m # BoundNote(d, c, id)
    BY <1>6, BoundIs
  <2>4. ~ShowsDevices(task')
    BY <1>5 DEF ShowsDevices
  <2>5. QED
    BY <1>3, <1>4, <1>5, <1>6, <2>1, <2>2, <2>3, <2>4, TakenFrame
<1>7. CASE Entities!PlantDeleted
  <2> DEFINE topics == {Entities!PlantForm(m.plant, c) : c \in EntityCaps}
  <2>1. Entities!Clear(topics) /\ m.type = "plant deleted"
    BY <1>7 DEF Entities!PlantDeleted, m
  <2>2. IsFiniteSet(topics)
    <3> DEFINE f == [c \in EntityCaps |-> Entities!PlantForm(m.plant, c)]
    <3>1. f \in Surjection(EntityCaps, topics)
      BY DEF Surjection
    <3>2. QED
      BY <3>1, CapsFinite, FS_Surjection
  <2>3. \A id \in Entities!Ids, c \in EntityCaps :
          m = DeletedNote(id) \/ m = UnboundNote(id, c) => Entities!PlantForm(id, c) \in topics
    <3> SUFFICES ASSUME NEW id \in Entities!Ids, NEW c \in EntityCaps,
                        m = DeletedNote(id) \/ m = UnboundNote(id, c)
                 PROVE  Entities!PlantForm(id, c) \in topics
      OBVIOUS
    <3>1. m # UnboundNote(id, c)
      BY <2>1, UnboundIs
    <3>2. m.plant = id
      BY <3>1, DeletedIs
    <3>3. QED
      BY <3>2
  <2> HIDE DEF topics
  <2>4. QED
    BY <1>6, <2>1, <2>2, <2>3
<1>8. CASE Entities!CapUnbound
  <2> DEFINE topics == {Entities!PlantForm(m.plant, m.cap)}
  <2>1. Entities!Clear(topics) /\ m.type = "cap unbound"
    BY <1>8 DEF Entities!CapUnbound, m
  <2>2. IsFiniteSet(topics)
    BY FS_Singleton
  <2>3. \A id \in Entities!Ids, c \in EntityCaps :
          m = DeletedNote(id) \/ m = UnboundNote(id, c) => Entities!PlantForm(id, c) \in topics
    <3> SUFFICES ASSUME NEW id \in Entities!Ids, NEW c \in EntityCaps,
                        m = DeletedNote(id) \/ m = UnboundNote(id, c)
                 PROVE  Entities!PlantForm(id, c) \in topics
      OBVIOUS
    <3>1. m # DeletedNote(id)
      BY <2>1, DeletedIs
    <3>2. m.plant = id /\ m.cap = c
      BY <3>1, UnboundIs
    <3>3. QED
      BY <3>2
  <2> HIDE DEF topics
  <2>4. QED
    BY <1>6, <2>1, <2>2, <2>3
<1>9. QED
  BY <1>7, <1>8

LEMMA OwnFields ==
  ASSUME NEW a, NEW b, NEW c, NEW d, NEW e, NEW f, NEW g, NEW t,
         t = [at |-> a, of |-> b, caps |-> c, plants |-> d, devs |-> e, covered |-> f, valid |-> g]
  PROVE  /\ t.covered = f
         /\ t = [at |-> t.at, of |-> t.of, caps |-> t.caps, plants |-> t.plants,
                 devs |-> t.devs, covered |-> t.covered, valid |-> t.valid]
<1>1. /\ t.at = a /\ t.of = b /\ t.caps = c /\ t.plants = d /\ t.devs = e /\ t.covered = f
      /\ t.valid = g
  OBVIOUS
<1>2. QED
  BY <1>1

\* DEVICE_CAP_BOUND: the forms of the plant are shown next.
LEMMA CapBoundStep == ASSUME EntityInv, Entities!CapBound PROVE EntityInv'
<1> DEFINE m == Head(messages)
           topics == {Entities!DeviceForm(m.dev, m.cap)}
           next == [Entities!Idle EXCEPT !.plants = {m.plant}]
<1>1. EntityTypes
  BY DEF EntityInv
<1>2. /\ Entities!Take /\ UNCHANGED <<handler, dropped, plants, lastId>>
      /\ m.type = "cap bound" /\ Entities!Clear(topics)
      /\ task' = Entities!Idle \/ task' = Entities!Goes(next)
  BY DEF Entities!CapBound, Entities!taskOnly
<1>3. /\ IsSeq(messages') /\ NotesStay(m) /\ dropped' \in BOOLEAN /\ IsSeq(handler')
  BY <1>1, <1>2, Takes
<1>4. SameBindings
  BY <1>2, SameTable
<1>5. IsTask(task') /\ ~ShowsDevices(task')
      /\ (task'.at = "plant" => task'.caps = Entities!Bindings(task'.of))
  <2>1. CASE task' = Entities!Idle
    BY <2>1 DEF Entities!Idle, IsTask, ShowsDevices
  <2>2. CASE task' = Entities!Goes(next)
    <3>1. /\ next = [at |-> next.at, of |-> next.of, caps |-> next.caps, plants |-> next.plants,
                     devs |-> next.devs, covered |-> next.covered, valid |-> next.valid]
          /\ next.devs = {}
      <4>1. next = [at |-> "idle", of |-> 0, caps |-> {}, plants |-> {m.plant}, devs |-> {},
                    covered |-> {}, valid |-> {}]
        BY DEF Entities!Idle
      <4> HIDE DEF next
      <4>2. QED
        BY <4>1
    <3> HIDE DEF next
    <3>2. QED
      BY <2>2, <3>1, PublishGoesOn
  <2>3. QED
    BY <1>2, <2>1, <2>2
<1> HIDE DEF m
<1>6. IsFiniteSet(topics)
  BY FS_Singleton
<1>7. \A d \in Devices, c \in EntityCaps :
        (\E id \in Entities!Ids : m = BoundNote(d, c, id)) => Entities!DeviceForm(d, c) \in topics
  <2> SUFFICES ASSUME NEW d \in Devices, NEW c \in EntityCaps, NEW id \in Entities!Ids,
                      m = BoundNote(d, c, id)
               PROVE  Entities!DeviceForm(d, c) \in topics
    OBVIOUS
  <2>1. m.dev = d /\ m.cap = c
    BY DEF BoundNote
  <2>2. QED
    BY <2>1
<1> HIDE DEF topics
<1>8. /\ IsSeq(outbox') /\ ClearingsStay
      /\ \A x \in topics : x \in retained' => InSeq(x, outbox)'
  BY <1>1, <1>2, <1>6, Clears
<1>9. EntityTypes'
  BY <1>1, <1>2, <1>3, <1>5, <1>8 DEF EntityTypes
<1>10. \A id, c : m # DeletedNote(id) /\ m # UnboundNote(id, c)
  <2>1. \A id : m # DeletedNote(id)
    BY <1>2, DeletedIs
  <2>2. \A id, c : m # UnboundNote(id, c)
    BY <1>2, UnboundIs
  <2>3. QED
    BY <2>1, <2>2
<1>11. QED
  BY <1>3, <1>4, <1>5, <1>7, <1>8, <1>9, <1>10, TakenFrame

\* RESYNC_DISCOVERY and STATE_UPDATE: no cleanup, and one snapshot of what is covered.
LEMMA SnapshotStep == ASSUME EntityInv, Entities!Resync \/ Entities!Update PROVE EntityInv'
<1> DEFINE m == Head(messages)
<1>1. EntityTypes
  BY DEF EntityInv
<1>2. /\ Entities!Take /\ UNCHANGED <<handler, dropped, outbox, retained>>
      /\ m.type \notin Cleanups
  BY DEF Entities!Resync, Entities!Update, Entities!taskOnly, Cleanups
<1>3. /\ IsSeq(messages') /\ NotesStay(m) /\ dropped' \in BOOLEAN /\ IsSeq(handler')
  BY <1>1, <1>2, Takes
<1>4. /\ lastId' \in 0 .. LastPlant /\ DOMAIN plants' \subseteq 1 .. lastId'
      /\ ArePlants(plants') /\ SameBindings
  <2>1. CASE UNCHANGED <<plants, lastId>>
    BY <1>1, <2>1, SameTable DEF EntityTypes
  <2>2. CASE Entities!Update /\ ~UNCHANGED <<plants, lastId>>
    <3> DEFINE d == m.dev
               own == {id \in DOMAIN plants : plants[id].mac = d}
    <3>1. /\ own = {} /\ (own # {} \/ lastId < LastPlant)
          /\ plants' = Entities!WithPlant(d) /\ lastId' = IF own # {} THEN CHOOSE i \in own : TRUE ELSE lastId + 1
      BY <2>2 DEF Entities!Update
    <3>2. QED
      BY <1>1, <3>1, NewPlant
  <2>3. CASE Entities!Resync
    BY <2>1, <2>3 DEF Entities!Resync
  <2>4. QED
    BY <2>1, <2>2, <2>3
<1>5. IsTask(task') /\ (task'.at = "plant" => task'.caps = Entities!Bindings(task'.of))
      /\ (ShowsDevices(task') => task'.covered = Entities!Covered)
  <2>1. \/ task' = Entities!Idle
        \/ \E t : /\ task' = Entities!Goes(t) /\ t.covered = Entities!Covered
                  /\ t = [at |-> t.at, of |-> t.of, caps |-> t.caps, plants |-> t.plants,
                          devs |-> t.devs, covered |-> t.covered, valid |-> t.valid]
    <3>1. CASE Entities!Resync
      <4> DEFINE t == [Entities!Idle EXCEPT !.plants = DOMAIN plants, !.devs = Devices,
                                            !.covered = Entities!Covered, !.valid = valid]
      <4>1. task' = Entities!Goes(t)
        BY <3>1 DEF Entities!Resync
      <4>2. t.covered = Entities!Covered
            /\ t = [at |-> t.at, of |-> t.of, caps |-> t.caps, plants |-> t.plants,
                    devs |-> t.devs, covered |-> t.covered, valid |-> t.valid]
        <5>1. t = [at |-> "idle", of |-> 0, caps |-> {}, plants |-> DOMAIN plants, devs |-> Devices,
                   covered |-> Entities!Covered, valid |-> valid]
          <6> DEFINE i == Entities!Idle
          <6>0. i = [at |-> "idle", of |-> 0, caps |-> {}, plants |-> {},
                     devs |-> {}, covered |-> {}, valid |-> {}]
            BY DEF Entities!Idle
          <6> HIDE DEF i
          <6> DEFINE a1 == [i EXCEPT !.plants = DOMAIN plants]
          <6>1. a1 = [at |-> "idle", of |-> 0, caps |-> {}, plants |-> DOMAIN plants,
                      devs |-> {}, covered |-> {}, valid |-> {}]
            BY <6>0
          <6> HIDE DEF a1
          <6> DEFINE a2 == [a1 EXCEPT !.devs = Devices]
          <6>2. a2 = [at |-> "idle", of |-> 0, caps |-> {}, plants |-> DOMAIN plants,
                      devs |-> Devices, covered |-> {}, valid |-> {}]
            BY <6>1
          <6> HIDE DEF a2
          <6> DEFINE a3 == [a2 EXCEPT !.covered = Entities!Covered]
          <6>3. a3 = [at |-> "idle", of |-> 0, caps |-> {}, plants |-> DOMAIN plants,
                      devs |-> Devices, covered |-> Entities!Covered, valid |-> {}]
            BY <6>2
          <6> HIDE DEF a3
          <6> DEFINE a4 == [a3 EXCEPT !.valid = valid]
          <6>4. a4 = [at |-> "idle", of |-> 0, caps |-> {}, plants |-> DOMAIN plants,
                      devs |-> Devices, covered |-> Entities!Covered, valid |-> valid]
            BY <6>3
          <6> HIDE DEF a4
          <6>5. QED
            BY <6>4 DEF i, a1, a2, a3, a4
        <5> HIDE DEF t
        <5>2. QED
          BY <5>1, OwnFields
      <4> HIDE DEF t
      <4>3. QED
        BY <4>1, <4>2
    <3>2. CASE Entities!Update
      <4>1. \/ task' = Entities!Idle
            \/ \E ps : task' = Entities!Goes([Entities!Idle EXCEPT !.devs = {m.dev}, !.covered = Entities!Covered,
                                                !.valid = valid, !.plants = ps])
        BY <3>2 DEF Entities!Update
      <4>2. ASSUME NEW ps, task' = Entities!Goes([Entities!Idle EXCEPT !.devs = {m.dev}, !.covered = Entities!Covered,
                                                    !.valid = valid, !.plants = ps])
            PROVE  <2>1
        <5> DEFINE t == [Entities!Idle EXCEPT !.devs = {m.dev}, !.covered = Entities!Covered,
                                                !.valid = valid, !.plants = ps]
        <5>1. task' = Entities!Goes(t)
          BY <4>2
        <5>2. t.covered = Entities!Covered
              /\ t = [at |-> t.at, of |-> t.of, caps |-> t.caps, plants |-> t.plants,
                      devs |-> t.devs, covered |-> t.covered, valid |-> t.valid]
          <6>1. t = [at |-> "idle", of |-> 0, caps |-> {}, plants |-> ps, devs |-> {m.dev},
                     covered |-> Entities!Covered, valid |-> valid]
            <7> DEFINE i == Entities!Idle
            <7>0. i = [at |-> "idle", of |-> 0, caps |-> {}, plants |-> {},
                       devs |-> {}, covered |-> {}, valid |-> {}]
              BY DEF Entities!Idle
            <7> HIDE DEF i
            <7> DEFINE b1 == [i EXCEPT !.devs = {m.dev}]
            <7>1. b1 = [at |-> "idle", of |-> 0, caps |-> {}, plants |-> {},
                        devs |-> {m.dev}, covered |-> {}, valid |-> {}]
              BY <7>0
            <7> HIDE DEF b1
            <7> DEFINE b2 == [b1 EXCEPT !.covered = Entities!Covered]
            <7>2. b2 = [at |-> "idle", of |-> 0, caps |-> {}, plants |-> {},
                        devs |-> {m.dev}, covered |-> Entities!Covered, valid |-> {}]
              BY <7>1
            <7> HIDE DEF b2
            <7> DEFINE b3 == [b2 EXCEPT !.valid = valid]
            <7>3. b3 = [at |-> "idle", of |-> 0, caps |-> {}, plants |-> {},
                        devs |-> {m.dev}, covered |-> Entities!Covered, valid |-> valid]
              BY <7>2
            <7> HIDE DEF b3
            <7> DEFINE b4 == [b3 EXCEPT !.plants = ps]
            <7>4. b4 = [at |-> "idle", of |-> 0, caps |-> {}, plants |-> ps,
                        devs |-> {m.dev}, covered |-> Entities!Covered, valid |-> valid]
              BY <7>3
            <7> HIDE DEF b4
            <7>5. QED
              BY <7>4 DEF i, b1, b2, b3, b4
          <6> HIDE DEF t
          <6>2. QED
            BY <6>1, OwnFields
        <5> HIDE DEF t
        <5>3. QED
          BY <5>1, <5>2
      <4>3. QED
        BY <4>1, <4>2
    <3>3. QED
      BY <3>1, <3>2
  <2>2. CASE task' = Entities!Idle
    BY <2>2 DEF Entities!Idle, IsTask, ShowsDevices
  <2>3. ASSUME NEW t, task' = Entities!Goes(t), t.covered = Entities!Covered,
               t = [at |-> t.at, of |-> t.of, caps |-> t.caps, plants |-> t.plants,
                    devs |-> t.devs, covered |-> t.covered, valid |-> t.valid]
        PROVE  <1>5
    BY <2>3, PublishGoesOn
  <2>4. QED
    BY <2>1, <2>2, <2>3
<1> HIDE DEF m
<1>6. EntityTypes'
  BY <1>1, <1>2, <1>3, <1>4, <1>5 DEF EntityTypes
<1>7. ClearingsStay
  BY <1>2 DEF ClearingsStay
<1>8. /\ \A id, c : m # DeletedNote(id) /\ m # UnboundNote(id, c)
      /\ \A d, c, id : m # BoundNote(d, c, id)
  BY <1>2, NoteTypes
<1>9. QED
  BY <1>3, <1>4, <1>5, <1>6, <1>7, <1>8, TakenFrame

\* What is shown of a plant was bound when it was looked up: if it no longer is, the
\* message waits for this task.
LEMMA PlantEntityStep == ASSUME EntityInv, Entities!PlantEntity PROVE EntityInv'
<1>1. EntityTypes /\ IsTask(task)
  BY DEF EntityInv, EntityTypes
<1>2. UNCHANGED <<handler, dropped, plants, lastId, messages, outbox>> /\ task.at = "plant"
  BY DEF Entities!PlantEntity, Entities!taskOnly
<1>3. SameBindings /\ NotesStay(Resyncing)
  BY <1>2, SameTable DEF NotesStay, Owed
<1>4. /\ \A id, c : GoneOwed(id, c) => GoneOwed(id, c)'
      /\ \A d, c : CoverOwed(d, c) => CoverOwed(d, c)'
  BY <1>2 DEF GoneOwed, CoverOwed, Owed, Entities!Ids
<1>5. CASE task' = Entities!Goes(task) /\ UNCHANGED retained
  <2>1. /\ IsTask(task')
        /\ task'.at = "plant" => task'.caps = Entities!Bindings(task'.of)
        /\ ShowsDevices(task') => task.devs # {} /\ task'.covered = task.covered
    BY <1>1, <1>5, PublishGoesOn DEF IsTask
  <2>2. EntityTypes'
    BY <1>1, <1>2, <2>1 DEF EntityTypes
  <2>3. PlantsShown'
    BY <1>2, <1>3, <1>4, <1>5 DEF EntityInv, PlantsShown, SameBindings, Entities!Ids, Entities!PlantForm
  <2>4. DevicesShown'
    BY <1>2, <1>3, <1>4, <1>5 DEF EntityInv, DevicesShown, SameBindings, Entities!DeviceForm
  <2>5. PlantsAhead'
    BY <1>3, <2>1 DEF PlantsAhead, SameBindings, Entities!Ids
  <2>6. DevicesAhead'
    <3>1. ShowsDevices(task') => ShowsDevices(task)
      BY <1>2, <2>1 DEF ShowsDevices
    <3>2. QED
      BY <1>3, <1>4, <2>1, <3>1 DEF EntityInv, DevicesAhead, SameBindings, ShowsDevices
  <2>7. QED
    BY <2>2, <2>3, <2>4, <2>5, <2>6 DEF EntityInv
<1>6. ASSUME NEW c \in task.caps, Entities!Retain(Entities!PlantForm(task.of, c)),
             task' = [task EXCEPT !.caps = @ \ {c}]
      PROVE  EntityInv'
  <2>1. /\ task'.at = "plant" /\ task'.of = task.of /\ task'.caps \subseteq task.caps
        /\ task'.devs = task.devs /\ task'.covered = task.covered /\ IsTask(task')
    <3>1. task' = [at |-> task.at, of |-> task.of, caps |-> task.caps \ {c}, plants |-> task.plants,
                   devs |-> task.devs, covered |-> task.covered, valid |-> task.valid]
      BY <1>1, <1>6 DEF IsTask
    <3>2. task.caps \subseteq EntityCaps
      BY <1>1, <1>2 DEF IsTask
    <3>3. QED
      BY <1>2, <3>1, <3>2 DEF IsTask
  <2>2. retained' \subseteq retained \cup {Entities!PlantForm(task.of, c)} /\ retained \subseteq retained'
    BY <1>6 DEF Entities!Retain
  <2>3. EntityTypes'
    BY <1>1, <1>2, <2>1 DEF EntityTypes
  <2>4. PlantsShown'
    <3> SUFFICES ASSUME NEW id \in Entities!Ids, NEW k \in EntityCaps, Entities!PlantForm(id, k) \in retained'
                 PROVE  k \in Entities!Bindings(id)' \/ GoneOwed(id, k)' \/ InSeq(Entities!PlantForm(id, k), outbox)'
      BY DEF PlantsShown, Entities!Ids, Entities!PlantForm
    <3>1. CASE Entities!PlantForm(id, k) \in retained
      BY <1>2, <1>3, <1>4, <3>1 DEF EntityInv, PlantsShown, SameBindings
    <3>2. CASE Entities!PlantForm(id, k) = Entities!PlantForm(task.of, c)
      <4>1. id = task.of /\ k = c
        BY <3>2 DEF Entities!PlantForm
      <4>2. k \in Entities!Bindings(id) \/ GoneOwed(id, k)
        BY <1>2, <1>6, <4>1 DEF EntityInv, PlantsAhead
      <4>3. QED
        BY <1>3, <1>4, <4>2 DEF SameBindings
    <3>3. QED
      BY <2>2, <3>1, <3>2
  <2>5. DevicesShown'
    <3>1. \A d, k : Entities!DeviceForm(d, k) \in retained' => Entities!DeviceForm(d, k) \in retained
      BY <2>2 DEF Entities!DeviceForm, Entities!PlantForm
    <3>2. QED
      BY <1>2, <1>3, <1>4, <3>1 DEF EntityInv, DevicesShown, SameBindings, Entities!DeviceForm
  <2>6. PlantsAhead'
    BY <1>2, <1>3, <1>4, <2>1 DEF EntityInv, PlantsAhead, SameBindings, Entities!Ids
  <2>7. DevicesAhead'
    BY <1>2, <1>3, <1>4, <2>1 DEF EntityInv, DevicesAhead, SameBindings, ShowsDevices
  <2>8. QED
    BY <2>3, <2>4, <2>5, <2>6, <2>7 DEF EntityInv
<1>7. task.caps # {} => (CHOOSE i \in task.caps : \A j \in task.caps : i <= j) \in task.caps
  <2>1. task.caps \subseteq Nat
    BY <1>1, <1>2, HubPartsAssumption DEF IsTask, Entities!MqttPubAssumption
  <2>2. QED
    BY <2>1, LeastOf
<1>8. QED
  BY <1>5, <1>6, <1>7 DEF Entities!PlantEntity

\* The same of a device, which is shown unless the snapshot had it covered.
LEMMA DeviceEntityStep == ASSUME EntityInv, Entities!DeviceEntity PROVE EntityInv'
<1>1. EntityTypes /\ IsTask(task)
  BY DEF EntityInv, EntityTypes
<1>2. UNCHANGED <<handler, dropped, plants, lastId, messages, outbox>> /\ task.at = "device"
  BY DEF Entities!DeviceEntity, Entities!taskOnly
<1>3. SameBindings
  BY <1>2, SameTable
<1>4. /\ \A id, c : GoneOwed(id, c) => GoneOwed(id, c)'
      /\ \A d, c : CoverOwed(d, c) => CoverOwed(d, c)'
  BY <1>2 DEF GoneOwed, CoverOwed, Owed, Entities!Ids
<1>5. /\ task' = Entities!Goes(task) \/ \E c : task' = [task EXCEPT !.caps = @ \ {c}]
      /\ \/ retained' \subseteq retained
         \/ \E c : <<task.of, c>> \notin task.covered
                   /\ retained' \subseteq retained \cup {Entities!DeviceForm(task.of, c)}
  <2>1. CASE ~online
    BY <2>1 DEF Entities!DeviceEntity
  <2>2. CASE online
    <3> DEFINE c == CHOOSE i \in task.caps : \A j \in task.caps : i <= j
               e == <<task.of, c>>
               sent == e \in sentDevices
    <3>1. /\ task' = IF task.caps = {c} THEN Entities!Goes(task) ELSE [task EXCEPT !.caps = @ \ {c}]
          /\ IF e \in task.covered
             THEN retained' = IF sent /\ Entities!Alive THEN retained \ {Entities!DeviceForm(task.of, c)} ELSE retained
             ELSE IF sent THEN UNCHANGED retained ELSE Entities!Retain(Entities!DeviceForm(task.of, c))
      BY <2>2 DEF Entities!DeviceEntity
    <3> HIDE DEF c
    <3>2. QED
      BY <3>1 DEF Entities!Retain
  <2>3. QED
    BY <2>1, <2>2
<1>6. /\ IsTask(task')
      /\ task'.at = "plant" => task'.caps = Entities!Bindings(task'.of)
      /\ ShowsDevices(task') => task'.covered = task.covered
  <2>1. CASE task' = Entities!Goes(task)
    BY <1>1, <2>1, PublishGoesOn DEF IsTask
  <2>2. ASSUME NEW c, task' = [task EXCEPT !.caps = @ \ {c}]
        PROVE  <1>6
    <3>1. task' = [at |-> task.at, of |-> task.of, caps |-> task.caps \ {c}, plants |-> task.plants,
                   devs |-> task.devs, covered |-> task.covered, valid |-> task.valid]
      BY <1>1, <2>2 DEF IsTask
    <3>2. task'.at = "device" /\ task'.covered = task.covered
      BY <1>2, <3>1
    <3>3. IsTask(task')
      BY <1>2, <3>1 DEF IsTask
    <3>4. QED
      BY <3>2, <3>3
  <2>3. QED
    BY <1>5, <2>1, <2>2
<1>7. EntityTypes'
  BY <1>1, <1>2, <1>6 DEF EntityTypes
<1>8. PlantsShown'
  <2>1. \A id, c : Entities!PlantForm(id, c) \in retained' => Entities!PlantForm(id, c) \in retained
    BY <1>5 DEF Entities!DeviceForm, Entities!PlantForm
  <2>2. QED
    BY <1>2, <1>3, <1>4, <2>1 DEF EntityInv, PlantsShown, SameBindings, Entities!Ids, Entities!PlantForm
<1>9. PlantsAhead'
  BY <1>3, <1>6 DEF PlantsAhead, SameBindings, Entities!Ids
<1>10. \A d \in Devices, c \in EntityCaps :
         <<d, c>> \in Entities!Covered => <<d, c>> \in task.covered \/ CoverOwed(d, c)
  BY <1>2 DEF EntityInv, DevicesAhead, ShowsDevices
<1>11. DevicesAhead'
  BY <1>3, <1>4, <1>6, <1>10 DEF DevicesAhead, SameBindings, ShowsDevices
<1>12. DevicesShown'
  <2> SUFFICES ASSUME NEW d \in Devices, NEW c \in EntityCaps,
                      Entities!DeviceForm(d, c) \in retained', <<d, c>> \in Entities!Covered
               PROVE  CoverOwed(d, c)' \/ InSeq(Entities!DeviceForm(d, c), outbox)'
    BY <1>3 DEF DevicesShown, SameBindings, Entities!DeviceForm
  <2>1. CASE Entities!DeviceForm(d, c) \in retained
    BY <1>2, <1>4, <2>1 DEF EntityInv, DevicesShown
  <2>2. CASE <<d, c>> \notin task.covered
    BY <1>4, <1>10, <2>2
  <2>3. QED
    BY <1>5, <2>1, <2>2 DEF Entities!DeviceForm
<1>13. QED
  BY <1>7, <1>8, <1>9, <1>11, <1>12 DEF EntityInv

LEMMA EntityStarts == Entities!Init => EntityInv
<1> SUFFICES ASSUME Entities!Init PROVE EntityInv
  OBVIOUS
<1>1. /\ lastId \in {0, 1} /\ plants = [id \in 1 .. lastId |-> [mac |-> 0, dev |-> [c \in EntityCaps |-> 0]]]
      /\ messages = <<>> /\ handler = <<>> /\ outbox = <<>> /\ retained = {} /\ dropped = FALSE
      /\ task = Entities!Idle
  BY DEF Entities!Init
<1>2. LastPlant \in Nat /\ LastPlant # 0
  BY HubPartsAssumption DEF Entities!MqttPubAssumption
<1>3. ArePlants(plants) /\ DOMAIN plants \subseteq 1 .. lastId
  BY <1>1 DEF ArePlants, IsPlant
<1>4. IsTask(task) /\ task.at = "idle" /\ ~ShowsDevices(task)
  BY <1>1 DEF Entities!Idle, IsTask, ShowsDevices
<1>5. EntityTypes
  <2>1. IsSeq(messages) /\ IsSeq(handler) /\ IsSeq(outbox)
    BY <1>1, EmptySeq
  <2>2. (lastId = 0 \/ lastId = 1) /\ dropped = FALSE
    BY <1>1
  <2>4. lastId \in 0 .. LastPlant
    BY <1>2, <2>2
  <2>3. QED
    BY <1>3, <1>4, <2>1, <2>2, <2>4 DEF EntityTypes
<1>6. PlantsShown /\ PlantsAhead /\ DevicesShown /\ DevicesAhead
  BY <1>1, <1>4 DEF PlantsShown, PlantsAhead, DevicesShown, DevicesAhead
<1>7. QED
  BY <1>5, <1>6 DEF EntityInv

LEMMA EntityStep == EntityInv /\ [Entities!Next]_entityVars => EntityInv'
<1> SUFFICES ASSUME EntityInv, [Entities!Next]_entityVars
             PROVE  EntityInv'
  OBVIOUS
<1>1. CASE UNCHANGED entityVars
  <2>1. UNCHANGED <<plants, lastId, messages, handler, task, outbox, retained, dropped>>
    BY <1>1 DEF entityVars
  <2>2. EntityTypes'
    BY <2>1 DEF EntityInv, EntityTypes, IsTask
  <2>3. NotesStay(Resyncing) /\ ClearingsStay
    BY <2>1 DEF NotesStay, Owed, ClearingsStay
  <2>4. QED
    BY <2>1, <2>2, <2>3, SameTable, NoCleanup, EntityFrame
<1>2. CASE Entities!Create \/ Entities!Edit
  BY <1>2, CreateStep, EditStep
<1>3. CASE Entities!Tell \/ Entities!Report
  BY <1>3, TellStep, ShownStep
<1>4. CASE \/ Entities!Connect \/ Entities!ForgetSent \/ Entities!AskResync \/ Entities!Lose
           \/ Entities!Disconnected \/ Entities!Deliver
  BY <1>4, ClientStep
<1>5. CASE Entities!PlantDeleted \/ Entities!CapUnbound
  BY <1>5, GoneStep
<1>6. CASE Entities!CapBound
  BY <1>6, CapBoundStep
<1>7. CASE Entities!Resync \/ Entities!Update
  BY <1>7, SnapshotStep
<1>8. CASE Entities!PlantEntity \/ Entities!DeviceEntity
  BY <1>8, PlantEntityStep, DeviceEntityStep
<1>9. QED
  BY <1>1, <1>2, <1>3, <1>4, <1>5, <1>6, <1>7, <1>8 DEF Entities!Next

-----------------------------------------------------------------------------
(* The parts together *)

\* ZbPermit: the link-key exchange is never left off, whatever calls open the window,
\* fail to, or overlap, whoever joins, and whenever the hub restarts.
THEOREM ExchangeIsRequiredAgain == Spec => []RelaxedIsBounded
<1> DEFINE Inv == Of("permit", PermitInv)
<1>1. Init => Inv
  BY PermitStarts DEF Init, Of
<1>2. Inv /\ [Next]_vars => Inv'
  <2>1. SUFFICES ASSUME Inv, [Next]_vars, follows' = "permit"
                 PROVE  PermitInv'
    BY DEF Of
  <2>2. follows = "permit" /\ [Permit!Next]_permitVars
    BY <2>1 DEF Next, vars, zigbeeVars, permitVars
  <2>3. QED
    BY <2>1, <2>2, PermitStep, HubPartsAssumption DEF Of
<1>3. Inv => RelaxedIsBounded
  <2>1. Grace \in Nat
    BY HubPartsAssumption DEF Permit!ZbPermitAssumption
  <2>2. QED
    BY <2>1 DEF Of, PermitInv, RelaxedIsBounded, Permit!RelaxedIsBounded
<1>4. QED
  BY <1>1, <1>2, <1>3, PTL DEF Spec

\* ZbDevices: what a device says is kept under its own name, however late an answer is
\* and however often addresses change hands, as long as none does while its former
\* owner's join waits or runs.
THEOREM OwnNameKept == Spec => []OwnUnlessRaced
<1> DEFINE Inv == Of("devices", DeviceInv)
<1>1. Init => Inv
  BY DevicesStart DEF Init, Of
<1>2. Inv /\ [Next]_vars => Inv'
  <2>1. SUFFICES ASSUME Inv, [Next]_vars, follows' = "devices"
                 PROVE  DeviceInv'
    BY DEF Of
  <2>2. follows = "devices" /\ [Joined!Next]_deviceVars
    BY <2>1 DEF Next, vars, zigbeeVars, deviceVars
  <2>3. QED
    BY <2>1, <2>2, DeviceStep DEF Of
<1>3. Inv => OwnUnlessRaced
  BY DEF Of, DeviceInv, OwnUnlessRaced, Joined!OwnUnlessRaced, Joined!Owned, EachItsOwn, RecordsOwn,
         Joined!Hub
<1>4. QED
  BY <1>1, <1>2, <1>3, PTL DEF Spec

\* ZbCommand: a command is reported once, on account of its own response, refusal or
\* expiry, and until then somebody has it: although its slot may be claimed for another
\* one between its freeing and the cancelling of its alarm.
THEOREM OutcomeIsOwnAlways == Spec => []OutcomeIsItsOwn
<1> DEFINE Inv == Of("commands", CommandInv)
<1>1. Init => Inv
  BY CommandStarts DEF Init, Of
<1>2. Inv /\ [Next]_vars => Inv'
  <2>1. SUFFICES ASSUME Inv, [Next]_vars, follows' = "commands"
                 PROVE  CommandInv'
    BY DEF Of
  <2>2. follows = "commands" /\ [Command!Next]_commandVars
    BY <2>1 DEF Next, vars, zigbeeVars, commandVars
  <2>3. QED
    BY <2>1, <2>2, CommandStep DEF Of
<1>3. Inv => OutcomeIsItsOwn
  <2> SUFFICES ASSUME CommandInv, NEW c \in Command!Commands, c <= issued, outcome[c] # <<c>>
               PROVE  outcome[c] = <<>> /\ Command!Held(c)
    BY DEF Of, OutcomeIsItsOwn, Command!OutcomeIsItsOwn, CommandInv, Accounted
  <2>1. CASE stack.cmd = c
    BY <2>1 DEF CommandInv, Accounted, Command!Held
  <2>2. CASE \E s \in Slots : slot[s].used /\ slot[s].cmd = c
    BY <2>2 DEF CommandInv, Accounted, SlotsHeld, Command!Held
  <2>3. QED
    BY <2>1, <2>2 DEF CommandInv, Accounted
<1>4. QED
  BY <1>1, <1>2, <1>3, PTL DEF Spec

\* SwarmStore: what a setter returned ESP_OK for is on flash, or something newer, and
\* nothing on flash is newer than the cache: however many setters run, in any order of
\* their phases, with writes that fail and restarts at any point.
THEOREM FlashNeverGoesBack == Spec => []FlashMovesForward
<1> DEFINE Inv == Of("store", StoreInv)
<1>1. Init => Inv
  BY StoreStarts DEF Init, Of
<1>2. Inv /\ [Next]_vars => Inv'
  <2>1. SUFFICES ASSUME Inv, [Next]_vars, follows' = "store"
                 PROVE  StoreInv'
    BY DEF Of
  <2>2. follows = "store" /\ [Membership!Next]_storeVars
    BY <2>1 DEF Next, vars, fileVars, storeVars
  <2>3. QED
    BY <2>1, <2>2, StoreStep DEF Of
<1>3. Inv => FlashMovesForward
  BY DEF Of, StoreInv, FlashMovesForward
<1>4. QED
  BY <1>1, <1>2, <1>3, PTL DEF Spec

\* MqttPub: when nothing is queued, under way or in hand, the broker shows a plant's
\* entity only for what that plant has bound, and a device's only for what no plant
\* has: for every number of plants, devices and capabilities, every queue, and however
\* often the connection is lost, as long as no cleanup was dropped by a full queue.
THEOREM NoEntityOutlives == Spec => []NoOrphan
<1> DEFINE Inv == Of("entities", EntityInv)
<1>1. Init => Inv
  BY EntityStarts DEF Init, Of
<1>2. Inv /\ [Next]_vars => Inv'
  <2>1. SUFFICES ASSUME Inv, [Next]_vars, follows' = "entities"
                 PROVE  EntityInv'
    BY DEF Of
  <2>2. follows = "entities" /\ [Entities!Next]_entityVars
    BY <2>1 DEF Next, vars, entityVars
  <2>3. QED
    BY <2>1, <2>2, EntityStep DEF Of
<1>3. Inv => NoOrphan
  <2> SUFFICES ASSUME EntityInv, Entities!Settled, ~dropped
               PROVE  /\ \A id \in Entities!Ids, c \in EntityCaps :
                           Entities!PlantForm(id, c) \in retained => c \in Entities!Bindings(id)
                      /\ \A d \in Devices, c \in EntityCaps :
                           Entities!DeviceForm(d, c) \in retained => <<d, c>> \notin Entities!Covered
    BY DEF Of, NoOrphan, Entities!NoOrphan
  <2>1. handler = <<>> /\ messages = <<>> /\ outbox = <<>>
    BY DEF Entities!Settled
  <2>2. \A m : ~Owed(m)
    BY <2>1, EmptySeq DEF Owed
  <2>3. /\ \A id, c : ~GoneOwed(id, c)
        /\ \A d, c : ~CoverOwed(d, c)
    BY <2>2 DEF GoneOwed, CoverOwed
  <2>4. \A x : ~InSeq(x, outbox)
    BY <2>1, EmptySeq
  <2>5. QED
    BY <2>3, <2>4 DEF EntityInv, PlantsShown, DevicesShown
<1>4. QED
  BY <1>1, <1>2, <1>3, PTL DEF Spec
=============================================================================
