---------------------------- MODULE TwoLaneQueue ----------------------------
(***************************************************************************)
(* What the actor command queue promises: two first-in-first-out lanes     *)
(* that share one capacity.  The urgent lane is always served first and is *)
(* never displaced; a full queue gives up its oldest ordinary command to   *)
(* make room for an urgent one; nothing is taken after its deadline.       *)
(***************************************************************************)
EXTENDS Integers, Sequences, Subsequences

CONSTANTS
  Commands,  \* everything that may be submitted, each with a deadline
  Capacity

VARIABLES
  urgent,    \* the urgent lane
  ordinary,  \* the ordinary lane
  now

vars == <<urgent, ordinary, now>>

Init == urgent = <<>> /\ ordinary = <<>> /\ now = 0

Room == Len(urgent) + Len(ordinary) < Capacity

SubmitUrgent(c) ==
  /\ Room \/ ordinary # <<>>
  /\ urgent' = Append(urgent, c)
  /\ ordinary' = IF Room THEN ordinary ELSE Tail(ordinary)
  /\ UNCHANGED now

SubmitOrdinary(c) ==
  /\ Room
  /\ ordinary' = Append(ordinary, c)
  /\ UNCHANGED <<urgent, now>>

InTime(lane) == Selected(lane, {i \in DOMAIN lane : lane[i].deadline >= now})

\* Everything overdue is dropped, then the head of the better lane is taken.
Take ==
  LET u == InTime(urgent)
      o == InTime(ordinary)
  IN  /\ UNCHANGED now
      /\ \/ /\ u # <<>>
            /\ urgent' = Tail(u) /\ ordinary' = o
         \/ /\ u = <<>> /\ o # <<>>
            /\ urgent' = u /\ ordinary' = Tail(o)
         \/ /\ u = <<>> /\ o = <<>>
            /\ urgent' = u /\ ordinary' = o

Tick == now' = now + 1 /\ UNCHANGED <<urgent, ordinary>>

Next ==
  \/ \E c \in Commands : SubmitUrgent(c) \/ SubmitOrdinary(c)
  \/ Take
  \/ Tick

Spec == Init /\ [][Next]_vars

=============================================================================
