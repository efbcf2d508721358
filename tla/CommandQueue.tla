---------------------------- MODULE CommandQueue ----------------------------
(***************************************************************************)
(* The bounded command queue of components/actors/actor.c, as operators on *)
(* a sequence of commands.  The C array is compacted after every removal,  *)
(* so array order is arrival order and a sequence says all there is to it. *)
(***************************************************************************)
EXTENDS Integers, SequencesExt, Subsequences

CONSTANT QueueMax  \* ACTOR_QUEUE_MAX

ASSUME CommandQueueAssumption == QueueMax \in Nat \ {0}

\* A safety close (ACTOR_SRC_SAFETY).
Urgent(c) == c.source = "SAFETY"

OrdinaryAt(q) == {i \in DOMAIN q : ~Urgent(q[i])}
UrgentAt(q)   == {i \in DOMAIN q : Urgent(q[i])}

First(indices) == CHOOSE i \in indices : \A j \in indices : i <= j

\* Only a safety close may displace something already queued, and only
\* something that is not a safety close itself.
CanPush(q, c) == Len(q) < QueueMax \/ (Urgent(c) /\ OrdinaryAt(q) # {})

Push(q, c) ==
  IF Len(q) < QueueMax THEN Append(q, c)
  ELSE Append(RemoveAt(q, First(OrdinaryAt(q))), c)

\* A command may still be sent in the second its deadline names.
Unexpired(q, now) == Selected(q, {i \in DOMAIN q : q[i].deadline >= now})

\* Mutant of PickIndex: a safety close waits its turn.
PickOldest(q) == 1

\* Which entry of an unexpired, non-empty queue is sent next.
PickIndex(q) == IF UrgentAt(q) # {} THEN First(UrgentAt(q)) ELSE 1

=============================================================================
