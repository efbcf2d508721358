--------------------------------- MODULE Resync ---------------------------------
(***************************************************************************)
(* Sending over ESP-NOW and finding the hub's channel again                *)
(* (swarm/espnow_link.c, swarm/pairing.c).  send_blocking() waits a short  *)
(* time for the driver's completion, which may come later, in the middle   *)
(* of another task's send.  A resync tunes through the channels, PINGs the *)
(* hub on each, and stores the first one on which a PONG comes back.       *)
(* forward_task and the battery cycle may both be resyncing.               *)
(***************************************************************************)
EXTENDS Naturals, Sequences

CONSTANTS
  Tasks,     \* the tasks of the node that send
  Channels,  \* 1..13
  PongLen,   \* PONG_QUEUE_LEN
  MaxSends   \* bound: sends

ResyncAssumption ==
  /\ Channels \subseteq Nat \ {0} /\ Channels # {}
  /\ PongLen \in Nat \ {0} /\ MaxSends \in Nat

VARIABLES
  link,    \* s_send_issue_seq, s_send_complete_seq, s_last_status, s_send_done, s_send_lock
  driver,  \* frames handed to the driver and not completed
  task,    \* the locals of each task
  resync,  \* s_resync_nonce, s_resync_waiting, s_resync_pong_sem, and a match not yet given
  radio,   \* the node's channel, the stored channel, the hub's channel
  pongs,   \* the hub's s_pong_queue
  acked    \* history: the sends whose frame the hub received

vars == <<link, driver, task, resync, radio, pongs, acked>>

None == 0
AtRest ==
  [pc |-> "idle", ch |-> None, home |-> None, nonce |-> <<>>, id |-> None, ticket |-> None, ok |-> FALSE]
First == CHOOSE c \in Channels : \A d \in Channels : c <= d

Init ==
  /\ link = [issue |-> 0, complete |-> 0, status |-> FALSE, done |-> FALSE, lock |-> {}, sends |-> 0]
  /\ driver = <<>>
  /\ task = [t \in Tasks |-> AtRest]
  /\ resync = [nonce |-> <<>>, waiting |-> FALSE, sem |-> FALSE, matched |-> FALSE]
  /\ radio \in [ch : {First}, stored : {First}, hub : Channels]
  /\ pongs = <<>> /\ acked = {}

Goes(t, pc) == [task EXCEPT ![t].pc = pc]

-----------------------------------------------------------------------------
(* send_blocking() *)

\* Takes the lock, drains the semaphore and takes a ticket; the driver accepts
\* the frame, or refuses it at once and the ticket is given back.
SendFrom(t, pc, after) == \E accepted \in BOOLEAN :
  /\ task[t].pc = pc /\ link.lock = {} /\ link.sends < MaxSends
  /\ link' = [link EXCEPT !.done = FALSE, !.sends = @ + 1,
                          !.lock = IF accepted THEN {t} ELSE {},
                          !.issue = IF accepted THEN @ + 1 ELSE @]
  /\ driver' = IF accepted
               THEN Append(driver, [id |-> link.sends + 1, nonce |-> task[t].nonce, sent |-> "no"])
               ELSE driver
  /\ task' = [task EXCEPT ![t].pc = IF accepted THEN "wait" ELSE after,
                          ![t].id = link.sends + 1, ![t].ticket = link.issue + 1, ![t].ok = FALSE]
  /\ UNCHANGED <<resync, radio, pongs, acked>>

After(t) == IF task[t].ch = None THEN "told" ELSE "answer"

\* Mutant of IsOwn: any completion will do.
IsAny(t) == TRUE

\* The completion that was signalled is the one of this call.
IsOwn(t) == link.complete = task[t].ticket

Woken(t) ==
  /\ task[t].pc = "wait" /\ link.done
  /\ task' = [task EXCEPT ![t].pc = After(t), ![t].ok = IsOwn(t) /\ link.status]
  /\ link' = [link EXCEPT !.done = FALSE, !.lock = {}]
  /\ UNCHANGED <<driver, resync, radio, pongs, acked>>

\* s_send_wait_ms without a completion.
WaitsTooLong(t) ==
  /\ task[t].pc = "wait" /\ ~link.done
  /\ task' = [task EXCEPT ![t].pc = After(t), ![t].ok = FALSE]
  /\ link' = [link EXCEPT !.lock = {}]
  /\ UNCHANGED <<driver, resync, radio, pongs, acked>>

\* A frame of a reading or a check-in, sent on whatever channel is tuned.
SendData(t) == SendFrom(t, "idle", "told")

DataSent(t) ==
  /\ task[t].pc = "told" /\ task' = [task EXCEPT ![t] = AtRest]
  /\ UNCHANGED <<link, driver, resync, radio, pongs, acked>>

-----------------------------------------------------------------------------
(* The driver, the hub, and the receive callback *)

\* The oldest frame goes on the air; the hub acknowledges it and, when it is a
\* PING, queues the answer, dropping the oldest one of a full queue.
Transmit == \E heard \in BOOLEAN, i \in 1..Len(driver) :
  /\ driver[i].sent = "no" /\ \A j \in 1..(i - 1) : driver[j].sent # "no"
  /\ heard => radio.ch = radio.hub
  /\ driver' = [driver EXCEPT ![i].sent = IF heard THEN "acked" ELSE "failed"]
  /\ acked' = IF heard THEN acked \cup {driver[i].id} ELSE acked
  /\ pongs' = IF ~heard \/ driver[i].nonce = <<>> THEN pongs
              ELSE Append(IF Len(pongs) < PongLen THEN pongs ELSE Tail(pongs), driver[i].nonce)
  /\ UNCHANGED <<link, task, resync, radio>>

\* on_send(), in the order the frames were handed over.
OnSend ==
  /\ driver # <<>> /\ Head(driver).sent # "no"
  /\ driver' = Tail(driver)
  /\ link' = [link EXCEPT !.status = Head(driver).sent = "acked", !.complete = @ + 1, !.done = TRUE]
  /\ UNCHANGED <<task, resync, radio, pongs, acked>>

\* The PONG is broadcast and matched against the nonce awaited; the semaphore
\* is given after the lock was released.
Pong == \E heard \in BOOLEAN :
  /\ pongs # <<>> /\ pongs' = Tail(pongs)
  /\ heard => radio.ch = radio.hub /\ ~resync.matched
  /\ resync' = IF heard /\ resync.waiting /\ resync.nonce = Head(pongs)
               THEN [resync EXCEPT !.matched = TRUE] ELSE resync
  /\ UNCHANGED <<link, driver, task, radio, acked>>

GivePong ==
  /\ resync.matched
  /\ resync' = [resync EXCEPT !.matched = FALSE, !.sem = TRUE]
  /\ UNCHANGED <<link, driver, task, radio, pongs, acked>>

-----------------------------------------------------------------------------
(* pairing_node_resync_channel() *)

StartResync(t) ==
  /\ task[t].pc = "idle" /\ link.sends < MaxSends
  /\ task' = [task EXCEPT ![t].pc = "tune", ![t].ch = First, ![t].home = radio.stored]
  /\ UNCHANGED <<link, driver, resync, radio, pongs, acked>>

Later(c) == {d \in Channels : d > c}
NextChannel(t) ==
  IF Later(task[t].ch) = {} THEN Goes(t, "restore")
  ELSE [task EXCEPT ![t].pc = "tune",
                    ![t].ch = CHOOSE d \in Later(@) : \A e \in Later(task[t].ch) : d <= e]

\* A channel that cannot be tuned is passed over.
Tune(t) == \E tuned \in BOOLEAN :
  /\ task[t].pc = "tune"
  /\ radio' = IF tuned THEN [radio EXCEPT !.ch = task[t].ch] ELSE radio
  /\ task' = IF tuned THEN Goes(t, "arm") ELSE NextChannel(t)
  /\ UNCHANGED <<link, driver, resync, pongs, acked>>

\* A nonce that was never drawn before.
Arm(t) == LET nonce == <<t, link.sends>> IN
  /\ task[t].pc = "arm"
  /\ resync' = [resync EXCEPT !.nonce = nonce, !.waiting = TRUE]
  /\ task' = [task EXCEPT ![t].pc = "drain", ![t].nonce = nonce]
  /\ UNCHANGED <<link, driver, radio, pongs, acked>>

Drain(t) ==
  /\ task[t].pc = "drain"
  /\ resync' = [resync EXCEPT !.sem = FALSE]
  /\ task' = Goes(t, "ping")
  /\ UNCHANGED <<link, driver, radio, pongs, acked>>

SendPing(t) == SendFrom(t, "ping", "answer")

\* Only a PING that was acknowledged waits for its PONG, a limited time.
Answered(t) ==
  /\ task[t].pc = "answer"
  /\ \E got \in BOOLEAN :
       /\ got => task[t].ok /\ resync.sem
       /\ resync' = [resync EXCEPT !.waiting = FALSE, !.sem = IF got THEN FALSE ELSE @]
       /\ task' = IF got THEN Goes(t, "store") ELSE NextChannel(t)
  /\ UNCHANGED <<link, driver, radio, pongs, acked>>

\* swarm_store_set_channel()
Store(t) ==
  /\ task[t].pc = "store"
  /\ radio' = [radio EXCEPT !.stored = task[t].ch]
  /\ task' = [task EXCEPT ![t] = AtRest]
  /\ UNCHANGED <<link, driver, resync, pongs, acked>>

\* Nothing found: back to the channel that was stored when the resync began.
Restore(t) == \E tuned \in BOOLEAN :
  /\ task[t].pc = "restore"
  /\ radio' = IF tuned THEN [radio EXCEPT !.ch = task[t].home] ELSE radio
  /\ task' = [task EXCEPT ![t] = AtRest]
  /\ UNCHANGED <<link, driver, resync, pongs, acked>>

-----------------------------------------------------------------------------

TaskStep(t) ==
  \/ Woken(t) \/ WaitsTooLong(t) \/ SendData(t) \/ DataSent(t)
  \/ StartResync(t) \/ Tune(t) \/ Arm(t) \/ Drain(t) \/ SendPing(t) \/ Answered(t)
  \/ Store(t) \/ Restore(t)

Next == Transmit \/ OnSend \/ Pong \/ GivePong \/ (\E t \in Tasks : TaskStep(t))

Spec == Init /\ [][Next]_vars

-----------------------------------------------------------------------------
(* Properties *)

\* A send reported as delivered was delivered: a completion that comes late,
\* during another task's wait, is never taken for that task's own.
OkIsOwn == \A t \in Tasks : task[t].ok => task[t].id \in acked

=============================================================================
