-------------------------------- MODULE NodeOta --------------------------------
(***************************************************************************)
(* Firmware update of a node over ESP-NOW (swarm/node_ota.c on the hub,    *)
(* swarm/node_ota_recv.c on the node).  The hub's node_ota task streams    *)
(* its own image in chunks; the node writes them in order, reports how far *)
(* it got, verifies the digest, selects the new image and restarts.        *)
(* Frames to the node land in its queue or are lost, with or without an    *)
(* acknowledgement to the sender; status frames to the hub are broadcast   *)
(* and may be lost or late.  Either side may restart at any point.         *)
(***************************************************************************)
EXTENDS Naturals, Sequences, FiniteSets

CONSTANTS
  Total,          \* chunks in an image
  QueueLen,       \* NODE_OTA_RECV_QUEUE_LEN
  AirLen,         \* bound: status frames under way to the hub
  MaxStalls,      \* NODE_OTA_MAX_STALLS
  MaxSilent,      \* NODE_OTA_DRAIN_MAX_SILENT_PASSES
  FinalizePolls,  \* NODE_OTA_FINALIZE_WAIT_MS / NODE_OTA_FINALIZE_POLL_MS
  MaxSessions,    \* bound: sessions the hub starts
  OnBattery,      \* the sessions started while the node is known to run on battery
  MaxRestarts     \* bound: restarts of the hub and crashes of the node, together

NodeOtaAssumption ==
  /\ Total \in Nat \ {0} /\ QueueLen \in Nat \ {0} /\ AirLen \in Nat \ {0}
  /\ MaxStalls \in Nat \ {0} /\ MaxSilent \in Nat \ {0} /\ FinalizePolls \in Nat
  /\ MaxSessions \in Nat /\ OnBattery \subseteq 1..MaxSessions /\ MaxRestarts \in Nat

VARIABLES
  hub,      \* s_session and the locals of node_ota_task
  gives,    \* callers that saw a parked session and have not given s_park_sem yet
  sem,      \* s_park_sem
  image,    \* the image the hub runs
  node,     \* recv_session_t, the update partition, otadata and the saved marker
  queue,    \* s_queue of the node
  air,      \* status frames the hub has not received yet
  high,     \* history: the furthest offset the node wrote in the hub's session
  installed,\* history: sessions whose whole image the node selected for boot
  restarts  \* restarts so far (bound)

vars == <<hub, gives, sem, image, node, queue, air, high, installed, restarts>>

None == 0   \* no session id, no status, a blank chunk
Blank == [i \in 1..Total |-> None]
Whole(v) == [i \in 1..Total |-> v]

\* A session as node_ota_start() leaves it; "started" numbers the sessions
\* in place of esp_random(), whose 32-bit values are taken to be distinct.
NewSession(parked, id) ==
  [active |-> TRUE, state |-> IF parked THEN "PENDING_WAKE" ELSE "RECEIVING",
   pc |-> IF parked THEN "parked" ELSE "prepare", abort |-> FALSE,
   started |-> id, session |-> None, sent |-> 0, acked |-> 0,
   status |-> <<>>, got |-> FALSE, last |-> <<>>, stalls |-> 0, silent |-> 0, polls |-> 0]

NoSession(id) == [NewSession(FALSE, id) EXCEPT !.active = FALSE, !.state = "NONE", !.pc = "gone"]

NoRecv == [active |-> FALSE, session |-> None, expected |-> None, next |-> 0, stage |-> "idle"]

Init ==
  /\ hub = NoSession(0) /\ gives = {} /\ sem = FALSE /\ image = 1
  /\ node = [recv |-> NoRecv, part |-> Blank, selected |-> FALSE, marker |-> None,
             runs |-> Whole(None), previous |-> Whole(None), pending |-> FALSE]
  /\ queue = <<>> /\ air = <<>>
  /\ high = 0 /\ installed = {}
  /\ restarts = 0

-----------------------------------------------------------------------------
(* The radio *)

\* espnow_link_send() of one frame to the node, which may not hear it or have
\* no room for it; the sender is told at most that the radio acknowledged it.
Arrives(frame, copies) ==
  queue' = IF copies = 1 /\ Len(queue) < QueueLen THEN Append(queue, frame) ELSE queue

\* send_status(): a broadcast, heard by the hub or not.
Reports(id, state, next) ==
  air' \in {air} \cup IF Len(air) = AirLen THEN {}
                      ELSE {Append(air, [session |-> id, state |-> state, next |-> next])}

HubOnly == UNCHANGED <<image, node, high, installed, restarts>>
NodeOnly == UNCHANGED <<hub, gives, sem, image, restarts>>

-----------------------------------------------------------------------------
(* Hub: callers *)

\* node_ota_start() of a known node; park for a node on battery.
Start ==
  /\ ~hub.active /\ hub.started < MaxSessions
  /\ LET parked == hub.started + 1 \in OnBattery
     IN /\ hub' = NewSession(parked, hub.started + 1)
        /\ sem' = (sem /\ ~parked)
  /\ high' = 0
  /\ UNCHANGED <<gives, queue, air, image, node, installed, restarts>>

\* Mutant of Abort: the parked task is left to the next check-in.
AbortFlagOnly ==
  /\ hub.active /\ ~hub.abort
  /\ hub' = [hub EXCEPT !.abort = TRUE]
  /\ UNCHANGED <<gives, sem, queue, air>> /\ HubOnly

\* node_ota_abort() and node_ota_notify_checkin() look under the mutex ...
Abort ==
  /\ hub.active /\ ~hub.abort
  /\ hub' = [hub EXCEPT !.abort = TRUE]
  /\ gives' = IF hub.state = "PENDING_WAKE" THEN gives \cup {"abort"} ELSE gives
  /\ UNCHANGED <<sem, queue, air>> /\ HubOnly

CheckinSeen ==
  /\ hub.active /\ hub.state = "PENDING_WAKE"
  /\ gives' = gives \cup {"checkin"}
  /\ UNCHANGED <<hub, sem, queue, air>> /\ HubOnly

\* ... and give the semaphore after releasing it.
Give ==
  /\ \E g \in gives : gives' = gives \ {g}
  /\ sem' = TRUE
  /\ UNCHANGED <<hub, queue, air>> /\ HubOnly

\* Mutant of Accepts: a report of any session is taken for the active one.
AcceptsAny(st) == hub.active

\* node_ota_handle_status(): a status for the active session, or IDLE.
Accepts(st) == hub.active /\ (st.session = hub.session \/ st.state = "IDLE")

\* The mutex is tried without waiting: a busy mutex drops the status.
HandleStatus ==
  /\ air # <<>> /\ air' = Tail(air)
  /\ \/ /\ Accepts(Head(air))
        /\ hub' = [hub EXCEPT !.status = <<Head(air)>>]
     \/ hub' = hub
  /\ UNCHANGED <<gives, sem, queue>> /\ HubOnly

-----------------------------------------------------------------------------
(* Hub: node_ota_task *)

\* finish_session(); DONE takes both offsets to the end.  The locals of the
\* task go with it, and what the next start clears is cleared here.
Finished(h, state) ==
  [h EXCEPT !.active = FALSE, !.state = state, !.pc = "gone", !.abort = FALSE,
            !.status = <<>>, !.got = FALSE, !.last = <<>>, !.stalls = 0,
            !.silent = 0, !.polls = 0,
            !.sent = IF state = "DONE" THEN Total ELSE @,
            !.acked = IF state = "DONE" THEN Total ELSE @]

AbortFrame == [type |-> "ABORT"]

\* The node is told, and hears it or not.
FailTelling(h) ==
  /\ hub' = Finished(h, "FAILED")
  /\ \E copies \in 0..1 : Arrives(AbortFrame, copies)

FailSilently(h) == hub' = Finished(h, "FAILED") /\ UNCHANGED queue

Unpark ==
  /\ hub.pc = "parked" /\ sem
  /\ sem' = FALSE
  /\ IF hub.abort THEN FailSilently(hub)
     ELSE /\ hub' = [hub EXCEPT !.state = "RECEIVING", !.pc = "prepare"]
          /\ UNCHANGED queue
  /\ UNCHANGED <<gives, air>> /\ HubOnly

\* Partition, image and digest; any of them may fail before the node hears
\* of the session.
Prepare ==
  /\ hub.pc = "prepare"
  /\ IF hub.abort THEN FailSilently(hub)
     ELSE \/ FailSilently(hub)
          \/ /\ hub' = [hub EXCEPT !.session = hub.started, !.pc = "begin"]
             /\ UNCHANGED queue
  /\ UNCHANGED <<gives, sem, air>> /\ HubOnly

BeginFrame == [type |-> "BEGIN", session |-> hub.session, image |-> image]

\* One attempt of send_ota_begin(): repeated until acknowledged or the
\* attempts are used up, and the stream goes on either way.
SendBegin ==
  /\ hub.pc = "begin"
  /\ \E copies \in 0..1, acked \in BOOLEAN, again \in BOOLEAN :
       /\ Arrives(BeginFrame, copies)
       /\ acked => copies = 1 /\ ~again
       /\ hub' = [hub EXCEPT !.pc = IF again THEN "begin" ELSE "top"]
  /\ UNCHANGED <<gives, sem, air>> /\ HubOnly

\* NODE_OTA_TOTAL_TIMEOUT_US is over at the top of the loop.
TotalTimeout ==
  /\ hub.pc = "top" /\ ~hub.abort
  /\ FailTelling(hub)
  /\ UNCHANGED <<gives, sem, air>> /\ HubOnly

\* A report that moves the stream: stall count, acknowledged offset, rewind.
Reconciled(st) ==
  LET advanced == hub.last = <<>> \/ st.next > hub.last[1]
  IN [hub EXCEPT !.status = <<>>, !.got = TRUE, !.pc = "act",
                 !.last = <<st.next>>,
                 !.stalls = IF advanced THEN 0 ELSE @ + 1,
                 !.acked = IF st.next > @ THEN st.next ELSE @,
                 !.sent = IF st.next < @ THEN st.next ELSE @]

\* The first half of a pass: abort, then the status that is waiting.
ReadStatus ==
  /\ hub.pc = "top"
  /\ IF hub.abort THEN FailTelling(hub)
     ELSE IF hub.status = <<>>
       THEN hub' = [hub EXCEPT !.got = FALSE, !.pc = "act"] /\ UNCHANGED queue
     ELSE LET st == hub.status[1]
              read == [hub EXCEPT !.status = <<>>]
          IN CASE st.state = "DONE" -> hub' = Finished(read, "DONE") /\ UNCHANGED queue
               [] st.state = "FAILED" -> FailSilently(read)
               [] st.state = "IDLE" -> FailTelling(read)
               [] OTHER -> IF Reconciled(st).stalls >= MaxStalls THEN FailTelling(read)
                           ELSE hub' = Reconciled(st) /\ UNCHANGED queue
  /\ UNCHANGED <<gives, sem, air>> /\ HubOnly

ChunkFrame == [type |-> "CHUNK", offset |-> hub.sent, image |-> image]

\* The second half: the next chunk; a send that is not acknowledged is
\* repeated, whether or not the node got it.
SendChunk ==
  /\ hub.pc = "act" /\ hub.sent < Total
  /\ \E copies \in 0..1, acked \in BOOLEAN :
       /\ Arrives(ChunkFrame, copies)
       /\ acked => copies = 1
       /\ hub' = [hub EXCEPT !.pc = "top", !.sent = IF acked THEN @ + 1 ELSE @]
  /\ UNCHANGED <<gives, sem, air>> /\ HubOnly

ReadError ==
  /\ hub.pc = "act" /\ hub.sent < Total
  /\ FailTelling(hub)
  /\ UNCHANGED <<gives, sem, air>> /\ HubOnly

\* Everything is acknowledged: ask for the outcome with the same BEGIN.
AwaitFinal ==
  /\ hub.pc = "act" /\ hub.sent >= Total /\ hub.acked >= Total
  /\ IF hub.polls >= FinalizePolls THEN FailTelling(hub)
     ELSE hub' = [hub EXCEPT !.polls = @ + 1, !.pc = "begin"] /\ UNCHANGED queue
  /\ UNCHANGED <<gives, sem, air>> /\ HubOnly

\* Everything is sent, not all acknowledged: wait, up to a number of passes
\* without any status.
Drain ==
  /\ hub.pc = "act" /\ hub.sent >= Total /\ hub.acked < Total
  /\ IF ~hub.got /\ hub.silent + 1 >= MaxSilent THEN FailTelling(hub)
     ELSE /\ hub' = [hub EXCEPT !.silent = IF hub.got THEN 0 ELSE @ + 1, !.pc = "grace"]
          /\ UNCHANGED queue
  /\ UNCHANGED <<gives, sem, air>> /\ HubOnly

\* After NODE_OTA_DRAIN_GRACE_MS without an answer the tail is sent again.
Rewind ==
  /\ hub.pc = "grace"
  /\ hub' = [hub EXCEPT !.pc = "top",
                        !.sent = IF hub.status = <<>> /\ hub.acked < @ THEN hub.acked ELSE @]
  /\ UNCHANGED <<gives, sem, queue, air>> /\ HubOnly

\* The hub restarts, possibly on a new image of its own.
HubRestart ==
  /\ restarts < MaxRestarts
  /\ restarts' = restarts + 1
  /\ hub' = NoSession(hub.started) /\ gives' = {} /\ sem' = FALSE /\ air' = <<>>
  /\ image' \in {image, image + 1}
  /\ UNCHANGED <<node, queue, high, installed>>

-----------------------------------------------------------------------------
(* Node: node_ota_recv_task *)

Receives(type) == queue # <<>> /\ Head(queue).type = type /\ node.recv.stage = "idle"

\* The session of a report, as the node would state it now.
Progress(r) == Reports(r.session, "RECEIVING", r.next)

\* The session is over without an image: what was written of it is garbage
\* until the next esp_ota_begin() erases it.
Dropped == [node EXCEPT !.recv = NoRecv, !.part = Blank]

Retransmit(b) ==
  node.recv.active /\ b.session = node.recv.session /\ b.image = node.recv.expected

\* handle_begin() in each of its cases.
BeginRetransmitted ==
  /\ Receives("BEGIN") /\ Retransmit(Head(queue))
  /\ queue' = Tail(queue)
  /\ Progress(node.recv)
  /\ UNCHANGED <<node, high, installed>> /\ NodeOnly

BeginRefused ==
  /\ Receives("BEGIN") /\ node.recv.active /\ ~Retransmit(Head(queue))
  /\ queue' = Tail(queue)
  /\ Reports(Head(queue).session, "FAILED", 0)
  /\ UNCHANGED <<node, high, installed>> /\ NodeOnly

BeginAlreadyDone ==
  /\ Receives("BEGIN") /\ ~node.recv.active /\ Head(queue).session = node.marker
  /\ queue' = Tail(queue)
  /\ Reports(node.marker, "DONE", Total)
  /\ UNCHANGED <<node, high, installed>> /\ NodeOnly

\* No partition, or esp_ota_begin() fails.
BeginFails ==
  /\ Receives("BEGIN") /\ ~node.recv.active /\ Head(queue).session # node.marker
  /\ queue' = Tail(queue)
  /\ Reports(Head(queue).session, "FAILED", 0)
  /\ UNCHANGED <<node, high, installed>> /\ NodeOnly

\* esp_ota_begin() erases the partition that is not running, and refuses to
\* while the running image is not confirmed; the marker of the session
\* before goes.
Begin ==
  /\ Receives("BEGIN") /\ ~node.recv.active /\ ~node.pending /\ Head(queue).session # node.marker
  /\ queue' = Tail(queue)
  /\ LET b == Head(queue)
         r == [active |-> TRUE, session |-> b.session, expected |-> b.image,
               next |-> 0, stage |-> "idle"]
     IN /\ node' = [node EXCEPT !.recv = r, !.part = Blank, !.marker = None]
        /\ Progress(r)
  /\ UNCHANGED <<high, installed>> /\ NodeOnly

\* handle_chunk() without a session, the reply rate limited.
ChunkUnexpected ==
  /\ Receives("CHUNK") /\ ~node.recv.active
  /\ queue' = Tail(queue)
  /\ \/ Reports(node.marker, IF node.marker = None THEN "IDLE" ELSE "DONE",
                IF node.marker = None THEN 0 ELSE Total)
     \/ UNCHANGED air
  /\ UNCHANGED <<node, high, installed>> /\ NodeOnly

\* The chunk that is due is written and hashed, whoever's image it is from.
\* A status every NODE_OTA_RECV_STATUS_EVERY chunks, and at the end.
ChunkDue ==
  /\ Receives("CHUNK") /\ node.recv.active /\ Head(queue).offset = node.recv.next
  /\ queue' = Tail(queue)
  /\ LET next == node.recv.next + 1
         r == [node.recv EXCEPT !.next = next, !.stage = IF next = Total THEN "end" ELSE "idle"]
     IN \/ /\ node' = [node EXCEPT !.recv = r, !.part[next] = Head(queue).image]
           /\ high' = IF r.session = hub.session /\ next > high THEN next ELSE high
           /\ Progress(r) \/ (next < Total /\ UNCHANGED air)
        \/ /\ node' = Dropped   \* esp_ota_write() failed
           /\ Reports(r.session, "FAILED", node.recv.next)
           /\ UNCHANGED high
  /\ UNCHANGED installed /\ NodeOnly

\* A chunk behind is dropped; one ahead draws a rate-limited status.
ChunkOutOfOrder ==
  /\ Receives("CHUNK") /\ node.recv.active /\ Head(queue).offset # node.recv.next
  /\ queue' = Tail(queue)
  /\ \/ Head(queue).offset > node.recv.next /\ Progress(node.recv)
     \/ UNCHANGED air
  /\ UNCHANGED <<node, high, installed>> /\ NodeOnly

HandleAbort ==
  /\ Receives("ABORT")
  /\ queue' = Tail(queue)
  /\ node' = IF node.recv.active THEN Dropped ELSE node
  /\ UNCHANGED <<air, high, installed>> /\ NodeOnly

\* maybe_send_heartbeat()
Heartbeat ==
  /\ node.recv.active /\ node.recv.stage = "idle" /\ Len(air) < AirLen
  /\ Progress(node.recv)
  /\ UNCHANGED <<node, queue, high, installed>> /\ NodeOnly

\* check_idle_timeout(), only on a turn that found the queue empty.
IdleTimeout ==
  /\ node.recv.active /\ node.recv.stage = "idle" /\ queue = <<>>
  /\ node' = Dropped
  /\ UNCHANGED <<queue, air, high, installed>> /\ NodeOnly

\* Mutant of DigestMatches: what was written is trusted.
DigestTrusted == TRUE

\* finalize_session(): esp_ota_end(), the digest, the boot selection ...
DigestMatches == node.part = Whole(node.recv.expected)

Finalize ==
  /\ node.recv.stage = "end"
  /\ \/ /\ node' = Dropped
        /\ Reports(node.recv.session, "FAILED", node.recv.next)
        /\ UNCHANGED installed
     \/ /\ DigestMatches
        /\ node' = [node EXCEPT !.selected = TRUE, !.recv.stage = "mark"]
        /\ installed' = installed \cup {node.recv.session}
        /\ UNCHANGED air
  /\ UNCHANGED <<queue, high>> /\ NodeOnly

\* ... the marker, whose write may fail and still be in RAM until the restart ...
Mark ==
  /\ node.recv.stage = "mark"
  /\ \E written \in BOOLEAN :
       node' = [node EXCEPT !.recv.active = FALSE, !.recv.stage = "tell",
                            !.marker = IF written THEN node.recv.session ELSE @]
  /\ UNCHANGED <<queue, air, high, installed>> /\ NodeOnly

\* ... DONE, several times over ...
TellDone ==
  /\ node.recv.stage = "tell" /\ Len(air) < AirLen
  /\ Reports(node.recv.session, "DONE", node.recv.next)
  /\ UNCHANGED <<node, queue, high, installed>> /\ NodeOnly

\* ... and the restart.  The bootloader runs the selected image, pending
\* verification; an image that was never confirmed is rolled back.
Booted ==
  LET next == IF node.selected THEN node.part ELSE IF node.pending THEN node.previous ELSE node.runs
  IN [node EXCEPT !.recv = NoRecv, !.part = Blank, !.selected = FALSE, !.runs = next,
                  !.previous = IF node.selected THEN node.runs ELSE next,
                  !.pending = node.selected]

NodeRestart ==
  /\ node.recv.stage = "tell"
  /\ node' = Booted /\ queue' = <<>>
  /\ UNCHANGED <<air, high, installed>> /\ NodeOnly

NodeCrash ==
  /\ restarts < MaxRestarts
  /\ restarts' = restarts + 1
  /\ node' = Booted /\ queue' = <<>>
  /\ UNCHANGED <<hub, gives, sem, image, air, high, installed>>

\* ota_rollback_guard_node_confirm(), from a delivered reading or a PONG.
Confirm ==
  /\ node.pending
  /\ node' = [node EXCEPT !.pending = FALSE, !.previous = node.runs]
  /\ UNCHANGED <<queue, air, high, installed>> /\ NodeOnly

-----------------------------------------------------------------------------

HubStep ==
  \/ Unpark \/ Prepare \/ SendBegin \/ ReadStatus
  \/ SendChunk \/ AwaitFinal \/ Drain \/ Rewind

NodeStep ==
  \/ BeginRetransmitted \/ BeginRefused \/ BeginAlreadyDone \/ BeginFails \/ Begin
  \/ ChunkUnexpected \/ ChunkDue \/ ChunkOutOfOrder \/ HandleAbort
  \/ Finalize \/ Mark \/ NodeRestart

Next ==
  \/ Start \/ Abort \/ CheckinSeen \/ Give \/ HandleStatus
  \/ HubStep \/ TotalTimeout \/ ReadError \/ HubRestart
  \/ NodeStep \/ Heartbeat \/ IdleTimeout \/ TellDone \/ NodeCrash \/ Confirm

Spec == Init /\ [][Next]_vars

-----------------------------------------------------------------------------
(* Properties *)

\* The image the node runs, or would boot next, is one image from end to
\* end: chunks carry no session id (handle_chunk), so a stream of a restarted
\* hub can run into the session of the old one.
NeverBootsMixed ==
  \A img \in {node.runs, node.previous} \cup (IF node.selected THEN {node.part} ELSE {}) :
    \A i, j \in 1..Total : img[i] = img[j]

\* What the hub shows for its session is true of the node: DONE only if the
\* node selected that session's image, and never more acknowledged than the
\* node wrote (node_ota_handle_status, late and foreign reports included).
HubBelievesTruth ==
  /\ hub.state = "DONE" => hub.session \in installed
  /\ hub.session # None /\ hub.state # "DONE" => hub.acked <= high

\* An aborted session does not stay parked: the semaphore the task sleeps on
\* is given, or its giver is on the way (node_ota_abort reads the state under
\* the mutex and gives after it, node_ota_start drains the semaphore).
AbortReachesParked ==
  hub.pc = "parked" /\ hub.abort => sem \/ gives # {}

=============================================================================
