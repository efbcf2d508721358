------------------------------- MODULE ZbDevices -------------------------------
(***************************************************************************)
(* The Zigbee devices of the coordinator (zigbee/zigbee.c, zb_interview.c, *)
(* zb_store.c): announces, the interview of one device at a time with the  *)
(* others queued, the table of what was learnt, and the readings that find *)
(* their device by its short address.  All handlers run on the stack task; *)
(* remove and rename run on the web server's, under the table's mutex.     *)
(* Short addresses are reused by the network.  Every handler that changes  *)
(* the table saves it before it ends; a save is taken to succeed.          *)
(***************************************************************************)
EXTENDS Naturals, Sequences, FiniteSets

CONSTANTS
  Devices,        \* EUI-64s
  Addresses,      \* short addresses the network gives out
  Endpoints,      \* what each device answers: for each of its endpoints, the capabilities there
  MaxRecords,     \* ZB_STORE_MAX_DEVICES: of the table, and of the queue of joins
  MaxRetries,     \* ZB_IV_SIMPLE_DESC_RETRIES
  MaxAnnounces,   \* bound: announces
  MaxReboots      \* bound: restarts

ZbDevicesAssumption ==
  /\ 0 \notin Addresses /\ MaxRecords \in Nat \ {0}
  /\ Endpoints \in [Devices -> Seq(SUBSET STRING)]
  /\ {MaxRetries, MaxAnnounces, MaxReboots} \subseteq Nat

VARIABLES
  holds,     \* the network: the short address of each device (0: it has none)
  store,     \* s_store: what is known of each known device
  queue,     \* s_iv_queue: the joins that wait
  iv,        \* s_iv, s_iv_active, s_iv_generation and the retries of this endpoint
  ticking,   \* s_iv_ticking
  air,       \* requests the stack owes a callback for, or retries that wait
  astray,    \* history: <<sender, device it was taken for>> of readings taken for another's
  raced,     \* history: an address changed hands while its former owner's join waited or ran
  spent      \* announces and restarts so far (bounds)

vars == <<holds, store, queue, iv, ticking, air, astray, raced, spent>>

Off == 0
Record(short, interviewed, caps) == [short |-> short, interviewed |-> interviewed, caps |-> caps]
Interview(active, d, short, gen) ==
  [active |-> active, dev |-> d, short |-> short, gen |-> gen, left |-> <<>>, caps |-> {}, retries |-> 0]
NoInterview(gen) == Interview(FALSE, CHOOSE d \in Devices : TRUE, Off, gen)

Init ==
  /\ holds = [d \in Devices |-> Off] /\ store = [d \in {} |-> Record(Off, FALSE, {})]
  /\ queue = <<>> /\ iv = NoInterview(0) /\ ticking = FALSE /\ air = {}
  /\ astray = {} /\ raced = FALSE
  /\ spent = [announces |-> 0, reboots |-> 0]

\* The addresses, the table, the queue, the interview and the requests, as one
\* handler after the other changes them.
Hub == [holds |-> holds, store |-> store, queue |-> queue, iv |-> iv, air |-> air]
Becomes(h) ==
  holds' = h.holds /\ store' = h.store /\ queue' = h.queue /\ iv' = h.iv /\ air' = h.air

Holder(h, short) == {d \in Devices : short # Off /\ h.holds[d] = short}

\* A request to whatever device holds the address now.
Ask(h, kind) ==
  [h EXCEPT !.air = @ \cup {[gen |-> h.iv.gen, kind |-> kind, from |-> Holder(h, h.iv.short)]}]

-----------------------------------------------------------------------------
(* The interview *)

\* zb_iv_service() with nothing running: the next join in the queue.
StartNext(h) ==
  IF h.iv.active \/ h.queue = <<>> THEN h
  ELSE Ask([h EXCEPT !.queue = Tail(@),
                     !.iv = Interview(TRUE, Head(h.queue).dev, Head(h.queue).short, h.iv.gen + 1)],
           "active_ep")

\* zb_interview_finalize(): a button is no switch.
Finalized(caps) ==
  IF \E c \in caps : c[2] = "button" THEN {c \in caps : c[2] # "switch"} ELSE caps

\* zb_iv_handle_store(): a failed or empty interview does not overwrite what an
\* earlier one learnt, and a full table learns nothing more.
Learnt(h, done) ==
  LET d == h.iv.dev
      new == Record(h.iv.short, done, Finalized(h.iv.caps))
  IN  IF d \in DOMAIN h.store /\ h.store[d].interviewed /\ (~done \/ new.caps = {})
      THEN [h.store[d] EXCEPT !.short = h.iv.short] ELSE new
Stored(h, done) ==
  LET d == h.iv.dev
      room == d \in DOMAIN h.store \/ Cardinality(DOMAIN h.store) < MaxRecords
  IN  IF room THEN [e \in DOMAIN h.store \cup {d} |-> IF e = d THEN Learnt(h, done) ELSE h.store[e]]
      ELSE h.store
Keep(h, done) == StartNext([h EXCEPT !.store = Stored(h, done), !.iv.active = FALSE])

\* zb_interview_step() after an answer: the next endpoint, or the reports are
\* configured (which needs no answer) and the interview is done.
Proceed(h) == IF h.iv.left = <<>> THEN Keep(h, TRUE) ELSE Ask(h, "simple_desc")

\* zb_iv_active_ep_cb().
ActiveEndpoints(h, answer) ==
  IF answer = {} THEN h   \* any status but success: the interview will time out
  ELSE LET d == CHOOSE d \in answer : TRUE
       IN  Proceed([h EXCEPT !.iv.left = [e \in DOMAIN Endpoints[d] |-> e]])

\* zb_iv_simple_desc_cb(): a request that timed out is repeated after a pause; an
\* endpoint that does not answer is skipped.
SimpleDescriptor(h, answer) ==
  LET e == Head(h.iv.left)
      found == UNION {IF e \in DOMAIN Endpoints[d] THEN {<<d, c>> : c \in Endpoints[d][e]} ELSE {} :
                      d \in answer}
  IN  IF answer = {} /\ h.iv.retries < MaxRetries
      THEN [h EXCEPT !.iv.retries = @ + 1,
                     !.air = @ \cup {[gen |-> h.iv.gen, kind |-> "retry", from |-> {}]}]
      ELSE Proceed([h EXCEPT !.iv.left = Tail(@), !.iv.caps = @ \cup found, !.iv.retries = 0])

\* Mutant of Current: a late answer is taken for one of the running interview.
CurrentAny(r) == iv.active

\* An answer to an interview that is over is dropped.
Current(r) == iv.active /\ r.gen = iv.gen

\* The stack calls back with the answer, or with a timeout.
Callback == \E r \in air : \E answer \in {r.from, {}} :
  LET h == [Hub EXCEPT !.air = @ \ {r}] IN
  /\ Becomes(IF ~Current(r) \/ (r.kind # "active_ep" /\ iv.left = <<>>) THEN h
             ELSE CASE r.kind = "active_ep" -> ActiveEndpoints(h, answer)
                    [] r.kind = "simple_desc" -> SimpleDescriptor(h, answer)
                    [] r.kind = "retry" -> Ask(h, "simple_desc"))
  /\ UNCHANGED <<ticking, astray, raced, spent>>

\* zb_iv_tick_cb(): every second while there is work; ZB_IV_TIMEOUT_S without
\* progress end the interview.
Tick == \E expired \in BOOLEAN :
  LET h == IF iv.active /\ expired THEN Keep(Hub, FALSE) ELSE StartNext(Hub) IN
  /\ ticking /\ Becomes(h)
  /\ ticking' = (h.iv.active \/ h.queue # <<>>)
  /\ UNCHANGED <<astray, raced, spent>>

-----------------------------------------------------------------------------
(* Announces *)

\* The device that announces an address is its owner: other records lose it.
Renumbered(d, short) ==
  [e \in DOMAIN store |-> IF e = d THEN [store[e] EXCEPT !.short = short]
                          ELSE IF store[e].short = short THEN [store[e] EXCEPT !.short = Off]
                          ELSE store[e]]

\* zb_iv_enqueue(): a device that is interviewed or waits already only gets its
\* new address; a full queue drops the join.
Enqueue(h, d, short) ==
  IF h.iv.active /\ h.iv.dev = d THEN [h EXCEPT !.iv.short = short]
  ELSE IF \E i \in DOMAIN h.queue : h.queue[i].dev = d
  THEN [h EXCEPT !.queue = [i \in DOMAIN @ |-> IF @[i].dev = d THEN [@[i] EXCEPT !.short = short]
                                               ELSE @[i]]]
  ELSE IF Len(h.queue) >= MaxRecords THEN h
  ELSE StartNext([h EXCEPT !.queue = Append(@, [dev |-> d, short |-> short])])

Waits(d, short) ==
  \/ iv.active /\ iv.dev # d /\ iv.short = short
  \/ \E i \in DOMAIN queue : queue[i].dev # d /\ queue[i].short = short

\* ESP_ZB_ZDO_SIGNAL_DEVICE_ANNCE.  A device that held the address before is off
\* the network.  What joining does to the permit window is ZbPermit's.
Announce == \E d \in Devices, short \in Addresses :
  /\ spent.announces < MaxAnnounces
  /\ spent' = [spent EXCEPT !.announces = @ + 1]
  /\ raced' = (raced \/ Waits(d, short))
  /\ LET held == [e \in Devices |-> IF e = d THEN short ELSE IF holds[e] = short THEN Off ELSE holds[e]]
     IN  Becomes(Enqueue([Hub EXCEPT !.holds = held, !.store = Renumbered(d, short)], d, short))
  /\ ticking' = (ticking \/ iv'.active \/ queue' # <<>>)
  /\ UNCHANGED astray

-----------------------------------------------------------------------------
(* Readings, remotes, and the user *)

\* zb_store_find_by_short(): the first record with the address; any, if several.
FoundBy(short) == {e \in DOMAIN store : store[e].short = short}

\* zb_ingest_reading(): a capability the record does not have is added to it.
Ingested(e, d) ==
  IF \E c \in store[e].caps : c[2] = "sensor" THEN store
  ELSE [store EXCEPT ![e].caps = @ \cup {<<d, "sensor">>}]

\* zb_handle_report_attr(): the reading is the found device's.
Report == \E d \in {d \in Devices : holds[d] # Off} : \E e \in FoundBy(holds[d]) :
  /\ astray' = astray \cup ({<<d, e>>} \ {<<d, d>>}) /\ store' = Ingested(e, d)
  /\ UNCHANGED <<holds, queue, iv, ticking, air, raced, spent>>

\* zb_handle_read_attr_resp(): what zb_read_identity() and the meter poll asked for
\* replaces what the record said.  Each known device is asked again and again.
Answer == \E d \in {d \in Devices : holds[d] # Off} : \E e \in FoundBy(holds[d]) :
  /\ store' = [store EXCEPT ![e].caps = {c \in @ : c[2] # "answer"} \cup {<<d, "answer">>}]
  /\ UNCHANGED <<holds, queue, iv, ticking, air, astray, raced, spent>>

\* knob_reclassify(): what sends button commands is no switch.
Reclassified(e, d) ==
  [store EXCEPT ![e].caps = {c \in @ : c[2] # "switch"} \cup
     (IF \E c \in @ : c[2] = "button" THEN {} ELSE {<<d, "button">>})]

\* zb_rawcmd_handler().
Knob == \E d \in {d \in Devices : holds[d] # Off} : \E e \in FoundBy(holds[d]) :
  /\ astray' = astray \cup ({<<d, e>>} \ {<<d, d>>}) /\ store' = Reclassified(e, d)
  /\ UNCHANGED <<holds, queue, iv, ticking, air, raced, spent>>

\* zigbee_device_remove(): the record goes; the device is asked to leave, and may
\* not.  A join of it that waits or runs is left alone.
Remove == \E d \in DOMAIN store : \E leaves \in {FALSE, holds[d] # Off} :
  /\ store' = [e \in DOMAIN store \ {d} |-> store[e]]
  /\ holds' = IF leaves THEN [holds EXCEPT ![d] = Off] ELSE holds
  /\ UNCHANGED <<queue, iv, ticking, air, astray, raced, spent>>

\* zigbee_start(): the table as saved; joins that waited are forgotten.
Reboot ==
  /\ spent.reboots < MaxReboots
  /\ spent' = [spent EXCEPT !.reboots = @ + 1]
  /\ queue' = <<>> /\ iv' = NoInterview(0) /\ ticking' = FALSE /\ air' = {}
  /\ UNCHANGED <<holds, store, astray, raced>>

-----------------------------------------------------------------------------

Next == Callback \/ Tick \/ Announce \/ Report \/ Answer \/ Knob \/ Remove \/ Reboot

Spec == Init /\ [][Next]_vars

-----------------------------------------------------------------------------
(* Properties *)

Owned ==
  /\ astray = {}
  /\ \A d \in DOMAIN store : \A c \in store[d].caps : c[1] = d

\* What a device says, to the interview or in a reading, is kept under its own
\* name, however late an answer is and however often addresses change hands, as
\* long as none does while its former owner's join waits or runs.
OwnUnlessRaced == ~raced => Owned
=============================================================================
