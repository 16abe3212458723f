----------------------------- MODULE EventLoop ------------------------------
(***************************************************************************)
(* The event loop of the client and what runs on it: the scheduler         *)
(* (scheduler/atlas_scheduler.c), the alarms (alarm/atlas_alarm.c), the    *)
(* CoAP client (coap/atlas_coap_client.c), the socket of the CoAP server   *)
(* and the handlers of registration, keepalive and telemetry that use them.*)
(*                                                                         *)
(* File descriptors are numbers the kernel hands out lowest first, so a    *)
(* number closed by one handler is soon another object in the next: the    *)
(* scheduler's list, its select bitmap and the alarm ids all hold numbers. *)
(*                                                                         *)
(* st holds the memory of the program and the descriptor table.  A C       *)
(* function is an operator from states to states; a handler whose outcome  *)
(* depends on data left out here (a status, a count) is an operator from   *)
(* states to sets of states.  phase, pos and bits are the locals of        *)
(* atlas_sched_loop.                                                       *)
(*                                                                         *)
(* Operators with a suffix, such as SchedDel_kept, are faulty variants of  *)
(* the definition after them, used to test the properties.                 *)
(***************************************************************************)
EXTENDS Integers, Sequences, FiniteSets, FiniteSetsExt

CONSTANTS
    MaxFd,    \* descriptors 1 .. MaxFd (the process limit)
    Commands  \* the gateway sends requests to the server of the client

ASSUME EventLoopAssumption ==
    /\ MaxFd \in Nat /\ MaxFd >= 3
    /\ Commands \in BOOLEAN

VARIABLES
    st,     \* [list, open, ready, alarms, reqs, registered, ka_alarm_id,
            \*  push_id, calls]
    phase,  \* "select", "dispatch", or "read" (blocked in read of a timer)
    pos,    \* list index of the entry dispatched last
    bits    \* the fd_set readfds after select

vars == <<st, phase, pos, bits>>

Fds == 1 .. MaxFd
Server == 3  \* the register request of main takes 1 and 2
Kinds == {"register", "keepalive", "telemetry"}

Entry == {e \in [fd : Fds, cb : {"server", "alarm", "coap"}, dirty : {0, 1}] :
              e.cb = "server" => e.fd = Server}
Alarm == [id : Fds, cb : {"request", "register", "keepalive", "push"}]
Request == [fd : Fds, alarm : Fds, kind : Kinds]
State == [list : Seq(Entry), open : SUBSET Fds, ready : SUBSET Fds,
          alarms : SUBSET Alarm, reqs : SUBSET Request, registered : {0, 1},
          ka_alarm_id : Fds \cup {-1, 0}, push_id : Fds \cup {-1},
          calls : [Fds -> Nat]]

TypeOK ==
    /\ st \in State /\ st.ready \subseteq st.open
    /\ phase \in {"select", "dispatch", "read"}
    /\ pos \in 0 .. Len(st.list)
    /\ bits \subseteq Fds
-----------------------------------------------------------------------------
\* The descriptor table.  A number closed in this pass is free at once, though
\* it is still in the list.
Listed(s) == {s.list[i].fd : i \in DOMAIN s.list}
Free(s) == Fds \ s.open
OpenFd(s) == [s EXCEPT !.open = @ \cup {Min(Free(s))}]
CloseFd(s, fd) == [s EXCEPT !.open = @ \ {fd}, !.ready = @ \ {fd}]

\* atlas_sched_add_entry: append to the list.
SchedAdd_once(s, fd, cb) ==
    IF fd \in Listed(s) THEN s
    ELSE [s EXCEPT !.list = Append(@, [fd |-> fd, cb |-> cb, dirty |-> 0])]
SchedAdd(s, fd, cb) ==
    [s EXCEPT !.list = Append(@, [fd |-> fd, cb |-> cb, dirty |-> 0])]

\* atlas_sched_del_entry: mark the first entry with the number, if any.
SchedDel_kept(s, fd) == s
SchedDel_now(s, fd) ==
    [s EXCEPT !.list = SelectSeq(@, LAMBDA e : e.fd # fd)]
SchedDel(s, fd) ==
    LET hits == {i \in DOMAIN s.list : s.list[i].fd = fd}
    IN  IF hits = {} THEN s ELSE [s EXCEPT !.list[Min(hits)].dirty = 1]

\* atlas_alarm_set: -1 when there is no descriptor left, else the timer's.
AlarmId(s) == IF Free(s) = {} THEN -1 ELSE Min(Free(s))
AlarmSet(s, cb) ==
    IF Free(s) = {} THEN s
    ELSE [SchedAdd(OpenFd(s), AlarmId(s), "alarm")
            EXCEPT !.alarms = @ \cup {[id |-> AlarmId(s), cb |-> cb]}]

\* atlas_alarm_cancel: an id that is not in the list is ignored.
AlarmCancel_open(s, id) ==
    SchedDel([s EXCEPT !.alarms = {a \in @ : a.id # id}], id)
AlarmCancel(s, id) ==
    IF \A a \in s.alarms : a.id # id THEN s
    ELSE CloseFd(SchedDel([s EXCEPT !.alarms = {a \in @ : a.id # id}], id), id)

RunOnce(cb) == cb \in {"request", "register"}

\* add_request: the alarm of the request, then the entry of its context.
AddRequest(s, fd, kind) ==
    [SchedAdd(AlarmSet(s, "request"), fd, "coap")
        EXCEPT !.reqs = @ \cup {[fd |-> fd, alarm |-> AlarmId(s), kind |-> kind]},
               !.calls[fd] = 0]

\* atlas_coap_client_request: the context takes a descriptor, then add_request
\* another.  Without the two the request is refused, and it may be refused for
\* other reasons (the address, the session, the PDU); nothing stays open then.
Accepted(s, kind) ==
    IF Free(s) = {} \/ Free(OpenFd(s)) = {} THEN s
    ELSE AddRequest(OpenFd(s), Min(Free(s)), kind)
CoapRequest(s, kind) == {s, Accepted(s, kind)}

\* atlas_telemetry_push: only while registered.
TelemetryPush(s) ==
    IF s.registered = 1 THEN CoapRequest(s, "telemetry") ELSE {s}

\* atlas_telemetry_push_set with a rate: re-arm the alarm of the feature.
PushSet(s) ==
    LET c == AlarmCancel(s, s.push_id)
    IN  [AlarmSet(c, "push") EXCEPT !.push_id = AlarmId(c)]
-----------------------------------------------------------------------------
\* reg_callback: on success the telemetry is pushed and the keepalive alarm
\* set, otherwise a one-shot alarm to try again.
KeepaliveSet(s) == [AlarmSet(s, "keepalive") EXCEPT !.ka_alarm_id = AlarmId(s)]
RegCallback(s, status) ==
    IF status # "ok" THEN {AlarmSet(s, "register")}
    ELSE {KeepaliveSet(p) : p \in TelemetryPush([s EXCEPT !.registered = 1])}

\* keepalive_callback, when the count reaches 0 (module Register).
KeepaliveLost(s) ==
    CoapRequest([AlarmCancel(s, s.ka_alarm_id)
                    EXCEPT !.registered = 0, !.ka_alarm_id = -1], "register")

\* The application callbacks: the states in which one may leave the program.
AppCallback(s, kind, status) ==
    CASE kind = "register"  -> RegCallback(s, status)
      [] kind = "keepalive" -> {s} \cup (IF status = "ok" THEN {}
                                         ELSE KeepaliveLost(s))
      [] kind = "telemetry" -> IF status = "timeout" THEN TelemetryPush(s)
                               ELSE {s}

\* Call the application callback of request r, observed in calls.
Completed(s, r, status) ==
    {[c EXCEPT !.calls[r.fd] = @ + 1] : c \in AppCallback(s, r.kind, status)}

\* Unlink request r, stop watching its descriptor and free its context.
Unlink_kept(s, r) == CloseFd(SchedDel(s, r.fd), r.fd)
Unlink(s, r) ==
    CloseFd(SchedDel([s EXCEPT !.reqs = @ \ {r}], r.fd), r.fd)

\* request_alarm_cb: the callback first, then the request is removed.  The
\* trigger cancels the alarm, which runs once.
RequestAlarm_ignored(s, id) == {s}
RequestAlarm(s, id) ==
    LET rs == {r \in s.reqs : r.alarm = id}
    IN  IF rs = {} THEN {s}
        ELSE UNION {{Unlink(c, r) : c \in Completed(s, r, "timeout")} : r \in rs}

\* coap_client_sched_callback: coap_io_process hands at most one datagram to
\* message_handler; a valid answer calls the callback, then the request is
\* removed and its alarm cancelled.  Datagrams with another token, and the
\* timers of libcoap, have no effect on the request.  An entry left behind by
\* an earlier owner of the number may find no request.
CoapCallback(s, fd) ==
    LET rs == {r \in s.reqs : r.fd = fd}
        io == [s EXCEPT !.ready = @ \ {fd}]
    IN  IF rs = {} THEN {s}
        ELSE {io} \cup
             UNION {{AlarmCancel(Unlink(c, r), r.alarm) :
                        c \in Completed(io, r, "ok") \cup Completed(io, r, "error")} :
                       r \in {q \in rs : fd \in s.ready}}

\* The callbacks of the four kinds of alarm.
AlarmCallback(s, a) ==
    CASE a.cb = "request"   -> RequestAlarm(s, a.id)
      [] a.cb = "register"  -> CoapRequest(s, "register")
      [] a.cb = "keepalive" -> CoapRequest(s, "keepalive")
      [] a.cb = "push"      -> TelemetryPush(s)

\* atlas_alarm_trigger: read the timer, call back, cancel if it runs once.
\* Without an alarm of that number nothing is read.
AlarmTrigger(s, fd) ==
    LET as == {a \in s.alarms : a.id = fd}
        io == [s EXCEPT !.ready = @ \ {fd}]
    IN  IF as = {} THEN {s}
        ELSE UNION {{IF RunOnce(a.cb) THEN AlarmCancel(c, fd) ELSE c :
                        c \in AlarmCallback(io, a)} : a \in as}

\* process_request_handler: a request of the gateway sets the push rate of the
\* feature, asks for it at once (rate 0), or leaves the loop alone.
ProcessRequest(s) == {s, PushSet(s)} \cup TelemetryPush(s)

\* atlas_coap_server_sched_callback
ServerCallback(s) == ProcessRequest([s EXCEPT !.ready = @ \ {Server}])

Callback(s, e) ==
    CASE e.cb = "server" -> ServerCallback(s)
      [] e.cb = "alarm"  -> AlarmTrigger(s, e.fd)
      [] e.cb = "coap"   -> CoapCallback(s, e.fd)
-----------------------------------------------------------------------------
\* atlas_sched_loop: the next entry of this pass to be called.
Due_unchecked == {i \in pos + 1 .. Len(st.list) : st.list[i].dirty = 0}
Due == {i \in pos + 1 .. Len(st.list) : /\ st.list[i].dirty = 0
                                        /\ st.list[i].fd \in bits}

\* The sweep before select removes the entries marked dirty.
Swept(l) ==
    LET kept[i \in 0 .. Len(l)] ==
            IF i = 0 THEN <<>>
            ELSE IF l[i].dirty = 1 THEN kept[i - 1] ELSE Append(kept[i - 1], l[i])
    IN  kept[Len(l)]
Watched == Listed(st)

\* select returns: at least one watched descriptor is readable.
SelectReturns ==
    /\ phase = "select"
    /\ Watched \subseteq st.open
    /\ Watched \cap st.ready # {}
    /\ bits' = Watched \cap st.ready
    /\ phase' = "dispatch"
    /\ pos' = 0
    /\ UNCHANGED st

\* select fails when a watched descriptor is closed, and the loop spins.
Spinning == phase = "select" /\ ~(Watched \subseteq st.open)
SelectFails ==
    /\ Spinning
    /\ UNCHANGED vars

\* Call the next entry and clear its bit.  The timers are blocking: the call
\* waits in read when the timer behind the number has not expired.
Timers(s) == {a.id : a \in s.alarms}
Blocks(e) == e.cb = "alarm" /\ e.fd \in Timers(st) /\ e.fd \notin st.ready

Dispatch ==
    /\ phase = "dispatch"
    /\ Due # {}
    /\ LET e == st.list[Min(Due)]
       IN  IF Blocks(e) THEN phase' = "read" /\ UNCHANGED <<st, bits>>
           ELSE /\ st' \in Callback(st, e)
                /\ bits' = bits \ {e.fd}
                /\ UNCHANGED phase
    /\ pos' = Min(Due)

\* The timer expires and read returns.
ReadReturns ==
    /\ phase = "read"
    /\ ~Blocks(st.list[pos])
    /\ st' \in Callback(st, st.list[pos])
    /\ bits' = bits \ {st.list[pos].fd}
    /\ phase' = "dispatch"
    /\ UNCHANGED pos

\* The pass is over: sweep the list and call select again.
PassEnds ==
    /\ phase = "dispatch"
    /\ Due = {}
    /\ st' = [st EXCEPT !.list = Swept(@)]
    /\ phase' = "select"
    /\ pos' = 0 /\ bits' = {}

\* The environment: a timer expires, a datagram arrives.
BecomesReady(fd) ==
    /\ fd \in st.open \ st.ready
    /\ st' = [st EXCEPT !.ready = @ \cup {fd}]
    /\ UNCHANGED <<phase, pos, bits>>
Expires(fd) == fd \in Timers(st) /\ BecomesReady(fd)
Arrives(fd) ==
    fd \notin Timers(st) /\ (fd = Server => Commands) /\ BecomesReady(fd)

\* main: the register request is issued before the server is started.
Boot == [list |-> <<>>, open |-> {}, ready |-> {}, alarms |-> {}, reqs |-> {},
         registered |-> 0, ka_alarm_id |-> 0, push_id |-> -1,
         calls |-> [fd \in Fds |-> 0]]

Init ==
    /\ st = SchedAdd(OpenFd(Accepted(Boot, "register")), Server, "server")
    /\ phase = "select"
    /\ pos = 0 /\ bits = {}

Loop == SelectReturns \/ SelectFails \/ Dispatch \/ ReadReturns \/ PassEnds

Next ==
    \/ Loop
    \/ \E fd \in Fds : Expires(fd) \/ Arrives(fd)

Spec == Init /\ [][Next]_vars

\* The loop never stops, that is it takes steps for ever or waits again and again
\* (weak fairness of Loop), and every timer that stays set expires.
Waiting ==
    \/ Spinning
    \/ phase = "select" /\ Watched \cap st.ready = {}
    \/ phase = "read" /\ Blocks(st.list[pos])
FairSpec ==
    /\ Spec
    /\ []<>Waiting \/ []<><<Loop>>_vars
    /\ \A fd \in Fds : WF_vars(Expires(fd))
-----------------------------------------------------------------------------
\* atlas_coap_client_request: accepted requests call back exactly once.
Requests == INSTANCE RequestService
    WITH Handles <- Fds, pending <- {r.fd : r \in st.reqs}, calls <- st.calls

ExactlyOnce == Requests!Spec

\* Alarms, requests and descriptors stay in step: every open descriptor but the
\* server's is that of one alarm or of one request, and every request has a
\* one-shot alarm of its own, which nothing else has.
Socks(s) == {r.fd : r \in s.reqs}
InStep(s) ==
    /\ s.open = {Server} \cup Timers(s) \cup Socks(s)
    /\ Server \notin Timers(s) \cup Socks(s) /\ Timers(s) \cap Socks(s) = {}
    /\ \A a, b \in s.alarms : a.id = b.id => a = b
    /\ \A q, r \in s.reqs : q.fd = r.fd \/ q.alarm = r.alarm => q = r
    /\ \A r \in s.reqs : [id |-> r.alarm, cb |-> "request"] \in s.alarms
    /\ \A a \in s.alarms : a.cb = "request" => \E r \in s.reqs : r.alarm = a.id
Owned == InStep(st)

\* atlas_sched_loop: what select is about to watch is exactly what is open, each
\* descriptor once.  It does not hold: see StrayOnlyOnReuse.
WatchedOpen ==
    phase = "select" =>
        /\ Watched = st.open
        /\ \A i, j \in DOMAIN st.list : st.list[i].fd = st.list[j].fd => i = j

\* atlas_sched_del_entry deletes by number, while the list may hold several
\* entries with it: whatever is reused and in whichever order entries are
\* deleted, no open descriptor is left out of select.
NoneUnwatched == phase = "select" => st.open \subseteq Watched

\* atlas_sched_del_entry marks the first entry with the number, so that until the
\* sweep an entry of a closed descriptor that is not deleted has an earlier one
\* with its number: a number that was not reused within the pass is never left
\* to make select fail.
FirstOf(l, i) == \A j \in DOMAIN l : l[j].fd = l[i].fd => i <= j
Shadowed(l, open) ==
    \A i \in DOMAIN l : l[i].dirty = 0 /\ FirstOf(l, i) => l[i].fd \in open
StrayOnlyOnReuse == phase # "select" => Shadowed(st.list, st.open)

\* atlas_sched_loop: the loop blocks in read of a timer only for an entry whose
\* number has an earlier entry in the list, which is one that a handler closed
\* and another got again before the sweep.
BlocksOnlyOnReuse ==
    phase = "read" => \E i \in 1 .. pos - 1 : st.list[i].fd = st.list[pos].fd
-----------------------------------------------------------------------------
\* The parts of the inductive invariant.  The alarm ids that register.c and the
\* telemetry keep are those of their own alarms, never of a later owner.
IdsKept(s) ==
    /\ s.ka_alarm_id \in Fds =>
           [id |-> s.ka_alarm_id, cb |-> "keepalive"] \in s.alarms
    /\ s.push_id \in Fds => [id |-> s.push_id, cb |-> "push"] \in s.alarms

\* Every open descriptor has an entry that is not deleted.
Attended(l, open) ==
    \A fd \in open : \E i \in DOMAIN l : l[i].fd = fd /\ l[i].dirty = 0

Kept(s) ==
    /\ s \in State /\ s.ready \subseteq s.open
    /\ InStep(s) /\ Attended(s.list, s.open) /\ IdsKept(s)

\* The sweep leaves no deleted entry, and a bit that is still set is that of an
\* entry; if that is the first one with its number, its descriptor is ready.
InPass ==
    /\ phase = "select" => \A i \in DOMAIN st.list : st.list[i].dirty = 0
    /\ phase # "select" => bits \subseteq Listed(st)
    /\ phase # "select" =>
           \A i \in pos + 1 .. Len(st.list) :
               /\ FirstOf(st.list, i) /\ st.list[i].dirty = 0
               /\ st.list[i].fd \in bits
               => st.list[i].fd \in st.ready

IInv == TypeOK /\ Kept(st) /\ InPass /\ BlocksOnlyOnReuse /\ StrayOnlyOnReuse
=============================================================================
