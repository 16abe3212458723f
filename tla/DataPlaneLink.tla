--------------------------- MODULE DataPlaneLink ----------------------------
(***************************************************************************)
(* The client and the application on the device that uses its API: the     *)
(* connector of the client (data_plane_connector/                          *)
(* atlas_data_plane_connector.c) and the library of the application        *)
(* (data_plane/atlas_client.c), two processes joined by a SEQPACKET unix   *)
(* socket, each of which may die and be started again.                     *)
(*                                                                         *)
(* The client is single threaded, so a handler of the connector is one     *)
(* action.  The application has one thread that runs atlas_init and, from  *)
(* then on, a statistics thread (which reconnects) and a thread that asks  *)
(* for reputations; they share the socket fd and no lock, so each write    *)
(* and each read is an action of its own.                                  *)
(*                                                                         *)
(* A process of the application is known by its number, which also stands  *)
(* for the firewall policy it installs; a reputation request by its tag.   *)
(*                                                                         *)
(* Operators with a suffix, such as AfterReply_kept, are faulty variants   *)
(* of the definition after them, used to test the properties.              *)
(***************************************************************************)
EXTENDS Integers, Sequences, FiniteSets, FiniteSetsExt

CONSTANTS
    MaxDp,      \* bound: processes of the application, one after the other
    MaxConn,    \* bound: connections that exist at a time
    MaxQuery,   \* bound: reputation requests of a process
    MaxCrash,   \* bound: crashes of the client
    MaxQueue,   \* packets a socket holds before a write to it blocks
    MaxPolicy,  \* bound: policy requests and policy alarms outstanding
    Faults      \* "refused": CoAP requests and alarms may be refused
                \* "accept": accept may fail
                \* "error": the gateway may fail to confirm a policy
                \* "register": it may make the client register again
                \* "malformed": it may answer without a reputation
                \* "several": it may answer with more than one

ASSUME DataPlaneLinkAssumption ==
    /\ {MaxDp, MaxConn, MaxQueue, MaxPolicy} \subseteq Nat \ {0}
    /\ {MaxQuery, MaxCrash} \subseteq Nat
    /\ Faults \subseteq {"refused", "accept", "error", "register", "malformed",
                        "several"}

VARIABLES
    link,  \* [Conns -> [dEnd, cEnd, toC, toD]]: the connections
    cl,    \* the client: [alive, csock, watched, backlog, reps, more, active,
           \*  pol, polReqs, polAlarms, confirmed, dropped]
    dp,    \* the application: [inc, pc, depth, fd, id, qpc, q, rfd, ans, owed,
           \*  again]
    crash  \* crashes of the client so far

vars == <<link, cl, dp, crash>>

Conns == 1 .. MaxConn
None == 0
Procs == 1 .. MaxDp
Tags == Procs \X (1 .. MaxQuery)
NoTag == <<0, 0>>

ToClient == [type : {"policy"}, val : Procs] \cup [type : {"rep"}, val : Tags]
            \cup [type : {"get_identity", "statistics", "feedback"},
                  val : {NoTag}]
ToApp == [type : {"rep"}, val : Tags] \cup [type : {"identity"}, val : {NoTag}]

Connection ==
    [dEnd : BOOLEAN, cEnd : {"closed", "queued", "open"},
     toC : Seq(ToClient), toD : Seq(ToApp)]
Client ==
    [alive : BOOLEAN, csock : Conns \cup {None}, watched : SUBSET Conns,
     backlog : Seq(Conns), reps : SUBSET Tags, more : Tags \cup {NoTag},
     active : {0, 1},
     pol : Procs \cup {0}, polReqs : [Procs -> Nat], polAlarms : Nat,
     confirmed : SUBSET Procs, dropped : BOOLEAN]
App ==
    [inc : Procs \cup {0},
     pc : {"down", "connect", "policy", "getid", "readid", "stats", "sleep"},
     depth : Nat, fd : Conns \cup {None}, id : {"unset", "set", "null"},
     qpc : {"off", "idle", "written", "read", "feedback"}, q : 0 .. MaxQuery,
     rfd : Conns \cup {None}, ans : Tags \cup {NoTag}, owed : SUBSET Tags,
     again : SUBSET Tags]

TypeOK ==
    /\ link \in [Conns -> Connection] /\ cl \in Client /\ dp \in App
    /\ crash \in 0 .. MaxCrash
-----------------------------------------------------------------------------
\* The state of a client process before it has heard from an application.
Fresh(alive) ==
    [alive |-> alive, csock |-> None, watched |-> {}, backlog |-> <<>>,
     reps |-> {}, more |-> NoTag, active |-> 0, pol |-> 0,
     polReqs |-> [v \in Procs |-> 0], polAlarms |-> 0,
     confirmed |-> {}, dropped |-> FALSE]

Init ==
    /\ link = [c \in Conns |-> [dEnd |-> FALSE, cEnd |-> "closed",
                                toC |-> <<>>, toD |-> <<>>]]
    /\ cl = Fresh(TRUE)
    /\ dp = [inc |-> 0, pc |-> "down", depth |-> 0, fd |-> None,
             id |-> "unset", qpc |-> "off", q |-> 0, rfd |-> None,
             ans |-> NoTag, owed |-> {}, again |-> {}]
    /\ crash = 0

\* The socket.  An end that is closed with packets unread resets the other:
\* its next read fails, whatever is queued for it.
CloseD(l, c) == IF c = None THEN l ELSE [l EXCEPT ![c].dEnd = FALSE]
CloseC(l, c) == IF c = None THEN l ELSE [l EXCEPT ![c].cEnd = "closed"]
FreeConns == {c \in Conns \ {dp.rfd} : ~link[c].dEnd /\ link[c].cEnd = "closed"}
ClientReads(c) ==
    link[c].toC # <<>> /\ (link[c].dEnd \/ link[c].toD = <<>>)
ClientReadFails(c) == ~link[c].dEnd /\ ~ClientReads(c)
AppReads(c) ==
    link[c].toD # <<>> /\ (link[c].cEnd # "closed" \/ link[c].toC = <<>>)
-----------------------------------------------------------------------------
\* The application: write_to_socket of packet m succeeds, or fails because
\* there is no connection or the client has closed it.  Until the MQTT library
\* makes the process ignore the signal, such a write may also end it: DpDies.
WriteOk(m) ==
    /\ dp.fd # None
    /\ link[dp.fd].cEnd # "closed"
    /\ Len(link[dp.fd].toC) < MaxQueue
    /\ link' = [link EXCEPT ![dp.fd].toC = Append(@, m)]
WriteFails == dp.fd # None => link[dp.fd].cEnd = "closed"

\* write_to_socket_retry on a failed write: socket_connect closes the socket.
\* depth counts the policy writes interrupted by it, which are repeated.
Reconnect(depth) ==
    /\ WriteFails
    /\ link' = CloseD(link, dp.fd)
    /\ dp' = [dp EXCEPT !.pc = "connect", !.fd = None, !.depth = depth]

\* main of the application calls atlas_init.
DpStart ==
    /\ dp.pc = "down" /\ dp.inc < MaxDp
    /\ dp' = [dp EXCEPT !.inc = @ + 1, !.pc = "connect"]
    /\ UNCHANGED <<link, cl, crash>>

\* The tag of the last request, and what is owed to the application once it
\* has stopped waiting for it: the requests that have had no answer, and those
\* in again, which the gateway answers more than once.
Tag == <<dp.inc, dp.q>>
OwedNow == dp.owed \cup IF dp.qpc \in {"written", "read"} THEN {Tag} ELSE {}

\* The process ends, with all its sockets.
Ended == [dp EXCEPT !.pc = "down", !.depth = 0, !.fd = None, !.id = "unset",
                    !.qpc = "off", !.q = 0, !.rfd = None, !.ans = NoTag,
                    !.owed = OwedNow]
DpDies ==
    /\ dp.pc # "down"
    /\ link' = CloseD(link, dp.fd)
    /\ dp' = Ended
    /\ UNCHANGED <<cl, crash>>

\* socket_connect goes on to send_registration_command on every connection.
AfterConnect_resumes == IF dp.qpc = "off" THEN "policy" ELSE "stats"
AfterConnect == "policy"

\* socket_connect: connect is retried until the client listens and has room
\* in its backlog of listen(fd, 1).
Connect ==
    /\ dp.pc = "connect"
    /\ cl.alive
    /\ Len(cl.backlog) < 2
    /\ FreeConns # {}
    /\ LET c == Min(FreeConns)
       IN  /\ link' = [link EXCEPT ![c] = [dEnd |-> TRUE, cEnd |-> "queued",
                                           toC |-> <<>>, toD |-> <<>>]]
           /\ cl' = [cl EXCEPT !.backlog = Append(@, c)]
           /\ dp' = [dp EXCEPT !.pc = AfterConnect, !.fd = c]
    /\ UNCHANGED crash

\* send_registration_command, the last step of socket_connect.  Afterwards the
\* interrupted writes are repeated: the policy of each interrupted
\* socket_connect, then the packet of the caller.
AfterPolicy_again == [dp EXCEPT !.depth = @ - 1]
AfterPolicy ==
    IF dp.depth > 0 THEN [dp EXCEPT !.depth = @ - 1]
    ELSE [dp EXCEPT !.pc = IF dp.qpc = "off" THEN "getid" ELSE "stats"]
WritePolicy ==
    /\ dp.pc = "policy"
    /\ \/ WriteOk([type |-> "policy", val |-> dp.inc]) /\ dp' = AfterPolicy
       \/ Reconnect(dp.depth + 1)
    /\ UNCHANGED <<cl, crash>>

\* send_identity_command: ask, then read one packet.  A packet of another type
\* leaves the identity NULL and the status OK.
WriteGetIdentity ==
    /\ dp.pc = "getid"
    /\ \/ /\ WriteOk([type |-> "get_identity", val |-> NoTag])
          /\ dp' = [dp EXCEPT !.pc = "readid"]
       \/ Reconnect(0)
    /\ UNCHANGED <<cl, crash>>

ReadIdentity ==
    /\ dp.pc = "readid"
    /\ AppReads(dp.fd)
    /\ LET m == Head(link[dp.fd].toD)
       IN  dp' = [dp EXCEPT !.pc = "stats", !.qpc = "idle",
                            !.id = IF m.type = "identity" THEN "set" ELSE "null"]
    /\ link' = [link EXCEPT ![dp.fd].toD = Tail(@)]
    /\ UNCHANGED <<cl, crash>>

\* The read times out after 5 s or fails: atlas_init fails, main exits.
ReadIdentityFails_ok ==
    /\ dp.pc = "readid"
    /\ ~AppReads(dp.fd)
    /\ dp' = [dp EXCEPT !.pc = "stats", !.qpc = "idle", !.id = "null"]
    /\ UNCHANGED <<link, cl, crash>>
ReadIdentityFails ==
    /\ dp.pc = "readid"
    /\ ~AppReads(dp.fd)
    /\ link' = CloseD(link, dp.fd)
    /\ dp' = Ended
    /\ UNCHANGED <<cl, crash>>

\* The statistics thread: send_statistics_command every 60 s.
WriteStatistics ==
    /\ dp.pc = "stats"
    /\ \/ /\ WriteOk([type |-> "statistics", val |-> NoTag])
          /\ dp' = [dp EXCEPT !.pc = "sleep"]
       \/ Reconnect(0)
    /\ UNCHANGED <<cl, crash>>
Wake ==
    /\ dp.pc = "sleep"
    /\ dp' = [dp EXCEPT !.pc = "stats"]
    /\ UNCHANGED <<link, cl, crash>>

\* atlas_reputation_feedback: a write without retry, whose failure is ignored;
\* none when no device was heard.  One packet stands for those of a window.
WriteFeedback ==
    /\ dp.qpc = "feedback"
    /\ \/ WriteOk([type |-> "feedback", val |-> NoTag])
       \/ UNCHANGED link
    /\ dp' = [dp EXCEPT !.qpc = "idle"]
    /\ UNCHANGED <<cl, crash>>

\* atlas_reputation_request: write without retry, then read one packet from
\* what fd is by then.  The window and its feedback follow in any case.
WriteRequest ==
    /\ dp.qpc = "idle" /\ dp.q < MaxQuery
    /\ \/ /\ WriteOk([type |-> "rep", val |-> <<dp.inc, dp.q + 1>>])
          /\ dp' = [dp EXCEPT !.qpc = "written", !.q = @ + 1, !.ans = NoTag]
       \/ /\ WriteFails
          /\ dp' = [dp EXCEPT !.qpc = "feedback", !.ans = NoTag]
          /\ UNCHANGED link
    /\ UNCHANGED <<cl, crash>>

GivesUp == [dp EXCEPT !.qpc = "feedback", !.rfd = None, !.owed = OwedNow]

BeginRead ==
    /\ dp.qpc = "written"
    /\ dp' = IF dp.fd = None THEN GivesUp
             ELSE [dp EXCEPT !.qpc = "read", !.rfd = dp.fd]
    /\ UNCHANGED <<link, cl, crash>>

ReadReply ==
    /\ dp.qpc = "read"
    /\ AppReads(dp.rfd)
    /\ LET m == Head(link[dp.rfd].toD)
       IN  dp' = [GivesUp EXCEPT !.ans = m.val,
                                 !.owed = @ \ ({m.val} \ dp.again)]
    /\ link' = [link EXCEPT ![dp.rfd].toD = Tail(@)]
    /\ UNCHANGED <<cl, crash>>

\* The read times out after 5 s or fails.
ReadReplyFails ==
    /\ dp.qpc = "read"
    /\ ~AppReads(dp.rfd)
    /\ dp' = GivesUp
    /\ UNCHANGED <<link, cl, crash>>
-----------------------------------------------------------------------------
\* The client.  Its handlers run one at a time: none starts while the packets of
\* an answer are being written.
Ready == cl.alive /\ cl.more = NoTag

\* Its process ends: every socket is closed.
AllClosed(l) == [c \in Conns |-> [l[c] EXCEPT !.cEnd = "closed"]]
Gone == cl' = Fresh(FALSE) /\ link' = AllClosed(link)

\* write(connected_socket, ...) in a handler that leaves client s and links l.
\* The result is only logged, but the signal of a write to an application that
\* is gone ends the client, unless a reset is pending, which the write returns.
ClientWrite(s, l, m) ==
    IF s.csock = None THEN cl' = s /\ link' = l
    ELSE LET k == l[s.csock]
         IN  CASE k.dEnd ->
                    cl' = s /\ link' = [l EXCEPT ![s.csock].toD = Append(@, m)]
               [] ~k.dEnd /\ k.toD # <<>> ->
                    cl' = s /\ link' = [l EXCEPT ![s.csock].toD = <<>>]
               [] ~k.dEnd /\ k.toD = <<>> -> Gone

\* send_policy_command from state s: nothing without a policy, else a CoAP
\* request with the policy of the moment, which may be refused at once.
Refused(s) == IF "refused" \in Faults THEN {[s EXCEPT !.dropped = TRUE]} ELSE {}
send_policy_command(s) ==
    IF s.active = 0 THEN {s}
    ELSE {[s EXCEPT !.polReqs[s.pol] = @ + 1]} \cup Refused(s)
PolicyRoom ==
    cl.polAlarms + MapThenSumSet(LAMBDA v : cl.polReqs[v], Procs) < MaxPolicy

\* atlas_data_plane_accept_cb: the old connection is closed first.
Kept_all(c) == cl.watched
Kept(c) == cl.watched \ {c}
Accept ==
    /\ Ready /\ cl.backlog # <<>>
    /\ LET c == Head(cl.backlog)
       IN  /\ link' = [CloseC(link, cl.csock) EXCEPT ![c].cEnd = "open"]
           /\ cl' = [cl EXCEPT !.csock = c, !.watched = Kept(cl.csock) \cup {c},
                               !.backlog = Tail(@)]
    /\ UNCHANGED <<dp, crash>>
AcceptFails ==
    /\ "accept" \in Faults
    /\ Ready /\ cl.backlog # <<>>
    /\ link' = CloseC(link, cl.csock)
    /\ cl' = [cl EXCEPT !.csock = None, !.watched = Kept(cl.csock)]
    /\ UNCHANGED <<dp, crash>>

\* atlas_data_plane_read_cb, one action for each type of packet.
Reads(c, type) ==
    /\ Ready /\ c \in cl.watched
    /\ ClientReads(c)
    /\ Head(link[c].toC).type = type
    /\ UNCHANGED <<dp, crash>>
Popped(c) == [link EXCEPT ![c].toC = Tail(@)]

\* atlas_data_plane_parse_policy
ReadPolicy(c) ==
    /\ Reads(c, "policy")
    /\ PolicyRoom
    /\ cl' \in send_policy_command([cl EXCEPT !.active = 1,
                                              !.pol = Head(link[c].toC).val])
    /\ link' = Popped(c)

\* atlas_feature_reputation_handle
ReadRequest(c) ==
    /\ Reads(c, "rep")
    /\ cl' \in {[cl EXCEPT !.reps = @ \cup {Head(link[c].toC).val}]}
                \cup (IF "refused" \in Faults THEN {cl} ELSE {})
    /\ link' = Popped(c)

\* atlas_data_plane_identity
ReadGetIdentity(c) ==
    /\ Reads(c, "get_identity")
    /\ ClientWrite(cl, Popped(c), [type |-> "identity", val |-> NoTag])

\* set_packets_per_min, set_packets_avg: only telemetry looks at them.
ReadStatistics(c) ==
    /\ Reads(c, "statistics")
    /\ link' = Popped(c)
    /\ UNCHANGED cl

\* The read fails: the entry is removed, the socket stays open and connected.
ReadFails(c) ==
    /\ Ready /\ c \in cl.watched
    /\ ClientReadFails(c)
    /\ cl' = [cl EXCEPT !.watched = Kept(c)]
    /\ link' = [link EXCEPT ![c].toD = <<>>]
    /\ UNCHANGED <<dp, crash>>

\* feature_reputation_callback: the reputation, or an error, goes to the
\* connection of the moment; a malformed answer of the gateway goes nowhere.
\* Of an answer with several reputations each goes in a packet of its own, and
\* the application may do anything between them: two stand for any number.
AfterReply_kept(t) == cl
AfterReply(t) == [cl EXCEPT !.reps = @ \ {t}]
Reputation(t) == [type |-> "rep", val |-> t]
ReputationCallback(t) ==
    /\ Ready /\ t \in cl.reps
    /\ \/ ClientWrite(AfterReply(t), link, Reputation(t)) /\ UNCHANGED dp
       \/ "malformed" \in Faults /\ cl' = AfterReply(t) /\ UNCHANGED <<link, dp>>
       \/ /\ "several" \in Faults
          /\ ClientWrite([AfterReply(t) EXCEPT !.more = t], link, Reputation(t))
          /\ dp' = [dp EXCEPT !.again = @ \cup {t}]
    /\ UNCHANGED crash
NextReputation ==
    /\ cl.more # NoTag
    /\ ClientWrite([cl EXCEPT !.more = NoTag], link, Reputation(cl.more))
    /\ UNCHANGED <<dp, crash>>

\* policy_callback for a request that carried policy v.
Over(v) == [cl EXCEPT !.polReqs[v] = @ - 1]
PolicyCallbackOk(v) ==
    /\ Ready /\ cl.polReqs[v] > 0
    /\ cl' = [Over(v) EXCEPT !.confirmed = @ \cup {v}]
    /\ UNCHANGED <<link, dp, crash>>
Retry_dropped(s) == s
Retry(s) == [s EXCEPT !.polAlarms = @ + 1]
PolicyCallbackError(v) ==
    /\ "error" \in Faults
    /\ Ready /\ cl.polReqs[v] > 0
    /\ cl' \in {Retry(Over(v))} \cup Refused(Over(v))
    /\ UNCHANGED <<link, dp, crash>>

\* policy_alarm_callback
PolicyAlarmCallback ==
    /\ Ready /\ cl.polAlarms > 0
    /\ cl' \in send_policy_command([cl EXCEPT !.polAlarms = @ - 1])
    /\ UNCHANGED <<link, dp, crash>>

\* reg_callback of a client that was not registered (module Register): the
\* gateway may have forgotten the policy, and is told again.
RegCallback ==
    /\ "register" \in Faults
    /\ Ready
    /\ PolicyRoom
    /\ cl' \in send_policy_command([cl EXCEPT !.confirmed = {}])
    /\ UNCHANGED <<link, dp, crash>>

\* The client crashes, and main runs again.
Crash ==
    /\ cl.alive /\ crash < MaxCrash
    /\ Gone
    /\ crash' = crash + 1
    /\ UNCHANGED dp
Restart ==
    /\ ~cl.alive
    /\ cl' = Fresh(TRUE)
    /\ UNCHANGED <<link, dp, crash>>

\* atlas_feature_feedback_handle: a CoAP request whose callback only logs.
ReadFeedback(c) ==
    /\ Reads(c, "feedback")
    /\ link' = Popped(c)
    /\ UNCHANGED cl

\* The threads of the application, the callbacks of the client.
Application ==
    \/ Connect \/ WritePolicy \/ WriteGetIdentity \/ ReadIdentity
    \/ ReadIdentityFails \/ WriteStatistics \/ Wake
Query == WriteFeedback \/ WriteRequest \/ BeginRead \/ ReadReply \/ ReadReplyFails
ReadCallback(c) ==
    \/ ReadPolicy(c) \/ ReadRequest(c) \/ ReadGetIdentity(c)
    \/ ReadStatistics(c) \/ ReadFeedback(c) \/ ReadFails(c)

Next ==
    \/ DpStart \/ DpDies \/ Application \/ Query
    \/ Accept \/ AcceptFails
    \/ \E c \in Conns : ReadCallback(c)
    \/ (\E t \in Tags : ReputationCallback(t)) \/ NextReputation
    \/ \E v \in Procs : PolicyCallbackOk(v) \/ PolicyCallbackError(v)
    \/ PolicyAlarmCallback \/ RegCallback
    \/ Crash \/ Restart

Spec == Init /\ [][Next]_vars

\* The threads run, the loop of the client serves every descriptor that is
\* ready, and the gateway confirms a policy it is sent again and again.
FairSpec ==
    /\ Spec
    /\ WF_vars(Application)
    /\ WF_vars(Accept) /\ WF_vars(NextReputation)
    /\ \A c \in Conns : WF_vars(ReadCallback(c))
    /\ WF_vars(PolicyAlarmCallback)
    /\ \A v \in Procs :
          /\ WF_vars(PolicyCallbackOk(v) \/ PolicyCallbackError(v))
          /\ SF_vars(PolicyCallbackOk(v))
-----------------------------------------------------------------------------
\* atlas_data_plane_accept_cb, "Allow only one connection": the client has at
\* most one connection open and reads no other, whatever order connections,
\* ends of connections and failures of accept come in.
SingleConnection ==
    /\ {c \in Conns : link[c].cEnd = "open"} = {cl.csock} \ {None}
    /\ cl.watched \subseteq {cl.csock}

\* policy_callback, policy_alarm_callback, reg_callback: the policy the client
\* holds is confirmed by the gateway since the last registration, on its way,
\* or about to be sent again, unless a request or an alarm was refused.
PolicyNotForgotten ==
    cl.active = 1 /\ ~cl.dropped =>
        \/ cl.pol \in cl.confirmed
        \/ cl.polReqs[cl.pol] > 0
        \/ cl.polAlarms > 0

\* atlas_reputation_request: what it returns answers the request just made, or
\* an earlier one that ended without its answer or that the gateway answers with
\* several reputations; no other answer comes twice.
AnswersOwed ==
    [][dp'.ans \notin {dp.ans, NoTag} => dp'.ans \in dp.owed \cup {Tag}]_vars

\* atlas_init: only a process that follows another can end up without identity.
FirstGetsIdentity == dp.id = "null" => dp.inc > 1


\* socket_connect sends the policy on every connection: as long as both sides
\* stay up and nothing is refused, the gateway is told the policy of the running
\* application, also after restarts of the client.
PolicyReestablished ==
    <>[](dp.pc # "down" /\ cl.alive /\ ~cl.dropped) =>
        []<>(cl.pol = dp.inc /\ dp.inc \in cl.confirmed)
-----------------------------------------------------------------------------
\* The parts of the inductive invariant behind the properties above.  What
\* the application holds at each of its steps.
AppSteps ==
    /\ dp.pc # "down" => dp.inc # 0
    /\ dp.pc \in {"down", "getid", "readid"} => dp.qpc = "off"
    /\ dp.pc = "readid" => dp.fd # None
    /\ dp.qpc \in {"written", "read"} => dp.q > 0
    /\ dp.qpc = "read" => dp.rfd # None

\* The connections in the backlog wait for accept, each of them once.
Queue ==
    \A i, j \in DOMAIN cl.backlog :
        /\ link[cl.backlog[i]].cEnd = "queued"
        /\ cl.backlog[i] = cl.backlog[j] => i = j

\* A client that does not run has no connection.
Stopped == ~cl.alive => cl.csock = None

\* The client has a policy once it is active.
HasPolicy == cl.active = 1 => cl.pol # 0

\* The tags of the requests and answers in a queue, each of them once except
\* those in again.
Reps(queue) == {i \in DOMAIN queue : queue[i].type = "rep"}
TagsIn(queue) == {queue[i].val : i \in Reps(queue)}
Once(queue, again) ==
    \A i, j \in Reps(queue) :
        queue[i].val = queue[j].val /\ queue[i].val \notin again => i = j

\* A request or its answer is in one place, on its way to the client, with the
\* gateway, or on its way back, unless the gateway answers it more than once.
OnePlace ==
    /\ \A c \in Conns :
           /\ Once(link[c].toC, {}) /\ TagsIn(link[c].toC) \cap cl.reps = {}
           /\ Once(link[c].toD, dp.again)
           /\ TagsIn(link[c].toD) \cap cl.reps \subseteq dp.again
    /\ \A c, e \in Conns :
           /\ TagsIn(link[c].toC) \cap TagsIn(link[e].toD) \subseteq dp.again
           /\ c # e => /\ TagsIn(link[c].toC) \cap TagsIn(link[e].toC) = {}
                       /\ TagsIn(link[c].toD) \cap TagsIn(link[e].toD)
                              \subseteq dp.again

\* Everything on its way is owed to the application.
AllOwed ==
    /\ cl.reps \subseteq OwedNow
    /\ \A c \in Conns : TagsIn(link[c].toC) \cup TagsIn(link[c].toD) \subseteq OwedNow
    /\ dp.again \subseteq OwedNow /\ cl.more \in dp.again \cup {NoTag}

\* Nothing is owed that the application has not asked for.
Asked ==
    \A t \in dp.owed :
        t[1] < dp.inc \/ (t[1] = dp.inc /\ (dp.pc = "down" \/ t[2] <= dp.q))

\* The first process has its identity before it asks for a reputation.
FirstAsksFirst ==
    dp.inc = 0 \/ (dp.inc = 1 /\ dp.pc # "down" /\ dp.qpc = "off") => OwedNow = {}

\* The inductive invariant of the connector and the library.
IInv ==
    /\ TypeOK /\ AppSteps /\ Queue /\ Stopped /\ SingleConnection
    /\ HasPolicy /\ PolicyNotForgotten
    /\ OnePlace /\ AllOwed /\ Asked
    /\ FirstAsksFirst /\ FirstGetsIdentity
=============================================================================
