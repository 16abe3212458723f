-------------------------- MODULE ReputationWindow --------------------------
(***************************************************************************)
(* The feedback window of the application (data_plane/atlas_data_plane.c): *)
(* reputation_query_task asks all devices for a value, collects answers    *)
(* for the time of a window and sends feedback on each of them, while the  *)
(* MQTT thread delivers the values to handle_data.                         *)
(*                                                                         *)
(* The threads share rep_info.  The mutex covers feedback_active and all   *)
(* of handle_data, but reputation_query_task writes feedback_length and    *)
(* window_start without it, so handle_data is split at each access to      *)
(* them.                                                                   *)
(*                                                                         *)
(* In rep_info the array sensor_val is followed by the array feedback, and *)
(* that by feedback_length and window_start.  handle_data lets a value     *)
(* through when the arrays are full; its entry lies past both of them.     *)
(*                                                                         *)
(* Operators with a suffix are faulty variants of the definition after     *)
(* them, used to test the properties.                                      *)
(***************************************************************************)
EXTENDS Integers, FiniteSets

CONSTANTS
    Devices,     \* the devices that publish the feature
    FeedbackMax  \* ATLAS_DATA_PLANE_FEEDBACK_MAX, 256 in the code

ASSUME ReputationWindowAssumption ==
    IsFiniteSet(Devices) /\ FeedbackMax \in Nat \ {0}

VARIABLES
    qpc,     \* the next step of reputation_query_task
    mpc,     \* the next step of handle_data, "idle" outside of it
    dev,     \* the device whose value handle_data has, NoDev outside of it
    lock,    \* the thread that holds rep_info.lock, or "none"
    active,  \* rep_info.feedback_active
    length,  \* rep_info.feedback_length
    entry,   \* rep_info.feedback: identity and time score
    start,   \* rep_info.window_start: is it the start of this window?
    loaded,  \* the value handle_data has loaded in feedback_length++
    \* What happened in this round:
    timely,  \* devices whose value came when the window was set up and open
    sent,    \* devices on which feedback went out
    lost,    \* devices on which the write of the feedback failed
    stepped  \* CLOCK_REALTIME was set

round == <<timely, sent, lost, stepped>>
vars == <<qpc, mpc, dev, lock, active, length, entry, start, loaded, round>>

NoDev == "none"
Slots == 0 .. FeedbackMax - 1

\* A length made of the first bytes of an identity: far beyond the array.
Wild == FeedbackMax + 1

Scores == {"right", "wrong", "refused"}
Filled == {i \in Slots : i < length}

TypeOK ==
    /\ qpc \in {"request", "open", "reset", "start", "window", "close",
                "send", "clear", "crashed"}
    /\ mpc \in {"idle", "entry", "score", "load", "store", "crashed"}
    /\ dev \in Devices \cup {NoDev}
    /\ lock \in {"none", "mqtt"}
    /\ active \in {0, 1}
    /\ length \in 0 .. FeedbackMax \cup {Wild}
    /\ entry \in [Slots -> [id : Devices \cup {NoDev}, score : Scores]]
    /\ start \in {"this", "earlier"}
    /\ loaded \in Slots
    /\ timely \subseteq Devices /\ stepped \in BOOLEAN
    /\ sent \subseteq Devices \cup {NoDev} /\ lost \subseteq Devices \cup {NoDev}

Init ==
    /\ qpc = "request" /\ mpc = "idle" /\ dev = NoDev /\ lock = "none"
    /\ active = 0 /\ length = 0 /\ start = "earlier" /\ loaded = 0
    /\ entry = [i \in Slots |-> [id |-> NoDev, score |-> "right"]]
    /\ timely = {} /\ sent = {} /\ lost = {} /\ stepped = FALSE
-----------------------------------------------------------------------------
\* reputation_query_task, step by step.
Goto(from, to) == qpc = from /\ qpc' = to
mqtt == <<mpc, dev, lock, loaded>>

\* request_reputation_val: from here on devices answer.
Request ==
    /\ Goto("request", "open")
    /\ timely' = {} /\ sent' = {} /\ lost' = {} /\ stepped' = FALSE
    /\ start' = "earlier"
    /\ UNCHANGED <<active, length, entry, mqtt>>

\* feedback_active is set under the lock ...
SetActive(value) == lock = "none" /\ active' = value
OpenWindow ==
    /\ Goto("open", "reset")
    /\ SetActive(1)
    /\ UNCHANGED <<length, entry, start, round, mqtt>>
\* ... and the window is reset without it.
ResetLength ==
    /\ Goto("reset", "start")
    /\ length' = 0
    /\ UNCHANGED <<active, entry, start, round, mqtt>>
StartWindow ==
    /\ Goto("start", "window")
    /\ start' = "this"
    /\ UNCHANGED <<active, length, entry, round, mqtt>>

\* The time of the window is over; the thread wakes up some time later and
\* then closes the window.
Sleep ==
    /\ Goto("window", "close")
    /\ UNCHANGED <<active, length, entry, start, round, mqtt>>
CloseGuard_unlocked == TRUE
CloseGuard == lock = "none"
CloseWindow ==
    /\ Goto("close", "send")
    /\ CloseGuard /\ active' = 0
    /\ UNCHANGED <<length, entry, start, round, mqtt>>

\* atlas_reputation_feedback checks and sends one entry after the other: an
\* invalid score ends it, a write that fails does not.
Sendable_short ==
    {i \in Filled : i + 1 < length /\ \A j \in 0 .. i : entry[j].score # "refused"}
Sendable == {i \in Filled : \A j \in 0 .. i : entry[j].score # "refused"}
SendFeedback ==
    /\ Goto("send", "clear")
    /\ \E failing \in SUBSET Sendable :
           /\ sent' = {entry[i].id : i \in Sendable \ failing}
           /\ lost' = {entry[i].id : i \in failing}
    /\ UNCHANGED <<active, length, entry, start, timely, stepped, mqtt>>
Clear ==
    /\ Goto("clear", "request")
    /\ length' = 0
    /\ UNCHANGED <<active, entry, start, round, mqtt>>

\* Somebody sets CLOCK_REALTIME.
ClockStep ==
    /\ qpc # "crashed" /\ ~stepped /\ stepped' = TRUE
    /\ UNCHANGED <<qpc, active, length, entry, start, timely, sent, lost, mqtt>>
-----------------------------------------------------------------------------
\* handle_data for a value of device d.  Once the lock is taken the value is
\* dropped when the window is not active, when there are more entries than the
\* array has and when the device is already in it.
query == <<qpc, active>>
Known_never(d) == FALSE
Known(d) == \E i \in Filled : entry[i].id = d
Dropped_closed(d) == length > FeedbackMax \/ Known(d)
Dropped(d) == active = 0 \/ length > FeedbackMax \/ Known(d)

Receive(d) ==
    /\ mpc = "idle" /\ lock = "none"
    /\ timely' = IF qpc = "window" THEN timely \cup {d} ELSE timely
    /\ IF Dropped(d) THEN UNCHANGED <<mpc, dev, lock>>
       ELSE mpc' = "entry" /\ dev' = d /\ lock' = "mqtt"
    /\ UNCHANGED <<query, length, entry, start, loaded, sent, lost, stepped>>

\* The value and the identity go to the entry at feedback_length.  Past the
\* arrays the value lands on the identity of the first entry and the identity
\* on feedback_length and window_start.
WriteEntry ==
    /\ mpc = "entry" /\ mpc' = "score"
    /\ IF length \in Slots
       THEN entry' = [entry EXCEPT ![length].id = dev] /\ UNCHANGED <<length, start>>
       ELSE /\ entry' = [entry EXCEPT ![0].id = NoDev]
            /\ length' = Wild /\ start' = "earlier"
    /\ UNCHANGED <<query, dev, lock, loaded, round>>

\* The sensor type and the scores go there, too.  The score of the response
\* time is taken from window_start: one of an earlier window or from the time
\* after the window may be negative, which is stored as some uint16_t, and
\* after a step of the clock it is anything.
TimeScore ==
    CASE stepped                              -> Scores
      [] ~stepped /\ start = "earlier"        -> {"wrong", "refused"}
      [] ~stepped /\ start = "this"           ->
             IF qpc = "window" THEN {"right"} ELSE {"right", "refused"}
WriteScore ==
    /\ mpc = "score" /\ mpc' = "load" /\ length \in Slots
    /\ \E s \in TimeScore : entry' = [entry EXCEPT ![length].score = s]
    /\ UNCHANGED <<query, dev, lock, length, start, loaded, round>>

\* At a wild length there is no memory to write to: the application ends.
Segfault ==
    /\ mpc = "score" /\ length \notin Slots
    /\ mpc' = "crashed" /\ qpc' = "crashed"
    /\ UNCHANGED <<dev, lock, active, length, entry, start, loaded, round>>

\* feedback_length++ and unlock.
LoadLength ==
    /\ mpc = "load" /\ mpc' = "store"
    /\ loaded' = length
    /\ UNCHANGED <<query, dev, lock, length, entry, start, round>>
StoreLength ==
    /\ mpc = "store" /\ mpc' = "idle"
    /\ length' = loaded + 1
    /\ loaded' = 0 /\ dev' = NoDev /\ lock' = "none"
    /\ UNCHANGED <<query, entry, start, round>>

QueryTask ==
    \/ Request \/ OpenWindow \/ ResetLength \/ StartWindow \/ Sleep
    \/ CloseWindow \/ SendFeedback \/ Clear
HandleData ==
    WriteEntry \/ WriteScore \/ Segfault \/ LoadLength \/ StoreLength

Next ==
    QueryTask \/ HandleData \/ ClockStep \/ \E d \in Devices : Receive(d)

Spec == Init /\ [][Next]_vars
-----------------------------------------------------------------------------
\* reputation_query_task works on the feedback without the lock: from the end
\* of the window to the next one handle_data changes nothing of it.
FeedbackFrozen ==
    [][(qpc = "send" \/ qpc = "clear") /\ qpc' = qpc =>
           length' = length /\ entry' = entry]_vars

\* handle_data, "keep only the first entry": although feedback_length may be
\* reset in the middle of handle_data, no device is in the feedback twice and
\* every device that answered in the window is in it when feedback is sent.
OneEntryEach ==
    qpc = "send" =>
        /\ \A i, j \in Filled : entry[i].id = entry[j].id => i = j
        /\ timely \subseteq {entry[i].id : i \in Filled}

\* reputation_query_task and atlas_reputation_feedback: when no write fails,
\* feedback went out on every device that answered in the window, except for
\* those from a refused score on.  Unless the clock was set, a refused score is
\* that of a value that came while the window was being set up, which is in
\* front of all the right ones, or the device's own, when its value was being
\* handled as the time ran out: then no timely device comes after it.
Early(j) == \A k \in Filled : k < j => entry[k].score # "right"
LastTimely(j) == \A k \in Filled : k > j => entry[k].id \notin timely
FeedbackComplete ==
    qpc = "clear" =>
        \A d \in timely \ (sent \cup lost) :
            \E i, j \in Filled :
                /\ entry[i].id = d /\ j <= i /\ entry[j].score = "refused"
                /\ stepped \/ Early(j) \/ (j = i /\ LastTimely(i))

\* feedback_length is the number of entries of the array feedback.  The code
\* breaks this: handle_data compares with > where it needs >=.
FeedbackInArray == length <= FeedbackMax
-----------------------------------------------------------------------------
\* handle_data holds the lock while it works.  feedback_length is within the
\* array except after an entry past it, and nobody survives using that.
InHandler ==
    /\ mpc # "idle" => lock = "mqtt"
    /\ length = Wild => mpc \in {"score", "crashed"}
    /\ length = FeedbackMax => mpc \in {"idle", "entry", "store"}
    /\ (qpc = "crashed") <=> (mpc = "crashed")

\* Outside of the window feedback_active is 0 and handle_data is not at work:
\* reputation_query_task took the lock to clear feedback_active.
Quiet == qpc \in {"request", "open", "send", "clear"} =>
             active = 0 /\ mpc = "idle"

\* What reputation_query_task has set up at each of its steps.
Round ==
    /\ qpc \in {"request", "open"} => length = 0
    /\ qpc \in {"open", "reset", "start"} => start = "earlier" /\ timely = {}
    /\ qpc \in {"reset", "start", "window", "close"} => active = 1
    /\ qpc \in {"window", "close"} /\ length # Wild => start = "this"
    /\ qpc = "clear" => {entry[i].id : i \in Sendable} \subseteq sent \cup lost

\* The entries that will be in the feedback when handle_data is done, if
\* nobody resets it, and those of them that have their score.  A reset before
\* the load leaves one entry, which is an old one or the new one; a reset
\* after the load is undone by the store; a reset of a wild length leaves the
\* first entry.
Coming ==
    {i \in Slots : CASE length = Wild -> i = 0
                     [] length # Wild /\ mpc \in {"score", "load"} -> i <= length
                     [] length # Wild /\ mpc = "store" -> i <= loaded
                     [] OTHER -> i < length}
Scored == {i \in Coming : mpc = "score" => i < length}

\* No two of them are of one device, which handle_data has looked up.
Distinct ==
    /\ \A i, j \in Coming : entry[i].id = entry[j].id => i = j
    /\ mpc = "entry" => ~Known(dev)
    /\ mpc = "store" => length <= loaded

\* A device that answered in the window is among them or about to be, or the
\* application is about to end.
Present ==
    qpc \in {"window", "close", "send", "clear"} =>
        \A d \in timely :
            \/ length = Wild
            \/ mpc = "entry" /\ dev = d
            \/ \E i \in Coming : entry[i].id = d

\* Entries with a score from an earlier window come before those of this one;
\* there are no others until the window is set up and no refused ones behind
\* them until its time is over, and then no timely device follows.
Ranked ==
    ~stepped =>
        /\ qpc \in {"reset", "start"} => \A i \in Scored : entry[i].score # "right"
        /\ \A i, j \in Scored :
               i < j /\ entry[i].score = "right" /\ entry[j].score # "right" =>
                   /\ entry[j].score = "refused"
                   /\ qpc \notin {"reset", "start", "window"}
                   /\ mpc = "entry" => dev \notin timely
                   /\ \A k \in Coming : k > j => entry[k].id \notin timely

\* The inductive invariant of the mutex and the feedback, in handle_data and
\* reputation_query_task.
IInv == TypeOK /\ InHandler /\ Quiet /\ Round /\ Distinct /\ Present /\ Ranked
=============================================================================
