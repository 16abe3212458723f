----------------------------- MODULE Telemetry ------------------------------
(***************************************************************************)
(* The telemetry engine (telemetry/atlas_telemetry.c), the features that   *)
(* are pushed with it (atlas_telemetry_sysinfo.c, _packets_info.c,         *)
(* _hostname.c, _kern_info.c) and the alerts by which the gateway sets     *)
(* their rates (atlas_alert_utils.c).                                      *)
(*                                                                         *)
(* A push is a CoAP request, which holds an alarm until it is answered or  *)
(* times out.  A batch of commands is a sequence of commands (its bytes    *)
(* are module CommandBatch).                                               *)
(*                                                                         *)
(* Operators with a suffix are faulty variants of the definition after     *)
(* them, used to test the properties.                                      *)
(***************************************************************************)
EXTENDS AlarmTable, Sequences, SequencesExt

CONSTANTS
    Enabled,      \* the features of the instance (all of them in the code)
    Width,        \* values of a uint16_t
    LongMax,      \* LONG_MAX
    Thresholds    \* the numbers that occur as thresholds

\* atlas_telemetry_add_sysinfo, atlas_telemetry_add_packets_info and
\* atlas_telemetry_features_init: the features in the order in which they are
\* added, and the first of the list that is in a set.
SysinfoFeatures ==
    <<"uptime", "totalram", "freeram", "sharedram", "bufferram", "totalswap",
      "freeswap", "procs", "load1", "load5", "load15">>
PacketsFeatures == <<"packets_per_minute", "packets_avg">>
AllFeatures == <<"hostname", "kernel_info">> \o SysinfoFeatures \o PacketsFeatures
Features == Enabled
First(fs) == AllFeatures[Min({i \in DOMAIN AllFeatures : AllFeatures[i] \in fs})]

\* The features with an end-point for push alerts, and the one with a
\* threshold.
Alertable == Features \ {"hostname", "kernel_info", "totalram"}
Scanned == "procs"

\* <<f, g>>: the path of f is a proper part of the uri of g.
PathIn == {<<"load1", "load15">>}

ASSUME TelemetryAssumption ==
    /\ Enabled \subseteq Range(AllFeatures) /\ Scanned \in Enabled
    /\ Width \in Nat /\ Width > 1 /\ LongMax \in Nat /\ LongMax >= Width
    /\ (LongMax + 1) % Width = 0
    /\ Thresholds \subseteq Int

VARIABLES
    registered,       \* atlas_is_registered()
    push_id,          \* of each feature
    threshold_id,     \* of each feature
    procs_threshold,
    owed              \* features the client has undertaken to send: neither
                      \* answered by the gateway nor skipped since

telVars == <<registered, push_id, threshold_id, procs_threshold, owed>>

Entry ==
    {Unused} \cup [kind : {"push", "threshold", "restart", "shutdown"}, what : {""}]
             \cup [kind : {"request"}, what : Features]

TelTypeOK ==
    /\ alarms \in [Ids -> Entry]
    /\ registered \in BOOLEAN
    /\ push_id \in [Features -> Ids \cup {NoId}]
    /\ threshold_id \in [Features -> Ids \cup {NoId}]
    /\ procs_threshold \in 0 .. Width - 1
    /\ owed \subseteq Features

\* atlas_telemetry_features_init, atlas_telemetry_add.
TelInit ==
    /\ registered = FALSE
    /\ push_id = [f \in Features |-> NoId]
    /\ threshold_id = [f \in Features |-> NoId]
    /\ procs_threshold = 0
    /\ owed = {}
-----------------------------------------------------------------------------
\* The payload callbacks: is there a payload?  scan is use_threshold, procs
\* the number of processes.  System calls may fail.  Only procs knows
\* thresholds; the others have no payload in a scan, except for the statistics
\* of the data plane, which always have one.
HostnamePayload(scan) == IF scan THEN {FALSE} ELSE BOOLEAN
KernInfoPayload(scan) == IF scan THEN {FALSE} ELSE BOOLEAN
MemoryPayload(scan) == IF scan THEN {FALSE} ELSE BOOLEAN
LoadPayload(scan) == IF scan THEN {FALSE} ELSE BOOLEAN
ProcsPayload(scan, procs) ==
    IF scan /\ procs < procs_threshold THEN {FALSE} ELSE BOOLEAN
PacketsPayload == {TRUE}
Payload(f, scan, procs) ==
    CASE f = "hostname"    -> HostnamePayload(scan)
      [] f = "kernel_info" -> KernInfoPayload(scan)
      [] f = "procs"       -> ProcsPayload(scan, procs)
      [] f \in {"load1", "load5", "load15"} -> LoadPayload(scan)
      [] f \in Range(PacketsFeatures) -> PacketsPayload
      [] OTHER -> MemoryPayload(scan)

\* The features of fs that may be skipped together: those without a payload
\* must be, the request of any other may be refused.
Skips(fs, scan, procs) ==
    {skip \in SUBSET fs : \A f \in fs \ skip : TRUE \in Payload(f, scan, procs)}

\* The memory atlas_telemetry_push changes.
Now == [alarms |-> alarms, owed |-> owed]
Becomes(s) == alarms' = s.alarms /\ owed' = s.owed

\* atlas_telemetry_push: nothing happens unless the client is registered, the
\* feature has a payload and the request is accepted.  skip is the set of
\* features for which one of the last two is not so.
Push(s, reg, f, skip) ==
    IF ~reg \/ f \in skip \/ FreeIds(s.alarms) = {} THEN s
    ELSE [alarms |-> AlarmSet(s.alarms, "request", f), owed |-> s.owed \cup {f}]

\* atlas_telemetry_push_all, called by reg_callback when the client is
\* registered.
PushNth(s, i, skip) ==
    IF AllFeatures[i] \in Features THEN Push(s, TRUE, AllFeatures[i], skip) ELSE s
PushAll(s, skip) ==
    LET t[i \in 0 .. Len(AllFeatures)] ==
            IF i = 0 THEN s ELSE PushNth(t[i - 1], i, skip)
    IN  t[Len(AllFeatures)]
Registered ==
    /\ registered' = TRUE
    /\ \E skip \in Skips(Features, FALSE, 0) : Becomes(PushAll(Now, skip))
    /\ UNCHANGED <<push_id, threshold_id, procs_threshold>>

\* Three keepalives failed.
RegistrationLost ==
    /\ registered /\ registered' = FALSE
    /\ UNCHANGED <<alarms, push_id, threshold_id, procs_threshold, owed>>

\* push_alert_alarm_cb and threshold_alert_alarm_cb: the first feature in the
\* list with the id of the alarm.
Owner(ids, id) == {f \in Features : ids[f] = id}
PushAlarm(id) ==
    LET f == First(Owner(push_id, id))
    IN  /\ alarms[id].kind = "push" /\ Owner(push_id, id) # {}
        /\ \E skip \in Skips({f}, FALSE, 0) :
               Becomes(Push(Now, registered, f, skip))
        /\ UNCHANGED <<registered, push_id, threshold_id, procs_threshold>>
ThresholdAlarm(id) ==
    LET f == First(Owner(threshold_id, id))
    IN  /\ alarms[id].kind = "threshold" /\ Owner(threshold_id, id) # {}
        /\ \E procs \in 0 .. Width - 1 :
               \E skip \in Skips({f}, TRUE, procs) :
                   Becomes(Push(Now, registered, f, skip))
        /\ UNCHANGED <<registered, push_id, threshold_id, procs_threshold>>

\* telemetry_callback with an answer of the gateway, good or bad: done.  Then
\* the request and its alarm go.
Answered(id) ==
    /\ alarms[id].kind = "request"
    /\ alarms' = AlarmCancel(alarms, id)
    /\ owed' = owed \ {alarms[id].what}
    /\ UNCHANGED <<registered, push_id, threshold_id, procs_threshold>>

\* telemetry_callback after a timeout: push the first feature whose path is
\* in the uri.  The request goes after the callback has returned.
Matches(f) == {p \in Features : p = f \/ <<p, f>> \in PathIn}
Retry_never(s, f, skip) == s
Retry(s, f, skip) == Push(s, registered, First(Matches(f)), skip)
TimedOut(id) ==
    LET f == alarms[id].what
    IN  /\ alarms[id].kind = "request"
        /\ \E skip \in Skips({First(Matches(f))}, FALSE, 0) :
               LET s == Retry(Now, f, skip)
                   excused == ~registered \/ skip # {} \/ FreeIds(alarms) = {}
               IN  Becomes([alarms |-> AlarmCancel(s.alarms, id),
                            owed |-> IF excused THEN s.owed \ {f} ELSE s.owed])
        /\ UNCHANGED <<registered, push_id, threshold_id, procs_threshold>>
-----------------------------------------------------------------------------
\* The alerts the gateway can send, as batches of up to two commands.
Batches(items) == BoundedSeq(items, 2)
Rates == [type : {"rate"}, value : {0, 1}]
Scans == [type : {"scan"}, value : {0, 1}]
Limits == [type : {"threshold"}, value : Thresholds]
Others == [type : {"other"}, value : {0}]

\* atlas_alert_push_cmd_parse: the first rate counts, a batch without one is
\* refused with 4.06.
Items(batch, type) == {i \in DOMAIN batch : batch[i].type = type}
PushRates ==
    {b[Min(Items(b, "rate"))].value :
        b \in {x \in Batches(Rates \cup Others) : Items(x, "rate") # {}}}

\* atlas_alert_threshold_cmd_parse: the last scan rate and the last threshold
\* count, and a batch without a scan rate is refused.  One without a threshold
\* is let through: the test looks at the wrong pointer.
Scanning == {x \in Batches(Scans \cup Limits) : Items(x, "scan") # {}}
HasThreshold(b) == Items(b, "threshold") # {}
ScanAlerts ==
    {[rate |-> b[Max(Items(b, "scan"))].value,
      threshold |-> b[Max(Items(b, "threshold"))].value] :
        b \in {x \in Scanning : HasThreshold(x)}}

\* atlas_telemetry_push_set with a rate: the old alarm goes, a new one comes.
Replace_leak(a, id, kind) == AlarmSet(a, kind, "")
Replace(a, id, kind) == AlarmSet(AlarmCancel(a, id), kind, "")
PushSet(f) ==
    /\ alarms' = Replace(alarms, push_id[f], "push")
    /\ push_id' = [push_id EXCEPT ![f] = NewId(AlarmCancel(alarms, @))]
    /\ UNCHANGED <<registered, threshold_id, procs_threshold, owed>>

\* The same with rate 0: push now, and leave the alarm as it is.
PushNow_stop(f) ==
    /\ alarms' = AlarmCancel(alarms, push_id[f])
    /\ UNCHANGED telVars
PushNow(f) ==
    /\ \E skip \in Skips({f}, FALSE, 0) : Becomes(Push(Now, registered, f, skip))
    /\ UNCHANGED <<registered, push_id, threshold_id, procs_threshold>>

\* atlas_push_alert_cb of the sysinfo features and of the data plane's.
PushAlert(f, rate) == IF rate = 0 THEN PushNow(f) ELSE PushSet(f)
SysinfoAlert ==
    \E f \in Alertable \cap Range(SysinfoFeatures), rate \in PushRates : PushAlert(f, rate)
PacketsAlert ==
    \E f \in Alertable \cap Range(PacketsFeatures), rate \in PushRates : PushAlert(f, rate)

\* strtol, and the assignment to a uint16_t.
Strtol(n) == IF n > LongMax THEN LongMax
             ELSE IF n < -LongMax - 1 THEN -LongMax - 1 ELSE n
Erange(n) == n # Strtol(n)
Uint16_long(n) == n
Uint16(n) == n % Width

\* The test after it, on the uint16_t: only a number that is too low fails.
StrtolFails(n) ==
    \/ Erange(n) /\ Uint16(Strtol(n)) \in {LongMax, -LongMax - 1}
    \/ Erange(n) /\ Uint16(Strtol(n)) = 0

\* atlas_threshold_alert_procs_cb: the threshold is set before it is checked.
\* With scan rate 0 atlas_telemetry_threshold_set does nothing.
ThresholdAlert(alert) ==
    /\ procs_threshold' = Uint16(Strtol(alert.threshold))
    /\ IF StrtolFails(alert.threshold) \/ alert.rate = 0
       THEN UNCHANGED <<alarms, threshold_id>>
       ELSE /\ alarms' = Replace(alarms, threshold_id[Scanned], "threshold")
            /\ threshold_id' = [threshold_id EXCEPT
                                   ![Scanned] = NewId(AlarmCancel(alarms, @))]
    /\ UNCHANGED <<registered, push_id, owed>>

\* Without a threshold it calls strtol(NULL), which ends the client.
ThresholdAlertCrashes == \E b \in Scanning : ~HasThreshold(b)

TelNext ==
    \/ Registered \/ RegistrationLost
    \/ \E id \in Ids :
           PushAlarm(id) \/ ThresholdAlarm(id) \/ Answered(id) \/ TimedOut(id)
    \/ SysinfoAlert \/ PacketsAlert
    \/ \E alert \in ScanAlerts : ThresholdAlert(alert)
-----------------------------------------------------------------------------
\* ids holds exactly the alarms of the kind, each for one feature.
Holds(a, ids, kind) ==
    /\ \A f \in Features : ids[f] \in IdsOf(a, kind) \cup {NoId}
    /\ \A id \in IdsOf(a, kind) : \E f \in Features : Owner(ids, id) = {f}

\* Every periodic alarm is the push or the scan of exactly one feature and
\* every id a feature holds is an alarm of its own kind, through re-arming,
\* refused alarms and ids that are handed out again: no alarm is left that
\* nobody can stop, and atlas_alarm_cancel never stops another's.
AlarmsOwned ==
    Holds(alarms, push_id, "push") /\ Holds(alarms, threshold_id, "threshold")

\* telemetry_callback: a feature the client has undertaken to send is in
\* flight until the gateway answers, for any number of timeouts, unless a
\* retry finds the client not registered, the payload empty or the request
\* refused.  Not so for a feature whose uri holds the path of an earlier one
\* (load15, load1): the retry sends the other.
Overshadowed(f) == First(Matches(f)) # f
InFlight(f) == \E id \in Ids : alarms[id] = Alarm("request", f)
NoPushForgotten == \A f \in owed : InFlight(f) \/ Overshadowed(f)
=============================================================================
