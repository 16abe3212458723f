----------------------------- MODULE AlarmTable -----------------------------
(***************************************************************************)
(* What the alarms (alarm/atlas_alarm.c) are to the code that uses them: a *)
(* table of ids.  An id is a number that is handed out again as soon as it *)
(* is free, to whoever sets the next alarm.  How the alarms get by with    *)
(* the scheduler is module EventLoop.                                      *)
(***************************************************************************)
EXTENDS Integers, FiniteSets, FiniteSetsExt

CONSTANT MaxAlarms  \* ids 1 .. MaxAlarms

ASSUME AlarmTableAssumption == MaxAlarms \in Nat

VARIABLE alarms  \* the alarm of each id: whose it is and, if it is a
                 \* request's, the feature that is sent

Ids == 1 .. MaxAlarms
NoId == -1
Alarm(kind, what) == [kind |-> kind, what |-> what]
Unused == Alarm("free", "")
NoAlarms == [id \in Ids |-> Unused]

FreeIds(a) == {id \in Ids : a[id] = Unused}
IdsOf(a, kind) == {id \in Ids : a[id].kind = kind}

\* atlas_alarm_set: the lowest free number, or -1.
NewId(a) == IF FreeIds(a) = {} THEN NoId ELSE Min(FreeIds(a))
AlarmSet(a, kind, what) ==
    IF FreeIds(a) = {} THEN a ELSE [a EXCEPT ![NewId(a)] = Alarm(kind, what)]

\* atlas_alarm_cancel: an id that is not in use is ignored.
AlarmCancel(a, id) ==
    IF id \in Ids THEN [a EXCEPT ![id] = Unused] ELSE a
=============================================================================
