------------------------------- MODULE Server -------------------------------
(***************************************************************************)
(* What the gateway can ask of the client through its CoAP server          *)
(* (coap/atlas_coap_server.c): the alerts of the telemetry and the         *)
(* commands, which share the alarms, over the life of the process.         *)
(***************************************************************************)
EXTENDS Telemetry, CommandExecute

vars == <<alarms, telVars, cmdVars>>

TypeOK == TelTypeOK /\ CmdTypeOK

\* main starts the server and adds the end-points.
Init == alarms = NoAlarms /\ TelInit /\ CmdInit

\* process_request_handler calls the listener of the resource; the end-points
\* are those of Telemetry and of CommandExecute.
TelemetryStep == TelNext /\ UNCHANGED cmdVars
CommandStep == CmdNext /\ UNCHANGED telVars

\* The process ends and main starts again: nothing of it is kept.
StartsAgain ==
    /\ alarms' = NoAlarms
    /\ registered' = FALSE /\ procs_threshold' = 0 /\ owed' = {}
    /\ push_id' = [f \in Features |-> NoId]
    /\ threshold_id' = [f \in Features |-> NoId]
    /\ cmdInProgress' = FALSE /\ taken' = None /\ ran' = None /\ requests' = 0

\* systemctl ends the process, too, once a command has been run; system() may
\* also fail.  An alert without a threshold crashes the client.
GoesDown == ran # None /\ StartsAgain
Crashes == ThresholdAlertCrashes /\ StartsAgain

Next == TelemetryStep \/ CommandStep \/ GoesDown \/ Crashes

\* A timer that is set expires and the loop serves it.
Fairness == WF_vars((\E id \in Ids : CommandAlarm(id)) /\ UNCHANGED telVars)
Spec == Init /\ [][Next]_vars /\ Fairness
-----------------------------------------------------------------------------
\* Without a request taken, there is no command taken.
NoneTaken == requests = 0 => taken = None

\* The inductive invariant of the end-points and their alarms.
IInv ==
    /\ TypeOK /\ AlarmsOwned /\ NoPushForgotten
    /\ OneRequest /\ NoneTaken /\ CommandsKept
=============================================================================
