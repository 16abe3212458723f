--------------------------- MODULE CommandExecute ---------------------------
(***************************************************************************)
(* Commands of the gateway to restart the device or to shut it down        *)
(* (commands_execute/): each is run by an alarm 10 ms after the request.   *)
(*                                                                         *)
(* Operators with a suffix are faulty variants of the definition after     *)
(* them, used to test the properties.                                      *)
(***************************************************************************)
EXTENDS AlarmTable, Sequences, SequencesExt

CONSTANT MaxBatch  \* most commands in a request

ASSUME CommandExecuteAssumption == MaxBatch \in Nat

VARIABLES
    cmdInProgress,
    taken,    \* how many of each command had their alarm set
    ran,      \* how many of each command were run
    requests  \* requests of which a command had its alarm set

cmdVars == <<cmdInProgress, taken, ran, requests>>

Runnable == {"restart", "shutdown"}
None == [c \in Runnable |-> 0]

CmdTypeOK ==
    /\ cmdInProgress \in BOOLEAN
    /\ taken \in [Runnable -> 0 .. MaxBatch]
    /\ ran \in [Runnable -> 0 .. MaxBatch]
    /\ requests \in Nat

CmdInit ==
    /\ cmdInProgress = FALSE /\ taken = None /\ ran = None /\ requests = 0
-----------------------------------------------------------------------------
\* One command of a batch: set its alarm.  Without an id left it is dropped,
\* and the answer is still OK.  A command of another type is ignored.
InProgress_always(a) == TRUE
InProgress(a) == FreeIds(a) # {}
Schedule(s, c) ==
    IF c \notin Runnable THEN s
    ELSE [alarms |-> AlarmSet(s.alarms, c, ""),
          taken |-> IF FreeIds(s.alarms) = {} THEN s.taken
                    ELSE [s.taken EXCEPT ![c] = @ + 1],
          flag |-> s.flag \/ InProgress(s.alarms)]

\* atlas_alert_command_execution_parse: the flag is tested once, before the
\* batch; a request that finds it set is deferred, which means dropped.
Scheduled(batch) ==
    LET s[i \in 0 .. Len(batch)] ==
            IF i = 0 THEN [alarms |-> alarms, taken |-> taken, flag |-> cmdInProgress]
            ELSE Schedule(s[i - 1], batch[i])
    IN  s[Len(batch)]
ExecuteCommands(batch) ==
    LET s == Scheduled(batch)
    IN  /\ ~cmdInProgress
        /\ alarms' = s.alarms /\ taken' = s.taken /\ cmdInProgress' = s.flag
        /\ requests' = requests + (IF s.taken # taken THEN 1 ELSE 0)
        /\ UNCHANGED ran

\* atlas_execute_command_cb.
ExecuteCommandCb ==
    \E b \in BoundedSeq(Runnable \cup {"unknown"}, MaxBatch) : ExecuteCommands(b)

\* command_execution_restart_alarm_callback and ..._shutdown_...: system(),
\* then the alarm, which runs once, is cancelled.
RunsCommand_restart(kind) == kind = "restart"
RunsCommand(kind) == kind \in Runnable
CommandAlarm(id) ==
    /\ RunsCommand(alarms[id].kind)
    /\ ran' = [ran EXCEPT ![alarms[id].kind] = @ + 1]
    /\ alarms' = AlarmCancel(alarms, id)
    /\ UNCHANGED <<cmdInProgress, taken, requests>>

CmdNext == ExecuteCommandCb \/ \E id \in Ids : CommandAlarm(id)
-----------------------------------------------------------------------------
\* The commands taken since the client was started are those of one request,
\* and the flag that keeps further requests out is set exactly when there is
\* a command taken: a request whose alarms were all refused can be repeated.
OneRequest == requests <= 1 /\ (cmdInProgress <=> requests = 1)

\* Each command that was taken is waiting for its alarm or has been run, once:
\* no other user of the alarms ever stops it.
CommandsKept ==
    \A c \in Runnable : taken[c] = ran[c] + Cardinality(IdsOf(alarms, c))

\* A command that was taken is run, unless the client ends before.
Waiting(c) == taken[c] > ran[c]
CommandsRun == \A c \in Runnable : Waiting(c) ~> ~Waiting(c)
=============================================================================
