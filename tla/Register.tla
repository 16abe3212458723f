------------------------------ MODULE Register ------------------------------
(***************************************************************************)
(* Registration and keepalive of the client (register/atlas_register.c).   *)
(*                                                                         *)
(* The client is single threaded: every handler below is one callback of   *)
(* the scheduler loop and runs to completion, so it is one action.  CoAP   *)
(* requests in flight and pending alarms are state; the module EventLoop   *)
(* shows that every accepted request calls its callback exactly once.      *)
(*                                                                         *)
(* started ... ka_alarm_id are the program's variables, regReqs ... kaReqs *)
(* what it has outstanding in the CoAP client and in the alarm module, out *)
(* the calls the last step made into other components, gw the gateway, and *)
(* fails, acked, dropped observe the run.                                  *)
(*                                                                         *)
(* Operators with a suffix, such as AfterSet_forgotten, are faulty         *)
(* variants of the definition after them, used to test the properties.     *)
(***************************************************************************)
EXTENDS Integers, FiniteSets

CONSTANTS
    KeepaliveCount,  \* ATLAS_CLIENT_KEEPALIVE_COUNT, 3 in the code
    CountMod,        \* ka_count is a uint8_t: 256 in the code
    TokenMod,        \* ka_token is a uint16_t: 65536 in the code
    AlarmIds,        \* the ids (timer descriptors) keepalive alarms can get
    MaxRegister,     \* bound: register requests and retry alarms outstanding
    MaxKeepalive,    \* bound: keepalive requests in flight
    Faults           \* what may go wrong beside the gateway:
                     \* "refused": a request or an alarm is refused at once
                     \*    (no address, no descriptor), without a callback
                     \* "stall": the loop stalls (blocking getaddrinfo) for
                     \*    longer than the 15 s between the timeout of a
                     \*    keepalive and the next keepalive

ASSUME RegisterAssumption ==
    /\ KeepaliveCount \in Nat \ {0}
    /\ CountMod \in Nat /\ CountMod > KeepaliveCount
    /\ TokenMod \in Nat \ {0, 1}
    /\ AlarmIds \subseteq Nat \ {0}
    /\ MaxRegister \in Nat \ {0}
    /\ MaxKeepalive \in Nat \ {0}
    /\ Faults \subseteq {"refused", "stall"}

VARIABLES
    started,      \* main has called atlas_register_start
    registered,   \* static uint8_t registered
    ka_token,     \* static uint16_t ka_token
    ka_count,     \* static uint8_t ka_count
    ka_alarm_id,  \* static atlas_alarm_id_t ka_alarm_id
    regReqs,      \* number of register requests in flight
    regAlarms,    \* number of one-shot register alarms pending
    kaAlarms,     \* periodic keepalive alarms that are set
    kaReqs,       \* tokens of the keepalive requests in flight
    out,          \* calls of the last step into other components
    gw,           \* the gateway: "good", "flaky" or "dead"
    fails,        \* keepalives failed in a row since the last success or
                  \* registration
    acked,        \* a keepalive has succeeded since the registration
    dropped       \* a register request or an alarm was refused

chainVars == <<regReqs, regAlarms>>
obsVars == <<fails, acked>>
vars == <<started, registered, ka_token, ka_count, ka_alarm_id, regReqs,
          regAlarms, kaAlarms, kaReqs, out, gw, fails, acked, dropped>>

Tokens == 0 .. TokenMod - 1
NoToken == -1
Gateways == {"good", "flaky", "dead"}

TypeOK ==
    /\ started \in {0, 1}
    /\ registered \in {0, 1}
    /\ ka_token \in Tokens
    /\ ka_count \in 0 .. CountMod - 1
    /\ ka_alarm_id \in AlarmIds \cup {-1, 0}
    /\ regReqs \in Nat
    /\ regAlarms \in Nat
    /\ kaAlarms \subseteq AlarmIds
    /\ kaReqs \subseteq Tokens
    /\ out \subseteq {"policy", "push_all"}
    /\ gw \in Gateways
    /\ fails \in Nat
    /\ acked \in {0, 1}
    /\ dropped \in {0, 1}

\* Static storage: every variable of the file starts at zero.
Init ==
    /\ started = 0
    /\ registered = 0 /\ ka_token = 0 /\ ka_count = 0 /\ ka_alarm_id = 0
    /\ regReqs = 0 /\ regAlarms = 0
    /\ kaAlarms = {} /\ kaReqs = {}
    /\ out = {}
    /\ gw \in Gateways
    /\ fails = 0 /\ acked = 0 /\ dropped = 0

-----------------------------------------------------------------------------
\* ka_token++ and ka_count-- on unsigned integers.
NextToken(t) == IF t = TokenMod - 1 THEN 0 ELSE t + 1
Decrement(c) == IF c = 0 THEN CountMod - 1 ELSE c - 1

\* The register alarms pending after one of them is triggered (it runs once,
\* so the trigger cancels it) and after one more is set.
AfterTrigger_periodic(n) == n
AfterTrigger(n) == n - 1
AfterSet_forgotten(n) == n
AfterSet(n) == n + 1

\* send_register_command: the request is accepted, or refused at once; the
\* status is only logged.  pending is what the caller leaves outstanding.
send_register_command_lost(pending) ==
    regReqs' = pending /\ UNCHANGED dropped
send_register_command(pending) ==
    \/ /\ regReqs' = pending + 1
       /\ UNCHANGED dropped
    \/ /\ "refused" \in Faults
       /\ regReqs' = pending
       /\ dropped' = 1

\* atlas_register_start
RegisterStart ==
    /\ started = 0
    /\ started' = 1
    /\ out' = {}
    /\ send_register_command(regReqs)
    /\ UNCHANGED <<registered, ka_token, ka_count, ka_alarm_id, regAlarms,
                   kaAlarms, kaReqs, gw, obsVars>>

\* reg_alarm_callback; the alarm runs once, its trigger cancels it.
RegAlarmCallback ==
    /\ regAlarms > 0
    /\ regAlarms' = AfterTrigger(regAlarms)
    /\ out' = {}
    /\ send_register_command(regReqs)
    /\ UNCHANGED <<started, registered, ka_token, ka_count, ka_alarm_id,
                   kaAlarms, kaReqs, gw, obsVars>>

\* reg_callback with status OK.  A new keepalive alarm replaces the id of the
\* old one, which is not cancelled.
RegCallbackOk ==
    /\ regReqs > 0
    /\ gw # "dead"
    /\ regReqs' = regReqs - 1
    /\ out' = IF registered = 0 THEN {"policy", "push_all"} ELSE {"push_all"}
    /\ registered' = 1
    /\ \/ \E id \in AlarmIds \ kaAlarms :
            /\ kaAlarms' = kaAlarms \cup {id}
            /\ ka_alarm_id' = id
            /\ UNCHANGED dropped
       \/ /\ "refused" \in Faults
          /\ ka_alarm_id' = -1
          /\ dropped' = 1
          /\ UNCHANGED kaAlarms
    /\ fails' = 0
    /\ acked' = 0
    /\ UNCHANGED <<started, ka_token, ka_count, regAlarms, kaReqs, gw>>

\* reg_callback with any other status: retry after 5 s.
RegCallbackError ==
    /\ regReqs > 0
    /\ gw # "good"
    /\ regReqs' = regReqs - 1
    /\ out' = {}
    /\ \/ /\ regAlarms' = AfterSet(regAlarms)
          /\ UNCHANGED dropped
       \/ /\ "refused" \in Faults
          /\ dropped' = 1
          /\ UNCHANGED regAlarms
    /\ UNCHANGED <<started, registered, ka_token, ka_count, ka_alarm_id,
                   kaAlarms, kaReqs, gw, obsVars>>

\* keepalive_alarm_callback and send_keepalive_command.  A keepalive times out
\* after 5 s and the alarm period is 20 s, so two overlap only after a stall.
\* The token that is sent is not one still in flight: that would need 2^16
\* keepalives in 5 s.
KeepaliveAlarmCallback ==
    /\ kaAlarms # {}
    /\ "stall" \in Faults \/ kaReqs = {}
    /\ ka_token' = NextToken(ka_token)
    /\ ka_token' \notin kaReqs
    /\ out' = {}
    /\ \/ /\ Cardinality(kaReqs) < MaxKeepalive
          /\ kaReqs' = kaReqs \cup {ka_token'}
       \/ /\ "refused" \in Faults
          /\ UNCHANGED kaReqs
    /\ UNCHANGED <<started, registered, ka_count, ka_alarm_id, chainVars,
                   kaAlarms, gw, obsVars, dropped>>

\* What the gateway and the network make of the keepalive sent with token t: an
\* answer OK with a token, or with a payload too short to hold one (NoToken),
\* a 4xx answer, or anything else (timeout, reset, unknown code).
Answers(t) ==
    CASE gw = "good"  -> {[status |-> "ok", token |-> t]}
      [] gw = "dead"  -> {[status |-> "error", token |-> NoToken]}
      [] gw = "flaky" -> [status : {"ok"}, token : {t, NextToken(t), NoToken}]
                         \cup [status : {"not_found", "error"},
                               token : {NoToken}]

\* keepalive_callback, the token of the answer is the last one sent.
KeepaliveCallbackOk ==
    \E t \in kaReqs : \E a \in Answers(t) :
        /\ a.status = "ok" /\ a.token = ka_token
        /\ kaReqs' = kaReqs \ {t}
        /\ ka_count' = KeepaliveCount
        /\ out' = {}
        /\ fails' = 0
        /\ acked' = registered
        /\ UNCHANGED <<started, registered, ka_token, ka_alarm_id, chainVars,
                       kaAlarms, gw, dropped>>

\* The count after a failed keepalive; a 4xx answer forces it to 0.
CountAfterError_kept(a) == IF a.status = "not_found" THEN 0 ELSE ka_count
CountAfterError(a) ==
    Decrement(IF a.status = "not_found" THEN 1 ELSE ka_count)

\* The observer counts the failures of a registered client, up to CountMod.
FailsAfterError ==
    IF registered = 0 THEN 0 ELSE IF fails < CountMod THEN fails + 1 ELSE fails

\* keepalive_callback, label ERR: the count does not reach 0.
KeepaliveCallbackError ==
    \E t \in kaReqs : \E a \in Answers(t) :
        /\ ~(a.status = "ok" /\ a.token = ka_token)
        /\ CountAfterError(a) # 0
        /\ kaReqs' = kaReqs \ {t}
        /\ ka_count' = CountAfterError(a)
        /\ out' = {}
        /\ fails' = FailsAfterError
        /\ UNCHANGED <<started, registered, ka_token, ka_alarm_id, chainVars,
                       kaAlarms, gw, acked, dropped>>

\* keepalive_callback, label ERR: the count reaches 0 and the client registers
\* again.  Cancelling id 0 or -1 finds no alarm.
KeepaliveCallbackLost ==
    \E t \in kaReqs : \E a \in Answers(t) :
        /\ ~(a.status = "ok" /\ a.token = ka_token)
        /\ CountAfterError(a) = 0
        /\ regReqs + regAlarms < MaxRegister
        /\ kaReqs' = kaReqs \ {t}
        /\ ka_count' = 0
        /\ registered' = 0
        /\ kaAlarms' = kaAlarms \ {ka_alarm_id}
        /\ ka_alarm_id' = -1
        /\ send_register_command(regReqs)
        /\ out' = {}
        /\ fails' = 0
        /\ acked' = 0
        /\ UNCHANGED <<started, ka_token, regAlarms, gw>>

\* The environment: the gateway or the network to it changes.
GatewayChanges ==
    /\ gw' \in Gateways \ {gw}
    /\ out' = {}
    /\ UNCHANGED <<started, registered, ka_token, ka_count, ka_alarm_id,
                   chainVars, kaAlarms, kaReqs, obsVars, dropped>>

Program ==
    \/ RegisterStart
    \/ RegAlarmCallback
    \/ RegCallbackOk
    \/ RegCallbackError
    \/ KeepaliveAlarmCallback
    \/ KeepaliveCallbackOk
    \/ KeepaliveCallbackError
    \/ KeepaliveCallbackLost

Next == Program \/ GatewayChanges

Spec == Init /\ [][Next]_vars

\* The loop runs forever: alarms that expire are triggered, and every request
\* is answered or times out.
Fairness ==
    /\ WF_vars(RegisterStart)
    /\ WF_vars(RegAlarmCallback)
    /\ WF_vars(RegCallbackOk \/ RegCallbackError)
    /\ WF_vars(KeepaliveAlarmCallback)
    /\ WF_vars(KeepaliveCallbackOk \/ KeepaliveCallbackError
               \/ KeepaliveCallbackLost)

FairSpec == Spec /\ Fairness
-----------------------------------------------------------------------------
\* keepalive_callback and reg_callback: a client that is not registered always
\* has a register request in flight or a retry alarm pending, and a registered
\* one has its keepalive alarm, unless a request or an alarm was refused.
NotStranded ==
    started = 1 /\ dropped = 0 =>
        \/ registered = 0 /\ regReqs + regAlarms > 0
        \/ registered = 1 /\ ka_alarm_id \in kaAlarms

\* The static ka_alarm_id is enough to cancel the keepalive alarm: unless the
\* loop stalls there is never a second alarm, never a register request beside
\* an alarm, and never two register requests.
SingleChain ==
    "stall" \notin Faults =>
        /\ kaAlarms \subseteq {ka_alarm_id}
        /\ regReqs + regAlarms <= 1
        /\ regReqs + regAlarms = 1 => kaAlarms = {}

\* keepalive_callback: once a keepalive has succeeded, KeepaliveCount failures
\* in a row make the client register again.
AckedLossDetected ==
    registered = 1 /\ acked = 1 =>
        ka_count > 0 /\ ka_count + fails = KeepaliveCount

\* keepalive_callback: whatever ka_count was at the registration, a registered
\* client has fewer than CountMod failures in a row behind it.
FailuresBounded == registered = 1 => fails < CountMod

-----------------------------------------------------------------------------
\* The parts of the inductive invariant behind the properties above.
BeforeStart ==
    started = 0 => /\ registered = 0 /\ regReqs = 0 /\ regAlarms = 0
                   /\ kaAlarms = {} /\ kaReqs = {}

\* Without stalls the keepalive in flight carries the last token and belongs
\* to a registered client with no register request outstanding.
PromptKeepalive ==
    "stall" \notin Faults =>
        /\ kaReqs \subseteq {ka_token}
        /\ kaReqs # {} => registered = 1 /\ regReqs + regAlarms = 0
        /\ kaAlarms # {} => registered = 1

\* How the failures seen and the count left relate while registered: the count
\* is untouched since the registration, or every failure took one from it.
CountInv ==
    registered = 1 =>
        \/ acked = 1 /\ ka_count > 0 /\ ka_count + fails = KeepaliveCount
        \/ acked = 0 /\ ka_count = 0 /\ fails = 0
        \/ acked = 0 /\ ka_count > 0 /\ ka_count + fails <= CountMod

\* The inductive invariant of reg_callback and keepalive_callback, and the
\* strengthening of SingleChain, AckedLossDetected and FailuresBounded.
IInv ==
    /\ TypeOK
    /\ BeforeStart
    /\ NotStranded
    /\ SingleChain
    /\ PromptKeepalive
    /\ CountInv
-----------------------------------------------------------------------------
\* A gateway that stays reachable gets the client registered for good.
EventuallyRegistered == <>[](gw = "good") => <>[](registered = 1)

\* A gateway that stays dead is noticed: the client gives up its registration.
EventuallyUnregistered == <>[](gw = "dead") => <>[](registered = 0)
=============================================================================
