--------------------------- MODULE RegisterProofs ---------------------------
(***************************************************************************)
(* Theorems about Register for every value of its constants.  IInv is      *)
(* shown inductive, one step per action; the properties follow from it.    *)
(***************************************************************************)
EXTENDS Register, TLAPS

\* ka_count-- of keepalive_callback stays in the range of its type.
LEMMA DecrementType ==
    ASSUME NEW c \in 0 .. CountMod - 1
    PROVE  Decrement(c) \in 0 .. CountMod - 1
BY RegisterAssumption DEF Decrement

\* ka_token++ of send_keepalive_command stays in the range of its type.
LEMMA NextTokenType ==
    ASSUME NEW t \in Tokens
    PROVE  NextToken(t) \in Tokens
BY RegisterAssumption DEF Tokens, NextToken

\* The count after an error fits its type; it is one less than before unless
\* the answer was 4xx, which leaves 0.
LEMMA CountAfterErrorValue ==
    ASSUME TypeOK, NEW a
    PROVE  /\ CountAfterError(a) \in 0 .. CountMod - 1
           /\ CountAfterError(a) # 0 => CountAfterError(a) = Decrement(ka_count)
<1>1. 1 \in 0 .. CountMod - 1
  BY RegisterAssumption
<1>2. Decrement(1) = 0
  BY DEF Decrement
<1>3. ka_count \in 0 .. CountMod - 1
  BY DEF TypeOK
<1> QED
  BY <1>1, <1>2, <1>3, DecrementType DEF CountAfterError

\* The zeroed statics of the file satisfy the invariant.
LEMMA InitIInv == Init => IInv
<1> SUFFICES ASSUME Init PROVE IInv
  OBVIOUS
<1>1. TypeOK
  BY RegisterAssumption DEF Init, TypeOK, Tokens
<1> QED
  BY <1>1 DEF Init, IInv, BeforeStart, NotStranded, SingleChain,
              PromptKeepalive, CountInv

\* Every handler keeps every static in its type.
LEMMA TypeStep == TypeOK /\ [Next]_vars => TypeOK'
<1> SUFFICES ASSUME TypeOK, [Next]_vars PROVE TypeOK'
  OBVIOUS
<1> USE RegisterAssumption DEF TypeOK
<1>1. CASE RegisterStart
  BY <1>1 DEF RegisterStart, send_register_command, obsVars
<1>2. CASE RegAlarmCallback
  BY <1>2 DEF RegAlarmCallback, send_register_command, AfterTrigger, obsVars
<1>3. CASE RegCallbackOk
  <2>1. out' \subseteq {"policy", "push_all"}
    BY <1>3, Zenon DEF RegCallbackOk
  <2>2. kaAlarms' \subseteq AlarmIds /\ ka_alarm_id' \in AlarmIds \cup {-1, 0}
    BY <1>3 DEF RegCallbackOk
  <2> QED
    BY <1>3, <2>1, <2>2 DEF RegCallbackOk
<1>4. CASE RegCallbackError
  BY <1>4 DEF RegCallbackError, AfterSet, obsVars
<1>5. CASE KeepaliveAlarmCallback
  BY <1>5, NextTokenType DEF KeepaliveAlarmCallback, chainVars, obsVars
<1>6. CASE KeepaliveCallbackOk
  BY <1>6 DEF KeepaliveCallbackOk, chainVars
<1>7. CASE KeepaliveCallbackError
  BY <1>7, CountAfterErrorValue
     DEF KeepaliveCallbackError, FailsAfterError, chainVars
<1>8. CASE KeepaliveCallbackLost
  BY <1>8 DEF KeepaliveCallbackLost, send_register_command
<1>9. CASE GatewayChanges
  BY <1>9 DEF GatewayChanges, chainVars, obsVars
<1>10. CASE UNCHANGED vars
  BY <1>10 DEF vars
<1> QED
  BY <1>1, <1>2, <1>3, <1>4, <1>5, <1>6, <1>7, <1>8, <1>9, <1>10
     DEF Next, Program
\* The statics of the file always hold values of their C types.
THEOREM TypeCorrect == Spec => []TypeOK
<1>1. Init => TypeOK
  BY InitIInv DEF IInv
<1> QED
  BY <1>1, TypeStep, PTL DEF Spec

\* Every handler preserves the inductive invariant.
LEMMA IInvStep == IInv /\ [Next]_vars => IInv'
<1> SUFFICES ASSUME IInv, [Next]_vars PROVE IInv'
  OBVIOUS
<1>t. TypeOK'
  BY TypeStep DEF IInv
<1>1. CASE RegisterStart
  <2> USE <1>1 DEF RegisterStart, send_register_command, obsVars
  <2>1. BeforeStart'
    BY DEF BeforeStart
  <2>2. NotStranded'
    BY DEF IInv, TypeOK, BeforeStart, NotStranded
  <2>3. SingleChain'
    BY DEF IInv, TypeOK, BeforeStart, SingleChain
  <2>4. PromptKeepalive'
    BY DEF IInv, BeforeStart, PromptKeepalive
  <2>5. CountInv'
    BY DEF IInv, CountInv
  <2> QED
    BY <2>1, <2>2, <2>3, <2>4, <2>5, <1>t DEF IInv
<1>2. CASE RegAlarmCallback
  <2> USE <1>2 DEF RegAlarmCallback, send_register_command, AfterTrigger, obsVars
  <2>1. BeforeStart'
    BY DEF IInv, TypeOK, BeforeStart
  <2>2. NotStranded'
    BY DEF IInv, TypeOK, NotStranded
  <2>3. SingleChain'
    BY DEF IInv, TypeOK, SingleChain
  <2>4. PromptKeepalive'
    BY DEF IInv, TypeOK, PromptKeepalive
  <2>5. CountInv'
    BY DEF IInv, CountInv
  <2> QED
    BY <2>1, <2>2, <2>3, <2>4, <2>5, <1>t DEF IInv
<1>3. CASE RegCallbackOk
  <2> USE <1>3 DEF RegCallbackOk
  <2>1. BeforeStart'
    BY DEF IInv, TypeOK, BeforeStart
  <2>2. NotStranded'
    BY DEF IInv, TypeOK, NotStranded
  <2>3. SingleChain'
    BY DEF IInv, TypeOK, SingleChain, PromptKeepalive
  <2>4. PromptKeepalive'
    BY DEF IInv, TypeOK, SingleChain, PromptKeepalive
  <2>5. CountInv'
    BY RegisterAssumption DEF IInv, TypeOK, CountInv
  <2> QED
    BY <2>1, <2>2, <2>3, <2>4, <2>5, <1>t DEF IInv
<1>4. CASE RegCallbackError
  <2> USE <1>4 DEF RegCallbackError, AfterSet, obsVars
  <2>1. BeforeStart'
    BY DEF IInv, TypeOK, BeforeStart
  <2>2. NotStranded'
    BY DEF IInv, TypeOK, NotStranded
  <2>3. SingleChain'
    BY DEF IInv, TypeOK, SingleChain
  <2>4. PromptKeepalive'
    BY DEF IInv, TypeOK, PromptKeepalive
  <2>5. CountInv'
    BY DEF IInv, CountInv
  <2> QED
    BY <2>1, <2>2, <2>3, <2>4, <2>5, <1>t DEF IInv
<1>5. CASE KeepaliveAlarmCallback
  <2> USE <1>5 DEF KeepaliveAlarmCallback, chainVars, obsVars
  <2>1. BeforeStart' /\ NotStranded' /\ SingleChain' /\ CountInv'
    BY DEF IInv, BeforeStart, NotStranded, SingleChain, CountInv
  <2>2. PromptKeepalive'
    BY DEF IInv, TypeOK, SingleChain, PromptKeepalive
  <2> QED
    BY <2>1, <2>2, <1>t DEF IInv
<1>6. CASE KeepaliveCallbackOk
  <2> USE <1>6 DEF KeepaliveCallbackOk, chainVars
  <2>1. BeforeStart' /\ NotStranded' /\ SingleChain' /\ PromptKeepalive'
    BY DEF IInv, BeforeStart, NotStranded, SingleChain, PromptKeepalive
  <2>2. CountInv'
    BY RegisterAssumption DEF IInv, TypeOK, CountInv
  <2> QED
    BY <2>1, <2>2, <1>t DEF IInv
<1>7. CASE KeepaliveCallbackError
  <2> USE <1>7 DEF KeepaliveCallbackError, chainVars
  <2>1. BeforeStart' /\ NotStranded' /\ SingleChain' /\ PromptKeepalive'
    BY DEF IInv, BeforeStart, NotStranded, SingleChain, PromptKeepalive
  <2>2. ka_count' = Decrement(ka_count) /\ ka_count' # 0
    BY CountAfterErrorValue DEF IInv
  <2>3. CountInv'
    BY <2>2, RegisterAssumption DEF IInv, TypeOK, CountInv, Decrement, FailsAfterError
  <2> QED
    BY <2>1, <2>3, <1>t DEF IInv
<1>8. CASE KeepaliveCallbackLost
  <2> USE <1>8 DEF KeepaliveCallbackLost, send_register_command
  <2>1. BeforeStart'
    BY DEF IInv, TypeOK, BeforeStart
  <2>2. NotStranded'
    BY DEF IInv, TypeOK, NotStranded
  <2>3. SingleChain'
    BY DEF IInv, TypeOK, SingleChain, PromptKeepalive
  <2>4. PromptKeepalive'
    BY DEF IInv, TypeOK, SingleChain, PromptKeepalive
  <2>5. CountInv'
    BY DEF CountInv
  <2> QED
    BY <2>1, <2>2, <2>3, <2>4, <2>5, <1>t DEF IInv
<1>9. CASE GatewayChanges
  BY <1>9, <1>t DEF GatewayChanges, chainVars, obsVars, IInv, BeforeStart,
     NotStranded, SingleChain, PromptKeepalive, CountInv
<1>10. CASE UNCHANGED vars
  BY <1>10, <1>t DEF vars, IInv, BeforeStart, NotStranded, SingleChain,
     PromptKeepalive, CountInv
<1> QED
  BY <1>1, <1>2, <1>3, <1>4, <1>5, <1>6, <1>7, <1>8, <1>9, <1>10
     DEF Next, Program

\* The inductive invariant holds in every reachable state.
THEOREM Inductive == Spec => []IInv
BY InitIInv, IInvStep, PTL DEF Spec

\* The registration machine never loses its way back to the gateway unless a
\* request or an alarm was refused, even when the loop stalls.
THEOREM NeverStranded == Spec => []NotStranded
<1>1. IInv => NotStranded
  BY DEF IInv
<1> QED
  BY <1>1, Inductive, PTL

\* Without stalls there is one register chain or one keepalive alarm.
THEOREM AlwaysSingleChain == Spec => []SingleChain
<1>1. IInv => SingleChain
  BY DEF IInv
<1> QED
  BY <1>1, Inductive, PTL

\* Once acknowledged, KeepaliveCount failures in a row end the registration.
THEOREM AckedLossAlwaysDetected == Spec => []AckedLossDetected
<1>1. IInv => AckedLossDetected
  BY DEF IInv, CountInv, AckedLossDetected
<1> QED
  BY <1>1, Inductive, PTL

\* In any case CountMod failures in a row end the registration.
THEOREM FailuresAlwaysBounded == Spec => []FailuresBounded
<1>1. IInv => FailuresBounded
  BY RegisterAssumption DEF IInv, TypeOK, CountInv, FailuresBounded
<1> QED
  BY <1>1, Inductive, PTL
=============================================================================
