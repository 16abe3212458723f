----------------------- MODULE ReputationWindowProofs -----------------------
(***************************************************************************)
(* Proofs about ReputationWindow, for any set of devices and any size of   *)
(* the feedback array.                                                     *)
(***************************************************************************)
EXTENDS ReputationWindow, TLAPS

LEMMA InitIInv == Init => IInv
<1> SUFFICES ASSUME Init PROVE IInv
  OBVIOUS
<1> USE ReputationWindowAssumption DEF Init
<1>1. TypeOK /\ InHandler /\ Quiet /\ Round
  <2>e. entry \in [Slots -> [id : Devices \cup {NoDev}, score : Scores]]
    BY DEF Scores
  <2>b. stepped \in BOOLEAN
    OBVIOUS
  <2>n. length \in 0 .. FeedbackMax \cup {Wild} /\ loaded \in Slots
    BY DEF Slots
  <2>1. TypeOK
    BY <2>e, <2>b, <2>n DEF TypeOK
  <2>2. InHandler /\ Quiet /\ Round
    BY DEF InHandler, Quiet, Round, Slots, Wild
  <2>. QED  BY <2>1, <2>2
<1>2. Distinct /\ Present /\ Ranked
  BY DEF Distinct, Present, Ranked, Coming, Scored, Slots, Wild
<1>. QED  BY <1>1, <1>2 DEF IInv

\* The bound variables of the invariant are numbers.
LEMMA SlotsNat == Slots \subseteq Nat /\ 0 \in Slots /\ Wild \in Nat /\ Wild \notin Slots
  BY ReputationWindowAssumption DEF Slots, Wild

\* The steps of reputation_query_task that leave the feedback alone.
LEMMA QuietStep ==
    ASSUME IInv,
           \/ Request \/ OpenWindow \/ StartWindow \/ Sleep \/ CloseWindow
           \/ SendFeedback \/ ClockStep
    PROVE  IInv'
<1> USE ReputationWindowAssumption DEF IInv
<1>1. UNCHANGED <<mpc, dev, lock, loaded, length, entry>>
  BY DEF Request, OpenWindow, StartWindow, Sleep, CloseWindow, SendFeedback,
         ClockStep, mqtt
<1>2. Coming' = Coming /\ Scored' = Scored /\ Filled' = Filled /\ Sendable' = Sendable
  BY <1>1 DEF Coming, Scored, Filled, Sendable
<1>3. TypeOK' /\ InHandler' /\ Quiet'
  <2>1. ASSUME NEW I \in SUBSET Sendable
        PROVE  {entry[i].id : i \in I} \subseteq Devices \cup {NoDev}
    BY DEF TypeOK, Sendable, Filled
  <2>2. stepped' \in BOOLEAN
    BY DEF Request, OpenWindow, StartWindow, Sleep, CloseWindow, SendFeedback,
           ClockStep, round, TypeOK
  <2>3. /\ sent' \subseteq Devices \cup {NoDev} /\ lost' \subseteq Devices \cup {NoDev}
        /\ timely' \subseteq Devices
    <3>1. CASE SendFeedback
      <4>1. PICK failing \in SUBSET Sendable :
                /\ sent' = {entry[i].id : i \in Sendable \ failing}
                /\ lost' = {entry[i].id : i \in failing}
        BY <3>1 DEF SendFeedback
      <4>2. Sendable \ failing \in SUBSET Sendable
        OBVIOUS
      <4>. QED  BY <2>1, <3>1, <4>1, <4>2 DEF SendFeedback, TypeOK
    <3>2. CASE ~SendFeedback
      BY <3>2 DEF Request, OpenWindow, StartWindow, Sleep, CloseWindow, ClockStep,
                  round, TypeOK
    <3>. QED  BY <3>1, <3>2
  <2>4. /\ active' \in {0, 1} /\ start' \in {"this", "earlier"}
        /\ qpc' \in {"request", "open", "reset", "start", "window", "close",
                     "send", "clear", "crashed"}
        /\ qpc = "crashed" <=> qpc' = "crashed"
    BY DEF Request, OpenWindow, StartWindow, Sleep, CloseWindow, SendFeedback,
           ClockStep, Goto, SetActive, TypeOK
  <2>5. TypeOK'
    BY <1>1, <2>2, <2>3, <2>4 DEF TypeOK
  <2>6. InHandler'
    BY <1>1, <2>4 DEF InHandler
  <2>7. Quiet'
    BY <1>1
    DEF Request, OpenWindow, StartWindow, Sleep, CloseWindow, SendFeedback, Goto,
        SetActive, CloseGuard, ClockStep, TypeOK, InHandler, Quiet
  <2>. QED  BY <2>5, <2>6, <2>7
<1>4. Round'
  <2>1. CASE SendFeedback
    <3>1. PICK failing \in SUBSET Sendable :
              /\ sent' = {entry[i].id : i \in Sendable \ failing}
              /\ lost' = {entry[i].id : i \in failing}
      BY <2>1 DEF SendFeedback
    <3>2. {entry'[i].id : i \in Sendable'} \subseteq sent' \cup lost'
      BY <1>1, <1>2, <3>1
    <3>. QED  BY <1>1, <2>1, <3>2 DEF SendFeedback, Goto, Round
  <2>2. CASE ~SendFeedback
    BY <1>1, <1>2, <2>2
    DEF Request, OpenWindow, StartWindow, Sleep, CloseWindow, Goto, ClockStep,
        SetActive, Round, round
  <2>. QED  BY <2>1, <2>2
<1>5. Distinct'
  BY <1>1, <1>2 DEF Distinct, Known
<1>6. Present'
  BY <1>1, <1>2
  DEF Request, OpenWindow, StartWindow, Sleep, CloseWindow, SendFeedback, Goto,
      ClockStep, Present, Round, round
<1>7. Ranked'
  <2>1. CASE Request \/ OpenWindow
    <3>1. Scored = {}
      BY <2>1, SlotsNat DEF Request, OpenWindow, Goto, Quiet, Round, Scored, Coming, Wild
    <3>. QED  BY <1>2, <3>1 DEF Ranked
  <2>2. CASE ClockStep
    BY <2>2 DEF ClockStep, Ranked
  <2>3. CASE ~(Request \/ OpenWindow \/ ClockStep)
    <3>1. /\ qpc' \notin {"reset", "start"} /\ (qpc' = "window" => qpc = "start")
          /\ stepped' = stepped /\ timely' = timely
      BY <2>3 DEF StartWindow, Sleep, CloseWindow, SendFeedback, Goto, round
    <3>. QED  BY <1>1, <1>2, <3>1 DEF Ranked
  <2>. QED  BY <2>1, <2>2, <2>3
<1>. QED  BY <1>3, <1>4, <1>5, <1>6, <1>7

\* The reset without the lock: what is left of the feedback when handle_data
\* goes on is the first entry, all of it (store) or none.
LEMMA ResetStep == IInv /\ ResetLength => IInv'
<1> SUFFICES ASSUME IInv, ResetLength PROVE IInv'
  OBVIOUS
<1> USE ReputationWindowAssumption DEF IInv, ResetLength, Goto, mqtt, round
<1>1. TypeOK' /\ InHandler' /\ Quiet' /\ Round'
  BY SlotsNat DEF TypeOK, InHandler, Quiet, Round, Wild
<1>2. /\ Coming' \subseteq Coming \cup {0} /\ Scored' \subseteq Scored
      /\ mpc # "store" => Coming' \subseteq {0}
      /\ mpc = "store" => Coming' = Coming
  BY SlotsNat DEF TypeOK, InHandler, Coming, Scored, Slots, Wild
<1>3. Distinct'
  <2>1. \A i, j \in Coming' : entry[i].id = entry[j].id => i = j
    BY <1>2 DEF Distinct
  <2>2. Filled' = {} /\ length' <= loaded
    BY DEF TypeOK, Filled, Slots
  <2>. QED  BY <2>1, <2>2 DEF Distinct, Known
<1>4. Present'
  BY DEF Present
<1>5. Ranked'
  BY <1>2 DEF Ranked
<1>. QED  BY <1>1, <1>3, <1>4, <1>5

LEMMA ClearStep == IInv /\ Clear => IInv'
<1> SUFFICES ASSUME IInv, Clear PROVE IInv'
  OBVIOUS
<1> USE ReputationWindowAssumption DEF IInv, Clear, Goto, mqtt, round
<1>1. TypeOK' /\ InHandler' /\ Quiet' /\ Round'
  BY SlotsNat DEF TypeOK, InHandler, Quiet, Round, Wild
<1>2. Coming' = {} /\ Scored' = {}
  BY SlotsNat DEF Quiet, Coming, Scored, Wild
<1>3. Distinct' /\ Present' /\ Ranked'
  BY <1>2 DEF Quiet, Distinct, Present, Ranked
<1>. QED  BY <1>1, <1>3

LEMMA ReceiveStep == ASSUME IInv, NEW d \in Devices, Receive(d) PROVE IInv'
<1> USE ReputationWindowAssumption DEF IInv, Receive, query
<1>1. TypeOK'
  BY DEF TypeOK
<1>2. InHandler' /\ Quiet'
  BY DEF Dropped, TypeOK, InHandler, Quiet, Wild
<1>3. Coming' = Coming /\ Scored' = Scored /\ Filled' = Filled
  BY DEF Coming, Scored, Filled
<1>4. Round'
  BY <1>3 DEF Round, Sendable
<1>5. Distinct'
  BY <1>3 DEF Distinct, Dropped, Known
<1>6. Present'
  <2> SUFFICES ASSUME qpc \in {"window", "close", "send", "clear"}, NEW e \in timely'
               PROVE  \/ length' = Wild
                      \/ mpc' = "entry" /\ dev' = e
                      \/ \E i \in Coming' : entry'[i].id = e
    BY DEF Present
  <2>1. CASE e \in timely
    BY <1>3, <2>1 DEF Present
  <2>2. CASE e = d /\ qpc = "window"
    <3>1. active = 1 /\ Coming = Filled
      BY <2>2 DEF Round, Coming, Filled, InHandler, TypeOK
    <3>2. ~(length > FeedbackMax)
      BY DEF InHandler, TypeOK
    <3>. QED  BY <1>3, <2>2, <3>1, <3>2 DEF Dropped, Known
  <2>. QED  BY <2>1, <2>2
<1>7. Ranked'
  <2>1. CASE qpc = "window"
    BY <1>3, <2>1 DEF Ranked
  <2>2. CASE qpc # "window"
    <3>1. ASSUME mpc' = "entry" PROVE dev' \notin timely
      <4>1. dev' = d /\ ~Known(d) /\ active = 1 /\ mpc = "idle" /\ length # Wild
        BY <3>1 DEF Dropped, TypeOK, InHandler
      <4>2. qpc \notin {"send", "clear"}
        BY <4>1 DEF Quiet
      <4>3. Coming = Filled
        BY <4>1 DEF Coming, Filled
      <4>. QED  BY <2>2, <4>1, <4>2, <4>3 DEF Present, Known, Round, Quiet, TypeOK, InHandler
    <3>. QED  BY <1>3, <2>2, <3>1 DEF Ranked
  <2>. QED  BY <2>1, <2>2
<1>. QED  BY <1>1, <1>2, <1>4, <1>5, <1>6, <1>7

LEMMA WriteEntryStep == IInv /\ WriteEntry => IInv'
<1> SUFFICES ASSUME IInv, WriteEntry PROVE IInv'
  OBVIOUS
<1> USE ReputationWindowAssumption, SlotsNat DEF IInv, WriteEntry, query, round
<1>1. CASE length \in Slots
  <2> USE <1>1
  <2>1. /\ entry'[length].id = dev /\ entry'[length].score = entry[length].score
        /\ \A i \in Slots : i # length => entry'[i] = entry[i]
    BY DEF TypeOK, InHandler
  <2>2. Coming = Filled /\ Coming' = Filled \cup {length} /\ Scored' = Scored
    BY <2>1 DEF TypeOK, Coming, Scored, Filled, Slots, Wild
  <2>t. TypeOK'
    BY DEF TypeOK
  <2>h. InHandler' /\ Quiet'
    BY DEF InHandler, Quiet, Slots
  <2>r. Round'
    BY DEF Round, Quiet
  <2>3. TypeOK' /\ InHandler' /\ Quiet' /\ Round'
    BY <2>t, <2>h, <2>r
  <2>4. Distinct'
    BY <2>1, <2>2 DEF Distinct, Known, Filled
  <2>5. Present'
    BY <2>1, <2>2 DEF TypeOK, Present, Filled, Slots
  <2>6. Ranked'
    BY <2>1, <2>2 DEF Ranked, Scored, Filled, Coming
  <2>. QED  BY <2>3, <2>4, <2>5, <2>6
<1>2. CASE length \notin Slots
  <2> USE <1>2
  <2>1. /\ entry'[0].id = NoDev /\ entry'[0].score = entry[0].score
        /\ \A i \in Slots : i # 0 => entry'[i] = entry[i]
    BY DEF TypeOK, InHandler
  <2>2. Coming' = {0} /\ Scored' = {0} /\ length = FeedbackMax /\ 0 \in Scored
    BY <2>1 DEF TypeOK, Coming, Scored, InHandler, Slots, Wild
  <2>3. TypeOK'
    BY DEF TypeOK, Wild
  <2>4. InHandler' /\ Quiet' /\ Round'
    BY DEF TypeOK, InHandler, Quiet, Round, Wild
  <2>5. Distinct' /\ Present'
    BY <2>2 DEF Distinct, Present
  <2>6. Ranked'
    BY <2>1, <2>2 DEF Ranked
  <2>. QED  BY <2>3, <2>4, <2>5, <2>6
<1>. QED  BY <1>1, <1>2

LEMMA WriteScoreStep == IInv /\ WriteScore => IInv'
<1> SUFFICES ASSUME IInv, WriteScore PROVE IInv'
  OBVIOUS
<1> USE ReputationWindowAssumption, SlotsNat DEF IInv, WriteScore, query, round
<1>1. PICK s \in TimeScore : entry' = [entry EXCEPT ![length].score = s]
  OBVIOUS
<1>2. /\ length \in Slots /\ length # Wild /\ length # FeedbackMax
      /\ entry'[length].id = entry[length].id /\ entry'[length].score = s
      /\ \A i \in Slots : i # length => entry'[i] = entry[i]
  BY <1>1 DEF TypeOK, InHandler, Slots
<1>3. /\ Coming' = Coming /\ Scored' = Scored \cup {length} /\ \A i \in Scored : i < length
      /\ Coming = Scored'
  BY <1>2 DEF TypeOK, Coming, Scored, Slots
<1>d. stepped \in BOOLEAN /\ start \in {"this", "earlier"}
  BY DEF TypeOK
<1>s. s \in Scores
  BY <1>1, <1>d DEF TimeScore, Scores
<1>4. TypeOK' /\ InHandler' /\ Quiet' /\ Round'
  <2>1. TypeOK'
    BY <1>1, <1>2, <1>s DEF TypeOK
  <2>2. InHandler' /\ Quiet' /\ Round'
    BY <1>2 DEF InHandler, Quiet, Round
  <2>. QED  BY <2>1, <2>2
<1>5. Distinct' /\ Present'
  BY <1>2, <1>3 DEF Distinct, Present, Coming
<1>6. Ranked'
  <2> SUFFICES ASSUME ~stepped PROVE Ranked'
    BY DEF Ranked
  <2>1. Scored \subseteq Slots
    BY DEF Scored, Coming
  <2>2. CASE qpc \in {"reset", "start"}
    <3>1. s # "right"
      BY <1>1, <1>d, <2>2 DEF Round, TimeScore
    <3>. QED  BY <1>2, <1>3, <2>1, <2>2, <3>1 DEF Ranked
  <2>3. CASE qpc = "window"
    <3>1. s = "right"
      BY <1>1, <1>2, <1>d, <2>3 DEF Round, TimeScore
    <3>. QED  BY <1>2, <1>3, <2>1, <2>3, <3>1 DEF Ranked, Slots
  <2>4. CASE qpc = "close"
    <3>1. s \in {"right", "refused"}
      BY <1>1, <1>2, <1>d, <2>4 DEF Round, TimeScore
    <3>. QED  BY <1>2, <1>3, <2>1, <2>4, <3>1 DEF Ranked, Slots
  <2>. QED  BY <2>2, <2>3, <2>4 DEF TypeOK, Quiet, InHandler
<1>. QED  BY <1>4, <1>5, <1>6

LEMMA SegfaultStep == IInv /\ Segfault => IInv'
<1> SUFFICES ASSUME IInv, Segfault PROVE IInv'
  OBVIOUS
<1> USE ReputationWindowAssumption, SlotsNat DEF IInv, Segfault, round
<1>1. length = Wild
  BY DEF TypeOK, InHandler, Slots
<1>2. TypeOK' /\ InHandler' /\ Quiet' /\ Round'
  BY <1>1 DEF TypeOK, InHandler, Quiet, Round, Wild
<1>3. Coming' = Coming /\ Coming = {0} /\ Scored' = {0} /\ Scored = {0}
  BY <1>1 DEF Coming, Scored, Wild
<1>4. Distinct' /\ Present' /\ Ranked'
  BY <1>1, <1>3 DEF Distinct, Present, Ranked
<1>. QED  BY <1>2, <1>4

LEMMA LoadLengthStep == IInv /\ LoadLength => IInv'
<1> SUFFICES ASSUME IInv, LoadLength PROVE IInv'
  OBVIOUS
<1> USE ReputationWindowAssumption, SlotsNat DEF IInv, LoadLength, query, round
<1>1. length \in Slots /\ length # Wild
  BY DEF TypeOK, InHandler, Slots
<1>2. Coming' = Coming /\ Scored' = Scored
  BY <1>1 DEF Coming, Scored
<1>3. TypeOK' /\ InHandler' /\ Quiet' /\ Round'
  BY <1>1 DEF TypeOK, InHandler, Quiet, Round, Sendable, Filled
<1>4. Distinct' /\ Present' /\ Ranked'
  BY <1>1, <1>2 DEF TypeOK, Distinct, Present, Ranked
<1>. QED  BY <1>3, <1>4

LEMMA StoreLengthStep == IInv /\ StoreLength => IInv'
<1> SUFFICES ASSUME IInv, StoreLength PROVE IInv'
  OBVIOUS
<1> USE ReputationWindowAssumption, SlotsNat DEF IInv, StoreLength, query, round
<1>1. length' \in 1 .. FeedbackMax /\ length # Wild
  BY DEF TypeOK, InHandler, Slots
<1>2. Coming' = Coming /\ Scored' = Scored
  BY <1>1 DEF TypeOK, Coming, Scored, Slots, Wild
<1>3. TypeOK' /\ InHandler' /\ Quiet' /\ Round'
  BY <1>1 DEF TypeOK, InHandler, Quiet, Round, Wild
<1>4. Distinct' /\ Present' /\ Ranked'
  BY <1>1, <1>2 DEF TypeOK, Distinct, Present, Ranked, Wild
<1>. QED  BY <1>3, <1>4

\* Every step of the two threads preserves the inductive invariant.
LEMMA IInvStep == IInv /\ [Next]_vars => IInv'
<1> SUFFICES ASSUME IInv, [Next]_vars PROVE IInv'
  OBVIOUS
<1>1. CASE QueryTask
  BY <1>1, QuietStep, ResetStep, ClearStep DEF QueryTask
<1>5. CASE ClockStep
  BY <1>5, QuietStep
<1>2. CASE HandleData
  BY <1>2, WriteEntryStep, WriteScoreStep, SegfaultStep, LoadLengthStep, StoreLengthStep
  DEF HandleData
<1>3. CASE \E d \in Devices : Receive(d)
  BY <1>3, ReceiveStep
<1>4. CASE UNCHANGED vars
  BY <1>4
  DEF vars, IInv, TypeOK, InHandler, Quiet, Round, Distinct, Present, Ranked,
      Coming, Scored, Filled, Sendable, Known, round
<1>. QED  BY <1>1, <1>2, <1>3, <1>4, <1>5 DEF Next

\* rep_info stays in step with the lock and the window, and feedback_length
\* within the array except from an entry past it until the application ends
\* (IInv).
THEOREM WindowInductive == Spec => []IInv
<1>1. Init => IInv
  BY InitIInv
<1>2. IInv /\ [Next]_vars => IInv'
  BY IInvStep
<1>. QED  BY <1>1, <1>2, PTL DEF Spec

\* From the end of a window to the next, only reputation_query_task touches the
\* feedback: it may use it without the lock.
THEOREM AlwaysFrozen == Spec => FeedbackFrozen
<1> DEFINE Frozen == (qpc = "send" \/ qpc = "clear") /\ qpc' = qpc =>
                         length' = length /\ entry' = entry
<1>1. IInv /\ [Next]_vars => [Frozen]_vars
  <2> SUFFICES ASSUME IInv, Next, qpc = "send" \/ qpc = "clear", qpc' = qpc
               PROVE  length' = length /\ entry' = entry
    BY DEF vars
  <2>1. active = 0 /\ mpc = "idle"
    BY DEF IInv, Quiet
  <2>2. CASE QueryTask
    BY <2>2 DEF QueryTask, Goto, Request, OpenWindow, ResetLength, StartWindow,
                Sleep, CloseWindow, SendFeedback, Clear
  <2>3. CASE HandleData
    BY <2>1, <2>3 DEF HandleData, WriteEntry, WriteScore, Segfault, LoadLength, StoreLength
  <2>4. CASE \E d \in Devices : Receive(d)
    BY <2>4 DEF Receive
  <2>5. CASE ClockStep
    BY <2>5 DEF ClockStep
  <2>. QED  BY <2>2, <2>3, <2>4, <2>5 DEF Next
<1>. QED  BY <1>1, WindowInductive, PTL DEF Spec, FeedbackFrozen

\* When feedback is sent, each device is in it once and every device that
\* answered in the window is in it.
THEOREM AlwaysOneEntryEach == Spec => []OneEntryEach
<1>1. IInv => OneEntryEach
  <2> SUFFICES ASSUME IInv, qpc = "send" PROVE OneEntryEach
    BY DEF OneEntryEach
  <2>1. Coming = Filled /\ length # Wild
    BY DEF IInv, Quiet, InHandler, Coming, Filled
  <2>2. timely \subseteq {entry[i].id : i \in Filled}
    BY <2>1 DEF IInv, Quiet, Present
  <2>. QED  BY <2>1, <2>2 DEF IInv, Distinct, OneEntryEach
<1>. QED  BY <1>1, WindowInductive, PTL

\* Feedback is written for every device that answered in the window up to the
\* first refused score, which is an early one, the one of the last timely device
\* or the work of a clock that was set.
THEOREM AlwaysComplete == Spec => []FeedbackComplete
<1>1. IInv => FeedbackComplete
  <2> SUFFICES ASSUME IInv, qpc = "clear", NEW d \in timely, d \notin sent \cup lost
               PROVE  \E i, j \in Filled :
                          /\ entry[i].id = d /\ j <= i /\ entry[j].score = "refused"
                          /\ stepped \/ Early(j) \/ (j = i /\ LastTimely(i))
    BY DEF FeedbackComplete
  <2>1. Coming = Filled /\ Scored = Filled /\ length # Wild
    BY DEF IInv, Quiet, InHandler, Coming, Scored, Filled
  <2>2. PICK i \in Filled : entry[i].id = d
    BY <2>1 DEF IInv, Quiet, Present
  <2>3. i \notin Sendable
    BY <2>2 DEF IInv, Round
  <2>4. PICK j \in 0 .. i : entry[j].score = "refused"
    BY <2>3 DEF Sendable
  <2>5. j \in Filled /\ i \in Nat /\ j \in Nat /\ j <= i
    BY ReputationWindowAssumption, <2>4 DEF Filled, Slots, IInv, TypeOK, Wild
  <2>6. ASSUME ~stepped, ~Early(j) PROVE j = i /\ LastTimely(i)
    <3>1. PICK k \in Filled : k < j /\ entry[k].score = "right"
      BY <2>6 DEF Early
    <3>2. \A m \in Filled : m > j => entry[m].id \notin timely
      BY <2>1, <2>4, <2>5, <2>6, <3>1 DEF IInv, Ranked
    <3>3. ~(i > j)
      BY <2>2, <3>2
    <3>4. i = j
      BY <2>5, <3>3
    <3>. QED  BY <3>2, <3>4 DEF LastTimely
  <2>. QED  BY <2>2, <2>4, <2>5, <2>6
<1>. QED  BY <1>1, WindowInductive, PTL
=============================================================================
