---------------------------- MODULE ServerProofs ----------------------------
(***************************************************************************)
(* Proofs about Server, for any set of features with procs in it, any      *)
(* number of alarms, any width of the threshold and any size of a request. *)
(***************************************************************************)
EXTENDS Server, LeastNumber, FiniteSetTheorems, SequenceTheorems, TLAPS

\* The list of features is a sequence, and First takes a member of its set.
LEMMA FeaturesSeq == \E S : AllFeatures \in Seq(S)
<1> DEFINE S == {"hostname", "kernel_info", "uptime", "totalram", "freeram",
                 "sharedram", "bufferram", "totalswap", "freeswap", "procs", "load1",
                 "load5", "load15", "packets_per_minute", "packets_avg"}
<1>1. /\ <<"hostname", "kernel_info">> \in Seq(S)
      /\ SysinfoFeatures \in Seq(S) /\ PacketsFeatures \in Seq(S)
  BY DEF SysinfoFeatures, PacketsFeatures
<1> HIDE DEF S
<1>. QED  BY <1>1, ConcatProperties DEF AllFeatures

LEMMA FirstIn ==
    ASSUME NEW fs, fs \subseteq Features, fs # {} PROVE First(fs) \in fs
<1> DEFINE I == {i \in DOMAIN AllFeatures : AllFeatures[i] \in fs}
<1>1. DOMAIN AllFeatures = 1 .. Len(AllFeatures) /\ Len(AllFeatures) \in Nat
  BY FeaturesSeq, LenProperties
<1>2. I \subseteq Nat
  BY <1>1
<1>3. fs \subseteq {AllFeatures[i] : i \in DOMAIN AllFeatures}
  BY TelemetryAssumption DEF Features, Range
<1>4. I # {}
  BY <1>3
<1>5. Min(I) \in I
  BY <1>2, <1>4, MinOf
<1>. QED  BY <1>5 DEF First

\* atlas_alarm_set and atlas_alarm_cancel on the table of alarms.  In b, id n
\* has got entry e, and the others are as in a.
Taken(a, b, n, e) ==
    /\ n \in Ids /\ a[n] = Unused /\ b[n] = e
    /\ \A id \in Ids \ {n} : b[id] = a[id]

LEMMA SetFacts ==
    ASSUME NEW a \in [Ids -> Entry], NEW k, NEW w, Alarm(k, w) \in Entry
    PROVE  /\ AlarmSet(a, k, w) \in [Ids -> Entry]
           /\ FreeIds(a) = {} => AlarmSet(a, k, w) = a /\ NewId(a) = NoId
           /\ FreeIds(a) # {} => Taken(a, AlarmSet(a, k, w), NewId(a), Alarm(k, w))
<1>1. CASE FreeIds(a) = {}
  BY <1>1 DEF AlarmSet, NewId
<1>2. CASE FreeIds(a) # {}
  <2>1. FreeIds(a) \subseteq Nat
    BY AlarmTableAssumption DEF FreeIds, Ids
  <2>2. NewId(a) \in FreeIds(a)
    BY <1>2, <2>1, MinOf DEF NewId
  <2>. QED  BY <1>2, <2>2 DEF AlarmSet, FreeIds, Taken
<1>. QED  BY <1>1, <1>2

LEMMA CancelFacts ==
    ASSUME NEW a \in [Ids -> Entry], NEW i
    PROVE  /\ AlarmCancel(a, i) \in [Ids -> Entry]
           /\ i \notin Ids => AlarmCancel(a, i) = a
           /\ i \in Ids => AlarmCancel(a, i)[i] = Unused
           /\ \A id \in Ids \ {i} : AlarmCancel(a, i)[id] = a[id]
  BY DEF AlarmCancel, Entry

\* The kinds of alarm are told apart.
LEMMA EntryFacts ==
    /\ Unused.kind = "free"
    /\ \A e \in Entry : e.kind = "free" <=> e = Unused
    /\ \A e \in Entry : e.kind = "request" => e.what \in Features /\ e = Alarm("request", e.what)
    /\ \A k \in {"push", "threshold", "restart", "shutdown"} :
           Alarm(k, "") \in Entry /\ Alarm(k, "").kind = k
    /\ \A f \in Features : Alarm("request", f) \in Entry /\ Alarm("request", f).kind = "request"
    /\ \A f, g : Alarm("request", f) = Alarm("request", g) => f = g
<1>1. /\ Unused.kind = "free"
      /\ \A f, g : Alarm("request", f) = Alarm("request", g) => f = g
  BY DEF Unused, Alarm
<1>2. ASSUME NEW e \in Entry
      PROVE  /\ e.kind = "free" <=> e = Unused
             /\ e.kind = "request" => e.what \in Features /\ e = Alarm("request", e.what)
  <2>1. CASE e = Unused
    BY <2>1 DEF Unused, Alarm
  <2>2. CASE e \in [kind : {"push", "threshold", "restart", "shutdown"}, what : {""}]
    <3>1. e.kind \in {"push", "threshold", "restart", "shutdown"}
      BY <2>2
    <3>. QED  BY <1>1, <3>1
  <2>3. CASE e \in [kind : {"request"}, what : Features]
    <3>1. e.kind = "request" /\ e.what \in Features
      BY <2>3
    <3>2. e = [kind |-> e.kind, what |-> e.what]
      BY <2>3
    <3>. QED  BY <1>1, <3>1, <3>2 DEF Alarm
  <2>. QED  BY <2>1, <2>2, <2>3 DEF Entry
<1>3. ASSUME NEW k \in {"push", "threshold", "restart", "shutdown"}
      PROVE  Alarm(k, "") \in Entry /\ Alarm(k, "").kind = k
  BY DEF Alarm, Entry
<1>4. ASSUME NEW f \in Features
      PROVE  Alarm("request", f) \in Entry /\ Alarm("request", f).kind = "request"
  BY DEF Alarm, Entry
<1>. QED  BY <1>1, <1>2, <1>3, <1>4

\* The kinds of alarm that belong to no request.
Lasting == {"push", "threshold", "restart", "shutdown"}

\* State r has what state s has, and perhaps further pushes.
Pushing == [alarms : [Ids -> Entry], owed : SUBSET Features]
PushedFrom(s, r) ==
    /\ r \in Pushing
    /\ s.owed \subseteq r.owed
    /\ \A id \in Ids : s.alarms[id] # Unused => r.alarms[id] = s.alarms[id]
    /\ \A id \in Ids : s.alarms[id] = Unused =>
           r.alarms[id] = Unused \/ r.alarms[id].kind = "request"
    /\ \A f \in r.owed \ s.owed : \E id \in Ids : r.alarms[id] = Alarm("request", f)

\* atlas_telemetry_push.
LEMMA PushFacts ==
    ASSUME NEW s \in Pushing,
           NEW reg, NEW f \in Features, NEW skip
    PROVE  /\ PushedFrom(s, Push(s, reg, f, skip))
           /\ reg /\ f \notin skip /\ FreeIds(s.alarms) # {} =>
                  \E id \in Ids : /\ s.alarms[id] = Unused
                                  /\ Push(s, reg, f, skip).alarms[id] = Alarm("request", f)
           /\ ~reg \/ f \in skip \/ FreeIds(s.alarms) = {} => Push(s, reg, f, skip) = s
<1>1. CASE ~reg \/ f \in skip \/ FreeIds(s.alarms) = {}
  BY <1>1 DEF Push, PushedFrom, Pushing
<1>2. CASE ~(~reg \/ f \in skip \/ FreeIds(s.alarms) = {})
  <2> DEFINE n == NewId(s.alarms)
             b == AlarmSet(s.alarms, "request", f)
             r == Push(s, reg, f, skip)
  <2>1. Alarm("request", f) \in Entry /\ Alarm("request", f).kind = "request"
    BY EntryFacts
  <2>2. /\ b \in [Ids -> Entry] /\ n \in Ids /\ s.alarms[n] = Unused
        /\ b[n] = Alarm("request", f)
        /\ \A id \in Ids \ {n} : b[id] = s.alarms[id]
    BY <1>2, <2>1, SetFacts DEF Pushing, Taken
  <2>3. r = [alarms |-> b, owed |-> s.owed \cup {f}]
    BY <1>2 DEF Push
  <2> HIDE DEF b, n, r
  <2>4. PushedFrom(s, r)
    BY <2>1, <2>2, <2>3 DEF PushedFrom, Pushing
  <2>. QED  BY <1>2, <2>2, <2>3, <2>4 DEF r
<1>. QED  BY <1>1, <1>2

LEMMA PushedTrans ==
    ASSUME NEW s, NEW r, NEW t, PushedFrom(s, r), PushedFrom(r, t)
    PROVE  PushedFrom(s, t)
<1>1. Unused.kind # "request"
  BY EntryFacts
<1>2. ASSUME NEW f \in t.owed \ s.owed
      PROVE  \E id \in Ids : t.alarms[id] = Alarm("request", f)
  <2>1. CASE f \in r.owed
    <3>1. PICK id \in Ids : r.alarms[id] = Alarm("request", f)
      BY <1>2, <2>1 DEF PushedFrom
    <3>2. r.alarms[id] # Unused
      <4>1. f \in Features
        BY <1>2 DEF PushedFrom, Pushing
      <4>2. Alarm("request", f).kind = "request"
        BY <4>1, EntryFacts
      <4>. QED  BY <1>1, <3>1, <4>2
    <3>. QED  BY <3>1, <3>2 DEF PushedFrom
  <2>2. CASE f \notin r.owed
    BY <1>2, <2>2 DEF PushedFrom
  <2>. QED  BY <2>1, <2>2
<1>3. \A id \in Ids : s.alarms[id] # Unused => t.alarms[id] = s.alarms[id]
  BY DEF PushedFrom
<1>4. \A id \in Ids : s.alarms[id] = Unused =>
          t.alarms[id] = Unused \/ t.alarms[id].kind = "request"
  BY <1>1 DEF PushedFrom
<1>. QED  BY <1>2, <1>3, <1>4 DEF PushedFrom

\* atlas_telemetry_push_all: the pushes of all features, one after the other.
LEMMA PushNthFacts ==
    ASSUME NEW s \in Pushing,
           NEW i, NEW skip
    PROVE  PushedFrom(s, PushNth(s, i, skip))
<1>1. CASE AllFeatures[i] \in Features
  BY <1>1, PushFacts DEF PushNth
<1>2. CASE AllFeatures[i] \notin Features
  BY <1>2 DEF PushNth, PushedFrom, Pushing
<1>. QED  BY <1>1, <1>2

LEMMA PushAllFacts ==
    ASSUME NEW s \in Pushing, NEW skip PROVE PushedFrom(s, PushAll(s, skip))
<1> DEFINE n == Len(AllFeatures)
           X == {r \in Pushing : PushedFrom(s, r)}
           Is(t) == t = [i \in 0 .. n |-> IF i = 0 THEN s ELSE PushNth(t[i - 1], i, skip)]
           u == CHOOSE t : Is(t)
           F == [z \in (1 .. n) \X X |-> PushNth(z[2], z[1], skip)]
<1>1. n \in Nat
  BY FeaturesSeq, LenProperties
<1>2. s \in X
  BY DEF PushedFrom, Pushing
<1>3. ASSUME NEW r \in X, NEW i PROVE PushNth(r, i, skip) \in X
  <2>1. PushedFrom(r, PushNth(r, i, skip))
    BY PushNthFacts
  <2>2. PushedFrom(s, PushNth(r, i, skip))
    BY <2>1, PushedTrans
  <2>. QED  BY <2>2 DEF PushedFrom
<1>4. StepsIn(X, n, F)
  BY <1>3 DEF StepsIn
<1>5. PICK t : Follows(t, X, s, n, F)
  <2> HIDE DEF F, X, n
  <2>. QED  BY <1>1, <1>2, <1>4, Recursion
<1>6. Is(t)
  <2>1. ASSUME NEW i \in 0 .. n
        PROVE  t[i] = IF i = 0 THEN s ELSE PushNth(t[i - 1], i, skip)
    <3>1. CASE i = 0
      BY <1>5, <3>1 DEF Follows
    <3>2. CASE i # 0
      <4>1. i \in 1 .. n /\ i - 1 \in 0 .. n
        BY <1>1, <3>2
      <4>2. t[i - 1] \in X
        BY <1>5, <4>1 DEF Follows
      <4>3. F[<<i, t[i - 1]>>] = PushNth(t[i - 1], i, skip)
        BY <4>1, <4>2
      <4>. QED  BY <1>5, <3>2, <4>1, <4>3 DEF Follows
    <3>. QED  BY <3>1, <3>2
  <2>2. t = [i \in 0 .. n |-> t[i]]
    BY <1>5 DEF Follows
  <2> HIDE DEF X, n
  <2>. QED  BY <2>1, <2>2
<1>7. Is(u)
  BY <1>6
<1>8. u[0] = s /\ \A i \in 1 .. n : u[i] = PushNth(u[i - 1], i, skip)
  <2> HIDE DEF n, u
  <2>. QED  BY <1>1, <1>7
<1>9. \A i \in 1 .. n : u[i - 1] \in X => u[i] \in X
  BY <1>3, <1>8
<1>10. \A i \in 0 .. n : u[i] \in X
  <2> HIDE DEF n, u, X
  <2>. QED  BY <1>1, <1>2, <1>8, <1>9, UpTo
<1>11. u[n] \in X
  BY <1>1, <1>10
<1>12. PushAll(s, skip) = u[n]
  BY DEF PushAll
<1>. QED  BY <1>11, <1>12

-----------------------------------------------------------------------------
LEMMA InitIInv == Init => IInv
<1> SUFFICES ASSUME Init PROVE IInv
  OBVIOUS
<1> USE TelemetryAssumption, CommandExecuteAssumption, AlarmTableAssumption
<1>1. alarms \in [Ids -> Entry] /\ \A id \in Ids : alarms[id].kind = "free"
  BY EntryFacts DEF Init, NoAlarms, Entry
<1>2. TypeOK
  <2>1. 0 \in 0 .. Width - 1 /\ 0 \in 0 .. MaxBatch
    OBVIOUS
  <2>2. TelTypeOK
    BY <1>1, <2>1 DEF Init, TelInit, TelTypeOK
  <2>3. CmdTypeOK
    BY <2>1 DEF Init, CmdInit, CmdTypeOK, None
  <2>. QED  BY <2>2, <2>3 DEF TypeOK
<1>3. \A k \in Lasting : IdsOf(alarms, k) = {}
  BY <1>1 DEF IdsOf, Lasting
<1>4. AlarmsOwned
  BY <1>3 DEF Init, TelInit, AlarmsOwned, Holds, Lasting
<1>5. NoPushForgotten /\ OneRequest /\ NoneTaken
  BY DEF Init, TelInit, CmdInit, NoPushForgotten, OneRequest, NoneTaken
<1>6. CommandsKept
  BY <1>3, FS_EmptySet
  DEF Init, CmdInit, CommandsKept, Runnable, Lasting, None
<1>. QED  BY <1>2, <1>4, <1>5, <1>6 DEF IInv

\* A step that concerns requests of the telemetry, and no other alarm.
Untouched == \A k \in Lasting : IdsOf(alarms', k) = IdsOf(alarms, k)

LEMMA RequestStep ==
    ASSUME IInv, UNCHANGED <<push_id, threshold_id, procs_threshold, cmdVars>>,
           registered' \in BOOLEAN, alarms' \in [Ids -> Entry],
           owed' \subseteq Features, Untouched, NoPushForgotten'
    PROVE  IInv'
<1>1. TypeOK'
  BY DEF IInv, TypeOK, TelTypeOK, CmdTypeOK, cmdVars
<1>2. AlarmsOwned'
  BY DEF IInv, AlarmsOwned, Holds, Owner, Untouched, Lasting
<1>3. OneRequest' /\ NoneTaken'
  BY DEF IInv, OneRequest, NoneTaken, cmdVars
<1>4. CommandsKept'
  BY DEF IInv, CommandsKept, Untouched, Lasting, Runnable, cmdVars
<1>. QED  BY <1>1, <1>2, <1>3, <1>4 DEF IInv

\* A step that ends with pushes only.
LEMMA PushStep ==
    ASSUME IInv, UNCHANGED <<push_id, threshold_id, procs_threshold, cmdVars>>,
           registered' \in BOOLEAN, NEW r, PushedFrom(Now, r), Becomes(r)
    PROVE  IInv'
<1>1. alarms' = r.alarms /\ owed' = r.owed /\ Now.alarms = alarms /\ Now.owed = owed
  BY DEF Becomes, Now
<1>2. alarms' \in [Ids -> Entry] /\ owed' \subseteq Features
  BY <1>1 DEF PushedFrom, Pushing
<1>3. /\ \A id \in Ids : alarms[id] # Unused => alarms'[id] = alarms[id]
      /\ \A id \in Ids : alarms[id] = Unused =>
             alarms'[id] = Unused \/ alarms'[id].kind = "request"
      /\ \A f \in owed' \ owed : \E id \in Ids : alarms'[id] = Alarm("request", f)
  BY <1>1 DEF PushedFrom
<1>4. Untouched
  <2>1. Unused.kind \notin Lasting /\ "request" \notin Lasting
    BY EntryFacts DEF Lasting
  <2>. QED  BY <1>3, <2>1 DEF Untouched, IdsOf
<1>5. NoPushForgotten'
  <2>1. \A f \in owed : InFlight(f) => InFlight(f)'
    <3>1. \A f : Alarm("request", f) # Unused
      BY DEF Unused, Alarm
    <3>. QED  BY <1>3, <3>1 DEF InFlight
  <2>. QED  BY <1>3, <2>1 DEF IInv, NoPushForgotten, InFlight, Overshadowed
<1>. QED  BY <1>2, <1>4, <1>5, RequestStep

LEMMA NowPushing == IInv => Now \in Pushing
  BY DEF IInv, TypeOK, TelTypeOK, Now, Pushing

LEMMA RegisteredStep == IInv /\ Registered /\ UNCHANGED cmdVars => IInv'
<1> SUFFICES ASSUME IInv, Registered, UNCHANGED cmdVars PROVE IInv'
  OBVIOUS
<1>1. PICK skip : Becomes(PushAll(Now, skip))
  BY DEF Registered
<1>2. PushedFrom(Now, PushAll(Now, skip))
  BY PushAllFacts, NowPushing
<1>. QED  BY <1>1, <1>2, PushStep DEF Registered

LEMMA LostStep == IInv /\ RegistrationLost /\ UNCHANGED cmdVars => IInv'
<1> SUFFICES ASSUME IInv, RegistrationLost, UNCHANGED cmdVars PROVE IInv'
  OBVIOUS
<1>1. NoPushForgotten'
  BY DEF IInv, NoPushForgotten, RegistrationLost, InFlight, Overshadowed
<1>2. Untouched
  BY DEF RegistrationLost, Untouched
<1>. QED  BY <1>1, <1>2, RequestStep DEF RegistrationLost, IInv, TypeOK, TelTypeOK

\* The pushes of alarms and of alerts with rate 0.
LEMMA AlarmPushStep ==
    ASSUME IInv, NEW id \in Ids, PushAlarm(id) \/ ThresholdAlarm(id),
           UNCHANGED cmdVars
    PROVE  IInv'
<1>1. PICK fs, skip :
          fs \in SUBSET Features /\ fs # {} /\ Becomes(Push(Now, registered, First(fs), skip))
  BY DEF PushAlarm, ThresholdAlarm, Owner
<1>2. First(fs) \in Features
  BY <1>1, FirstIn
<1>3. PushedFrom(Now, Push(Now, registered, First(fs), skip))
  BY <1>2, PushFacts, NowPushing
<1>4. UNCHANGED <<push_id, threshold_id, procs_threshold>> /\ registered' \in BOOLEAN
  BY DEF PushAlarm, ThresholdAlarm, IInv, TypeOK, TelTypeOK
<1>. QED  BY <1>1, <1>3, <1>4, PushStep

LEMMA PushNowStep ==
    ASSUME IInv, NEW f \in Features, PushNow(f), UNCHANGED cmdVars
    PROVE  IInv'
<1>1. PICK skip : Becomes(Push(Now, registered, f, skip))
  BY DEF PushNow
<1>2. PushedFrom(Now, Push(Now, registered, f, skip))
  BY PushFacts, NowPushing
<1>. QED  BY <1>1, <1>2, PushStep DEF PushNow, IInv, TypeOK, TelTypeOK

\* telemetry_callback with an answer: the request goes, and with it the debt.
LEMMA AnsweredStep ==
    ASSUME IInv, NEW id \in Ids, Answered(id), UNCHANGED cmdVars
    PROVE  IInv'
<1>1. /\ alarms \in [Ids -> Entry] /\ alarms[id].kind = "request"
      /\ owed \subseteq Features /\ registered \in BOOLEAN
  BY DEF IInv, TypeOK, TelTypeOK, Answered
<1>2. /\ alarms' \in [Ids -> Entry] /\ alarms'[id] = Unused
      /\ \A j \in Ids \ {id} : alarms'[j] = alarms[j]
      /\ owed' = owed \ {alarms[id].what}
  BY <1>1, CancelFacts DEF Answered
<1>3. Untouched
  BY <1>1, <1>2, EntryFacts DEF Untouched, IdsOf, Lasting
<1>4. NoPushForgotten'
  <2>1. ASSUME NEW f \in owed', InFlight(f) PROVE InFlight(f)'
    <3>1. PICK j \in Ids : alarms[j] = Alarm("request", f)
      BY <2>1 DEF InFlight
    <3>2. j # id
      BY <1>1, <1>2, <2>1, <3>1 DEF Alarm
    <3>. QED  BY <1>2, <3>1, <3>2 DEF InFlight
  <2>. QED  BY <1>2, <2>1 DEF IInv, NoPushForgotten, Overshadowed
<1>. QED  BY <1>1, <1>2, <1>3, <1>4, RequestStep DEF Answered

\* telemetry_callback after a timeout: the retry holds an id of its own, so the
\* feature stays in flight when the alarm of the request goes.
LEMMA TimedOutStep ==
    ASSUME IInv, NEW id \in Ids, TimedOut(id), UNCHANGED cmdVars
    PROVE  IInv'
<1> DEFINE f == alarms[id].what
           g == First(Matches(f))
<1>1. /\ alarms \in [Ids -> Entry] /\ alarms[id].kind = "request"
      /\ alarms[id] = Alarm("request", f) /\ f \in Features
      /\ owed \subseteq Features /\ registered \in BOOLEAN
  BY EntryFacts DEF IInv, TypeOK, TelTypeOK, TimedOut
<1>2. g \in Features
  <2>1. Matches(f) \subseteq Features /\ f \in Matches(f)
    BY <1>1 DEF Matches
  <2>. QED  BY <2>1, FirstIn
<1>3. PICK skip \in SUBSET {g} :
          LET s == Retry(Now, f, skip)
              excused == ~registered \/ skip # {} \/ FreeIds(alarms) = {}
          IN  Becomes([alarms |-> AlarmCancel(s.alarms, id),
                       owed |-> IF excused THEN s.owed \ {f} ELSE s.owed])
  BY DEF TimedOut, Skips
<1> DEFINE s == Push(Now, registered, g, skip)
           excused == ~registered \/ skip # {} \/ FreeIds(alarms) = {}
<1>4. /\ alarms' = AlarmCancel(s.alarms, id)
      /\ owed' = IF excused THEN s.owed \ {f} ELSE s.owed
  BY <1>3 DEF Becomes, Retry
<1>5. Now \in Pushing /\ Now.alarms = alarms /\ Now.owed = owed
  BY NowPushing DEF Now
<1>6. /\ PushedFrom(Now, s)
      /\ ~excused => \E j \in Ids : alarms[j] = Unused /\ s.alarms[j] = Alarm("request", g)
      /\ excused => s = Now
  <2>1. excused => ~registered \/ g \in skip \/ FreeIds(Now.alarms) = {}
    BY <1>5
  <2>2. ~excused => registered /\ g \notin skip /\ FreeIds(Now.alarms) # {}
    BY <1>5
  <2> HIDE DEF g, excused
  <2>. QED  BY <1>2, <1>5, <2>1, <2>2, PushFacts
<1>7. /\ s.alarms \in [Ids -> Entry] /\ s.owed \subseteq Features
      /\ \A j \in Ids : alarms[j] # Unused => s.alarms[j] = alarms[j]
      /\ \A j \in Ids : alarms[j] = Unused =>
             s.alarms[j] = Unused \/ s.alarms[j].kind = "request"
      /\ \A h \in s.owed \ owed : \E j \in Ids : s.alarms[j] = Alarm("request", h)
  BY <1>5, <1>6 DEF PushedFrom, Pushing
<1> HIDE DEF s, excused, g, f
<1>8. /\ alarms' \in [Ids -> Entry] /\ alarms'[id] = Unused
      /\ \A j \in Ids \ {id} : alarms'[j] = s.alarms[j]
  BY <1>4, <1>7, CancelFacts
<1>9. alarms[id] # Unused /\ s.alarms[id] = alarms[id]
  BY <1>1, <1>7, EntryFacts
<1>10. Untouched
  <2>1. "request" \notin Lasting /\ "free" \notin Lasting
    BY DEF Lasting
  <2>2. ASSUME NEW k \in Lasting, NEW j \in Ids
        PROVE  alarms'[j].kind = k <=> alarms[j].kind = k
    <3>1. CASE j = id
      BY <1>1, <1>8, <2>1, <3>1, EntryFacts
    <3>2. CASE j # id
      BY <1>7, <1>8, <2>1, <3>2, EntryFacts
    <3>. QED  BY <3>1, <3>2
  <2>. QED  BY <2>2 DEF Untouched, IdsOf
<1>11. ASSUME NEW h \in owed', ~Overshadowed(h) PROVE InFlight(h)'
  <2>1. CASE h = f
    <3>1. ~excused /\ g = h
      BY <1>4, <1>11, <2>1 DEF Overshadowed, g
    <3>2. PICK j \in Ids : alarms[j] = Unused /\ s.alarms[j] = Alarm("request", g)
      BY <1>6, <3>1
    <3>3. j # id
      BY <1>9, <3>2
    <3>. QED  BY <1>8, <3>1, <3>2, <3>3 DEF InFlight
  <2>2. CASE h # f
    <3>1. h \in s.owed
      BY <1>4, <1>11
    <3>2. PICK j \in Ids : s.alarms[j] = Alarm("request", h)
      <4>1. CASE h \in owed
        <5>1. PICK j \in Ids : alarms[j] = Alarm("request", h)
          BY <1>11, <4>1 DEF IInv, NoPushForgotten, InFlight
        <5>2. \A x : Alarm("request", x) # Unused
          BY DEF Alarm, Unused
        <5>3. alarms[j] # Unused
          BY <5>1, <5>2
        <5>. QED  BY <1>7, <5>1, <5>3
      <4>2. CASE h \notin owed
        BY <1>7, <3>1, <4>2
      <4>. QED  BY <4>1, <4>2
    <3>3. Alarm("request", f) # Alarm("request", h)
      BY <2>2, EntryFacts
    <3>4. j # id
      BY <1>1, <1>9, <3>2, <3>3
    <3>. QED  BY <1>8, <3>2, <3>4 DEF InFlight
  <2>. QED  BY <2>1, <2>2
<1>12. NoPushForgotten'
  BY <1>11 DEF NoPushForgotten, Overshadowed
<1>13. owed' \subseteq Features
  BY <1>4, <1>7
<1>. QED  BY <1>1, <1>8, <1>10, <1>12, <1>13, RequestStep DEF TimedOut

\* atlas_telemetry_push_set, atlas_telemetry_threshold_set: alarm o of the kind,
\* if any, is replaced by alarm n, if there is an id for it, and no other alarm
\* is touched.
Replaced(a, b, o, n, kind) ==
    /\ b \in [Ids -> Entry] /\ n \in Ids \cup {NoId}
    /\ n # NoId => n = o \/ a[n] = Unused
    /\ \A id \in Ids : b[id].kind = kind <=> id = n \/ (a[id].kind = kind /\ id # o)
    /\ \A id \in Ids : a[id].kind \notin {kind, "free"} => b[id] = a[id]
    /\ \A id \in Ids : a[id].kind \in {kind, "free"} => b[id].kind \in {kind, "free"}

LEMMA ReplaceTaken ==
    ASSUME NEW a \in [Ids -> Entry], NEW kind \in {"push", "threshold"},
           NEW o \in Ids \cup {NoId}, o \in Ids => a[o].kind = kind
    PROVE  Replaced(a, Replace(a, o, kind), o, NewId(AlarmCancel(a, o)), kind)
<1>1. NoId \notin Ids
  BY AlarmTableAssumption DEF NoId, Ids
<1>2. Alarm(kind, "") \in Entry /\ Alarm(kind, "").kind = kind /\ kind # "free"
  BY EntryFacts
<1>3. PICK c : c = AlarmCancel(a, o)
  OBVIOUS
<1>4. /\ c \in [Ids -> Entry]
      /\ o \in Ids => c[o] = Unused
      /\ \A id \in Ids \ {o} : c[id] = a[id]
  BY <1>3, CancelFacts
<1>5. PICK b, n : b = AlarmSet(c, kind, "") /\ n = NewId(c)
  OBVIOUS
<1>6. /\ b \in [Ids -> Entry]
      /\ FreeIds(c) = {} => b = c /\ n = NoId
      /\ FreeIds(c) # {} => Taken(c, b, n, Alarm(kind, ""))
  BY <1>2, <1>4, <1>5, SetFacts
<1>7. /\ n \in Ids \cup {NoId}
      /\ n = NoId => b = c
      /\ n # NoId => /\ n \in Ids /\ c[n] = Unused /\ b[n] = Alarm(kind, "")
                     /\ \A id \in Ids \ {n} : b[id] = c[id]
  BY <1>1, <1>6 DEF Taken
<1>8. /\ \A id \in Ids : a[id].kind \notin {kind, "free"} => b[id] = a[id]
      /\ \A id \in Ids : a[id].kind \in {kind, "free"} => b[id].kind \in {kind, "free"}
  <2>1. ASSUME NEW id \in Ids
        PROVE  /\ a[id].kind \notin {kind, "free"} => b[id] = a[id]
               /\ a[id].kind \in {kind, "free"} => b[id].kind \in {kind, "free"}
    <3>1. CASE id = n
      <4>1. n # NoId /\ b[id] = Alarm(kind, "") /\ c[id] = Unused
        BY <1>1, <1>7, <3>1
      <4>2. id = o \/ a[id] = Unused
        BY <1>4, <4>1
      <4>3. a[id].kind \in {kind, "free"}
        BY <4>2, EntryFacts
      <4>. QED  BY <1>2, <4>1, <4>3
    <3>2. CASE id # n
      <4>1. b[id] = c[id]
        BY <1>7, <3>2
      <4>2. CASE id = o
        BY <1>4, <4>1, <4>2, EntryFacts
      <4>3. CASE id # o
        BY <1>4, <4>1, <4>3
      <4>. QED  BY <4>2, <4>3
    <3>. QED  BY <3>1, <3>2
  <2>. QED  BY <2>1
<1>9. \A id \in Ids : b[id].kind = kind <=> id = n \/ (a[id].kind = kind /\ id # o)
  <2>1. ASSUME NEW id \in Ids
        PROVE  b[id].kind = kind <=> id = n \/ (a[id].kind = kind /\ id # o)
    <3>1. CASE id = n
      BY <1>1, <1>2, <1>7, <3>1
    <3>2. CASE id # n
      <4>1. b[id] = c[id]
        BY <1>7, <3>2
      <4>2. CASE id = o
        BY <1>2, <1>4, <3>2, <4>1, <4>2, EntryFacts
      <4>3. CASE id # o
        BY <1>4, <3>2, <4>1, <4>3
      <4>. QED  BY <4>2, <4>3
    <3>. QED  BY <3>1, <3>2
  <2>. QED  BY <2>1
<1>. QED  BY <1>1, <1>3, <1>4, <1>5, <1>6, <1>7, <1>8, <1>9 DEF Replaced, Replace

LEMMA ReplaceFacts ==
    ASSUME NEW a \in [Ids -> Entry], NEW kind \in {"push", "threshold"},
           NEW ids \in [Features -> Ids \cup {NoId}], NEW f \in Features,
           Holds(a, ids, kind),
           NEW b, NEW n, Replaced(a, b, ids[f], n, kind)
    PROVE  /\ [ids EXCEPT ![f] = n] \in [Features -> Ids \cup {NoId}]
           /\ Holds(b, [ids EXCEPT ![f] = n], kind)
<1> DEFINE o == ids[f]
           new == [ids EXCEPT ![f] = n]
<1>1. NoId \notin Ids /\ Unused.kind # kind
  <2>1. Unused.kind # kind
    BY EntryFacts
  <2>. QED  BY AlarmTableAssumption, <2>1 DEF NoId, Ids
<1>3. o \in Ids \cup {NoId} /\ (o \in Ids => a[o].kind = kind)
  BY <1>1 DEF Holds, IdsOf
<1>6. n \in Ids \cup {NoId} /\ (n # NoId => n = o \/ a[n] = Unused)
  BY DEF Replaced
<1>7. /\ new \in [Features -> Ids \cup {NoId}] /\ new[f] = n
      /\ \A g \in Features \ {f} : new[g] = ids[g]
  BY <1>6
<1>10. \A id \in Ids : b[id].kind = kind <=> id = n \/ (a[id].kind = kind /\ id # o)
  BY DEF Replaced
<1> HIDE DEF o, new
<1>9. \A g \in Features \ {f} : ids[g] = o => o = NoId
  <2>1. ASSUME NEW g \in Features, g # f, ids[g] = o, o # NoId PROVE FALSE
    <3>1. o \in IdsOf(a, kind)
      BY <1>3, <2>1 DEF IdsOf
    <3>2. PICK h \in Features : Owner(ids, o) = {h}
      BY <3>1 DEF Holds
    <3>. QED  BY <2>1, <3>2 DEF Owner, o
  <2>. QED  BY <2>1
<1>11. ASSUME NEW g \in Features PROVE new[g] \in IdsOf(b, kind) \cup {NoId}
  <2>1. CASE g = f
    BY <1>6, <1>7, <1>10, <2>1 DEF IdsOf
  <2>2. CASE g # f /\ ids[g] # NoId
    <3>1. ids[g] \in Ids /\ a[ids[g]].kind = kind /\ ids[g] # o
      BY <1>9, <2>2 DEF Holds, IdsOf
    <3>. QED  BY <1>7, <1>10, <2>2, <3>1 DEF IdsOf
  <2>3. CASE g # f /\ ids[g] = NoId
    BY <1>7, <2>3
  <2>. QED  BY <2>1, <2>2, <2>3
<1>12. ASSUME NEW id \in IdsOf(b, kind) PROVE \E g \in Features : Owner(new, id) = {g}
  <2>1. CASE id = n
    <3>1. ASSUME NEW g \in Features, g # f PROVE new[g] # n
      <4>1. CASE ids[g] = NoId
        BY <1>1, <1>7, <2>1, <3>1, <4>1, <1>12 DEF IdsOf
      <4>2. CASE ids[g] # NoId
        <5>1. ids[g] \in Ids /\ a[ids[g]].kind = kind /\ ids[g] # o
          BY <1>9, <3>1, <4>2 DEF Holds, IdsOf
        <5>2. ids[g] # n
          BY <1>1, <1>6, <5>1
        <5>. QED  BY <1>7, <3>1, <5>2
      <4>. QED  BY <4>1, <4>2
    <3>2. Owner(new, id) = {f}
      BY <1>7, <2>1, <3>1 DEF Owner
    <3>. QED  BY <3>2
  <2>2. CASE id # n
    <3>1. id \in IdsOf(a, kind) /\ id # o
      BY <1>10, <1>12, <2>2 DEF IdsOf
    <3>2. PICK g \in Features : Owner(ids, id) = {g}
      BY <3>1 DEF Holds
    <3>3. g # f
      BY <3>1, <3>2 DEF Owner, o
    <3>4. Owner(new, id) = {g}
      BY <1>7, <2>2, <3>2, <3>3 DEF Owner
    <3>. QED  BY <3>4
  <2>. QED  BY <2>1, <2>2
<1>13. Holds(b, new, kind)
  BY <1>11, <1>12 DEF Holds
<1>. QED  BY <1>7, <1>13 DEF new


\* A step that replaces the periodic alarm of one kind.
LEMMA PeriodicStep ==
    ASSUME IInv, UNCHANGED <<registered, owed, cmdVars>>,
           procs_threshold' \in 0 .. Width - 1,
           NEW kind \in {"push", "threshold"}, NEW o, NEW n,
           Replaced(alarms, alarms', o, n, kind),
           push_id' \in [Features -> Ids \cup {NoId}],
           threshold_id' \in [Features -> Ids \cup {NoId}],
           kind = "push" => Holds(alarms', push_id', "push") /\ UNCHANGED threshold_id,
           kind = "threshold" =>
               Holds(alarms', threshold_id', "threshold") /\ UNCHANGED push_id
    PROVE  IInv'
<1>1. /\ alarms \in [Ids -> Entry] /\ alarms' \in [Ids -> Entry]
      /\ \A id \in Ids : alarms[id].kind \notin {kind, "free"} => alarms'[id] = alarms[id]
      /\ \A id \in Ids :
             alarms[id].kind \in {kind, "free"} => alarms'[id].kind \in {kind, "free"}
  BY DEF Replaced, IInv, TypeOK, TelTypeOK
<1>2. TypeOK'
  BY <1>1 DEF IInv, TypeOK, TelTypeOK, CmdTypeOK, cmdVars
<1>3. \A k \in Lasting \ {kind} : IdsOf(alarms', k) = IdsOf(alarms, k)
  <2>1. "free" \notin Lasting
    BY DEF Lasting
  <2>2. ASSUME NEW k \in Lasting \ {kind}, NEW id \in Ids
        PROVE  alarms'[id].kind = k <=> alarms[id].kind = k
    BY <1>1, <2>1
  <2>. QED  BY <2>2 DEF IdsOf
<1>4. AlarmsOwned'
  <2>1. CASE kind = "push"
    <3>1. Holds(alarms', threshold_id', "threshold")
      BY <1>3, <2>1 DEF IInv, AlarmsOwned, Holds, Owner, Lasting
    <3>. QED  BY <2>1, <3>1 DEF AlarmsOwned
  <2>2. CASE kind = "threshold"
    <3>1. Holds(alarms', push_id', "push")
      BY <1>3, <2>2 DEF IInv, AlarmsOwned, Holds, Owner, Lasting
    <3>. QED  BY <2>2, <3>1 DEF AlarmsOwned
  <2>. QED  BY <2>1, <2>2
<1>5. NoPushForgotten'
  <2>1. ASSUME NEW f \in owed, InFlight(f) PROVE InFlight(f)'
    <3>1. PICK id \in Ids : alarms[id] = Alarm("request", f)
      BY <2>1 DEF InFlight
    <3>2. f \in Features
      BY DEF IInv, TypeOK, TelTypeOK
    <3>3. alarms[id].kind = "request"
      BY <3>1, <3>2, EntryFacts
    <3>. QED  BY <1>1, <3>1, <3>3 DEF InFlight
  <2>. QED  BY <2>1 DEF IInv, NoPushForgotten, Overshadowed
<1>6. OneRequest' /\ NoneTaken'
  BY DEF IInv, OneRequest, NoneTaken, cmdVars
<1>7. CommandsKept'
  <2>1. Runnable \subseteq Lasting \ {kind}
    BY DEF Runnable, Lasting
  <2>. QED  BY <1>3, <2>1 DEF IInv, CommandsKept, cmdVars
<1>. QED  BY <1>2, <1>4, <1>5, <1>6, <1>7 DEF IInv

\* The alarm of a feature is replaced as ReplaceFacts wants it.
LEMMA FeatureReplaced ==
    ASSUME NEW a \in [Ids -> Entry], NEW kind \in {"push", "threshold"},
           NEW ids \in [Features -> Ids \cup {NoId}], NEW f \in Features,
           Holds(a, ids, kind)
    PROVE  Replaced(a, Replace(a, ids[f], kind), ids[f], NewId(AlarmCancel(a, ids[f])), kind)
<1>1. ids[f] \in Ids \cup {NoId} /\ NoId \notin Ids
  BY AlarmTableAssumption DEF NoId, Ids
<1>2. ids[f] \in Ids => a[ids[f]].kind = kind
  BY <1>1 DEF Holds, IdsOf
<1>. QED  BY <1>1, <1>2, ReplaceTaken

LEMMA PushSetStep ==
    ASSUME IInv, NEW f \in Features, PushSet(f), UNCHANGED cmdVars
    PROVE  IInv'
<1> DEFINE n == NewId(AlarmCancel(alarms, push_id[f]))
<1>1. /\ alarms \in [Ids -> Entry] /\ push_id \in [Features -> Ids \cup {NoId}]
      /\ threshold_id \in [Features -> Ids \cup {NoId}]
      /\ procs_threshold \in 0 .. Width - 1
      /\ Holds(alarms, push_id, "push")
  BY DEF IInv, TypeOK, TelTypeOK, AlarmsOwned
<1>2. /\ alarms' = Replace(alarms, push_id[f], "push")
      /\ push_id' = [push_id EXCEPT ![f] = n]
      /\ UNCHANGED <<registered, threshold_id, procs_threshold, owed>>
  BY DEF PushSet
<1> HIDE DEF n
<1>3. Replaced(alarms, alarms', push_id[f], n, "push")
  BY <1>1, <1>2, FeatureReplaced DEF n
<1>4. push_id' \in [Features -> Ids \cup {NoId}] /\ Holds(alarms', push_id', "push")
  BY <1>1, <1>2, <1>3, ReplaceFacts
<1>. QED  BY <1>1, <1>2, <1>3, <1>4, PeriodicStep

\* A batch of limited length is a sequence.
LEMMA BoundedIsSeq ==
    ASSUME NEW S, NEW m \in Nat, NEW b \in BoundedSeq(S, m)
    PROVE  b \in Seq(S) /\ Len(b) \in 0 .. m /\ DOMAIN b = 1 .. Len(b)
<1>1. PICK k \in 0 .. m : b \in [1 .. k -> S]
  BY DEF BoundedSeq, SeqOf
<1>2. k \in Nat
  BY <1>1
<1>3. b \in Seq(S)
  BY <1>1, <1>2, SeqDef
<1>4. Len(b) = k
  BY <1>1, <1>2, <1>3, LenProperties
<1>. QED  BY <1>1, <1>3, <1>4

\* atlas_alert_threshold_cmd_parse gives numbers, which become a uint16_t.
LEMMA AlertNumber ==
    ASSUME NEW alert \in ScanAlerts
    PROVE  Uint16(Strtol(alert.threshold)) \in 0 .. Width - 1
<1>1. PICK b \in Scanning : /\ HasThreshold(b)
                            /\ alert.threshold = b[Max(Items(b, "threshold"))].value
  BY DEF ScanAlerts
<1>2. b \in Seq(Scans \cup Limits)
  BY BoundedIsSeq DEF Scanning, Batches
<1>3. DOMAIN b = 1 .. Len(b) /\ Len(b) \in Nat
  BY <1>2, LenProperties
<1>4. Max(Items(b, "threshold")) \in Items(b, "threshold")
  <2>1. Items(b, "threshold") \subseteq 1 .. Len(b)
    BY <1>3 DEF Items
  <2>. QED  BY <1>1, <1>3, <2>1, MaxOf DEF HasThreshold
<1>5. PICK i \in 1 .. Len(b) : b[i].type = "threshold" /\ alert.threshold = b[i].value
  BY <1>1, <1>3, <1>4 DEF Items
<1>6. b[i] \in Scans \cup Limits
  BY <1>2, ElementOfSeq
<1>7. alert.threshold \in Int
  BY <1>5, <1>6, TelemetryAssumption DEF Scans, Limits
<1>8. Strtol(alert.threshold) \in Int
  BY <1>7, TelemetryAssumption DEF Strtol
<1>. QED  BY <1>8, TelemetryAssumption DEF Uint16

LEMMA ThresholdAlertStep ==
    ASSUME IInv, NEW alert \in ScanAlerts, ThresholdAlert(alert), UNCHANGED cmdVars
    PROVE  IInv'
<1> DEFINE o == threshold_id[Scanned]
           n == NewId(AlarmCancel(alarms, o))
<1>1. /\ alarms \in [Ids -> Entry] /\ push_id \in [Features -> Ids \cup {NoId}]
      /\ threshold_id \in [Features -> Ids \cup {NoId}]
      /\ Holds(alarms, threshold_id, "threshold")
  BY DEF IInv, TypeOK, TelTypeOK, AlarmsOwned
<1>2. Scanned \in Features
  BY TelemetryAssumption DEF Features
<1>3. procs_threshold' \in 0 .. Width - 1 /\ UNCHANGED <<registered, push_id, owed>>
  BY AlertNumber DEF ThresholdAlert
<1>4. CASE UNCHANGED <<alarms, threshold_id>>
  <2>1. TypeOK'
    BY <1>3, <1>4 DEF IInv, TypeOK, TelTypeOK, CmdTypeOK, cmdVars
  <2>2. AlarmsOwned' /\ NoPushForgotten'
    BY <1>3, <1>4
    DEF IInv, AlarmsOwned, Holds, Owner, NoPushForgotten, InFlight, Overshadowed
  <2>3. OneRequest' /\ NoneTaken' /\ CommandsKept'
    BY <1>4 DEF IInv, OneRequest, NoneTaken, CommandsKept, cmdVars
  <2>. QED  BY <2>1, <2>2, <2>3 DEF IInv
<1>5. CASE /\ alarms' = Replace(alarms, o, "threshold")
           /\ threshold_id' = [threshold_id EXCEPT ![Scanned] = n]
  <2> HIDE DEF n
  <2>1. Replaced(alarms, alarms', o, n, "threshold")
    BY <1>1, <1>2, <1>5, FeatureReplaced DEF n
  <2>2. /\ threshold_id' \in [Features -> Ids \cup {NoId}]
        /\ Holds(alarms', threshold_id', "threshold")
    BY <1>1, <1>2, <1>5, <2>1, ReplaceFacts
  <2> HIDE DEF o
  <2>. QED  BY <1>1, <1>3, <2>1, <2>2, PeriodicStep
<1>6. \/ UNCHANGED <<alarms, threshold_id>>
      \/ /\ alarms' = Replace(alarms, o, "threshold")
         /\ threshold_id' = [threshold_id EXCEPT ![Scanned] = n]
  BY DEF ThresholdAlert
<1>. QED  BY <1>4, <1>5, <1>6

LEMMA TelemetryStepIInv == IInv /\ TelemetryStep => IInv'
<1> SUFFICES ASSUME IInv, TelNext, UNCHANGED cmdVars PROVE IInv'
  BY DEF TelemetryStep
<1>1. CASE Registered
  BY <1>1, RegisteredStep
<1>2. CASE RegistrationLost
  BY <1>2, LostStep
<1>3. CASE \E id \in Ids : PushAlarm(id) \/ ThresholdAlarm(id)
  BY <1>3, AlarmPushStep
<1>4. CASE \E id \in Ids : Answered(id)
  BY <1>4, AnsweredStep
<1>5. CASE \E id \in Ids : TimedOut(id)
  BY <1>5, TimedOutStep
<1>6. CASE SysinfoAlert \/ PacketsAlert
  <2>1. PICK f \in Features : PushNow(f) \/ PushSet(f)
    BY <1>6 DEF SysinfoAlert, PacketsAlert, PushAlert, Alertable
  <2>. QED  BY <2>1, PushNowStep, PushSetStep
<1>7. CASE \E alert \in ScanAlerts : ThresholdAlert(alert)
  BY <1>7, ThresholdAlertStep
<1>. QED  BY <1>1, <1>2, <1>3, <1>4, <1>5, <1>6, <1>7 DEF TelNext


-----------------------------------------------------------------------------
\* The alarms of a kind can be counted, and one comes or goes at a time.
OneMore(a, b, k, id) ==
    /\ id \in Ids /\ a[id].kind # k /\ b[id].kind = k
    /\ \A j \in Ids \ {id} : b[j].kind = k <=> a[j].kind = k

LEMMA CountFacts ==
    ASSUME NEW a, NEW b, NEW k, NEW id, OneMore(a, b, k, id)
    PROVE  /\ Cardinality(IdsOf(a, k)) \in Nat
           /\ Cardinality(IdsOf(b, k)) = Cardinality(IdsOf(a, k)) + 1
<1>1. IsFiniteSet(Ids)
  BY AlarmTableAssumption, FS_Interval DEF Ids
<1>2. IsFiniteSet(IdsOf(a, k))
  BY <1>1, FS_Subset DEF IdsOf
<1>3. id \notin IdsOf(a, k) /\ IdsOf(b, k) = IdsOf(a, k) \cup {id}
  BY DEF IdsOf, OneMore
<1>. QED  BY <1>2, <1>3, FS_CardinalityType, FS_AddElement

\* What a batch has done after i of its commands: r is the number of each
\* command that was run, a the alarms from which it started.
Scheduling == [alarms : [Ids -> Entry], taken : [Runnable -> Nat], flag : BOOLEAN]
SoFar(a, r, i, s) ==
    /\ s \in Scheduling
    /\ \A c \in Runnable : s.taken[c] <= i
    /\ \A c \in Runnable : s.taken[c] = r[c] + Cardinality(IdsOf(s.alarms, c))
    /\ s.flag <=> s.taken # None
    /\ \A id \in Ids : a[id] # Unused => s.alarms[id] = a[id]
    /\ \A id \in Ids : a[id] = Unused => s.alarms[id] = Unused \/ s.alarms[id].kind \in Runnable

\* One command of a batch.
LEMMA ScheduleFacts ==
    ASSUME NEW s \in Scheduling, NEW e
    PROVE  /\ Schedule(s, e) \in Scheduling
           /\ e \notin Runnable \/ FreeIds(s.alarms) = {} => Schedule(s, e) = s
           /\ e \in Runnable /\ FreeIds(s.alarms) # {} =>
                  LET t == Schedule(s, e)
                  IN  /\ Taken(s.alarms, t.alarms, NewId(s.alarms), Alarm(e, ""))
                      /\ t.taken = [s.taken EXCEPT ![e] = @ + 1] /\ t.flag = TRUE
<1>1. s = [alarms |-> s.alarms, taken |-> s.taken, flag |-> s.flag]
  BY DEF Scheduling
<1>2. CASE e \notin Runnable
  BY <1>2 DEF Schedule
<1>3. CASE e \in Runnable /\ FreeIds(s.alarms) = {}
  <2>1. Schedule(s, e) = [alarms |-> s.alarms, taken |-> s.taken, flag |-> s.flag]
    BY <1>3 DEF Schedule, AlarmSet, InProgress, Scheduling
  <2>. QED  BY <1>1, <1>3, <2>1
<1>4. CASE e \in Runnable /\ FreeIds(s.alarms) # {}
  <2> DEFINE b == AlarmSet(s.alarms, e, "")
             k == [s.taken EXCEPT ![e] = @ + 1]
  <2>1. Alarm(e, "") \in Entry
    BY <1>4, EntryFacts DEF Runnable
  <2>2. b \in [Ids -> Entry] /\ Taken(s.alarms, b, NewId(s.alarms), Alarm(e, ""))
    BY <1>4, <2>1, SetFacts DEF Scheduling
  <2>3. k \in [Runnable -> Nat]
    BY <1>4 DEF Scheduling
  <2>4. Schedule(s, e) = [alarms |-> b, taken |-> k, flag |-> TRUE]
    BY <1>4 DEF Schedule, InProgress
  <2> HIDE DEF b, k
  <2>5. Schedule(s, e) \in Scheduling
    <3>1. ASSUME NEW g \in BOOLEAN PROVE [alarms |-> b, taken |-> k, flag |-> g] \in Scheduling
      BY <2>2, <2>3 DEF Scheduling
    <3>. QED  BY <2>4, <3>1
  <2>6. Schedule(s, e).alarms = b /\ Schedule(s, e).taken = k
    BY <2>4
  <2>7. Schedule(s, e).flag = TRUE
    BY <2>4
  <2>. QED  BY <1>4, <2>2, <2>5, <2>6, <2>7 DEF k
<1>. QED  BY <1>2, <1>3, <1>4

LEMMA SoFarStep ==
    ASSUME NEW a, NEW r \in [Runnable -> Nat], NEW i \in Nat, NEW s, SoFar(a, r, i, s),
           NEW e
    PROVE  SoFar(a, r, i + 1, Schedule(s, e))
<1>1. s \in Scheduling /\ s.taken \in [Runnable -> Nat]
  BY DEF SoFar, Scheduling
<1>2. CASE e \notin Runnable \/ FreeIds(s.alarms) = {}
  <2>1. Schedule(s, e) = s
    BY <1>1, <1>2, ScheduleFacts
  <2>2. \A c \in Runnable : s.taken[c] <= i + 1
    BY <1>1 DEF SoFar
  <2>. QED  BY <2>1, <2>2 DEF SoFar
<1>3. CASE e \in Runnable /\ FreeIds(s.alarms) # {}
  <2>1. PICK t, n : /\ t = Schedule(s, e) /\ t \in Scheduling
                    /\ Taken(s.alarms, t.alarms, n, Alarm(e, ""))
                    /\ t.taken = [s.taken EXCEPT ![e] = @ + 1] /\ t.flag = TRUE
    BY <1>1, <1>3, ScheduleFacts
  <2>2. t.taken[e] = s.taken[e] + 1 /\ \A c \in Runnable \ {e} : t.taken[c] = s.taken[c]
    BY <1>1, <1>3, <2>1
  <2>3. \A c \in Runnable : t.taken[c] <= i + 1
    BY <1>1, <1>3, <2>2 DEF SoFar
  <2>4. Alarm(e, "").kind = e /\ Unused.kind \notin Runnable
    BY <1>3, EntryFacts DEF Runnable
  <2>5. /\ n \in Ids /\ s.alarms[n] = Unused /\ t.alarms[n] = Alarm(e, "")
        /\ \A id \in Ids \ {n} : t.alarms[id] = s.alarms[id]
    BY <2>1 DEF Taken
  <2>6. ASSUME NEW c \in Runnable
        PROVE  t.taken[c] = r[c] + Cardinality(IdsOf(t.alarms, c))
    <3>0. s.taken[c] = r[c] + Cardinality(IdsOf(s.alarms, c)) /\ r[c] \in Nat
      BY DEF SoFar
    <3>1. CASE c = e
      <4>1. /\ Cardinality(IdsOf(s.alarms, c)) \in Nat
            /\ Cardinality(IdsOf(t.alarms, c)) = Cardinality(IdsOf(s.alarms, c)) + 1
        <5>1. OneMore(s.alarms, t.alarms, c, n)
          BY <1>3, <2>4, <2>5, <3>1 DEF OneMore
        <5>. QED  BY <5>1, CountFacts
      <4>. QED  BY <2>2, <3>0, <3>1, <4>1
    <3>2. CASE c # e
      <4>1. IdsOf(t.alarms, c) = IdsOf(s.alarms, c)
        BY <2>4, <2>5, <3>2 DEF IdsOf
      <4>. QED  BY <2>2, <3>0, <3>2, <4>1
    <3>. QED  BY <3>1, <3>2
  <2>7. t.flag <=> t.taken # None
    <3>1. t.taken[e] # 0
      BY <1>1, <1>3, <2>2
    <3>2. None[e] = 0
      BY <1>3 DEF None
    <3>. QED  BY <2>1, <3>1, <3>2
  <2>8. ASSUME NEW id \in Ids
        PROVE  /\ a[id] # Unused => t.alarms[id] = a[id]
               /\ a[id] = Unused => t.alarms[id] = Unused \/ t.alarms[id].kind \in Runnable
    <3>1. CASE id = n
      BY <1>3, <2>4, <2>5, <3>1 DEF SoFar
    <3>2. CASE id # n
      BY <2>5, <3>2 DEF SoFar
    <3>. QED  BY <3>1, <3>2
  <2>9. SoFar(a, r, i + 1, t)
    BY <2>1, <2>3, <2>6, <2>7, <2>8 DEF SoFar
  <2>. QED  BY <2>1, <2>9
<1>. QED  BY <1>2, <1>3


\* A whole batch, by the recursion that Scheduled is.
LEMMA ScheduledFacts ==
    ASSUME NEW batch, Len(batch) \in Nat, NEW r \in [Runnable -> Nat],
           SoFar(alarms, r, 0, [alarms |-> alarms, taken |-> taken, flag |-> cmdInProgress])
    PROVE  SoFar(alarms, r, Len(batch), Scheduled(batch))
<1> DEFINE n == Len(batch)
           x == [alarms |-> alarms, taken |-> taken, flag |-> cmdInProgress]
           Is(t) == t = [i \in 0 .. n |-> IF i = 0 THEN x ELSE Schedule(t[i - 1], batch[i])]
           u == CHOOSE t : Is(t)
           F == [z \in (1 .. n) \X Scheduling |-> Schedule(z[2], batch[z[1]])]
<1>1. n \in Nat /\ x \in Scheduling
  BY DEF SoFar
<1>2. \A s \in Scheduling : \A e : Schedule(s, e) \in Scheduling
  BY ScheduleFacts
<1>3. StepsIn(Scheduling, n, F)
  BY <1>2 DEF StepsIn
<1>4. PICK t : Follows(t, Scheduling, x, n, F)
  <2> HIDE DEF F, x, n
  <2>. QED  BY <1>1, <1>3, Recursion
<1>5. Is(t)
  <2>1. ASSUME NEW i \in 0 .. n
        PROVE  t[i] = IF i = 0 THEN x ELSE Schedule(t[i - 1], batch[i])
    <3> HIDE DEF x
    <3>1. CASE i = 0
      BY <1>4, <3>1 DEF Follows
    <3>2. CASE i # 0
      <4>1. i \in 1 .. n /\ i - 1 \in 0 .. n
        BY <1>1, <3>2
      <4>2. t[i - 1] \in Scheduling
        BY <1>4, <4>1 DEF Follows
      <4>3. F[<<i, t[i - 1]>>] = Schedule(t[i - 1], batch[i])
        BY <4>1, <4>2
      <4>. QED  BY <1>4, <3>2, <4>1, <4>3 DEF Follows
    <3>. QED  BY <3>1, <3>2
  <2>2. t = [i \in 0 .. n |-> t[i]]
    BY <1>4 DEF Follows
  <2> HIDE DEF n, x
  <2>. QED  BY <2>1, <2>2
<1>6. Is(u)
  BY <1>5
<1>7. u[0] = x /\ \A i \in 1 .. n : u[i] = Schedule(u[i - 1], batch[i])
  <2> HIDE DEF n, u, x
  <2>. QED  BY <1>1, <1>6
<1> DEFINE v == [i \in 0 .. n |-> <<i, u[i]>>]
           X == {z \in Nat \X Scheduling : SoFar(alarms, r, z[1], z[2])}
<1>8. \A i \in 0 .. n : v[i] \in X <=> SoFar(alarms, r, i, u[i])
  <2> HIDE DEF n, u
  <2>. QED  BY <1>1 DEF SoFar
<1>9. v[0] \in X
  BY <1>1, <1>7, <1>8
<1>10. ASSUME NEW i \in 1 .. n, v[i - 1] \in X PROVE v[i] \in X
  <2>1. i - 1 \in 0 .. n /\ i \in 0 .. n /\ i - 1 \in Nat /\ (i - 1) + 1 = i
    BY <1>1
  <2> HIDE DEF v, X, n, u, x
  <2>2. SoFar(alarms, r, i - 1, u[i - 1])
    BY <1>8, <1>10, <2>1
  <2>3. SoFar(alarms, r, i, Schedule(u[i - 1], batch[i]))
    BY <2>1, <2>2, SoFarStep
  <2>. QED  BY <1>7, <1>8, <2>1, <2>3
<1>11. \A i \in 0 .. n : v[i] \in X
  <2> HIDE DEF v, X, n
  <2>. QED  BY <1>1, <1>9, <1>10, UpTo
<1>12. SoFar(alarms, r, n, u[n])
  <2> HIDE DEF v, X, u
  <2>. QED  BY <1>1, <1>8, <1>11
<1>13. Scheduled(batch) = u[n]
  BY DEF Scheduled
<1>. QED  BY <1>12, <1>13

\* A step of the commands leaves the telemetry's alarms alone.
LEMMA CommandFrame ==
    ASSUME IInv, UNCHANGED telVars, alarms' \in [Ids -> Entry],
           \A id \in Ids : alarms[id].kind \notin Runnable \cup {"free"} =>
               alarms'[id] = alarms[id],
           \A id \in Ids : alarms[id].kind \in Runnable \cup {"free"} =>
               alarms'[id].kind \in Runnable \cup {"free"}
    PROVE  TelTypeOK' /\ AlarmsOwned' /\ NoPushForgotten'
<1>1. TelTypeOK'
  BY DEF IInv, TypeOK, TelTypeOK, telVars
<1>2. \A k \in {"push", "threshold"} : IdsOf(alarms', k) = IdsOf(alarms, k)
  <2>1. \A k \in {"push", "threshold"} : k \notin Runnable \cup {"free"}
    BY DEF Runnable
  <2>2. ASSUME NEW k \in {"push", "threshold"}, NEW id \in Ids
        PROVE  alarms'[id].kind = k <=> alarms[id].kind = k
    BY <2>1
  <2>. QED  BY <2>2 DEF IdsOf
<1>3. AlarmsOwned'
  BY <1>2 DEF IInv, AlarmsOwned, Holds, Owner, telVars
<1>4. NoPushForgotten'
  <2>1. ASSUME NEW f \in owed, InFlight(f) PROVE InFlight(f)'
    <3>1. PICK id \in Ids : alarms[id] = Alarm("request", f)
      BY <2>1 DEF InFlight
    <3>2. f \in Features
      BY DEF IInv, TypeOK, TelTypeOK
    <3>3. alarms[id].kind = "request" /\ "request" \notin Runnable \cup {"free"}
      BY <3>1, <3>2, EntryFacts DEF Runnable
    <3>. QED  BY <3>1, <3>3 DEF InFlight
  <2>. QED  BY <2>1 DEF IInv, NoPushForgotten, Overshadowed, telVars
<1>. QED  BY <1>1, <1>3, <1>4

LEMMA ExecuteStep ==
    ASSUME IInv, ExecuteCommandCb, UNCHANGED telVars
    PROVE  IInv'
<1> DEFINE x == [alarms |-> alarms, taken |-> taken, flag |-> cmdInProgress]
<1>1. PICK batch \in BoundedSeq(Runnable \cup {"unknown"}, MaxBatch) : ExecuteCommands(batch)
  BY DEF ExecuteCommandCb
<1>2. Len(batch) \in 0 .. MaxBatch /\ Len(batch) \in Nat
  BY CommandExecuteAssumption, BoundedIsSeq
<1>3. PICK s : /\ s = Scheduled(batch)
               /\ alarms' = s.alarms /\ taken' = s.taken /\ cmdInProgress' = s.flag
               /\ requests' = requests + (IF s.taken # taken THEN 1 ELSE 0)
               /\ ran' = ran /\ cmdInProgress = FALSE
  <2>1. cmdInProgress = FALSE
    BY <1>1 DEF ExecuteCommands, IInv, TypeOK, CmdTypeOK
  <2>. QED  BY <1>1, <2>1 DEF ExecuteCommands
<1>4. requests = 0 /\ taken = None
  <2>1. requests \in Nat /\ requests <= 1 /\ requests # 1
    BY <1>3 DEF IInv, TypeOK, CmdTypeOK, OneRequest
  <2>2. requests = 0
    BY <2>1
  <2>. QED  BY <2>2 DEF IInv, NoneTaken
<1>5. /\ alarms \in [Ids -> Entry] /\ taken \in [Runnable -> Nat]
      /\ ran \in [Runnable -> Nat] /\ ran \in [Runnable -> 0 .. MaxBatch]
      /\ cmdInProgress \in BOOLEAN
  BY DEF IInv, TypeOK, TelTypeOK, CmdTypeOK
<1>6. SoFar(alarms, ran, 0, x)
  <2>1. x \in Scheduling
    BY <1>5 DEF Scheduling
  <2>2. \A c \in Runnable : taken[c] <= 0
    BY <1>4 DEF None
  <2>3. x.alarms = alarms /\ x.taken = taken /\ x.flag = FALSE
    BY <1>3
  <2> HIDE DEF x
  <2>. QED  BY <1>4, <2>1, <2>2, <2>3 DEF SoFar, IInv, CommandsKept
<1>7. SoFar(alarms, ran, Len(batch), s)
  BY <1>2, <1>3, <1>5, <1>6, ScheduledFacts
<1>8. /\ s.alarms \in [Ids -> Entry] /\ s.taken \in [Runnable -> Nat] /\ s.flag \in BOOLEAN
      /\ \A c \in Runnable : s.taken[c] <= Len(batch)
  BY <1>7 DEF SoFar, Scheduling
<1>9. CmdTypeOK'
  <2>1. taken' \in [Runnable -> 0 .. MaxBatch]
    BY <1>2, <1>3, <1>8, CommandExecuteAssumption
  <2>2. requests' \in Nat
    BY <1>3, <1>4
  <2>3. cmdInProgress' \in BOOLEAN
    BY <1>3, <1>8
  <2>. QED  BY <1>3, <1>5, <2>1, <2>2, <2>3 DEF CmdTypeOK
<1>10. OneRequest' /\ NoneTaken'
  <2>1. CASE s.taken # None
    <3>1. requests' = 1 /\ cmdInProgress' = TRUE
      BY <1>3, <1>4, <1>7, <1>8, <2>1 DEF SoFar
    <3>. QED  BY <3>1 DEF OneRequest, NoneTaken
  <2>2. CASE s.taken = None
    <3>1. requests' = 0 /\ cmdInProgress' = FALSE /\ taken' = None
      BY <1>3, <1>4, <1>7, <1>8, <2>2 DEF SoFar
    <3>. QED  BY <3>1 DEF OneRequest, NoneTaken
  <2>. QED  BY <2>1, <2>2
<1>11. CommandsKept'
  BY <1>3, <1>7 DEF SoFar, CommandsKept
<1>12. /\ \A id \in Ids : alarms[id].kind \notin Runnable \cup {"free"} =>
               alarms'[id] = alarms[id]
       /\ \A id \in Ids : alarms[id].kind \in Runnable \cup {"free"} =>
               alarms'[id].kind \in Runnable \cup {"free"}
  BY <1>3, <1>7, EntryFacts DEF SoFar
<1>13. TelTypeOK' /\ AlarmsOwned' /\ NoPushForgotten'
  BY <1>3, <1>8, <1>12, CommandFrame
<1>. QED  BY <1>9, <1>10, <1>11, <1>13 DEF IInv, TypeOK

\* A command's alarm: the command has been run, and its alarm is gone.
LEMMA CommandAlarmStep ==
    ASSUME IInv, NEW id \in Ids, CommandAlarm(id), UNCHANGED telVars
    PROVE  IInv'
<1> DEFINE k == alarms[id].kind
<1>1. /\ alarms \in [Ids -> Entry] /\ k \in Runnable
      /\ taken \in [Runnable -> 0 .. MaxBatch] /\ ran \in [Runnable -> 0 .. MaxBatch]
      /\ ran' = [ran EXCEPT ![k] = @ + 1] /\ alarms' = AlarmCancel(alarms, id)
      /\ UNCHANGED <<cmdInProgress, taken, requests>>
  BY DEF IInv, TypeOK, TelTypeOK, CmdTypeOK, CommandAlarm, RunsCommand
<1>2. /\ alarms' \in [Ids -> Entry] /\ alarms'[id] = Unused
      /\ \A j \in Ids \ {id} : alarms'[j] = alarms[j]
  BY <1>1, CancelFacts
<1>3. Unused.kind = "free" /\ "free" \notin Runnable
  BY EntryFacts DEF Runnable
<1>4. OneMore(alarms', alarms, k, id)
  BY <1>1, <1>2, <1>3 DEF OneMore
<1>5. /\ Cardinality(IdsOf(alarms', k)) \in Nat
      /\ Cardinality(IdsOf(alarms, k)) = Cardinality(IdsOf(alarms', k)) + 1
  BY <1>4, CountFacts
<1> HIDE DEF k
<1>6. \A c \in Runnable : taken[c] = ran[c] + Cardinality(IdsOf(alarms, c))
  BY DEF IInv, CommandsKept
<1>7. ran'[k] = ran[k] + 1 /\ \A c \in Runnable \ {k} : ran'[c] = ran[c]
  BY <1>1
<1>8. CmdTypeOK'
  <2>1. ran[k] + 1 \in 0 .. MaxBatch
    BY <1>1, <1>5, <1>6, CommandExecuteAssumption
  <2>2. ran' \in [Runnable -> 0 .. MaxBatch]
    BY <1>1, <2>1
  <2>. QED  BY <1>1, <2>2 DEF IInv, TypeOK, CmdTypeOK
<1>9. CommandsKept'
  <2>1. ASSUME NEW c \in Runnable
        PROVE  taken'[c] = ran'[c] + Cardinality(IdsOf(alarms', c))
    <3>1. CASE c = k
      BY <1>1, <1>5, <1>6, <1>7, <3>1
    <3>2. CASE c # k
      <4>1. IdsOf(alarms', c) = IdsOf(alarms, c)
        BY <1>1, <1>2, <1>3, <3>2 DEF IdsOf, k
      <4>. QED  BY <1>1, <1>6, <1>7, <3>2, <4>1
    <3>. QED  BY <3>1, <3>2
  <2>. QED  BY <2>1 DEF CommandsKept
<1>10. OneRequest' /\ NoneTaken'
  BY <1>1 DEF IInv, OneRequest, NoneTaken
<1>11. /\ \A j \in Ids : alarms[j].kind \notin Runnable \cup {"free"} =>
               alarms'[j] = alarms[j]
       /\ \A j \in Ids : alarms[j].kind \in Runnable \cup {"free"} =>
               alarms'[j].kind \in Runnable \cup {"free"}
  BY <1>1, <1>2, <1>3 DEF k
<1>12. TelTypeOK' /\ AlarmsOwned' /\ NoPushForgotten'
  BY <1>2, <1>11, CommandFrame
<1>. QED  BY <1>8, <1>9, <1>10, <1>12 DEF IInv, TypeOK

\* A process that starts again is in an initial state.
LEMMA StartsAgainStep == StartsAgain => IInv'
<1> SUFFICES ASSUME StartsAgain PROVE IInv'
  OBVIOUS
<1>1. Init'
  BY DEF StartsAgain, Init, TelInit, CmdInit
<1>2. Init' => IInv'
  BY InitIInv, PTL
<1>. QED  BY <1>1, <1>2
-----------------------------------------------------------------------------
LEMMA NextIInv == IInv /\ [Next]_vars => IInv'
<1> SUFFICES ASSUME IInv, [Next]_vars PROVE IInv'
  OBVIOUS
<1>1. CASE TelemetryStep
  BY <1>1, TelemetryStepIInv
<1>2. CASE CommandStep
  BY <1>2, ExecuteStep, CommandAlarmStep DEF CommandStep, CmdNext
<1>3. CASE GoesDown \/ Crashes
  BY <1>3, StartsAgainStep DEF GoesDown, Crashes
<1>4. CASE UNCHANGED vars
  <2>1. UNCHANGED <<alarms, registered, push_id, threshold_id, procs_threshold, owed,
                    cmdInProgress, taken, ran, requests>>
    BY <1>4 DEF vars, telVars, cmdVars
  <2>2. TypeOK'
    BY <2>1 DEF IInv, TypeOK, TelTypeOK, CmdTypeOK
  <2>3. AlarmsOwned' /\ NoPushForgotten'
    BY <2>1
    DEF IInv, AlarmsOwned, Holds, Owner, NoPushForgotten, InFlight, Overshadowed
  <2>4. OneRequest' /\ NoneTaken' /\ CommandsKept'
    BY <2>1 DEF IInv, OneRequest, NoneTaken, CommandsKept
  <2>. QED  BY <2>2, <2>3, <2>4 DEF IInv
<1>. QED  BY <1>1, <1>2, <1>3, <1>4 DEF Next

\* The end-points of the server and the alarms they share, through any
\* requests, timeouts, alerts, commands and restarts: TypeOK (with it, the
\* threshold is a uint16_t), AlarmsOwned, NoPushForgotten, OneRequest and
\* CommandsKept hold together.
THEOREM ServerInductive == Spec => []IInv
<1>. QED  BY InitIInv, NextIInv, PTL DEF Spec

\* Every periodic alarm is the push or the scan of exactly one feature, and
\* every id that atlas_telemetry_push_set and atlas_telemetry_threshold_set
\* keep is one of that feature's own alarms.
THEOREM AlwaysAlarmsOwned == Spec => []AlarmsOwned
<1>1. IInv => AlarmsOwned
  BY DEF IInv
<1>. QED  BY <1>1, ServerInductive, PTL

\* telemetry_callback: what the client has undertaken to send is in flight
\* through any number of timeouts, but for a feature whose uri holds the path
\* of an earlier one.
THEOREM AlwaysNoPushForgotten == Spec => []NoPushForgotten
<1>1. IInv => NoPushForgotten
  BY DEF IInv
<1>. QED  BY <1>1, ServerInductive, PTL

\* atlas_alert_command_execution_parse: the commands of one request only are
\* taken, and cmdInProgress tells whether there are any.
THEOREM AlwaysOneRequest == Spec => []OneRequest
<1>1. IInv => OneRequest
  BY DEF IInv
<1>. QED  BY <1>1, ServerInductive, PTL

\* Each command taken waits for its alarm or has been run, once.
THEOREM AlwaysCommandsKept == Spec => []CommandsKept
<1>1. IInv => CommandsKept
  BY DEF IInv
<1>. QED  BY <1>1, ServerInductive, PTL
=============================================================================
