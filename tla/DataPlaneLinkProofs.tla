------------------------ MODULE DataPlaneLinkProofs -------------------------
(***************************************************************************)
(* Proofs about DataPlaneLink, for any number of processes of the          *)
(* application, connections, requests and crashes and any set of faults.   *)
(***************************************************************************)
EXTENDS DataPlaneLink, LeastNumber, SequenceTheorems, TLAPS

\* What queueing and removing a packet does to the tags in a queue.
LEMMA TagsEmpty == TagsIn(<<>>) = {} /\ \A x : Once(<<>>, x)
  BY DEF TagsIn, Once, Reps

LEMMA TagsAppend ==
    ASSUME NEW S, NEW s \in Seq(S), NEW m \in S
    PROVE  /\ m.type # "rep" => TagsIn(Append(s, m)) = TagsIn(s)
           /\ m.type = "rep" => TagsIn(Append(s, m)) = TagsIn(s) \cup {m.val}
           /\ \A x : /\ Once(s, x)
                     /\ m.type = "rep" /\ m.val \notin x => m.val \notin TagsIn(s)
                     => Once(Append(s, m), x)
<1> DEFINE a == Append(s, m)
<1>1. /\ DOMAIN s = 1 .. Len(s) /\ Len(s) \in Nat
      /\ DOMAIN a = 1 .. Len(s) + 1
      /\ \A i \in 1 .. Len(s) : a[i] = s[i]
      /\ a[Len(s) + 1] = m
  BY AppendProperties, LenProperties
<1> HIDE DEF a
<1>2. /\ m.type # "rep" => Reps(a) = Reps(s)
      /\ m.type = "rep" => Reps(a) = Reps(s) \cup {Len(s) + 1}
      /\ \A i \in Reps(s) : a[i] = s[i] /\ i \in 1 .. Len(s)
  BY <1>1 DEF Reps
<1>3. /\ m.type # "rep" => TagsIn(a) = TagsIn(s)
      /\ m.type = "rep" => TagsIn(a) = TagsIn(s) \cup {m.val}
  BY <1>1, <1>2 DEF TagsIn
<1>4. ASSUME NEW x, Once(s, x),
             m.type = "rep" /\ m.val \notin x => m.val \notin TagsIn(s)
      PROVE  Once(a, x)
  BY <1>1, <1>2, <1>4 DEF Once, TagsIn
<1>. QED  BY <1>3, <1>4 DEF a

LEMMA TagsTail ==
    ASSUME NEW S, NEW s \in Seq(S), s # <<>>
    PROVE  /\ TagsIn(Tail(s)) \subseteq TagsIn(s)
           /\ Head(s).type = "rep" => Head(s).val \in TagsIn(s)
           /\ \A x : Once(s, x) => Once(Tail(s), x)
           /\ \A x : Once(s, x) /\ Head(s).type = "rep" /\ Head(s).val \notin x
                     => Head(s).val \notin TagsIn(Tail(s))
<1> DEFINE t == Tail(s)
<1>1. /\ Len(s) \in Nat \ {0} /\ DOMAIN s = 1 .. Len(s)
      /\ DOMAIN t = 1 .. Len(s) - 1
      /\ \A i \in 1 .. Len(s) - 1 : t[i] = s[i + 1]
      /\ Head(s) = s[1]
  BY HeadTailProperties, LenProperties, EmptySeq
<1> HIDE DEF t
<1>2. \A i \in Reps(t) : i + 1 \in Reps(s) /\ t[i] = s[i + 1] /\ i \in Nat /\ i > 0
  BY <1>1 DEF Reps
<1>3. TagsIn(t) \subseteq TagsIn(s)
  BY <1>2 DEF TagsIn
<1>4. Head(s).type = "rep" => 1 \in Reps(s) /\ Head(s).val \in TagsIn(s)
  BY <1>1 DEF Reps, TagsIn
<1>5. ASSUME NEW x, Once(s, x) PROVE Once(t, x)
  BY <1>2, <1>5 DEF Once
<1>6. ASSUME NEW x, Once(s, x), Head(s).type = "rep", Head(s).val \notin x,
             Head(s).val \in TagsIn(t)
      PROVE  FALSE
  <2>1. PICK i \in Reps(t) : t[i].val = Head(s).val
    BY <1>6 DEF TagsIn
  <2>2. i + 1 = 1
    BY <1>1, <1>2, <1>4, <1>6, <2>1 DEF Once
  <2>. QED  BY <1>2, <2>2
<1>. QED  BY <1>3, <1>4, <1>5, <1>6 DEF t

LEMMA OnceMore ==
    ASSUME NEW s, NEW x, NEW y, Once(s, x), x \subseteq y PROVE Once(s, y)
  BY DEF Once

\* Queue q holds what queue p holds, or less.
Fewer(p, q) == TagsIn(q) \subseteq TagsIn(p) /\ \A x : Once(p, x) => Once(q, x)
Quieter ==
    \A c \in Conns : /\ Fewer(link[c].toC, link'[c].toC)
                     /\ Fewer(link[c].toD, link'[c].toD)

\* Every connection keeps the end of the client.
SameEnds == \A c \in Conns : link'[c].cEnd = link[c].cEnd

\* The application closes its end.
LEMMA ClosedD ==
    ASSUME NEW l \in [Conns -> Connection], NEW c \in Conns \cup {None}
    PROVE  /\ CloseD(l, c) \in [Conns -> Connection]
           /\ \A e \in Conns : /\ CloseD(l, c)[e].cEnd = l[e].cEnd
                               /\ CloseD(l, c)[e].toC = l[e].toC
                               /\ CloseD(l, c)[e].toD = l[e].toD
<1>1. CASE c = None
  BY <1>1 DEF CloseD
<1>2. CASE c # None
  BY <1>2 DEF CloseD, Connection
<1>. QED  BY <1>1, <1>2

\* A packet is queued, or taken out.
LEMMA FewerFacts ==
    /\ \A p : Fewer(p, p)
    /\ \A p : Fewer(p, <<>>)
  BY TagsEmpty DEF Fewer

LEMMA WrittenOk ==
    ASSUME TypeOK, NEW m \in ToClient, WriteOk(m)
    PROVE  /\ link' \in [Conns -> Connection] /\ SameEnds
           /\ m.type # "rep" => Quieter
           /\ dp.fd \in Conns
           /\ link'[dp.fd].toC = Append(link[dp.fd].toC, m)
           /\ link'[dp.fd].toD = link[dp.fd].toD
           /\ \A e \in Conns \ {dp.fd} : link'[e] = link[e]
<1>1. dp.fd \in Conns /\ link \in [Conns -> Connection]
  BY DEF TypeOK, App, WriteOk
<1>2. link[dp.fd].toC \in Seq(ToClient)
  BY <1>1 DEF Connection
<1>3. Append(link[dp.fd].toC, m) \in Seq(ToClient)
  BY <1>2
<1>4. /\ link' \in [Conns -> Connection]
      /\ link'[dp.fd].toC = Append(link[dp.fd].toC, m)
      /\ link'[dp.fd].cEnd = link[dp.fd].cEnd
      /\ link'[dp.fd].toD = link[dp.fd].toD
      /\ \A e \in Conns \ {dp.fd} : link'[e] = link[e]
  BY <1>1, <1>3 DEF WriteOk, Connection
<1>5. m.type # "rep" => Fewer(link[dp.fd].toC, link'[dp.fd].toC)
  BY <1>2, <1>4, TagsAppend DEF Fewer
<1>. QED  BY <1>1, <1>4, <1>5, FewerFacts DEF SameEnds, Quieter

LEMMA TakenD ==
    ASSUME TypeOK, NEW c \in Conns, link[c].toD # <<>>,
           link' = [link EXCEPT ![c].toD = Tail(@)]
    PROVE  /\ link' \in [Conns -> Connection] /\ SameEnds /\ Quieter
           /\ link'[c].toD = Tail(link[c].toD) /\ link'[c].toC = link[c].toC
           /\ \A e \in Conns \ {c} : link'[e] = link[e]
<1>1. link \in [Conns -> Connection] /\ link[c].toD \in Seq(ToApp)
  BY DEF TypeOK, Connection
<1>2. Tail(link[c].toD) \in Seq(ToApp)
  BY <1>1
<1>3. /\ link' \in [Conns -> Connection]
      /\ link'[c].toD = Tail(link[c].toD) /\ link'[c].toC = link[c].toC
      /\ link'[c].cEnd = link[c].cEnd
      /\ \A e \in Conns \ {c} : link'[e] = link[e]
  BY <1>1, <1>2 DEF Connection
<1>4. Fewer(link[c].toD, link'[c].toD)
  BY <1>1, <1>3, TagsTail DEF Fewer
<1>. QED  BY <1>3, <1>4, FewerFacts DEF SameEnds, Quieter

LEMMA TakenC ==
    ASSUME TypeOK, NEW c \in Conns, link[c].toC # <<>>
    PROVE  /\ Popped(c) \in [Conns -> Connection]
           /\ \A e \in Conns : /\ Popped(c)[e].cEnd = link[e].cEnd
                               /\ Popped(c)[e].toD = link[e].toD
                               /\ Fewer(link[e].toC, Popped(c)[e].toC)
           /\ Popped(c)[c].toC = Tail(link[c].toC)
           /\ \A e \in Conns \ {c} : Popped(c)[e] = link[e]
<1>1. link \in [Conns -> Connection] /\ link[c].toC \in Seq(ToClient)
  BY DEF TypeOK, Connection
<1>2. Tail(link[c].toC) \in Seq(ToClient)
  BY <1>1
<1>3. /\ Popped(c) \in [Conns -> Connection]
      /\ Popped(c)[c].toC = Tail(link[c].toC) /\ Popped(c)[c].toD = link[c].toD
      /\ Popped(c)[c].cEnd = link[c].cEnd
      /\ \A e \in Conns \ {c} : Popped(c)[e] = link[e]
  BY <1>1, <1>2 DEF Popped, Connection
<1>4. Fewer(link[c].toC, Popped(c)[c].toC)
  BY <1>1, <1>3, TagsTail DEF Fewer
<1>. QED  BY <1>3, <1>4, FewerFacts

\* What is owed has a tag.
LEMMA OwedTags == TypeOK /\ AppSteps => OwedNow \subseteq Tags
  BY DataPlaneLinkAssumption DEF TypeOK, AppSteps, App, OwedNow, Tag, Tags, Procs

\* With no new request or answer under way, each stays in one place.
LEMMA PlaceStep ==
    ASSUME OnePlace, Quieter, cl'.reps \subseteq cl.reps,
           dp.again \subseteq dp'.again
    PROVE  OnePlace'
<1>1. \A c \in Conns : /\ Once(link'[c].toC, {}) /\ Once(link'[c].toD, dp'.again)
                       /\ TagsIn(link'[c].toC) \subseteq TagsIn(link[c].toC)
                       /\ TagsIn(link'[c].toD) \subseteq TagsIn(link[c].toD)
  BY OnceMore DEF OnePlace, Quieter, Fewer
<1>. QED  BY <1>1 DEF OnePlace

LEMMA TagsStep ==
    ASSUME OnePlace, AllOwed, Quieter, cl'.reps \subseteq cl.reps,
           cl'.more \in {cl.more, NoTag}, dp'.again = dp.again,
           OwedNow \subseteq OwedNow'
    PROVE  OnePlace' /\ AllOwed'
<1>1. AllOwed'
  BY DEF AllOwed, Quieter, Fewer
<1>. QED  BY <1>1, PlaceStep

\* A step of the application leaves the client and its ends alone.
LEMMA ClientFrame ==
    ASSUME IInv, cl' = cl, SameEnds
    PROVE  /\ Queue' /\ Stopped' /\ SingleConnection'
           /\ HasPolicy' /\ PolicyNotForgotten'
<1>1. \A i \in DOMAIN cl.backlog : cl.backlog[i] \in Conns
  BY DEF IInv, TypeOK, Client
<1>2. Queue'
  BY <1>1 DEF IInv, Queue, SameEnds
<1>3. SingleConnection'
  BY DEF IInv, SingleConnection, SameEnds
<1>4. Stopped' /\ HasPolicy' /\ PolicyNotForgotten'
  BY DEF IInv, Stopped, HasPolicy, PolicyNotForgotten
<1>. QED  BY <1>2, <1>3, <1>4

LEMMA AppStep ==
    ASSUME IInv, UNCHANGED <<cl, crash>>, link' \in [Conns -> Connection],
           SameEnds, Quieter, dp' \in App, dp'.again = dp.again,
           OwedNow \subseteq OwedNow',
           AppSteps', Asked', FirstAsksFirst', FirstGetsIdentity'
    PROVE  IInv'
<1>1. TypeOK'
  BY DEF IInv, TypeOK
<1>2. OnePlace' /\ AllOwed'
  BY TagsStep DEF IInv
<1>. QED  BY <1>1, <1>2, ClientFrame DEF IInv

\* A step of the client leaves the application alone; the gateway may begin an
\* answer with several reputations.
SameApp ==
    /\ dp'.inc = dp.inc /\ dp'.pc = dp.pc /\ dp'.fd = dp.fd /\ dp'.id = dp.id
    /\ dp'.qpc = dp.qpc /\ dp'.q = dp.q /\ dp'.rfd = dp.rfd
    /\ dp'.owed = dp.owed

LEMMA ClientStep ==
    ASSUME IInv, SameApp, TypeOK', Queue', Stopped', SingleConnection',
           HasPolicy', PolicyNotForgotten', OnePlace', AllOwed'
    PROVE  IInv'
  BY DEF IInv, SameApp, AppSteps, Asked, FirstAsksFirst, FirstGetsIdentity, OwedNow, Tag

LEMMA InitIInv == Init => IInv
<1> SUFFICES ASSUME Init PROVE IInv
  OBVIOUS
<1> USE DataPlaneLinkAssumption DEF Init, Fresh
<1>1. TypeOK
  BY DEF TypeOK, Connection, Client, App, None, Procs
<1>2. AppSteps /\ Queue /\ Stopped /\ SingleConnection /\ HasPolicy /\ PolicyNotForgotten
  BY DEF AppSteps, Queue, Stopped, SingleConnection, HasPolicy, PolicyNotForgotten
<1>3. OnePlace
  BY TagsEmpty DEF OnePlace
<1>4. AllOwed /\ Asked /\ FirstAsksFirst /\ FirstGetsIdentity
  BY TagsEmpty DEF AllOwed, Asked, FirstAsksFirst, FirstGetsIdentity, OwedNow
<1>. QED  BY <1>1, <1>2, <1>3, <1>4 DEF IInv

\* The application starts, and ends.
LEMMA StartStep == IInv /\ DpStart => IInv'
<1> SUFFICES ASSUME IInv, DpStart PROVE IInv'
  OBVIOUS
<1> USE DataPlaneLinkAssumption DEF IInv, DpStart
<1>0. dp.inc + 1 \in Procs /\ dp \in App
  BY DEF TypeOK, App, Procs
<1>1. dp' \in App /\ link' \in [Conns -> Connection] /\ SameEnds /\ Quieter
  <2>1. dp' \in App
    BY <1>0 DEF App
  <2>. QED  BY <2>1, FewerFacts DEF TypeOK, SameEnds, Quieter
<1>2. OwedNow' = OwedNow /\ OwedNow = dp.owed /\ dp'.again = dp.again
  BY DEF TypeOK, App, AppSteps, OwedNow
<1>3. AppSteps' /\ FirstGetsIdentity' /\ FirstAsksFirst'
  BY <1>2 DEF TypeOK, App, Procs, AppSteps, FirstGetsIdentity, FirstAsksFirst
<1>4. Asked'
  BY DEF TypeOK, App, Procs, Tags, Asked
<1>. QED  BY <1>1, <1>2, <1>3, <1>4, AppStep

LEMMA EndStep ==
    ASSUME IInv, dp.pc # "down", link' = CloseD(link, dp.fd), dp' = Ended,
           UNCHANGED <<cl, crash>>
    PROVE  IInv'
<1> USE DataPlaneLinkAssumption DEF IInv
<1>1. link' \in [Conns -> Connection] /\ SameEnds /\ Quieter
  BY ClosedD, FewerFacts DEF TypeOK, App, SameEnds, Quieter
<1>2. dp' \in App
  <2>1. dp \in App /\ 0 \in 0 .. MaxQuery /\ OwedNow \subseteq Tags
    BY OwedTags DEF TypeOK
  <2>. QED  BY <2>1 DEF Ended, App
<1>3. /\ OwedNow' = OwedNow /\ dp'.owed = OwedNow /\ dp'.inc = dp.inc
      /\ dp'.again = dp.again
  BY DEF Ended, TypeOK, App, OwedNow
<1>4. AppSteps' /\ FirstGetsIdentity' /\ FirstAsksFirst'
  BY <1>3 DEF Ended, TypeOK, App, AppSteps, FirstGetsIdentity, FirstAsksFirst
<1>5. Asked'
  BY <1>3 DEF Ended, TypeOK, App, Asked, OwedNow, Tag
<1>. QED  BY <1>1, <1>2, <1>3, <1>4, <1>5, AppStep

\* A step of atlas_init or of the statistics thread that keeps q and owed.
LEMMA InitThreadStep ==
    ASSUME IInv, UNCHANGED <<cl, crash>>, link' \in [Conns -> Connection],
           SameEnds, Quieter, dp' \in App, dp.pc # "down",
           dp'.inc = dp.inc, dp'.q = dp.q, dp'.owed = dp.owed, dp'.again = dp.again,
           dp'.rfd = dp.rfd, dp'.qpc = dp.qpc, dp'.id = dp.id,
           dp'.pc # "down",
           dp'.pc \in {"getid", "readid"} => dp.qpc = "off",
           dp'.pc = "readid" => dp'.fd # None
    PROVE  IInv'
<1> USE DEF IInv
<1>1. OwedNow' = OwedNow
  BY DEF OwedNow, Tag
<1>2. AppSteps' /\ FirstGetsIdentity' /\ FirstAsksFirst'
  BY <1>1 DEF AppSteps, FirstGetsIdentity, FirstAsksFirst
<1>3. Asked'
  BY DEF Asked
<1>. QED  BY <1>1, <1>2, <1>3, AppStep

LEMMA ReconnectStep ==
    ASSUME IInv, NEW depth \in Nat, Reconnect(depth), dp.pc # "down",
           UNCHANGED <<cl, crash>>
    PROVE  IInv'
<1>1. link' \in [Conns -> Connection] /\ SameEnds /\ Quieter
  BY ClosedD, FewerFacts DEF IInv, TypeOK, App, SameEnds, Quieter, Reconnect
<1>2. /\ dp' \in App /\ dp'.pc = "connect"
      /\ dp'.inc = dp.inc /\ dp'.q = dp.q /\ dp'.owed = dp.owed
      /\ dp'.again = dp.again
      /\ dp'.rfd = dp.rfd /\ dp'.qpc = dp.qpc /\ dp'.id = dp.id
  BY DEF IInv, TypeOK, App, None, Reconnect
<1>. QED  BY <1>1, <1>2, InitThreadStep

\* socket_connect: the connection is new, and waits for accept behind others.
LEMMA ConnectStep == IInv /\ Connect => IInv'
<1> SUFFICES ASSUME IInv, Connect PROVE IInv'
  OBVIOUS
<1> USE DataPlaneLinkAssumption
<1> DEFINE c == Min(FreeConns)
           k == [dEnd |-> TRUE, cEnd |-> "queued", toC |-> <<>>, toD |-> <<>>]
<1>1. c \in Conns /\ link[c].cEnd = "closed"
  <2>1. FreeConns \subseteq Nat /\ FreeConns # {}
    BY DEF FreeConns, Conns, Connect
  <2>2. c \in FreeConns
    BY <2>1, MinOf
  <2>. QED  BY <2>2 DEF FreeConns
<1> HIDE DEF c
<1>2. /\ link' = [link EXCEPT ![c] = k]
      /\ cl' = [cl EXCEPT !.backlog = Append(@, c)]
      /\ dp' = [dp EXCEPT !.pc = "policy", !.fd = c]
      /\ crash' = crash
  BY DEF Connect, AfterConnect, c
<1>3. /\ link \in [Conns -> Connection] /\ k \in Connection /\ cl \in Client
      /\ dp \in App /\ cl.backlog \in Seq(Conns)
  BY DEF IInv, TypeOK, Connection, Client
<1>4. /\ link' \in [Conns -> Connection] /\ link'[c] = k
      /\ \A e \in Conns \ {c} : link'[e] = link[e]
  BY <1>1, <1>2, <1>3
<1>5. /\ cl' \in Client /\ cl'.backlog = Append(cl.backlog, c)
      /\ cl'.csock = cl.csock /\ cl'.watched = cl.watched
      /\ cl'.reps = cl.reps /\ cl'.more = cl.more
      /\ cl'.alive = cl.alive
      /\ cl'.active = cl.active /\ cl'.pol = cl.pol /\ cl'.dropped = cl.dropped
      /\ cl'.polReqs = cl.polReqs /\ cl'.polAlarms = cl.polAlarms
      /\ cl'.confirmed = cl.confirmed
  <2> DEFINE a == Append(cl.backlog, c)
  <2>1. a \in Seq(Conns) /\ cl' = [cl EXCEPT !.backlog = a]
    BY <1>1, <1>2, <1>3
  <2> HIDE DEF a
  <2>2. /\ cl' \in Client /\ cl'.backlog = a
        /\ cl'.csock = cl.csock /\ cl'.watched = cl.watched
        /\ cl'.reps = cl.reps /\ cl'.more = cl.more
        /\ cl'.alive = cl.alive
        /\ cl'.active = cl.active /\ cl'.pol = cl.pol /\ cl'.dropped = cl.dropped
        /\ cl'.polReqs = cl.polReqs /\ cl'.polAlarms = cl.polAlarms
        /\ cl'.confirmed = cl.confirmed
    BY <1>3, <2>1 DEF Client
  <2>. QED  BY <2>2 DEF a
<1>6. /\ dp' \in App /\ dp'.pc = "policy" /\ dp.pc = "connect"
      /\ dp'.inc = dp.inc /\ dp'.q = dp.q /\ dp'.owed = dp.owed
      /\ dp'.again = dp.again
      /\ dp'.rfd = dp.rfd /\ dp'.qpc = dp.qpc /\ dp'.id = dp.id
  BY <1>1, <1>2, <1>3 DEF App, Connect
<1>7. TypeOK'
  BY <1>2, <1>4, <1>5, <1>6 DEF IInv, TypeOK
<1>8. OwedNow' = OwedNow /\ Quieter
  BY <1>4, <1>6, FewerFacts DEF OwedNow, Tag, Quieter
<1>9. OnePlace' /\ AllOwed'
  BY <1>5, <1>6, <1>8, TagsStep DEF IInv
<1>10. AppSteps' /\ FirstGetsIdentity' /\ FirstAsksFirst' /\ Asked'
  BY <1>6, <1>8 DEF IInv, AppSteps, FirstGetsIdentity, FirstAsksFirst, Asked
<1>11. Queue'
  <2> DEFINE b == cl.backlog
             a == Append(b, c)
  <2>1. /\ DOMAIN b = 1 .. Len(b) /\ Len(b) \in Nat /\ DOMAIN a = 1 .. Len(b) + 1
        /\ \A i \in 1 .. Len(b) : a[i] = b[i] /\ b[i] \in Conns
        /\ a[Len(b) + 1] = c
    BY <1>1, <1>3, AppendProperties, LenProperties
  <2>2. \A i \in 1 .. Len(b) : link[b[i]].cEnd = "queued" /\ b[i] # c
    BY <1>1, <2>1 DEF IInv, Queue
  <2> HIDE DEF a
  <2>3. \A i \in DOMAIN a : link'[a[i]].cEnd = "queued"
    BY <1>4, <2>1, <2>2
  <2>4. \A i, j \in DOMAIN a : a[i] = a[j] => i = j
    <3>1. \A i, j \in 1 .. Len(b) : b[i] = b[j] => i = j
      BY <2>1 DEF IInv, Queue
    <3>2. \A i \in DOMAIN a : i \in 1 .. Len(b) \/ i = Len(b) + 1
      BY <2>1
    <3>3. \A i, j \in 1 .. Len(b) : a[i] = a[j] => i = j
      BY <2>1, <3>1
    <3>4. \A i \in 1 .. Len(b) : a[i] # c
      BY <2>1, <2>2
    <3>. QED  BY <2>1, <3>2, <3>3, <3>4
  <2>. QED  BY <1>5, <2>3, <2>4 DEF Queue, a
<1>12. Stopped' /\ SingleConnection'
  BY <1>1, <1>4, <1>5 DEF IInv, Stopped, SingleConnection
<1>13. HasPolicy' /\ PolicyNotForgotten'
  BY <1>5 DEF IInv, HasPolicy, PolicyNotForgotten
<1>. QED  BY <1>7, <1>9, <1>10, <1>11, <1>12, <1>13 DEF IInv

\* Writes of atlas_init and of the statistics thread.
LEMMA WritePolicyStep == IInv /\ WritePolicy => IInv'
<1> SUFFICES ASSUME IInv, WritePolicy PROVE IInv'
  OBVIOUS
<1> DEFINE m == [type |-> "policy", val |-> dp.inc]
<1>1. dp \in App /\ dp.inc \in Procs /\ dp.pc = "policy" /\ UNCHANGED <<cl, crash>>
  BY DEF IInv, TypeOK, App, AppSteps, WritePolicy
<1>2. CASE WriteOk(m) /\ dp' = AfterPolicy
  <2>1. m \in ToClient /\ m.type # "rep"
    BY <1>1 DEF ToClient
  <2>2. link' \in [Conns -> Connection] /\ SameEnds /\ Quieter
    BY <1>2, <2>1, WrittenOk DEF IInv
  <2>3. /\ dp' \in App /\ dp'.pc \in {"policy", "getid", "stats"}
        /\ dp'.pc = "getid" => dp.qpc = "off"
        /\ dp'.inc = dp.inc /\ dp'.q = dp.q /\ dp'.owed = dp.owed
        /\ dp'.again = dp.again
        /\ dp'.rfd = dp.rfd /\ dp'.qpc = dp.qpc /\ dp'.id = dp.id
    <3>1. CASE dp.depth > 0
      <4>1. dp.depth - 1 \in Nat /\ dp' = [dp EXCEPT !.depth = dp.depth - 1]
        BY <1>1, <1>2, <3>1 DEF App, AfterPolicy
      <4>. QED  BY <1>1, <4>1 DEF App
    <3>2. CASE ~(dp.depth > 0)
      BY <1>1, <1>2, <3>2 DEF App, AfterPolicy
    <3>. QED  BY <3>1, <3>2
  <2>. QED  BY <1>1, <2>2, <2>3, InitThreadStep
<1>3. CASE Reconnect(dp.depth + 1)
  BY <1>1, <1>3, ReconnectStep DEF App
<1>. QED  BY <1>2, <1>3 DEF WritePolicy

LEMMA WriteGetIdentityStep == IInv /\ WriteGetIdentity => IInv'
<1> SUFFICES ASSUME IInv, WriteGetIdentity PROVE IInv'
  OBVIOUS
<1> DEFINE m == [type |-> "get_identity", val |-> NoTag]
<1>1. /\ dp \in App /\ dp.pc = "getid" /\ dp.qpc = "off"
      /\ UNCHANGED <<cl, crash>>
  BY DEF IInv, TypeOK, AppSteps, WriteGetIdentity
<1>2. CASE WriteOk(m) /\ dp' = [dp EXCEPT !.pc = "readid"]
  <2>1. m \in ToClient /\ m.type # "rep"
    BY DEF ToClient
  <2>2. link' \in [Conns -> Connection] /\ SameEnds /\ Quieter
    BY <1>2, <2>1, WrittenOk DEF IInv
  <2>3. /\ dp' \in App /\ dp'.pc = "readid" /\ dp'.fd # None
        /\ dp'.inc = dp.inc /\ dp'.q = dp.q /\ dp'.owed = dp.owed
        /\ dp'.again = dp.again
        /\ dp'.rfd = dp.rfd /\ dp'.qpc = dp.qpc /\ dp'.id = dp.id
    BY <1>1, <1>2 DEF App, WriteOk
  <2>. QED  BY <1>1, <2>2, <2>3, InitThreadStep
<1>3. CASE Reconnect(0)
  BY <1>1, <1>3, ReconnectStep
<1>. QED  BY <1>2, <1>3 DEF WriteGetIdentity

LEMMA WriteStatisticsStep == IInv /\ WriteStatistics => IInv'
<1> SUFFICES ASSUME IInv, WriteStatistics PROVE IInv'
  OBVIOUS
<1> DEFINE m == [type |-> "statistics", val |-> NoTag]
<1>1. dp \in App /\ dp.pc = "stats" /\ UNCHANGED <<cl, crash>>
  BY DEF IInv, TypeOK, WriteStatistics
<1>2. CASE WriteOk(m) /\ dp' = [dp EXCEPT !.pc = "sleep"]
  <2>1. m \in ToClient /\ m.type # "rep"
    BY DEF ToClient
  <2>2. link' \in [Conns -> Connection] /\ SameEnds /\ Quieter
    BY <1>2, <2>1, WrittenOk DEF IInv
  <2>3. /\ dp' \in App /\ dp'.pc = "sleep"
        /\ dp'.inc = dp.inc /\ dp'.q = dp.q /\ dp'.owed = dp.owed
        /\ dp'.again = dp.again
        /\ dp'.rfd = dp.rfd /\ dp'.qpc = dp.qpc /\ dp'.id = dp.id
    BY <1>1, <1>2 DEF App
  <2>. QED  BY <1>1, <2>2, <2>3, InitThreadStep
<1>3. CASE Reconnect(0)
  BY <1>1, <1>3, ReconnectStep
<1>. QED  BY <1>2, <1>3 DEF WriteStatistics

LEMMA WakeStep == IInv /\ Wake => IInv'
<1> SUFFICES ASSUME IInv, Wake PROVE IInv'
  OBVIOUS
<1>1. link' \in [Conns -> Connection] /\ SameEnds /\ Quieter
  BY FewerFacts DEF IInv, TypeOK, Wake, SameEnds, Quieter
<1>2. /\ dp' \in App /\ dp'.pc = "stats" /\ dp.pc = "sleep"
      /\ dp'.inc = dp.inc /\ dp'.q = dp.q /\ dp'.owed = dp.owed
      /\ dp'.again = dp.again
      /\ dp'.rfd = dp.rfd /\ dp'.qpc = dp.qpc /\ dp'.id = dp.id
  BY DEF IInv, TypeOK, App, Wake
<1>. QED  BY <1>1, <1>2, InitThreadStep DEF Wake

\* The first process is owed nothing yet, so what it reads is its identity.
LEMMA ReadIdentityStep == IInv /\ ReadIdentity => IInv'
<1> SUFFICES ASSUME IInv, ReadIdentity PROVE IInv'
  OBVIOUS
<1> DEFINE m == Head(link[dp.fd].toD)
<1>1. /\ dp \in App /\ dp.pc = "readid" /\ dp.qpc = "off" /\ dp.fd \in Conns
      /\ dp.inc \in Procs
      /\ link[dp.fd].toD # <<>> /\ link[dp.fd].toD \in Seq(ToApp)
      /\ UNCHANGED <<cl, crash>>
  BY DEF IInv, TypeOK, App, AppSteps, ReadIdentity, AppReads, Connection
<1>2. link' \in [Conns -> Connection] /\ SameEnds /\ Quieter
  BY <1>1, TakenD DEF IInv, ReadIdentity
<1>3. m \in ToApp
  BY <1>1, HeadTailProperties
<1>4. m.type # "identity" => dp.inc > 1
  <2> SUFFICES ASSUME m.type # "identity" PROVE dp.inc > 1
    OBVIOUS
  <2>1. m.type = "rep"
    BY <1>3 DEF ToApp
  <2>2. OwedNow # {}
    <3>1. m.val \in TagsIn(link[dp.fd].toD)
      BY <1>1, <2>1, TagsTail
    <3>. QED  BY <1>1, <3>1 DEF IInv, AllOwed
  <2>. QED  BY <1>1, <2>2 DEF IInv, FirstAsksFirst, Procs
<1>5. /\ dp' \in App /\ dp'.pc = "stats" /\ dp'.qpc = "idle"
      /\ dp'.inc = dp.inc /\ dp'.q = dp.q /\ dp'.owed = dp.owed
      /\ dp'.again = dp.again
      /\ dp'.rfd = dp.rfd
      /\ dp'.id = IF m.type = "identity" THEN "set" ELSE "null"
  BY <1>1 DEF ReadIdentity, App
<1>6. OwedNow \subseteq OwedNow'
  BY <1>1, <1>5 DEF OwedNow
<1>7. AppSteps' /\ Asked' /\ FirstAsksFirst' /\ FirstGetsIdentity'
  BY <1>1, <1>4, <1>5
  DEF IInv, AppSteps, Asked, FirstAsksFirst, FirstGetsIdentity, Procs
<1>. QED  BY <1>1, <1>2, <1>5, <1>6, <1>7, AppStep

LEMMA ReadIdentityFailsStep == IInv /\ ReadIdentityFails => IInv'
  BY EndStep DEF ReadIdentityFails

LEMMA WriteFeedbackStep == IInv /\ WriteFeedback => IInv'
<1> SUFFICES ASSUME IInv, WriteFeedback PROVE IInv'
  OBVIOUS
<1> DEFINE m == [type |-> "feedback", val |-> NoTag]
<1>1. dp \in App /\ dp.qpc = "feedback" /\ UNCHANGED <<cl, crash>>
  BY DEF IInv, TypeOK, WriteFeedback
<1>2. link' \in [Conns -> Connection] /\ SameEnds /\ Quieter
  <2>1. m \in ToClient /\ m.type # "rep"
    BY DEF ToClient
  <2>2. CASE WriteOk(m)
    BY <2>1, <2>2, WrittenOk DEF IInv
  <2>3. CASE UNCHANGED link
    BY <2>3, FewerFacts DEF IInv, TypeOK, SameEnds, Quieter
  <2>. QED  BY <2>2, <2>3 DEF WriteFeedback
<1>3. /\ dp' \in App /\ dp'.qpc = "idle"
      /\ dp'.inc = dp.inc /\ dp'.q = dp.q /\ dp'.owed = dp.owed
      /\ dp'.again = dp.again
      /\ dp'.pc = dp.pc /\ dp'.fd = dp.fd /\ dp'.id = dp.id
  BY <1>1 DEF WriteFeedback, App
<1>4. OwedNow = OwedNow'
  BY <1>1, <1>3 DEF OwedNow
<1>5. AppSteps' /\ Asked' /\ FirstAsksFirst' /\ FirstGetsIdentity'
  BY <1>1, <1>3, <1>4 DEF IInv, AppSteps, Asked, FirstAsksFirst, FirstGetsIdentity
<1>. QED  BY <1>1, <1>2, <1>3, <1>4, <1>5, AppStep

\* The tag of a request is new: nothing like it is under way or owed.
LEMMA WriteRequestStep == IInv /\ WriteRequest => IInv'
<1> SUFFICES ASSUME IInv, WriteRequest PROVE IInv'
  OBVIOUS
<1> DEFINE t == <<dp.inc, dp.q + 1>>
           m == [type |-> "rep", val |-> t]
<1>1. /\ dp \in App /\ dp.qpc = "idle" /\ dp.pc # "down" /\ dp.inc # 0
      /\ dp.q < MaxQuery /\ UNCHANGED <<cl, crash>>
  BY DEF IInv, TypeOK, AppSteps, WriteRequest
<1>2. CASE /\ WriteOk(m)
           /\ dp' = [dp EXCEPT !.qpc = "written", !.q = @ + 1, !.ans = NoTag]
  <2>1. /\ dp.q + 1 \in 1 .. MaxQuery /\ dp.q + 1 \in 0 .. MaxQuery /\ dp.q \in Nat
        /\ dp.inc \in Procs /\ dp.inc \in Nat
    BY <1>1, DataPlaneLinkAssumption DEF App, Procs
  <2>2. t \in Tags /\ m \in ToClient /\ m.type = "rep" /\ m.val = t
    BY <2>1 DEF Tags, ToClient
  <2>3. /\ dp' \in App /\ dp'.qpc = "written" /\ dp'.q = dp.q + 1
        /\ dp'.inc = dp.inc /\ dp'.owed = dp.owed
        /\ dp'.again = dp.again /\ dp'.rfd = dp.rfd
        /\ dp'.pc = dp.pc /\ dp'.fd = dp.fd /\ dp'.id = dp.id
    BY <1>1, <1>2, <2>1 DEF App
  <2>4. OwedNow' = OwedNow \cup {t} /\ OwedNow = dp.owed
    BY <1>1, <2>3 DEF OwedNow, Tag
  <2>5. t \notin OwedNow
    <3>1. ~(t[1] < dp.inc) /\ t[1] = dp.inc /\ ~(t[2] <= dp.q)
      BY <2>1
    <3>. QED  BY <1>1, <2>4, <3>1 DEF IInv, Asked
  <2>6. /\ link' \in [Conns -> Connection] /\ SameEnds
        /\ dp.fd \in Conns
        /\ link'[dp.fd].toC = Append(link[dp.fd].toC, m)
        /\ link'[dp.fd].toD = link[dp.fd].toD
        /\ \A e \in Conns \ {dp.fd} : link'[e] = link[e]
    BY <1>2, <2>2, WrittenOk DEF IInv
  <2>7. \A c \in Conns : t \notin TagsIn(link[c].toC) /\ t \notin TagsIn(link[c].toD)
    BY <2>5 DEF IInv, AllOwed
  <2>8. /\ TagsIn(link'[dp.fd].toC) = TagsIn(link[dp.fd].toC) \cup {t}
        /\ Once(link'[dp.fd].toC, {})
    <3>1. link[dp.fd].toC \in Seq(ToClient) /\ Once(link[dp.fd].toC, {})
      BY <2>6 DEF IInv, TypeOK, Connection, OnePlace
    <3>2. t \notin TagsIn(link[dp.fd].toC)
      BY <2>6, <2>7
    <3> HIDE DEF t, m
    <3>. QED  BY <2>2, <2>6, <3>1, <3>2, TagsAppend
  <2>9. OnePlace'
    <3>1. t \notin cl.reps
      BY <2>5 DEF IInv, AllOwed
    <3>2. \A c \in Conns : /\ TagsIn(link'[c].toD) = TagsIn(link[c].toD)
                           /\ Once(link'[c].toD, dp'.again)
                           /\ c # dp.fd => TagsIn(link'[c].toC) = TagsIn(link[c].toC)
                           /\ Once(link'[c].toC, {})
      BY <2>3, <2>6, <2>8 DEF IInv, OnePlace
    <3> HIDE DEF t, m
    <3>3. \A c \in Conns : TagsIn(link'[c].toC) \subseteq TagsIn(link[c].toC) \cup {t}
      BY <2>8, <3>2
    <3>4. \A c \in Conns : /\ TagsIn(link'[c].toC) \cap cl.reps = {}
                           /\ TagsIn(link'[c].toD) \cap cl.reps \subseteq dp.again
      BY <3>1, <3>2, <3>3 DEF IInv, OnePlace
    <3>5. \A c, e \in Conns :
              TagsIn(link'[c].toC) \cap TagsIn(link'[e].toD) \subseteq dp.again
      BY <2>7, <3>2, <3>3 DEF IInv, OnePlace
    <3>6. ASSUME NEW c \in Conns, NEW e \in Conns, c # e
          PROVE  /\ TagsIn(link'[c].toC) \cap TagsIn(link'[e].toC) = {}
                 /\ TagsIn(link'[c].toD) \cap TagsIn(link'[e].toD) \subseteq dp.again
      <4>1. c # dp.fd \/ e # dp.fd
        BY <3>6
      <4>2. /\ TagsIn(link[c].toC) \cap TagsIn(link[e].toC) = {}
            /\ TagsIn(link[c].toD) \cap TagsIn(link[e].toD) \subseteq dp.again
        BY <3>6 DEF IInv, OnePlace
      <4>. QED  BY <2>7, <3>2, <3>3, <4>1, <4>2
    <3>. QED  BY <1>1, <2>3, <3>2, <3>4, <3>5, <3>6 DEF OnePlace
  <2>10. AllOwed'
    BY <1>1, <2>3, <2>4, <2>6, <2>8 DEF IInv, AllOwed
  <2>11. AppSteps' /\ FirstAsksFirst' /\ FirstGetsIdentity'
    BY <1>1, <2>1, <2>3 DEF IInv, AppSteps, FirstAsksFirst, FirstGetsIdentity
  <2>12. Asked'
    BY <1>1, <2>3 DEF IInv, Asked, App, Tags
  <2>13. TypeOK'
    BY <1>1, <2>3, <2>6 DEF IInv, TypeOK
  <2>. QED  BY <1>1, <2>6, <2>9, <2>10, <2>11, <2>12, <2>13, ClientFrame DEF IInv
<1>3. CASE dp' = [dp EXCEPT !.qpc = "feedback", !.ans = NoTag] /\ UNCHANGED link
  <2>1. /\ dp' \in App /\ dp'.qpc = "feedback" /\ dp'.q = dp.q
        /\ dp'.inc = dp.inc /\ dp'.owed = dp.owed
        /\ dp'.again = dp.again /\ dp'.rfd = dp.rfd
        /\ dp'.pc = dp.pc /\ dp'.fd = dp.fd /\ dp'.id = dp.id
    BY <1>1, <1>3 DEF App
  <2>2. OwedNow = OwedNow'
    BY <1>1, <2>1 DEF OwedNow
  <2>3. link' \in [Conns -> Connection] /\ SameEnds /\ Quieter
    BY <1>3, FewerFacts DEF IInv, TypeOK, SameEnds, Quieter
  <2>4. AppSteps' /\ Asked' /\ FirstAsksFirst' /\ FirstGetsIdentity'
    BY <1>1, <2>1, <2>2 DEF IInv, AppSteps, Asked, FirstAsksFirst, FirstGetsIdentity
  <2>. QED  BY <1>1, <2>1, <2>2, <2>3, <2>4, AppStep
<1>. QED  BY <1>2, <1>3 DEF WriteRequest

\* The request ends without its answer, which stays owed.
LEMMA GivesUpFacts ==
    ASSUME IInv, dp.qpc \in {"written", "read"}
    PROVE  /\ GivesUp \in App /\ GivesUp.qpc = "feedback" /\ GivesUp.owed = OwedNow
           /\ GivesUp.inc = dp.inc /\ GivesUp.q = dp.q /\ GivesUp.pc = dp.pc
           /\ GivesUp.fd = dp.fd /\ GivesUp.id = dp.id /\ GivesUp.rfd = None
           /\ GivesUp.again = dp.again
           /\ dp.pc \notin {"down", "getid", "readid"} /\ dp.inc \in Procs
           /\ \A t \in OwedNow :
                  t[1] < dp.inc \/ (t[1] = dp.inc /\ t[2] <= dp.q)
<1>1. dp \in App /\ OwedNow \subseteq Tags
  BY OwedTags DEF IInv, TypeOK
<1>2. /\ GivesUp \in App /\ GivesUp.qpc = "feedback" /\ GivesUp.owed = OwedNow
      /\ GivesUp.inc = dp.inc /\ GivesUp.q = dp.q /\ GivesUp.pc = dp.pc
      /\ GivesUp.fd = dp.fd /\ GivesUp.id = dp.id /\ GivesUp.rfd = None
      /\ GivesUp.again = dp.again
  BY <1>1 DEF GivesUp, App
<1>3. dp.pc \notin {"down", "getid", "readid"} /\ dp.inc \in Procs
  BY <1>1 DEF IInv, AppSteps, App
<1>4. ASSUME NEW t \in OwedNow
      PROVE  t[1] < dp.inc \/ (t[1] = dp.inc /\ t[2] <= dp.q)
  BY <1>1, <1>3 DEF IInv, Asked, OwedNow, Tag, App
<1>. QED  BY <1>2, <1>3, <1>4

LEMMA GivesUpStep ==
    ASSUME IInv, dp.qpc \in {"written", "read"}, dp' = GivesUp,
           UNCHANGED <<link, cl, crash>>
    PROVE  IInv'
<1>1. OwedNow' = OwedNow
  BY GivesUpFacts DEF OwedNow
<1>2. link' \in [Conns -> Connection] /\ SameEnds /\ Quieter
  BY FewerFacts DEF IInv, TypeOK, SameEnds, Quieter
<1>3. AppSteps' /\ FirstAsksFirst' /\ FirstGetsIdentity'
  BY GivesUpFacts DEF IInv, AppSteps, FirstAsksFirst, FirstGetsIdentity, Procs
<1>4. Asked'
  BY GivesUpFacts DEF Asked
<1>. QED  BY <1>1, <1>2, <1>3, <1>4, GivesUpFacts, AppStep

LEMMA BeginReadStep == IInv /\ BeginRead => IInv'
<1> SUFFICES ASSUME IInv, BeginRead PROVE IInv'
  OBVIOUS
<1>1. CASE dp.fd = None
  BY <1>1, GivesUpStep DEF BeginRead
<1>2. CASE dp.fd # None
  <2>1. dp \in App /\ dp.qpc = "written"
    BY DEF IInv, TypeOK, BeginRead
  <2>2. /\ dp' \in App /\ dp'.qpc = "read" /\ dp'.q = dp.q
        /\ dp'.inc = dp.inc /\ dp'.owed = dp.owed
        /\ dp'.again = dp.again /\ dp'.rfd = dp.fd
        /\ dp'.pc = dp.pc /\ dp'.fd = dp.fd /\ dp'.id = dp.id
    BY <1>2, <2>1 DEF BeginRead, App
  <2>3. OwedNow = OwedNow'
    BY <2>1, <2>2 DEF OwedNow, Tag
  <2>4. link' \in [Conns -> Connection] /\ SameEnds /\ Quieter
    BY FewerFacts DEF BeginRead, IInv, TypeOK, SameEnds, Quieter
  <2>5. AppSteps' /\ Asked' /\ FirstAsksFirst' /\ FirstGetsIdentity'
    BY <1>2, <2>1, <2>2, <2>3
    DEF IInv, AppSteps, Asked, FirstAsksFirst, FirstGetsIdentity
  <2>. QED  BY <2>2, <2>3, <2>4, <2>5, AppStep DEF BeginRead
<1>. QED  BY <1>1, <1>2

\* The answer that is read was in one place, so none like it is left.
LEMMA ReadReplyStep == IInv /\ ReadReply => IInv'
<1> SUFFICES ASSUME IInv, ReadReply PROVE IInv'
  OBVIOUS
<1> USE GivesUpFacts
<1> DEFINE c == dp.rfd
           m == Head(link[c].toD)
<1>1. /\ dp.qpc = "read" /\ c \in Conns /\ link[c].toD # <<>>
      /\ link[c].toD \in Seq(ToApp) /\ link' = [link EXCEPT ![c].toD = Tail(@)]
      /\ dp' = [GivesUp EXCEPT !.ans = m.val, !.owed = @ \ ({m.val} \ dp.again)]
      /\ UNCHANGED <<cl, crash>>
  BY DEF IInv, TypeOK, App, AppSteps, ReadReply, AppReads, Connection
<1>2. /\ link' \in [Conns -> Connection] /\ SameEnds /\ Quieter
      /\ link'[c].toD = Tail(link[c].toD) /\ link'[c].toC = link[c].toC
      /\ \A e \in Conns \ {c} : link'[e] = link[e]
  BY <1>1, TakenD DEF IInv
<1>3. m \in ToApp /\ (m.val \in Tags \/ m.val = NoTag)
  <2>1. m \in ToApp
    BY <1>1, HeadTailProperties
  <2>. QED  BY <2>1 DEF ToApp
<1>4. /\ dp' \in App /\ dp'.qpc = "feedback"
      /\ dp'.owed = OwedNow \ ({m.val} \ dp.again)
      /\ dp'.inc = dp.inc /\ dp'.q = dp.q /\ dp'.pc = dp.pc
      /\ dp'.fd = dp.fd /\ dp'.id = dp.id /\ dp'.again = dp.again
  <2> HIDE DEF m, c
  <2>. QED  BY <1>1, <1>3 DEF App
<1>5. OwedNow' = OwedNow \ ({m.val} \ dp.again)
  BY <1>4 DEF OwedNow
<1>6. ASSUME m.val \notin dp.again
      PROVE  /\ m.val \notin cl.reps
             /\ \A e \in Conns :
                    m.val \notin TagsIn(link'[e].toC) \cup TagsIn(link'[e].toD)
  <2>1. CASE m.type = "rep"
    <3>1. m.val \in TagsIn(link[c].toD) /\ m.val \notin TagsIn(link'[c].toD)
      BY <1>1, <1>2, <1>6, <2>1, TagsTail DEF IInv, OnePlace
    <3> HIDE DEF m
    <3>. QED  BY <1>1, <1>2, <1>6, <3>1 DEF IInv, OnePlace
  <2>2. CASE m.type # "rep"
    <3>1. m.val = NoTag
      BY <1>3, <2>2 DEF ToApp
    <3>2. NoTag \notin Tags
      BY DataPlaneLinkAssumption DEF NoTag, Tags, Procs
    <3>3. m.val \notin OwedNow
      BY <3>1, <3>2, OwedTags DEF IInv
    <3> HIDE DEF m
    <3>. QED  BY <1>2, <3>3 DEF IInv, AllOwed, Quieter, Fewer
  <2>. QED  BY <2>1, <2>2
<1>7. OnePlace'
  BY <1>1, <1>2, <1>4, PlaceStep DEF IInv
<1>8. AllOwed'
  <2> HIDE DEF m, c
  <2>1. cl'.reps \subseteq OwedNow'
    BY <1>1, <1>5, <1>6 DEF IInv, AllOwed
  <2>2. \A e \in Conns : TagsIn(link'[e].toC) \cup TagsIn(link'[e].toD) \subseteq OwedNow
    BY <1>2 DEF IInv, AllOwed, Quieter, Fewer
  <2>3. dp'.again \subseteq OwedNow' /\ cl'.more \in dp'.again \cup {NoTag}
    BY <1>1, <1>4, <1>5 DEF IInv, AllOwed
  <2>. QED  BY <1>5, <1>6, <2>1, <2>2, <2>3 DEF AllOwed
<1>9. AppSteps' /\ FirstAsksFirst' /\ FirstGetsIdentity'
  BY <1>1, <1>4 DEF IInv, AppSteps, FirstAsksFirst, FirstGetsIdentity, Procs
<1>10. Asked'
  <2> HIDE DEF m, c
  <2>. QED  BY <1>1, <1>4 DEF Asked
<1>11. TypeOK'
  BY <1>1, <1>2, <1>4 DEF IInv, TypeOK
<1>. QED  BY <1>1, <1>2, <1>7, <1>8, <1>9, <1>10, <1>11, ClientFrame DEF IInv

LEMMA ReadReplyFailsStep == IInv /\ ReadReplyFails => IInv'
  BY GivesUpStep DEF ReadReplyFails

\* The parts of the client that belong to its sockets, and to the policy.
SameSockets ==
    /\ cl'.csock = cl.csock /\ cl'.watched = cl.watched
    /\ cl'.backlog = cl.backlog /\ cl'.alive = cl.alive
SamePolicy ==
    /\ cl'.active = cl.active /\ cl'.pol = cl.pol /\ cl'.dropped = cl.dropped
    /\ cl'.polReqs = cl.polReqs /\ cl'.polAlarms = cl.polAlarms
    /\ cl'.confirmed = cl.confirmed

LEMMA SocketFrame ==
    ASSUME IInv, SameSockets, SameEnds
    PROVE  Queue' /\ Stopped' /\ SingleConnection'
<1>1. \A i \in DOMAIN cl.backlog : cl.backlog[i] \in Conns
  BY DEF IInv, TypeOK, Client
<1>2. Queue'
  BY <1>1 DEF IInv, Queue, SameEnds, SameSockets
<1>3. Stopped' /\ SingleConnection'
  BY DEF IInv, Stopped, SingleConnection, SameEnds, SameSockets
<1>. QED  BY <1>2, <1>3

LEMMA PolicyFrame ==
    ASSUME IInv, SamePolicy
    PROVE  HasPolicy' /\ PolicyNotForgotten'
  BY DEF IInv, SamePolicy, HasPolicy, PolicyNotForgotten

LEMMA SameOwed == ASSUME SameApp PROVE OwedNow' = OwedNow
  BY DEF SameApp, OwedNow, Tag

LEMMA AppAlone == ASSUME UNCHANGED dp PROVE SameApp /\ dp'.again = dp.again
  BY DEF SameApp

\* The client ends: nothing it has open or held is left.
LEMMA GoneStep ==
    ASSUME IInv, Gone, SameApp, dp' \in App, dp.again \subseteq dp'.again,
           dp'.again \subseteq OwedNow, crash' \in 0 .. MaxCrash
    PROVE  IInv'
<1> USE DataPlaneLinkAssumption
<1>1. /\ link' \in [Conns -> Connection] /\ Quieter
      /\ \A c \in Conns : link'[c].cEnd = "closed"
  BY FewerFacts DEF IInv, TypeOK, Gone, AllClosed, Connection, Quieter
<1>2. cl' \in Client
  BY DEF Gone, Fresh, Client, None
<1>3. TypeOK'
  BY <1>1, <1>2 DEF IInv, TypeOK
<1>4. Queue' /\ Stopped' /\ SingleConnection' /\ HasPolicy' /\ PolicyNotForgotten'
  BY <1>1
  DEF Gone, Fresh, Queue, Stopped, SingleConnection, HasPolicy, PolicyNotForgotten
<1>5. cl'.reps = {} /\ cl'.more = NoTag
  BY DEF Gone, Fresh
<1>6. OnePlace'
  BY <1>1, <1>5, PlaceStep DEF IInv
<1>7. AllOwed'
  BY <1>1, <1>5, SameOwed DEF IInv, AllOwed, Quieter, Fewer
<1>. QED  BY <1>3, <1>4, <1>6, <1>7, ClientStep

LEMMA GoneAlone ==
    ASSUME IInv, Gone, UNCHANGED dp, crash' \in 0 .. MaxCrash
    PROVE  IInv'
  BY GoneStep, AppAlone DEF IInv, TypeOK, AllOwed

LEMMA CrashStep == IInv /\ Crash => IInv'
  BY GoneAlone, DataPlaneLinkAssumption DEF Crash, IInv, TypeOK

LEMMA RestartStep == IInv /\ Restart => IInv'
<1> SUFFICES ASSUME IInv, Restart PROVE IInv'
  OBVIOUS

<1> USE DataPlaneLinkAssumption
<1>1. /\ cl' = Fresh(TRUE) /\ cl.csock = None /\ UNCHANGED <<link, dp, crash>>
      /\ link' \in [Conns -> Connection] /\ Quieter
  BY FewerFacts DEF IInv, TypeOK, Stopped, Restart, Quieter
<1>2. cl' \in Client
  BY <1>1 DEF Fresh, Client, None
<1>3. TypeOK'
  BY <1>1, <1>2 DEF IInv, TypeOK
<1>4. Queue' /\ Stopped' /\ SingleConnection' /\ HasPolicy' /\ PolicyNotForgotten'
  BY <1>1
  DEF IInv, Fresh, Queue, Stopped, SingleConnection, HasPolicy, PolicyNotForgotten
<1>5. OnePlace' /\ AllOwed'
  BY <1>1, TagsStep, SameOwed, AppAlone DEF IInv, Fresh
<1>. QED  BY <1>1, <1>3, <1>4, <1>5, AppAlone, ClientStep

\* accept: the connection it takes was waiting, the old one is closed.
LEMMA ClosedC ==
    ASSUME NEW l \in [Conns -> Connection], NEW c \in Conns \cup {None}
    PROVE  /\ CloseC(l, c) \in [Conns -> Connection]
           /\ \A e \in Conns : /\ CloseC(l, c)[e].toC = l[e].toC
                               /\ CloseC(l, c)[e].toD = l[e].toD
           /\ c # None => CloseC(l, c)[c].cEnd = "closed"
           /\ \A e \in Conns \ {c} : CloseC(l, c)[e] = l[e]
<1>1. CASE c = None
  BY <1>1, DataPlaneLinkAssumption DEF CloseC, Conns, None
<1>2. CASE c # None
  BY <1>2 DEF CloseC, Connection
<1>. QED  BY <1>1, <1>2

LEMMA AcceptStep == IInv /\ Accept => IInv'
<1> SUFFICES ASSUME IInv, Accept PROVE IInv'
  OBVIOUS
<1> USE DataPlaneLinkAssumption
<1> DEFINE b == cl.backlog
           c == Head(b)
           t == Tail(b)
           l == CloseC(link, cl.csock)
<1>1. /\ link \in [Conns -> Connection] /\ cl \in Client /\ cl.alive
      /\ b \in Seq(Conns) /\ b # <<>> /\ UNCHANGED <<dp, crash>>
      /\ cl.csock \in Conns \cup {None}
  BY DEF IInv, TypeOK, Client, Accept, Ready
<1>2. /\ Len(b) \in Nat \ {0} /\ DOMAIN b = 1 .. Len(b)
      /\ t \in Seq(Conns) /\ DOMAIN t = 1 .. Len(b) - 1
      /\ \A i \in 1 .. Len(b) - 1 : t[i] = b[i + 1] /\ t[i] \in Conns
      /\ c = b[1] /\ c \in Conns
  BY <1>1, HeadTailProperties, LenProperties, EmptySeq
<1>3. /\ link[c].cEnd = "queued"
      /\ \A i \in DOMAIN t : link[t[i]].cEnd = "queued" /\ t[i] # c
      /\ \A i, j \in DOMAIN t : t[i] = t[j] => i = j
  <2>1. \A i \in DOMAIN t : /\ t[i] = b[i + 1] /\ i + 1 \in DOMAIN b
                            /\ 1 \in DOMAIN b /\ i + 1 # 1
    BY <1>2
  <2>2. \A i, j \in DOMAIN t : i + 1 = j + 1 => i = j
    BY <1>2
  <2>3. 1 \in DOMAIN b /\ c = b[1]
    BY <1>2
  <2> HIDE DEF t, c
  <2>. QED  BY <2>1, <2>2, <2>3 DEF IInv, Queue
<1>4. /\ link' = [l EXCEPT ![c].cEnd = "open"]
      /\ cl' = [cl EXCEPT !.csock = c, !.watched = (cl.watched \ {cl.csock}) \cup {c},
                          !.backlog = t]
  BY DEF Accept, Kept
<1>5. /\ l \in [Conns -> Connection]
      /\ \A e \in Conns : l[e].toC = link[e].toC /\ l[e].toD = link[e].toD
      /\ cl.csock # None => l[cl.csock].cEnd = "closed"
      /\ \A e \in Conns \ {cl.csock} : l[e] = link[e]
  BY <1>1, ClosedC
<1> HIDE DEF l, t, c
<1>6. /\ link' \in [Conns -> Connection]
      /\ \A e \in Conns : link'[e].toC = link[e].toC /\ link'[e].toD = link[e].toD
      /\ link'[c].cEnd = "open"
      /\ \A e \in Conns \ {c} : link'[e] = l[e]
  <2>1. c \in Conns /\ link' = [l EXCEPT ![c].cEnd = "open"] /\ l \in [Conns -> Connection]
    BY <1>2, <1>4, <1>5
  <2>2. /\ link' \in [Conns -> Connection]
        /\ \A e \in Conns : link'[e].toC = l[e].toC /\ link'[e].toD = l[e].toD
        /\ link'[c].cEnd = "open"
        /\ \A e \in Conns \ {c} : link'[e] = l[e]
    BY <2>1 DEF Connection
  <2>. QED  BY <1>5, <2>2
<1>7. /\ cl' \in Client /\ cl'.csock = c /\ cl'.backlog = t
      /\ cl'.watched = (cl.watched \ {cl.csock}) \cup {c}
      /\ cl'.alive /\ cl'.reps = cl.reps /\ cl'.more = cl.more /\ SamePolicy
  BY <1>1, <1>2, <1>4 DEF Client, SamePolicy
<1>8. TypeOK'
  BY <1>1, <1>6, <1>7 DEF IInv, TypeOK
<1>9. \A e \in Conns : link[e].cEnd = "open" <=> e = cl.csock
  BY DEF IInv, SingleConnection, Conns, None
<1>10. Queue'
  <2>1. \A i \in DOMAIN t : t[i] \in Conns \ {c} /\ t[i] # cl.csock
    BY <1>2, <1>3, <1>9
  <2>2. \A i \in DOMAIN t : link'[t[i]].cEnd = "queued"
    BY <1>3, <1>5, <1>6, <2>1
  <2>. QED  BY <1>3, <1>7, <2>2 DEF Queue
<1>11. Stopped' /\ SingleConnection'
  <2>1. \A e \in Conns : link'[e].cEnd = "open" <=> e = c
    <3>1. ASSUME NEW e \in Conns, e # c PROVE link'[e].cEnd # "open"
      <4>1. CASE e = cl.csock
        BY <1>5, <1>6, <3>1, <4>1 DEF Conns, None
      <4>2. CASE e # cl.csock
        BY <1>5, <1>6, <1>9, <3>1, <4>2
      <4>. QED  BY <4>1, <4>2
    <3>. QED  BY <1>6, <3>1
  <2>2. c # None
    BY <1>2 DEF Conns, None
  <2>. QED  BY <1>2, <1>7, <2>1, <2>2 DEF IInv, Stopped, SingleConnection
<1>12. OnePlace' /\ AllOwed'
  BY <1>1, <1>6, <1>7, FewerFacts, TagsStep, SameOwed, AppAlone DEF IInv, Quieter
<1>. QED  BY <1>1, <1>7, <1>8, <1>10, <1>11, <1>12, PolicyFrame, AppAlone, ClientStep

LEMMA AcceptFailsStep == IInv /\ AcceptFails => IInv'
<1> SUFFICES ASSUME IInv, AcceptFails PROVE IInv'
  OBVIOUS
<1> USE DataPlaneLinkAssumption
<1>1. /\ link \in [Conns -> Connection] /\ cl \in Client /\ cl.alive
      /\ cl.backlog \in Seq(Conns) /\ UNCHANGED <<dp, crash>>
      /\ cl.csock \in Conns \cup {None}
  BY DEF IInv, TypeOK, Client, AcceptFails, Ready
<1>2. /\ link' \in [Conns -> Connection]
      /\ \A e \in Conns : link'[e].toC = link[e].toC /\ link'[e].toD = link[e].toD
      /\ cl.csock # None => link'[cl.csock].cEnd = "closed"
      /\ \A e \in Conns \ {cl.csock} : link'[e] = link[e]
  BY <1>1, ClosedC DEF AcceptFails
<1>3. /\ cl' \in Client /\ cl'.csock = None /\ cl'.backlog = cl.backlog
      /\ cl'.watched = cl.watched \ {cl.csock}
      /\ cl'.alive /\ cl'.reps = cl.reps /\ cl'.more = cl.more /\ SamePolicy
  BY <1>1 DEF AcceptFails, Kept, Client, SamePolicy
<1>4. TypeOK'
  BY <1>1, <1>2, <1>3 DEF IInv, TypeOK
<1>5. \A e \in Conns : link[e].cEnd = "open" <=> e = cl.csock
  BY DEF IInv, SingleConnection, Conns, None
<1>6. Queue'
  <2>1. \A i \in DOMAIN cl.backlog : cl.backlog[i] \in Conns
    BY <1>1
  <2>. QED  BY <1>2, <1>3, <1>5, <2>1 DEF IInv, Queue
<1>7. Stopped' /\ SingleConnection'
  BY <1>1, <1>2, <1>3, <1>5 DEF IInv, Stopped, SingleConnection
<1>8. OnePlace' /\ AllOwed'
  BY <1>1, <1>2, <1>3, FewerFacts, TagsStep, SameOwed, AppAlone DEF IInv, Quieter
<1>. QED  BY <1>1, <1>3, <1>4, <1>6, <1>7, <1>8, PolicyFrame, AppAlone, ClientStep

\* The packets for the application on one connection are dropped.
LEMMA Emptied ==
    ASSUME NEW l \in [Conns -> Connection], NEW c \in Conns,
           NEW k, k = [l EXCEPT ![c].toD = <<>>]
    PROVE  /\ k \in [Conns -> Connection]
           /\ \A e \in Conns : /\ k[e].cEnd = l[e].cEnd /\ k[e].toC = l[e].toC
                               /\ k[e].toD \in {l[e].toD, <<>>}
<1>1. <<>> \in Seq(ToApp)
  OBVIOUS
<1> DEFINE n == [l[c] EXCEPT !.toD = <<>>]
<1>2. l[c] \in Connection
  OBVIOUS
<1>3. /\ n \in Connection /\ n.toD = <<>>
      /\ n.cEnd = l[c].cEnd /\ n.toC = l[c].toC
  BY <1>1, <1>2 DEF Connection
<1>4. k = [l EXCEPT ![c] = n]
  BY Zenon
<1> HIDE DEF n
<1>5. k \in [Conns -> Connection] /\ k[c] = n /\ \A e \in Conns \ {c} : k[e] = l[e]
  BY <1>3, <1>4
<1>. QED  BY <1>3, <1>5

\* What a write of the client does: the packet is queued, the packets of an
\* application that is gone are dropped, or the client ends.
LEMMA ClientWritten ==
    ASSUME NEW s \in Client, NEW l \in [Conns -> Connection], NEW m \in ToApp,
           ClientWrite(s, l, m)
    PROVE  \/ Gone
           \/ /\ cl' = s /\ link' \in [Conns -> Connection]
              /\ \A e \in Conns :
                     /\ link'[e].cEnd = l[e].cEnd /\ link'[e].toC = l[e].toC
                     /\ \/ link'[e].toD \in {l[e].toD, <<>>}
                        \/ e = s.csock /\ link'[e].toD = Append(l[e].toD, m)
<1>1. CASE s.csock = None
  BY <1>1 DEF ClientWrite
<1>2. CASE s.csock # None
  <2> DEFINE c == s.csock
  <2>1. c \in Conns /\ l[c].toD \in Seq(ToApp) /\ l[c].dEnd \in BOOLEAN
    BY <1>2 DEF Client, Connection
  <2>2. CASE l[c].dEnd
    <3>1. cl' = s /\ link' = [l EXCEPT ![c].toD = Append(@, m)]
      BY <1>2, <2>2 DEF ClientWrite
    <3>2. Append(l[c].toD, m) \in Seq(ToApp)
      BY <2>1
    <3> HIDE DEF c
    <3>3. link' \in [Conns -> Connection]
      BY <2>1, <3>1, <3>2 DEF Connection
    <3>4. ASSUME NEW e \in Conns
          PROVE  /\ link'[e].cEnd = l[e].cEnd /\ link'[e].toC = l[e].toC
                 /\ e # c => link'[e].toD = l[e].toD
                 /\ e = c => link'[e].toD = Append(l[e].toD, m)
      BY <2>1, <3>1 DEF Connection
    <3>. QED  BY <3>1, <3>3, <3>4 DEF c
  <2>3. CASE ~l[c].dEnd /\ l[c].toD # <<>>
    <3>1. cl' = s /\ link' = [l EXCEPT ![c].toD = <<>>]
      BY <1>2, <2>3 DEF ClientWrite
    <3>. QED  BY <2>1, <3>1, Emptied
  <2>4. CASE ~l[c].dEnd /\ l[c].toD = <<>>
    BY <1>2, <2>4 DEF ClientWrite
  <2>. QED  BY <2>1, <2>2, <2>3, <2>4
<1>. QED  BY <1>1, <1>2

\* The packets the client reads.
LEMMA ReadsFacts ==
    ASSUME IInv, NEW c \in Conns, NEW type, Reads(c, type)
    PROVE  /\ cl \in Client /\ link \in [Conns -> Connection]
           /\ link[c].toC \in Seq(ToClient) /\ link[c].toC # <<>>
           /\ Head(link[c].toC) \in ToClient /\ Head(link[c].toC).type = type
           /\ UNCHANGED <<dp, crash>>
<1>1. /\ cl \in Client /\ link \in [Conns -> Connection]
      /\ link[c].toC \in Seq(ToClient) /\ link[c].toC # <<>>
      /\ Head(link[c].toC).type = type /\ UNCHANGED <<dp, crash>>
  BY DEF IInv, TypeOK, Connection, Reads, ClientReads
<1>. QED  BY <1>1, HeadTailProperties

LEMMA PoppedQuieter ==
    ASSUME IInv, NEW c \in Conns, NEW type, Reads(c, type), link' = Popped(c)
    PROVE  link' \in [Conns -> Connection] /\ SameEnds /\ Quieter
  BY ReadsFacts, TakenC, FewerFacts DEF IInv, SameEnds, Quieter

\* Packets that leave the client as it is.
LEMMA ReadIgnoredStep ==
    ASSUME IInv, NEW c \in Conns, ReadStatistics(c) \/ ReadFeedback(c)
    PROVE  IInv'
<1>1. PICK type : Reads(c, type)
  BY DEF ReadStatistics, ReadFeedback
<1>2. link' = Popped(c) /\ cl' = cl
  BY DEF ReadStatistics, ReadFeedback
<1>3. link' \in [Conns -> Connection] /\ SameEnds /\ Quieter
  BY <1>1, <1>2, PoppedQuieter
<1>4. UNCHANGED <<dp, crash>>
  BY <1>1, ReadsFacts
<1>5. TypeOK'
  BY <1>2, <1>3, <1>4 DEF IInv, TypeOK
<1>6. OnePlace' /\ AllOwed'
  BY <1>2, <1>3, <1>4, TagsStep, SameOwed, AppAlone DEF IInv
<1>. QED  BY <1>2, <1>3, <1>4, <1>5, <1>6, ClientFrame, AppAlone, ClientStep

LEMMA ReadFailsStep == \A c \in Conns : IInv /\ ReadFails(c) => IInv'
<1> SUFFICES ASSUME NEW c \in Conns, IInv, ReadFails(c) PROVE IInv'
  OBVIOUS
<1>1. /\ cl \in Client /\ link \in [Conns -> Connection] /\ UNCHANGED <<dp, crash>>
      /\ cl' = [cl EXCEPT !.watched = cl.watched \ {c}]
      /\ link' = [link EXCEPT ![c].toD = <<>>]
  BY DEF IInv, TypeOK, ReadFails, Kept
<1>2. /\ link' \in [Conns -> Connection] /\ SameEnds
      /\ \A e \in Conns : /\ link'[e].toC = link[e].toC
                          /\ link'[e].toD \in {link[e].toD, <<>>}
  BY <1>1, Emptied DEF SameEnds
<1>3. Quieter
  BY <1>2, FewerFacts DEF Quieter
<1>4. /\ cl' \in Client /\ cl'.watched \subseteq cl.watched
      /\ cl'.csock = cl.csock /\ cl'.backlog = cl.backlog
      /\ cl'.alive = cl.alive /\ cl'.reps = cl.reps /\ cl'.more = cl.more
      /\ SamePolicy
  BY <1>1 DEF Client, SamePolicy
<1>5. TypeOK'
  BY <1>1, <1>2, <1>4 DEF IInv, TypeOK
<1>6. Queue'
  <2>1. \A i \in DOMAIN cl.backlog : cl.backlog[i] \in Conns
    BY DEF IInv, TypeOK, Client
  <2>. QED  BY <1>2, <1>4, <2>1 DEF IInv, Queue, SameEnds
<1>7. Stopped' /\ SingleConnection'
  BY <1>2, <1>4 DEF IInv, Stopped, SingleConnection, SameEnds
<1>8. OnePlace' /\ AllOwed'
  BY <1>1, <1>3, <1>4, TagsStep, SameOwed, AppAlone DEF IInv
<1>. QED  BY <1>1, <1>4, <1>5, <1>6, <1>7, <1>8, PolicyFrame, AppAlone, ClientStep

LEMMA ReadGetIdentityStep == \A c \in Conns : IInv /\ ReadGetIdentity(c) => IInv'
<1> SUFFICES ASSUME NEW c \in Conns, IInv, ReadGetIdentity(c) PROVE IInv'
  OBVIOUS
<1> DEFINE m == [type |-> "identity", val |-> NoTag]
           l == Popped(c)
<1>1. Reads(c, "get_identity") /\ ClientWrite(cl, l, m)
  BY DEF ReadGetIdentity
<1>2. m \in ToApp /\ m.type # "rep"
  BY DEF ToApp
<1>3. /\ cl \in Client /\ UNCHANGED <<dp, crash>>
      /\ l \in [Conns -> Connection]
      /\ \A e \in Conns : /\ l[e].cEnd = link[e].cEnd /\ l[e].toD = link[e].toD
                          /\ Fewer(link[e].toC, l[e].toC)
                          /\ link[e].toD \in Seq(ToApp)
  BY <1>1, ReadsFacts, TakenC DEF IInv, TypeOK, Connection
<1>4. CASE Gone
  BY <1>3, <1>4, GoneAlone DEF IInv, TypeOK
<1>5. CASE /\ cl' = cl /\ link' \in [Conns -> Connection]
           /\ \A e \in Conns :
                  /\ link'[e].cEnd = l[e].cEnd /\ link'[e].toC = l[e].toC
                  /\ \/ link'[e].toD \in {l[e].toD, <<>>}
                     \/ e = cl.csock /\ link'[e].toD = Append(l[e].toD, m)
  <2> HIDE DEF m, l
  <2>1. \A e \in Conns : Fewer(link[e].toD, Append(link[e].toD, m))
    BY <1>2, <1>3, TagsAppend DEF Fewer
  <2>2. SameEnds /\ Quieter
    BY <1>3, <1>5, <2>1, FewerFacts DEF SameEnds, Quieter
  <2>3. TypeOK'
    BY <1>3, <1>5 DEF IInv, TypeOK
  <2>4. OnePlace' /\ AllOwed'
    BY <1>3, <1>5, <2>2, TagsStep, SameOwed, AppAlone DEF IInv
  <2>. QED  BY <1>3, <1>5, <2>2, <2>3, <2>4, ClientFrame, AppAlone, ClientStep
<1>. QED
  <2> HIDE DEF m, l
  <2>. QED  BY <1>1, <1>2, <1>3, <1>4, <1>5, ClientWritten

\* A request goes from its connection to the gateway.
LEMMA ReadRequestStep == \A c \in Conns : IInv /\ ReadRequest(c) => IInv'
<1> SUFFICES ASSUME NEW c \in Conns, IInv, ReadRequest(c) PROVE IInv'
  OBVIOUS
<1> DEFINE t == Head(link[c].toC).val
<1>1. Reads(c, "rep") /\ link' = Popped(c)
  BY DEF ReadRequest
<1>2. /\ cl \in Client /\ UNCHANGED <<dp, crash>>
      /\ link[c].toC \in Seq(ToClient) /\ link[c].toC # <<>>
      /\ Head(link[c].toC).type = "rep" /\ t \in Tags
  BY <1>1, ReadsFacts DEF ToClient
<1>3. /\ link' \in [Conns -> Connection] /\ SameEnds /\ Quieter
      /\ link'[c].toC = Tail(link[c].toC) /\ link'[c].toD = link[c].toD
      /\ \A e \in Conns \ {c} : link'[e] = link[e]
  BY <1>1, <1>2, PoppedQuieter, TakenC DEF IInv
<1>4. t \in TagsIn(link[c].toC) /\ t \notin TagsIn(link'[c].toC)
  BY <1>2, <1>3, TagsTail DEF IInv, OnePlace
<1>5. cl' = cl \/ cl' = [cl EXCEPT !.reps = @ \cup {t}]
  BY DEF ReadRequest
<1> HIDE DEF t
<1>6. /\ cl' \in Client /\ SameSockets /\ SamePolicy
      /\ cl.reps \subseteq cl'.reps /\ cl'.reps \subseteq cl.reps \cup {t}
      /\ cl'.more = cl.more
  BY <1>2, <1>5 DEF Client, SameSockets, SamePolicy
<1>7. \A e \in Conns : /\ t \notin TagsIn(link'[e].toC)
                       /\ t \in TagsIn(link'[e].toD) => t \in dp.again
  BY <1>3, <1>4 DEF IInv, OnePlace
<1>8. OnePlace'
  <2>1. \A e \in Conns : /\ TagsIn(link'[e].toC) \subseteq TagsIn(link[e].toC)
                         /\ TagsIn(link'[e].toD) \subseteq TagsIn(link[e].toD)
                         /\ Once(link'[e].toC, {}) /\ Once(link'[e].toD, dp.again)
    BY <1>3 DEF IInv, OnePlace, Quieter, Fewer
  <2>2. \A e \in Conns : /\ TagsIn(link'[e].toC) \cap cl'.reps = {}
                         /\ TagsIn(link'[e].toD) \cap cl'.reps \subseteq dp.again
    BY <1>6, <1>7, <2>1 DEF IInv, OnePlace
  <2>. QED  BY <1>2, <2>1, <2>2 DEF IInv, OnePlace
<1>9. AllOwed'
  BY <1>2, <1>3, <1>4, <1>6, SameOwed, AppAlone DEF IInv, AllOwed, Quieter, Fewer
<1>10. TypeOK'
  BY <1>2, <1>3, <1>6 DEF IInv, TypeOK
<1>. QED
  BY <1>2, <1>3, <1>6, <1>8, <1>9, <1>10, SocketFrame, PolicyFrame, AppAlone, ClientStep

\* A reputation goes to the connection of the moment, where it is the only one
\* with its tag or one of several, or the client ends of it.
LEMMA ReputationWritten ==
    ASSUME IInv, NEW s \in Client, NEW t \in OwedNow \cap Tags,
           ClientWrite(s, link, Reputation(t)),
           s.csock = cl.csock, s.watched = cl.watched, s.backlog = cl.backlog,
           s.alive = cl.alive,
           s.active = cl.active, s.pol = cl.pol, s.dropped = cl.dropped,
           s.polReqs = cl.polReqs, s.polAlarms = cl.polAlarms,
           s.confirmed = cl.confirmed,
           s.reps \subseteq cl.reps, s.more \in dp'.again \cup {NoTag},
           SameApp, dp' \in App, crash' = crash,
           dp.again \subseteq dp'.again, dp'.again \subseteq OwedNow,
           \/ t \in dp'.again
           \/ t \notin s.reps /\ \A e \in Conns : t \notin TagsIn(link[e].toC)
                                              /\ t \notin TagsIn(link[e].toD)
    PROVE  IInv'
<1> DEFINE m == Reputation(t)
<1>1. m \in ToApp /\ m.type = "rep" /\ m.val = t
  BY DEF ToApp, Reputation
<1>2. link \in [Conns -> Connection] /\ crash' \in 0 .. MaxCrash
  BY DEF IInv, TypeOK
<1>3. ClientWrite(s, link, m)
  OBVIOUS
<1> HIDE DEF m
<1>4. CASE Gone
  BY <1>2, <1>4, GoneStep
<1>5. CASE /\ cl' = s /\ link' \in [Conns -> Connection]
           /\ \A e \in Conns :
                  /\ link'[e].cEnd = link[e].cEnd /\ link'[e].toC = link[e].toC
                  /\ \/ link'[e].toD \in {link[e].toD, <<>>}
                     \/ e = s.csock /\ link'[e].toD = Append(link[e].toD, m)
  <2>1. SameEnds /\ SameSockets /\ SamePolicy
    BY <1>5 DEF SameEnds, SameSockets, SamePolicy
  <2>2. ASSUME NEW e \in Conns
        PROVE  /\ Once(link'[e].toD, dp'.again)
               /\ e # s.csock => TagsIn(link'[e].toD) \subseteq TagsIn(link[e].toD)
               /\ TagsIn(link'[e].toD) \subseteq TagsIn(link[e].toD) \cup {t}
    <3>1. /\ Once(link[e].toD, dp'.again) /\ link[e].toD \in Seq(ToApp)
          /\ t \notin dp'.again => t \notin TagsIn(link[e].toD)
      <4>1. Once(link[e].toD, dp.again)
        BY DEF IInv, OnePlace
      <4>2. Once(link[e].toD, dp'.again)
        BY <4>1, OnceMore
      <4>. QED  BY <1>2, <4>2 DEF Connection
    <3>2. CASE link'[e].toD \in {link[e].toD, <<>>}
      BY <3>1, <3>2, TagsEmpty
    <3>3. CASE e = s.csock /\ link'[e].toD = Append(link[e].toD, m)
      BY <1>1, <3>1, <3>3, TagsAppend
    <3>. QED  BY <1>5, <3>2, <3>3
  <2>3. OnePlace'
    <3>1. \A e \in Conns : /\ Once(link'[e].toC, {})
                           /\ TagsIn(link'[e].toC) = TagsIn(link[e].toC)
      BY <1>5 DEF IInv, OnePlace
    <3>2. \A e \in Conns : /\ TagsIn(link'[e].toC) \cap cl'.reps = {}
                           /\ TagsIn(link'[e].toD) \cap cl'.reps \subseteq dp'.again
      <4>1. \A e \in Conns : /\ TagsIn(link[e].toC) \cap cl.reps = {}
                             /\ TagsIn(link[e].toD) \cap cl.reps \subseteq dp.again
        BY DEF IInv, OnePlace
      <4>2. cl'.reps \subseteq cl.reps /\ (t \in dp'.again \/ t \notin cl'.reps)
        BY <1>5
      <4>3. \A e \in Conns : TagsIn(link'[e].toD) \subseteq TagsIn(link[e].toD) \cup {t}
        BY <2>2
      <4>. QED  BY <3>1, <4>1, <4>2, <4>3
    <3>3. \A c, e \in Conns :
              TagsIn(link'[c].toC) \cap TagsIn(link'[e].toD) \subseteq dp'.again
      BY <2>2, <3>1 DEF IInv, OnePlace
    <3>4. ASSUME NEW c \in Conns, NEW e \in Conns, c # e
          PROVE  /\ TagsIn(link'[c].toC) \cap TagsIn(link'[e].toC) = {}
                 /\ TagsIn(link'[c].toD) \cap TagsIn(link'[e].toD) \subseteq dp'.again
      <4>1. /\ TagsIn(link[c].toC) \cap TagsIn(link[e].toC) = {}
            /\ TagsIn(link[c].toD) \cap TagsIn(link[e].toD) \subseteq dp.again
        BY <3>4 DEF IInv, OnePlace
      <4>2. c # s.csock \/ e # s.csock
        BY <3>4
      <4>. QED  BY <2>2, <3>1, <4>1, <4>2
    <3>. QED  BY <2>2, <3>1, <3>2, <3>3, <3>4 DEF OnePlace
  <2>4. AllOwed'
    BY <1>5, <2>2, SameOwed DEF IInv, AllOwed
  <2>5. TypeOK'
    BY <1>2, <1>5 DEF IInv, TypeOK
  <2>. QED  BY <2>1, <2>3, <2>4, <2>5, SocketFrame, PolicyFrame, ClientStep
<1>. QED
  BY <1>1, <1>2, <1>3, <1>4, <1>5, ClientWritten

\* An answer goes from the gateway to the connection of the moment.
LEMMA ReputationCallbackStep == \A t \in Tags : IInv /\ ReputationCallback(t) => IInv'
<1> SUFFICES ASSUME NEW t \in Tags, IInv, ReputationCallback(t) PROVE IInv'
  OBVIOUS
<1> DEFINE s == AfterReply(t)
           n == [s EXCEPT !.more = t]
<1>1. /\ cl \in Client /\ link \in [Conns -> Connection] /\ dp \in App
      /\ crash' = crash /\ t \in cl.reps
      /\ \/ ClientWrite(s, link, Reputation(t)) /\ UNCHANGED dp
         \/ cl' = s /\ UNCHANGED <<link, dp>>
         \/ /\ ClientWrite(n, link, Reputation(t))
            /\ dp' = [dp EXCEPT !.again = @ \cup {t}]
  BY DEF IInv, TypeOK, ReputationCallback
<1>2. /\ t \in OwedNow /\ dp.again \subseteq OwedNow
      /\ cl.more \in dp.again \cup {NoTag}
      /\ \A e \in Conns : /\ t \notin TagsIn(link[e].toC)
                          /\ t \in TagsIn(link[e].toD) => t \in dp.again
  BY <1>1 DEF IInv, OnePlace, AllOwed
<1>3. /\ s \in Client /\ s.reps = cl.reps \ {t} /\ s.more = cl.more
      /\ s.csock = cl.csock /\ s.watched = cl.watched
      /\ s.backlog = cl.backlog /\ s.alive = cl.alive
      /\ s.active = cl.active /\ s.pol = cl.pol /\ s.dropped = cl.dropped
      /\ s.polReqs = cl.polReqs /\ s.polAlarms = cl.polAlarms
      /\ s.confirmed = cl.confirmed
  BY <1>1 DEF AfterReply, Client
<1> HIDE DEF s
<1>4. CASE ClientWrite(s, link, Reputation(t)) /\ UNCHANGED dp
  BY <1>1, <1>2, <1>3, <1>4, AppAlone, ReputationWritten
<1>5. CASE cl' = s /\ UNCHANGED <<link, dp>>
  <2>1. link' \in [Conns -> Connection] /\ SameEnds /\ Quieter
    BY <1>1, <1>5, FewerFacts DEF SameEnds, Quieter
  <2>2. SameSockets /\ SamePolicy
    BY <1>3, <1>5 DEF SameSockets, SamePolicy
  <2>3. TypeOK'
    BY <1>1, <1>3, <1>5 DEF IInv, TypeOK
  <2>4. OnePlace' /\ AllOwed'
    BY <1>3, <1>5, <2>1, TagsStep, SameOwed, AppAlone DEF IInv
  <2>. QED
    BY <1>5, <2>1, <2>2, <2>3, <2>4, SocketFrame, PolicyFrame, AppAlone, ClientStep
<1>6. CASE /\ ClientWrite(n, link, Reputation(t))
           /\ dp' = [dp EXCEPT !.again = @ \cup {t}]
  <2>1. SameApp /\ dp' \in App /\ dp'.again = dp.again \cup {t}
    BY <1>1, <1>6 DEF SameApp, App
  <2>2. /\ n \in Client /\ n.reps = cl.reps \ {t} /\ n.more = t
        /\ n.csock = cl.csock /\ n.watched = cl.watched
        /\ n.backlog = cl.backlog /\ n.alive = cl.alive
        /\ n.active = cl.active /\ n.pol = cl.pol /\ n.dropped = cl.dropped
        /\ n.polReqs = cl.polReqs /\ n.polAlarms = cl.polAlarms
        /\ n.confirmed = cl.confirmed
    BY <1>3 DEF Client
  <2> HIDE DEF n
  <2>. QED  BY <1>1, <1>2, <1>6, <2>1, <2>2, ReputationWritten
<1>. QED  BY <1>1, <1>4, <1>5, <1>6

\* Another reputation of the same answer.
LEMMA NextReputationStep == IInv /\ NextReputation => IInv'
<1> SUFFICES ASSUME IInv, NextReputation PROVE IInv'
  OBVIOUS
<1> DEFINE s == [cl EXCEPT !.more = NoTag]
           t == cl.more
<1>1. /\ cl \in Client /\ dp \in App /\ t # NoTag
      /\ ClientWrite(s, link, Reputation(t)) /\ UNCHANGED <<dp, crash>>
  BY DEF IInv, TypeOK, NextReputation
<1>2. t \in dp.again /\ dp.again \subseteq OwedNow /\ OwedNow \subseteq Tags
  BY <1>1, OwedTags DEF IInv, AllOwed
<1>3. /\ s \in Client /\ s.reps = cl.reps /\ s.more = NoTag
      /\ s.csock = cl.csock /\ s.watched = cl.watched
      /\ s.backlog = cl.backlog /\ s.alive = cl.alive
      /\ s.active = cl.active /\ s.pol = cl.pol /\ s.dropped = cl.dropped
      /\ s.polReqs = cl.polReqs /\ s.polAlarms = cl.polAlarms
      /\ s.confirmed = cl.confirmed
  BY <1>1 DEF Client
<1> HIDE DEF s, t
<1>. QED  BY <1>1, <1>2, <1>3, AppAlone, ReputationWritten

\* A step that changes only what the client knows of policies.
LEMMA PolicyStep ==
    ASSUME IInv, UNCHANGED <<dp, crash>>, link' \in [Conns -> Connection],
           SameEnds, Quieter, cl' \in Client, SameSockets,
           cl'.reps = cl.reps, cl'.more = cl.more,
           HasPolicy', PolicyNotForgotten'
    PROVE  IInv'
<1>1. TypeOK'
  BY DEF IInv, TypeOK
<1>2. OnePlace' /\ AllOwed'
  BY TagsStep, SameOwed, AppAlone DEF IInv
<1>. QED  BY <1>1, <1>2, SocketFrame, AppAlone, ClientStep

\* send_policy_command leaves a request under way, or has been refused.
LEMMA SentPolicy ==
    ASSUME NEW s \in Client, s.active = 1 => s.pol # 0,
           cl' \in send_policy_command(s)
    PROVE  /\ cl' \in Client /\ HasPolicy' /\ PolicyNotForgotten'
           /\ cl'.csock = s.csock /\ cl'.watched = s.watched
           /\ cl'.backlog = s.backlog /\ cl'.alive = s.alive
           /\ cl'.reps = s.reps /\ cl'.more = s.more
<1>1. CASE s.active = 0
  BY <1>1 DEF send_policy_command, HasPolicy, PolicyNotForgotten
<1>2. CASE s.active # 0
  <2>1. s.active = 1 /\ s.pol \in Procs /\ s.polReqs[s.pol] \in Nat
    BY <1>2 DEF Client
  <2>2. CASE cl' = [s EXCEPT !.polReqs[s.pol] = @ + 1]
    <3> DEFINE r == [s.polReqs EXCEPT ![s.pol] = @ + 1]
    <3>1. cl' = [s EXCEPT !.polReqs = r]
      BY <2>2
    <3>2. s.polReqs \in [Procs -> Nat]
      BY DEF Client
    <3>3. r \in [Procs -> Nat] /\ r[s.pol] > 0
      BY <2>1, <3>2
    <3> HIDE DEF r
    <3>. QED  BY <2>1, <3>1, <3>3 DEF Client, HasPolicy, PolicyNotForgotten
  <2>3. CASE cl' = [s EXCEPT !.dropped = TRUE]
    BY <2>1, <2>3 DEF Client, HasPolicy, PolicyNotForgotten
  <2>. QED  BY <1>2, <2>2, <2>3 DEF send_policy_command, Refused
<1>. QED  BY <1>1, <1>2

LEMMA ReadPolicyStep == \A c \in Conns : IInv /\ ReadPolicy(c) => IInv'
<1> SUFFICES ASSUME NEW c \in Conns, IInv, ReadPolicy(c) PROVE IInv'
  OBVIOUS
<1> DEFINE v == Head(link[c].toC).val
           s == [cl EXCEPT !.active = 1, !.pol = v]
<1>1. Reads(c, "policy") /\ link' = Popped(c) /\ cl' \in send_policy_command(s)
  BY DEF ReadPolicy
<1>2. cl \in Client /\ UNCHANGED <<dp, crash>> /\ v \in Procs
  BY <1>1, ReadsFacts DEF ToClient
<1>3. link' \in [Conns -> Connection] /\ SameEnds /\ Quieter
  BY <1>1, PoppedQuieter
<1> HIDE DEF v
<1>4. /\ s \in Client /\ s.active = 1 /\ s.pol = v /\ v # 0
      /\ s.csock = cl.csock /\ s.watched = cl.watched
      /\ s.backlog = cl.backlog /\ s.alive = cl.alive
      /\ s.reps = cl.reps /\ s.more = cl.more
  <2>1. v # 0
    BY <1>2, DataPlaneLinkAssumption DEF Procs
  <2>. QED  BY <1>2, <2>1 DEF Client
<1> HIDE DEF s
<1>5. /\ cl' \in Client /\ HasPolicy' /\ PolicyNotForgotten'
      /\ SameSockets /\ cl'.reps = cl.reps /\ cl'.more = cl.more
  BY <1>1, <1>4, SentPolicy DEF SameSockets
<1>. QED  BY <1>2, <1>3, <1>5, PolicyStep

LEMMA PolicyAlarmStep == IInv /\ PolicyAlarmCallback => IInv'
<1> SUFFICES ASSUME IInv, PolicyAlarmCallback PROVE IInv'
  OBVIOUS
<1> DEFINE s == [cl EXCEPT !.polAlarms = @ - 1]
<1>1. /\ cl' \in send_policy_command(s) /\ UNCHANGED <<link, dp, crash>>
      /\ cl \in Client /\ cl.polAlarms - 1 \in Nat
      /\ link' \in [Conns -> Connection] /\ SameEnds /\ Quieter
  BY FewerFacts
  DEF PolicyAlarmCallback, IInv, TypeOK, Client, SameEnds, Quieter
<1>2. /\ s \in Client /\ s.active = cl.active /\ s.pol = cl.pol
      /\ s.csock = cl.csock /\ s.watched = cl.watched
      /\ s.backlog = cl.backlog /\ s.alive = cl.alive
      /\ s.reps = cl.reps /\ s.more = cl.more
  BY <1>1 DEF Client
<1> HIDE DEF s
<1>3. /\ cl' \in Client /\ HasPolicy' /\ PolicyNotForgotten'
      /\ SameSockets /\ cl'.reps = cl.reps /\ cl'.more = cl.more
  BY <1>1, <1>2, SentPolicy DEF IInv, HasPolicy, SameSockets
<1>. QED  BY <1>1, <1>3, PolicyStep

LEMMA RegCallbackStep == IInv /\ RegCallback => IInv'
<1> SUFFICES ASSUME IInv, RegCallback PROVE IInv'
  OBVIOUS
<1> DEFINE s == [cl EXCEPT !.confirmed = {}]
<1>1. /\ cl' \in send_policy_command(s) /\ UNCHANGED <<link, dp, crash>>
      /\ cl \in Client
      /\ link' \in [Conns -> Connection] /\ SameEnds /\ Quieter
  BY FewerFacts DEF RegCallback, IInv, TypeOK, SameEnds, Quieter
<1>2. /\ s \in Client /\ s.active = cl.active /\ s.pol = cl.pol
      /\ s.csock = cl.csock /\ s.watched = cl.watched
      /\ s.backlog = cl.backlog /\ s.alive = cl.alive
      /\ s.reps = cl.reps /\ s.more = cl.more
  BY <1>1 DEF Client
<1> HIDE DEF s
<1>3. /\ cl' \in Client /\ HasPolicy' /\ PolicyNotForgotten'
      /\ SameSockets /\ cl'.reps = cl.reps /\ cl'.more = cl.more
  BY <1>1, <1>2, SentPolicy DEF IInv, HasPolicy, SameSockets
<1>. QED  BY <1>1, <1>3, PolicyStep

\* The answer to a policy request: confirmed, to be sent again, or refused.
LEMMA PolicyCallbackStep ==
    \A v \in Procs : IInv /\ (PolicyCallbackOk(v) \/ PolicyCallbackError(v)) => IInv'
<1> SUFFICES ASSUME NEW v \in Procs, IInv,
                    PolicyCallbackOk(v) \/ PolicyCallbackError(v)
             PROVE  IInv'
  OBVIOUS
<1> DEFINE r == [cl.polReqs EXCEPT ![v] = @ - 1]
           o == Over(v)
<1>1. /\ cl \in Client /\ UNCHANGED <<link, dp, crash>> /\ cl.polReqs[v] > 0
      /\ link' \in [Conns -> Connection] /\ SameEnds /\ Quieter
  BY FewerFacts
  DEF PolicyCallbackOk, PolicyCallbackError, IInv, TypeOK, SameEnds, Quieter
<1>2. r \in [Procs -> Nat] /\ \A w \in Procs \ {v} : r[w] = cl.polReqs[w]
  BY <1>1 DEF Client
<1>3. o = [cl EXCEPT !.polReqs = r]
  BY DEF Over
<1> HIDE DEF r
<1>4. /\ o \in Client /\ o.polReqs = r /\ o.polAlarms = cl.polAlarms
      /\ o.csock = cl.csock /\ o.watched = cl.watched /\ o.backlog = cl.backlog
      /\ o.alive = cl.alive /\ o.reps = cl.reps /\ o.more = cl.more
      /\ o.active = cl.active
      /\ o.pol = cl.pol /\ o.dropped = cl.dropped /\ o.confirmed = cl.confirmed
  BY <1>1, <1>2, <1>3 DEF Client
<1>5. \/ cl' = [o EXCEPT !.confirmed = @ \cup {v}]
      \/ cl' = [o EXCEPT !.polAlarms = @ + 1]
      \/ cl' = [o EXCEPT !.dropped = TRUE]
  BY DEF PolicyCallbackOk, PolicyCallbackError, Retry, Refused
<1> HIDE DEF o
<1>6. CASE cl' = [o EXCEPT !.confirmed = @ \cup {v}]
  <2>1. /\ cl' \in Client /\ SameSockets /\ cl'.reps = cl.reps /\ cl'.more = cl.more
        /\ cl'.active = cl.active /\ cl'.pol = cl.pol /\ cl'.dropped = cl.dropped
        /\ cl'.polReqs = r /\ cl'.polAlarms = cl.polAlarms
        /\ cl'.confirmed = cl.confirmed \cup {v}
    BY <1>4, <1>6 DEF Client, SameSockets
  <2>2. HasPolicy'
    BY <2>1 DEF IInv, HasPolicy
  <2>3. cl.active = 1 => cl.pol \in Procs
    BY <1>1 DEF IInv, HasPolicy, Client
  <2>4. PolicyNotForgotten'
    BY <1>2, <2>1, <2>3 DEF IInv, PolicyNotForgotten
  <2>. QED  BY <1>1, <2>1, <2>2, <2>4, PolicyStep
<1>7. CASE cl' = [o EXCEPT !.polAlarms = @ + 1]
  <2>1. o.polAlarms + 1 \in Nat /\ o.polAlarms + 1 > 0
    BY <1>4 DEF Client
  <2>2. /\ cl' \in Client /\ SameSockets /\ cl'.reps = cl.reps /\ cl'.more = cl.more
        /\ cl'.active = cl.active /\ cl'.pol = cl.pol /\ cl'.polAlarms > 0
    BY <1>4, <1>7, <2>1 DEF Client, SameSockets
  <2>3. HasPolicy' /\ PolicyNotForgotten'
    BY <2>2 DEF IInv, HasPolicy, PolicyNotForgotten
  <2>. QED  BY <1>1, <2>2, <2>3, PolicyStep
<1>8. CASE cl' = [o EXCEPT !.dropped = TRUE]
  <2>1. /\ cl' \in Client /\ SameSockets /\ cl'.reps = cl.reps /\ cl'.more = cl.more
        /\ cl'.active = cl.active /\ cl'.pol = cl.pol /\ cl'.dropped
    BY <1>4, <1>8 DEF Client, SameSockets
  <2>2. HasPolicy' /\ PolicyNotForgotten'
    BY <2>1 DEF IInv, HasPolicy, PolicyNotForgotten
  <2>. QED  BY <1>1, <2>1, <2>2, PolicyStep
<1>. QED  BY <1>5, <1>6, <1>7, <1>8

LEMMA IInvStep == IInv /\ [Next]_vars => IInv'
<1> SUFFICES ASSUME IInv, [Next]_vars PROVE IInv'
  OBVIOUS
<1>1. CASE DpStart \/ DpDies
  BY <1>1, StartStep, EndStep DEF DpDies
<1>2. CASE Application
  BY <1>2, ConnectStep, WritePolicyStep, WriteGetIdentityStep, ReadIdentityStep,
     ReadIdentityFailsStep, WriteStatisticsStep, WakeStep DEF Application
<1>3. CASE Query
  BY <1>3, WriteFeedbackStep, WriteRequestStep, BeginReadStep, ReadReplyStep,
     ReadReplyFailsStep DEF Query
<1>4. CASE Accept \/ AcceptFails
  BY <1>4, AcceptStep, AcceptFailsStep
<1>5. ASSUME NEW c \in Conns, ReadCallback(c) PROVE IInv'
  BY <1>5, ReadPolicyStep, ReadRequestStep, ReadGetIdentityStep, ReadIgnoredStep,
     ReadFailsStep DEF ReadCallback
<1>6. CASE (\E t \in Tags : ReputationCallback(t)) \/ NextReputation
  BY <1>6, ReputationCallbackStep, NextReputationStep
<1>7. CASE \E v \in Procs : PolicyCallbackOk(v) \/ PolicyCallbackError(v)
  BY <1>7, PolicyCallbackStep
<1>8. CASE PolicyAlarmCallback \/ RegCallback \/ Crash \/ Restart
  BY <1>8, PolicyAlarmStep, RegCallbackStep, CrashStep, RestartStep
<1>9. CASE UNCHANGED vars
  BY <1>9
  DEF vars, IInv, TypeOK, AppSteps, Queue, Stopped, SingleConnection, HasPolicy,
      PolicyNotForgotten, OnePlace, AllOwed, Asked, FirstAsksFirst,
      FirstGetsIdentity, OwedNow, Tag
<1>. QED
  BY <1>1, <1>2, <1>3, <1>4, <1>5, <1>6, <1>7, <1>8, <1>9 DEF Next

-----------------------------------------------------------------------------
\* atlas_data_plane_connector.c and atlas_client.c: the inductive invariant
\* holds in every state of the two processes, whatever each of them, its
\* crashes and the gateway do in between.
THEOREM LinkInductive == Spec => []IInv
<1>1. Init => IInv
  BY InitIInv
<1>2. IInv /\ [Next]_vars => IInv'
  BY IInvStep
<1>. QED  BY <1>1, <1>2, PTL DEF Spec

\* atlas_data_plane_accept_cb: the client has at most one connection open and
\* reads no other, for any number of connections.
THEOREM AlwaysSingleConnection == Spec => []SingleConnection
<1>1. IInv => SingleConnection
  BY DEF IInv
<1>. QED  BY <1>1, LinkInductive, PTL

\* policy_callback, policy_alarm_callback, reg_callback: the policy the client
\* holds is confirmed, on its way or about to be sent again, whatever the
\* gateway answers, unless a request or an alarm was refused.
THEOREM AlwaysPolicyNotForgotten == Spec => []PolicyNotForgotten
<1>1. IInv => PolicyNotForgotten
  BY DEF IInv
<1>. QED  BY <1>1, LinkInductive, PTL

\* atlas_init: only a process that follows another can end up without identity.
THEOREM AlwaysFirstGetsIdentity == Spec => []FirstGetsIdentity
<1>1. IInv => FirstGetsIdentity
  BY DEF IInv
<1>. QED  BY <1>1, LinkInductive, PTL

\* Only ReadReply takes an answer, and all that is under way is owed.
LEMMA AnswerStep ==
    IInv /\ [Next]_vars
      => [dp'.ans \notin {dp.ans, NoTag} => dp'.ans \in dp.owed \cup {Tag}]_vars
<1> SUFFICES ASSUME IInv, [Next]_vars, dp'.ans \notin {dp.ans, NoTag}
             PROVE  dp'.ans \in dp.owed \cup {Tag}
  OBVIOUS
<1>1. dp \in App
  BY DEF IInv, TypeOK
<1>2. CASE ReadReply
  <2> DEFINE c == dp.rfd
             m == Head(link[c].toD)
  <2>1. /\ dp.qpc = "read" /\ c \in Conns /\ link[c].toD # <<>>
        /\ link[c].toD \in Seq(ToApp)
        /\ dp' = [GivesUp EXCEPT !.ans = m.val, !.owed = @ \ ({m.val} \ dp.again)]
    BY <1>2 DEF IInv, TypeOK, App, AppSteps, ReadReply, AppReads, Connection
  <2>2. dp'.ans = m.val
    BY <2>1, GivesUpFacts DEF App
  <2>3. m \in ToApp
    BY <2>1, HeadTailProperties
  <2>4. m.type = "rep"
    BY <2>2, <2>3 DEF ToApp
  <2>5. m.val \in TagsIn(link[c].toD)
    BY <2>1, <2>4, TagsTail
  <2> HIDE DEF m
  <2>6. m.val \in OwedNow
    BY <2>1, <2>5 DEF IInv, AllOwed
  <2>. QED  BY <2>1, <2>2, <2>6 DEF OwedNow
<1>3. CASE ~ReadReply
  <2>1. dp'.ans \in {dp.ans, NoTag}
    BY <1>1, <1>3
    DEF Next, vars, App, DpStart, DpDies, Application, Query, Connect, WritePolicy,
        WriteGetIdentity, ReadIdentity, ReadIdentityFails, WriteStatistics, Wake,
        Reconnect, AfterPolicy, Ended, WriteFeedback, WriteRequest, BeginRead,
        ReadReplyFails, GivesUp, Accept, AcceptFails, ReadCallback, ReadPolicy,
        ReadRequest, ReadGetIdentity, ReadStatistics, ReadFeedback, ReadFails, Reads,
        ReputationCallback, NextReputation, PolicyCallbackOk, PolicyCallbackError,
        PolicyAlarmCallback, RegCallback, Crash, Restart
  <2>. QED  BY <2>1
<1>. QED  BY <1>2, <1>3

\* atlas_reputation_request: an answer is to the request just made or to an
\* earlier one that has had none or that the gateway answers with several
\* reputations, and no other answer is returned twice, however reconnections and
\* restarts delay or reorder the answers.
THEOREM AlwaysAnswersOwed == Spec => AnswersOwed
<1>1. IInv /\ [Next]_vars
        => [dp'.ans \notin {dp.ans, NoTag} => dp'.ans \in dp.owed \cup {Tag}]_vars
  BY AnswerStep
<1>. QED  BY <1>1, LinkInductive, PTL DEF Spec, AnswersOwed
=============================================================================
