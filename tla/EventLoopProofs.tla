-------------------------- MODULE EventLoopProofs ---------------------------
(***************************************************************************)
(* Proofs about EventLoop for any number of descriptors, with numbers that *)
(* are closed and handed out again in the middle of a pass.                *)
(*                                                                         *)
(* The state is a record with nine fields and the handlers are operators   *)
(* on it, so the lemmas come in three layers: what adding and deleting     *)
(* does to a list, what opening and closing does to the owners, and what   *)
(* the functions of the program make of both.                              *)
(***************************************************************************)
EXTENDS EventLoop, LeastNumber, SequenceTheorems, TLAPS

LEMMA FdFacts ==
    /\ Fds \subseteq Nat /\ Server \in Fds
    /\ -1 \notin Fds /\ 0 \notin Fds
  BY EventLoopAssumption DEF Fds, Server

\* The lowest free descriptor is one.
LEMMA FreeFacts ==
    ASSUME NEW s, Free(s) # {}
    PROVE  Min(Free(s)) \in Fds \ s.open
<1>1. Free(s) = Fds \ s.open
  BY DEF Free
<1>2. Min(Free(s)) \in Free(s)
  BY <1>1, FdFacts, MinOf
<1>. QED  BY <1>1, <1>2
-----------------------------------------------------------------------------
\* What the handlers keep in the middle of a pass: before the sweep an entry of a
\* closed descriptor that is not deleted is not the first of its number.
Sane(s) ==
    /\ s \in State /\ s.ready \subseteq s.open
    /\ InStep(s) /\ Attended(s.list, s.open) /\ Shadowed(s.list, s.open)
Good(s) == Sane(s) /\ IdsKept(s)

\* What a pass does to the list: entries are appended and marked, and the first
\* one of a number stays as long as its descriptor does.
Later(l, ready, m, ready2) ==
    /\ Len(l) <= Len(m)
    /\ \A i \in 1 .. Len(l) :
           /\ m[i].fd = l[i].fd /\ m[i].cb = l[i].cb
           /\ l[i].dirty = 1 => m[i].dirty = 1
           /\ FirstOf(l, i) /\ m[i].dirty = 0 /\ l[i].fd \in ready
              => l[i].fd \in ready2

\* What atlas_sched_del_entry does to it.
Marked(l, m, fd) ==
    /\ m \in Seq(Entry) /\ Len(m) = Len(l)
    /\ \A i \in 1 .. Len(l) :
           /\ m[i].fd = l[i].fd /\ m[i].cb = l[i].cb
           /\ l[i].dirty = 1 => m[i].dirty = 1
           /\ l[i].fd # fd => m[i] = l[i]
           /\ FirstOf(l, i) /\ l[i].fd = fd => m[i].dirty = 1

LEMMA SameList ==
    ASSUME NEW l \in Seq(Entry), NEW ready, NEW ready2, ready \subseteq ready2
    PROVE  Later(l, ready, l, ready2)
  BY LenProperties DEF Later

LEMMA LaterTrans ==
    ASSUME NEW l \in Seq(Entry), NEW m \in Seq(Entry), NEW n \in Seq(Entry),
           NEW a, NEW b, NEW c, Later(l, a, m, b), Later(m, b, n, c)
    PROVE  Later(l, a, n, c)
<1>1. /\ Len(l) \in Nat /\ Len(m) \in Nat /\ Len(n) \in Nat
      /\ Len(l) <= Len(m) /\ Len(m) <= Len(n)
      /\ DOMAIN l = 1 .. Len(l) /\ DOMAIN m = 1 .. Len(m)
  BY LenProperties DEF Later
<1>2. ASSUME NEW i \in 1 .. Len(l) PROVE i \in 1 .. Len(m)
  BY <1>1
<1>3. ASSUME NEW i \in 1 .. Len(l), FirstOf(l, i) PROVE FirstOf(m, i)
  <2>1. SUFFICES ASSUME NEW j \in 1 .. Len(m), m[j].fd = m[i].fd PROVE i <= j
    BY <1>1 DEF FirstOf
  <2>2. CASE j \in 1 .. Len(l)
    BY <1>1, <1>3, <2>1, <2>2 DEF Later, FirstOf
  <2>3. CASE j \notin 1 .. Len(l)
    BY <1>1, <2>3
  <2>. QED  BY <2>2, <2>3
<1>4. ASSUME NEW i \in 1 .. Len(l)
      PROVE  /\ n[i].fd = l[i].fd /\ n[i].cb = l[i].cb
             /\ l[i].dirty = 1 => n[i].dirty = 1
  BY <1>2 DEF Later
<1>5. ASSUME NEW i \in 1 .. Len(l), FirstOf(l, i), n[i].dirty = 0, l[i].fd \in a
      PROVE  l[i].fd \in c
  <2>1. i \in 1 .. Len(m) /\ FirstOf(m, i) /\ m[i].fd = l[i].fd
    BY <1>2, <1>3, <1>5 DEF Later
  <2>2. m[i].dirty = 0
    <3>1. m[i] \in Entry
      BY <2>1, ElementOfSeq
    <3>2. m[i].dirty \in {0, 1}
      BY <3>1 DEF Entry
    <3>. QED  BY <1>5, <2>1, <3>2 DEF Later
  <2>3. l[i].fd \in b
    BY <1>5, <2>2 DEF Later
  <2>. QED  BY <1>5, <2>1, <2>3 DEF Later
<1>. QED  BY <1>1, <1>4, <1>5 DEF Later

\* Closing a descriptor and deleting its first entry.
LEMMA ListDrop ==
    ASSUME NEW l \in Seq(Entry), NEW m, NEW fd, NEW open, NEW ready,
           Marked(l, m, fd), Attended(l, open),
           Shadowed(l, open)
    PROVE  /\ Attended(m, open \ {fd})
           /\ Shadowed(m, open \ {fd})
           /\ Later(l, ready, m, ready \ {fd})
<1>1. /\ m \in Seq(Entry) /\ Len(m) = Len(l) /\ Len(l) \in Nat
      /\ DOMAIN l = 1 .. Len(l) /\ DOMAIN m = 1 .. Len(l)
  BY LenProperties DEF Marked
<1>2. \A i \in 1 .. Len(l) : l[i].dirty \in {0, 1} /\ m[i].dirty \in {0, 1}
  BY <1>1, ElementOfSeq DEF Entry
<1>3. Attended(m, open \ {fd})
  <2>1. SUFFICES ASSUME NEW x \in open \ {fd}
                 PROVE  \E i \in DOMAIN m : m[i].fd = x /\ m[i].dirty = 0
    BY DEF Attended
  <2>2. PICK i \in DOMAIN l : l[i].fd = x /\ l[i].dirty = 0
    BY DEF Attended
  <2>3. m[i] = l[i]
    BY <1>1, <2>1, <2>2 DEF Marked
  <2>. QED  BY <1>1, <2>2, <2>3
<1>4. Shadowed(m, open \ {fd})
  <2>1. SUFFICES ASSUME NEW i \in DOMAIN m, m[i].dirty = 0, FirstOf(m, i)
                 PROVE  m[i].fd \in open \ {fd}
    BY DEF Shadowed
  <2>2. i \in 1 .. Len(l) /\ m[i].fd = l[i].fd /\ l[i].dirty = 0
    BY <1>1, <1>2, <2>1 DEF Marked
  <2>3. FirstOf(l, i)
    BY <1>1, <2>1, <2>2 DEF Marked, FirstOf
  <2>4. l[i].fd \in open
    BY <1>1, <2>2, <2>3 DEF Shadowed
  <2>. QED  BY <2>1, <2>2, <2>3, <2>4 DEF Marked
<1>5. Later(l, ready, m, ready \ {fd})
  BY <1>1 DEF Later, Marked
<1>. QED  BY <1>3, <1>4, <1>5

\* Opening a descriptor and adding its entry.
LEMMA ListAdd ==
    ASSUME NEW l \in Seq(Entry), NEW e \in Entry, e.dirty = 0,
           NEW open, NEW ready, Attended(l, open),
           Shadowed(l, open)
    PROVE  /\ Append(l, e) \in Seq(Entry)
           /\ Attended(Append(l, e), open \cup {e.fd})
           /\ Shadowed(Append(l, e), open \cup {e.fd})
           /\ Later(l, ready, Append(l, e), ready)
           /\ \A i \in DOMAIN Append(l, e) :
                  (i \in DOMAIN l /\ Append(l, e)[i] = l[i]) \/ Append(l, e)[i] = e
<1>1. PICK m, n : m = Append(l, e) /\ n = Len(l)
  OBVIOUS
<1>2. /\ n \in Nat /\ DOMAIN l = 1 .. n /\ Len(m) = n + 1 /\ DOMAIN m = 1 .. n + 1
      /\ m \in Seq(Entry) /\ m[n + 1] = e /\ \A i \in 1 .. n : m[i] = l[i]
  BY <1>1, LenProperties, AppendProperties
<1>3. Attended(m, open \cup {e.fd})
  <2>1. SUFFICES ASSUME NEW x \in open \cup {e.fd}
                 PROVE  \E i \in DOMAIN m : m[i].fd = x /\ m[i].dirty = 0
    BY DEF Attended
  <2>2. CASE x = e.fd
    BY <1>2, <2>2
  <2>3. CASE x \in open
    <3>1. PICK i \in DOMAIN l : l[i].fd = x /\ l[i].dirty = 0
      BY <2>3 DEF Attended
    <3>. QED  BY <1>2, <3>1
  <2>. QED  BY <2>2, <2>3
<1>4. Shadowed(m, open \cup {e.fd})
  <2>1. SUFFICES ASSUME NEW i \in DOMAIN m, m[i].dirty = 0, FirstOf(m, i)
                 PROVE  m[i].fd \in open \cup {e.fd}
    BY DEF Shadowed
  <2>2. CASE i = n + 1
    BY <1>2, <2>2
  <2>3. CASE i \in 1 .. n
    <3>1. FirstOf(l, i)
      BY <1>2, <2>1, <2>3 DEF FirstOf
    <3>. QED  BY <1>2, <2>1, <2>3, <3>1 DEF Shadowed
  <2>. QED  BY <1>2, <2>2, <2>3
<1>5. Later(l, ready, m, ready)
  BY <1>1, <1>2 DEF Later
<1>6. \A i \in DOMAIN m : (i \in DOMAIN l /\ m[i] = l[i]) \/ m[i] = e
  BY <1>2
<1>. QED  BY <1>1, <1>2, <1>3, <1>4, <1>5, <1>6

\* The entry that atlas_sched_del_entry marks is the first one with the number.
LEMMA SchedDelFacts ==
    ASSUME NEW s \in State, NEW fd
    PROVE  \E m : Marked(s.list, m, fd) /\ SchedDel(s, fd) = [s EXCEPT !.list = m]
<1> DEFINE hits == {i \in DOMAIN s.list : s.list[i].fd = fd}
<1>1. /\ s.list \in Seq(Entry) /\ Len(s.list) \in Nat
      /\ DOMAIN s.list = 1 .. Len(s.list)
  BY LenProperties DEF State
<1>2. CASE hits = {}
  <2>1. SchedDel(s, fd) = s
    BY <1>2 DEF SchedDel
  <2>2. Marked(s.list, s.list, fd)
    BY <1>1, <1>2 DEF Marked
  <2>3. s = [s EXCEPT !.list = s.list]
    BY DEF State
  <2>. QED  BY <2>1, <2>2, <2>3
<1>3. CASE hits # {}
  <2>1. PICK k : k = Min(hits)
    OBVIOUS
  <2>2. k \in hits /\ \A i \in hits : k <= i
    <3>1. hits \subseteq Nat
      BY <1>1
    <3>2. PICK h : h = hits
      OBVIOUS
    <3>3. h \subseteq Nat /\ h # {} /\ k = Min(h)
      BY <1>3, <2>1, <3>1, <3>2
    <3>4. k \in h /\ \A i \in h : k <= i
      BY <3>3, MinOf
    <3>. QED  BY <3>2, <3>4
  <2> DEFINE l == s.list
             e == [l[k] EXCEPT !.dirty = 1]
             m == [l EXCEPT ![k] = e]
  <2>3. l[k] \in Entry /\ k \in 1 .. Len(l) /\ l[k].fd = fd
    BY <1>1, <2>2, ElementOfSeq
  <2>4. e \in Entry /\ e.fd = l[k].fd /\ e.cb = l[k].cb /\ e.dirty = 1
    BY <2>3 DEF Entry
  <2> HIDE DEF e
  <2>5. m \in Seq(Entry) /\ Len(m) = Len(l)
    BY <1>1, <2>3, <2>4, ExceptSeq
  <2>6. m[k] = e /\ \A i \in 1 .. Len(l) : i # k => m[i] = l[i]
    BY <1>1, <2>3
  <2>7. \A i \in 1 .. Len(l) : FirstOf(l, i) /\ l[i].fd = fd => i = k
    BY <1>1, <2>2, <2>3 DEF FirstOf
  <2> HIDE DEF m
  <2>8. Marked(l, m, fd)
    BY <2>3, <2>4, <2>5, <2>6, <2>7 DEF Marked
  <2>9. SchedDel(s, fd) = [s EXCEPT !.list = m]
    BY <1>3, <2>1 DEF SchedDel, m, e
  <2>. QED  BY <2>8, <2>9
<1>. QED  BY <1>2, <1>3
-----------------------------------------------------------------------------
\* The owners of descriptors.  The types that are needed.
Owners(s) == s.open \subseteq Fds /\ s.alarms \subseteq Alarm /\ s.reqs \subseteq Request

LEMMA NewTimer ==
    ASSUME NEW s, NEW t, NEW a, t.alarms = s.alarms \cup {a}
    PROVE  Timers(t) = Timers(s) \cup {a.id}
  BY DEF Timers

LEMMA NewSock ==
    ASSUME NEW s, NEW t, NEW r, t.reqs = s.reqs \cup {r}
    PROVE  Socks(t) = Socks(s) \cup {r.fd}
  BY DEF Socks

LEMMA StepAlarm ==
    ASSUME NEW s, NEW t, Owners(s), InStep(s), NEW f \in Fds, f \notin s.open,
           NEW cb \in {"register", "keepalive", "push"},
           t.open = s.open \cup {f}, t.reqs = s.reqs,
           t.alarms = s.alarms \cup {[id |-> f, cb |-> cb]}
    PROVE  Owners(t) /\ InStep(t)
<1>0. PICK a0 : a0 = [id |-> f, cb |-> cb]
  OBVIOUS
<1>1. Timers(t) = Timers(s) \cup {f} /\ Socks(t) = Socks(s)
  <2>1. a0.id = f /\ t.alarms = s.alarms \cup {a0}
    BY <1>0
  <2>. QED  BY <2>1, NewTimer DEF Socks
<1>2. f \notin Timers(s) \cup Socks(s) \cup {Server}
  BY DEF InStep
<1>3. \A a \in s.alarms : a.id # f
  BY <1>2 DEF Timers
<1>4. Owners(t)
  BY DEF Owners, Alarm
<1>. QED  BY <1>1, <1>2, <1>3, <1>4 DEF InStep

LEMMA StepRequest ==
    ASSUME NEW s, NEW t, Owners(s), InStep(s), NEW f \in Fds, NEW g \in Fds,
           f \notin s.open, g \notin s.open, f # g, NEW kind \in Kinds,
           t.open = s.open \cup {f, g},
           t.reqs = s.reqs \cup {[fd |-> f, alarm |-> g, kind |-> kind]},
           t.alarms = s.alarms \cup {[id |-> g, cb |-> "request"]}
    PROVE  Owners(t) /\ InStep(t) /\ Socks(t) = Socks(s) \cup {f} /\ f \notin Socks(s)
<1>0. PICK a0, r0 : /\ a0 = [id |-> g, cb |-> "request"]
                    /\ r0 = [fd |-> f, alarm |-> g, kind |-> kind]
  OBVIOUS
<1>1. Timers(t) = Timers(s) \cup {g} /\ Socks(t) = Socks(s) \cup {f}
  <2>1. /\ a0.id = g /\ t.alarms = s.alarms \cup {a0}
        /\ r0.fd = f /\ t.reqs = s.reqs \cup {r0}
    BY <1>0
  <2>. QED  BY <2>1, NewTimer, NewSock
<1>2. /\ f \notin Timers(s) \cup Socks(s) \cup {Server}
      /\ g \notin Timers(s) \cup Socks(s) \cup {Server}
  BY DEF InStep
<1>3. /\ \A a \in s.alarms : a.id # g
      /\ \A r \in s.reqs : r.fd # f /\ r.alarm # g
  <2>1. ASSUME NEW a \in s.alarms PROVE a.id # g
    BY <1>2 DEF Timers
  <2>2. ASSUME NEW r \in s.reqs PROVE r.fd # f /\ r.alarm # g
    <3>1. r.fd # f
      BY <1>2 DEF Socks
    <3>2. PICK a : a = [id |-> r.alarm, cb |-> "request"]
      OBVIOUS
    <3>3. a \in s.alarms /\ a.id = r.alarm
      BY <3>2 DEF InStep
    <3>. QED  BY <2>1, <3>1, <3>3
  <2>. QED  BY <2>1, <2>2
<1>4. Owners(t)
  BY DEF Owners, Alarm, Request
<1>5. /\ t.open = {Server} \cup Timers(t) \cup Socks(t)
      /\ Server \notin Timers(t) \cup Socks(t) /\ Timers(t) \cap Socks(t) = {}
  BY <1>1, <1>2 DEF InStep
<1>6. /\ \A a, b \in t.alarms : a.id = b.id => a = b
      /\ \A q, r \in t.reqs : q.fd = r.fd \/ q.alarm = r.alarm => q = r
  BY <1>3 DEF InStep
<1>7. /\ \A r \in t.reqs : [id |-> r.alarm, cb |-> "request"] \in t.alarms
      /\ \A a \in t.alarms : a.cb = "request" => \E r \in t.reqs : r.alarm = a.id
  <2>1. ASSUME NEW r \in t.reqs PROVE [id |-> r.alarm, cb |-> "request"] \in t.alarms
    <3>1. CASE r \in s.reqs
      BY <3>1 DEF InStep
    <3>2. CASE r = r0
      <4>1. r0.alarm = g
        BY <1>0
      <4>. QED  BY <3>2, <4>1
    <3>. QED  BY <1>0, <3>1, <3>2
  <2>2. ASSUME NEW a \in t.alarms, a.cb = "request" PROVE \E r \in t.reqs : r.alarm = a.id
    <3>1. CASE a \in s.alarms
      BY <2>2, <3>1 DEF InStep
    <3>2. CASE a = a0
      <4>1. r0 \in t.reqs /\ r0.alarm = a.id
        BY <1>0, <3>2
      <4>. QED  BY <4>1
    <3>. QED  BY <1>0, <2>2, <3>1, <3>2
  <2>. QED  BY <2>1, <2>2
<1>. QED  BY <1>1, <1>2, <1>4, <1>5, <1>6, <1>7 DEF InStep

LEMMA StepCancel ==
    ASSUME NEW s, NEW t, Owners(s), InStep(s), NEW a \in s.alarms,
           a.cb # "request", t.open = s.open \ {a.id}, t.reqs = s.reqs,
           t.alarms = {b \in s.alarms : b.id # a.id}
    PROVE  Owners(t) /\ InStep(t)
<1>1. Timers(t) = Timers(s) \ {a.id} /\ Socks(t) = Socks(s)
  BY DEF Timers, Socks
<1>2. a.id \in Timers(s)
  BY DEF Timers
<1>3. Owners(t)
  BY DEF Owners
<1>4. ASSUME NEW r \in s.reqs PROVE r.alarm # a.id
  <2>1. PICK b : b = [id |-> r.alarm, cb |-> "request"]
    OBVIOUS
  <2>2. b \in s.alarms /\ b.id = r.alarm /\ b.cb = "request"
    BY <2>1 DEF InStep
  <2>. QED  BY <2>2 DEF InStep
<1>. QED  BY <1>1, <1>2, <1>3, <1>4 DEF InStep

LEMMA StepOver ==
    ASSUME NEW s, NEW t, Owners(s), InStep(s), NEW r \in s.reqs,
           t.open = (s.open \ {r.fd}) \ {r.alarm}, t.reqs = s.reqs \ {r},
           t.alarms = {b \in s.alarms : b.id # r.alarm}
    PROVE  Owners(t) /\ InStep(t) /\ Socks(t) = Socks(s) \ {r.fd}
<1>1. Timers(t) = Timers(s) \ {r.alarm}
  BY DEF Timers
<1>2. Socks(t) = Socks(s) \ {r.fd}
  BY DEF Socks, InStep
<1>3. r.alarm \in Timers(s) /\ r.fd \in Socks(s)
  <2>1. PICK b : b = [id |-> r.alarm, cb |-> "request"]
    OBVIOUS
  <2>2. b \in s.alarms /\ b.id = r.alarm
    BY <2>1 DEF InStep
  <2>. QED  BY <2>2 DEF Timers, Socks
<1>4. Owners(t)
  BY DEF Owners
<1>5. \A q \in t.reqs : q.alarm # r.alarm /\ q.fd # r.fd
  BY DEF InStep
<1>6. /\ t.open = {Server} \cup Timers(t) \cup Socks(t)
      /\ Server \notin Timers(t) \cup Socks(t) /\ Timers(t) \cap Socks(t) = {}
  BY <1>1, <1>2, <1>3 DEF InStep
<1>7. /\ \A a, b \in t.alarms : a.id = b.id => a = b
      /\ \A p, q \in t.reqs : p.fd = q.fd \/ p.alarm = q.alarm => p = q
  BY DEF InStep
<1>8. \A q \in t.reqs : [id |-> q.alarm, cb |-> "request"] \in t.alarms
  BY <1>5 DEF InStep
<1>9. ASSUME NEW a \in t.alarms, a.cb = "request" PROVE \E q \in t.reqs : q.alarm = a.id
  <2>1. PICK q \in s.reqs : q.alarm = a.id
    BY <1>9 DEF InStep
  <2>. QED  BY <2>1
<1>. QED  BY <1>2, <1>4, <1>6, <1>7, <1>8, <1>9 DEF InStep

-----------------------------------------------------------------------------
\* The functions of the program.  What each of them makes of the fields.
LEMMA AlarmSetFields ==
    ASSUME NEW s \in State, NEW cb, Free(s) # {}
    PROVE  /\ AlarmId(s) = Min(Free(s))
           /\ AlarmSet(s, cb) =
                  [s EXCEPT !.open = @ \cup {AlarmId(s)},
                            !.list = Append(@, [fd |-> AlarmId(s), cb |-> "alarm",
                                                dirty |-> 0]),
                            !.alarms = @ \cup {[id |-> AlarmId(s), cb |-> cb]}]
<1>1. AlarmId(s) = Min(Free(s))
  BY DEF AlarmId
<1>2. PICK f : f = AlarmId(s)
  OBVIOUS
<1>3. OpenFd(s) = [s EXCEPT !.open = @ \cup {f}]
  BY <1>1, <1>2 DEF OpenFd
<1>. QED  BY <1>1, <1>2, <1>3 DEF AlarmSet, SchedAdd, State

LEMMA CancelFields ==
    ASSUME NEW s \in State, NEW a \in s.alarms
    PROVE  \E m : /\ Marked(s.list, m, a.id)
                  /\ AlarmCancel(s, a.id) =
                         [s EXCEPT !.alarms = {b \in @ : b.id # a.id}, !.list = m,
                                   !.open = @ \ {a.id}, !.ready = @ \ {a.id}]
<1> DEFINE u == [s EXCEPT !.alarms = {b \in @ : b.id # a.id}]
<1>1. u \in State /\ u.list = s.list
  BY DEF State
<1>2. PICK m : Marked(u.list, m, a.id) /\ SchedDel(u, a.id) = [u EXCEPT !.list = m]
  BY <1>1, SchedDelFacts
<1>3. AlarmCancel(s, a.id) = CloseFd(SchedDel(u, a.id), a.id)
  BY DEF AlarmCancel
<1>4. AlarmCancel(s, a.id) =
          [s EXCEPT !.alarms = {b \in @ : b.id # a.id}, !.list = m,
                    !.open = @ \ {a.id}, !.ready = @ \ {a.id}]
  BY <1>2, <1>3 DEF CloseFd, State
<1>. QED  BY <1>1, <1>2, <1>4

LEMMA UnlinkFields ==
    ASSUME NEW s \in State, NEW r \in s.reqs
    PROVE  \E m : /\ Marked(s.list, m, r.fd)
                  /\ Unlink(s, r) =
                         [s EXCEPT !.reqs = @ \ {r}, !.list = m,
                                   !.open = @ \ {r.fd}, !.ready = @ \ {r.fd}]
<1> DEFINE u == [s EXCEPT !.reqs = @ \ {r}]
<1>1. u \in State /\ u.list = s.list
  BY DEF State
<1>2. PICK m : Marked(u.list, m, r.fd) /\ SchedDel(u, r.fd) = [u EXCEPT !.list = m]
  BY <1>1, SchedDelFacts
<1>3. Unlink(s, r) = CloseFd(SchedDel(u, r.fd), r.fd)
  BY DEF Unlink
<1>4. Unlink(s, r) = [s EXCEPT !.reqs = @ \ {r}, !.list = m,
                               !.open = @ \ {r.fd}, !.ready = @ \ {r.fd}]
  BY <1>2, <1>3 DEF CloseFd, State
<1>. QED  BY <1>1, <1>2, <1>4

Requested(s, t, f, g, kind) ==
    /\ t.open = s.open \cup {f, g} /\ t.ready = s.ready
    /\ t.list = Append(Append(s.list, [fd |-> g, cb |-> "alarm", dirty |-> 0]),
                       [fd |-> f, cb |-> "coap", dirty |-> 0])
    /\ t.alarms = s.alarms \cup {[id |-> g, cb |-> "request"]}
    /\ t.reqs = s.reqs \cup {[fd |-> f, alarm |-> g, kind |-> kind]}
    /\ t.calls = [s.calls EXCEPT ![f] = 0]
    /\ t.registered = s.registered /\ t.ka_alarm_id = s.ka_alarm_id
    /\ t.push_id = s.push_id

LEMMA RequestFields ==
    ASSUME NEW s \in State, NEW kind \in Kinds, Free(s) # {}, Free(OpenFd(s)) # {}
    PROVE  /\ Accepted(s, kind) \in State
           /\ \E f \in Fds \ s.open, g \in Fds \ s.open :
               /\ f # g /\ f = Min(Free(s)) /\ g = Min(Free(OpenFd(s)))
               /\ Requested(s, Accepted(s, kind), f, g, kind)
<1>1. PICK f, o : f = Min(Free(s)) /\ o = OpenFd(s)
  OBVIOUS
<1>2. f \in Fds \ s.open
  BY <1>1, FreeFacts
<1>3. o = [s EXCEPT !.open = @ \cup {f}] /\ o \in State
  BY <1>1, <1>2 DEF OpenFd, State
<1>4. PICK g, t : g = AlarmId(o) /\ t = AlarmSet(o, "request")
  OBVIOUS
<1>5. /\ g = Min(Free(o))
      /\ t = [o EXCEPT !.open = @ \cup {g},
                       !.list = Append(@, [fd |-> g, cb |-> "alarm", dirty |-> 0]),
                       !.alarms = @ \cup {[id |-> g, cb |-> "request"]}]
  BY <1>1, <1>3, <1>4, AlarmSetFields
<1>6. g \in Fds \ o.open
  BY <1>1, <1>5, FreeFacts
<1>7. g \in Fds \ s.open /\ f # g
  BY <1>3, <1>6 DEF State
<1>8. t \in State
  <2>1. [fd |-> g, cb |-> "alarm", dirty |-> 0] \in Entry
    BY <1>7 DEF Entry
  <2>2. Append(o.list, [fd |-> g, cb |-> "alarm", dirty |-> 0]) \in Seq(Entry)
    BY <1>3, <2>1, AppendProperties DEF State
  <2>3. o.alarms \cup {[id |-> g, cb |-> "request"]} \in SUBSET Alarm
    BY <1>3, <1>7 DEF State, Alarm
  <2>. QED  BY <1>3, <1>5, <1>7, <2>2, <2>3 DEF State
<1>9. PICK e, q : /\ e = [fd |-> f, cb |-> "coap", dirty |-> 0]
                  /\ q = [fd |-> f, alarm |-> g, kind |-> kind]
  OBVIOUS
<1>10. e \in Entry /\ q \in Request
  BY <1>2, <1>7, <1>9 DEF Entry, Request
<1>11. Accepted(s, kind) = [[t EXCEPT !.list = Append(@, e)]
                                  EXCEPT !.reqs = @ \cup {q}, !.calls[f] = 0]
  BY <1>1, <1>4, <1>9 DEF Accepted, AddRequest, SchedAdd
<1>12. Accepted(s, kind) = [t EXCEPT !.list = Append(t.list, e),
                                       !.reqs = t.reqs \cup {q},
                                       !.calls = [t.calls EXCEPT ![f] = 0]]
  BY <1>8, <1>11 DEF State
<1>13. Accepted(s, kind) \in State
  <2>1. Append(t.list, e) \in Seq(Entry)
    BY <1>8, <1>10, AppendProperties DEF State
  <2>2. [t.calls EXCEPT ![f] = 0] \in [Fds -> Nat]
    BY <1>2, <1>8 DEF State
  <2>3. t.reqs \cup {q} \in SUBSET Request
    BY <1>8, <1>10 DEF State
  <2>4. PICK x, y, z : /\ x = Append(t.list, e) /\ y = t.reqs \cup {q}
                       /\ z = [t.calls EXCEPT ![f] = 0]
    OBVIOUS
  <2>5. x \in Seq(Entry) /\ y \in SUBSET Request /\ z \in [Fds -> Nat]
    BY <2>1, <2>2, <2>3, <2>4
  <2>6. Accepted(s, kind) = [t EXCEPT !.list = x, !.reqs = y, !.calls = z]
    BY <1>12, <2>4
  <2>. QED  BY <1>8, <2>5, <2>6 DEF State
<1>14. Requested(s, Accepted(s, kind), f, g, kind)
  <2>1. /\ t.open = s.open \cup {f, g} /\ t.ready = s.ready
        /\ t.list = Append(s.list, [fd |-> g, cb |-> "alarm", dirty |-> 0])
        /\ t.alarms = s.alarms \cup {[id |-> g, cb |-> "request"]}
        /\ t.reqs = s.reqs /\ t.calls = s.calls
        /\ t.registered = s.registered /\ t.ka_alarm_id = s.ka_alarm_id
        /\ t.push_id = s.push_id
    BY <1>3, <1>5 DEF State
  <2>. QED  BY <1>8, <1>9, <1>12, <2>1 DEF Requested, State
<1>15. PICK c : c = Accepted(s, kind)
  OBVIOUS
<1>16. /\ f \in Fds \ s.open /\ g \in Fds \ s.open /\ f # g
       /\ f = Min(Free(s)) /\ g = Min(Free(OpenFd(s)))
       /\ Requested(s, c, f, g, kind) /\ c \in State
  <2>1. Requested(s, c, f, g, kind) /\ c \in State
    BY <1>13, <1>14, <1>15, Zenon
  <2>2. f \in Fds \ s.open /\ g \in Fds \ s.open /\ f # g
    BY <1>2, <1>7
  <2>3. f = Min(Free(s)) /\ g = Min(Free(OpenFd(s)))
    BY <1>1, <1>5
  <2>. QED  BY <2>1, <2>2, <2>3
<1>. QED  BY <1>15, <1>16

\* What a callback of the application leaves alone: the list only grows, and a
\* request that is not over keeps its place and its count.
Issues(s, t) ==
    /\ s.reqs \subseteq t.reqs
    /\ t.calls = [h \in Fds |-> IF h \in Socks(t) \ Socks(s) THEN 0 ELSE s.calls[h]]
SameIds(s, t) == t.ka_alarm_id = s.ka_alarm_id /\ t.push_id = s.push_id
Goes(s, t) == Later(s.list, s.ready, t.list, t.ready) /\ Issues(s, t)

LEMMA SaneOwners == ASSUME NEW s, Sane(s) PROVE Owners(s)
  BY DEF Sane, State, Owners

LEMMA SocksGrow == ASSUME NEW s, NEW t, s.reqs \subseteq t.reqs PROVE Socks(s) \subseteq Socks(t)
  BY DEF Socks

LEMMA GoesSame ==
    ASSUME NEW s \in State, NEW t \in State, s.ready \subseteq t.ready,
           t.list = s.list, t.reqs = s.reqs, t.calls = s.calls
    PROVE  Goes(s, t)
<1>1. Later(s.list, s.ready, t.list, t.ready)
  BY SameList DEF State
<1>2. Issues(s, t)
  BY DEF Issues, Socks, State
<1>. QED  BY <1>1, <1>2 DEF Goes

LEMMA GoesTrans ==
    ASSUME NEW s \in State, NEW t \in State, NEW u \in State, Goes(s, t), Goes(t, u)
    PROVE  Goes(s, u)
<1>1. Later(s.list, s.ready, u.list, u.ready)
  BY LaterTrans DEF Goes, State
<1>2. s.reqs \subseteq u.reqs /\ Socks(s) \subseteq Socks(t) /\ Socks(t) \subseteq Socks(u)
  BY SocksGrow DEF Goes, Issues
<1>3. u.calls = [h \in Fds |-> IF h \in Socks(u) \ Socks(s) THEN 0 ELSE s.calls[h]]
  <2>1. \A h \in Fds : t.calls[h] = IF h \in Socks(t) \ Socks(s) THEN 0 ELSE s.calls[h]
    BY DEF Goes, Issues
  <2>2. \A h \in Fds : u.calls[h] = IF h \in Socks(u) \ Socks(t) THEN 0 ELSE t.calls[h]
    BY DEF Goes, Issues
  <2>3. u.calls \in [Fds -> Nat]
    BY DEF State
  <2>4. \A h \in Fds : u.calls[h] = IF h \in Socks(u) \ Socks(s) THEN 0 ELSE s.calls[h]
    BY <1>2, <2>1, <2>2
  <2>. QED  BY <2>3, <2>4
<1>. QED  BY <1>1, <1>2, <1>3 DEF Goes, Issues

\* atlas_alarm_set, for the alarms that are not of a request.
LEMMA AlarmSetSane ==
    ASSUME NEW s, Sane(s), NEW cb \in {"register", "keepalive", "push"}
    PROVE  /\ Sane(AlarmSet(s, cb)) /\ Goes(s, AlarmSet(s, cb))
           /\ s.alarms \subseteq AlarmSet(s, cb).alarms
           /\ AlarmSet(s, cb).registered = s.registered
           /\ SameIds(s, AlarmSet(s, cb))
           /\ \/ AlarmId(s) = -1
              \/ /\ AlarmId(s) \in Fds
                 /\ [id |-> AlarmId(s), cb |-> cb] \in AlarmSet(s, cb).alarms
<1>1. PICK t : t = AlarmSet(s, cb)
  OBVIOUS
<1>2. CASE Free(s) = {}
  <2>1. t = s /\ AlarmId(s) = -1
    BY <1>1, <1>2 DEF AlarmSet, AlarmId
  <2>2. Goes(s, s)
    BY GoesSame DEF Sane
  <2>. QED  BY <1>1, <2>1, <2>2 DEF SameIds
<1>3. CASE Free(s) # {}
  <2>1. PICK f : f = AlarmId(s)
    OBVIOUS
  <2>2. /\ f = Min(Free(s))
        /\ t = [s EXCEPT !.open = @ \cup {f},
                         !.list = Append(@, [fd |-> f, cb |-> "alarm", dirty |-> 0]),
                         !.alarms = @ \cup {[id |-> f, cb |-> cb]}]
    BY <1>1, <1>3, <2>1, AlarmSetFields DEF Sane
  <2>3. f \in Fds /\ f \notin s.open
    BY <1>3, <2>2, FreeFacts
  <2>4. PICK e, a : e = [fd |-> f, cb |-> "alarm", dirty |-> 0] /\ a = [id |-> f, cb |-> cb]
    OBVIOUS
  <2>5. e \in Entry /\ e.dirty = 0 /\ e.fd = f /\ a \in Alarm
    BY <2>3, <2>4 DEF Entry, Alarm
  <2>6. /\ s \in State
        /\ t = [s EXCEPT !.open = s.open \cup {f}, !.list = Append(s.list, e),
                         !.alarms = s.alarms \cup {a}]
    BY <2>2, <2>4 DEF Sane, State
  <2>7. /\ Append(s.list, e) \in Seq(Entry)
        /\ Attended(Append(s.list, e), s.open \cup {f})
        /\ Shadowed(Append(s.list, e), s.open \cup {f})
        /\ Later(s.list, s.ready, Append(s.list, e), s.ready)
    BY <2>3, <2>5, <2>6, ListAdd DEF Sane, State, Listed
  <2>8. PICK m : m = Append(s.list, e)
    OBVIOUS
  <2>9. /\ t.open = s.open \cup {f} /\ t.list = m /\ t.alarms = s.alarms \cup {a}
        /\ t.ready = s.ready /\ t.reqs = s.reqs /\ t.calls = s.calls
        /\ t.registered = s.registered /\ SameIds(s, t)
    BY <2>6, <2>8 DEF State, SameIds
  <2>10. t \in State
    BY <2>3, <2>5, <2>6, <2>7 DEF State
  <2>11. InStep(t)
    BY <2>3, <2>4, <2>9, SaneOwners, StepAlarm DEF Sane
  <2>13. Sane(t)
    BY <2>7, <2>8, <2>9, <2>10, <2>11 DEF Sane
  <2>14. Issues(s, t)
    BY <2>9, <2>6 DEF Issues, Socks, State
  <2>15. Goes(s, t)
    BY <2>7, <2>8, <2>9, <2>14 DEF Goes
  <2>. QED  BY <1>1, <2>1, <2>3, <2>4, <2>9, <2>13, <2>15
<1>. QED  BY <1>2, <1>3

LEMMA AlarmSetFacts ==
    ASSUME NEW s, Good(s), NEW cb \in {"register", "keepalive", "push"}
    PROVE  /\ Good(AlarmSet(s, cb)) /\ Goes(s, AlarmSet(s, cb))
           /\ \/ AlarmId(s) = -1
              \/ /\ AlarmId(s) \in Fds
                 /\ [id |-> AlarmId(s), cb |-> cb] \in AlarmSet(s, cb).alarms
<1>1. PICK t : t = AlarmSet(s, cb)
  OBVIOUS
<1>2. /\ Sane(t) /\ Goes(s, t) /\ s.alarms \subseteq t.alarms /\ SameIds(s, t)
      /\ \/ AlarmId(s) = -1
         \/ AlarmId(s) \in Fds /\ [id |-> AlarmId(s), cb |-> cb] \in t.alarms
  BY <1>1, AlarmSetSane DEF Good
<1>3. IdsKept(t)
  BY <1>2 DEF Good, IdsKept, SameIds
<1>. QED  BY <1>1, <1>2, <1>3 DEF Good

\* atlas_coap_client_request.
LEMMA AcceptedFacts ==
    ASSUME NEW s, Good(s), NEW kind \in Kinds
    PROVE  /\ Good(Accepted(s, kind)) /\ Goes(s, Accepted(s, kind))
           /\ s.alarms \subseteq Accepted(s, kind).alarms
<1>1. PICK t : t = Accepted(s, kind)
  OBVIOUS
<1>2. s \in State
  BY DEF Good, Sane
<1>3. CASE Free(s) = {} \/ Free(OpenFd(s)) = {}
  <2>1. t = s
    BY <1>1, <1>3 DEF Accepted
  <2>2. Goes(s, s)
    BY <1>2, GoesSame
  <2>. QED  BY <1>1, <2>1, <2>2
<1>4. CASE ~(Free(s) = {} \/ Free(OpenFd(s)) = {})
  <2>1. t \in State
    BY <1>1, <1>2, <1>4, RequestFields
  <2>2. PICK f \in Fds \ s.open, g \in Fds \ s.open :
            /\ f # g
            /\ Requested(s, t, f, g, kind)
    BY <1>1, <1>2, <1>4, RequestFields
  <2>3. PICK d, e : /\ d = [fd |-> g, cb |-> "alarm", dirty |-> 0]
                    /\ e = [fd |-> f, cb |-> "coap", dirty |-> 0]
    OBVIOUS
  <2>4. /\ d \in Entry /\ d.dirty = 0 /\ d.fd = g
        /\ e \in Entry /\ e.dirty = 0 /\ e.fd = f
    BY <2>2, <2>3 DEF Entry
  <2>5. PICK l, m, n : l = s.list /\ m = Append(l, d) /\ n = Append(m, e)
    OBVIOUS
  <2>6. /\ t.open = s.open \cup {f, g} /\ t.ready = s.ready /\ t.list = n
        /\ s.alarms \subseteq t.alarms /\ SameIds(s, t)
        /\ s.reqs \subseteq t.reqs /\ t.calls = [s.calls EXCEPT ![f] = 0]
    BY <2>2, <2>3, <2>5 DEF Requested, SameIds
  <2>7. /\ m \in Seq(Entry) /\ Attended(m, s.open \cup {g})
        /\ Shadowed(m, s.open \cup {g})
        /\ Later(l, s.ready, m, s.ready)
        /\ \A i \in DOMAIN m : (i \in DOMAIN l /\ m[i] = l[i]) \/ m[i] = d
    BY <1>2, <2>2, <2>4, <2>5, ListAdd DEF Good, Sane, State, Listed
  <2>9. /\ n \in Seq(Entry) /\ Attended(n, (s.open \cup {g}) \cup {f})
        /\ Shadowed(n, (s.open \cup {g}) \cup {f})
        /\ Later(m, s.ready, n, s.ready)
    BY <2>4, <2>5, <2>7, ListAdd
  <2>10. (s.open \cup {g}) \cup {f} = s.open \cup {f, g}
    OBVIOUS
  <2>11. Later(s.list, s.ready, t.list, t.ready)
    <3>1. l \in Seq(Entry)
      BY <1>2, <2>5 DEF State
    <3>2. PICK y : y = s.ready
      OBVIOUS
    <3>3. Later(l, y, n, y)
      BY <2>7, <2>9, <3>1, <3>2, LaterTrans
    <3>. QED  BY <2>5, <2>6, <3>2, <3>3, Zenon
  <2>12. InStep(t) /\ Socks(t) = Socks(s) \cup {f} /\ f \notin Socks(s)
    BY <2>2, SaneOwners, StepRequest DEF Good, Sane, Requested
  <2>13. IdsKept(t)
    BY <2>6 DEF Good, IdsKept, SameIds
  <2>14. Sane(t)
    BY <2>1, <2>6, <2>9, <2>10, <2>12 DEF Good, Sane
  <2>15. Issues(s, t)
    BY <1>2, <2>2, <2>6, <2>12 DEF Issues, State
  <2>. QED  BY <1>1, <2>6, <2>11, <2>13, <2>14, <2>15 DEF Good, Goes
<1>. QED  BY <1>3, <1>4

LEMMA CoapRequestFacts ==
    ASSUME NEW s, Good(s), NEW kind \in Kinds, NEW t \in CoapRequest(s, kind)
    PROVE  Good(t) /\ Goes(s, t) /\ s.alarms \subseteq t.alarms
<1>1. t = s \/ t = Accepted(s, kind)
  BY DEF CoapRequest
<1>2. CASE t = s
  <2>1. Goes(s, s)
    BY GoesSame DEF Good, Sane
  <2>. QED  BY <1>2, <2>1
<1>3. CASE t = Accepted(s, kind)
  BY <1>3, AcceptedFacts
<1>. QED  BY <1>1, <1>2, <1>3

\* atlas_alarm_cancel, for the alarms that are not of a request.
LEMMA CancelFacts ==
    ASSUME NEW s, Sane(s), NEW id,
           \A a \in s.alarms : a.id = id => a.cb # "request"
    PROVE  /\ Sane(AlarmCancel(s, id)) /\ Goes(s, AlarmCancel(s, id))
           /\ AlarmCancel(s, id).alarms = {a \in s.alarms : a.id # id}
           /\ SameIds(s, AlarmCancel(s, id))
<1>1. PICK t : t = AlarmCancel(s, id)
  OBVIOUS
<1>2. s \in State
  BY DEF Sane
<1>3. CASE \A a \in s.alarms : a.id # id
  <2>1. t = s
    BY <1>1, <1>3 DEF AlarmCancel
  <2>2. Goes(s, s)
    BY <1>2, GoesSame
  <2>3. s.alarms = {a \in s.alarms : a.id # id}
    BY <1>3
  <2>. QED  BY <1>1, <2>1, <2>2, <2>3 DEF SameIds
<1>4. ASSUME NEW a \in s.alarms, a.id = id
      PROVE  /\ Sane(t) /\ Goes(s, t) /\ SameIds(s, t)
             /\ t.alarms = {b \in s.alarms : b.id # id}
  <2>0. t = AlarmCancel(s, a.id)
    BY <1>1, <1>4
  <2>1. PICK m : /\ Marked(s.list, m, a.id)
                 /\ t = [s EXCEPT !.alarms = {b \in @ : b.id # a.id}, !.list = m,
                                  !.open = @ \ {a.id}, !.ready = @ \ {a.id}]
    BY <1>2, <2>0, CancelFields
  <2>2. /\ t.open = s.open \ {id} /\ t.ready = s.ready \ {id} /\ t.list = m
        /\ t.alarms = {b \in s.alarms : b.id # id} /\ t.reqs = s.reqs
        /\ t.calls = s.calls /\ SameIds(s, t)
    BY <1>2, <1>4, <2>1 DEF State, SameIds
  <2>3. /\ Attended(m, s.open \ {id})
        /\ Shadowed(m, s.open \ {id})
        /\ Later(s.list, s.ready, m, s.ready \ {id})
    <3>1. Marked(s.list, m, id)
      BY <1>4, <2>1
    <3>. QED  BY <1>2, <3>1, ListDrop DEF Sane, State
  <2>4. t \in State
    BY <1>2, <2>1 DEF State, Marked
  <2>5. InStep(t)
    BY <1>4, <2>2, SaneOwners, StepCancel DEF Sane
  <2>6. Sane(t)
    BY <2>2, <2>3, <2>4, <2>5 DEF Sane
  <2>7. Issues(s, t)
    BY <1>2, <2>2 DEF Issues, Socks, State
  <2>. QED  BY <2>2, <2>3, <2>6, <2>7 DEF Goes
<1>. QED  BY <1>1, <1>3, <1>4

\* The end of request r: its descriptor and its alarm are closed.
Ends(s, r) == AlarmCancel(Unlink(s, r), r.alarm)

LEMMA EndsFacts ==
    ASSUME NEW s, Good(s), NEW r \in s.reqs
    PROVE  /\ Good(Ends(s, r))
           /\ Later(s.list, s.ready, Ends(s, r).list, Ends(s, r).ready)
           /\ Socks(Ends(s, r)) = Socks(s) \ {r.fd}
           /\ Ends(s, r).calls = s.calls
<1>1. PICK a : a = [id |-> r.alarm, cb |-> "request"]
  OBVIOUS
<1>2. a \in s.alarms /\ a.id = r.alarm /\ a.cb = "request" /\ s \in State
  BY <1>1 DEF Good, Sane, InStep
<1>3. PICK m, u : /\ u = Unlink(s, r) /\ Marked(s.list, m, r.fd)
                  /\ u = [s EXCEPT !.reqs = @ \ {r}, !.list = m,
                                   !.open = @ \ {r.fd}, !.ready = @ \ {r.fd}]
  BY <1>2, UnlinkFields
<1>4. /\ u.open = s.open \ {r.fd} /\ u.ready = s.ready \ {r.fd} /\ u.list = m
      /\ u.alarms = s.alarms /\ u.reqs = s.reqs \ {r}
      /\ u.calls = s.calls /\ SameIds(s, u)
  BY <1>2, <1>3 DEF State, SameIds
<1>5. u \in State /\ m \in Seq(Entry)
  BY <1>2, <1>3 DEF State, Marked
<1>6. /\ Attended(m, s.open \ {r.fd})
      /\ Shadowed(m, s.open \ {r.fd})
      /\ Later(s.list, s.ready, m, s.ready \ {r.fd})
  BY <1>2, <1>3, ListDrop DEF Good, Sane, State
<1>7. PICK n, t : /\ t = AlarmCancel(u, a.id) /\ Marked(u.list, n, a.id)
                  /\ t = [u EXCEPT !.alarms = {b \in @ : b.id # a.id}, !.list = n,
                                   !.open = @ \ {a.id}, !.ready = @ \ {a.id}]
  BY <1>2, <1>4, <1>5, CancelFields
<1>8. /\ t.open = (s.open \ {r.fd}) \ {r.alarm} /\ t.list = n
      /\ t.ready = (s.ready \ {r.fd}) \ {r.alarm}
      /\ t.alarms = {b \in s.alarms : b.id # r.alarm} /\ t.reqs = s.reqs \ {r}
      /\ t.calls = s.calls /\ SameIds(s, t)
  BY <1>2, <1>4, <1>5, <1>7 DEF State, SameIds
<1>9. t \in State /\ n \in Seq(Entry)
  BY <1>5, <1>7 DEF State, Marked
<1>10. PICK o, y : o = s.open \ {r.fd} /\ y = s.ready \ {r.fd}
  OBVIOUS
<1>11. /\ Attended(n, o \ {r.alarm})
       /\ Shadowed(n, o \ {r.alarm})
       /\ Later(m, y, n, y \ {r.alarm})
  <2>1. Marked(m, n, r.alarm) /\ Attended(m, o) /\ Shadowed(m, o)
    BY <1>2, <1>4, <1>6, <1>7, <1>10
  <2>. QED  BY <1>5, <2>1, ListDrop
<1>12. Later(s.list, s.ready, t.list, t.ready)
  <2>1. s.list \in Seq(Entry)
    BY <1>2 DEF State
  <2>2. Later(s.list, s.ready, n, y \ {r.alarm})
    BY <1>5, <1>6, <1>9, <1>10, <1>11, <2>1, LaterTrans
  <2>. QED  BY <1>8, <1>10, <2>2
<1>13. InStep(t) /\ Socks(t) = Socks(s) \ {r.fd}
  BY <1>8, SaneOwners, StepOver DEF Good, Sane
<1>14. Sane(t)
  BY <1>8, <1>9, <1>10, <1>11, <1>13 DEF Good, Sane
<1>15. IdsKept(t)
  <2>1. ASSUME NEW b \in s.alarms, b.cb # "request" PROVE b \in t.alarms
    BY <1>2, <1>8, <2>1 DEF Good, Sane, InStep
  <2>2. ASSUME s.ka_alarm_id \in Fds
        PROVE  [id |-> s.ka_alarm_id, cb |-> "keepalive"] \in t.alarms
    BY <2>1, <2>2 DEF Good, IdsKept
  <2>3. ASSUME s.push_id \in Fds
        PROVE  [id |-> s.push_id, cb |-> "push"] \in t.alarms
    BY <2>1, <2>3 DEF Good, IdsKept
  <2>. QED  BY <1>8, <2>2, <2>3 DEF IdsKept, SameIds
<1>16. t = Ends(s, r)
  BY <1>2, <1>3, <1>7 DEF Ends
<1>. QED  BY <1>8, <1>12, <1>13, <1>14, <1>15, <1>16 DEF Good

-----------------------------------------------------------------------------
\* The handlers.  A request of the telemetry and a change of registered.
LEMMA PushFacts ==
    ASSUME NEW s, Good(s), NEW t \in TelemetryPush(s)
    PROVE  Good(t) /\ Goes(s, t)
<1>1. Goes(s, s)
  BY GoesSame DEF Good, Sane
<1>2. "telemetry" \in Kinds
  BY DEF Kinds
<1>3. t = s \/ t \in CoapRequest(s, "telemetry")
  BY DEF TelemetryPush
<1>. QED  BY <1>1, <1>2, <1>3, CoapRequestFacts

LEMMA RegisteredFacts ==
    ASSUME NEW s, Good(s), NEW x \in {0, 1}
    PROVE  Good([s EXCEPT !.registered = x]) /\ Goes(s, [s EXCEPT !.registered = x])
<1>1. PICK t : t = [s EXCEPT !.registered = x]
  OBVIOUS
<1>2. s \in State
  BY DEF Good, Sane
<1>3. /\ t \in State /\ t.list = s.list /\ t.open = s.open /\ t.ready = s.ready
      /\ t.alarms = s.alarms /\ t.reqs = s.reqs /\ t.calls = s.calls /\ SameIds(s, t)
  BY <1>1, <1>2 DEF State, SameIds
<1>4. InStep(t)
  BY <1>3 DEF Good, Sane, InStep, Timers, Socks
<1>5. Good(t)
  BY <1>3, <1>4 DEF Good, Sane, IdsKept, SameIds
<1>. QED  BY <1>1, <1>2, <1>3, <1>5, GoesSame

\* reg_callback
LEMMA RegCallbackFacts ==
    ASSUME NEW s, Good(s), NEW status, NEW u \in RegCallback(s, status)
    PROVE  Good(u) /\ Goes(s, u)
<1>1. CASE status # "ok"
  BY <1>1, AlarmSetFacts DEF RegCallback
<1>2. CASE status = "ok"
  <2>0. PICK q : q = [s EXCEPT !.registered = 1]
    OBVIOUS
  <2>1. PICK p \in TelemetryPush(q) : u = KeepaliveSet(p)
    BY <1>2, <2>0 DEF RegCallback
  <2>2. Good(q) /\ Goes(s, q) /\ Good(p) /\ Goes(q, p)
    BY <2>0, RegisteredFacts, PushFacts
  <2>3. PICK t, i : t = AlarmSet(p, "keepalive") /\ i = AlarmId(p)
    OBVIOUS
  <2>4. /\ Good(t) /\ Goes(p, t)
        /\ i = -1 \/ (i \in Fds /\ [id |-> i, cb |-> "keepalive"] \in t.alarms)
    BY <2>2, <2>3, AlarmSetFacts
  <2>5. u = [t EXCEPT !.ka_alarm_id = i]
    BY <2>1, <2>3 DEF KeepaliveSet
  <2>6. s \in State /\ q \in State /\ p \in State /\ t \in State
    BY <2>2, <2>4 DEF Good, Sane
  <2>7. /\ u \in State /\ u.list = t.list /\ u.open = t.open /\ u.ready = t.ready
        /\ u.alarms = t.alarms /\ u.reqs = t.reqs /\ u.calls = t.calls
        /\ u.ka_alarm_id = i /\ u.push_id = t.push_id
    BY <2>4, <2>5, <2>6 DEF State
  <2>8. InStep(u)
    BY <2>4, <2>7 DEF Good, Sane, InStep, Timers, Socks
  <2>9. IdsKept(u)
    BY <2>4, <2>7, FdFacts DEF Good, IdsKept
  <2>10. Good(u)
    BY <2>4, <2>7, <2>8, <2>9 DEF Good, Sane
  <2>11. Goes(t, u)
    BY <2>6, <2>7, GoesSame
  <2>12. Goes(s, u)
    <3>1. Goes(s, p)
      BY <2>2, <2>6, GoesTrans
    <3>2. Goes(s, t)
      BY <2>4, <2>6, <3>1, GoesTrans
    <3>. QED  BY <2>6, <2>7, <2>11, <3>2, GoesTrans
  <2>. QED  BY <2>10, <2>12
<1>. QED  BY <1>1, <1>2

\* An id that is kept is that of the alarm, and of no other.
LEMMA KeptFacts ==
    ASSUME NEW s, Good(s), NEW id \in Fds \cup {-1, 0},
           NEW cb \in {"keepalive", "push"},
           id \in Fds => [id |-> id, cb |-> cb] \in s.alarms
    PROVE  \A a \in s.alarms : a.id = id => a.cb = cb
<1>1. SUFFICES ASSUME NEW a \in s.alarms, a.id = id PROVE a.cb = cb
  OBVIOUS
<1>2. id \in Fds
  BY <1>1, FdFacts DEF Good, Sane, State, Alarm
<1>3. PICK b : b = [id |-> id, cb |-> cb]
  OBVIOUS
<1>4. b \in s.alarms /\ b.id = id /\ b.cb = cb
  BY <1>2, <1>3
<1>. QED  BY <1>1, <1>4 DEF Good, Sane, InStep

\* keepalive_callback, when the registration is lost.
LEMMA KeepaliveLostFacts ==
    ASSUME NEW s, Good(s), NEW v \in KeepaliveLost(s)
    PROVE  Good(v) /\ Goes(s, v)
<1>1. PICK t, i : i = s.ka_alarm_id /\ t = AlarmCancel(s, i)
  OBVIOUS
<1>2. i \in Fds \cup {-1, 0} /\ s \in State
  BY <1>1 DEF Good, Sane, State
<1>3. \A a \in s.alarms : a.id = i => a.cb = "keepalive"
  BY <1>1, <1>2, KeptFacts DEF Good, IdsKept
<1>4. /\ Sane(t) /\ Goes(s, t) /\ SameIds(s, t)
      /\ t.alarms = {a \in s.alarms : a.id # i}
  BY <1>1, <1>3, CancelFacts DEF Good
<1>5. PICK u : u = [t EXCEPT !.registered = 0, !.ka_alarm_id = -1]
  OBVIOUS
<1>6. t \in State
  BY <1>4 DEF Sane
<1>7. /\ u \in State /\ u.list = t.list /\ u.open = t.open /\ u.ready = t.ready
      /\ u.alarms = t.alarms /\ u.reqs = t.reqs /\ u.calls = t.calls
      /\ u.ka_alarm_id = -1 /\ u.push_id = s.push_id
  BY <1>4, <1>5, <1>6 DEF State, SameIds
<1>8. InStep(u)
  BY <1>4, <1>7 DEF Sane, InStep, Timers, Socks
<1>9. IdsKept(u)
  <2>1. ASSUME s.push_id \in Fds PROVE [id |-> s.push_id, cb |-> "push"] \in u.alarms
    <3>1. PICK b : b = [id |-> s.push_id, cb |-> "push"]
      OBVIOUS
    <3>2. b \in s.alarms /\ b.cb = "push"
      BY <2>1, <3>1 DEF Good, IdsKept
    <3>3. b.id # i
      BY <1>3, <3>2
    <3>. QED  BY <1>4, <1>7, <3>1, <3>2, <3>3
  <2>. QED  BY <1>7, <2>1, FdFacts DEF IdsKept
<1>10. Good(u)
  BY <1>4, <1>7, <1>8, <1>9 DEF Good, Sane
<1>11. Goes(s, u)
  <2>1. Goes(t, u)
    BY <1>6, <1>7, GoesSame
  <2>. QED  BY <1>2, <1>4, <1>6, <1>7, <2>1, GoesTrans
<1>12. v \in CoapRequest(u, "register")
  BY <1>1, <1>5 DEF KeepaliveLost
<1>13. Good(v) /\ Goes(u, v)
  BY <1>10, <1>12, CoapRequestFacts DEF Kinds
<1>14. v \in State
  BY <1>13 DEF Good, Sane
<1>15. Goes(s, v)
  BY <1>2, <1>7, <1>11, <1>13, <1>14, GoesTrans
<1>. QED  BY <1>13, <1>15

\* atlas_telemetry_push_set
LEMMA PushSetFacts ==
    ASSUME NEW s, Good(s)
    PROVE  Good(PushSet(s)) /\ Goes(s, PushSet(s))
<1>1. PICK i, c : i = s.push_id /\ c = AlarmCancel(s, i)
  OBVIOUS
<1>2. i \in Fds \cup {-1, 0} /\ s \in State
  BY <1>1 DEF Good, Sane, State
<1>3. \A a \in s.alarms : a.id = i => a.cb = "push"
  BY <1>1, <1>2, KeptFacts DEF Good, IdsKept
<1>4. /\ Sane(c) /\ Goes(s, c) /\ SameIds(s, c)
      /\ c.alarms = {a \in s.alarms : a.id # i}
  BY <1>1, <1>3, CancelFacts DEF Good
<1>5. PICK t, j : t = AlarmSet(c, "push") /\ j = AlarmId(c)
  OBVIOUS
<1>6. ASSUME s.ka_alarm_id \in Fds
      PROVE  [id |-> s.ka_alarm_id, cb |-> "keepalive"] \in c.alarms
  <2>1. PICK b : b = [id |-> s.ka_alarm_id, cb |-> "keepalive"]
    OBVIOUS
  <2>2. b \in s.alarms /\ b.cb = "keepalive"
    BY <1>6, <2>1 DEF Good, IdsKept
  <2>3. b.id # i
    BY <1>3, <2>2
  <2>. QED  BY <1>4, <2>1, <2>2, <2>3
<1>7. /\ Sane(t) /\ Goes(c, t) /\ c.alarms \subseteq t.alarms /\ SameIds(c, t)
      /\ j = -1 \/ (j \in Fds /\ [id |-> j, cb |-> "push"] \in t.alarms)
  BY <1>4, <1>5, AlarmSetSane
<1>8. PICK u : u = [t EXCEPT !.push_id = j]
  OBVIOUS
<1>9. c \in State /\ t \in State
  BY <1>4, <1>7 DEF Sane
<1>10. /\ u \in State /\ u.list = t.list /\ u.open = t.open /\ u.ready = t.ready
       /\ u.alarms = t.alarms /\ u.reqs = t.reqs /\ u.calls = t.calls
       /\ u.ka_alarm_id = s.ka_alarm_id /\ u.push_id = j
  BY <1>4, <1>7, <1>8, <1>9 DEF State, SameIds
<1>11. InStep(u)
  BY <1>7, <1>10 DEF Sane, InStep, Timers, Socks
<1>12. IdsKept(u)
  BY <1>6, <1>7, <1>10, FdFacts DEF IdsKept
<1>13. Good(u)
  BY <1>7, <1>10, <1>11, <1>12 DEF Good, Sane
<1>14. Goes(s, u)
  <2>1. Goes(t, u)
    BY <1>9, <1>10, GoesSame
  <2>2. Goes(s, t)
    BY <1>2, <1>4, <1>7, <1>9, GoesTrans
  <2>. QED  BY <1>2, <1>9, <1>10, <2>1, <2>2, GoesTrans
<1>15. u = PushSet(s)
  BY <1>1, <1>5, <1>8 DEF PushSet
<1>. QED  BY <1>13, <1>14, <1>15

\* The callbacks of the application.
LEMMA AppFacts ==
    ASSUME NEW s, Good(s), NEW kind \in Kinds, NEW status,
           NEW c \in AppCallback(s, kind, status)
    PROVE  Good(c) /\ Goes(s, c)
<1>1. Goes(s, s)
  BY GoesSame DEF Good, Sane
<1>2. CASE kind = "register"
  BY <1>2, RegCallbackFacts DEF AppCallback
<1>3. CASE kind = "keepalive"
  BY <1>1, <1>3, KeepaliveLostFacts DEF AppCallback
<1>4. CASE kind = "telemetry"
  BY <1>1, <1>4, PushFacts DEF AppCallback
<1>. QED  BY <1>2, <1>3, <1>4 DEF Kinds

\* A step of the abstract service: at most one request ends, with one call.
Served(s, t) ==
    /\ \E x : Socks(s) \ Socks(t) \subseteq {x}
    /\ t.calls = [h \in Fds |-> IF h \in Socks(t) \ Socks(s) THEN 0
                                ELSE IF h \in Socks(s) \ Socks(t) THEN s.calls[h] + 1
                                ELSE s.calls[h]]

LEMMA GoesServed ==
    ASSUME NEW s \in State, NEW t \in State, Goes(s, t) PROVE Served(s, t)
<1>1. Socks(s) \subseteq Socks(t)
  BY SocksGrow DEF Goes, Issues
<1>2. Socks(s) \ Socks(t) = {}
  BY <1>1
<1>3. t.calls = [h \in Fds |-> IF h \in Socks(t) \ Socks(s) THEN 0 ELSE s.calls[h]]
  BY DEF Goes, Issues
<1>4. t.calls = [h \in Fds |-> IF h \in Socks(t) \ Socks(s) THEN 0
                               ELSE IF h \in Socks(s) \ Socks(t) THEN s.calls[h] + 1
                               ELSE s.calls[h]]
  BY <1>2, <1>3
<1>. QED  BY <1>2, <1>4 DEF Served

\* A request that is over: its callback, then its end.
LEMMA OverFacts ==
    ASSUME NEW s, Good(s), NEW r \in s.reqs, NEW status, NEW c \in Completed(s, r, status)
    PROVE  /\ Good(Ends(c, r)) /\ Served(s, Ends(c, r))
           /\ Later(s.list, s.ready, Ends(c, r).list, Ends(c, r).ready)
<1>1. PICK b \in AppCallback(s, r.kind, status) : c = [b EXCEPT !.calls[r.fd] = @ + 1]
  BY DEF Completed
<1>2. r.kind \in Kinds /\ r.fd \in Fds /\ s \in State
  BY DEF Good, Sane, State, Request
<1>3. Good(b) /\ Goes(s, b) /\ b \in State
  <2>1. Good(b) /\ Goes(s, b)
    BY <1>2, AppFacts
  <2>. QED  BY <2>1 DEF Good, Sane
<1>4. /\ c \in State /\ c.list = b.list /\ c.open = b.open /\ c.ready = b.ready
      /\ c.alarms = b.alarms /\ c.reqs = b.reqs /\ SameIds(b, c)
      /\ c.calls = [b.calls EXCEPT ![r.fd] = @ + 1]
  <2>1. PICK z : z = [b.calls EXCEPT ![r.fd] = @ + 1]
    OBVIOUS
  <2>2. z \in [Fds -> Nat]
    BY <1>2, <1>3, <2>1 DEF State
  <2>3. c = [b EXCEPT !.calls = z]
    BY <1>1, <1>3, <2>1 DEF State
  <2>. QED  BY <1>3, <2>1, <2>2, <2>3 DEF State, SameIds
<1>5. InStep(c)
  BY <1>3, <1>4 DEF Good, Sane, InStep, Timers, Socks
<1>6. Good(c) /\ r \in c.reqs
  BY <1>3, <1>4, <1>5 DEF Good, Sane, IdsKept, SameIds, Goes, Issues
<1>7. PICK t : t = Ends(c, r)
  OBVIOUS
<1>8. /\ Good(t) /\ Later(c.list, c.ready, t.list, t.ready)
      /\ Socks(t) = Socks(c) \ {r.fd} /\ t.calls = c.calls
  BY <1>6, <1>7, EndsFacts
<1>9. Later(s.list, s.ready, t.list, t.ready)
  <2>1. s.list \in Seq(Entry) /\ c.list \in Seq(Entry) /\ t.list \in Seq(Entry)
    BY <1>2, <1>4, <1>8 DEF Good, Sane, State
  <2>2. Later(s.list, s.ready, c.list, c.ready)
    BY <1>3, <1>4 DEF Goes
  <2>. QED  BY <1>8, <2>1, <2>2, LaterTrans
<1>10. Served(s, t)
  <2>1. /\ Socks(c) = Socks(b) /\ Socks(s) \subseteq Socks(b)
        /\ r.fd \in Socks(s)
    BY <1>3, <1>4, SocksGrow DEF Goes, Issues, Socks
  <2>2. Socks(s) \ Socks(t) = {r.fd}
    BY <1>8, <2>1
  <2>3. Socks(t) \ Socks(s) = Socks(b) \ Socks(s)
    BY <1>8, <2>1
  <2>4. \A h \in Fds : b.calls[h] = IF h \in Socks(b) \ Socks(s) THEN 0 ELSE s.calls[h]
    BY <1>3 DEF Goes, Issues
  <2>5. \A h \in Fds : c.calls[h] = IF h = r.fd THEN b.calls[h] + 1 ELSE b.calls[h]
    BY <1>3, <1>4 DEF State
  <2>6. \A h \in Fds : t.calls[h] = IF h \in Socks(t) \ Socks(s) THEN 0
                                    ELSE IF h \in Socks(s) \ Socks(t) THEN s.calls[h] + 1
                                    ELSE s.calls[h]
    BY <1>8, <2>1, <2>2, <2>3, <2>4, <2>5
  <2>7. t.calls \in [Fds -> Nat]
    BY <1>8 DEF Good, Sane, State
  <2>8. t.calls = [h \in Fds |-> IF h \in Socks(t) \ Socks(s) THEN 0
                                 ELSE IF h \in Socks(s) \ Socks(t) THEN s.calls[h] + 1
                                 ELSE s.calls[h]]
    BY <2>6, <2>7
  <2>. QED  BY <2>2, <2>8 DEF Served
<1>. QED  BY <1>7, <1>8, <1>9, <1>10

-----------------------------------------------------------------------------
\* What a callback of the scheduler may do, called for descriptor fd.
Handled(s, t, fd) ==
    /\ Good(t) /\ Served(s, t)
    /\ Later(s.list, s.ready \ {fd}, t.list, t.ready)

Read(s, fd) == [s EXCEPT !.ready = @ \ {fd}]

LEMMA ReadFacts ==
    ASSUME NEW s, Good(s), NEW fd
    PROVE  /\ Good(Read(s, fd))
           /\ Read(s, fd).list = s.list /\ Read(s, fd).ready = s.ready \ {fd}
           /\ Read(s, fd).reqs = s.reqs /\ Read(s, fd).calls = s.calls
           /\ Read(s, fd).alarms = s.alarms
<1>1. PICK t : t = Read(s, fd)
  OBVIOUS
<1>2. s \in State
  BY DEF Good, Sane
<1>3. /\ t \in State /\ t.list = s.list /\ t.open = s.open /\ t.ready = s.ready \ {fd}
      /\ t.alarms = s.alarms /\ t.reqs = s.reqs /\ t.calls = s.calls /\ SameIds(s, t)
  BY <1>1, <1>2 DEF State, SameIds, Read
<1>4. InStep(t)
  BY <1>3 DEF Good, Sane, InStep, Timers, Socks
<1>5. Good(t)
  BY <1>3, <1>4 DEF Good, Sane, IdsKept, SameIds
<1>. QED  BY <1>1, <1>3, <1>5

\* After the read, what the handler does to the rest.
LEMMA AfterRead ==
    ASSUME NEW s, Good(s), NEW fd, NEW t, Good(t),
           Served(Read(s, fd), t),
           Later(Read(s, fd).list, Read(s, fd).ready, t.list, t.ready)
    PROVE  Handled(s, t, fd)
<1>1. PICK u : u = Read(s, fd)
  OBVIOUS
<1>2. u.list = s.list /\ u.ready = s.ready \ {fd} /\ u.reqs = s.reqs /\ u.calls = s.calls
  BY <1>1, ReadFacts
<1>3. Socks(u) = Socks(s)
  BY <1>2 DEF Socks
<1>4. Served(s, t)
  BY <1>1, <1>2, <1>3 DEF Served
<1>5. Later(s.list, s.ready \ {fd}, t.list, t.ready)
  BY <1>1, <1>2
<1>. QED  BY <1>4, <1>5 DEF Handled

LEMMA GoesHandled ==
    ASSUME NEW s, Good(s), NEW fd, NEW t, Good(t), Goes(Read(s, fd), t)
    PROVE  Handled(s, t, fd)
<1>1. Read(s, fd) \in State /\ t \in State
  BY ReadFacts DEF Good, Sane
<1>2. Served(Read(s, fd), t)
  BY <1>1, GoesServed
<1>3. Later(Read(s, fd).list, Read(s, fd).ready, t.list, t.ready)
  BY DEF Goes
<1>. QED  BY <1>2, <1>3, AfterRead

\* An entry that is left from an earlier owner of the number.
LEMMA NothingHandled ==
    ASSUME NEW s, Good(s), NEW fd
    PROVE  Handled(s, s, fd) /\ Handled(s, Read(s, fd), fd)
<1>1. s \in State /\ s.list \in Seq(Entry)
  BY DEF Good, Sane, State
<1>2. Served(s, s)
  BY <1>1, GoesSame, GoesServed
<1>3. Later(s.list, s.ready \ {fd}, s.list, s.ready)
  BY <1>1, SameList
<1>4. Handled(s, s, fd)
  BY <1>2, <1>3 DEF Handled
<1>5. Good(Read(s, fd)) /\ Read(s, fd) \in State
  BY ReadFacts DEF Good, Sane
<1>6. Goes(Read(s, fd), Read(s, fd))
  BY <1>5, GoesSame
<1>. QED  BY <1>4, <1>5, <1>6, GoesHandled

LEMMA OverHandled ==
    ASSUME NEW s, Good(s), NEW fd, NEW r \in s.reqs, NEW status,
           NEW c \in Completed(Read(s, fd), r, status)
    PROVE  Handled(s, Ends(c, r), fd)
<1>1. Good(Read(s, fd)) /\ r \in Read(s, fd).reqs
  BY ReadFacts
<1>. QED  BY <1>1, OverFacts, AfterRead

\* coap_client_sched_callback
LEMMA CoapHandled ==
    ASSUME NEW s, Good(s), NEW fd, NEW t \in CoapCallback(s, fd)
    PROVE  Handled(s, t, fd)
<1>1. \/ t = s \/ t = Read(s, fd)
      \/ \E r \in s.reqs : \E c \in Completed(Read(s, fd), r, "ok")
                                      \cup Completed(Read(s, fd), r, "error") :
             t = Ends(c, r)
  BY DEF CoapCallback, Ends, Read
<1>. QED  BY <1>1, NothingHandled, OverHandled

\* atlas_coap_server_sched_callback
LEMMA ServerHandled ==
    ASSUME NEW s, Good(s), NEW t \in ServerCallback(s)
    PROVE  Handled(s, t, Server)
<1>1. PICK u : u = Read(s, Server)
  OBVIOUS
<1>2. Good(u)
  BY <1>1, ReadFacts
<1>3. t = u \/ t = PushSet(u) \/ t \in TelemetryPush(u)
  BY <1>1 DEF ServerCallback, ProcessRequest, Read
<1>4. CASE t = u
  BY <1>1, <1>4, NothingHandled
<1>5. CASE t = PushSet(u)
  BY <1>1, <1>2, <1>5, PushSetFacts, GoesHandled
<1>6. CASE t \in TelemetryPush(u)
  BY <1>1, <1>2, <1>6, PushFacts, GoesHandled
<1>. QED  BY <1>3, <1>4, <1>5, <1>6

\* atlas_alarm_trigger
LEMMA AlarmHandled ==
    ASSUME NEW s, Good(s), NEW fd, NEW t \in AlarmTrigger(s, fd)
    PROVE  Handled(s, t, fd)
<1>1. PICK u : u = Read(s, fd)
  OBVIOUS
<1>2. Good(u) /\ u.alarms = s.alarms /\ u.reqs = s.reqs
  BY <1>1, ReadFacts
<1>3. CASE {a \in s.alarms : a.id = fd} = {}
  BY <1>3, NothingHandled DEF AlarmTrigger
<1>4. CASE {a \in s.alarms : a.id = fd} # {}
  <2>0. PICK a \in s.alarms :
            /\ a.id = fd
            /\ \E c \in AlarmCallback(u, a) :
                   t = IF RunOnce(a.cb) THEN AlarmCancel(c, fd) ELSE c
    BY <1>1, <1>4 DEF AlarmTrigger, Read
  <2>1. PICK c \in AlarmCallback(u, a) :
            t = IF RunOnce(a.cb) THEN AlarmCancel(c, fd) ELSE c
    BY <2>0
  <2>2. CASE a.cb = "request"
    <3>1. PICK r \in u.reqs : r.alarm = a.id
      BY <1>2, <2>2 DEF Good, Sane, InStep
    <3>2. PICK q \in u.reqs :
              /\ q.alarm = a.id
              /\ \E b \in Completed(u, q, "timeout") : c = Unlink(b, q)
      BY <2>1, <2>2, <3>1 DEF AlarmCallback, RequestAlarm
    <3>4. PICK b \in Completed(u, q, "timeout") : c = Unlink(b, q)
      BY <3>2
    <3>3. t = Ends(b, q)
      BY <2>0, <2>1, <2>2, <3>2, <3>4 DEF RunOnce, Ends
    <3>. QED  BY <1>1, <1>2, <3>3, <3>4, OverHandled
  <2>3. CASE a.cb = "register"
    <3>1. c \in CoapRequest(u, "register") /\ t = AlarmCancel(c, fd)
      BY <2>1, <2>3 DEF AlarmCallback, RunOnce
    <3>2. Good(c) /\ Goes(u, c) /\ u.alarms \subseteq c.alarms
      BY <1>2, <3>1, CoapRequestFacts DEF Kinds
    <3>3. \A b \in c.alarms : b.id = fd => b.cb = "register"
      BY <1>2, <2>0, <2>3, <3>2 DEF Good, Sane, InStep
    <3>4. /\ Sane(t) /\ Goes(c, t) /\ SameIds(c, t)
          /\ t.alarms = {b \in c.alarms : b.id # fd}
      BY <3>1, <3>2, <3>3, CancelFacts DEF Good
    <3>5. IdsKept(t)
      <4>1. ASSUME NEW b \in c.alarms, b.cb # "register" PROVE b \in t.alarms
        BY <3>3, <3>4, <4>1
      <4>2. ASSUME c.ka_alarm_id \in Fds
            PROVE  [id |-> c.ka_alarm_id, cb |-> "keepalive"] \in t.alarms
        BY <3>2, <4>1, <4>2 DEF Good, IdsKept
      <4>3. ASSUME c.push_id \in Fds
            PROVE  [id |-> c.push_id, cb |-> "push"] \in t.alarms
        BY <3>2, <4>1, <4>3 DEF Good, IdsKept
      <4>. QED  BY <3>4, <4>2, <4>3 DEF IdsKept, SameIds
    <3>6. u \in State /\ c \in State /\ t \in State
      BY <1>2, <3>2, <3>4 DEF Good, Sane
    <3>7. Goes(u, t)
      BY <3>2, <3>4, <3>6, GoesTrans
    <3>. QED  BY <1>1, <3>4, <3>5, <3>7, GoesHandled DEF Good
  <2>4. CASE a.cb = "keepalive"
    <3>1. c \in CoapRequest(u, "keepalive") /\ t = c
      BY <2>1, <2>4 DEF AlarmCallback, RunOnce
    <3>. QED  BY <1>1, <1>2, <3>1, CoapRequestFacts, GoesHandled DEF Kinds
  <2>5. CASE a.cb = "push"
    <3>1. c \in TelemetryPush(u) /\ t = c
      BY <2>1, <2>5 DEF AlarmCallback, RunOnce
    <3>. QED  BY <1>1, <1>2, <3>1, PushFacts, GoesHandled
  <2>6. a.cb \in {"request", "register", "keepalive", "push"}
    BY DEF Good, Sane, State, Alarm
  <2>. QED  BY <2>2, <2>3, <2>4, <2>5, <2>6
<1>. QED  BY <1>3, <1>4

LEMMA CallbackFacts ==
    ASSUME NEW s, Good(s), NEW e \in Entry, NEW t \in Callback(s, e)
    PROVE  Handled(s, t, e.fd)
<1>1. CASE e.cb = "server"
  <2>1. e.fd = Server /\ t \in ServerCallback(s)
    BY <1>1 DEF Entry, Callback
  <2>. QED  BY <2>1, ServerHandled
<1>2. CASE e.cb = "alarm"
  <2>1. t \in AlarmTrigger(s, e.fd)
    BY <1>2 DEF Callback
  <2>. QED  BY <2>1, AlarmHandled
<1>3. CASE e.cb = "coap"
  <2>1. t \in CoapCallback(s, e.fd)
    BY <1>3 DEF Callback
  <2>. QED  BY <2>1, CoapHandled
<1>4. e.cb \in {"server", "alarm", "coap"}
  BY DEF Entry
<1>. QED  BY <1>1, <1>2, <1>3, <1>4

-----------------------------------------------------------------------------
\* The sweep, after the first i entries of l.
Keep(m, e) == IF e.dirty = 1 THEN m ELSE Append(m, e)
SweptTo(l, i, m) ==
    /\ m \in Seq(Entry)
    /\ \A k \in 1 .. Len(m) : m[k].dirty = 0 /\ \E j \in 1 .. i : l[j] = m[k]
    /\ \A j \in 1 .. i : l[j].dirty = 0 => \E k \in 1 .. Len(m) : m[k] = l[j]

LEMMA KeepFacts ==
    ASSUME NEW l \in Seq(Entry), NEW i \in 1 .. Len(l), NEW m, SweptTo(l, i - 1, m)
    PROVE  SweptTo(l, i, Keep(m, l[i]))
<1>1. PICK n, e : n = Len(l) /\ e = l[i]
  OBVIOUS
<1>2. n \in Nat /\ i \in 1 .. n /\ e \in Entry /\ e.dirty \in {0, 1}
  <2>1. n \in Nat /\ i \in 1 .. n
    BY <1>1, LenProperties
  <2>2. e \in Entry
    BY <1>1, <2>1, ElementOfSeq
  <2>. QED  BY <2>1, <2>2 DEF Entry
<1>3. \A j \in 1 .. i : j = i \/ j \in 1 .. i - 1
  BY <1>2
<1>4. \A j \in 1 .. i - 1 : j \in 1 .. i /\ j \in 1 .. n /\ j # i
  BY <1>2
<1>5. CASE e.dirty = 1
  <2>1. Keep(m, l[i]) = m
    BY <1>1, <1>5 DEF Keep
  <2>. QED  BY <1>1, <1>2, <1>3, <1>4, <1>5, <2>1 DEF SweptTo
<1>6. CASE e.dirty = 0
  <2>1. PICK k, p : k = Len(m) /\ p = Append(m, e)
    OBVIOUS
  <2>2. Keep(m, l[i]) = p
    BY <1>1, <1>6, <2>1 DEF Keep
  <2>3. /\ p \in Seq(Entry) /\ Len(p) = k + 1 /\ k \in Nat
        /\ p[k + 1] = e /\ \A j \in 1 .. k : p[j] = m[j]
    BY <1>2, <2>1, AppendProperties, LenProperties DEF SweptTo
  <2>4. \A j \in 1 .. Len(p) : j = k + 1 \/ j \in 1 .. k
    BY <2>3
  <2>5. \A j \in 1 .. k : j \in 1 .. Len(p)
    BY <2>3
  <2>6. k + 1 \in 1 .. Len(p)
    BY <2>3
  <2>7. ASSUME NEW j \in 1 .. Len(p)
        PROVE  p[j].dirty = 0 /\ \E h \in 1 .. i : l[h] = p[j]
    <3>1. CASE j = k + 1
      BY <1>1, <1>2, <1>6, <2>3, <3>1
    <3>2. CASE j \in 1 .. k
      BY <1>4, <2>1, <2>3, <3>2 DEF SweptTo
    <3>. QED  BY <2>4, <3>1, <3>2
  <2>8. ASSUME NEW j \in 1 .. i, l[j].dirty = 0
        PROVE  \E h \in 1 .. Len(p) : p[h] = l[j]
    <3>1. CASE j = i
      BY <1>1, <2>3, <2>6, <3>1
    <3>2. CASE j \in 1 .. i - 1
      BY <2>1, <2>3, <2>5, <2>8, <3>2 DEF SweptTo
    <3>. QED  BY <1>3, <3>1, <3>2
  <2>. QED  BY <2>2, <2>3, <2>7, <2>8 DEF SweptTo
<1>. QED  BY <1>2, <1>5, <1>6

\* The sweep keeps the entries that are not deleted, and no other.
LEMMA SweptFacts ==
    ASSUME NEW l \in Seq(Entry) PROVE SweptTo(l, Len(l), Swept(l))
<1> DEFINE X == Seq(Entry)
           n == Len(l)
           Is(t) == t = [i \in 0 .. n |-> IF i = 0 THEN <<>>
                                          ELSE IF l[i].dirty = 1 THEN t[i - 1]
                                          ELSE Append(t[i - 1], l[i])]
           u == CHOOSE t : Is(t)
           F == [z \in (1 .. n) \X X |-> Keep(z[2], l[z[1]])]
<1>1. n \in Nat /\ <<>> \in X
  BY LenProperties
<1>2. ASSUME NEW i \in 1 .. n, NEW m \in X PROVE Keep(m, l[i]) \in X
  <2>1. l[i] \in Entry
    BY <1>1, ElementOfSeq
  <2>. QED  BY <2>1, AppendProperties DEF Keep
<1>3. StepsIn(X, n, F)
  BY <1>2 DEF StepsIn
<1>4. PICK t : Follows(t, X, <<>>, n, F)
  <2> HIDE DEF F, n, X
  <2>. QED  BY <1>1, <1>3, Recursion
<1>5. Is(t)
  <2>1. ASSUME NEW i \in 0 .. n
        PROVE  t[i] = IF i = 0 THEN <<>> ELSE IF l[i].dirty = 1 THEN t[i - 1]
                      ELSE Append(t[i - 1], l[i])
    <3>1. CASE i = 0
      BY <1>4, <3>1 DEF Follows
    <3>2. CASE i # 0
      <4>1. i \in 1 .. n /\ i - 1 \in 0 .. n
        BY <1>1, <3>2
      <4>2. t[i - 1] \in X
        BY <1>4, <4>1 DEF Follows
      <4>3. F[<<i, t[i - 1]>>] = Keep(t[i - 1], l[i])
        BY <4>1, <4>2
      <4>. QED  BY <1>4, <3>2, <4>1, <4>3 DEF Follows, Keep
    <3>. QED  BY <3>1, <3>2
  <2>2. t = [i \in 0 .. n |-> t[i]]
    BY <1>4 DEF Follows
  <2> HIDE DEF n, X
  <2>. QED  BY <2>1, <2>2
<1>6. Is(u)
  <2> HIDE DEF Is
  <2>. QED  BY <1>5, Zenon
<1>7. Swept(l) = u[n]
  BY DEF Swept
<1>8. PICK v : v = u
  OBVIOUS
<1>9. v[0] = <<>> /\ \A i \in 1 .. n : v[i] = Keep(v[i - 1], l[i])
  <2>1. Is(v)
    BY <1>6, <1>8
  <2>2. \A i \in 0 .. n : v[i] = IF i = 0 THEN <<>>
                              ELSE IF l[i].dirty = 1 THEN v[i - 1]
                              ELSE Append(v[i - 1], l[i])
    <3> HIDE DEF n, u
    <3>. QED  BY <2>1
  <2>3. 0 \in 0 .. n /\ \A i \in 1 .. n : i \in 0 .. n /\ i # 0
    BY <1>1
  <2> HIDE DEF n, u
  <2>. QED  BY <2>2, <2>3, Zenon DEF Keep
<1>10. SweptTo(l, 0, v[0])
  BY <1>9 DEF SweptTo
<1> DEFINE Bad == {i \in 0 .. n : ~SweptTo(l, i, v[i])}
<1>11. ASSUME Bad # {} PROVE FALSE
  <2>0. Bad \subseteq Nat
    OBVIOUS
  <2>1. PICK m \in Bad : \A k \in Bad : m <= k
    BY <1>11, <2>0, Least
  <2>2. m # 0
    BY <1>10
  <2>3. m \in 1 .. n /\ m - 1 \in 0 .. n /\ ~(m <= m - 1)
    BY <1>1, <2>1, <2>2
  <2>4. SweptTo(l, m - 1, v[m - 1])
    BY <2>1, <2>3
  <2>5. SweptTo(l, m, Keep(v[m - 1], l[m]))
    BY <2>3, <2>4, KeepFacts
  <2>. QED  BY <1>9, <2>1, <2>3, <2>5
<1>12. SweptTo(l, n, v[n])
  BY <1>1, <1>11
<1>. QED  BY <1>7, <1>8, <1>12

-----------------------------------------------------------------------------
\* main, with the register request in 1 and 2.
LEMMA LeastAt ==
    ASSUME NEW T, T \subseteq Nat, NEW k \in T, \A j \in T : k <= j
    PROVE  Min(T) = k
<1>1. PICK m : m = Min(T)
  OBVIOUS
<1>2. m \in T /\ m <= k
  BY <1>1, MinOf
<1>3. k <= m /\ m \in Nat /\ k \in Nat
  BY <1>2
<1>. QED  BY <1>1, <1>2, <1>3

LEMMA BootFacts ==
    /\ Boot \in State /\ Accepted(Boot, "register") \in State
    /\ Requested(Boot, Accepted(Boot, "register"), 1, 2, "register")
<1>1. MaxFd \in Nat /\ MaxFd >= 3
  BY EventLoopAssumption
<1>2. PICK b : b = Boot
  OBVIOUS
<1>3. /\ b \in State /\ b.open = {} /\ b.list = <<>>
  <2>1. /\ <<>> \in Seq(Entry) /\ [fd \in Fds |-> 0] \in [Fds -> Nat]
    OBVIOUS
  <2>. QED  BY <1>2, <2>1 DEF Boot, State
<1>5. Free(b) = Fds
  BY <1>3 DEF Free
<1>6. Fds \subseteq Nat /\ 1 \in Fds /\ 2 \in Fds /\ \A j \in Fds : 1 <= j
  BY <1>1 DEF Fds
<1>7. Min(Free(b)) = 1
  BY <1>5, <1>6, LeastAt
<1>8. PICK o : o = OpenFd(b)
  OBVIOUS
<1>9. o.open = {1} /\ o.list = <<>>
  BY <1>3, <1>7, <1>8 DEF OpenFd, State
<1>11. Free(o) = Fds \ {1}
  BY <1>9 DEF Free
<1>12. /\ Fds \ {1} \subseteq Nat /\ 2 \in Fds \ {1}
       /\ \A j \in Fds \ {1} : 2 <= j
  BY <1>1, <1>6 DEF Fds
<1>13. Min(Free(o)) = 2
  BY <1>11, <1>12, LeastAt
<1>14. Free(b) # {} /\ Free(OpenFd(b)) # {}
  BY <1>5, <1>6, <1>8, <1>11, <1>12
<1>15. "register" \in Kinds
  BY DEF Kinds
<1>16. PICK c : c = Accepted(b, "register")
  OBVIOUS
<1>17. c \in State /\ \E f \in Fds \ b.open, g \in Fds \ b.open :
           /\ f = Min(Free(b)) /\ g = Min(Free(OpenFd(b)))
           /\ Requested(b, c, f, g, "register")
  BY <1>3, <1>14, <1>15, <1>16, RequestFields
<1>18. Requested(b, c, 1, 2, "register")
  BY <1>7, <1>8, <1>13, <1>17
<1>. QED  BY <1>2, <1>3, <1>16, <1>17, <1>18

\* What the program has when the loop starts.
LEMMA InitState ==
    ASSUME Init
    PROVE  /\ Good(st) /\ st.ready = {} /\ st.calls = [fd \in Fds |-> 0]
           /\ \A i \in DOMAIN st.list : st.list[i].dirty = 0
<1>0. MaxFd \in Nat /\ MaxFd >= 3
  BY EventLoopAssumption
<1>1. PICK c : c = Accepted(Boot, "register")
  OBVIOUS
<1>2. PICK x, y, z, l, m, n :
          /\ x = [fd |-> 2, cb |-> "alarm", dirty |-> 0]
          /\ y = [fd |-> 1, cb |-> "coap", dirty |-> 0]
          /\ z = [fd |-> Server, cb |-> "server", dirty |-> 0]
          /\ l = Append(<<>>, x) /\ m = Append(l, y) /\ n = Append(m, z)
  OBVIOUS
<1>3. /\ x \in Entry /\ x.fd = 2 /\ x.dirty = 0
      /\ y \in Entry /\ y.fd = 1 /\ y.dirty = 0
      /\ z \in Entry /\ z.fd = 3 /\ z.dirty = 0
  BY <1>0, <1>2 DEF Entry, Fds, Server
<1>4. /\ c \in State /\ c.open = {1, 2} /\ c.ready = {} /\ c.list = m
      /\ c.alarms = {[id |-> 2, cb |-> "request"]}
      /\ c.reqs = {[fd |-> 1, alarm |-> 2, kind |-> "register"]}
      /\ c.calls = [fd \in Fds |-> 0] /\ c.ka_alarm_id = 0 /\ c.push_id = -1
  <2>1. c \in State /\ Requested(Boot, c, 1, 2, "register")
    BY <1>1, BootFacts
  <2>2. [[fd \in Fds |-> 0] EXCEPT ![1] = 0] = [fd \in Fds |-> 0]
    OBVIOUS
  <2>. QED  BY <1>2, <2>1, <2>2 DEF Requested, Boot
<1>5. /\ l \in Seq(Entry) /\ Attended(l, {2}) /\ Shadowed(l, {2})
      /\ \A i \in DOMAIN l : l[i] = x
  <2>1. /\ <<>> \in Seq(Entry) /\ Attended(<<>>, {}) /\ Shadowed(<<>>, {})
        /\ DOMAIN <<>> = {}
    BY DEF Attended, Shadowed
  <2>2. {} \cup {x.fd} = {2} /\ \A i \in DOMAIN <<>> : <<>>[i].fd # x.fd
    BY <1>3, <2>1
  <2>3. /\ Append(<<>>, x) \in Seq(Entry) /\ Attended(Append(<<>>, x), {} \cup {x.fd})
        /\ Shadowed(Append(<<>>, x), {} \cup {x.fd})
        /\ \A i \in DOMAIN Append(<<>>, x) :
               (i \in DOMAIN <<>> /\ Append(<<>>, x)[i] = <<>>[i]) \/ Append(<<>>, x)[i] = x
    BY <1>3, <2>1, <2>2, ListAdd
  <2>. QED  BY <1>2, <2>1, <2>2, <2>3, Zenon
<1>6. /\ m \in Seq(Entry) /\ Attended(m, {1, 2}) /\ Shadowed(m, {1, 2})
      /\ \A i \in DOMAIN m : m[i] = x \/ m[i] = y
  <2>1. {2} \cup {y.fd} = {1, 2} /\ \A i \in DOMAIN l : l[i].fd # y.fd
    BY <1>3, <1>5
  <2>2. /\ Append(l, y) \in Seq(Entry) /\ Attended(Append(l, y), {2} \cup {y.fd})
        /\ Shadowed(Append(l, y), {2} \cup {y.fd})
        /\ \A i \in DOMAIN Append(l, y) :
               (i \in DOMAIN l /\ Append(l, y)[i] = l[i]) \/ Append(l, y)[i] = y
    BY <1>3, <1>5, <2>1, ListAdd
  <2>. QED  BY <1>2, <1>5, <2>1, <2>2, Zenon
<1>7. /\ n \in Seq(Entry) /\ Attended(n, {1, 2, 3})
      /\ Shadowed(n, {1, 2, 3})
      /\ \A i \in DOMAIN n : n[i] = x \/ n[i] = y \/ n[i] = z
  <2>1. {1, 2} \cup {z.fd} = {1, 2, 3} /\ \A i \in DOMAIN m : m[i].fd # z.fd
    BY <1>3, <1>6
  <2>2. /\ Append(m, z) \in Seq(Entry) /\ Attended(Append(m, z), {1, 2} \cup {z.fd})
        /\ Shadowed(Append(m, z), {1, 2} \cup {z.fd})
        /\ \A i \in DOMAIN Append(m, z) :
               (i \in DOMAIN m /\ Append(m, z)[i] = m[i]) \/ Append(m, z)[i] = z
    BY <1>3, <1>6, <2>1, ListAdd
  <2>3. \A i \in DOMAIN n : (i \in DOMAIN m /\ n[i] = m[i]) \/ n[i] = z
    BY <1>2, <2>2, Zenon
  <2>4. \A i \in DOMAIN n : n[i] = x \/ n[i] = y \/ n[i] = z
    BY <1>6, <2>3
  <2>5. /\ n \in Seq(Entry) /\ Attended(n, {1, 2, 3})
        /\ Shadowed(n, {1, 2, 3})
    BY <1>2, <2>1, <2>2, Zenon
  <2>. QED  BY <2>4, <2>5
<1>9. Free(c) = Fds \ {1, 2}
  BY <1>4 DEF Free
<1>10. /\ Fds \ {1, 2} \subseteq Nat /\ 3 \in Fds \ {1, 2}
       /\ \A j \in Fds \ {1, 2} : 3 <= j
  BY <1>0 DEF Fds
<1>11. Min(Free(c)) = 3
  BY <1>9, <1>10, LeastAt
<1>12. st = [[c EXCEPT !.open = @ \cup {3}] EXCEPT !.list = Append(@, z)]
  BY <1>1, <1>2, <1>11 DEF Init, OpenFd, SchedAdd
<1>13. /\ st \in State /\ st.open = {1, 2, 3} /\ st.ready = {} /\ st.list = n
       /\ st.alarms = c.alarms /\ st.reqs = c.reqs /\ st.calls = c.calls
       /\ st.ka_alarm_id = 0 /\ st.push_id = -1
  <2>1. /\ c.open \cup {3} = {1, 2, 3} /\ {1, 2, 3} \subseteq Fds
        /\ Append(c.list, z) = n
    <3>1. c.open \cup {3} = {1, 2, 3}
      BY <1>4
    <3>2. {1, 2, 3} \subseteq Fds
      BY <1>0 DEF Fds
    <3>. QED  BY <1>2, <1>4, <3>1, <3>2, Zenon
  <2>2. st = [[c EXCEPT !.open = {1, 2, 3}] EXCEPT !.list = n]
    BY <1>4, <1>12, <2>1 DEF State
  <2>. QED  BY <1>4, <1>7, <2>1, <2>2 DEF State
<1>14. InStep(st)
  <2>1. PICK a, r : /\ a = [id |-> 2, cb |-> "request"]
                    /\ r = [fd |-> 1, alarm |-> 2, kind |-> "register"]
    OBVIOUS
  <2>2. /\ st.alarms = {a} /\ st.reqs = {r} /\ a.id = 2 /\ a.cb = "request"
        /\ r.fd = 1 /\ r.alarm = 2
    BY <1>4, <1>13, <2>1
  <2>3. Timers(st) = {2} /\ Socks(st) = {1}
    BY <2>2 DEF Timers, Socks
  <2>4. [id |-> r.alarm, cb |-> "request"] = a
    BY <2>1, <2>2
  <2>. QED  BY <1>13, <2>2, <2>3, <2>4 DEF InStep, Server
<1>15. IdsKept(st)
  BY <1>13, FdFacts DEF IdsKept
<1>16. \A i \in DOMAIN st.list : st.list[i].dirty = 0
  BY <1>3, <1>7, <1>13
<1>. QED  BY <1>4, <1>7, <1>13, <1>14, <1>15, <1>16 DEF Good, Sane

-----------------------------------------------------------------------------
\* The list is a sequence and the locals of the loop have their types.
LEMMA ListFacts ==
    ASSUME IInv
    PROVE  /\ st \in State /\ st.list \in Seq(Entry) /\ Len(st.list) \in Nat
           /\ DOMAIN st.list = 1 .. Len(st.list)
           /\ \A i \in 1 .. Len(st.list) : st.list[i] \in Entry
           /\ pos \in 0 .. Len(st.list) /\ bits \subseteq Fds
<1>1. st \in State /\ st.list \in Seq(Entry)
  BY DEF IInv, TypeOK, State
<1>. QED  BY <1>1, LenProperties, ElementOfSeq DEF IInv, TypeOK

LEMMA InitIInv == ASSUME Init PROVE IInv
<1>1. /\ Good(st) /\ st.ready = {}
      /\ \A i \in DOMAIN st.list : st.list[i].dirty = 0
  BY InitState
<1>2. st \in State /\ st.list \in Seq(Entry)
  BY <1>1 DEF Good, Sane, State
<1>3. phase = "select" /\ pos = 0 /\ bits = {}
  BY DEF Init
<1>4. Len(st.list) \in Nat
  BY <1>2, LenProperties
<1>5. TypeOK
  BY <1>1, <1>2, <1>3, <1>4 DEF TypeOK
<1>. QED
  BY <1>1, <1>3, <1>5
  DEF IInv, Good, Sane, Kept, InPass, BlocksOnlyOnReuse, StrayOnlyOnReuse

LEMMA SelectStep == ASSUME IInv, SelectReturns PROVE IInv' /\ Served(st, st')
<1>1. /\ bits' = Listed(st) \cap st.ready /\ phase' = "dispatch" /\ pos' = 0 /\ st' = st
      /\ Listed(st) \subseteq st.open
  BY DEF SelectReturns, Watched
<1>2. st \in State /\ Len(st.list) \in Nat
  BY ListFacts
<1>3. TypeOK'
  BY <1>1, <1>2 DEF IInv, TypeOK, State
<1>4. InPass'
  BY <1>1 DEF InPass
<1>5. Served(st, st')
  BY <1>1, <1>2, GoesSame, GoesServed
<1>6. StrayOnlyOnReuse'
  BY <1>1 DEF StrayOnlyOnReuse, Shadowed, Listed
<1>. QED  BY <1>1, <1>3, <1>4, <1>5, <1>6 DEF IInv, Kept, BlocksOnlyOnReuse

\* In the middle of a pass the handlers find the state they need.
LEMMA GoodInPass == ASSUME IInv, phase # "select" PROVE Good(st)
  BY DEF IInv, Kept, StrayOnlyOnReuse, Good, Sane

\* A callback for entry m of the list, in the middle of a pass.
LEMMA PassFacts ==
    ASSUME IInv, phase # "select", NEW t, NEW m \in 1 .. Len(st.list), pos <= m,
           Handled(st, t, st.list[m].fd)
    PROVE  /\ Good(t) /\ t \in State /\ t.ready \subseteq t.open /\ m \in 0 .. Len(t.list)
           /\ bits \ {st.list[m].fd} \subseteq Listed(t)
           /\ \A i \in m + 1 .. Len(t.list) :
                  /\ FirstOf(t.list, i) /\ t.list[i].dirty = 0
                  /\ t.list[i].fd \in bits \ {st.list[m].fd}
                  => t.list[i].fd \in t.ready
<1>1. PICK l, k, p, q, x : l = st.list /\ k = t.list /\ p = Len(l) /\ q = Len(k) /\ x = l[m].fd
  OBVIOUS
<1>2. /\ Good(t) /\ t \in State /\ t.ready \subseteq t.open
      /\ Later(l, st.ready \ {x}, k, t.ready)
  BY <1>1 DEF Handled, Good, Sane
<1>3. /\ p \in Nat /\ q \in Nat /\ p <= q /\ DOMAIN l = 1 .. p /\ DOMAIN k = 1 .. q
      /\ m \in 1 .. p /\ pos \in Nat
      /\ \A i \in 1 .. p : l[i].dirty \in {0, 1}
  <2>1. p \in Nat /\ DOMAIN l = 1 .. p /\ m \in 1 .. p /\ pos \in Nat
    BY <1>1, ListFacts
  <2>2. k \in Seq(Entry)
    BY <1>1, <1>2 DEF State
  <2>3. q \in Nat /\ DOMAIN k = 1 .. q
    BY <1>1, <2>2, LenProperties
  <2>4. p <= q
    BY <1>1, <1>2 DEF Later
  <2>5. \A i \in 1 .. p : l[i].dirty \in {0, 1}
    BY <1>1, ListFacts DEF Entry
  <2>. QED  BY <2>1, <2>3, <2>4, <2>5
<1>4. \A i \in 1 .. p :
          /\ k[i].fd = l[i].fd /\ (k[i].dirty = 0 => l[i].dirty = 0)
          /\ FirstOf(l, i) /\ k[i].dirty = 0 /\ l[i].fd \in st.ready \ {x}
             => l[i].fd \in t.ready
  BY <1>1, <1>2, <1>3 DEF Later
<1>5. \A b \in bits : \E i \in 1 .. p : l[i].fd = b
  BY <1>1, <1>3 DEF IInv, InPass, Listed
<1>6. \A i \in 1 .. p : i \in 1 .. q
  BY <1>3
<1>7. bits \ {x} \subseteq Listed(t)
  <2>1. ASSUME NEW b \in bits PROVE b \in Listed(t)
    <3>1. PICK i \in 1 .. p : l[i].fd = b
      BY <1>5
    <3>2. i \in DOMAIN k /\ k[i].fd = b
      BY <1>3, <1>4, <1>6, <3>1
    <3>. QED  BY <1>1, <3>2 DEF Listed
  <2>. QED  BY <2>1
<1>8. ASSUME NEW i \in m + 1 .. q, FirstOf(k, i), k[i].dirty = 0, k[i].fd \in bits \ {x}
      PROVE  k[i].fd \in t.ready
  <2>1. PICK j \in 1 .. p : l[j].fd = k[i].fd
    BY <1>5, <1>8
  <2>2. j \in DOMAIN k /\ k[j].fd = k[i].fd
    BY <1>3, <1>4, <1>6, <2>1
  <2>3. i <= j
    BY <1>8, <2>2 DEF FirstOf
  <2>4. i \in 1 .. p /\ i \in pos + 1 .. p
    BY <1>3, <2>3
  <2>5. k[i].fd = l[i].fd /\ l[i].dirty = 0
    BY <1>4, <1>8, <2>4
  <2>6. FirstOf(l, i)
    BY <1>3, <1>4, <1>6, <1>8, <2>4 DEF FirstOf
  <2>7. l[i].fd \in st.ready
    BY <1>1, <1>8, <2>4, <2>5, <2>6 DEF IInv, InPass
  <2>. QED  BY <1>4, <1>8, <2>4, <2>5, <2>6, <2>7
<1>9. m \in 0 .. q
  BY <1>3
<1>. QED  BY <1>1, <1>2, <1>7, <1>8, <1>9

LEMMA DueFacts ==
    ASSUME IInv, Due # {}
    PROVE  /\ Min(Due) \in pos + 1 .. Len(st.list) /\ Min(Due) \in 1 .. Len(st.list)
           /\ st.list[Min(Due)].dirty = 0 /\ st.list[Min(Due)].fd \in bits
<1>1. Len(st.list) \in Nat /\ pos \in Nat
  BY ListFacts
<1>2. Due \subseteq Nat
  BY <1>1 DEF Due
<1>3. Min(Due) \in Due
  BY <1>2, MinOf
<1>4. PICK m : m = Min(Due)
  OBVIOUS
<1>5. /\ m \in pos + 1 .. Len(st.list)
      /\ st.list[m].dirty = 0 /\ st.list[m].fd \in bits
  BY <1>3, <1>4 DEF Due
<1>6. m \in 1 .. Len(st.list)
  BY <1>1, <1>5
<1>. QED  BY <1>4, <1>5, <1>6

LEMMA DispatchStep == ASSUME IInv, Dispatch PROVE IInv' /\ Served(st, st')
<1>1. PICK m, e : m = Min(Due) /\ e = st.list[m]
  OBVIOUS
<1>2. /\ m \in pos + 1 .. Len(st.list) /\ m \in 1 .. Len(st.list)
      /\ e.dirty = 0 /\ e.fd \in bits /\ phase = "dispatch" /\ pos' = m
  BY <1>1, DueFacts DEF Dispatch
<1>3. /\ Len(st.list) \in Nat /\ pos \in Nat /\ e \in Entry /\ st \in State
      /\ DOMAIN st.list = 1 .. Len(st.list)
  BY <1>1, <1>2, ListFacts
<1>4. CASE Blocks(e)
  <2>1. phase' = "read" /\ st' = st /\ bits' = bits
    BY <1>1, <1>4 DEF Dispatch
  <2>2. TypeOK'
    BY <1>2, <1>3, <2>1 DEF IInv, TypeOK
  <2>3. \A i \in m + 1 .. Len(st.list) : i \in pos + 1 .. Len(st.list)
    BY <1>2, <1>3
  <2>4. InPass'
    BY <1>2, <2>1, <2>3 DEF IInv, InPass
  <2>5. ~FirstOf(st.list, m)
    BY <1>1, <1>2, <1>4 DEF IInv, InPass, Blocks
  <2>6. PICK j \in 1 .. Len(st.list) : st.list[j].fd = st.list[m].fd /\ ~(m <= j)
    BY <1>3, <2>5 DEF FirstOf
  <2>7. j \in 1 .. m - 1
    BY <1>2, <1>3, <2>6
  <2>8. BlocksOnlyOnReuse'
    BY <1>2, <2>1, <2>6, <2>7 DEF BlocksOnlyOnReuse
  <2>9. Served(st, st')
    BY <1>3, <2>1, GoesSame, GoesServed
  <2>10. StrayOnlyOnReuse' /\ Kept(st')
    BY <1>2, <2>1 DEF IInv, Kept, StrayOnlyOnReuse
  <2>. QED  BY <2>2, <2>4, <2>8, <2>9, <2>10 DEF IInv
<1>5. CASE ~Blocks(e)
  <2>1. st' \in Callback(st, e) /\ bits' = bits \ {e.fd} /\ phase' = phase
    BY <1>1, <1>5 DEF Dispatch
  <2>2. Handled(st, st', e.fd)
    BY <1>2, <1>3, <2>1, GoodInPass, CallbackFacts
  <2>3. pos <= m
    BY <1>2, <1>3
  <2>4. /\ Good(st') /\ st' \in State /\ st'.ready \subseteq st'.open
        /\ m \in 0 .. Len(st'.list) /\ bits \ {e.fd} \subseteq Listed(st')
        /\ \A i \in m + 1 .. Len(st'.list) :
               /\ FirstOf(st'.list, i) /\ st'.list[i].dirty = 0
               /\ st'.list[i].fd \in bits \ {e.fd}
               => st'.list[i].fd \in st'.ready
    BY <1>1, <1>2, <2>2, <2>3, PassFacts
  <2>5. TypeOK'
    BY <1>2, <1>3, <2>1, <2>4, ListFacts DEF TypeOK
  <2>6. InPass'
    BY <1>2, <2>1, <2>4 DEF InPass
  <2>7. BlocksOnlyOnReuse'
    BY <1>2, <2>1 DEF BlocksOnlyOnReuse
  <2>8. StrayOnlyOnReuse' /\ Kept(st')
    BY <2>4 DEF Good, Sane, Kept, StrayOnlyOnReuse
  <2>. QED  BY <2>2, <2>5, <2>6, <2>7, <2>8 DEF IInv, Handled
<1>. QED  BY <1>4, <1>5

LEMMA ReadStep == ASSUME IInv, ReadReturns PROVE IInv' /\ Served(st, st')
<1>1. PICK m, e : m = pos /\ e = st.list[m]
  OBVIOUS
<1>2. /\ phase = "read" /\ st' \in Callback(st, e) /\ bits' = bits \ {e.fd}
      /\ phase' = "dispatch" /\ pos' = m
  BY <1>1 DEF ReadReturns
<1>3. /\ Len(st.list) \in Nat /\ pos \in 0 .. Len(st.list) /\ bits \subseteq Fds
  BY ListFacts
<1>4. m \in 1 .. Len(st.list) /\ pos <= m
  <2>1. PICK i \in 1 .. pos - 1 : TRUE
    BY <1>2 DEF IInv, BlocksOnlyOnReuse
  <2>. QED  BY <1>1, <1>3, <2>1
<1>5. e \in Entry
  BY <1>1, <1>4, ListFacts
<1>6. Handled(st, st', e.fd)
  BY <1>2, <1>5, GoodInPass, CallbackFacts
<1>7. /\ Good(st') /\ st' \in State /\ st'.ready \subseteq st'.open
      /\ m \in 0 .. Len(st'.list) /\ bits \ {e.fd} \subseteq Listed(st')
      /\ \A i \in m + 1 .. Len(st'.list) :
             /\ FirstOf(st'.list, i) /\ st'.list[i].dirty = 0
             /\ st'.list[i].fd \in bits \ {e.fd}
             => st'.list[i].fd \in st'.ready
  BY <1>1, <1>2, <1>4, <1>6, PassFacts
<1>8. TypeOK'
  BY <1>2, <1>3, <1>7 DEF TypeOK
<1>9. InPass'
  BY <1>2, <1>7 DEF InPass
<1>10. StrayOnlyOnReuse' /\ Kept(st')
  BY <1>7 DEF Good, Sane, Kept, StrayOnlyOnReuse
<1>. QED  BY <1>2, <1>6, <1>8, <1>9, <1>10 DEF IInv, BlocksOnlyOnReuse, Handled

LEMMA SweepStep == ASSUME IInv, PassEnds PROVE IInv' /\ Served(st, st')
<1>1. PICK l, m : l = st.list /\ m = Swept(l)
  OBVIOUS
<1>2. st \in State /\ l \in Seq(Entry) /\ DOMAIN l = 1 .. Len(l)
  BY <1>1, ListFacts
<1>3. SweptTo(l, Len(l), m)
  BY <1>1, <1>2, SweptFacts
<1>4. m \in Seq(Entry) /\ Len(m) \in Nat /\ DOMAIN m = 1 .. Len(m)
  BY <1>3, LenProperties DEF SweptTo
<1>5. st' = [st EXCEPT !.list = m] /\ phase' = "select" /\ pos' = 0 /\ bits' = {}
  BY <1>1 DEF PassEnds
<1>6. /\ st' \in State /\ st'.list = m /\ st'.open = st.open /\ st'.ready = st.ready
      /\ st'.alarms = st.alarms /\ st'.reqs = st.reqs /\ st'.calls = st.calls
      /\ SameIds(st, st')
  BY <1>2, <1>4, <1>5 DEF State, SameIds
<1>7. InStep(st')
  BY <1>6 DEF IInv, Kept, InStep, Timers, Socks
<1>8. Attended(m, st.open)
  <2>1. ASSUME NEW fd \in st.open
        PROVE  \E k \in DOMAIN m : m[k].fd = fd /\ m[k].dirty = 0
    <3>1. PICK i \in 1 .. Len(l) : l[i].fd = fd /\ l[i].dirty = 0
      BY <1>1, <1>2 DEF IInv, Kept, Attended
    <3>. QED  BY <1>3, <1>4, <3>1 DEF SweptTo
  <2>. QED  BY <2>1 DEF Attended
<1>10. Kept(st')
  BY <1>6, <1>7, <1>8 DEF IInv, Kept, TypeOK, IdsKept, SameIds
<1>11. \A i \in DOMAIN m : m[i].dirty = 0
  BY <1>3, <1>4 DEF SweptTo
<1>12. TypeOK'
  BY <1>4, <1>5, <1>6 DEF IInv, TypeOK
<1>13. InPass' /\ BlocksOnlyOnReuse' /\ StrayOnlyOnReuse'
  BY <1>5, <1>6, <1>11 DEF InPass, BlocksOnlyOnReuse, StrayOnlyOnReuse
<1>14. Served(st, st')
  <2>1. Socks(st') = Socks(st) /\ st.calls \in [Fds -> Nat]
    BY <1>2, <1>6 DEF Socks, State
  <2>2. st'.calls = [h \in Fds |-> st.calls[h]]
    BY <1>6, <2>1
  <2>3. Socks(st) \ Socks(st') = {} /\ Socks(st') \ Socks(st) = {}
    BY <2>1
  <2>. QED  BY <2>2, <2>3 DEF Served
<1>. QED  BY <1>10, <1>12, <1>13, <1>14 DEF IInv

LEMMA ReadyStep ==
    ASSUME IInv, NEW fd \in Fds, BecomesReady(fd) PROVE IInv' /\ Served(st, st')
<1>1. /\ fd \in st.open /\ st' = [st EXCEPT !.ready = @ \cup {fd}]
      /\ phase' = phase /\ pos' = pos /\ bits' = bits
  BY DEF BecomesReady
<1>2. st \in State
  BY ListFacts
<1>3. /\ st' \in State /\ st'.list = st.list /\ st'.open = st.open
      /\ st'.ready = st.ready \cup {fd}
      /\ st'.alarms = st.alarms /\ st'.reqs = st.reqs /\ st'.calls = st.calls
      /\ SameIds(st, st')
  BY <1>1, <1>2 DEF State, SameIds
<1>4. InStep(st')
  BY <1>3 DEF IInv, Kept, InStep, Timers, Socks
<1>5. Kept(st')
  BY <1>1, <1>3, <1>4 DEF IInv, Kept, IdsKept, SameIds
<1>6. TypeOK'
  BY <1>1, <1>3 DEF IInv, TypeOK
<1>7. InPass' /\ BlocksOnlyOnReuse' /\ StrayOnlyOnReuse'
  BY <1>1, <1>3 DEF IInv, InPass, BlocksOnlyOnReuse, StrayOnlyOnReuse, Listed
<1>8. Served(st, st')
  BY <1>2, <1>3, GoesSame, GoesServed
<1>. QED  BY <1>5, <1>6, <1>7, <1>8 DEF IInv

-----------------------------------------------------------------------------
\* Every step of the loop and of its environment keeps the invariant, and is a
\* step of the abstract service.
LEMMA NextStep == ASSUME IInv, [Next]_vars PROVE IInv' /\ Served(st, st')
<1>1. CASE SelectReturns
  BY <1>1, SelectStep
<1>2. CASE Dispatch
  BY <1>2, DispatchStep
<1>3. CASE ReadReturns
  BY <1>3, ReadStep
<1>4. CASE PassEnds
  BY <1>4, SweepStep
<1>5. CASE \E fd \in Fds : Expires(fd) \/ Arrives(fd)
  <2>1. PICK fd \in Fds : BecomesReady(fd)
    BY <1>5 DEF Expires, Arrives
  <2>. QED  BY <2>1, ReadyStep
<1>6. CASE SelectFails \/ UNCHANGED vars
  <2>1. st' = st /\ phase' = phase /\ pos' = pos /\ bits' = bits
    BY <1>6 DEF SelectFails, vars
  <2>2. IInv'
    BY <2>1 DEF IInv, TypeOK, Kept, InPass, BlocksOnlyOnReuse, StrayOnlyOnReuse
  <2>. QED  BY <2>1, <2>2, ListFacts, GoesSame, GoesServed
<1>. QED  BY <1>1, <1>2, <1>3, <1>4, <1>5, <1>6 DEF Next, Loop

\* The inductive invariant of the event loop: every open descriptor has one
\* owner and a live entry in the list, the alarm ids that register.c and the
\* telemetry keep are those of their own alarms, and a bit that select set is
\* that of a ready descriptor as long as its first entry is the one to call.
THEOREM LoopInductive == Spec => []IInv
<1>1. Init => IInv
  BY InitIInv
<1>2. IInv /\ [Next]_vars => IInv'
  BY NextStep
<1>. QED  BY <1>1, <1>2, PTL DEF Spec

\* Alarms, requests and descriptors stay in step through every callback, even
\* when a number closed in a pass is handed out again in it.
THEOREM AlwaysOwned == Spec => []Owned
<1>1. IInv => Owned
  BY DEF IInv, Kept, Owned
<1>. QED  BY <1>1, LoopInductive, PTL

\* atlas_sched_del_entry never deletes the entry of a later owner of the number
\* in place of its own: select watches every open descriptor.
THEOREM AlwaysNoneUnwatched == Spec => []NoneUnwatched
<1>1. IInv => NoneUnwatched
  BY DEF IInv, Kept, Attended, NoneUnwatched, Watched, Listed
<1>. QED  BY <1>1, LoopInductive, PTL

\* atlas_sched_loop blocks in read of a timer only for an entry whose number
\* has an earlier entry in the list.
THEOREM AlwaysBlocksOnlyOnReuse == Spec => []BlocksOnlyOnReuse
<1>1. IInv => BlocksOnlyOnReuse
  BY DEF IInv
<1>. QED  BY <1>1, LoopInductive, PTL

\* atlas_sched_del_entry marks the first entry with the number: until the sweep,
\* an entry of a closed descriptor that is not deleted has an earlier one with
\* its number.
THEOREM AlwaysStrayOnlyOnReuse == Spec => []StrayOnlyOnReuse
<1>1. IInv => StrayOnlyOnReuse
  BY DEF IInv
<1>. QED  BY <1>1, LoopInductive, PTL

\* The event loop implements the abstract request service: a request that was
\* accepted calls back exactly once, when it is answered or when its alarm
\* expires, whatever the callbacks of the program do meanwhile.
THEOREM ImplementsRequests == Spec => ExactlyOnce
<1>1. Init => Requests!Init
  <2>1. ASSUME Init PROVE Socks(st) \subseteq Fds /\ st.calls = [h \in Fds |-> 0]
    <3>1. st.reqs \subseteq Request
      BY <2>1, InitState DEF Good, Sane, State
    <3>. QED  BY <2>1, <3>1, InitState DEF Request, Socks
  <2>. QED  BY <2>1 DEF Requests!Init, Socks
<1>2. IInv /\ [Next]_vars => [Requests!Next]_<<{r.fd : r \in st.reqs}, st.calls>>
  <2>1. SUFFICES ASSUME IInv, [Next]_vars PROVE Requests!Next
    OBVIOUS
  <2>2. IInv' /\ Served(st, st')
    BY <2>1, NextStep
  <2>3. Socks(st') \subseteq Fds
    BY <2>2 DEF IInv, TypeOK, State, Request, Socks
  <2>4. \A g, h \in Socks(st) \ Socks(st') : g = h
    BY <2>2 DEF Served
  <2>5. st'.calls = [h \in Fds |-> IF h \in Socks(st') \ Socks(st) THEN 0
                                  ELSE IF h \in Socks(st) \ Socks(st') THEN st.calls[h] + 1
                                  ELSE st.calls[h]]
    BY <2>2 DEF Served
  <2>. QED  BY <2>3, <2>4, <2>5, Zenon DEF Requests!Next, Socks
<1>. QED  BY <1>1, <1>2, LoopInductive, PTL DEF Spec, ExactlyOnce, Requests!Spec
=============================================================================
