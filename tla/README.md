# A TLA+ model of ATLAS Client

ATLAS Client is an agent on an IoT device. It registers with a gateway over CoAP, keeps the
registration alive, pushes telemetry, serves commands of the gateway, and offers an API to one
application on the device (the *data plane*). This directory models it in TLA+, checks the
models with TLC on small instances and proves theorems about them with TLAPS.

Paths below are relative to `src/` of the repository. `PROJECT.json` maps each definition to
the lines it models, and lists runs, mutants, findings, hazards and theorems.

## The system

Two processes and their surroundings:

```
 gateway <--CoAP--> atlas_client (one thread) <--unix socket--> data plane application (threads)
                                                                  ^-- MQTT broker
```

| Part | State | Operations | Talks to |
|---|---|---|---|
| `scheduler` | list of (descriptor, callback, dirty) | add, delete, loop over `select` | everything in the client is a callback of it |
| `alarm` | list of timer descriptors | set, cancel, trigger | scheduler |
| `coap` client | list of requests, each with a context descriptor and an alarm | request, answer, timeout | scheduler, alarms; calls back its callers |
| `coap` server | context, listeners | serve a request of the gateway | telemetry, command execution |
| `register` | `registered`, `ka_token`, `ka_count`, `ka_alarm_id` | start, register answer, retry, keepalive, keepalive answer | CoAP client, alarms, policy, telemetry |
| `telemetry` | features with a push and a threshold alarm, `procs_threshold` | push, push all, retry, alerts that set rates and the threshold | CoAP client and server, alarms |
| `data_plane_connector` | `connected_socket`, policy, statistics | accept, read, send policy, reputation reply | CoAP client, the application |
| `data_plane/atlas_client.c` | `fd`, statistics | `atlas_init`, statistics thread, reputation request and feedback | the connector |
| `data_plane/atlas_data_plane.c` | `rep_info` (window, feedback, lock) | query thread, MQTT callback, publishers | the library, MQTT |
| `commands` | a buffer of type-length-value commands, its 16-bit length | add, validate, walk | used for every payload |
| `commands_execute` | `cmdInProgress`, one alarm per command | schedule and run a restart or a shutdown | CoAP server, alarms |
| `identity` | two files, the identity and the key | read or generate, remove both on an error | first thing in `main` |
| `utils`, `logger`, `atlas_main.c` | the command line | – | – |

What is hard in it:

* **Numbers, not objects.** The scheduler, the alarms and the requests name each other by
  descriptor numbers, which the kernel reuses at once, while a pass over the list is going on.
* **Callbacks that re-enter.** The callback of a request issues requests and sets and cancels
  alarms while the lists it changes are being walked.
* **Two processes that restart**, with packets of an earlier process under way.
* **Timeouts that race answers**: 5 s for the CoAP request, 5 s for the read of the application
  that waits for it, 20 s between keepalives.
* **Alarms that are shared**: periodic pushes, scans, requests and commands hold ids of one table,
  are refused when it is full, and cancel by an id they remember.
* **Files written by a process that may be killed** on a device that may lose power, with unchecked
  writes and removes and no sync.
* **Lengths from outside** in unsigned 16-bit arithmetic, converted in place.
* **Shared variables without a lock** in the application (`fd`, `feedback_length`,
  `window_start`).

What makes the parts correct: the loop watches what is open and nothing else; an accepted request
calls back exactly once; the client always has a way back to being registered, and only one;
the gateway is told the policy the client holds; an answer of the gateway is used once for each
reputation it carries; the feedback that is sent is complete and stable; a batch is accepted if and
only if it consists of whole commands, and is read as it was written; every periodic alarm has one owner and no command of the gateway is
lost among them; the device keeps its identity and its key through crashes.

## The modules

| Module | Models | Grain |
|---|---|---|
| `Register` | `register/atlas_register.c` | one action per callback |
| `RegisterProofs` | theorems about `Register` | |
| `RequestService` | the promise of `atlas_coap_client_request` | abstract specification |
| `EventLoop` | scheduler, alarms, CoAP client, and the handlers that run on them; implements `RequestService` | one action per step of `atlas_sched_loop` |
| `EventLoopProofs` | theorems about `EventLoop`, its refinement of `RequestService` among them | |
| `DataPlaneLink` | connector and library, the socket between them | one action per callback of the client, per system call of the application |
| `DataPlaneLinkProofs` | theorems about `DataPlaneLink` | |
| `ReputationWindow` | the feedback window of the application | one action per access to shared memory |
| `ReputationWindowProofs` | theorems about `ReputationWindow` | |
| `CommandBatch` | `commands/atlas_command.c`, on bytes, against a reference definition | one action per call, and per round of the validation |
| `CommandBatchProofs` | theorems about `CommandBatch` | |
| `AlarmTable` | the alarms as their users see them: a table of ids | operators |
| `Telemetry` | `telemetry/` | one action per callback |
| `CommandExecute` | `commands_execute/` | one action per callback |
| `Server` | `Telemetry` and `CommandExecute` on one `AlarmTable`, behind `coap/atlas_coap_server.c` | composition |
| `ServerProofs` | theorems about `Server`, and so about `Telemetry`, `CommandExecute` and `AlarmTable` in it | |
| `Identity` | `identity/atlas_identity.c` over many starts | one action per system call |
| `IdentityProofs` | theorems about `Identity` | |
| `LeastNumber` | the least-number principle, in the place of induction, for the other proofs | |
| `MC*` | instances for TLC | |

Each module contains a few operators with a suffix (`AfterSet_forgotten`): faulty variants of the
definition after them. Replacing the definition by its variant must violate the property it is
listed with, which shows that the property depends on that line of the code.

### Register

`registered`, `ka_token`, `ka_count`, `ka_alarm_id` are the static variables of the file. What the
file has outstanding elsewhere is state too: register requests (`regReqs`), retry alarms
(`regAlarms`), keepalive alarms (`kaAlarms`), keepalives in flight by token (`kaReqs`). Every
callback runs to completion, so it is one action; `keepalive_callback` is three, by its outcome.
`out` records the calls into the connector and the telemetry. `fails`, `acked` and `dropped` are
observers. The gateway is `good` (answers correctly), `dead` or `flaky` (anything, including old
and short tokens and 4xx), and may change at any time.

`Faults` holds what else may go wrong: `"refused"` (no address, no descriptor: the request or the
alarm fails at once and nobody is called back) and `"stall"` (a blocking `getaddrinfo` delays the
loop, so that a keepalive is sent while another is still in flight; a prompt loop cannot do this,
since a keepalive times out after 5 s and the period is 20 s).

### EventLoop and RequestService

`st` is the memory of the program and the descriptor table; a C function is an operator on it.
The actions are the steps of `atlas_sched_loop`: `SelectReturns`, `Dispatch` (call the next entry
whose bit is set, then clear the bit), `PassEnds` (the sweep), `SelectFails` (EBADF: the code does
not handle it and spins), and `ReadReturns` for a trigger that blocks in `read` of a timer that
has not expired. The scheduler deletes by number and finds alarms and requests by number, so an
entry left behind by an earlier owner may be called for a later one, or find no alarm and no
request under its number; then the callback does nothing. The environment makes descriptors
readable: `Expires` for timers, `Arrives` for sockets. A number that is closed is free at once
(`Free`), as in Linux, although the list still has its entry.

What runs on the loop: the register request and its retry, the keepalive, one telemetry feature
with its periodic push and its retry, and commands of the gateway that set the rate or ask for a
push. The count of keepalives is left to `Register`: here a failed keepalive may or may not trigger
a registration. A request is refused without descriptors (`Accepted`) and may be refused for any
other reason, the address, the session or the PDU (`CoapRequest`).

`WatchedOpen` (select watches exactly what is open) is what one would want of the loop, and it does
not hold: see `loop_del`. What does hold with reuse is stated instead. No open descriptor is
unwatched (`NoneUnwatched`), and during a pass the first entry of a number that is not deleted is
that of an open descriptor (`StrayOnlyOnReuse`), so that only a number that was closed and handed out
again between two sweeps can be left over. When one is, select fails for good (`Spinning`); requests
that are under way then never end, and `ProbeEnds` says that nothing else keeps them from ending.

`RequestService` says that a step ends at most one request with exactly one callback and that
nothing else touches the count of callbacks of a request. `EventLoop` implements it with
`pending` the descriptors of the requests in the list and `calls` the callbacks made for them.

### DataPlaneLink

`link` is the table of connections (both ends, packets in both directions), `cl` the client, `dp`
the application. A process of the application is known by its number, which stands for its policy;
a reputation request by a tag. The recursion of `socket_connect`, `send_registration_command` and
`write_to_socket_retry` is the counter `depth`: how many policy writes are still to be repeated.
The query thread writes, then reads `fd` again for its read (`BeginRead`), so a reconnect of the
statistics thread may come in between.

The socket follows Linux: packets keep their boundaries; a connection can be written to before it
is accepted; closing an end that has unread packets resets the other end, whose next read or write
fails; a write to an end that is gone raises SIGPIPE, unless a reset is pending. The client neither
handles nor ignores the signal. The application is ended by it too until the MQTT library ignores
it for the process (an assumption on that library), which `DpDies` covers. A blocked write of the
client to an application that never reads is not modelled.

`atlas_reputation_resp_parse` writes a packet for each reputation in an answer of the gateway. Each
write is an action, because the application may read, write or end in between; the client does
nothing else meanwhile (`more`, `Ready`). Two packets stand for any number. `again` is an observer:
the requests that were answered so. Their tag stays owed, and a later request may return it.

### ReputationWindow

`reputation_query_task` and `handle_data` of the MQTT thread, split at each access to
`feedback_length` and `window_start`, which one of them makes without the lock. Scores are
`right`, `wrong` or `refused` (above 100): a response time measured from an earlier window, or
handled after the time of the window and before it is closed, gives a negative score, which is
converted to some `uint16_t`; after a step of `CLOCK_REALTIME` (`ClockStep`) it gives anything. A
write of feedback may fail, which nobody notices (`lost`). Only one `handle_data` runs at a time, on
the thread of the MQTT library.

The array has `FeedbackMax` entries and `handle_data` lets one more through. The memory behind it is
modelled as `reputation_t` lays it out: the value goes over the first identity, the identity over
`feedback_length` and `window_start`. The length is then made of characters (`Wild`), and the write
that follows goes to an address far from the array: `Segfault`, which ends the application.

### CommandBatch

The buffer is a sequence of bytes and a `uint16_t` two of them; `Base` is the number of values of a
byte. `Add` is `atlas_cmd_batch_add`; `Validate` is one round of the loop of
`atlas_cmd_batch_set_raw`, `Accept` its end; `GetFirst`, `GetNext`, `GetNull` are
`atlas_cmd_batch_get`, which converts the header in place and moves on by the converted length. Raw
bytes come from a batch that was filled (`SendBatch`) or from anywhere (`Receive`). The properties
compare with `Encode` and `WellFormed`, which know nothing of offsets that advance. A batch whose
length wraps writes past its block (`overrun`, `commands/atlas_command.c:40`); `RoundTrip` says
that this happens exactly from 65 536 bytes on. No caller in the repository builds a batch of that
size.

### Telemetry, CommandExecute, Server, AlarmTable

Three uses of the alarms meet here: the periodic alarms of the features, the alarm each CoAP request
holds until it is answered or times out, and the alarms of commands. `AlarmTable` hands out the
lowest free id, as the kernel does with descriptors, and refuses when none is left. `owed` is an
observer: the features the client has undertaken to send. Batches are sequences of commands; which
of several rates counts (the first for a push, the last for a scan) is the parser's. `Strtol`,
`Uint16` and `StrtolFails` follow `atlas_threshold_alert_procs_cb` in its order: the threshold is
stored before it is checked. `taken`, `ran` and `requests` are observers of the command execution.
A process that ends (`GoesDown`, `Crashes`) starts again with nothing but the code.

### Identity

`pc` and `at` are the position in `atlas_identity_init`: the identity is opened, read or created and
generated, then the key; an error removes both files, one after the other. `file` is the disk,
`mem` the static variables, `uses` the pairs with which clients went on to run. `harm` records which
faults have occurred so far, so that a property can say which of them it stands. Killing the process
is possible between any two system calls and is never counted as harm. `calm` and `failed` count
undisturbed starts that fail.

Neither the files nor their directory are synced. `lag` holds, for each file, every state it has had
since the kernel last wrote it back (`WriteBack`), and parts of what was written; a loss of power
picks one of them for each file on its own. So a new file may be gone, empty or cut short, and a
removed one may be back. A remove may fail, which the code does not look at.

## The runs

| Run | Shows | Distinct states |
|---|---|---|
| `register` | `SingleChain`, `FailuresBounded`; registered for good with a good gateway, given up with a dead one | 12 000, fair |
| `register_faults` | `NotStranded`, `AckedLossDetected`, with refusals and overlapping keepalives | 130 000 |
| `loop` | `Owned`, `NoneUnwatched`, `StrayOnlyOnReuse`, `BlocksOnlyOnReuse`, `ExactlyOnce` (refinement), the inductive invariant; every accepted request ends unless select fails for good (`ProbeEnds`) | 134 000, fair |
| `loop_del` | **violated**: `WatchedOpen` | |
| `link_policy` | `SingleConnection`, `PolicyNotForgotten`, `PolicyReestablished` | 64 000, fair |
| `link_reply` | `AnswersOwed`, `FirstGetsIdentity`, the inductive invariant | 1.7 million |
| `link_pipe` | **violated**: a failed write is logged and the client goes on | |
| `window` | `FeedbackFrozen`, `OneEntryEach`, `FeedbackComplete`, the inductive invariant | 916 000 |
| `window_full` | **violated**: `feedback_length` is the number of entries of the array | |
| `batch` | `AcceptsExactly`, `InBounds`, `WalkExact`, `RoundTrip`, the inductive invariant; every buffer is parsed to an end | 50 000, fair |
| `server` | `AlarmsOwned`, `NoPushForgotten`, `OneRequest`, `CommandsKept`, the inductive invariant; accepted commands are run | 107 000, fair |
| `identity` | `OnePair`, `NeverRekeyed`, `SettledStays`, `TwoStartsSuffice`, the inductive invariant | 2.8 million |

**The violated ones** are disagreements between the code and what its comments or logs say;
`PROJECT.json` quotes both: `atlas_sched_del_entry` may mark an entry that is already dirty, a
write to an application that is gone ends the client, and the bound on `feedback_length` is one too
high.

**Other places where the code surprises** are part of the models, and the properties are stated so
that they say what is left:

* `ka_count` starts at 0 and the first failure wraps it to 255 (`register/atlas_register.c:99`):
  before the first successful keepalive the loss of the gateway is noticed after 256 failures
  (`FailuresBounded`), after it at the configured count (`AckedLossDetected`).
* A reputation reply may reach the next process of the application, which takes it for its identity
  (`data_plane_connector/atlas_data_plane_connector.c:173`); an answer with several reputations
  leaves packets that later requests take for theirs (line 164). `FirstGetsIdentity` and
  `AnswersOwed` bound this.
* The feedback window is opened before it is set up (`data_plane/atlas_data_plane.c:450`): an entry
  of that moment may carry a wrong score, a value handled as the time runs out or after a step of the
  clock may be refused, and a refused score ends the sending (`FeedbackComplete` says that nothing
  else does, and where such a score can stand).
* An alert without a threshold ends the client (`telemetry/atlas_alert_utils.c:98` tests the wrong
  pointer): action `Crashes`.
* After a timeout of `load15` the client sends `load1`, whose path the uri contains
  (`telemetry/atlas_telemetry.c:89`): `Overshadowed` in `NoPushForgotten`.
* An existing file of the identity or the key that cannot be opened is overwritten
  (`identity/atlas_identity.c:112`), a short write is taken as it is at the next start, a file that
  cannot be removed stays beside a new one, and a loss of power before the key has reached the disk
  leaves a known identity without its key: each of them may give a known identity another key, and
  is excluded from `NeverRekeyed`. `SettledStays` says what a loss of power cannot do.

**Bounds.** `Register`: the counter keeps its 256 values in the run without stalls (with stalls 6,
still larger than the count of 3, so that the wrap happens); the token has 4, more than the two
keepalives that overlap, so that old and current tokens differ; two register chains and two
alarms, one more than the property allows. `EventLoop`: 5 descriptors, the server and two requests
with their alarms, or one request beside the keepalive and the push alarm, so that numbers are
reused and requests refused; a blocked read, a select that fails for good with a request under way,
and two entries of one number at select are all reached. `DataPlaneLink`: two processes of the application,
which is what one needs to mix up an answer; three connections (one open, one in the backlog, one
being closed; with answers under way a third is never opened, so `link_reply` has two); two packets
in a socket; two crashes of the client. In `link_reply`, which has two requests of each process and
answers with several reputations, one packet on the way to the client and no crash but the one of a
write to an application that is gone, after which the client starts again. `MaxPolicy` caps the requests
and alarms of the policy, by not reading a further policy packet for a while. `ReputationWindow`:
four devices and an array of three entries, so that the order of entries, a duplicate, a full array
and the entry past it all show. `CommandBatch`: bytes with 4
values, so that lengths have 16 and a batch of four commands wraps; raw buffers of up to 12 bytes
over two values, enough for three commands and every way to truncate them; the second type differs
in both bytes from its swap. `Server`: three alarms for four features and batches of two commands,
so that alarms are refused in the middle of a batch; a 1-bit `uint16_t` and `LONG_MAX` 3, with
thresholds below, in and above the range. `Identity`: four generated values, two pairs, which is what
it takes to pair an old identity with a new key.

**Deadlock.** TLC checks it in `register`, `register_faults`, `loop`, `loop_del`, `batch` and `server`.
It is switched off where the system may stop: in `DataPlaneLink` an application that has stopped for
good leaves the client idle, in `Identity` the bound on the generated values ends the starts, and in
`ReputationWindow` the application may end in a segmentation fault.

**Fairness.** The client is one loop that serves each descriptor that is ready, so its callbacks
are weakly fair; timers that stay set expire; a request is answered or times out. In `EventLoop` the
fairness of the loop is written out: it takes steps for ever, or is again and again where no step
is possible but the failing select that changes nothing (`Waiting`). In
`DataPlaneLink` threads run, and the gateway confirms a policy that is sent to it again and again
(strong fairness: a hypothesis about the gateway, without which nothing can be promised);
`PolicyReestablished` speaks of clients that had nothing refused, since a refused policy request
is not tried again. In `Server` only the alarms of commands are fair, in `CommandBatch` the straight code of the parser.
`Identity` has no fairness: nothing in the repository starts the client again, so that recovery is
the safety property `TwoStartsSuffice`. Nothing
is assumed about crashes, restarts, answers of the gateway or values of devices.
`EventuallyRegistered` and `EventuallyUnregistered` are checked without refusals: a refused
keepalive is not counted as a failure (`register/atlas_register.c:179`) and a refused register
request strands the client (`register/atlas_register.c:213`), and `NotStranded` says that
this is the only way to be stranded.

## The proofs

Every safety property that a passing run checks is also a theorem, for every value of the constants
that satisfies the assumption of its module:

| Module | Assumption | Proved for |
|---|---|---|
| `RegisterProofs` | `RegisterAssumption` | a positive count smaller than the range of the counter, at least two tokens, any alarm ids, bounds and faults |
| `EventLoopProofs` | `EventLoopAssumption` | any number of descriptors from 3 up (what `main` needs), reused at once, with and without commands |
| `DataPlaneLinkProofs` | `DataPlaneLinkAssumption` | any number of processes, connections, packets, requests and crashes, any faults |
| `ReputationWindowProofs` | `ReputationWindowAssumption` | finitely many devices, any positive size of the array |
| `CommandBatchProofs` | `CommandBatchAssumption` | bytes of at least 3 values (the code has 256), any buffers that a `uint16_t` can measure, any commands |
| `ServerProofs` | `AlarmTableAssumption`, `TelemetryAssumption`, `CommandExecuteAssumption` | any features with the scanned one among them, any number of alarms, any thresholds, any width |
| `IdentityProofs` | `IdentityAssumption` | any faults, any number of generated values |

None of the properties is inductive as it stands. Each module has an inductive invariant (`IInv`,
and `RInv` for the way of a batch), which is proved with one step per action and, but for that of
`Register`, checked by a run; the properties follow from it.

* **Register.** `IInv` adds: nothing is outstanding
  before the start (`BeforeStart`); without stalls, a keepalive in flight carries the last token and
  belongs to a registered client with no register request outstanding (`PromptKeepalive`), which
  is why the loss of a keepalive never starts a second chain; and while registered the count is
  either untouched since the registration or was decremented once for each failure
  (`CountInv`), which is why the wrapped counter still bounds the failures. `TypeCorrect`,
  `NeverStranded`, `AlwaysSingleChain`, `AckedLossAlwaysDetected` and `FailuresAlwaysBounded` follow.
* **EventLoop.** The state is a record and the handlers are operators on it, so most of the proof is
  about operators: what `SchedAdd` and `SchedDel` do to a list (`ListAdd`, `ListDrop`), what opening
  and closing does to the owners of descriptors (`StepAlarm`, `StepRequest`, `StepCancel`,
  `StepOver`), and what each C function makes of both, up to `CallbackFacts` for all handlers.
  The invariant `Kept` says that descriptors have one owner (`InStep`), that every open one has an
  entry that is not deleted (`Attended`), and that the alarm ids kept by `register.c` and the
  telemetry are those of their own alarms (`IdsKept`), without which `atlas_alarm_cancel` could hit
  the alarm of a later owner. `InPass` adds the argument for the bits that select set: the *first*
  entry of a number stays as long as its descriptor does (`Later`), because `atlas_sched_del_entry`
  marks the first one; so when the loop blocks on a timer, its entry is not the first. For the same
  reason the first entry of a number is marked when its descriptor is closed, which gives
  `AlwaysStrayOnlyOnReuse`; a second entry may be left, as `loop_del` shows. `AlwaysOwned`,
  `AlwaysNoneUnwatched` and `AlwaysBlocksOnlyOnReuse` follow too. `ImplementsRequests` is the refinement: `Served` relates the states before and
  after any handler, and is a step of `RequestService`.
* **DataPlaneLink.** A request or its answer is in one place unless the answer has several reputations
  (`OnePlace`), everything on its way is owed to the application (`AllOwed`), and nothing is owed that
  was not asked for (`Asked`); so an answer that is read is owed, and no longer owed afterwards unless
  more of it may come (`AlwaysAnswersOwed`, an action property). The first
  process asks for nothing before it has its identity (`FirstAsksFirst`), so what it reads is the
  identity. Connections in the backlog are there once and not open (`Queue`), which is what
  `AlwaysSingleConnection` needs at each accept.
* **ReputationWindow.** `handle_data` is at work only under the lock, and only it sees a length beyond the
  array, before the application ends of it (`InHandler`); it works only while the window is open or
  about to close (`Quiet`), from which `AlwaysFrozen` follows. For `AlwaysOneEntryEach` and
  `AlwaysComplete` the invariant speaks of the entries that will be there when `handle_data` is done
  (`Coming`): no two are of one device (`Distinct`), every device that answered is among them or the
  application is about to end (`Present`), and, unless the clock was set, entries with a score of an
  earlier window come first and a refused one of this window comes after its time, with no timely device
  behind it (`Ranked`), which is why a refused score hides so little. A reset of `feedback_length`
  without the lock can fall between the load and the store of `handle_data`, which then undoes it.
* **CommandBatch.** The reference definitions are recursive. `Whole` runs forward by lengths found in
  the buffer; that its recursion has a solution is proved (`WholeFacts`), and from then on only its
  equation is used: the validation keeps `Whole(raw)[p] <=> Whole(raw)[0]` (`Validating`) and the walk
  stays in front of whole commands (`Walking`); this gives `AlwaysAcceptsExactly` and
  `AlwaysInBounds`. For `AlwaysWalkExact` and `AlwaysRoundTrip` the invariant `RInv` adds that what
  was handed out encodes to the bytes in front of the next command (`Delivering`) and that a batch
  that was sent is the encoding of what was added (`Sent`, `Between`); the lemmas about `Encoded` say
  that an encoding has each command at its offset and is a prefix of the longer ones.
* **Server.** An id that is in use is not handed out again, so a cancelled or fired alarm is that of
  its owner: `AlarmsOwned`, `NoPushForgotten`, `OneRequest` and `CommandsKept` are inductive together
  with `NoneTaken` (without a request taken there is no command taken). `PushAllFacts` carries this
  through a push of all features, which is a recursive function over the list of them.
* **Identity.** That a known identity never gets another key depends on every earlier crash. `IInv`
  says what holds on the disk at any moment: beside a known identity lies its key, or an empty
  file, which makes the start fail, and a new key is only made beside an identity that nobody has
  used (`KnownKeyed`); the file at hand was emptied, and on the error path the identity is gone
  before the key goes (`InOrder`), which is the order that the property needs; every value there is
  was generated before (`Generated`), so a new identity is never a known one; without short writes and
  losses of power everything is whole or not there (`Whole`); without any fault the used pair stays
  (`PairStays`); and after a failed start the disk is clean (`Cleared`). For `AlwaysSettled`, which
  holds over losses of power, `Held` says that what a start took from a whole file is still in it and
  that the error path is taken only for a file that is not whole. `AlwaysOnePair`, `AlwaysKeyed` and
  `AlwaysTwoStarts` follow too.

`LeastNumber` stands in for induction, whose library theorems take an operator as a parameter that
the installed provers cannot instantiate: a nonempty set of numbers has a least element (`Least`, from
the well-foundedness of the order), from which `UpTo` (what holds at 0 and is kept by each step holds
up to n) and `Recursion` (a recursive definition over an interval has a solution) are proved. So
`Encoded`, `Swept` and `PushAll`, written as recursive functions, can be reasoned about for all
sequences.

Only model-checked are the liveness properties, since fairness and `ENABLED` are out of the prover's
reach: `EventuallyRegistered`, `EventuallyUnregistered`, `ProbeEnds`, `PolicyReestablished`,
`ParseEnds` and `CommandsRun` (accepted commands are run).

## Not modelled

Durations (a timer may expire at any time after it is set, so orders of events that real time
excludes are included, except where a module says so), libcoap and DTLS, the text of payloads, the
MQTT client, the logger.

* `utils/atlas_config.c`: the values of the command line are set before the loop starts and only
  read afterwards. (Its setters allocate `strlen` bytes and `strcpy` one more,
  `utils/atlas_config.c:34`; no state that changes depends on it.)
* The option parsers of `atlas_main.c` and `data_plane/atlas_data_plane.c`: sequential, once.
* The list of listeners of the CoAP server: built once at the start; nothing deletes from it.
* `atlas_telemetry_del`: it has no caller.
* The statistics of `atlas_pkt_received` and the publishing threads of the application: they share
  nothing with the feedback window.
* `FD_SETSIZE`, running out of memory, and a client blocked in a write.

## Plan

1. `Client`: `Register` composed with the policy chain of the connector and `Telemetry` through
   the calls recorded in `out`.
2. An abstract specification of the reputation service (an answer is used once for each
   reputation it carries) that `DataPlaneLink` implements; `AnswersOwed` is the step property it would be made of.
3. A bound on the queue to the application in `DataPlaneLink`, and the client that blocks on it.
