# Verification of iec61850-python

`iec61850-python` is a Python binding, written in Rust with PyO3, of IEC 61850
client and server crates. Two files hold its logic: `src/src/lib.rs` (the
native module, about 8,400 lines) and `src/python/iec61850/_facade.py` (the
asynchronous facade). The protocol stack itself (MMS, the client's and the
server's state) is in crates this repository only depends on; where a module
needs them they are modelled from how this code uses them and marked
*external* in `PROJECT.json`.

This directory holds TLA+ models of the parts of the binding that have state
and concurrency, the TLC runs that check them, and proofs for TLAPS.

    tlc -workers 2 -config ControlConcurrent.cfg MCControlHandle.tla
    tlapm ControlHandleProofs.tla

## 1. Inventory

### How the program runs

* **Python threads** call the extension with the GIL held. A synchronous call
  (a setter, `update_*`, `batch`) is one step for other Python threads unless
  it runs Python code or waits.
* **The tokio runtime** runs the futures that `future_into_py` makes of every
  asynchronous method. They run without the GIL, beside all Python threads,
  and *start* at some time after the call: arguments are converted in the
  call, everything else happens in the future. When the awaiting Python
  coroutine is cancelled, the Rust future is dropped at its next await.
* **The blocking pool** of that runtime calls application callables (read,
  write, control, setting-group, authenticator). Its threads take the GIL.
* **The asyncio loop** runs the facade's tasks and the coroutines application
  callables return.

### Components

| Component (where) | State | Operations | Interacts with | What is hard | What makes it correct |
|---|---|---|---|---|---|
| **Client connection** (`lib.rs` 849-1118) | the crate's connection | `connect`, `connect_tls`, `disconnect`, `abort` | timers of the MMS client and of tokio | two deadlines under a backstop; saturating words; a host that does not resolve | an attempt ends in time, by the right timer, with a true error |
| **Client requests, GOOSE control blocks** (`lib.rs` 1128-1816, 1955-2171) | calls in flight | typed and untyped reads and writes, data sets, GOOSE control blocks, queries | concurrent calls on one connection; a server that fails entry by entry | late, lost and partly failed answers; writes that outlive their call | a result is that of its own request, a value read is one somebody wrote |
| **Client control object** (`lib.rs` 2179-2466) | the handle behind a tokio `RwLock`; settings recorded in `pending` behind a mutex | `set_*`, `select`, `select_with_value`, `operate`, `cancel` | concurrent commands share one handle | which command gets which setting; writers against a stream of readers; a cancelled command | a command is sent with the origin and SBO class it took; every command ends |
| **Report control block mirror** (`lib.rs` 1814-1880, 2801-2957, `_facade.py` 108-300) | the attributes of `RcbHandle` behind a mutex | attribute setters, `refresh_rcb_values`, `set_rcb_values` | assignments run while requests are in flight | half-answered refreshes, late copies | the mirror is one server image plus later assignments; one write is one moment |
| **Report handlers and dispatcher** (`lib.rs` 1898-1953, `_facade.py` 302-338, 776-814) | the asyncio task, `_stopped`, `_error`; the handlers in the crate | spawn, `stop`, `aclose`, `exception`, `install_report_handler`, `uninstall_report_handler`, `poll_reports` | the connection, the application's handlers and `on_error` | `stop` against a poll that fails; handlers that raise | no death without a reason, no error after `stop`, `aclose` comes back and nothing polls then |
| **Server life cycle** (`lib.rs` 3959-3977, 4197-4418, 4645-4763, 6604-7149) | `ServerState` behind a mutex, the listener | the setters, `start`, `stop`, `async with`, reclamation | futures of concurrent calls, the application's hold on the object | `Stopped` as placeholder while starting; failure, cancellation and reclamation in the middle | one interval of service, always under the newest settings; no listener without an owner |
| **Server registrations** (`lib.rs` 3979-4125, 4258-4391, 7192-8060) | the queue of `NotStarted`, the registries of the running server | `on_read`, `on_write`, `on_control`, `add_dataset`, `register_*` | replayed by `start` | the replay's order by kind; blocks named both by hand and by the model | every accepted block is served once; the newest callback is in force |
| **Attribute callbacks, authenticator, setting groups** (`lib.rs` 4147-4184, 4698-4720, 4767-5123, 8100-8124) | callbacks by key, the server's cache | read, write, selection and association callables, `update_array`, `force_active_setting_group` | the pool, clients' requests, the host's updates | callables that return or raise anything, replaced meanwhile; the keys they are found by | a callback answers for its own attribute; nothing passes that it did not agree to |
| **Server control callbacks** (`lib.rs` 5140-5450) | calls on the blocking pool and the event loop | `wait`, `operate` callables, time limit | control objects of the server crate, the pool all share | a `wait` that accepts too late; calls that overlap with abandoned ones; a full pool; what a control model does not report | outcomes are true; a refused command is not carried out; only abandoned calls overlap; commands end |
| **Server updates and batches** (`lib.rs` 4463-4481, 6433-6474, 8189-8384) | the data-model lock, guards, the server's reference count | `update_*`, `batch`, the guard's `__exit__` | `stop` on the runtime, other threads' updates | `unsafe` lifetime of the guard; GIL against lock; a stop inside a batch | the server outlives the lock; a batch is raised as one |
| **Value conversions** (`lib.rs` 2580-2770, 3085-3133, 6147-6319) | none | Python to MMS and back | every read, write, update and callback | widths, paddings, bool against int, single precision | what was written reads back or raises |
| Logs, model building, SCL, SNTP, errors, data classes | none, or the crate's | see section 5 | | | |

## 2. Modules

| Module | Models | Composed with |
|---|---|---|
| `Values` | Python values, MMS values and their conversions, as functions | extended by `ClientRequests` and `AttributeAccess` |
| `Connect` | an attempt to connect and its timers | |
| `ClientRequests` | the calls on a connection, an external server | extends `Values` |
| `Client` | one after the other | extends `Connect` and `ClientRequests` |
| `ClientProofs` | theorems about both | extends `Client` |
| `ControlHandle` | the client control object | |
| `ControlHandleProofs` | theorems about it | extends `ControlHandle` |
| `RcbHandle` | the control block mirror | |
| `RcbHandleProofs` | theorems about it | extends `RcbHandle` |
| `ReportDispatcher` | the polling task and the report handlers | |
| `ReportDispatcherProofs` | theorems about it | extends `ReportDispatcher` |
| `ServerPromise` | what the life of a server promises (abstract) | |
| `ServerLifecycle` | `ServerState`, its settings, `start`, `stop`, reclamation | instance of `ServerPromise` |
| `ServerLifecycleProofs` | theorems about it, the refinement included | extends `ServerLifecycle` |
| `RegistrationPromise` | what registering a callback promises (abstract) | |
| `Registration` | the queue and its replay | instance of `RegistrationPromise` |
| `RegistrationProofs` | theorems about it, the refinement included | extends `Registration` |
| `AttributeAccess` | callbacks that decide reads, writes, setting groups and associations | extends `Values` |
| `ControlCallback` | wait and operate callables | |
| `ControlCallbackProofs` | theorems about it | extends `ControlCallback` |
| `Batch` | updates and batches beside `stop` | |
| `RunningServerProofs` | theorems about a running server: `AttributeAccess` and `Batch`, which share no variable | extends both |

Each `MC*` module gives the constants of the module it is named after for TLC.
An operator commented "Fault:" is not part of a specification: it is a
plausible mistake in the definition that follows it, and `PROJECT.json`
("mutants") names the property that notices.

### Values

A value is a record: its type, the tag of a dict, a number, octets with
padding, components. `Generic` is `py_value_to_mms_value_generic` with the
dicts of `tagged_value_to_mms_value` (`Tagged`, `Bits`), `Shaped` is
`py_value_to_mms_value_shaped`, `ToPy` is `mms_value_to_pyobject`. Integers
have `IntBits` bits (`ShortBits` for i32 and u32, in `ClientRequests`), and
every second float has a single-precision form (`Narrow`). Conversions are
recursive functions of a value and its converted components (`GenericOf`,
`ToPyOf`), so that theorems may use the module. `PyForm` and `MmsForm` say what
values there are: a part that its type has no use for is blank.

### Connect, ClientRequests and Client

`Connect` has a clock in milliseconds from the moment `connect_backstop`
counts. `Advance`, `Refuse` and `Expire` are the MMS client's exchanges and
its deadlines: `timeout_ms` for TCP, TLS and COTP together, the request
timeout for the association (997-1002). `Expire` fires at its deadline or up
to `Late` later, `BackstopFires` is `tokio::time::timeout`; a client that
`stalls` never ends an exchange, which is what the backstop is for.
`connect_tls` resolves the host before the backstop is armed (`Resolve`).
Words have `2 * HalfWord` values, so that `saturating_add` and `as i64` can be
told from plain arithmetic.

In `ClientRequests` a call is issued (`Issue`: its arguments are converted and
may raise), begins when its future is first polled (`Begin`), and ends with an
answer (`Receive`), a timeout, a lost connection or a cancellation. The server
serves the requests in the order they were sent, those of dead calls included,
and each entry of a request may fail for itself. `held` is what the server
holds, `author` the Python value it was given as, so that a read can be
compared with what was written across both conversions. `set_gocb_values`
sends one request per attribute. `served` records what the server did for each
call. `Client` hands the connection out when the attempt has succeeded; the
attempt's own variables are reset there, because its future is gone.

### ControlHandle

A value is named by the order of its recording: the n-th `set_origin` records
n, 0 is "not recorded". `Record` is every setter; `Issue`, `Take`,
`Enter`/`Enqueue`, `Grant`/`Resume`, `Install`, `Downgrade`, `Send`,
`Complete` are the stations of a command's future, in the order of
`control_handle_for_command` (2303-2324) and the four methods that call it.
`Install` writes one setting at a time, because commands that hold read guards
write `ctlNum` and the flags through a shared reference at the same time. The
lock is tokio's: `waiting` is its FIFO, and a free lock with waiters is not
entered past them. `Abandon`/`Drop` cancel the Python future. `Overlapping`
and `Abandoning` say whether the application issues commands concurrently and
cancels calls; `MaxRecords` bounds the setter calls.

### RcbHandle

`Clone` copies the mirror under its mutex, `Answer` and `Decode` are the crate
filling the copy, `Store` replaces the mirror; `CallSet`, `CloneForSet`,
`Write` are a `set_rcb_values`. `base` and `edited` remember the image stored
last and what was assigned since, `seen` and `called` what the mirror held
during and at the call. `MaxInFlight` bounds the overlapping calls.

### ReportDispatcher

The rules of asyncio (a cancelled task sees `CancelledError` at its next step,
a finished future's outcome is seen one loop iteration later) are the external
part: `mustCancel`, `future`, `CancelTask`. `native` is the Rust poll, which
ends some time after its Python future was cancelled and dispatches reports
till then; it raises only when the connection is lost. `MaxNotified` bounds
the counted calls of `on_error`, so that a second one is visible, `MaxInbox`
the reports that wait.

### ServerLifecycle and ServerPromise

The settings of `NotStarted` are of five kinds: `bind` (required), `tls` (given
once), `limits` (which stands for every setter of the configuration proper),
`authenticator` and `write_access` (which a running server takes too). Setters
are `Queue` or `Tell`. `TakeConfig` leaves `Stopped` as the code does and
carries the settings, `Build`, `StartFails` and `Listen` are the middle of
`server_do_start`, `Publish` stores `Running` whatever the state holds by then.
`TakeHandle` takes the handle under the lock and `StopReturns` waits for the
listener. `async with` is a `start` that keeps the object alive ("enter").
`Reclaim` is `Drop for PyIedServer`; `Orphaning` says whether it may come while
`start()` runs, whose future holds the state and not the object. The
refinement maps the listener, the state and wherever the settings are at the
moment (`Current`) to `ServerPromise`: serving once, under exactly the settings
last given.

### Registration and RegistrationPromise

Registrations are checked against the queue and appended (`Queue*`), `Start`
takes the queue, `ReplayEntry` is one iteration of the first loop (4266),
`BindReports`, `ServeDataSets`, `ServeLogsAndGroups` and `ReplayModel` are the
passes after it. The life cycle around them is reduced to its four stages.
`RegistrationPromise` sees the callback in force per target (`InForce`): the
newest one queued, then the newest one installed. `Retained` is `retain()`
(8016), as the list of what it keeps of every beginning of the queue, so that
it can be reasoned about step by step. `MaxQueue` bounds the queue.

### AttributeAccess

A callback is kept under a key (`Slot`): the canonical path without the
logical device for reads and writes (`CanonicalPath`), the logical device for
setting groups. A path finds its attribute through the index (`Indexed`), in
which the later of two attributes of one path stands. A request looks its
callback up when it arrives (`asked`), waits for a thread of the pool
(`RunNext`) and is settled with what the callable returned or raised
(`Returned`): `ReadOutcome`, `WriteOutcome`, `SelectOutcome` and `Decision` are
the four adapters. No lock is held meanwhile, so `Update`, registrations and
other requests come between. `seen` is the history of the values an attribute
had while a request was under way.

### ControlCallback

A command goes through `wait`, if its object has one, and `operate`; each hands
a call to the pool (`Spawn`), a thread runs it (`RunNext`), it returns
(`Resolve`) or hands a coroutine to the event loop (`ReturnCoroutine`).
`TimeLimit` drops the future that waits and leaves the call where it is, queued
ones included; the command is then "expired".

What the client is sent is kept apart from what the command executes: `wait`,
or the time limit, decides the Operate response, and `operate` is handed to
the pool with the positive one (`Execute`). What `operate` comes to is sent as
a CommandTermination, by objects of an enhanced-security model alone
(`Terminate`, `Enhanced`); under normal security a failing `operate` is not
reported (7256-7258). `Outcome` is what the client's own `operate` makes of
these messages. That an object executes its command until `operate` is over,
under either kind of model, and takes no other meanwhile, is the server
crate's part (`Accept`), as is `check`, which has let the command through.

### Batch

`gil` is the thread that is between the two halves of a call: `FindServer`
clones the server out of the state, `LockDataModel`/`BatchRefused` ask for the
lock, and only `Stop`, which needs no GIL, comes between. `arcs` are the
references to the Rust server that this library holds; the ones the server's
own tasks hold are left out, so that the guarantee rests on this code alone.
`Unlock` then `ForgetServer` is the order in which `BatchGuardInner`'s fields
are dropped. `DropElsewhere` is PyO3's rule for unsendable objects. The names
of the specification (`BatchInit`, `BatchNext`, `BatchSpec`) differ from those
of `AttributeAccess`, so that one module can extend both.

## 3. Runs

| Run | Instance | Shows |
|---|---|---|
| `control_concurrent` | 3 overlapping commands, 1 exclusive setting, 2 recordings, cancellation | `ExclusiveCarried`, `ExclusiveStable`, `EveryCommandEnds` |
| `control_abandoned` | 2 commands with cancellation | violation of `NewestInForce` |
| `lifecycle` | 3 concurrent calls, settings of every kind of rule, 1 value or none each | `StartIsAlone`, `OpenHasOwner`, `EveryCallReturns`, refinement `KeepsPromise` |
| `registration_replay` | queue of 4, two data sets, two reports, a log, three kinds of callback targets | `ServedOnce`, refinement `KeepsPromise` |
| `rcb_mirror` | 2 refreshes, 1 set, 2 in flight, 2 attributes of 2 values | `MirrorUntorn`, `WritesOneMoment` |
| `rcb_call_moment` | 1 refresh, 1 set | violation of `WritesTheCallMoment` |
| `dispatcher_stop` | 3 `aclose()` beside `stop()`, a handler, 2 reports in the queue, loss of the connection | `DeathHasReason`, `NoErrorAfterStop`, `QuietAfterClose`, `CloseEnds` |
| `callback` | 4 commands, 2 to an object with enhanced security, a wait and a limit, 1 to its like under normal security, 1 to an object with an operate alone; 2 threads | `OutcomeIsTrue`, `OverlapIsAbandoned`, `EveryCommandEnds` |
| `batch` | 2 threads, 3 guards, 3 updates | `LockOutlived`, `LockAccounted`, `BatchIsOne`, `NobodyWaitsForEver` |
| `client` | timeouts of 0, 2, 4 and 62 ms, request timeouts of 1 and 60 ms and the default, words of 64 values; 2 calls of 18 plans on 2 attributes, integers of 4 bits | `BackstopIsLast`, `TimeoutIsTrue`, `TheAnswerIsReported`, `WrittenReadsBack`, `EffectsAccounted`, `EveryCallEnds` |
| `attribute` | 2 attributes of one path and different FCs, 2 requests, 1 pool thread, callables with 8 outcomes | `OwnCallbackAnswers`, `ReadsAreTrue`, `NothingUnasked` |
| `attribute_twins` | 2 logical devices with a node of the same name | violation of `OwnCallbackAnswers` |

Every passing run also checks its module's type invariant (`TypeOK`, in `Batch`
`BatchTypeOK`).

**Why the bounds are enough.** Three commands on a control object are a
writer, a reader before and one behind it, the smallest queue in which
overtaking or starving can happen; two recordings make one old and one new
value. Two refreshes and a set suffice for a torn mirror since each step
touches one attribute and two of them tell images apart. Three
life-cycle calls give two starts and a stop, or a start and two stops, at every
station of each other. A queue of four holds a data set, its report, a callback and its
replacement in any order. Three `aclose()` are more than there are distinct
stations of the task. In `callback` two commands to one object make one
that runs beside what the other left behind; their abandoned calls fill the
two threads while the commands to the other objects wait. The mixes of control
model, wait and time limit that its three objects leave out are covered by the
theorems, safety alone. Three guards make a lost, an open and a refused batch.
In `client` the timeouts 62 and 60 with 64-valued words make `saturating_add`
saturate and `as i64` turn negative, the small ones let every timer run out
within `Horizon` (12 ms), the default is needed and not, and a lateness of 1
is the most the slack of 3 admits; the limits past the horizon are excluded
from the liveness property alone. Two calls are a writer and a reader, or a
call and the one that overtakes it; the values hold one of each type, both
paddings, a number past the signed range and a nested composite. In
`attribute` one thread and two requests make one wait for the other; the
values returned are one of each class the adapters tell apart. The theorems of
section 4 show that for every invariant and action property of a passing run,
the conversions included, the bounds do not matter; what they still limit is
liveness.

**Deadlock** is checked where commands are repeatable (`ControlHandle`,
`RcbHandle`, `AttributeAccess`, where the host never runs out of calls).
`CHECK_DEADLOCK FALSE` is set where the system comes to rest: a failed attempt
to connect or one whose calls have ended, a reclaimed or stopped server, a
closed dispatcher, commands and batches that are made once.

**Fairness** is weak fairness of what the runtime does by itself: polling a
ready future, handing a released lock to its queue, ending a command's request
(the client crate bounds each by a time limit), closing a listener, running
the event loop's callbacks, firing a timer that is due, taking a queued
callable to a free thread. In `Client` nothing is assumed of the peer: it need
not answer, and what ends an attempt or a call is its timer. Resolving a host
is assumed to end, since no timer of this code covers it. In `ControlCallback`
callables may never come back, and the commands of objects without a time limit
are said to end only if they do (`CallsEnd` in `EveryCommandEnds`). Of
`AttributeAccess` no liveness is stated: a request ends when its callable does,
which nothing in this code bounds. In `Batch` the release of an open batch is
strongly fair: a `with` block ends by assumption, its `__exit__` needs the
GIL, and the interpreter hands the GIL to a waiting thread sooner or later
though others keep taking it. Nothing is assumed of the application otherwise:
it need not call, cancel, stop or update.

### Disagreements with the documentation

* `control_abandoned`: a command cancelled while it waits for the lock has
  already taken the recorded settings; they reach no later command, although
  `set_origin` promises an override "for the following commands" (2351).
* `rcb_call_moment`: the fields are said to be "taken from the handle when the
  call is made" (1860); they are copied when the future first runs.
* `attribute_twins`: `on_read` registers "a read callback for a single data
  attribute" and only "re-registering the same path" replaces it (7150, 7189),
  but the key leaves the logical device out (4719), so the registration for
  one device takes over the attribute of the same name in another.

Three more that no run shows: a failed `start()` leaves the state at `Stopped`,
so that later calls say the server "has been stopped" (4204, 6876); the
documentation of `py_err_to_data_access` says the exception is printed (4812),
which happens only when it carries no valid code; that of
`get_data_set_values` says the error carries the wire code (1659), which is in
the message only (1686).

## 4. Proofs

Every invariant and every action property of a passing run is the statement of
a theorem. Eight modules hold them. For each specification there is an
invariant `IInv` (`BatchIInv`), its lemmas `Init => IInv` and
`IInv /\ [Next]_vars => IInv'` with a case per action, and a theorem of
invariance, from which the invariants follow by weakening, the action
properties by one step and the refinements by a step of the promise. The
strengthened invariants were checked by TLC before they were proved. Nothing
bounds the number of calls, commands, threads, objects or values.

| Module | Theorems (the property each states) |
|---|---|
| `ControlHandleProofs` | `TypeCorrect`, `CarriesExclusive` (`ExclusiveCarried`), `ExclusiveStands` (`ExclusiveStable`) |
| `RunningServerProofs` | `TypeCorrect`, `OwnAnswers` (`OwnCallbackAnswers`), `ReadsTrue` (`ReadsAreTrue`), `AskedFirst` (`NothingUnasked`); `BatchTypeCorrect`, `ServerOutlivesLock` (`LockOutlived`), `LockHasHolder` (`LockAccounted`), `RaisedTogether` (`BatchIsOne`) |
| `ServerLifecycleProofs` | `TypeCorrect`, `StartsAlone` (`StartIsAlone`), `OwnerOfListener` (`OpenHasOwner`), `Refinement` (`KeepsPromise`) |
| `RegistrationProofs` | `TypeCorrect`, `EachServedOnce` (`ServedOnce`), `Refinement` (`KeepsPromise`) |
| `RcbHandleProofs` | `TypeCorrect`, `NeverTorn` (`MirrorUntorn`), `OneMoment` (`WritesOneMoment`) |
| `ReportDispatcherProofs` | `TypeCorrect`, `EndsForReason` (`DeathHasReason`), `StopIsLastWord` (`NoErrorAfterStop`), `ClosedIsQuiet` (`QuietAfterClose`) |
| `ControlCallbackProofs` | `TypeCorrect`, `OutcomesAreTrue` (`OutcomeIsTrue`), `OnlyAbandonedOverlap` (`OverlapIsAbandoned`) |
| `ClientProofs` | `TypeCorrect`, `BackstopComesLast` (`BackstopIsLast`), `TimeoutsAreTrue` (`TimeoutIsTrue`), `EffectsOnce` (`EffectsAccounted`), `AnswersAreReported` (`TheAnswerIsReported`), `ReadsAreWritten` (`WrittenReadsBack`), `ConversionsKeep` |

**Assumptions.** The `ASSUME`s of the modules, which TLC evaluates in the runs:
bounds and parameters are of their type, and names used side by side differ.
Those that say more are

* `SlackAssumption` (`Connect`): a timer is late by less than half of the
  backstop's slack; two deadlines stand before the backstop;
* `PlansAssumption` (`ClientRequests`): a `set_gocb_values` has an attribute to
  send, with a value for each (with none it sends nothing);
* `FormsAssumption` and `ClosedAssumption` (`Values`): values are of the forms
  the languages have (`PyForm`, `MmsForm`), and so are their components;
* `ConversionsAssumption` (`ClientRequests`) and `UpdatesAssumption`
  (`AttributeAccess`): `MmsValues` holds what the values given convert to;
* `AccessAssumption`: there is an attribute, a thread in the pool, and an
  attribute's default is an MMS value. What a callable raises is told from what
  it returns.

Some theorems have a hypothesis besides, each satisfied by a run:

* `OwnerOfListener` holds where the object is not reclaimed under a running
  `start()` (`~Orphaning`); with `Orphaning` the code has no owner for the
  listener, and the hazard is listed.
* `OwnAnswers` holds where no two attributes have one canonical path
  (`NoTwins`); `attribute_twins` shows what happens where two devices share a
  name.
* The theorems about values hold where nesting has a bound, whatever it is
  (`FinitelyNested`: a list that contains itself has no conversion, the
  recursion of the code would not end), and where a typed write is given a
  value of the method's own type (`OwnTypes`: `write_int32(True)` writes 1, and
  1 is read back, as an `int`). `MCClient` assumes both of its values, so that
  TLC evaluates them.

**The invariants, and why they are needed.**

*ControlHandle.* `ExclusiveCarried` speaks of commands that are about to send,
and says nothing of how the handle got there. `QueueOK`: the lock's queue holds
queued commands, each once, so that granting the lock's head gives it to one
command. `WriterAlone`: nobody holds the lock beside a command that holds it
exclusively. `TodoTaken`: a command has only to install what it took.
`InstalledSoFar`: the exclusive settings a command has already installed are in
force, although it is not finished. `Install` is where they meet: whoever
installs an exclusive setting is a writer, hence alone, hence changes nothing
under a command that is about to send.

*Batch.* `GuardsKeep`: a guard keeps the server from the moment it has the lock until
after its release, which survives a `stop()` in between.

*ServerLifecycle.* The settings are in one place at each moment: queued before
a start (`Queued`), carried by the one start there is (`Carried`), behind the
listener afterwards (`Listening`); `Held` says whose the object is meanwhile.
`StartIsAlone` rests on the state leaving `NotStarted` for good. With the place
of the settings known, `Mapped` says in which state of `ServerPromise` each
station is, and a step of the code is a step of the promise or none: queueing,
telling, beginning to serve and being over are the steps that it sees.

*Registration.* `QueueOK`: a block, and a domain's handler, is queued once, and
a report has its data set queued; `QueueWithout` shows that `retain()` keeps
this. `ReplayOK`: what is left to replay is the end of the queue. `InstalledOK`:
the callbacks installed are the last of the entries replayed already, those of
domains only after their pass. `BlocksOK` counts, pass by pass, what the
server was given. The recursion of `Retained` is reasoned about through
`RetainedPicks` (the result picks the entries of the other targets in order):
the set of lengths at which that would fail has no least element.

*RcbHandle.* `Decoded`: the copy a refresh works on agrees with the server's
answer but for what it has yet to decode. `Copied`: a set's copy is a mirror
that it has seen, and all that it wrote is from that copy.

*ReportDispatcher.* `Cancelling`: a stopped task is done or has a cancellation
to come, wherever between two callbacks of the loop `stop()` found it.
`Reason`: an error is one of the connection, told once, and the end. `Closed`:
an `aclose()` has returned from a task that is done.

*ControlCallback.* `UnderWay` is what the overlap rests on: an unfinished call
is of the stage its command is in, unless a time limit gave it up; with `Alone`
(an object executes one command) two such calls have one that was given up.
`Told` ties the client's messages to the stages its command is past: no
`operate` was handed over without a positive response and a `wait` that
accepted. `Unspawned`, `Resolved` and `PoolOK` say that a call is handed over
once, has a result just when it is finished, and is in the pool's queue once,
so that a result which somebody has read is not written again.

*Client.* Of the attempt, `OnTime`: a client that does not stall is never later
than its deadline and a timer's lateness, so the sum of two deadlines, two
latenesses and less than the slack is what the backstop is compared with,
saturated or not. Of the requests, `WireOK`: a call has one request on the wire
at most, the one it sent last. `Progress` says how much was served for a call
at each of its stations, `AnswerOK` that the answer which waits for it is that
of its last request, `Reported` that its result agrees with all that was
served. The server's six actions differ in what they do to the attributes; to
a call each is a `Service`, and one lemma (`ServedStep`) covers them.

*Conversions.* `ConversionsKeep` is an induction over values, which the prover
does not have: a value that is not kept would have a least depth, at which its
components are kept, and then so is it (`KeptIfParts`). In the same way
`RecursionDefines` shows that the recursions of `Generic`, `ToPy` and `Plain`
define functions at all: a solution up to some depth gives one a level deeper.
The two theorems about answers and reads then say that no interleaving of
calls, failures and cancellations mixes up or loses what was converted.

*AttributeAccess.* `HandlerOK`: the callback under a key was registered by a
path that finds an attribute of this key, so a request that takes it from there
keeps it whatever is registered later. `QueueOK`: a request waits for the pool
once, and only while it waits, so that a thread that takes the head of the
queue makes one more callback run. `UnderWay`: a request whose callback waits
or runs has seen the value its attribute has now; every update and every write
that ends keeps this, which is why a `None` from the callback gives a value
the attribute had meanwhile (`ReadTrue`). It also holds what it would write, of
the attribute's type, so that the cache keeps its types (`CacheOK`).
`OnlyReturnsEnd` shows that nothing but its own return ends a running request.

**Only model-checked.** Liveness: fairness and ENABLED are outside the prover's
reach. The three violated properties are counterexamples, which need no proof.

## 5. Not modelled, and why

* Pure conversions of nested dicts: `from_model_spec`, `from_scl`, SCL, device
  models, specifications, journal entries, reports. Tables: error attributes,
  tokens, data classes. `query_sntp` wraps one call. Release scripts.
* The device model's cache (1592), the server's registries, the values of
  inactive setting groups, `set_log_ena`, `log_value`, `abort_connection`,
  the connection counters: one call of an external crate each, without state
  here.
* In `Values`: the packing of a quality into bits (`read_quality`,
  `update_quality`), timestamps, the splitting of references, and lists of
  integers given for octets.
* The typed `update_*` methods differ from `update_array` by their conversion
  only.
* In `AttributeAccess` a request is for one attribute: reads of a parent node
  or a data set, and writes of several, ask several times. A setting group
  callback that was not given counts as consent (5105) and is not modelled.
* In `ControlCallback`: `check`, `Select`, status-only objects, and objects
  registered without `operate`, which refuse every Operate.
* In `ClientRequests` a failure of a request is one of a few classes. The ones
  left out of `map_client_error` end a call in the same way: the refusals of
  arguments and names that the crate raises as `ValueError` (461-464), answers
  that do not parse, lists that do not advance.
* A report handler's table and the matching of reports to handlers are the
  crate's: `ReportDispatcher` has one handler at a time.
* Outside `Connect` time is not a clock: deadlines are events that may come.
  The five seconds a reclamation waits at most (4752) are not modelled.
* Two hazards are excluded or admitted openly: the object reclaimed while
  `start()` runs (`Orphaning`), after which the server has no owner, and a
  guard dropped on another thread, which keeps the lock for good.

`PROJECT.json` lists every hazard with its line and the properties that cover
it, or the reason why none does.

## 6. Plan

Done: all modules of section 2, and the proofs of all their invariants, action
properties and refinements.

To model, should it become possible: the GIL, the state's mutex and finalizers
as locks and steps; the composition of `ServerLifecycle` with `Registration`,
where a registration finds a running server that is stopped before it is used.
