---------------------------- MODULE Registration ----------------------------
(***************************************************************************)
(* What an application registers with a hosted IedServer: callbacks for    *)
(* attributes, control objects and setting groups, data sets, report and   *)
(* log control blocks, and the blocks its model declares. Before start()   *)
(* the registrations are checked against each other and queued; start()    *)
(* replays the queue into the new server, first the callbacks in order,    *)
(* then the blocks by kind, then those of the model; on a running server   *)
(* callbacks and the model's blocks are installed at once.                 *)
(***************************************************************************)
EXTENDS Naturals, Sequences, FiniteSets, SequencesExt

CONSTANTS
    Attributes,     \* targets of on_read and on_write
    Controls,       \* targets of on_control
    Domains,        \* targets of register_setting_group_handler
    WithSgcb,       \* the logical devices that have an SGCB
    Callbacks,      \* the callables (triples of them for on_control, ...)
    ModelEntry,     \* what register_from_model installs for a control object
    None,           \* nothing installed
    DataSets,       \* names given to add_dataset
    Reports,        \* references given to register_urcb and register_brcb
    Logs,           \* references given to register_log_control
    Declared,       \* data sets, reports and logs the model declares
    MaxQueue        \* bound on the registrations queued before start()

ASSUME TargetsAssumption ==
    /\ Attributes \cap Controls = {} /\ Attributes \cap Domains = {}
    /\ Controls \cap Domains = {} /\ WithSgcb \subseteq Domains
    /\ None \notin Attributes \cup Controls \cup Domains
ASSUME ValuesAssumption ==
    /\ None \notin Callbacks \cup DataSets
    /\ ModelEntry \notin Callbacks \cup {None}
ASSUME BlocksAssumption ==
    /\ DataSets \cap Reports = {} /\ DataSets \cap Logs = {}
    /\ Reports \cap Logs = {}
    /\ (DataSets \cup Reports \cup Logs)
            \cap (Attributes \cup Controls \cup Domains \cup {None}) = {}
    /\ Declared \subseteq DataSets \cup Reports \cup Logs
ASSUME BoundAssumption == MaxQueue \in Nat

Targets == Attributes \cup Controls \cup Domains
Blocks == DataSets \cup Reports \cup Logs

VARIABLES
    state,      \* "NotStarted", "Starting", "Running" or "Stopped"
    queue,      \* NotStarted.pending_handlers
    step,       \* the pass of server_do_start that is due
    replay,     \* the entries its first pass has still to handle
    installed,  \* the server's callback per target
    bindings,   \* the data set each registered report or log names
    served,     \* how often each block was registered with the server
    fromModel   \* the model's blocks were registered

vars == <<state, queue, step, replay, installed, bindings, served, fromModel>>

----------------------------------------------------------------------------
Callback(t, cb) == [kind |-> "callback", target |-> t, value |-> cb]
DataSet(d) == [kind |-> "dataset", target |-> d, value |-> None]
Report(r, d) == [kind |-> "report", target |-> r, value |-> d]
Log(l, d) == [kind |-> "log", target |-> l, value |-> d]
FromModel == [kind |-> "model", target |-> None, value |-> None]

Entries ==
    {Callback(t, cb) : t \in Targets, cb \in Callbacks}
    \cup {DataSet(d) : d \in DataSets}
    \cup {Report(r, d) : r \in Reports, d \in DataSets}
    \cup {Log(l, d) : l \in Logs, d \in DataSets}
    \cup {FromModel}

Pending(kind) == {e \in Range(queue) : e.kind = kind}
PendingFor(kind, t) == {e \in Pending(kind) : e.target = t}

Nothing == [t \in Targets |-> None]
Unbound == [b \in Reports \cup Logs |-> None]
Unserved == [b \in Blocks |-> 0]

TypeOK ==
    /\ state \in {"NotStarted", "Starting", "Running", "Stopped"}
    /\ queue \in Seq(Entries) /\ replay \in Seq(Entries)
    /\ step \in {"callbacks", "reports", "datasets", "logs", "model", "up"}
    /\ installed \in [Targets -> Callbacks \cup {ModelEntry, None}]
    /\ bindings \in [Reports \cup Logs -> DataSets \cup {ModelEntry, None}]
    /\ served \in [Blocks -> Nat]
    /\ fromModel \in BOOLEAN

Init ==
    /\ state = "NotStarted"
    /\ queue = <<>> /\ replay = <<>>
    /\ step = "callbacks"
    /\ installed = Nothing
    /\ bindings = Unbound
    /\ served = Unserved
    /\ fromModel = FALSE

\* Queue an entry; a call that the guards of its caller refuse raises and
\* leaves the queue as it is.
Push(e) ==
    /\ state = "NotStarted" /\ Len(queue) < MaxQueue
    /\ queue' = Append(queue, e)
    /\ UNCHANGED <<state, step, replay, installed, bindings, served, fromModel>>

\* on_read, on_write, on_control: every call is queued, the last one counts.
QueueCallback(t, cb) ==
    /\ t \in Attributes \cup Controls
    /\ Push(Callback(t, cb))

\* The entries that retain() keeps of each beginning of q: not those of d.
Retained(q, d) ==
    LET kept[n \in 0..Len(q)] ==
            IF n = 0 THEN <<>>
            ELSE IF q[n].target = d THEN kept[n - 1]
            ELSE Append(kept[n - 1], q[n])
    IN  kept

Without(q, d) == Retained(q, d)[Len(q)]

\* register_setting_group_handler: the entry of an earlier call is dropped.
QueueSettingGroup(d, cb) ==
    /\ d \in Domains
    /\ state = "NotStarted" /\ Len(queue) < MaxQueue
    /\ queue' = Append(Without(queue, d), Callback(d, cb))
    /\ UNCHANGED <<state, step, replay, installed, bindings, served, fromModel>>

\* add_dataset
QueueDataSet(d) ==
    /\ PendingFor("dataset", d) = {}
    /\ Push(DataSet(d))

\* register_urcb, register_brcb
QueueReport(r, d) ==
    /\ PendingFor("dataset", d) # {}
    /\ PendingFor("report", r) = {}
    /\ Push(Report(r, d))

\* register_log_control does not ask for the data set.
QueueLog(l, d) ==
    /\ PendingFor("log", l) = {}
    /\ Push(Log(l, d))

\* register_from_model
QueueFromModel ==
    /\ Pending("model") = {}
    /\ Push(FromModel)

\* start() takes the queue; no registration is accepted until it is up.
Start ==
    /\ state = "NotStarted"
    /\ state' = "Starting"
    /\ replay' = queue
    /\ UNCHANGED <<queue, step, installed, bindings, served, fromModel>>

Due(s) == state = "Starting" /\ step = s

\* Fault: the first registration of a target stays.
ReplayFirst ==
    /\ Due("callbacks") /\ replay # <<>>
    /\ LET e == Head(replay) IN
        installed' = IF /\ e.kind = "callback" /\ e.target \notin Domains
                        /\ installed[e.target] = None
                     THEN [installed EXCEPT ![e.target] = e.value]
                     ELSE installed
    /\ replay' = Tail(replay)
    /\ UNCHANGED <<state, queue, step, bindings, served, fromModel>>

\* First pass, entry by entry: attribute and control callbacks are installed,
\* blocks and setting group handlers are set aside.
ReplayEntry ==
    /\ Due("callbacks") /\ replay # <<>>
    /\ LET e == Head(replay) IN
        installed' = IF e.kind = "callback" /\ e.target \notin Domains
                     THEN [installed EXCEPT ![e.target] = e.value]
                     ELSE installed
    /\ replay' = Tail(replay)
    /\ UNCHANGED <<state, queue, step, bindings, served, fromModel>>

ReplayDone ==
    /\ Due("callbacks") /\ replay = <<>>
    /\ step' = "reports"
    /\ UNCHANGED <<state, queue, replay, installed, bindings, served,
                   fromModel>>

\* Fault: a report is bound to its own reference.
BindToThemselves ==
    /\ Due("reports")
    /\ \A e \in Pending("report") : PendingFor("dataset", e.value) # {}
    /\ bindings' = [b \in Reports \cup Logs |->
            IF PendingFor("report", b) = {} THEN bindings[b] ELSE b]
    /\ UNCHANGED served
    /\ step' = "datasets"
    /\ UNCHANGED <<state, queue, replay, installed, fromModel>>

\* Every report goes in with the data set of its name (which the server keeps
\* once, however many reports share it) ...
BindReports ==
    /\ Due("reports")
    /\ \A e \in Pending("report") : PendingFor("dataset", e.value) # {}
    /\ bindings' = [b \in Reports \cup Logs |->
            IF PendingFor("report", b) = {} THEN bindings[b]
            ELSE (CHOOSE e \in PendingFor("report", b) : TRUE).value]
    /\ served' = [b \in Blocks |->
            IF PendingFor("report", b) # {} THEN served[b] + 1
            ELSE IF \E e \in Pending("report") : e.value = b THEN 1
            ELSE served[b]]
    /\ step' = "datasets"
    /\ UNCHANGED <<state, queue, replay, installed, fromModel>>

\* Fault: the data sets that reports brought along are registered again.
ServeAllDataSets ==
    /\ Due("datasets")
    /\ served' = [b \in Blocks |->
            IF PendingFor("dataset", b) # {} THEN served[b] + 1 ELSE served[b]]
    /\ step' = "logs"
    /\ UNCHANGED <<state, queue, replay, installed, bindings, fromModel>>

\* ... and the data sets no report names go in by themselves.
ServeDataSets ==
    /\ Due("datasets")
    /\ served' = [b \in Blocks |->
            IF /\ PendingFor("dataset", b) # {}
               /\ \A e \in Pending("report") : e.value # b
            THEN served[b] + 1 ELSE served[b]]
    /\ step' = "logs"
    /\ UNCHANGED <<state, queue, replay, installed, bindings, fromModel>>

\* Log control blocks, then the setting group handlers.
ServeLogsAndGroups ==
    /\ Due("logs")
    /\ \A d \in Domains \ WithSgcb : PendingFor("callback", d) = {}
    /\ bindings' = [b \in Reports \cup Logs |->
            IF PendingFor("log", b) = {} THEN bindings[b]
            ELSE (CHOOSE e \in PendingFor("log", b) : TRUE).value]
    /\ served' = [b \in Blocks |->
            IF PendingFor("log", b) # {} THEN served[b] + 1 ELSE served[b]]
    /\ installed' = [t \in Targets |->
            IF t \in Domains /\ PendingFor("callback", t) # {}
            THEN (CHOOSE e \in PendingFor("callback", t) : TRUE).value
            ELSE installed[t]]
    /\ step' = "model"
    /\ UNCHANGED <<state, queue, replay, fromModel>>

\* The server registers all of the model's blocks, or none if one of them is
\* registered already; control objects keep the entry they have.
RegisterFromModel ==
    /\ \A b \in Declared : served[b] = 0
    /\ served' = [b \in Blocks |-> IF b \in Declared THEN 1 ELSE served[b]]
    /\ bindings' = [b \in Reports \cup Logs |->
                        IF b \in Declared THEN ModelEntry ELSE bindings[b]]
    /\ installed' = [t \in Targets |->
            IF t \in Controls /\ installed[t] = None THEN ModelEntry
            ELSE installed[t]]
    /\ fromModel' = TRUE

ReplayModel ==
    /\ Due("model")
    /\ IF Pending("model") # {} THEN RegisterFromModel
       ELSE UNCHANGED <<installed, bindings, served, fromModel>>
    /\ step' = "up"
    /\ UNCHANGED <<state, queue, replay>>

\* server_arc.start() resolves.
Up ==
    /\ Due("up")
    /\ state' = "Running"
    /\ UNCHANGED <<queue, step, replay, installed, bindings, served, fromModel>>

\* Drop the server under construction, or the running one.
Discard ==
    /\ state' = "Stopped"
    /\ queue' = <<>> /\ replay' = <<>>
    /\ installed' = Nothing
    /\ bindings' = Unbound
    /\ served' = Unserved
    /\ fromModel' = FALSE
    /\ UNCHANGED step

\* start() raises: a data set or SGCB is unknown, a block is registered
\* twice, the server refuses an entry, or its port is in use.
StartFails == state = "Starting" /\ Discard

Stop == state = "Running" /\ Discard

\* on_read, on_write, on_control, register_setting_group_handler
InstallCallback(t, cb) ==
    /\ state = "Running"
    /\ t \in Domains => t \in WithSgcb
    /\ installed' = [installed EXCEPT ![t] = cb]
    /\ UNCHANGED <<state, queue, step, replay, bindings, served, fromModel>>

RegisterFromModelNow ==
    /\ state = "Running"
    /\ RegisterFromModel
    /\ UNCHANGED <<state, queue, step, replay>>

Next ==
    \/ \E t \in Targets, cb \in Callbacks :
        \/ QueueCallback(t, cb)
        \/ QueueSettingGroup(t, cb)
        \/ InstallCallback(t, cb)
    \/ \E d \in DataSets :
        \/ QueueDataSet(d)
        \/ \E r \in Reports : QueueReport(r, d)
        \/ \E l \in Logs : QueueLog(l, d)
    \/ QueueFromModel \/ Start
    \/ ReplayEntry \/ ReplayDone \/ BindReports \/ ServeDataSets
    \/ ServeLogsAndGroups \/ ReplayModel \/ Up
    \/ StartFails \/ Stop \/ RegisterFromModelNow

Spec == Init /\ [][Next]_vars

----------------------------------------------------------------------------
\* Every block that was accepted before the start is served exactly once when
\* the server is up, and every report is bound to the data set it was
\* registered with.
ServedOnce ==
    state = "Running" =>
        /\ \A b \in Blocks :
            LET asked == \E e \in Range(queue) : e.target = b
                declared == fromModel /\ b \in Declared
            IN  served[b] = IF asked \/ declared THEN 1 ELSE 0
        /\ \A e \in Pending("report") : bindings[e.target] = e.value

\* The registered callbacks are those of RegistrationPromise; a control
\* object without one may have the entry the model gives it.
LastQueued(q, t) ==
    LET at == {i \in DOMAIN q : q[i].kind = "callback" /\ q[i].target = t}
    IN  IF at = {} THEN None
        ELSE q[CHOOSE i \in at : \A j \in at : j <= i].value

InForce == [t \in Targets |->
    IF state # "Running" THEN LastQueued(queue, t)
    ELSE IF installed[t] = ModelEntry THEN None ELSE installed[t]]

Promise == INSTANCE RegistrationPromise WITH
    over <- state = "Stopped", inForce <- InForce

KeepsPromise == Promise!Spec
=============================================================================
