-------------------------- MODULE ServerLifecycle --------------------------
(***************************************************************************)
(* The life of a hosted IedServer: ServerState behind its mutex, start()   *)
(* and stop() (and __aenter__, __aexit__) as futures of the tokio runtime  *)
(* that run beside the application's threads, their cancellation, and the  *)
(* reclamation of the Python object.                                       *)
(*                                                                         *)
(* start() takes the configuration out of the state and leaves Stopped in  *)
(* its place until the listener is open, so the state reads Stopped while  *)
(* a server is starting.                                                   *)
(***************************************************************************)
EXTENDS Naturals, FiniteSets

CONSTANTS
    Calls,        \* concurrent start()/stop() calls
    Settings,     \* the settings under consideration, of SettingNames
    Values,       \* what a setting may be set to
    Unset,        \* not set, None, or the default
    Orphaning     \* may the object be reclaimed while start() runs?

\* limits stands for each setting of the configuration proper: the number
\* of connections, the timeouts, the edition, vendor, model and revision.
SettingNames == {"bind", "tls", "limits", "authenticator", "write_access"}

ASSUME SettingsAssumption ==
    /\ Settings \subseteq SettingNames /\ "bind" \in Settings
    /\ Unset \notin Values
ASSUME OrphaningAssumption == Orphaning \in BOOLEAN

VARIABLES
    state,       \* the variant of ServerState
    queued,      \* what NotStarted holds of the settings
    carried,     \* what a start took out of NotStarted and still holds
    inForce,     \* what the RustIedServer was built with or told since
    listener,    \* the TCP listener: closed, open, or told to close
    op,          \* what each call is: "none", "start", "enter" or "stop"
    at,          \* where its future stands
    abandoned,   \* calls whose Python future was cancelled
    held         \* the application holds the PyIedServer

settings == <<queued, carried, inForce>>
vars == <<state, settings, listener, op, at, abandoned, held>>

\* What a running server takes too, and what is given at most once.
Live == {"authenticator", "write_access"} \cap Settings
Once == {"tls"} \cap Settings

Given == [Settings -> Values \cup {Unset}]
Nothing == [s \in Settings |-> Unset]
StartPhases == {"building", "binding", "listening"}

TypeOK ==
    /\ state \in {"NotStarted", "Running", "Stopped"}
    /\ queued \in Given /\ carried \in Given /\ inForce \in Given
    /\ listener \in {"closed", "open", "closing"}
    /\ op \in [Calls -> {"none", "start", "enter", "stop"}]
    /\ at \in [Calls -> {"idle", "called", "stopping"} \cup StartPhases]
    /\ abandoned \in SUBSET Calls
    /\ held \in BOOLEAN

----------------------------------------------------------------------------
Init ==
    /\ state = "NotStarted"
    /\ queued = Nothing /\ carried = Nothing /\ inForce = Nothing
    /\ listener = "closed"
    /\ op = [c \in Calls |-> "none"]
    /\ at = [c \in Calls |-> "idle"]
    /\ abandoned = {}
    /\ held = TRUE

Starting == {c \in Calls : at[c] \in StartPhases}

Queue(s, v) ==
    /\ held /\ state = "NotStarted"
    /\ queued' = [queued EXCEPT ![s] = v]
    /\ UNCHANGED <<state, carried, inForce, listener, op, at, abandoned, held>>

\* The call on the running server, effective at once.
Tell(s, v) ==
    /\ held /\ state = "Running"
    /\ inForce' = [inForce EXCEPT ![s] = v]
    /\ UNCHANGED <<state, queued, carried, listener, op, at, abandoned, held>>

\* Each of the four raises and changes nothing in any other state.
Bind(v) == Queue("bind", v)

WithTls(v) ==
    /\ "tls" \in Settings /\ queued["tls"] = Unset
    /\ Queue("tls", v)

Limit(v) == "limits" \in Settings /\ Queue("limits", v)

SetWriteAccess(v) ==
    /\ "write_access" \in Settings
    /\ Queue("write_access", v) \/ Tell("write_access", v)

SetAuthenticator(v) ==
    /\ "authenticator" \in Settings
    /\ Queue("authenticator", v) \/ Tell("authenticator", v)

Set ==
    \/ \E v \in Values : Bind(v) \/ WithTls(v)
    \/ \E v \in Values \cup {Unset} :
        Limit(v) \/ SetWriteAccess(v) \/ SetAuthenticator(v)

\* start(), __aenter__ ("enter"), stop() and __aexit__ ("stop") hand their
\* future to the runtime.
Call(c, kind) ==
    /\ held /\ at[c] = "idle"
    /\ op' = [op EXCEPT ![c] = kind]
    /\ at' = [at EXCEPT ![c] = "called"]
    /\ UNCHANGED <<state, settings, listener, abandoned, held>>

Move(c, phase) == at' = [at EXCEPT ![c] = phase] /\ UNCHANGED <<op, abandoned>>

Return(c) ==
    /\ at' = [at EXCEPT ![c] = "idle"]
    /\ op' = [op EXCEPT ![c] = "none"]
    /\ abandoned' = abandoned \ {c}

\* A call that returns having changed nothing.
Refuse(c) == Return(c) /\ UNCHANGED <<state, settings, listener, held>>

MayStart(c) ==
    /\ at[c] = "called" /\ op[c] \in {"start", "enter"}
    /\ state = "NotStarted" /\ queued["bind"] # Unset

\* Fault: the configuration is cloned and the state left as it is.
TakeConfigByCopy(c) ==
    /\ MayStart(c)
    /\ carried' = queued
    /\ Move(c, "building")
    /\ UNCHANGED <<state, queued, inForce, listener, held>>

\* server_do_start replaces the state by Stopped and keeps what was in it.
TakeConfig(c) ==
    /\ MayStart(c)
    /\ state' = "Stopped"
    /\ carried' = queued /\ queued' = Nothing
    /\ Move(c, "building")
    /\ UNCHANGED <<inForce, listener, held>>

\* Without bind(), or in any other state, what was taken is put back.
StartRefused(c) ==
    /\ at[c] = "called" /\ op[c] \in {"start", "enter"}
    /\ ~MayStart(c)
    /\ Refuse(c)

\* TLS acceptor, builder and registrations; none of it awaits.
Build(c) ==
    /\ at[c] = "building"
    /\ Move(c, "binding")
    /\ UNCHANGED <<state, settings, listener, held>>

\* Fault: a failed start leaves a state no other call knows.
StartFailsOpenly(c) ==
    /\ at[c] \in {"building", "binding"}
    /\ state' = "Failed" /\ carried' = Nothing
    /\ Return(c)
    /\ UNCHANGED <<queued, inForce, listener, held>>

\* An error while building, or the listener cannot be opened: the
\* configuration is gone and the state stays Stopped.
StartFails(c) ==
    /\ at[c] \in {"building", "binding"}
    /\ carried' = Nothing
    /\ Return(c)
    /\ UNCHANGED <<state, queued, inForce, listener, held>>

\* Fault: the queued authenticator does not reach the builder.
ListenUnguarded(c) ==
    /\ at[c] = "binding"
    /\ listener' = "open"
    /\ inForce' = [carried EXCEPT !["authenticator"] = Unset]
    /\ carried' = Nothing
    /\ Move(c, "listening")
    /\ UNCHANGED <<state, queued, held>>

\* server_arc.start() resolves: associations are accepted from now on,
\* under what the builder was given.
Listen(c) ==
    /\ at[c] = "binding"
    /\ listener' = "open"
    /\ inForce' = carried /\ carried' = Nothing
    /\ Move(c, "listening")
    /\ UNCHANGED <<state, queued, held>>

\* The state becomes Running whatever it was.
Publish(c) ==
    /\ at[c] = "listening"
    /\ state' = "Running"
    /\ Return(c)
    /\ UNCHANGED <<settings, listener, held>>

\* Fault: stop() waits for a server it did not tell to stop.
TakeHandleSilently(c) ==
    /\ at[c] = "called" /\ op[c] = "stop"
    /\ state = "Running"
    /\ state' = "Stopped"
    /\ Move(c, "stopping")
    /\ UNCHANGED <<settings, listener, held>>

\* server_do_stop takes the handle and tells the accept loop to exit.
TakeHandle(c) ==
    /\ at[c] = "called" /\ op[c] = "stop"
    /\ state = "Running"
    /\ state' = "Stopped"
    /\ listener' = "closing"
    /\ Move(c, "stopping")
    /\ UNCHANGED <<settings, held>>

\* "stop: server is not running", also while the server is starting.
StopRefused(c) ==
    /\ at[c] = "called" /\ op[c] = "stop"
    /\ state # "Running"
    /\ Refuse(c)

\* The accept loop and the connections' tasks have ended, and with them the
\* server.
ListenerCloses ==
    /\ listener = "closing"
    /\ listener' = "closed" /\ inForce' = Nothing
    /\ UNCHANGED <<state, queued, carried, op, at, abandoned, held>>

StopReturns(c) ==
    /\ at[c] = "stopping" /\ listener = "closed"
    /\ Refuse(c)

Abandon(c) ==
    /\ at[c] # "idle"
    /\ abandoned' = abandoned \cup {c}
    /\ UNCHANGED <<state, settings, listener, op, at, held>>

\* A cancelled future is dropped where it awaits, with what it holds:
\* opening the listener, or waiting for the server to wind down.
DropFuture(c) ==
    /\ c \in abandoned
    /\ \/ at[c] = "binding" /\ carried' = Nothing
       \/ at[c] = "stopping" /\ UNCHANGED carried
    /\ Return(c)
    /\ UNCHANGED <<state, queued, inForce, listener, held>>

\* The future of __aenter__ keeps the object alive, that of start() does
\* not.
Reclaimable ==
    /\ held /\ \A c \in Calls : op[c] # "enter"
    /\ Orphaning \/ \A c \in Calls : op[c] # "start"

\* Fault: PyIedServer has no Drop.
ReclaimOnly ==
    /\ Reclaimable
    /\ held' = FALSE
    /\ UNCHANGED <<state, settings, listener, op, at, abandoned>>

\* Drop for PyIedServer: a running server is stopped.
Reclaim ==
    /\ Reclaimable
    /\ held' = FALSE
    /\ IF state = "Running"
       THEN state' = "Stopped" /\ listener' = "closing"
       ELSE UNCHANGED <<state, listener>>
    /\ UNCHANGED <<settings, op, at, abandoned>>

Next ==
    \/ Set \/ ListenerCloses \/ Reclaim
    \/ \E c \in Calls :
        \/ \E kind \in {"start", "enter", "stop"} : Call(c, kind)
        \/ TakeConfig(c) \/ StartRefused(c) \/ Build(c) \/ StartFails(c)
        \/ Listen(c) \/ Publish(c)
        \/ TakeHandle(c) \/ StopRefused(c) \/ StopReturns(c)
        \/ Abandon(c) \/ DropFuture(c)

\* The runtime drives every future it was given and a server told to stop
\* winds down; the application need not call anything.
Fairness ==
    /\ WF_vars(ListenerCloses)
    /\ \A c \in Calls :
        /\ WF_vars(TakeConfig(c) \/ StartRefused(c))
        /\ WF_vars(Build(c) \/ StartFails(c) \/ Listen(c))
        /\ WF_vars(Publish(c))
        /\ WF_vars(TakeHandle(c) \/ StopRefused(c)) /\ WF_vars(StopReturns(c))

Spec == Init /\ [][Next]_vars
FairSpec == Spec /\ Fairness

----------------------------------------------------------------------------
\* While a start is under way nobody else can start, stop or configure the
\* server, so the state it overwrites when the listener is open is the
\* placeholder it left and no other server or handle is lost; what it took
\* is nowhere else.
StartIsAlone ==
    \A c \in Starting :
        /\ state = "Stopped" /\ queued = Nothing
        /\ Starting = {c}
        /\ \A d \in Calls : at[d] # "stopping"

\* An open listener has an owner that can close it: the running state of an
\* object the application still holds, or a start about to publish it.
OpenHasOwner ==
    listener = "open" =>
        \/ state = "Running" /\ held
        \/ \E c \in Calls : at[c] = "listening"

\* A start() or stop() that was called comes to its end.
EveryCallReturns == \A c \in Calls : at[c] = "called" ~> at[c] = "idle"

\* The lifecycle implements ServerPromise: one interval of service, under
\* exactly the settings of the last accepted calls, whichever starts and
\* stops were under way, and a failed, abandoned or ended server keeps none
\* and comes up with none.
Life ==
    IF listener = "open" THEN "serving"
    ELSE IF state = "NotStarted" \/ Starting # {} THEN "new" ELSE "over"

\* Where the settings are: queued, carried by the start, or in force.
Current ==
    IF state = "NotStarted" THEN queued
    ELSE CASE Life = "new" -> carried
           [] Life = "serving" -> inForce
           [] Life = "over" -> Nothing

Promise == INSTANCE ServerPromise WITH life <- Life, settings <- Current

KeepsPromise == Promise!Spec
=============================================================================
