--------------------------- MODULE ControlHandle ---------------------------
(***************************************************************************)
(* The client's ControlObjectClient: setters that record a setting for     *)
(* the commands to come, and select / select_with_value / operate /        *)
(* cancel, which take the recorded settings, wait for the shared handle's  *)
(* FIFO read-write lock, install what they took and send the request       *)
(* while they hold a read guard.                                           *)
(*                                                                         *)
(* A setting's values are named by the order in which they were recorded:  *)
(* the n-th call of the setter of s records the value n, and 0 stands for  *)
(* "not recorded" (in pending and taken) or for the value the handle was   *)
(* created with (in installed and sent).                                   *)
(***************************************************************************)
EXTENDS Naturals, SequencesExt

CONSTANTS
    Commands,           \* concurrent command calls the application may make
    Settings,           \* the settings of PendingControlSettings
    ExclusiveSettings,  \* those whose installation needs the write lock
    MaxRecords,         \* bound on the setter calls per setting
    Abandoning          \* may the application cancel a call it awaits?

ASSUME SettingsAssumption == ExclusiveSettings \subseteq Settings
ASSUME BoundsAssumption == /\ MaxRecords \in Nat
                           /\ Abandoning \in BOOLEAN

VARIABLES
    recorded,   \* history: how often each setting was recorded
    pending,    \* the std mutex's PendingControlSettings
    installed,  \* the settings of the shared RustControlObjectClient
    phase,      \* where each command's future stands
    taken,      \* the settings a command took from pending
    todo,       \* the taken settings a command has still to install
    waiting,    \* the lock's FIFO of waiting commands
    sent,       \* the settings a command's request was built from
    abandoned   \* commands whose Python future was cancelled

vars == <<recorded, pending, installed, phase, taken, todo, waiting, sent,
          abandoned>>

Versions == 0..MaxRecords
Nothing == [s \in Settings |-> 0]

Phases == {"idle", "issued", "taken", "queued", "granted", "applying",
           "holding", "sent"}
GuardPhases == {"granted", "applying", "holding", "sent"}

TypeOK ==
    /\ recorded \in [Settings -> Versions]
    /\ pending \in [Settings -> Versions]
    /\ installed \in [Settings -> Versions]
    /\ phase \in [Commands -> Phases]
    /\ taken \in [Commands -> [Settings -> Versions]]
    /\ todo \in [Commands -> SUBSET Settings]
    /\ waiting \in Seq(Commands)
    /\ sent \in [Commands -> [Settings -> Versions]]
    /\ abandoned \in SUBSET Commands

----------------------------------------------------------------------------
\* The settings a record of PendingControlSettings holds (its Some fields).
Recorded(settings) == {s \in Settings : settings[s] # 0}

\* Fault: every setting is installed under the shared lock.
NeverExclusive(settings) == FALSE

NeedsExclusive(settings) == Recorded(settings) \cap ExclusiveSettings # {}

\* Commands that hold a permit of the lock, and those among them that hold
\* it exclusively: a writer downgrades once its settings are installed.
Guards == {c \in Commands : phase[c] \in GuardPhases}
Writers == {c \in Guards : /\ NeedsExclusive(taken[c])
                           /\ phase[c] \in {"granted", "applying"}}

Init ==
    /\ recorded = Nothing
    /\ pending = Nothing
    /\ installed = Nothing
    /\ phase = [c \in Commands |-> "idle"]
    /\ taken = [c \in Commands |-> Nothing]
    /\ todo = [c \in Commands |-> {}]
    /\ waiting = <<>>
    /\ sent = [c \in Commands |-> Nothing]
    /\ abandoned = {}

\* Fault: a recording is counted twice.
RecordTwice(s) ==
    /\ recorded[s] < MaxRecords
    /\ recorded' = [recorded EXCEPT ![s] = @ + 1]
    /\ pending' = [pending EXCEPT ![s] = recorded'[s] + 1]
    /\ UNCHANGED <<installed, phase, taken, todo, waiting, sent, abandoned>>

\* set_origin, set_ctl_num, set_test, set_synchro_check,
\* set_interlock_check, set_sbo_class
Record(s) ==
    /\ recorded[s] < MaxRecords
    /\ recorded' = [recorded EXCEPT ![s] = @ + 1]
    /\ pending' = [pending EXCEPT ![s] = recorded'[s]]
    /\ UNCHANGED <<installed, phase, taken, todo, waiting, sent, abandoned>>

\* The call: the value is converted and the future is handed to the runtime.
Issue(c) ==
    /\ phase[c] = "idle"
    /\ phase' = [phase EXCEPT ![c] = "issued"]
    /\ UNCHANGED <<recorded, pending, installed, taken, todo, waiting, sent,
                   abandoned>>

\* The future's first poll takes the recorded settings ...
Take(c) ==
    /\ phase[c] = "issued"
    /\ phase' = [phase EXCEPT ![c] = "taken"]
    /\ taken' = [taken EXCEPT ![c] = pending]
    /\ pending' = Nothing
    /\ UNCHANGED <<recorded, installed, todo, waiting, sent, abandoned>>

\* Fault: whoever installs an origin looks out for other such commands only.
EnterBesideReaders(c) == Writers = {}

\* ... and asks for the lock, exclusively if an origin or SBO class is due.
\* A lock that is free and has no waiter is entered in the same poll.
CanEnter(c) == IF NeedsExclusive(taken[c]) THEN Guards = {} ELSE Writers = {}

\* Fault: a command overtakes those that wait for the lock.
EnterPastQueue(c) ==
    /\ phase[c] = "taken"
    /\ CanEnter(c)
    /\ phase' = [phase EXCEPT ![c] = "applying"]
    /\ todo' = [todo EXCEPT ![c] = Recorded(taken[c])]
    /\ UNCHANGED <<recorded, pending, installed, taken, waiting, sent,
                   abandoned>>

Enter(c) ==
    /\ phase[c] = "taken"
    /\ waiting = <<>> /\ CanEnter(c)
    /\ phase' = [phase EXCEPT ![c] = "applying"]
    /\ todo' = [todo EXCEPT ![c] = Recorded(taken[c])]
    /\ UNCHANGED <<recorded, pending, installed, taken, waiting, sent,
                   abandoned>>

Enqueue(c) ==
    /\ phase[c] = "taken"
    /\ waiting # <<>> \/ ~CanEnter(c)
    /\ phase' = [phase EXCEPT ![c] = "queued"]
    /\ waiting' = Append(waiting, c)
    /\ UNCHANGED <<recorded, pending, installed, taken, todo, sent, abandoned>>

\* tokio's RwLock hands its permits to the waiters in order of arrival; the
\* waiter goes on when it is polled again.
Grant ==
    /\ waiting # <<>>
    /\ CanEnter(Head(waiting))
    /\ phase' = [phase EXCEPT ![Head(waiting)] = "granted"]
    /\ waiting' = Tail(waiting)
    /\ UNCHANGED <<recorded, pending, installed, taken, todo, sent, abandoned>>

Resume(c) ==
    /\ phase[c] = "granted"
    /\ phase' = [phase EXCEPT ![c] = "applying"]
    /\ todo' = [todo EXCEPT ![c] = Recorded(taken[c])]
    /\ UNCHANGED <<recorded, pending, installed, taken, waiting, sent,
                   abandoned>>

\* One setter of the Rust client: origin and SBO class first, then the
\* settings apply_shared stores through a shared reference.
Install(c, s) ==
    /\ phase[c] = "applying"
    /\ s \in todo[c]
    /\ s \in ExclusiveSettings \/ todo[c] \cap ExclusiveSettings = {}
    /\ installed' = [installed EXCEPT ![s] = taken[c][s]]
    /\ todo' = [todo EXCEPT ![c] = @ \ {s}]
    /\ UNCHANGED <<recorded, pending, phase, taken, waiting, sent, abandoned>>

Downgrade(c) ==
    /\ phase[c] = "applying"
    /\ todo[c] = {}
    /\ phase' = [phase EXCEPT ![c] = "holding"]
    /\ UNCHANGED <<recorded, pending, installed, taken, todo, waiting, sent,
                   abandoned>>

\* The Rust client builds the request from the handle's settings.
Send(c) ==
    /\ phase[c] = "holding"
    /\ phase' = [phase EXCEPT ![c] = "sent"]
    /\ sent' = [sent EXCEPT ![c] = installed]
    /\ UNCHANGED <<recorded, pending, installed, taken, todo, waiting,
                   abandoned>>

\* The future is over: its guard, or its place in the queue, is given back.
Release(c) ==
    /\ phase' = [phase EXCEPT ![c] = "idle"]
    /\ taken' = [taken EXCEPT ![c] = Nothing]
    /\ todo' = [todo EXCEPT ![c] = {}]
    /\ sent' = [sent EXCEPT ![c] = Nothing]
    /\ abandoned' = abandoned \ {c}
    /\ UNCHANGED <<recorded, pending, installed>>

\* The outcome, an error or the request timeout ends the command.
Complete(c) ==
    /\ phase[c] = "sent"
    /\ Release(c)
    /\ UNCHANGED waiting

\* Task.cancel() on the Python side, asyncio.wait_for running out, ...
Abandon(c) ==
    /\ Abandoning
    /\ phase[c] # "idle"
    /\ abandoned' = abandoned \cup {c}
    /\ UNCHANGED <<recorded, pending, installed, phase, taken, todo, waiting,
                   sent>>

\* A cancelled future is dropped where it is suspended: waiting for the lock
\* (or not yet resumed with it) or waiting for the response.
Drop(c) ==
    /\ c \in abandoned
    /\ \/ /\ phase[c] = "queued"
          /\ \E i \in 1..Len(waiting) :
                /\ waiting[i] = c
                /\ waiting' = RemoveAt(waiting, i)
       \/ phase[c] \in {"granted", "sent"} /\ UNCHANGED waiting
    /\ Release(c)

Next ==
    \/ \E s \in Settings : Record(s)
    \/ \E c \in Commands :
        \/ Issue(c) \/ Take(c) \/ Enter(c) \/ Enqueue(c) \/ Resume(c)
        \/ \E s \in Settings : Install(c, s)
        \/ Downgrade(c) \/ Send(c) \/ Complete(c) \/ Abandon(c) \/ Drop(c)
    \/ Grant

\* The runtime polls every woken future and every request is answered or
\* times out; nothing obliges the application to record, issue or abandon.
Fairness ==
    /\ WF_vars(Grant)
    /\ \A c \in Commands :
        /\ WF_vars(Take(c)) /\ WF_vars(Enter(c) \/ Enqueue(c))
        /\ WF_vars(Resume(c))
        /\ WF_vars(\E s \in Settings : Install(c, s))
        /\ WF_vars(Downgrade(c)) /\ WF_vars(Send(c)) /\ WF_vars(Complete(c))

Spec == Init /\ [][Next]_vars
FairSpec == Spec /\ Fairness

----------------------------------------------------------------------------
\* A command that took a new origin or SBO class is sent with exactly that
\* one, whatever other commands run on the handle: the write lock is held
\* while it is installed and turned into a read guard without a gap.
ExclusiveCarried ==
    \A c \in Commands, s \in ExclusiveSettings :
        taken[c][s] # 0 =>
            /\ phase[c] = "holding" => installed[s] = taken[c][s]
            /\ phase[c] = "sent" => sent[c][s] = taken[c][s]

\* While a command is about to be sent or waits for its answer, the origin
\* and SBO class of the shared handle do not change under it.
ExclusiveStable ==
    [][\A s \in ExclusiveSettings, c \in Commands :
          phase[c] \in {"holding", "sent"} => installed'[s] = installed[s]]_vars

\* A command that waits for the write lock is not overtaken for ever by
\* commands that only read: every issued command comes to its end.
EveryCommandEnds ==
    \A c \in Commands : phase[c] = "issued" ~> phase[c] = "idle"

\* The newest recording of a setting is on its way or in force: pending, in
\* the hands of a command that will install it, or installed.
NewestInForce ==
    \A s \in Settings :
        \/ pending[s] = recorded[s]
        \/ installed[s] = recorded[s]
        \/ \E c \in Commands :
            /\ taken[c][s] = recorded[s]
            /\ phase[c] \in {"taken", "queued", "granted", "applying"}
=============================================================================
