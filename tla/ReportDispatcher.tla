-------------------------- MODULE ReportDispatcher --------------------------
(***************************************************************************)
(* The client's ReportDispatcher: an asyncio task that calls poll_reports  *)
(* again and again until stop() cancels it or a poll raises, and the       *)
(* stop() and aclose() calls of the application, and the report handlers   *)
(* that a poll calls. Every action but those of the native poll and of the *)
(* network is one callback of the event loop, atomic for the other         *)
(* coroutines; the client's queue of reports is external.                  *)
(***************************************************************************)
EXTENDS Naturals, FiniteSets

CONSTANTS
    Closers,     \* coroutines that call aclose()
    Handlers,    \* callables installed for the reports
    MaxInbox,    \* reports that wait at the same time
    MaxNotified  \* bound on the calls of on_error that are counted

ASSUME BoundAssumption == MaxNotified \in Nat \ {0, 1} /\ MaxInbox \in Nat
ASSUME HandlersAssumption == "none" \notin Handlers

VARIABLES
    task,        \* the polling task
    mustCancel,  \* asyncio: cancel() came when there was nothing to cancel
    future,      \* the Python future of the current poll
    native,      \* the Rust poll behind it still runs
    stopped,     \* _stopped
    error,       \* _error is set
    notified,    \* history: how often on_error was called
    closer,      \* where each aclose() stands
    link,        \* the connection
    inbox,       \* reports received and not dispatched
    handler      \* the handler installed for the reports

reportVars == <<link, inbox, handler>>
vars == <<task, mustCancel, future, native, stopped, error, notified, closer,
          reportVars>>

TypeOK ==
    /\ task \in {"created", "polling", "returned", "cancelled"}
    /\ mustCancel \in BOOLEAN
    /\ future \in {"none", "pending", "dispatched", "raised", "cancelled"}
    /\ native \in BOOLEAN
    /\ stopped \in BOOLEAN /\ error \in BOOLEAN
    /\ notified \in 0..MaxNotified
    /\ closer \in [Closers -> {"outside", "waiting", "returned"}]
    /\ link \in {"up", "lost"} /\ inbox \in 0..MaxInbox
    /\ handler \in Handlers \cup {"none"}

Done == task \in {"returned", "cancelled"}

----------------------------------------------------------------------------
\* spawn_report_dispatcher: the task exists, its first step is to come.
Init ==
    /\ task = "created"
    /\ mustCancel = FALSE
    /\ future = "none" /\ native = FALSE
    /\ stopped = FALSE /\ error = FALSE
    /\ notified = 0
    /\ closer = [c \in Closers |-> "outside"]
    /\ link = "up" /\ inbox = 0 /\ handler = "none"

Poll ==
    /\ task' = "polling"
    /\ future' = "pending" /\ native' = TRUE

\* Task.cancel() by way of stop(): a pending future is cancelled; otherwise
\* the task's next step raises. A task that is done is left alone.
CancelTask ==
    IF Done THEN UNCHANGED <<mustCancel, future>>
    ELSE IF future = "pending"
         THEN future' = "cancelled" /\ UNCHANGED mustCancel
         ELSE mustCancel' = TRUE /\ UNCHANGED future

Stop ==
    IF stopped THEN UNCHANGED <<stopped, mustCancel, future>>
    ELSE stopped' = TRUE /\ CancelTask

\* The first step of _loop; a task cancelled before it never polls.
Begin ==
    /\ task = "created"
    /\ IF mustCancel THEN task' = "cancelled" /\ UNCHANGED <<future, native>>
       ELSE Poll
    /\ UNCHANGED <<mustCancel, stopped, error, notified, closer,
                   reportVars>>

\* The Rust poll ends: its interval is over, or the connection is found lost.
\* A cancelled future takes no result any more.
NativeEnds(result) ==
    /\ native /\ (result = "raised" => link = "lost")
    /\ native' = FALSE
    /\ future' = IF future = "pending" THEN result ELSE future
    /\ UNCHANGED <<task, mustCancel, stopped, error, notified, closer,
                   reportVars>>

\* install_report_handler: local, it replaces the handler under the same key
\* and neither needs the connection nor the dispatcher.
InstallHandler(h) ==
    /\ handler' = h
    /\ UNCHANGED <<task, mustCancel, future, native, stopped, error, notified,
                   closer, link, inbox>>

UninstallHandler ==
    /\ handler # "none" /\ handler' = "none"
    /\ UNCHANGED <<task, mustCancel, future, native, stopped, error, notified,
                   closer, link, inbox>>

\* The server sends a report, or the connection goes down.
Arrive ==
    /\ link = "up" /\ inbox < MaxInbox /\ inbox' = inbox + 1
    /\ UNCHANGED <<task, mustCancel, future, native, stopped, error, notified,
                   closer, link, handler>>

LoseLink ==
    /\ link = "up" /\ link' = "lost"
    /\ UNCHANGED <<task, mustCancel, future, native, stopped, error, notified,
                   closer, inbox, handler>>

\* Fault: what a handler raises ends the poll that called it.
DispatchUnwinding ==
    /\ native /\ inbox > 0 /\ inbox' = inbox - 1
    /\ \E raised \in IF handler = "none" THEN {FALSE} ELSE BOOLEAN :
          /\ native' = (native /\ ~raised)
          /\ future' = IF raised /\ future = "pending" THEN "raised" ELSE future
    /\ UNCHANGED <<task, mustCancel, stopped, error, notified, closer, link,
                   handler>>

\* The Rust poll takes a report and calls the handler that is installed, if
\* there is one. What the handler raises is printed and a report that does
\* not convert is skipped: the poll goes on either way. A poll whose future
\* was cancelled still dispatches until it notices.
Dispatch ==
    /\ native /\ inbox > 0 /\ inbox' = inbox - 1
    /\ UNCHANGED <<task, mustCancel, future, native, stopped, error, notified,
                   closer, link, handler>>

\* await poll_reports(...) returns: poll again, whatever the last one found,
\* unless a cancellation is due.
Continue ==
    /\ task = "polling" /\ future = "dispatched" /\ ~mustCancel
    /\ Poll
    /\ UNCHANGED <<mustCancel, stopped, error, notified, closer,
                   reportVars>>

\* Fault: CancelledError is caught with the other exceptions.
CancelledIgnored ==
    /\ task = "polling"
    /\ \/ future = "cancelled"
       \/ future \in {"dispatched", "raised"} /\ mustCancel
    /\ mustCancel' = FALSE
    /\ Poll
    /\ UNCHANGED <<stopped, error, notified, closer,
                   reportVars>>

\* Fault: a cancelled poll ends the task with a state of its own.
CancelledOddly ==
    /\ task = "polling"
    /\ \/ future = "cancelled"
       \/ future \in {"dispatched", "raised"} /\ mustCancel
    /\ task' = "stopped"
    /\ UNCHANGED <<mustCancel, future, native, stopped, error, notified, closer,
                   reportVars>>

\* Fault: CancelledError ends the loop as an error of the poll does.
CancelledAsError ==
    /\ task = "polling"
    /\ \/ future = "cancelled"
       \/ future \in {"dispatched", "raised"} /\ mustCancel
    /\ task' = "returned"
    /\ error' = TRUE
    /\ notified < MaxNotified /\ notified' = notified + 1
    /\ UNCHANGED <<mustCancel, future, native, stopped, closer,
                   reportVars>>

\* CancelledError is raised at the await: the task passes it on. An outcome
\* of the poll that was waiting there is dropped.
Cancelled ==
    /\ task = "polling"
    /\ \/ future = "cancelled"
       \/ future \in {"dispatched", "raised"} /\ mustCancel
    /\ task' = "cancelled"
    /\ UNCHANGED <<mustCancel, future, native, stopped, error, notified, closer,
                   reportVars>>

\* The poll raised: the error is kept and on_error called, which may itself
\* call stop(); what on_error raises goes to the loop's handler.
Fail ==
    /\ task = "polling" /\ future = "raised" /\ ~mustCancel
    /\ error' = TRUE
    /\ notified < MaxNotified /\ notified' = notified + 1
    /\ \/ task' = "returned" /\ UNCHANGED <<stopped, mustCancel>>
       \/ Stop /\ task' = IF mustCancel' THEN "cancelled" ELSE "returned"
    /\ UNCHANGED <<future, native, closer,
                   reportVars>>

\* stop() from any other callback of the loop.
CallStop ==
    /\ ~stopped
    /\ Stop
    /\ UNCHANGED <<task, native, error, notified, closer,
                   reportVars>>

\* aclose(): stop(), then wait for the task.
CallClose(c) ==
    /\ closer[c] = "outside"
    /\ Stop
    /\ closer' = [closer EXCEPT ![c] = "waiting"]
    /\ UNCHANGED <<task, native, error, notified,
                   reportVars>>

\* Fault: aclose() does not wait for the task.
CloseAtOnce(c) ==
    /\ closer[c] = "waiting"
    /\ closer' = [closer EXCEPT ![c] = "returned"]
    /\ UNCHANGED <<task, mustCancel, future, native, stopped, error, notified,
                   reportVars>>

\* The task is done; its outcome, or a cancellation of the waiting coroutine
\* itself, is swallowed.
CloseReturns(c) ==
    /\ closer[c] = "waiting"
    /\ Done
    /\ closer' = [closer EXCEPT ![c] = "returned"]
    /\ UNCHANGED <<task, mustCancel, future, native, stopped, error, notified,
                   reportVars>>

Next ==
    \/ Begin \/ Continue \/ Cancelled \/ Fail \/ CallStop
    \/ \E result \in {"dispatched", "raised"} : NativeEnds(result)
    \/ \E c \in Closers : CallClose(c) \/ CloseReturns(c)
    \/ \E h \in Handlers : InstallHandler(h)
    \/ UninstallHandler \/ Arrive \/ LoseLink \/ Dispatch

\* The event loop runs every callback that is ready, and a poll ends by its
\* interval at the latest.
Fairness ==
    /\ WF_vars(Begin) /\ WF_vars(Continue) /\ WF_vars(Cancelled)
    /\ WF_vars(Fail)
    /\ WF_vars(\E result \in {"dispatched", "raised"} : NativeEnds(result))
    /\ \A c \in Closers : WF_vars(CloseReturns(c))

Spec == Init /\ [][Next]_vars
FairSpec == Spec /\ Fairness

----------------------------------------------------------------------------
\* The dispatcher dies of stop() or of a lost connection, told to on_error
\* exactly once: never of what a report handler raises, and never in silence.
DeathHasReason ==
    /\ error => link = "lost" /\ notified = 1
    /\ Done => stopped \/ error

\* Once an aclose() has returned the dispatcher never polls again, so the
\* connection may be closed under it.
QuietAfterClose ==
    [][(\E c \in Closers : closer[c] = "returned")
            => Done /\ (native' => native)]_vars

\* aclose() comes back, however the cancellation meets the poll.
CloseEnds == \A c \in Closers : closer[c] = "waiting" ~> closer[c] = "returned"

\* stop() wins against a poll that fails at the same time: exception() does
\* not turn from None to an error, nor is on_error called, after stop().
NoErrorAfterStop ==
    [][stopped => error' = error /\ notified' = notified]_vars
=============================================================================
