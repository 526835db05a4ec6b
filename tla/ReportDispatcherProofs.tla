------------------------ MODULE ReportDispatcherProofs ------------------------
(***************************************************************************)
(* Proofs about ReportDispatcher, for any number of coroutines, handlers   *)
(* and reports: why the task ends, that stop() is the last word on         *)
(* exception(), and that nothing polls once an aclose() has returned. The  *)
(* argument is that stop() leaves a cancellation that nothing takes back   *)
(* before the task is done, wherever between two callbacks it comes.       *)
(***************************************************************************)
EXTENDS ReportDispatcher, TLAPS

\* A stopped task is done or has a cancellation to come, and only a stopped
\* one has.
Cancelling ==
    /\ mustCancel \/ future = "cancelled" => stopped
    /\ stopped => Done \/ mustCancel \/ future = "cancelled"
    /\ task = "created" => future = "none"

\* An error is one of the connection, was told once and is the end.
Reason ==
    /\ future = "raised" => link = "lost"
    /\ error => link = "lost" /\ notified = 1 /\ Done
    /\ ~error => notified = 0
    /\ Done => stopped \/ error

Closed == \A c \in Closers : closer[c] = "returned" => Done

IInv == TypeOK /\ Cancelling /\ Reason /\ Closed

\* It holds before the task is created.
LEMMA InitInvariant == Init => IInv
<1> SUFFICES ASSUME Init PROVE IInv
  OBVIOUS
<1>1. 0 \in 0..MaxNotified /\ 0 \in 0..MaxInbox
  BY BoundAssumption
<1>2. TypeOK
  BY <1>1 DEF Init, TypeOK
<1>3. Cancelling /\ Reason /\ Closed
  BY DEF Init, Cancelling, Reason, Closed, Done
<1> QED
  BY <1>2, <1>3 DEF IInv

\* Every step keeps it: a cancellation, once asked for, waits for the task or
\* has ended it.
LEMMA StepInvariant == IInv /\ [Next]_vars => IInv'
<1> SUFFICES ASSUME IInv, [Next]_vars PROVE IInv'
  OBVIOUS
<1> USE BoundAssumption
    DEF IInv, TypeOK, Cancelling, Reason, Closed, Done, reportVars
<1>1. CASE Begin
  BY <1>1 DEF Begin, Poll
<1>2. CASE Continue
  BY <1>2 DEF Continue, Poll
<1>3. CASE Cancelled
  BY <1>3 DEF Cancelled
<1>4. CASE Fail
  <2>1. /\ task = "polling" /\ future = "raised" /\ ~mustCancel
        /\ ~stopped /\ ~error /\ notified = 0 /\ link = "lost"
        /\ future' = future /\ UNCHANGED <<native, closer, link, inbox, handler>>
    BY <1>4 DEF Fail
  <2>2. error' = TRUE /\ notified' = 1
    BY <1>4, <2>1 DEF Fail
  <2>3. \/ task' = "returned" /\ UNCHANGED <<stopped, mustCancel>>
        \/ task' = "cancelled" /\ stopped' = TRUE /\ mustCancel' = TRUE
    BY <1>4, <2>1 DEF Fail, Stop, CancelTask
  <2>4. TypeOK'
    <3>1. notified' \in 0..MaxNotified
      <4>1. MaxNotified \in Nat /\ MaxNotified # 0
        OBVIOUS
      <4> QED
        BY <2>2, <4>1
    <3>2. mustCancel' \in BOOLEAN /\ stopped' \in BOOLEAN /\ error' \in BOOLEAN
      BY <2>2, <2>3
    <3> QED
      BY <2>1, <2>3, <3>1, <3>2
  <2>5. Cancelling' /\ Reason' /\ Closed'
    BY <2>1, <2>2, <2>3
  <2> QED
    BY <2>4, <2>5
<1>5. CASE CallStop
  BY <1>5 DEF CallStop, Stop, CancelTask
<1>6. ASSUME NEW result \in {"dispatched", "raised"}, NativeEnds(result) PROVE IInv'
  BY <1>6 DEF NativeEnds
<1>7. ASSUME NEW c \in Closers, CallClose(c) PROVE IInv'
  BY <1>7 DEF CallClose, Stop, CancelTask
<1>8. ASSUME NEW c \in Closers, CloseReturns(c) PROVE IInv'
  BY <1>8 DEF CloseReturns
<1>9. ASSUME NEW h \in Handlers, InstallHandler(h) PROVE IInv'
  BY <1>9 DEF InstallHandler
<1>10. CASE UninstallHandler
  BY <1>10 DEF UninstallHandler
<1>11. CASE Arrive
  BY <1>11 DEF Arrive
<1>12. CASE LoseLink
  BY <1>12 DEF LoseLink
<1>13. CASE Dispatch
  BY <1>13 DEF Dispatch
<1>14. CASE UNCHANGED vars
  BY <1>14 DEF vars
<1> QED
  BY <1>1, <1>2, <1>3, <1>4, <1>5, <1>6, <1>7, <1>8, <1>9,
     <1>10, <1>11, <1>12, <1>13, <1>14 DEF Next

\* The invariant holds of every state the dispatcher reaches.
THEOREM Invariance == Spec => []IInv
BY InitInvariant, StepInvariant, PTL DEF Spec

\* The task, its flags and its history keep their types; on_error is never
\* called more often than is counted.
THEOREM TypeCorrect == Spec => []TypeOK
<1>1. IInv => TypeOK
  BY DEF IInv
<1> QED
  BY <1>1, Invariance, PTL

\* The task of spawn_report_dispatcher ends by stop() or with the error of a
\* lost connection, which is told to on_error once.
THEOREM EndsForReason == Spec => []DeathHasReason
<1>1. IInv => DeathHasReason
  BY DEF IInv, Reason, DeathHasReason
<1> QED
  BY <1>1, Invariance, PTL

\* A failing poll that meets stop() is dropped: Fail is not enabled any more.
THEOREM StopIsLastWord == Spec => NoErrorAfterStop
<1>1. ASSUME IInv, [Next]_vars, stopped
      PROVE  error' = error /\ notified' = notified
  <2>1. ~Fail
    BY <1>1 DEF Fail, IInv, Cancelling, Done
  <2> QED
    BY <1>1, <2>1
    DEF Next, vars, Begin, Continue, Cancelled, NativeEnds, InstallHandler,
        UninstallHandler, Arrive, LoseLink, Dispatch, CallStop, CallClose,
        CloseReturns
<1>2. IInv /\ [Next]_vars
        => [stopped => error' = error /\ notified' = notified]_vars
  BY <1>1
<1> QED
  BY <1>2, Invariance, PTL DEF NoErrorAfterStop, Spec

\* Once an aclose() has returned the task is done, and Begin and Continue,
\* which alone call poll_reports, need a task that is not.
THEOREM ClosedIsQuiet == Spec => QuietAfterClose
<1> DEFINE Quiet == (\E c \in Closers : closer[c] = "returned")
                        => Done /\ (native' => native)
<1>1. ASSUME IInv, [Next]_vars, NEW c \in Closers, closer[c] = "returned"
      PROVE  Done /\ (native' => native)
  <2>1. Done
    BY <1>1 DEF IInv, Closed
  <2>2. ~Begin /\ ~Continue
    BY <2>1 DEF Begin, Continue, Done
  <2> QED
    BY <1>1, <2>1, <2>2
    DEF Next, vars, Cancelled, Fail, NativeEnds, InstallHandler,
        UninstallHandler, Arrive, LoseLink, Dispatch, CallStop, CallClose,
        CloseReturns, reportVars
<1>2. IInv /\ [Next]_vars => [Quiet]_vars
  BY <1>1
<1> QED
  BY <1>2, Invariance, PTL DEF QuietAfterClose, Spec
=============================================================================
