------------------------------- MODULE Batch -------------------------------
(***************************************************************************)
(* Updates of a running server's data model and the batches that group     *)
(* them. A batch is a BatchGuard object: batch() takes the server's        *)
(* data-model lock, and releasing the guard, by __exit__ or by dropping    *)
(* the object on the thread that made it, frees the lock and raises the    *)
(* triggers of everything updated meanwhile.                               *)
(*                                                                         *)
(* Python threads call with the GIL held; stop() runs on the runtime       *)
(* without it and can come between the two halves of batch(). The lock and *)
(* the triggers are the Rust server's (external).                          *)
(***************************************************************************)
CONSTANTS
    Threads,      \* Python threads that use the server
    Guards,       \* guard objects batch() may return, each once
    UpdateCalls,  \* calls of the update_ functions, each made at most once
    Nobody, NoGuard

ASSUME NobodyAssumption == Nobody \notin Threads /\ NoGuard \notin Guards
ASSUME GuardAssumption == "state" \notin Guards /\ "call" \notin Guards

VARIABLES
    running,  \* the state is Running
    gil,      \* the thread inside a call that has released the state's lock
    guard,    \* what became of each guard object
    maker,    \* the thread that made it
    lock,     \* the guard that holds the data-model lock
    arcs,     \* who keeps the Rust server alive: the state, a call, guards
    trigger   \* what became of the trigger of each update

batchVars == <<running, gil, guard, maker, lock, arcs, trigger>>

Active == {g \in Guards : guard[g] = "active"}
Waiting == {u \in UpdateCalls : trigger[u] = "waiting"}

BatchTypeOK ==
    /\ running \in BOOLEAN
    /\ gil \in Threads \cup {Nobody}
    /\ guard \in [Guards -> {"unused", "active", "releasing", "released", "lost"}]
    /\ maker \in [Guards -> Threads \cup {Nobody}]
    /\ lock \in Guards \cup {NoGuard}
    /\ arcs \subseteq Guards \cup {"state", "call"}
    /\ trigger \in [UpdateCalls -> {"none", "refused", "waiting", "raised"}]

BatchInit ==
    /\ running = TRUE
    /\ gil = Nobody
    /\ guard = [g \in Guards |-> "unused"]
    /\ maker = [g \in Guards |-> Nobody]
    /\ lock = NoGuard
    /\ arcs = {"state"}
    /\ trigger = [u \in UpdateCalls |-> "none"]

\* with_da looks at the state and updates under the state's lock. The
\* trigger waits if some batch is open, whoever opened it.
UpdateCall(u) ==
    /\ gil = Nobody /\ trigger[u] = "none"
    /\ trigger' = [trigger EXCEPT ![u] =
                     IF ~running THEN "refused"
                     ELSE IF lock = NoGuard THEN "raised" ELSE "waiting"]
    /\ UNCHANGED <<running, gil, guard, maker, lock, arcs>>

\* batch() clones the server out of a Running state and lets the state go.
\* (Guards bounds how many batches there are.)
FindServer(t) ==
    /\ gil = Nobody /\ running
    /\ \E g \in Guards : guard[g] = "unused"
    /\ gil' = t
    /\ arcs' = arcs \cup {"call"}
    /\ UNCHANGED <<running, guard, maker, lock, trigger>>

\* Fault: a second batch joins the one that holds the lock.
LockJoining(t, g) ==
    /\ gil = t /\ "call" \in arcs /\ guard[g] = "unused"
    /\ lock' = g
    /\ guard' = [guard EXCEPT ![g] = "active"]
    /\ maker' = [maker EXCEPT ![g] = t]
    /\ arcs' = (arcs \ {"call"}) \cup {g}
    /\ gil' = Nobody
    /\ UNCHANGED <<running, trigger>>

\* Fault: the guard borrows the server and does not keep it.
LockBorrowing(t, g) ==
    /\ gil = t /\ "call" \in arcs /\ guard[g] = "unused" /\ lock = NoGuard
    /\ lock' = g
    /\ guard' = [guard EXCEPT ![g] = "active"]
    /\ maker' = [maker EXCEPT ![g] = t]
    /\ arcs' = arcs \ {"call"}
    /\ gil' = Nobody
    /\ UNCHANGED <<running, trigger>>

\* lock_data_model grants the lock, also when stop() came in between; the
\* clone of the server moves into the guard.
LockDataModel(t, g) ==
    /\ gil = t /\ "call" \in arcs /\ guard[g] = "unused" /\ lock = NoGuard
    /\ lock' = g
    /\ guard' = [guard EXCEPT ![g] = "active"]
    /\ maker' = [maker EXCEPT ![g] = t]
    /\ arcs' = (arcs \ {"call"}) \cup {g}
    /\ gil' = Nobody
    /\ UNCHANGED <<running, trigger>>

\* Fault: batch() waits for the lock.
WaitForLock(t) ==
    /\ gil = t /\ "call" \in arcs /\ lock # NoGuard
    /\ UNCHANGED batchVars

\* The lock is taken: batch() raises RuntimeError at once.
BatchRefused(t) ==
    /\ gil = t /\ "call" \in arcs /\ lock # NoGuard
    /\ arcs' = arcs \ {"call"}
    /\ gil' = Nobody
    /\ UNCHANGED <<running, guard, maker, lock, trigger>>

\* Fault: the lock is freed and what waits for it forgotten.
UnlockSilently(t, g) ==
    /\ gil = Nobody /\ maker[g] = t /\ guard[g] = "active"
    /\ gil' = t
    /\ guard' = [guard EXCEPT ![g] = "releasing"]
    /\ lock' = NoGuard
    /\ UNCHANGED <<running, maker, arcs, trigger>>

\* Fault: the guard is told apart from a released one by being emptied.
UnlockEmptying(t, g) ==
    /\ gil = Nobody /\ maker[g] = t /\ guard[g] = "active"
    /\ gil' = t
    /\ guard' = [guard EXCEPT ![g] = "empty"]
    /\ lock' = NoGuard
    /\ trigger' = [u \in UpdateCalls |-> IF u \in Waiting THEN "raised" ELSE trigger[u]]
    /\ UNCHANGED <<running, maker, arcs>>

\* __exit__, after an exception too, or the last reference going away on the
\* guard's own thread: _guard is dropped first, which raises the triggers.
\* A second __exit__ finds nothing left to drop.
Unlock(t, g) ==
    /\ gil = Nobody /\ maker[g] = t /\ guard[g] = "active"
    /\ gil' = t
    /\ guard' = [guard EXCEPT ![g] = "releasing"]
    /\ lock' = NoGuard
    /\ trigger' = [u \in UpdateCalls |-> IF u \in Waiting THEN "raised" ELSE trigger[u]]
    /\ UNCHANGED <<running, maker, arcs>>

\* _server is dropped after _guard.
ForgetServer(t, g) ==
    /\ gil = t /\ guard[g] = "releasing"
    /\ guard' = [guard EXCEPT ![g] = "released"]
    /\ arcs' = arcs \ {g}
    /\ gil' = Nobody
    /\ UNCHANGED <<running, maker, lock, trigger>>

\* The last reference goes away on another thread (a collection run there):
\* the object is unsendable, so its contents are leaked, never dropped.
DropElsewhere(t, g) ==
    /\ gil = Nobody /\ guard[g] = "active" /\ maker[g] # t
    /\ guard' = [guard EXCEPT ![g] = "lost"]
    /\ UNCHANGED <<running, gil, maker, lock, arcs, trigger>>

\* server_do_stop takes the server out of the state.
Stop ==
    /\ running
    /\ running' = FALSE
    /\ arcs' = arcs \ {"state"}
    /\ UNCHANGED <<gil, guard, maker, lock, trigger>>

BatchNext ==
    \/ Stop
    \/ \E u \in UpdateCalls : UpdateCall(u)
    \/ \E t \in Threads :
        \/ FindServer(t) \/ BatchRefused(t)
        \/ \E g \in Guards :
            \/ LockDataModel(t, g) \/ Unlock(t, g) \/ ForgetServer(t, g)
            \/ DropElsewhere(t, g)

\* A with block comes to its end, and a thread runs on in a native call.
\* Nothing obliges anybody to update, to stop or to open another batch.
BatchFairness ==
    /\ \A t \in Threads :
        /\ WF_batchVars(BatchRefused(t) \/ \E g \in Guards : LockDataModel(t, g))
        /\ \A g \in Guards : WF_batchVars(ForgetServer(t, g))
    /\ \A g \in Guards : SF_batchVars(\E t \in Threads : Unlock(t, g))

BatchSpec == BatchInit /\ [][BatchNext]_batchVars
FairBatchSpec == BatchSpec /\ BatchFairness

----------------------------------------------------------------------------
\* The unsafe widening of the lock's borrow is sound: whoever holds the
\* data-model lock, something of this library keeps the server alive, also
\* when the server is stopped under an open batch.
LockOutlived == lock # NoGuard => arcs # {}

\* The lock is held by exactly the open batch, or by a guard lost to another
\* thread, and no trigger is left waiting for a batch that is over.
LockAccounted ==
    /\ \A g \in Guards : lock = g <=> guard[g] \in {"active", "lost"}
    /\ Waiting # {} => lock # NoGuard

\* A batch is one: what is updated while a batch is open is raised in the
\* single step that closes it, everything together and nothing earlier.
BatchIsOne ==
    [][\A u \in UpdateCalls :
         /\ trigger[u] = "none" /\ trigger'[u] = "raised" => Active = {}
         /\ u \in Waiting /\ trigger'[u] = "raised" =>
               Active # {} /\ Active' = {} /\ Waiting' = {}]_batchVars

\* batch() never waits with the GIL in its hands for a lock whose holder
\* needs the GIL to give it back, and a batch whose with block ends gives the
\* lock back, whether or not the server was stopped inside the block.
NobodyWaitsForEver ==
    /\ \A t \in Threads : gil = t ~> gil # t
    /\ \A g \in Guards : guard[g] = "active" ~> guard[g] # "active"
=============================================================================
