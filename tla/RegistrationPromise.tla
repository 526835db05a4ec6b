------------------------ MODULE RegistrationPromise ------------------------
(***************************************************************************)
(* What the on_* and register_* calls of IedServer promise: whether made   *)
(* before start() or on a running server, each accepted call puts its      *)
(* callback in force for its target, replacing the one before, until the   *)
(* server is over.                                                         *)
(***************************************************************************)
CONSTANTS
    Targets,    \* what a callback is registered for
    Callbacks,  \* what may be registered
    None        \* nothing registered

VARIABLES inForce, over

vars == <<inForce, over>>

Empty == [t \in Targets |-> None]

Init == inForce = Empty /\ over = FALSE

Register(t, cb) ==
    /\ ~over
    /\ inForce' = [inForce EXCEPT ![t] = cb]
    /\ UNCHANGED over

End == ~over /\ over' = TRUE /\ inForce' = Empty

Next == End \/ \E t \in Targets, cb \in Callbacks : Register(t, cb)

Spec == Init /\ [][Next]_vars
=============================================================================
