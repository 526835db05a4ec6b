--------------------------- MODULE ServerPromise ---------------------------
(***************************************************************************)
(* What a hosted IedServer promises about its life: it serves during at    *)
(* most one interval, under exactly the settings the last accepted calls   *)
(* gave. Before it serves all of them may be given, the one-shot ones only *)
(* while they are not; while it serves only the live ones; afterwards none *)
(* and none is left in force.                                              *)
(***************************************************************************)
CONSTANTS
    Settings,  \* what an application may set
    Live,      \* those a serving server takes too
    Once,      \* those that are given at most once
    Values,    \* what a setting may be set to
    Unset      \* not set, or set back to the default

VARIABLES
    life,      \* "new", then perhaps "serving", then "over"
    settings   \* those in force, or to be in force when it serves

vars == <<life, settings>>

Nothing == [s \in Settings |-> Unset]

Init == life = "new" /\ settings = Nothing

Configure(s, v) ==
    /\ life = "new" \/ (life = "serving" /\ s \in Live)
    /\ s \in Once => settings[s] = Unset
    /\ settings' = [settings EXCEPT ![s] = v]
    /\ UNCHANGED life

Serve == life = "new" /\ life' = "serving" /\ UNCHANGED settings

\* From "serving" the server was stopped or reclaimed, from "new" its start
\* failed or was given up.
End == life # "over" /\ life' = "over" /\ settings' = Nothing

Next ==
    \/ \E s \in Settings, v \in Values \cup {Unset} : Configure(s, v)
    \/ Serve
    \/ End

Spec == Init /\ [][Next]_vars
=============================================================================
