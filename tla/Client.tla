------------------------------- MODULE Client -------------------------------
(***************************************************************************)
(* The client: one attempt to connect and, when it succeeds, the requests  *)
(* of the connection it hands out. What the attempt's future kept is gone  *)
(* once it has returned.                                                   *)
(***************************************************************************)
EXTENDS Connect, ClientRequests

clientVars == <<connectVars, requestVars>>

Init == ConnectInit /\ RequestsInit

\* Ok(PyIedConnection { inner }): the connection can be used.
HandOut ==
    /\ stage = "connected" /\ link = "down"
    /\ link' = "up"
    /\ tls' = FALSE /\ stalls' = FALSE
    /\ timeout' = CHOOSE t \in Timeouts : TRUE
    /\ request' = CHOOSE t \in RequestTimeouts : TRUE
    /\ clock' = 0 /\ associateBegan' = 0
    /\ UNCHANGED <<stage, error, held, author, dataSet, call, wire, served>>

Next ==
    \/ ConnectNext /\ UNCHANGED requestVars
    \/ HandOut
    \/ RequestsNext /\ UNCHANGED connectVars

Spec == Init /\ [][Next]_clientVars

\* Each part keeps the fairness it has alone.
FairSpec == Spec /\ ConnectFairness /\ WF_clientVars(HandOut) /\ RequestsFairness

TypeOK == ConnectTypeOK /\ RequestsTypeOK

\* An attempt whose time limits lie within the clock ends, whatever the peer
\* does, and so does every call on the connection it hands out.
EveryCallEnds == AttemptEnds /\ EveryRequestEnds
=============================================================================
