----------------------- MODULE ServerLifecycleProofs -----------------------
(***************************************************************************)
(* Proofs about ServerLifecycle, for any number of calls, settings and     *)
(* values: the type of the state, that a start is alone, that an open      *)
(* listener has an owner, and that the life cycle implements               *)
(* ServerPromise. The argument is where the settings are: queued before a  *)
(* start, carried by the one start there is, in force behind an open or    *)
(* closing listener, and nowhere else; and that the state a start leaves   *)
(* never becomes NotStarted again, so there is no second one.              *)
(***************************************************************************)
EXTENDS ServerLifecycle, TLAPS

Stopping == {c \in Calls : at[c] = "stopping"}

\* Before the start nothing has left the queue, and afterwards nothing is in
\* it.
Queued ==
    /\ state = "NotStarted" =>
          /\ listener = "closed"
          /\ Starting = {} /\ Stopping = {}
    /\ state # "NotStarted" => queued = Nothing

\* What is carried is carried by a start that has yet to listen.
Carried ==
    (\A c \in Calls : at[c] \notin {"building", "binding"}) => carried = Nothing

\* The listener belongs to the running state or to the start that opened it,
\* and a closed one leaves nothing in force.
Listening ==
    /\ state = "Running" =>
          /\ listener = "open"
          /\ Starting = {} /\ Stopping = {}
    /\ \A c \in Starting :
          listener = IF at[c] = "listening" THEN "open" ELSE "closed"
    /\ listener = "open" =>
          state = "Running" \/ \E c \in Calls : at[c] = "listening"
    /\ listener = "closed" => inForce = Nothing

\* An object that is entered, or one that cannot be reclaimed while it
\* starts, is held as long as its start is under way.
Held ==
    /\ \A c \in Starting : op[c] \in {"start", "enter"}
    /\ ~Orphaning /\ ~held =>
          /\ state # "Running"
          /\ \A c \in Calls : op[c] \notin {"start", "enter"}

Place == Queued /\ Carried /\ Listening
IInv == TypeOK /\ Place /\ StartIsAlone /\ Held

----------------------------------------------------------------------------
\* Each variable keeps its type.
LEMMA TypeStep == TypeOK /\ [Next]_vars => TypeOK'
<1> SUFFICES ASSUME TypeOK, [Next]_vars PROVE TypeOK'
  OBVIOUS
<1> USE DEF TypeOK
<1>1. Nothing \in Given
  BY DEF Nothing, Given
<1>2. CASE ListenerCloses
  BY <1>1, <1>2 DEF ListenerCloses
<1>3. CASE Reclaim
  BY <1>3 DEF Reclaim, settings
<1>4. CASE Set
  <2>1. ASSUME NEW s \in Settings, NEW v \in Values \cup {Unset},
               Queue(s, v) \/ Tell(s, v)
        PROVE  TypeOK'
    BY <2>1 DEF Queue, Tell, Given
  <2> QED
    BY <1>4, <2>1, SettingsAssumption
    DEF Set, Bind, WithTls, Limit, SetWriteAccess, SetAuthenticator
<1>5. ASSUME NEW c \in Calls, NEW kind \in {"start", "enter", "stop"},
             Call(c, kind)
      PROVE  TypeOK'
  BY <1>5 DEF Call, settings
<1>6. ASSUME NEW c \in Calls, Return(c)
      PROVE  /\ at' \in [Calls -> {"idle", "called", "stopping"} \cup StartPhases]
             /\ op' \in [Calls -> {"none", "start", "enter", "stop"}]
             /\ abandoned' \in SUBSET Calls
  BY <1>6 DEF Return
<1>7. ASSUME NEW c \in Calls, NEW phase \in {"stopping"} \cup StartPhases,
             Move(c, phase)
      PROVE  /\ at' \in [Calls -> {"idle", "called", "stopping"} \cup StartPhases]
             /\ op' \in [Calls -> {"none", "start", "enter", "stop"}]
             /\ abandoned' \in SUBSET Calls
  BY <1>7 DEF Move
<1>8. ASSUME NEW c \in Calls,
             TakeConfig(c) \/ Build(c) \/ Listen(c) \/ TakeHandle(c)
      PROVE  TypeOK'
  <2>1. PICK phase \in {"stopping"} \cup StartPhases : Move(c, phase)
    BY <1>8 DEF TakeConfig, Build, Listen, TakeHandle, StartPhases
  <2> QED
    BY <1>1, <1>7, <1>8, <2>1
    DEF TakeConfig, Build, Listen, TakeHandle, settings
<1>9. ASSUME NEW c \in Calls,
             StartRefused(c) \/ StopRefused(c) \/ StopReturns(c)
             \/ StartFails(c) \/ Publish(c) \/ DropFuture(c)
      PROVE  TypeOK'
  <2>1. Return(c)
    BY <1>9 DEF StartRefused, StopRefused, StopReturns, StartFails, Publish,
                DropFuture, Refuse
  <2> QED
    BY <1>1, <1>6, <1>9, <2>1
    DEF StartRefused, StopRefused, StopReturns, StartFails, Publish,
        DropFuture, Refuse, settings
<1>10. ASSUME NEW c \in Calls, Abandon(c) PROVE TypeOK'
  BY <1>10 DEF Abandon, settings
<1>11. CASE UNCHANGED vars
  BY <1>11 DEF vars, settings
<1> QED
  BY <1>2, <1>3, <1>4, <1>5, <1>8, <1>9, <1>10, <1>11 DEF Next

----------------------------------------------------------------------------
\* The start that is under way, if there is one, and where the settings are.
LEMMA PlaceStep ==
    TypeOK /\ Place /\ StartIsAlone /\ [Next]_vars => Place' /\ StartIsAlone'
<1> SUFFICES ASSUME TypeOK, Place, StartIsAlone, [Next]_vars
             PROVE  Place' /\ StartIsAlone'
  OBVIOUS
<1> USE DEF Place, Queued, Carried, Listening, StartIsAlone, Starting, Stopping
<1>1. DOMAIN at = Calls
  BY DEF TypeOK
\* A call that is neither a start at work nor a stop that waits comes or
\* goes, and nothing else happens.
<1>2. ASSUME UNCHANGED <<state, queued, carried, inForce, listener>>,
             \A d \in Calls :
                 \/ at'[d] = at[d]
                 \/ at[d] \notin StartPhases /\ at'[d] \in {"idle", "called"}
      PROVE  Place' /\ StartIsAlone'
  BY <1>2 DEF StartPhases
<1>3. CASE ListenerCloses
  BY <1>3 DEF ListenerCloses, StartPhases
<1>4. CASE Reclaim
  BY <1>4 DEF Reclaim, settings, StartPhases
<1>5. CASE Set
  <2>1. ASSUME NEW s \in Settings, NEW v \in Values \cup {Unset}, Queue(s, v)
        PROVE  Place' /\ StartIsAlone'
    BY <2>1 DEF Queue
  <2>2. ASSUME NEW s \in Settings, NEW v \in Values \cup {Unset}, Tell(s, v)
        PROVE  Place' /\ StartIsAlone'
    BY <2>2 DEF Tell
  <2> QED
    BY <1>5, <2>1, <2>2, SettingsAssumption
    DEF Set, Bind, WithTls, Limit, SetWriteAccess, SetAuthenticator
<1>6. ASSUME NEW c \in Calls, NEW kind \in {"start", "enter", "stop"},
             Call(c, kind)
      PROVE  Place' /\ StartIsAlone'
  BY <1>1, <1>2, <1>6 DEF Call, settings, StartPhases
<1>7. ASSUME NEW c \in Calls,
             StartRefused(c) \/ StopRefused(c) \/ StopReturns(c)
      PROVE  Place' /\ StartIsAlone'
  BY <1>1, <1>2, <1>7
  DEF StartRefused, StopRefused, StopReturns, Refuse, Return, settings,
      StartPhases
<1>8. ASSUME NEW c \in Calls, Abandon(c) PROVE Place' /\ StartIsAlone'
  BY <1>2, <1>8 DEF Abandon, settings
\* The start: it finds itself alone and is the only one until it returns.
<1>9. ASSUME NEW c \in Calls, TakeConfig(c) PROVE Place' /\ StartIsAlone'
  <2>1. /\ state' = "Stopped" /\ queued' = Nothing
        /\ listener' = "closed" /\ inForce' = Nothing
        /\ at' = [at EXCEPT ![c] = "building"]
    BY <1>9 DEF TakeConfig, MayStart, Move
  <2>2. Starting' = {c} /\ Stopping' = {}
    BY <1>1, <1>9, <2>1 DEF TakeConfig, MayStart, StartPhases
  <2> QED
    BY <1>1, <2>1, <2>2
<1>10. ASSUME NEW c \in Calls, Build(c) PROVE Place' /\ StartIsAlone'
  <2>1. Starting' = Starting /\ Stopping' = Stopping
    BY <1>1, <1>10 DEF Build, Move, StartPhases
  <2> QED
    BY <1>1, <1>10, <2>1 DEF Build, Move, settings, StartPhases
<1>11. ASSUME NEW c \in Calls, Listen(c) PROVE Place' /\ StartIsAlone'
  <2>1. Starting' = Starting /\ Stopping' = Stopping /\ Starting = {c}
    BY <1>1, <1>11 DEF Listen, Move, StartPhases
  <2> QED
    BY <1>1, <1>11, <2>1 DEF Listen, Move, StartPhases
\* It returns: nothing of it is left but the listener it published.
<1>12. ASSUME NEW c \in Calls, at[c] \in StartPhases, Return(c)
       PROVE  Starting = {c} /\ Starting' = {} /\ Stopping' = {}
  BY <1>1, <1>12 DEF Return, StartPhases
<1>13. ASSUME NEW c \in Calls, StartFails(c) PROVE Place' /\ StartIsAlone'
  BY <1>12, <1>13 DEF StartFails, StartPhases
<1>14. ASSUME NEW c \in Calls, Publish(c) PROVE Place' /\ StartIsAlone'
  <2>1. carried = Nothing
    BY <1>1, <1>14 DEF Publish, StartPhases
  <2> QED
    BY <1>12, <1>14, <2>1 DEF Publish, StartPhases, settings
<1>15. ASSUME NEW c \in Calls, TakeHandle(c) PROVE Place' /\ StartIsAlone'
  <2>1. Starting = {} /\ Starting' = {} /\ Stopping' = {c}
    BY <1>1, <1>15 DEF TakeHandle, Move, StartPhases
  <2> QED
    BY <1>1, <1>15, <2>1 DEF TakeHandle, settings, StartPhases
<1>16. ASSUME NEW c \in Calls, DropFuture(c) PROVE Place' /\ StartIsAlone'
  <2>1. CASE at[c] = "binding"
    BY <1>12, <1>16, <2>1 DEF DropFuture, StartPhases
  <2>2. CASE at[c] = "stopping"
    BY <1>1, <1>2, <1>16, <2>2 DEF DropFuture, Return, settings, StartPhases
  <2> QED
    BY <1>16, <2>1, <2>2 DEF DropFuture
<1>17. CASE UNCHANGED vars
  BY <1>2, <1>17 DEF vars, settings
<1> QED
  BY <1>3, <1>4, <1>5, <1>6, <1>7, <1>8, <1>9, <1>10, <1>11, <1>13, <1>14,
     <1>15, <1>16, <1>17 DEF Next

\* Reclamation is what lets go of an object, and only while nothing starts
\* that could not be stopped again.
LEMMA HeldStep == TypeOK /\ Place /\ Held /\ [Next]_vars => Held'
<1> SUFFICES ASSUME TypeOK, Place, Held, [Next]_vars PROVE Held'
  OBVIOUS
<1> USE DEF Held, Starting
<1>1. DOMAIN at = Calls /\ DOMAIN op = Calls
  BY DEF TypeOK
\* A call returns, or nothing but its place changes.
<1>2. ASSUME NEW c \in Calls, Return(c), UNCHANGED held,
             state' = "Running" => state = "Running" \/ held \/ Orphaning
      PROVE  Held'
  BY <1>1, <1>2 DEF Return, StartPhases
<1>3. CASE ListenerCloses
  BY <1>3 DEF ListenerCloses
<1>4. CASE Reclaim
  <2>1. ~Orphaning => \A c \in Calls : op[c] \notin {"start", "enter"}
    BY <1>4 DEF Reclaim, Reclaimable
  <2> QED
    BY <1>4, <2>1 DEF Reclaim
<1>5. CASE Set
  <2>1. UNCHANGED <<state, op, at, held>>
    BY <1>5 DEF Set, Bind, WithTls, Limit, SetWriteAccess, SetAuthenticator,
                Queue, Tell
  <2> QED
    BY <2>1
<1>6. ASSUME NEW c \in Calls, NEW kind \in {"start", "enter", "stop"},
             Call(c, kind)
      PROVE  Held'
  BY <1>1, <1>6 DEF Call, StartPhases
<1>7. ASSUME NEW c \in Calls,
             StartRefused(c) \/ StopRefused(c) \/ StopReturns(c)
             \/ StartFails(c) \/ DropFuture(c)
      PROVE  Held'
  BY <1>2, <1>7
  DEF StartRefused, StopRefused, StopReturns, StartFails, DropFuture, Refuse
<1>8. ASSUME NEW c \in Calls, Publish(c) PROVE Held'
  <2>1. op[c] \in {"start", "enter"}
    BY <1>8 DEF Publish, StartPhases
  <2> QED
    BY <1>2, <1>8, <2>1 DEF Publish
<1>9. ASSUME NEW c \in Calls, TakeConfig(c) PROVE Held'
  BY <1>1, <1>9 DEF TakeConfig, MayStart, Move, StartPhases
<1>10. ASSUME NEW c \in Calls, Build(c) \/ Listen(c) PROVE Held'
  BY <1>1, <1>10 DEF Build, Listen, Move, StartPhases
<1>11. ASSUME NEW c \in Calls, TakeHandle(c) PROVE Held'
  BY <1>1, <1>11 DEF TakeHandle, Move, StartPhases
<1>12. ASSUME NEW c \in Calls, Abandon(c) PROVE Held'
  BY <1>12 DEF Abandon
<1>13. CASE UNCHANGED vars
  BY <1>13 DEF vars
<1> QED
  BY <1>3, <1>4, <1>5, <1>6, <1>7, <1>8, <1>9, <1>10, <1>11, <1>12, <1>13
  DEF Next

----------------------------------------------------------------------------
\* It holds of a server just created.
LEMMA InitInvariant == Init => IInv
BY SettingsAssumption
DEF Init, IInv, TypeOK, Given, Nothing, Place, Queued, Carried, Listening,
    StartIsAlone, Starting, StartPhases, Stopping, Held

\* The invariant holds of every state the life cycle reaches.
THEOREM Invariance == Spec => []IInv
<1>1. IInv /\ [Next]_vars => IInv'
  BY TypeStep, PlaceStep, HeldStep DEF IInv
<1> QED
  BY InitInvariant, <1>1, PTL DEF Spec

\* Every variable of the life cycle keeps its type, whatever is called.
THEOREM TypeCorrect == Spec => []TypeOK
<1>1. IInv => TypeOK
  BY DEF IInv
<1> QED
  BY <1>1, Invariance, PTL

\* server_do_start puts its placeholder into the state, so that no other call
\* starts, stops or configures the server before it is done.
THEOREM StartsAlone == Spec => []StartIsAlone
<1>1. IInv => StartIsAlone
  BY DEF IInv
<1> QED
  BY <1>1, Invariance, PTL

\* The port is never left open without an object whose stop() or Drop closes
\* it, unless the object may be reclaimed under a start.
THEOREM OwnerOfListener == Spec => [](~Orphaning => OpenHasOwner)
<1>1. IInv => (~Orphaning => OpenHasOwner)
  BY DEF IInv, Place, Listening, Held, OpenHasOwner
<1> QED
  BY <1>1, Invariance, PTL

----------------------------------------------------------------------------
\* What ServerPromise sees in each place the life cycle can be at.
Mapped ==
    /\ state = "NotStarted" => Life = "new" /\ Current = queued
    /\ \A c \in Starting :
          at[c] # "listening" => Life = "new" /\ Current = carried
    /\ listener = "open" => Life = "serving" /\ Current = inForce
    /\ state # "NotStarted" /\ Starting = {} /\ listener # "open" =>
          Life = "over" /\ Current = Nothing

\* What the refinement maps to is one state of the promise.
LEMMA Mapping == IInv => Mapped
<1> SUFFICES ASSUME IInv PROVE Mapped
  OBVIOUS
<1> USE DEF IInv, Place
<1>1. state = "NotStarted" => Life = "new" /\ Current = queued
  BY DEF Queued, Life, Current
<1>2. ASSUME NEW c \in Starting, at[c] # "listening"
      PROVE  Life = "new" /\ Current = carried
  <2>1. listener = "closed" /\ state = "Stopped"
    BY <1>2 DEF Listening, StartIsAlone
  <2> QED
    BY <1>2, <2>1 DEF Life, Current
<1>3. listener = "open" => Life = "serving" /\ Current = inForce
  BY DEF Queued, Life, Current
<1>4. state # "NotStarted" /\ Starting = {} /\ listener # "open" =>
          Life = "over" /\ Current = Nothing
  BY DEF Life, Current
<1> QED
  BY <1>1, <1>2, <1>3, <1>4 DEF Mapped

\* Every step is one of ServerPromise, or changes nothing it sees.
LEMMA PromiseStep ==
    IInv /\ Mapped /\ IInv' /\ Mapped' /\ [Next]_vars
        => [Promise!Next]_(Promise!vars)
<1> SUFFICES ASSUME IInv, Mapped, IInv', Mapped', [Next]_vars
             PROVE  Promise!Next \/ UNCHANGED <<Life, Current>>
  BY DEF Promise!vars
<1> USE DEF Mapped
<1>1. TypeOK /\ DOMAIN at = Calls /\ Place /\ StartIsAlone
  BY DEF IInv, TypeOK
\* The settings and the listener stay where they are.
<1>2. ASSUME UNCHANGED <<state, queued, carried, inForce, listener>>,
             Starting' = Starting
      PROVE  UNCHANGED <<Life, Current>>
  BY <1>2 DEF Life, Current, Nothing
\* The server is over, whether its start failed or it served.
<1>3. ASSUME Life # "over",
             state' # "NotStarted", Starting' = {}, listener' # "open"
      PROVE  Promise!End
  BY <1>3 DEF Promise!End, Promise!Nothing, Nothing
<1>4. ASSUME NEW c \in Calls, at[c] \in StartPhases, Return(c)
      PROVE  Starting = {c} /\ Starting' = {}
  BY <1>1, <1>4 DEF Return, StartPhases, Starting, StartIsAlone
\* Settings that are given, before the start or to the running server.
<1>5. CASE Set
  <2>1. ASSUME NEW s \in Settings, NEW v \in Values \cup {Unset}, Queue(s, v),
               s \in Once => queued[s] = Unset
        PROVE  Promise!Configure(s, v)
    <3>1. Life = "new" /\ Life' = "new" /\ Current = queued /\ Current' = queued'
      BY <2>1 DEF Queue
    <3> QED
      BY <2>1, <3>1 DEF Queue, Promise!Configure
  <2>2. ASSUME NEW s \in Live \ Once, NEW v \in Values \cup {Unset}, Tell(s, v)
        PROVE  Promise!Configure(s, v)
    <3>1. listener = "open" /\ listener' = "open"
      BY <1>1, <2>2 DEF Tell, Place, Listening
    <3>2. /\ Life = "serving" /\ Life' = "serving"
          /\ Current = inForce /\ Current' = inForce'
      BY <3>1
    <3> QED
      BY <2>2, <3>2 DEF Tell, Promise!Configure
  <2>3. ASSUME NEW s \in Settings, NEW v \in Values \cup {Unset},
               Promise!Configure(s, v)
        PROVE  Promise!Next
    BY <2>3 DEF Promise!Next
  <2> QED
    BY <1>5, <2>1, <2>2, <2>3, SettingsAssumption
    DEF Set, Bind, WithTls, Limit, SetWriteAccess, SetAuthenticator, Live, Once
<1>6. CASE ListenerCloses
  <2>1. Starting = {} /\ Starting' = {} /\ state # "NotStarted"
    BY <1>1, <1>6 DEF ListenerCloses, Place, Queued, Listening, Starting
  <2> QED
    BY <1>6, <2>1 DEF ListenerCloses, Nothing
<1>7. CASE Reclaim
  <2>1. Starting' = Starting
    BY <1>7 DEF Reclaim, Starting
  <2>2. CASE state = "Running"
    <3>1. listener = "open" /\ Starting = {}
      BY <1>1, <2>2 DEF Place, Listening
    <3> QED
      BY <1>3, <1>7, <2>1, <2>2, <3>1 DEF Reclaim, Promise!Next
  <2>3. CASE state # "Running"
    BY <1>2, <1>7, <2>1, <2>3 DEF Reclaim, settings
  <2> QED
    BY <2>2, <2>3
\* What leaves the starts and the settings alone.
<1>8. ASSUME NEW c \in Calls,
             \/ \E kind \in {"start", "enter", "stop"} : Call(c, kind)
             \/ StartRefused(c) \/ StopRefused(c) \/ StopReturns(c)
             \/ Abandon(c) \/ Build(c)
      PROVE  UNCHANGED <<Life, Current>>
  <2>1. Starting' = Starting
    BY <1>1, <1>8
    DEF Call, StartRefused, StopRefused, StopReturns, Abandon, Build, Refuse,
        Return, Move, Starting, StartPhases
  <2> QED
    BY <1>2, <1>8, <2>1
    DEF Call, StartRefused, StopRefused, StopReturns, Abandon, Build, Refuse,
        settings
\* The start carries what was queued until it serves it.
<1>9. ASSUME NEW c \in Calls, TakeConfig(c) PROVE UNCHANGED <<Life, Current>>
  <2>1. at'[c] = "building" /\ c \in Starting'
    BY <1>1, <1>9 DEF TakeConfig, Move, Starting, StartPhases
  <2> QED
    BY <1>9, <2>1 DEF TakeConfig, MayStart
<1>10. ASSUME NEW c \in Calls, Listen(c) PROVE Promise!Serve
  <2>1. c \in Starting /\ at[c] # "listening"
    BY <1>10 DEF Listen, Starting, StartPhases
  <2> QED
    BY <1>10, <2>1 DEF Listen, Promise!Serve
<1>11. ASSUME NEW c \in Calls, Publish(c) PROVE UNCHANGED <<Life, Current>>
  <2>1. listener = "open" /\ listener' = "open"
    BY <1>1, <1>11 DEF Publish, Place, Listening, Starting, StartPhases
  <2> QED
    BY <1>11, <2>1 DEF Publish, settings
\* A start that fails or is dropped, and a stop.
<1>12. ASSUME NEW c \in Calls, at[c] \in {"building", "binding"}, Return(c),
              UNCHANGED <<state, listener>>
       PROVE  Promise!End
  <2>1. c \in Starting /\ state = "Stopped" /\ listener = "closed"
    BY <1>1, <1>12 DEF Place, Listening, Starting, StartPhases, StartIsAlone
  <2>2. Starting' = {}
    BY <1>4, <1>12 DEF StartPhases
  <2> QED
    BY <1>3, <1>12, <2>1, <2>2
<1>13. ASSUME NEW c \in Calls, StartFails(c) PROVE Promise!End
  BY <1>12, <1>13 DEF StartFails
<1>14. ASSUME NEW c \in Calls, DropFuture(c)
       PROVE  Promise!End \/ UNCHANGED <<Life, Current>>
  <2>1. CASE at[c] = "binding"
    BY <1>12, <1>14, <2>1 DEF DropFuture
  <2>2. CASE at[c] = "stopping"
    <3>1. Starting' = Starting
      BY <1>1, <1>14, <2>2 DEF DropFuture, Return, Starting, StartPhases
    <3> QED
      BY <1>2, <1>14, <2>2, <3>1 DEF DropFuture
  <2> QED
    BY <1>14, <2>1, <2>2 DEF DropFuture
<1>15. ASSUME NEW c \in Calls, TakeHandle(c) PROVE Promise!End
  <2>1. listener = "open" /\ Starting = {}
    BY <1>1, <1>15 DEF TakeHandle, Place, Listening
  <2>2. Starting' = {}
    BY <1>1, <1>15, <2>1 DEF TakeHandle, Move, Starting, StartPhases
  <2> QED
    BY <1>3, <1>15, <2>1, <2>2 DEF TakeHandle
<1>16. CASE UNCHANGED vars
  BY <1>2, <1>16 DEF vars, settings, Starting
<1> QED
  BY <1>5, <1>6, <1>7, <1>8, <1>9, <1>10, <1>11, <1>13, <1>14, <1>15, <1>16
  DEF Next, Promise!Next

\* The life cycle implements ServerPromise: one interval of service, under
\* exactly the settings the last accepted calls gave.
THEOREM Refinement == Spec => KeepsPromise
<1>1. Init => Promise!Init
  BY DEF Init, Promise!Init, Promise!Nothing, Life, Current, Nothing
<1> QED
  BY <1>1, Invariance, Mapping, PromiseStep, PTL
  DEF Spec, KeepsPromise, Promise!Spec
=============================================================================
