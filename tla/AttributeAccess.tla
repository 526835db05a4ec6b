-------------------------- MODULE AttributeAccess --------------------------
(***************************************************************************)
(* What Python callbacks decide for a running server: reads and writes of  *)
(* attributes (on_read, on_write), the choice of a setting group and the   *)
(* admission of an association. The server looks a callback up when the    *)
(* request arrives, runs it on a thread of its bounded blocking pool and   *)
(* holds no lock meanwhile, so updates, registrations and other requests   *)
(* come between. The registry, the pool, the cache and the setting groups  *)
(* are the Rust server's: external.                                        *)
(***************************************************************************)
EXTENDS Values, FiniteSets

CONSTANTS
    Model,      \* sequence of attributes [ld, name, fc], in model order
    Callbacks,  \* Python callables
    Requests,   \* requests of clients
    Defaults,   \* the value each attribute starts with
    Sent,       \* MMS values clients write
    Returns,    \* what callables do: values they return, exceptions
    Updates,    \* Python values the host updates an attribute with
    Groups,     \* number of setting groups
    PoolSize    \* threads of the blocking pool

Attributes == {Model[i] : i \in DOMAIN Model}

ASSUME AccessAssumption ==
    /\ PoolSize \in Nat \ {0} /\ Groups \in 1..255
    /\ Model \in Seq(Attributes) /\ Model # <<>>
    /\ Defaults \in [Attributes -> MmsValues]
    /\ Sent \subseteq MmsValues /\ Updates \subseteq PyValues
    /\ \A r \in Returns : r \in PyValues \/ r.type = "raised"
    /\ \A p \in PyValues : p.type # "raised"

\* MmsValues has what the updates of an attribute convert to.
ASSUME UpdatesAssumption ==
    \A a \in Attributes, m \in MmsValues, p \in Updates :
        m.type = Defaults[a].type => Shaped[p, m] \in MmsValues \cup {Refused}

VARIABLES
    handler,    \* the callback each slot of the registries holds
    cache,      \* the server's value of each attribute
    active,     \* the active setting group
    op,         \* each client request
    queue       \* requests whose callback waits for a thread

vars == <<handler, cache, active, op, queue>>

None == Number("None", 0)
NoHandler == [callback |-> "none", path |-> <<>>]

Kinds == {"read", "write", "select", "associate"}

----------------------------------------------------------------------------
\* An attribute's path "LD/LN.DO.DA" does not name its FC.
PathOf(a) == <<a.ld, a.name>>
Paths == {PathOf(a) : a \in Attributes}

\* build_path_index: of two attributes of one path the later stands.
Indexed(path) ==
    Model[CHOOSE i \in DOMAIN Model :
            /\ PathOf(Model[i]) = path
            /\ \A j \in DOMAIN Model : PathOf(Model[j]) = path => j <= i]

\* Fault: the key leaves out the functional constraint.
NamePath(a) == <<a.name, "any">>

\* canonical_handler_path: "LN$FC$DO$DA", without the logical device.
CanonicalPath(a) == <<a.name, a.fc>>

Slot(kind, a) ==
    CASE kind \in {"read", "write"} -> <<kind, CanonicalPath(a)>>
      [] kind = "select" -> <<kind, a.ld>>
      [] OTHER -> <<kind, "server">>

Slots == {Slot(kind, a) : kind \in Kinds, a \in Attributes}

----------------------------------------------------------------------------
\* data_access_name, in the order of the wire codes from 0.
DataAccessNames ==
    <<"ObjectInvalidated", "HardwareFault", "TemporarilyUnavailable",
      "ObjectAccessDenied", "ObjectUndefined", "InvalidAddress",
      "TypeUnsupported", "TypeInconsistent", "ObjectAttributeInconsistent",
      "ObjectAccessUnsupported", "ObjectNonExistent", "ObjectValueInvalid">>

\* py_err_to_data_access: the exception's code, a name in its tag or a
\* number, if it has a valid one.
DataAccess(raised) ==
    CASE \E i \in DOMAIN DataAccessNames : DataAccessNames[i] = raised.tag
            -> raised.tag
      [] raised.tag = "number" /\ raised.num + 1 \in DOMAIN DataAccessNames
            -> DataAccessNames[raised.num + 1]
      [] OTHER -> "ObjectAccessDenied"

Outcome(kind, value) == [kind |-> kind, value |-> value]

\* Fault: what does not convert falls through to the cache.
ReadLenient(r) ==
    CASE r.type = "raised" -> Outcome(DataAccess(r), None)
      [] r.type # "raised" /\ r # None /\ Generic[r] # Refused ->
            Outcome("CacheHit", Generic[r])
      [] OTHER -> Outcome("CacheMiss", None)

\* PyReadHandler::read
ReadOutcome(r) ==
    CASE r.type = "raised" -> Outcome(DataAccess(r), None)
      [] r = None -> Outcome("CacheMiss", None)
      [] r # None /\ r.type # "raised" /\ Generic[r] = Refused ->
            Outcome("TypeInconsistent", None)
      [] OTHER -> Outcome("CacheHit", Generic[r])

\* Fault: any truth value accepts.
WriteTruthy(r) ==
    IF r.type = "raised" THEN Outcome(DataAccess(r), None)
    ELSE Outcome(IF r.type # "None" /\ r.num # 0 THEN "Accept"
                 ELSE "AcceptNoUpdate", None)

\* PyWriteHandler::on_write
WriteOutcome(r) ==
    CASE r.type = "raised" -> Outcome(DataAccess(r), None)
      [] r = None \/ r = Number("bool", 0) -> Outcome("AcceptNoUpdate", None)
      [] r = Number("bool", 1) -> Outcome("Accept", None)
      [] OTHER -> Outcome("TypeInconsistent", None)

\* sgcb_bool_callback
SelectOutcome(r) ==
    IF r \in {None, Number("bool", 1)} THEN Outcome("Accept", None)
    ELSE Outcome("ObjectAccessDenied", None)

\* Diagnostics that refuse the calling identity or the credentials.
AuthenticationRefusals == 3..6 \cup 11..14
AuthenticationFailure == 13

\* association_decision_from_py: a name stands for its code, as the number
\* of a string does here; an int is not a truth value.
Decision(r) ==
    CASE r \in {None, Number("bool", 1)} -> Outcome("Accept", None)
      [] r.type \in {"str", "int"} /\ r.num \in AuthenticationRefusals ->
            Outcome("Reject", Number("int", r.num))
      [] OTHER -> Outcome("Reject", Number("int", AuthenticationFailure))

OutcomeOf(kind, r) ==
    CASE kind = "read" -> ReadOutcome(r)
      [] kind = "write" -> WriteOutcome(r)
      [] kind = "select" -> SelectOutcome(r)
      [] OTHER -> Decision(r)

----------------------------------------------------------------------------
Idle == [kind |-> "none", attr |-> Model[1], value |-> None,
         phase |-> "idle", asked |-> NoHandler, returned |-> None,
         outcome |-> Outcome("none", None), answer |-> None,
         seen |-> {}]

Init ==
    /\ handler = [s \in Slots |-> NoHandler]
    /\ cache = Defaults
    /\ active = 1
    /\ op = [o \in Requests |-> Idle]
    /\ queue = <<>>

Register(kind, path, f) ==
    /\ handler' = [handler EXCEPT ![Slot(kind, Indexed(path))] =
                      [callback |-> f, path |-> path]]
    /\ UNCHANGED <<cache, active, op, queue>>

\* register_setting_group_handler
RegisterGroups(path, f) ==
    Register("select", path, f)

\* on_read and on_write while the server runs.
RegisterAccess(path, f) ==
    \E kind \in {"read", "write"} : Register(kind, path, f)

\* set_authenticator while the server runs, None included: it applies to
\* the associations requested afterwards.
SetAuthenticator(h) ==
    /\ handler' = [handler EXCEPT ![<<"associate", "server">>] = h]
    /\ UNCHANGED <<cache, active, op, queue>>

\* The requests under way see what the cache comes to hold.
Witness(ops, values) ==
    [o \in Requests |->
        IF ops[o].phase \in {"idle", "ended"} THEN ops[o]
        ELSE [ops[o] EXCEPT !.seen = @ \cup {values[ops[o].attr]}]]

\* update_array and the typed methods, by the host or from a callback, as
\* the callbacks hold no lock. All of a composite changes or nothing.
Update(path, p) ==
    LET v == Shaped[p, cache[Indexed(path)]]
    IN  /\ v # Refused /\ v.type = cache[Indexed(path)].type
        /\ cache' = [cache EXCEPT ![Indexed(path)] = v]
        /\ op' = Witness(op, cache')
        /\ UNCHANGED <<handler, active, queue>>

\* force_active_setting_group asks no callback.
ForceActive(g) ==
    /\ g \in 1 .. Groups
    /\ active' = g
    /\ UNCHANGED <<handler, cache, op, queue>>

----------------------------------------------------------------------------
\* What the server does with the outcome for request o, as r records it.
Settle(o, r) ==
    LET accepted == r.outcome.kind = "Accept"
        answer == CASE r.outcome.kind = "CacheHit" -> r.outcome.value
                    [] r.outcome.kind = "CacheMiss" -> cache[r.attr]
                    [] OTHER -> None
    IN  /\ cache' = IF r.kind = "write" /\ accepted
                    THEN [cache EXCEPT ![r.attr] = r.value] ELSE cache
        /\ active' = IF r.kind = "select" /\ accepted
                     THEN r.value.num ELSE active
        /\ op' = Witness([op EXCEPT ![o] =
                    [r EXCEPT !.phase = "ended", !.answer = answer,
                              !.seen = IF r.kind = "read" THEN @ ELSE {}]], cache')
        /\ UNCHANGED handler

\* A client's request arrives. Without a callback a read is served from the
\* cache, a write as the access policy has it, and the rest is accepted.
Arrive(o, kind, a, v) ==
    LET h == handler[Slot(kind, a)]
        r == [op[o] EXCEPT !.kind = kind, !.attr = a, !.value = v,
                           !.phase = "queued", !.asked = h,
                           !.seen = {cache[a]}]
    IN  /\ op[o].phase = "idle"
        /\ IF h # NoHandler
           THEN /\ op' = [op EXCEPT ![o] = r]
                /\ queue' = Append(queue, o)
                /\ UNCHANGED <<handler, cache, active>>
           ELSE /\ \E outcome \in CASE kind = "read" -> {"CacheMiss"}
                                    [] kind = "write" -> {"Accept", "ObjectAccessDenied"}
                                    [] OTHER -> {"Accept"} :
                       Settle(o, [r EXCEPT !.outcome = Outcome(outcome, None)])
                /\ UNCHANGED queue

Requested(o) ==
    \/ \E a \in Attributes : Arrive(o, "read", a, None)
    \/ \E a \in Attributes, v \in Sent :
          v.type = Defaults[a].type /\ Arrive(o, "write", a, v)
    \/ \E g \in 1 .. Groups : Arrive(o, "select", Model[1], Number("Unsigned", g))
    \/ Arrive(o, "associate", Model[1], None)

Running == {o \in Requests : op[o].phase = "running"}

\* Fault: the pool is not bounded.
RunUnbounded ==
    /\ queue # <<>>
    /\ op' = [op EXCEPT ![Head(queue)].phase = "running"]
    /\ queue' = Tail(queue)
    /\ UNCHANGED <<handler, cache, active>>

\* A thread of the pool takes the callback that has waited longest.
RunNext ==
    /\ queue # <<>>
    /\ Cardinality(Running) < PoolSize
    /\ op' = [op EXCEPT ![Head(queue)].phase = "running"]
    /\ queue' = Tail(queue)
    /\ UNCHANGED <<handler, cache, active>>

\* The callable returns or raises.
Returned(o) ==
    \E r \in Returns :
        /\ op[o].phase = "running"
        /\ Settle(o, [op[o] EXCEPT !.returned = r,
                          !.outcome = OutcomeOf(op[o].kind, r)])
        /\ UNCHANGED queue

Next ==
    \/ \E path \in Paths, f \in Callbacks :
          RegisterAccess(path, f) \/ RegisterGroups(path, f)
    \/ SetAuthenticator(NoHandler)
    \/ \E f \in Callbacks : SetAuthenticator([callback |-> f, path |-> <<>>])
    \/ \E path \in Paths, p \in Updates : Update(path, p)
    \/ \E g \in 1 .. Groups : ForceActive(g)
    \/ \E o \in Requests : Requested(o) \/ Returned(o)
    \/ RunNext

Spec == Init /\ [][Next]_vars

----------------------------------------------------------------------------
TypeOK ==
    /\ cache \in [Attributes -> MmsValues]
    /\ \A a \in Attributes : cache[a].type = Defaults[a].type
    /\ active \in 1 .. Groups
    /\ \A o \in Requests :
         /\ op[o].phase \in {"idle", "queued", "running", "ended"}
         /\ (op[o].phase = "queued") <=> \E i \in DOMAIN queue : queue[i] = o
    /\ Cardinality(Running) <= PoolSize

\* A request for an attribute is put to a callback that was registered for
\* that attribute ("Register a read callback for a single data attribute"),
\* and a choice of a setting group to one of its logical device.
OwnCallbackAnswers ==
    \A o \in Requests :
        op[o].phase = "ended" /\ op[o].asked # NoHandler =>
            CASE op[o].kind \in {"read", "write"} ->
                    Indexed(op[o].asked.path) = op[o].attr
              [] op[o].kind = "select" -> op[o].asked.path[1] = op[o].attr.ld
              [] OTHER -> TRUE

\* A read that succeeds gives what the callback returned for it, or when
\* that was None a value the attribute held while the request was under way;
\* a callback that failed or gave no MMS value never reads as a value.
ReadsAreTrue ==
    \A o \in Requests :
        op[o].phase = "ended" /\ op[o].kind = "read" =>
            IF op[o].asked = NoHandler \/ op[o].returned = None
            THEN op[o].answer \in op[o].seen
            ELSE op[o].answer =
                   IF op[o].returned \in PyValues /\ Generic[op[o].returned] # Refused
                   THEN Generic[op[o].returned] ELSE None

\* The step that ends a callback does what the callback agreed to, and no
\* more: a write changes its attribute to the value that the callback was
\* asked about just when it returned exactly True, a choice of a group takes
\* effect just when it returned True or None, an association is admitted on
\* the same answers and else refused as unauthenticated, and a read changes
\* nothing. What the host changes in steps of its own is not its subject.
NothingUnasked ==
    [][ \A o \in Requests :
          op'[o].phase = "ended" /\ op[o].phase = "running" =>
            LET yes == op'[o].returned = Number("bool", 1)
                agreed == yes \/ op'[o].returned = None
            IN  CASE op[o].kind = "write" ->
                       IF yes THEN cache' = [cache EXCEPT ![op[o].attr] = op[o].value]
                       ELSE cache' = cache
                  [] op[o].kind = "select" ->
                       active' = IF agreed THEN op[o].value.num ELSE active
                  [] op[o].kind = "associate" ->
                       IF agreed THEN op'[o].outcome.kind = "Accept"
                       ELSE op'[o].outcome.value.num \in AuthenticationRefusals
                  [] OTHER -> cache' = cache /\ active' = active ]_vars
=============================================================================
