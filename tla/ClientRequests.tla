--------------------------- MODULE ClientRequests ---------------------------
(***************************************************************************)
(* The requests of an established IedConnection. A call of the Python API  *)
(* converts its arguments at once; its future sends a request when the     *)
(* runtime first polls it, waits for the answer and converts that. The     *)
(* requests of concurrent calls share the connection, and the server       *)
(* serves them in the order they were sent, also those whose call has      *)
(* timed out or was cancelled meanwhile. A connection that is lost or      *)
(* closed never comes back. The server, its objects and the MMS client     *)
(* under this binding are external.                                        *)
(***************************************************************************)
EXTENDS Values, FiniteSets

CONSTANTS
    ShortBits,  \* width of i32 and u32
    Calls,      \* calls of the application
    Plans,      \* what a call may be: its kind, typed variant, targets, values
    Objects,    \* the server's attributes
    Initial,    \* the Python value each attribute was configured with
    Members     \* the members of the one data set when it exists at first

ASSUME WidthsAssumption == ShortBits \in 1 .. IntBits
ASSUME PlansAssumption ==
    /\ \A p \in Plans :
          /\ p.values \in Seq(PyValues) /\ p.targets \in Seq(Objects)
          /\ p.kind = "gocb" =>
                p.values # <<>> /\ Len(p.targets) = Len(p.values)
    /\ Initial \in [Objects -> PyValues] /\ Members \in Seq(Objects)

VARIABLES
    held,       \* the server's value of each attribute
    author,     \* the Python value each attribute's value was given as
    dataSet,    \* members of the data set, empty when it does not exist
    link,       \* the connection
    call,       \* each call
    wire,       \* requests sent and not served
    served      \* what the server did for each call, entry by entry

requestVars == <<held, author, dataSet, link, call, wire, served>>

ListReads == {"read_objects", "get_values", "get_marked"}
Writes == {"write", "set_values", "gocb"}
DataSetKinds == {"get_values", "get_marked", "set_values"}

NoPlan == [kind |-> "none", want |-> "object", targets |-> <<>>,
           values |-> <<>>]
NoAnswer == [status |-> "none", entries |-> <<>>]
Result(class, index, values) ==
    [class |-> class, index |-> index, values |-> values]
NoResult == Result("none", 0, <<>>)

\* access_failure_dict: no converted MMS value is a dict.
Marker == Number("dict", 0)

----------------------------------------------------------------------------
\* Typed writes: what pyo3 extracts for the method's parameter.
WriteAs(want, p) ==
    LET short == p.type \in {"int", "bool"}
    IN  CASE want = "object" -> Generic[p]
          [] want = "bool" /\ p.type = "bool" -> As("Boolean", p)
          [] want = "int32" /\ short /\ p.num \in -(2^(ShortBits - 1)) .. 2^(ShortBits - 1) - 1
                -> As("Integer", p)
          [] want = "uint32" /\ short /\ p.num \in 0 .. 2^ShortBits - 1
                -> As("Unsigned", p)
          [] want = "float" /\ p.type \in {"float", "int", "bool"}
                -> As("Float32", p)
          [] want = "octet_string" /\ p.type \in {"bytes", "bytearray"}
                -> As("OctetString", p)
          [] want = "visible_string" /\ p.type = "str" -> As("VisibleString", p)
          [] want = "bit_string" /\ p.tag = "bits" -> Bits(p.octets, p.padding)
          [] OTHER -> Refused

\* Fault: an UNSIGNED past the signed range is reinterpreted.
ReadWrapping(want, m) ==
    IF want = "int64" /\ m.type \in {"Integer", "Unsigned"}
    THEN Number("int", ((m.num + 2^(IntBits - 1)) % 2^IntBits) - 2^(IntBits - 1))
    ELSE IF want = "object" THEN ToPy[m] ELSE Refused

\* Typed reads: what each accepts of the value, and read_object any.
ReadAs(want, m) ==
    LET integer == m.type \in {"Integer", "Unsigned"}
    IN  CASE want = "object" -> ToPy[m]
          [] want = "bool" /\ m.type = "Boolean" -> ToPy[m]
          [] want = "int32" /\ integer /\ m.num \in -(2^(ShortBits - 1)) .. 2^(ShortBits - 1) - 1
                -> ToPy[m]
          [] want = "uint32" /\ integer /\ m.num \in 0 .. 2^ShortBits - 1
                -> ToPy[m]
          [] want = "int64" /\ integer /\ m.num \in Signed -> ToPy[m]
          [] want = "float" /\ m.type = "Float32" -> ToPy[m]
          [] want = "float64" /\ m.type = "Float64" -> ToPy[m]
          [] want = "string" /\ m.type \in Strings -> ToPy[m]
          [] want = "timestamp" /\ m.type = "UtcTime" -> ToPy[m]
          [] OTHER -> Refused

\* read_bit_string: the octets and the count of unused bits.
ReadBitString(m) ==
    IF m.type = "BitString"
    THEN Value("tuple", "bits", 0, m.octets, m.padding, <<>>)
    ELSE Refused

ReadValue(want, m) ==
    IF want = "bit_string" THEN ReadBitString(m) ELSE ReadAs(want, m)

\* What a call would send for its Python values.
Converted(plan) ==
    [i \in DOMAIN plan.values |->
        WriteAs(IF plan.kind = "write" THEN plan.want ELSE "object",
                plan.values[i])]

\* MmsValues has what the values given convert to.
ASSUME ConversionsAssumption ==
    /\ \A o \in Objects : Generic[Initial[o]] \in MmsValues
    /\ \A p \in Plans : \A i \in DOMAIN p.values :
          Converted(p)[i] \in MmsValues \cup {Refused}

----------------------------------------------------------------------------
RequestsInit ==
    /\ held = [o \in Objects |-> Generic[Initial[o]]]
    /\ author = Initial
    /\ dataSet = Members
    /\ link = "down"
    /\ call = [c \in Calls |->
                 [plan |-> NoPlan, phase |-> "unissued", next |-> 1,
                  answer |-> NoAnswer, result |-> NoResult]]
    /\ wire = <<>>
    /\ served = [c \in Calls |-> <<>>]

Phase(c) == call[c].phase
Plan(c) == call[c].plan

Finish(c, result) ==
    call' = [call EXCEPT ![c].phase = "ended", ![c].result = result,
                         ![c].answer = NoAnswer]

\* The synchronous part: a token or a value that does not convert raises
\* before there is a future.
Issue(c, plan) ==
    LET refused == \/ plan.want = "invalid"
                   \/ \E i \in DOMAIN plan.values : Converted(plan)[i] = Refused
        result == Result("ValueError", 0, <<>>)
    IN  /\ link # "down"
        /\ Phase(c) = "unissued"
        /\ call' = [call EXCEPT
               ![c].plan = plan,
               ![c].phase = IF refused THEN "ended" ELSE "issued",
               ![c].result = IF refused THEN result ELSE NoResult]
        /\ UNCHANGED <<held, author, dataSet, link, wire, served>>

\* The entries of the request a call sends next: one attribute of a GOOSE
\* control block, else all of its targets.
Part(c) ==
    IF Plan(c).kind = "gocb" THEN <<call[c].next>>
    ELSE [i \in 1 .. Len(Plan(c).values) |-> i]

Request(c) ==
    [by |-> c, kind |-> Plan(c).kind,
     targets |-> IF Plan(c).kind = "gocb"
                 THEN <<Plan(c).targets[call[c].next]>> ELSE Plan(c).targets,
     values |-> [i \in DOMAIN Part(c) |-> Converted(Plan(c))[Part(c)[i]]],
     given |-> [i \in DOMAIN Part(c) |-> Plan(c).values[Part(c)[i]]]]

\* Fault: a call waits for a connection that is not there.
BeginConnected(c) ==
    /\ Phase(c) = "issued" /\ Plan(c).kind # "abort"
    /\ link = "up"
    /\ wire' = Append(wire, Request(c))
    /\ call' = [call EXCEPT ![c].phase = "waiting"]
    /\ UNCHANGED <<held, author, dataSet, link, served>>

\* The future's first poll.
Begin(c) ==
    /\ Phase(c) = "issued" /\ Plan(c).kind # "abort"
    /\ IF link = "up"
       THEN /\ wire' = Append(wire, Request(c))
            /\ call' = [call EXCEPT ![c].phase = "waiting"]
       ELSE /\ Finish(c, Result("IedConnectionError", 0, <<>>))
            /\ UNCHANGED wire
    /\ UNCHANGED <<held, author, dataSet, link, served>>

\* The server may or may not have received what was sent.
Cut == \E n \in 0 .. Len(wire) : wire' = SubSeq(wire, 1, n)

\* abort always succeeds.
Abort(c) ==
    /\ Phase(c) = "issued" /\ Plan(c).kind = "abort"
    /\ link' = "closed"
    /\ Cut
    /\ Finish(c, Result("returned", 0, <<>>))
    /\ UNCHANGED <<held, author, dataSet, served>>

----------------------------------------------------------------------------
\* The server. A call that no longer waits gets no answer.
AnswerTo(r, answer, entries) ==
    /\ wire' = Tail(wire)
    /\ served' = [served EXCEPT ![r.by] = @ \o entries]
    /\ call' = IF Phase(r.by) = "waiting" /\ link = "up"
               THEN [call EXCEPT ![r.by].answer = answer] ELSE call

Entry(o, ok, value, given) ==
    [object |-> o, ok |-> ok, value |-> value, given |-> given]

Touched(r) == IF r.kind \in DataSetKinds THEN dataSet ELSE r.targets

\* A whole request is refused: a service error, a Reject, a data set that
\* does not exist or has another length.
ServeRefused(r) ==
    /\ AnswerTo(r, [status |-> "refused", entries |-> <<>>], <<>>)
    /\ UNCHANGED <<held, author, dataSet, link>>

ServeRead(r, failing) ==
    LET entries == [i \in DOMAIN Touched(r) |->
            LET o == Touched(r)[i]
            IN  Entry(o, o \notin failing, held[o], author[o])]
    IN  /\ r.kind \in ListReads \cup {"read"}
        /\ Touched(r) # <<>>
        /\ AnswerTo(r, [status |-> "entries", entries |-> entries], entries)
        /\ UNCHANGED <<held, author, dataSet, link>>

\* The entries of a write succeed and fail one by one, in order.
ServeWrite(r, failing) ==
    LET T == Touched(r)
        good == {i \in DOMAIN T : T[i] \notin failing}
        last(o) == CHOOSE i \in good : T[i] = o /\ \A j \in good : T[j] = o => j <= i
        entries == [i \in DOMAIN T |->
            Entry(T[i], i \in good, r.values[i], r.given[i])]
        written == {T[i] : i \in good}
    IN  /\ r.kind \in Writes
        /\ T # <<>> /\ Len(T) = Len(r.values)
        /\ held' = [o \in Objects |->
                      IF o \in written THEN r.values[last(o)] ELSE held[o]]
        /\ author' = [o \in Objects |->
                      IF o \in written THEN r.given[last(o)] ELSE author[o]]
        /\ AnswerTo(r, [status |-> "entries", entries |-> entries], entries)
        /\ UNCHANGED <<dataSet, link>>

ServeDataSet(r) ==
    /\ \/ r.kind = "create" /\ dataSet = <<>> /\ dataSet' = r.targets
       \/ r.kind = "delete" /\ dataSet' = <<>>
    /\ AnswerTo(r, [status |-> "done", entries |-> <<>>], <<>>)
    /\ UNCHANGED <<held, author, link>>

\* Directories, specifications, journals, identity and status.
ServeQuery(r) ==
    /\ r.kind = "query"
    /\ AnswerTo(r, [status |-> "done", entries |-> <<>>], <<>>)
    /\ UNCHANGED <<held, author, dataSet, link>>

ServeConclude(r) ==
    /\ r.kind = "disconnect"
    /\ AnswerTo(r, [status |-> "done", entries |-> <<>>], <<>>)
    /\ UNCHANGED <<held, author, dataSet, link>>

Serve ==
    /\ wire # <<>>
    /\ \/ ServeRefused(Head(wire))
       \/ \E failing \in SUBSET Objects :
              ServeRead(Head(wire), failing) \/ ServeWrite(Head(wire), failing)
       \/ ServeDataSet(Head(wire))
       \/ ServeQuery(Head(wire))
       \/ ServeConclude(Head(wire))

----------------------------------------------------------------------------
Failed(entries) == {i \in DOMAIN entries : ~entries[i].ok}

\* Fault: the last entry that failed is reported.
LastFailed(entries) ==
    CHOOSE i \in Failed(entries) : \A j \in Failed(entries) : j <= i

FirstFailed(entries) ==
    CHOOSE i \in Failed(entries) : \A j \in Failed(entries) : i <= j

\* One entry of the list for each of the answer, in its place.
Marked(entries) ==
    [i \in DOMAIN entries |->
        IF entries[i].ok THEN ToPy[entries[i].value] ELSE Marker]

\* Fault: an index that counts from one already is moved by one.
DataAccessFromZero(i) == Result("IedDataAccessError", i + 1, <<>>)

DataAccess(i) == Result("IedDataAccessError", i, <<>>)

\* What the call makes of an answer with one outcome per entry.
Outcome(c, entries) ==
    LET plan == Plan(c)
        one == ReadValue(plan.want, entries[1].value)
    IN  CASE plan.kind \in {"read_objects", "get_marked"} ->
                Result("returned", 0, Marked(entries))
          [] OTHER ->
                IF Failed(entries) # {}
                THEN DataAccess(IF plan.kind \in DataSetKinds
                                THEN FirstFailed(entries) ELSE 0)
                ELSE IF plan.kind = "get_values"
                THEN Result("returned", 0, Marked(entries))
                ELSE IF plan.kind # "read" THEN Result("returned", 0, <<>>)
                ELSE IF one = Refused THEN DataAccess(0)
                ELSE Result("returned", 0, <<one>>)

\* set_gocb_values goes on to its next attribute.
MoreToWrite(c, entries) ==
    /\ Plan(c).kind = "gocb"
    /\ Failed(entries) = {}
    /\ call[c].next < Len(Plan(c).values)

\* The answer arrives at a call that waits.
Receive(c) ==
    LET answer == call[c].answer
    IN  /\ Phase(c) = "waiting" /\ answer.status # "none"
        /\ IF answer.status = "entries" /\ MoreToWrite(c, answer.entries)
           THEN /\ call' = [call EXCEPT ![c].next = @ + 1, ![c].phase = "issued",
                                        ![c].answer = NoAnswer]
                /\ UNCHANGED link
           ELSE /\ Finish(c, CASE answer.status = "refused" ->
                                    Result("IedServiceError", 0, <<>>)
                               [] answer.status = "done" ->
                                    Result("returned", 0, <<>>)
                               [] OTHER -> Outcome(c, answer.entries))
                /\ link' = IF Plan(c).kind = "disconnect" /\ answer.status = "done"
                           THEN "closed" ELSE link
        /\ UNCHANGED <<held, author, dataSet, wire, served>>

\* Fault: a request that timed out is sent again.
TimeoutRetries(c) ==
    /\ Phase(c) = "waiting" /\ link = "up" /\ Len(wire) < 3
    /\ wire' = Append(wire, Request(c))
    /\ UNCHANGED <<held, author, dataSet, link, call, served>>

\* The request timeout of the MMS client; the request may still be served.
Timeout(c) ==
    /\ Phase(c) = "waiting"
    /\ Finish(c, Result("IedTimeoutError", 0, <<>>))
    /\ UNCHANGED <<held, author, dataSet, link, wire, served>>

\* The application cancels the coroutine: the future is dropped.
Cancel(c) ==
    /\ Phase(c) \in {"issued", "waiting"}
    /\ Finish(c, Result("cancelled", 0, <<>>))
    /\ UNCHANGED <<held, author, dataSet, link, wire, served>>

\* The peer or the network ends the connection.
Lose ==
    /\ link = "up"
    /\ link' = "lost"
    /\ Cut
    /\ UNCHANGED <<held, author, dataSet, call, served>>

\* ConnectionLost, ReleasedByPeer or Transport at a call that waits.
FailWithLink(c) ==
    /\ Phase(c) = "waiting" /\ link # "up"
    /\ call[c].answer.status = "none"
    /\ Finish(c, Result("IedConnectionError", 0, <<>>))
    /\ UNCHANGED <<held, author, dataSet, link, wire, served>>

RequestsNext ==
    \/ \E c \in Calls :
          \/ \E plan \in Plans : Issue(c, plan)
          \/ Begin(c) \/ Abort(c) \/ Receive(c) \/ Timeout(c)
          \/ Cancel(c) \/ FailWithLink(c)
    \/ Serve
    \/ Lose

\* The runtime polls its futures and the client's request timer runs out;
\* nothing obliges the server to answer.
RequestsFairness ==
    \A c \in Calls :
        /\ WF_requestVars(Begin(c)) /\ WF_requestVars(Abort(c))
        /\ WF_requestVars(Receive(c)) /\ WF_requestVars(Timeout(c))

----------------------------------------------------------------------------
RequestsTypeOK ==
    /\ held \in [Objects -> MmsValues]
    /\ author \in [Objects -> PyValues]
    /\ link \in {"down", "up", "lost", "closed"}
    /\ \A i \in DOMAIN dataSet : dataSet[i] \in Objects
    /\ \A c \in Calls :
         /\ Plan(c) \in Plans \cup {NoPlan}
         /\ Phase(c) \in {"unissued", "issued", "waiting", "ended"}
         /\ Phase(c) = "ended" <=> call[c].result # NoResult
         /\ call[c].result.index \in 0 .. Len(served[c])

\* What a reader gets for a value that was given as p: numbers and text as
\* they were (a float, and what is tagged float32, to single precision), a
\* composite as a list, a bit string with its unused bits cleared.
PlainOf(p, items) ==
    LET only(type, n) == Value(type, "", n, p.items[1].octets, 0, <<>>)
        single(n) == n - (n % 2)
        cleared == [i \in DOMAIN p.octets |->
            IF i < Len(p.octets) THEN p.octets[i]
            ELSE p.octets[i] - (p.octets[i] % 2^p.padding)]
    IN  CASE p.type = "float" -> Number("float", single(p.num))
          [] p.type = "bytearray" -> Octets("bytes", p.octets)
          [] p.type = "list" \/ p.tag = "structure" -> Whole("list", items)
          [] p.tag \in {"bit_string", "bits"} -> Octets("bytes", cleared)
          [] p.tag = "float32" -> only("float", single(p.items[1].num))
          [] p.tag = "float64" -> only("float", p.items[1].num)
          [] p.tag = "bool" -> only("bool", p.items[1].num)
          [] p.tag \in {"int", "uint"} -> only("int", p.items[1].num)
          [] p.tag \in {"visible_string", "mms_string"} ->
                only("str", p.items[1].num)
          [] p.tag \in {"octet_string", "utc_time", "binary_time"} ->
                only("bytes", 0)
          [] OTHER -> p

Plain[p \in PyValues] ==
    PlainOf(p, [i \in DOMAIN p.items |-> Plain[p.items[i]]])

\* What the conversions make of the values given, there and back again:
\* Plain, and of a bit string nothing but octets.
RoundTrip ==
    /\ \A o \in Objects : ToPy[Generic[Initial[o]]] = Plain[Initial[o]]
    /\ \A p \in Plans : \A i \in DOMAIN p.values :
          Converted(p)[i] # Refused => ToPy[Converted(p)[i]] = Plain[p.values[i]]
    /\ \A m \in MmsValues : m.type = "BitString" =>
          ToPy[m] = Octets(ToPy[m].type, m.octets)

\* Typed writes are given a value of their own type. A truth value is
\* written as an int, and an int as a float, which is what reads back.
OwnTypes ==
    \A p \in Plans : p.kind = "write" => \A i \in DOMAIN p.values :
        /\ p.want \in {"int32", "uint32"} => p.values[i].type = "int"
        /\ p.want = "float" => p.values[i].type = "float"

\* A call that returned had every one of its entries served without failure,
\* unless it marks failures, and then each stands in its place; one that
\* raised for an entry of a data set names the first that failed, although
\* the server went on with the others. The answer is never a later one, of
\* another call or of a part already answered.
TheAnswerIsReported ==
    \A c \in Calls :
        LET result == call[c].result
            S == served[c]
        IN  /\ result.class = "returned" /\ Plan(c).kind \in ListReads =>
                   /\ Len(result.values) = Len(S)
                   /\ \A i \in DOMAIN S :
                         IF S[i].ok THEN result.values[i] = Plain[S[i].given]
                         ELSE /\ Plan(c).kind # "get_values"
                              /\ result.values[i] = Marker
            /\ result.class = "returned" /\ Plan(c).kind \in Writes \cup {"read"} =>
                   S # <<>> /\ \A i \in DOMAIN S : S[i].ok
            /\ /\ result.class = "IedDataAccessError"
               /\ Plan(c).kind \in DataSetKinds
               => /\ result.index \in DOMAIN S /\ ~S[result.index].ok
                  /\ \A i \in 1 .. result.index - 1 : S[i].ok

\* A read of one attribute returns the value some writer gave it, through
\* both conversions and whatever variant it was written and read as: it
\* raises rather than wraps, narrows or invents a bit.
WrittenReadsBack ==
    \A c \in Calls :
        LET result == call[c].result
            given == Plain[served[c][1].given]
        IN  result.class = "returned" /\ Plan(c).kind = "read" =>
                /\ result.values[1].num = given.num
                /\ result.values[1].octets = given.octets
                /\ result.values[1].items = given.items
                /\ Plan(c).want # "bit_string" => result.values[1].type = given.type

\* A call takes effect once: no entry of a write is applied a second time,
\* however it times out or is cancelled, a write that was refused before it
\* was sent has no effect ever, one that returned has taken all of it, and
\* the attributes of a GOOSE control block end with the first refusal.
EffectsAccounted ==
    \A c \in Calls :
        /\ Plan(c).kind \in {"write", "gocb"} =>
               Len(served[c]) <= Len(Plan(c).values)
        /\ call[c].result.class = "ValueError" => served[c] = <<>>
        /\ call[c].result.class = "returned" /\ Plan(c).kind \in Writes =>
               Len(served[c]) = Len(Plan(c).values)
        /\ Plan(c).kind = "gocb" =>
               \A i \in DOMAIN served[c] : ~served[c][i].ok => i = Len(served[c])

\* Every call comes to an end, whatever the server and the network do.
EveryRequestEnds ==
    \A c \in Calls : Phase(c) \in {"issued", "waiting"} ~> Phase(c) = "ended"
=============================================================================
