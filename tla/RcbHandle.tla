----------------------------- MODULE RcbHandle -----------------------------
(***************************************************************************)
(* The client's RcbHandle: a local mirror of a report control block whose  *)
(* attributes are read and assigned at once, and the two requests that use *)
(* it. refresh_rcb_values works on a copy and replaces the whole mirror    *)
(* when the answer is in; set_rcb_values writes the masked fields of a     *)
(* copy. Both are futures that run beside the application, so attributes   *)
(* may be assigned at any point of them.                                   *)
(***************************************************************************)
EXTENDS Naturals, FiniteSets

CONSTANTS
    Refreshes,    \* concurrent refresh_rcb_values calls
    Sets,         \* concurrent set_rcb_values calls
    Masks,        \* the RcbWriteMasks they may name
    Fields,       \* writable attributes of the control block
    Values,       \* their values
    Initial,      \* the value every field has first
    MaxInFlight   \* bound on the calls in flight at a time

ASSUME InitialAssumption == Initial \in Values
ASSUME MasksAssumption == Masks \subseteq SUBSET Fields
ASSUME CallsAssumption == Refreshes \cap Sets = {} /\ MaxInFlight \in Nat

Calls == Refreshes \cup Sets

VARIABLES
    handle,   \* the mirror behind the std mutex
    server,   \* the control block in the server
    phase,    \* where each call's future stands
    copy,     \* the clone of the mirror a call works on
    answer,   \* refresh: the image the server answered with
    todo,     \* refresh: fields not yet decoded; set: fields not yet written
    base,     \* history: the image the mirror was last filled with
    edited,   \* history: the fields assigned since
    seen,     \* history: the mirror's contents between call and copy of a set
    called,   \* history: the mirror when a set was called
    written   \* history: the field values a set has written so far

vars == <<handle, server, phase, copy, answer, todo, base, edited, seen,
          called, written>>

Image == [Fields -> Values]
Blank == [f \in Fields |-> Initial]
Phases == {"idle", "refresh called", "reading", "decoding",
           "set called", "writing"}

TypeOK ==
    /\ handle \in Image /\ server \in Image /\ base \in Image
    /\ phase \in [Calls -> Phases]
    /\ copy \in [Calls -> Image] /\ answer \in [Refreshes -> Image]
    /\ todo \in [Calls -> SUBSET Fields]
    /\ edited \in SUBSET Fields
    /\ called \in [Sets -> Image]
    /\ seen \in [Sets -> SUBSET Image]
    /\ written \in [Sets -> SUBSET (Fields \X Values)]

----------------------------------------------------------------------------
\* get_rcb_values has just filled the mirror.
Init ==
    /\ handle = Blank /\ server = Blank /\ base = Blank
    /\ phase = [c \in Calls |-> "idle"]
    /\ copy = [c \in Calls |-> Blank]
    /\ answer = [c \in Refreshes |-> Blank]
    /\ todo = [c \in Calls |-> {}]
    /\ edited = {}
    /\ seen = [c \in Sets |-> {}]
    /\ called = [c \in Sets |-> Blank]
    /\ written = [c \in Sets |-> {}]

\* The mirror changed: calls that have yet to copy it see the new contents.
Watch(image) ==
    seen' = [c \in Sets |-> IF phase[c] = "set called"
                             THEN seen[c] \cup {image} ELSE seen[c]]

MayCall(c) ==
    /\ phase[c] = "idle"
    /\ Cardinality({d \in Calls : phase[d] # "idle"}) < MaxInFlight

\* An attribute setter.
Assign(f, v) ==
    /\ handle' = [handle EXCEPT ![f] = v]
    /\ edited' = edited \cup {f}
    /\ Watch(handle')
    /\ UNCHANGED <<server, phase, copy, answer, todo, base, called,
                   written>>

CallRefresh(c) ==
    /\ MayCall(c)
    /\ phase' = [phase EXCEPT ![c] = "refresh called"]
    /\ UNCHANGED <<handle, server, copy, answer, todo, base, edited, seen,
                   called, written>>

\* The future's first poll clones the mirror and sends the read.
Clone(c) ==
    /\ phase[c] = "refresh called"
    /\ phase' = [phase EXCEPT ![c] = "reading"]
    /\ copy' = [copy EXCEPT ![c] = handle]
    /\ UNCHANGED <<handle, server, answer, todo, base, edited, seen,
                   called, written>>

Answer(c) ==
    /\ phase[c] = "reading"
    /\ phase' = [phase EXCEPT ![c] = "decoding"]
    /\ answer' = [answer EXCEPT ![c] = server]
    /\ todo' = [todo EXCEPT ![c] = Fields]
    /\ UNCHANGED <<handle, server, copy, base, edited, seen,
                   called, written>>

Decode(c, f) ==
    /\ phase[c] = "decoding" /\ f \in todo[c]
    /\ copy' = [copy EXCEPT ![c][f] = answer[c][f]]
    /\ todo' = [todo EXCEPT ![c] = @ \ {f}]
    /\ UNCHANGED <<handle, server, phase, answer, base, edited, seen,
                   called, written>>

\* A refresh is over.
Finish(c) ==
    /\ phase' = [phase EXCEPT ![c] = "idle"]
    /\ copy' = [copy EXCEPT ![c] = Blank]
    /\ answer' = [answer EXCEPT ![c] = Blank]
    /\ todo' = [todo EXCEPT ![c] = {}]

\* The mirror is replaced as a whole, attributes assigned meanwhile with it.
Store(c) ==
    /\ phase[c] = "decoding" /\ todo[c] = {}
    /\ handle' = copy[c]
    /\ base' = answer[c]
    /\ edited' = {}
    /\ Watch(handle')
    /\ Finish(c)
    /\ UNCHANGED <<server, called, written>>

\* Fault: the copy is stored whatever became of the request.
RefreshStoresAnyway(c) ==
    /\ phase[c] = "decoding" /\ todo[c] # {}
    /\ handle' = copy[c]
    /\ base' = answer[c]
    /\ edited' = {}
    /\ Watch(handle')
    /\ Finish(c)
    /\ UNCHANGED <<server, called, written>>

\* The read is refused or times out, an attribute does not decode, or the
\* Python future is cancelled.
RefreshFails(c) ==
    /\ \/ phase[c] = "reading"
       \/ phase[c] = "decoding" /\ todo[c] # {}
    /\ Finish(c)
    /\ UNCHANGED <<handle, server, base, edited, seen, called, written>>

\* Fault: the mask lets a read-only attribute through.
CallSetUnmasked(c, mask) ==
    /\ MayCall(c)
    /\ phase' = [phase EXCEPT ![c] = "set called"]
    /\ todo' = [todo EXCEPT ![c] = mask \cup {"conf_rev"}]
    /\ seen' = [seen EXCEPT ![c] = {handle}]
    /\ called' = [called EXCEPT ![c] = handle]
    /\ UNCHANGED <<handle, server, copy, answer, base, edited, written>>

\* set_rcb_values(handle, mask)
CallSet(c, mask) ==
    /\ MayCall(c)
    /\ phase' = [phase EXCEPT ![c] = "set called"]
    /\ todo' = [todo EXCEPT ![c] = mask]
    /\ seen' = [seen EXCEPT ![c] = {handle}]
    /\ called' = [called EXCEPT ![c] = handle]
    /\ UNCHANGED <<handle, server, copy, answer, base, edited, written>>

\* The copy is taken when the future first runs, not in the call itself.
CloneForSet(c) ==
    /\ phase[c] = "set called"
    /\ phase' = [phase EXCEPT ![c] = "writing"]
    /\ copy' = [copy EXCEPT ![c] = handle]
    /\ UNCHANGED <<handle, server, answer, todo, base, edited, seen,
                   called, written>>

\* Fault: each field is read from the mirror when it is written.
WriteFromMirror(c, f) ==
    /\ phase[c] = "writing" /\ f \in todo[c]
    /\ server' = [server EXCEPT ![f] = handle[f]]
    /\ written' = [written EXCEPT ![c] = @ \cup {<<f, handle[f]>>}]
    /\ todo' = [todo EXCEPT ![c] = @ \ {f}]
    /\ UNCHANGED <<handle, phase, copy, answer, base, edited, seen, called>>

\* The server takes the masked fields one by one, in one request or several.
Write(c, f) ==
    /\ phase[c] = "writing" /\ f \in todo[c]
    /\ server' = [server EXCEPT ![f] = copy[c][f]]
    /\ written' = [written EXCEPT ![c] = @ \cup {<<f, copy[c][f]>>}]
    /\ todo' = [todo EXCEPT ![c] = @ \ {f}]
    /\ UNCHANGED <<handle, phase, copy, answer, base, edited, seen,
                   called>>

\* Every field is written, a write is refused, the request times out, or
\* the Python future is cancelled: nothing more is written.
SetReturns(c) ==
    /\ phase[c] = "writing"
    /\ phase' = [phase EXCEPT ![c] = "idle"]
    /\ copy' = [copy EXCEPT ![c] = Blank]
    /\ todo' = [todo EXCEPT ![c] = {}]
    /\ seen' = [seen EXCEPT ![c] = {}]
    /\ called' = [called EXCEPT ![c] = Blank]
    /\ written' = [written EXCEPT ![c] = {}]
    /\ UNCHANGED <<handle, server, answer, base, edited>>

\* Another client, or the server itself, changes the control block.
OtherWrites(f, v) ==
    /\ server' = [server EXCEPT ![f] = v]
    /\ UNCHANGED <<handle, phase, copy, answer, todo, base, edited, seen,
                   called, written>>

Next ==
    \/ \E f \in Fields, v \in Values : Assign(f, v) \/ OtherWrites(f, v)
    \/ \E c \in Refreshes :
        \/ CallRefresh(c) \/ Clone(c) \/ Answer(c)
        \/ \E f \in Fields : Decode(c, f)
        \/ Store(c) \/ RefreshFails(c)
    \/ \E c \in Sets :
        \/ \E mask \in Masks : CallSet(c, mask)
        \/ CloneForSet(c)
        \/ \E f \in Fields : Write(c, f)
        \/ SetReturns(c)

Spec == Init /\ [][Next]_vars

----------------------------------------------------------------------------
\* The mirror is never torn between two answers of the server: but for the
\* attributes assigned since, it is the one image a refresh stored last, and
\* a refresh that fails or is cancelled half-way leaves no trace in it.
MirrorUntorn == \A f \in Fields \ edited : handle[f] = base[f]

\* What one set_rcb_values writes comes from the mirror as it was at a single
\* moment of the call, however the mirror changes while it is in flight.
WritesOneMoment ==
    \A c \in Sets :
        written[c] # {} =>
            \E image \in seen[c] : \A w \in written[c] : image[w[1]] = w[2]

\* What is written is what the mirror held when set_rcb_values was called.
WritesTheCallMoment ==
    \A c \in Sets : \A w \in written[c] : called[c][w[1]] = w[2]
=============================================================================
