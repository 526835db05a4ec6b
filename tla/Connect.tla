------------------------------ MODULE Connect ------------------------------
(***************************************************************************)
(* One attempt to connect: IedConnection.connect and connect_tls. Each     *)
(* exchange of the attempt runs under a deadline of the MMS client, and    *)
(* the whole attempt, but for connect_tls's resolution of the host name,   *)
(* under the binding's backstop. The clock counts milliseconds from the    *)
(* moment the backstop is armed; words hold 0 .. 2 * HalfWord - 1. The     *)
(* client may be late in ending an exchange, and a stalling client never   *)
(* ends one.                                                               *)
(***************************************************************************)
EXTENDS Integers

CONSTANTS
    Timeouts,        \* values of timeout_ms
    RequestTimeouts, \* values of request_timeout_ms, NotGiven included
    NotGiven,        \* request_timeout_ms = None
    DefaultRequest,  \* DEFAULT_REQUEST_TIMEOUT_MS
    Slack,           \* CONNECT_BACKSTOP_SLACK_MS
    Late,            \* most a timer of the client or of tokio is late
    HalfWord,        \* 2^63, the first unsigned word that is negative as i64
    Horizon          \* how long the clock runs

Word == 0 .. 2 * HalfWord - 1

ASSUME TimeoutAssumption ==
    /\ HalfWord \in Nat \ {0}
    /\ Timeouts \subseteq Word
    /\ RequestTimeouts \ {NotGiven} \subseteq Word
    /\ DefaultRequest \in Word
\* Two exchanges are timed, and no clock reaches half a word's milliseconds.
ASSUME SlackAssumption ==
    /\ Slack \in Word /\ Late \in Nat /\ 2 * Late < Slack
    /\ Horizon \in Nat /\ Horizon < HalfWord

VARIABLES
    tls,            \* is this connect_tls?
    timeout,        \* timeout_ms
    request,        \* request_timeout_ms
    stalls,         \* will the client fail to end the attempt itself?
    stage,          \* the exchange under way, or how the attempt ended
    clock,          \* milliseconds since the backstop was armed
    associateBegan, \* when the association exchange began
    error           \* the exception, its timeout_ms, who raised it and where

connectVars == <<tls, timeout, request, stalls, stage, clock,
                 associateBegan, error>>

Exchanges == {"tcp", "tls", "cotp", "associate"}
Ended == {"connected", "failed", "cancelled"}
NoError == [class |-> "none", ms |-> 0, by |-> "none", at |-> "none"]

ConnectTypeOK ==
    /\ tls \in BOOLEAN /\ stalls \in BOOLEAN
    /\ timeout \in Timeouts
    /\ request \in RequestTimeouts
    /\ stage \in Exchanges \cup Ended \cup {"called", "resolve"}
    /\ clock \in 0 .. Horizon
    /\ associateBegan \in 0 .. Horizon
    /\ error.ms \in -HalfWord .. HalfWord - 1

----------------------------------------------------------------------------
SaturatingAdd(a, b) == IF a + b \in Word THEN a + b ELSE 2 * HalfWord - 1

RequestTimeout == IF request = NotGiven THEN DefaultRequest ELSE request

\* Fault: a request timeout that was not given counts as nothing.
NoDefault == SaturatingAdd(SaturatingAdd(timeout,
                 IF request = NotGiven THEN 0 ELSE request), Slack)

\* connect_backstop
Backstop == SaturatingAdd(SaturatingAdd(timeout, RequestTimeout), Slack)

\* `as i64`
AsI64(ms) == IF ms < HalfWord THEN ms ELSE ms - 2 * HalfWord

\* The client's deadline for the exchange under way: timeout_ms covers the
\* first ones together.
Deadline ==
    IF stage = "associate" THEN associateBegan + RequestTimeout
    ELSE timeout

ConnectInit ==
    /\ tls \in BOOLEAN /\ stalls \in BOOLEAN
    /\ timeout \in Timeouts
    /\ request \in RequestTimeouts
    /\ stage = "called"
    /\ clock = 0 /\ associateBegan = 0
    /\ error = NoError

Fail(class, ms, by) ==
    /\ stage' = "failed"
    /\ error' = [class |-> class, ms |-> ms, by |-> by, at |-> stage]
    /\ UNCHANGED <<tls, timeout, request, stalls, clock, associateBegan>>

\* The future's first poll. connect_tls looks the host up first ...
Poll ==
    /\ stage = "called"
    /\ stage' = IF tls THEN "resolve" ELSE "tcp"
    /\ UNCHANGED <<tls, timeout, request, stalls, clock, associateBegan,
                   error>>

\* ... and arms the backstop once it has an address.
Resolve ==
    /\ stage = "resolve"
    /\ stage' = "tcp"
    /\ UNCHANGED <<tls, timeout, request, stalls, clock, associateBegan,
                   error>>

ResolveFails == stage = "resolve" /\ Fail("IedConnectionError", 0, "client")

\* The peer completes an exchange.
Advance ==
    /\ stage \in Exchanges
    /\ stage' = CASE stage = "tcp" -> IF tls THEN "tls" ELSE "cotp"
                  [] stage = "tls" -> "cotp"
                  [] stage = "cotp" -> "associate"
                  [] OTHER -> "connected"
    /\ associateBegan' = IF stage = "cotp" THEN clock ELSE associateBegan
    /\ UNCHANGED <<tls, timeout, request, stalls, clock, error>>

\* The peer refuses or breaks off: map_client_error by the exchange.
Refuse ==
    /\ stage \in Exchanges
    /\ \/ stage = "tls" /\ Fail("IedTlsError", 0, "client")
       \/ stage = "associate" /\ Fail("IedAuthenticationError", 0, "client")
       \/ Fail("IedConnectionError", 0, "client")

\* Fault: an association that runs out is reported with timeout_ms.
ExpireAsTransport ==
    /\ stage \in Exchanges /\ ~stalls
    /\ clock >= Deadline
    /\ Fail(IF stage = "tls" THEN "IedTlsError" ELSE "IedTimeoutError",
            IF stage = "tls" THEN 0 ELSE AsI64(timeout), "client")

\* The MMS client ends an exchange past its deadline.
Expire ==
    /\ stage \in Exchanges /\ ~stalls
    /\ clock >= Deadline
    /\ CASE stage = "tls" -> Fail("IedTlsError", 0, "client")
         [] stage = "associate" ->
                Fail("IedTimeoutError", AsI64(RequestTimeout), "client")
         [] OTHER -> Fail("IedTimeoutError", AsI64(timeout), "client")

\* tokio::time::timeout drops the client's future: connect_backstop_error.
BackstopFires ==
    /\ stage \in Exchanges
    /\ clock >= Backstop
    /\ Fail("IedTimeoutError", AsI64(timeout), "backstop")

\* The application cancels the coroutine that awaits the future.
CancelConnect ==
    /\ stage \notin Ended
    /\ stage' = "cancelled"
    /\ UNCHANGED <<tls, timeout, request, stalls, clock, associateBegan,
                   error>>

\* Time passes, but not past a timer that is due and as late as can be.
Tick ==
    /\ stage \in Exchanges
    /\ clock < Horizon
    /\ ~stalls => clock < Deadline + Late
    /\ clock < Backstop + Late
    /\ clock' = clock + 1
    /\ UNCHANGED <<tls, timeout, request, stalls, stage, associateBegan,
                   error>>

ConnectNext ==
    \/ Poll \/ Resolve \/ ResolveFails \/ Advance \/ Refuse \/ Expire
    \/ BackstopFires \/ CancelConnect \/ Tick

\* A timer that is due fires and a name is looked up within some time;
\* nothing obliges the peer to answer.
ConnectFairness ==
    /\ WF_connectVars(Poll)
    /\ WF_connectVars(Resolve \/ ResolveFails)
    /\ WF_connectVars(Expire)
    /\ WF_connectVars(BackstopFires)
    /\ WF_connectVars(Tick)

ConnectSpec == ConnectInit /\ [][ConnectNext]_connectVars

----------------------------------------------------------------------------
\* The backstop ends no attempt that the client ends itself: it comes after
\* every deadline of the client and their lateness, whatever the caller's
\* timeouts, and does not wrap ("it fires only if the client fails to end
\* the attempt itself", connect_backstop).
BackstopIsLast == error.by = "backstop" => stalls

\* An attempt that reports a timeout of so many milliseconds has lasted them
\* in the exchange the number stands for: the request timeout since the
\* association began, timeout_ms since the transport did, whether the client
\* or the backstop gave up.
TimeoutIsTrue ==
    error.class = "IedTimeoutError" =>
        IF error.by = "client" /\ error.at = "associate"
        THEN /\ error.ms = RequestTimeout
             /\ clock >= associateBegan + RequestTimeout
        ELSE /\ error.ms = timeout
             /\ clock >= timeout

\* Whatever the peer does, an attempt whose time limits lie within the clock
\* comes to an end once the host's name is resolved.
AttemptEnds ==
    stage \in Exchanges /\ Backstop + Late < Horizon ~> stage \in Ended
=============================================================================
