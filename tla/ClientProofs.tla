---------------------------- MODULE ClientProofs ----------------------------
(***************************************************************************)
(* Of the attempt to connect: a client that does not stall is never later  *)
(* than its deadline and a timer's lateness (OnTime), so that none of its  *)
(* exchanges lasts until the backstop.                                     *)
(* Of the requests: a call has one request on the wire at most, which is   *)
(* the one it sent last (WireOK). Where the call is tells how much was     *)
(* served for it (Progress), the answer that waits for it is that of its   *)
(* last request (AnswerOK), and what it reports agrees with all that was   *)
(* served (Reported). The server's actions differ in what they do to the   *)
(* attributes; to a call each is a Service.                                *)
(* Of the conversions: there and back they give what Plain says of every   *)
(* value they accept (GenericKept), because they do so of a value whose    *)
(* components they keep, and its nesting has an end.                       *)
(***************************************************************************)
EXTENDS Client, SequenceTheorems, NaturalsInduction, WellFoundedInduction,
        TLAPS

----------------------------------------------------------------------------
(* The attempt to connect.                                                 *)

\* The client that does not stall is never later than it may be.
OnTime ==
    /\ stage \in {"called", "resolve"} => clock = 0
    /\ stage = "associate" => associateBegan <= clock
    /\ ~stalls /\ stage \in Exchanges => clock <= Deadline + Late
    /\ ~stalls /\ stage = "associate" => associateBegan <= timeout + Late

ConnectInv ==
    /\ ConnectTypeOK /\ OnTime
    /\ error = NoError \/ stage = "failed"
    /\ BackstopIsLast /\ TimeoutIsTrue

\* The numbers of an attempt, within a word.
LEMMA TimeFacts ==
    ASSUME ConnectTypeOK
    PROVE  /\ HalfWord \in Nat \ {0} /\ Slack \in Nat /\ Late \in Nat
           /\ 2 * Late < Slack /\ Horizon \in Nat /\ Horizon < HalfWord
           /\ timeout \in Nat /\ timeout <= 2 * HalfWord - 1
           /\ RequestTimeout \in Nat /\ RequestTimeout <= 2 * HalfWord - 1
           /\ clock \in Nat /\ clock <= Horizon
           /\ associateBegan \in Nat /\ associateBegan <= Horizon
<1>1. timeout \in Word /\ RequestTimeout \in Word
  BY TimeoutAssumption DEF ConnectTypeOK, RequestTimeout
<1> QED
  BY <1>1, TimeoutAssumption, SlackAssumption DEF Word, ConnectTypeOK

\* The backstop does not wrap: either it is the sum, or later than any clock.
LEMMA BackstopFacts ==
    ASSUME ConnectTypeOK
    PROVE  /\ Backstop \in Nat
           /\ \/ Backstop = timeout + RequestTimeout + Slack
              \/ Backstop > Horizon
<1>1. /\ timeout \in Nat /\ RequestTimeout \in Nat /\ Slack \in Nat
      /\ HalfWord \in Nat \ {0} /\ Horizon \in Nat /\ Horizon < HalfWord
  BY TimeFacts
<1>2. \A a, b \in Nat : /\ SaturatingAdd(a, b) \in Nat
                        /\ \/ SaturatingAdd(a, b) = a + b
                           \/ SaturatingAdd(a, b) = 2 * HalfWord - 1
  BY <1>1 DEF SaturatingAdd, Word
<1>3. \A a, b \in Nat : a >= 2 * HalfWord - 1 =>
                            SaturatingAdd(a, b) >= 2 * HalfWord - 1
  BY <1>1 DEF SaturatingAdd, Word
<1>4. 2 * HalfWord - 1 > Horizon
  BY <1>1
<1> DEFINE a == SaturatingAdd(timeout, RequestTimeout)
<1>5. a \in Nat /\ (a = timeout + RequestTimeout \/ a = 2 * HalfWord - 1)
  BY <1>1, <1>2
<1>6. Backstop = SaturatingAdd(a, Slack)
  BY DEF Backstop
<1> HIDE DEF a
<1>7. Backstop \in Nat /\ (Backstop = a + Slack \/ Backstop = 2 * HalfWord - 1)
  BY <1>1, <1>2, <1>5, <1>6
<1>8. a = 2 * HalfWord - 1 => Backstop >= 2 * HalfWord - 1
  BY <1>1, <1>3, <1>5, <1>6
<1> QED
  BY <1>1, <1>4, <1>5, <1>7, <1>8

\* An attempt that fails with a report that is true.
LEMMA FailStep ==
    ASSUME ConnectInv, NEW class, NEW ms \in -HalfWord .. HalfWord - 1, NEW by,
           stage \in Exchanges \cup {"resolve"},
           Fail(class, ms, by),
           by = "backstop" => stalls,
           class = "IedTimeoutError" =>
              IF by = "client" /\ stage = "associate"
              THEN ms = RequestTimeout /\ clock >= associateBegan + RequestTimeout
              ELSE ms = timeout /\ clock >= timeout
    PROVE  ConnectInv'
<1>1. /\ stage' = "failed" /\ UNCHANGED <<tls, timeout, request, stalls, clock,
                                          associateBegan>>
      /\ error' = [class |-> class, ms |-> ms, by |-> by, at |-> stage]
  BY DEF Fail
<1>2. ConnectTypeOK' /\ OnTime'
  BY <1>1 DEF ConnectInv, ConnectTypeOK, OnTime, Ended, Exchanges
<1>3. BackstopIsLast' /\ TimeoutIsTrue'
  BY <1>1 DEF BackstopIsLast, TimeoutIsTrue, RequestTimeout
<1> QED
  BY <1>1, <1>2, <1>3 DEF ConnectInv

\* The attempt goes on, or ends without an exception.
LEMMA GoOn ==
    ASSUME ConnectInv, ConnectTypeOK', OnTime', stage # "failed", error' = error
    PROVE  ConnectInv'
<1>1. error = NoError
  BY DEF ConnectInv
<1>2. BackstopIsLast' /\ TimeoutIsTrue'
  BY <1>1 DEF BackstopIsLast, TimeoutIsTrue, NoError
<1> QED
  BY <1>1, <1>2 DEF ConnectInv, NoError

\* Each step of the attempt keeps its invariant.
LEMMA ConnectStep == ConnectInv /\ ConnectNext => ConnectInv'
<1> SUFFICES ASSUME ConnectInv, ConnectNext PROVE ConnectInv'
  OBVIOUS
<1>1. ConnectTypeOK /\ OnTime
  BY DEF ConnectInv
<1>2. /\ HalfWord \in Nat \ {0} /\ Slack \in Nat /\ Late \in Nat
      /\ 2 * Late < Slack /\ Horizon \in Nat /\ Horizon < HalfWord
      /\ timeout \in Nat /\ timeout <= 2 * HalfWord - 1
      /\ RequestTimeout \in Nat /\ RequestTimeout <= 2 * HalfWord - 1
      /\ clock \in Nat /\ clock <= Horizon
      /\ associateBegan \in Nat /\ associateBegan <= Horizon
  BY <1>1, TimeFacts
<1>3. 0 \in -HalfWord .. HalfWord - 1
  BY <1>2
<1>4. \A n \in Nat : n <= 2 * HalfWord - 1 =>
          /\ AsI64(n) \in -HalfWord .. HalfWord - 1
          /\ n <= Horizon => AsI64(n) = n
  BY <1>2 DEF AsI64
<1>5. CASE Poll
  <2>1. OnTime'
    BY <1>1, <1>2, <1>5 DEF Poll, OnTime, Deadline, Exchanges
  <2>2. ConnectTypeOK'
    BY <1>1, <1>5 DEF Poll, ConnectTypeOK, Exchanges
  <2> QED
    BY <1>5, <2>1, <2>2, GoOn DEF Poll
<1>6. CASE Resolve
  <2>1. OnTime'
    BY <1>1, <1>2, <1>6 DEF Resolve, OnTime, Deadline, Exchanges
  <2>2. ConnectTypeOK'
    BY <1>1, <1>6 DEF Resolve, ConnectTypeOK, Exchanges
  <2> QED
    BY <1>6, <2>1, <2>2, GoOn DEF Resolve
<1>7. CASE ResolveFails
  BY <1>3, <1>7, FailStep DEF ResolveFails
<1>8. CASE Advance
  <2>1. RequestTimeout' = RequestTimeout
    BY <1>8 DEF Advance, RequestTimeout
  <2>2. CASE stage \in {"tcp", "tls"}
    <3>1. /\ stage' \in {"tls", "cotp"}
          /\ UNCHANGED <<tls, timeout, request, stalls, clock,
                         associateBegan, error>>
      BY <1>8, <2>2 DEF Advance
    <3>2. OnTime'
      BY <1>1, <1>2, <2>2, <3>1 DEF OnTime, Deadline, Exchanges
    <3>3. ConnectTypeOK'
      BY <1>1, <3>1 DEF ConnectTypeOK, Exchanges
    <3> QED
      BY <2>2, <3>1, <3>2, <3>3, GoOn
  <2>3. CASE stage = "cotp"
    <3>1. /\ stage' = "associate" /\ associateBegan' = clock
          /\ UNCHANGED <<tls, timeout, request, stalls, clock, error>>
      BY <1>8, <2>3 DEF Advance
    <3>2. ~stalls => clock <= timeout + Late
      BY <1>1, <2>3 DEF OnTime, Deadline, Exchanges
    <3>3. OnTime'
      BY <1>2, <2>1, <3>1, <3>2 DEF OnTime, Deadline, Exchanges
    <3>4. ConnectTypeOK'
      BY <1>1, <3>1 DEF ConnectTypeOK, Exchanges
    <3> QED
      BY <2>3, <3>1, <3>3, <3>4, GoOn
  <2>4. CASE stage = "associate"
    <3>1. /\ stage' = "connected"
          /\ UNCHANGED <<tls, timeout, request, stalls, clock,
                         associateBegan, error>>
      BY <1>8, <2>4 DEF Advance
    <3>2. OnTime' /\ ConnectTypeOK'
      BY <1>1, <3>1 DEF OnTime, ConnectTypeOK, Exchanges, Ended
    <3> QED
      BY <2>4, <3>1, <3>2, GoOn
  <2> QED
    BY <1>8, <2>2, <2>3, <2>4 DEF Advance, Exchanges
<1>9. CASE Refuse
  BY <1>3, <1>9, FailStep DEF Refuse
\* An exchange that ran out of its time has had it.
<1>10. CASE Expire
  <2>1. /\ stage \in Exchanges /\ clock >= Deadline
    BY <1>10 DEF Expire
  <2>2. CASE stage = "tls"
    BY <1>3, <1>10, <2>1, <2>2, FailStep DEF Expire
  <2>3. CASE stage = "associate"
    <3>1. clock >= associateBegan + RequestTimeout
      BY <2>1, <2>3 DEF Deadline
    <3>2. AsI64(RequestTimeout) = RequestTimeout
      BY <1>2, <1>4, <3>1
    <3> QED
      BY <1>2, <1>4, <1>10, <2>1, <2>3, <3>1, <3>2, FailStep DEF Expire
  <2>4. CASE stage \notin {"tls", "associate"}
    <3>1. clock >= timeout
      BY <2>1, <2>4 DEF Deadline
    <3>2. AsI64(timeout) = timeout
      BY <1>2, <1>4, <3>1
    <3> QED
      BY <1>2, <1>4, <1>10, <2>1, <2>4, <3>1, <3>2, FailStep DEF Expire
  <2> QED
    BY <2>2, <2>3, <2>4
\* When the backstop is due a client that does not stall has long ended it.
<1>11. CASE BackstopFires
  <2>1. /\ stage \in Exchanges /\ clock >= Backstop
        /\ Fail("IedTimeoutError", AsI64(timeout), "backstop")
    BY <1>11 DEF BackstopFires
  <2>2. clock >= timeout + RequestTimeout + Slack
    BY <1>1, <1>2, <2>1, BackstopFacts
  <2>3. stalls
    <3> SUFFICES ASSUME ~stalls PROVE FALSE
      BY <1>1 DEF ConnectTypeOK
    <3>1. clock <= Deadline + Late
      BY <1>1, <2>1 DEF OnTime
    <3>2. CASE stage = "associate"
      <4>1. associateBegan <= timeout + Late
        BY <1>1, <3>2 DEF OnTime, Exchanges
      <4>2. clock <= associateBegan + RequestTimeout + Late
        BY <3>1, <3>2 DEF Deadline
      <4> QED
        BY <1>2, <2>2, <4>1, <4>2
    <3>3. CASE stage # "associate"
      BY <1>2, <2>2, <3>1, <3>3 DEF Deadline
    <3> QED
      BY <3>2, <3>3
  <2>4. AsI64(timeout) = timeout /\ clock >= timeout
    BY <1>2, <1>4, <2>2
  <2> QED
    BY <1>2, <1>4, <2>1, <2>3, <2>4, FailStep
<1>12. CASE CancelConnect
  <2>1. OnTime' /\ ConnectTypeOK'
    BY <1>1, <1>12 DEF CancelConnect, OnTime, ConnectTypeOK, Exchanges, Ended
  <2> QED
    BY <1>12, <2>1, GoOn DEF CancelConnect, Ended
<1>13. CASE Tick
  <2>1. /\ stage \in Exchanges /\ stage' = stage /\ clock' = clock + 1
        /\ clock < Horizon /\ (~stalls => clock < Deadline + Late)
        /\ UNCHANGED <<tls, timeout, request, stalls, associateBegan, error>>
    BY <1>13 DEF Tick
  <2>2. Deadline' = Deadline /\ Deadline \in Nat
    BY <1>2, <2>1 DEF Deadline, RequestTimeout
  <2>3. OnTime'
    BY <1>1, <1>2, <2>1, <2>2 DEF OnTime, Exchanges
  <2>4. ConnectTypeOK'
    BY <1>1, <1>2, <2>1 DEF ConnectTypeOK
  <2> QED
    BY <2>1, <2>3, <2>4, GoOn DEF Exchanges
<1> QED
  BY <1>5, <1>6, <1>7, <1>8, <1>9, <1>10, <1>11, <1>12, <1>13 DEF ConnectNext

\* It holds when the attempt begins.
LEMMA ConnectInitial == ConnectInit => ConnectInv
<1> SUFFICES ASSUME ConnectInit PROVE ConnectInv
  OBVIOUS
<1>1. ConnectTypeOK /\ OnTime
  BY TimeoutAssumption, SlackAssumption
     DEF ConnectInit, ConnectTypeOK, OnTime, NoError, Exchanges
<1> QED
  BY <1>1 DEF ConnectInit, ConnectInv, BackstopIsLast, TimeoutIsTrue, NoError

\* It holds when the connection is handed out.
LEMMA HandOutStep == ConnectInv /\ HandOut => ConnectInv'
<1> SUFFICES ASSUME ConnectInv, HandOut PROVE ConnectInv'
  OBVIOUS
<1>1. (CHOOSE t \in Timeouts : TRUE) \in Timeouts
      /\ (CHOOSE t \in RequestTimeouts : TRUE) \in RequestTimeouts
  BY DEF ConnectInv, ConnectTypeOK
<1>2. /\ stage = "connected" /\ stage' = stage /\ error' = error
      /\ tls' = FALSE /\ stalls' = FALSE /\ clock' = 0 /\ associateBegan' = 0
      /\ timeout' \in Timeouts /\ request' \in RequestTimeouts
  BY <1>1 DEF HandOut
<1>3. 0 \in 0..Horizon
  BY SlackAssumption
<1>4. ConnectTypeOK'
  BY <1>2, <1>3 DEF ConnectInv, ConnectTypeOK
<1>5. OnTime'
  BY <1>2 DEF OnTime, Exchanges
<1> QED
  BY <1>2, <1>4, <1>5, GoOn

----------------------------------------------------------------------------
(* The requests: the invariant.                                            *)

Fields == {"plan", "phase", "next", "answer", "result"}
Asks(kind) == kind \in ListReads \cup Writes \cup {"read"}
Final == {"returned", "ValueError", "IedDataAccessError"}

EntryType == [object : Objects, ok : BOOLEAN, value : MmsValues, given : PyValues]
RequestType ==
    [by : Calls, kind : {p.kind : p \in Plans}, targets : Seq(Objects),
     values : Seq(MmsValues), given : Seq(PyValues)]

Shape ==
    /\ held \in [Objects -> MmsValues] /\ author \in [Objects -> PyValues]
    /\ link \in {"down", "up", "lost", "closed"} /\ dataSet \in Seq(Objects)
    /\ wire \in Seq(RequestType)
    /\ served \in [Calls -> Seq(EntryType)]
    /\ call = [c \in Calls |-> call[c]]
    /\ \A c \in Calls :
          /\ DOMAIN call[c] = Fields
          /\ call[c].plan \in Plans \cup {NoPlan}
          /\ call[c].phase \in {"unissued", "issued", "waiting", "ended"}
          /\ call[c].next \in Nat \ {0}

\* A call has at most one request on the wire, the one it sent last, and has
\* not had the answer to it.
WireOK ==
    /\ \A i, k \in 1..Len(wire) : wire[i].by = wire[k].by => i = k
    /\ \A i \in 1..Len(wire) :
          /\ wire[i] = Request(wire[i].by)
          /\ Plan(wire[i].by) \in Plans
          /\ Phase(wire[i].by) \in {"waiting", "ended"}
          /\ call[wire[i].by].answer = NoAnswer
          /\ call[wire[i].by].result.class \notin Final

Outstanding(c) == \E i \in 1..Len(wire) : wire[i].by = c

\* The entries that were served before the request that a call sends or
\* awaits: a GOOSE control block is written one attribute a request.
Before(c) == IF Plan(c).kind = "gocb" THEN call[c].next - 1 ELSE 0

\* A plan that was not refused at once converts.
Sendable(c) ==
    call[c].result.class # "ValueError" =>
        \A i \in DOMAIN Plan(c).values : Converted(Plan(c))[i] # Refused

\* What a call has had served accounts for where it is.
Progress(c) ==
    LET S == served[c]
    IN  /\ Phase(c) = "unissued" => Plan(c) = NoPlan /\ call[c].next = 1
        /\ Phase(c) \in {"issued", "waiting"} => Plan(c) \in Plans
        /\ Plan(c).kind = "gocb" =>
              call[c].next <= Len(Plan(c).values) /\ Len(S) <= call[c].next
        /\ Plan(c).kind \in {"write", "set_values"} =>
              Len(S) \in {0, Len(Plan(c).values)}
        /\ Len(S) >= Before(c) /\ \A i \in 1..Before(c) : S[i].ok
        /\ Phase(c) \in {"unissued", "issued"} \/ Outstanding(c) =>
              Len(S) = Before(c)

After(S, n) == SubSeq(S, n + 1, Len(S))

\* An answer that waits for its call is the one to its last request.
AnswerOK(c) ==
    LET S == served[c]
        answer == call[c].answer
    IN  /\ Phase(c) \in {"unissued", "issued", "ended"} => answer = NoAnswer
        /\ answer.status \in {"none", "refused", "done", "entries"}
        /\ answer.status = "done" => ~Asks(Plan(c).kind)
        /\ answer.status = "entries" =>
              /\ Asks(Plan(c).kind)
              /\ answer.entries = After(S, Before(c))
              /\ Len(S) > Before(c)

\* What a call with a plan reports agrees with what was served for it.
Agrees(result, S, plan) ==
    LET class == result.class
        kind == plan.kind
    IN  /\ result.index \in 0..Len(S)
        /\ class = "ValueError" => S = <<>>
        /\ class = "returned" /\ kind \in Writes =>
              Len(S) = Len(plan.values)
        /\ class = "returned" /\ kind \in ListReads =>
              /\ Len(result.values) = Len(S)
              /\ \A i \in 1..Len(S) :
                    IF S[i].ok THEN result.values[i] = ToPy[S[i].value]
                    ELSE kind # "get_values" /\ result.values[i] = Marker
        /\ class = "returned" /\ kind \in Writes \cup {"read"} =>
              S # <<>> /\ \A i \in 1..Len(S) : S[i].ok
        /\ class = "returned" /\ kind = "read" =>
              /\ result.values = <<ReadValue(plan.want, S[1].value)>>
              /\ ReadValue(plan.want, S[1].value) # Refused
        /\ class = "IedDataAccessError" /\ kind \in DataSetKinds =>
              /\ result.index \in 1..Len(S) /\ ~S[result.index].ok
              /\ \A i \in 1 .. result.index - 1 : S[i].ok

Reported(c) ==
    /\ Phase(c) = "ended" <=> call[c].result.class # "none"
    /\ Phase(c) # "ended" => call[c].result = NoResult
    /\ Agrees(call[c].result, served[c], Plan(c))

CallInv(c) == Sendable(c) /\ Progress(c) /\ AnswerOK(c) /\ Reported(c)

RequestsInv == Shape /\ WireOK /\ \A c \in Calls : CallInv(c)

\* Every value has the Python value it was given as.
Faithful ==
    /\ \A o \in Objects : ToPy[held[o]] = Plain[author[o]]
    /\ \A c \in Calls : \A i \in 1..Len(served[c]) :
          ToPy[served[c][i].value] = Plain[served[c][i].given]
----------------------------------------------------------------------------
(* Facts about sequences and about requests.                               *)

\* A set of numbers has a least member, and one within bounds a greatest.
LEMMA LeastOf ==
    ASSUME NEW T, T \subseteq Nat, T # {}
    PROVE  \E m \in T : \A n \in T : m <= n
<1> DEFINE R == OpToRel(<, Nat)
<1>1. \E m \in T : \A n \in T : ~ (<<n, m>> \in R)
  BY NatLessThanWellFounded, WFMin
<1>2. \A m, n \in Nat : <<n, m>> \in R <=> n < m
  BY DEF OpToRel
<1> HIDE DEF R
<1>3. PICK m \in T : \A n \in T : ~ (<<n, m>> \in R)
  BY <1>1
<1>4. ASSUME NEW n \in T PROVE m <= n
  <2>1. m \in Nat /\ n \in Nat
    BY <1>3
  <2>2. ~ (<<n, m>> \in R)
    BY <1>3
  <2>3. ~ (n < m)
    BY <1>2, <2>1, <2>2, Zenon
  <2> QED
    BY <2>1, <2>3
<1> QED
  BY <1>3, <1>4

\* A non-empty set of numbers up to a bound has a greatest one.
LEMMA GreatestOf ==
    ASSUME NEW n \in Nat, NEW T, T \subseteq 1..n, T # {}
    PROVE  \E m \in T : \A k \in T : k <= m
<1> DEFINE U == {u \in Nat : n - u \in T}
<1>1. U # {}
  <2>1. PICK k \in T : TRUE
    OBVIOUS
  <2>2. n - k \in Nat /\ n - (n - k) = k
    BY <2>1
  <2> QED
    BY <2>1, <2>2
<1>2. PICK u \in U : \A v \in U : u <= v
  BY <1>1, LeastOf
<1>3. ASSUME NEW k \in T PROVE k <= n - u
  <2>1. n - k \in Nat /\ n - (n - k) = k
    OBVIOUS
  <2>2. n - k \in U
    BY <2>1
  <2> QED
    BY <1>2, <2>1, <2>2
<1> QED
  BY <1>2, <1>3

\* A function on 1..n is a sequence.
LEMMA SeqOf ==
    ASSUME NEW n \in Nat, NEW f, NEW T,
           f = [i \in 1..n |-> f[i]], \A i \in 1..n : f[i] \in T
    PROVE  f \in Seq(T) /\ Len(f) = n /\ DOMAIN f = 1..n
<1>1. f \in [1..n -> T]
  OBVIOUS
<1>2. f \in Seq(T)
  BY <1>1, SeqDef
<1> QED
  BY <1>1, <1>2, LenProperties

\* The sequences of a plan.
LEMMA PlanFacts ==
    ASSUME NEW p \in Plans
    PROVE  /\ p.values \in Seq(PyValues) /\ p.targets \in Seq(Objects)
           /\ Len(p.values) \in Nat /\ DOMAIN p.values = 1..Len(p.values)
           /\ DOMAIN Converted(p) = 1..Len(p.values)
           /\ p.kind = "gocb" =>
                 Len(p.values) >= 1 /\ Len(p.targets) = Len(p.values)
<1>1. /\ p.values \in Seq(PyValues) /\ p.targets \in Seq(Objects)
      /\ p.kind = "gocb" => p.values # <<>> /\ Len(p.targets) = Len(p.values)
  BY PlansAssumption
<1>2. /\ Len(p.values) \in Nat /\ DOMAIN p.values = 1..Len(p.values)
      /\ p.values # <<>> => Len(p.values) >= 1
  BY <1>1, LenProperties, EmptySeq
<1> QED
  BY <1>1, <1>2 DEF Converted

\* What a request carries are values of the plan, in order.
LEMMA RequestFacts ==
    ASSUME Shape, NEW c \in Calls, CallInv(c), Plan(c) \in Plans,
           call[c].result.class # "ValueError"
    PROVE  LET r == Request(c)
               p == Plan(c)
               n == IF p.kind = "gocb" THEN 1 ELSE Len(p.values)
           IN  /\ r \in RequestType /\ r.by = c /\ r.kind = p.kind
               /\ n \in Nat /\ Len(r.values) = n /\ Len(r.given) = n
               /\ \A i \in 1..n : \E k \in 1..Len(p.values) :
                     /\ r.values[i] = Converted(p)[k]
                     /\ r.given[i] = p.values[k]
                     /\ Converted(p)[k] # Refused
               /\ p.kind = "gocb" => Len(r.targets) = 1
<1> DEFINE p == Plan(c)
           r == Request(c)
           n == IF p.kind = "gocb" THEN 1 ELSE Len(p.values)
           next == call[c].next
<1>1. /\ p.values \in Seq(PyValues) /\ p.targets \in Seq(Objects)
      /\ Len(p.values) \in Nat /\ DOMAIN p.values = 1..Len(p.values)
      /\ p.kind = "gocb" =>
            Len(p.values) >= 1 /\ Len(p.targets) = Len(p.values)
  BY PlanFacts
<1>2. \A k \in 1..Len(p.values) :
          /\ Converted(p)[k] # Refused /\ Converted(p)[k] \in MmsValues
          /\ p.values[k] \in PyValues
  <2>1. \A k \in 1..Len(p.values) : Converted(p)[k] # Refused
    BY <1>1 DEF CallInv, Sendable
  <2>2. \A k \in 1..Len(p.values) : Converted(p)[k] \in MmsValues \cup {Refused}
    BY <1>1, ConversionsAssumption
  <2> QED
    BY <1>1, <2>1, <2>2
<1>3. next \in Nat \ {0} /\ (p.kind = "gocb" => next \in 1..Len(p.values))
  BY <1>1 DEF Shape, CallInv, Progress, Plan
<1>4. /\ n \in Nat /\ DOMAIN Part(c) = 1..n
      /\ \A i \in 1..n : Part(c)[i] \in 1..Len(p.values)
  <2>1. CASE p.kind = "gocb"
    <3>1. Part(c) = <<next>> /\ n = 1
      BY <2>1 DEF Part
    <3> QED
      BY <1>3, <2>1, <3>1
  <2>2. CASE p.kind # "gocb"
    <3>1. Part(c) = [i \in 1..n |-> i] /\ n = Len(p.values)
      BY <2>2 DEF Part
    <3> QED
      BY <1>1, <3>1
  <2> QED
    BY <2>1, <2>2
<1>6. /\ r.by = c /\ r.kind = p.kind
      /\ r.values = [i \in 1..n |-> Converted(p)[Part(c)[i]]]
      /\ r.given = [i \in 1..n |-> p.values[Part(c)[i]]]
      /\ r.targets = IF p.kind = "gocb" THEN <<p.targets[next]>> ELSE p.targets
      /\ r = [by |-> r.by, kind |-> r.kind, targets |-> r.targets,
              values |-> r.values, given |-> r.given]
  BY <1>4 DEF Request
<1> HIDE DEF r
<1>7. r.values \in Seq(MmsValues) /\ Len(r.values) = n
  <2>1. \A i \in 1..n : r.values[i] \in MmsValues
    BY <1>2, <1>4, <1>6
  <2>2. r.values = [i \in 1..n |-> r.values[i]]
    BY <1>6
  <2> QED
    BY <1>4, <2>1, <2>2, SeqOf
<1>8. r.given \in Seq(PyValues) /\ Len(r.given) = n
  <2>1. \A i \in 1..n : r.given[i] \in PyValues
    BY <1>2, <1>4, <1>6
  <2>2. r.given = [i \in 1..n |-> r.given[i]]
    BY <1>6
  <2> QED
    BY <1>4, <2>1, <2>2, SeqOf
<1>9. r.targets \in Seq(Objects) /\ (p.kind = "gocb" => Len(r.targets) = 1)
  <2>1. CASE p.kind = "gocb"
    <3>1. p.targets[next] \in Objects
      BY <1>1, <1>3, <2>1
    <3> QED
      BY <1>6, <2>1, <3>1
  <2> QED
    BY <1>1, <1>6, <2>1
<1>10. r \in RequestType
  BY <1>6, <1>7, <1>8, <1>9 DEF RequestType
<1> QED
  BY <1>2, <1>4, <1>6, <1>7, <1>8, <1>9, <1>10 DEF r
----------------------------------------------------------------------------
(* The requests: what the steps have in common.                            *)

\* A call that a step does not concern.
LEMMA OtherCall ==
    ASSUME NEW k \in Calls, CallInv(k), call'[k] = call[k],
           served'[k] = served[k], Outstanding(k)' => Outstanding(k)
    PROVE  CallInv(k)'
<1>1. Phase(k)' = Phase(k) /\ Plan(k)' = Plan(k) /\ Before(k)' = Before(k)
  BY DEF Phase, Plan, Before
<1>2. Sendable(k)' /\ AnswerOK(k)' /\ Reported(k)'
  BY <1>1 DEF CallInv, Sendable, AnswerOK, Reported, Agrees
<1>3. Progress(k)'
  BY <1>1 DEF CallInv, Progress
<1> QED
  BY <1>2, <1>3 DEF CallInv

\* What a call sends is settled by its plan and how far it has come.
LEMMA RequestKept ==
    ASSUME NEW c, Plan(c)' = Plan(c), call'[c].next = call[c].next
    PROVE  Request(c)' = Request(c)
BY DEF Request, Part

\* Requests that leave the wire, at either end, leave the others as they are.
LEMMA WireKept ==
    ASSUME Shape, WireOK, NEW d \in Nat,
           wire' \in Seq(RequestType), Len(wire') + d <= Len(wire),
           \A i \in 1..Len(wire') : wire'[i] = wire[i + d],
           \A c \in Calls : Outstanding(c)' =>
              /\ Plan(c)' = Plan(c) /\ call'[c].next = call[c].next
              /\ Phase(c)' \in {"waiting", "ended"}
              /\ call'[c].answer = NoAnswer
              /\ call'[c].result.class \notin Final
    PROVE  WireOK' /\ \A k \in Calls : Outstanding(k)' => Outstanding(k)
<1>1. Len(wire) \in Nat /\ Len(wire') \in Nat
  BY LenProperties DEF Shape
<1>2. \A i \in 1..Len(wire') : i + d \in 1..Len(wire)
  BY <1>1
<1>3. \A k \in Calls : Outstanding(k)' => Outstanding(k)
  BY <1>2 DEF Outstanding
<1>4. \A i, k \in 1..Len(wire') : wire'[i].by = wire'[k].by => i = k
  <2> SUFFICES ASSUME NEW i \in 1..Len(wire'), NEW k \in 1..Len(wire'),
                      wire'[i].by = wire'[k].by
               PROVE  i = k
    OBVIOUS
  <2>1. /\ i + d \in 1..Len(wire) /\ k + d \in 1..Len(wire)
        /\ wire[i + d].by = wire[k + d].by
    BY <1>2
  <2>2. i + d = k + d
    BY <2>1 DEF WireOK
  <2> QED
    BY <1>1, <2>2
<1>5. ASSUME NEW i \in 1..Len(wire'), NEW c, c = wire'[i].by
      PROVE  /\ c \in Calls /\ Outstanding(c)'
             /\ wire'[i] = Request(c)' /\ Plan(c)' \in Plans
  <2>1. wire'[i] \in RequestType
    OBVIOUS
  <2>2. c \in Calls /\ Outstanding(c)'
    BY <1>5, <2>1 DEF RequestType, Outstanding
  <2>3. wire'[i] = wire[i + d] /\ i + d \in 1..Len(wire)
    BY <1>2
  <2>4. wire'[i] = Request(c) /\ Plan(c) \in Plans
    BY <1>5, <2>3 DEF WireOK
  <2>5. Plan(c)' = Plan(c) /\ call'[c].next = call[c].next
    BY <2>2
  <2>6. Request(c)' = Request(c)
    BY <2>5, RequestKept
  <2> QED
    BY <2>2, <2>4, <2>5, <2>6
<1> QED
  BY <1>3, <1>4, <1>5 DEF WireOK
\* What is left of the wire when the connection is cut or closed.
LEMMA CutFacts ==
    ASSUME Shape, wire' = wire \/ Cut
    PROVE  /\ wire' \in Seq(RequestType) /\ Len(wire') <= Len(wire)
           /\ \A i \in 1..Len(wire') : wire'[i] = wire[i]
<1>1. wire \in Seq(RequestType) /\ Len(wire) \in Nat
  BY LenProperties DEF Shape
<1>2. CASE wire' = wire
  BY <1>1, <1>2
<1>3. CASE Cut
  <2>1. PICK n \in 0..Len(wire) : wire' = SubSeq(wire, 1, n)
    BY <1>3 DEF Cut
  <2> QED
    BY <1>1, <2>1
<1> QED
  BY <1>2, <1>3

\* A call ends without an answer: it reports nothing that was served.
LEMMA FinishStep ==
    ASSUME RequestsInv, NEW c \in Calls, NEW class,
           Finish(c, Result(class, 0, <<>>)),
           Phase(c) \in {"issued", "waiting"},
           \/ class \in {"IedConnectionError", "IedTimeoutError", "cancelled"}
           \/ class = "returned" /\ Phase(c) = "issued" /\ Plan(c).kind = "abort",
           link' \in {"down", "up", "lost", "closed"},
           wire' = wire \/ Cut,
           UNCHANGED <<held, author, dataSet, served>>
    PROVE  RequestsInv'
<1>1. Shape /\ WireOK /\ \A k \in Calls : CallInv(k)
  BY DEF RequestsInv
<1>2. /\ call' = [k \in Calls |-> call'[k]]
      /\ \A k \in Calls \ {c} : call'[k] = call[k]
      /\ DOMAIN call'[c] = Fields
      /\ call'[c].plan = call[c].plan /\ call'[c].next = call[c].next
      /\ call'[c].phase = "ended" /\ call'[c].answer = NoAnswer
      /\ call'[c].result = Result(class, 0, <<>>)
  BY <1>1 DEF Shape, Finish, Fields
<1>3. /\ wire' \in Seq(RequestType) /\ Len(wire') <= Len(wire)
      /\ \A i \in 1..Len(wire') : wire'[i] = wire[i]
  BY <1>1, CutFacts
<1>4. Shape'
  BY <1>1, <1>2, <1>3 DEF Shape
<1>5. /\ Result(class, 0, <<>>).class = class /\ Result(class, 0, <<>>).index = 0
      /\ class \notin {"none", "ValueError", "IedDataAccessError"}
  BY DEF Result
<1>6. ASSUME NEW k \in Calls, Outstanding(k)'
      PROVE  /\ Plan(k)' = Plan(k) /\ call'[k].next = call[k].next
             /\ Phase(k)' \in {"waiting", "ended"}
             /\ call'[k].answer = NoAnswer
             /\ call'[k].result.class \notin Final
  <2>1. PICK i \in 1..Len(wire') : wire'[i].by = k
    BY <1>6 DEF Outstanding
  <2>2. i \in 1..Len(wire) /\ wire[i].by = k
    BY <1>1, <1>3, <2>1, LenProperties DEF Shape
  <2>3. /\ Phase(k) \in {"waiting", "ended"} /\ call[k].answer = NoAnswer
        /\ call[k].result.class \notin Final
    BY <1>1, <2>2 DEF WireOK
  <2>4. CASE k = c
    BY <1>2, <1>5, <2>3, <2>4 DEF Phase, Plan, Final
  <2>5. CASE k # c
    BY <1>2, <2>3, <2>5 DEF Phase, Plan
  <2> QED
    BY <2>4, <2>5
<1>7. WireOK' /\ \A k \in Calls : Outstanding(k)' => Outstanding(k)
  <2>1. Len(wire) \in Nat /\ Len(wire') \in Nat
    BY <1>1, <1>3, LenProperties DEF Shape
  <2>2. /\ Len(wire') + 0 <= Len(wire)
        /\ \A i \in 1..Len(wire') : wire'[i] = wire[i + 0]
    BY <1>3, <2>1
  <2> QED
    BY <1>1, <1>3, <1>6, <2>2, WireKept
<1>8. CallInv(c)'
  <2>1. CallInv(c) /\ Len(served[c]) \in Nat
    BY <1>1, LenProperties DEF Shape
  <2>2. Sendable(c)'
    BY <1>2, <1>5, <2>1
       DEF CallInv, Sendable, Plan, Reported, Phase, NoResult, Result
  <2>3. Progress(c)'
    BY <1>2, <1>7, <2>1 DEF CallInv, Progress, Phase, Plan, Before
  <2>4. AnswerOK(c)'
    BY <1>2, <2>1 DEF CallInv, AnswerOK, NoAnswer, Phase
  <2>5. Reported(c)'
    BY <1>2, <1>5, <2>1
       DEF CallInv, Reported, Agrees, Phase, Plan, Writes, ListReads, DataSetKinds
  <2> QED
    BY <2>2, <2>3, <2>4, <2>5 DEF CallInv
<1>9. \A k \in Calls \ {c} : CallInv(k)'
  BY <1>1, <1>2, <1>7, OtherCall
<1> QED
  BY <1>4, <1>7, <1>8, <1>9 DEF RequestsInv

\* Nothing a call knows of changes, and requests may be lost.
LEMMA LoseStep == RequestsInv /\ Lose => RequestsInv'
<1> SUFFICES ASSUME RequestsInv, Lose PROVE RequestsInv'
  OBVIOUS
<1>1. Shape /\ WireOK /\ \A k \in Calls : CallInv(k)
  BY DEF RequestsInv
<1>2. /\ wire' \in Seq(RequestType) /\ Len(wire') <= Len(wire)
      /\ \A i \in 1..Len(wire') : wire'[i] = wire[i]
  BY <1>1, CutFacts DEF Lose
<1>3. Shape'
  BY <1>1, <1>2 DEF Shape, Lose
<1>4. Len(wire) \in Nat /\ Len(wire') \in Nat
  BY <1>1, <1>2, LenProperties DEF Shape
<1>5. \A k \in Calls : Outstanding(k)' => Outstanding(k)
  BY <1>2, <1>4 DEF Outstanding
<1>6. WireOK'
  <2>1. /\ Len(wire') + 0 <= Len(wire)
        /\ \A i \in 1..Len(wire') : wire'[i] = wire[i + 0]
    BY <1>2, <1>4
  <2>2. ASSUME NEW k \in Calls, Outstanding(k)
        PROVE  /\ Plan(k)' = Plan(k) /\ call'[k].next = call[k].next
               /\ Phase(k)' \in {"waiting", "ended"}
               /\ call'[k].answer = NoAnswer
               /\ call'[k].result.class \notin Final
    BY <1>1, <2>2 DEF WireOK, Outstanding, Lose, Plan, Phase
  <2> QED
    BY <1>1, <1>2, <1>5, <2>1, <2>2, WireKept
<1> QED
  BY <1>1, <1>3, <1>5, <1>6, OtherCall DEF RequestsInv, Lose
\* Only a plan whose values convert is kept to be sent.
LEMMA IssueStep ==
    ASSUME RequestsInv, NEW c \in Calls, NEW plan \in Plans, Issue(c, plan)
    PROVE  RequestsInv'
<1> DEFINE refused == \/ plan.want = "invalid"
                      \/ \E i \in DOMAIN plan.values : Converted(plan)[i] = Refused
           result == Result("ValueError", 0, <<>>)
<1>1. Shape /\ WireOK /\ CallInv(c) /\ \A k \in Calls : CallInv(k)
  BY DEF RequestsInv
<1>2. /\ call' = [k \in Calls |-> call'[k]]
      /\ \A k \in Calls \ {c} : call'[k] = call[k]
      /\ DOMAIN call'[c] = Fields
      /\ call'[c].plan = plan /\ call'[c].next = call[c].next
      /\ call'[c].phase = IF refused THEN "ended" ELSE "issued"
      /\ call'[c].answer = call[c].answer
      /\ call'[c].result = IF refused THEN result ELSE NoResult
      /\ call[c].phase = "unissued"
      /\ UNCHANGED <<held, author, dataSet, link, wire, served>>
  BY <1>1 DEF Shape, Issue, Fields, Phase
<1>3. result.class = "ValueError" /\ result.index = 0 /\ result # NoResult
      /\ NoResult.class = "none" /\ NoResult.index = 0
  BY DEF Result, NoResult
<1>4. /\ call[c].plan = NoPlan /\ call[c].next = 1
      /\ served[c] \in Seq(EntryType) /\ Len(served[c]) = 0
      /\ call[c].answer = NoAnswer /\ ~Outstanding(c)
  <2>1. call[c].plan = NoPlan /\ call[c].next = 1 /\ Len(served[c]) = Before(c)
    BY <1>1, <1>2 DEF CallInv, Progress, Phase, Plan
  <2>2. Before(c) = 0
    BY <2>1 DEF Before, Plan, NoPlan
  <2>3. ~Outstanding(c)
    BY <1>1, <1>2 DEF WireOK, Outstanding, Phase
  <2>4. call[c].answer = NoAnswer
    BY <1>1, <1>2 DEF CallInv, AnswerOK, Phase
  <2> QED
    BY <1>1, <2>1, <2>2, <2>3, <2>4 DEF Shape
<1>5. served[c] = <<>>
  BY <1>4, EmptySeq
<1>6. Shape'
  BY <1>1, <1>2 DEF Shape
<1>7. \A k \in Calls : Outstanding(k)' => Outstanding(k) /\ k # c
  BY <1>2, <1>4 DEF Outstanding
<1>8. WireOK'
  <2>1. wire \in Seq(RequestType) /\ Len(wire) \in Nat
    BY <1>1, LenProperties DEF Shape
  <2>2. /\ Len(wire') + 0 <= Len(wire)
        /\ \A i \in 1..Len(wire') : wire'[i] = wire[i + 0]
    BY <1>2, <2>1
  <2>3. ASSUME NEW k \in Calls, Outstanding(k)'
        PROVE  /\ Plan(k)' = Plan(k) /\ call'[k].next = call[k].next
               /\ Phase(k)' \in {"waiting", "ended"}
               /\ call'[k].answer = NoAnswer
               /\ call'[k].result.class \notin Final
    <3>1. k # c /\ Outstanding(k) /\ call'[k] = call[k]
      BY <1>2, <1>7, <2>3
    <3> QED
      BY <1>1, <3>1 DEF WireOK, Outstanding, Plan, Phase
  <2> QED
    BY <1>1, <1>2, <2>1, <2>2, <2>3, WireKept
<1>9. CallInv(c)'
  <2>1. ~Outstanding(c)' /\ served'[c] = <<>> /\ Len(served'[c]) = 0
    BY <1>2, <1>4, <1>5, <1>7
  <2>2. Sendable(c)'
    BY <1>2, <1>3 DEF Sendable, Plan
  <2>3. Progress(c)'
    <3>1. Before(c)' = 0
      BY <1>2, <1>4 DEF Before, Plan
    <3>2. plan.kind = "gocb" => 1 <= Len(plan.values)
      BY PlanFacts
    <3> QED
      BY <1>2, <1>4, <2>1, <3>1, <3>2 DEF Progress, Phase, Plan
  <2>4. AnswerOK(c)'
    BY <1>2, <1>4 DEF AnswerOK, NoAnswer, Phase
  <2>5. Reported(c)'
    BY <1>2, <1>3, <2>1 DEF Reported, Agrees, Phase, Plan
  <2> QED
    BY <2>2, <2>3, <2>4, <2>5 DEF CallInv
<1> QED
  BY <1>1, <1>2, <1>6, <1>7, <1>8, <1>9, OtherCall DEF RequestsInv

\* The request that goes on the wire is the call's only one.
LEMMA SendStep ==
    ASSUME RequestsInv, NEW c \in Calls, Phase(c) = "issued",
           wire' = Append(wire, Request(c)),
           call' = [call EXCEPT ![c].phase = "waiting"],
           UNCHANGED <<held, author, dataSet, link, served>>
    PROVE  RequestsInv'
<1>1. Shape /\ WireOK /\ CallInv(c) /\ \A k \in Calls : CallInv(k)
  BY DEF RequestsInv
<1>2. /\ call' = [k \in Calls |-> call'[k]]
      /\ \A k \in Calls \ {c} : call'[k] = call[k]
      /\ DOMAIN call'[c] = Fields
      /\ call'[c].plan = call[c].plan /\ call'[c].next = call[c].next
      /\ call'[c].phase = "waiting" /\ call'[c].answer = call[c].answer
      /\ call'[c].result = call[c].result
  BY <1>1 DEF Shape, Fields
<1>3. /\ Plan(c) \in Plans /\ call[c].answer = NoAnswer
      /\ call[c].result = NoResult /\ NoResult.class = "none"
      /\ NoResult.index = 0 /\ Len(served[c]) = Before(c)
  <2>1. Plan(c) \in Plans /\ Len(served[c]) = Before(c)
    BY <1>1 DEF CallInv, Progress
  <2>2. call[c].answer = NoAnswer /\ call[c].result = NoResult
    BY <1>1 DEF CallInv, AnswerOK, Reported, Agrees
  <2> QED
    BY <2>1, <2>2 DEF NoResult, Result
<1>4. Request(c) \in RequestType /\ Request(c).by = c
  BY <1>1, <1>3, RequestFacts
<1>5. /\ wire \in Seq(RequestType) /\ Len(wire) \in Nat
      /\ wire' \in Seq(RequestType) /\ Len(wire') = Len(wire) + 1
      /\ \A i \in 1..Len(wire) : wire'[i] = wire[i]
      /\ wire'[Len(wire')] = Request(c)
  BY <1>1, <1>4, LenProperties, AppendProperties DEF Shape
<1>6. Shape'
  BY <1>1, <1>2, <1>5 DEF Shape
<1>7. ~Outstanding(c)
  BY <1>1 DEF WireOK, Outstanding
<1>8. \A k \in Calls : Plan(k)' = Plan(k) /\ Request(k)' = Request(k)
  BY <1>2, RequestKept DEF Plan
<1>9. \A i \in 1..Len(wire') :
         \/ i = Len(wire') /\ wire'[i] = Request(c)
         \/ i \in 1..Len(wire) /\ wire'[i] = wire[i] /\ wire[i].by # c
  BY <1>5, <1>7 DEF Outstanding
<1>10. \A k \in Calls \ {c} : Outstanding(k)' => Outstanding(k)
  BY <1>4, <1>9 DEF Outstanding
<1>11. WireOK'
  <2>1. \A i, k \in 1..Len(wire') : wire'[i].by = wire'[k].by => i = k
    BY <1>1, <1>4, <1>9 DEF WireOK
  <2>2. ASSUME NEW i \in 1..Len(wire'), NEW k, k = wire'[i].by
        PROVE  /\ wire'[i] = Request(k)' /\ Plan(k)' \in Plans
               /\ Phase(k)' \in {"waiting", "ended"}
               /\ call'[k].answer = NoAnswer
               /\ call'[k].result.class \notin Final
    <3>1. wire'[i] \in RequestType
      BY <1>5
    <3>2. k \in Calls
      BY <2>2, <3>1 DEF RequestType
    <3>3. CASE k = c
      <4>1. wire'[i] = Request(c)
        BY <1>9, <2>2, <3>3
      <4> QED
        BY <1>2, <1>3, <1>8, <3>2, <3>3, <4>1 DEF Phase, Plan, Final
    <3>4. CASE k # c
      <4>1. i \in 1..Len(wire) /\ wire'[i] = wire[i] /\ wire[i].by = k
        BY <1>4, <1>9, <2>2, <3>4
      <4>2. /\ wire[i] = Request(k) /\ Plan(k) \in Plans
            /\ Phase(k) \in {"waiting", "ended"} /\ call[k].answer = NoAnswer
            /\ call[k].result.class \notin Final
        BY <1>1, <4>1 DEF WireOK
      <4> QED
        BY <1>2, <1>8, <3>2, <3>4, <4>1, <4>2 DEF Phase
    <3> QED
      BY <3>3, <3>4
  <2> QED
    BY <2>1, <2>2 DEF WireOK
<1>12. CallInv(c)'
  <2>1. Sendable(c)'
    BY <1>1, <1>2 DEF CallInv, Sendable, Plan
  <2>2. Progress(c)'
    BY <1>1, <1>2, <1>3 DEF CallInv, Progress, Phase, Plan, Before
  <2>3. AnswerOK(c)'
    BY <1>2, <1>3 DEF AnswerOK, NoAnswer, Phase
  <2>4. Reported(c)'
    BY <1>1, <1>2, <1>3 DEF CallInv, Reported, Agrees, Phase, Plan
  <2> QED
    BY <2>1, <2>2, <2>3, <2>4 DEF CallInv
<1> QED
  BY <1>1, <1>2, <1>6, <1>10, <1>11, <1>12, OtherCall DEF RequestsInv
----------------------------------------------------------------------------
(* The requests: the server.                                               *)

\* The request at the head of the wire.
LEMMA HeadFacts ==
    ASSUME RequestsInv, wire # <<>>, NEW r, r = Head(wire)
    PROVE  /\ r.by \in Calls /\ r = Request(r.by) /\ Plan(r.by) \in Plans
           /\ r \in RequestType /\ r.kind = Plan(r.by).kind
           /\ Phase(r.by) \in {"waiting", "ended"} /\ Outstanding(r.by)
           /\ call[r.by].answer = NoAnswer
           /\ call[r.by].result.class \notin Final
           /\ Tail(wire) \in Seq(RequestType) /\ Len(wire) \in Nat
           /\ Len(Tail(wire)) = Len(wire) - 1
           /\ \A i \in 1..Len(wire) - 1 :
                 Tail(wire)[i] = wire[i + 1] /\ wire[i + 1].by # r.by
<1>1. Shape /\ WireOK
  BY DEF RequestsInv
<1>2. /\ wire \in Seq(RequestType) /\ Len(wire) \in Nat /\ Len(wire) >= 1
      /\ r = wire[1] /\ r \in RequestType
  BY <1>1, LenProperties, EmptySeq, HeadTailProperties DEF Shape
<1>3. /\ Tail(wire) \in Seq(RequestType) /\ Len(Tail(wire)) = Len(wire) - 1
      /\ \A i \in 1..Len(wire) - 1 : Tail(wire)[i] = wire[i + 1]
  BY <1>2, HeadTailProperties
<1>4. 1 \in 1..Len(wire) /\ r.by \in Calls /\ Outstanding(r.by)
  BY <1>2 DEF RequestType, Outstanding
<1>5. /\ r = Request(r.by) /\ Plan(r.by) \in Plans
      /\ Phase(r.by) \in {"waiting", "ended"}
      /\ call[r.by].answer = NoAnswer
      /\ call[r.by].result.class \notin Final
  BY <1>1, <1>2, <1>4 DEF WireOK
<1>6. \A i \in 1..Len(wire) - 1 : wire[i + 1].by # r.by
  <2> SUFFICES ASSUME NEW i \in 1..Len(wire) - 1, wire[i + 1].by = wire[1].by
               PROVE  FALSE
    BY <1>2
  <2>1. i + 1 \in 1..Len(wire) /\ i + 1 # 1
    BY <1>2
  <2> QED
    BY <1>1, <1>4, <2>1 DEF WireOK
<1>7. r.kind = Plan(r.by).kind
  <2> DEFINE c == r.by
  <2>1. Request(c).kind = Plan(c).kind
    BY DEF Request
  <2> QED
    BY <1>5, <2>1
<1> QED
  BY <1>2, <1>3, <1>4, <1>5, <1>6, <1>7

\* What follows a prefix of a concatenation.
LEMMA AppendedPart ==
    ASSUME NEW X, NEW s \in Seq(X), NEW t \in Seq(X)
    PROVE  /\ s \o t \in Seq(X) /\ Len(s) \in Nat /\ Len(t) \in Nat
           /\ Len(s \o t) = Len(s) + Len(t)
           /\ \A i \in 1..Len(s) : (s \o t)[i] = s[i]
           /\ After(s \o t, Len(s)) = t
<1>1. Len(s) \in Nat /\ Len(t) \in Nat
  BY LenProperties
<1> DEFINE u == s \o t
           m == Len(s) + 1
           n == Len(s) + Len(t)
<1>2. /\ u \in Seq(X) /\ Len(u) = n
      /\ \A i \in 1..n : u[i] = IF i <= Len(s) THEN s[i] ELSE t[i - Len(s)]
  BY ConcatProperties
<1> HIDE DEF u
<1>3. /\ \A i \in m..n : u[i] \in X
  BY <1>1, <1>2, LenProperties
<1>4. /\ SubSeq(u, m, n) \in Seq(X)
      /\ Len(SubSeq(u, m, n)) = Len(t)
      /\ \A i \in 1..Len(t) : SubSeq(u, m, n)[i] = u[m + i - 1]
  <2>1. m \in Int /\ n \in Int /\ n - m + 1 = Len(t)
        /\ (IF m <= n THEN n - m + 1 ELSE 0) = Len(t)
    BY <1>1
  <2> HIDE DEF m, n
  <2> QED
    BY <1>3, <2>1, SubSeqProperties
<1>5. \A i \in 1..Len(t) : u[m + i - 1] = t[i]
  BY <1>1, <1>2
<1>6. SubSeq(u, m, n) = t
  BY <1>4, <1>5, SeqEqual
<1> QED
  BY <1>1, <1>2, <1>6 DEF u, After

\* What a service does to the call c that sent the request: n entries are
\* appended to the m it had, and the answer reaches it or is dropped.
ServedFor(c, answer, entries, m, n) ==
    /\ CallInv(c) /\ call[c].next \in Nat \ {0}
    /\ Outstanding(c) /\ ~Outstanding(c)'
    /\ call[c].answer = NoAnswer /\ call[c].result.class \notin Final
    /\ Phase(c) \in {"waiting", "ended"}
    /\ Len(served[c]) = m /\ Len(served'[c]) = m + n
    /\ \A i \in 1..m : served'[c][i] = served[c][i]
    /\ After(served'[c], m) = entries
    /\ call'[c].plan = call[c].plan /\ call'[c].next = call[c].next
    /\ call'[c].phase = call[c].phase /\ call'[c].result = call[c].result
    /\ \/ call'[c].answer = NoAnswer
       \/ Phase(c) = "waiting" /\ call'[c].answer = answer
    /\ answer.status \in {"refused", "done", "entries"}
    /\ answer.status = "done" => ~Asks(Plan(c).kind)
    /\ answer.status = "entries" =>
          Asks(Plan(c).kind) /\ answer.entries = entries /\ n > 0
    /\ Plan(c).kind = "gocb" => n \in {0, 1}
    /\ Plan(c).kind \in {"write", "set_values"} =>
          n \in {0, Len(Plan(c).values)}

\* What was served of a request accounts for its call.
LEMMA ServedCall ==
    ASSUME NEW c \in Calls, NEW answer, NEW entries, NEW m \in Nat, NEW n \in Nat,
           ServedFor(c, answer, entries, m, n)
    PROVE  CallInv(c)'
<1> USE DEF ServedFor
<1>1. /\ Plan(c)' = Plan(c) /\ Phase(c)' = Phase(c) /\ Before(c)' = Before(c)
      /\ Before(c) = IF Plan(c).kind = "gocb" THEN call[c].next - 1 ELSE 0
      /\ Before(c) \in Nat
  BY DEF Plan, Phase, Before
<1>2. /\ m = Before(c) /\ \A i \in 1..m : served[c][i].ok
      /\ Plan(c).kind = "gocb" => call[c].next <= Len(Plan(c).values)
      /\ Phase(c) = "waiting" => Plan(c) \in Plans
  BY DEF CallInv, Progress
<1>3. Sendable(c)'
  BY <1>1 DEF CallInv, Sendable
<1>4. Progress(c)'
  <2>1. Plan(c).kind = "gocb" =>
           call[c].next <= Len(Plan(c).values) /\ Len(served'[c]) <= call[c].next
    BY <1>1, <1>2
  <2>2. Plan(c).kind \in {"write", "set_values"} =>
           Len(served'[c]) \in {0, Len(Plan(c).values)}
    BY <1>1, <1>2
  <2>3. /\ m = Before(c) /\ Len(served'[c]) = m + n
        /\ \A i \in 1..m : served'[c][i].ok
    BY <1>2
  <2> QED
    BY <1>1, <1>2, <2>1, <2>2, <2>3 DEF Progress
<1>5. AnswerOK(c)'
  <2>1. CASE Phase(c) = "waiting" /\ call'[c].answer = answer
    <3>1. call'[c].answer = answer /\ Phase(c)' = "waiting"
      BY <1>1, <2>1
    <3>2. answer.status = "entries" =>
             /\ answer.entries = After(served'[c], Before(c))
             /\ Len(served'[c]) > Before(c)
      BY <1>1, <1>2
    <3> QED
      BY <1>1, <3>1, <3>2 DEF AnswerOK
  <2>2. CASE call'[c].answer = NoAnswer
    BY <2>2 DEF AnswerOK, NoAnswer
  <2> QED
    BY <2>1, <2>2
<1>6. Reported(c)'
  BY <1>1 DEF CallInv, Reported, Agrees, Final
<1> QED
  BY <1>3, <1>4, <1>5, <1>6 DEF CallInv

\* The server serves the request r: it appends entries to what it served
\* for the call. Every value that moves is one of the request's or one that
\* an attribute held, with what it was given as.
Service(r, answer, entries) ==
    /\ wire # <<>> /\ r = Head(wire) /\ entries \in Seq(EntryType)
    /\ AnswerTo(r, answer, entries)
    /\ held' \in [Objects -> MmsValues] /\ author' \in [Objects -> PyValues]
    /\ dataSet' \in Seq(Objects) /\ link' = link
    /\ answer.status \in {"refused", "done", "entries"}
    /\ answer.status = "done" => ~Asks(r.kind)
    /\ answer.status = "entries" => Asks(r.kind) /\ answer.entries = entries
    /\ answer.status = "entries" <=> entries # <<>>
    /\ r.kind \in Writes /\ entries # <<>> => Len(entries) = Len(r.values)
    /\ \A o \in Objects :
          \/ held'[o] = held[o] /\ author'[o] = author[o]
          \/ \E i \in 1..Len(r.values) :
                held'[o] = r.values[i] /\ author'[o] = r.given[i]
    /\ \A k \in 1..Len(entries) :
          \/ \E o \in Objects :
                entries[k].value = held[o] /\ entries[k].given = author[o]
          \/ \E i \in 1..Len(r.values) :
                entries[k].value = r.values[i] /\ entries[k].given = r.given[i]

\* Every action of the server is a service: it keeps the invariant of the
\* requests, whatever it does to the attributes.
LEMMA ServedStep ==
    ASSUME RequestsInv, NEW r, NEW c, c = r.by, NEW answer, NEW entries,
           Service(r, answer, entries)
    PROVE  RequestsInv'
<1> /\ wire # <<>> /\ r = Head(wire) /\ entries \in Seq(EntryType)
    /\ AnswerTo(r, answer, entries)
    /\ held' \in [Objects -> MmsValues] /\ author' \in [Objects -> PyValues]
    /\ dataSet' \in Seq(Objects) /\ link' = link
    /\ answer.status \in {"refused", "done", "entries"}
    /\ answer.status = "done" => ~Asks(r.kind)
    /\ answer.status = "entries" => Asks(r.kind) /\ answer.entries = entries
    /\ answer.status = "entries" <=> entries # <<>>
    /\ r.kind \in Writes /\ entries # <<>> => Len(entries) = Len(r.values)
  BY DEF Service
<1> DEFINE S == served[c]
           T == S \o entries
<1>1. Shape /\ WireOK /\ \A k \in Calls : CallInv(k)
  BY DEF RequestsInv
<1>2. /\ c \in Calls /\ r = Request(c) /\ Plan(c) \in Plans
      /\ r \in RequestType /\ r.kind = Plan(c).kind
      /\ Phase(c) \in {"waiting", "ended"} /\ Outstanding(c)
      /\ call[c].answer = NoAnswer /\ call[c].result.class \notin Final
  BY HeadFacts
<1>3. /\ wire' \in Seq(RequestType) /\ Len(wire) \in Nat /\ Len(wire') \in Nat
      /\ Len(wire') + 1 <= Len(wire)
      /\ \A i \in 1..Len(wire') : wire'[i] = wire[i + 1] /\ wire'[i].by # c
  BY HeadFacts, LenProperties DEF AnswerTo
<1> DEFINE answered == Phase(c) = "waiting" /\ link = "up"
<1>4. /\ call' = [k \in Calls |-> call'[k]]
      /\ \A k \in Calls \ {c} : call'[k] = call[k]
      /\ DOMAIN call'[c] = Fields
      /\ call'[c].plan = call[c].plan /\ call'[c].next = call[c].next
      /\ call'[c].phase = call[c].phase /\ call'[c].result = call[c].result
      /\ call'[c].answer = IF answered THEN answer ELSE call[c].answer
  BY <1>1, <1>2 DEF Shape, AnswerTo, Fields
<1>5. /\ S \in Seq(EntryType) /\ T \in Seq(EntryType)
      /\ Len(S) \in Nat /\ Len(entries) \in Nat
      /\ Len(T) = Len(S) + Len(entries)
      /\ \A i \in 1..Len(S) : T[i] = S[i]
      /\ After(T, Len(S)) = entries /\ served[c] = S
  <2>1. S \in Seq(EntryType)
    BY <1>1, <1>2 DEF Shape
  <2>2. PICK s \in Seq(EntryType) : s = S
    BY <2>1
  <2>3. /\ s \o entries \in Seq(EntryType) /\ Len(s) \in Nat
        /\ Len(entries) \in Nat /\ Len(s \o entries) = Len(s) + Len(entries)
        /\ \A i \in 1..Len(s) : (s \o entries)[i] = s[i]
        /\ After(s \o entries, Len(s)) = entries
    BY AppendedPart
  <2> QED
    BY <2>2, <2>3
<1> HIDE DEF T
<1>6. /\ served' \in [Calls -> Seq(EntryType)]
       /\ served'[c] = T /\ \A k \in Calls \ {c} : served'[k] = served[k]
  <2>1. served' = [served EXCEPT ![c] = T]
    BY DEF AnswerTo, T
  <2> QED
    BY <1>1, <1>2, <1>5, <2>1 DEF Shape
<1>7. entries = <<>> <=> Len(entries) = 0
  BY <1>5, EmptySeq
<1>8. Shape'
  BY <1>1, <1>3, <1>4, <1>6 DEF Shape
<1>9. ASSUME NEW k \in Calls, Outstanding(k)'
      PROVE  /\ k # c /\ Plan(k)' = Plan(k) /\ call'[k].next = call[k].next
             /\ Phase(k)' \in {"waiting", "ended"}
             /\ call'[k].answer = NoAnswer
             /\ call'[k].result.class \notin Final
  <2>1. PICK i \in 1..Len(wire') : wire'[i].by = k
    BY <1>9 DEF Outstanding
  <2>2. i + 1 \in 1..Len(wire) /\ wire[i + 1].by = k /\ k # c
    BY <1>3, <2>1
  <2>3. /\ Phase(k) \in {"waiting", "ended"} /\ call[k].answer = NoAnswer
        /\ call[k].result.class \notin Final
    BY <1>1, <2>2 DEF WireOK
  <2> QED
    BY <1>4, <2>2, <2>3 DEF Plan, Phase
<1>10. WireOK' /\ \A k \in Calls : Outstanding(k)' => Outstanding(k)
  BY <1>1, <1>3, <1>9, WireKept
<1>11. /\ Plan(c).kind = "gocb" => Len(entries) \in {0, 1}
       /\ Plan(c).kind \in {"write", "set_values"} =>
             Len(entries) \in {0, Len(Plan(c).values)}
  <2>1. call[c].result.class # "ValueError"
    BY <1>2 DEF Final
  <2>2. CallInv(c) /\ Plan(c) \in Plans
    BY <1>1, <1>2
  <2>3. Len(Request(c).values) =
           IF Plan(c).kind = "gocb" THEN 1 ELSE Len(Plan(c).values)
    BY <1>1, <1>2, <2>1, <2>2, RequestFacts
  <2> QED
    BY <1>2, <1>7, <2>3 DEF Writes
<1>12. CallInv(c)'
  <2>1. /\ CallInv(c) /\ call[c].next \in Nat \ {0} /\ ~Outstanding(c)'
        /\ answered \in BOOLEAN /\ (answered => Phase(c) = "waiting")
    BY <1>1, <1>2, <1>9 DEF Shape
  <2>2. /\ call'[c].answer = IF answered THEN answer ELSE NoAnswer
        /\ call'[c].plan = call[c].plan /\ call'[c].next = call[c].next
        /\ call'[c].phase = call[c].phase /\ call'[c].result = call[c].result
    BY <1>2, <1>4
  <2>3. /\ answer.status = "done" => ~Asks(Plan(c).kind)
        /\ answer.status = "entries" =>
              Asks(Plan(c).kind) /\ answer.entries = entries /\ Len(entries) > 0
    BY <1>2, <1>5, <1>7
  <2>4. PICK m \in Nat, n \in Nat : m = Len(S) /\ n = Len(entries)
    BY <1>5
  <2>5. /\ Len(served[c]) = m /\ Len(served'[c]) = m + n
        /\ \A i \in 1..m : served'[c][i] = served[c][i]
        /\ After(served'[c], m) = entries
    BY <1>5, <1>6, <2>4
  <2>6. /\ answer.status = "entries" =>
              Asks(Plan(c).kind) /\ answer.entries = entries /\ n > 0
        /\ Plan(c).kind = "gocb" => n \in {0, 1}
        /\ Plan(c).kind \in {"write", "set_values"} =>
              n \in {0, Len(Plan(c).values)}
    BY <1>11, <2>3, <2>4
  <2>7. \/ call'[c].answer = NoAnswer
        \/ Phase(c) = "waiting" /\ call'[c].answer = answer
    BY <2>2
  <2>8. /\ c \in Calls /\ Outstanding(c) /\ call[c].answer = NoAnswer
        /\ call[c].result.class \notin Final
        /\ Phase(c) \in {"waiting", "ended"}
    BY <1>2
  <2>9. answer.status \in {"refused", "done", "entries"}
    OBVIOUS
  <2>10. ServedFor(c, answer, entries, m, n)
    BY <2>1, <2>2, <2>3, <2>5, <2>6, <2>7, <2>8, <2>9 DEF ServedFor
  <2> QED
    BY <2>4, <2>8, <2>10, ServedCall
<1> QED
  BY <1>1, <1>4, <1>8, <1>10, <1>12, <1>6, OtherCall DEF RequestsInv

\* Each of the server's actions is such a service.
LEMMA ServeIsService ==
    ASSUME RequestsInv, Serve
    PROVE  \E r, answer, entries : Service(r, answer, entries)
<1>1. PICK r : wire # <<>> /\ r = Head(wire)
  BY DEF Serve
<1>2. /\ r \in RequestType /\ r.by \in Calls /\ Plan(r.by) \in Plans
      /\ r = Request(r.by) /\ call[r.by].result.class \notin Final
  BY <1>1, HeadFacts
<1>3. /\ held \in [Objects -> MmsValues] /\ author \in [Objects -> PyValues]
      /\ dataSet \in Seq(Objects)
  BY DEF RequestsInv, Shape
<1>4. /\ r.values \in Seq(MmsValues) /\ r.given \in Seq(PyValues)
      /\ r.targets \in Seq(Objects)
      /\ Len(r.values) \in Nat /\ Len(r.given) = Len(r.values)
  <2>1. /\ r.values \in Seq(MmsValues) /\ r.given \in Seq(PyValues)
        /\ r.targets \in Seq(Objects)
    BY <1>2 DEF RequestType
  <2>2. PICK c \in Calls : c = r.by
    BY <1>2
  <2>3. Shape /\ CallInv(c) /\ call[c].result.class # "ValueError"
    BY <1>2, <2>2 DEF RequestsInv, Final
  <2>4. Len(Request(c).values) = Len(Request(c).given)
    BY <1>2, <2>2, <2>3, RequestFacts
  <2> QED
    BY <1>2, <2>1, <2>2, <2>4, LenProperties
<1>5. PICK T \in Seq(Objects) : T = Touched(r)
  BY <1>3, <1>4 DEF Touched
<1>6. /\ Len(T) \in Nat /\ DOMAIN T = 1..Len(T) /\ (T # <<>> => Len(T) > 0)
      /\ \A i \in 1..Len(T) : T[i] \in Objects
  BY <1>5, LenProperties, EmptySeq
<1>7. <<>> \in Seq(EntryType) /\ Len(<<>>) = 0
  OBVIOUS
\* Services that serve no entry.
<1>8. ASSUME NEW status \in {"refused", "done"},
             status = "done" => ~Asks(r.kind),
             AnswerTo(r, [status |-> status, entries |-> <<>>], <<>>),
             held' = held, author' = author, link' = link,
             dataSet' \in Seq(Objects)
      PROVE  \E answer, entries : Service(r, answer, entries)
  <2> DEFINE answer == [status |-> status, entries |-> <<>>]
  <2>1. answer.status = status
    OBVIOUS
  <2>2. Service(r, answer, <<>>)
    BY <1>1, <1>3, <1>7, <1>8, <2>1 DEF Service
  <2> QED
    BY <2>2
<1>9. CASE ServeRefused(r)
  BY <1>3, <1>8, <1>9 DEF ServeRefused
<1>10. ASSUME NEW failing, ServeRead(r, failing)
       PROVE  \E answer, entries : Service(r, answer, entries)
  <2> DEFINE entries == [i \in DOMAIN T |->
                Entry(T[i], T[i] \notin failing, held[T[i]], author[T[i]])]
             answer == [status |-> "entries", entries |-> entries]
  <2>1. /\ r.kind \in ListReads \cup {"read"} /\ T # <<>>
        /\ AnswerTo(r, answer, entries)
        /\ UNCHANGED <<held, author, dataSet, link>>
    BY <1>5, <1>10 DEF ServeRead
  <2>2. Asks(r.kind) /\ r.kind \notin Writes
    BY <2>1 DEF Asks, ListReads, Writes
  <2>3. \A i \in 1..Len(T) :
           /\ entries[i] \in EntryType
           /\ entries[i].value = held[T[i]] /\ entries[i].given = author[T[i]]
    BY <1>3, <1>6 DEF Entry, EntryType
  <2>4. entries = [i \in 1..Len(T) |-> entries[i]]
    BY <1>6
  <2>5. answer.status = "entries" /\ answer.entries = entries
    OBVIOUS
  <2> HIDE DEF entries, answer
  <2>6. entries \in Seq(EntryType) /\ Len(entries) = Len(T)
    BY <1>6, <2>3, <2>4, SeqOf
  <2>7. entries # <<>>
    BY <1>6, <2>1, <2>6
  <2>8. \A k \in 1..Len(entries) : \E o \in Objects :
           entries[k].value = held[o] /\ entries[k].given = author[o]
    BY <1>6, <2>3, <2>6
  <2>9. Service(r, answer, entries)
    BY <1>1, <1>3, <2>1, <2>2, <2>5, <2>6, <2>7, <2>8 DEF Service
  <2> QED
    BY <2>9
<1>11. ASSUME NEW failing, ServeWrite(r, failing)
       PROVE  \E answer, entries : Service(r, answer, entries)
  <2> DEFINE good == {i \in DOMAIN T : T[i] \notin failing}
             last(o) == CHOOSE i \in good :
                           T[i] = o /\ \A j \in good : T[j] = o => j <= i
             entries == [i \in DOMAIN T |->
                Entry(T[i], i \in good, r.values[i], r.given[i])]
             answer == [status |-> "entries", entries |-> entries]
             written == {T[i] : i \in good}
  <2>1. /\ r.kind \in Writes /\ T # <<>> /\ Len(T) = Len(r.values)
        /\ held' = [o \in Objects |->
                      IF o \in written THEN r.values[last(o)] ELSE held[o]]
        /\ author' = [o \in Objects |->
                      IF o \in written THEN r.given[last(o)] ELSE author[o]]
        /\ AnswerTo(r, answer, entries)
        /\ UNCHANGED <<dataSet, link>>
    BY <1>5, <1>11 DEF ServeWrite
  <2>2. Asks(r.kind)
    BY <2>1 DEF Asks
  <2>3. \A i \in 1..Len(T) : r.values[i] \in MmsValues /\ r.given[i] \in PyValues
    BY <1>4, <2>1
  <2>4. \A i \in 1..Len(T) :
           /\ entries[i] \in EntryType
           /\ entries[i].value = r.values[i] /\ entries[i].given = r.given[i]
    BY <1>6, <2>3 DEF Entry, EntryType
  <2>5. entries = [i \in 1..Len(T) |-> entries[i]]
    BY <1>6
  <2>6. answer.status = "entries" /\ answer.entries = entries
    OBVIOUS
  <2>7. ASSUME NEW o \in written PROVE last(o) \in 1..Len(T)
    <3> DEFINE G == {i \in good : T[i] = o}
    <3>1. G # {} /\ G \subseteq 1..Len(T)
      BY <1>6
    <3> HIDE DEF G
    <3>2. PICK m \in G : \A k \in G : k <= m
      BY <1>6, <3>1, GreatestOf
    <3>3. m \in good /\ T[m] = o /\ \A j \in good : T[j] = o => j <= m
      BY <3>2 DEF G
    <3>4. last(o) \in good
      BY <3>3
    <3> QED
      BY <1>6, <3>4
  <2> HIDE DEF entries, answer, last, written
  <2>8. \A o \in Objects :
          \/ held'[o] = held[o] /\ author'[o] = author[o]
          \/ \E i \in 1..Len(r.values) :
                held'[o] = r.values[i] /\ author'[o] = r.given[i]
    BY <1>3, <2>1, <2>7
  <2>9. held' \in [Objects -> MmsValues] /\ author' \in [Objects -> PyValues]
    BY <1>3, <2>1, <2>3, <2>7
  <2>10. entries \in Seq(EntryType) /\ Len(entries) = Len(T)
    BY <1>6, <2>4, <2>5, SeqOf
  <2>11. entries # <<>>
    BY <1>6, <2>1, <2>10
  <2>12. \A k \in 1..Len(entries) : \E i \in 1..Len(r.values) :
            entries[k].value = r.values[i] /\ entries[k].given = r.given[i]
    BY <2>1, <2>4, <2>10
  <2>13. Service(r, answer, entries)
    BY <1>1, <1>3, <2>1, <2>2, <2>6, <2>8, <2>9, <2>10, <2>11, <2>12 DEF Service
  <2> QED
    BY <2>13
<1>12. CASE ServeDataSet(r)
  <2>1. /\ dataSet' \in Seq(Objects) /\ r.kind \in {"create", "delete"}
        /\ AnswerTo(r, [status |-> "done", entries |-> <<>>], <<>>)
        /\ UNCHANGED <<held, author, link>>
    <3>1. \/ r.kind = "create" /\ dataSet' = r.targets
          \/ r.kind = "delete" /\ dataSet' = <<>>
      BY <1>12 DEF ServeDataSet
    <3>2. dataSet' \in Seq(Objects)
      <4>1. <<>> \in Seq(Objects)
        OBVIOUS
      <4>2. CASE dataSet' = r.targets
        BY <1>4, <4>2
      <4>3. CASE dataSet' = <<>>
        BY <4>1, <4>3
      <4> QED
        BY <3>1, <4>2, <4>3
    <3>3. /\ AnswerTo(r, [status |-> "done", entries |-> <<>>], <<>>)
          /\ UNCHANGED <<held, author, link>>
      BY <1>12 DEF ServeDataSet
    <3> QED
      BY <3>1, <3>2, <3>3
  <2>2. ~Asks(r.kind)
    BY <2>1 DEF Asks, ListReads, Writes
  <2> QED
    BY <1>8, <2>1, <2>2
<1>13. CASE ServeQuery(r)
  <2>1. ~Asks(r.kind)
    BY <1>13 DEF ServeQuery, Asks, ListReads, Writes
  <2> QED
    BY <1>3, <1>8, <1>13, <2>1 DEF ServeQuery
<1>14. CASE ServeConclude(r)
  <2>1. ~Asks(r.kind)
    BY <1>14 DEF ServeConclude, Asks, ListReads, Writes
  <2> QED
    BY <1>3, <1>8, <1>14, <2>1 DEF ServeConclude
<1> QED
  BY <1>1, <1>9, <1>10, <1>11, <1>12, <1>13, <1>14 DEF Serve
----------------------------------------------------------------------------
(* The requests: what the client makes of an answer.                       *)

\* The first entry that failed is one, and those before it did not.
LEMMA FirstFailedFacts ==
    ASSUME NEW S \in Seq(EntryType), Failed(S) # {}
    PROVE  /\ FirstFailed(S) \in 1..Len(S) /\ ~S[FirstFailed(S)].ok
           /\ \A i \in 1 .. FirstFailed(S) - 1 : S[i].ok
<1>1. Len(S) \in Nat /\ DOMAIN S = 1..Len(S)
  BY LenProperties
<1>2. Failed(S) \subseteq Nat
  BY <1>1 DEF Failed
<1>3. PICK m \in Failed(S) : \A k \in Failed(S) : m <= k
  BY <1>2, LeastOf
<1>4. /\ FirstFailed(S) \in Failed(S)
      /\ \A k \in Failed(S) : FirstFailed(S) <= k
  BY <1>3 DEF FirstFailed
<1> DEFINE f == FirstFailed(S)
<1>5. f \in 1..Len(S) /\ ~S[f].ok
  BY <1>1, <1>4 DEF Failed
<1>6. \A i \in 1 .. f - 1 : i \in 1..Len(S) /\ ~(f <= i)
  BY <1>1, <1>5
<1>7. \A i \in 1 .. f - 1 : S[i].ok
  BY <1>1, <1>4, <1>6 DEF Failed
<1> QED
  BY <1>5, <1>7

\* The list that a read with marked failures returns.
LEMMA MarkedFacts ==
    ASSUME NEW S \in Seq(EntryType)
    PROVE  /\ Len(Marked(S)) = Len(S)
           /\ \A i \in 1..Len(S) :
                 Marked(S)[i] = IF S[i].ok THEN ToPy[S[i].value] ELSE Marker
<1>1. Len(S) \in Nat /\ DOMAIN S = 1..Len(S)
  BY LenProperties
<1>2. Marked(S) = [i \in 1..Len(S) |->
                      IF S[i].ok THEN ToPy[S[i].value] ELSE Marker]
  BY <1>1 DEF Marked
<1> DEFINE T == {Marked(S)[i] : i \in 1..Len(S)}
<1>3. /\ Marked(S) = [i \in 1..Len(S) |-> Marked(S)[i]]
      /\ \A i \in 1..Len(S) : Marked(S)[i] \in T
  BY <1>2
<1> HIDE DEF T
<1>4. Len(Marked(S)) = Len(S)
  BY <1>1, <1>3, SeqOf
<1> QED
  BY <1>2, <1>4

\* The last entry by itself.
LEMMA LastPart ==
    ASSUME NEW S \in Seq(EntryType), NEW n \in Nat \ {0}, Len(S) = n
    PROVE  /\ DOMAIN After(S, n - 1) = 1..1 /\ 1 \in DOMAIN After(S, n - 1)
           /\ After(S, n - 1)[1] = S[n]
<1> DEFINE part == SubSeq(S, n, n)
<1>1. After(S, n - 1) = part
  <2>1. n - 1 + 1 = n
    OBVIOUS
  <2> QED
    BY <2>1 DEF After
<1>2. S[n] \in EntryType
  BY LenProperties
<1>3. /\ n \in Int /\ n <= n /\ n - n + 1 = 1 /\ n + 1 - 1 = n
      /\ \A i \in n..n : S[i] \in EntryType
  BY <1>2
<1>4. /\ part \in Seq(EntryType)
      /\ Len(part) = IF n <= n THEN n - n + 1 ELSE 0
      /\ \A i \in 1 .. n - n + 1 : part[i] = S[n + i - 1]
  BY <1>3, SubSeqProperties
<1> HIDE DEF part
<1>5. part[1] = S[n] /\ DOMAIN part = 1..1
  BY <1>3, <1>4, LenProperties
<1> QED
  BY <1>1, <1>5

\* What the answer with its entries makes a call report. For any call but one
\* for a GOOSE control block they are all that was served for it.
LEMMA OutcomeAgrees ==
    ASSUME NEW c \in Calls, Shape, CallInv(c), NEW S, S = served[c],
           NEW entries, entries = call[c].answer.entries,
           call[c].answer.status = "entries", ~MoreToWrite(c, entries)
    PROVE  /\ Agrees(Outcome(c, entries), S, Plan(c))
           /\ Outcome(c, entries).class \in {"returned", "IedDataAccessError"}
<1> DEFINE plan == Plan(c)
           kind == plan.kind
           next == call[c].next
<1> SUFFICES ASSUME NEW R, R = Outcome(c, entries)
             PROVE  /\ Agrees(R, S, plan)
                    /\ R.class \in {"returned", "IedDataAccessError"}
  OBVIOUS
<1>1. S \in Seq(EntryType) /\ Len(S) \in Nat /\ DOMAIN S = 1..Len(S)
  BY LenProperties DEF Shape
<1>2. /\ Asks(kind) /\ entries = After(S, Before(c)) /\ Len(S) > Before(c)
      /\ \A i \in 1..Before(c) : S[i].ok
      /\ kind = "gocb" => next <= Len(plan.values) /\ Len(S) <= next
      /\ kind \in {"write", "set_values"} => Len(S) \in {0, Len(plan.values)}
      /\ next \in Nat \ {0}
  BY DEF CallInv, AnswerOK, Progress, Shape
<1>3. kind # "gocb" => entries = S
  <2> SUFFICES ASSUME kind # "gocb" PROVE entries = S
    OBVIOUS
  <2>1. Before(c) = 0
    BY DEF Before
  <2>2. entries = SubSeq(S, 1, Len(S))
    BY <1>2, <2>1 DEF After
  <2> QED
    BY <1>1, <2>2
<1>4. kind = "gocb" => /\ Len(S) = next /\ DOMAIN entries = 1..1
                       /\ entries[1] = S[next]
  <2> SUFFICES ASSUME kind = "gocb"
               PROVE  /\ Len(S) = next /\ DOMAIN entries = 1..1
                      /\ entries[1] = S[next]
    OBVIOUS
  <2>1. Before(c) = next - 1 /\ Before(c) + 1 = next
    BY <1>2 DEF Before
  <2>2. Len(S) = next
    BY <1>1, <1>2, <2>1
  <2> QED
    BY <1>1, <1>2, <2>1, <2>2, LastPart
<1>5. Len(S) > 0 /\ S # <<>>
  BY <1>1, <1>2, EmptySeq DEF Before
<1>6. Failed(entries) = {} => \A i \in 1..Len(S) : S[i].ok
  <2> SUFFICES ASSUME Failed(entries) = {} PROVE \A i \in 1..Len(S) : S[i].ok
    OBVIOUS
  <2>1. CASE kind = "gocb"
    <3>1. S[next].ok
      BY <1>4, <2>1 DEF Failed
    <3>2. \A i \in 1..next - 1 : S[i].ok
      BY <1>2, <2>1 DEF Before
    <3>3. \A i \in 1..Len(S) : i = next \/ i \in 1..next - 1
      BY <1>2, <1>4, <2>1
    <3> QED
      BY <3>1, <3>2, <3>3
  <2>2. CASE kind # "gocb"
    BY <1>1, <1>3, <2>2 DEF Failed
  <2> QED
    BY <2>1, <2>2
\* Lists that mark failures.
<1>7. CASE kind \in {"read_objects", "get_marked"}
  <2>1. R = Result("returned", 0, Marked(S))
    BY <1>3, <1>7 DEF Outcome
  <2>2. R.class = "returned" /\ R.index = 0 /\ R.values = Marked(S)
    BY <2>1 DEF Result
  <2>3. kind \notin Writes \cup {"read", "get_values"}
    BY <1>7 DEF Writes
  <2> QED
    BY <1>1, <2>2, <2>3, MarkedFacts DEF Agrees
\* An entry that failed.
<1>8. CASE kind \notin {"read_objects", "get_marked"} /\ Failed(entries) # {}
  <2>1. R = DataAccess(IF kind \in DataSetKinds THEN FirstFailed(entries) ELSE 0)
    BY <1>8 DEF Outcome
  <2>2. /\ R.class = "IedDataAccessError"
        /\ R.index = IF kind \in DataSetKinds THEN FirstFailed(entries) ELSE 0
    BY <2>1 DEF DataAccess, Result
  <2>3. kind \in DataSetKinds =>
           /\ R.index \in 1..Len(S) /\ ~S[R.index].ok
           /\ \A i \in 1 .. R.index - 1 : S[i].ok
    <3>1. kind \in DataSetKinds => entries = S
      BY <1>3 DEF DataSetKinds
    <3> QED
      BY <1>1, <1>8, <2>2, <3>1, FirstFailedFacts
  <2>4. R.index \in 0..Len(S)
    BY <1>1, <2>2, <2>3
  <2> QED
    BY <2>2, <2>3, <2>4 DEF Agrees
<1>9. CASE kind \notin {"read_objects", "get_marked"} /\ Failed(entries) = {}
  <2>1. \A i \in 1..Len(S) : S[i].ok
    BY <1>6, <1>9
  <2>2. CASE kind = "get_values"
    <3>1. R = Result("returned", 0, Marked(S))
      BY <1>3, <1>9, <2>2 DEF Outcome
    <3>2. R.class = "returned" /\ R.index = 0 /\ R.values = Marked(S)
      BY <3>1 DEF Result
    <3>3. kind \notin Writes \cup {"read"}
      BY <2>2 DEF Writes
    <3> QED
      BY <1>1, <2>1, <3>2, <3>3, MarkedFacts DEF Agrees
  <2>3. CASE kind \in Writes
    <3>1. kind \notin ListReads \cup {"read"}
      BY <2>3 DEF Writes, ListReads
    <3>2. R = Result("returned", 0, <<>>)
      BY <1>9, <3>1 DEF Outcome, ListReads
    <3>3. R.class = "returned" /\ R.index = 0
      BY <3>2 DEF Result
    <3>4. Len(S) = Len(plan.values)
      <4>1. CASE kind = "gocb"
        <5>1. ~(next < Len(plan.values))
          BY <1>9, <4>1 DEF MoreToWrite
        <5>2. plan \in Plans
          BY DEF CallInv, AnswerOK, Progress, NoAnswer, Shape, Phase, Plan
        <5>3. Len(plan.values) \in Nat
          BY <5>2, PlanFacts
        <5> QED
          BY <1>2, <1>4, <4>1, <5>1, <5>3
      <4>2. CASE kind # "gocb"
        BY <1>2, <1>5, <2>3, <4>2 DEF Writes
      <4> QED
        BY <4>1, <4>2
    <3> QED
      BY <1>1, <1>5, <2>1, <3>1, <3>3, <3>4 DEF Agrees
  <2>4. CASE kind = "read"
    <3> DEFINE one == ReadValue(plan.want, entries[1].value)
    <3>1. kind \notin Writes \cup ListReads \cup DataSetKinds
      BY <2>4 DEF Writes, ListReads, DataSetKinds
    <3>2. entries = S
      BY <1>3, <2>4
    <3>3. CASE one = Refused
      <4>1. R = DataAccess(0)
        BY <1>9, <2>4, <3>3 DEF Outcome
      <4>2. R.class = "IedDataAccessError" /\ R.index = 0
        BY <4>1 DEF DataAccess, Result
      <4> QED
        BY <1>1, <3>1, <4>2 DEF Agrees
    <3>4. CASE one # Refused
      <4>1. R = Result("returned", 0, <<one>>)
        BY <1>9, <2>4, <3>4 DEF Outcome
      <4>2. R.class = "returned" /\ R.index = 0 /\ R.values = <<one>>
        BY <4>1 DEF Result
      <4> QED
        BY <1>1, <1>5, <2>1, <3>1, <3>2, <3>4, <4>2 DEF Agrees
    <3> QED
      BY <3>3, <3>4
  <2> QED
    BY <1>2, <1>9, <2>2, <2>3, <2>4 DEF Asks, ListReads
<1> QED
  BY <1>7, <1>8, <1>9
\* A call that has its answer takes it up: it goes on to its next request or
\* reports what was served.
LEMMA ReceiveStep ==
    ASSUME RequestsInv, NEW c \in Calls, Receive(c)
    PROVE  RequestsInv'
<1> DEFINE answer == call[c].answer
           S == served[c]
           more == answer.status = "entries" /\ MoreToWrite(c, answer.entries)
           result == CASE answer.status = "refused" ->
                              Result("IedServiceError", 0, <<>>)
                       [] answer.status = "done" -> Result("returned", 0, <<>>)
                       [] OTHER -> Outcome(c, answer.entries)
<1>1. /\ Shape /\ WireOK /\ CallInv(c) /\ \A k \in Calls : CallInv(k)
      /\ Phase(c) = "waiting" /\ answer.status # "none"
      /\ UNCHANGED <<held, author, dataSet, wire, served>>
      /\ answer.status \in {"refused", "done", "entries"}
  BY DEF RequestsInv, Receive, CallInv, AnswerOK
<1>2. ~Outstanding(c)
  <2>1. answer # NoAnswer
    BY <1>1 DEF NoAnswer
  <2> QED
    BY <1>1, <2>1 DEF WireOK, Outstanding
<1>3. \A k \in Calls : Outstanding(k)' <=> Outstanding(k)
  BY <1>1 DEF Outstanding
<1>4. /\ S \in Seq(EntryType) /\ Len(S) \in Nat /\ Plan(c) \in Plans
      /\ Len(Plan(c).values) \in Nat
      /\ call[c].next \in Nat \ {0}
      /\ call[c].result = NoResult /\ NoResult.class = "none"
  <2>1. Plan(c) \in Plans /\ call[c].result = NoResult
    BY <1>1 DEF CallInv, Progress, Reported
  <2> QED
    BY <1>1, <2>1, LenProperties, PlanFacts DEF Shape, NoResult, Result
\* The other calls and their requests.
<1>5. ASSUME call' = [k \in Calls |-> call'[k]],
             \A k \in Calls \ {c} : call'[k] = call[k],
             DOMAIN call'[c] = Fields, call'[c].plan = call[c].plan,
             call'[c].phase \in {"issued", "ended"},
             call'[c].next \in Nat \ {0},
             link' \in {"down", "up", "lost", "closed"},
             CallInv(c)'
      PROVE  RequestsInv'
  <2>1. Shape'
    BY <1>1, <1>5 DEF Shape
  <2>2. WireOK'
    <3>1. wire \in Seq(RequestType) /\ Len(wire) \in Nat
      BY <1>1, LenProperties DEF Shape
    <3>2. /\ Len(wire') + 0 <= Len(wire)
          /\ \A i \in 1..Len(wire') : wire'[i] = wire[i + 0]
      BY <1>1, <3>1
    <3>3. ASSUME NEW k \in Calls, Outstanding(k)'
          PROVE  /\ Plan(k)' = Plan(k) /\ call'[k].next = call[k].next
                 /\ Phase(k)' \in {"waiting", "ended"}
                 /\ call'[k].answer = NoAnswer
                 /\ call'[k].result.class \notin Final
      <4>1. k # c /\ Outstanding(k) /\ call'[k] = call[k]
        BY <1>2, <1>3, <1>5, <3>3
      <4> QED
        BY <1>1, <4>1 DEF WireOK, Outstanding, Plan, Phase
    <3> QED
      BY <1>1, <3>1, <3>2, <3>3, WireKept
  <2> QED
    BY <1>1, <1>3, <1>5, <2>1, <2>2, OtherCall DEF RequestsInv
\* The next attribute of a GOOSE control block.
<1>6. CASE more
  <2>1. /\ call' = [call EXCEPT ![c].next = @ + 1, ![c].phase = "issued",
                                ![c].answer = NoAnswer]
        /\ link' = link
    BY <1>6 DEF Receive
  <2>2. /\ call' = [k \in Calls |-> call'[k]]
        /\ \A k \in Calls \ {c} : call'[k] = call[k]
        /\ DOMAIN call'[c] = Fields /\ call'[c].plan = call[c].plan
        /\ call'[c].next = call[c].next + 1 /\ call'[c].phase = "issued"
        /\ call'[c].answer = NoAnswer /\ call'[c].result = call[c].result
    BY <1>1, <2>1 DEF Shape, Fields
  <2>3. /\ Plan(c).kind = "gocb" /\ Failed(answer.entries) = {}
        /\ call[c].next < Len(Plan(c).values)
    BY <1>6 DEF MoreToWrite
  <2>4. /\ Before(c) = call[c].next - 1 /\ Before(c)' = call[c].next
        /\ Plan(c)' = Plan(c) /\ Phase(c)' = "issued"
    BY <1>4, <2>2, <2>3 DEF Before, Plan, Phase
  <2>5. /\ Len(S) <= call[c].next /\ Len(S) > Before(c)
        /\ answer.entries = After(S, Before(c))
        /\ \A i \in 1..Before(c) : S[i].ok
    BY <1>1, <1>6, <2>3 DEF CallInv, AnswerOK, Progress
  <2>6. Len(S) = call[c].next
    BY <1>4, <2>4, <2>5
  <2>7. S[call[c].next].ok
    <3>1. 1 \in DOMAIN answer.entries /\ answer.entries[1] = S[call[c].next]
      BY <1>4, <2>4, <2>5, <2>6, LastPart
    <3> QED
      BY <2>3, <3>1 DEF Failed
  <2>8. \A i \in 1..call[c].next : S[i].ok
    <3>1. \A i \in 1..call[c].next : i = call[c].next \/ i \in 1..Before(c)
      BY <1>4, <2>4
    <3> QED
      BY <2>5, <2>7, <3>1
  <2>9. Sendable(c)' /\ AnswerOK(c)'
    BY <1>1, <2>2, <2>4 DEF CallInv, Sendable, AnswerOK, NoAnswer
  <2>10. Progress(c)'
    BY <1>1, <1>2, <1>3, <1>4, <2>2, <2>3, <2>4, <2>6, <2>8 DEF Progress
  <2>11. Reported(c)'
    BY <1>1, <1>4, <2>2, <2>4 DEF CallInv, Reported
  <2>12. call'[c].next \in Nat \ {0} /\ CallInv(c)'
    BY <1>4, <2>2, <2>9, <2>10, <2>11 DEF CallInv
  <2> QED
    BY <1>1, <1>5, <2>1, <2>2, <2>12 DEF Shape
\* The end of the call.
<1>7. CASE ~more
  <2>1. /\ call' = [call EXCEPT ![c].phase = "ended", ![c].result = result,
                                ![c].answer = NoAnswer]
        /\ link' \in {"closed", link}
    BY <1>7 DEF Receive, Finish
  <2> HIDE DEF result
  <2>2. /\ call' = [k \in Calls |-> call'[k]]
        /\ \A k \in Calls \ {c} : call'[k] = call[k]
        /\ DOMAIN call'[c] = Fields /\ call'[c].plan = call[c].plan
        /\ call'[c].next = call[c].next /\ call'[c].phase = "ended"
        /\ call'[c].answer = NoAnswer /\ call'[c].result = result
    BY <1>1, <2>1 DEF Shape, Fields
  <2>3. /\ Plan(c)' = Plan(c) /\ Phase(c)' = "ended" /\ Before(c)' = Before(c)
    BY <2>2 DEF Plan, Phase, Before
  <2>4. /\ Agrees(result, S, Plan(c))
        /\ result.class \in {"IedServiceError", "returned", "IedDataAccessError"}
    <3>1. CASE answer.status = "refused"
      <4>1. result = Result("IedServiceError", 0, <<>>)
        BY <3>1 DEF result
      <4>2. result.class = "IedServiceError" /\ result.index = 0
        BY <4>1 DEF Result
      <4> QED
        BY <1>4, <4>2 DEF Agrees
    <3>2. CASE answer.status = "done"
      <4>1. result = Result("returned", 0, <<>>)
        BY <3>2 DEF result
      <4>2. result.class = "returned" /\ result.index = 0
        BY <4>1 DEF Result
      <4>3. ~Asks(Plan(c).kind)
        BY <1>1, <3>2 DEF CallInv, AnswerOK
      <4>4. Plan(c).kind \notin Writes \cup ListReads \cup {"read"}
        BY <4>3 DEF Asks
      <4> QED
        BY <1>4, <4>2, <4>4 DEF Agrees
    <3>3. CASE answer.status = "entries"
      <4>1. result = Outcome(c, answer.entries)
        BY <3>3 DEF result
      <4>2. ~MoreToWrite(c, answer.entries)
        BY <1>7, <3>3
      <4> QED
        BY <1>1, <3>3, <4>1, <4>2, OutcomeAgrees
    <3> QED
      BY <1>1, <3>1, <3>2, <3>3
  <2>5. Sendable(c)' /\ AnswerOK(c)'
    <3>1. call[c].result.class # "ValueError"
      BY <1>4
    <3> QED
      BY <1>1, <2>2, <2>3, <3>1 DEF CallInv, Sendable, AnswerOK, NoAnswer
  <2>6. Progress(c)'
    BY <1>1, <1>2, <1>3, <2>2, <2>3 DEF CallInv, Progress
  <2>7. Reported(c)'
    BY <1>1, <2>2, <2>3, <2>4 DEF Reported
  <2>8. CallInv(c)'
    BY <2>5, <2>6, <2>7 DEF CallInv
  <2>9. link' \in {"down", "up", "lost", "closed"}
    BY <1>1, <2>1 DEF Shape
  <2> QED
    BY <1>4, <1>5, <2>2, <2>8, <2>9
<1> QED
  BY <1>6, <1>7
----------------------------------------------------------------------------
(* The requests: every step keeps the invariant.                           *)

\* The requests begin with the invariant.
LEMMA RequestsInitial == RequestsInit => RequestsInv
<1> SUFFICES ASSUME RequestsInit PROVE RequestsInv
  OBVIOUS
<1>1. \A c \in Calls :
         /\ call[c] = [plan |-> NoPlan, phase |-> "unissued", next |-> 1,
                       answer |-> NoAnswer, result |-> NoResult]
         /\ served[c] = <<>>
  BY DEF RequestsInit
<1>2. /\ <<>> \in Seq(RequestType) /\ <<>> \in Seq(EntryType) /\ Len(<<>>) = 0
  OBVIOUS
<1>3. Shape
  <2>1. held \in [Objects -> MmsValues] /\ author \in [Objects -> PyValues]
    BY ConversionsAssumption, PlansAssumption DEF RequestsInit
  <2>2. \A c \in Calls :
          /\ DOMAIN call[c] = Fields
          /\ call[c].plan \in Plans \cup {NoPlan}
          /\ call[c].phase \in {"unissued", "issued", "waiting", "ended"}
          /\ call[c].next \in Nat \ {0}
    BY <1>1 DEF Fields
  <2> QED
    BY <1>2, <2>1, <2>2, PlansAssumption DEF Shape, RequestsInit
<1>4. WireOK
  BY <1>2 DEF WireOK, RequestsInit
<1>5. ASSUME NEW c \in Calls PROVE CallInv(c)
  <2>1. /\ Plan(c) = NoPlan /\ Phase(c) = "unissued" /\ call[c].next = 1
        /\ call[c].answer = NoAnswer /\ call[c].result = NoResult
        /\ served[c] = <<>> /\ Len(served[c]) = 0
    BY <1>1, <1>2 DEF Plan, Phase
  <2>2. /\ NoPlan.kind = "none" /\ NoPlan.values = <<>>
        /\ NoResult.class = "none" /\ NoResult.index = 0
    BY DEF NoPlan, NoResult, Result
  <2>3. Before(c) = 0
    BY <2>1, <2>2 DEF Before
  <2>4. Sendable(c) /\ AnswerOK(c)
    BY <2>1, <2>2 DEF Sendable, AnswerOK, NoAnswer
  <2>5. Progress(c)
    BY <2>1, <2>2, <2>3 DEF Progress
  <2>6. Reported(c)
    BY <2>1, <2>2 DEF Reported, Agrees
  <2> QED
    BY <2>4, <2>5, <2>6 DEF CallInv
<1> QED
  BY <1>3, <1>4, <1>5 DEF RequestsInv

\* The connection is all that changes.
LEMMA LinkStep ==
    ASSUME RequestsInv, link' \in {"down", "up", "lost", "closed"},
           UNCHANGED <<held, author, dataSet, call, wire, served>>
    PROVE  RequestsInv'
<1>1. Shape'
  BY DEF RequestsInv, Shape
<1>2. \A k \in Calls : Outstanding(k)' <=> Outstanding(k)
  BY DEF Outstanding
<1>3. WireOK'
  <2>1. \A i \in 1..Len(wire) : Request(wire[i].by)' = Request(wire[i].by)
    <3> SUFFICES ASSUME NEW i \in 1..Len(wire)
                 PROVE  Request(wire[i].by)' = Request(wire[i].by)
      OBVIOUS
    <3>1. PICK c : c = wire[i].by
      OBVIOUS
    <3>2. Plan(c)' = Plan(c) /\ call'[c].next = call[c].next
      BY DEF Plan
    <3>3. Request(c)' = Request(c)
      BY <3>2, RequestKept
    <3> QED
      BY <3>1, <3>3 DEF Request, Part, Plan
  <2> QED
    BY <2>1 DEF RequestsInv, WireOK, Plan, Phase
<1> QED
  BY <1>1, <1>2, <1>3, OtherCall DEF RequestsInv

\* Each step of the requests keeps it.
LEMMA RequestsStep == RequestsInv /\ RequestsNext => RequestsInv'
<1> SUFFICES ASSUME RequestsInv, RequestsNext PROVE RequestsInv'
  OBVIOUS
<1>1. link \in {"down", "up", "lost", "closed"}
  BY DEF RequestsInv, Shape
<1>2. ASSUME NEW c \in Calls, NEW plan \in Plans, Issue(c, plan)
      PROVE  RequestsInv'
  BY <1>2, IssueStep
<1>3. ASSUME NEW c \in Calls, Begin(c) PROVE RequestsInv'
  <2>1. CASE link = "up"
    <3>1. /\ Phase(c) = "issued" /\ wire' = Append(wire, Request(c))
          /\ call' = [call EXCEPT ![c].phase = "waiting"]
          /\ UNCHANGED <<held, author, dataSet, link, served>>
      BY <1>3, <2>1 DEF Begin
    <3> QED
      BY <3>1, SendStep
  <2>2. CASE link # "up"
    BY <1>1, <1>3, <2>2, FinishStep DEF Begin
  <2> QED
    BY <2>1, <2>2
<1>4. ASSUME NEW c \in Calls, Abort(c) PROVE RequestsInv'
  BY <1>4, FinishStep DEF Abort
<1>5. ASSUME NEW c \in Calls, Receive(c) PROVE RequestsInv'
  BY <1>5, ReceiveStep
<1>6. ASSUME NEW c \in Calls, Timeout(c) PROVE RequestsInv'
  BY <1>1, <1>6, FinishStep DEF Timeout
<1>7. ASSUME NEW c \in Calls, Cancel(c) PROVE RequestsInv'
  BY <1>1, <1>7, FinishStep DEF Cancel
<1>8. ASSUME NEW c \in Calls, FailWithLink(c) PROVE RequestsInv'
  BY <1>1, <1>8, FinishStep DEF FailWithLink
<1>9. CASE Serve
  <2>1. PICK r, answer, entries : Service(r, answer, entries)
    BY <1>9, ServeIsService
  <2>2. PICK c : c = r.by
    OBVIOUS
  <2> QED
    BY <2>1, <2>2, ServedStep
<1>10. CASE Lose
  BY <1>10, LoseStep
<1> QED
  BY <1>2, <1>3, <1>4, <1>5, <1>6, <1>7, <1>8, <1>9, <1>10 DEF RequestsNext
----------------------------------------------------------------------------
(* The conversions.                                                        *)

\* The nesting of values has some bound.
FinitelyNested == \E n \in Nat : \E depth : NestedWithin(depth, n)

\* What the three recursions over a value v make of its converted parts.
Made(recursion, v, parts) ==
    CASE recursion = "Generic" -> GenericOf(v, parts)
      [] recursion = "ToPy" -> ToPyOf(v, parts)
      [] OTHER -> PlainOf(v, parts)

\* Such a recursion defines a function: by the least depth to which it would
\* not, as the prover has no induction for it.
LEMMA RecursionDefines ==
    ASSUME FinitelyNested, NEW recursion, NEW V \in {PyValues, MmsValues}
    PROVE  \E f : f = [v \in V |->
                Made(recursion, v, [i \in DOMAIN v.items |-> f[v.items[i]]])]
<1> DEFINE Next1(g, v) ==
               Made(recursion, v, [i \in DOMAIN v.items |-> g[v.items[i]]])
<1>0. PICK n \in Nat : \E depth : NestedWithin(depth, n)
  BY DEF FinitelyNested
<1>1. PICK depth : NestedWithin(depth, n)
  BY <1>0
<1>2. ASSUME NEW v \in V
      PROVE  /\ depth[v] \in Nat /\ depth[v] <= n
             /\ \A i \in DOMAIN v.items : /\ v.items[i] \in V
                                          /\ depth[v.items[i]] \in Nat
                                          /\ depth[v.items[i]] < depth[v]
  <2>1. \A i \in DOMAIN v.items : v.items[i] \in V
    BY ClosedAssumption
  <2> QED
    BY <1>1, <2>1 DEF NestedWithin
<1> DEFINE Below(m) == {v \in V : depth[v] < m}
           Upto(g, m) == g = [v \in Below(m) |-> Next1(g, v)]
           Missing == {m \in Nat : ~ \E g : Upto(g, m)}
<1>3. 0 \notin Missing
  <2> DEFINE g == [v \in Below(0) |-> v]
  <2>1. Below(0) = {}
    BY <1>2
  <2>2. Upto(g, 0)
    BY <2>1
  <2> HIDE DEF Upto, g
  <2> QED
    BY <2>2
<1>4. ASSUME NEW m \in Nat, NEW g, Upto(g, m)
      PROVE  \E h : Upto(h, m + 1)
  <2> DEFINE h == [v \in Below(m + 1) |-> Next1(g, v)]
  <2>1. ASSUME NEW v \in Below(m + 1) PROVE Next1(h, v) = Next1(g, v)
    <3>1. ASSUME NEW i \in DOMAIN v.items PROVE h[v.items[i]] = g[v.items[i]]
      <4> DEFINE u == v.items[i]
      <4>1. u \in V /\ depth[u] \in Nat /\ depth[u] < depth[v] /\ depth[v] \in Nat
            /\ depth[v] < m + 1
        BY <1>2
      <4>2. u \in Below(m) /\ u \in Below(m + 1)
        BY <4>1
      <4> HIDE DEF u, Below, Next1
      <4>3. h[u] = Next1(g, u)
        BY <4>2
      <4>4. g[u] = Next1(g, u)
        BY <1>4, <4>2
      <4> QED
        BY <4>3, <4>4 DEF u
    <3> HIDE DEF h
    <3>2. [i \in DOMAIN v.items |-> h[v.items[i]]]
              = [i \in DOMAIN v.items |-> g[v.items[i]]]
      BY <3>1
    <3> QED
      BY <3>2
  <2> HIDE DEF Below, Next1
  <2>2. h = [v \in Below(m + 1) |-> Next1(h, v)]
    <3>1. PICK k : k = h
      OBVIOUS
    <3>2. \A v \in Below(m + 1) : Next1(k, v) = Next1(g, v)
      BY <2>1, <3>1
    <3>3. k = [v \in Below(m + 1) |-> Next1(g, v)]
      BY <3>1
    <3>4. k = [v \in Below(m + 1) |-> Next1(k, v)]
      BY <3>2, <3>3
    <3> QED
      BY <3>1, <3>4
  <2> QED
    BY <2>2
<1> HIDE DEF Upto
<1>5. \A m \in Nat : (\E g : Upto(g, m)) <=> m \notin Missing
  OBVIOUS
<1>6. Missing \subseteq Nat
  OBVIOUS
<1> HIDE DEF Missing
<1>7. Missing = {}
  <2> SUFFICES ASSUME Missing # {} PROVE FALSE
    OBVIOUS
  <2>1. PICK m \in Missing : \A k \in Missing : m <= k
    BY <1>6, LeastOf
  <2>2. m \in Nat /\ m # 0
    BY <1>3, <1>6, <2>1
  <2>3. m - 1 \in Nat /\ ~ (m <= m - 1) /\ (m - 1) + 1 = m
    BY <2>2
  <2>4. m - 1 \notin Missing
    BY <2>1, <2>3
  <2>5. PICK g : Upto(g, m - 1)
    BY <1>5, <2>3, <2>4
  <2>6. \E h : Upto(h, (m - 1) + 1)
    BY <1>4, <2>3, <2>5
  <2> QED
    BY <1>5, <2>1, <2>2, <2>3, <2>6
<1>8. PICK f : Upto(f, n + 1)
  BY <1>1, <1>5, <1>7
<1>9. Below(n + 1) = V
  BY <1>1, <1>2
<1> HIDE DEF Below
<1>10. f = [v \in V |-> Next1(f, v)]
  BY <1>8, <1>9 DEF Upto
<1> QED
  BY <1>10

\* The conversions and Plain satisfy their defining equations.
LEMMA Equations ==
    ASSUME FinitelyNested
    PROVE  /\ \A p \in PyValues :
                 Generic[p] = GenericOf(p, [i \in DOMAIN p.items |-> Generic[p.items[i]]])
           /\ \A p \in PyValues :
                 Plain[p] = PlainOf(p, [i \in DOMAIN p.items |-> Plain[p.items[i]]])
           /\ \A m \in MmsValues :
                 ToPy[m] = ToPyOf(m, [i \in DOMAIN m.items |-> ToPy[m.items[i]]])
<1> DEFINE IsGeneric(f) == f = [p \in PyValues |->
               GenericOf(p, [i \in DOMAIN p.items |-> f[p.items[i]]])]
           IsPlain(f) == f = [p \in PyValues |->
               PlainOf(p, [i \in DOMAIN p.items |-> f[p.items[i]]])]
           IsToPy(f) == f = [m \in MmsValues |->
               ToPyOf(m, [i \in DOMAIN m.items |-> f[m.items[i]]])]
<1>1. \A v, parts : /\ Made("Generic", v, parts) = GenericOf(v, parts)
                    /\ Made("Plain", v, parts) = PlainOf(v, parts)
                    /\ Made("ToPy", v, parts) = ToPyOf(v, parts)
  BY DEF Made
<1>2. \E f : IsGeneric(f)
  <2>1. PICK f : f = [v \in PyValues |->
            Made("Generic", v, [i \in DOMAIN v.items |-> f[v.items[i]]])]
    BY RecursionDefines
  <2> QED
    BY <1>1, <2>1
<1>3. \E f : IsPlain(f)
  <2>1. PICK f : f = [v \in PyValues |->
            Made("Plain", v, [i \in DOMAIN v.items |-> f[v.items[i]]])]
    BY RecursionDefines
  <2> QED
    BY <1>1, <2>1
<1>4. \E f : IsToPy(f)
  <2>1. PICK f : f = [v \in MmsValues |->
            Made("ToPy", v, [i \in DOMAIN v.items |-> f[v.items[i]]])]
    BY RecursionDefines
  <2> QED
    BY <1>1, <2>1
<1>5. /\ Generic = CHOOSE f : IsGeneric(f)
      /\ Plain = CHOOSE f : IsPlain(f)
      /\ ToPy = CHOOSE f : IsToPy(f)
  BY DEF Generic, Plain, ToPy
<1> HIDE DEF IsGeneric, IsPlain, IsToPy
<1>6. IsGeneric(Generic) /\ IsPlain(Plain) /\ IsToPy(ToPy)
  BY <1>2, <1>3, <1>4, <1>5
<1>7. Generic = [p \in PyValues |->
          GenericOf(p, [i \in DOMAIN p.items |-> Generic[p.items[i]]])]
  BY <1>6 DEF IsGeneric
<1>8. Plain = [p \in PyValues |->
          PlainOf(p, [i \in DOMAIN p.items |-> Plain[p.items[i]]])]
  BY <1>6 DEF IsPlain
<1>9. ToPy = [m \in MmsValues |->
          ToPyOf(m, [i \in DOMAIN m.items |-> ToPy[m.items[i]]])]
  BY <1>6 DEF IsToPy
<1> QED
  BY <1>7, <1>8, <1>9

\* There is one function without arguments, the empty sequence.
LEMMA NoParts ==
    ASSUME NEW f, f = [i \in {} |-> f[i]]
    PROVE  f = <<>>
<1>1. f \in Seq({})
  <2>1. f \in [1..0 -> {}] /\ 0 \in Nat
    BY Z3
  <2> QED
    BY <2>1, SeqDef
<1> QED
  BY <1>1, EmptySeq

LEMMA NoPartsDomain == DOMAIN <<>> = {}
OBVIOUS

\* The steps of an octet's bits.
LEMMA Powers == \A n \in 0..7 : 2^n \in Nat /\ 2^n > 0
<1>1. /\ 2^0 = 1 /\ 2^1 = 2 /\ 2^2 = 4 /\ 2^3 = 8
      /\ 2^4 = 16 /\ 2^5 = 32 /\ 2^6 = 64 /\ 2^7 = 128
  OBVIOUS
<1>2. ASSUME NEW n \in 0..7 PROVE 2^n \in Nat /\ 2^n > 0
  <2>1. n \in {0, 1, 2, 3, 4, 5, 6, 7}
    OBVIOUS
  <2>2. /\ n = 0 => 2^n = 2^0
        /\ n = 1 => 2^n = 2^1
        /\ n = 2 => 2^n = 2^2
        /\ n = 3 => 2^n = 2^3
        /\ n = 4 => 2^n = 2^4
        /\ n = 5 => 2^n = 2^5
        /\ n = 6 => 2^n = 2^6
        /\ n = 7 => 2^n = 2^7
    BY Zenon
  <2>3. 2^n \in {1, 2, 4, 8, 16, 32, 64, 128}
    BY <1>1, <2>1, <2>2
  <2> QED
    BY <2>3
<1> QED
  BY <1>2

\* Clearing the unused bits takes the rest away.
LEMMA Cleared ==
    ASSUME NEW octets \in Seq(0..255), NEW padding \in 0..7
    PROVE  ClearUnused(octets, padding) =
             [i \in DOMAIN octets |->
                IF i < Len(octets) THEN octets[i]
                ELSE octets[i] - (octets[i] % 2^padding)]
<1>1. PICK k \in Nat : k = 2^padding /\ k > 0
  BY Powers
<1>2. PICK n \in Nat : n = Len(octets) /\ DOMAIN octets = 1..n
  BY LenProperties
<1>3. CASE octets = <<>>
  <2> DEFINE f == [i \in DOMAIN octets |->
                IF i < Len(octets) THEN octets[i]
                ELSE octets[i] - (octets[i] % 2^padding)]
  <2>1. DOMAIN octets = {}
    BY <1>3
  <2>2. f = [i \in {} |-> f[i]]
    BY <2>1
  <2> HIDE DEF f
  <2>3. f = <<>>
    BY <2>2, NoParts
  <2> QED
    BY <1>3, <2>3 DEF ClearUnused, f
<1>4. CASE octets # <<>>
  <2>1. n \in 1..n
    BY <1>2, <1>4, EmptySeq
  <2>2. \A x \in Nat : (x \div k) * k = x - (x % k)
    BY <1>1
  <2>3. octets[n] \in Nat
    <3>1. octets[n] \in 0..255
      BY <1>2, <2>1, ElementOfSeq, Zenon
    <3>2. \A x \in 0..255 : x \in Nat
      OBVIOUS
    <3> QED
      BY <3>1, <3>2, Zenon
  <2>4. (octets[n] \div 2^padding) * 2^padding = octets[n] - (octets[n] % 2^padding)
    BY <1>1, <2>2, <2>3
  <2>5. ClearUnused(octets, padding) =
           [octets EXCEPT ![n] = octets[n] - (octets[n] % 2^padding)]
    BY <1>2, <1>4, <2>4 DEF ClearUnused
  <2>6. \A i \in 1..n : (i < n) <=> (i # n)
    OBVIOUS
  <2> QED
    BY <1>2, <2>1, <2>5, <2>6
<1> QED
  BY <1>3, <1>4

\* No MMS value is the mark of a refusal.
LEMMA NotRefused == Refused \notin MmsValues
<1>1. Refused.type = "refused"
  BY DEF Refused, Number, Value
<1>2. "refused" \notin MmsTypes
  BY DEF MmsTypes, Floats, Strings
<1> QED
  BY <1>1, <1>2, FormsAssumption DEF MmsForm

\* The Python types of the variants.
LEMMA PyTypes ==
    /\ PyType("Boolean") = "bool"
    /\ PyType("Integer") = "int" /\ PyType("Unsigned") = "int"
    /\ PyType("Float32") = "float" /\ PyType("Float64") = "float"
    /\ PyType("VisibleString") = "str" /\ PyType("MmsString") = "str"
    /\ PyType("Array") = "list" /\ PyType("Structure") = "list"
    /\ PyType("OctetString") = "bytes" /\ PyType("UtcTime") = "bytes"
    /\ PyType("BinaryTime") = "bytes" /\ PyType("BitString") = "bytes"
BY DEF PyType, Floats, Strings

\* A value without components is read back as what it is.
LEMMA PlainRead ==
    ASSUME FinitelyNested, NEW m \in MmsValues, m.items = <<>>
    PROVE  ToPy[m] = Value(PyType(m.type), "", m.num, m.octets, 0, <<>>)
<1> DEFINE parts == [i \in DOMAIN m.items |-> ToPy[m.items[i]]]
<1>1. parts = [i \in {} |-> parts[i]]
  BY NoPartsDomain
<1>2. ToPy[m] = ToPyOf(m, parts)
  BY Equations
<1> HIDE DEF parts
<1>3. parts = <<>>
  BY <1>1, NoParts
<1> QED
  BY <1>2, <1>3 DEF ToPyOf

\* So is a Python value that became one without components.
LEMMA AsRead ==
    ASSUME FinitelyNested, NEW type, NEW p, As(type, p) \in MmsValues
    PROVE  /\ type # "Float32" =>
                ToPy[As(type, p)] = Value(PyType(type), "", p.num, p.octets, 0, <<>>)
           /\ type = "Float32" =>
                ToPy[As(type, p)] = Value("float", "", Narrow(p.num), p.octets, 0, <<>>)
<1>1. PICK m \in MmsValues : m = As(type, p)
  OBVIOUS
<1>2. /\ m.type = type /\ m.items = <<>> /\ m.octets = p.octets
      /\ type = "Float32" => m.num = Narrow(p.num)
      /\ type # "Float32" => m.num = p.num
  BY <1>1 DEF As, Value
<1>3. ToPy[m] = Value(PyType(type), "", m.num, p.octets, 0, <<>>)
  BY <1>2, PlainRead
<1> QED
  BY <1>1, <1>2, <1>3, PyTypes

\* Narrowing takes what is odd about a number away.
LEMMA NarrowFacts == \A n \in Int : Narrow(n) = n - (n % 2)
BY DEF Narrow

\* What a Python value without components is made of.
LEMMA ScalarForm ==
    ASSUME NEW p \in PyValues, p.type \notin {"list", "tuple", "dict"}
    PROVE  /\ p = Value(p.type, "", p.num, p.octets, 0, <<>>)
           /\ p.tag = "" /\ p.items = <<>> /\ p.num \in Int
           /\ IF p.type \in {"bytes", "bytearray"} THEN p.num = 0
              ELSE p.octets = <<>>
<1>1. PyForm(p)
  BY FormsAssumption
<1>2. p.tag = "" /\ p.items = <<>> /\ p.padding = 0
  BY <1>1 DEF PyForm
<1>3. p = Value(p.type, p.tag, p.num, p.octets, p.padding, p.items)
  BY <1>1 DEF PyForm
<1>4. p = Value(p.type, "", p.num, p.octets, 0, <<>>)
  BY <1>2, <1>3
<1> QED
  BY <1>1, <1>2, <1>4 DEF PyForm

\* Python values without components, under a variant of their own type.
LEMMA ScalarKept ==
    ASSUME FinitelyNested, NEW p \in PyValues, NEW type,
           As(type, p) \in MmsValues,
           \/ type = "Boolean" /\ p.type = "bool"
           \/ type \in {"Integer", "Unsigned"} /\ p.type = "int"
           \/ type = "Float32" /\ p.type = "float"
           \/ type = "VisibleString" /\ p.type = "str"
           \/ type = "OctetString" /\ p.type \in {"bytes", "bytearray"}
    PROVE  ToPy[As(type, p)] = Plain[p]
<1> DEFINE items == [i \in DOMAIN p.items |-> Plain[p.items[i]]]
<1>1. Plain[p] = PlainOf(p, items)
  BY Equations
<1> HIDE DEF items
<1>2. p.type \notin {"list", "tuple", "dict"}
  OBVIOUS
<1>3. /\ p = Value(p.type, "", p.num, p.octets, 0, <<>>)
      /\ p.tag = "" /\ p.items = <<>> /\ p.num \in Int
      /\ IF p.type \in {"bytes", "bytearray"} THEN p.num = 0 ELSE p.octets = <<>>
  BY <1>2, ScalarForm
<1>4. CASE type = "Boolean" /\ p.type = "bool"
  <2>1. ToPy[As(type, p)] = Value("bool", "", p.num, p.octets, 0, <<>>)
    BY <1>4, AsRead, PyTypes
  <2>2. PlainOf(p, items) = p
    BY <1>3, <1>4 DEF PlainOf
  <2> QED
    BY <1>1, <1>3, <1>4, <2>1, <2>2
<1>5. CASE type \in {"Integer", "Unsigned"} /\ p.type = "int"
  <2>1. ToPy[As(type, p)] = Value("int", "", p.num, p.octets, 0, <<>>)
    BY <1>5, AsRead, PyTypes
  <2>2. PlainOf(p, items) = p
    BY <1>3, <1>5 DEF PlainOf
  <2> QED
    BY <1>1, <1>3, <1>5, <2>1, <2>2
<1>6. CASE type = "Float32" /\ p.type = "float"
  <2>1. ToPy[As(type, p)] = Value("float", "", Narrow(p.num), p.octets, 0, <<>>)
    BY <1>6, AsRead
  <2>2. PlainOf(p, items) = Number("float", p.num - (p.num % 2))
    BY <1>3, <1>6 DEF PlainOf
  <2> QED
    BY <1>1, <1>3, <1>6, <2>1, <2>2, NarrowFacts DEF Number
<1>7. CASE type = "VisibleString" /\ p.type = "str"
  <2>1. ToPy[As(type, p)] = Value("str", "", p.num, p.octets, 0, <<>>)
    BY <1>7, AsRead, PyTypes
  <2>2. PlainOf(p, items) = p
    BY <1>3, <1>7 DEF PlainOf
  <2> QED
    BY <1>1, <1>3, <1>7, <2>1, <2>2
<1>8. CASE type = "OctetString" /\ p.type \in {"bytes", "bytearray"}
  <2>1. ToPy[As(type, p)] = Value("bytes", "", p.num, p.octets, 0, <<>>)
    BY <1>8, AsRead, PyTypes
  <2>2. CASE p.type = "bytes"
    <3>1. PlainOf(p, items) = p
      BY <1>3, <2>2 DEF PlainOf
    <3> QED
      BY <1>1, <1>3, <2>1, <2>2, <3>1
  <2>3. CASE p.type = "bytearray"
    <3>1. PlainOf(p, items) = Octets("bytes", p.octets)
      BY <1>3, <2>3 DEF PlainOf
    <3> QED
      BY <1>1, <1>3, <2>1, <2>3, <3>1 DEF Octets
  <2> QED
    BY <1>8, <2>2, <2>3
<1> QED
  BY <1>4, <1>5, <1>6, <1>7, <1>8

\* A bit string given as a pair or as a dict.
LEMMA BitsKept ==
    ASSUME FinitelyNested, NEW p \in PyValues, p.tag \in {"bit_string", "bits"},
           Bits(p.octets, p.padding) \in MmsValues
    PROVE  ToPy[Bits(p.octets, p.padding)] = Plain[p]
<1> DEFINE items == [i \in DOMAIN p.items |-> Plain[p.items[i]]]
           cleared == [i \in DOMAIN p.octets |->
                IF i < Len(p.octets) THEN p.octets[i]
                ELSE p.octets[i] - (p.octets[i] % 2^p.padding)]
           m == Bits(p.octets, p.padding)
<1>1. Plain[p] = PlainOf(p, items)
  BY Equations
<1>2. p.type \in {"tuple", "dict"} /\ p.octets \in Seq(0..255)
  BY FormsAssumption DEF PyForm
<1>3. PlainOf(p, items) = Octets("bytes", cleared)
  BY <1>2 DEF PlainOf
<1>4. PaddingAccepted(p.octets, p.padding)
  BY NotRefused DEF Bits
<1>5. m = Value("BitString", "", 0, ClearUnused(p.octets, p.padding), p.padding, <<>>)
  BY <1>4 DEF Bits
<1>6. ClearUnused(p.octets, p.padding) = cleared
  BY <1>2, <1>4, Cleared DEF PaddingAccepted
<1> HIDE DEF cleared, items, m
<1>7. /\ m.type = "BitString" /\ m.num = 0 /\ m.items = <<>>
      /\ m.octets = cleared
  BY <1>5, <1>6 DEF Value
<1>8. PyType(m.type) = "bytes"
  BY <1>7, PyTypes
<1>9. ToPy[m] = Value("bytes", "", 0, cleared, 0, <<>>)
  BY <1>7, <1>8, PlainRead DEF m
<1> QED
  BY <1>1, <1>3, <1>9 DEF Octets, m

\* A list, or a dict that makes a structure, whose components are kept.
LEMMA WholeKept ==
    ASSUME FinitelyNested, NEW p \in PyValues,
           p.type = "list" \/ (p.type = "dict" /\ p.tag = "structure"),
           Generic[p] \in MmsValues,
           \A i \in DOMAIN p.items :
              Generic[p.items[i]] \in MmsValues =>
                  ToPy[Generic[p.items[i]]] = Plain[p.items[i]]
    PROVE  ToPy[Generic[p]] = Plain[p]
<1> DEFINE parts == [i \in DOMAIN p.items |-> Generic[p.items[i]]]
           items == [i \in DOMAIN p.items |-> Plain[p.items[i]]]
<1>1. Generic[p] = GenericOf(p, parts) /\ Plain[p] = PlainOf(p, items)
  BY Equations
<1>2. p.type = "list" => p.tag # "structure"
  BY FormsAssumption DEF PyForm
<1>3. /\ DOMAIN parts = DOMAIN p.items
      /\ \A i \in DOMAIN p.items : /\ parts[i] = Generic[p.items[i]]
                                    /\ items[i] = Plain[p.items[i]]
      /\ items = [i \in DOMAIN p.items |-> items[i]]
  OBVIOUS
<1> HIDE DEF parts, items
<1>4. PICK type \in {"Array", "Structure"} : Generic[p] = Whole(type, parts)
  BY <1>1, NotRefused DEF GenericOf
<1>5. PICK m \in MmsValues : m = Generic[p]
  OBVIOUS
<1>6. m.type = type /\ m.items = parts /\ m.num = 0 /\ m.octets = <<>>
  <2>1. m = Value(type, "", 0, <<>>, 0, parts)
    BY <1>4, <1>5 DEF Whole
  <2> QED
    BY <2>1 DEF Value
<1>7. \A i \in DOMAIN p.items : ToPy[parts[i]] = items[i]
  <2>1. \A i \in DOMAIN m.items : m.items[i] \in MmsValues
    BY ClosedAssumption
  <2> QED
    BY <1>3, <1>6, <2>1
<1>8. [i \in DOMAIN m.items |-> ToPy[m.items[i]]] = items
  <2>1. [i \in DOMAIN parts |-> ToPy[parts[i]]] = items
    BY <1>3, <1>7
  <2> QED
    BY <1>6, <2>1
<1>9. ToPy[m] = ToPyOf(m, items)
  <2>1. ToPy[m] = ToPyOf(m, [i \in DOMAIN m.items |-> ToPy[m.items[i]]])
    BY Equations
  <2> QED
    BY <1>8, <2>1
<1>10. ToPy[m] = Whole("list", items)
  BY <1>6, <1>9, PyTypes DEF ToPyOf, Whole
<1>11. PlainOf(p, items) = Whole("list", items)
  <2>1. p.type = "list" => p.tag = ""
    BY FormsAssumption DEF PyForm
  <2> QED
    BY <1>2, <2>1 DEF PlainOf
<1> QED
  BY <1>1, <1>5, <1>10, <1>11

\* The tags of dicts, and their variants.
LEMMA TagTypes ==
    ASSUME NEW tag \in DOMAIN TagType
    PROVE  \/ tag = "bool" /\ TagType[tag] = "Boolean"
           \/ tag = "int" /\ TagType[tag] = "Integer"
           \/ tag = "uint" /\ TagType[tag] = "Unsigned"
           \/ tag = "float32" /\ TagType[tag] = "Float32"
           \/ tag = "float64" /\ TagType[tag] = "Float64"
           \/ tag = "visible_string" /\ TagType[tag] = "VisibleString"
           \/ tag = "mms_string" /\ TagType[tag] = "MmsString"
           \/ tag = "octet_string" /\ TagType[tag] = "OctetString"
           \/ tag = "utc_time" /\ TagType[tag] = "UtcTime"
           \/ tag = "binary_time" /\ TagType[tag] = "BinaryTime"
BY DEF TagType

\* Any other tagged dict.
LEMMA TaggedKept ==
    ASSUME FinitelyNested, NEW p \in PyValues, p.type = "dict",
           p.tag # "structure", Generic[p] \in MmsValues
    PROVE  ToPy[Generic[p]] = Plain[p]
<1> DEFINE parts == [i \in DOMAIN p.items |-> Generic[p.items[i]]]
           items == [i \in DOMAIN p.items |-> Plain[p.items[i]]]
<1>1. Generic[p] = GenericOf(p, parts) /\ Plain[p] = PlainOf(p, items)
  BY Equations
<1> HIDE DEF parts, items
<1>2. Generic[p] = Tagged(p)
  BY <1>1 DEF GenericOf
<1>3. CASE p.tag = "bit_string"
  <2>1. Generic[p] = Bits(p.octets, p.padding)
    BY <1>2, <1>3 DEF Tagged
  <2> QED
    BY <1>3, <2>1, BitsKept
<1>4. CASE p.tag # "bit_string"
  <2>1. /\ p.tag \in DOMAIN TagType /\ Len(p.items) = 1
        /\ Extracts(TagType[p.tag], p.items[1])
        /\ Generic[p] = As(TagType[p.tag], p.items[1])
    BY <1>2, <1>4, NotRefused DEF Tagged
  <2>2. PICK q \in PyValues : q = p.items[1]
    <3>1. p.items \in Seq(PyValues)
      BY FormsAssumption DEF PyForm
    <3> QED
      BY <2>1, <3>1, ElementOfSeq
  <2>3. PICK type : type = TagType[p.tag]
    OBVIOUS
  <2>4. Generic[p] = As(type, q) /\ Extracts(type, q)
    BY <2>1, <2>2, <2>3
  <2>5. /\ q.num \in Int
        /\ q.type \in {"bytes", "bytearray"} => q.num = 0
    BY FormsAssumption DEF PyForm
  <2>6. /\ type # "Float32" =>
             ToPy[Generic[p]] = Value(PyType(type), "", q.num, q.octets, 0, <<>>)
        /\ type = "Float32" =>
             ToPy[Generic[p]] = Value("float", "", Narrow(q.num), q.octets, 0, <<>>)
    BY <2>4, AsRead
  <2>7. CASE p.tag = "float32" /\ type = "Float32"
    <3>1. PlainOf(p, items) = Value("float", "", q.num - (q.num % 2), q.octets, 0, <<>>)
      BY <2>2, <2>7 DEF PlainOf
    <3> QED
      BY <1>1, <2>5, <2>6, <2>7, <3>1, NarrowFacts
  <2>8. CASE p.tag = "float64" /\ type = "Float64"
    <3>1. PlainOf(p, items) = Value("float", "", q.num, q.octets, 0, <<>>)
      BY <2>2, <2>8 DEF PlainOf
    <3> QED
      BY <1>1, <2>6, <2>8, <3>1, PyTypes
  <2>9. CASE p.tag = "bool" /\ type = "Boolean"
    <3>1. PlainOf(p, items) = Value("bool", "", q.num, q.octets, 0, <<>>)
      BY <2>2, <2>9 DEF PlainOf
    <3> QED
      BY <1>1, <2>6, <2>9, <3>1, PyTypes
  <2>10. CASE p.tag \in {"int", "uint"} /\ type \in {"Integer", "Unsigned"}
    <3>1. PlainOf(p, items) = Value("int", "", q.num, q.octets, 0, <<>>)
      BY <2>2, <2>10 DEF PlainOf
    <3> QED
      BY <1>1, <2>6, <2>10, <3>1, PyTypes
  <2>11. CASE /\ p.tag \in {"visible_string", "mms_string"}
              /\ type \in {"VisibleString", "MmsString"}
    <3>1. PlainOf(p, items) = Value("str", "", q.num, q.octets, 0, <<>>)
      BY <2>2, <2>11 DEF PlainOf
    <3> QED
      BY <1>1, <2>6, <2>11, <3>1, PyTypes
  <2>12. CASE /\ p.tag \in {"octet_string", "utc_time", "binary_time"}
              /\ type \in {"OctetString", "UtcTime", "BinaryTime"}
    <3>1. PlainOf(p, items) = Value("bytes", "", 0, q.octets, 0, <<>>)
      BY <2>2, <2>12 DEF PlainOf
    <3>2. q.num = 0
      BY <2>4, <2>5, <2>12 DEF Extracts, Floats, Strings
    <3> QED
      BY <1>1, <2>6, <2>12, <3>1, <3>2, PyTypes
  <2> QED
    BY <2>1, <2>3, <2>7, <2>8, <2>9, <2>10, <2>11, <2>12, TagTypes
<1> QED
  BY <1>3, <1>4

\* A value whose components are kept is kept.
LEMMA KeptIfParts ==
    ASSUME FinitelyNested, NEW p \in PyValues, Generic[p] \in MmsValues,
           \A i \in DOMAIN p.items :
              Generic[p.items[i]] \in MmsValues =>
                  ToPy[Generic[p.items[i]]] = Plain[p.items[i]]
    PROVE  ToPy[Generic[p]] = Plain[p]
<1> DEFINE parts == [i \in DOMAIN p.items |-> Generic[p.items[i]]]
<1>1. Generic[p] = GenericOf(p, parts) /\ GenericOf(p, parts) # Refused
  BY Equations, NotRefused
<1> HIDE DEF parts
<1>2. \/ p.type = "list"
      \/ p.type = "dict" /\ p.tag = "structure"
      \/ p.type = "dict" /\ p.tag # "structure"
      \/ p.type = "bool" /\ Generic[p] = As("Boolean", p)
      \/ p.type = "float" /\ Generic[p] = As("Float32", p)
      \/ p.type = "int" /\ Generic[p] = As("Integer", p)
      \/ p.type = "str" /\ Generic[p] = As("VisibleString", p)
      \/ p.type \in {"bytes", "bytearray"} /\ Generic[p] = As("OctetString", p)
  BY <1>1 DEF GenericOf
<1>3. CASE p.type = "bool" /\ Generic[p] = As("Boolean", p)
  BY <1>3, ScalarKept
<1>4. CASE p.type = "float" /\ Generic[p] = As("Float32", p)
  BY <1>4, ScalarKept
<1>5. CASE p.type = "int" /\ Generic[p] = As("Integer", p)
  BY <1>5, ScalarKept
<1>6. CASE p.type = "str" /\ Generic[p] = As("VisibleString", p)
  BY <1>6, ScalarKept
<1>7. CASE p.type \in {"bytes", "bytearray"} /\ Generic[p] = As("OctetString", p)
  BY <1>7, ScalarKept
<1> QED
  BY <1>2, <1>3, <1>4, <1>5, <1>6, <1>7, WholeKept, TaggedKept

\* Every value that converts is read back as Plain has it, by the least
\* depth at which one would not be.
LEMMA GenericKept ==
    ASSUME FinitelyNested, NEW p \in PyValues, Generic[p] \in MmsValues
    PROVE  ToPy[Generic[p]] = Plain[p]
<1>0. PICK n \in Nat : \E depth : NestedWithin(depth, n)
  BY DEF FinitelyNested
<1>1. PICK depth : NestedWithin(depth, n)
  BY <1>0
<1> DEFINE Kept(v) == Generic[v] \in MmsValues => ToPy[Generic[v]] = Plain[v]
           Bad == {m \in Nat : \E v \in PyValues : depth[v] = m /\ ~Kept(v)}
<1>2. ASSUME NEW v \in PyValues
      PROVE  /\ depth[v] \in Nat
             /\ \A i \in DOMAIN v.items : /\ v.items[i] \in PyValues
                                          /\ depth[v.items[i]] \in Nat
                                          /\ depth[v.items[i]] < depth[v]
  <2>1. \A i \in DOMAIN v.items : v.items[i] \in PyValues
    BY ClosedAssumption
  <2> QED
    BY <1>1, <2>1 DEF NestedWithin
<1>3. \A v \in PyValues : (\A i \in DOMAIN v.items : Kept(v.items[i])) => Kept(v)
  BY KeptIfParts
<1> HIDE DEF Kept
<1>4. ASSUME NEW v \in PyValues, ~Kept(v) PROVE depth[v] \in Bad
  BY <1>2, <1>4
<1>5. Bad \subseteq Nat
      /\ \A m \in Bad : \E v \in PyValues : depth[v] = m /\ ~Kept(v)
  OBVIOUS
<1> HIDE DEF Bad
<1>6. Bad = {}
  <2> SUFFICES ASSUME Bad # {} PROVE FALSE
    OBVIOUS
  <2>1. PICK m \in Bad : \A k \in Bad : m <= k
    BY <1>5, LeastOf
  <2>2. PICK v \in PyValues : depth[v] = m /\ ~Kept(v)
    BY <1>5, <2>1
  <2>3. ASSUME NEW i \in DOMAIN v.items PROVE Kept(v.items[i])
    <3>1. /\ v.items[i] \in PyValues /\ depth[v.items[i]] \in Nat
          /\ depth[v.items[i]] < m /\ m \in Nat
      BY <1>2, <2>2
    <3>2. ~ (m <= depth[v.items[i]])
      BY <3>1
    <3> QED
      BY <1>4, <2>1, <3>1, <3>2
  <2> QED
    BY <1>3, <2>2, <2>3
<1>7. Kept(p)
  BY <1>4, <1>6
<1> QED
  BY <1>7 DEF Kept

\* What the application gives a call, to write it typed or untyped, is read
\* back as Plain has it, and of a bit string nothing but its octets: for all
\* values of a bounded nesting, of the type of the typed write.
THEOREM ConversionsKeep == FinitelyNested /\ OwnTypes => RoundTrip
<1> SUFFICES ASSUME FinitelyNested, OwnTypes PROVE RoundTrip
  OBVIOUS
<1>1. ASSUME NEW o \in Objects
      PROVE  ToPy[Generic[Initial[o]]] = Plain[Initial[o]]
  BY GenericKept, ConversionsAssumption, PlansAssumption
<1>2. ASSUME NEW plan \in Plans, NEW i \in DOMAIN plan.values,
             Converted(plan)[i] # Refused
      PROVE  ToPy[Converted(plan)[i]] = Plain[plan.values[i]]
  <2>1. PICK p \in PyValues : p = plan.values[i]
    <3>1. plan.values \in Seq(PyValues)
      BY PlansAssumption
    <3> QED
      BY <3>1, ElementOfSeq, LenProperties
  <2>2. PICK want :
           /\ want = IF plan.kind = "write" THEN plan.want ELSE "object"
           /\ Converted(plan)[i] = WriteAs(want, p)
    BY <2>1 DEF Converted
  <2>3. WriteAs(want, p) \in MmsValues
    BY <1>2, <2>2, ConversionsAssumption
  <2>4. /\ want \in {"int32", "uint32"} => p.type = "int"
        /\ want = "float" => p.type = "float"
    BY <2>1, <2>2 DEF OwnTypes
  <2>5. \/ want = "object" /\ WriteAs(want, p) = Generic[p]
        \/ want = "bit_string" /\ p.tag = "bits"
           /\ WriteAs(want, p) = Bits(p.octets, p.padding)
        \/ \E type : /\ WriteAs(want, p) = As(type, p)
                     /\ \/ type = "Boolean" /\ p.type = "bool"
                        \/ type \in {"Integer", "Unsigned"} /\ p.type = "int"
                        \/ type = "Float32" /\ p.type = "float"
                        \/ type = "VisibleString" /\ p.type = "str"
                        \/ type = "OctetString" /\ p.type \in {"bytes", "bytearray"}
    BY <2>3, <2>4, NotRefused DEF WriteAs
  <2>6. ToPy[WriteAs(want, p)] = Plain[p]
    BY <2>3, <2>5, GenericKept, BitsKept, ScalarKept
  <2> QED
    BY <2>1, <2>2, <2>6
<1>3. ASSUME NEW m \in MmsValues, m.type = "BitString"
      PROVE  ToPy[m] = Octets(ToPy[m].type, m.octets)
  <2>1. m.num = 0 /\ m.items = <<>>
    BY <1>3, FormsAssumption DEF MmsForm
  <2>2. ToPy[m] = Value("bytes", "", 0, m.octets, 0, <<>>)
    BY <1>3, <2>1, PlainRead, PyTypes
  <2>3. Value("bytes", "", 0, m.octets, 0, <<>>).type = "bytes"
    BY DEF Value
  <2> QED
    BY <2>2, <2>3 DEF Octets
<1> QED
  BY <1>1, <1>2, <1>3 DEF RoundTrip

----------------------------------------------------------------------------
(* The values of the server, given as what reads them back.                *)

\* The configured values convert.
LEMMA FaithfulInitial ==
    ASSUME RoundTrip, RequestsInit
    PROVE  Faithful
<1>1. \A o \in Objects :
         held[o] = Generic[Initial[o]] /\ author[o] = Initial[o]
  BY DEF RequestsInit
<1>2. \A c \in Calls : served[c] = <<>> /\ Len(served[c]) = 0
  BY DEF RequestsInit
<1> QED
  BY <1>1, <1>2 DEF Faithful, RoundTrip

\* A service moves values together with what they were given as.
LEMMA FaithfulService ==
    ASSUME RoundTrip, RequestsInv, Faithful, NEW r, NEW answer, NEW entries,
           Service(r, answer, entries)
    PROVE  Faithful'
<1>1. PICK c \in Calls : c = r.by
  BY HeadFacts DEF Service
<1>2. /\ Shape /\ CallInv(c) /\ Plan(c) \in Plans /\ r = Request(c)
      /\ call[c].result.class # "ValueError"
  BY <1>1, HeadFacts DEF RequestsInv, Service, Final
<1>3. \A i \in 1..Len(r.values) : ToPy[r.values[i]] = Plain[r.given[i]]
  <2> DEFINE p == Plan(c)
             n == IF p.kind = "gocb" THEN 1 ELSE Len(p.values)
  <2>1. /\ Len(Request(c).values) = n
        /\ \A i \in 1..n : \E k \in 1..Len(p.values) :
              /\ Request(c).values[i] = Converted(p)[k]
              /\ Request(c).given[i] = p.values[k]
              /\ Converted(p)[k] # Refused
    BY <1>2, RequestFacts
  <2>2. /\ Len(r.values) = n
        /\ \A i \in 1..n : \E k \in 1..Len(p.values) :
              /\ r.values[i] = Converted(p)[k]
              /\ r.given[i] = p.values[k]
              /\ Converted(p)[k] # Refused
    BY <1>2, <2>1
  <2>3. \A k \in 1..Len(p.values) :
           Converted(p)[k] # Refused => ToPy[Converted(p)[k]] = Plain[p.values[k]]
    BY <1>2, PlanFacts DEF RoundTrip
  <2> HIDE DEF n
  <2> QED
    BY <2>2, <2>3
<1>4. \A o \in Objects : ToPy[held'[o]] = Plain[author'[o]]
  BY <1>3 DEF Service, Faithful
<1>5. \A k \in 1..Len(entries) : ToPy[entries[k].value] = Plain[entries[k].given]
  BY <1>3 DEF Service, Faithful
<1>6. /\ served' = [served EXCEPT ![c] = @ \o entries]
      /\ entries \in Seq(EntryType) /\ served \in [Calls -> Seq(EntryType)]
  BY <1>1, <1>2 DEF Service, AnswerTo, Shape
<1>7. ASSUME NEW k \in Calls, NEW i \in 1..Len(served'[k])
      PROVE  ToPy[served'[k][i].value] = Plain[served'[k][i].given]
  <2>1. CASE k # c
    BY <1>6, <2>1 DEF Faithful
  <2>2. CASE k = c
    <3>1. PICK S \in Seq(EntryType) : S = served[c]
      BY <1>6
    <3>2. served'[k] = S \o entries
      BY <1>6, <2>2, <3>1
    <3>3. /\ Len(S) \in Nat /\ Len(entries) \in Nat
          /\ Len(S \o entries) = Len(S) + Len(entries)
          /\ \A m \in 1..Len(S) + Len(entries) :
                (S \o entries)[m] = IF m <= Len(S) THEN S[m]
                                    ELSE entries[m - Len(S)]
      BY <1>6, ConcatProperties, LenProperties
    <3>4. CASE i <= Len(S)
      <4>1. i \in 1..Len(S) /\ served'[k][i] = S[i]
        BY <3>2, <3>3, <3>4
      <4> QED
        BY <3>1, <4>1 DEF Faithful
    <3>5. CASE ~(i <= Len(S))
      <4>1. i - Len(S) \in 1..Len(entries) /\ served'[k][i] = entries[i - Len(S)]
        BY <3>2, <3>3, <3>5
      <4> QED
        BY <1>5, <4>1
    <3> QED
      BY <3>4, <3>5
  <2> QED
    BY <2>1, <2>2
<1> QED
  BY <1>4, <1>7 DEF Faithful

\* Only the server moves a value.
LEMMA FaithfulStep ==
    ASSUME RoundTrip, RequestsInv, Faithful, RequestsNext
    PROVE  Faithful'
<1>1. CASE Serve
  <2>1. PICK r, answer, entries : Service(r, answer, entries)
    BY <1>1, ServeIsService
  <2> QED
    BY <2>1, FaithfulService
<1>2. CASE UNCHANGED <<held, author, served>>
  BY <1>2 DEF Faithful
<1>3. ASSUME NEW c \in Calls, NEW plan \in Plans, Issue(c, plan)
      PROVE  UNCHANGED <<held, author, served>>
  BY <1>3 DEF Issue
<1>4. ASSUME NEW c \in Calls,
             \/ Begin(c) \/ Abort(c) \/ Receive(c) \/ Timeout(c)
             \/ Cancel(c) \/ FailWithLink(c)
      PROVE  UNCHANGED <<held, author, served>>
  BY <1>4 DEF Begin, Abort, Receive, Timeout, Cancel, FailWithLink
<1>5. Lose => UNCHANGED <<held, author, served>>
  BY DEF Lose
<1> QED
  BY <1>1, <1>2, <1>3, <1>4, <1>5 DEF RequestsNext

----------------------------------------------------------------------------
(* What the invariants imply.                                              *)

\* The types.
LEMMA TypeFollows == ConnectInv /\ RequestsInv => TypeOK
<1> SUFFICES ASSUME ConnectInv, RequestsInv PROVE TypeOK
  OBVIOUS
<1>1. ConnectTypeOK
  BY DEF ConnectInv
<1>2. /\ Shape /\ \A c \in Calls : CallInv(c)
  BY DEF RequestsInv
<1>3. \A i \in DOMAIN dataSet : dataSet[i] \in Objects
  BY <1>2, LenProperties DEF Shape
<1>4. ASSUME NEW c \in Calls
      PROVE  /\ Plan(c) \in Plans \cup {NoPlan}
             /\ Phase(c) \in {"unissued", "issued", "waiting", "ended"}
             /\ Phase(c) = "ended" <=> call[c].result # NoResult
             /\ call[c].result.index \in 0 .. Len(served[c])
  <2>1. /\ Plan(c) \in Plans \cup {NoPlan}
        /\ Phase(c) \in {"unissued", "issued", "waiting", "ended"}
    BY <1>2 DEF Shape, Plan, Phase
  <2>2. /\ Phase(c) = "ended" <=> call[c].result.class # "none"
        /\ Phase(c) # "ended" => call[c].result = NoResult
        /\ call[c].result.index \in 0 .. Len(served[c])
    BY <1>2 DEF CallInv, Reported, Agrees
  <2>3. NoResult.class = "none"
    BY DEF NoResult, Result
  <2> QED
    BY <2>1, <2>2, <2>3
<1> QED
  BY <1>1, <1>2, <1>3, <1>4 DEF TypeOK, RequestsTypeOK, Shape

\* What was served of a write is at most what it had to write.
LEMMA EffectsFollow == RequestsInv => EffectsAccounted
<1> SUFFICES ASSUME RequestsInv, NEW c \in Calls
             PROVE  /\ Plan(c).kind \in {"write", "gocb"} =>
                          Len(served[c]) <= Len(Plan(c).values)
                    /\ call[c].result.class = "ValueError" => served[c] = <<>>
                    /\ call[c].result.class = "returned" /\ Plan(c).kind \in Writes =>
                          Len(served[c]) = Len(Plan(c).values)
                    /\ Plan(c).kind = "gocb" =>
                          \A i \in DOMAIN served[c] :
                             ~served[c][i].ok => i = Len(served[c])
  BY DEF EffectsAccounted
<1> DEFINE S == served[c]
<1>1. Shape /\ CallInv(c)
  BY DEF RequestsInv
<1>2. /\ S \in Seq(EntryType) /\ Len(S) \in Nat /\ DOMAIN S = 1..Len(S)
      /\ call[c].next \in Nat \ {0}
      /\ Plan(c) \in Plans \/ Plan(c) = NoPlan
  BY <1>1, LenProperties DEF Shape, Plan
<1>3. Len(Plan(c).values) \in Nat
  <2>1. CASE Plan(c) \in Plans
    BY <2>1, PlanFacts
  <2>2. CASE Plan(c) = NoPlan
    BY <2>2 DEF NoPlan
  <2> QED
    BY <1>2, <2>1, <2>2
<1>4. /\ Plan(c).kind = "gocb" =>
            call[c].next <= Len(Plan(c).values) /\ Len(S) <= call[c].next
      /\ Plan(c).kind \in {"write", "set_values"} =>
            Len(S) \in {0, Len(Plan(c).values)}
      /\ \A i \in 1..Before(c) : S[i].ok
  BY <1>1 DEF CallInv, Progress
<1>5. /\ call[c].result.class = "ValueError" => S = <<>>
      /\ call[c].result.class = "returned" /\ Plan(c).kind \in Writes =>
            Len(S) = Len(Plan(c).values)
  BY <1>1 DEF CallInv, Reported, Agrees
<1>6. Plan(c).kind \in {"write", "gocb"} => Len(S) <= Len(Plan(c).values)
  BY <1>2, <1>3, <1>4
<1>7. ASSUME Plan(c).kind = "gocb", NEW i \in DOMAIN S, ~S[i].ok
      PROVE  i = Len(S)
  <2>1. i \notin 1..call[c].next - 1
    BY <1>4, <1>7 DEF Before
  <2> QED
    BY <1>2, <1>4, <1>7, <2>1
<1> QED
  BY <1>5, <1>6, <1>7

\* What a call reports is what was served, with its values converted.
LEMMA ReportsFollow == RequestsInv /\ Faithful => TheAnswerIsReported
<1> SUFFICES ASSUME RequestsInv, Faithful, NEW c \in Calls
             PROVE  LET result == call[c].result
                        S == served[c]
                    IN  /\ result.class = "returned" /\ Plan(c).kind \in ListReads =>
                              /\ Len(result.values) = Len(S)
                              /\ \A i \in DOMAIN S :
                                    IF S[i].ok THEN result.values[i] = Plain[S[i].given]
                                    ELSE /\ Plan(c).kind # "get_values"
                                         /\ result.values[i] = Marker
                        /\ result.class = "returned"
                              /\ Plan(c).kind \in Writes \cup {"read"} =>
                              S # <<>> /\ \A i \in DOMAIN S : S[i].ok
                        /\ /\ result.class = "IedDataAccessError"
                           /\ Plan(c).kind \in DataSetKinds
                           => /\ result.index \in DOMAIN S /\ ~S[result.index].ok
                              /\ \A i \in 1 .. result.index - 1 : S[i].ok
  BY DEF TheAnswerIsReported
<1>1. /\ served[c] \in Seq(EntryType) /\ Agrees(call[c].result, served[c], Plan(c))
  BY DEF RequestsInv, Shape, CallInv, Reported
<1>2. DOMAIN served[c] = 1..Len(served[c])
  BY <1>1, LenProperties
<1>3. \A i \in 1..Len(served[c]) :
         ToPy[served[c][i].value] = Plain[served[c][i].given]
  BY DEF Faithful
<1> QED
  BY <1>1, <1>2, <1>3 DEF Agrees

\* What a read makes of the value that it was served.
LEMMA ReadsFollow ==
    ASSUME RoundTrip, RequestsInv, Faithful
    PROVE  WrittenReadsBack
<1> SUFFICES ASSUME NEW c \in Calls, call[c].result.class = "returned",
                    Plan(c).kind = "read"
             PROVE  LET result == call[c].result
                        given == Plain[served[c][1].given]
                    IN  /\ result.values[1].num = given.num
                        /\ result.values[1].octets = given.octets
                        /\ result.values[1].items = given.items
                        /\ Plan(c).want # "bit_string" =>
                              result.values[1].type = given.type
  BY DEF WrittenReadsBack
<1> DEFINE m == served[c][1].value
           given == Plain[served[c][1].given]
           want == Plan(c).want
<1>1. /\ served[c] \in Seq(EntryType) /\ served[c] # <<>>
      /\ call[c].result.values = <<ReadValue(want, m)>>
      /\ ReadValue(want, m) # Refused
  BY DEF RequestsInv, Shape, CallInv, Reported, Agrees
<1>2. 1 \in 1..Len(served[c]) /\ served[c][1] \in EntryType
  BY <1>1, LenProperties, EmptySeq
<1>3. m \in MmsValues /\ ToPy[m] = given
  BY <1>2 DEF EntryType, Faithful
<1>4. call[c].result.values[1] = ReadValue(want, m)
  BY <1>1
<1>5. CASE want = "bit_string"
  <2>1. ReadBitString(m) # Refused /\ ReadValue(want, m) = ReadBitString(m)
    BY <1>1, <1>5 DEF ReadValue
  <2>2. m.type = "BitString"
    BY <2>1 DEF ReadBitString
  <2>3. given = Octets(ToPy[m].type, m.octets)
    BY <1>3, <2>2 DEF RoundTrip
  <2>4. ReadValue(want, m) = Value("tuple", "bits", 0, m.octets, m.padding, <<>>)
    BY <2>1, <2>2 DEF ReadBitString
  <2>5. given.num = 0 /\ given.octets = m.octets /\ given.items = <<>>
    <3>1. \A t, o : /\ Octets(t, o).num = 0 /\ Octets(t, o).octets = o
                    /\ Octets(t, o).items = <<>>
      BY DEF Octets, Value
    <3> QED
      BY <2>3, <3>1
  <2>6. /\ ReadValue(want, m).num = 0 /\ ReadValue(want, m).octets = m.octets
        /\ ReadValue(want, m).items = <<>>
    BY <2>4 DEF Value
  <2> HIDE DEF given, m
  <2> QED
    BY <1>4, <1>5, <2>5, <2>6 DEF given
<1>6. CASE want # "bit_string"
  <2>1. ReadValue(want, m) = ReadAs(want, m)
    BY <1>6 DEF ReadValue
  <2>2. ReadAs(want, m) \in {ToPy[m], Refused}
    BY DEF ReadAs
  <2>3. call[c].result.values[1] = given
    BY <1>1, <1>3, <1>4, <2>1, <2>2
  <2> QED
    BY <2>3
<1> QED
  BY <1>5, <1>6
----------------------------------------------------------------------------
(* The client: the attempt and the requests together.                      *)

IInv == ConnectInv /\ RequestsInv

\* Every step of the client keeps both invariants.
LEMMA StepInvariant == IInv /\ [Next]_clientVars => IInv'
<1> SUFFICES ASSUME IInv, [Next]_clientVars PROVE IInv'
  OBVIOUS
<1>1. ConnectInv /\ RequestsInv
  BY DEF IInv
<1>2. link \in {"down", "up", "lost", "closed"}
  BY <1>1 DEF RequestsInv, Shape
<1>3. ASSUME UNCHANGED connectVars PROVE ConnectInv'
  <2>1. ConnectTypeOK' /\ OnTime' /\ BackstopIsLast' /\ TimeoutIsTrue'
    BY <1>1, <1>3
       DEF ConnectInv, ConnectTypeOK, OnTime, BackstopIsLast, TimeoutIsTrue,
           RequestTimeout, Deadline, connectVars
  <2>2. error' = NoError \/ stage' = "failed"
    BY <1>1, <1>3 DEF ConnectInv, connectVars
  <2> QED
    BY <2>1, <2>2 DEF ConnectInv
<1>4. UNCHANGED requestVars => RequestsInv'
  BY <1>1, <1>2, LinkStep DEF requestVars
<1>5. CASE ConnectNext /\ UNCHANGED requestVars
  BY <1>1, <1>4, <1>5, ConnectStep DEF IInv
<1>6. CASE HandOut
  <2>1. RequestsInv'
    BY <1>1, <1>6, LinkStep DEF HandOut
  <2> QED
    BY <1>1, <1>6, <2>1, HandOutStep DEF IInv
<1>7. CASE RequestsNext /\ UNCHANGED connectVars
  BY <1>1, <1>3, <1>7, RequestsStep DEF IInv
<1>8. CASE UNCHANGED clientVars
  BY <1>3, <1>4, <1>8 DEF IInv, clientVars
<1> QED
  BY <1>5, <1>6, <1>7, <1>8 DEF Next
\* The invariant holds of every state the client reaches.
THEOREM Invariance == Spec => []IInv
<1>1. Init => IInv
  BY ConnectInitial, RequestsInitial DEF Init, IInv
<1> QED
  BY <1>1, StepInvariant, PTL DEF Spec

\* Every variable keeps to its type: in particular a call has a result just
\* when it has ended, and an index of a failed entry is within what was
\* served.
THEOREM TypeCorrect == Spec => []TypeOK
<1>1. IInv => TypeOK
  BY TypeFollows DEF IInv
<1> QED
  BY <1>1, Invariance, PTL

\* connect_backstop never ends an attempt that the client ends itself,
\* whatever timeouts the caller gives and however close they come to the
\* largest word.
THEOREM BackstopComesLast == Spec => []BackstopIsLast
<1>1. IInv => BackstopIsLast
  BY DEF IInv, ConnectInv
<1> QED
  BY <1>1, Invariance, PTL

\* The milliseconds an IedTimeoutError of the attempt carries have passed in
\* the exchange they stand for, whoever raised it.
THEOREM TimeoutsAreTrue == Spec => []TimeoutIsTrue
<1>1. IInv => TimeoutIsTrue
  BY DEF IInv, ConnectInv
<1> QED
  BY <1>1, Invariance, PTL

\* However its request times out, is cancelled or loses its connection, a
\* write takes effect at most once, and wholly when it returns.
THEOREM EffectsOnce == Spec => []EffectsAccounted
<1>1. IInv => EffectsAccounted
  BY EffectsFollow DEF IInv
<1> QED
  BY <1>1, Invariance, PTL

\* The values stay what they were given as, when the conversions keep them.
LEMMA Faithfulness ==
    ASSUME RoundTrip
    PROVE  Spec => [](IInv /\ Faithful)
<1>1. Init => IInv /\ Faithful
  BY ConnectInitial, RequestsInitial, FaithfulInitial DEF Init, IInv
<1>2. IInv /\ Faithful /\ [Next]_clientVars => (IInv /\ Faithful)'
  <2> SUFFICES ASSUME IInv, Faithful, [Next]_clientVars PROVE Faithful'
    BY StepInvariant
  <2>1. CASE RequestsNext
    BY <2>1, FaithfulStep DEF IInv
  <2>2. CASE UNCHANGED <<held, author, served>>
    BY <2>2 DEF Faithful
  <2>3. UNCHANGED requestVars => UNCHANGED <<held, author, served>>
    BY DEF requestVars
  <2>4. HandOut => UNCHANGED <<held, author, served>>
    BY DEF HandOut
  <2>5. UNCHANGED clientVars => UNCHANGED <<held, author, served>>
    BY DEF clientVars, requestVars
  <2> QED
    BY <2>1, <2>2, <2>3, <2>4, <2>5 DEF Next
<1> QED
  BY <1>1, <1>2, PTL DEF Spec

\* A call reports of each entry what became of it, and nothing of a later
\* answer or of another call's: the values it returns are those that were
\* given, whatever they are and however deep they are nested.
THEOREM AnswersAreReported ==
    ASSUME FinitelyNested, OwnTypes
    PROVE  Spec => []TheAnswerIsReported
<1>1. IInv /\ Faithful => TheAnswerIsReported
  BY ReportsFollow, ConversionsKeep DEF IInv
<1> QED
  BY <1>1, ConversionsKeep, Faithfulness, PTL

\* A read returns the value that some writer gave, under any variant it is
\* read as, whatever the value is and however deep it is nested, if a typed
\* write is given a value of its own type.
THEOREM ReadsAreWritten ==
    ASSUME FinitelyNested, OwnTypes
    PROVE  Spec => []WrittenReadsBack
<1>1. IInv /\ Faithful => WrittenReadsBack
  BY ReadsFollow, ConversionsKeep DEF IInv
<1> QED
  BY <1>1, ConversionsKeep, Faithfulness, PTL
=============================================================================
