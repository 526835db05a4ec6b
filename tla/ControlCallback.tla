-------------------------- MODULE ControlCallback --------------------------
(***************************************************************************)
(* The server's side of an Operate that its check let through: the wait    *)
(* and operate callables that on_control registered are called on the      *)
(* runtime's bounded blocking pool, a coroutine they return is awaited on  *)
(* the application's event loop, and the control object's time limit may   *)
(* drop the future that waits for either. What was handed to the pool or   *)
(* the loop goes on.                                                       *)
(*                                                                         *)
(* wait decides the Operate response, operate runs after a positive one.   *)
(* What operate comes to reaches the client in a CommandTermination, which *)
(* only the enhanced-security models have. The order of the stages, the    *)
(* messages, the time limit and the readiness for the next command are the *)
(* control object's of the Rust server (external).                         *)
(***************************************************************************)
EXTENDS Naturals, Sequences, FiniteSets

CONSTANTS
    Commands,    \* Operate requests of the clients, each made once
    Objects,     \* the control objects they are made to, all with an operate
    ObjectOf,    \* the object of each command
    Enhanced,    \* objects whose control model is an enhanced-security one
    Waiting,     \* objects registered with a wait
    TimeLimited, \* objects with an oper_timeout_ms other than 0
    PoolSize     \* threads of the blocking pool all objects share

ASSUME ObjectAssumption == /\ ObjectOf \in [Commands -> Objects]
                           /\ Enhanced \subseteq Objects
                           /\ Waiting \subseteq Objects
                           /\ TimeLimited \subseteq Objects
ASSUME PoolAssumption == PoolSize \in Nat \ {0}

Stages == {"wait", "operate"}
Jobs == Commands \X Stages

VARIABLES
    stage,       \* what a command is executing, "expired" by its time limit
    response,    \* the Operate response its client has received
    termination, \* the CommandTermination its client has received
    job,         \* what became of each call of a callable
    result,      \* what the callable, or its coroutine, came to
    pool         \* calls waiting for a thread, in order of arrival

vars == <<stage, response, termination, job, result, pool>>

Answers == {"none", "positive", "negative"}
Results == {"none", "accept", "refuse"}

TypeOK ==
    /\ stage \in [Commands -> {"new", "wait", "operate", "ended", "expired"}]
    /\ response \in [Commands -> Answers]
    /\ termination \in [Commands -> Answers]
    /\ job \in [Jobs -> {"none", "queued", "running", "coroutine", "finished"}]
    /\ result \in [Jobs -> Results]
    /\ pool \in Seq(Jobs)

Init ==
    /\ stage = [c \in Commands |-> "new"]
    /\ response = [c \in Commands |-> "none"]
    /\ termination = [c \in Commands |-> "none"]
    /\ job = [j \in Jobs |-> "none"]
    /\ result = [j \in Jobs |-> "none"]
    /\ pool = <<>>

Executing == {c \in Commands : stage[c] \in Stages}
OnThread == {j \in Jobs : job[j] = "running"}

\* How the command ended, as the client's own operate reports it: with the
\* response, under an enhanced model with the termination that follows.
Outcome(c) ==
    IF response[c] = "positive" /\ ObjectOf[c] \in Enhanced
    THEN termination[c]
    ELSE response[c]

\* run_control_callable hands the call to the blocking pool.
Spawn(c, s) ==
    /\ stage' = [stage EXCEPT ![c] = s]
    /\ job' = [job EXCEPT ![<<c, s>>] = "queued"]
    /\ pool' = Append(pool, <<c, s>>)

\* operate runs once the client has the positive response.
Execute(c) ==
    /\ response' = [response EXCEPT ![c] = "positive"]
    /\ Spawn(c, "operate")

\* A control object takes one command at a time.
Accept(c) ==
    /\ stage[c] = "new"
    /\ \A d \in Executing : ObjectOf[d] # ObjectOf[c]
    /\ \/ ObjectOf[c] \in Waiting /\ Spawn(c, "wait") /\ UNCHANGED response
       \/ ObjectOf[c] \notin Waiting /\ Execute(c)
    /\ UNCHANGED <<termination, result>>

\* A pool thread takes the GIL and calls the callable, whether or not the
\* command still waits for it.
RunNext ==
    /\ pool # <<>> /\ Cardinality(OnThread) < PoolSize
    /\ job' = [job EXCEPT ![Head(pool)] = "running"]
    /\ pool' = Tail(pool)
    /\ UNCHANGED <<stage, response, termination, result>>

\* The callable returns a value or raises: interpret_handler_outcome takes
\* anything but False for success, py_err_to_add_cause an exception for a
\* refusal.
Resolve(j, r) ==
    /\ job[j] \in {"running", "coroutine"}
    /\ job' = [job EXCEPT ![j] = "finished"]
    /\ result' = [result EXCEPT ![j] = r]
    /\ UNCHANGED <<stage, response, termination, pool>>

\* The callable returns an awaitable: its thread is free, the event loop
\* runs the coroutine.
ReturnCoroutine(j) ==
    /\ job[j] = "running"
    /\ job' = [job EXCEPT ![j] = "coroutine"]
    /\ UNCHANGED <<stage, response, termination, result, pool>>

\* Fault: a wait that accepts late starts operate after its time limit.
WaitAcceptedLate(c) ==
    /\ job[<<c, "operate">>] = "none"
    /\ result[<<c, "wait">>] = "accept"
    /\ \/ stage[c] = "wait" /\ Execute(c)
       \/ stage[c] = "expired" /\ Spawn(c, "operate") /\ UNCHANGED response
    /\ UNCHANGED <<termination, result>>

WaitAccepted(c) ==
    /\ stage[c] = "wait"
    /\ result[<<c, "wait">>] = "accept"
    /\ Execute(c)
    /\ UNCHANGED <<termination, result>>

WaitRefused(c) ==
    /\ stage[c] = "wait"
    /\ result[<<c, "wait">>] = "refuse"
    /\ stage' = [stage EXCEPT ![c] = "ended"]
    /\ response' = [response EXCEPT ![c] = "negative"]
    /\ UNCHANGED <<termination, job, result, pool>>

\* The end of operate is told under the enhanced-security models alone.
Terminate(c, s, answer) ==
    /\ stage' = [stage EXCEPT ![c] = s]
    /\ termination' = IF ObjectOf[c] \in Enhanced
                      THEN [termination EXCEPT ![c] = answer]
                      ELSE termination
    /\ UNCHANGED <<response, job, result, pool>>

\* Fault: the awaitable that operate returns is taken for its result.
OperateReturned(c) ==
    /\ stage[c] = "operate"
    /\ \/ job[<<c, "operate">>] = "coroutine"
       \/ result[<<c, "operate">>] = "accept"
    /\ Terminate(c, "ended", "positive")

OperateAccepted(c) ==
    /\ stage[c] = "operate"
    /\ result[<<c, "operate">>] = "accept"
    /\ Terminate(c, "ended", "positive")

\* Fault: an operate that raised or returned False counts as done.
OperateOver(c) ==
    /\ stage[c] = "operate"
    /\ result[<<c, "operate">>] = "refuse"
    /\ Terminate(c, "ended", "positive")

OperateRefused(c) ==
    /\ stage[c] = "operate"
    /\ result[<<c, "operate">>] = "refuse"
    /\ Terminate(c, "ended", "negative")

\* The limit that drops the future of a callable: of wait it refuses the
\* command, of operate it ends it.
Expire(c) ==
    \/ /\ stage[c] = "wait"
       /\ stage' = [stage EXCEPT ![c] = "expired"]
       /\ response' = [response EXCEPT ![c] = "negative"]
       /\ UNCHANGED <<termination, job, result, pool>>
    \/ /\ stage[c] = "operate"
       /\ Terminate(c, "expired", "negative")

\* Fault: the limit is only looked at while no thread is at work.
TimeLimitWhileQueued(c) ==
    /\ ObjectOf[c] \in TimeLimited
    /\ \A j \in OnThread : j[1] # c
    /\ Expire(c)

\* Fault: the command expires in a way the client has no answer for.
TimeLimitUnknown(c) ==
    /\ ObjectOf[c] \in TimeLimited /\ stage[c] = "wait"
    /\ stage' = [stage EXCEPT ![c] = "expired"]
    /\ response' = [response EXCEPT ![c] = "expired"]
    /\ UNCHANGED <<termination, job, result, pool>>

\* oper_timeout_ms runs out: with the future goes the handle of the pool's
\* task or of the coroutine; neither is taken back.
TimeLimit(c) ==
    /\ ObjectOf[c] \in TimeLimited
    /\ Expire(c)

Next ==
    \/ RunNext
    \/ \E c \in Commands :
        \/ Accept(c) \/ WaitAccepted(c) \/ WaitRefused(c)
        \/ OperateAccepted(c) \/ OperateRefused(c) \/ TimeLimit(c)
    \/ \E j \in Jobs :
        \/ ReturnCoroutine(j)
        \/ \E r \in {"accept", "refuse"} : Resolve(j, r)

\* The runtime polls and schedules, and a control object with a time limit
\* enforces it. A callable need not return.
Fairness ==
    /\ WF_vars(RunNext)
    /\ \A c \in Commands :
        /\ WF_vars(\/ WaitAccepted(c) \/ WaitRefused(c)
                   \/ OperateAccepted(c) \/ OperateRefused(c))
        /\ WF_vars(TimeLimit(c))

Spec == Init /\ [][Next]_vars
FairSpec == Spec /\ Fairness

----------------------------------------------------------------------------
\* The callables whose refusal the client of a command is told of.
Reported(c) ==
    (IF ObjectOf[c] \in Waiting THEN {"wait"} ELSE {})
        \cup (IF ObjectOf[c] \in Enhanced THEN {"operate"} ELSE {})

\* What the messages say is true, as far as the control model reports it: of
\* success when wait, and under an enhanced model operate too, accepted, not
\* when an awaitable was returned; of failure when one of them refused or the
\* time limit ended the command; and one of the two is said by the time the
\* object is ready for the next command. An operate that fails under a normal
\* model is the one failure that nobody is told of.
ReportedTruly ==
    \A c \in Commands :
        /\ Outcome(c) = "positive" =>
              \A s \in Reported(c) : result[<<c, s>>] = "accept"
        /\ Outcome(c) = "negative" =>
              \/ stage[c] = "expired"
              \/ \E s \in Reported(c) : result[<<c, s>>] = "refuse"
        /\ stage[c] \in {"ended", "expired"} => Outcome(c) # "none"

\* operate is called after a positive response only.
RefusedNeverOperates ==
    \A c \in Commands :
        job[<<c, "operate">>] # "none" => response[c] = "positive"

\* A client is told the truth of its command, and it stays true: a success is
\* one of the callables whose refusal its control model reports, and a command
\* refused in its response is not carried out later, not even by a wait that
\* accepts after the time limit has refused the command.
OutcomeIsTrue == ReportedTruly /\ RefusedNeverOperates

Unfinished(j) == job[j] \in {"queued", "running", "coroutine"}

\* Two calls of one object's callables, queued, on a thread or on the event
\* loop, are under way together only when they are of different commands and
\* a time limit abandoned the earlier one: on_control asks the callbacks to
\* tolerate this overlap, and there is no other for them to tolerate.
OverlapIsAbandoned ==
    \A j, k \in Jobs :
        j # k /\ ObjectOf[j[1]] = ObjectOf[k[1]] /\ Unfinished(j) /\ Unfinished(k)
            => j[1] # k[1] /\ "expired" \in {stage[j[1]], stage[k[1]]}

\* A command ends if its object has a time limit, even if no callable ever
\* returns and the pool is full of abandoned ones, its own object's or
\* another's; and without a limit it ends if callables return (Commands are
\* finitely many, so at last none is being called), though its own be queued
\* behind those that others abandoned.
EveryCommandEnds ==
    LET CallsEnd == []<>(\A j \in Jobs : job[j] \notin {"running", "coroutine"})
    IN  \A c \in Commands :
            (ObjectOf[c] \in TimeLimited \/ CallsEnd)
                => (stage[c] \in Stages ~> stage[c] \in {"ended", "expired"})
=============================================================================
