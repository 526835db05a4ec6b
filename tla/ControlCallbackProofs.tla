------------------------ MODULE ControlCallbackProofs ------------------------
(***************************************************************************)
(* Proofs about ControlCallback, for any number of commands and objects,   *)
(* any mix of control models, waits and time limits, and any size of the   *)
(* pool: the type of the state, that clients are told what their commands  *)
(* came to, that a refused command is not carried out, and that only the   *)
(* calls a time limit abandoned overlap. The argument is that a command    *)
(* which nothing abandoned is where its one unfinished call is.            *)
(***************************************************************************)
EXTENDS ControlCallback, SequenceTheorems, TLAPS

\* The pool's queue holds the queued calls, each once.
PoolOK ==
    /\ \A i \in 1..Len(pool) : job[pool[i]] = "queued"
    /\ \A i, k \in 1..Len(pool) : pool[i] = pool[k] => i = k

\* A result is there when the call is finished, and never before.
Resolved == \A j \in Jobs : (result[j] # "none") <=> (job[j] = "finished")

\* A stage that a command has yet to reach, or does not have, has not been
\* handed to the pool.
Unspawned ==
    \A c \in Commands :
        /\ stage[c] = "new" => job[<<c, "wait">>] = "none"
        /\ stage[c] \in {"new", "wait"} => job[<<c, "operate">>] = "none"
        /\ ObjectOf[c] \notin Waiting =>
              stage[c] # "wait" /\ job[<<c, "wait">>] = "none"

\* The messages a client has are those of the stages its command is past.
Told ==
    \A c \in Commands :
        /\ stage[c] \in {"new", "wait"} =>
              response[c] = "none" /\ termination[c] = "none"
        /\ stage[c] = "operate" =>
              response[c] = "positive" /\ termination[c] = "none"
        /\ job[<<c, "operate">>] # "none" =>
              /\ response[c] = "positive"
              /\ ObjectOf[c] \in Waiting => result[<<c, "wait">>] = "accept"

\* An object executes one command at a time.
Alone == \A c, d \in Executing : ObjectOf[c] = ObjectOf[d] => c = d

\* An unfinished call is of the stage its command is in, or abandoned.
UnderWay ==
    \A j \in Jobs : Unfinished(j) => stage[j[1]] \in {j[2], "expired"}

IInv == /\ TypeOK /\ PoolOK /\ Resolved /\ Unspawned /\ Told /\ Alone /\ UnderWay
        /\ ReportedTruly

\* A job is a command and a stage of it.
LEMMA JobsAreOfCommands ==
    /\ \A c \in Commands, s \in Stages : <<c, s>> \in Jobs
    /\ \A j \in Jobs : /\ j[1] \in Commands /\ j[2] \in Stages
                       /\ j = <<j[1], j[2]>>
BY DEF Jobs

\* It holds before any command.
LEMMA InitInvariant == Init => IInv
<1> SUFFICES ASSUME Init PROVE IInv
  OBVIOUS
<1>1. <<>> \in Seq(Jobs) /\ Len(<<>>) = 0
  BY EmptySeq
<1>2. TypeOK
  BY <1>1 DEF Init, TypeOK, Results, Answers
<1>3. PoolOK
  BY <1>1 DEF Init, PoolOK
<1>4. Resolved /\ Unspawned /\ Told
  BY JobsAreOfCommands DEF Init, Resolved, Unspawned, Told, Stages
<1>5. Alone /\ UnderWay
  BY DEF Init, Alone, UnderWay, Executing, Unfinished, Stages
<1>6. ReportedTruly
  BY DEF Init, ReportedTruly, Outcome
<1> QED
  BY <1>2, <1>3, <1>4, <1>5, <1>6 DEF IInv

----------------------------------------------------------------------------
\* What is common to the steps that hand a call to the pool.
LEMMA SpawnStep ==
    ASSUME IInv, NEW c \in Commands, NEW s \in Stages, Spawn(c, s),
           stage[c] \in {"new", "wait"}, job[<<c, s>>] = "none",
           \A d \in Executing : d # c => ObjectOf[d] # ObjectOf[c],
           s = "wait" => /\ stage[c] = "new" /\ ObjectOf[c] \in Waiting
                         /\ response' = response,
           s = "operate" =>
              /\ response' = [response EXCEPT ![c] = "positive"]
              /\ job[<<c, "wait">>] \in {"none", "finished"}
              /\ ObjectOf[c] \in Waiting => result[<<c, "wait">>] = "accept",
           UNCHANGED <<termination, result>>
    PROVE  IInv'
<1> DEFINE j == <<c, s>>
<1>1. /\ j \in Jobs /\ pool \in Seq(Jobs)
      /\ job \in [Jobs -> {"none", "queued", "running", "coroutine", "finished"}]
      /\ result \in [Jobs -> Results]
      /\ response \in [Commands -> Answers]
      /\ termination \in [Commands -> Answers]
      /\ stage \in [Commands -> {"new", "wait", "operate", "ended", "expired"}]
  BY JobsAreOfCommands DEF IInv, TypeOK
<1>2. /\ Len(pool) \in Nat
      /\ pool' \in Seq(Jobs) /\ Len(pool') = Len(pool) + 1
      /\ \A i \in 1..Len(pool) : pool[i] \in Jobs /\ pool'[i] = pool[i]
      /\ pool'[Len(pool) + 1] = j
  BY <1>1, AppendProperties, LenProperties DEF Spawn
<1>3. /\ stage' = [stage EXCEPT ![c] = s]
      /\ job' = [job EXCEPT ![j] = "queued"]
      /\ termination' = termination /\ result' = result
  BY DEF Spawn
<1>4. j = <<c, s>>
  OBVIOUS
<1> HIDE DEF j
<1>5. job'[j] = "queued" /\ \A k \in Jobs \ {j} : job'[k] = job[k]
  BY <1>1, <1>3
<1>6. /\ s = "wait" \/ s = "operate"
      /\ response' \in [Commands -> Answers]
      /\ response'[c] = IF s = "operate" THEN "positive" ELSE "none"
      /\ \A d \in Commands \ {c} : response'[d] = response[d]
      /\ stage'[c] = s /\ \A d \in Commands \ {c} : stage'[d] = stage[d]
      /\ response[c] = "none" /\ termination[c] = "none"
  BY <1>1, <1>3 DEF IInv, Told, Stages, Answers
<1>7. \A d \in Commands, t \in Stages :
          <<d, t>> \in Jobs /\ (d # c \/ t # s => <<d, t>> # j)
  BY <1>4, JobsAreOfCommands
<1>8. TypeOK'
  BY <1>1, <1>2, <1>3, <1>6 DEF TypeOK, Stages
<1>9. PoolOK'
  <2>1. \A i \in 1..Len(pool) : pool[i] # j
    BY <1>4 DEF IInv, PoolOK
  <2>2. ASSUME NEW i \in 1..Len(pool') PROVE job'[pool'[i]] = "queued"
    <3>1. CASE i = Len(pool) + 1
      BY <1>2, <1>5, <3>1
    <3>2. CASE i \in 1..Len(pool)
      BY <1>2, <1>5, <2>1, <3>2 DEF IInv, PoolOK
    <3> QED
      BY <1>2, <3>1, <3>2
  <2>3. ASSUME NEW i \in 1..Len(pool'), NEW k \in 1..Len(pool'),
               pool'[i] = pool'[k]
        PROVE  i = k
    BY <1>2, <2>1, <2>3 DEF IInv, PoolOK
  <2> QED
    BY <2>2, <2>3 DEF PoolOK
<1>10. Resolved'
  <2>1. result[j] = "none"
    BY <1>1, <1>4 DEF IInv, Resolved
  <2> QED
    BY <1>3, <1>5, <2>1 DEF IInv, Resolved
<1>11. Unspawned'
  <2>1. ASSUME NEW d \in Commands, d # c
        PROVE  /\ stage'[d] = stage[d] /\ job'[<<d, "wait">>] = job[<<d, "wait">>]
               /\ job'[<<d, "operate">>] = job[<<d, "operate">>]
    BY <1>5, <1>6, <1>7, <2>1 DEF Stages
  <2>2. /\ s = "wait" => job'[<<c, "operate">>] = job[<<c, "operate">>]
        /\ s = "operate" => job'[<<c, "wait">>] = job[<<c, "wait">>]
    BY <1>5, <1>7 DEF Stages
  <2>3. ASSUME NEW d \in Commands
        PROVE  /\ stage'[d] = "new" => job'[<<d, "wait">>] = "none"
               /\ stage'[d] \in {"new", "wait"} => job'[<<d, "operate">>] = "none"
               /\ ObjectOf[d] \notin Waiting =>
                     stage'[d] # "wait" /\ job'[<<d, "wait">>] = "none"
    <3>1. CASE d # c
      BY <2>1, <3>1 DEF IInv, Unspawned
    <3>2. CASE d = c /\ s = "wait"
      <4>1. job[<<c, "operate">>] = "none"
        BY DEF IInv, Unspawned
      <4> QED
        BY <1>6, <2>2, <3>2, <4>1
    <3>3. CASE d = c /\ s = "operate"
      <4>1. ObjectOf[c] \notin Waiting => job[<<c, "wait">>] = "none"
        BY DEF IInv, Unspawned
      <4> QED
        BY <1>6, <2>2, <3>3, <4>1
    <3> QED
      BY <1>6, <3>1, <3>2, <3>3
  <2> QED
    BY <2>3 DEF Unspawned
<1>12. Told'
  <2>1. ASSUME NEW d \in Commands, d # c
        PROVE  /\ stage'[d] = stage[d] /\ response'[d] = response[d]
               /\ job'[<<d, "operate">>] = job[<<d, "operate">>]
    BY <1>5, <1>6, <1>7, <2>1 DEF Stages
  <2>2. s = "wait" => job'[<<c, "operate">>] = "none"
    BY <1>5, <1>6, <1>7 DEF IInv, Unspawned, Stages
  <2>3. ASSUME NEW d \in Commands
        PROVE  /\ stage'[d] \in {"new", "wait"} =>
                     response'[d] = "none" /\ termination'[d] = "none"
               /\ stage'[d] = "operate" =>
                     response'[d] = "positive" /\ termination'[d] = "none"
               /\ job'[<<d, "operate">>] # "none" =>
                     /\ response'[d] = "positive"
                     /\ ObjectOf[d] \in Waiting => result'[<<d, "wait">>] = "accept"
    <3>1. CASE d = c
      BY <1>3, <1>6, <2>2, <3>1
    <3>2. CASE d # c
      BY <1>3, <2>1, <3>2 DEF IInv, Told
    <3> QED
      BY <3>1, <3>2
  <2> QED
    BY <2>3 DEF Told
<1>13. Alone'
  BY <1>1, <1>6 DEF IInv, Alone, Executing
<1>14. UnderWay'
  <2>1. ASSUME NEW k \in Jobs, Unfinished(k)' PROVE stage'[k[1]] \in {k[2], "expired"}
    <3>1. CASE k = j
      BY <1>4, <1>6, <3>1
    <3>2. CASE k # j
      <4>1. /\ Unfinished(k) /\ k[1] \in Commands /\ k[2] \in Stages
            /\ k = <<k[1], k[2]>>
        BY <1>5, <2>1, <3>2, JobsAreOfCommands DEF Unfinished
      <4>2. stage[k[1]] \in {k[2], "expired"}
        BY <4>1 DEF IInv, UnderWay
      <4>3. k[1] # c
        <5>1. SUFFICES ASSUME k[1] = c PROVE FALSE
          OBVIOUS
        <5>2. k[2] = "wait" /\ stage[c] = "wait"
          BY <4>1, <4>2, <5>1 DEF Stages
        <5>3. s = "operate"
          BY <1>6, <5>2
        <5> QED
          BY <4>1, <5>1, <5>2, <5>3 DEF Unfinished
      <4> QED
        BY <1>6, <4>1, <4>2, <4>3
    <3> QED
      BY <3>1, <3>2
  <2> QED
    BY <2>1 DEF UnderWay
<1>15. ReportedTruly'
  <2>1. ASSUME NEW d \in Commands, d # c
        PROVE  Outcome(d)' = Outcome(d) /\ stage'[d] = stage[d]
    BY <1>3, <1>6, <2>1 DEF Outcome
  <2>2. stage'[c] \notin {"ended", "expired"} /\ Outcome(c)' # "negative"
    BY <1>3, <1>6 DEF Outcome
  <2>3. ASSUME Outcome(c)' = "positive", NEW t \in Reported(c)
        PROVE  result'[<<c, t>>] = "accept"
    <3>1. s = "operate" /\ ObjectOf[c] \notin Enhanced
      BY <1>3, <1>6, <2>3 DEF Outcome
    <3> QED
      BY <1>3, <2>3, <3>1 DEF Reported
  <2> QED
    BY <1>3, <2>1, <2>2, <2>3 DEF IInv, ReportedTruly, Reported
<1> QED
  BY <1>8, <1>9, <1>10, <1>11, <1>12, <1>13, <1>14, <1>15 DEF IInv

\* What is common to the steps that end a command.
LEMMA EndStep ==
    ASSUME IInv, NEW c \in Commands, NEW e \in {"ended", "expired"},
           NEW a \in {"positive", "negative"},
           stage[c] \in Stages, stage' = [stage EXCEPT ![c] = e],
           \/ /\ stage[c] = "wait" /\ a = "negative"
              /\ response' = [response EXCEPT ![c] = a]
              /\ termination' = termination
           \/ /\ stage[c] = "operate" /\ response' = response
              /\ termination' = IF ObjectOf[c] \in Enhanced
                                THEN [termination EXCEPT ![c] = a]
                                ELSE termination,
           IF e = "expired" THEN a = "negative"
           ELSE result[<<c, stage[c]>>] =
                   IF a = "positive" THEN "accept" ELSE "refuse",
           UNCHANGED <<job, result, pool>>
    PROVE  IInv'
<1>1. /\ response \in [Commands -> Answers]
      /\ termination \in [Commands -> Answers]
      /\ stage \in [Commands -> {"new", "wait", "operate", "ended", "expired"}]
  BY DEF IInv, TypeOK
<1>2. /\ stage'[c] = e
      /\ \A d \in Commands \ {c} : /\ stage'[d] = stage[d]
                                   /\ response'[d] = response[d]
                                   /\ termination'[d] = termination[d]
  BY <1>1
<1>3. /\ \A s \in Stages : <<c, s>> \in Jobs
      /\ job[<<c, "operate">>] # "none" => stage[c] = "operate"
      /\ stage[c] = "wait" => ObjectOf[c] \in Waiting
  BY JobsAreOfCommands DEF IInv, Unspawned, Stages
<1>4. e = "ended" => job[<<c, stage[c]>>] = "finished"
  BY <1>3 DEF IInv, Resolved
<1>5. TypeOK'
  BY <1>1 DEF IInv, TypeOK, Answers
<1>6. PoolOK' /\ Resolved'
  BY DEF IInv, PoolOK, Resolved
<1>7. Unspawned'
  BY <1>2 DEF IInv, Unspawned
<1>8. Told'
  <2>1. stage[c] = "operate" => response'[c] = response[c]
    OBVIOUS
  <2> QED
    BY <1>2, <1>3, <2>1 DEF IInv, Told
<1>9. Alone'
  BY <1>2 DEF IInv, Alone, Executing, Stages
<1>10. UnderWay'
  <2>1. ASSUME NEW j \in Jobs, Unfinished(j) PROVE stage'[j[1]] \in {j[2], "expired"}
    <3>1. j[1] \in Commands /\ j[2] \in Stages /\ j = <<j[1], j[2]>>
      BY JobsAreOfCommands
    <3>2. stage[j[1]] \in {j[2], "expired"}
      BY <2>1 DEF IInv, UnderWay
    <3>3. CASE j[1] # c
      BY <1>2, <3>1, <3>2, <3>3
    <3>4. CASE j[1] = c
      <4>1. stage[c] = j[2]
        BY <3>2, <3>4 DEF Stages
      <4>2. e # "ended"
        BY <1>4, <2>1, <3>1, <3>4, <4>1 DEF Unfinished
      <4> QED
        BY <1>2, <3>4, <4>2
    <3> QED
      BY <3>3, <3>4
  <2>2. \A j \in Jobs : Unfinished(j)' = Unfinished(j)
    BY DEF Unfinished
  <2> QED
    BY <2>1, <2>2 DEF UnderWay
<1>11. ReportedTruly'
  <2>1. ASSUME NEW d \in Commands, d # c
        PROVE  Outcome(d)' = Outcome(d) /\ stage'[d] = stage[d]
    BY <1>2, <2>1 DEF Outcome
  <2>2. CASE stage[c] = "wait"
    <3>1. Outcome(c)' = "negative"
      BY <1>1, <2>2 DEF Outcome
    <3>2. e = "ended" => "wait" \in Reported(c) /\ result[<<c, "wait">>] = "refuse"
      BY <1>3, <2>2 DEF Reported
    <3> QED
      BY <1>2, <2>1, <3>1, <3>2 DEF IInv, ReportedTruly, Reported
  <2>3. CASE stage[c] = "operate" /\ ObjectOf[c] \in Enhanced
    <3>1. response'[c] = "positive" /\ Outcome(c)' = a
      BY <1>1, <2>3 DEF IInv, Told, Outcome
    <3>2. "operate" \in Reported(c)
      BY <2>3 DEF Reported
    <3>3. a = "positive" => \A s \in Reported(c) : result[<<c, s>>] = "accept"
      <4>1. SUFFICES ASSUME a = "positive"
                     PROVE  /\ result[<<c, "operate">>] = "accept"
                            /\ ObjectOf[c] \in Waiting => result[<<c, "wait">>] = "accept"
        BY DEF Reported
      <4>2. e = "ended" /\ result[<<c, "operate">>] = "accept"
        BY <2>3, <4>1
      <4> QED
        BY <1>4, <2>3, <4>2 DEF IInv, Told
    <3>4. a = "negative" /\ e = "ended" => result[<<c, "operate">>] = "refuse"
      BY <2>3
    <3> QED
      BY <1>2, <2>1, <3>1, <3>2, <3>3, <3>4 DEF IInv, ReportedTruly, Reported
  <2>4. CASE stage[c] = "operate" /\ ObjectOf[c] \notin Enhanced
    <3>1. Outcome(c)' = "positive" /\ Outcome(c) = "positive"
      BY <2>4 DEF IInv, Told, Outcome
    <3> QED
      BY <1>2, <2>1, <3>1 DEF IInv, ReportedTruly, Reported
  <2> QED
    BY <2>2, <2>3, <2>4 DEF Stages
<1> QED
  BY <1>5, <1>6, <1>7, <1>8, <1>9, <1>10, <1>11 DEF IInv

\* What is common to the steps of a call between its thread and its result.
LEMMA CallStep ==
    ASSUME IInv, NEW j \in Jobs, job[j] \in {"running", "coroutine"},
           NEW to \in {"coroutine", "finished"}, NEW r \in Results,
           to = "finished" <=> r # "none",
           job' = [job EXCEPT ![j] = to], result' = [result EXCEPT ![j] = r],
           UNCHANGED <<stage, response, termination, pool>>
    PROVE  IInv'
<1>1. /\ job \in [Jobs -> {"none", "queued", "running", "coroutine", "finished"}]
      /\ result \in [Jobs -> Results] /\ pool \in Seq(Jobs)
      /\ Len(pool) \in Nat /\ \A i \in 1..Len(pool) : pool[i] \in Jobs
  BY LenProperties, ElementOfSeq DEF IInv, TypeOK
<1>2. result[j] = "none"
  BY DEF IInv, Resolved
<1>3. /\ job'[j] = to /\ \A k \in Jobs \ {j} : job'[k] = job[k]
      /\ result'[j] = r /\ \A k \in Jobs \ {j} : result'[k] = result[k]
  BY <1>1
<1>4. TypeOK'
  BY <1>1 DEF IInv, TypeOK
<1>5. PoolOK'
  BY <1>1, <1>3 DEF IInv, PoolOK
<1>6. Resolved'
  BY <1>3 DEF IInv, Resolved
<1>7. Unspawned'
  BY <1>3, JobsAreOfCommands DEF IInv, Unspawned, Stages
\* A result that somebody has read already is not written again.
<1>8. \A c \in Commands, s \in Stages :
          result[<<c, s>>] # "none" => result'[<<c, s>>] = result[<<c, s>>]
  BY <1>2, <1>3, JobsAreOfCommands
<1>9. Told'
  <2>1. \A c \in Commands :
            job'[<<c, "operate">>] # "none" => job[<<c, "operate">>] # "none"
    BY <1>3, JobsAreOfCommands DEF Stages
  <2>2. \A c \in Commands :
            result[<<c, "wait">>] = "accept" => result'[<<c, "wait">>] = "accept"
    BY <1>8 DEF Stages
  <2> QED
    BY <2>1, <2>2 DEF IInv, Told
<1>10. Alone'
  BY DEF IInv, Alone, Executing
<1>11. UnderWay'
  BY <1>3 DEF IInv, UnderWay, Unfinished
<1>12. ReportedTruly'
  <2>1. \A c \in Commands : Outcome(c)' = Outcome(c) /\ Reported(c) \subseteq Stages
    BY DEF Outcome, Reported, Stages
  <2> QED
    BY <1>8, <2>1 DEF IInv, ReportedTruly, Reported
<1> QED
  BY <1>4, <1>5, <1>6, <1>7, <1>9, <1>10, <1>11, <1>12 DEF IInv

\* A thread takes the head of the pool's queue.
LEMMA RunStep == IInv /\ RunNext => IInv'
<1> SUFFICES ASSUME IInv, RunNext PROVE IInv'
  OBVIOUS
<1> DEFINE h == Head(pool)
<1>1. /\ pool \in Seq(Jobs) /\ Len(pool) \in Nat
      /\ \A i \in 1..Len(pool) : pool[i] \in Jobs
      /\ job \in [Jobs -> {"none", "queued", "running", "coroutine", "finished"}]
  BY LenProperties, ElementOfSeq DEF IInv, TypeOK
<1>2. /\ h = pool[1] /\ 1 \in 1..Len(pool) /\ h \in Jobs
      /\ pool' \in Seq(Jobs) /\ Len(pool') = Len(pool) - 1
      /\ \A i \in 1..Len(pool') : pool'[i] = pool[i + 1]
  BY <1>1, HeadTailProperties, EmptySeq DEF RunNext
<1>3. job[h] = "queued"
  BY <1>2 DEF IInv, PoolOK
<1>4. \A i \in 1..Len(pool') :
          i + 1 \in 1..Len(pool) /\ pool'[i] \in Jobs \ {h}
  BY <1>1, <1>2 DEF IInv, PoolOK
<1>5. /\ job' = [job EXCEPT ![h] = "running"]
      /\ UNCHANGED <<stage, response, termination, result>>
  BY DEF RunNext
<1> HIDE DEF h
<1>6. job'[h] = "running" /\ \A k \in Jobs \ {h} : job'[k] = job[k]
  BY <1>1, <1>2, <1>5
<1>7. TypeOK'
  BY <1>1, <1>2, <1>5 DEF IInv, TypeOK
<1>8. PoolOK'
  <2>1. \A i \in 1..Len(pool') : job'[pool'[i]] = "queued"
    BY <1>1, <1>2, <1>4, <1>6 DEF IInv, PoolOK
  <2>2. ASSUME NEW i \in 1..Len(pool'), NEW k \in 1..Len(pool'),
               pool'[i] = pool'[k]
        PROVE  i = k
    BY <1>1, <1>2, <1>4, <2>2 DEF IInv, PoolOK
  <2> QED
    BY <2>1, <2>2 DEF PoolOK
<1>9. Resolved'
  BY <1>3, <1>5, <1>6 DEF IInv, Resolved
<1>10. Unspawned'
  BY <1>3, <1>5, <1>6, JobsAreOfCommands DEF IInv, Unspawned, Stages
<1>11. Told'
  BY <1>3, <1>5, <1>6, JobsAreOfCommands DEF IInv, Told, Stages
<1>12. Alone' /\ ReportedTruly'
  BY <1>5 DEF IInv, Alone, Executing, ReportedTruly, Outcome, Reported
<1>13. UnderWay'
  BY <1>3, <1>5, <1>6 DEF IInv, UnderWay, Unfinished
<1> QED
  BY <1>7, <1>8, <1>9, <1>10, <1>11, <1>12, <1>13 DEF IInv

----------------------------------------------------------------------------
\* Every step keeps it: a call is handed over once, by its command in its
\* stage, and a command goes on only when that call is finished, or gives it up.
LEMMA StepInvariant == IInv /\ [Next]_vars => IInv'
<1> SUFFICES ASSUME IInv, [Next]_vars PROVE IInv'
  OBVIOUS
<1>1. ASSUME NEW j \in Jobs, NEW r \in {"accept", "refuse"}, Resolve(j, r)
      PROVE  IInv'
  BY <1>1, CallStep DEF Resolve, Results
<1>2. ASSUME NEW j \in Jobs, ReturnCoroutine(j) PROVE IInv'
  <2>1. result \in [Jobs -> Results] /\ result[j] = "none"
    BY <1>2 DEF ReturnCoroutine, IInv, TypeOK, Resolved
  <2>2. result' = [result EXCEPT ![j] = "none"]
    BY <1>2, <2>1 DEF ReturnCoroutine
  <2> QED
    BY <1>2, <2>2, CallStep DEF ReturnCoroutine, Results
<1>3. CASE RunNext
  BY <1>3, RunStep
<1>4. ASSUME NEW c \in Commands, Accept(c) PROVE IInv'
  <2>1. /\ stage[c] = "new" /\ job[<<c, "wait">>] = "none"
        /\ job[<<c, "operate">>] = "none"
    BY <1>4 DEF Accept, IInv, Unspawned
  <2>2. CASE ObjectOf[c] \in Waiting /\ Spawn(c, "wait") /\ UNCHANGED response
    BY <1>4, <2>1, <2>2, SpawnStep DEF Accept, Stages
  <2>3. CASE ObjectOf[c] \notin Waiting /\ Execute(c)
    BY <1>4, <2>1, <2>3, SpawnStep DEF Accept, Execute, Stages
  <2> QED
    BY <1>4, <2>2, <2>3 DEF Accept
<1>5. ASSUME NEW c \in Commands, WaitAccepted(c) PROVE IInv'
  <2>1. job[<<c, "wait">>] = "finished" /\ job[<<c, "operate">>] = "none"
    BY <1>5, JobsAreOfCommands DEF WaitAccepted, IInv, Resolved, Unspawned, Stages
  <2>2. \A d \in Executing : d # c => ObjectOf[d] # ObjectOf[c]
    BY <1>5 DEF WaitAccepted, IInv, Alone, Executing, Stages
  <2> QED
    BY <1>5, <2>1, <2>2, SpawnStep DEF WaitAccepted, Execute, Stages
<1>6. ASSUME NEW c \in Commands, WaitRefused(c) PROVE IInv'
  BY <1>6, EndStep DEF WaitRefused, Stages
<1>7. ASSUME NEW c \in Commands, OperateAccepted(c) PROVE IInv'
  BY <1>7, EndStep DEF OperateAccepted, Terminate, Stages
<1>8. ASSUME NEW c \in Commands, OperateRefused(c) PROVE IInv'
  BY <1>8, EndStep DEF OperateRefused, Terminate, Stages
<1>9. ASSUME NEW c \in Commands, TimeLimit(c) PROVE IInv'
  BY <1>9, EndStep DEF TimeLimit, Expire, Terminate, Stages
<1>10. CASE UNCHANGED vars
  <2>1. UNCHANGED <<stage, response, termination, job, result, pool>>
    BY <1>10 DEF vars
  <2>2. TypeOK' /\ PoolOK' /\ Resolved'
    BY <2>1 DEF IInv, TypeOK, PoolOK, Resolved
  <2>3. Unspawned' /\ Told' /\ Alone' /\ UnderWay'
    BY <2>1 DEF IInv, Unspawned, Told, Alone, Executing, UnderWay, Unfinished
  <2>4. ReportedTruly'
    BY <2>1 DEF IInv, ReportedTruly, Outcome, Reported
  <2> QED
    BY <2>2, <2>3, <2>4 DEF IInv
<1> QED
  BY <1>1, <1>2, <1>3, <1>4, <1>5, <1>6, <1>7, <1>8, <1>9, <1>10 DEF Next

\* The invariant holds of every state the callbacks reach.
THEOREM Invariance == Spec => []IInv
BY InitInvariant, StepInvariant, PTL DEF Spec

\* Commands, messages, calls and the pool's queue keep their types.
THEOREM TypeCorrect == Spec => []TypeOK
<1>1. IInv => TypeOK
  BY DEF IInv
<1> QED
  BY <1>1, Invariance, PTL

\* What a client is told of its Operate is what the callables came to whose
\* refusal its control model reports, whatever abandoned calls still do; and
\* a command refused by wait or by the time limit is not carried out later,
\* whenever its wait comes back.
THEOREM OutcomesAreTrue == Spec => []OutcomeIsTrue
<1>1. IInv => OutcomeIsTrue
  BY DEF IInv, Told, OutcomeIsTrue, RefusedNeverOperates
<1> QED
  BY <1>1, Invariance, PTL

\* Callables of one object overlap only where a time limit gave one up: two
\* unfinished calls of commands that nothing abandoned are of two commands
\* in execution, of which an object has one.
THEOREM OnlyAbandonedOverlap == Spec => []OverlapIsAbandoned
<1>1. IInv => OverlapIsAbandoned
  <2> SUFFICES ASSUME IInv, NEW j \in Jobs, NEW k \in Jobs, j # k,
                      ObjectOf[j[1]] = ObjectOf[k[1]], Unfinished(j), Unfinished(k)
               PROVE  j[1] # k[1] /\ "expired" \in {stage[j[1]], stage[k[1]]}
    BY DEF OverlapIsAbandoned
  <2>1. /\ j[1] \in Commands /\ j[2] \in Stages /\ j = <<j[1], j[2]>>
        /\ k[1] \in Commands /\ k[2] \in Stages /\ k = <<k[1], k[2]>>
    BY JobsAreOfCommands
  <2>2. ASSUME NEW c \in Commands, Unfinished(<<c, "wait">>)
        PROVE  job[<<c, "operate">>] = "none"
    <3>1. result[<<c, "wait">>] = "none" /\ ObjectOf[c] \in Waiting
      BY <2>2, JobsAreOfCommands DEF IInv, Resolved, Unspawned, Unfinished, Stages, TypeOK
    <3> QED
      BY <3>1 DEF IInv, Told
  <2>3. j[1] # k[1]
    BY <2>1, <2>2 DEF Unfinished, Stages
  <2>4. /\ stage[j[1]] \in {j[2], "expired"}
        /\ stage[k[1]] \in {k[2], "expired"}
    BY DEF IInv, UnderWay
  <2>5. ~(j[1] \in Executing /\ k[1] \in Executing)
    BY <2>1, <2>3 DEF IInv, Alone
  <2> QED
    BY <2>1, <2>3, <2>4, <2>5 DEF Executing
<1> QED
  BY <1>1, Invariance, PTL
=============================================================================
