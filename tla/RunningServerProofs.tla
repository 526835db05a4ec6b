------------------------ MODULE RunningServerProofs ------------------------
(***************************************************************************)
(* Theorems about a server that runs: the accesses of its clients, which   *)
(* Python callbacks decide (AttributeAccess), and the host's batches of    *)
(* updates (Batch). The two share no variable.                             *)
(***************************************************************************)
EXTENDS AttributeAccess, Batch, SequenceTheorems, FiniteSetTheorems,
        NaturalsInduction, WellFoundedInduction, TLAPS

----------------------------------------------------------------------------
(* Accesses.                                                               *)

Fields == {"kind", "attr", "value", "phase", "asked", "returned", "outcome",
           "answer", "seen"}

\* A callback is under the slot of what its path finds.
OwnPath(s, h) ==
    /\ s[1] \in {"read", "write"} =>
          h.path \in Paths /\ CanonicalPath(Indexed(h.path)) = s[2]
    /\ s[1] = "select" => h.path[1] = s[2]

HandlerOK ==
    /\ DOMAIN handler = Slots
    /\ \A s \in Slots : handler[s] # NoHandler => OwnPath(s, handler[s])

\* A request waits for the pool once, and only while it waits.
QueueOK ==
    /\ queue \in Seq(Requests)
    /\ \A i, k \in 1..Len(queue) : queue[i] = queue[k] => i = k
    /\ \A o \in Requests :
          op[o].phase = "queued" <=> \E i \in 1..Len(queue) : queue[i] = o
    /\ IsFiniteSet(Running) /\ Cardinality(Running) <= PoolSize

CacheOK ==
    /\ cache \in [Attributes -> MmsValues]
    /\ \A a \in Attributes : cache[a].type = Defaults[a].type
    /\ active \in 1..Groups

\* A read that has ended, by what was asked and what that returned.
ReadTrue(r) ==
    IF r.asked = NoHandler \/ r.returned = None
    THEN r.answer \in r.seen
    ELSE r.answer = IF r.returned \in PyValues /\ Generic[r.returned] # Refused
                    THEN Generic[r.returned] ELSE None

\* A request r under way: it holds what it would write, its callback is of
\* its own slot, and it has seen the value that its attribute has.
UnderWay(r) ==
    /\ r.asked # NoHandler /\ r.returned = None
    /\ cache[r.attr] \in r.seen
    /\ r.kind = "write" =>
          r.value \in MmsValues /\ r.value.type = Defaults[r.attr].type
    /\ r.kind = "select" => r.value.num \in 1..Groups

OpOK(o) ==
    LET r == op[o]
    IN  /\ DOMAIN r = Fields
        /\ r.phase \in {"idle", "queued", "running", "ended"}
        /\ r.phase = "idle" => r = Idle
        /\ r.phase # "idle" =>
              /\ r.kind \in Kinds /\ r.attr \in Attributes
              /\ r.asked # NoHandler => OwnPath(Slot(r.kind, r.attr), r.asked)
        /\ r.phase \in {"queued", "running"} => UnderWay(r)
        /\ r.phase = "ended" /\ r.kind = "read" => ReadTrue(r)

OpsOK == DOMAIN op = Requests /\ \A o \in Requests : OpOK(o)

IInv == HandlerOK /\ QueueOK /\ CacheOK /\ OpsOK

\* A non-empty set of numbers up to a bound has a greatest one.
LEMMA GreatestOf ==
    ASSUME NEW n \in Nat, NEW T, T \subseteq 1..n, T # {}
    PROVE  \E m \in T : \A k \in T : k <= m
<1> DEFINE U == {u \in Nat : n - u \in T}
           R == OpToRel(<, Nat)
<1>1. PICK k \in T : TRUE
  OBVIOUS
<1>2. n - k \in U
  <2>1. n - k \in Nat /\ n - (n - k) = k
    BY <1>1
  <2> QED
    BY <1>1, <2>1
<1>3. PICK u \in U : \A v \in U : ~ (<<v, u>> \in R)
  BY <1>2, NatLessThanWellFounded, WFMin
<1>4. \A v \in U : ~ (v < u)
  BY <1>3 DEF OpToRel
<1> HIDE DEF R
<1>5. ASSUME NEW j \in T PROVE j <= n - u
  <2>1. j \in Nat /\ u \in Nat /\ n - j \in Nat /\ n - (n - j) = j
    BY <1>3
  <2>2. n - j \in U
    BY <2>1
  <2>3. ~ (n - j < u)
    BY <1>4, <2>2
  <2> QED
    BY <2>1, <2>3
<1> QED
  BY <1>3, <1>5

\* A path finds an attribute of that path.
LEMMA IndexedFacts ==
    ASSUME NEW path \in Paths
    PROVE  Indexed(path) \in Attributes /\ PathOf(Indexed(path)) = path
<1> DEFINE T == {i \in DOMAIN Model : PathOf(Model[i]) = path}
<1>1. Len(Model) \in Nat /\ DOMAIN Model = 1..Len(Model)
  BY AccessAssumption
<1>2. T \subseteq 1..Len(Model) /\ T # {}
  BY <1>1 DEF Paths, Attributes
<1> HIDE DEF T
<1>3. PICK m \in T : \A k \in T : k <= m
  BY <1>1, <1>2, GreatestOf
<1>4. \E i \in DOMAIN Model :
         /\ PathOf(Model[i]) = path
         /\ \A j \in DOMAIN Model : PathOf(Model[j]) = path => j <= i
  BY <1>3 DEF T
<1> QED
  BY <1>4 DEF Indexed, Attributes

\* The first attribute, which stands for the server.
LEMMA FirstAttribute == Model[1] \in Attributes
<1>1. 1 \in DOMAIN Model
  BY AccessAssumption
<1> QED
  BY <1>1 DEF Attributes

\* The slots tell the kinds apart.
LEMMA SlotFacts ==
    ASSUME NEW kind \in Kinds, NEW a \in Attributes
    PROVE  /\ Slot(kind, a) \in Slots /\ Slot(kind, a)[1] = kind
           /\ kind \in {"read", "write"} => Slot(kind, a)[2] = CanonicalPath(a)
           /\ kind = "select" => Slot(kind, a)[2] = a.ld
<1>1. Slot(kind, a) \in Slots
  BY DEF Slots
<1> QED
  BY <1>1 DEF Slot, Kinds

\* What the requests witness changes nothing else of them.
LEMMA Witnessed ==
    ASSUME NEW ops, DOMAIN ops = Requests, \A o \in Requests : DOMAIN ops[o] = Fields,
           NEW values, NEW o \in Requests
    PROVE  /\ DOMAIN Witness(ops, values) = Requests
           /\ DOMAIN Witness(ops, values)[o] = Fields
           /\ \A f \in Fields \ {"seen"} : Witness(ops, values)[o][f] = ops[o][f]
           /\ ops[o].phase \in {"idle", "ended"} => Witness(ops, values)[o] = ops[o]
           /\ ops[o].phase \notin {"idle", "ended"} =>
                  Witness(ops, values)[o].seen
                      = ops[o].seen \cup {values[ops[o].attr]}
BY DEF Witness, Fields

\* The fields that the others depend on, of a request that a step leaves
\* alone but for what it witnesses.
LEMMA OtherOp ==
    ASSUME OpsOK, NEW k \in Requests, DOMAIN op'[k] = Fields,
           \A f \in Fields \ {"seen"} : op'[k][f] = op[k][f],
           op[k].phase \in {"idle", "ended"} => op'[k] = op[k],
           op[k].phase \in {"queued", "running"} => cache'[op[k].attr] \in op'[k].seen
    PROVE  OpOK(k)'
BY DEF OpsOK, OpOK, UnderWay, ReadTrue, Fields

\* The invariant holds of a server that has just come up.
LEMMA AccessBegins == Init => IInv
<1> SUFFICES ASSUME Init PROVE IInv
  OBVIOUS
<1>1. HandlerOK
  BY DEF Init, HandlerOK
<1>2. QueueOK
  <2>1. Running = {}
    BY DEF Init, Running, Idle
  <2>2. queue = <<>> /\ Len(queue) = 0 /\ queue \in Seq(Requests)
    BY DEF Init
  <2>3. IsFiniteSet(Running) /\ Cardinality(Running) = 0
    BY <2>1, FS_EmptySet
  <2>4. \A o \in Requests : op[o].phase = "idle"
    BY DEF Init, Idle
  <2> QED
    BY <2>2, <2>3, <2>4, AccessAssumption DEF QueueOK
<1>3. CacheOK
  BY AccessAssumption DEF Init, CacheOK
<1>4. OpsOK
  BY DEF Init, OpsOK, OpOK, Idle, Fields
<1> QED
  BY <1>1, <1>2, <1>3, <1>4 DEF IInv

\* A step that only ends requests which do not wait keeps the pool.
LEMMA QueueKept ==
    ASSUME QueueOK, queue' = queue,
           \A k \in Requests : \/ op'[k].phase = op[k].phase
                               \/ op[k].phase # "queued" /\ op'[k].phase = "ended"
    PROVE  QueueOK'
<1>1. Running' \subseteq Running
  BY DEF Running
<1>2. IsFiniteSet(Running') /\ Cardinality(Running') <= Cardinality(Running)
  BY <1>1, FS_Subset DEF QueueOK
<1>3. Cardinality(Running) \in Nat /\ Cardinality(Running') \in Nat
  BY <1>2, FS_CardinalityType DEF QueueOK
<1>4. Cardinality(Running') <= PoolSize
  BY <1>2, <1>3, AccessAssumption DEF QueueOK
<1> QED
  BY <1>2, <1>4 DEF QueueOK

\* What a request may be settled with: the outcome of a read is the one that
\* its answer is to be judged by.
Settling(r) ==
    /\ DOMAIN r = Fields /\ r.kind \in Kinds /\ r.attr \in Attributes
    /\ r.asked # NoHandler => OwnPath(Slot(r.kind, r.attr), r.asked)
    /\ cache[r.attr] \in r.seen
    /\ r.kind = "write" =>
          r.value \in MmsValues /\ r.value.type = Defaults[r.attr].type
    /\ r.kind = "select" => r.value.num \in 1..Groups
    /\ r.kind = "read" =>
          IF r.asked = NoHandler \/ r.returned = None
          THEN r.outcome.kind = "CacheMiss"
          ELSE IF r.returned \in PyValues /\ Generic[r.returned] # Refused
          THEN r.outcome.kind = "CacheHit" /\ r.outcome.value = Generic[r.returned]
          ELSE r.outcome.kind \notin {"CacheHit", "CacheMiss"}

\* A request that is settled ends as it should, and no other ends.
LEMMA Settled ==
    ASSUME IInv, NEW o \in Requests, NEW r, Settling(r), Settle(o, r)
    PROVE  /\ HandlerOK' /\ CacheOK' /\ OpsOK' /\ op'[o].phase = "ended"
           /\ \A k \in Requests \ {o} : op'[k].phase = op[k].phase
<1> DEFINE answer == CASE r.outcome.kind = "CacheHit" -> r.outcome.value
                       [] r.outcome.kind = "CacheMiss" -> cache[r.attr]
                       [] OTHER -> None
           final == [r EXCEPT !.phase = "ended", !.answer = answer,
                              !.seen = IF r.kind = "read" THEN @ ELSE {}]
           ops == [op EXCEPT ![o] = final]
<1>1. op' = Witness(ops, cache') /\ handler' = handler
  BY DEF Settle
<1>2. /\ DOMAIN op = Requests /\ \A k \in Requests : OpOK(k) /\ DOMAIN op[k] = Fields
      /\ CacheOK /\ HandlerOK
  BY DEF IInv, OpsOK, OpOK
<1>3. /\ DOMAIN final = Fields /\ final.phase = "ended" /\ final.answer = answer
      /\ final.seen = IF r.kind = "read" THEN r.seen ELSE {}
      /\ \A f \in Fields \ {"phase", "answer", "seen"} : final[f] = r[f]
  BY DEF Settling, Fields
<1> HIDE DEF final
<1>4. /\ DOMAIN ops = Requests /\ ops[o] = final
      /\ \A k \in Requests \ {o} : ops[k] = op[k]
      /\ \A k \in Requests : DOMAIN ops[k] = Fields
  BY <1>2, <1>3
<1> HIDE DEF ops
<1>5. DOMAIN op' = Requests /\ op'[o] = final
  BY <1>1, <1>3, <1>4, Witnessed
<1>6. ASSUME NEW k \in Requests \ {o}
      PROVE  /\ DOMAIN op'[k] = Fields
             /\ \A f \in Fields \ {"seen"} : op'[k][f] = op[k][f]
             /\ op[k].phase \in {"idle", "ended"} => op'[k] = op[k]
             /\ op[k].phase \notin {"idle", "ended"} =>
                    op'[k].seen = op[k].seen \cup {cache'[op[k].attr]}
  BY <1>1, <1>4, Witnessed
<1>7. CacheOK'
  <2>1. CASE r.kind = "write" /\ r.outcome.kind = "Accept"
    <3>1. cache' = [cache EXCEPT ![r.attr] = r.value] /\ active' = active
      BY <2>1 DEF Settle
    <3> QED
      BY <1>2, <2>1, <3>1 DEF Settling, CacheOK
  <2>2. CASE ~ (r.kind = "write" /\ r.outcome.kind = "Accept")
    <3>1. cache' = cache /\ active' \in {active, r.value.num}
          /\ (r.kind # "select" => active' = active)
      BY <2>2 DEF Settle
    <3> QED
      BY <1>2, <3>1 DEF Settling, CacheOK
  <2> QED
    BY <2>1, <2>2
<1>8. OpOK(o)'
  <2>1. CASE r.kind = "read"
    <3>1. /\ final.asked = r.asked /\ final.returned = r.returned
          /\ final.kind = "read" /\ final.attr = r.attr /\ final.seen = r.seen
      BY <1>3, <2>1 DEF Fields
    <3>2. ReadTrue(final)
      BY <1>3, <2>1, <3>1 DEF ReadTrue, Settling
    <3> QED
      BY <1>3, <1>5, <3>1, <3>2 DEF OpOK, Settling
  <2>2. CASE r.kind # "read"
    <3>1. final.asked = r.asked /\ final.kind = r.kind /\ final.attr = r.attr
      BY <1>3 DEF Fields
    <3> QED
      BY <1>3, <1>5, <2>2, <3>1 DEF OpOK, Settling
  <2> QED
    BY <2>1, <2>2
<1>9. ASSUME NEW k \in Requests \ {o} PROVE OpOK(k)' /\ op'[k].phase = op[k].phase
  <2>1. op[k].phase \in {"queued", "running"} => cache'[op[k].attr] \in op'[k].seen
    BY <1>6
  <2>2. OpOK(k)'
    BY <1>6, <2>1, OtherOp DEF IInv
  <2> QED
    BY <1>6, <2>2 DEF Fields
<1> QED
  BY <1>1, <1>2, <1>3, <1>5, <1>7, <1>8, <1>9 DEF OpsOK, HandlerOK

\* Registering a callback, on whatever slot it is for.
LEMMA RegisterStep ==
    ASSUME IInv, NEW kind \in Kinds \ {"associate"}, NEW path \in Paths, NEW f,
           Register(kind, path, f)
    PROVE  IInv'
<1> DEFINE s == Slot(kind, Indexed(path))
           h == [callback |-> f, path |-> path]
<1>1. Indexed(path) \in Attributes /\ PathOf(Indexed(path)) = path
  BY IndexedFacts
<1>2. OwnPath(s, h)
  BY <1>1, SlotFacts DEF OwnPath, PathOf
<1> HIDE DEF s, h
<1>3. handler' = [handler EXCEPT ![s] = h] /\ UNCHANGED <<cache, active, op, queue>>
  BY DEF Register, s, h
<1>4. HandlerOK'
  BY <1>2, <1>3 DEF IInv, HandlerOK
<1> QED
  BY <1>3, <1>4
     DEF IInv, QueueOK, Running, CacheOK, OpsOK, OpOK, UnderWay

\* Replacing the authenticator touches no other slot.
LEMMA AuthenticatorStep ==
    ASSUME IInv, NEW h, SetAuthenticator(h)
    PROVE  IInv'
<1> DEFINE s == <<"associate", "server">>
<1>1. OwnPath(s, h)
  BY DEF OwnPath
<1> HIDE DEF s
<1>2. handler' = [handler EXCEPT ![s] = h] /\ UNCHANGED <<cache, active, op, queue>>
  BY DEF SetAuthenticator, s
<1>3. HandlerOK'
  BY <1>1, <1>2 DEF IInv, HandlerOK
<1> QED
  BY <1>2, <1>3
     DEF IInv, QueueOK, Running, CacheOK, OpsOK, OpOK, UnderWay

\* An update of the host: every request under way sees the new value.
LEMMA UpdateStep ==
    ASSUME IInv, NEW path \in Paths, NEW p \in Updates, Update(path, p)
    PROVE  IInv'
<1> DEFINE a == Indexed(path)
           v == Shaped[p, cache[a]]
<1>1. a \in Attributes
  BY IndexedFacts
<1> HIDE DEF a
<1>2. /\ v # Refused /\ v.type = cache[a].type
      /\ cache' = [cache EXCEPT ![a] = v] /\ op' = Witness(op, cache')
      /\ UNCHANGED <<handler, active, queue>>
  BY DEF Update, a
<1>3. CacheOK /\ cache[a] \in MmsValues /\ cache[a].type = Defaults[a].type
  BY <1>1 DEF IInv, CacheOK
<1>4. v \in MmsValues
  BY <1>1, <1>2, <1>3, UpdatesAssumption
<1> HIDE DEF v
<1>5. CacheOK'
  BY <1>1, <1>2, <1>3, <1>4 DEF CacheOK
<1>6. DOMAIN op = Requests /\ \A k \in Requests : DOMAIN op[k] = Fields
  BY DEF IInv, OpsOK, OpOK
<1>7. ASSUME NEW k \in Requests
      PROVE  OpOK(k)' /\ op'[k].phase = op[k].phase
  <2>1. /\ DOMAIN op'[k] = Fields
        /\ \A f \in Fields \ {"seen"} : op'[k][f] = op[k][f]
        /\ op[k].phase \in {"idle", "ended"} => op'[k] = op[k]
        /\ op[k].phase \notin {"idle", "ended"} =>
               op'[k].seen = op[k].seen \cup {cache'[op[k].attr]}
    BY <1>2, <1>6 DEF Witness, Fields
  <2>2. op[k].phase \in {"queued", "running"} => cache'[op[k].attr] \in op'[k].seen
    BY <2>1
  <2> QED
    BY <2>1, <2>2, OtherOp DEF IInv, Fields
<1>8. DOMAIN op' = Requests
  BY <1>2 DEF Witness
<1>9. QueueOK'
  BY <1>2, <1>7, QueueKept DEF IInv
<1> QED
  BY <1>2, <1>5, <1>7, <1>8, <1>9 DEF IInv, HandlerOK, OpsOK

\* Another active group, which only the requests to choose one depend on.
LEMMA ForceStep ==
    ASSUME IInv, NEW g \in 1..Groups, ForceActive(g)
    PROVE  IInv'
BY DEF ForceActive, IInv, HandlerOK, QueueOK, Running, CacheOK, OpsOK, OpOK,
       UnderWay

\* A request that arrives is settled at once or waits for its callback, and
\* no other ends.
LEMMA ArriveStep ==
    ASSUME IInv, NEW o \in Requests, NEW kind \in Kinds, NEW a \in Attributes,
           NEW v,
           kind = "write" => v \in MmsValues /\ v.type = Defaults[a].type,
           kind = "select" => v.num \in 1..Groups,
           Arrive(o, kind, a, v)
    PROVE  IInv' /\ \A k \in Requests \ {o} : op'[k].phase = op[k].phase
<1> DEFINE h == handler[Slot(kind, a)]
           r == [op[o] EXCEPT !.kind = kind, !.attr = a, !.value = v,
                              !.phase = "queued", !.asked = h,
                              !.seen = {cache[a]}]
<1>1. op[o] = Idle /\ DOMAIN op = Requests
  BY DEF Arrive, IInv, OpsOK, OpOK
<1>2. /\ DOMAIN r = Fields /\ r.kind = kind /\ r.attr = a /\ r.value = v
      /\ r.phase = "queued" /\ r.asked = h /\ r.returned = None
      /\ r.seen = {cache[a]}
  BY <1>1 DEF Idle, Fields
<1>3. h # NoHandler => OwnPath(Slot(kind, a), h)
  BY SlotFacts DEF IInv, HandlerOK
<1>4. \/ /\ h # NoHandler /\ op' = [op EXCEPT ![o] = r] /\ queue' = Append(queue, o)
         /\ UNCHANGED <<handler, cache, active>>
      \/ /\ h = NoHandler /\ queue' = queue
         /\ \E outcome \in CASE kind = "read" -> {"CacheMiss"}
                             [] kind = "write" -> {"Accept", "ObjectAccessDenied"}
                             [] OTHER -> {"Accept"} :
                Settle(o, [r EXCEPT !.outcome = Outcome(outcome, None)])
  BY DEF Arrive
<1> HIDE DEF h, r
<1>5. CASE h # NoHandler
  <2>1. /\ op' = [op EXCEPT ![o] = r] /\ queue' = Append(queue, o)
        /\ UNCHANGED <<handler, cache, active>>
    BY <1>4, <1>5
  <2>2. OpOK(o)'
    BY <1>1, <1>2, <1>3, <1>5, <2>1 DEF OpOK, UnderWay
  <2>3. \A k \in Requests \ {o} : op'[k] = op[k]
    BY <1>1, <2>1
  <2>4. OpsOK'
    BY <1>1, <2>1, <2>2, <2>3 DEF IInv, OpsOK, OpOK, UnderWay
  <2>5. QueueOK'
    <3>1. Running' = Running
      BY <1>1, <1>2, <2>1, <2>3 DEF Running, Idle
    <3>2. /\ queue' \in Seq(Requests) /\ Len(queue') = Len(queue) + 1
          /\ Len(queue) \in Nat /\ queue'[Len(queue) + 1] = o
          /\ \A i \in 1..Len(queue) : queue'[i] = queue[i]
      BY <2>1, AppendProperties DEF IInv, QueueOK
    <3>3. \A i \in 1..Len(queue) : queue[i] # o
      BY <1>1 DEF IInv, QueueOK, Idle
    <3>4. op'[o].phase = "queued"
      BY <1>1, <1>2, <2>1
    <3> QED
      BY <2>3, <3>1, <3>2, <3>3, <3>4 DEF IInv, QueueOK
  <2> QED
    BY <2>1, <2>3, <2>4, <2>5 DEF IInv, HandlerOK, CacheOK
<1>6. CASE h = NoHandler
  <2>1. PICK outcome :
          /\ kind = "read" => outcome = "CacheMiss"
          /\ Settle(o, [r EXCEPT !.outcome = Outcome(outcome, None)])
    BY <1>4, <1>6
  <2> DEFINE t == [r EXCEPT !.outcome = Outcome(outcome, None)]
  <2>2. /\ DOMAIN t = Fields /\ t.outcome.kind = outcome
        /\ \A f \in Fields \ {"outcome"} : t[f] = r[f]
    BY <1>2 DEF Outcome, Fields
  <2> HIDE DEF t
  <2>3. Settling(t)
    BY <1>2, <1>3, <1>6, <2>1, <2>2 DEF Settling, Fields
  <2>4. Settle(o, t)
    BY <2>1 DEF t
  <2>5. /\ HandlerOK' /\ CacheOK' /\ OpsOK' /\ op'[o].phase = "ended"
        /\ \A k \in Requests \ {o} : op'[k].phase = op[k].phase
    BY <2>3, <2>4, Settled
  <2>6. op[o].phase # "queued" /\ queue' = queue
    BY <1>1, <1>4, <1>6 DEF Idle
  <2> QED
    BY <2>5, <2>6, QueueKept DEF IInv
<1> QED
  BY <1>5, <1>6

\* A thread takes the first request of the queue, and there is one free.
LEMMA RunStep == IInv /\ RunNext => IInv'
<1> SUFFICES ASSUME IInv, RunNext PROVE IInv'
  OBVIOUS
<1>1. /\ queue \in Seq(Requests) /\ queue # <<>> /\ queue' = Tail(queue)
      /\ op' = [op EXCEPT ![Head(queue)].phase = "running"]
      /\ Cardinality(Running) < PoolSize /\ UNCHANGED <<handler, cache, active>>
  BY DEF RunNext, IInv, QueueOK
<1>2. PICK o \in Requests :
         /\ Len(queue) \in Nat /\ Len(queue) > 0 /\ o = queue[1] /\ o = Head(queue)
         /\ Tail(queue) \in Seq(Requests) /\ Len(Tail(queue)) = Len(queue) - 1
         /\ \A i \in 1..Len(queue) - 1 : Tail(queue)[i] = queue[i + 1]
  BY <1>1, EmptySeq, LenProperties, HeadTailProperties
<1>3. op[o].phase = "queued"
  BY <1>2 DEF IInv, QueueOK
<1>4. /\ DOMAIN op = Requests /\ DOMAIN op' = Requests /\ OpOK(o)
      /\ \A k \in Requests \ {o} : op'[k] = op[k]
      /\ op'[o] = [op[o] EXCEPT !.phase = "running"]
  BY <1>1, <1>2 DEF IInv, OpsOK
<1>5. /\ DOMAIN op'[o] = Fields /\ op'[o].phase = "running"
      /\ op'[o].kind = op[o].kind /\ op'[o].attr = op[o].attr
      /\ op'[o].value = op[o].value /\ op'[o].asked = op[o].asked
      /\ op'[o].returned = op[o].returned /\ op'[o].seen = op[o].seen
  BY <1>4 DEF OpOK, Fields
<1>6. OpOK(o)'
  <2>1. UnderWay(op[o])'
    BY <1>1, <1>3, <1>4, <1>5 DEF OpOK, UnderWay
  <2> QED
    BY <1>3, <1>4, <1>5, <2>1 DEF OpOK
<1>7. OpsOK'
  <2>1. ASSUME NEW k \in Requests \ {o} PROVE OpOK(k)'
    <3>1. op'[k] = op[k] /\ cache' = cache /\ OpOK(k)
      BY <1>1, <1>4 DEF IInv, OpsOK
    <3> QED
      BY <3>1 DEF OpOK, UnderWay
  <2> QED
    BY <1>4, <1>6, <2>1 DEF OpsOK
<1>8. QueueOK'
  <2>1. Running' = Running \cup {o}
    BY <1>2, <1>4, <1>5 DEF Running
  <2>2. /\ IsFiniteSet(Running') /\ Cardinality(Running') <= Cardinality(Running) + 1
        /\ Cardinality(Running) \in Nat
    <3>1. IsFiniteSet(Running) /\ Cardinality(Running) \in Nat
      BY FS_CardinalityType DEF IInv, QueueOK
    <3>2. /\ IsFiniteSet(Running \cup {o})
          /\ Cardinality(Running \cup {o}) =
                 IF o \in Running THEN Cardinality(Running) ELSE Cardinality(Running) + 1
      BY <3>1, FS_AddElement
    <3> QED
      BY <2>1, <3>1, <3>2
  <2>3. Cardinality(Running') <= PoolSize
    BY <1>1, <2>2, FS_CardinalityType, AccessAssumption
  <2>4. \A i, k \in 1..Len(queue') : queue'[i] = queue'[k] => i = k
    BY <1>1, <1>2 DEF IInv, QueueOK
  <2>5. ASSUME NEW k \in Requests
        PROVE  op'[k].phase = "queued" <=> \E i \in 1..Len(queue') : queue'[i] = k
    <3>1. CASE k = o
      <4>1. \A i \in 1..Len(queue') : queue'[i] # o
        BY <1>1, <1>2 DEF IInv, QueueOK
      <4> QED
        BY <1>5, <3>1, <4>1
    <3>2. CASE k # o
      <4>1. op[k].phase = "queued" <=> \E i \in 1..Len(queue) : queue[i] = k
        BY DEF IInv, QueueOK
      <4>2. ASSUME NEW i \in 1..Len(queue), queue[i] = k
            PROVE  \E n \in 1..Len(queue') : queue'[n] = k
        <5>1. i # 1
          BY <1>2, <3>2, <4>2
        <5>2. i - 1 \in 1..Len(queue) - 1 /\ (i - 1) + 1 = i
          BY <1>2, <5>1
        <5> QED
          BY <1>1, <1>2, <4>2, <5>2
      <4>3. ASSUME NEW i \in 1..Len(queue'), queue'[i] = k
            PROVE  \E n \in 1..Len(queue) : queue[n] = k
        BY <1>1, <1>2, <4>3
      <4> QED
        BY <1>4, <3>2, <4>1, <4>2, <4>3
    <3> QED
      BY <3>1, <3>2
  <2> QED
    BY <1>1, <1>2, <2>2, <2>3, <2>4, <2>5 DEF QueueOK
<1> QED
  BY <1>1, <1>7, <1>8 DEF IInv, HandlerOK, CacheOK

\* What a callable returns or raises gives a read an outcome of its own: a
\* value only for what converts, the cache only for None.
LEMMA ReadOutcomes ==
    ASSUME NEW r \in Returns, r # None
    PROVE  IF r \in PyValues /\ Generic[r] # Refused
           THEN ReadOutcome(r) = Outcome("CacheHit", Generic[r])
           ELSE ReadOutcome(r).kind \notin {"CacheHit", "CacheMiss"}
<1>1. r \in PyValues <=> r.type # "raised"
  BY AccessAssumption
<1>2. CASE r.type = "raised"
  <2>1. DataAccess(r) \notin {"CacheHit", "CacheMiss"}
    <3>1. \A i \in DOMAIN DataAccessNames :
             DataAccessNames[i] \notin {"CacheHit", "CacheMiss"}
      BY DEF DataAccessNames
    <3> QED
      BY <3>1 DEF DataAccess
  <2> QED
    BY <1>1, <1>2, <2>1 DEF ReadOutcome, Outcome
<1>3. CASE r.type # "raised"
  BY <1>1, <1>3 DEF ReadOutcome, Outcome
<1> QED
  BY <1>2, <1>3

\* A callable that comes back ends its request, and no other.
LEMMA ReturnStep ==
    ASSUME IInv, NEW o \in Requests, Returned(o)
    PROVE  IInv' /\ \A k \in Requests \ {o} : op'[k].phase = op[k].phase
<1>1. PICK r \in Returns :
         /\ op[o].phase = "running" /\ queue' = queue
         /\ Settle(o, [op[o] EXCEPT !.returned = r,
                           !.outcome = OutcomeOf(op[o].kind, r)])
  BY DEF Returned
<1>2. PICK was : was = op[o]
  OBVIOUS
<1>3. PICK outcome : outcome = OutcomeOf(was.kind, r)
  OBVIOUS
<1>4. PICK t : t = [was EXCEPT !.returned = r, !.outcome = outcome]
  OBVIOUS
<1>5. /\ DOMAIN was = Fields /\ was.kind \in Kinds /\ was.attr \in Attributes
      /\ OwnPath(Slot(was.kind, was.attr), was.asked)
      /\ was.asked # NoHandler /\ cache[was.attr] \in was.seen
      /\ was.kind = "write" =>
            was.value \in MmsValues /\ was.value.type = Defaults[was.attr].type
      /\ was.kind = "select" => was.value.num \in 1..Groups
  <2>1. OpOK(o)
    BY DEF IInv, OpsOK
  <2> QED
    BY <1>1, <1>2, <2>1 DEF OpOK, UnderWay
<1>6. /\ DOMAIN t = Fields /\ t.kind = was.kind /\ t.attr = was.attr
      /\ t.value = was.value /\ t.asked = was.asked /\ t.seen = was.seen
      /\ t.returned = r /\ t.outcome = outcome
  BY <1>4, <1>5 DEF Fields
<1>7. was.kind = "read" =>
         IF r = None THEN outcome.kind = "CacheMiss"
         ELSE IF r \in PyValues /\ Generic[r] # Refused
         THEN outcome.kind = "CacheHit" /\ outcome.value = Generic[r]
         ELSE outcome.kind \notin {"CacheHit", "CacheMiss"}
  <2>1. was.kind = "read" => outcome = ReadOutcome(r)
    BY <1>3 DEF OutcomeOf
  <2>2. CASE r = None
    <3>1. r.type # "raised"
      BY <2>2 DEF None, Number, Value
    <3>2. ReadOutcome(r) = Outcome("CacheMiss", None)
      BY <2>2, <3>1 DEF ReadOutcome
    <3> QED
      BY <2>1, <2>2, <3>2 DEF Outcome
  <2>3. CASE r # None
    BY <2>1, <2>3, ReadOutcomes DEF Outcome
  <2> QED
    BY <2>2, <2>3
<1>8. Settling(t)
  BY <1>5, <1>6, <1>7 DEF Settling
<1>9. Settle(o, t)
  BY <1>1, <1>2, <1>3, <1>4
<1>10. /\ HandlerOK' /\ CacheOK' /\ OpsOK' /\ op'[o].phase = "ended"
       /\ \A k \in Requests \ {o} : op'[k].phase = op[k].phase
  BY <1>8, <1>9, Settled
<1> QED
  BY <1>1, <1>10, QueueKept DEF IInv

\* A client's request arrives, and no other ends.
LEMMA RequestedStep ==
    ASSUME IInv, NEW o \in Requests, Requested(o)
    PROVE  IInv' /\ \A k \in Requests \ {o} : op'[k].phase = op[k].phase
<1>1. CASE \E a \in Attributes : Arrive(o, "read", a, None)
  BY <1>1, ArriveStep DEF Kinds
<1>2. CASE \E a \in Attributes, v \in Sent :
              v.type = Defaults[a].type /\ Arrive(o, "write", a, v)
  BY <1>2, ArriveStep, AccessAssumption DEF Kinds
<1>3. CASE \E g \in 1 .. Groups :
              Arrive(o, "select", Model[1], Number("Unsigned", g))
  <2>1. PICK g \in 1 .. Groups :
           Arrive(o, "select", Model[1], Number("Unsigned", g))
    BY <1>3
  <2>2. Number("Unsigned", g).num = g
    BY DEF Number, Value
  <2> QED
    BY <2>1, <2>2, FirstAttribute, ArriveStep DEF Kinds
<1>4. CASE Arrive(o, "associate", Model[1], None)
  BY <1>4, FirstAttribute, ArriveStep DEF Kinds
<1> QED
  BY <1>1, <1>2, <1>3, <1>4 DEF Requested

\* Every step keeps the invariant.
LEMMA AccessStep == IInv /\ [Next]_vars => IInv'
<1> SUFFICES ASSUME IInv, [Next]_vars PROVE IInv'
  OBVIOUS
<1>1. ASSUME NEW path \in Paths, NEW f \in Callbacks,
             RegisterAccess(path, f) \/ RegisterGroups(path, f)
      PROVE  IInv'
  <2>1. PICK kind \in Kinds \ {"associate"} : Register(kind, path, f)
    BY <1>1 DEF RegisterAccess, RegisterGroups, Kinds
  <2> QED
    BY <2>1, RegisterStep
<1>2. ASSUME NEW h, SetAuthenticator(h) PROVE IInv'
  BY <1>2, AuthenticatorStep
<1>3. ASSUME NEW path \in Paths, NEW p \in Updates, Update(path, p) PROVE IInv'
  BY <1>3, UpdateStep
<1>4. ASSUME NEW g \in 1 .. Groups, ForceActive(g) PROVE IInv'
  BY <1>4, ForceStep
<1>5. ASSUME NEW o \in Requests, Requested(o) PROVE IInv'
  BY <1>5, RequestedStep
<1>6. ASSUME NEW o \in Requests, Returned(o) PROVE IInv'
  BY <1>6, ReturnStep
<1>7. CASE UNCHANGED vars
  BY <1>7 DEF vars, IInv, HandlerOK, QueueOK, Running, CacheOK, OpsOK, OpOK,
              UnderWay
<1> QED
  BY <1>1, <1>2, <1>3, <1>4, <1>5, <1>6, <1>7, RunStep DEF Next

\* The invariant the theorems about accesses rest on.
THEOREM AccessInvariance == Spec => []IInv
BY AccessBegins, AccessStep, PTL DEF Spec

\* The state has its types, a request waits for the pool exactly while it is
\* queued, and no more callbacks run than the pool has threads, however many
\* requests come and whatever the callables do.
THEOREM TypeCorrect == Spec => []TypeOK
<1>1. IInv => TypeOK
  <2>1. SUFFICES ASSUME IInv PROVE TypeOK
    OBVIOUS
  <2>2. DOMAIN queue = 1..Len(queue)
    BY DEF IInv, QueueOK
  <2>3. /\ \A o \in Requests :
             (op[o].phase = "queued") <=> \E i \in DOMAIN queue : queue[i] = o
        /\ Cardinality(Running) <= PoolSize
    BY <2>1, <2>2 DEF IInv, QueueOK
  <2>4. \A o \in Requests : op[o].phase \in {"idle", "queued", "running", "ended"}
    BY <2>1 DEF IInv, OpsOK, OpOK
  <2> QED
    BY <2>1, <2>3, <2>4 DEF IInv, CacheOK, TypeOK
<1> QED
  BY <1>1, AccessInvariance, PTL

\* A server's logical devices have no data attribute in common that the
\* registry would find under one key.
NoTwins ==
    \A a, b \in Attributes : CanonicalPath(a) = CanonicalPath(b) => a = b

\* Unless two logical devices share the name of a data attribute, every
\* access of an attribute is put to a callback registered for it, whatever
\* is registered meanwhile; a choice of a setting group to one of its
\* logical device.
THEOREM OwnAnswers == NoTwins /\ Spec => []OwnCallbackAnswers
<1> SUFFICES ASSUME NoTwins PROVE Spec => []OwnCallbackAnswers
  OBVIOUS
<1>1. IInv => OwnCallbackAnswers
  <2>1. SUFFICES ASSUME IInv, NEW o \in Requests,
                        op[o].phase = "ended", op[o].asked # NoHandler
                 PROVE  CASE op[o].kind \in {"read", "write"} ->
                               Indexed(op[o].asked.path) = op[o].attr
                          [] op[o].kind = "select" ->
                               op[o].asked.path[1] = op[o].attr.ld
                          [] OTHER -> TRUE
    BY DEF OwnCallbackAnswers
  <2>2. /\ op[o].kind \in Kinds /\ op[o].attr \in Attributes
        /\ OwnPath(Slot(op[o].kind, op[o].attr), op[o].asked)
    BY <2>1 DEF IInv, OpsOK, OpOK
  <2>3. CASE op[o].kind \in {"read", "write"}
    <3>1. /\ op[o].asked.path \in Paths
          /\ CanonicalPath(Indexed(op[o].asked.path)) = CanonicalPath(op[o].attr)
      BY <2>2, <2>3, SlotFacts DEF OwnPath
    <3>2. Indexed(op[o].asked.path) = op[o].attr
      BY <2>2, <3>1, IndexedFacts DEF NoTwins
    <3> QED
      BY <2>3, <3>2
  <2>4. CASE op[o].kind = "select"
    <3>1. op[o].asked.path[1] = op[o].attr.ld
      BY <2>2, <2>4, SlotFacts DEF OwnPath
    <3> QED
      BY <2>4, <3>1
  <2> QED
    BY <2>2, <2>3, <2>4 DEF Kinds
<1> QED
  BY <1>1, AccessInvariance, PTL

\* A read that succeeds gives the value its callback returned, or one that
\* the attribute held while the read was under way, however updates and
\* writes come between; a callback that failed never reads as a value.
THEOREM ReadsTrue == Spec => []ReadsAreTrue
<1>1. IInv => ReadsAreTrue
  BY DEF IInv, OpsOK, OpOK, ReadTrue, ReadsAreTrue
<1> QED
  BY <1>1, AccessInvariance, PTL

\* The name of an exception's code is none of the other outcomes.
LEMMA DataAccessFacts ==
    ASSUME NEW r PROVE DataAccess(r) \notin {"Accept", "AcceptNoUpdate"}
<1>1. \A i \in DOMAIN DataAccessNames :
         DataAccessNames[i] \notin {"Accept", "AcceptNoUpdate"}
  BY DEF DataAccessNames
<1> QED
  BY <1>1 DEF DataAccess

\* A callback agrees to a write with exactly True, to a choice of a setting
\* group or an association with True or None, and refuses the latter with a
\* diagnostic of authentication.
LEMMA Agreements ==
    ASSUME NEW r
    PROVE  /\ WriteOutcome(r).kind = "Accept" <=> r = Number("bool", 1)
           /\ SelectOutcome(r).kind = "Accept" <=> r \in {None, Number("bool", 1)}
           /\ IF r \in {None, Number("bool", 1)} THEN Decision(r).kind = "Accept"
              ELSE Decision(r).value.num \in AuthenticationRefusals
<1>1. /\ None.type = "None" /\ Number("bool", 1).type = "bool"
      /\ Number("bool", 1).num = 1 /\ Number("bool", 0).num = 0
      /\ \A n : Number("int", n).num = n
  BY DEF None, Number, Value
<1>2. None # Number("bool", 1) /\ Number("bool", 0) # Number("bool", 1)
  <2>1. None.type # Number("bool", 1).type /\ Number("bool", 0).num # Number("bool", 1).num
    BY <1>1
  <2> QED
    BY <2>1
<1>3. WriteOutcome(r).kind = "Accept" <=> r = Number("bool", 1)
  <2>1. CASE r.type = "raised"
    BY <1>1, <2>1, DataAccessFacts DEF WriteOutcome, Outcome
  <2>2. CASE r.type # "raised"
    BY <1>2, <2>2 DEF WriteOutcome, Outcome
  <2> QED
    BY <2>1, <2>2
<1>4. SelectOutcome(r).kind = "Accept" <=> r \in {None, Number("bool", 1)}
  BY DEF SelectOutcome, Outcome
<1>5. CASE r \in {None, Number("bool", 1)}
  <2>1. r.type \notin {"str", "int"}
    BY <1>1, <1>5
  <2> QED
    BY <1>3, <1>4, <1>5, <2>1 DEF Decision, Outcome
<1>6. CASE r \notin {None, Number("bool", 1)}
  <2>1. 13 \in AuthenticationRefusals
    BY DEF AuthenticationRefusals
  <2>2. CASE r.type \in {"str", "int"} /\ r.num \in AuthenticationRefusals
    BY <1>1, <1>3, <1>4, <1>6, <2>2 DEF Decision, Outcome
  <2>3. CASE ~ (r.type \in {"str", "int"} /\ r.num \in AuthenticationRefusals)
    BY <1>1, <1>3, <1>4, <1>6, <2>1, <2>3 DEF Decision, Outcome, AuthenticationFailure
  <2> QED
    BY <2>2, <2>3
<1> QED
  BY <1>5, <1>6

\* What a callable that comes back makes of its request.
LEMMA ReturnDecides ==
    ASSUME IInv, NEW o \in Requests, Returned(o)
    PROVE  LET yes == op'[o].returned = Number("bool", 1)
               agreed == yes \/ op'[o].returned = None
           IN  CASE op[o].kind = "write" ->
                      IF yes THEN cache' = [cache EXCEPT ![op[o].attr] = op[o].value]
                      ELSE cache' = cache
                 [] op[o].kind = "select" ->
                      active' = IF agreed THEN op[o].value.num ELSE active
                 [] op[o].kind = "associate" ->
                      IF agreed THEN op'[o].outcome.kind = "Accept"
                      ELSE op'[o].outcome.value.num \in AuthenticationRefusals
                 [] OTHER -> cache' = cache /\ active' = active
<1>1. PICK r \in Returns :
         /\ op[o].phase = "running"
         /\ Settle(o, [op[o] EXCEPT !.returned = r,
                           !.outcome = OutcomeOf(op[o].kind, r)])
  BY DEF Returned
<1>2. PICK was : was = op[o]
  OBVIOUS
<1>3. PICK outcome : outcome = OutcomeOf(was.kind, r)
  OBVIOUS
<1>4. PICK t : t = [was EXCEPT !.returned = r, !.outcome = outcome]
  OBVIOUS
<1>5. /\ DOMAIN op = Requests /\ \A k \in Requests : DOMAIN op[k] = Fields
      /\ DOMAIN was = Fields /\ was.kind \in Kinds
  BY <1>1, <1>2 DEF IInv, OpsOK, OpOK
<1>6. /\ DOMAIN t = Fields /\ t.kind = was.kind /\ t.attr = was.attr
      /\ t.value = was.value /\ t.returned = r /\ t.outcome = outcome
  BY <1>4, <1>5 DEF Fields
<1>7. Settle(o, t)
  BY <1>1, <1>2, <1>3, <1>4
<1>8. op'[o].returned = r /\ op'[o].outcome = outcome
  <2>1. PICK answer : \E final :
           /\ final = [t EXCEPT !.phase = "ended", !.answer = answer,
                                !.seen = IF t.kind = "read" THEN @ ELSE {}]
           /\ op' = Witness([op EXCEPT ![o] = final], cache')
    BY <1>7 DEF Settle
  <2>2. PICK final :
           /\ final = [t EXCEPT !.phase = "ended", !.answer = answer,
                                !.seen = IF t.kind = "read" THEN @ ELSE {}]
           /\ op' = Witness([op EXCEPT ![o] = final], cache')
    BY <2>1
  <2>3. final.phase = "ended" /\ final.returned = r /\ final.outcome = outcome
    BY <1>6, <2>2 DEF Fields
  <2>4. op'[o] = final
    BY <1>5, <2>2, <2>3 DEF Witness
  <2> QED
    BY <2>3, <2>4
<1>9. /\ cache' = IF was.kind = "write" /\ outcome.kind = "Accept"
                  THEN [cache EXCEPT ![was.attr] = was.value] ELSE cache
      /\ active' = IF was.kind = "select" /\ outcome.kind = "Accept"
                   THEN was.value.num ELSE active
  BY <1>6, <1>7 DEF Settle
<1>10. CASE was.kind = "write"
  <2>1. outcome.kind = "Accept" <=> r = Number("bool", 1)
    BY <1>3, <1>10, Agreements DEF OutcomeOf
  <2> QED
    BY <1>2, <1>8, <1>9, <1>10, <2>1
<1>11. CASE was.kind = "select"
  <2>1. outcome.kind = "Accept" <=> r \in {None, Number("bool", 1)}
    BY <1>3, <1>11, Agreements DEF OutcomeOf
  <2> QED
    BY <1>2, <1>8, <1>9, <1>11, <2>1
<1>12. CASE was.kind = "associate"
  <2>1. outcome = Decision(r)
    BY <1>3, <1>12 DEF OutcomeOf
  <2> QED
    BY <1>2, <1>8, <1>12, <2>1, Agreements
<1>13. CASE was.kind = "read"
  BY <1>2, <1>9, <1>13
<1> QED
  BY <1>5, <1>10, <1>11, <1>12, <1>13 DEF Kinds

\* A request whose callback runs ends by that callback's return alone.
LEMMA OnlyReturnsEnd ==
    ASSUME IInv, Next, NEW o \in Requests, op[o].phase = "running",
           op'[o].phase = "ended"
    PROVE  Returned(o)
<1>1. DOMAIN op = Requests /\ \A k \in Requests : DOMAIN op[k] = Fields
  BY DEF IInv, OpsOK, OpOK
<1>2. op' # op
  <2>1. op'[o].phase # op[o].phase
    OBVIOUS
  <2> QED
    BY <2>1
<1>3. ASSUME NEW path, NEW f, RegisterAccess(path, f) \/ RegisterGroups(path, f)
      PROVE  FALSE
  BY <1>2, <1>3 DEF RegisterAccess, RegisterGroups, Register
<1>4. ASSUME NEW h, SetAuthenticator(h) PROVE FALSE
  BY <1>2, <1>4 DEF SetAuthenticator
<1>5. ASSUME NEW path, NEW p, Update(path, p) PROVE FALSE
  <2>1. op' = Witness(op, cache')
    BY <1>5 DEF Update
  <2>2. op'[o].phase = op[o].phase
    BY <1>1, <2>1 DEF Witness, Fields
  <2> QED
    BY <2>2
<1>6. ASSUME NEW g, ForceActive(g) PROVE FALSE
  BY <1>2, <1>6 DEF ForceActive
<1>7. ASSUME NEW k \in Requests, Requested(k) PROVE FALSE
  <2>1. op[k].phase = "idle"
    BY <1>7 DEF Requested, Arrive
  <2>2. op'[o].phase = op[o].phase
    BY <1>7, <2>1, RequestedStep
  <2> QED
    BY <2>2
<1>8. ASSUME NEW k \in Requests, Returned(k) PROVE Returned(o)
  <2>1. CASE k = o
    BY <1>8, <2>1
  <2>2. CASE k # o
    BY <1>8, <2>2, ReturnStep
  <2> QED
    BY <2>1, <2>2
<1>9. ASSUME RunNext PROVE FALSE
  <2>1. op' = [op EXCEPT ![Head(queue)].phase = "running"]
    BY <1>9 DEF RunNext
  <2>2. PICK k : k = Head(queue)
    OBVIOUS
  <2>3. op'[o].phase = "running"
    BY <1>1, <2>1, <2>2 DEF Fields
  <2> QED
    BY <2>3
<1> QED
  BY <1>3, <1>4, <1>5, <1>6, <1>7, <1>8, <1>9 DEF Next

\* Nothing passes a callback that did not agree, whatever else happens while
\* it runs: a write is done when the callback returned exactly True, a group
\* chosen and an association admitted for True or None.
THEOREM AskedFirst == Spec => NothingUnasked
<1>1. ASSUME IInv, [Next]_vars
      PROVE  [ \A o \in Requests :
          op'[o].phase = "ended" /\ op[o].phase = "running" =>
            LET yes == op'[o].returned = Number("bool", 1)
                agreed == yes \/ op'[o].returned = None
            IN  CASE op[o].kind = "write" ->
                       IF yes THEN cache' = [cache EXCEPT ![op[o].attr] = op[o].value]
                       ELSE cache' = cache
                  [] op[o].kind = "select" ->
                       active' = IF agreed THEN op[o].value.num ELSE active
                  [] op[o].kind = "associate" ->
                       IF agreed THEN op'[o].outcome.kind = "Accept"
                       ELSE op'[o].outcome.value.num \in AuthenticationRefusals
                  [] OTHER -> cache' = cache /\ active' = active ]_vars
  BY <1>1, OnlyReturnsEnd, ReturnDecides
<1> QED
  BY <1>1, AccessInvariance, PTL DEF Spec, NothingUnasked

----------------------------------------------------------------------------
(* Batches.                                                                *)

\* LockOutlived and LockAccounted are not inductive by themselves: that a
\* guard which holds the lock keeps the server alive has to be known of the
\* guard, from the moment it takes the lock over a stop() to its release.
GuardsKeep == \A g \in Guards :
    guard[g] \in {"active", "releasing", "lost"} => g \in arcs

BatchIInv == BatchTypeOK /\ LockAccounted /\ GuardsKeep

\* It holds before any batch.
LEMMA BatchBegins == BatchInit => BatchIInv
BY NobodyAssumption, GuardAssumption DEF BatchInit, BatchIInv, BatchTypeOK, LockAccounted, GuardsKeep, Waiting

\* Every step keeps the invariant: only LockDataModel and Unlock move the
\* lock, and only ForgetServer gives up a guard's hold on the server.
LEMMA BatchStep == BatchIInv /\ [BatchNext]_batchVars => BatchIInv'
<1> SUFFICES ASSUME BatchIInv, [BatchNext]_batchVars PROVE BatchIInv'
  OBVIOUS
<1> USE NobodyAssumption, GuardAssumption DEF BatchIInv
<1>1. CASE Stop
  <2>1. BatchTypeOK'
    BY <1>1 DEF Stop, BatchTypeOK
  <2>2. LockAccounted'
    BY <1>1 DEF Stop, BatchTypeOK, LockAccounted, Waiting
  <2>3. GuardsKeep'
    BY <1>1 DEF Stop, BatchTypeOK, LockAccounted, GuardsKeep
  <2> QED
    BY <2>1, <2>2, <2>3
<1>2. CASE \E u \in UpdateCalls : UpdateCall(u)
  <2>1. BatchTypeOK'
    BY <1>2 DEF UpdateCall, BatchTypeOK
  <2>2. LockAccounted'
    BY <1>2 DEF UpdateCall, BatchTypeOK, LockAccounted, Waiting
  <2>3. GuardsKeep'
    BY <1>2 DEF UpdateCall, BatchTypeOK, LockAccounted, GuardsKeep
  <2> QED
    BY <2>1, <2>2, <2>3
<1>3. CASE \E t \in Threads : FindServer(t)
  <2>1. BatchTypeOK'
    BY <1>3 DEF FindServer, BatchTypeOK
  <2>2. LockAccounted'
    BY <1>3 DEF FindServer, BatchTypeOK, LockAccounted, Waiting
  <2>3. GuardsKeep'
    BY <1>3 DEF FindServer, BatchTypeOK, LockAccounted, GuardsKeep
  <2> QED
    BY <2>1, <2>2, <2>3
<1>4. CASE \E t \in Threads : BatchRefused(t)
  <2>1. BatchTypeOK'
    BY <1>4 DEF BatchRefused, BatchTypeOK
  <2>2. LockAccounted'
    BY <1>4 DEF BatchRefused, BatchTypeOK, LockAccounted, Waiting
  <2>3. GuardsKeep'
    BY <1>4 DEF BatchRefused, BatchTypeOK, LockAccounted, GuardsKeep
  <2> QED
    BY <2>1, <2>2, <2>3
<1>5. CASE \E t \in Threads, g \in Guards : LockDataModel(t, g)
  <2>1. BatchTypeOK'
    BY <1>5 DEF LockDataModel, BatchTypeOK
  <2>2. LockAccounted'
    BY <1>5 DEF LockDataModel, BatchTypeOK, LockAccounted, Waiting
  <2>3. GuardsKeep'
    BY <1>5 DEF LockDataModel, BatchTypeOK, LockAccounted, GuardsKeep
  <2> QED
    BY <2>1, <2>2, <2>3
<1>6. CASE \E t \in Threads, g \in Guards : Unlock(t, g)
  <2>1. BatchTypeOK'
    BY <1>6 DEF Unlock, BatchTypeOK
  <2>2. LockAccounted'
    BY <1>6 DEF Unlock, BatchTypeOK, LockAccounted, Waiting
  <2>3. GuardsKeep'
    BY <1>6 DEF Unlock, BatchTypeOK, LockAccounted, GuardsKeep
  <2> QED
    BY <2>1, <2>2, <2>3
<1>7. CASE \E t \in Threads, g \in Guards : ForgetServer(t, g)
  <2>1. BatchTypeOK'
    BY <1>7 DEF ForgetServer, BatchTypeOK
  <2>2. LockAccounted'
    BY <1>7 DEF ForgetServer, BatchTypeOK, LockAccounted, Waiting
  <2>3. GuardsKeep'
    BY <1>7 DEF ForgetServer, BatchTypeOK, LockAccounted, GuardsKeep
  <2> QED
    BY <2>1, <2>2, <2>3
<1>8. CASE \E t \in Threads, g \in Guards : DropElsewhere(t, g)
  <2>1. BatchTypeOK'
    BY <1>8 DEF DropElsewhere, BatchTypeOK
  <2>2. LockAccounted'
    BY <1>8 DEF DropElsewhere, BatchTypeOK, LockAccounted, Waiting
  <2>3. GuardsKeep'
    BY <1>8 DEF DropElsewhere, BatchTypeOK, LockAccounted, GuardsKeep
  <2> QED
    BY <2>1, <2>2, <2>3
<1>9. CASE UNCHANGED batchVars
  BY <1>9 DEF batchVars, BatchTypeOK, LockAccounted, GuardsKeep, Waiting
<1> QED
  BY <1>1, <1>2, <1>3, <1>4, <1>5, <1>6, <1>7, <1>8, <1>9 DEF BatchNext

\* The invariant holds of every state the batches reach.
THEOREM BatchInvariance == BatchSpec => []BatchIInv
BY BatchBegins, BatchStep, PTL DEF BatchSpec

\* The threads, guards and triggers keep their types: the data-model lock is
\* a guard's of this library or nobody's.
THEOREM BatchTypeCorrect == BatchSpec => []BatchTypeOK
<1>1. BatchIInv => BatchTypeOK
  BY DEF BatchIInv
<1> QED
  BY <1>1, BatchInvariance, PTL

\* The library's own references keep the server alive for as long as its
\* data-model lock is held, which is what the unsafe code of batch() needs.
THEOREM ServerOutlivesLock == BatchSpec => []LockOutlived
<1>1. BatchIInv => LockOutlived
  BY DEF BatchIInv, BatchTypeOK, LockAccounted, GuardsKeep, LockOutlived
<1> QED
  BY <1>1, BatchInvariance, PTL

\* The lock belongs to the open batch or to a guard lost to another thread,
\* and no trigger waits without one.
THEOREM LockHasHolder == BatchSpec => []LockAccounted
<1>1. BatchIInv => LockAccounted
  BY DEF BatchIInv
<1> QED
  BY <1>1, BatchInvariance, PTL

\* What is updated while a batch is open is raised in the step that closes
\* it, all of it together.
THEOREM RaisedTogether == BatchSpec => BatchIsOne
<1> DEFINE Step(u) ==
      /\ trigger[u] = "none" /\ trigger'[u] = "raised" => Active = {}
      /\ u \in Waiting /\ trigger'[u] = "raised" =>
            Active # {} /\ Active' = {} /\ Waiting' = {}
<1>1. ASSUME BatchIInv, [BatchNext]_batchVars, NEW u \in UpdateCalls PROVE Step(u)
  <2> USE <1>1, NobodyAssumption
      DEF BatchIInv, BatchTypeOK, LockAccounted, Waiting, Active
  <2>1. CASE \E w \in UpdateCalls : UpdateCall(w)
    BY <2>1 DEF UpdateCall
  <2>2. CASE \E t \in Threads, g \in Guards : Unlock(t, g)
    BY <2>2 DEF Unlock
  <2>3. CASE UNCHANGED trigger
    BY <2>3
  <2> QED
    BY <2>1, <2>2, <2>3
    DEF BatchNext, batchVars, Stop, FindServer, BatchRefused, LockDataModel,
        ForgetServer, DropElsewhere
<1>2. BatchIInv /\ [BatchNext]_batchVars => [\A u \in UpdateCalls : Step(u)]_batchVars
  BY <1>1
<1> QED
  BY <1>2, BatchInvariance, PTL DEF BatchIsOne, BatchSpec
=============================================================================
