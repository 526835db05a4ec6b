------------------------- MODULE RegistrationProofs -------------------------
(***************************************************************************)
(* Proofs about Registration, for any number of targets, blocks and        *)
(* callbacks: the type of the state, that every block is served once, and  *)
(* that the registrations implement RegistrationPromise. The argument is   *)
(* that the queue holds a block once, with a report's data set before it   *)
(* (QueueOK); that what is left to replay is the end of the queue          *)
(* (ReplayOK), so that what is installed is what the entries before left   *)
(* in force (InstalledOK); and that each pass has served just what the     *)
(* queue asked of it (BlocksOK). What retain() keeps is a recursion over   *)
(* the queue: it is reasoned about by the least place at which a claim     *)
(* would fail.                                                             *)
(***************************************************************************)
EXTENDS Registration, SequenceTheorems, WellFoundedInduction, TLAPS

----------------------------------------------------------------------------
(* Induction over the naturals, in the form the provers can use: a set     *)
(* that is not empty has a least element.                                  *)

\* A set of numbers that is not empty has a least element.
LEMMA LeastOf ==
    ASSUME NEW T, T \subseteq Nat, T # {}
    PROVE  \E m \in T : \A n \in T : m <= n
<1> DEFINE R == OpToRel(<, Nat)
<1>1. \E m \in T : \A n \in T : ~ (<<n, m>> \in R)
  BY NatLessThanWellFounded, WFMin
<1>2. \A m, n \in Nat : <<n, m>> \in R <=> n < m
  BY DEF OpToRel
<1> HIDE DEF R
<1>3. PICK m \in T : \A n \in T : ~ (<<n, m>> \in R)
  BY <1>1
<1>4. ASSUME NEW n \in T PROVE m <= n
  <2>1. m \in Nat /\ n \in Nat
    BY <1>3
  <2>2. ~ (<<n, m>> \in R)
    BY <1>3
  <2>3. ~ (n < m)
    BY <1>2, <2>1, <2>2, Zenon
  <2> QED
    BY <2>1, <2>3
<1> QED
  BY <1>3, <1>4

\* And a greatest one, when the numbers have a bound.
LEMMA GreatestOf ==
    ASSUME NEW n \in Nat, NEW T, T \subseteq 1..n, T # {}
    PROVE  \E m \in T : \A k \in T : k <= m
<1> DEFINE U == {u \in Nat : n - u \in T}
<1>1. U # {}
  <2>1. PICK k \in T : TRUE
    OBVIOUS
  <2>2. n - k \in Nat /\ n - (n - k) = k
    BY <2>1
  <2> QED
    BY <2>1, <2>2
<1>2. PICK u \in U : \A v \in U : u <= v
  BY <1>1, LeastOf
<1>3. ASSUME NEW k \in T PROVE k <= n - u
  <2>1. n - k \in Nat /\ n - (n - k) = k
    OBVIOUS
  <2>2. n - k \in U
    BY <2>1
  <2> QED
    BY <1>2, <2>1, <2>2
<1> QED
  BY <1>2, <1>3

----------------------------------------------------------------------------
(* What retain() leaves of a queue.                                        *)

\* The filter satisfies its defining equation: by the least place at which
\* it would not, as the prover has no induction for it.
LEMMA RetainedEquation ==
    ASSUME NEW q, Len(q) \in Nat, NEW d
    PROVE  Retained(q, d) =
              [n \in 0..Len(q) |->
                  IF n = 0 THEN <<>>
                  ELSE IF q[n].target = d THEN Retained(q, d)[n - 1]
                  ELSE Append(Retained(q, d)[n - 1], q[n])]
<1> DEFINE Next1(g, n) == IF n = 0 THEN <<>>
                          ELSE IF q[n].target = d THEN g[n - 1]
                          ELSE Append(g[n - 1], q[n])
           Upto(g, m) == g = [n \in 0..m |-> Next1(g, n)]
           Missing == {m \in 0..Len(q) : ~ \E g : Upto(g, m)}
<1>1. \A m \in 0..Len(q) : (\E g : Upto(g, m)) \/ m \in Missing
  OBVIOUS
<1>2. Missing \subseteq 0..Len(q) /\ Missing \subseteq Nat
  OBVIOUS
<1>3. ASSUME NEW m \in Missing PROVE ~ \E g : Upto(g, m)
  BY <1>3
<1>4. Missing = {}
  <2> SUFFICES ASSUME Missing # {} PROVE FALSE
    OBVIOUS
  <2> HIDE DEF Missing
  <2>1. PICK m \in Missing : \A k \in Missing : m <= k
    BY <1>2, LeastOf
  <2>2. m \in 0..Len(q)
    BY <1>2, <2>1
  <2>3. CASE m = 0
    <3> DEFINE g == [n \in 0..0 |-> <<>>]
    <3>1. Upto(g, 0)
      OBVIOUS
    <3> QED
      BY <1>3, <2>1, <2>3, <3>1
  <2>4. CASE m # 0
    <3>1. m - 1 \in 0..Len(q) /\ ~ (m <= m - 1)
      BY <2>2, <2>4
    <3>2. m - 1 \notin Missing
      BY <2>1, <3>1
    <3>3. PICK g : Upto(g, m - 1)
      BY <1>1, <3>1, <3>2
    <3> DEFINE h == [n \in 0..m |-> IF n = m THEN Next1(g, m) ELSE g[n]]
    <3>4. ASSUME NEW n \in 0..m PROVE h[n] = Next1(h, n)
      <4>1. n # 0 => n - 1 \in 0..(m - 1) /\ h[n - 1] = g[n - 1]
        <5>1. n # 0 => n - 1 \in 0..m /\ n - 1 # m /\ n - 1 \in 0..(m - 1)
          BY <2>2
        <5> HIDE DEF Next1
        <5> QED
          BY <5>1
      <4>2. n # m => n \in 0..(m - 1) /\ g[n] = Next1(g, n)
        <5>1. n # m => n \in 0..(m - 1)
          BY <2>2
        <5>2. g = [k \in 0..(m - 1) |-> Next1(g, k)]
          BY <3>3
        <5> HIDE DEF Next1
        <5>3. \A k \in 0..(m - 1) : g[k] = Next1(g, k)
          BY <5>2
        <5> QED
          BY <5>1, <5>3
      <4> QED
        BY <4>1, <4>2
    <3>5. Upto(h, m)
      BY <3>4
    <3> QED
      BY <1>3, <2>1, <3>5
  <2> QED
    BY <2>3, <2>4
<1>5. \E g : Upto(g, Len(q))
  BY <1>1, <1>4
<1>6. Upto(CHOOSE g : Upto(g, Len(q)), Len(q))
  BY <1>5
<1>7. Retained(q, d) = CHOOSE g : Upto(g, Len(q))
  BY DEF Retained
<1> QED
  BY <1>6, <1>7
\* r is what is left of the first n entries of q: h gives the place in q of
\* each entry of r, in their order, and leaves out no entry but those of d.
Picks(h, r, q, n, d) ==
    /\ h \in [1..Len(r) -> 1..n]
    /\ \A k \in 1..Len(r) : q[h[k]] = r[k] /\ r[k].target # d
    /\ \A j, k \in 1..Len(r) : j < k => h[j] < h[k]
    /\ \A i \in 1..n : q[i].target # d => \E k \in 1..Len(r) : h[k] = i

\* One more entry of the queue, kept or left out.
LEMMA RetainedStep ==
    ASSUME NEW S, NEW q \in Seq(S), NEW d, NEW n \in 1..Len(q),
           NEW r \in Seq(S), NEW h, Picks(h, r, q, n - 1, d),
           NEW s, s = IF q[n].target = d THEN r ELSE Append(r, q[n])
    PROVE  s \in Seq(S) /\ \E g : Picks(g, s, q, n, d)
<1>1. Len(r) \in Nat /\ Len(q) \in Nat /\ q[n] \in S /\ n \in Nat
  BY LenProperties, ElementOfSeq
<1>2. CASE q[n].target = d
  <2>1. Picks(h, r, q, n, d)
    BY <1>1, <1>2 DEF Picks
  <2> QED
    BY <1>2, <2>1
<1>3. CASE q[n].target # d
  <2> DEFINE g == [k \in 1..(Len(r) + 1) |-> IF k \in 1..Len(r) THEN h[k] ELSE n]
  <2>1. /\ s \in Seq(S) /\ Len(s) = Len(r) + 1 /\ s[Len(r) + 1] = q[n]
        /\ \A k \in 1..Len(r) : s[k] = r[k]
    BY <1>1, <1>3, AppendProperties
  <2>2. \A k \in 1..Len(r) : /\ g[k] = h[k] /\ h[k] \in 1..(n - 1)
                             /\ k \in 1..(Len(r) + 1)
    <3>1. h \in [1..Len(r) -> 1..(n - 1)]
      BY DEF Picks
    <3>2. \A k \in 1..Len(r) : k \in 1..(Len(r) + 1)
      BY <1>1
    <3> QED
      BY <3>1, <3>2
  <2>3. g[Len(r) + 1] = n /\ Len(r) + 1 \in 1..(Len(r) + 1)
    BY <1>1
  <2>4. \A k \in 1..(Len(r) + 1) : k \in 1..Len(r) \/ k = Len(r) + 1
    BY <1>1
  <2>5. g \in [1..Len(s) -> 1..n]
    <3>1. n \in 1..n /\ \A i \in 1..(n - 1) : i \in 1..n
      BY <1>1
    <3> QED
      BY <2>1, <2>2, <3>1
  <2> HIDE DEF g
  <2>6. ASSUME NEW k \in 1..Len(s) PROVE q[g[k]] = s[k] /\ s[k].target # d
    BY <1>3, <2>1, <2>2, <2>3, <2>4 DEF Picks
  <2>7. ASSUME NEW j \in 1..Len(s), NEW k \in 1..Len(s), j < k
        PROVE  g[j] < g[k]
    <3>1. j \in 1..Len(r)
      BY <1>1, <2>1, <2>7
    <3>2. CASE k \in 1..Len(r)
      BY <2>2, <2>7, <3>1, <3>2 DEF Picks
    <3>3. CASE k = Len(r) + 1
      BY <1>1, <2>2, <2>3, <3>1, <3>3
    <3> QED
      BY <2>1, <2>4, <3>2, <3>3
  <2>8. ASSUME NEW i \in 1..n, q[i].target # d
        PROVE  \E k \in 1..Len(s) : g[k] = i
    <3>1. CASE i = n
      BY <2>1, <2>3, <3>1
    <3>2. CASE i \in 1..(n - 1)
      BY <2>1, <2>2, <2>8, <3>2 DEF Picks
    <3> QED
      BY <1>1, <3>1, <3>2
  <2>9. Picks(g, s, q, n, d)
    BY <2>5, <2>6, <2>7, <2>8 DEF Picks
  <2> QED
    BY <2>1, <2>9
<1> QED
  BY <1>2, <1>3

\* What is retained of every prefix picks the entries of the other
\* targets, in their order.
LEMMA RetainedPicks ==
    ASSUME NEW S, NEW q \in Seq(S), NEW d
    PROVE  \A n \in 0..Len(q) : /\ Retained(q, d)[n] \in Seq(S)
                                /\ \E h : Picks(h, Retained(q, d)[n], q, n, d)
<1> DEFINE kept == Retained(q, d)
           Good(n) == kept[n] \in Seq(S) /\ \E h : Picks(h, kept[n], q, n, d)
           Bad == {n \in 0..Len(q) : ~Good(n)}
<1>1. Len(q) \in Nat
  BY LenProperties
<1>2. \A n \in 0..Len(q) :
          kept[n] = IF n = 0 THEN <<>>
                    ELSE IF q[n].target = d THEN kept[n - 1]
                    ELSE Append(kept[n - 1], q[n])
  <2>1. kept = [n \in 0..Len(q) |->
                  IF n = 0 THEN <<>>
                  ELSE IF q[n].target = d THEN kept[n - 1]
                  ELSE Append(kept[n - 1], q[n])]
    BY <1>1, RetainedEquation
  <2> HIDE DEF kept
  <2> QED
    BY <2>1
<1> HIDE DEF kept
<1>3. \A n \in 0..Len(q) : Good(n) \/ n \in Bad
  OBVIOUS
<1>4. Bad \subseteq Nat /\ Bad \subseteq 0..Len(q) /\ \A n \in Bad : ~Good(n)
  BY <1>1
<1>5. Good(0)
  <2>1. kept[0] = <<>>
    BY <1>1, <1>2
  <2>2. Picks([k \in 1..0 |-> 0], <<>>, q, 0, d)
    BY EmptySeq DEF Picks
  <2> QED
    BY <2>1, <2>2, EmptySeq
<1>6. ASSUME NEW n \in 1..Len(q), Good(n - 1) PROVE Good(n)
  <2>1. PICK h : Picks(h, kept[n - 1], q, n - 1, d)
    BY <1>6
  <2>2. kept[n] = IF q[n].target = d THEN kept[n - 1]
                  ELSE Append(kept[n - 1], q[n])
    BY <1>1, <1>2
  <2> QED
    BY <1>6, <2>1, <2>2, RetainedStep
<1> HIDE DEF Good, Bad
<1>7. Bad = {}
  <2> SUFFICES ASSUME Bad # {} PROVE FALSE
    OBVIOUS
  <2>1. PICK n \in Bad : \A k \in Bad : n <= k
    BY <1>4, LeastOf
  <2>2. n # 0
    BY <1>4, <1>5, <2>1
  <2>3. n \in 1..Len(q) /\ n - 1 \in 0..Len(q) /\ ~ (n <= n - 1)
    BY <1>1, <1>4, <2>1, <2>2
  <2>4. Good(n - 1)
    BY <1>3, <2>1, <2>3
  <2> QED
    BY <1>4, <1>6, <2>1, <2>3, <2>4
<1>8. \A n \in 0..Len(q) : Good(n)
  BY <1>3, <1>7
<1> QED
  BY <1>8 DEF Good, kept

\* retain() keeps the entries of the other targets, each once and in order.
LEMMA WithoutPicks ==
    ASSUME NEW S, NEW q \in Seq(S), NEW d
    PROVE  /\ Without(q, d) \in Seq(S)
           /\ \E h : Picks(h, Without(q, d), q, Len(q), d)
<1>1. Len(q) \in 0..Len(q)
  BY LenProperties
<1> QED
  BY <1>1, RetainedPicks DEF Without

----------------------------------------------------------------------------
For(e, t) == e.kind = "callback" /\ e.target = t

\* v is what the first n entries of q leave in force for t.
IsLast(v, q, n, t) ==
    \/ v = None /\ \A i \in 1..n : ~For(q[i], t)
    \/ \E i \in 1..n : /\ For(q[i], t) /\ q[i].value = v
                       /\ \A k \in (i + 1)..n : ~For(q[k], t)

\* Every block is queued once, and so is the handler of a domain; a report
\* is queued with its data set.
QueueOK(q) ==
    /\ \A i, k \in 1..Len(q) :
          /\ q[i].target = q[k].target
          /\ q[i].target \in Domains \cup Blocks
          => i = k
    /\ \A i \in 1..Len(q) : q[i].kind = "report" =>
          \E k \in 1..Len(q) :
              q[k].kind = "dataset" /\ q[k].target = q[i].value

Building == state \in {"Starting", "Running"}

Asked(b) == \E i \in 1..Len(queue) : queue[i].target = b

Brought(b) ==
    \E i \in 1..Len(queue) : queue[i].kind = "report" /\ queue[i].value = b

\* What the passes have registered with the server so far.
InServer(b) ==
    /\ Building
    /\ \/ /\ step \in {"datasets", "logs", "model", "up"}
          /\ (b \in Reports /\ Asked(b)) \/ Brought(b)
       \/ step \in {"logs", "model", "up"} /\ b \in DataSets /\ Asked(b)
       \/ step \in {"model", "up"} /\ b \in Logs /\ Asked(b)
       \/ fromModel /\ b \in Declared

BlocksOK ==
    /\ \A b \in Blocks : served[b] = IF InServer(b) THEN 1 ELSE 0
    /\ fromModel => /\ Building /\ step = "up"
                    /\ \A b \in Declared : ~Asked(b)

BoundOK ==
    Building /\ step \in {"datasets", "logs", "model", "up"} =>
        \A i \in 1..Len(queue) :
            queue[i].kind = "report" =>
                bindings[queue[i].target] = queue[i].value

\* What is left to replay is the end of the queue.
ReplayOK ==
    /\ Len(replay) <= Len(queue)
    /\ state = "Starting" /\ step # "callbacks" => replay = <<>>
    /\ \A i \in 1..Len(replay) :
          replay[i] = queue[i + (Len(queue) - Len(replay))]

\* The callbacks installed are those of the entries replayed.
InstalledOK ==
    /\ state = "Starting" =>
        /\ \A t \in Attributes \cup Controls :
              \/ IsLast(installed[t], queue, Len(queue) - Len(replay), t)
              \/ /\ step = "up" /\ installed[t] = ModelEntry
                 /\ IsLast(None, queue, Len(queue), t)
        /\ \A t \in Domains :
              IF step \in {"model", "up"}
              THEN IsLast(installed[t], queue, Len(queue), t)
              ELSE installed[t] = None
    /\ state = "Running" => step = "up"

Fresh ==
    state = "NotStarted" => /\ step = "callbacks" /\ replay = <<>>
                            /\ installed = Nothing

IInv ==
    /\ TypeOK /\ QueueOK(queue) /\ BlocksOK /\ BoundOK
    /\ ReplayOK /\ InstalledOK /\ Fresh

----------------------------------------------------------------------------
(* The entries of the queue, and what the passes look for in it.           *)

\* An entry is of one of five kinds, each with its target and value.
LEMMA EntryFacts ==
    \A e \in Entries :
        \/ e.kind = "callback" /\ e.target \in Targets /\ e.value \in Callbacks
        \/ e.kind = "dataset" /\ e.target \in DataSets
        \/ e.kind = "report" /\ e.target \in Reports /\ e.value \in DataSets
        \/ e.kind = "log" /\ e.target \in Logs /\ e.value \in DataSets
        \/ e.kind = "model" /\ e.target = None
BY DEF Entries, Callback, DataSet, Report, Log, FromModel

\* The target of an entry tells its kind.
LEMMA KindOfTarget ==
    \A e \in Entries :
        /\ e.kind = "callback" <=> e.target \in Targets
        /\ e.kind = "dataset" <=> e.target \in DataSets
        /\ e.kind = "report" <=> e.target \in Reports
        /\ e.kind = "log" <=> e.target \in Logs
BY EntryFacts, TargetsAssumption, BlocksAssumption DEF Targets

\* What the registrations append are entries.
LEMMA NewEntries ==
    /\ \A t \in Targets, cb \in Callbacks : Callback(t, cb) \in Entries
    /\ \A d \in DataSets : DataSet(d) \in Entries
    /\ \A r \in Reports, d \in DataSets : Report(r, d) \in Entries
    /\ \A l \in Logs, d \in DataSets : Log(l, d) \in Entries
    /\ FromModel \in Entries
BY DEF Entries

\* The length and the places of a queue.
LEMMA SeqFacts ==
    ASSUME NEW q \in Seq(Entries)
    PROVE  /\ Len(q) \in Nat /\ DOMAIN q = 1..Len(q)
           /\ \A i \in 1..Len(q) : q[i] \in Entries
BY LenProperties, ElementOfSeq

\* What is pending of a kind, and for a target, has a place in the queue.
LEMMA PendingPlaces ==
    ASSUME queue \in Seq(Entries), NEW kind, NEW t
    PROVE  /\ Pending(kind) = {queue[i] : i \in {k \in 1..Len(queue) :
                                            queue[k].kind = kind}}
           /\ \A i \in 1..Len(queue) :
                  queue[i].kind = kind /\ queue[i].target = t =>
                      queue[i] \in PendingFor(kind, t)
           /\ \A e \in PendingFor(kind, t) :
                  \E i \in 1..Len(queue) :
                      /\ e = queue[i] /\ queue[i].kind = kind
                      /\ queue[i].target = t
BY SeqFacts DEF Pending, PendingFor, Range

\* A block's, or a domain's, pending entry is the only one.
LEMMA PendingUnique ==
    ASSUME queue \in Seq(Entries), QueueOK(queue), NEW kind,
           NEW i \in 1..Len(queue), queue[i].kind = kind,
           queue[i].target \in Domains \cup Blocks
    PROVE  /\ PendingFor(kind, queue[i].target) # {}
           /\ (CHOOSE e \in PendingFor(kind, queue[i].target) : TRUE) = queue[i]
<1> DEFINE S == PendingFor(kind, queue[i].target)
<1>1. queue[i] \in S
  BY PendingPlaces
<1>2. \A e \in S : e = queue[i]
  BY PendingPlaces DEF QueueOK
<1> QED
  BY <1>1, <1>2

----------------------------------------------------------------------------
(* What is last in force.                                                  *)

\* LastQueued is the last in force after the whole queue, and the only one.
LEMMA LastIsLast ==
    ASSUME NEW q \in Seq(Entries), NEW t
    PROVE  \A v : IsLast(v, q, Len(q), t) <=> v = LastQueued(q, t)
<1> DEFINE at == {i \in DOMAIN q : q[i].kind = "callback" /\ q[i].target = t}
<1>1. /\ Len(q) \in Nat /\ at \subseteq 1..Len(q)
      /\ \A i \in 1..Len(q) : i \in at <=> For(q[i], t)
  BY SeqFacts DEF For
<1>2. LastQueued(q, t) = IF at = {} THEN None
                         ELSE q[CHOOSE i \in at : \A j \in at : j <= i].value
  BY DEF LastQueued
<1> HIDE DEF at
<1>3. CASE at = {}
  BY <1>1, <1>2, <1>3 DEF IsLast
<1>4. CASE at # {}
  <2>1. \E i \in at : \A j \in at : j <= i
    BY <1>1, <1>4, GreatestOf
  <2> DEFINE m == CHOOSE i \in at : \A j \in at : j <= i
  <2>2. m \in at /\ \A j \in at : j <= m
    BY <2>1
  <2>3. LastQueued(q, t) = q[m].value
    BY <1>2, <1>4
  <2> HIDE DEF m
  <2>4. \A i \in at : (\A k \in (i + 1)..Len(q) : k \notin at) <=> i = m
    <3> SUFFICES ASSUME NEW i \in at
                 PROVE  (\A k \in (i + 1)..Len(q) : k \notin at) <=> i = m
      OBVIOUS
    <3>1. i \in 1..Len(q) /\ m \in 1..Len(q) /\ i <= m
      BY <1>1, <2>2
    <3>2. i # m => m \in (i + 1)..Len(q)
      BY <1>1, <3>1
    <3>3. \A k \in (m + 1)..Len(q) : k \notin at
      BY <1>1, <2>2, <3>1
    <3> QED
      BY <2>2, <3>2, <3>3
  <2>5. \A i \in 1..Len(q) : \A k \in (i + 1)..Len(q) : k \in 1..Len(q)
    BY <1>1
  <2>6. \A v : IsLast(v, q, Len(q), t) <=>
                 \E i \in at : /\ q[i].value = v
                               /\ \A k \in (i + 1)..Len(q) : k \notin at
    BY <1>1, <1>4, <2>5 DEF IsLast
  <2> QED
    BY <2>2, <2>3, <2>4, <2>6
<1> QED
  BY <1>3, <1>4

\* The next entry takes the place of the last in force, or leaves it.
LEMMA LastStep ==
    ASSUME NEW q, NEW n \in Nat, NEW t, NEW v, IsLast(v, q, n, t)
    PROVE  IsLast(IF For(q[n + 1], t) THEN q[n + 1].value ELSE v, q, n + 1, t)
<1>1. CASE For(q[n + 1], t)
  <2>1. n + 1 \in 1..(n + 1) /\ (n + 1 + 1)..(n + 1) = {}
    OBVIOUS
  <2> QED
    BY <1>1, <2>1 DEF IsLast
<1>2. CASE ~For(q[n + 1], t)
  <2>1. \A i \in 1..(n + 1) : i \in 1..n \/ i = n + 1
    OBVIOUS
  <2>2. ASSUME NEW i \in 1..n, For(q[i], t), q[i].value = v,
               \A k \in (i + 1)..n : ~For(q[k], t)
        PROVE  IsLast(v, q, n + 1, t)
    <3>1. i \in 1..(n + 1)
          /\ \A k \in (i + 1)..(n + 1) : k \in (i + 1)..n \/ k = n + 1
      OBVIOUS
    <3> QED
      BY <1>2, <2>2, <3>1 DEF IsLast
  <2> QED
    BY <1>2, <2>1, <2>2 DEF IsLast
<1> QED
  BY <1>1, <1>2

\* A registration that is appended is the last for its target.
LEMMA LastAppend ==
    ASSUME NEW q \in Seq(Entries), NEW e \in Entries, NEW t
    PROVE  LastQueued(Append(q, e), t) =
               IF For(e, t) THEN e.value ELSE LastQueued(q, t)
<1> DEFINE r == Append(q, e)
           v == LastQueued(q, t)
<1>1. /\ Len(q) \in Nat /\ r \in Seq(Entries) /\ Len(r) = Len(q) + 1
      /\ r[Len(q) + 1] = e /\ \A i \in 1..Len(q) : r[i] = q[i]
  BY AppendProperties, SeqFacts
<1>2. IsLast(v, q, Len(q), t)
  BY LastIsLast
<1> HIDE DEF r, v
<1>3. IsLast(v, r, Len(q), t)
  <2>1. \A i \in 1..Len(q) : \A k \in (i + 1)..Len(q) : k \in 1..Len(q)
    BY <1>1
  <2> QED
    BY <1>1, <1>2, <2>1 DEF IsLast
<1>4. IsLast(IF For(e, t) THEN e.value ELSE v, r, Len(r), t)
  BY <1>1, <1>3, LastStep
<1>5. LastQueued(r, t) = IF For(e, t) THEN e.value ELSE v
  BY <1>1, <1>4, LastIsLast
<1> QED
  BY <1>5 DEF r, v

\* retain() over one target leaves the last of every other in force.
LEMMA LastWithout ==
    ASSUME NEW q \in Seq(Entries), NEW d, NEW t, t # d
    PROVE  LastQueued(Without(q, d), t) = LastQueued(q, t)
<1> DEFINE r == Without(q, d)
           v == LastQueued(q, t)
<1>1. r \in Seq(Entries) /\ \E h : Picks(h, r, q, Len(q), d)
  BY WithoutPicks
<1>2. IsLast(v, q, Len(q), t)
  BY LastIsLast
<1> HIDE DEF r, v
<1>3. PICK h : Picks(h, r, q, Len(q), d)
  BY <1>1
<1>4. /\ Len(q) \in Nat /\ Len(r) \in Nat
      /\ \A k \in 1..Len(r) : h[k] \in 1..Len(q) /\ q[h[k]] = r[k]
      /\ \A j, k \in 1..Len(r) : j < k => h[j] < h[k]
  BY <1>1, <1>3, SeqFacts DEF Picks
<1>5. ASSUME NEW i \in 1..Len(q), For(q[i], t)
      PROVE  \E k \in 1..Len(r) : h[k] = i
  BY <1>3, <1>5 DEF Picks, For
<1>6. IsLast(v, r, Len(r), t)
  <2>1. CASE \A i \in 1..Len(q) : ~For(q[i], t)
    BY <1>2, <1>4, <2>1 DEF IsLast
  <2>2. ASSUME NEW i \in 1..Len(q), For(q[i], t), q[i].value = v,
               \A k \in (i + 1)..Len(q) : ~For(q[k], t)
        PROVE  IsLast(v, r, Len(r), t)
    <3>1. PICK m \in 1..Len(r) : h[m] = i
      BY <1>5, <2>2
    <3>2. ASSUME NEW k \in (m + 1)..Len(r) PROVE ~For(r[k], t)
      <4>1. k \in 1..Len(r) /\ m < k
        BY <1>4, <3>2
      <4>2. h[k] \in (i + 1)..Len(q)
        BY <1>4, <3>1, <4>1
      <4> QED
        BY <1>4, <2>2, <4>1, <4>2
    <3>3. For(r[m], t) /\ r[m].value = v
      BY <1>4, <2>2, <3>1
    <3> QED
      BY <3>2, <3>3 DEF IsLast
  <2> QED
    BY <1>2, <2>1, <2>2 DEF IsLast
<1>7. LastQueued(r, t) = v
  BY <1>1, <1>6, LastIsLast
<1> QED
  BY <1>7 DEF r, v
----------------------------------------------------------------------------
(* The queue.                                                              *)

\* Appending a block not yet queued, with its data set there, keeps the
\* queue in order.
LEMMA QueueAppend ==
    ASSUME NEW q \in Seq(Entries), QueueOK(q), NEW e \in Entries,
           e.target \in Domains \cup Blocks =>
               \A i \in 1..Len(q) : q[i].target # e.target,
           e.kind = "report" =>
               \E k \in 1..Len(q) : q[k].kind = "dataset" /\ q[k].target = e.value
    PROVE  QueueOK(Append(q, e))
<1> DEFINE r == Append(q, e)
<1>1. /\ Len(q) \in Nat /\ Len(r) = Len(q) + 1
      /\ r[Len(q) + 1] = e /\ \A i \in 1..Len(q) : r[i] = q[i]
  BY AppendProperties, SeqFacts
<1> HIDE DEF r
<1>2. \A i \in 1..Len(r) : i \in 1..Len(q) \/ i = Len(q) + 1
  BY <1>1
<1>3. \A i \in 1..Len(q) : i \in 1..Len(r)
  BY <1>1
<1>4. ASSUME NEW i \in 1..Len(r), NEW k \in 1..Len(r),
             r[i].target = r[k].target, r[i].target \in Domains \cup Blocks
      PROVE  i = k
  BY <1>1, <1>2, <1>4 DEF QueueOK
<1>5. ASSUME NEW i \in 1..Len(r), r[i].kind = "report"
      PROVE  \E k \in 1..Len(r) :
                 r[k].kind = "dataset" /\ r[k].target = r[i].value
  <2>1. CASE i \in 1..Len(q)
    <3>1. PICK k \in 1..Len(q) :
              q[k].kind = "dataset" /\ q[k].target = q[i].value
      BY <1>1, <1>5, <2>1 DEF QueueOK
    <3> QED
      BY <1>1, <1>3, <2>1, <3>1
  <2>2. CASE i = Len(q) + 1
    BY <1>1, <1>3, <1>5, <2>2
  <2> QED
    BY <1>2, <2>1, <2>2
<1>6. QueueOK(r)
  BY <1>4, <1>5 DEF QueueOK
<1> QED
  BY <1>6 DEF r

\* retain() takes only handlers of the domain out, so every block keeps its
\* entry and every report its data set.
LEMMA QueueWithout ==
    ASSUME NEW q \in Seq(Entries), QueueOK(q), NEW d \in Domains
    PROVE  /\ Without(q, d) \in Seq(Entries) /\ QueueOK(Without(q, d))
           /\ \A i \in 1..Len(Without(q, d)) : Without(q, d)[i].target # d
<1> DEFINE r == Without(q, d)
<1>1. r \in Seq(Entries) /\ \E h : Picks(h, r, q, Len(q), d)
  BY WithoutPicks
<1> HIDE DEF r
<1>2. PICK h : Picks(h, r, q, Len(q), d)
  BY <1>1
<1>3. /\ Len(q) \in Nat /\ Len(r) \in Nat
      /\ \A i \in 1..Len(r) : /\ h[i] \in 1..Len(q) /\ q[h[i]] = r[i]
                              /\ r[i].target # d
      /\ \A i, k \in 1..Len(r) : i < k => h[i] < h[k]
      /\ \A i \in 1..Len(q) : q[i].target # d => \E k \in 1..Len(r) : h[k] = i
      /\ \A i \in 1..Len(q) : q[i] \in Entries
  BY <1>1, <1>2, SeqFacts DEF Picks
<1>4. ASSUME NEW i \in 1..Len(r), NEW k \in 1..Len(r),
             r[i].target = r[k].target, r[i].target \in Domains \cup Blocks
      PROVE  i = k
  <2>1. h[i] = h[k]
    BY <1>3, <1>4 DEF QueueOK
  <2>2. ~ (i < k) /\ ~ (k < i)
    BY <1>3, <2>1
  <2> QED
    BY <1>3, <2>2
<1>5. ASSUME NEW i \in 1..Len(r), r[i].kind = "report"
      PROVE  \E k \in 1..Len(r) :
                 r[k].kind = "dataset" /\ r[k].target = r[i].value
  <2>1. PICK j \in 1..Len(q) : q[j].kind = "dataset" /\ q[j].target = r[i].value
    BY <1>3, <1>5 DEF QueueOK
  <2>2. q[j].target \in DataSets
    BY <1>3, <2>1, KindOfTarget
  <2>3. q[j].target # d
    BY <2>2, BlocksAssumption
  <2> QED
    BY <1>3, <2>1, <2>3
<1>6. QueueOK(r)
  BY <1>4, <1>5 DEF QueueOK
<1> QED
  BY <1>1, <1>3, <1>6 DEF r

\* Every step that leaves another queue, not empty, is a registration
\* before the start.
LEMMA QueueGrows ==
    ASSUME TypeOK, QueueOK(queue), [Next]_vars, queue' # queue, queue' # <<>>
    PROVE  /\ state = "NotStarted" /\ queue' \in Seq(Entries) /\ QueueOK(queue')
           /\ UNCHANGED <<state, step, replay, installed, bindings, served,
                          fromModel>>
<1>1. queue \in Seq(Entries)
  BY DEF TypeOK
<1>2. ASSUME NEW e \in Entries, Push(e),
             e.target \in Blocks => PendingFor(e.kind, e.target) = {},
             e.target \notin Domains,
             e.kind = "report" => PendingFor("dataset", e.value) # {}
      PROVE  /\ state = "NotStarted" /\ queue' \in Seq(Entries)
             /\ QueueOK(queue')
             /\ UNCHANGED <<state, step, replay, installed, bindings, served,
                            fromModel>>
  <2>1. \A i \in 1..Len(queue) : queue[i] \in Entries
    BY <1>1, SeqFacts
  <2>2. e.target \in Domains \cup Blocks =>
            \A i \in 1..Len(queue) : queue[i].target # e.target
    <3> SUFFICES ASSUME e.target \in Blocks, NEW i \in 1..Len(queue),
                        queue[i].target = e.target
                 PROVE  FALSE
      BY <1>2
    <3>1. queue[i].kind = e.kind
      BY <2>1, EntryFacts, TargetsAssumption, BlocksAssumption DEF Targets, Blocks
    <3> QED
      BY <1>1, <1>2, <3>1, PendingPlaces
  <2>3. e.kind = "report" =>
            \E k \in 1..Len(queue) :
                queue[k].kind = "dataset" /\ queue[k].target = e.value
    BY <1>1, <1>2, PendingPlaces
  <2>4. QueueOK(Append(queue, e))
    BY <1>1, <2>2, <2>3, QueueAppend
  <2> QED
    BY <1>1, <1>2, <2>4, AppendProperties DEF Push
<1>3. ASSUME NEW t \in Targets, NEW cb \in Callbacks, QueueCallback(t, cb)
      PROVE  Push(Callback(t, cb)) /\ t \notin Domains /\ t \notin Blocks
  BY <1>3, TargetsAssumption, BlocksAssumption DEF QueueCallback, Blocks
<1>4. ASSUME NEW t \in Targets, NEW cb \in Callbacks, QueueSettingGroup(t, cb)
      PROVE  /\ state = "NotStarted" /\ queue' \in Seq(Entries)
             /\ QueueOK(queue')
             /\ UNCHANGED <<state, step, replay, installed, bindings, served,
                            fromModel>>
  <2>1. t \in Domains /\ Callback(t, cb) \in Entries
    BY <1>4, NewEntries DEF QueueSettingGroup
  <2>2. /\ Without(queue, t) \in Seq(Entries) /\ QueueOK(Without(queue, t))
        /\ \A i \in 1..Len(Without(queue, t)) :
               Without(queue, t)[i].target # t
    BY <1>1, <2>1, QueueWithout
  <2>3. QueueOK(Append(Without(queue, t), Callback(t, cb)))
    BY <2>1, <2>2, QueueAppend DEF Callback
  <2> QED
    BY <1>4, <2>1, <2>2, <2>3, AppendProperties DEF QueueSettingGroup
<1>5. \/ \E t \in Targets, cb \in Callbacks :
             QueueCallback(t, cb) \/ QueueSettingGroup(t, cb)
      \/ \E d \in DataSets :
             \/ QueueDataSet(d)
             \/ \E r \in Reports : QueueReport(r, d)
             \/ \E l \in Logs : QueueLog(l, d)
      \/ QueueFromModel
  BY DEF Next, vars, Start, ReplayEntry, ReplayDone, BindReports,
         ServeDataSets, ServeLogsAndGroups, ReplayModel, Up, StartFails, Stop,
         Discard, RegisterFromModelNow, InstallCallback
<1>6. CASE \E t \in Targets, cb \in Callbacks : QueueCallback(t, cb)
  BY <1>2, <1>3, <1>6, NewEntries DEF Callback
<1>7. CASE \E d \in DataSets : QueueDataSet(d)
  BY <1>2, <1>7, NewEntries, BlocksAssumption DEF QueueDataSet, DataSet
<1>8. CASE \E d \in DataSets, r \in Reports : QueueReport(r, d)
  BY <1>2, <1>8, NewEntries, BlocksAssumption DEF QueueReport, Report
<1>9. CASE \E d \in DataSets, l \in Logs : QueueLog(l, d)
  BY <1>2, <1>9, NewEntries, BlocksAssumption DEF QueueLog, Log
<1>10. CASE QueueFromModel
  BY <1>2, <1>10, NewEntries, TargetsAssumption, BlocksAssumption
     DEF QueueFromModel, FromModel, Blocks
<1> QED
  BY <1>4, <1>5, <1>6, <1>7, <1>8, <1>9, <1>10
----------------------------------------------------------------------------
\* The invariant holds when the server is created.
LEMMA InitInvariant == Init => IInv
<1> SUFFICES ASSUME Init PROVE IInv
  OBVIOUS
<1>1. <<>> \in Seq(Entries) /\ Len(<<>>) = 0
  BY EmptySeq
<1>2. TypeOK
  BY <1>1 DEF Init, TypeOK, Nothing, Unbound, Unserved
<1>3. QueueOK(queue) /\ ReplayOK
  BY <1>1 DEF Init, QueueOK, ReplayOK
<1>4. BlocksOK /\ BoundOK /\ InstalledOK /\ Fresh
  BY DEF Init, BlocksOK, BoundOK, InServer, Building, InstalledOK, Fresh, Unserved
<1> QED
  BY <1>2, <1>3, <1>4 DEF IInv

\* A pending entry of a kind has the value that its kind carries.
LEMMA PendingValue ==
    ASSUME queue \in Seq(Entries), NEW b, NEW kind, PendingFor(kind, b) # {}
    PROVE  LET e == CHOOSE e \in PendingFor(kind, b) : TRUE
           IN  e \in Entries /\ e.kind = kind /\ e.target = b
<1>1. \A e \in PendingFor(kind, b) :
          e \in Entries /\ e.kind = kind /\ e.target = b
  BY PendingPlaces, SeqFacts
<1> QED
  BY <1>1

\* Registering from the model keeps the types of what is installed.
LEMMA ModelTypes ==
    ASSUME TypeOK, RegisterFromModel
    PROVE  /\ installed' \in [Targets -> Callbacks \cup {ModelEntry, None}]
           /\ bindings' \in [Reports \cup Logs ->
                                DataSets \cup {ModelEntry, None}]
           /\ served' \in [Blocks -> Nat] /\ fromModel' \in BOOLEAN
BY DEF TypeOK, RegisterFromModel

\* A start that failed leaves a state of its type.
LEMMA DiscardTypes ==
    ASSUME TypeOK, Discard PROVE TypeOK'
BY EmptySeq DEF TypeOK, Discard, Nothing, Unbound, Unserved

\* Every step keeps the type, given the queue in order.
LEMMA TypeStep == TypeOK /\ QueueOK(queue) /\ [Next]_vars => TypeOK'
<1> SUFFICES ASSUME TypeOK, QueueOK(queue), [Next]_vars PROVE TypeOK'
  OBVIOUS
<1> USE DEF TypeOK
<1>1. CASE queue' # queue /\ queue' # <<>>
  BY <1>1, QueueGrows
<1>2. CASE UNCHANGED vars
  BY <1>2 DEF vars
<1>3. ASSUME NEW t \in Targets, NEW cb \in Callbacks, InstallCallback(t, cb)
      PROVE  TypeOK'
  BY <1>3 DEF InstallCallback
<1>4. CASE Start
  BY <1>4 DEF Start
<1>5. CASE ReplayEntry
  <2>1. Head(replay) \in Entries /\ Tail(replay) \in Seq(Entries)
    BY <1>5, HeadTailProperties DEF ReplayEntry
  <2>2. installed' \in [Targets -> Callbacks \cup {ModelEntry, None}]
    BY <1>5, <2>1, EntryFacts DEF ReplayEntry
  <2> QED
    BY <1>5, <2>1, <2>2 DEF ReplayEntry
<1>6. CASE ReplayDone
  BY <1>6 DEF ReplayDone
<1>7. CASE BindReports
  <2>1. \A b \in Reports \cup Logs : PendingFor("report", b) # {} =>
            (CHOOSE e \in PendingFor("report", b) : TRUE).value \in DataSets
    BY PendingValue, EntryFacts
  <2>2. bindings' \in [Reports \cup Logs -> DataSets \cup {ModelEntry, None}]
    BY <1>7, <2>1 DEF BindReports
  <2>3. served' \in [Blocks -> Nat]
    BY <1>7 DEF BindReports
  <2> QED
    BY <1>7, <2>2, <2>3 DEF BindReports
<1>8. CASE ServeDataSets
  <2>1. served' \in [Blocks -> Nat]
    BY <1>8 DEF ServeDataSets
  <2> QED
    BY <1>8, <2>1 DEF ServeDataSets
<1>9. CASE ServeLogsAndGroups
  <2>1. \A b \in Reports \cup Logs : PendingFor("log", b) # {} =>
            (CHOOSE e \in PendingFor("log", b) : TRUE).value \in DataSets
    BY PendingValue, EntryFacts
  <2>2. \A t \in Targets : PendingFor("callback", t) # {} =>
            (CHOOSE e \in PendingFor("callback", t) : TRUE).value \in Callbacks
    BY PendingValue, EntryFacts
  <2>3. bindings' \in [Reports \cup Logs -> DataSets \cup {ModelEntry, None}]
    BY <1>9, <2>1 DEF ServeLogsAndGroups
  <2>4. installed' \in [Targets -> Callbacks \cup {ModelEntry, None}]
    BY <1>9, <2>2 DEF ServeLogsAndGroups
  <2>5. served' \in [Blocks -> Nat]
    BY <1>9 DEF ServeLogsAndGroups
  <2> QED
    BY <1>9, <2>3, <2>4, <2>5 DEF ServeLogsAndGroups
<1>10. CASE ReplayModel
  BY <1>10, ModelTypes DEF ReplayModel
<1>11. CASE Up
  BY <1>11 DEF Up
<1>12. CASE StartFails \/ Stop
  BY <1>12, DiscardTypes DEF StartFails, Stop
<1>13. CASE RegisterFromModelNow
  BY <1>13, ModelTypes DEF RegisterFromModelNow
<1>14. CASE /\ queue' = queue \/ queue' = <<>>
            /\ \/ \E t \in Targets, cb \in Callbacks :
                     QueueCallback(t, cb) \/ QueueSettingGroup(t, cb)
               \/ \E d \in DataSets :
                     \/ QueueDataSet(d)
                     \/ \E r \in Reports : QueueReport(r, d)
                     \/ \E l \in Logs : QueueLog(l, d)
               \/ QueueFromModel
  <2>1. queue' \in Seq(Entries)
    BY <1>14, EmptySeq
  <2>2. UNCHANGED <<state, step, replay, installed, bindings, served, fromModel>>
    BY <1>14 DEF QueueCallback, QueueSettingGroup, QueueDataSet, QueueReport,
                 QueueLog, QueueFromModel, Push
  <2> QED
    BY <2>1, <2>2
<1> QED
  BY <1>1, <1>2, <1>3, <1>4, <1>5, <1>6, <1>7, <1>8, <1>9, <1>10, <1>11,
     <1>12, <1>13, <1>14 DEF Next
----------------------------------------------------------------------------
(* The blocks.                                                             *)

\* A pass finds a block pending just when it was asked for.
LEMMA PendingBlocks ==
    ASSUME queue \in Seq(Entries), QueueOK(queue), NEW b \in Blocks
    PROVE  /\ PendingFor("report", b) # {} <=> b \in Reports /\ Asked(b)
           /\ PendingFor("dataset", b) # {} <=> b \in DataSets /\ Asked(b)
           /\ PendingFor("log", b) # {} <=> b \in Logs /\ Asked(b)
           /\ (\E e \in Pending("report") : e.value = b) <=> Brought(b)
           /\ Brought(b) => b \in DataSets /\ Asked(b)
<1>1. \A i \in 1..Len(queue) : queue[i] \in Entries
  BY SeqFacts
<1>2. /\ PendingFor("report", b) # {} <=> b \in Reports /\ Asked(b)
      /\ PendingFor("dataset", b) # {} <=> b \in DataSets /\ Asked(b)
      /\ PendingFor("log", b) # {} <=> b \in Logs /\ Asked(b)
  <2>1. \A kind : PendingFor(kind, b) # {} <=>
            \E i \in 1..Len(queue) :
                queue[i].kind = kind /\ queue[i].target = b
    BY PendingPlaces
  <2> QED
    BY <1>1, <2>1, KindOfTarget DEF Asked
<1>3. (\E e \in Pending("report") : e.value = b) <=> Brought(b)
  BY SeqFacts DEF Pending, Range, Brought
<1>4. Brought(b) => b \in DataSets /\ Asked(b)
  BY <1>1, KindOfTarget DEF Brought, Asked, QueueOK
<1> QED
  BY <1>2, <1>3, <1>4

\* register_from_model serves what is not served yet, and binds it.
LEMMA FromModelStep ==
    ASSUME IInv, RegisterFromModel, queue' = queue, state' = state, step' = "up",
           Building, step \in {"model", "up"}
    PROVE  BlocksOK' /\ BoundOK'
<1>1. queue \in Seq(Entries) /\ QueueOK(queue)
  BY DEF IInv, TypeOK
<1>2. \A b \in Blocks : served[b] = IF InServer(b) THEN 1 ELSE 0
  BY DEF IInv, BlocksOK
<1>3. Declared \subseteq Blocks
  BY BlocksAssumption DEF Blocks
<1>4. ASSUME NEW b \in Declared PROVE ~InServer(b)
  BY <1>2, <1>3 DEF RegisterFromModel
<1>5. ASSUME NEW b \in Blocks, Asked(b) PROVE InServer(b)
  BY <1>5 DEF InServer, Blocks
<1>6. \A b \in Declared : ~Asked(b)
  BY <1>3, <1>4, <1>5
<1>7. Building' /\ \A b : Asked(b)' = Asked(b) /\ Brought(b)' = Brought(b)
  BY DEF Building, Asked, Brought
<1>8. \A b \in Blocks : InServer(b)' <=> InServer(b) \/ b \in Declared
  BY <1>7 DEF InServer, RegisterFromModel
<1>9. served' = [b \in Blocks |-> IF b \in Declared THEN 1 ELSE served[b]]
  BY DEF RegisterFromModel
<1>10. \A b \in Blocks : served'[b] = IF InServer(b)' THEN 1 ELSE 0
  BY <1>2, <1>8, <1>9
<1>11. BlocksOK'
  BY <1>6, <1>7, <1>10 DEF BlocksOK
<1>12. ASSUME NEW i \in 1..Len(queue), queue[i].kind = "report"
       PROVE  bindings'[queue[i].target] = queue[i].value
  <2>1. queue[i].target \in Reports
    BY <1>1, <1>12, SeqFacts, KindOfTarget
  <2>2. queue[i].target \notin Declared
    BY <1>6 DEF Asked
  <2>3. bindings[queue[i].target] = queue[i].value
    BY <1>12 DEF IInv, BoundOK
  <2> QED
    BY <2>1, <2>2, <2>3 DEF RegisterFromModel
<1>13. BoundOK'
  BY <1>12 DEF BoundOK
<1> QED
  BY <1>11, <1>13

\* Every step keeps the account of the blocks served and bound.
LEMMA BlocksStep == IInv /\ [Next]_vars => BlocksOK' /\ BoundOK'
<1> SUFFICES ASSUME IInv, [Next]_vars PROVE BlocksOK' /\ BoundOK'
  OBVIOUS
<1>1. TypeOK /\ queue \in Seq(Entries) /\ QueueOK(queue)
  BY DEF IInv, TypeOK
<1>2. \A b \in Blocks : served[b] = IF InServer(b) THEN 1 ELSE 0
  BY DEF IInv, BlocksOK
<1>3. \A b \in Blocks :
          /\ PendingFor("report", b) # {} <=> b \in Reports /\ Asked(b)
          /\ PendingFor("dataset", b) # {} <=> b \in DataSets /\ Asked(b)
          /\ PendingFor("log", b) # {} <=> b \in Logs /\ Asked(b)
          /\ (\E e \in Pending("report") : e.value = b) <=> Brought(b)
          /\ Brought(b) => b \in DataSets /\ Asked(b)
  BY <1>1, PendingBlocks
<1>4. \A b \in Blocks : /\ ~ (b \in DataSets /\ b \in Reports)
                        /\ ~ (b \in DataSets /\ b \in Logs)
                        /\ ~ (b \in Reports /\ b \in Logs)
  BY BlocksAssumption
<1>5. fromModel => Building /\ step = "up" /\ \A b \in Declared : ~Asked(b)
  BY DEF IInv, BlocksOK
<1>6. queue' = queue =>
          \A b : Asked(b)' = Asked(b) /\ Brought(b)' = Brought(b)
  BY DEF Asked, Brought
\* A registration before the start meets a server that does not exist.
<1>7. ASSUME state = "NotStarted", state' = "NotStarted",
             UNCHANGED <<served, fromModel>>
      PROVE  BlocksOK' /\ BoundOK'
  <2>1. ~Building /\ ~Building'
    BY <1>7 DEF Building
  <2>2. fromModel' = FALSE
    BY <1>1, <1>5, <1>7, <2>1 DEF TypeOK
  <2>3. \A b \in Blocks : ~InServer(b) /\ ~InServer(b)'
    BY <2>1 DEF InServer
  <2> QED
    BY <1>2, <1>7, <2>1, <2>2, <2>3 DEF BlocksOK, BoundOK
\* Nothing that the blocks depend on changes.
<1>8. ASSUME UNCHANGED <<state, queue, step, served, fromModel, bindings>>
      PROVE  BlocksOK' /\ BoundOK'
  BY <1>8 DEF IInv, BlocksOK, BoundOK, InServer, Building, Asked, Brought
<1>9. ASSUME Discard PROVE BlocksOK' /\ BoundOK'
  <2>1. ~Building' /\ fromModel' = FALSE
    BY <1>9 DEF Discard, Building
  <2> QED
    BY <1>9, <2>1 DEF Discard, BlocksOK, BoundOK, InServer, Unserved
<1>10. CASE Start
  <2>1. step' = "callbacks" /\ fromModel' = FALSE /\ fromModel = FALSE
    BY <1>1, <1>5, <1>10 DEF Start, IInv, Fresh, Building, TypeOK
  <2>2. \A b \in Blocks : ~InServer(b) /\ ~InServer(b)'
    BY <1>10, <2>1 DEF InServer, Building, Start
  <2> QED
    BY <1>2, <1>10, <2>1, <2>2 DEF Start, BlocksOK, BoundOK
<1>11. CASE ReplayEntry
  BY <1>8, <1>11 DEF ReplayEntry, Due, IInv, BlocksOK, BoundOK, InServer,
     Building, Asked, Brought
<1>12. CASE ReplayDone
  <2>1. \A b \in Blocks : InServer(b)' = InServer(b)
    BY <1>5, <1>6, <1>12 DEF ReplayDone, Due, InServer, Building
  <2> QED
    BY <1>2, <1>5, <1>12, <2>1 DEF ReplayDone, Due, BlocksOK, BoundOK
<1>13. CASE BindReports
  <2>1. /\ Building /\ Building' /\ step = "reports" /\ step' = "datasets"
        /\ queue' = queue /\ fromModel = FALSE /\ fromModel' = FALSE
    BY <1>1, <1>5, <1>13 DEF BindReports, Due, Building, TypeOK
  <2>2. \A b \in Blocks :
            ~InServer(b) /\ (InServer(b)' <=> (b \in Reports /\ Asked(b)) \/ Brought(b))
    BY <1>6, <2>1 DEF InServer
  <2>3. \A b \in Blocks :
            served'[b] = IF PendingFor("report", b) # {} THEN served[b] + 1
                         ELSE IF \E e \in Pending("report") : e.value = b THEN 1
                         ELSE served[b]
    BY <1>13 DEF BindReports
  <2>4. \A b \in Blocks : served'[b] = IF InServer(b)' THEN 1 ELSE 0
    BY <1>2, <1>3, <2>2, <2>3
  <2>5. ASSUME NEW i \in 1..Len(queue), queue[i].kind = "report"
        PROVE  bindings'[queue[i].target] = queue[i].value
    <3>1. queue[i].target \in Reports
      BY <1>1, <2>5, SeqFacts, KindOfTarget
    <3>2. /\ PendingFor("report", queue[i].target) # {}
          /\ (CHOOSE e \in PendingFor("report", queue[i].target) : TRUE)
                 = queue[i]
      BY <1>1, <2>5, <3>1, PendingUnique DEF Blocks
    <3> QED
      BY <1>13, <3>1, <3>2 DEF BindReports
  <2> QED
    BY <2>1, <2>4, <2>5 DEF BlocksOK, BoundOK
<1>14. CASE ServeDataSets
  <2>1. /\ Building /\ Building' /\ step = "datasets" /\ step' = "logs"
        /\ queue' = queue /\ fromModel = FALSE /\ fromModel' = FALSE
        /\ bindings' = bindings
    BY <1>1, <1>5, <1>14 DEF ServeDataSets, Due, Building, TypeOK
  <2>2. \A b \in Blocks :
            /\ InServer(b) <=> (b \in Reports /\ Asked(b)) \/ Brought(b)
            /\ InServer(b)' <=> InServer(b) \/ (b \in DataSets /\ Asked(b))
    BY <1>6, <2>1 DEF InServer
  <2>3. \A b \in Blocks :
            served'[b] = IF /\ PendingFor("dataset", b) # {}
                            /\ ~ \E e \in Pending("report") : e.value = b
                         THEN served[b] + 1 ELSE served[b]
    BY <1>14 DEF ServeDataSets
  <2>4. \A b \in Blocks : served'[b] = IF InServer(b)' THEN 1 ELSE 0
    BY <1>2, <1>3, <1>4, <2>2, <2>3
  <2>5. BoundOK'
    BY <2>1 DEF IInv, BoundOK
  <2> QED
    BY <2>1, <2>4, <2>5 DEF BlocksOK
<1>15. CASE ServeLogsAndGroups
  <2>1. /\ Building /\ Building' /\ step = "logs" /\ step' = "model"
        /\ queue' = queue /\ fromModel = FALSE /\ fromModel' = FALSE
    BY <1>1, <1>5, <1>15 DEF ServeLogsAndGroups, Due, Building, TypeOK
  <2>2. \A b \in Blocks :
            /\ InServer(b) <=> \/ (b \in Reports /\ Asked(b)) \/ Brought(b)
                               \/ (b \in DataSets /\ Asked(b))
            /\ InServer(b)' <=> InServer(b) \/ (b \in Logs /\ Asked(b))
    BY <1>6, <2>1 DEF InServer
  <2>3. \A b \in Blocks :
            served'[b] = IF PendingFor("log", b) # {} THEN served[b] + 1
                         ELSE served[b]
    BY <1>15 DEF ServeLogsAndGroups
  <2>4. \A b \in Blocks : served'[b] = IF InServer(b)' THEN 1 ELSE 0
    BY <1>2, <1>3, <1>4, <2>2, <2>3
  <2>5. ASSUME NEW i \in 1..Len(queue), queue[i].kind = "report"
        PROVE  bindings'[queue[i].target] = queue[i].value
    <3>1. queue[i].target \in Reports /\ queue[i].target \in Blocks
      BY <1>1, <2>5, SeqFacts, KindOfTarget DEF Blocks
    <3>2. PendingFor("log", queue[i].target) = {}
      BY <1>3, <1>4, <3>1
    <3>3. bindings[queue[i].target] = queue[i].value
      BY <2>1, <2>5 DEF IInv, BoundOK
    <3> QED
      BY <1>15, <3>1, <3>2, <3>3 DEF ServeLogsAndGroups
  <2> QED
    BY <2>1, <2>4, <2>5 DEF BlocksOK, BoundOK
<1>16. CASE ReplayModel
  <2>1. /\ Building /\ step = "model" /\ step' = "up"
        /\ queue' = queue /\ state' = state
    BY <1>16 DEF ReplayModel, Due, Building
  <2>2. CASE RegisterFromModel
    BY <2>1, <2>2, FromModelStep
  <2>3. CASE UNCHANGED <<installed, bindings, served, fromModel>>
    <3>1. fromModel = FALSE /\ Building'
      BY <1>1, <1>5, <2>1 DEF TypeOK, Building
    <3>2. \A b \in Blocks : InServer(b)' = InServer(b)
      BY <1>6, <2>1, <2>3, <3>1 DEF InServer
    <3>3. BoundOK'
      BY <2>1, <2>3 DEF IInv, BoundOK
    <3> QED
      BY <1>2, <2>3, <3>1, <3>2, <3>3 DEF BlocksOK
  <2> QED
    BY <1>16, <2>2, <2>3 DEF ReplayModel
<1>17. CASE Up
  <2>1. Building /\ Building' /\ UNCHANGED <<queue, step, served, fromModel, bindings>>
    BY <1>17 DEF Up, Due, Building
  <2>2. \A b \in Blocks : InServer(b)' = InServer(b)
    BY <1>6, <2>1 DEF InServer
  <2>3. BoundOK'
    BY <2>1 DEF IInv, BoundOK
  <2> QED
    BY <1>2, <1>5, <1>6, <2>1, <2>2, <2>3 DEF BlocksOK
<1>18. CASE RegisterFromModelNow
  BY <1>18, FromModelStep
     DEF RegisterFromModelNow, Building, IInv, InstalledOK
<1>19. ASSUME NEW t \in Targets, NEW cb \in Callbacks, InstallCallback(t, cb)
       PROVE  BlocksOK' /\ BoundOK'
  BY <1>8, <1>19 DEF InstallCallback
<1>20. CASE UNCHANGED vars
  BY <1>8, <1>20 DEF vars
<1>21. CASE \/ \E t \in Targets, cb \in Callbacks :
                  QueueCallback(t, cb) \/ QueueSettingGroup(t, cb)
            \/ \E d \in DataSets :
                  \/ QueueDataSet(d)
                  \/ \E r \in Reports : QueueReport(r, d)
                  \/ \E l \in Logs : QueueLog(l, d)
            \/ QueueFromModel
  <2>1. /\ state = "NotStarted" /\ state' = "NotStarted"
        /\ UNCHANGED <<served, fromModel>>
    BY <1>21 DEF QueueCallback, QueueSettingGroup, QueueDataSet, QueueReport,
                 QueueLog, QueueFromModel, Push
  <2> QED
    BY <1>7, <2>1
<1> QED
  BY <1>9, <1>10, <1>11, <1>12, <1>13, <1>14, <1>15, <1>16, <1>17, <1>18,
     <1>19, <1>20, <1>21 DEF Next, StartFails, Stop
----------------------------------------------------------------------------
(* The callbacks.                                                          *)

\* Every step is a registration before the start, or one of these.
LEMMA Steps ==
    ASSUME IInv, [Next]_vars
    PROVE  \/ /\ state = "NotStarted" /\ queue' \in Seq(Entries)
              /\ UNCHANGED <<state, step, replay, installed, bindings, served,
                             fromModel>>
           \/ \E t \in Targets, cb \in Callbacks : InstallCallback(t, cb)
           \/ Start \/ ReplayEntry \/ ReplayDone \/ BindReports
           \/ ServeDataSets \/ ServeLogsAndGroups \/ ReplayModel \/ Up
           \/ (state = "Starting" /\ Discard) \/ (state = "Running" /\ Discard)
           \/ RegisterFromModelNow
           \/ UNCHANGED vars
<1>1. CASE \/ \E t \in Targets, cb \in Callbacks :
                 QueueCallback(t, cb) \/ QueueSettingGroup(t, cb)
           \/ \E d \in DataSets :
                 \/ QueueDataSet(d)
                 \/ \E r \in Reports : QueueReport(r, d)
                 \/ \E l \in Logs : QueueLog(l, d)
           \/ QueueFromModel
  <2>1. /\ state = "NotStarted"
        /\ UNCHANGED <<state, step, replay, installed, bindings, served,
                       fromModel>>
    BY <1>1 DEF QueueCallback, QueueSettingGroup, QueueDataSet, QueueReport,
                QueueLog, QueueFromModel, Push
  <2>2. TypeOK /\ QueueOK(queue) /\ queue \in Seq(Entries)
    BY DEF IInv, TypeOK
  <2>3. queue' \in Seq(Entries)
    BY <2>2, QueueGrows, EmptySeq
  <2> QED
    BY <2>1, <2>3
<1> QED
  BY <1>1 DEF Next, StartFails, Stop

\* Every step keeps the replay at the end of the queue.
LEMMA ReplayStep == IInv /\ [Next]_vars => ReplayOK' /\ Fresh'
<1> SUFFICES ASSUME IInv, [Next]_vars PROVE ReplayOK' /\ Fresh'
  OBVIOUS
<1>1. /\ queue \in Seq(Entries) /\ replay \in Seq(Entries)
      /\ Len(queue) \in Nat /\ Len(replay) \in Nat
  BY LenProperties DEF IInv, TypeOK
<1>2. ReplayOK /\ Fresh
  BY DEF IInv
<1>3. ASSUME state = "NotStarted", queue' \in Seq(Entries),
             UNCHANGED <<state, step, replay, installed>>
      PROVE  ReplayOK' /\ Fresh'
  BY <1>2, <1>3, EmptySeq, LenProperties DEF ReplayOK, Fresh
<1>4. ASSUME state' # "NotStarted", UNCHANGED <<queue, replay>>,
             \/ step' = step /\ (state' = "Starting" => state = "Starting")
             \/ state = "Starting" /\ (step # "callbacks" \/ replay = <<>>)
      PROVE  ReplayOK' /\ Fresh'
  BY <1>2, <1>4 DEF ReplayOK, Fresh
<1>5. CASE Start
  BY <1>1, <1>2, <1>5 DEF Start, ReplayOK, Fresh
<1>6. CASE ReplayEntry
  <2>1. /\ replay' \in Seq(Entries) /\ Len(replay') = Len(replay) - 1
        /\ \A i \in 1..Len(replay') : replay'[i] = replay[i + 1]
    BY <1>1, <1>6, HeadTailProperties, EmptySeq DEF ReplayEntry
  <2>2. ASSUME NEW i \in 1..Len(replay')
        PROVE  replay'[i] = queue[i + (Len(queue) - Len(replay'))]
    <3>1. /\ i + 1 \in 1..Len(replay)
          /\ i + (Len(queue) - Len(replay')) = i + 1 + (Len(queue) - Len(replay))
      BY <1>1, <2>1
    <3> QED
      BY <1>2, <2>1, <3>1 DEF ReplayOK
  <2>3. /\ queue' = queue /\ state' = "Starting" /\ step' = "callbacks"
        /\ Len(replay') <= Len(queue)
    BY <1>1, <1>2, <1>6, <2>1 DEF ReplayEntry, Due, ReplayOK
  <2> QED
    BY <2>2, <2>3 DEF ReplayOK, Fresh
<1>7. CASE Discard
  BY <1>7, EmptySeq DEF Discard, ReplayOK, Fresh
<1>8. CASE \/ ReplayDone \/ BindReports \/ ServeDataSets
           \/ ServeLogsAndGroups \/ ReplayModel
  BY <1>4, <1>8 DEF ReplayDone, BindReports, ServeDataSets,
     ServeLogsAndGroups, ReplayModel, Due
<1>9. CASE Up \/ RegisterFromModelNow
  BY <1>4, <1>9 DEF Up, RegisterFromModelNow, Due,
     IInv, InstalledOK
<1>10. ASSUME NEW t \in Targets, NEW cb \in Callbacks, InstallCallback(t, cb)
       PROVE  ReplayOK' /\ Fresh'
  BY <1>4, <1>10 DEF InstallCallback
<1>11. CASE UNCHANGED vars
  <2>1. UNCHANGED <<state, queue, step, replay, installed>>
    BY <1>11 DEF vars
  <2> QED
    BY <1>2, <2>1 DEF ReplayOK, Fresh
<1> QED
  BY <1>3, <1>5, <1>6, <1>7, <1>8, <1>9, <1>10, <1>11, Steps

\* Every step keeps what is installed at what was replayed.
LEMMA InstalledStep == IInv /\ [Next]_vars => InstalledOK'
<1> SUFFICES ASSUME IInv, [Next]_vars PROVE InstalledOK'
  OBVIOUS
<1>1. /\ queue \in Seq(Entries) /\ replay \in Seq(Entries)
      /\ Len(queue) \in Nat /\ Len(replay) \in Nat
      /\ installed \in [Targets -> Callbacks \cup {ModelEntry, None}]
      /\ QueueOK(queue)
      /\ step \in {"callbacks", "reports", "datasets", "logs", "model", "up"}
  BY LenProperties DEF IInv, TypeOK
<1>2. InstalledOK /\ ReplayOK /\ Fresh
  BY DEF IInv
<1>3. /\ \A t \in Domains : t \in Targets /\ t \notin Attributes \cup Controls
      /\ \A t \in Attributes \cup Controls : t \in Targets
  BY TargetsAssumption DEF Targets
<1>4. CASE state' \notin {"Starting", "Running"}
  BY <1>4 DEF InstalledOK
<1>5. CASE Start
  <2>1. \A t \in Targets : installed'[t] = None
    BY <1>2, <1>5 DEF Start, Fresh, Nothing
  <2>2. \A t : IsLast(None, queue', Len(queue') - Len(replay'), t)
    BY <1>1, <1>5 DEF Start, IsLast
  <2> QED
    BY <1>2, <1>3, <1>5, <2>1, <2>2 DEF Start, Fresh, InstalledOK
<1>6. CASE ReplayEntry
  <2> DEFINE n == Len(queue) - Len(replay)
             e == Head(replay)
  <2>1. /\ Len(replay') = Len(replay) - 1 /\ e = replay[1]
        /\ Len(replay) > 0
    BY <1>1, <1>6, HeadTailProperties, EmptySeq DEF ReplayEntry
  <2>2. /\ n \in Nat /\ Len(queue) - Len(replay') = n + 1
        /\ e = queue[n + 1] /\ n + 1 \in 1..Len(queue)
    <3>1. 1 \in 1..Len(replay) /\ Len(replay) <= Len(queue)
      BY <1>1, <1>2, <2>1 DEF ReplayOK
    <3>2. replay[1] = queue[1 + n]
      BY <1>2, <3>1 DEF ReplayOK
    <3> QED
      BY <1>1, <2>1, <3>1, <3>2
  <2>3. e \in Entries
    BY <1>1, <2>2, SeqFacts
  <2>4. /\ state' = "Starting" /\ step' = "callbacks" /\ queue' = queue
        /\ state = "Starting" /\ step = "callbacks"
        /\ installed' = IF e.kind = "callback" /\ e.target \notin Domains
                        THEN [installed EXCEPT ![e.target] = e.value]
                        ELSE installed
    BY <1>6 DEF ReplayEntry, Due
  <2> HIDE DEF e
  <2>5. ASSUME NEW t \in Attributes \cup Controls
        PROVE  IsLast(installed'[t], queue, n + 1, t)
    <3>1. IsLast(installed[t], queue, n, t)
      BY <1>2, <2>4 DEF InstalledOK
    <3>2. installed'[t] = IF For(queue[n + 1], t) THEN queue[n + 1].value
                          ELSE installed[t]
      BY <1>1, <1>3, <2>2, <2>4 DEF For
    <3> HIDE DEF n
    <3> QED
      BY <2>2, <3>1, <3>2, LastStep
  <2>6. ASSUME NEW t \in Domains PROVE installed'[t] = None
    <3>1. installed[t] = None
      BY <1>2, <2>4, <2>6 DEF InstalledOK
    <3> QED
      BY <1>1, <1>3, <2>4, <3>1
  <2> HIDE DEF n
  <2> QED
    BY <2>2, <2>4, <2>5, <2>6 DEF InstalledOK
<1>7. CASE ReplayDone \/ BindReports \/ ServeDataSets
  <2>1. /\ state = "Starting" /\ state' = "Starting" /\ step # "up"
        /\ step' \notin {"model", "up"} /\ step \notin {"model", "up"}
        /\ UNCHANGED <<queue, replay, installed>>
    BY <1>7 DEF ReplayDone, BindReports, ServeDataSets, Due
  <2> QED
    BY <1>2, <2>1 DEF InstalledOK
<1>8. CASE ServeLogsAndGroups
  <2>1. /\ state = "Starting" /\ state' = "Starting" /\ step = "logs"
        /\ step' = "model" /\ UNCHANGED <<queue, replay>>
        /\ \A t \in Targets : installed'[t] =
              IF t \in Domains /\ PendingFor("callback", t) # {}
              THEN (CHOOSE e \in PendingFor("callback", t) : TRUE).value
              ELSE installed[t]
    BY <1>8 DEF ServeLogsAndGroups, Due
  <2>2. ASSUME NEW t \in Attributes \cup Controls
        PROVE  IsLast(installed'[t], queue, Len(queue) - Len(replay), t)
    BY <1>2, <1>3, <2>1 DEF InstalledOK
  <2>3. ASSUME NEW t \in Domains
        PROVE  IsLast(installed'[t], queue, Len(queue), t)
    <3>1. CASE PendingFor("callback", t) = {}
      <4>1. installed'[t] = None
        BY <1>2, <1>3, <2>1, <3>1 DEF InstalledOK
      <4>2. \A i \in 1..Len(queue) : ~For(queue[i], t)
        BY <1>1, <3>1, PendingPlaces DEF For
      <4> QED
        BY <4>1, <4>2 DEF IsLast
    <3>2. CASE PendingFor("callback", t) # {}
      <4>1. PICK i \in 1..Len(queue) :
                queue[i].kind = "callback" /\ queue[i].target = t
        BY <1>1, <3>2, PendingPlaces
      <4>2. (CHOOSE e \in PendingFor("callback", t) : TRUE) = queue[i]
        BY <1>1, <4>1, PendingUnique
      <4>3. installed'[t] = queue[i].value
        BY <1>3, <2>1, <3>2, <4>2
      <4>4. \A k \in (i + 1)..Len(queue) :
                k \in 1..Len(queue) /\ k # i
        BY <1>1
      <4>5. \A k \in (i + 1)..Len(queue) : ~For(queue[k], t)
        BY <1>1, <4>1, <4>4 DEF For, QueueOK
      <4> QED
        BY <4>1, <4>3, <4>5 DEF IsLast, For
    <3> QED
      BY <3>1, <3>2
  <2> QED
    BY <2>1, <2>2, <2>3 DEF InstalledOK
<1>9. CASE ReplayModel
  <2>1. /\ state = "Starting" /\ state' = "Starting" /\ step = "model"
        /\ step' = "up" /\ UNCHANGED <<queue, replay>>
        /\ Len(queue) - Len(replay) = Len(queue)
    BY <1>1, <1>2, <1>9, EmptySeq DEF ReplayModel, Due, ReplayOK
  <2>2. \A t \in Targets :
            \/ installed'[t] = installed[t]
            \/ /\ t \in Controls /\ installed[t] = None
               /\ installed'[t] = ModelEntry
    BY <1>9 DEF ReplayModel, RegisterFromModel
  <2>3. \A t \in Attributes \cup Controls :
            IsLast(installed[t], queue, Len(queue), t)
    BY <1>2, <2>1 DEF InstalledOK
  <2>4. \A t \in Domains : IsLast(installed'[t], queue, Len(queue), t)
    BY <1>2, <1>3, <2>1, <2>2 DEF InstalledOK
  <2> QED
    BY <1>3, <2>1, <2>2, <2>3, <2>4 DEF InstalledOK
<1>10. CASE Up \/ RegisterFromModelNow
  BY <1>2, <1>10 DEF Up, Due, RegisterFromModelNow, InstalledOK
<1>11. ASSUME NEW t \in Targets, NEW cb \in Callbacks, InstallCallback(t, cb)
       PROVE  InstalledOK'
  BY <1>2, <1>11 DEF InstallCallback, InstalledOK
<1>12. CASE UNCHANGED vars
  <2>1. UNCHANGED <<state, queue, step, replay, installed>>
    BY <1>12 DEF vars
  <2> QED
    BY <1>2, <2>1 DEF InstalledOK
<1>13. CASE state' = "NotStarted" \/ Discard
  BY <1>4, <1>13 DEF Discard
<1> QED
  BY <1>5, <1>6, <1>7, <1>8, <1>9, <1>10, <1>11, <1>12, <1>13, Steps
----------------------------------------------------------------------------
\* Every step keeps the whole invariant.
LEMMA StepInvariant == IInv /\ [Next]_vars => IInv'
<1> SUFFICES ASSUME IInv, [Next]_vars PROVE IInv'
  OBVIOUS
<1>1. TypeOK /\ QueueOK(queue)
  BY DEF IInv
<1>2. QueueOK(queue)'
  <2>1. CASE queue' = queue
    BY <1>1, <2>1 DEF QueueOK
  <2>2. CASE queue' = <<>>
    BY <2>2, EmptySeq DEF QueueOK
  <2>3. CASE queue' # queue /\ queue' # <<>>
    <3>1. QueueOK(queue')
      BY <1>1, <2>3, QueueGrows
    <3> QED
      BY <3>1 DEF QueueOK
  <2> QED
    BY <2>1, <2>2, <2>3
<1> QED
  BY <1>1, <1>2, TypeStep, BlocksStep, ReplayStep, InstalledStep DEF IInv

\* The invariant holds of every state the registrations reach.
THEOREM Invariance == Spec => []IInv
BY InitInvariant, StepInvariant, PTL DEF Spec

\* The queue of registrations, what the passes made of it and the server's
\* tables keep their types.
THEOREM TypeCorrect == Spec => []TypeOK
<1>1. IInv => TypeOK
  BY DEF IInv
<1> QED
  BY <1>1, Invariance, PTL

\* On a server that is up every block asked for before the start, and every
\* block of the model once it is registered, is served exactly once, nothing
\* else is, and each report has its own data set.
THEOREM EachServedOnce == Spec => []ServedOnce
<1>1. ASSUME IInv PROVE ServedOnce
  <2> SUFFICES ASSUME state = "Running" PROVE ServedOnce
    BY DEF ServedOnce
  <2>1. /\ step = "up" /\ Building /\ queue \in Seq(Entries) /\ QueueOK(queue)
    BY <1>1 DEF IInv, InstalledOK, Building, TypeOK
  <2>2. \A b \in Blocks : (\E e \in Range(queue) : e.target = b) <=> Asked(b)
    BY <2>1, SeqFacts DEF Range, Asked
  <2>3. \A b \in Blocks :
            InServer(b) <=> Asked(b) \/ (fromModel /\ b \in Declared)
    BY <2>1, PendingBlocks DEF InServer, Blocks
  <2>4. \A b \in Blocks : served[b] = IF InServer(b) THEN 1 ELSE 0
    BY <1>1 DEF IInv, BlocksOK
  <2>5. \A e \in Pending("report") : bindings[e.target] = e.value
    BY <1>1, <2>1, SeqFacts DEF IInv, BoundOK, Pending, Range
  <2> QED
    BY <2>2, <2>3, <2>4, <2>5 DEF ServedOnce
<1> QED
  BY <1>1, Invariance, PTL

----------------------------------------------------------------------------
(* The promise.                                                            *)

\* In force before the start is the last entry queued; while the server is
\* up, what is installed.
LEMMA RegisterStep ==
    ASSUME IInv, NEW t \in Targets, NEW cb \in Callbacks,
           \/ QueueCallback(t, cb) \/ QueueSettingGroup(t, cb)
           \/ InstallCallback(t, cb)
    PROVE  Promise!Register(t, cb)
<1>1. queue \in Seq(Entries) /\ Callback(t, cb) \in Entries
  BY NewEntries DEF IInv, TypeOK
<1>2. /\ Callback(t, cb).value = cb
      /\ \A u : For(Callback(t, cb), u) <=> u = t
  BY DEF Callback, For
<1>3. cb # ModelEntry /\ cb # None
  BY ValuesAssumption
<1>4. CASE QueueCallback(t, cb)
  <2>1. /\ state = "NotStarted" /\ state' = state
        /\ queue' = Append(queue, Callback(t, cb))
    BY <1>4 DEF QueueCallback, Push
  <2>2. \A u \in Targets :
            LastQueued(queue', u) = IF u = t THEN cb ELSE LastQueued(queue, u)
    BY <1>1, <1>2, <2>1, LastAppend
  <2> QED
    BY <2>1, <2>2 DEF InForce, Promise!Register
<1>5. CASE QueueSettingGroup(t, cb)
  <2>1. /\ state = "NotStarted" /\ state' = state /\ t \in Domains
        /\ queue' = Append(Without(queue, t), Callback(t, cb))
    BY <1>5 DEF QueueSettingGroup
  <2>2. Without(queue, t) \in Seq(Entries)
    BY <1>1, WithoutPicks
  <2>3. \A u \in Targets :
            LastQueued(queue', u) = IF u = t THEN cb
                                    ELSE LastQueued(Without(queue, t), u)
    BY <1>1, <1>2, <2>1, <2>2, LastAppend
  <2>4. \A u \in Targets :
            LastQueued(queue', u) = IF u = t THEN cb ELSE LastQueued(queue, u)
    BY <1>1, <2>3, LastWithout
  <2> QED
    BY <2>1, <2>4 DEF InForce, Promise!Register
<1>6. CASE InstallCallback(t, cb)
  <2>1. /\ state = "Running" /\ state' = state
        /\ installed' = [installed EXCEPT ![t] = cb]
        /\ installed \in [Targets -> Callbacks \cup {ModelEntry, None}]
    BY <1>6 DEF InstallCallback, IInv, TypeOK
  <2> QED
    BY <1>3, <2>1 DEF InForce, Promise!Register
<1> QED
  BY <1>4, <1>5, <1>6

\* Any other registration leaves the callbacks as they are.
LEMMA OtherEntries ==
    ASSUME IInv, NEW e \in Entries, Push(e), e.kind # "callback"
    PROVE  UNCHANGED <<InForce, state>>
<1>1. queue \in Seq(Entries)
  BY DEF IInv, TypeOK
<1>2. \A u \in Targets : LastQueued(queue', u) = LastQueued(queue, u)
  BY <1>1, LastAppend DEF Push, For
<1> QED
  BY <1>2 DEF Push, InForce

\* The server comes up with exactly what was in force.
LEMMA UpStep ==
    ASSUME IInv, Up PROVE InForce' = InForce
<1>1. /\ state = "Starting" /\ state' = "Running" /\ step = "up"
      /\ installed' = installed
  BY DEF Up, Due
<1>2. /\ queue \in Seq(Entries) /\ ModelEntry # None
      /\ installed \in [Targets -> Callbacks \cup {ModelEntry, None}]
      /\ InstalledOK /\ ReplayOK /\ Len(queue) \in Nat
  BY ValuesAssumption, LenProperties DEF IInv, TypeOK
<1>3. Len(queue) - Len(replay) = Len(queue)
  BY <1>1, <1>2, EmptySeq DEF ReplayOK
<1>4. ASSUME NEW t \in Targets
      PROVE  LastQueued(queue, t) =
                 IF installed[t] = ModelEntry THEN None ELSE installed[t]
  <2>1. \/ IsLast(installed[t], queue, Len(queue), t)
        \/ installed[t] = ModelEntry /\ IsLast(None, queue, Len(queue), t)
    BY <1>1, <1>2, <1>3 DEF InstalledOK, Targets
  <2>2. LastQueued(queue, t) # ModelEntry
    <3>1. IsLast(LastQueued(queue, t), queue, Len(queue), t)
      BY <1>2, LastIsLast
    <3>2. LastQueued(queue, t) \in Callbacks \cup {None}
      BY <1>2, <3>1, SeqFacts, EntryFacts DEF IsLast, For
    <3> QED
      BY <3>2, ValuesAssumption
  <2> QED
    BY <1>2, <2>1, <2>2, LastIsLast
<1> QED
  BY <1>1, <1>4 DEF InForce

\* Nothing is in force by an empty queue.
LEMMA NothingQueued == \A t : LastQueued(<<>>, t) = None
<1>1. <<>> \in Seq(Entries) /\ Len(<<>>) = 0
  BY EmptySeq
<1>2. \A t : IsLast(None, <<>>, Len(<<>>), t)
  BY <1>1 DEF IsLast
<1> QED
  BY <1>1, <1>2, LastIsLast

\* Every step is one of RegistrationPromise, or changes nothing it sees.
LEMMA PromiseStep == IInv /\ [Next]_vars => [Promise!Next]_<<InForce, state = "Stopped">>
<1> SUFFICES ASSUME IInv, [Next]_vars
             PROVE  [Promise!Next]_<<InForce, state = "Stopped">>
  OBVIOUS
<1>1. ASSUME NEW t \in Targets, NEW cb \in Callbacks,
             \/ QueueCallback(t, cb) \/ QueueSettingGroup(t, cb)
             \/ InstallCallback(t, cb)
      PROVE  Promise!Next
  BY <1>1, RegisterStep DEF Promise!Next
<1>2. ASSUME NEW d \in DataSets, QueueDataSet(d)
      PROVE  UNCHANGED <<InForce, state>>
  BY <1>2, NewEntries, OtherEntries DEF QueueDataSet, DataSet
<1>3. ASSUME NEW d \in DataSets, NEW r \in Reports, QueueReport(r, d)
      PROVE  UNCHANGED <<InForce, state>>
  BY <1>3, NewEntries, OtherEntries DEF QueueReport, Report
<1>4. ASSUME NEW d \in DataSets, NEW l \in Logs, QueueLog(l, d)
      PROVE  UNCHANGED <<InForce, state>>
  BY <1>4, NewEntries, OtherEntries DEF QueueLog, Log
<1>5. CASE QueueFromModel
  BY <1>5, NewEntries, OtherEntries DEF QueueFromModel, FromModel
<1>6. CASE Start
  BY <1>6 DEF Start, InForce
<1>7. CASE \/ ReplayEntry \/ ReplayDone \/ BindReports \/ ServeDataSets
           \/ ServeLogsAndGroups \/ ReplayModel
  BY <1>7 DEF ReplayEntry, ReplayDone, BindReports, ServeDataSets,
     ServeLogsAndGroups, ReplayModel, Due, InForce
<1>8. CASE Up
  BY <1>8, UpStep DEF Up, Due
<1>9. ASSUME state \in {"Starting", "Running"}, Discard PROVE Promise!End
  <2>1. \A t \in Targets : LastQueued(queue', t) = None
    BY <1>9, NothingQueued DEF Discard
  <2> QED
    BY <1>9, <2>1 DEF Discard, InForce, Promise!End, Promise!Empty
<1>10. CASE RegisterFromModelNow
  <2>1. \A t \in Targets :
            \/ installed'[t] = installed[t]
            \/ installed[t] = None /\ installed'[t] = ModelEntry
    BY <1>10 DEF RegisterFromModelNow, RegisterFromModel
  <2> QED
    BY <1>10, <2>1 DEF RegisterFromModelNow, InForce
<1>11. CASE UNCHANGED vars
  BY <1>11 DEF vars, InForce
<1> QED
  BY <1>1, <1>2, <1>3, <1>4, <1>5, <1>6, <1>7, <1>8, <1>9, <1>10, <1>11
     DEF Next, StartFails, Stop, Promise!Next

\* Registrations keep RegistrationPromise: whether a callback is registered
\* before the start, and replayed, or on the running server, the last one
\* accepted for a target is the one in force until the server is over.
THEOREM Refinement == Spec => KeepsPromise
<1>1. Init => Promise!Init
  BY NothingQueued DEF Init, InForce, Promise!Init, Promise!Empty
<1>2. IInv /\ [Next]_vars => [Promise!Next]_(Promise!vars)
  BY PromiseStep DEF Promise!vars
<1> QED
  BY <1>1, <1>2, Invariance, PTL DEF Spec, KeepsPromise, Promise!Spec
=============================================================================
