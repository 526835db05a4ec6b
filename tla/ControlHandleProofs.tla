------------------------ MODULE ControlHandleProofs ------------------------
(***************************************************************************)
(* For any number of commands, settings and recordings: the type of the    *)
(* state, that a command which took an origin or SBO class is sent with    *)
(* it, and that neither changes under a command in flight. The argument is *)
(* that a command is in the lock's queue exactly as long as it is queued,  *)
(* that a writer holds the lock alone until it has installed what it took, *)
(* and that only writers have exclusive settings to install.               *)
(***************************************************************************)
EXTENDS ControlHandle, SequenceTheorems, TLAPS

\* The lock's queue holds queued commands, each once.
QueueOK ==
    /\ \A i \in 1..Len(waiting) : phase[waiting[i]] = "queued"
    /\ \A i, j \in 1..Len(waiting) : waiting[i] = waiting[j] => i = j

\* Nobody holds the lock besides a command that holds it exclusively.
WriterAlone ==
    \A c, d \in Commands : c \in Writers /\ d \in Guards => d = c

\* Only a command that is applying has settings to install, of those it took.
TodoTaken ==
    \A c \in Commands : /\ todo[c] \subseteq Recorded(taken[c])
                        /\ phase[c] # "applying" => todo[c] = {}

\* The exclusive settings a command no longer has to install are in force.
InstalledSoFar ==
    \A c \in Commands, s \in ExclusiveSettings :
        /\ phase[c] = "applying"
        /\ taken[c][s] # 0
        /\ s \notin todo[c]
        => installed[s] = taken[c][s]

Lock == QueueOK /\ WriterAlone
Carrying == TodoTaken /\ InstalledSoFar /\ ExclusiveCarried
IInv == TypeOK /\ Lock /\ Carrying

----------------------------------------------------------------------------
\* Taking one element out of a sequence keeps the others in their order.
LEMMA RemoveOne ==
    ASSUME NEW S, NEW q \in Seq(S), NEW i \in 1..Len(q)
    PROVE  LET r == RemoveAt(q, i)
           IN  /\ r \in Seq(S)
               /\ Len(r) = Len(q) - 1
               /\ \A j \in 1..Len(r) :
                     r[j] = IF j < i THEN q[j] ELSE q[j + 1]
<1> DEFINE n == Len(q)
           r == RemoveAt(q, i)
           a == SubSeq(q, 1, i - 1)
           b == SubSeq(q, i + 1, n)
<1>1. \A j \in 1..n : q[j] \in S
  BY LenProperties
<1>2. n \in Nat /\ i \in Nat /\ 1 <= i /\ i <= n
  BY LenProperties
<1>3. /\ a \in Seq(S) /\ Len(a) = i - 1
      /\ \A j \in 1..(i - 1) : a[j] = q[j]
  <2>1. \A j \in 1..(i - 1) : q[j] \in S
    BY <1>1, <1>2
  <2> QED
    BY <1>2, <2>1, SubSeqProperties
<1>4. /\ b \in Seq(S) /\ Len(b) = n - i
      /\ \A j \in 1..(n - i) : b[j] = q[j + i]
  <2>1. \A j \in (i + 1)..n : q[j] \in S
    BY <1>1, <1>2
  <2>2. /\ b \in Seq(S)
        /\ Len(b) = IF i + 1 <= n THEN n - (i + 1) + 1 ELSE 0
        /\ \A j \in 1..(n - (i + 1) + 1) : b[j] = q[(i + 1) + j - 1]
    BY <1>2, <2>1, SubSeqProperties
  <2> HIDE DEF b, n
  <2> QED
    BY <1>2, <2>2
<1>5. r = a \o b
  BY DEF RemoveAt
<1> HIDE DEF a, b, n, r
<1>6. /\ r \in Seq(S) /\ Len(r) = Len(a) + Len(b)
      /\ \A j \in 1..(Len(a) + Len(b)) :
            r[j] = IF j <= Len(a) THEN a[j] ELSE b[j - Len(a)]
  BY <1>3, <1>4, <1>5, ConcatProperties
<1>7. Len(r) = n - 1
  BY <1>2, <1>3, <1>4, <1>6
<1>8. \A j \in 1..(n - 1) : r[j] = IF j <= i - 1 THEN a[j] ELSE b[j - (i - 1)]
  BY <1>2, <1>3, <1>4, <1>6
<1>9. \A j \in 1..(n - 1) : r[j] = IF j < i THEN q[j] ELSE q[j + 1]
  <2> SUFFICES ASSUME NEW j \in 1..(n - 1)
               PROVE  r[j] = IF j < i THEN q[j] ELSE q[j + 1]
    OBVIOUS
  <2>1. CASE j < i
    BY <1>2, <1>3, <1>8, <2>1
  <2>2. CASE ~(j < i)
    <3> DEFINE k == j - (i - 1)
    <3>1. k \in 1..(n - i) /\ k + i = j + 1 /\ ~(j <= i - 1)
      BY <1>2, <2>2
    <3> HIDE DEF k
    <3>2. b[k] = q[k + i]
      BY <1>4, <3>1
    <3>3. r[j] = b[k]
      BY <1>8, <3>1 DEF k
    <3> QED
      BY <2>2, <3>1, <3>2, <3>3
  <2> QED
    BY <2>1, <2>2
<1> QED
  BY <1>6, <1>7, <1>9 DEF n, r

\* No setter and no command puts anything but a setting where a setting
\* belongs, or anything but a command in the lock's queue.
LEMMA TypeInit == Init => TypeOK
<1> SUFFICES ASSUME Init PROVE TypeOK
  OBVIOUS
<1>1. 0 \in Versions
  BY BoundsAssumption DEF Versions
<1>2. <<>> \in Seq(Commands)
  BY EmptySeq
<1> QED
  BY <1>1, <1>2 DEF Init, TypeOK, Nothing, Phases

\* Every step keeps the type.
LEMMA TypeStep == TypeOK /\ [Next]_vars => TypeOK'
<1> SUFFICES ASSUME TypeOK, [Next]_vars PROVE TypeOK'
  OBVIOUS
<1> USE DEF TypeOK
<1>1. 0 \in Versions /\ Nothing \in [Settings -> Versions]
  BY BoundsAssumption DEF Versions, Nothing
<1>2. ASSUME NEW s \in Settings, Record(s) PROVE TypeOK'
  <2>1. recorded[s] + 1 \in Versions
    BY <1>2, BoundsAssumption DEF Record, Versions
  <2> QED
    BY <1>2, <2>1 DEF Record
<1>3. ASSUME NEW c \in Commands, Issue(c) PROVE TypeOK'
  BY <1>3 DEF Issue, Phases
<1>4. ASSUME NEW c \in Commands, Take(c) PROVE TypeOK'
  BY <1>1, <1>4 DEF Take, Phases
<1>5. ASSUME NEW c \in Commands, Enter(c) PROVE TypeOK'
  BY <1>5 DEF Enter, Phases, Recorded
<1>6. ASSUME NEW c \in Commands, Enqueue(c) PROVE TypeOK'
  <2>1. Append(waiting, c) \in Seq(Commands)
    BY AppendProperties
  <2> QED
    BY <1>6, <2>1 DEF Enqueue, Phases
<1>7. ASSUME Grant PROVE TypeOK'
  <2>1. Tail(waiting) \in Seq(Commands) /\ Head(waiting) \in Commands
    BY <1>7, HeadTailProperties DEF Grant
  <2> QED
    BY <1>7, <2>1 DEF Grant, Phases
<1>8. ASSUME NEW c \in Commands, Resume(c) PROVE TypeOK'
  BY <1>8 DEF Resume, Phases, Recorded
<1>9. ASSUME NEW c \in Commands, NEW s \in Settings, Install(c, s)
      PROVE TypeOK'
  BY <1>9 DEF Install
<1>10. ASSUME NEW c \in Commands, Downgrade(c) PROVE TypeOK'
  BY <1>10 DEF Downgrade, Phases
<1>11. ASSUME NEW c \in Commands, Send(c) PROVE TypeOK'
  BY <1>11 DEF Send, Phases
<1>12. ASSUME NEW c \in Commands, Complete(c) PROVE TypeOK'
  BY <1>1, <1>12 DEF Complete, Release, Phases
<1>13. ASSUME NEW c \in Commands, Abandon(c) PROVE TypeOK'
  BY <1>13 DEF Abandon
<1>14. ASSUME NEW c \in Commands, Drop(c) PROVE TypeOK'
  <2>1. waiting' \in Seq(Commands)
    <3>1. CASE UNCHANGED waiting
      BY <3>1
    <3>2. CASE ~UNCHANGED waiting
      BY <1>14, <3>2, RemoveOne DEF Drop
    <3> QED
      BY <3>1, <3>2
  <2> QED
    BY <1>1, <1>14, <2>1 DEF Drop, Release, Phases
<1>15. CASE UNCHANGED vars
  BY <1>15 DEF vars
<1> QED
  BY <1>2, <1>3, <1>4, <1>5, <1>6, <1>7, <1>8, <1>9, <1>10, <1>11, <1>12,
     <1>13, <1>14, <1>15 DEF Next

----------------------------------------------------------------------------
\* The queue of the lock, for every action; only Enqueue, Grant and Drop
\* change it, and only they and Enter change whether a command is queued.
LEMMA QueueStep == TypeOK /\ QueueOK /\ [Next]_vars => QueueOK'
<1> SUFFICES ASSUME TypeOK, QueueOK, [Next]_vars PROVE QueueOK'
  OBVIOUS
<1> USE DEF QueueOK
<1>1. /\ Len(waiting) \in Nat /\ waiting \in Seq(Commands)
      /\ phase \in [Commands -> Phases]
      /\ \A i \in 1..Len(waiting) : waiting[i] \in Commands
  BY LenProperties DEF TypeOK
\* A command that was not queued may change its phase.
<1>2. ASSUME NEW c \in Commands, phase[c] # "queued", UNCHANGED waiting,
             \A d \in Commands \ {c} : phase'[d] = phase[d]
      PROVE  QueueOK'
  BY <1>1, <1>2
<1>3. CASE UNCHANGED <<phase, waiting>>
  BY <1>3
<1>4. ASSUME NEW s \in Settings, Record(s) PROVE QueueOK'
  BY <1>3, <1>4 DEF Record
<1>5. ASSUME NEW c \in Commands,
             Issue(c) \/ Take(c) \/ Enter(c) \/ Resume(c) \/ Downgrade(c)
             \/ Send(c) \/ Complete(c)
      PROVE  QueueOK'
  BY <1>1, <1>2, <1>5
  DEF Issue, Take, Enter, Resume, Downgrade, Send, Complete, Release
<1>6. ASSUME NEW c \in Commands, Enqueue(c) PROVE QueueOK'
  <2>1. /\ Len(waiting') = Len(waiting) + 1
        /\ \A i \in 1..Len(waiting) : waiting'[i] = waiting[i]
        /\ waiting'[Len(waiting) + 1] = c
    BY <1>1, <1>6, AppendProperties DEF Enqueue
  <2>2. \A i \in 1..Len(waiting) : waiting[i] # c
    BY <1>6 DEF Enqueue
  <2>3. /\ phase'[c] = "queued"
        /\ \A d \in Commands \ {c} : phase'[d] = phase[d]
    BY <1>1, <1>6 DEF Enqueue
  <2>4. ASSUME NEW i \in 1..Len(waiting') PROVE phase'[waiting'[i]] = "queued"
    <3>1. CASE i = Len(waiting) + 1
      BY <2>1, <2>3, <3>1
    <3>2. CASE i \in 1..Len(waiting)
      BY <1>1, <2>1, <2>2, <2>3, <3>2
    <3> QED
      BY <1>1, <2>1, <3>1, <3>2
  <2>5. ASSUME NEW i \in 1..Len(waiting'), NEW j \in 1..Len(waiting'),
               waiting'[i] = waiting'[j]
        PROVE  i = j
    BY <1>1, <2>1, <2>2, <2>5
  <2> QED
    BY <2>4, <2>5
<1>7. ASSUME Grant PROVE QueueOK'
  <2> DEFINE h == Head(waiting)
  <2>1. /\ waiting # <<>> /\ h = waiting[1] /\ 1 \in 1..Len(waiting)
        /\ Len(waiting') = Len(waiting) - 1
        /\ \A i \in 1..Len(waiting') : waiting'[i] = waiting[i + 1]
    BY <1>1, <1>7, HeadTailProperties, EmptySeq DEF Grant
  <2>2. \A d \in Commands \ {h} : phase'[d] = phase[d]
    BY <1>1, <1>7 DEF Grant
  <2>3. \A i \in 1..Len(waiting') :
            i + 1 \in 1..Len(waiting) /\ waiting'[i] \in Commands \ {h}
    BY <1>1, <2>1
  <2> HIDE DEF h
  <2>4. \A i \in 1..Len(waiting') : phase'[waiting'[i]] = "queued"
    BY <1>1, <2>1, <2>2, <2>3
  <2>5. ASSUME NEW i \in 1..Len(waiting'), NEW j \in 1..Len(waiting'),
               waiting'[i] = waiting'[j]
        PROVE  i = j
    BY <1>1, <2>1, <2>3, <2>5
  <2> QED
    BY <2>4, <2>5
<1>8. ASSUME NEW c \in Commands, NEW s \in Settings, Install(c, s)
      PROVE QueueOK'
  BY <1>3, <1>8 DEF Install
<1>9. ASSUME NEW c \in Commands, Abandon(c) PROVE QueueOK'
  BY <1>3, <1>9 DEF Abandon
<1>10. ASSUME NEW c \in Commands, Drop(c) PROVE QueueOK'
  <2>1. \A d \in Commands \ {c} : phase'[d] = phase[d]
    BY <1>1, <1>10 DEF Drop, Release
  <2>2. CASE phase[c] # "queued"
    BY <1>2, <1>10, <2>1, <2>2 DEF Drop
  <2>3. CASE phase[c] = "queued"
    <3>1. PICK i \in 1..Len(waiting) :
              /\ waiting[i] = c
              /\ waiting' = RemoveAt(waiting, i)
      BY <1>10, <2>3 DEF Drop
    <3>2. /\ Len(waiting') = Len(waiting) - 1
          /\ \A j \in 1..Len(waiting') :
                waiting'[j] = IF j < i THEN waiting[j] ELSE waiting[j + 1]
      BY <1>1, <3>1, RemoveOne
    <3> DEFINE old(j) == IF j < i THEN j ELSE j + 1
    <3>3. \A j \in 1..Len(waiting') :
              /\ old(j) \in 1..Len(waiting) /\ old(j) # i
              /\ waiting'[j] = waiting[old(j)]
      BY <1>1, <3>2
    <3>4. \A j, k \in 1..Len(waiting') : old(j) = old(k) => j = k
      BY <1>1, <3>2
    <3> HIDE DEF old
    <3>5. ASSUME NEW j \in 1..Len(waiting')
          PROVE  waiting'[j] \in Commands \ {c}
      <4>1. old(j) \in 1..Len(waiting) /\ old(j) # i
        BY <3>3
      <4>2. waiting[old(j)] \in Commands /\ waiting[old(j)] # waiting[i]
        BY <1>1, <4>1
      <4> QED
        BY <3>1, <3>3, <4>2
    <3>6. \A j \in 1..Len(waiting') : phase'[waiting'[j]] = "queued"
      BY <2>1, <3>3, <3>5
    <3>7. \A j, k \in 1..Len(waiting') : waiting'[j] = waiting'[k] => j = k
      BY <3>3, <3>4
    <3> QED
      BY <3>6, <3>7
  <2> QED
    BY <2>2, <2>3
<1>11. CASE UNCHANGED vars
  BY <1>3, <1>11 DEF vars
<1> QED
  BY <1>4, <1>5, <1>6, <1>7, <1>8, <1>9, <1>10, <1>11 DEF Next

----------------------------------------------------------------------------
\* Only Enter and Grant let a command in, and they look at who is inside.
LEMMA WriterAloneStep ==
    TypeOK /\ QueueOK /\ WriterAlone /\ [Next]_vars => WriterAlone'
<1> SUFFICES ASSUME TypeOK, QueueOK, WriterAlone, [Next]_vars
             PROVE  WriterAlone'
  OBVIOUS
<1>1. /\ phase \in [Commands -> Phases]
      /\ taken \in [Commands -> [Settings -> Versions]]
      /\ DOMAIN phase = Commands /\ DOMAIN taken = Commands
  BY DEF TypeOK
\* Nobody comes in.
<1>2. ASSUME Guards' \subseteq Guards, Writers' \subseteq Writers
      PROVE  WriterAlone'
  BY <1>2 DEF WriterAlone
<1>3. ASSUME UNCHANGED <<phase, taken>> PROVE WriterAlone'
  BY <1>2, <1>3 DEF Guards, Writers, NeedsExclusive, Recorded
<1>4. ASSUME NEW c \in Commands,
             \A d \in Commands \ {c} :
                phase'[d] = phase[d] /\ taken'[d] = taken[d],
             phase'[c] \notin GuardPhases
      PROVE  WriterAlone'
  BY <1>2, <1>4 DEF Guards, Writers, NeedsExclusive, Recorded
\* Command c comes in.
<1>5. ASSUME NEW c \in Commands, CanEnter(c), UNCHANGED taken,
             \A d \in Commands \ {c} : phase'[d] = phase[d]
      PROVE  WriterAlone'
  <2>1. Guards' \subseteq Guards \cup {c}
    BY <1>5 DEF Guards
  <2>2. CASE NeedsExclusive(taken[c])
    BY <1>5, <2>1, <2>2 DEF CanEnter, WriterAlone, Writers
  <2>3. CASE ~NeedsExclusive(taken[c])
    <3>1. Writers' = {}
      BY <1>5, <2>1, <2>3
      DEF CanEnter, Writers, Guards, NeedsExclusive, Recorded
    <3> QED
      BY <3>1 DEF WriterAlone
  <2> QED
    BY <2>2, <2>3
<1>6. ASSUME NEW s \in Settings, Record(s) PROVE WriterAlone'
  BY <1>3, <1>6 DEF Record
<1>7. ASSUME NEW c \in Commands, Issue(c) \/ Take(c) \/ Enqueue(c)
      PROVE WriterAlone'
  BY <1>1, <1>4, <1>7 DEF Issue, Take, Enqueue, GuardPhases
<1>8. ASSUME NEW c \in Commands, Enter(c) PROVE WriterAlone'
  BY <1>1, <1>5, <1>8 DEF Enter
<1>9. ASSUME Grant PROVE WriterAlone'
  <2>1. Head(waiting) \in Commands
    BY <1>9, HeadTailProperties DEF Grant, TypeOK
  <2> QED
    BY <1>1, <1>5, <1>9, <2>1 DEF Grant
<1>10. ASSUME NEW c \in Commands, Resume(c) PROVE WriterAlone'
  BY <1>1, <1>2, <1>10
  DEF Resume, Guards, Writers, NeedsExclusive, Recorded, GuardPhases
<1>11. ASSUME NEW c \in Commands, NEW s \in Settings, Install(c, s)
       PROVE WriterAlone'
  BY <1>3, <1>11 DEF Install
<1>12. ASSUME NEW c \in Commands, Downgrade(c) \/ Send(c) PROVE WriterAlone'
  BY <1>1, <1>2, <1>12
  DEF Downgrade, Send, Guards, Writers, NeedsExclusive, Recorded, GuardPhases
<1>13. ASSUME NEW c \in Commands, Complete(c) \/ Drop(c) PROVE WriterAlone'
  <2>1. Release(c)
    BY <1>13 DEF Complete, Drop
  <2> QED
    BY <1>1, <1>4, <2>1 DEF Release, GuardPhases
<1>14. ASSUME NEW c \in Commands, Abandon(c) PROVE WriterAlone'
  BY <1>3, <1>14 DEF Abandon
<1>15. CASE UNCHANGED vars
  BY <1>3, <1>15 DEF vars
<1> QED
  BY <1>6, <1>7, <1>8, <1>9, <1>10, <1>11, <1>12, <1>13, <1>14, <1>15
  DEF Next

\* Whoever installs an origin or SBO class is alone inside the lock.
LEMMA InstallAlone ==
    ASSUME TypeOK, WriterAlone, TodoTaken,
           NEW d \in Commands, NEW s \in ExclusiveSettings, Install(d, s)
    PROVE  \A c \in Guards : c = d
<1>1. s \in Recorded(taken[d]) \cap ExclusiveSettings
  BY DEF Install, TodoTaken
<1>2. d \in Guards /\ phase[d] = "applying"
  BY DEF Install, Guards, GuardPhases
<1>3. d \in Writers
  BY <1>1, <1>2 DEF Writers, NeedsExclusive
<1>4. Guards \subseteq Commands
  BY DEF Guards
<1> QED
  BY <1>3, <1>4 DEF WriterAlone

\* Every step keeps what the commands carry: only a writer that holds the
\* lock alone installs a setting.
LEMMA CarryingStep ==
    TypeOK /\ Lock /\ Carrying /\ [Next]_vars => Carrying'
<1> SUFFICES ASSUME TypeOK, Lock, Carrying, [Next]_vars PROVE Carrying'
  OBVIOUS
<1>1. /\ ExclusiveSettings \subseteq Settings
      /\ phase \in [Commands -> Phases]
      /\ taken \in [Commands -> [Settings -> Versions]]
      /\ todo \in [Commands -> SUBSET Settings]
      /\ installed \in [Settings -> Versions]
      /\ sent \in [Commands -> [Settings -> Versions]]
  BY SettingsAssumption DEF TypeOK
<1> USE DEF Carrying, TodoTaken, InstalledSoFar, ExclusiveCarried
<1>2. ASSUME UNCHANGED <<installed, phase, taken, todo, sent>>
      PROVE  Carrying'
  BY <1>2 DEF Recorded
\* A command changes its phase, and nothing else, without coming to install
\* or to send.
<1>3. ASSUME NEW c \in Commands,
             UNCHANGED <<installed, taken, todo, sent>>,
             phase[c] # "applying",
             phase' = [phase EXCEPT ![c] = phase'[c]],
             phase'[c] \in {"issued", "queued", "granted"}
      PROVE  Carrying'
  BY <1>1, <1>3 DEF Recorded
<1>4. ASSUME NEW s \in Settings, Record(s) PROVE Carrying'
  BY <1>2, <1>4 DEF Record
<1>5. ASSUME NEW c \in Commands, Issue(c) \/ Enqueue(c) PROVE Carrying'
  BY <1>1, <1>3, <1>5 DEF Issue, Enqueue
<1>6. ASSUME NEW c \in Commands, Take(c) PROVE Carrying'
  BY <1>1, <1>6 DEF Take, Recorded
<1>7. ASSUME NEW c \in Commands, Enter(c) \/ Resume(c) PROVE Carrying'
  <2>1. /\ UNCHANGED <<installed, taken, sent>>
        /\ phase'[c] = "applying" /\ todo'[c] = Recorded(taken[c])
        /\ \A d \in Commands \ {c} :
              phase'[d] = phase[d] /\ todo'[d] = todo[d]
    BY <1>1, <1>7 DEF Enter, Resume
  <2>2. \A s \in ExclusiveSettings : taken[c][s] # 0 => s \in todo'[c]
    BY <1>1, <2>1 DEF Recorded
  <2>3. TodoTaken'
    BY <2>1 DEF Recorded
  <2>4. InstalledSoFar'
    BY <2>1, <2>2
  <2>5. ExclusiveCarried'
    BY <2>1
  <2> QED
    BY <2>3, <2>4, <2>5
<1>8. ASSUME Grant PROVE Carrying'
  <2>1. /\ Head(waiting) \in Commands /\ 1 \in 1..Len(waiting)
        /\ Head(waiting) = waiting[1]
    BY <1>8, HeadTailProperties, EmptySeq, LenProperties DEF Grant, TypeOK
  <2>2. phase[Head(waiting)] = "queued"
    BY <2>1 DEF Lock, QueueOK
  <2> QED
    BY <1>1, <1>3, <1>8, <2>1, <2>2 DEF Grant
<1>9. ASSUME NEW d \in Commands, NEW s \in Settings, Install(d, s)
      PROVE Carrying'
  <2>1. TodoTaken'
    BY <1>1, <1>9 DEF Install, Recorded
  <2>2. CASE s \in ExclusiveSettings
    <3>1. \A c \in Guards : c = d
      BY <1>9, <2>2, InstallAlone DEF Lock
    <3>2. \A c \in Commands \ {d} : phase[c] \notin {"applying", "holding"}
      BY <3>1 DEF Guards, GuardPhases
    <3> QED
      BY <1>1, <1>9, <2>1, <3>2 DEF Install
  <2>3. CASE s \notin ExclusiveSettings
    BY <1>1, <1>9, <2>1, <2>3 DEF Install
  <2> QED
    BY <2>2, <2>3
<1>10. ASSUME NEW c \in Commands, Downgrade(c) PROVE Carrying'
  BY <1>1, <1>10 DEF Downgrade, Recorded
<1>11. ASSUME NEW c \in Commands, Send(c) PROVE Carrying'
  BY <1>1, <1>11 DEF Send, Recorded
<1>12. ASSUME NEW c \in Commands, Complete(c) \/ Drop(c) PROVE Carrying'
  <2>1. Release(c)
    BY <1>12 DEF Complete, Drop
  <2> QED
    BY <1>1, <2>1 DEF Release, Recorded, Nothing
<1>13. ASSUME NEW c \in Commands, Abandon(c) PROVE Carrying'
  BY <1>2, <1>13 DEF Abandon
<1>14. CASE UNCHANGED vars
  BY <1>2, <1>14 DEF vars
<1> QED
  BY <1>4, <1>5, <1>6, <1>7, <1>8, <1>9, <1>10, <1>11, <1>12, <1>13, <1>14
  DEF Next

----------------------------------------------------------------------------
\* The invariant is inductive.
LEMMA Inductive ==
    /\ Init => IInv
    /\ IInv /\ [Next]_vars => IInv'
<1>1. Init => IInv
  <2> SUFFICES ASSUME Init PROVE IInv
    OBVIOUS
  <2>1. TypeOK
    BY TypeInit
  <2>2. QueueOK
    BY EmptySeq DEF Init, QueueOK
  <2>3. WriterAlone
    BY DEF Init, WriterAlone, Writers, Guards, GuardPhases
  <2>4. Carrying
    BY SettingsAssumption
    DEF Init, Carrying, TodoTaken, InstalledSoFar, ExclusiveCarried, Nothing
  <2> QED
    BY <2>1, <2>2, <2>3, <2>4 DEF IInv, Lock
<1>2. IInv /\ [Next]_vars => IInv'
  BY TypeStep, QueueStep, WriterAloneStep, CarryingStep DEF IInv, Lock
<1> QED
  BY <1>1, <1>2

\* It holds of every state the commands reach.
LEMMA Invariance == Spec => []IInv
BY Inductive, PTL DEF Spec

\* The state keeps its type, whatever commands and settings there are.
THEOREM TypeCorrect == Spec => []TypeOK
<1>1. IInv => TypeOK
  BY DEF IInv
<1> QED
  BY <1>1, Invariance, PTL

\* A command that took a new origin or SBO class is sent with exactly it:
\* control_handle_for_command keeps the lock from the setters to the request.
THEOREM CarriesExclusive == Spec => []ExclusiveCarried
<1>1. IInv => ExclusiveCarried
  BY DEF IInv, Carrying
<1> QED
  BY <1>1, Invariance, PTL

\* The origin and SBO class of the shared handle stand still while any
\* command is about to be sent or waits for its answer: the read guard it
\* keeps stops every other command from installing its own.
THEOREM ExclusiveStands == Spec => ExclusiveStable
<1> DEFINE Stands ==
        \A s \in ExclusiveSettings, c \in Commands :
            phase[c] \in {"holding", "sent"} => installed'[s] = installed[s]
<1>1. IInv /\ [Next]_vars => [Stands]_vars
  <2> SUFFICES ASSUME IInv, Next,
                      NEW s \in ExclusiveSettings, NEW c \in Commands,
                      phase[c] \in {"holding", "sent"}
               PROVE  installed'[s] = installed[s]
    OBVIOUS
  <2>1. CASE UNCHANGED installed
    BY <2>1
  <2>2. ASSUME NEW d \in Commands, NEW e \in Settings, Install(d, e)
        PROVE  installed'[s] = installed[s]
    <3>1. e # s
      <4> SUFFICES ASSUME e = s PROVE FALSE
        OBVIOUS
      <4>1. c \in Guards
        BY DEF Guards, GuardPhases
      <4>2. c = d
        BY <2>2, <4>1, InstallAlone DEF IInv, Lock, Carrying
      <4> QED
        BY <2>2, <4>2 DEF Install
    <3> QED
      BY <2>2, <3>1, SettingsAssumption DEF Install, IInv, TypeOK
  <2> QED
    BY <2>1, <2>2
    DEF Next, Record, Issue, Take, Enter, Enqueue, Resume, Downgrade, Send,
        Complete, Abandon, Drop, Release, Grant
<1> QED
  BY <1>1, Invariance, PTL DEF Spec, ExclusiveStable
=============================================================================
