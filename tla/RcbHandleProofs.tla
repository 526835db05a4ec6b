--------------------------- MODULE RcbHandleProofs ---------------------------
(***************************************************************************)
(* Proofs about RcbHandle, for any number of calls, attributes and values: *)
(* the type of the state, that the mirror is never torn between two        *)
(* images, and that a set writes what the mirror held at one moment of the *)
(* call. Both rest on the copy each future works on: how much of the       *)
(* answer it holds, and that a set's is a mirror of its own time.          *)
(***************************************************************************)
EXTENDS RcbHandle, TLAPS

\* The copy of a refresh agrees with the answer but for what is to decode.
Decoded ==
    \A c \in Refreshes :
        phase[c] = "decoding" =>
            \A f \in Fields \ todo[c] : copy[c][f] = answer[c][f]

\* A set that has yet to copy the mirror has seen it as it is; the copy it
\* then takes is a mirror it has seen, and what it wrote is from the copy.
WrittenFrom(c) == \A w \in written[c] : copy[c][w[1]] = w[2]

Copied ==
    \A c \in Sets :
        /\ phase[c] = "set called" => handle \in seen[c]
        /\ phase[c] = "writing" => copy[c] \in seen[c] /\ WrittenFrom(c)
        /\ phase[c] # "writing" => written[c] = {}

IInv == TypeOK /\ Decoded /\ MirrorUntorn /\ Copied

\* It holds before any call.
LEMMA InitInvariant == Init => IInv
<1> SUFFICES ASSUME Init PROVE IInv
  OBVIOUS
<1>1. Blank \in Image
  BY InitialAssumption DEF Blank, Image
<1>2. TypeOK
  BY <1>1 DEF Init, TypeOK, Phases
<1>3. Decoded /\ MirrorUntorn /\ Copied
  BY DEF Init, Decoded, MirrorUntorn, Copied, WrittenFrom, Calls
<1> QED
  BY <1>2, <1>3 DEF IInv

\* Every image has a value for every attribute, and what has been seen and
\* written is made of such.
LEMMA TypeStep == TypeOK /\ [Next]_vars => TypeOK'
<1> SUFFICES ASSUME TypeOK, [Next]_vars PROVE TypeOK'
  OBVIOUS
<1> USE DEF TypeOK
<1>1. Blank \in Image
  BY InitialAssumption DEF Blank, Image
<1>2. Refreshes \subseteq Calls /\ Sets \subseteq Calls
  BY DEF Calls
<1>3. ASSUME NEW image \in Image, Watch(image)
      PROVE  seen' \in [Sets -> SUBSET Image]
  BY <1>3 DEF Watch
<1>4. ASSUME NEW f \in Fields, NEW v \in Values, Assign(f, v) PROVE TypeOK'
  <2>1. handle' \in Image
    BY <1>4 DEF Assign, Image
  <2> QED
    BY <1>3, <1>4, <2>1 DEF Assign
<1>5. ASSUME NEW f \in Fields, NEW v \in Values, OtherWrites(f, v)
      PROVE  TypeOK'
  BY <1>5 DEF OtherWrites, Image
<1>6. ASSUME NEW c \in Refreshes,
             CallRefresh(c) \/ Clone(c) \/ Answer(c) \/ RefreshFails(c)
      PROVE  TypeOK'
  <2>1. CASE CallRefresh(c) \/ Clone(c)
    BY <1>2, <2>1 DEF CallRefresh, Clone, Phases
  <2>2. CASE Answer(c)
    BY <1>2, <2>2 DEF Answer, Phases
  <2>3. CASE RefreshFails(c)
    BY <1>1, <1>2, <2>3 DEF RefreshFails, Finish, Phases
  <2> QED
    BY <1>6, <2>1, <2>2, <2>3
<1>7. ASSUME NEW c \in Refreshes, NEW f \in Fields, Decode(c, f)
      PROVE  TypeOK'
  BY <1>2, <1>7 DEF Decode, Image
<1>8. ASSUME NEW c \in Refreshes, Store(c) PROVE TypeOK'
  <2>1. handle' \in Image /\ base' \in Image
    BY <1>2, <1>8 DEF Store
  <2>2. seen' \in [Sets -> SUBSET Image]
    BY <1>3, <1>8, <2>1 DEF Store
  <2> QED
    BY <1>1, <1>2, <1>8, <2>1, <2>2 DEF Store, Finish, Phases
<1>9. ASSUME NEW c \in Sets, NEW mask \in Masks, CallSet(c, mask)
      PROVE  TypeOK'
  BY <1>2, <1>9, MasksAssumption DEF CallSet, Phases
<1>10. ASSUME NEW c \in Sets, CloneForSet(c) \/ SetReturns(c) PROVE TypeOK'
  <2>1. CASE CloneForSet(c)
    BY <1>2, <2>1 DEF CloneForSet, Phases
  <2>2. CASE SetReturns(c)
    BY <1>1, <1>2, <2>2 DEF SetReturns, Phases
  <2> QED
    BY <1>10, <2>1, <2>2
<1>11. ASSUME NEW c \in Sets, NEW f \in Fields, Write(c, f) PROVE TypeOK'
  <2>1. copy[c][f] \in Values
    BY <1>2 DEF Image
  <2>2. server' \in Image
    BY <1>11, <2>1 DEF Write, Image
  <2>3. written' \in [Sets -> SUBSET (Fields \X Values)]
    BY <1>11, <2>1 DEF Write
  <2> QED
    BY <1>2, <1>11, <2>2, <2>3 DEF Write
<1>12. CASE UNCHANGED vars
  BY <1>12 DEF vars
<1> QED
  BY <1>4, <1>5, <1>6, <1>7, <1>8, <1>9, <1>10, <1>11, <1>12 DEF Next

----------------------------------------------------------------------------
\* A refresh that decodes has copied the fields it is done with; the mirror
\* it stores is therefore the answer, and what is assigned is noted.
LEMMA MirrorStep ==
    TypeOK /\ Decoded /\ MirrorUntorn /\ [Next]_vars
        => Decoded' /\ MirrorUntorn'
<1> SUFFICES ASSUME TypeOK, Decoded, MirrorUntorn, [Next]_vars
             PROVE  Decoded' /\ MirrorUntorn'
  OBVIOUS
<1> USE CallsAssumption DEF Decoded, MirrorUntorn, TypeOK, Calls, Image
\* Steps of a set, of the server or of no one touch no refresh.
<1>1. ASSUME UNCHANGED <<handle, base, edited, answer>>,
             \A c \in Refreshes : /\ phase'[c] = phase[c]
                                  /\ copy'[c] = copy[c] /\ todo'[c] = todo[c]
      PROVE  Decoded' /\ MirrorUntorn'
  BY <1>1
<1>2. ASSUME NEW c \in Sets, NEW mask \in Masks, CallSet(c, mask)
      PROVE  Decoded' /\ MirrorUntorn'
  BY <1>1, <1>2 DEF CallSet
<1>3. ASSUME NEW c \in Sets, NEW f \in Fields, Write(c, f)
      PROVE  Decoded' /\ MirrorUntorn'
  BY <1>1, <1>3 DEF Write
<1>4. ASSUME NEW c \in Sets, CloneForSet(c) \/ SetReturns(c)
      PROVE  Decoded' /\ MirrorUntorn'
  <2>1. CASE CloneForSet(c)
    BY <1>1, <2>1 DEF CloneForSet
  <2>2. CASE SetReturns(c)
    BY <1>1, <2>2 DEF SetReturns
  <2> QED
    BY <1>4, <2>1, <2>2
<1>5. ASSUME NEW f \in Fields, NEW v \in Values, OtherWrites(f, v)
      PROVE  Decoded' /\ MirrorUntorn'
  BY <1>1, <1>5 DEF OtherWrites
<1>6. ASSUME NEW f \in Fields, NEW v \in Values, Assign(f, v)
      PROVE  Decoded' /\ MirrorUntorn'
  BY <1>6 DEF Assign
<1>7. ASSUME NEW c \in Refreshes,
             CallRefresh(c) \/ Clone(c) \/ Answer(c) \/ RefreshFails(c)
      PROVE  Decoded' /\ MirrorUntorn'
  <2>1. CASE CallRefresh(c)
    BY <2>1 DEF CallRefresh
  <2>2. CASE Clone(c)
    BY <2>2 DEF Clone
  <2>3. CASE Answer(c)
    BY <2>3 DEF Answer
  <2>4. CASE RefreshFails(c)
    BY <2>4 DEF RefreshFails, Finish
  <2> QED
    BY <1>7, <2>1, <2>2, <2>3, <2>4
<1>8. ASSUME NEW c \in Refreshes, NEW f \in Fields, Decode(c, f)
      PROVE  Decoded' /\ MirrorUntorn'
  BY <1>8 DEF Decode
<1>9. ASSUME NEW c \in Refreshes, Store(c) PROVE Decoded' /\ MirrorUntorn'
  <2>1. \A f \in Fields : copy[c][f] = answer[c][f]
    BY <1>9 DEF Store
  <2>2. MirrorUntorn'
    BY <1>9, <2>1 DEF Store
  <2>3. Decoded'
    BY <1>9 DEF Store, Finish
  <2> QED
    BY <2>2, <2>3
<1>10. CASE UNCHANGED vars
  BY <1>1, <1>10 DEF vars
<1> QED
  BY <1>2, <1>3, <1>4, <1>5, <1>6, <1>7, <1>8, <1>9, <1>10 DEF Next

\* A set's copy is a mirror of its call, and whatever it writes is of it.
LEMMA CopiedStep == TypeOK /\ Copied /\ [Next]_vars => Copied'
<1> SUFFICES ASSUME TypeOK, Copied, [Next]_vars PROVE Copied'
  OBVIOUS
<1> USE CallsAssumption DEF Copied, TypeOK, Calls
\* The mirror stays: steps of a refresh, of the server or of no one.
<1>1. ASSUME UNCHANGED <<handle, seen, written>>,
             \A c \in Sets : phase'[c] = phase[c] /\ copy'[c] = copy[c]
      PROVE  Copied'
  <2>1. \A c \in Sets : WrittenFrom(c)' <=> WrittenFrom(c)
    BY <1>1 DEF WrittenFrom
  <2> QED
    BY <1>1, <2>1
\* The mirror changes, and every set that has yet to copy it sees that.
<1>2. ASSUME Watch(handle'), UNCHANGED written,
             \A c \in Sets : phase'[c] = phase[c] /\ copy'[c] = copy[c]
      PROVE  Copied'
  <2>1. \A c \in Sets : WrittenFrom(c)' <=> WrittenFrom(c)
    BY <1>2 DEF WrittenFrom
  <2> QED
    BY <1>2, <2>1 DEF Watch
<1>3. ASSUME NEW f \in Fields, NEW v \in Values, Assign(f, v) PROVE Copied'
  BY <1>2, <1>3 DEF Assign
<1>4. ASSUME NEW f \in Fields, NEW v \in Values, OtherWrites(f, v)
      PROVE  Copied'
  BY <1>1, <1>4 DEF OtherWrites
<1>5. ASSUME NEW c \in Refreshes,
             CallRefresh(c) \/ Clone(c) \/ Answer(c) \/ RefreshFails(c)
      PROVE  Copied'
  BY <1>1, <1>5 DEF CallRefresh, Clone, Answer, RefreshFails, Finish
<1>6. ASSUME NEW c \in Refreshes, NEW f \in Fields, Decode(c, f)
      PROVE  Copied'
  BY <1>1, <1>6 DEF Decode
<1>7. ASSUME NEW c \in Refreshes, Store(c) PROVE Copied'
  BY <1>2, <1>7 DEF Store, Finish
<1>8. ASSUME NEW c \in Sets, NEW mask \in Masks, CallSet(c, mask)
      PROVE  Copied'
  BY <1>8 DEF CallSet, MayCall, WrittenFrom
<1>9. ASSUME NEW c \in Sets, CloneForSet(c) PROVE Copied'
  BY <1>9 DEF CloneForSet, WrittenFrom
<1>10. ASSUME NEW c \in Sets, NEW f \in Fields, Write(c, f) PROVE Copied'
  <2>1. /\ phase' = phase /\ copy' = copy /\ seen' = seen /\ handle' = handle
        /\ phase[c] = "writing"
        /\ \A d \in Sets \ {c} : written'[d] = written[d]
    BY <1>10 DEF Write
  <2>2. written'[c] = written[c] \cup {<<f, copy[c][f]>>}
    BY <1>10 DEF Write
  <2>3. WrittenFrom(c)'
    <3>1. WrittenFrom(c)
      BY <2>1
    <3>2. ASSUME NEW w \in written'[c] PROVE copy[c][w[1]] = w[2]
      <4>1. CASE w \in written[c]
        BY <3>1, <4>1 DEF WrittenFrom
      <4>2. CASE w = <<f, copy[c][f]>>
        BY <4>2
      <4> QED
        BY <2>2, <3>2, <4>1, <4>2
    <3> QED
      BY <2>1, <3>2 DEF WrittenFrom
  <2>4. \A d \in Sets \ {c} : WrittenFrom(d)' <=> WrittenFrom(d)
    BY <2>1 DEF WrittenFrom
  <2> QED
    BY <2>1, <2>3, <2>4
<1>11. ASSUME NEW c \in Sets, SetReturns(c) PROVE Copied'
  BY <1>11 DEF SetReturns, WrittenFrom
<1>12. CASE UNCHANGED vars
  BY <1>1, <1>12 DEF vars
<1> QED
  BY <1>3, <1>4, <1>5, <1>6, <1>7, <1>8, <1>9, <1>10, <1>11, <1>12 DEF Next

----------------------------------------------------------------------------
\* The invariant holds of every state the calls reach.
THEOREM Invariance == Spec => []IInv
<1>1. IInv /\ [Next]_vars => IInv'
  BY TypeStep, MirrorStep, CopiedStep DEF IInv
<1> QED
  BY InitInvariant, <1>1, PTL DEF Spec

\* Mirror, control block, copies and histories keep their types.
THEOREM TypeCorrect == Spec => []TypeOK
<1>1. IInv => TypeOK
  BY DEF IInv
<1> QED
  BY <1>1, Invariance, PTL

\* refresh_rcb_values decodes into a copy and replaces the mirror as a whole:
\* no attribute is of another answer than the rest, assignments apart.
THEOREM NeverTorn == Spec => []MirrorUntorn
<1>1. IInv => MirrorUntorn
  BY DEF IInv
<1> QED
  BY <1>1, Invariance, PTL

\* set_rcb_values writes from one copy, and the copy is the mirror at one
\* moment between its call and its first write.
THEOREM OneMoment == Spec => []WritesOneMoment
<1>1. IInv => WritesOneMoment
  <2> SUFFICES ASSUME IInv, NEW c \in Sets, written[c] # {}
               PROVE  \E image \in seen[c] : \A w \in written[c] : image[w[1]] = w[2]
    BY DEF WritesOneMoment
  <2>1. /\ copy[c] \in seen[c]
        /\ \A w \in written[c] : copy[c][w[1]] = w[2]
    BY DEF IInv, Copied, WrittenFrom
  <2> QED
    BY <2>1
<1> QED
  BY <1>1, Invariance, PTL
=============================================================================
