------------------------ MODULE DynamicAnchorsProofs ------------------------
(***************************************************************************)
(* Proofs about DynamicAnchors, for any number of samples, any staleness   *)
(* and update interval, any set of anchors that may be locked, and any     *)
(* number of moves, commands and faults: a locked anchor keeps its         *)
(* published position, a geometry is not used beyond its averages' life,   *)
(* and in a calm time it is the one of where the anchors are.              *)
(***************************************************************************)
EXTENDS DynamicAnchors, FiniteSetTheorems, TLAPS

\* What the calculator remembers of an anchor that is published where it is locked, and
\* of an anchor of a plane that it does not compute.
Held ==
  \A a \in Anchors :
    /\ a \notin Plane(calc.count) => calc.last[a] = Nowhere /\ calc.locked[a] = Nowhere
    /\ pinned[a] # Nowhere =>
         /\ a \in calc.lockedMask
         /\ calc.locked[a] = pinned[a]
         /\ live[a] \in {Nowhere, pinned[a]}
         /\ update = "publish" => result.new[a] \in {Nowhere, pinned[a]}

\* A geometry ages with the time since the last update, which falls due before the
\* radio's task waits for the next frame.
Recent ==
  /\ update = "publish" => result.age <= Stale
  /\ live # NoLive /\ ~skipped =>
       /\ ready
       /\ oldest <= Stale + since
       /\ update = "done" => since < Interval

Inv == TypeOK /\ Held /\ Recent

-----------------------------------------------------------------------------
LEMMA PlaneOfFour == Plane(4) = {"x", "y", "corner"} /\ Plane(8) = Anchors
BY DEF Plane, Anchors

LEMMA LesserType ==
  ASSUME NEW x \in Nat, NEW y \in Nat
  PROVE  Lesser(x, y) \in 0 .. y /\ Lesser(x, y) <= x
BY DEF Lesser

LEMMA SmallSetsFinite ==
  /\ \A lost \in SUBSET Anchors : IsFiniteSet(lost)
  /\ \A busy \in SUBSET {"calculator", "estimator"} : IsFiniteSet(busy)
<1>1. \A S, e : IsFiniteSet(S) => IsFiniteSet(S \cup {e})
  BY FS_AddElement
<1>2. IsFiniteSet({})
  BY FS_EmptySet
<1>3. IsFiniteSet((({} \cup {"x"}) \cup {"y"}) \cup {"corner"})
  BY <1>1, <1>2
<1>4. IsFiniteSet(((({} \cup {"x"}) \cup {"y"}) \cup {"corner"}) \cup {"upper"})
  BY <1>1, <1>3
<1>5. IsFiniteSet(Anchors)
  <2>1. Anchors = ((({} \cup {"x"}) \cup {"y"}) \cup {"corner"}) \cup {"upper"}
    BY DEF Anchors
  <2> QED BY <1>4, <2>1
<1>6. IsFiniteSet({"calculator", "estimator"})
  <2>1. IsFiniteSet(({} \cup {"calculator"}) \cup {"estimator"})
    BY <1>1, <1>2
  <2>2. {"calculator", "estimator"} = ({} \cup {"calculator"}) \cup {"estimator"}
    OBVIOUS
  <2> QED BY <2>1, <2>2
<1> QED BY <1>5, <1>6, FS_Subset

LEMMA EpochIsPlace == Nowhere \in SUBSET Epochs /\ NoDistance \in Distance
BY DynamicAssumption DEF Nowhere, NoDistance, Distance

\* The oldest average of a plane has the age of one of its anchors.
LEMMA OldestOfPlane ==
  ASSUME NEW c, NEW count \in {4, 8}, NEW limit \in 0 .. Stale + 1,
         c.dist \in [Anchors -> Distance],
         \A a \in Plane(count) : c.dist[a].age <= limit
  PROVE  Oldest(c, count) \in 0 .. limit
<1> DEFINE IsOldest(t) == /\ \E a \in Plane(count) : c.dist[a].age = t
                          /\ \A a \in Plane(count) : c.dist[a].age <= t
           age(a) == c.dist[a].age
<1>1. \A a \in Anchors : age(a) \in 0 .. Stale + 1
  BY DEF Distance
<1>2. \E t \in 0 .. Stale + 1 : IsOldest(t)
  <2>1. PICK b \in {"x", "y"} : age("x") <= age(b) /\ age("y") <= age(b)
    BY <1>1 DEF Anchors
  <2>2. PICK d \in {b, "corner"} : age(b) <= age(d) /\ age("corner") <= age(d)
    BY <1>1, <2>1 DEF Anchors
  <2>3. d \in {"x", "y", "corner"} /\ age(d) \in 0 .. Stale + 1
    BY <1>1, <2>1, <2>2 DEF Anchors
  <2>4. age("x") <= age(d) /\ age("y") <= age(d) /\ age("corner") <= age(d)
    BY <1>1, <2>1, <2>2 DEF Anchors
  <2>5. CASE count = 4
    <3>1. IsOldest(age(d))
      BY <2>3, <2>4, <2>5, PlaneOfFour
    <3> QED BY <3>1, <2>3
  <2>6. CASE count = 8
    <3>1. PICK e \in {d, "upper"} : age(d) <= age(e) /\ age("upper") <= age(e)
      BY <1>1, <2>3 DEF Anchors
    <3>2. e \in Anchors /\ age(e) \in 0 .. Stale + 1
      BY <1>1, <2>3, <3>1 DEF Anchors
    <3>3. \A a \in Anchors : age(a) <= age(e)
      BY <1>1, <2>3, <2>4, <3>1, <3>2 DEF Anchors
    <3>4. IsOldest(age(e))
      BY <3>2, <3>3, <2>6, PlaneOfFour
    <3> QED BY <3>4, <3>2
  <2> QED BY <2>5, <2>6
<1>3. IsOldest(Oldest(c, count)) /\ Oldest(c, count) \in 0 .. Stale + 1
  BY <1>2 DEF Oldest
<1> QED BY <1>3

-----------------------------------------------------------------------------
LEMMA InitInv == Init => Inv
<1> SUFFICES ASSUME Init PROVE Inv
  OBVIOUS
<1> USE DynamicAssumption, LockableAssumption
<1>1. NoLive \in [Anchors -> SUBSET Epochs] /\ NoLive \in [Anchors -> Positions]
  BY DEF NoLive, Nowhere, Positions
<1>2. Initialised(param) \in
        [count : {4, 8}, lockedMask : SUBSET Anchors, dist : [Anchors -> Distance],
         last : [Anchors -> SUBSET Epochs], locked : [Anchors -> Positions]]
  BY <1>1, EpochIsPlace DEF Init, Initialised
<1>3. TypeOK
  <2>1. 0 \in 0 .. TooOld /\ 0 \in 0 .. CalmFrames /\ Interval \in 0 .. Interval
    BY DEF TooOld, CalmFrames
  <2>2. param \in [count : {4, 8}, lockedMask : SUBSET Anchors]
    BY DEF Init
  <2>3. NoResult \in [new : [Anchors -> Positions], age : 0 .. TooOld]
    BY <1>1, <2>1 DEF NoResult
  <2>4. 0 \in 0 .. MaxCommands /\ 0 \in 0 .. MaxFaults /\ epoch \in Epochs
    BY DEF Init, Epochs
  <2> QED BY <1>1, <1>2, <2>1, <2>2, <2>3, <2>4 DEF Init, TypeOK
<1>4. Held
  BY DEF Init, Held, Initialised, NoLive
<1>5. Recent
  BY DEF Init, Recent
<1> QED BY <1>3, <1>4, <1>5 DEF Inv

-----------------------------------------------------------------------------
(* The helpers keep their types.                                           *)

Calculator == [count : {4, 8}, lockedMask : SUBSET Anchors, dist : [Anchors -> Distance],
               last : [Anchors -> SUBSET Epochs], locked : [Anchors -> Positions]]
Layout == [Anchors -> Positions]

LEMMA DistanceTypes ==
  ASSUME NEW d \in Distance, epoch \in Epochs
  PROVE  Aged(d) \in Distance /\ UpdateDistance(d) \in Distance
<1> USE DynamicAssumption
<1>1. /\ d.count \in 0 .. AvgSamples - 1 /\ d.sum \in SUBSET Epochs
      /\ d.average \in SUBSET Epochs /\ d.age \in 0 .. Stale + 1
  BY DEF Distance
<1>2. Lesser(d.age + 1, Stale + 1) \in 0 .. Stale + 1
  BY <1>1 DEF Lesser
<1>3. Aged(d) \in Distance
  BY <1>1, <1>2 DEF Aged, Distance
<1>4. UpdateDistance(d) \in Distance
  <2>1. CASE d.count + 1 < AvgSamples
    <3>1. UpdateDistance(d) = [d EXCEPT !.count = @ + 1, !.sum = @ \cup {epoch}]
      BY <2>1 DEF UpdateDistance
    <3>2. d.count + 1 \in 0 .. AvgSamples - 1 /\ d.sum \cup {epoch} \in SUBSET Epochs
      BY <1>1, <2>1
    <3> QED BY <1>1, <3>1, <3>2 DEF Distance
  <2>2. CASE ~(d.count + 1 < AvgSamples)
    BY <1>1, <2>2 DEF UpdateDistance, Distance
  <2> QED BY <2>1, <2>2
<1> QED BY <1>3, <1>4

LEMMA PlacedType ==
  ASSUME NEW c \in Calculator, NEW count \in {4, 8}
  PROVE  /\ Placed(c, count) \in Calculator
         /\ Placed(c, count).count = c.count
         /\ Placed(c, count).lockedMask = c.lockedMask
<1> DEFINE new == Rectangle(c)
<1>1. new \in [Anchors -> SUBSET Epochs]
  BY DEF Rectangle, Calculator, Distance, Anchors
<1>2. new \in Layout
  BY <1>1 DEF Layout, Positions
<1> HIDE DEF new
<1>3. [a \in Anchors |-> IF a \in Plane(count) THEN new[a] ELSE c.last[a]]
        \in [Anchors -> SUBSET Epochs]
  BY <1>1 DEF Calculator
<1>4. [a \in Anchors |-> IF a \in Plane(count) \cap c.lockedMask /\ c.locked[a] = Nowhere
                         THEN new[a] ELSE c.locked[a]] \in Layout
  BY <1>2 DEF Calculator, Layout
<1>5. Placed(c, count) =
        [c EXCEPT !.last = [a \in Anchors |-> IF a \in Plane(count) THEN new[a] ELSE c.last[a]],
                  !.locked = [a \in Anchors |->
                     IF a \in Plane(count) \cap c.lockedMask /\ c.locked[a] = Nowhere
                     THEN new[a] ELSE c.locked[a]]]
  BY DEF Placed, new, Calculator
<1> QED BY <1>3, <1>4, <1>5 DEF Calculator, Layout

LEMMA PublishedType ==
  ASSUME NEW c \in Calculator, NEW count \in {4, 8}, NEW wanted \in {4, 8}
  PROVE  Published(c, count, wanted) \in Layout
BY DEF Published, Calculator, Layout, Positions, Nowhere, Garbage

LEMMA SetLockedMaskType ==
  ASSUME NEW c \in Calculator, NEW mask \in SUBSET Anchors
  PROVE  SetLockedMask(c, mask) \in Calculator
<1>1. \A a \in Anchors : c.last[a] \in Positions /\ c.locked[a] \in Positions
  BY DEF Calculator, Positions
<1>2. Nowhere \in Positions
  BY DEF Nowhere, Positions
<1>3. [a \in Anchors |-> IF a \notin mask THEN Nowhere
                         ELSE IF a \notin c.lockedMask /\ c.last[a] # Nowhere THEN c.last[a]
                         ELSE c.locked[a]] \in Layout
  BY <1>1, <1>2 DEF Layout
<1> QED BY <1>3 DEF SetLockedMask, Calculator, Layout

LEMMA InitialisedType ==
  ASSUME NEW p \in [count : {4, 8}, lockedMask : SUBSET Anchors]
  PROVE  Initialised(p) \in Calculator /\ NoLive \in Layout
<1>1. NoLive \in [Anchors -> SUBSET Epochs] /\ NoLive \in Layout
  BY DEF NoLive, Nowhere, Positions, Layout
<1> QED BY <1>1, EpochIsPlace DEF Initialised, Calculator, Layout

LEMMA CountType ==
  ASSUME TypeOK
  PROVE  /\ Count \in {4, 8}
         /\ Plane(Count) = Plane(calc.count) \cap Plane(param.count)
<1>1. calc.count \in {4, 8} /\ param.count \in {4, 8}
  BY DEF TypeOK
<1> QED BY <1>1, PlaneOfFour DEF Count, Lesser, Anchors

LEMMA BusyType ==
  ASSUME TypeOK, NEW busy, Busy(busy), IsFiniteSet(busy)
  PROVE  calm' \in 0 .. CalmFrames /\ faults' \in 0 .. MaxFaults
<1>1. Cardinality(busy) \in Nat
  BY FS_CardinalityType
<1> QED BY <1>1, DynamicAssumption DEF Busy, TypeOK, CalmFrames

-----------------------------------------------------------------------------
(* Every step keeps the types.                                             *)

LEMMA FrameType == TypeOK /\ Frame => TypeOK'
<1> SUFFICES ASSUME TypeOK, Frame PROVE TypeOK'
  OBVIOUS
<1> USE DynamicAssumption
<1>1. PICK lost \in SUBSET Plane(calc.count) :
        /\ update = "done" /\ update' = "calculate"
        /\ faults + Cardinality(lost) <= MaxFaults
        /\ faults' = faults + Cardinality(lost)
        /\ calm' = IF lost = {} /\ command = "none" THEN Lesser(calm + 1, CalmFrames) ELSE 0
        /\ calc' = [calc EXCEPT !.dist = [a \in Anchors |->
                      IF a \notin Plane(calc.count) THEN NoDistance
                      ELSE IF a \in lost THEN Aged(calc.dist[a])
                      ELSE UpdateDistance(Aged(calc.dist[a]))]]
        /\ since' = Lesser(since + 1, Interval)
        /\ oldest' = IF live = NoLive THEN 0 ELSE Lesser(oldest + 1, TooOld)
        /\ UNCHANGED <<param, command, result, live, ready, skipped, pinned, epoch, commands>>
  BY DEF Frame, TypeOK
<1>2. Cardinality(lost) \in Nat
  <2>1. lost \subseteq Anchors
    BY PlaneOfFour DEF TypeOK, Anchors
  <2> QED BY <2>1, SmallSetsFinite, FS_CardinalityType
<1>3. /\ calm' \in 0 .. CalmFrames
      /\ since' \in 0 .. Interval
      /\ oldest' \in 0 .. TooOld
  BY <1>1 DEF TypeOK, Lesser, CalmFrames, TooOld
<1>4. calc' \in Calculator
  <2>1. calc \in Calculator /\ epoch \in Epochs
    BY DEF TypeOK, Calculator
  <2>2. \A a \in Anchors : calc.dist[a] \in Distance
    BY <2>1 DEF Calculator
  <2>3. \A a \in Anchors : /\ Aged(calc.dist[a]) \in Distance
                           /\ UpdateDistance(Aged(calc.dist[a])) \in Distance
    BY <2>1, <2>2, DistanceTypes
  <2> QED BY <1>1, <2>1, <2>3, EpochIsPlace DEF Calculator
<1>5. faults' \in 0 .. MaxFaults
  BY <1>1, <1>2 DEF TypeOK
<1> QED BY <1>1, <1>3, <1>4, <1>5 DEF TypeOK, Calculator

LEMMA UpdateType ==
  TypeOK /\ (TooEarly \/ Calculate \/ NoPositions \/ Publish) => TypeOK'
<1> SUFFICES ASSUME TypeOK, TooEarly \/ Calculate \/ NoPositions \/ Publish
             PROVE  TypeOK'
  OBVIOUS
<1> USE DynamicAssumption
<1>1. CASE TooEarly
  BY <1>1 DEF TooEarly, TypeOK, published
<1>2. CASE Calculate
  <2>1. calc \in Calculator /\ Count \in {4, 8} /\ param.count \in {4, 8}
    BY CountType DEF TypeOK, Calculator
  <2>2. calc' = Placed(calc, Count) /\ calc' \in Calculator
    BY <1>2, <2>1, PlacedType DEF Calculate
  <2>3. Published(calc', Count, param.count) \in Layout
    BY <2>1, <2>2, PublishedType
  <2>4. Oldest(calc, Count) \in 0 .. Stale + 1
    <3>1. \A a \in Plane(Count) : calc.dist[a].age <= Stale + 1
      BY <2>1, PlaneOfFour DEF Calculator, Distance, Anchors
    <3> QED BY <2>1, <3>1, OldestOfPlane DEF Calculator
  <2>5. result' \in [new : [Anchors -> Positions], age : 0 .. TooOld]
    BY <1>2, <2>3, <2>4 DEF Calculate, Layout, TooOld
  <2> QED BY <1>2, <2>2, <2>5 DEF Calculate, TypeOK, Calculator, published
<1>3. CASE NoPositions
  <2>1. PICK busy \in SUBSET {"calculator", "estimator"} :
          /\ Busy(busy)
          /\ update' = "done" /\ ready' = FALSE
          /\ live' = IF ready /\ "estimator" \notin busy THEN NoLive ELSE live
          /\ skipped' = (skipped \/ "estimator" \in busy)
          /\ UNCHANGED <<param, command, calc, result, since, oldest, pinned, epoch, commands>>
    BY <1>3 DEF NoPositions
  <2>2. IsFiniteSet(busy)
    BY SmallSetsFinite
  <2>3. calm' \in 0 .. CalmFrames /\ faults' \in 0 .. MaxFaults
    BY <2>1, <2>2, BusyType
  <2>4. live' \in [Anchors -> Positions]
    BY <2>1, EpochIsPlace DEF TypeOK, NoLive, Positions
  <2>5. skipped' \in BOOLEAN
    BY <2>1 DEF TypeOK
  <2> QED BY <2>1, <2>3, <2>4, <2>5 DEF TypeOK
<1>4. CASE Publish
  <2>1. PICK busy \in SUBSET {"estimator"} :
          /\ update = "publish" /\ update' = "done"
          /\ Busy(busy)
          /\ since' = 0
          /\ IF busy # {}
             THEN skipped' = TRUE /\ UNCHANGED <<live, ready, oldest, pinned>>
             ELSE /\ live' = result.new
                  /\ ready' = TRUE
                  /\ oldest' = result.age
                  /\ skipped' = FALSE
                  /\ pinned' = [a \in Anchors |->
                       IF a \in calc.lockedMask /\ result.new[a] = calc.locked[a]
                       THEN result.new[a] ELSE pinned[a]]
          /\ result' = NoResult
          /\ UNCHANGED <<param, command, calc, epoch, commands>>
    BY <1>4 DEF Publish
  <2>2. IsFiniteSet(busy)
    BY SmallSetsFinite
  <2>3. calm' \in 0 .. CalmFrames /\ faults' \in 0 .. MaxFaults
    BY <2>1, <2>2, BusyType
  <2>4. NoResult \in [new : [Anchors -> Positions], age : 0 .. TooOld]
    BY EpochIsPlace DEF NoResult, NoLive, Positions, TooOld
  <2>5. /\ live' \in [Anchors -> Positions] /\ oldest' \in 0 .. TooOld
        /\ pinned' \in [Anchors -> Positions]
    <3>1. CASE busy # {}
      BY <2>1, <3>1 DEF TypeOK
    <3>2. CASE busy = {}
      BY <2>1, <3>2 DEF TypeOK
    <3> QED BY <3>1, <3>2
  <2>6. ready' \in BOOLEAN /\ skipped' \in BOOLEAN
    BY <2>1 DEF TypeOK
  <2>7. since' \in 0 .. Interval
    BY <2>1
  <2> QED BY <2>1, <2>3, <2>4, <2>5, <2>6, <2>7 DEF TypeOK
<1> QED BY <1>1, <1>2, <1>3, <1>4

LEMMA CommandType ==
  TypeOK /\ (\/ SetAnchorPosLocked \/ SetUse2DEstimator
             \/ ApplyDynamicAnchorLockMask \/ ApplyDynamicAnchorRuntimeConfig
             \/ Move) => TypeOK'
<1> USE DynamicAssumption
<1> SUFFICES ASSUME TypeOK,
                    \/ SetAnchorPosLocked \/ SetUse2DEstimator
                    \/ ApplyDynamicAnchorLockMask \/ ApplyDynamicAnchorRuntimeConfig
                    \/ Move
             PROVE  TypeOK'
  OBVIOUS
<1>1. ASSUME NEW p \in [count : {4, 8}, lockedMask : SUBSET Anchors],
             NEW c \in {"lock", "config"}, Store(p, c)
      PROVE  TypeOK'
  <2>1. commands' \in 0 .. MaxCommands /\ calm' \in 0 .. CalmFrames
    BY <1>1 DEF Store, TypeOK, CalmFrames
  <2> QED BY <1>1, <2>1 DEF Store, TypeOK, task, published
<1>2. CASE SetAnchorPosLocked
  <2>1. PICK mask \in SUBSET Lockable : Store([param EXCEPT !.lockedMask = mask], "lock")
    BY <1>2 DEF SetAnchorPosLocked
  <2>2. [param EXCEPT !.lockedMask = mask] \in [count : {4, 8}, lockedMask : SUBSET Anchors]
    BY LockableAssumption DEF TypeOK
  <2> QED BY <1>1, <2>1, <2>2
<1>3. CASE SetUse2DEstimator
  <2>1. PICK count \in {4, 8} : Store([param EXCEPT !.count = count], "config")
    BY <1>3 DEF SetUse2DEstimator
  <2>2. [param EXCEPT !.count = count] \in [count : {4, 8}, lockedMask : SUBSET Anchors]
    BY DEF TypeOK
  <2> QED BY <1>1, <2>1, <2>2
<1>4. CASE ApplyDynamicAnchorLockMask
  <2>1. PICK busy \in SUBSET {"calculator"} :
          /\ command' = "none" /\ Busy(busy)
          /\ IF busy # {} THEN UNCHANGED <<calc, pinned>>
             ELSE /\ calc' = SetLockedMask(calc, param.lockedMask)
                  /\ pinned' = [a \in Anchors |->
                                  IF a \in param.lockedMask THEN pinned[a] ELSE Nowhere]
          /\ UNCHANGED <<param, task, live, ready, oldest, skipped, epoch, commands>>
    BY <1>4 DEF ApplyDynamicAnchorLockMask
  <2>2. calm' \in 0 .. CalmFrames /\ faults' \in 0 .. MaxFaults
    BY <2>1, BusyType, SmallSetsFinite
  <2>3. calc' \in Calculator
    BY <2>1, SetLockedMaskType DEF TypeOK, Calculator
  <2>4. pinned' \in [Anchors -> Positions]
    BY <2>1, EpochIsPlace DEF TypeOK, Positions
  <2> QED BY <2>1, <2>2, <2>3, <2>4 DEF TypeOK, Calculator, task
<1>5. CASE ApplyDynamicAnchorRuntimeConfig
  <2>1. command' = "none"
    BY <1>5 DEF ApplyDynamicAnchorRuntimeConfig
  <2>2. CASE Busy({"calculator"}) /\
             UNCHANGED <<param, calc, task, published, epoch, commands>>
    <3>1. calm' \in 0 .. CalmFrames /\ faults' \in 0 .. MaxFaults
      BY <2>2, BusyType, SmallSetsFinite
    <3> QED BY <2>1, <2>2, <3>1 DEF TypeOK, task, published
  <2>3. ASSUME NEW busy \in SUBSET {"estimator"},
               Busy(busy), Cleared(Initialised(param), busy)
        PROVE  TypeOK'
    <3>1. calm' \in 0 .. CalmFrames /\ faults' \in 0 .. MaxFaults
      BY <2>3, BusyType, SmallSetsFinite
    <3>2. calc' \in Calculator /\ pinned' \in Layout /\ live' \in Layout
      <4>1. Initialised(param) \in Calculator /\ NoLive \in Layout
        BY InitialisedType DEF TypeOK
      <4>2. live \in Layout
        BY DEF TypeOK, Layout
      <4> QED BY <2>3, <4>1, <4>2 DEF Cleared
    <3>3. skipped' \in BOOLEAN /\ ready' \in BOOLEAN
      BY <2>3 DEF Cleared
    <3>4. since' \in 0 .. Interval
      BY <2>3 DEF Cleared
    <3> QED BY <2>1, <2>3, <3>1, <3>2, <3>3, <3>4 DEF Cleared, TypeOK, Calculator, Layout
  <2> QED BY <1>5, <2>2, <2>3 DEF ApplyDynamicAnchorRuntimeConfig
<1>6. CASE Move
  BY <1>6 DEF Move, TypeOK, Epochs, CalmFrames, task, published
<1> QED BY <1>2, <1>3, <1>4, <1>5, <1>6

-----------------------------------------------------------------------------
(* Every step keeps a published lock.                                      *)

LEMMA HeldStep == Inv /\ [Next]_vars => Held'
<1> SUFFICES ASSUME Inv, [Next]_vars PROVE Held'
  OBVIOUS
<1>1. /\ calc \in Calculator /\ param.count \in {4, 8}
      /\ live \in Layout /\ pinned \in Layout /\ Held
  BY DEF Inv, TypeOK, Calculator, Layout
<1> USE DEF Held
<1>2. CASE Frame
  <2>1. /\ update' = "calculate"
        /\ calc'.last = calc.last /\ calc'.locked = calc.locked
        /\ calc'.count = calc.count /\ calc'.lockedMask = calc.lockedMask
        /\ UNCHANGED <<live, pinned>>
    BY <1>1, <1>2 DEF Frame, Calculator
  <2> QED BY <1>1, <2>1
<1>3. CASE TooEarly
  BY <1>1, <1>3 DEF TooEarly, published
<1>4. CASE Calculate
  <2>1. /\ calc' = Placed(calc, Count)
        /\ result'.new = Published(calc', Count, param.count)
        /\ UNCHANGED <<live, pinned>>
    BY <1>4 DEF Calculate, published
  <2>2. /\ Count \in {4, 8}
        /\ Plane(Count) = Plane(calc.count) \cap Plane(param.count)
    BY CountType DEF Inv
  <2>3. /\ calc'.count = calc.count /\ calc'.lockedMask = calc.lockedMask
        /\ \A a \in Anchors : a \notin Plane(Count) =>
              calc'.last[a] = calc.last[a] /\ calc'.locked[a] = calc.locked[a]
        /\ \A a \in Anchors : calc.locked[a] # Nowhere => calc'.locked[a] = calc.locked[a]
    BY <1>1, <2>1, <2>2 DEF Placed, Calculator
  <2>4. ASSUME NEW a \in Anchors, pinned[a] # Nowhere
        PROVE  /\ calc'.locked[a] = pinned[a]
               /\ result'.new[a] \in {Nowhere, pinned[a]}
    <3>1. a \in calc.lockedMask /\ calc'.locked[a] = pinned[a] /\ a \in Plane(calc.count)
      BY <1>1, <2>3, <2>4
    <3> QED BY <2>1, <2>2, <2>3, <3>1 DEF Published
  <2> QED BY <1>1, <2>1, <2>2, <2>3, <2>4
<1>5. CASE NoPositions
  <2>1. /\ update' = "done" /\ UNCHANGED <<calc, pinned>>
        /\ \/ live' = live
           \/ live' = NoLive
    BY <1>5 DEF NoPositions
  <2> QED BY <1>1, <2>1 DEF NoLive
<1>6. CASE Publish
  <2>1. /\ update = "publish" /\ update' = "done" /\ UNCHANGED calc
        /\ \/ UNCHANGED <<live, pinned>>
           \/ /\ live' = result.new
              /\ pinned' = [a \in Anchors |->
                   IF a \in calc.lockedMask /\ result.new[a] = calc.locked[a]
                   THEN result.new[a] ELSE pinned[a]]
    BY <1>6 DEF Publish
  <2> QED BY <1>1, <2>1
<1>7. CASE SetAnchorPosLocked \/ SetUse2DEstimator \/ Move \/ UNCHANGED vars
  <2>1. UNCHANGED <<calc, pinned, live, update, result>>
    BY <1>7 DEF SetAnchorPosLocked, SetUse2DEstimator, Store, Move, vars, task, published
  <2> QED BY <1>1, <2>1
<1>8. CASE ApplyDynamicAnchorLockMask
  <2>1. /\ UNCHANGED <<live, update, result>>
        /\ \/ UNCHANGED <<calc, pinned>>
           \/ /\ calc' = SetLockedMask(calc, param.lockedMask)
              /\ pinned' = [a \in Anchors |->
                              IF a \in param.lockedMask THEN pinned[a] ELSE Nowhere]
    BY <1>8 DEF ApplyDynamicAnchorLockMask, task
  <2>2. CASE calc' = SetLockedMask(calc, param.lockedMask) /\
             pinned' = [a \in Anchors |->
                          IF a \in param.lockedMask THEN pinned[a] ELSE Nowhere]
    <3>1. /\ calc'.count = calc.count /\ calc'.lockedMask = param.lockedMask
          /\ calc'.last = calc.last
          /\ calc'.locked = [a \in Anchors |->
               IF a \notin param.lockedMask THEN Nowhere
               ELSE IF a \notin calc.lockedMask /\ calc.last[a] # Nowhere THEN calc.last[a]
               ELSE calc.locked[a]]
      BY <1>1, <2>2 DEF SetLockedMask, Calculator
    <3> QED BY <1>1, <2>1, <2>2, <3>1
  <2> QED BY <1>1, <2>1, <2>2
<1>9. CASE ApplyDynamicAnchorRuntimeConfig
  <2>1. CASE UNCHANGED <<calc, task, published>>
    BY <1>1, <2>1 DEF task, published
  <2>2. CASE calc' = Initialised(param) /\ pinned' = NoLive
    BY <2>2 DEF Initialised, NoLive
  <2> QED BY <1>9, <2>1, <2>2 DEF ApplyDynamicAnchorRuntimeConfig, Cleared
<1> QED BY <1>2, <1>3, <1>4, <1>5, <1>6, <1>7, <1>8, <1>9 DEF Next

-----------------------------------------------------------------------------
(* Every step keeps the geometry recent.                                   *)

LEMMA RecentStep == Inv /\ [Next]_vars => Recent'
<1> SUFFICES ASSUME Inv, [Next]_vars PROVE Recent'
  OBVIOUS
<1> USE DynamicAssumption
<1>1. /\ since \in 0 .. Interval /\ oldest \in 0 .. TooOld
      /\ update \in {"done", "calculate", "publish"} /\ skipped \in BOOLEAN
      /\ Recent
  BY DEF Inv, TypeOK
<1>2. CASE Frame
  <2>1. /\ update = "done" /\ update' = "calculate"
        /\ UNCHANGED <<live, skipped, ready>>
        /\ since' = Lesser(since + 1, Interval)
        /\ oldest' = IF live = NoLive THEN 0 ELSE Lesser(oldest + 1, TooOld)
    BY <1>2 DEF Frame
  <2>2. ASSUME live # NoLive, ~skipped
        PROVE  ready /\ oldest' <= Stale + since'
    <3>1. ready /\ oldest <= Stale + since /\ since < Interval
      BY <1>1, <2>1, <2>2 DEF Recent
    <3>2. since' = since + 1 /\ oldest' <= oldest + 1
      BY <1>1, <2>1, <2>2, <3>1 DEF Lesser, TooOld
    <3>3. since' \in Nat /\ oldest' \in Nat /\ oldest \in Nat /\ since \in Nat
      BY <1>1, <2>1, <2>2, <3>2 DEF Lesser, TooOld
    <3> QED BY <3>1, <3>2, <3>3
  <2> QED BY <2>1, <2>2 DEF Recent
<1>3. CASE TooEarly
  BY <1>1, <1>3 DEF TooEarly, published, Recent
<1>4. CASE Calculate
  <2>1. /\ update' = "publish" /\ CanCalculate(calc)
        /\ result'.age = Oldest(calc, Count)
        /\ UNCHANGED <<since, published>>
    BY <1>4 DEF Calculate
  <2>2. Oldest(calc, Count) \in 0 .. Stale
    <3>1. /\ calc.dist \in [Anchors -> Distance] /\ Count \in {4, 8}
          /\ Plane(Count) \subseteq Plane(calc.count)
      BY CountType DEF Inv, TypeOK
    <3>2. \A a \in Plane(Count) : calc.dist[a].age <= Stale
      BY <2>1, <3>1 DEF CanCalculate, HasFreshDistance
    <3> QED BY <3>1, <3>2, OldestOfPlane
  <2>3. result'.age <= Stale
    BY <2>1, <2>2
  <2> QED BY <1>1, <2>1, <2>3 DEF Recent, published
<1>5. CASE NoPositions
  <2>1. PICK busy \in SUBSET {"calculator", "estimator"} :
          /\ "estimator" \in busy => ready
          /\ update' = "done" /\ ready' = FALSE
          /\ live' = IF ready /\ "estimator" \notin busy THEN NoLive ELSE live
          /\ skipped' = (skipped \/ "estimator" \in busy)
    BY <1>5 DEF NoPositions
  <2>2. live' = NoLive \/ skipped'
    BY <1>1, <2>1 DEF Recent
  <2> QED BY <2>1, <2>2 DEF Recent
<1>6. CASE Publish
  <2>1. /\ update = "publish" /\ update' = "done" /\ since' = 0
        /\ \/ skipped' = TRUE
           \/ ready' = TRUE /\ oldest' = result.age
    BY <1>6 DEF Publish
  <2>2. result.age <= Stale
    BY <1>1, <2>1 DEF Recent
  <2> QED BY <1>1, <2>1, <2>2 DEF Recent
<1>7. CASE SetAnchorPosLocked \/ SetUse2DEstimator \/ Move \/ UNCHANGED vars
  <2>1. UNCHANGED <<task, published>>
    BY <1>7 DEF SetAnchorPosLocked, SetUse2DEstimator, Store, Move, vars
  <2> QED BY <1>1, <2>1 DEF Recent, task, published
<1>8. CASE ApplyDynamicAnchorLockMask
  BY <1>1, <1>8 DEF ApplyDynamicAnchorLockMask, Recent, task
<1>9. CASE ApplyDynamicAnchorRuntimeConfig
  <2>1. CASE UNCHANGED <<task, published>>
    BY <1>1, <2>1 DEF Recent, task, published
  <2>2. ASSUME NEW busy \in SUBSET {"estimator"}, Cleared(Initialised(param), busy)
        PROVE  Recent'
    <3>1. UNCHANGED <<update, result>> /\ (live' = NoLive \/ skipped')
      BY <2>2 DEF Cleared
    <3> QED BY <1>1, <3>1 DEF Recent
  <2> QED BY <1>9, <2>1, <2>2 DEF ApplyDynamicAnchorRuntimeConfig
<1> QED BY <1>2, <1>3, <1>4, <1>5, <1>6, <1>7, <1>8, <1>9 DEF Next

-----------------------------------------------------------------------------
THEOREM Invariance == Spec => []Inv
<1>1. Init => Inv
  BY InitInv
<1>2. Inv /\ [Next]_vars => Inv'
  <2> SUFFICES ASSUME Inv, [Next]_vars PROVE Inv'
    OBVIOUS
  <2>1. TypeOK'
    <3>1. CASE UNCHANGED vars
      BY <3>1 DEF Inv, TypeOK, vars, task, published
    <3>2. CASE Next
      BY <3>2, FrameType, UpdateType, CommandType DEF Inv, Next
    <3> QED BY <3>1, <3>2
  <2> QED BY <2>1, HeldStep, RecentStep DEF Inv
<1> QED BY <1>1, <1>2, PTL DEF Spec

\* Every variable keeps its type (dynamicAnchorPositions.cpp and its callers): among
\* others, the age of a result is that of an average.
THEOREM TypeCorrect == Spec => []TypeOK
BY Invariance, PTL DEF Inv

\* A locked anchor keeps its published position whatever is moved, lost or locked
\* besides it (setLockedMask, calculatePositions).
THEOREM LocksHold == Spec => []LockHolds
<1>1. Inv => LockHolds
  BY DEF Inv, Held, LockHolds
<1> QED BY <1>1, Invariance, PTL

\* The estimator's geometry is never older than the averages' life and one update
\* interval, unless a clear of it timed out (maybeUpdateDynamicPositions).
THEOREM LiveGeometryIsRecent == Spec => []LiveIsRecent
<1>1. Inv => LiveIsRecent
  BY DynamicAssumption DEF Inv, TypeOK, Recent, LiveIsRecent, TooOld
<1> QED BY <1>1, Invariance, PTL

-----------------------------------------------------------------------------
(* In a calm time the estimator gets the geometry of where the anchors are. *)

\* What k frames in a row, heard in full and with the anchors at place, make of a
\* distance: the average that was begun before them is finished first, the next one
\* is of that place alone.
AveragedSince(d, k, place) ==
  /\ d.count <= k => d.sum \subseteq {place}
  /\ d.count < k => d.average # Nowhere /\ d.age = d.count
  /\ d.count + AvgSamples <= k => d.average = {place}

\* The frames after which every average is of the calm time, less one.
Averaging == 2 * AvgSamples - 2

OfThePlace(layout) ==
  \A a \in (Plane(calc.count) \cap Plane(param.count)) \ calc.lockedMask : layout[a] = {epoch}

\* The way there: the averages first, then the update that falls due, counted from the
\* last publication before them.
Calm ==
  /\ command # "none" => calm = 0
  /\ \A a \in Plane(calc.count) :
       /\ AveragedSince(calc.dist[a], calm, epoch)
       /\ calc.dist[a].count = 0 => calc.dist[a].sum = {}
  /\ calm > Averaging =>
       /\ update = "publish" => OfThePlace(result.new)
       /\ \/ ready /\ OfThePlace(live)
          \/ /\ since >= Lesser(calm - Averaging, Interval)
             /\ update = "done" => since < Interval

\* One more frame of the calm time.
LEMMA AveragedStep ==
  ASSUME NEW d \in Distance, epoch \in Epochs, NEW k \in 0 .. CalmFrames,
         AveragedSince(d, k, epoch), d.count = 0 => d.sum = {}
  PROVE  /\ AveragedSince(UpdateDistance(Aged(d)), Lesser(k + 1, CalmFrames), epoch)
         /\ UpdateDistance(Aged(d)).count = 0 => UpdateDistance(Aged(d)).sum = {}
<1> USE DynamicAssumption
<1> DEFINE e == UpdateDistance(Aged(d))
           next == Lesser(k + 1, CalmFrames)
<1>1. /\ d.count \in 0 .. AvgSamples - 1 /\ d.age \in 0 .. Stale + 1
      /\ d = [count |-> d.count, sum |-> d.sum, average |-> d.average, age |-> d.age]
  BY DEF Distance
<1>2. next \in 1 .. k + 1 /\ (next = k + 1 \/ (next = k /\ k = CalmFrames))
  BY DEF Lesser, CalmFrames
<1>3. CASE d.count + 1 < AvgSamples
  <2>1. /\ e.count = d.count + 1 /\ e.sum = d.sum \cup {epoch} /\ e.average = d.average
        /\ e.age = Aged(d).age
    BY <1>1, <1>3 DEF Aged, UpdateDistance
  <2>2. d.count < k => e.age = d.count + 1
    BY <1>1, <1>3, <2>1 DEF Aged, AveragedSince, Lesser
  <2>3. (e.count <= next => d.count <= k) /\ (e.count < next => d.count < k)
        /\ (e.count + AvgSamples <= next => d.count + AvgSamples <= k)
    BY <1>1, <1>2, <2>1
  <2>4. e.count # 0
    BY <1>1, <2>1
  <2> QED BY <2>1, <2>2, <2>3, <2>4 DEF AveragedSince
<1>4. CASE ~(d.count + 1 < AvgSamples)
  <2>1. e.count = 0 /\ e.sum = {} /\ e.average = d.sum \cup {epoch} /\ e.age = 0
    BY <1>1, <1>4 DEF Aged, UpdateDistance
  <2>2. e.average # Nowhere
    BY <2>1 DEF Nowhere
  <2>3. AvgSamples <= next => d.count <= k
    BY <1>1, <1>2, <1>4 DEF CalmFrames
  <2>4. AvgSamples <= next => e.average = {epoch}
    BY <2>1, <2>3 DEF AveragedSince
  <2> QED BY <2>1, <2>2, <2>4, <1>2 DEF AveragedSince
<1> QED BY <1>3, <1>4

\* After a disturbance nothing is known of a sum but that a new one is empty.
LEMMA AveragedAnew ==
  ASSUME NEW d \in Distance, NEW place, d.count = 0 => d.sum = {}
  PROVE  AveragedSince(d, 0, place)
BY DynamicAssumption DEF AveragedSince, Distance

LEMMA NoDistanceIsEmpty == NoDistance.count = 0 /\ NoDistance.sum = {}
BY DEF NoDistance

LEMMA SumsStep ==
  ASSUME NEW d \in Distance, d.count = 0 => d.sum = {}
  PROVE  /\ Aged(d).count = 0 => Aged(d).sum = {}
         /\ UpdateDistance(Aged(d)).count = 0 => UpdateDistance(Aged(d)).sum = {}
<1> USE DynamicAssumption
<1>1. d.count \in 0 .. AvgSamples - 1
      /\ d = [count |-> d.count, sum |-> d.sum, average |-> d.average, age |-> d.age]
  BY DEF Distance
<1>2. Aged(d).count = d.count /\ Aged(d).sum = d.sum
  BY <1>1 DEF Aged
<1> QED BY <1>1, <1>2 DEF Aged, UpdateDistance

\* Once every average is of one place, there are positions and they are of that place.
LEMMA AveragedMeans ==
  ASSUME TypeOK, Calm, calm > Averaging
  PROVE  /\ \A a \in Plane(calc.count) : calc.dist[a].average = {epoch}
         /\ CanCalculate(calc)
         /\ ~MayDisagree(calc, Count)
<1> USE DynamicAssumption
<1>1. \A a \in Plane(calc.count) : /\ a \in Anchors
                                   /\ calc.dist[a] \in Distance
  BY PlaneOfFour DEF TypeOK, Anchors
<1>2. ASSUME NEW a \in Plane(calc.count)
      PROVE  calc.dist[a].average = {epoch} /\ HasFreshDistance(calc.dist[a])
  <2>1. calc.dist[a].count \in 0 .. AvgSamples - 1 /\ calm \in Nat
    BY <1>1, <1>2 DEF Distance, TypeOK
  <2>2. calc.dist[a].count < calm /\ calc.dist[a].count + AvgSamples <= calm
    BY <2>1 DEF Averaging
  <2> QED BY <1>2, <2>1, <2>2 DEF Calm, AveragedSince, HasFreshDistance
<1>3. ~MayDisagree(calc, Count)
  <2>1. Plane(Count) \subseteq Plane(calc.count) /\ "x" \in Plane(Count)
    BY CountType, PlaneOfFour DEF Anchors
  <2>2. Averages(calc, Count) = {epoch}
    BY <1>2, <2>1 DEF Averages
  <2>3. Cardinality({epoch}) = 1
    BY FS_Singleton
  <2> QED BY <2>2, <2>3 DEF MayDisagree
<1> QED BY <1>2, <1>3 DEF CanCalculate

\* A step that disturbs the calm.
LEMMA Disturbed ==
  ASSUME TypeOK', calm' = 0,
         \A a \in Plane(calc'.count) : calc'.dist[a].count = 0 => calc'.dist[a].sum = {}
  PROVE  Calm'
<1>1. \A a \in Plane(calc'.count) : calc'.dist[a] \in Distance
  BY PlaneOfFour DEF TypeOK, Anchors
<1>2. \A a \in Plane(calc'.count) : AveragedSince(calc'.dist[a], 0, epoch')
  BY <1>1, AveragedAnew
<1>3. ~(calm' > Averaging)
  BY DynamicAssumption DEF Averaging
<1> QED BY <1>2, <1>3 DEF Calm, AveragedSince

LEMMA CalmStep == TypeOK /\ TypeOK' /\ Calm /\ [Next]_vars => Calm'
<1> SUFFICES ASSUME TypeOK, TypeOK', Calm, [Next]_vars PROVE Calm'
  OBVIOUS
<1> USE DynamicAssumption
<1> DEFINE Empty == \A a \in Plane(calc.count) : calc.dist[a].count = 0 => calc.dist[a].sum = {}
<1>1. /\ calc \in Calculator /\ param.count \in {4, 8} /\ calm \in 0 .. CalmFrames
      /\ since \in 0 .. Interval /\ epoch \in Epochs
      /\ Plane(calc.count) \subseteq Anchors
      /\ Empty
  BY PlaneOfFour DEF TypeOK, Calculator, Calm, Anchors
<1>2. CASE Frame
  <2>1. PICK lost \in SUBSET Plane(calc.count) :
          /\ update = "done" /\ update' = "calculate"
          /\ calm' = IF lost = {} /\ command = "none" THEN Lesser(calm + 1, CalmFrames) ELSE 0
          /\ calc' = [calc EXCEPT !.dist = [a \in Anchors |->
                        IF a \notin Plane(calc.count) THEN NoDistance
                        ELSE IF a \in lost THEN Aged(calc.dist[a])
                        ELSE UpdateDistance(Aged(calc.dist[a]))]]
          /\ since' = Lesser(since + 1, Interval)
          /\ UNCHANGED <<param, command, live, ready, epoch>>
    BY <1>2 DEF Frame
  <2>2. /\ calc'.count = calc.count /\ calc'.lockedMask = calc.lockedMask
        /\ calc'.dist = [a \in Anchors |->
                        IF a \notin Plane(calc.count) THEN NoDistance
                        ELSE IF a \in lost THEN Aged(calc.dist[a])
                        ELSE UpdateDistance(Aged(calc.dist[a]))]
    BY <1>1, <2>1 DEF Calculator
  <2>3. \A a \in Plane(calc.count) : calc.dist[a] \in Distance
    BY <1>1 DEF Calculator
  <2>4. \A a \in Plane(calc'.count) : calc'.dist[a].count = 0 => calc'.dist[a].sum = {}
    BY <1>1, <2>2, <2>3, SumsStep
  <2>5. CASE lost = {} /\ command = "none"
    <3>1. calm' = Lesser(calm + 1, CalmFrames)
      BY <2>1, <2>5
    <3>2. \A a \in Plane(calc'.count) : AveragedSince(calc'.dist[a], calm', epoch')
      BY <1>1, <2>1, <2>2, <2>3, <2>5, <3>1, AveragedStep DEF Calm
    <3>3. ASSUME calm' > Averaging, ~(ready' /\ OfThePlace(live)')
          PROVE  since' >= Lesser(calm' - Averaging, Interval)
      <4>1. CASE calm > Averaging
        <5>1. since >= Lesser(calm - Averaging, Interval)
          BY <2>1, <2>2, <3>3, <4>1 DEF Calm, OfThePlace
        <5> QED BY <1>1, <2>1, <3>1, <5>1 DEF Lesser, CalmFrames, Averaging
      <4>2. CASE ~(calm > Averaging)
        BY <1>1, <2>1, <3>1, <4>2 DEF Lesser, CalmFrames, Averaging
      <4> QED BY <4>1, <4>2
    <3> QED BY <2>1, <2>4, <2>5, <3>2, <3>3 DEF Calm
  <2>6. CASE ~(lost = {} /\ command = "none")
    BY <2>1, <2>4, <2>6, Disturbed
  <2> QED BY <2>5, <2>6
<1>3. CASE TooEarly
  <2>1. /\ since < Interval /\ update' = "done"
        /\ UNCHANGED <<param, command, calc, since, live, ready, epoch, calm>>
    BY <1>3 DEF TooEarly, published
  <2> QED BY <2>1 DEF Calm, OfThePlace
<1>4. CASE Calculate
  <2>1. /\ update = "calculate" /\ update' = "publish"
        /\ calc' = Placed(calc, Count)
        /\ result'.new = Published(calc', Count, param.count)
        /\ UNCHANGED <<param, command, since, live, ready, epoch, calm>>
    BY <1>4 DEF Calculate, published
  <2>2. /\ Count \in {4, 8}
        /\ Plane(Count) = Plane(calc.count) \cap Plane(param.count)
    BY CountType
  <2>3. /\ calc'.count = calc.count /\ calc'.lockedMask = calc.lockedMask
        /\ calc'.dist = calc.dist
        /\ \A a \in Plane(Count) : calc'.last[a] = Rectangle(calc)[a]
    BY <1>1, <2>1, <2>2 DEF Placed, Calculator
  <2>4. ASSUME calm > Averaging
        PROVE  OfThePlace(result.new)'
    <3>1. \A a \in Plane(calc.count) : calc.dist[a].average = {epoch}
      BY <2>4, AveragedMeans
    <3>2. "x" \in Plane(calc.count) /\ "y" \in Plane(calc.count)
      BY <1>1, PlaneOfFour DEF Calculator, Anchors
    <3>3. \A a \in Anchors : Rectangle(calc)[a] = {epoch}
      BY <3>1, <3>2 DEF Rectangle, Anchors
    <3>4. \A a \in Plane(Count) \ calc.lockedMask : calc'.last[a] = {epoch}
      BY <1>1, <2>2, <2>3, <3>3
    <3>5. \A a \in Plane(Count) \ calc.lockedMask : result'.new[a] = {epoch}
      BY <1>1, <2>1, <2>2, <2>3, <3>4 DEF Published
    <3> QED BY <2>1, <2>2, <2>3, <3>5 DEF OfThePlace
  <2>5. (calm > Averaging /\ ready /\ OfThePlace(live)) => OfThePlace(live)'
    BY <2>1, <2>3 DEF OfThePlace
  <2> QED BY <2>1, <2>3, <2>4, <2>5 DEF Calm
<1>5. CASE NoPositions
  <2>1. PICK busy \in SUBSET {"calculator", "estimator"} :
          /\ \/ "calculator" \in busy
             \/ ~CanCalculate(calc)
             \/ MayDisagree(calc, Count)
          /\ Busy(busy)
          /\ UNCHANGED <<param, command, calc, epoch>>
    BY <1>5 DEF NoPositions
  <2>2. calm' = IF busy = {} THEN calm ELSE 0
    BY <2>1 DEF Busy
  <2>3. CASE busy = {}
    <3>1. ~(calm > Averaging)
      BY <2>1, <2>3, AveragedMeans
    <3> QED BY <2>1, <2>2, <2>3, <3>1 DEF Calm
  <2>4. CASE busy # {}
    BY <1>1, <2>1, <2>2, <2>4, Disturbed
  <2> QED BY <2>3, <2>4
<1>6. CASE Publish
  <2>1. PICK busy \in SUBSET {"estimator"} :
          /\ update = "publish" /\ update' = "done"
          /\ calm' = IF busy = {} THEN calm ELSE 0
          /\ busy = {} => live' = result.new /\ ready' = TRUE
          /\ UNCHANGED <<param, command, calc, epoch>>
    BY <1>6 DEF Publish, Busy
  <2>2. CASE busy = {}
    BY <2>1, <2>2 DEF Calm, OfThePlace
  <2>3. CASE busy # {}
    BY <1>1, <2>1, <2>3, Disturbed
  <2> QED BY <2>2, <2>3
<1>7. CASE SetAnchorPosLocked \/ SetUse2DEstimator \/ Move
  <2>1. calm' = 0 /\ UNCHANGED calc
    BY <1>7 DEF SetAnchorPosLocked, SetUse2DEstimator, Store, Move
  <2> QED BY <1>1, <2>1, Disturbed
<1>8. CASE UNCHANGED vars
  BY <1>8 DEF vars, task, published, Calm, OfThePlace
<1>9. CASE ApplyDynamicAnchorLockMask
  <2>1. PICK busy \in SUBSET {"calculator"} :
          /\ command = "lock"
          /\ calm' = IF busy = {} THEN calm ELSE 0
          /\ calc' = IF busy = {} THEN SetLockedMask(calc, param.lockedMask) ELSE calc
    BY <1>9 DEF ApplyDynamicAnchorLockMask, Busy
  <2>2. calm' = 0
    BY <2>1 DEF Calm
  <2>3. calc'.count = calc.count /\ calc'.dist = calc.dist
    BY <1>1, <2>1 DEF SetLockedMask, Calculator
  <2> QED BY <1>1, <2>2, <2>3, Disturbed
<1>10. CASE ApplyDynamicAnchorRuntimeConfig
  <2>1. /\ command = "config"
        /\ calc' \in {calc, Initialised(param)}
        /\ \E busy : Busy(busy)
    BY <1>10 DEF ApplyDynamicAnchorRuntimeConfig, Cleared
  <2>2. calm' = 0
    BY <2>1 DEF Calm, Busy
  <2>3. \A a \in Plane(calc'.count) : calc'.dist[a].count = 0 => calc'.dist[a].sum = {}
    <3>1. CASE calc' = calc
      BY <1>1, <3>1
    <3>2. CASE calc' = Initialised(param)
      <4>1. Plane(calc'.count) \subseteq Anchors
        BY PlaneOfFour DEF TypeOK, Anchors
      <4>2. \A a \in Anchors : calc'.dist[a] = NoDistance
        BY <3>2 DEF Initialised
      <4> QED BY <4>1, <4>2, NoDistanceIsEmpty
    <3> QED BY <2>1, <3>1, <3>2
  <2> QED BY <2>2, <2>3, Disturbed
<1> QED BY <1>2, <1>3, <1>4, <1>5, <1>6, <1>7, <1>8, <1>9, <1>10 DEF Next

\* Two averages and an update interval after the last loss, move, command or mutex that
\* was busy, the estimator has the geometry of where the anchors are now, apart from the
\* locked ones (updateDistanceAt, maybeUpdateDynamicPositions).
THEOREM GeometryFollows == Spec => []Follows
<1> USE DynamicAssumption
<1>1. Init => Calm
  <2> SUFFICES ASSUME Init PROVE Calm
    OBVIOUS
  <2>1. TypeOK
    BY InitInv DEF Inv
  <2>2. Plane(calc.count) \subseteq Anchors
    BY <2>1, PlaneOfFour DEF TypeOK, Anchors
  <2>3. \A a \in Plane(calc.count) : calc.dist[a] = NoDistance
    BY <2>2 DEF Init, Initialised
  <2>4. AveragedSince(NoDistance, 0, epoch)
    BY EpochIsPlace, NoDistanceIsEmpty, AveragedAnew
  <2> QED BY <2>3, <2>4, NoDistanceIsEmpty DEF Init, Calm, Averaging
<1>2. TypeOK /\ Calm => Follows
  <2> SUFFICES ASSUME TypeOK, Calm, calm = CalmFrames, update = "done"
               PROVE  ready /\ OfThePlace(live)
    BY DEF Follows, OfThePlace
  <2>1. calm > Averaging /\ Lesser(calm - Averaging, Interval) = Interval
    BY DEF CalmFrames, Averaging, Lesser
  <2> QED BY <2>1 DEF Calm, TypeOK
<1> QED BY <1>1, <1>2, CalmStep, TypeCorrect, PTL DEF Spec
=============================================================================
