--------------------------- MODULE DynamicAnchors ---------------------------
(***************************************************************************)
(* The tag's own survey of the anchors: from the distances that the        *)
(* anchors report to each other to the positions its estimator uses        *)
(* (dynamicAnchorPositions.cpp, and the radio's task and the commands of   *)
(* uwb_tdoa_tag.cpp that call it).                                         *)
(*                                                                         *)
(* Distances are averaged over a number of samples, an average is good for *)
(* a while, and four of them give the corners of a rectangle; the user may *)
(* lock a corner where it is, and a second plane of anchors may stand      *)
(* above the first.                                                        *)
(*                                                                         *)
(* The anchors can be moved: an epoch is one placement of them.  A sample  *)
(* is the epoch it was measured in, an average the set of epochs of its    *)
(* samples, and a position the set of epochs of the averages it was        *)
(* computed from.  Anchor 0 is the origin and left out, "upper" stands for *)
(* the second plane, and the distance of that name for the ten that it     *)
(* needs.  Time is counted in frames of the anchors.  Layouts, the height  *)
(* and a distance's sign are data; the races of switching dynamic          *)
(* positions on and off are in TagGeometry.                                *)
(***************************************************************************)
EXTENDS Integers, FiniteSets

CONSTANTS
  AvgSamples,    \* distanceAvgSamples, 50 by default
  Stale,         \* STALENESS_TIMEOUT_TICKS in frames
  Interval,      \* DYNAMIC_POS_UPDATE_INTERVAL_MS in frames
  Lockable,      \* bound: the anchors that are ever locked
  MaxEpoch,      \* bound: how often the anchors are moved
  MaxCommands,   \* bound: parameter writes and switches
  MaxFaults      \* bound: lost samples and mutex timeouts

\* An average must outlive the next one's collection.  The firmware accepts up to
\* 1000 samples, more than the anchors send in the five seconds of staleness: then
\* there is no geometry between two averages.
ASSUME DynamicAssumption ==
  /\ AvgSamples \in Nat \ {0} /\ Interval \in Nat \ {0} /\ Stale \in Nat /\ Stale >= AvgSamples
  /\ MaxEpoch \in Nat /\ MaxCommands \in Nat /\ MaxFaults \in Nat

VARIABLES
  param,      \* m_Params: anchors in a plane or two, and the locked ones
  command,    \* what the command task still has to apply
  calc,       \* s_dynamicCalc
  live,       \* anchor_positions with configured_anchor_ids
  ready,      \* s_dynamicPositionsReadyForEstimator
  since,      \* frames since s_lastPositionUpdate
  update,     \* where the radio's task is in maybeUpdateDynamicPositions
  result,     \* newPositions, and the age of the oldest average in it
  epoch,      \* the anchors' placement
  pinned,     \* history: where a locked anchor was published
  oldest,     \* history: the age of the oldest average in live
  skipped,    \* history: a write of live timed out since it was published
  calm,       \* history: frames since the last fault, move or command
  commands, faults

task == <<update, result, since>>
published == <<live, ready, oldest, skipped, pinned>>
vars == <<param, command, calc, task, published, epoch, calm, commands, faults>>

Anchors == {"x", "y", "corner", "upper"}
ASSUME LockableAssumption == Lockable \subseteq Anchors

Epochs == 0 .. MaxEpoch
Nowhere == {}                      \* no position, no average: none was measured
Garbage == {-1}                    \* an element of newPositions that nobody wrote
Positions == (SUBSET Epochs) \cup {Garbage}

Lesser(x, y) == IF x < y THEN x ELSE y
TooOld == Stale + 2 * Interval + 1

\* Frames until every average, its samples and what was published are of a calm time.
CalmFrames == 2 * AvgSamples + Interval

\* The distance of that name to anchor 0, averaged and being averaged.
Distance ==
  [count : 0 .. AvgSamples - 1, sum : SUBSET Epochs, average : SUBSET Epochs, age : 0 .. Stale + 1]
NoDistance == [count |-> 0, sum |-> {}, average |-> Nowhere, age |-> 0]

Plane(count) == IF count = 4 THEN Anchors \ {"upper"} ELSE Anchors

TypeOK ==
  /\ param \in [count : {4, 8}, lockedMask : SUBSET Anchors]
  /\ command \in {"none", "lock", "config"}
  /\ calc \in [count : {4, 8}, lockedMask : SUBSET Anchors, dist : [Anchors -> Distance],
               last : [Anchors -> SUBSET Epochs], locked : [Anchors -> Positions]]
  /\ live \in [Anchors -> Positions]
  /\ ready \in BOOLEAN /\ skipped \in BOOLEAN
  /\ since \in 0 .. Interval
  /\ update \in {"done", "calculate", "publish"}
  /\ result \in [new : [Anchors -> Positions], age : 0 .. TooOld]
  /\ oldest \in 0 .. TooOld
  /\ epoch \in Epochs
  /\ pinned \in [Anchors -> Positions]
  /\ calm \in 0 .. CalmFrames
  /\ commands \in 0 .. MaxCommands /\ faults \in 0 .. MaxFaults

-----------------------------------------------------------------------------
(* The calculator.                                                         *)

NoLive == [a \in Anchors |-> Nowhere]
NoResult == [new |-> NoLive, age |-> 0]

\* init, with its reset: nothing measured is kept, neither average nor lock.
Initialised(p) ==
  [count |-> p.count, lockedMask |-> p.lockedMask,
   dist |-> [a \in Anchors |-> NoDistance], last |-> NoLive, locked |-> NoLive]

\* Seeded fault: the finished samples are not taken out of the accumulator's sum.
UpdateDistanceKeepsSum(d) ==
  IF d.count + 1 < AvgSamples THEN [d EXCEPT !.count = @ + 1, !.sum = @ \cup {epoch}]
  ELSE [count |-> 0, sum |-> d.sum \cup {epoch}, average |-> d.sum \cup {epoch}, age |-> 0]

\* updateDistanceAt: the sample that completes an average starts the next one.  A
\* partly filled accumulator never goes stale.
UpdateDistance(d) ==
  IF d.count + 1 < AvgSamples THEN [d EXCEPT !.count = @ + 1, !.sum = @ \cup {epoch}]
  ELSE [count |-> 0, sum |-> {}, average |-> d.sum \cup {epoch}, age |-> 0]

Aged(d) == [d EXCEPT !.age = IF d.average = Nowhere THEN 0 ELSE Lesser(@ + 1, Stale + 1)]

\* Seeded fault: an average is good for ever.
HasFreshDistanceAny(d) == d.average # Nowhere

\* hasFreshDistance, canCalculateAt
HasFreshDistance(d) == d.average # Nowhere /\ d.age <= Stale
CanCalculate(c) == \A a \in Plane(c.count) : HasFreshDistance(c.dist[a])

\* calculateRectangular for count anchors: what it computes when the distances agree.
\* Those of one placement do; those of two may.
Averages(c, count) == UNION {c.dist[a].average : a \in Plane(count)}
Rectangle(c) ==
  LET av == [a \in Anchors |-> c.dist[a].average]
  IN  [a \in Anchors |-> CASE a \in {"x", "y"} -> av[a]
                           [] OTHER -> av["x"] \cup av["y"]]
Oldest(c, count) == CHOOSE t \in 0 .. Stale + 1 :
  /\ \E a \in Plane(count) : c.dist[a].age = t
  /\ \A a \in Plane(count) : c.dist[a].age <= t
MayDisagree(c, count) == Cardinality(Averages(c, count)) > 1

\* calculatePositions: an anchor locked before it was ever placed is locked here.
Placed(c, count) ==
  LET new == Rectangle(c)
  IN  [c EXCEPT
         !.last = [a \in Anchors |-> IF a \in Plane(count) THEN new[a] ELSE @[a]],
         !.locked = [a \in Anchors |->
            IF a \in Plane(count) \cap c.lockedMask /\ @[a] = Nowhere THEN new[a] ELSE @[a]]]

\* Seeded fault: where an anchor is locked is remembered and not used.
PublishedUnlocked(c, count, wanted) ==
  [a \in Anchors |->
     CASE a \notin Plane(wanted) -> Nowhere
       [] a \notin Plane(count) -> Garbage
       [] OTHER -> c.last[a]]

\* What fills newPositions, and configured_anchor_ids by the count in the parameters:
\* one that is ahead of the calculator's publishes what nobody computed.
Published(c, count, wanted) ==
  [a \in Anchors |->
     CASE a \notin Plane(wanted) -> Nowhere
       [] a \notin Plane(count) -> Garbage
       [] a \in c.lockedMask -> c.locked[a]
       [] OTHER -> c.last[a]]

\* setLockedMask: a newly locked anchor is locked where it was last computed.
SetLockedMask(c, mask) ==
  [c EXCEPT !.lockedMask = mask,
            !.locked = [a \in Anchors |->
               IF a \notin mask THEN Nowhere
               ELSE IF a \notin c.lockedMask /\ c.last[a] # Nowhere THEN c.last[a]
               ELSE @[a]]]

-----------------------------------------------------------------------------
(* The tasks.                                                              *)

\* The mutexes that a step waits for in vain, each a fault.
Busy(busy) ==
  /\ faults + Cardinality(busy) <= MaxFaults
  /\ faults' = faults + Cardinality(busy)
  /\ calm' = IF busy = {} THEN calm ELSE 0

\* onInterAnchorDistance in one frame: an anchor's report is lost, or not taken since
\* the calculator is busy for more than 2 ms.  Distances to a plane that is not
\* configured are averaged too, but the reset of its configuration discards them.
Frame ==
  \E lost \in SUBSET Plane(calc.count) :
    /\ update = "done" /\ update' = "calculate"
    /\ faults + Cardinality(lost) <= MaxFaults
    /\ faults' = faults + Cardinality(lost)
    /\ calm' = IF lost = {} /\ command = "none" THEN Lesser(calm + 1, CalmFrames) ELSE 0
    /\ calc' = [calc EXCEPT !.dist = [a \in Anchors |->
                  IF a \notin Plane(calc.count) THEN NoDistance
                  ELSE IF a \in lost THEN Aged(@[a]) ELSE UpdateDistance(Aged(@[a]))]]
    /\ since' = Lesser(since + 1, Interval)
    /\ oldest' = IF live = NoLive THEN 0 ELSE Lesser(oldest + 1, TooOld)
    /\ UNCHANGED <<param, command, result, live, ready, skipped, pinned, epoch, commands>>

\* maybeUpdateDynamicPositions, up to the calculator's mutex.
TooEarly ==
  /\ update = "calculate" /\ since < Interval
  /\ update' = "done"
  /\ UNCHANGED <<param, command, calc, result, since, published, epoch, calm, commands, faults>>

Count == Lesser(calc.count, param.count)

Calculate ==
  /\ update = "calculate" /\ since >= Interval
  /\ CanCalculate(calc)
  /\ calc' = Placed(calc, Count)
  /\ result' = [new |-> Published(calc', Count, param.count), age |-> Oldest(calc, Count)]
  /\ update' = "publish"
  /\ UNCHANGED <<param, command, since, published, epoch, calm, commands, faults>>

\* No positions: what was published is taken back, once; if the estimator keeps its
\* mutex, the anchors stay with it.
NoPositions ==
  \E busy \in SUBSET {"calculator", "estimator"} :
    /\ update = "calculate" /\ since >= Interval
    /\ \/ "calculator" \in busy
       \/ ~CanCalculate(calc)
       \/ MayDisagree(calc, Count)
    /\ "estimator" \in busy => ready
    /\ Busy(busy)
    /\ update' = "done"
    /\ ready' = FALSE
    /\ live' = IF ready /\ "estimator" \notin busy THEN NoLive ELSE live
    /\ skipped' = (skipped \/ "estimator" \in busy)
    /\ UNCHANGED <<param, command, calc, result, since, oldest, pinned, epoch, commands>>

Publish ==
  \E busy \in SUBSET {"estimator"} :
    /\ update = "publish" /\ update' = "done"
    /\ Busy(busy)
    /\ since' = 0
    /\ IF busy # {}
       THEN skipped' = TRUE /\ UNCHANGED <<live, ready, oldest, pinned>>
       ELSE /\ live' = result.new
            /\ ready' = TRUE
            /\ oldest' = result.age
            /\ skipped' = FALSE
            /\ pinned' = [a \in Anchors |->
                 IF a \in calc.lockedMask /\ result.new[a] = calc.locked[a]
                 THEN result.new[a] ELSE pinned[a]]
    /\ result' = NoResult
    /\ UNCHANGED <<param, command, calc, epoch, commands>>

\* A parameter is stored, and saved to flash, before it is applied.
Store(p, c) ==
  /\ command = "none" /\ commands < MaxCommands
  /\ param' = p
  /\ command' = c
  /\ commands' = commands + 1
  /\ calm' = 0
  /\ UNCHANGED <<calc, task, published, epoch, faults>>

SetAnchorPosLocked == \E mask \in SUBSET Lockable : Store([param EXCEPT !.lockedMask = mask], "lock")
SetUse2DEstimator == \E count \in {4, 8} : Store([param EXCEPT !.count = count], "config")

ApplyDynamicAnchorLockMask ==
  \E busy \in SUBSET {"calculator"} :
    /\ command = "lock" /\ command' = "none"
    /\ Busy(busy)
    /\ IF busy # {} THEN UNCHANGED <<calc, pinned>>
       ELSE /\ calc' = SetLockedMask(calc, param.lockedMask)
            /\ pinned' = [a \in Anchors |-> IF a \in param.lockedMask THEN pinned[a] ELSE Nowhere]
    /\ UNCHANGED <<param, task, live, ready, oldest, skipped, epoch, commands>>

\* ClearDynamicAnchorRuntimeState and ApplyDynamicAnchorRuntimeConfig, once the
\* calculator is c: the next update is due at once.
Cleared(c, busy) ==
  /\ calc' = c
  /\ pinned' = NoLive
  /\ since' = Interval
  /\ ready' = FALSE
  /\ live' = IF "estimator" \in busy THEN live ELSE NoLive
  /\ skipped' = (skipped \/ "estimator" \in busy)
  /\ UNCHANGED <<param, update, result, oldest, epoch, commands>>

\* A calculator that is busy keeps its old configuration, and what it published stays.
ApplyDynamicAnchorRuntimeConfig ==
  /\ command = "config" /\ command' = "none"
  /\ \/ Busy({"calculator"}) /\ UNCHANGED <<param, calc, task, published, epoch, commands>>
     \/ \E busy \in SUBSET {"estimator"} : Busy(busy) /\ Cleared(Initialised(param), busy)

\* The anchors are moved.
Move ==
  /\ epoch < MaxEpoch
  /\ epoch' = epoch + 1
  /\ calm' = 0
  /\ UNCHANGED <<param, command, calc, task, published, commands, faults>>

Init ==
  /\ param \in [count : {4, 8}, lockedMask : SUBSET Lockable]
  /\ command = "none"
  /\ calc = Initialised(param)
  /\ live = NoLive /\ ready = FALSE
  /\ since = Interval
  /\ update = "done"
  /\ result = NoResult
  /\ epoch = 0
  /\ pinned = NoLive /\ oldest = 0 /\ skipped = FALSE
  /\ calm = 0 /\ commands = 0 /\ faults = 0

Next ==
  \/ Frame \/ TooEarly \/ Calculate \/ NoPositions \/ Publish
  \/ SetAnchorPosLocked \/ SetUse2DEstimator
  \/ ApplyDynamicAnchorLockMask \/ ApplyDynamicAnchorRuntimeConfig
  \/ Move

Spec == Init /\ [][Next]_vars

-----------------------------------------------------------------------------
(* Properties.                                                             *)

\* An anchor that was published where it is locked stays there, through moved
\* anchors, lost geometry and other lock commands, until it is unlocked or the
\* calculator is configured anew (setLockedMask, calculatePositions).
LockHolds ==
  \A a \in Anchors : pinned[a] # Nowhere /\ live[a] # Nowhere => live[a] = pinned[a]

\* The estimator never uses a geometry older than the averages' life and one update:
\* when the anchors fall silent it is taken back.  The exception is a mutex that the
\* radio's task did not get; nothing repeats the clear that it then skipped.
LiveIsRecent == live # NoLive /\ ~skipped => oldest <= Stale + Interval

\* Whatever was lost, moved, locked or configured before: in a calm time the estimator
\* gets the geometry of where the anchors are now, apart from the locked ones.
Follows ==
  calm = CalmFrames /\ update = "done" =>
    /\ ready
    /\ \A a \in (Plane(calc.count) \cap Plane(param.count)) \ calc.lockedMask : live[a] = {epoch}
=============================================================================
