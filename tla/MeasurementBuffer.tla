-------------------------- MODULE MeasurementBuffer --------------------------
(***************************************************************************)
(* The tag's buffer of TDoA measurements (uwb_tdoa_tag.cpp,                *)
(* tdoa_measurement_buffer.hpp): one slot per pair of anchors, written by  *)
(* the radio's task in estimatorCallback, emptied in batches by the        *)
(* position estimator's task, and cleared by whoever changes the anchors.  *)
(* The slots, the anchors and the counter fresh_pair_count are shared      *)
(* under measurements_mtx, whose every critical section is split here into *)
(* the steps that touch them.                                              *)
(*                                                                         *)
(* A measurement is its pair and its age.  Ages count in units of Tick and *)
(* stop at StaleAge + 1, where the code no longer tells them apart.        *)
(***************************************************************************)
EXTENDS Integers, FiniteSets

CONSTANTS
  Anchors,          \* anchor ids, 0 .. kNumAnchors-1
  Configs,          \* the sets of ids that ApplyStaticAnchors or the dynamic
                    \* calculator may configure
  MinMeasurements,  \* min_measurements of the estimator's mode
  MinUnique,        \* min_unique_anchors of the estimator's mode
  MaxSpan,          \* kMax3DBatchSpanUs, or 0: no limit (2D)
  StaleAge,         \* kStaleThresholdUs
  NotifyAt          \* kMinMeasurementsForNotify

ASSUME BufferAssumption ==
  /\ Anchors \subseteq Nat /\ IsFiniteSet(Anchors)
  /\ Configs \subseteq SUBSET Anchors
  /\ MinMeasurements \in Nat \ {0}
  /\ {MinUnique, MaxSpan, StaleAge, NotifyAt} \subseteq Nat

VARIABLES
  configured,  \* the ids with a position: configured_anchor_ids
  fresh,       \* the pairs whose slot is fresh
  age,         \* the age of each slot's measurement
  freshCount,  \* fresh_pair_count
  outdated,    \* history: the pairs whose slot holds a measurement from
               \* before the last change of the static anchors
  mtx,         \* the holder of measurements_mtx
  prod,        \* the radio's task, in estimatorCallback
  est,         \* the estimator's task
  conf,        \* a task that changes the anchors
  notified     \* the estimator's task notification

vars == <<configured, fresh, age, freshCount, outdated, mtx, prod, est, conf,
          notified>>

Free == "free"

\* CanonicalizePair: the smaller id first.
Pairs == {p \in Anchors \X Anchors : p[1] < p[2]}
Ages == 0 .. StaleAge + 1
Within(p, ids) == p[1] \in ids /\ p[2] \in ids

ProdStates == [pc : {"idle"}]
         \cup [pc : {"locking", "storing"}, pair : Pairs, age : Ages]
         \cup [pc : {"counting"}, wasFresh : BOOLEAN]
         \cup [pc : {"notifying"}, seen : Nat]
EstStates == [pc : {"waiting", "locking", "copying"}]
        \cup [pc : {"subtracting"}, batch : SUBSET Pairs, removed : Nat]
        \cup [pc : {"solving"}, batch : SUBSET Pairs, anchors : SUBSET Anchors]
ConfStates == [pc : {"idle"}]
         \cup [pc : {"locking", "writing"}, ids : Configs, static : BOOLEAN]
         \cup [pc : {"clearing"}]

Init ==
  /\ configured = {}
  /\ fresh = {}
  /\ age = [p \in Pairs |-> 0]
  /\ freshCount = 0
  /\ outdated = {}
  /\ mtx = Free
  /\ prod = [pc |-> "idle"]
  /\ est = [pc |-> "waiting"]
  /\ conf = [pc |-> "idle"]
  /\ notified = FALSE

(***************************************************************************)
(* The radio's task                                                        *)
(***************************************************************************)
\* The tag engine reports a difference for p; its time is read here.
Callback(p) ==
  /\ prod.pc = "idle"
  /\ prod' = [pc |-> "locking", pair |-> p, age |-> 0]
  /\ UNCHANGED <<configured, fresh, age, freshCount, outdated, mtx, est, conf,
                 notified>>

ProducerLock ==
  /\ prod.pc = "locking" /\ mtx = Free
  /\ mtx' = "prod"
  /\ prod' = [prod EXCEPT !.pc = "storing"]
  /\ UNCHANGED <<configured, fresh, age, freshCount, outdated, est, conf, notified>>

\* The mutex stayed taken for kProducerMutexTimeoutMs: the sample is dropped.
ProducerTimeout ==
  /\ prod.pc = "locking" /\ mtx # Free
  /\ prod' = [pc |-> "idle"]
  /\ UNCHANGED <<configured, fresh, age, freshCount, outdated, mtx, est, conf,
                 notified>>

\* Seeded fault: the slot is counted after the mutex is given back.
EarlyGiveStore ==
  /\ prod.pc = "storing"
  /\ IF Within(prod.pair, configured)
     THEN /\ prod' = [pc |-> "counting", wasFresh |-> prod.pair \in fresh]
          /\ fresh' = fresh \cup {prod.pair}
          /\ age' = [age EXCEPT ![prod.pair] = prod.age]
          /\ outdated' = outdated \ {prod.pair}
     ELSE /\ prod' = [pc |-> "idle"]
          /\ UNCHANGED <<fresh, age, outdated>>
  /\ mtx' = Free
  /\ UNCHANGED <<configured, freshCount, est, conf, notified>>

Store ==
  /\ prod.pc = "storing"
  /\ IF Within(prod.pair, configured)
     THEN /\ prod' = [pc |-> "counting", wasFresh |-> prod.pair \in fresh]
          /\ fresh' = fresh \cup {prod.pair}
          /\ age' = [age EXCEPT ![prod.pair] = prod.age]
          /\ outdated' = outdated \ {prod.pair}
          /\ mtx' = mtx
     ELSE /\ prod' = [pc |-> "idle"]
          /\ mtx' = Free
          /\ UNCHANGED <<fresh, age, outdated>>
  /\ UNCHANGED <<configured, freshCount, est, conf, notified>>

\* Seeded fault: the slot is counted although it was fresh already.
RecountingCount ==
  /\ prod.pc = "counting"
  /\ freshCount' = freshCount + 1
  /\ prod' = [pc |-> "notifying", seen |-> freshCount']
  /\ mtx' = Free
  /\ UNCHANGED <<configured, fresh, age, outdated, est, conf, notified>>

Count ==
  /\ prod.pc = "counting"
  /\ freshCount' = IF prod.wasFresh THEN freshCount ELSE freshCount + 1
  /\ prod' = [pc |-> "notifying", seen |-> freshCount']
  /\ mtx' = Free
  /\ UNCHANGED <<configured, fresh, age, outdated, est, conf, notified>>

\* The debounce may hold the notification back.
Notify ==
  /\ prod.pc = "notifying"
  /\ \/ prod.seen >= NotifyAt /\ notified' = TRUE
     \/ UNCHANGED notified
  /\ prod' = [pc |-> "idle"]
  /\ UNCHANGED <<configured, fresh, age, freshCount, outdated, mtx, est, conf>>

(***************************************************************************)
(* The estimator's task                                                    *)
(***************************************************************************)
\* ulTaskNotifyTake returns on a notification or after kEstimatorWatchdogMs.
Wake ==
  /\ est.pc = "waiting"
  /\ notified' = FALSE
  /\ est' = [pc |-> "locking"]
  /\ UNCHANGED <<configured, fresh, age, freshCount, outdated, mtx, prod, conf>>

EstimatorLock ==
  /\ est.pc = "locking" /\ mtx = Free
  /\ mtx' = "est"
  /\ est' = [pc |-> "copying"]
  /\ UNCHANGED <<configured, fresh, age, freshCount, outdated, prod, conf, notified>>

EstimatorTimeout ==
  /\ est.pc = "locking" /\ mtx # Free
  /\ est' = [pc |-> "waiting"]
  /\ UNCHANGED <<configured, fresh, age, freshCount, outdated, mtx, prod, conf,
                 notified>>

\* The fresh slots that are neither stale nor of anchors without a position.
Usable == {p \in fresh : age[p] <= StaleAge /\ Within(p, configured)}
AnchorsOf(S) == {p[1] : p \in S} \cup {p[2] : p \in S}
Enough(S) == /\ Cardinality(S) >= MinMeasurements
             /\ Cardinality(AnchorsOf(S)) >= MinUnique
\* Those at most MaxSpan older than the newest.
Coherent(S) == {p \in S : \A q \in S : age[p] <= age[q] + MaxSpan}

\* The slots that are still fresh after the passes that expire measurements.
Kept == IF Enough(Usable) /\ MaxSpan > 0 THEN Coherent(Usable) ELSE Usable

\* Seeded fault: the batch is not tested again after the old rows are dropped.
UncheckedSnapshot ==
  /\ est.pc = "copying"
  /\ LET batch == IF Enough(Usable) THEN Kept ELSE {}
     IN /\ fresh' = Kept \ batch
        /\ est' = [pc |-> "subtracting", batch |-> batch,
                   removed |-> Cardinality(fresh \ fresh')]
  /\ UNCHANGED <<configured, age, freshCount, outdated, mtx, prod, conf, notified>>

\* SnapshotFreshMeasurements: expire, and take everything if it is enough.
Snapshot ==
  /\ est.pc = "copying"
  /\ LET batch == IF Enough(Kept) THEN Kept ELSE {}
     IN /\ fresh' = Kept \ batch
        /\ est' = [pc |-> "subtracting", batch |-> batch,
                   removed |-> Cardinality(fresh \ fresh')]
  /\ UNCHANGED <<configured, age, freshCount, outdated, mtx, prod, conf, notified>>

Subtract ==
  /\ est.pc = "subtracting"
  /\ freshCount' = freshCount - est.removed
  /\ mtx' = Free
  /\ est' = IF est.batch = {} THEN [pc |-> "waiting"]
            ELSE [pc |-> "solving", batch |-> est.batch, anchors |-> configured]
  /\ UNCHANGED <<configured, fresh, age, outdated, prod, conf, notified>>

\* The solve and its output use copies only.
Solve ==
  /\ est.pc = "solving"
  /\ est' = [pc |-> "waiting"]
  /\ UNCHANGED <<configured, fresh, age, freshCount, outdated, mtx, prod, conf,
                 notified>>

(***************************************************************************)
(* Changes of the anchors: ApplyStaticAnchors and                          *)
(* ClearDynamicAnchorRuntimeState clear the slots, the periodic refresh of *)
(* dynamic positions does not.                                             *)
(***************************************************************************)
\* The ids of the calculator are always those from 0 on; a stored configuration,
\* which the boot passes on as it is, may have others.
Contiguous(ids) == \A id \in ids : 0 .. id \subseteq ids

Configure(ids, static) ==
  /\ conf.pc = "idle"
  /\ static \/ Contiguous(ids)
  /\ conf' = [pc |-> "locking", ids |-> ids, static |-> static]
  /\ UNCHANGED <<configured, fresh, age, freshCount, outdated, mtx, prod, est,
                 notified>>

ConfigureLock ==
  /\ conf.pc = "locking" /\ mtx = Free
  /\ mtx' = "conf"
  /\ conf' = [conf EXCEPT !.pc = "writing"]
  /\ UNCHANGED <<configured, fresh, age, freshCount, outdated, prod, est, notified>>

\* "Static anchor config skipped - measurement mutex busy"
ConfigureTimeout ==
  /\ conf.pc = "locking" /\ mtx # Free
  /\ conf' = [pc |-> "idle"]
  /\ UNCHANGED <<configured, fresh, age, freshCount, outdated, mtx, prod, est,
                 notified>>

\* applyStaticAnchorsLocked writes nothing of what buildStaticAnchorConfig rejects.
Write ==
  /\ conf.pc = "writing"
  /\ IF conf.static /\ Contiguous(conf.ids)
     THEN /\ outdated' = Pairs
          /\ conf' = [pc |-> "clearing"]
          /\ mtx' = mtx
     ELSE /\ conf' = [pc |-> "idle"]
          /\ mtx' = Free
          /\ UNCHANGED outdated
  /\ configured' = IF Contiguous(conf.ids) THEN conf.ids ELSE configured
  /\ UNCHANGED <<fresh, age, freshCount, prod, est, notified>>

\* Seeded fault: the counter is reset but the slots stay fresh.
CounterOnlyClear ==
  /\ conf.pc = "clearing"
  /\ freshCount' = 0
  /\ mtx' = Free
  /\ conf' = [pc |-> "idle"]
  /\ UNCHANGED <<configured, fresh, age, outdated, prod, est, notified>>

\* clearFreshMeasurementsLocked
Clear ==
  /\ conf.pc = "clearing"
  /\ fresh' = {}
  /\ freshCount' = 0
  /\ mtx' = Free
  /\ conf' = [pc |-> "idle"]
  /\ UNCHANGED <<configured, age, outdated, prod, est, notified>>

(***************************************************************************)
(* Time passes between any two steps.  The age of a slot that is not fresh *)
(* is never read: it is kept at 0.                                         *)
(***************************************************************************)
Older(n) == IF n <= StaleAge THEN n + 1 ELSE n

Tick ==
  /\ age' = [p \in Pairs |-> IF p \in fresh THEN Older(age[p]) ELSE 0]
  /\ prod' = IF prod.pc \in {"locking", "storing"}
             THEN [prod EXCEPT !.age = Older(prod.age)] ELSE prod
  /\ <<age', prod'>> # <<age, prod>>
  /\ UNCHANGED <<configured, fresh, freshCount, outdated, mtx, est, conf, notified>>

Next ==
  \/ \E p \in Pairs : Callback(p)
  \/ ProducerLock \/ ProducerTimeout \/ Store \/ Count \/ Notify
  \/ Wake \/ EstimatorLock \/ EstimatorTimeout \/ Snapshot \/ Subtract \/ Solve
  \/ \E ids \in Configs, static \in BOOLEAN : Configure(ids, static)
  \/ ConfigureLock \/ ConfigureTimeout \/ Write \/ Clear
  \/ Tick

Spec == Init /\ [][Next]_vars

(***************************************************************************)
(* Properties                                                              *)
(***************************************************************************)
\* Every variable keeps its type; fresh_pair_count, unsigned in the code,
\* never underflows and never exceeds the number of slots.
TypeOK ==
  /\ configured \subseteq Anchors
  /\ fresh \subseteq Pairs
  /\ age \in [Pairs -> Ages]
  /\ freshCount \in 0 .. Cardinality(Pairs)
  /\ outdated \subseteq Pairs
  /\ mtx \in {Free, "prod", "est", "conf"}
  /\ prod \in ProdStates
  /\ est \in EstStates
  /\ conf \in ConfStates
  /\ notified \in BOOLEAN

\* Whenever the mutex is free, fresh_pair_count is the number of fresh slots:
\* stores, batches, expiries and clears of three tasks never let it drift.
CountMatchesSlots == mtx = Free => freshCount = Cardinality(fresh)

\* A batch that reaches the solver is large enough, also after the rows too
\* old for it were dropped, and every row's anchors have a position in the
\* copy of the anchors that is solved with.
BatchIsSolvable ==
  est.pc = "solving" =>
    /\ Enough(est.batch)
    /\ \A p \in est.batch : Within(p, est.anchors)

\* No row of a batch was measured before the last change of the static
\* anchors.
NothingOutdatedIsTaken ==
  est.pc = "subtracting" => est.batch \cap outdated = {}
==============================================================================
