----------------------------- MODULE MutexProofs -----------------------------
(***************************************************************************)
(* Proofs about the two places where several tasks share state under one   *)
(* mutex, with a flag or a counter beside it: the tag's measurement buffer *)
(* (MeasurementBuffer) and the WiFi frontend's services (WifiServices).    *)
(* The first part holds for any number of anchors, any gates of the        *)
(* estimator and any interleaving of the three tasks: the counter agrees   *)
(* with the slots whenever the mutex is free, and what reaches the solver  *)
(* is a batch it can solve, measured under the anchors it is solved with.  *)
(* The second holds for any number of consoles, requests and values of the *)
(* parameters.                                                             *)
(***************************************************************************)
EXTENDS MeasurementBuffer, WifiServices, FiniteSetTheorems, SequenceTheorems, TLAPS

\* The slots marked or unmarked by a task that has not yet moved the counter.
Uncounted == IF prod.pc = "counting" /\ ~prod.wasFresh THEN 1 ELSE 0
Unsubtracted == IF est.pc = "subtracting" THEN est.removed ELSE 0

\* The tasks inside the mutex are its holders.
Locking ==
  /\ prod.pc \in {"storing", "counting"} <=> mtx = "prod"
  /\ est.pc \in {"copying", "subtracting"} <=> mtx = "est"
  /\ conf.pc \in {"writing", "clearing"} <=> mtx = "conf"

Counting == freshCount = Cardinality(fresh) + Unsubtracted - Uncounted

Batches ==
  /\ est.pc = "subtracting" /\ est.batch # {} =>
       /\ Enough(est.batch)
       /\ \A p \in est.batch : Within(p, configured)
  /\ est.pc = "subtracting" => est.batch \cap outdated = {}
  /\ conf.pc # "clearing" => fresh \cap outdated = {}

Inv == TypeOK /\ Locking /\ Counting /\ Batches /\ BatchIsSolvable

-----------------------------------------------------------------------------
LEMMA PairsFinite ==
  /\ IsFiniteSet(Pairs)
  /\ Cardinality(Pairs) \in Nat
<1>1. IsFiniteSet(Anchors \X Anchors)
  BY BufferAssumption, FS_Product
<1>2. Pairs \subseteq Anchors \X Anchors
  BY DEF Pairs
<1> QED BY <1>1, <1>2, FS_Subset, FS_CardinalityType

LEMMA SlotSets ==
  ASSUME NEW S \in SUBSET Pairs
  PROVE  /\ IsFiniteSet(S)
         /\ Cardinality(S) \in 0 .. Cardinality(Pairs)
<1>1. IsFiniteSet(S) /\ Cardinality(S) <= Cardinality(Pairs)
  BY PairsFinite, FS_Subset
<1> QED BY <1>1, PairsFinite, FS_CardinalityType

LEMMA ProdShapes ==
  ASSUME prod \in ProdStates
  PROVE  /\ prod.pc \in {"locking", "storing"} =>
              prod = [pc |-> prod.pc, pair |-> prod.pair, age |-> prod.age]
                /\ prod.pair \in Pairs /\ prod.age \in Ages
         /\ prod.pc = "counting" => prod.wasFresh \in BOOLEAN
         /\ prod.pc = "notifying" => prod.seen \in Nat
BY DEF ProdStates

LEMMA EstShapes ==
  ASSUME est \in EstStates
  PROVE  /\ est.pc = "subtracting" => est.batch \in SUBSET Pairs /\ est.removed \in Nat
         /\ est.pc = "solving" => est.batch \in SUBSET Pairs
BY DEF EstStates

LEMMA ConfShapes ==
  ASSUME conf \in ConfStates
  PROVE  conf.pc \in {"locking", "writing"} =>
           /\ conf = [pc |-> conf.pc, ids |-> conf.ids, static |-> conf.static]
           /\ conf.ids \in Configs /\ conf.static \in BOOLEAN
BY DEF ConfStates

\* The slots that stay fresh are fresh, of configured anchors, and a batch is
\* all of them or nothing.
LEMMA KeptIsUsable == Kept \subseteq fresh /\ \A p \in Kept : Within(p, configured)
BY DEF Kept, Coherent, Usable

-----------------------------------------------------------------------------
\* The initial state.
LEMMA InitInv == Init => Inv
<1> SUFFICES ASSUME Init PROVE Inv
  OBVIOUS
<1>1. TypeOK
  <2>1. 0 \in Ages /\ 0 \in 0 .. Cardinality(Pairs)
    BY PairsFinite, BufferAssumption DEF Ages
  <2> QED BY <2>1 DEF Init, TypeOK, Free, ProdStates, EstStates, ConfStates
<1>2. Counting
  BY FS_EmptySet DEF Init, Counting, Unsubtracted, Uncounted
<1> QED BY <1>1, <1>2 DEF Init, Inv, Locking, Batches, BatchIsSolvable, Free

\* The steps of the radio's task.
LEMMA ProducerInv ==
  ASSUME Inv, \/ \E p \in Pairs : Callback(p)
              \/ ProducerLock \/ ProducerTimeout \/ Store \/ Count \/ Notify
  PROVE  Inv'
<1> USE DEF Inv
<1>0. prod \in ProdStates /\ est \in EstStates /\ conf \in ConfStates
  BY DEF TypeOK
<1>1. ASSUME NEW p \in Pairs, Callback(p) PROVE Inv'
  <2>1. 0 \in Ages
    BY BufferAssumption DEF Ages
  <2>2. TypeOK'
    BY <1>1, <2>1 DEF TypeOK, Callback, ProdStates
  <2> QED BY <1>1, <2>2 DEF Callback, Locking, Counting, Uncounted, Unsubtracted,
                         Batches, BatchIsSolvable
<1>2. CASE ProducerLock
  <2>1. prod' \in ProdStates /\ prod'.pc = "storing"
    BY <1>0, <1>2, ProdShapes DEF ProducerLock, ProdStates
  <2>2. TypeOK'
    BY <1>2, <2>1 DEF TypeOK, ProducerLock
  <2> QED BY <1>2, <2>1, <2>2 DEF ProducerLock, Locking, Counting, Uncounted,
                    Unsubtracted, Batches, BatchIsSolvable, Free
<1>3. CASE ProducerTimeout
  <2>1. TypeOK'
    BY <1>3 DEF TypeOK, ProducerTimeout, ProdStates
  <2> QED BY <1>3, <2>1 DEF ProducerTimeout, Locking, Counting, Uncounted,
                    Unsubtracted, Batches, BatchIsSolvable
<1>4. CASE Store /\ Within(prod.pair, configured)
  <2>1. prod.pair \in Pairs /\ prod.age \in Ages
    BY <1>0, <1>4, ProdShapes DEF Store
  <2>2. /\ prod' = [pc |-> "counting", wasFresh |-> prod.pair \in fresh]
        /\ fresh' = fresh \cup {prod.pair}
        /\ age' = [age EXCEPT ![prod.pair] = prod.age]
        /\ outdated' = outdated \ {prod.pair}
        /\ UNCHANGED <<mtx, configured, freshCount, est, conf, notified>>
    BY <1>4 DEF Store
  <2>3. mtx = "prod" /\ est.pc # "subtracting" /\ conf.pc # "clearing"
    BY <1>4 DEF Store, Locking
  <2>4. Cardinality(fresh') = IF prod.pair \in fresh THEN Cardinality(fresh)
                              ELSE Cardinality(fresh) + 1
    BY <2>2, SlotSets, FS_AddElement DEF TypeOK
  <2>5. TypeOK'
    BY <2>1, <2>2 DEF TypeOK, ProdStates
  <2>6. Counting'
    <3>1. Cardinality(fresh) \in Nat /\ freshCount = Cardinality(fresh)
      BY <2>3, <1>4, SlotSets DEF TypeOK, Counting, Unsubtracted, Uncounted, Store
    <3>2. prod'.pc = "counting" /\ prod'.wasFresh = (prod.pair \in fresh)
      BY <2>2
    <3>3. Unsubtracted' = 0
      BY <2>2, <2>3 DEF Unsubtracted
    <3>4. Uncounted' = IF prod.pair \in fresh THEN 0 ELSE 1
      BY <3>2 DEF Uncounted
    <3> QED BY <2>2, <2>4, <3>1, <3>3, <3>4 DEF Counting
  <2>7. Locking' /\ Batches' /\ BatchIsSolvable'
    BY <2>2, <2>3, <1>4 DEF Locking, Batches, BatchIsSolvable, Store
  <2> QED BY <2>5, <2>6, <2>7
<1>5. CASE Store /\ ~Within(prod.pair, configured)
  <2>1. prod' = [pc |-> "idle"] /\ mtx' = Free /\ mtx = "prod" /\ prod.pc = "storing"
        /\ UNCHANGED <<fresh, age, outdated, configured, freshCount, est, conf, notified>>
    BY <1>5 DEF Store, Locking
  <2>2. TypeOK'
    BY <2>1 DEF TypeOK, ProdStates
  <2> QED BY <2>1, <2>2 DEF Locking, Counting, Uncounted, Unsubtracted, Batches,
                    BatchIsSolvable, Free
<1>6. CASE Count
  <2>1. /\ prod.pc = "counting" /\ prod.wasFresh \in BOOLEAN /\ mtx = "prod"
        /\ est.pc # "subtracting"
    BY <1>0, <1>6, ProdShapes DEF Count, Locking
  <2>2. Cardinality(fresh) \in 0 .. Cardinality(Pairs) /\ Cardinality(Pairs) \in Nat
    BY SlotSets, PairsFinite DEF TypeOK
  <2>3. freshCount' = Cardinality(fresh)
    <3>1. freshCount = Cardinality(fresh) - Uncounted
      BY <2>1, <2>2 DEF Counting, Unsubtracted, Uncounted
    <3>2. CASE prod.wasFresh
      BY <1>6, <2>1, <2>2, <3>1, <3>2 DEF Count, Uncounted
    <3>3. CASE ~prod.wasFresh
      BY <1>6, <2>1, <2>2, <3>1, <3>3 DEF Count, Uncounted
    <3> QED BY <2>1, <3>2, <3>3
  <2>4. /\ prod' = [pc |-> "notifying", seen |-> freshCount'] /\ mtx' = Free
        /\ UNCHANGED <<configured, fresh, age, outdated, est, conf, notified>>
    BY <1>6 DEF Count
  <2>5. prod' \in ProdStates
    BY <2>2, <2>3, <2>4 DEF ProdStates
  <2>6. TypeOK'
    BY <2>2, <2>3, <2>4, <2>5 DEF TypeOK
  <2>7. Counting'
    BY <2>1, <2>2, <2>3, <2>4 DEF Counting, Unsubtracted, Uncounted
  <2> QED BY <2>1, <2>4, <2>6, <2>7 DEF Locking, Batches, BatchIsSolvable, Free
<1>7. CASE Notify
  <2>1. TypeOK'
    BY <1>7 DEF TypeOK, Notify, ProdStates
  <2> QED BY <1>7, <2>1 DEF Notify, Locking, Counting, Uncounted, Unsubtracted,
                    Batches, BatchIsSolvable
<1> QED BY <1>1, <1>2, <1>3, <1>4, <1>5, <1>6, <1>7

\* The steps of the estimator's task.
LEMMA EstimatorInv ==
  ASSUME Inv, Wake \/ EstimatorLock \/ EstimatorTimeout \/ Snapshot \/ Subtract \/ Solve
  PROVE  Inv'
<1> USE DEF Inv
<1>0. est \in EstStates
  BY DEF TypeOK
<1>1. CASE Wake \/ EstimatorLock \/ EstimatorTimeout \/ Solve
  <2>1. /\ est.pc \notin {"copying", "subtracting"} /\ est' \in EstStates
        /\ est'.pc \notin {"subtracting", "solving"}
        /\ \/ mtx' = mtx /\ est'.pc # "copying"
           \/ mtx = Free /\ mtx' = "est" /\ est'.pc = "copying"
        /\ notified' \in BOOLEAN
        /\ UNCHANGED <<configured, fresh, age, freshCount, outdated, prod, conf>>
    <3>0. notified \in BOOLEAN
      BY DEF TypeOK
    <3>1. CASE Wake
      BY <3>1 DEF Wake, EstStates
    <3>2. CASE EstimatorLock
      BY <3>0, <3>2 DEF EstimatorLock, EstStates
    <3>3. CASE EstimatorTimeout
      BY <3>0, <3>3 DEF EstimatorTimeout, EstStates
    <3>4. CASE Solve
      BY <3>0, <3>4 DEF Solve, EstStates
    <3> QED BY <1>1, <3>1, <3>2, <3>3, <3>4
  <2>2. TypeOK'
    BY <2>1 DEF TypeOK
  <2> QED BY <2>1, <2>2 DEF Locking, Counting, Uncounted, Unsubtracted, Batches,
                    BatchIsSolvable, Free
<1>2. CASE Snapshot
  <2> DEFINE batch == IF Enough(Kept) THEN Kept ELSE {}
  <2>1. /\ est.pc = "copying" /\ fresh' = Kept \ batch
        /\ est' = [pc |-> "subtracting", batch |-> batch,
                   removed |-> Cardinality(fresh \ fresh')]
        /\ UNCHANGED <<configured, age, freshCount, outdated, mtx, prod, conf, notified>>
    BY <1>2 DEF Snapshot
  <2>2. mtx = "est" /\ prod.pc # "counting" /\ conf.pc # "clearing"
    BY <2>1 DEF Locking
  <2>3. /\ batch \subseteq fresh /\ fresh' \subseteq fresh
        /\ \A p \in batch : Within(p, configured)
        /\ batch # {} => Enough(batch)
    BY <2>1, KeptIsUsable
  <2> HIDE DEF batch
  <2>4. /\ Cardinality(fresh) \in Nat /\ Cardinality(fresh') \in Nat
        /\ Cardinality(fresh \ fresh') \in Nat
        /\ Cardinality(fresh \ fresh') = Cardinality(fresh) - Cardinality(fresh')
    <3>1. fresh \cap fresh' = fresh' /\ fresh' \subseteq Pairs /\ fresh \subseteq Pairs
          /\ fresh \ fresh' \subseteq Pairs
      BY <2>3 DEF TypeOK
    <3>2. IsFiniteSet(fresh)
      BY <3>1, SlotSets
    <3>3. Cardinality(fresh \ fresh') = Cardinality(fresh) - Cardinality(fresh')
      <4>1. Cardinality(fresh \ fresh') = Cardinality(fresh) - Cardinality(fresh \cap fresh')
        <5> HIDE DEF Kept
        <5>1. \A T : Cardinality(fresh \ T) = Cardinality(fresh) - Cardinality(fresh \cap T)
          BY <3>2, FS_Difference
        <5> QED BY <5>1
      <4> QED BY <3>1, <4>1
    <3> QED BY <3>1, <3>3, SlotSets, PairsFinite
  <2>5. TypeOK'
    <3>1. est' \in EstStates
      BY <2>1, <2>3, <2>4 DEF EstStates, TypeOK
    <3> QED BY <2>1, <2>3, <3>1 DEF TypeOK
  <2>6. Counting'
    <3>1. freshCount = Cardinality(fresh)
      BY <2>1, <2>2, <2>4 DEF Counting, Unsubtracted, Uncounted
    <3>2. Unsubtracted' = Cardinality(fresh \ fresh') /\ Uncounted' = 0
      BY <2>1, <2>2 DEF Unsubtracted, Uncounted
    <3> QED BY <2>1, <2>4, <3>1, <3>2 DEF Counting
  <2>7. Batches' /\ BatchIsSolvable' /\ Locking'
    BY <2>1, <2>2, <2>3 DEF Batches, BatchIsSolvable, Locking, Enough, AnchorsOf, Within
  <2> QED BY <2>5, <2>6, <2>7
<1>3. CASE Subtract
  <2>1. /\ est.pc = "subtracting" /\ mtx' = Free /\ mtx = "est"
        /\ prod.pc # "counting" /\ conf.pc # "clearing"
        /\ freshCount' = freshCount - est.removed
        /\ UNCHANGED <<configured, fresh, age, outdated, prod, conf, notified>>
    BY <1>3 DEF Subtract, Locking
  <2>2. est.batch \in SUBSET Pairs /\ est.removed \in Nat
    BY <1>0, <2>1, EstShapes
  <2>3. freshCount' = Cardinality(fresh)
    BY <2>1, <2>2, SlotSets, PairsFinite DEF Counting, Unsubtracted, Uncounted, TypeOK
  <2>4. /\ est' \in EstStates /\ est'.pc \in {"waiting", "solving"}
        /\ est'.pc = "solving" => est'.batch = est.batch /\ est'.anchors = configured
                                  /\ est.batch # {}
    BY <1>3, <2>2 DEF Subtract, EstStates, TypeOK
  <2>5. TypeOK'
    BY <2>1, <2>3, <2>4, SlotSets DEF TypeOK
  <2>6. Counting'
    BY <2>1, <2>3, <2>4, SlotSets, PairsFinite DEF Counting, Unsubtracted, Uncounted, TypeOK
  <2>7. BatchIsSolvable'
    BY <2>1, <2>4 DEF Batches, BatchIsSolvable, Enough, AnchorsOf, Within
  <2> QED BY <2>1, <2>4, <2>5, <2>6, <2>7 DEF Locking, Batches, Free
<1> QED BY <1>1, <1>2, <1>3

\* The steps of a change of the anchors, and of time.
LEMMA ConfigureInv ==
  ASSUME Inv, \/ \E ids \in Configs, static \in BOOLEAN : Configure(ids, static)
              \/ ConfigureLock \/ ConfigureTimeout \/ Write \/ Clear \/ Tick
  PROVE  Inv'
<1> USE DEF Inv
<1>0. conf \in ConfStates /\ prod \in ProdStates
  BY DEF TypeOK
<1>1. ASSUME NEW ids \in Configs, NEW static \in BOOLEAN, Configure(ids, static) PROVE Inv'
  <2>1. TypeOK'
    BY <1>1 DEF TypeOK, Configure, ConfStates
  <2> QED BY <1>1, <2>1 DEF Configure, Locking, Counting, Uncounted, Unsubtracted,
                    Batches, BatchIsSolvable
<1>2. CASE ConfigureLock
  <2>1. conf' \in ConfStates /\ conf'.pc = "writing"
    BY <1>0, <1>2, ConfShapes DEF ConfigureLock, ConfStates
  <2>2. TypeOK'
    BY <1>2, <2>1 DEF TypeOK, ConfigureLock
  <2> QED BY <1>2, <2>1, <2>2 DEF ConfigureLock, Locking, Counting, Uncounted,
                    Unsubtracted, Batches, BatchIsSolvable, Free
<1>3. CASE ConfigureTimeout
  <2>1. TypeOK'
    BY <1>3 DEF TypeOK, ConfigureTimeout, ConfStates
  <2> QED BY <1>3, <2>1 DEF ConfigureTimeout, Locking, Counting, Uncounted,
                    Unsubtracted, Batches, BatchIsSolvable
<1>4. CASE Write
  <2>1. /\ conf.pc = "writing" /\ mtx = "conf" /\ conf.ids \in Configs
        /\ est.pc # "subtracting"
    BY <1>0, <1>4, ConfShapes DEF Write, Locking
  <2>2. /\ configured' \in {conf.ids, configured}
        /\ \/ outdated' = Pairs /\ conf' = [pc |-> "clearing"] /\ mtx' = mtx
           \/ outdated' = outdated /\ conf' = [pc |-> "idle"] /\ mtx' = Free
        /\ UNCHANGED <<fresh, age, freshCount, prod, est, notified>>
    <3>1. CASE conf.static /\ Contiguous(conf.ids)
      BY <1>4, <3>1 DEF Write
    <3>2. CASE ~(conf.static /\ Contiguous(conf.ids))
      BY <1>4, <3>2 DEF Write
    <3> QED BY <3>1, <3>2
  <2>3. TypeOK'
    <3>1. configured' \subseteq Anchors
      BY <2>1, <2>2, BufferAssumption DEF TypeOK
    <3>2. conf' \in ConfStates
      BY <2>2 DEF ConfStates
    <3> QED BY <2>1, <2>2, <3>1, <3>2 DEF TypeOK
  <2> QED BY <2>1, <2>2, <2>3 DEF Locking, Counting, Uncounted, Unsubtracted, Batches,
                    BatchIsSolvable, Free
<1>5. CASE Clear
  <2>1. /\ conf.pc = "clearing" /\ mtx = "conf" /\ mtx' = Free /\ est.pc # "subtracting"
        /\ prod.pc # "counting" /\ fresh' = {} /\ freshCount' = 0 /\ conf' = [pc |-> "idle"]
        /\ UNCHANGED <<configured, age, outdated, prod, est, notified>>
    BY <1>5 DEF Clear, Locking
  <2>2. TypeOK'
    BY <2>1, PairsFinite DEF TypeOK, ConfStates
  <2> QED BY <2>1, <2>2, FS_EmptySet DEF Locking, Counting, Uncounted, Unsubtracted,
                    Batches, BatchIsSolvable, Free
<1>6. CASE Tick
  <2>1. \A n \in Ages : Older(n) \in Ages
    BY BufferAssumption DEF Ages, Older
  <2>2. 0 \in Ages
    BY BufferAssumption DEF Ages
  <2>3. age' \in [Pairs -> Ages]
    BY <1>6, <2>1, <2>2 DEF Tick, TypeOK
  <2>4. prod' \in ProdStates /\ prod'.pc = prod.pc
        /\ (prod.pc = "counting" => prod' = prod)
    <3>1. CASE prod.pc \in {"locking", "storing"}
      <4>1. prod' = [pc |-> prod.pc, pair |-> prod.pair, age |-> Older(prod.age)]
        BY <1>0, <1>6, <3>1, ProdShapes DEF Tick
      <4>2. prod.pair \in Pairs /\ Older(prod.age) \in Ages
        BY <1>0, <2>1, <3>1, ProdShapes
      <4> QED BY <3>1, <4>1, <4>2 DEF ProdStates
    <3>2. CASE prod.pc \notin {"locking", "storing"}
      BY <1>0, <1>6, <3>2 DEF Tick
    <3> QED BY <3>1, <3>2
  <2>5. UNCHANGED <<configured, fresh, freshCount, outdated, mtx, est, conf, notified>>
    BY <1>6 DEF Tick
  <2>6. TypeOK'
    BY <2>3, <2>4, <2>5 DEF TypeOK
  <2> QED BY <2>4, <2>5, <2>6 DEF Locking, Counting, Uncounted, Unsubtracted, Batches,
                    BatchIsSolvable
<1> QED BY <1>1, <1>2, <1>3, <1>4, <1>5, <1>6

-----------------------------------------------------------------------------
THEOREM Invariance == Spec => []Inv
<1>1. Inv /\ [Next]_vars => Inv'
  <2>1. ASSUME Inv, UNCHANGED vars PROVE Inv'
    BY <2>1 DEF vars, Inv, TypeOK, Locking, Counting, Uncounted, Unsubtracted, Batches,
                BatchIsSolvable
  <2> QED BY <2>1, ProducerInv, EstimatorInv, ConfigureInv DEF Next
<1> QED BY InitInv, <1>1, PTL DEF Spec

\* Every variable keeps its type; in particular the unsigned fresh_pair_count
\* never underflows.
THEOREM TypeCorrect == Spec => []TypeOK
<1>1. Inv => TypeOK
  BY DEF Inv
<1> QED BY <1>1, Invariance, PTL

\* Whenever the mutex is free, the counter is the number of fresh slots.
THEOREM CounterIsExact == Spec => []CountMatchesSlots
<1>1. Inv => CountMatchesSlots
  <2> SUFFICES ASSUME Inv, mtx = Free PROVE freshCount = Cardinality(fresh)
    BY DEF CountMatchesSlots
  <2>1. Cardinality(fresh) \in Nat
    BY SlotSets, PairsFinite DEF Inv, TypeOK
  <2> QED BY <2>1 DEF Inv, Locking, Counting, Uncounted, Unsubtracted, Free
<1> QED BY <1>1, Invariance, PTL

\* Every batch handed to the solver passes the gates of its mode, and each of
\* its rows has both anchors in the copied configuration.
THEOREM BatchesAreSolvable == Spec => []BatchIsSolvable
<1>1. Inv => BatchIsSolvable
  BY DEF Inv
<1> QED BY <1>1, Invariance, PTL

\* No batch has a row measured before the static anchors last changed.
THEOREM BatchesAreCurrent == Spec => []NothingOutdatedIsTaken
<1>1. Inv => NothingOutdatedIsTaken
  BY DEF Inv, Batches, NothingOutdatedIsTaken
<1> QED BY <1>1, Invariance, PTL

-----------------------------------------------------------------------------
(* The WiFi frontend.  A task is a sequence of accesses, so the inductive  *)
(* invariant says which sequences can be left: only WifiTask ever has an   *)
(* access to the mutex or to m_updatingBackends, only at the end of what   *)
(* it has left, and how far it is in its pass tells whether the mutex is   *)
(* held and the flag set.                                                  *)

\* What a task may have to do anywhere, and what only WifiTask's pass does.
Doings == {Do(op) : op \in {"clear", "startAP", "begin", "setup", "requestMode",
                           "requestSetup", "lockCommand", "unlockCommand", "apply"}}
Flags == {With("setConnected", b) : b \in BOOLEAN}
Pends == {With("pend", [field |-> "modeUpdate", value |-> TRUE]),
          With("pend", [field |-> "setup", value |-> TRUE])}
         \cup {With("pend", [field |-> "mode", value |-> m]) : m \in Modes}
Currents == {With("setCurrent", m) : m \in Modes \cup {"UNDEFINED"}}
Stores == {With("storeMode", m) : m \in Modes} \cup {With("storeConfig", c) : c \in ServiceConfigs}
Copies == {With("take", f) : f \in Fields} \cup {With("drop", f) : f \in Fields}
Plain == Doings \cup Flags \cup Pends \cup Currents \cup Stores \cup Copies
Guarded == {Do(op) : op \in {"lock", "unlock", "serve"}}
           \cup {With("setUpdating", b) : b \in BOOLEAN}

\* What is left of the pass from its k-th access on: it serves at the third, and
\* gives m_backendsMutex back at the eleventh.
From(k) == SubSeq(Update, k, 12)

\* Where WifiTask is in its pass, and what it has of the mutex and the flag there.
Outside == todo["WifiTask"] \in Seq(Plain) /\ ~held /\ ~updating
Entering == \/ todo["WifiTask"] = From(1) /\ ~held /\ ~updating
            \/ todo["WifiTask"] = From(2) /\ held /\ ~updating
Inside == /\ held /\ updating
          /\ \/ \E p \in Seq(Plain) : todo["WifiTask"] = p \o From(3)
             \/ todo["WifiTask"] = From(4)
Taking == /\ held /\ ~updating
          /\ \E p \in Seq(Plain) : todo["WifiTask"] = p \o From(11)
Pass == Outside \/ Entering \/ Inside \/ Taking

Sequences == /\ todo \in [Tasks -> Seq(Plain \cup Guarded)]
             /\ \A t \in Tasks \ {"WifiTask"} : todo[t] \in Seq(Plain)
Requested == [modeUpdate : BOOLEAN, mode : Modes \cup {"UNDEFINED"}, setup : BOOLEAN]
Typed == /\ param \in [mode : Modes, config : ServiceConfigs]
         /\ current \in Modes \cup {"UNDEFINED"}
         /\ {connected, link, held, updating} \subseteq BOOLEAN
         /\ services \in ServiceConfigs \cup {NoServices}
         /\ pending \in Requested /\ got \in Requested
         /\ command \in Tasks \cup {"free"}
         /\ requests \in 0 .. MaxRequests

WInv == Typed /\ Sequences /\ Pass
-----------------------------------------------------------------------------
LEMMA PlainOps ==
  ASSUME NEW a \in Plain
  PROVE  /\ a.op \notin {"lock", "unlock", "serve", "setUpdating"}
         /\ a.op = "setConnected" => a.arg \in BOOLEAN
         /\ a.op = "setCurrent" => a.arg \in Modes \cup {"UNDEFINED"}
         /\ a.op = "storeMode" => a.arg \in Modes
         /\ a.op = "storeConfig" => a.arg \in ServiceConfigs
         /\ a.op \in {"take", "drop"} => a.arg \in Fields
         /\ a.op = "pend" => \/ /\ a.arg.field \in {"modeUpdate", "setup"}
                                /\ a.arg.value = TRUE
                             \/ a.arg.field = "mode" /\ a.arg.value \in Modes
<1>1. CASE a \in Doings
  BY <1>1 DEF Doings, Do
<1>2. CASE a \in Flags
  BY <1>2 DEF Flags, With
<1>3. CASE a \in Pends
  BY <1>3 DEF Pends, With
<1>4. CASE a \in Currents
  BY <1>4 DEF Currents, With
<1>5. CASE a \in Stores
  BY <1>5 DEF Stores, With
<1>6. CASE a \in Copies
  BY <1>6 DEF Copies, With
<1> QED BY <1>1, <1>2, <1>3, <1>4, <1>5, <1>6 DEF Plain

LEMMA ArePlain ==
  /\ \A op \in {"clear", "startAP", "begin", "setup", "requestMode", "requestSetup",
              "lockCommand", "unlockCommand", "apply"} : Do(op) \in Plain
  /\ With("setConnected", TRUE) \in Plain /\ With("setConnected", FALSE) \in Plain
  /\ \A m \in Modes \cup {"UNDEFINED"} : With("setCurrent", m) \in Plain
  /\ \A m \in Modes : With("storeMode", m) \in Plain
  /\ \A c \in ServiceConfigs : With("storeConfig", c) \in Plain
  /\ \A f \in Fields : With("take", f) \in Plain /\ With("drop", f) \in Plain
  /\ With("pend", [field |-> "modeUpdate", value |-> TRUE]) \in Plain
  /\ With("pend", [field |-> "setup", value |-> TRUE]) \in Plain
  /\ \A m \in Modes : With("pend", [field |-> "mode", value |-> m]) \in Plain
<1>1. \A op \in {"clear", "startAP", "begin", "setup", "requestMode", "requestSetup",
               "lockCommand", "unlockCommand", "apply"} : Do(op) \in Doings
  BY DEF Doings
<1>2. With("setConnected", TRUE) \in Flags /\ With("setConnected", FALSE) \in Flags
  <2>1. TRUE \in BOOLEAN /\ FALSE \in BOOLEAN
    OBVIOUS
  <2> QED BY <2>1, Zenon DEF Flags
<1>3. \A m \in Modes \cup {"UNDEFINED"} : With("setCurrent", m) \in Currents
  BY DEF Currents
<1>4. /\ \A m \in Modes : With("storeMode", m) \in Stores
      /\ \A c \in ServiceConfigs : With("storeConfig", c) \in Stores
  BY DEF Stores
<1>5. \A f \in Fields : With("take", f) \in Copies /\ With("drop", f) \in Copies
  BY DEF Copies
<1>6. /\ With("pend", [field |-> "modeUpdate", value |-> TRUE]) \in Pends
      /\ With("pend", [field |-> "setup", value |-> TRUE]) \in Pends
  BY DEF Pends
<1>7. ASSUME NEW m \in Modes PROVE With("pend", [field |-> "mode", value |-> m]) \in Pends
  BY DEF Pends
<1> QED BY <1>1, <1>2, <1>3, <1>4, <1>5, <1>6, <1>7 DEF Plain

LEMMA GuardedOps ==
  ASSUME NEW a \in Guarded
  PROVE  /\ a.op \in {"lock", "unlock", "serve", "setUpdating"}
         /\ a.op = "setUpdating" => a.arg \in BOOLEAN
  BY DEF Guarded, Do, With

LEMMA ShortTuples ==
  ASSUME NEW S, NEW a \in S, NEW b \in S, NEW c \in S
  PROVE  <<a>> \in Seq(S) /\ <<a, b>> \in Seq(S) /\ <<a, b, c>> \in Seq(S)
  OBVIOUS

LEMMA TupleOf12 ==
  ASSUME NEW S, NEW a \in S, NEW b \in S, NEW c \in S, NEW d \in S, NEW e \in S,
         NEW f \in S, NEW g \in S, NEW h \in S, NEW i \in S, NEW j \in S,
         NEW k \in S, NEW l \in S
  PROVE  <<a, b, c, d, e, f, g, h, i, j, k, l>> \in Seq(S)
  OBVIOUS

LEMMA UpdateSteps ==
  /\ Update \in Seq(Plain \cup Guarded) /\ Len(Update) = 12
  /\ Update[1].op = "lock" /\ Update[3].op = "serve" /\ Update[11].op = "unlock"
  /\ Update[2] = With("setUpdating", TRUE) /\ Update[4] = With("setUpdating", FALSE)
  /\ \A k \in 5 .. 10 : Update[k] \in Plain
  /\ Update[12] \in Plain
<1>1. /\ Len(Update) = 12
      /\ Update[1] = Do("lock") /\ Update[2] = With("setUpdating", TRUE)
      /\ Update[3] = Do("serve") /\ Update[4] = With("setUpdating", FALSE)
      /\ Update[5] = With("take", "modeUpdate") /\ Update[6] = With("take", "mode")
      /\ Update[7] = With("take", "setup") /\ Update[8] = With("drop", "modeUpdate")
      /\ Update[9] = With("drop", "mode") /\ Update[10] = With("drop", "setup")
      /\ Update[11] = Do("unlock") /\ Update[12] = Do("apply")
  BY DEF Update
<1>2. /\ {Do("lock"), Do("serve"), Do("unlock")} \subseteq Guarded
      /\ {With("setUpdating", TRUE), With("setUpdating", FALSE)} \subseteq Guarded
  BY DEF Guarded
<1>3. /\ Do("apply") \in Plain
      /\ \A f \in Fields : With("take", f) \in Plain /\ With("drop", f) \in Plain
  BY ArePlain
<1>4. \A k \in 5 .. 10 : Update[k] \in Plain
  BY <1>1, <1>3 DEF Fields
<1>5. Update \in Seq(Plain \cup Guarded)
  <2> DEFINE A == Plain \cup Guarded
  <2>1. /\ {Do("lock"), Do("unlock"), Do("serve"), Do("apply")} \subseteq A
        /\ {With("setUpdating", TRUE), With("setUpdating", FALSE)} \subseteq A
        /\ {With("take", "modeUpdate"), With("take", "mode"), With("take", "setup")} \subseteq A
        /\ {With("drop", "modeUpdate"), With("drop", "mode"), With("drop", "setup")} \subseteq A
    BY <1>2, <1>3 DEF Fields
  <2> HIDE DEF A
  <2>2. Update \in Seq(A)
    BY <2>1, TupleOf12 DEF Update
  <2> QED BY <2>2 DEF A
<1>6. Do("lock").op = "lock" /\ Do("serve").op = "serve" /\ Do("unlock").op = "unlock"
  BY DEF Do
<1> QED BY <1>1, <1>3, <1>4, <1>5, <1>6

LEMMA Remaining ==
  /\ From(1) = Update /\ From(13) = <<>>
  /\ \A k \in 1 .. 12 : /\ From(k) \in Seq(Plain \cup Guarded) /\ From(k) # <<>>
                       /\ Head(From(k)) = Update[k] /\ Tail(From(k)) = From(k + 1)
  /\ From(12) \in Seq(Plain)
  /\ \E p \in Seq(Plain) : From(5) = p \o From(11)
<1>1. From(1) = Update
  BY UpdateSteps, SubSeqFull DEF From
<1>2. ASSUME NEW k \in 1 .. 12
      PROVE  /\ From(k) \in Seq(Plain \cup Guarded) /\ From(k) # <<>>
             /\ Head(From(k)) = Update[k] /\ Tail(From(k)) = From(k + 1)
  <2>1. \A i \in k .. 12 : Update[i] \in Plain \cup Guarded
    <3> DEFINE A == Plain \cup Guarded
    <3>1. Update \in Seq(A) /\ Len(Update) = 12
      BY UpdateSteps
    <3> HIDE DEF A
    <3>2. \A i \in 1 .. 12 : Update[i] \in A
      BY <3>1, ElementOfSeq
    <3> QED BY <3>2 DEF A
  <2>2. /\ From(k) \in Seq(Plain \cup Guarded)
        /\ Len(From(k)) = IF k <= 12 THEN 12 - k + 1 ELSE 0
    BY <2>1, SubSeqProperties, k \in Int, 12 \in Int DEF From
  <2>3. Head(From(k)) = Update[k] /\ Tail(From(k)) = From(k + 1)
    BY HeadTailOfSubSeq, UpdateSteps DEF From
  <2> QED BY <2>2, <2>3
<1>3. From(13) = <<>>
  BY UpdateSteps, SubSeqEmpty DEF From
<1>4. From(12) \in Seq(Plain)
  BY UpdateSteps, SubSeqProperties, 12 \in Int DEF From
<1>5. \E p \in Seq(Plain) : From(5) = p \o From(11)
  <2>1. SubSeq(Update, 5, 10) \o SubSeq(Update, 11, 12) = SubSeq(Update, 5, 12)
    BY UpdateSteps, ConcatAdjacentSubSeq
  <2>2. SubSeq(Update, 5, 10) \in Seq(Plain)
    BY UpdateSteps, SubSeqProperties, 5 \in Int, 10 \in Int
  <2> QED BY <2>1, <2>2 DEF From
<1> QED BY <1>1, <1>2, <1>3, <1>4, <1>5

LEMMA Joined ==
  ASSUME NEW p \in Seq(Plain), p # <<>>, NEW q \in Seq(Plain \cup Guarded),
         NEW next \in Seq(Plain)
  PROVE  /\ Head(p \o q) = Head(p) /\ Head(p) \in Plain
         /\ next \o Tail(p) \in Seq(Plain)
         /\ next \o Tail(p \o q) = (next \o Tail(p)) \o q
<1> DEFINE A == Plain \cup Guarded
<1>1. /\ p \in Seq(A) /\ q \in Seq(A) /\ next \in Seq(A)
      /\ Tail(p) \in Seq(Plain) /\ Tail(p) \in Seq(A) /\ Head(p) \in Plain
  BY HeadTailProperties
<1> HIDE DEF A
<1>2. Head(p \o q) = Head(p) /\ Tail(p \o q) = Tail(p) \o q
  <2>1. /\ p \o q \in Seq(A) /\ Len(p \o q) = Len(p) + Len(q) /\ Len(p) \in Nat \ {0}
        /\ Len(q) \in Nat /\ Len(Tail(p)) = Len(p) - 1
        /\ \A i \in 1 .. Len(p) + Len(q) :
             (p \o q)[i] = IF i <= Len(p) THEN p[i] ELSE q[i - Len(p)]
    BY <1>1, ConcatProperties
  <2>2. Head(p \o q) = Head(p)
    BY <1>1, <2>1
  <2>3. /\ Tail(p \o q) \in Seq(A) /\ Len(Tail(p \o q)) = Len(p) + Len(q) - 1
        /\ \A i \in 1 .. Len(p) + Len(q) - 1 : Tail(p \o q)[i] = (p \o q)[i + 1]
    BY <1>1, <2>1, HeadTailProperties
  <2>4. /\ Tail(p) \o q \in Seq(A) /\ Len(Tail(p) \o q) = Len(p) - 1 + Len(q)
        /\ \A i \in 1 .. Len(p) - 1 + Len(q) :
             (Tail(p) \o q)[i] = IF i <= Len(p) - 1 THEN p[i + 1] ELSE q[i - (Len(p) - 1)]
    BY <1>1, <2>1, ConcatProperties, HeadTailProperties
  <2>5. \A i \in 1 .. Len(p) + Len(q) - 1 : Tail(p \o q)[i] = (Tail(p) \o q)[i]
    BY <2>1, <2>3, <2>4
  <2> QED BY <2>1, <2>2, <2>3, <2>4, <2>5, SeqEqual
<1>3. next \o (Tail(p) \o q) = (next \o Tail(p)) \o q
  <2> DEFINE r == Tail(p)
  <2>1. r \in Seq(A) /\ q \in Seq(A) /\ next \in Seq(A)
    BY <1>1
  <2> HIDE DEF r
  <2>2. (next \o r) \o q = next \o (r \o q)
    BY <2>1, ConcatAssociative, SMTT(60)
  <2> QED BY <2>2 DEF r
<1>4. next \o Tail(p) \in Seq(Plain)
  BY <1>1, ConcatProperties
<1> QED BY <1>1, <1>2, <1>3, <1>4

\* WifiTask is at one of the five accesses to the mutex and the flag only at their
\* place in its pass, and no other task ever is.
LEMMA AtTheMutex ==
  ASSUME Sequences, Pass, NEW t \in Tasks, todo[t] # <<>>, Head(todo[t]) \notin Plain
  PROVE  /\ t = "WifiTask"
         /\ \E k \in {1, 2, 3, 4, 11} : /\ todo[t] = From(k)
                                      /\ (held <=> k # 1)
                                      /\ (updating <=> k \in {3, 4})
<1>1. t = "WifiTask"
  BY HeadTailProperties DEF Sequences
<1>2. CASE Outside
  BY <1>1, <1>2, HeadTailProperties DEF Outside
<1>3. CASE Entering
  BY <1>1, <1>3 DEF Entering
<1>4. ASSUME NEW p \in Seq(Plain), NEW k \in {3, 11}, todo[t] = p \o From(k)
      PROVE  todo[t] = From(k)
  <2>1. k \in 1 .. 12
    OBVIOUS
  <2>2. From(k) \in Seq(Plain \cup Guarded)
    BY <2>1, Remaining
  <2>3. <<>> \o From(k) = From(k)
    BY <2>2, ConcatEmptySeq
  <2>4. CASE p = <<>>
    BY <2>3, <2>4, <1>4
  <2>5. CASE p # <<>>
    BY <2>2, <2>5, <1>4, Joined, EmptySeq
  <2> QED BY <2>4, <2>5
<1>5. CASE Inside
  <2>1. todo[t] = From(3) \/ todo[t] = From(4)
    BY <1>1, <1>4, <1>5 DEF Inside
  <2>2. held /\ updating
    BY <1>5 DEF Inside
  <2> QED BY <1>1, <2>1, <2>2
<1>6. CASE Taking
  <2>1. todo[t] = From(11)
    BY <1>1, <1>4, <1>6 DEF Taking
  <2>2. held /\ ~updating
    BY <1>6 DEF Taking
  <2> QED BY <1>1, <2>1, <2>2
<1> QED BY <1>1, <1>2, <1>3, <1>5, <1>6 DEF Pass

LEMMA PlainStep ==
  ASSUME Sequences, Pass, NEW t \in Tasks, todo[t] # <<>>, Head(todo[t]) \in Plain,
         NEW next \in Seq(Plain), Continue(t, next), held' = held, updating' = updating
  PROVE  Sequences' /\ Pass'
<1> DEFINE A == Plain \cup Guarded
<1>1. todo[t] \in Seq(A) /\ Tail(todo[t]) \in Seq(A) /\ next \in Seq(A)
  BY HeadTailProperties DEF Sequences
<1>2. /\ next \o Tail(todo[t]) \in Seq(A)
      /\ todo[t] \in Seq(Plain) => next \o Tail(todo[t]) \in Seq(Plain)
  <2>1. todo[t] \in Seq(Plain) => Tail(todo[t]) \in Seq(Plain)
    BY HeadTailProperties
  <2> HIDE DEF A
  <2> QED BY <1>1, <2>1, ConcatProperties
<1>3. /\ todo' \in [Tasks -> Seq(A)] /\ todo'[t] = next \o Tail(todo[t])
      /\ \A u \in Tasks \ {t} : todo'[u] = todo[u]
  BY <1>2 DEF Sequences, Continue
<1>4. Sequences'
  BY <1>2, <1>3 DEF Sequences
<1>5. CASE t # "WifiTask"
  <2>1. todo'["WifiTask"] = todo["WifiTask"]
    BY <1>3, <1>5 DEF Tasks
  <2> QED BY <1>4, <2>1 DEF Pass, Outside, Entering, Inside, Taking
<1>6. CASE t = "WifiTask"
  <2>1. ASSUME NEW k \in {1, 2, 3, 4, 11} PROVE todo[t] # From(k)
    <3>1. Head(From(k)) = Update[k]
      <4>1. k \in 1 .. 12
        OBVIOUS
      <4> QED BY <4>1, Remaining
    <3>2. Update[k] \notin Plain
      <4>1. Update[k].op \in {"lock", "setUpdating", "serve", "unlock"}
        BY UpdateSteps DEF With
      <4> QED BY <4>1, PlainOps
    <3> QED BY <3>1, <3>2
  <2>2. ASSUME NEW p \in Seq(Plain), NEW k \in {3, 11}, todo[t] = p \o From(k)
        PROVE  \E r \in Seq(Plain) : todo'[t] = r \o From(k)
    <3> k \in 1 .. 12
      OBVIOUS
    <3>1. From(k) \in Seq(Plain \cup Guarded)
      BY Remaining
    <3>2. p # <<>>
      <4>1. <<>> \o From(k) = From(k)
        BY <3>1, ConcatEmptySeq
      <4> QED BY <2>1, <2>2, <4>1
    <3>3. /\ next \o Tail(p) \in Seq(Plain)
          /\ next \o Tail(p \o From(k)) = (next \o Tail(p)) \o From(k)
      BY <3>1, <3>2, Joined
    <3> QED BY <1>3, <2>2, <3>3
  <2>3. CASE Outside
    BY <1>2, <1>3, <1>4, <1>6, <2>3 DEF Outside, Pass
  <2>4. CASE Entering
    BY <1>6, <2>1, <2>4 DEF Entering
  <2>5. CASE Inside
    <3>1. PICK p \in Seq(Plain) : todo["WifiTask"] = p \o From(3)
      BY <1>6, <2>1, <2>5 DEF Inside
    <3>2. \E r \in Seq(Plain) : todo'["WifiTask"] = r \o From(3)
      BY <1>6, <2>2, <3>1
    <3> QED BY <1>4, <2>5, <3>2 DEF Inside, Pass
  <2>6. CASE Taking
    <3>1. PICK p \in Seq(Plain) : todo["WifiTask"] = p \o From(11)
      BY <2>6 DEF Taking
    <3>2. \E r \in Seq(Plain) : todo'["WifiTask"] = r \o From(11)
      BY <1>6, <2>2, <3>1
    <3> QED BY <1>4, <2>6, <3>2 DEF Taking, Pass
  <2> QED BY <1>4, <2>3, <2>4, <2>5, <2>6 DEF Pass
<1> QED BY <1>5, <1>6

LEMMA GuardedStep ==
  ASSUME Sequences, NEW k \in {1, 2, 3, 4, 11}, todo["WifiTask"] = From(k),
         Continue("WifiTask", <<>>),
         held' <=> k # 11, updating' <=> k \in {2, 3}
  PROVE  Sequences' /\ Pass'
<1> DEFINE A == Plain \cup Guarded
<1>1. k \in 1 .. 12 /\ k + 1 \in 1 .. 12
  OBVIOUS
<1>2. From(k + 1) \in Seq(A) /\ Tail(From(k)) = From(k + 1) /\ <<>> \o From(k + 1) = From(k + 1)
  BY <1>1, Remaining, ConcatEmptySeq
<1>3. /\ todo' \in [Tasks -> Seq(A)] /\ todo'["WifiTask"] = From(k + 1)
      /\ \A u \in Tasks \ {"WifiTask"} : todo'[u] = todo[u]
  BY <1>2 DEF Sequences, Continue, Tasks
<1>4. Sequences'
  <2>1. \A u \in Tasks \ {"WifiTask"} : todo'[u] \in Seq(Plain)
    BY <1>3 DEF Sequences
  <2> QED BY <1>3, <2>1 DEF Sequences
<1>5. CASE k = 1
  BY <1>3, <1>4, <1>5 DEF Pass, Entering
<1>6. CASE k \in {2, 3}
  <2>1. k = 2 => todo'["WifiTask"] = <<>> \o From(3) /\ <<>> \in Seq(Plain)
    BY <1>2, <1>3, EmptySeq
  <2>2. k = 3 => todo'["WifiTask"] = From(4)
    BY <1>3
  <2>3. held' /\ updating'
    BY <1>6
  <2>4. \/ \E p \in Seq(Plain) : todo'["WifiTask"] = p \o From(3)
        \/ todo'["WifiTask"] = From(4)
    BY <1>6, <2>1, <2>2
  <2> QED BY <1>4, <2>3, <2>4 DEF Pass, Inside
<1>7. CASE k = 4
  <2>1. held' /\ ~updating' /\ todo'["WifiTask"] = From(5)
    BY <1>3, <1>7
  <2> QED BY <1>4, <2>1, Remaining DEF Pass, Taking
<1>8. CASE k = 11
  BY <1>3, <1>4, <1>8, Remaining DEF Pass, Outside
<1> QED BY <1>4, <1>5, <1>6, <1>7, <1>8
-----------------------------------------------------------------------------
(* What the functions of the frontend are made of.                         *)

LEMMA PlainPrograms ==
  /\ <<>> \in Seq(Plain) /\ <<Do("setup")>> \in Seq(Plain)
  /\ <<Do("setup"), With("setConnected", TRUE)>> \in Seq(Plain)
  /\ <<With("pend", [field |-> "setup", value |-> TRUE])>> \in Seq(Plain)
  /\ \A m \in Modes \cup {"UNDEFINED"} : UpdateMode(m) \in Seq(Plain)
  /\ \A m \in Modes : /\ SetParamMode(m) \subseteq Seq(Plain)
                      /\ <<With("pend", [field |-> "modeUpdate", value |-> TRUE]),
                           With("pend", [field |-> "mode", value |-> m])>> \in Seq(Plain)
  /\ \A c \in ServiceConfigs : SetParamConfig(c) \subseteq Seq(Plain)
  /\ Loads \subseteq Seq(Plain)
<1>1. /\ {Do("clear"), Do("startAP"), Do("begin"), Do("setup"), Do("requestMode"),
           Do("requestSetup")} \subseteq Plain
      /\ With("setConnected", TRUE) \in Plain /\ With("setConnected", FALSE) \in Plain
      /\ \A m \in Modes \cup {"UNDEFINED"} : With("setCurrent", m) \in Plain
      /\ \A m \in Modes : /\ With("storeMode", m) \in Plain
                          /\ With("pend", [field |-> "mode", value |-> m]) \in Plain
      /\ \A c \in ServiceConfigs : With("storeConfig", c) \in Plain
      /\ With("pend", [field |-> "modeUpdate", value |-> TRUE]) \in Plain
      /\ With("pend", [field |-> "setup", value |-> TRUE]) \in Plain
  BY ArePlain
<1>2. ASSUME NEW m \in Modes \cup {"UNDEFINED"} PROVE UpdateMode(m) \in Seq(Plain)
  <2> DEFINE first == <<Do("clear"), With("setConnected", FALSE), With("setCurrent", m)>>
             rest == CASE m = "AP"      -> <<Do("startAP")>>
                       [] m = "STATION" -> <<With("setConnected", FALSE), Do("begin")>>
                       [] OTHER         -> <<>>
  <2>1. first \in Seq(Plain)
    BY <1>1, ShortTuples
  <2>2. rest \in Seq(Plain)
    <3>1. /\ <<Do("startAP")>> \in Seq(Plain)
          /\ <<With("setConnected", FALSE), Do("begin")>> \in Seq(Plain)
          /\ <<>> \in Seq(Plain)
      BY <1>1, ShortTuples, EmptySeq
    <3> QED BY <3>1 DEF Modes
  <2>3. UpdateMode(m) = first \o rest
    BY DEF UpdateMode
  <2> HIDE DEF first, rest
  <2> QED BY <2>1, <2>2, <2>3, ConcatProperties
<1>3. \A m \in Modes : SetParamMode(m) \subseteq Seq(Plain)
  BY <1>1, ShortTuples DEF SetParamMode
<1>4. \A c \in ServiceConfigs : SetParamConfig(c) \subseteq Seq(Plain)
  BY <1>1, ShortTuples DEF SetParamConfig
<1>5. /\ <<>> \in Seq(Plain) /\ <<Do("setup")>> \in Seq(Plain)
      /\ <<Do("setup"), With("setConnected", TRUE)>> \in Seq(Plain)
      /\ <<With("pend", [field |-> "setup", value |-> TRUE])>> \in Seq(Plain)
      /\ \A m \in Modes :
           <<With("pend", [field |-> "modeUpdate", value |-> TRUE]),
             With("pend", [field |-> "mode", value |-> m])>> \in Seq(Plain)
  BY <1>1, ShortTuples, EmptySeq
<1>6. ASSUME NEW p \in [mode : Modes, config : ServiceConfigs] PROVE Load(p) \in Seq(Plain)
  <2>1. With("storeMode", p.mode) \in Plain /\ With("storeConfig", p.config) \in Plain
    BY <1>1
  <2> QED BY <2>1, ShortTuples DEF Load
<1>7. Loads \subseteq Seq(Plain)
  BY <1>6 DEF Loads
<1> QED BY <1>2, <1>3, <1>4, <1>5, <1>7

LEMMA PlainBodies ==
  ASSUME NEW t \in Tasks, NEW body \in Bodies(t)
  PROVE  body \in Seq(Plain)
<1>1. \A w \in Writes : w \in Seq(Plain)
  BY PlainPrograms DEF Writes
<1>2. ASSUME NEW w \in Seq(Plain) PROVE Command(w) \in Seq(Plain)
  <2>1. <<Do("lockCommand")>> \in Seq(Plain) /\ <<Do("unlockCommand")>> \in Seq(Plain)
    BY ArePlain, ShortTuples
  <2>2. <<Do("lockCommand")>> \o w \in Seq(Plain)
    BY <2>1, ConcatProperties
  <2>3. Command(w) = (<<Do("lockCommand")>> \o w) \o <<Do("unlockCommand")>>
    BY DEF Command
  <2> QED BY <2>1, <2>2, <2>3, ConcatProperties
<1> QED BY <1>1, <1>2, PlainPrograms DEF Bodies

-----------------------------------------------------------------------------
(* Every step keeps the invariant.                                         *)

LEMMA WifiStart == WInit => WInv
<1> SUFFICES ASSUME WInit PROVE WInv
  OBVIOUS
<1>1. Typed
  <2>1. NothingPending \in Requested
    BY DEF NothingPending, Requested
  <2>2. /\ param \in [mode : Modes, config : ServiceConfigs] /\ current \in Modes
        /\ services \in ServiceConfigs \cup {NoServices}
    BY ConfigsAssumption DEF WInit
  <2>3. {connected, link, held, updating} \subseteq BOOLEAN
    BY DEF WInit
  <2>4. pending \in Requested /\ got \in Requested /\ command = "free" /\ requests = 0
    BY <2>1 DEF WInit
  <2> QED BY <2>2, <2>3, <2>4, RequestsAssumption DEF Typed
<1>2. <<>> \in Seq(Plain) /\ <<>> \in Seq(Plain \cup Guarded)
  BY EmptySeq
<1>3. Sequences
  BY <1>2 DEF WInit, Sequences
<1>4. Outside
  BY <1>2 DEF WInit, Outside, Tasks
<1> QED BY <1>1, <1>3, <1>4 DEF WInv, Pass

\* An access that is no part of the pass is taken from the head of any task.
LEMMA Heads ==
  ASSUME WInv, NEW t \in Tasks, NEW op, At(t, op)
  PROVE  /\ todo[t] # <<>>
         /\ op \notin {"lock", "unlock", "serve", "setUpdating"} =>
              Head(todo[t]) \in Plain /\ Head(todo[t]).op = op
         /\ op \in {"lock", "unlock", "serve", "setUpdating"} =>
              /\ t = "WifiTask"
              /\ \E k \in {1, 2, 3, 4, 11} : /\ todo[t] = From(k) /\ Head(todo[t]) = Update[k]
                                           /\ Update[k].op = op
                                           /\ (held <=> k # 1)
                                           /\ (updating <=> k \in {3, 4})
<1>1. todo[t] # <<>> /\ Head(todo[t]).op = op
  BY DEF At
<1>2. todo[t] \in Seq(Plain \cup Guarded)
  BY DEF WInv, Sequences
<1>3. Head(todo[t]) \in Plain \/ Head(todo[t]) \in Guarded
  <2> DEFINE A == Plain \cup Guarded
  <2>1. Head(todo[t]) \in A
    <3> HIDE DEF A
    <3> QED BY <1>1, <1>2, HeadTailProperties DEF A
  <2> QED BY <2>1
<1>4. CASE Head(todo[t]) \in Plain
  BY <1>1, <1>4, PlainOps
<1>5. CASE Head(todo[t]) \notin Plain
  <2>1. /\ t = "WifiTask"
        /\ \E k \in {1, 2, 3, 4, 11} : /\ todo[t] = From(k)
                                     /\ (held <=> k # 1)
                                     /\ (updating <=> k \in {3, 4})
    BY <1>1, <1>5, AtTheMutex DEF WInv
  <2>2. \A k \in {1, 2, 3, 4, 11} : Head(From(k)) = Update[k]
    <3>1. \A k \in {1, 2, 3, 4, 11} : k \in 1 .. 12
      OBVIOUS
    <3> QED BY <3>1, Remaining
  <2>3. op \in {"lock", "unlock", "serve", "setUpdating"}
    BY <1>1, <1>3, <1>5, GuardedOps
  <2> QED BY <1>1, <2>1, <2>2, <2>3
<1> QED BY <1>4, <1>5

LEMMA PassInv ==
  ASSUME WInv, NEW t \in Tasks,
         LockBackends(t) \/ UnlockBackends(t) \/ SetUpdating(t) \/ ServeNoMore(t)
  PROVE  WInv'
<1>1. PICK op \in {"lock", "unlock", "setUpdating", "serve"} :
        /\ At(t, op) /\ Continue(t, <<>>)
        /\ op = "lock" => ~held /\ held' = TRUE /\ updating' = updating
        /\ op = "unlock" => held' = FALSE /\ updating' = updating
        /\ op = "setUpdating" => updating' = Arg(t) /\ held' = held
        /\ op = "serve" => held' = held /\ updating' = updating
        /\ UNCHANGED <<param, net, pending, got, command, requests>>
  BY DEF LockBackends, UnlockBackends, SetUpdating, ServeNoMore, pass
<1>2. /\ t = "WifiTask"
      /\ \E k \in {1, 2, 3, 4, 11} : /\ todo[t] = From(k) /\ Head(todo[t]) = Update[k]
                                   /\ Update[k].op = op
                                   /\ (held <=> k # 1)
                                   /\ (updating <=> k \in {3, 4})
  BY <1>1, Heads
<1>3. PICK k \in {1, 2, 3, 4, 11} : /\ todo["WifiTask"] = From(k)
                                  /\ Head(todo["WifiTask"]) = Update[k]
                                  /\ Update[k].op = op
                                  /\ (held <=> k # 1)
                                  /\ (updating <=> k \in {3, 4})
  BY <1>2
<1>4. /\ k = 1 => op = "lock"
      /\ k = 2 => op = "setUpdating" /\ Arg(t) = TRUE
      /\ k = 3 => op = "serve"
      /\ k = 4 => op = "setUpdating" /\ Arg(t) = FALSE
      /\ k = 11 => op = "unlock"
  BY <1>2, <1>3, UpdateSteps DEF With, Arg
<1>5. (held' <=> k # 11) /\ (updating' <=> k \in {2, 3})
  BY <1>1, <1>3, <1>4
<1>6. Sequences' /\ Pass'
  BY <1>1, <1>2, <1>3, <1>5, GuardedStep DEF WInv
<1>7. held' \in BOOLEAN /\ updating' \in BOOLEAN
  BY <1>1, <1>3, <1>4 DEF WInv, Typed
<1>8. Typed'
  BY <1>1, <1>7 DEF WInv, Typed, net
<1> QED BY <1>6, <1>8 DEF WInv

LEMMA Elsewhere ==
  ASSUME WInv, NEW t \in Tasks, NEW op, At(t, op),
         op \notin {"lock", "unlock", "serve", "setUpdating"},
         NEW next \in Seq(Plain), Continue(t, next),
         held' = held, updating' = updating, Typed'
  PROVE  WInv'
<1>1. todo[t] # <<>> /\ Head(todo[t]) \in Plain
  BY Heads
<1> QED BY <1>1, PlainStep DEF WInv

LEMMA Arguments ==
  ASSUME WInv, NEW t \in Tasks, NEW op, At(t, op),
         op \notin {"lock", "unlock", "serve", "setUpdating"}
  PROVE  /\ op = "setConnected" => Arg(t) \in BOOLEAN
         /\ op = "setCurrent" => Arg(t) \in Modes \cup {"UNDEFINED"}
         /\ op = "storeMode" => Arg(t) \in Modes
         /\ op = "storeConfig" => Arg(t) \in ServiceConfigs
         /\ op \in {"take", "drop"} => Arg(t) \in Fields
         /\ op = "pend" =>
              \/ Arg(t).field \in {"modeUpdate", "setup"} /\ Arg(t).value = TRUE
              \/ Arg(t).field = "mode" /\ Arg(t).value \in Modes
<1>1. Head(todo[t]) \in Plain /\ Head(todo[t]).op = op
  BY Heads
<1> QED BY <1>1, PlainOps DEF Arg

LEMMA TakenInv ==
  ASSUME WInv, NEW t \in Tasks, Take(t) \/ Drop(t) \/ Apply(t) \/ Pend(t)
  PROVE  WInv'
<1>1. CASE Take(t)
  <2>1. got' \in Requested
    BY <1>1, Arguments DEF Take, WInv, Typed, Requested, Fields
  <2>2. Typed'
    BY <1>1, <2>1 DEF Take, WInv, Typed, net
  <2> QED BY <1>1, <2>2, PlainPrograms, Elsewhere DEF Take
<1>2. CASE Drop(t)
  <2>1. pending' \in Requested
    <3>1. Arg(t) \in Fields /\ pending' = [pending EXCEPT ![Arg(t)] = NothingPending[Arg(t)]]
      BY <1>2, Arguments DEF Drop
    <3>2. CASE Arg(t) = "mode"
      BY <3>1, <3>2 DEF WInv, Typed, Requested, NothingPending
    <3>3. CASE Arg(t) \in {"modeUpdate", "setup"}
      <4>1. NothingPending[Arg(t)] = FALSE
        BY <3>3 DEF NothingPending
      <4> QED BY <3>1, <3>3, <4>1 DEF WInv, Typed, Requested
    <3> QED BY <3>1, <3>2, <3>3 DEF Fields
  <2>2. Typed'
    BY <1>2, <2>1 DEF Drop, WInv, Typed, net
  <2> QED BY <1>2, <2>2, PlainPrograms, Elsewhere DEF Drop
<1>3. CASE Apply(t)
  <2> DEFINE next == CASE got.modeUpdate -> UpdateMode(got.mode)
                       [] ~got.modeUpdate /\ got.setup /\ NetworkServicesActive
                             -> <<Do("setup")>>
                       [] OTHER -> <<>>
  <2>1. next \in Seq(Plain)
    <3>1. UpdateMode(got.mode) \in Seq(Plain)
      BY PlainPrograms DEF WInv, Typed, Requested
    <3> QED BY <3>1, PlainPrograms
  <2>2. At(t, "apply") /\ Continue(t, next) /\ held' = held /\ updating' = updating
    BY <1>3 DEF Apply
  <2>3. Typed'
    <3>1. NothingPending \in Requested
      BY DEF NothingPending, Requested
    <3> QED BY <1>3, <3>1 DEF Apply, WInv, Typed, net
  <2> HIDE DEF next
  <2> QED BY <2>1, <2>2, <2>3, Elsewhere
<1>4. CASE Pend(t)
  <2>1. pending' \in Requested
    BY <1>4, Arguments DEF Pend, WInv, Typed, Requested
  <2>2. Typed'
    BY <1>4, <2>1 DEF Pend, WInv, Typed, net
  <2> QED BY <1>4, <2>2, PlainPrograms, Elsewhere DEF Pend
<1> QED BY <1>1, <1>2, <1>3, <1>4

LEMMA WrittenInv ==
  ASSUME WInv, NEW t \in Tasks,
         \/ StoreMode(t) \/ StoreConfig(t)
         \/ RequestModeUpdate(t) \/ RequestNetworkServicesSetup(t)
         \/ LockCommand(t) \/ UnlockCommand(t)
  PROVE  WInv'
<1>1. CASE StoreMode(t)
  <2>1. Typed'
    BY <1>1, Arguments DEF StoreMode, WInv, Typed, net, pass
  <2> QED BY <1>1, <2>1, PlainPrograms, Elsewhere DEF StoreMode, pass
<1>2. CASE StoreConfig(t)
  <2>1. Typed'
    BY <1>2, Arguments DEF StoreConfig, WInv, Typed, net, pass
  <2> QED BY <1>2, <2>1, PlainPrograms, Elsewhere DEF StoreConfig, pass
<1>3. CASE RequestModeUpdate(t)
  <2> DEFINE next == IF updating THEN <<With("pend", [field |-> "modeUpdate", value |-> TRUE]),
                                        With("pend", [field |-> "mode", value |-> param.mode])>>
                                 ELSE UpdateMode(param.mode)
  <2>1. next \in Seq(Plain)
    <3>1. param.mode \in Modes
      BY DEF WInv, Typed
    <3> QED BY <3>1, PlainPrograms
  <2>2. At(t, "requestMode") /\ Continue(t, next) /\ held' = held /\ updating' = updating
    BY <1>3 DEF RequestModeUpdate, pass
  <2>3. Typed'
    BY <1>3 DEF RequestModeUpdate, WInv, Typed, net, pass
  <2> HIDE DEF next
  <2> QED BY <2>1, <2>2, <2>3, Elsewhere
<1>4. CASE RequestNetworkServicesSetup(t)
  <2> DEFINE next == CASE ~NetworkServicesActive -> <<>>
                       [] NetworkServicesActive /\ updating
                             -> <<With("pend", [field |-> "setup", value |-> TRUE])>>
                       [] OTHER -> <<Do("setup")>>
  <2>1. next \in Seq(Plain)
    BY PlainPrograms
  <2>2. At(t, "requestSetup") /\ Continue(t, next) /\ held' = held /\ updating' = updating
    BY <1>4 DEF RequestNetworkServicesSetup, pass
  <2>3. Typed'
    BY <1>4 DEF RequestNetworkServicesSetup, WInv, Typed, net, pass
  <2> HIDE DEF next
  <2> QED BY <2>1, <2>2, <2>3, Elsewhere
<1>5. CASE LockCommand(t) \/ UnlockCommand(t)
  <2>1. Typed'
    BY <1>5 DEF LockCommand, UnlockCommand, WInv, Typed, net, pass
  <2> QED BY <1>5, <2>1, PlainPrograms, Elsewhere DEF LockCommand, UnlockCommand, pass
<1> QED BY <1>1, <1>2, <1>3, <1>4, <1>5

LEMMA NetworkInv ==
  ASSUME WInv, NEW t \in Tasks,
         \/ ClearBackends(t) \/ SetupNetworkServices(t) \/ SetConnected(t)
         \/ SetCurrent(t) \/ SetupAP(t) \/ BeginStation(t)
  PROVE  WInv'
<1>1. CASE ClearBackends(t)
  <2>1. Typed'
    BY <1>1 DEF ClearBackends, WInv, Typed, pass
  <2> QED BY <1>1, <2>1, PlainPrograms, Elsewhere DEF ClearBackends, pass
<1>2. CASE SetupNetworkServices(t)
  <2>1. Typed'
    BY <1>2 DEF SetupNetworkServices, WInv, Typed, pass
  <2> QED BY <1>2, <2>1, PlainPrograms, Elsewhere DEF SetupNetworkServices, pass
<1>3. CASE SetConnected(t)
  <2>1. connected' \in BOOLEAN
    BY <1>3, Arguments DEF SetConnected
  <2>2. Typed'
    BY <1>3, <2>1 DEF SetConnected, WInv, Typed, pass
  <2> QED BY <1>3, <2>2, PlainPrograms, Elsewhere DEF SetConnected, pass
<1>4. CASE SetCurrent(t)
  <2>1. Typed'
    BY <1>4, Arguments DEF SetCurrent, WInv, Typed, pass
  <2> QED BY <1>4, <2>1, PlainPrograms, Elsewhere DEF SetCurrent, pass
<1>5. CASE SetupAP(t)
  <2>1. Typed'
    BY <1>5 DEF SetupAP, WInv, Typed, pass
  <2>2. PICK next \in {<<Do("setup")>>, <<>>} : Continue(t, next)
    BY <1>5 DEF SetupAP
  <2>3. next \in Seq(Plain)
    BY PlainPrograms
  <2> QED BY <1>5, <2>1, <2>2, <2>3, Elsewhere DEF SetupAP, pass
<1>6. CASE BeginStation(t)
  <2>1. Typed'
    BY <1>6 DEF BeginStation, WInv, Typed, pass
  <2> QED BY <1>6, <2>1, PlainPrograms, Elsewhere DEF BeginStation, pass
<1> QED BY <1>1, <1>2, <1>3, <1>4, <1>5, <1>6

LEMMA StartUpdateInv ==
  ASSUME WInv, StartUpdate
  PROVE  WInv'
<1>1. ~held /\ ~updating
  <2>1. \A k \in {1, 2, 3, 4, 11} : k \in 1 .. 12
    OBVIOUS
  <2>2. \A k \in {1, 2, 3, 4, 11} : From(k) # <<>> /\ From(k) \in Seq(Plain \cup Guarded)
    BY <2>1, Remaining
  <2>3. ASSUME NEW p \in Seq(Plain), NEW k \in {3, 11} PROVE p \o From(k) # <<>>
    <3> DEFINE A == Plain \cup Guarded
    <3>1. p \in Seq(A)
      BY SeqMonotonic
    <3>2. From(k) \in Seq(A) /\ From(k) # <<>>
      BY <2>2
    <3> HIDE DEF A
    <3> QED BY <3>1, <3>2, ConcatEqualIffEmpty
  <2>4. todo["WifiTask"] = <<>>
    BY DEF StartUpdate
  <2>5. ~Entering /\ ~Inside /\ ~Taking
    BY <2>2, <2>3, <2>4 DEF Entering, Inside, Taking
  <2> QED BY <2>5 DEF WInv, Pass, Outside
<1>2. /\ todo' = [todo EXCEPT !["WifiTask"] = From(1)]
      /\ From(1) \in Seq(Plain \cup Guarded) /\ "WifiTask" \in Tasks
  BY Remaining, UpdateSteps DEF StartUpdate, Tasks
<1>3. Sequences'
  BY <1>2 DEF WInv, Sequences
<1>4. todo'["WifiTask"] = From(1) /\ ~held' /\ ~updating'
  BY <1>1, <1>2 DEF WInv, Sequences, StartUpdate, pass
<1>5. Pass'
  BY <1>4 DEF Pass, Entering
<1>6. Typed'
  BY DEF StartUpdate, WInv, Typed, net, pass
<1> QED BY <1>3, <1>5, <1>6 DEF WInv

LEMMA LinkInv ==
  ASSUME WInv, LinkFound \/ LinkLost \/ Reach
  PROVE  WInv'
<1>1. CASE LinkFound
  <2> DEFINE next == <<Do("setup"), With("setConnected", TRUE)>>
  <2>1. /\ todo' = [todo EXCEPT !["WifiConnTask"] = next]
        /\ next \in Seq(Plain) /\ next \in Seq(Plain \cup Guarded)
        /\ "WifiConnTask" \in Tasks /\ "WifiTask" \in Tasks /\ "WifiConnTask" # "WifiTask"
    <3>1. next \in Seq(Plain)
      BY PlainPrograms
    <3>2. next \in Seq(Plain \cup Guarded)
      BY <3>1, SeqMonotonic
    <3> QED BY <1>1, <3>1, <3>2 DEF LinkFound, Tasks
  <2>2. UNCHANGED <<param, net, pass, command, requests>>
    BY <1>1 DEF LinkFound
  <2> HIDE DEF next
  <2>3. Sequences'
    BY <2>1 DEF WInv, Sequences
  <2>4. todo'["WifiTask"] = todo["WifiTask"] /\ held' = held /\ updating' = updating
    BY <2>1, <2>2 DEF WInv, Sequences, pass
  <2>5. Pass'
    BY <2>4 DEF WInv, Pass, Outside, Entering, Inside, Taking
  <2>6. Typed'
    BY <2>2 DEF WInv, Typed, net, pass
  <2> QED BY <2>3, <2>5, <2>6 DEF WInv
<1>2. CASE LinkLost \/ Reach
  <2>1. UNCHANGED <<param, current, services, pass, command, todo, requests>>
        /\ connected' \in BOOLEAN /\ link' \in BOOLEAN
    BY <1>2 DEF LinkLost, Reach, WInv, Typed
  <2>2. Typed' /\ Sequences'
    BY <2>1 DEF WInv, Typed, Sequences, pass
  <2>3. Pass'
    BY <2>1 DEF WInv, Pass, Outside, Entering, Inside, Taking, pass
  <2> QED BY <2>2, <2>3 DEF WInv
<1> QED BY <1>1, <1>2

LEMMA RequestInv ==
  ASSUME WInv, NEW t \in Tasks, Request(t)
  PROVE  WInv'
<1> DEFINE A == Plain \cup Guarded
<1>1. PICK body \in Bodies(t) : todo' = [todo EXCEPT ![t] = body \o @]
  BY DEF Request
<1>2. body \in Seq(Plain) /\ body \in Seq(A) /\ todo[t] \in Seq(A)
  BY <1>1, PlainBodies DEF WInv, Sequences
<1>3. /\ body \o todo[t] \in Seq(A)
      /\ todo[t] \in Seq(Plain) => body \o todo[t] \in Seq(Plain)
  <2> HIDE DEF A
  <2> QED BY <1>2, ConcatProperties
<1>4. /\ todo' \in [Tasks -> Seq(A)] /\ todo'[t] = body \o todo[t]
      /\ \A u \in Tasks \ {t} : todo'[u] = todo[u]
  BY <1>1, <1>3 DEF WInv, Sequences
<1>5. Sequences'
  BY <1>3, <1>4 DEF WInv, Sequences
<1>6. UNCHANGED <<param, net, pass, command>> /\ requests' \in 0 .. MaxRequests
  BY RequestsAssumption DEF Request, WInv, Typed
<1>7. Typed'
  BY <1>6 DEF WInv, Typed, net, pass
<1>8. held' = held /\ updating' = updating
  BY <1>6 DEF pass
<1>9. CASE t = "WifiTask"
  <2>1. At(t, "serve")
    BY <1>9, ConsolesAssumption DEF Request, Accepts
  <2>2. \E k \in {1, 2, 3, 4, 11} : /\ todo[t] = From(k) /\ Update[k].op = "serve"
                                 /\ (held <=> k # 1) /\ (updating <=> k \in {3, 4})
    BY <2>1, Heads
  <2>3. todo[t] = From(3) /\ held /\ updating
    BY <2>2, UpdateSteps DEF With
  <2> QED BY <1>2, <1>4, <1>5, <1>7, <1>8, <1>9, <2>3 DEF WInv, Pass, Inside
<1>10. CASE t # "WifiTask"
  <2>1. todo'["WifiTask"] = todo["WifiTask"]
    BY <1>4, <1>10 DEF Tasks
  <2>2. Pass'
    BY <1>8, <2>1 DEF WInv, Pass, Outside, Entering, Inside, Taking
  <2> QED BY <1>5, <1>7, <2>2 DEF WInv
<1> QED BY <1>9, <1>10

-----------------------------------------------------------------------------
THEOREM WifiInvariance == WSpec => []WInv
<1>1. WInv /\ [WNext]_wvars => WInv'
  <2>1. ASSUME WInv, UNCHANGED wvars PROVE WInv'
    <3>1. Typed' /\ Sequences'
      BY <2>1 DEF wvars, WInv, Typed, Sequences
    <3>2. Pass'
      BY <2>1 DEF wvars, WInv, Pass, Outside, Entering, Inside, Taking
    <3> QED BY <3>1, <3>2 DEF WInv
  <2>2. ASSUME WInv, NEW t \in Tasks, Step(t) PROVE WInv'
    BY <2>2, PassInv, TakenInv, WrittenInv, NetworkInv DEF Step
  <2> QED BY <2>1, <2>2, StartUpdateInv, LinkInv, RequestInv DEF WNext
<1> QED BY WifiStart, <1>1, PTL DEF WSpec

\* No service is deleted or replaced while WifiTask is inside one of them, for any
\* number of consoles, of requests and of values of the parameters: only the loop
\* over m_Backends sets m_updatingBackends, it holds the mutex for as long as the
\* flag is set, and whoever deletes or builds services takes the mutex.
THEOREM ServicesOutliveTheirPass == WSpec => DeleteOnlyOutside
<1>1. WInv => (updating => held)
  BY DEF WInv, Pass, Outside, Entering, Inside, Taking
<1>2. ASSUME WInv, [WNext]_wvars, services' # services PROVE ~held
  <2>1. ASSUME NEW t \in Tasks, Step(t) PROVE ~held
    <3>1. ClearBackends(t) \/ SetupNetworkServices(t)
      BY <1>2, <2>1 DEF Step, LockBackends, UnlockBackends, SetUpdating, ServeNoMore, Take,
           Drop, Apply, StoreMode, StoreConfig, RequestModeUpdate,
           RequestNetworkServicesSetup, Pend, SetConnected, SetCurrent, SetupAP,
           BeginStation, LockCommand, UnlockCommand, net
    <3> QED BY <3>1 DEF ClearBackends, SetupNetworkServices
  <2>2. \E t \in Tasks : Step(t)
    BY <1>2 DEF WNext, wvars, StartUpdate, LinkFound, LinkLost, Reach, Request, net
  <2> QED BY <2>1, <2>2
<1>3. WInv /\ [WNext]_wvars => [services' # services => ~updating]_wvars
  BY <1>1, <1>2
<1> QED BY WifiInvariance, <1>3, PTL DEF WSpec, DeleteOnlyOutside
==============================================================================
