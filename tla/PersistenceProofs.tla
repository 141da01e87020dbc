------------------------- MODULE PersistenceProofs --------------------------
(***************************************************************************)
(* Proofs about what a power loss leaves.  First AnchorModel, for any      *)
(* pairs, any active ones for each count, any number of samples, any       *)
(* health window and whatever the flash does: a locked model is whole, one *)
(* that is reported persisted is the one on flash, and a value of the      *)
(* wrong domain is caught by its health window.  Then ParamStore, for any  *)
(* groups, values and names: the active configuration is listed, a load    *)
(* that succeeded is in force, one that failed has changed nothing, and no *)
(* power loss brings up a mixture.                                         *)
(***************************************************************************)
EXTENDS AnchorModel, ParamStore, FiniteSetTheorems, SequenceTheorems, TLAPS

-----------------------------------------------------------------------------
(* The anchor model (AnchorModel).                                         *)

Packets == [pair : Pairs, mode : Modes, domain : Domains, count : Counts,
            overtaken : BOOLEAN]

\* The state of the class, as its helpers see it, and what they keep true of it.
States == [m : Model, p : [Pairs -> Pair]]
Files == File \cup {NoFile}

Whole(s) == s.m.locked => /\ s.m.modelCount = s.m.active
                          /\ \A i \in Pairs : s.p[i].locked <=> i \in Active(s.m)
Stored(s, f) ==
    s.m.persisted => /\ f # NoFile
                     /\ f.count = s.m.modelCount /\ f.version = s.m.version
                     /\ \A i \in Active(s.m) : f.tof[i] = s.p[i].tof
Collecting(s) == s.m.collect = "ACTIVE" => ~s.m.locked
Windowed(s) == \A i \in Pairs : s.p[i].received < HealthWindow

Good(s, f) == /\ s \in States /\ f \in Files
              /\ Whole(s) /\ Stored(s, f) /\ Collecting(s) /\ Windowed(s)

\* A replacement by a wrong value in a row is a bad residual in the window.
Counted == \A i \in Pairs :
             /\ wrong[i] <= pair[i].received
             /\ wrong[i] > 0 => pair[i].bad > 0 /\ model.collect # "ACTIVE"

Inv == /\ params \in Params
       /\ packet \in Packets \cup {NoPacket}
       /\ wrong \in [Pairs -> Nat]
       /\ Good(State, file)
       /\ Counted

-----------------------------------------------------------------------------
(* The helpers keep a good state good.                                     *)

LEMMA ActiveType ==
  ASSUME NEW m \in Model
  PROVE  Active(m) \subseteq Pairs
BY CountsAssumption DEF Active, Model

LEMMA ModelFields ==
  ASSUME NEW s \in States
  PROVE  /\ s.m.mode \in Modes /\ s.m.domain \in Domains /\ s.m.active \in Counts
         /\ s.m.collect \in Collects /\ s.m.started \in BOOLEAN /\ s.m.locked \in BOOLEAN
         /\ s.m.modelCount \in Counts \cup {0} /\ s.m.persisted \in BOOLEAN
         /\ s.m.fallback \in BOOLEAN /\ s.m.version \in Nat
         /\ s.m \in Model /\ s.p \in [Pairs -> Pair]
         /\ s = [m |-> s.m, p |-> s.p]
BY DEF States, Model

LEMMA PairFields ==
  ASSUME NEW q \in Pair
  PROVE  /\ q.samples \in Seq(Domains) /\ q.locked \in BOOLEAN /\ q.tof \in Tofs
         /\ q.healthy \in BOOLEAN /\ q.received \in Nat /\ q.bad \in Nat
BY DEF Pair

LEMMA PairHelpers ==
  ASSUME NEW p \in [Pairs -> Pair]
  PROVE  /\ Unlocked(p) \in [Pairs -> Pair]
         /\ ResetHealth(p) \in [Pairs -> Pair]
         /\ ClearSamples(p) \in [Pairs -> Pair]
         /\ \A i \in Pairs :
              /\ ~Unlocked(p)[i].locked
              /\ Unlocked(p)[i].received = p[i].received
              /\ Unlocked(p)[i].bad = p[i].bad
              /\ ResetHealth(p)[i].locked = p[i].locked
              /\ ResetHealth(p)[i].tof = p[i].tof
              /\ ResetHealth(p)[i].received = 0
              /\ ClearSamples(p)[i].received = p[i].received
<1>1. \A i \in Pairs : p[i] \in Pair
  OBVIOUS
<1>2. NoTof \in Tofs /\ <<>> \in Seq(Domains)
  BY DEF Tofs
<1>3. \A i \in Pairs : /\ [p[i] EXCEPT !.locked = FALSE, !.tof = NoTof] \in Pair
                       /\ [p[i] EXCEPT !.locked = FALSE, !.tof = NoTof].locked = FALSE
                       /\ [p[i] EXCEPT !.locked = FALSE, !.tof = NoTof].received = p[i].received
                       /\ [p[i] EXCEPT !.locked = FALSE, !.tof = NoTof].bad = p[i].bad
  BY <1>1, <1>2 DEF Pair
<1>4. \A i \in Pairs :
        /\ [p[i] EXCEPT !.healthy = TRUE, !.received = 0, !.bad = 0] \in Pair
        /\ [p[i] EXCEPT !.healthy = TRUE, !.received = 0, !.bad = 0].locked = p[i].locked
        /\ [p[i] EXCEPT !.healthy = TRUE, !.received = 0, !.bad = 0].tof = p[i].tof
        /\ [p[i] EXCEPT !.healthy = TRUE, !.received = 0, !.bad = 0].received = 0
  BY <1>1 DEF Pair
<1>5. \A i \in Pairs : /\ [p[i] EXCEPT !.samples = <<>>] \in Pair
                       /\ [p[i] EXCEPT !.samples = <<>>].received = p[i].received
  BY <1>1, <1>2 DEF Pair
<1> QED BY <1>3, <1>4, <1>5 DEF Unlocked, ResetHealth, ClearSamples

LEMMA ClearLockedModelGood ==
  ASSUME NEW s \in States, NEW f \in Files, Windowed(s)
  PROVE  /\ Good(ClearLockedModel(s), f)
         /\ ClearLockedModel(s).m.collect = s.m.collect
         /\ ClearLockedModel(s).m.active = s.m.active
         /\ \A i \in Pairs : /\ ClearLockedModel(s).p[i].received = s.p[i].received
                             /\ ClearLockedModel(s).p[i].bad = s.p[i].bad
<1> DEFINE c == ClearLockedModel(s)
<1>1. c = [m |-> [s.m EXCEPT !.locked = FALSE, !.persisted = FALSE,
                             !.fallback = FALSE, !.modelCount = 0],
           p |-> Unlocked(s.p)]
  BY DEF ClearLockedModel
<1>2. c.m \in Model /\ c.m.locked = FALSE /\ c.m.persisted = FALSE
      /\ c.m.collect = s.m.collect /\ c.m.active = s.m.active
  <2> DEFINE e == [s.m EXCEPT !.locked = FALSE, !.persisted = FALSE,
                              !.fallback = FALSE, !.modelCount = 0]
  <2>1. s.m \in Model
    BY DEF States
  <2>2. e \in Model /\ e.locked = FALSE /\ e.persisted = FALSE
        /\ e.collect = s.m.collect /\ e.active = s.m.active
    BY <2>1 DEF Model
  <2>3. c.m = e
    BY <1>1
  <2> QED BY <2>2, <2>3
<1>3. c.p = Unlocked(s.p) /\ s.p \in [Pairs -> Pair]
  BY <1>1 DEF States
<1>4. /\ c.p \in [Pairs -> Pair]
      /\ \A i \in Pairs : c.p[i].received = s.p[i].received /\ c.p[i].bad = s.p[i].bad
  BY <1>3, PairHelpers
<1>5. c \in States
  BY <1>1, <1>2, <1>4 DEF States
<1> QED BY <1>2, <1>4, <1>5 DEF Good, Whole, Stored, Collecting, Windowed

LEMMA SetActiveAnchorCountGood ==
  ASSUME NEW s, NEW f, Good(s, f), NEW count \in Counts
  PROVE  LET t == SetActiveAnchorCount(s, count)
         IN  /\ Good(t, f)
             /\ t.m.active = count
             /\ t.m.collect = s.m.collect
             /\ \A i \in Pairs : t.p[i].received = s.p[i].received /\ t.p[i].bad = s.p[i].bad
             /\ count = s.m.active => t = s
<1> DEFINE t == SetActiveAnchorCount(s, count)
           u == [s EXCEPT !.m.active = count]
<1>1. CASE count = s.m.active
  BY <1>1 DEF SetActiveAnchorCount
<1>2. CASE count # s.m.active
  <2>1. s \in States /\ f \in Files /\ Windowed(s)
    BY DEF Good
  <2>2. u = [m |-> [s.m EXCEPT !.active = count], p |-> s.p]
    BY <2>1 DEF States
  <2>3. [s.m EXCEPT !.active = count] \in Model
    BY <2>1 DEF States, Model
  <2>4. /\ u \in States /\ u.p = s.p /\ u.m.active = count
        /\ u.m.collect = s.m.collect /\ u.m.locked = s.m.locked
        /\ u.m.persisted = s.m.persisted
    BY <2>1, <2>2, <2>3 DEF States, Model
  <2> HIDE DEF u
  <2>5. CASE s.m.locked \/ s.m.persisted
    <3>1. t = ClearLockedModel(u)
      BY <1>2, <2>5 DEF SetActiveAnchorCount, u
    <3>2. Windowed(u)
      BY <2>1, <2>4 DEF Windowed
    <3> QED BY <1>2, <2>1, <2>4, <3>1, <3>2, ClearLockedModelGood
  <2>6. CASE ~(s.m.locked \/ s.m.persisted)
    <3>1. t = u
      BY <1>2, <2>6 DEF SetActiveAnchorCount, u
    <3>2. Good(u, f)
      BY <2>1, <2>4, <2>6 DEF Good, Whole, Stored, Collecting, Windowed
    <3> QED BY <1>2, <2>4, <3>1, <3>2
  <2> QED BY <2>5, <2>6
<1> QED BY <1>1, <1>2

\* An estimate of enough samples is of one domain, or of both.
LEMMA EstimateType ==
  ASSUME NEW samples \in Seq(Domains), Len(samples) >= MinSamples
  PROVE  RobustEstimate(samples) \in Tofs
<1>1. samples[1] \in Domains
  BY BoundsAssumption
<1> QED BY <1>1 DEF RobustEstimate, Tofs

LEMMA LockedByGood ==
  ASSUME NEW t \in States, Windowed(t), EnoughSamples(t), NEW w \in Writes,
         file \in Files
  PROVE  /\ Good(LockedBy(t, w), Persisted(LockedBy(t, w), w))
         /\ LockedBy(t, w).m.collect = "DONE"
         /\ LockedBy(t, w).m.active = t.m.active
<1> DEFINE b == LockedBy(t, w)
           f == Persisted(b, w)
           q == [i \in Pairs |->
              IF i \in Active(t.m)
              THEN [t.p[i] EXCEPT !.locked = TRUE, !.tof = RobustEstimate(t.p[i].samples)]
              ELSE [t.p[i] EXCEPT !.locked = FALSE, !.tof = NoTof]]
<1>1. t.m \in Model /\ t.p \in [Pairs -> Pair] /\ Active(t.m) \subseteq Pairs
  BY ActiveType DEF States
<1>2. /\ q \in [Pairs -> Pair]
      /\ \A i \in Pairs : q[i].locked <=> i \in Active(t.m)
  <2>1. ASSUME NEW i \in Pairs
        PROVE  q[i] \in Pair /\ (q[i].locked <=> i \in Active(t.m))
    <3>1. t.p[i] \in Pair
      BY <1>1
    <3>2. CASE i \in Active(t.m)
      <4>1. q[i] = [t.p[i] EXCEPT !.locked = TRUE, !.tof = RobustEstimate(t.p[i].samples)]
        BY <3>2
      <4>2. RobustEstimate(t.p[i].samples) \in Tofs
        BY <3>1, <3>2, EstimateType DEF EnoughSamples, Pair
      <4> QED BY <3>1, <3>2, <4>1, <4>2 DEF Pair
    <3>3. CASE i \notin Active(t.m)
      <4>1. q[i] = [t.p[i] EXCEPT !.locked = FALSE, !.tof = NoTof]
        BY <3>3
      <4> QED BY <3>1, <3>3, <4>1 DEF Pair, Tofs
    <3> QED BY <3>2, <3>3
  <2> QED BY <2>1
<1> HIDE DEF q
<1> DEFINE e == [t.m EXCEPT !.locked = TRUE, !.modelCount = t.m.active,
                            !.fallback = FALSE, !.collect = "DONE", !.version = @ + 1,
                            !.persisted = w = "written"]
<1>3. b = [m |-> e, p |-> ResetHealth(q)]
  BY DEF LockedBy, q
<1>4. /\ e \in Model /\ e.locked /\ e.collect = "DONE" /\ e.active = t.m.active
      /\ e.modelCount = t.m.active /\ (e.persisted <=> w = "written")
  <2>1. (w = "written") \in BOOLEAN
    OBVIOUS
  <2> DEFINE written == w = "written"
  <2> HIDE DEF written
  <2>2. written \in BOOLEAN /\ e = [t.m EXCEPT !.locked = TRUE, !.modelCount = t.m.active,
                            !.fallback = FALSE, !.collect = "DONE", !.version = @ + 1,
                            !.persisted = written]
    BY <2>1 DEF written
  <2> HIDE DEF e
  <2>3. /\ e \in Model /\ e.locked = TRUE /\ e.collect = "DONE" /\ e.active = t.m.active
        /\ e.modelCount = t.m.active /\ e.persisted = written
    <3>1. e = [mode |-> t.m.mode, domain |-> t.m.domain, active |-> t.m.active,
               collect |-> "DONE", started |-> t.m.started, locked |-> TRUE,
               modelCount |-> t.m.active, persisted |-> written, fallback |-> FALSE,
               version |-> t.m.version + 1]
      BY <1>1, <2>2 DEF Model
    <3>2. /\ t.m.mode \in Modes /\ t.m.domain \in Domains /\ t.m.active \in Counts
          /\ t.m.started \in BOOLEAN /\ t.m.version + 1 \in Nat /\ "DONE" \in Collects
      BY <1>1 DEF Model, Collects
    <3>3. e \in Model
      BY <2>2, <3>1, <3>2 DEF Model
    <3> QED BY <3>1, <3>3
  <2> QED BY <2>3 DEF written
<1> HIDE DEF e
<1>5. /\ b.m = e /\ b.p = ResetHealth(q)
      /\ b.p \in [Pairs -> Pair]
      /\ \A i \in Pairs : b.p[i].locked = q[i].locked /\ b.p[i].received = 0
  BY <1>2, <1>3, PairHelpers
<1>6. b \in States /\ Active(b.m) = Active(t.m)
  BY <1>3, <1>4, <1>5 DEF States, Active
<1>7. Whole(b) /\ Collecting(b) /\ Windowed(b)
  BY <1>2, <1>4, <1>5, <1>6, BoundsAssumption DEF Whole, Collecting, Windowed
<1> HIDE DEF b
<1>8. f \in Files /\ Stored(b, f)
  <2>1. CASE w = "written"
    <3>1. f = [domain |-> b.m.domain, count |-> b.m.modelCount, version |-> b.m.version,
               tof |-> [i \in Pairs |-> b.p[i].tof]]
      BY <2>1 DEF Persisted
    <3>2. [i \in Pairs |-> b.p[i].tof] \in [Pairs -> Tofs]
      BY <1>5 DEF Pair
    <3>3. b.m.modelCount \in Counts /\ b.m.domain \in Domains /\ b.m.version \in Nat
      BY <1>1, <1>4, <1>5 DEF Model
    <3>4. f \in File
      BY <3>1, <3>2, <3>3 DEF File
    <3>5. f # NoFile
      BY <3>1, <3>3 DEF NoFile, Domains, NoTof
    <3>6. \A i \in Active(b.m) : f.tof[i] = b.p[i].tof
      BY <1>1, <1>6, <3>1
    <3> QED BY <3>1, <3>4, <3>5, <3>6 DEF Files, Stored
  <2>2. CASE w # "written"
    <3>1. f \in {file, NoFile}
      BY <2>2 DEF Persisted, Writes
    <3>2. ~b.m.persisted
      BY <1>4, <1>5, <2>2
    <3> QED BY <3>1, <3>2 DEF Files, Stored
  <2> QED BY <2>1, <2>2
<1> QED BY <1>4, <1>5, <1>6, <1>7, <1>8 DEF Good, b

LEMMA LockLockedGood ==
  ASSUME NEW s, Good(s, file), params \in Params, NEW o \in LockLocked(s)
  PROVE  /\ Good(o.s, o.file)
         /\ o.s.m.collect \in {"DONE", s.m.collect}
<1> DEFINE t == SetActiveAnchorCount(s, params.count)
<1>1. Good(t, file) /\ t.m.collect = s.m.collect
  BY SetActiveAnchorCountGood DEF Params
<1>2. t \in States /\ Windowed(t) /\ file \in Files
  BY <1>1 DEF Good
<1> HIDE DEF t
<1>3. CASE EnoughSamples(t)
  <2>1. PICK w \in Writes :
          o = [s |-> LockedBy(t, w), file |-> Persisted(LockedBy(t, w), w), ok |-> TRUE]
    BY <1>3 DEF LockLocked, t
  <2> QED BY <1>2, <1>3, <2>1, LockedByGood
<1>4. CASE ~EnoughSamples(t)
  <2>1. o = [s |-> ClearLockedModel(t), file |-> file, ok |-> FALSE]
    BY <1>4 DEF LockLocked, t
  <2> QED BY <1>1, <1>2, <2>1, ClearLockedModelGood
<1> QED BY <1>3, <1>4

-----------------------------------------------------------------------------
(* The boot.                                                               *)

LEMMA ConfigureGood ==
  ASSUME NEW p \in Params, file \in Files
  PROVE  Good(Configure(p), file)
<1> DEFINE s == Fresh(p)
           q == [samples |-> <<>>, locked |-> FALSE, tof |-> NoTof,
                 healthy |-> TRUE, received |-> 0, bad |-> 0]
<1>1. q \in Pair
  BY DEF Pair, Tofs
<1>2. s.m = [mode |-> p.mode, domain |-> p.domain, active |-> p.count,
             collect |-> "IDLE", started |-> FALSE, locked |-> FALSE,
             modelCount |-> 0, persisted |-> FALSE, fallback |-> FALSE, version |-> 0]
      /\ s.p = [i \in Pairs |-> q] /\ s = [m |-> s.m, p |-> s.p]
  BY DEF Fresh
<1>3. p.mode \in Modes /\ p.domain \in Domains /\ p.count \in Counts /\ p.startup \in BOOLEAN
  BY DEF Params
<1>4. s.m \in Model
  BY <1>2, <1>3 DEF Model, Collects
<1>5. s.p \in [Pairs -> Pair] /\ \A i \in Pairs : s.p[i] = q
  BY <1>1, <1>2
<1> HIDE DEF s
<1>6. s \in States /\ s.m.locked = FALSE /\ s.m.persisted = FALSE /\ s.m.active = p.count
  <2>1. s \in States
    BY <1>2, <1>4, <1>5 DEF States
  <2> QED BY <1>2, <2>1
<1>7. Windowed(s)
  BY <1>5, BoundsAssumption DEF Windowed
<1>8. Good(s, file)
  BY <1>6, <1>7 DEF Good, Whole, Stored, Collecting
<1>9. CASE p.startup /\ p.mode # "OFF"
  <2>1. Configure(p) = [s EXCEPT !.m.collect = "ACTIVE"]
    BY <1>9 DEF Configure, s
  <2> DEFINE c == [s EXCEPT !.m.collect = "ACTIVE"]
             e == [s.m EXCEPT !.collect = "ACTIVE"]
  <2>2. e \in Model /\ e.locked = FALSE /\ e.persisted = FALSE
    BY <1>4, <1>6 DEF Model, Collects
  <2>3. c = [m |-> e, p |-> s.p]
    BY <1>6 DEF States
  <2>4. c \in States /\ c.m.locked = FALSE /\ c.m.persisted = FALSE /\ c.p = s.p
    BY <1>6, <2>2, <2>3 DEF States
  <2> HIDE DEF c
  <2>5. Good(c, file)
    BY <1>7, <2>4 DEF Good, Whole, Stored, Collecting, Windowed
  <2> QED BY <2>1, <2>5 DEF c
<1>10. CASE ~(p.startup /\ p.mode # "OFF") /\ ~Loadable(s)
  BY <1>8, <1>10 DEF Configure, s
<1>11. CASE ~(p.startup /\ p.mode # "OFF") /\ Loadable(s)
  <2> DEFINE c == Loaded(s)
             e == [s.m EXCEPT !.locked = TRUE, !.modelCount = s.m.active, !.collect = "DONE",
                              !.version = file.version, !.persisted = TRUE]
             r == [i \in Pairs |-> [s.p[i] EXCEPT
                     !.locked = i \in Active(s.m),
                     !.tof = IF i \in Active(s.m) THEN file.tof[i] ELSE NoTof]]
  <2>1. Configure(p) = c
    BY <1>11 DEF Configure, s
  <2>2. c = [m |-> e, p |-> r]
    BY DEF Loaded
  <2>3. file \in File /\ file # NoFile /\ file.count = s.m.active
    BY <1>11 DEF Loadable, Files
  <2>4. file.version \in Nat /\ file.tof \in [Pairs -> Tofs]
    BY <2>3 DEF File
  <2>5. /\ e \in Model /\ e.locked = TRUE /\ e.modelCount = s.m.active
        /\ e.active = s.m.active /\ e.collect = "DONE" /\ e.version = file.version
    BY <1>4, <2>4 DEF Model, Collects
  <2>6. ASSUME NEW i \in Pairs
        PROVE  /\ r[i] \in Pair /\ (r[i].locked <=> i \in Active(s.m))
               /\ i \in Active(s.m) => r[i].tof = file.tof[i]
               /\ r[i].received = 0
    <3>1. s.p[i] = q
      BY <1>5
    <3> DEFINE on == i \in Active(s.m)
               tof == IF i \in Active(s.m) THEN file.tof[i] ELSE NoTof
    <3>2. on \in BOOLEAN
      OBVIOUS
    <3>3. tof \in Tofs
      BY <2>4 DEF Tofs
    <3>4. r[i] = [s.p[i] EXCEPT !.locked = on, !.tof = tof]
      OBVIOUS
    <3> HIDE DEF on, tof, r
    <3>5. r[i] = [samples |-> <<>>, locked |-> on, tof |-> tof,
                  healthy |-> TRUE, received |-> 0, bad |-> 0]
      <4>1. r[i] = [q EXCEPT !.locked = on, !.tof = tof]
        BY <3>1, <3>4
      <4> QED BY <4>1
    <3>6. r[i] \in Pair
      BY <3>2, <3>3, <3>5 DEF Pair
    <3>7. r[i].locked = on /\ r[i].tof = tof /\ r[i].received = 0
      BY <3>5
    <3> QED BY <3>6, <3>7 DEF on, tof
  <2> HIDE DEF e
  <2>7. r \in [Pairs -> Pair]
    BY <2>6
  <2> HIDE DEF r
  <2>8. c \in States /\ c.m = e /\ c.p = r /\ Active(c.m) = Active(s.m)
        /\ Active(s.m) \subseteq Pairs
    BY <1>4, <2>2, <2>5, <2>7, ActiveType DEF States, Active
  <2>9. Whole(c) /\ Collecting(c) /\ Windowed(c)
    BY <2>5, <2>6, <2>8, BoundsAssumption DEF Whole, Collecting, Windowed
  <2>10. Stored(c, file)
    BY <2>3, <2>5, <2>6, <2>8 DEF Stored
  <2> QED BY <2>1, <2>8, <2>9, <2>10 DEF Good
<1> QED BY <1>9, <1>10, <1>11

-----------------------------------------------------------------------------
(* The steps of ProcessInterAnchorTof.                                     *)

\* What m says beyond the lock may change.
LEMMA ModelChange ==
  ASSUME NEW s, NEW f, Good(s, f), NEW e \in Model,
         e.locked = s.m.locked, e.modelCount = s.m.modelCount, e.active = s.m.active,
         e.persisted = s.m.persisted, e.version = s.m.version,
         e.collect = "ACTIVE" => s.m.collect = "ACTIVE"
  PROVE  Good([m |-> e, p |-> s.p], f)
<1> DEFINE c == [m |-> e, p |-> s.p]
<1>1. c \in States /\ c.m = e /\ c.p = s.p /\ Active(c.m) = Active(s.m)
  BY DEF Good, States, Active
<1> HIDE DEF c
<1>2. Good(c, f)
  BY <1>1 DEF Good, Whole, Stored, Collecting, Windowed
<1> QED BY <1>2 DEF c

\* What a pair says beyond its value may change.
LEMMA PairChange ==
  ASSUME NEW s, NEW f, Good(s, f), NEW i \in Pairs, NEW q \in Pair,
         q.locked = s.p[i].locked, q.tof = s.p[i].tof, q.received < HealthWindow
  PROVE  Good([m |-> s.m, p |-> [s.p EXCEPT ![i] = q]], f)
<1> DEFINE c == [m |-> s.m, p |-> [s.p EXCEPT ![i] = q]]
<1>1. s.m \in Model /\ s.p \in [Pairs -> Pair] /\ Active(s.m) \subseteq Pairs
  BY ActiveType DEF Good, States
<1>2. /\ c \in States /\ c.m = s.m
      /\ \A j \in Pairs : /\ c.p[j].locked = s.p[j].locked /\ c.p[j].tof = s.p[j].tof
                          /\ c.p[j].received < HealthWindow
  BY <1>1 DEF Good, States, Windowed
<1> HIDE DEF c
<1>3. Good(c, f)
  BY <1>1, <1>2 DEF Good, Whole, Stored, Collecting, Windowed
<1> QED BY <1>3 DEF c

LEMMA SampledGood ==
  ASSUME NEW s, Good(s, file), packet \in Packets
  PROVE  /\ Good(Sampled(s), file)
         /\ Sampled(s).m.collect = s.m.collect
<1> DEFINE i == packet.pair
           e == [s.m EXCEPT !.started = TRUE]
           samples == IF Len(s.p[i].samples) < MaxSamples
                      THEN Append(s.p[i].samples, packet.domain) ELSE s.p[i].samples
           q == [s.p[i] EXCEPT !.samples = samples]
<1>1. s \in States /\ i \in Pairs /\ packet.domain \in Domains
  BY DEF Good, Packets
<1>2. s.m \in Model /\ s.p \in [Pairs -> Pair] /\ s.p[i] \in Pair /\ s = [m |-> s.m, p |-> s.p]
  BY <1>1 DEF States
<1>3. s.p[i].samples \in Seq(Domains)
  BY <1>2 DEF Pair
<1>4. samples \in Seq(Domains)
  BY <1>1, <1>3
<1>5. Sampled(s) = [m |-> e, p |-> [s.p EXCEPT ![i] = q]]
  BY DEF Sampled
<1> HIDE DEF samples
<1>6. q \in Pair /\ q.locked = s.p[i].locked /\ q.tof = s.p[i].tof
      /\ q.received = s.p[i].received
  BY <1>2, <1>4 DEF Pair
<1>7. q.received < HealthWindow
  BY <1>1, <1>6 DEF Good, Windowed
<1>8. e \in Model /\ e.locked = s.m.locked /\ e.modelCount = s.m.modelCount
      /\ e.active = s.m.active /\ e.persisted = s.m.persisted
      /\ e.version = s.m.version /\ e.collect = s.m.collect
  BY <1>2 DEF Model
<1> HIDE DEF q, e
<1> DEFINE d == [m |-> e, p |-> s.p]
<1>9. Good(d, file) /\ d.m = e /\ d.p = s.p
  BY <1>8, ModelChange
<1> HIDE DEF d
<1>10. Good([m |-> d.m, p |-> [d.p EXCEPT ![i] = q]], file)
  BY <1>1, <1>6, <1>7, <1>9, PairChange
<1> QED BY <1>5, <1>8, <1>9, <1>10

LEMMA CollectedGood ==
  ASSUME NEW s, Good(s, file), packet \in Packets, params \in Params,
         NEW c \in Collected(s)
  PROVE  /\ Good(c.s, c.file)
         /\ s.m.collect # "ACTIVE" => c.s = s
<1>1. CASE s.m.collect # "ACTIVE"
  BY <1>1 DEF Collected
<1>2. CASE s.m.collect = "ACTIVE"
  <2>1. CASE c = [s |-> Sampled(s), file |-> file]
    BY <1>2, <2>1, SampledGood
  <2>2. CASE \E o \in LockLocked(Sampled(s)) :
               c = [s |-> [o.s EXCEPT !.m.collect = IF o.ok THEN "DONE" ELSE "FAILED"],
                    file |-> o.file]
    <3>1. PICK o \in LockLocked(Sampled(s)) :
               c = [s |-> [o.s EXCEPT !.m.collect = IF o.ok THEN "DONE" ELSE "FAILED"],
                    file |-> o.file]
      BY <2>2
    <3>2. Good(o.s, o.file)
      BY <3>1, SampledGood, LockLockedGood
    <3> DEFINE v == IF o.ok THEN "DONE" ELSE "FAILED"
               e == [o.s.m EXCEPT !.collect = v]
    <3>3. v \in Collects /\ v # "ACTIVE"
      BY DEF Collects
    <3>4. o.s.m \in Model /\ o.s \in States
      BY <3>2 DEF Good, States
    <3> HIDE DEF v
    <3>5. /\ e \in Model /\ e.collect = v
          /\ e.locked = o.s.m.locked /\ e.modelCount = o.s.m.modelCount
          /\ e.active = o.s.m.active /\ e.persisted = o.s.m.persisted
          /\ e.version = o.s.m.version
      BY <3>3, <3>4 DEF Model
    <3>6. c.s = [m |-> e, p |-> o.s.p] /\ c.file = o.file
      BY <3>1, <3>4 DEF v, States
    <3> HIDE DEF e
    <3> QED BY <1>2, <3>2, <3>3, <3>5, <3>6, ModelChange
  <2> QED BY <1>2, <2>1, <2>2 DEF Collected
<1> QED BY <1>1, <1>2

\* One residual: it is counted, or it ends the window, which a bad one leaves unhealthy.
LEMMA CheckedPair ==
  ASSUME NEW q \in Pair, NEW isBad \in BOOLEAN
  PROVE  LET r == Checked(q, isBad)
         IN  /\ r \in Pair /\ r.locked = q.locked /\ r.tof = q.tof
             /\ r.received < HealthWindow
             /\ isBad => \/ r.healthy = FALSE
                         \/ r.received = q.received + 1 /\ r.bad > 0
<1>1. q.received \in Nat /\ q.bad \in Nat
  BY PairFields
<1>2. PICK m \in Nat : m = q.received + 1
  BY <1>1
<1>3. PICK n \in Nat : n = IF isBad THEN q.bad + 1 ELSE q.bad
  BY <1>1
<1>4. isBad => n > 0
  BY <1>1, <1>3
<1> DEFINE r == [q EXCEPT !.received = m, !.bad = n]
<1>5. Checked(q, isBad) = IF r.received < HealthWindow THEN r
                          ELSE [r EXCEPT !.healthy = r.bad = 0, !.received = 0, !.bad = 0]
  BY <1>2, <1>3 DEF Checked
<1>6. /\ r \in Pair /\ r.received = m /\ r.bad = n
      /\ r.locked = q.locked /\ r.tof = q.tof
  BY DEF Pair
<1> HIDE DEF r
<1>7. CASE r.received < HealthWindow
  BY <1>2, <1>4, <1>5, <1>6, <1>7
<1>8. CASE ~(r.received < HealthWindow)
  <2> DEFINE healthy == r.bad = 0
             u == [r EXCEPT !.healthy = healthy, !.received = 0, !.bad = 0]
  <2>1. healthy \in BOOLEAN /\ (isBad => healthy = FALSE)
    BY <1>4, <1>6
  <2>2. Checked(q, isBad) = u
    BY <1>5, <1>8
  <2> HIDE DEF healthy
  <2>3. /\ u \in Pair /\ u.locked = r.locked /\ u.tof = r.tof
        /\ u.received = 0 /\ u.healthy = healthy
    BY <1>6, <2>1 DEF Pair
  <2>4. 0 < HealthWindow
    BY BoundsAssumption
  <2> QED BY <1>6, <2>1, <2>2, <2>3, <2>4
<1> QED BY <1>7, <1>8

LEMMA MonitoredGood ==
  ASSUME NEW s, NEW f, Good(s, f), packet \in Packets, NEW isBad \in BOOLEAN
  PROVE  LET r == Monitored(s, isBad)
             i == packet.pair
         IN  /\ Good(r, f) /\ r.m = s.m
             /\ r.p[i].locked = s.p[i].locked /\ r.p[i].tof = s.p[i].tof
             /\ \A j \in Pairs \ {i} : r.p[j] = s.p[j]
             /\ isBad /\ s.m.locked /\ s.p[i].locked /\ packet.mode # "OFF" =>
                  \/ r.p[i].healthy = FALSE
                  \/ r.p[i].received = s.p[i].received + 1 /\ r.p[i].bad > 0
<1> DEFINE i == packet.pair
           q == Checked(s.p[i], isBad)
           r == [m |-> s.m, p |-> [s.p EXCEPT ![i] = q]]
<1>1. s \in States /\ i \in Pairs
  BY DEF Good, Packets
<1>2. s = [m |-> s.m, p |-> s.p] /\ s.p \in [Pairs -> Pair] /\ s.p[i] \in Pair
  BY <1>1 DEF States
<1>3. CASE ~(s.m.locked /\ s.p[i].locked /\ packet.mode # "OFF")
  BY <1>3 DEF Monitored
<1>4. CASE s.m.locked /\ s.p[i].locked /\ packet.mode # "OFF"
  <2>1. Monitored(s, isBad) = [s EXCEPT !.p[i] = q]
    BY <1>4 DEF Monitored
  <2>2. /\ q \in Pair /\ q.locked = s.p[i].locked /\ q.tof = s.p[i].tof
        /\ q.received < HealthWindow
        /\ isBad => \/ q.healthy = FALSE
                    \/ q.received = s.p[i].received + 1 /\ q.bad > 0
    BY <1>2, CheckedPair
  <2> HIDE DEF q
  <2>3. Monitored(s, isBad) = r
    BY <1>2, <2>1
  <2>4. Good(r, f)
    BY <1>1, <2>2, PairChange
  <2>5. r.m = s.m /\ r.p[i] = q /\ \A j \in Pairs \ {i} : r.p[j] = s.p[j]
    BY <1>1, <1>2
  <2> QED BY <2>2, <2>3, <2>4, <2>5
<1> QED BY <1>3, <1>4

LEMMA StateFields == State.m = model /\ State.p = pair
BY DEF State

LEMMA ProcessStep ==
  ASSUME Inv, Process
  PROVE  Inv'
<1> DEFINE i == packet.pair
           e == [model EXCEPT !.domain = packet.domain, !.mode = packet.mode]
           t == SetActiveAnchorCount([m |-> e, p |-> pair], packet.count)
<1>1. packet \in Packets /\ i \in Pairs
  BY DEF Process, Inv, Packets
<1>2. packet.mode \in Modes /\ packet.domain \in Domains /\ packet.count \in Counts
  BY <1>1 DEF Packets
<1>3. Good(State, file) /\ model \in Model
  BY StateFields DEF Inv, Good, States
<1>4. /\ e \in Model /\ e.locked = model.locked /\ e.modelCount = model.modelCount
      /\ e.active = model.active /\ e.persisted = model.persisted
      /\ e.version = model.version /\ e.collect = model.collect
  BY <1>2, <1>3 DEF Model
<1>5. PICK c \in Collected(t) : \E isBad \in Residuals(c.s.p[i]) :
             LET s == Monitored(c.s, isBad)
             IN /\ Set([s EXCEPT !.m.fallback = FallbackActive(s)])
                /\ file' = c.file
                /\ wrong' = [wrong EXCEPT ![i] =
                               IF Overrides(s) /\ Wrong(s) /\ wrong[i] < HealthWindow
                               THEN wrong[i] + 1 ELSE 0]
  BY DEF Process
<1>6. PICK isBad \in Residuals(c.s.p[i]) :
             LET s == Monitored(c.s, isBad)
             IN /\ Set([s EXCEPT !.m.fallback = FallbackActive(s)])
                /\ file' = c.file
                /\ wrong' = [wrong EXCEPT ![i] =
                               IF Overrides(s) /\ Wrong(s) /\ wrong[i] < HealthWindow
                               THEN wrong[i] + 1 ELSE 0]
  BY <1>5
<1> HIDE DEF e
<1>7. Good([m |-> e, p |-> pair], file)
  BY <1>3, <1>4, StateFields, ModelChange
<1> DEFINE u == [m |-> e, p |-> pair]
<1>8. /\ Good(t, file) /\ t.m.collect = model.collect
      /\ \A j \in Pairs : t.p[j].received = pair[j].received /\ t.p[j].bad = pair[j].bad
  <2>1. u.m = e /\ u.p = pair /\ Good(u, file) /\ t = SetActiveAnchorCount(u, packet.count)
    BY <1>7
  <2> HIDE DEF u, t
  <2>2. /\ Good(t, file) /\ t.m.collect = u.m.collect
        /\ \A j \in Pairs : t.p[j].received = u.p[j].received /\ t.p[j].bad = u.p[j].bad
    BY <1>2, <2>1, SetActiveAnchorCountGood
  <2> QED BY <1>4, <2>1, <2>2
<1> HIDE DEF t
<1>9. Good(c.s, c.file) /\ (model.collect # "ACTIVE" => c.s = t)
  BY <1>1, <1>8, CollectedGood DEF Inv
<1>10. isBad \in BOOLEAN
  BY <1>6 DEF Residuals
<1> DEFINE s == Monitored(c.s, isBad)
<1>11. /\ Good(s, c.file) /\ s.m = c.s.m
       /\ s.p[i].locked = c.s.p[i].locked /\ s.p[i].tof = c.s.p[i].tof
       /\ \A j \in Pairs \ {i} : s.p[j] = c.s.p[j]
       /\ isBad /\ c.s.m.locked /\ c.s.p[i].locked /\ packet.mode # "OFF" =>
            \/ s.p[i].healthy = FALSE
            \/ s.p[i].received = c.s.p[i].received + 1 /\ s.p[i].bad > 0
  BY <1>1, <1>9, <1>10, MonitoredGood
<1>12. /\ Set([s EXCEPT !.m.fallback = FallbackActive(s)])
       /\ file' = c.file
       /\ wrong' = [wrong EXCEPT ![i] =
                       IF Overrides(s) /\ Wrong(s) /\ wrong[i] < HealthWindow
                       THEN wrong[i] + 1 ELSE 0]
  BY <1>6
<1> HIDE DEF s
<1> DEFINE fallback == FallbackActive(s)
           g == [s.m EXCEPT !.fallback = fallback]
<1>13. fallback \in BOOLEAN
  BY DEF FallbackActive
<1>14. s \in States /\ s.m \in Model /\ s.p \in [Pairs -> Pair]
  BY <1>11 DEF Good, States
<1> HIDE DEF fallback
<1>15. /\ g \in Model /\ g.locked = s.m.locked /\ g.modelCount = s.m.modelCount
       /\ g.active = s.m.active /\ g.persisted = s.m.persisted
       /\ g.version = s.m.version /\ g.collect = s.m.collect
  BY <1>13, <1>14 DEF Model
<1>16. model' = g /\ pair' = s.p
  <2>1. [s EXCEPT !.m.fallback = fallback] = [m |-> g, p |-> s.p]
    BY <1>14 DEF States
  <2> QED BY <1>12, <2>1 DEF Set, fallback
<1> HIDE DEF g
<1>17. Good(State, file)'
  <2>1. Good([m |-> g, p |-> s.p], c.file)
    BY <1>11, <1>15, ModelChange
  <2> QED BY <1>12, <1>16, <2>1 DEF State, Good, Whole, Stored, Collecting, Windowed
<1>18. wrong' \in [Pairs -> Nat]
  BY <1>1, <1>12 DEF Inv
<1>19. params' \in Params /\ packet' \in Packets \cup {NoPacket}
  BY DEF Process, Inv
<1>20. ASSUME NEW j \in Pairs, j # i
       PROVE  /\ wrong'[j] <= pair'[j].received
              /\ wrong'[j] > 0 => pair'[j].bad > 0 /\ model'.collect # "ACTIVE"
  <2>1. wrong'[j] = wrong[j] /\ wrong[j] \in Nat
    BY <1>12, <1>20 DEF Inv
  <2>2. pair'[j] = c.s.p[j] /\ pair'[j] \in Pair
    BY <1>11, <1>14, <1>16, <1>20
  <2>3. CASE wrong[j] = 0
    BY <2>1, <2>2, <2>3, PairFields
  <2>4. CASE wrong[j] > 0
    <3>1. pair[j].bad > 0 /\ model.collect # "ACTIVE" /\ wrong[j] <= pair[j].received
      BY <2>4 DEF Inv, Counted
    <3>2. c.s = t
      BY <1>9, <3>1
    <3>3. model'.collect = model.collect
      BY <1>8, <1>11, <1>15, <1>16, <3>2
    <3> QED BY <1>8, <2>1, <2>2, <3>1, <3>2, <3>3
  <2> QED BY <2>1, <2>3, <2>4
<1>21. /\ wrong'[i] <= pair'[i].received
       /\ wrong'[i] > 0 => pair'[i].bad > 0 /\ model'.collect # "ACTIVE"
  <2>1. pair'[i] = s.p[i] /\ pair'[i] \in Pair /\ pair'[i].received \in Nat
    BY <1>1, <1>14, <1>16, PairFields
  <2>2. CASE ~(Overrides(s) /\ Wrong(s) /\ wrong[i] < HealthWindow)
    <3>1. wrong'[i] = 0
      BY <1>1, <1>12, <2>2 DEF Inv
    <3> QED BY <2>1, <3>1
  <2>3. CASE Overrides(s) /\ Wrong(s) /\ wrong[i] < HealthWindow
    <3>1. wrong'[i] = wrong[i] + 1 /\ wrong[i] \in Nat
      BY <1>1, <1>12, <2>3 DEF Inv
    <3>2. /\ c.s.m.locked /\ c.s.p[i].locked /\ packet.mode # "OFF" /\ s.p[i].healthy
          /\ c.s.p[i].tof \in Domains /\ c.s.p[i].tof # packet.domain
      BY <1>11, <2>3 DEF Overrides, Wrong
    <3>3. isBad
      BY <1>6, <3>2 DEF Residuals
    <3>4. s.p[i].received = c.s.p[i].received + 1 /\ s.p[i].bad > 0
      BY <1>11, <3>2, <3>3
    <3>5. c.s.m.collect # "ACTIVE"
      BY <1>9, <3>2 DEF Good, Collecting
    <3>6. model'.collect # "ACTIVE"
      BY <1>11, <1>15, <1>16, <3>5
    <3>7. c.s.p[i].received \in Nat
      BY <1>1, <1>9, PairFields DEF Good, States
    <3>8. wrong[i] <= c.s.p[i].received
      <4>1. CASE wrong[i] = 0
        BY <3>7, <4>1
      <4>2. CASE wrong[i] > 0
        <5>1. model.collect # "ACTIVE" /\ wrong[i] <= pair[i].received
          BY <1>1, <4>2 DEF Inv, Counted
        <5> QED BY <1>1, <1>8, <1>9, <5>1
      <4> QED BY <3>1, <4>1, <4>2
    <3> QED BY <2>1, <3>1, <3>4, <3>6, <3>7, <3>8
  <2> QED BY <2>2, <2>3
<1>22. Counted'
  BY <1>20, <1>21 DEF Counted
<1> QED BY <1>17, <1>18, <1>19, <1>22 DEF Inv

-----------------------------------------------------------------------------
(* The commands, the boots and the specification.                          *)

\* A state without a lock and without a file of its own, its windows begun anew.
LEMMA CleanGood ==
  ASSUME NEW m \in Model, m.locked = FALSE, m.persisted = FALSE, NEW f \in Files,
         NEW p \in [Pairs -> Pair]
  PROVE  Good([m |-> m, p |-> Unlocked(ResetHealth(ClearSamples(p)))], f)
<1> DEFINE a == ClearSamples(p)
           b == ResetHealth(a)
           c == Unlocked(b)
           s == [m |-> m, p |-> c]
<1>1. a \in [Pairs -> Pair]
  BY PairHelpers
<1> HIDE DEF a
<1>2. b \in [Pairs -> Pair] /\ \A i \in Pairs : b[i].received = 0
  BY <1>1, PairHelpers
<1> HIDE DEF b
<1>3. c \in [Pairs -> Pair] /\ \A i \in Pairs : c[i].received = 0
  BY <1>2, PairHelpers
<1> HIDE DEF c
<1>4. s \in States /\ s.m = m /\ s.p = c
  BY <1>3 DEF States
<1>5. 0 < HealthWindow
  BY BoundsAssumption
<1> HIDE DEF s
<1>6. Good(s, f)
  BY <1>3, <1>4, <1>5 DEF Good, Whole, Stored, Collecting, Windowed
<1> QED BY <1>6 DEF s, c, b, a

\* With no replacement counted there is nothing to count.
LEMMA NoneWrongCounted ==
  ASSUME NEW s, NEW f, Good(s, f), NEW w, w = NoneWrong
  PROVE  /\ w \in [Pairs -> Nat]
         /\ \A i \in Pairs : w[i] <= s.p[i].received /\ ~(w[i] > 0)
<1>1. s.p \in [Pairs -> Pair]
  BY DEF Good, States
<1>2. \A i \in Pairs : s.p[i].received \in Nat
  BY <1>1, PairFields
<1> QED BY <1>2 DEF NoneWrong

LEMMA SetStep ==
  ASSUME Inv, NEW s, Set(s), Good(s, file'), wrong' = NoneWrong,
         params' \in Params, packet' \in Packets \cup {NoPacket}
  PROVE  Inv'
<1>1. model' = s.m /\ pair' = s.p /\ s = [m |-> s.m, p |-> s.p]
  BY DEF Set, Good, States
<1>2. Good(State, file)'
  BY <1>1 DEF State, Good, Whole, Stored, Collecting, Windowed
<1>3. wrong' \in [Pairs -> Nat]
  BY NoneWrongCounted
<1>4. \A i \in Pairs : wrong'[i] <= s.p[i].received /\ ~(wrong'[i] > 0)
  BY NoneWrongCounted
<1>5. Counted'
  BY <1>1, <1>4 DEF Counted
<1> QED BY <1>2, <1>3, <1>5 DEF Inv

LEMMA InvFacts ==
  ASSUME Inv
  PROVE  /\ Good(State, file) /\ State.m = model /\ State.p = pair
         /\ model \in Model /\ pair \in [Pairs -> Pair] /\ file \in Files
BY StateFields DEF Inv, Good, States

LEMMA ResetStep ==
  ASSUME Inv, Reset
  PROVE  Inv'
<1>1. PICK version \in Nat : version = model.version + 1
  BY InvFacts DEF Model
<1> DEFINE e == [model EXCEPT !.collect = "IDLE", !.started = FALSE, !.locked = FALSE,
                              !.fallback = FALSE, !.persisted = FALSE,
                              !.modelCount = 0, !.version = version]
           s == [m |-> e, p |-> Unlocked(ResetHealth(ClearSamples(pair)))]
<1>2. e \in Model /\ e.locked = FALSE /\ e.persisted = FALSE
  <2>1. model \in Model
    BY InvFacts
  <2> QED BY <2>1 DEF Model, Collects
<1>3. Set(s) /\ file' \in {NoFile, file} /\ wrong' = NoneWrong
  BY <1>1 DEF Reset
<1> HIDE DEF e
<1>4. Good(s, file')
  BY <1>2, <1>3, InvFacts, CleanGood DEF Files
<1> HIDE DEF s
<1>5. params' \in Params /\ packet' \in Packets \cup {NoPacket}
  BY DEF Reset, Inv
<1> QED BY <1>3, <1>4, <1>5, SetStep

LEMMA StartCollectionStep ==
  ASSUME Inv, StartCollection
  PROVE  Inv'
<1> DEFINE d == [model EXCEPT !.domain = params.domain, !.mode = params.mode]
           u == [m |-> d, p |-> pair]
           t == SetActiveAnchorCount(u, params.count)
           e == [t.m EXCEPT !.locked = FALSE, !.persisted = FALSE, !.modelCount = 0,
                            !.collect = "ACTIVE", !.started = FALSE, !.fallback = FALSE]
           s == [m |-> e, p |-> Unlocked(ResetHealth(ClearSamples(t.p)))]
<1>1. params.mode \in Modes /\ params.domain \in Domains /\ params.count \in Counts
  BY DEF Inv, Params
<1>2. /\ d \in Model /\ d.locked = model.locked /\ d.modelCount = model.modelCount
      /\ d.active = model.active /\ d.persisted = model.persisted
      /\ d.version = model.version /\ d.collect = model.collect
  BY <1>1, InvFacts DEF Model
<1> HIDE DEF d
<1>3. Good(u, file)
  BY <1>2, InvFacts, ModelChange
<1> HIDE DEF u
<1>4. Good(t, file)
  BY <1>1, <1>3, SetActiveAnchorCountGood
<1>5. Set(s) /\ wrong' = NoneWrong /\ file' = file
  BY DEF StartCollection, u, d
<1> HIDE DEF t
<1>6. t.m \in Model /\ t.p \in [Pairs -> Pair] /\ file \in Files
  BY <1>4 DEF Good, States
<1>7. e \in Model /\ e.locked = FALSE /\ e.persisted = FALSE
  BY <1>6 DEF Model, Collects
<1> HIDE DEF e
<1>8. Good(s, file')
  BY <1>5, <1>6, <1>7, CleanGood
<1> HIDE DEF s
<1>9. params' \in Params /\ packet' \in Packets \cup {NoPacket}
  BY DEF StartCollection, Inv
<1> QED BY <1>5, <1>8, <1>9, SetStep

LEMMA LockStep ==
  ASSUME Inv, Lock
  PROVE  Inv'
<1>1. PICK o \in LockLocked(State) : Set(o.s) /\ file' = o.file
  BY DEF Lock
<1>2. Good(o.s, file')
  BY <1>1, InvFacts, LockLockedGood DEF Inv
<1>3. /\ wrong' = NoneWrong
      /\ params' \in Params /\ packet' \in Packets \cup {NoPacket}
  BY DEF Lock, Inv
<1> QED BY <1>1, <1>2, <1>3, SetStep

LEMMA PowerLossStep ==
  ASSUME Inv, PowerLoss
  PROVE  Inv'
<1>1. /\ Set(Configure(params)) /\ file' = file /\ wrong' = NoneWrong
      /\ params' \in Params /\ packet' \in Packets \cup {NoPacket}
  BY DEF PowerLoss, Inv
<1>2. Good(Configure(params), file')
  BY <1>1, InvFacts, ConfigureGood DEF Inv
<1> QED BY <1>1, <1>2, SetStep

\* What a step that leaves the class and its file alone keeps.
LEMMA OutsideStep ==
  ASSUME Inv, UNCHANGED <<model, pair, file, wrong>>,
         params' \in Params, packet' \in Packets \cup {NoPacket}
  PROVE  Inv'
<1>1. Good(State, file)' /\ Counted'
  BY DEF Inv, State, Good, Whole, Stored, Collecting, Windowed, Counted
<1> QED BY <1>1 DEF Inv

LEMMA WriteParamStep ==
  ASSUME Inv, WriteParam
  PROVE  Inv'
<1>1. UNCHANGED <<model, pair, file, wrong>> /\ params' \in Params
  BY DEF WriteParam
<1>2. packet' \in Packets \cup {NoPacket}
  <2>1. CASE packet = NoPacket
    BY <2>1 DEF WriteParam
  <2>2. CASE packet # NoPacket
    <3>1. packet \in Packets /\ packet' = [packet EXCEPT !.overtaken = TRUE]
      BY <2>2 DEF WriteParam, Inv
    <3> QED BY <3>1 DEF Packets
  <2> QED BY <2>1, <2>2
<1> QED BY <1>1, <1>2, OutsideStep

LEMMA ReadParamsStep ==
  ASSUME Inv, ReadParams
  PROVE  Inv'
<1>1. UNCHANGED <<model, pair, file, wrong>> /\ params' \in Params
  BY DEF ReadParams, Inv
<1>2. PICK i \in ActivePairs[params.count] :
          packet' = [pair |-> i, mode |-> params.mode, domain |-> params.domain,
                     count |-> params.count, overtaken |-> FALSE]
  BY DEF ReadParams
<1>3. params.mode \in Modes /\ params.domain \in Domains /\ params.count \in Counts
  BY DEF Inv, Params
<1>4. i \in Pairs
  BY <1>2, <1>3, CountsAssumption
<1>5. packet' \in Packets
  BY <1>2, <1>3, <1>4 DEF Packets
<1> QED BY <1>1, <1>5, OutsideStep

LEMMA InitInv == Init => Inv
<1> SUFFICES ASSUME Init PROVE Inv
  OBVIOUS
<1> DEFINE s == Configure(params)
<1>1. params \in Params /\ file \in Files /\ packet = NoPacket /\ wrong = NoneWrong
      /\ model = s.m /\ pair = s.p
  BY DEF Init, Files
<1>2. Good(s, file)
  BY <1>1, ConfigureGood
<1> HIDE DEF s
<1>3. State = s
  BY <1>1, <1>2 DEF State, Good, States
<1>4. wrong \in [Pairs -> Nat]
      /\ \A i \in Pairs : wrong[i] <= s.p[i].received /\ ~(wrong[i] > 0)
  BY <1>1, <1>2, NoneWrongCounted
<1> QED BY <1>1, <1>2, <1>3, <1>4 DEF Inv, Counted

\* The state of the class, its file and the counts agree, whatever interleaves.
THEOREM Invariance == Spec => []Inv
<1>1. Init => Inv
  BY InitInv
<1>2. Inv /\ [Next]_vars => Inv'
  <2> SUFFICES ASSUME Inv, [Next]_vars PROVE Inv'
    OBVIOUS
  <2>1. CASE Reset
    BY <2>1, ResetStep
  <2>2. CASE StartCollection
    BY <2>2, StartCollectionStep
  <2>3. CASE Lock
    BY <2>3, LockStep
  <2>4. CASE WriteParam
    BY <2>4, WriteParamStep
  <2>5. CASE ReadParams
    BY <2>5, ReadParamsStep
  <2>6. CASE Process
    BY <2>6, ProcessStep
  <2>7. CASE PowerLoss
    BY <2>7, PowerLossStep
  <2>8. CASE UNCHANGED vars
    <3>1. UNCHANGED <<model, pair, file, wrong>> /\ params' = params /\ packet' = packet
      BY <2>8 DEF vars
    <3> QED BY <3>1, OutsideStep DEF Inv
  <2> QED BY <2>1, <2>2, <2>3, <2>4, <2>5, <2>6, <2>7, <2>8 DEF Next, Command
<1> QED BY <1>1, <1>2, PTL DEF Spec

(* Every variable keeps its type: in particular a pair's window never      *)
(* counts below zero and its value is of a known domain, both, or none.    *)
THEOREM TypeCorrect == Spec => []TypeOK
<1>1. Inv => TypeOK
  BY InvFacts DEF Inv, TypeOK, Files
<1> QED BY <1>1, Invariance, PTL

(* A locked model has a value for exactly the pairs of the active anchors, *)
(* so the fallback to the packets' own values is the only partial state.   *)
THEOREM LockedModelsAreWhole == Spec => []LockedIsWhole
<1>1. Inv => LockedIsWhole
  <2> SUFFICES ASSUME Inv, model.locked PROVE HasLockedModel(State)
                  /\ \A i \in Pairs \ Active(model) : ~pair[i].locked
    BY DEF LockedIsWhole
  <2>1. /\ model.modelCount = model.active
        /\ \A i \in Pairs : pair[i].locked <=> i \in Active(model)
    BY InvFacts DEF Good, Whole
  <2>2. Active(model) \subseteq Pairs
    BY InvFacts, ActiveType
  <2> QED BY <2>1, <2>2, InvFacts DEF HasLockedModel
<1> QED BY <1>1, Invariance, PTL

(* What PersistedModelReady reports is on flash: LoadPersistedModelLocked  *)
(* would find this very lock there, after any failed or partial write.     *)
THEOREM PersistedModelsAreStored == Spec => []PersistedIsStored
<1>1. Inv => PersistedIsStored
  BY InvFacts DEF Good, Stored, PersistedIsStored
<1> QED BY <1>1, Invariance, PTL

(* The health window stops the replacements by values of the wrong domain  *)
(* before it has counted its last packet, whatever its length.             *)
THEOREM WrongDomainsAreCaught == Spec => []WrongDomainIsCaught
<1>1. Inv => WrongDomainIsCaught
  <2> SUFFICES ASSUME Inv, NEW i \in Pairs PROVE wrong[i] < HealthWindow
    BY DEF WrongDomainIsCaught
  <2>1. pair[i].received < HealthWindow /\ wrong[i] <= pair[i].received
    BY InvFacts DEF Good, Windowed, Inv, Counted
  <2>2. pair[i].received \in Nat /\ wrong[i] \in Nat /\ HealthWindow \in Nat
    BY InvFacts, PairFields, BoundsAssumption DEF Inv
  <2> QED BY <2>1, <2>2
<1> QED BY <1>1, Invariance, PTL

\* A packet that carries the locked model's own count leaves the lock as it is.
LEMMA ProcessKeepsLock ==
  ASSUME Inv, Process, model.locked, packet.count = model.modelCount
  PROVE  model'.locked
<1> DEFINE i == packet.pair
           e == [model EXCEPT !.domain = packet.domain, !.mode = packet.mode]
           u == [m |-> e, p |-> pair]
<1>1. packet \in Packets
  BY DEF Process, Inv
<1>2. model \in Model
  BY InvFacts
<1>3. packet.count = model.active /\ model.collect # "ACTIVE"
  BY InvFacts DEF Good, Whole, Collecting
<1>4. e \in Model /\ e.locked = model.locked /\ e.modelCount = model.modelCount
      /\ e.active = model.active /\ e.persisted = model.persisted
      /\ e.version = model.version /\ e.collect = model.collect
  BY <1>1, <1>2 DEF Model, Packets
<1>5. PICK c \in Collected(SetActiveAnchorCount(u, packet.count)) :
        \E isBad \in Residuals(c.s.p[i]) :
          Set([Monitored(c.s, isBad) EXCEPT !.m.fallback = FallbackActive(Monitored(c.s, isBad))])
  BY DEF Process
<1>6. PICK isBad \in Residuals(c.s.p[i]) :
        Set([Monitored(c.s, isBad) EXCEPT !.m.fallback = FallbackActive(Monitored(c.s, isBad))])
  BY <1>5
<1> HIDE DEF e
<1>7. u.m = e /\ Good(u, file)
  BY <1>4, InvFacts, ModelChange
<1> HIDE DEF u
<1>8. SetActiveAnchorCount(u, packet.count) = u
  BY <1>3, <1>4, <1>7 DEF SetActiveAnchorCount
<1>9. c.s = u
  BY <1>3, <1>4, <1>5, <1>7, <1>8 DEF Collected
<1> DEFINE s == Monitored(c.s, isBad)
           fallback == FallbackActive(s)
<1>10. isBad \in BOOLEAN
  BY DEF Residuals
<1>11. s.m = e /\ s \in States
  BY <1>1, <1>7, <1>9, <1>10, MonitoredGood DEF Good
<1>12. Set([s EXCEPT !.m.fallback = fallback])
  BY <1>6
<1> HIDE DEF s, fallback
<1>13. model' = [s.m EXCEPT !.fallback = fallback]
  BY <1>11, <1>12 DEF Set, States
<1> QED BY <1>4, <1>11, <1>13 DEF Model

(* Once a model is locked, only a command, a power loss or a packet whose  *)
(* parameters name another count takes it away: never a packet, a window   *)
(* or a parameter's write on its own.                                      *)
THEOREM LocksSurvive == Spec => LockSurvives
<1> DEFINE LockKept == model.locked /\ ~model'.locked =>
              \/ Command \/ PowerLoss
              \/ packet # NoPacket /\ (packet.overtaken \/ packet.count # model.modelCount)
<1>1. Inv /\ [Next]_vars => [LockKept]_vars
  <2> SUFFICES ASSUME Inv, Next, model.locked, ~model'.locked,
                      ~Command, ~PowerLoss
               PROVE  packet # NoPacket
                      /\ (packet.overtaken \/ packet.count # model.modelCount)
    OBVIOUS
  <2>1. Process
    BY DEF Next, WriteParam, ReadParams
  <2> QED BY <2>1, ProcessKeepsLock DEF Process
<1> QED BY <1>1, Invariance, PTL DEF Spec, LockSurvives

-----------------------------------------------------------------------------
(* The parameter store (ParamStore).                                       *)

\* The accesses of a command from its head on: a step x, and the rest s of them.
Then(op, s) == <<On(op, None)>> \o s

\* One sequence and another after it.
Cat(r, s) == r \o s

\* What LoadConfigNamed has still to do, from the reading of the parameters back to
\* its beginning.
Ending == Then("check", Then("dropBackup", <<>>))
FromLoads == Cat(LoadAllParams, Ending)
FromMeta == Then("saveMeta", FromLoads)
FromActivate == Then("activate", FromMeta)
FromInstall == Then("install", FromActivate)
FromBackup == Then("backup", FromInstall)
FromClear == Then("clearBackup", FromBackup)
FromFind == Then("find", FromClear)

\* The same for restorePreviousParams,
UndoMeta == Then("saveMeta", LoadAllParams)
UndoActive == Then("reactivate", UndoMeta)
UndoClear == Then("clearBackup", UndoActive)
UndoCopy == Then("copyBack", UndoClear)

\* SaveConfigAs after the parameters have been saved, and DeleteConfig.
AsMeta == Then("saveMeta", <<>>)
AsRegister == Then("register", AsMeta)
AsCopy == Then("copyOut", AsRegister)
AsAdmit == Then("admit", AsCopy)
DelActive == Then("deactivate", AsMeta)
DelRemove == Then("removeConfig", DelActive)
DelUnlist == Then("unlist", DelRemove)

Loads == {On("load", g) : g \in Groups}
WritesOf(G) == {On("write", g) : g \in G}
Elements(s) == {s[i] : i \in DOMAIN s}

-----------------------------------------------------------------------------
\* The parameters are those before the command.
Unchanged == /\ ram = cmd.from.ram /\ paramsTxt = cmd.from.paramsTxt
             /\ live.active = cmd.from.active

\* Group g has in memory what is on file.
InMemory(g) == paramsTxt # Missing /\ paramsTxt[g] # NoLine => ram[g] = paramsTxt[g]

\* There was no fault, and the command began with the parameters on file.
Clean == faults = 0 /\ Booted(cmd.from.paramsTxt) = cmd.from.ram
OldOrNew(content) == Booted(content) \in {cmd.from.ram, Target}

\* The groups of G are being saved, and rest comes after that.
Saving(G, rest) ==
  /\ Clean => ram = Target
  /\ \E w \in Seq(WritesOf(G)) :
       \/ todo = Cat(w, rest) /\ (Clean => OldOrNew(paramsTxt))
       \/ /\ todo = Then("remove", Then("rename", Cat(w, rest)))
          /\ Clean => OldOrNew(paramsTxt) /\ Booted(tmp) = Target
       \/ /\ todo = Then("rename", Cat(w, rest))
          /\ Clean => paramsTxt = Missing /\ Booted(tmp) = Target

\* The active configuration is listed, but for metadata cut short.
Listed(data) == data.cut \/ data.active \in data.list \cup {None}
Room == cmd.name \in live.list \/ Cardinality(live.list) < MaxConfigs

SetPhase ==
  /\ cmd.group \in Groups /\ cmd.value \in Values /\ Listed(live)
  /\ \/ todo = Then("store", <<On("write", cmd.group)>>) /\ Unchanged
     \/ Saving({cmd.group}, <<>>)

SavePhase == Listed(live) /\ Saving(Groups, <<>>)

LoadPhase == Listed(live) /\ todo \in Seq(Loads) /\ paramsTxt = cmd.from.paramsTxt

SaveAsPhase ==
  /\ cmd.name \in Names /\ Listed(live)
  /\ \/ Saving(Groups, AsAdmit)
     \/ /\ todo \in {AsCopy, AsRegister} /\ Room
        /\ Clean => OldOrNew(paramsTxt)
     \/ todo \in {AsMeta, <<>>} /\ (Clean => OldOrNew(paramsTxt))

DeletePhase ==
  /\ cmd.name \in Names /\ paramsTxt = cmd.from.paramsTxt
  /\ \/ todo \in {DelUnlist, AsMeta, <<>>} /\ Listed(live)
     \/ todo \in {DelRemove, DelActive} /\ (Listed(live) \/ live.active = cmd.name)

\* LoadConfigNamed: what it has found, kept and installed by now.
Found == cmd.name \in live.list /\ conf[cmd.name] # Missing
Kept == bak = cmd.from.paramsTxt
Installed == paramsTxt = conf[cmd.name]

Loading ==
  \/ todo = FromFind /\ ~cmd.failed /\ Unchanged
  \/ todo \in {FromClear, FromBackup} /\ ~cmd.failed /\ Unchanged /\ Found
  \/ todo = FromInstall /\ ~cmd.failed /\ Unchanged /\ Found /\ Kept
  \/ todo = FromActivate /\ ~cmd.failed /\ Found /\ Kept /\ Installed
  \/ /\ todo = FromMeta /\ ~cmd.failed /\ Found /\ Kept /\ Installed
     /\ live.active = cmd.name
  \/ /\ Found /\ Kept /\ Installed
     /\ live.active = cmd.name /\ (meta.cut \/ meta = live)
     /\ \E s \in Seq(Loads) :
          /\ todo = Cat(s, Ending)
          /\ cmd.failed \/ \A g \in Groups : On("load", g) \in Elements(s) \/ InMemory(g)
  \/ /\ todo \in {Then("dropBackup", <<>>), <<>>} /\ ~cmd.failed
     /\ Found /\ Installed /\ live.active = cmd.name /\ (meta.cut \/ meta = live)
     /\ \A g \in Groups : InMemory(g)
  \/ todo = <<>> /\ cmd.failed /\ Unchanged

\* restorePreviousParams, unless one of its own steps fails.
Restored == cmd.hurt \/ paramsTxt = cmd.from.paramsTxt

Undoing ==
  \/ todo = UndoCopy /\ Kept
  \/ todo \in {UndoClear, UndoActive} /\ Restored
  \/ todo = UndoMeta /\ Restored /\ live.active = cmd.from.active
  \/ /\ todo \in Seq(Loads) /\ Restored /\ live.active = cmd.from.active
     /\ cmd.hurt \/ \A g \in Groups : On("load", g) \in Elements(todo) \/ InMemory(g)

LoadNamedPhase ==
  /\ cmd.name \in Names /\ Listed(live)
  /\ live.cut \/ cmd.from.active \in live.list \cup {None}
  /\ cmd.hurt => faults > 0
  /\ faults = 0 => paramsTxt = cmd.from.paramsTxt \/ Installed
  /\ IF cmd.restoring THEN cmd.failed /\ Undoing ELSE Loading

Phase == /\ cmd.kind = None => todo = <<>> /\ Listed(live)
         /\ cmd.kind = "set" => SetPhase
         /\ cmd.kind = "save" => SavePhase
         /\ cmd.kind = "load" => LoadPhase
         /\ cmd.kind = "saveAs" => SaveAsPhase
         /\ cmd.kind = "delete" => DeletePhase
         /\ cmd.kind = "loadNamed" => LoadNamedPhase

StoreInv ==
  /\ STypeOK
  /\ Listed(meta) /\ IsFiniteSet(meta.list) /\ Cardinality(meta.list) <= MaxConfigs
  /\ Phase

-----------------------------------------------------------------------------
LEMMA Ahead ==
  ASSUME NEW X, NEW x \in X, NEW s \in Seq(X)
  PROVE  /\ <<x>> \o s \in Seq(X) /\ <<x>> \o s # <<>>
         /\ Head(<<x>> \o s) = x /\ Tail(<<x>> \o s) = s
<1>1. <<x>> \in Seq(X) /\ Len(<<x>>) = 1 /\ <<x>>[1] = x
  OBVIOUS
<1>2. /\ <<x>> \o s \in Seq(X) /\ Len(<<x>> \o s) = Len(s) + 1 /\ (<<x>> \o s)[1] = x
      /\ \A i \in 1 .. Len(s) : (<<x>> \o s)[i + 1] = s[i]
  BY <1>1
<1>3. <<x>> \o s # <<>> /\ Head(<<x>> \o s) = x
  BY <1>2
<1>4. /\ Tail(<<x>> \o s) \in Seq(X) /\ Len(Tail(<<x>> \o s)) = Len(s)
      /\ \A i \in 1 .. Len(s) : Tail(<<x>> \o s)[i] = s[i]
  BY <1>2, <1>3
<1>5. Tail(<<x>> \o s) = s
  BY <1>4, SeqEqual
<1> QED BY <1>2, <1>3, <1>5

LEMMA Parts ==
  ASSUME NEW X, NEW s \in Seq(X), s # <<>>
  PROVE  /\ Head(s) \in X /\ Tail(s) \in Seq(X) /\ s = <<Head(s)>> \o Tail(s)
         /\ Elements(s) = {Head(s)} \cup Elements(Tail(s))
<1>1. /\ Head(s) \in X /\ Tail(s) \in Seq(X) /\ Head(s) = s[1] /\ Len(s) \in Nat \ {0}
      /\ Len(Tail(s)) = Len(s) - 1 /\ \A i \in 1 .. Len(s) - 1 : Tail(s)[i] = s[i + 1]
  OBVIOUS
<1>2. s = <<Head(s)>> \o Tail(s)
  <2>1. /\ <<Head(s)>> \o Tail(s) \in Seq(X) /\ Len(<<Head(s)>> \o Tail(s)) = Len(s)
        /\ \A i \in 1 .. Len(s) : (<<Head(s)>> \o Tail(s))[i] = s[i]
    BY <1>1
  <2> QED BY <2>1, SeqEqual
<1>3. Elements(s) = {Head(s)} \cup Elements(Tail(s))
  <2>1. ASSUME NEW x \in Elements(s) PROVE x \in {Head(s)} \cup Elements(Tail(s))
    <3>1. PICK i \in 1 .. Len(s) : x = s[i]
      BY <1>1, <2>1 DEF Elements
    <3>2. CASE i = 1
      BY <1>1, <3>1, <3>2
    <3>3. CASE i # 1
      <4>1. i - 1 \in 1 .. Len(s) - 1 /\ (i - 1) + 1 = i
        BY <1>1, <3>1, <3>3
      <4>2. i - 1 \in DOMAIN Tail(s) /\ x = Tail(s)[i - 1]
        BY <1>1, <3>1, <4>1
      <4> QED BY <4>2 DEF Elements
    <3> QED BY <3>2, <3>3
  <2>2. ASSUME NEW x \in Elements(Tail(s)) PROVE x \in Elements(s)
    <3>1. PICK i \in 1 .. Len(s) - 1 : x = Tail(s)[i]
      BY <1>1, <2>2 DEF Elements
    <3> QED BY <1>1, <3>1 DEF Elements
  <2>3. Head(s) \in Elements(s)
    BY <1>1 DEF Elements
  <2> QED BY <2>1, <2>2, <2>3
<1> QED BY <1>1, <1>2, <1>3

LEMMA Associated ==
  ASSUME NEW X, NEW r \in Seq(X), NEW s \in Seq(X), NEW t \in Seq(X)
  PROVE  (r \o s) \o t = r \o (s \o t) /\ s \o t \in Seq(X)
<1>1. /\ s \o t \in Seq(X) /\ r \o s \in Seq(X)
      /\ (r \o s) \o t \in Seq(X) /\ r \o (s \o t) \in Seq(X)
      /\ Len((r \o s) \o t) = Len(r \o (s \o t))
  OBVIOUS
<1>2. ASSUME NEW i \in 1 .. Len((r \o s) \o t)
      PROVE  ((r \o s) \o t)[i] = (r \o (s \o t))[i]
  BY <1>1
<1> QED BY <1>1, <1>2, SeqEqual

\* What comes first of a sequence in front of another.
LEMMA InFront ==
  ASSUME NEW X, NEW s \in Seq(X), NEW t \in Seq(X), s # <<>>
  PROVE  /\ s \o t # <<>> /\ Head(s \o t) = Head(s) /\ Tail(s \o t) = Tail(s) \o t
<1>1. Head(s) \in X /\ Tail(s) \in Seq(X) /\ s = <<Head(s)>> \o Tail(s)
  BY Parts
<1>2. <<Head(s)>> \in Seq(X)
  BY <1>1
<1>3. s \o t = <<Head(s)>> \o (Tail(s) \o t) /\ Tail(s) \o t \in Seq(X)
  BY <1>1, <1>2, Associated
<1> QED BY <1>1, <1>3, Ahead

LEMMA Nothing ==
  ASSUME NEW X, NEW s \in Seq(X) PROVE <<>> \o s = s /\ s \o <<>> = s /\ Elements(<<>>) = {}
BY ConcatEmptySeq DEF Elements

-----------------------------------------------------------------------------
(* What the commands are made of.                                          *)

LEMMA Orders ==
  /\ DOMAIN Order = 1 .. Len(Order) /\ Len(Order) \in Nat
  /\ \A i \in DOMAIN Order : Order[i] \in Groups
  /\ \A g \in Groups : \E i \in DOMAIN Order : Order[i] = g
<1>1. Order \in Seq(Groups)
  BY StoreAssumption
<1>2. \A g \in Groups : \E i \in DOMAIN Order : Order[i] = g
  BY DEF Groups, ToSet
<1> QED BY <1>1, <1>2

LEMMA SavesAndLoads ==
  /\ SaveAllParams \in Seq(WritesOf(Groups))
  /\ LoadAllParams \in Seq(Loads)
  /\ \A g \in Groups : On("load", g) \in Elements(LoadAllParams)
<1>1. SaveAllParams \in [1 .. Len(Order) -> WritesOf(Groups)]
  BY Orders DEF SaveAllParams, WritesOf
<1>2. LoadAllParams \in [1 .. Len(Order) -> Loads]
  BY Orders DEF LoadAllParams, Loads
<1>3. ASSUME NEW g \in Groups PROVE On("load", g) \in Elements(LoadAllParams)
  <2>1. PICK i \in DOMAIN Order : Order[i] = g
    BY Orders
  <2> QED BY <2>1 DEF LoadAllParams, Elements
<1> QED BY <1>1, <1>2, <1>3, Orders, SeqDef

LEMMA SomeAccesses ==
  /\ \A op \in Ops : On(op, None) \in Accesses /\ On(op, None).op = op
  /\ \A G \in SUBSET Groups : WritesOf(G) \subseteq Accesses
  /\ \A G \in SUBSET Groups : \A x \in WritesOf(G) : x.op = "write" /\ x.group \in G
  /\ Loads \subseteq Accesses
  /\ \A x \in Loads : x.op = "load" /\ x.group \in Groups /\ x = On("load", x.group)
BY DEF On, Accesses, Ops, WritesOf, Loads

LEMMA Thens ==
  ASSUME NEW op \in Ops, NEW s \in Seq(Accesses)
  PROVE  /\ Then(op, s) \in Seq(Accesses) /\ Then(op, s) # <<>>
         /\ Head(Then(op, s)).op = op /\ Tail(Then(op, s)) = s
BY SomeAccesses, Ahead DEF Then

LEMMA Subsequences ==
  /\ \A s \in Seq(Loads) : s \in Seq(Accesses)
  /\ \A G \in SUBSET Groups : \A s \in Seq(WritesOf(G)) : s \in Seq(Accesses)
  /\ <<>> \in Seq(Accesses)
<1>1. Seq(Loads) \subseteq Seq(Accesses)
  BY SomeAccesses, SeqMonotonic
<1>2. ASSUME NEW G \in SUBSET Groups PROVE Seq(WritesOf(G)) \subseteq Seq(Accesses)
  BY SomeAccesses, SeqMonotonic
<1> QED BY <1>1, <1>2

LEMMA Cats ==
  /\ \A r, s \in Seq(Accesses) : Cat(r, s) \in Seq(Accesses)
  /\ \A r, s, t \in Seq(Accesses) : Cat(Cat(r, s), t) = Cat(r, Cat(s, t))
<1>1. ASSUME NEW r \in Seq(Accesses), NEW s \in Seq(Accesses)
      PROVE  Cat(r, s) \in Seq(Accesses)
  BY DEF Cat
<1>2. ASSUME NEW r \in Seq(Accesses), NEW s \in Seq(Accesses), NEW t \in Seq(Accesses)
      PROVE  Cat(Cat(r, s), t) = Cat(r, Cat(s, t))
  <2> DEFINE X == Accesses
  <2> HIDE DEF X
  <2>1. r \in Seq(X) /\ s \in Seq(X) /\ t \in Seq(X)
    BY DEF X
  <2>2. (r \o s) \o t = r \o (s \o t)
    <3>1. /\ s \o t \in Seq(X) /\ r \o s \in Seq(X)
          /\ (r \o s) \o t \in Seq(X) /\ r \o (s \o t) \in Seq(X)
          /\ Len((r \o s) \o t) = Len(r \o (s \o t))
      BY <2>1
    <3>2. ASSUME NEW i \in 1 .. Len((r \o s) \o t)
          PROVE  ((r \o s) \o t)[i] = (r \o (s \o t))[i]
      BY <2>1, <3>1
    <3> QED BY <3>1, <3>2, SeqEqual
  <2> QED BY <2>2 DEF Cat
<1> QED BY <1>1, <1>2

\* A step op of a command, with s after it.
StepOf(op, t, s) == t \in Seq(Accesses) /\ t # <<>> /\ Head(t).op = op /\ Tail(t) = s

LEMMA Remainders ==
  /\ Ending \in Seq(Accesses) /\ FromLoads \in Seq(Accesses)
  /\ StepOf("check", Ending, Then("dropBackup", <<>>))
  /\ StepOf("dropBackup", Then("dropBackup", <<>>), <<>>)
  /\ StepOf("saveMeta", FromMeta, FromLoads) /\ StepOf("activate", FromActivate, FromMeta)
  /\ StepOf("install", FromInstall, FromActivate)
  /\ StepOf("backup", FromBackup, FromInstall)
  /\ StepOf("clearBackup", FromClear, FromBackup)
  /\ StepOf("find", FromFind, FromClear)
<1>1. LoadAllParams \in Seq(Accesses) /\ <<>> \in Seq(Accesses)
  BY SavesAndLoads, Subsequences
<1>2. {"check", "dropBackup", "saveMeta", "activate", "install", "backup", "clearBackup",
       "find"} \subseteq Ops
  BY DEF Ops
<1>3. StepOf("dropBackup", Then("dropBackup", <<>>), <<>>)
  BY <1>1, <1>2, Thens DEF StepOf
<1>4. StepOf("check", Ending, Then("dropBackup", <<>>))
  BY <1>2, <1>3, Thens DEF StepOf, Ending
<1>5. FromLoads \in Seq(Accesses)
  BY <1>1, <1>4, Cats DEF StepOf, FromLoads
<1>6. StepOf("saveMeta", FromMeta, FromLoads)
  BY <1>2, <1>5, Thens DEF StepOf, FromMeta
<1>7. StepOf("activate", FromActivate, FromMeta)
  BY <1>2, <1>6, Thens DEF StepOf, FromActivate
<1>8. StepOf("install", FromInstall, FromActivate)
  BY <1>2, <1>7, Thens DEF StepOf, FromInstall
<1>9. StepOf("backup", FromBackup, FromInstall)
  BY <1>2, <1>8, Thens DEF StepOf, FromBackup
<1>10. StepOf("clearBackup", FromClear, FromBackup)
  BY <1>2, <1>9, Thens DEF StepOf, FromClear
<1>11. StepOf("find", FromFind, FromClear)
  BY <1>2, <1>10, Thens DEF StepOf, FromFind
<1> QED BY <1>3, <1>4, <1>5, <1>6, <1>7, <1>8, <1>9, <1>10, <1>11 DEF StepOf

LEMMA UndoRemainders ==
  /\ StepOf("saveMeta", UndoMeta, LoadAllParams)
  /\ StepOf("reactivate", UndoActive, UndoMeta)
  /\ StepOf("clearBackup", UndoClear, UndoActive)
  /\ StepOf("copyBack", UndoCopy, UndoClear)
<1>1. LoadAllParams \in Seq(Accesses)
  BY SavesAndLoads, Subsequences
<1>2. {"saveMeta", "reactivate", "clearBackup", "copyBack"} \subseteq Ops
  BY DEF Ops
<1>3. StepOf("saveMeta", UndoMeta, LoadAllParams)
  BY <1>1, <1>2, Thens DEF StepOf, UndoMeta
<1>4. StepOf("reactivate", UndoActive, UndoMeta)
  BY <1>2, <1>3, Thens DEF StepOf, UndoActive
<1>5. StepOf("clearBackup", UndoClear, UndoActive)
  BY <1>2, <1>4, Thens DEF StepOf, UndoClear
<1>6. StepOf("copyBack", UndoCopy, UndoClear)
  BY <1>2, <1>5, Thens DEF StepOf, UndoCopy
<1> QED BY <1>3, <1>4, <1>5, <1>6

LEMMA OtherRemainders ==
  /\ StepOf("saveMeta", AsMeta, <<>>) /\ StepOf("register", AsRegister, AsMeta)
  /\ StepOf("copyOut", AsCopy, AsRegister) /\ StepOf("admit", AsAdmit, AsCopy)
  /\ StepOf("deactivate", DelActive, AsMeta) /\ StepOf("removeConfig", DelRemove, DelActive)
  /\ StepOf("unlist", DelUnlist, DelRemove)
<1>1. <<>> \in Seq(Accesses)
  BY Subsequences
<1>2. {"saveMeta", "register", "copyOut", "admit", "deactivate", "removeConfig", "unlist"}
        \subseteq Ops
  BY DEF Ops
<1>3. StepOf("saveMeta", AsMeta, <<>>)
  BY <1>1, <1>2, Thens DEF StepOf, AsMeta
<1>4. StepOf("register", AsRegister, AsMeta)
  BY <1>2, <1>3, Thens DEF StepOf, AsRegister
<1>5. StepOf("copyOut", AsCopy, AsRegister)
  BY <1>2, <1>4, Thens DEF StepOf, AsCopy
<1>6. StepOf("admit", AsAdmit, AsCopy)
  BY <1>2, <1>5, Thens DEF StepOf, AsAdmit
<1>7. StepOf("deactivate", DelActive, AsMeta)
  BY <1>2, <1>3, Thens DEF StepOf, DelActive
<1>8. StepOf("removeConfig", DelRemove, DelActive)
  BY <1>2, <1>7, Thens DEF StepOf, DelRemove
<1>9. StepOf("unlist", DelUnlist, DelRemove)
  BY <1>2, <1>8, Thens DEF StepOf, DelUnlist
<1> QED BY <1>3, <1>4, <1>5, <1>6, <1>7, <1>8, <1>9

LEMMA CatStep ==
  \A op \in Ops : /\ Do(op) \in Seq(Accesses)
                  /\ \A s \in Seq(Accesses) : Cat(Do(op), s) = Then(op, s)
BY SomeAccesses DEF Do, Then, Cat

LEMMA Programs ==
  /\ \A g \in Groups : SetParam(g) = Then("store", <<On("write", g)>>)
  /\ SaveConfigAs = Cat(SaveAllParams, AsAdmit)
  /\ LoadConfigNamed = FromFind /\ RestorePreviousParams = UndoCopy
  /\ DeleteConfig = DelUnlist
<1>0. /\ {"saveMeta", "register", "copyOut", "admit", "deactivate", "removeConfig",
          "unlist", "check", "dropBackup", "activate", "install", "backup",
          "clearBackup", "find", "reactivate", "copyBack"} \subseteq Ops
      /\ LoadAllParams \in Seq(Accesses) /\ SaveAllParams \in Seq(Accesses)
      /\ <<>> \in Seq(Accesses)
  BY SavesAndLoads, Subsequences DEF Ops
<1>a. \A op \in Ops : Then(op, <<>>) = Do(op)
  BY <1>0, SomeAccesses, ConcatEmptySeq DEF Then, Do
<1>b. \A op \in Ops, s, r \in Seq(Accesses) :
         /\ Cat(r, Do(op)) \in Seq(Accesses)
         /\ Cat(Cat(r, Do(op)), s) = Cat(r, Then(op, s))
  BY Cats, CatStep
<1>1. \A g \in Groups : SetParam(g) = Then("store", <<On("write", g)>>)
  BY DEF SetParam, Then, Do
<1>2. SaveConfigAs = Cat(SaveAllParams, AsAdmit)
  <2>1. SaveConfigAs = Cat(Cat(Cat(Cat(SaveAllParams, Do("admit")), Do("copyOut")),
                               Do("register")), Do("saveMeta"))
    BY DEF SaveConfigAs, Cat
  <2>2. /\ AsMeta = Do("saveMeta") /\ AsMeta \in Seq(Accesses)
        /\ AsRegister \in Seq(Accesses) /\ AsCopy \in Seq(Accesses)
    BY <1>0, <1>a, OtherRemainders DEF StepOf, AsMeta
  <2>3. SaveConfigAs = Cat(SaveAllParams, AsAdmit)
    <3> DEFINE s1 == Cat(SaveAllParams, Do("admit"))
               s2 == Cat(s1, Do("copyOut"))
    <3>1. s1 \in Seq(Accesses) /\ Cat(s1, AsCopy) = Cat(SaveAllParams, AsAdmit)
      BY <1>0, <1>b, <2>2 DEF AsAdmit
    <3> HIDE DEF s1
    <3>2. s2 \in Seq(Accesses) /\ Cat(s2, AsRegister) = Cat(s1, AsCopy)
      BY <1>0, <1>b, <2>2, <3>1 DEF AsCopy
    <3>3. SaveConfigAs = Cat(Cat(s2, Do("register")), Do("saveMeta"))
      BY <2>1 DEF s1
    <3> HIDE DEF s2
    <3>4. SaveConfigAs = Cat(s2, AsRegister)
      BY <1>0, <1>b, <2>2, <3>2, <3>3 DEF AsRegister
    <3> QED BY <3>1, <3>2, <3>4
  <2> QED BY <2>3
<1>3. LoadConfigNamed = FromFind
  <2> DEFINE Start == Cat(Cat(Cat(Cat(Cat(Do("find"), Do("clearBackup")), Do("backup")),
                              Do("install")), Do("activate")), Do("saveMeta"))
  <2>1. LoadConfigNamed = Cat(Cat(Cat(Start, LoadAllParams), Do("check")), Do("dropBackup"))
    BY DEF LoadConfigNamed, Cat
  <2>2. /\ Do("dropBackup") = Then("dropBackup", <<>>)
        /\ Then("dropBackup", <<>>) \in Seq(Accesses) /\ Ending \in Seq(Accesses)
        /\ FromLoads = Cat(LoadAllParams, Ending) /\ FromLoads \in Seq(Accesses)
    BY <1>0, <1>a, Remainders DEF StepOf, FromLoads
  <2>3. /\ FromMeta \in Seq(Accesses) /\ FromActivate \in Seq(Accesses)
        /\ FromInstall \in Seq(Accesses) /\ FromBackup \in Seq(Accesses)
        /\ FromClear \in Seq(Accesses)
    BY Remainders DEF StepOf
  <2>4. Cat(Start, FromLoads) = FromFind
    <3> DEFINE s1 == Do("find")
               s2 == Cat(s1, Do("clearBackup"))
               s3 == Cat(s2, Do("backup"))
               s4 == Cat(s3, Do("install"))
               s5 == Cat(s4, Do("activate"))
    <3>1. s1 \in Seq(Accesses) /\ Cat(s1, FromClear) = FromFind
      BY <1>0, <2>3, CatStep DEF FromFind
    <3>2. Start = Cat(s5, Do("saveMeta"))
      OBVIOUS
    <3> HIDE DEF s1
    <3>3. s2 \in Seq(Accesses) /\ Cat(s2, FromBackup) = Cat(s1, FromClear)
      BY <1>0, <1>b, <2>3, <3>1 DEF FromClear
    <3> HIDE DEF s2
    <3>4. s3 \in Seq(Accesses) /\ Cat(s3, FromInstall) = Cat(s2, FromBackup)
      BY <1>0, <1>b, <2>3, <3>3 DEF FromBackup
    <3> HIDE DEF s3
    <3>5. s4 \in Seq(Accesses) /\ Cat(s4, FromActivate) = Cat(s3, FromInstall)
      BY <1>0, <1>b, <2>3, <3>4 DEF FromInstall
    <3> HIDE DEF s4
    <3>6. s5 \in Seq(Accesses) /\ Cat(s5, FromMeta) = Cat(s4, FromActivate)
      BY <1>0, <1>b, <2>3, <3>5 DEF FromActivate
    <3> HIDE DEF s5, Start
    <3>7. Cat(Start, FromLoads) = Cat(s5, FromMeta)
      BY <1>0, <1>b, <2>2, <3>2, <3>6 DEF FromMeta
    <3> QED BY <3>1, <3>3, <3>4, <3>5, <3>6, <3>7
  <2>5. Start \in Seq(Accesses)
    BY <1>0, Cats, CatStep
  <2> HIDE DEF Start
  <2>6. Cat(Start, LoadAllParams) \in Seq(Accesses)
    BY <1>0, <2>5, Cats
  <2>7. LoadConfigNamed = Cat(Cat(Start, LoadAllParams), Ending)
    BY <1>0, <1>b, <2>1, <2>2, <2>6 DEF Ending
  <2> QED BY <1>0, <2>2, <2>4, <2>5, <2>7, Cats
<1>4. RestorePreviousParams = UndoCopy
  <2>1. RestorePreviousParams = Cat(Cat(Cat(Cat(Do("copyBack"), Do("clearBackup")),
                                            Do("reactivate")), Do("saveMeta")),
                                    LoadAllParams)
    BY DEF RestorePreviousParams, Cat
  <2>2. /\ UndoMeta \in Seq(Accesses) /\ UndoActive \in Seq(Accesses)
        /\ UndoClear \in Seq(Accesses)
    BY UndoRemainders DEF StepOf
  <2> DEFINE s1 == Do("copyBack")
             s2 == Cat(s1, Do("clearBackup"))
             s3 == Cat(s2, Do("reactivate"))
  <2>3. s1 \in Seq(Accesses) /\ Cat(s1, UndoClear) = UndoCopy
    BY <1>0, <2>2, CatStep DEF UndoCopy
  <2>4. RestorePreviousParams = Cat(Cat(s3, Do("saveMeta")), LoadAllParams)
    BY <2>1
  <2> HIDE DEF s1
  <2>5. s2 \in Seq(Accesses) /\ Cat(s2, UndoActive) = Cat(s1, UndoClear)
    BY <1>0, <1>b, <2>2, <2>3 DEF UndoClear
  <2> HIDE DEF s2
  <2>6. s3 \in Seq(Accesses) /\ Cat(s3, UndoMeta) = Cat(s2, UndoActive)
    BY <1>0, <1>b, <2>2, <2>5 DEF UndoActive
  <2> HIDE DEF s3
  <2>7. RestorePreviousParams = Cat(s3, UndoMeta)
    BY <1>0, <1>b, <2>2, <2>4, <2>6 DEF UndoMeta
  <2> QED BY <2>3, <2>5, <2>6, <2>7
<1>5. DeleteConfig = DelUnlist
  <2>1. DeleteConfig = Cat(Cat(Cat(Do("unlist"), Do("removeConfig")), Do("deactivate")),
                           Do("saveMeta"))
    BY DEF DeleteConfig, Cat
  <2>2. /\ AsMeta = Do("saveMeta") /\ AsMeta \in Seq(Accesses)
        /\ DelActive \in Seq(Accesses) /\ DelRemove \in Seq(Accesses)
    BY <1>0, <1>a, OtherRemainders DEF StepOf, AsMeta
  <2> DEFINE s1 == Do("unlist")
             s2 == Cat(s1, Do("removeConfig"))
  <2>3. s1 \in Seq(Accesses) /\ Cat(s1, DelRemove) = DelUnlist
    BY <1>0, <2>2, CatStep DEF DelUnlist
  <2>4. DeleteConfig = Cat(Cat(s2, Do("deactivate")), Do("saveMeta"))
    BY <2>1
  <2> HIDE DEF s1
  <2>5. s2 \in Seq(Accesses) /\ Cat(s2, DelActive) = Cat(s1, DelRemove)
    BY <1>0, <1>b, <2>2, <2>3 DEF DelRemove
  <2> HIDE DEF s2
  <2>6. DeleteConfig = Cat(s2, DelActive)
    BY <1>0, <1>b, <2>2, <2>4, <2>5 DEF DelActive
  <2> QED BY <2>3, <2>5, <2>6
<1> QED BY <1>1, <1>2, <1>3, <1>4, <1>5

-----------------------------------------------------------------------------
(* What a step does: the accesses left, the command, the counts.           *)

Steps == SaveStep \/ LoadStep \/ ConfigStep

\* The head of what is left says which actions there can be.
LEMMA StepOps ==
  ASSUME Steps
  PROVE  /\ todo # <<>>
         /\ At("store") => Store
         /\ At("write") => Write \/ WriteShort \/ WriteFails
         /\ At("remove") => RemoveParams
         /\ At("rename") => Rename \/ RenameFails
         /\ At("load") => Load \/ LoadRejected \/ LoadBusy
         /\ At("admit") => Admit
         /\ At("copyOut") => CopyOut \/ CopyOutFails
         /\ At("register") => Register
         /\ At("saveMeta") => SaveMetadata \/ SaveMetadataShort \/ SaveMetadataFails
         /\ At("find") => Find
         /\ At("clearBackup") => DropBackup
         /\ At("dropBackup") => DropBackup
         /\ At("backup") => Backup \/ BackupFails
         /\ At("install") => Install \/ InstallFails
         /\ At("activate") => Activate
         /\ At("check") => Check
         /\ At("copyBack") => CopyBack \/ CopyBackFails
         /\ At("reactivate") => Reactivate
         /\ At("unlist") => Unlist
         /\ At("removeConfig") => RemoveConfig
         /\ At("deactivate") => Deactivate
<1>1. /\ Store => At("store")
      /\ Write \/ WriteShort \/ WriteFails => At("write")
      /\ RemoveParams => At("remove")
      /\ Rename \/ RenameFails => At("rename")
      /\ Load \/ LoadRejected \/ LoadBusy => At("load")
  BY DEF Store, Write, WriteShort, WriteFails, RemoveParams, Rename, RenameFails, Load,
         LoadRejected, LoadBusy
<1>2. /\ Admit => At("admit")
      /\ CopyOut \/ CopyOutFails => At("copyOut")
      /\ Register => At("register")
      /\ SaveMetadata \/ SaveMetadataShort \/ SaveMetadataFails => At("saveMeta")
      /\ Find => At("find")
      /\ DropBackup => At("clearBackup") \/ At("dropBackup")
      /\ Backup \/ BackupFails => At("backup")
      /\ Install \/ InstallFails => At("install")
  BY DEF Admit, CopyOut, CopyOutFails, Register, SaveMetadata, SaveMetadataShort,
         SaveMetadataFails, Find, DropBackup, Backup, BackupFails, Install, InstallFails
<1>3. /\ Activate => At("activate")
      /\ Check => At("check")
      /\ CopyBack \/ CopyBackFails => At("copyBack")
      /\ Reactivate => At("reactivate")
      /\ Unlist => At("unlist")
      /\ RemoveConfig => At("removeConfig")
      /\ Deactivate => At("deactivate")
  BY DEF Activate, Check, CopyBack, CopyBackFails, Reactivate, Unlist, RemoveConfig,
         Deactivate
<1> QED BY <1>1, <1>2, <1>3 DEF Steps, SaveStep, LoadStep, ConfigStep, At

LEMMA Control ==
  ASSUME Steps
  PROVE  /\ Continue \/ Abandon \/ Restore \/ GoOn \/ Replace
         /\ UNCHANGED counts \/ Fault
<1>1. CASE SaveStep
  BY <1>1 DEF SaveStep, Store, Write, WriteShort, WriteFails, RemoveParams, Rename,
     RenameFails
<1>2. CASE LoadStep
  BY <1>2 DEF LoadStep, Load, LoadRejected, LoadBusy
<1>3. CASE ConfigStep
  BY <1>3 DEF ConfigStep, Admit, CopyOut, CopyOutFails, Register, SaveMetadata,
     SaveMetadataShort, SaveMetadataFails, Find, DropBackup, Backup, BackupFails, Install, InstallFails,
     Activate, Check, CopyBack, CopyBackFails, Reactivate, Unlist, RemoveConfig, Deactivate
<1> QED BY <1>1, <1>2, <1>3 DEF Steps

CmdType == [kind : Kinds \cup {None}, group : Groups \cup {None},
            value : Values \cup {None}, name : Names \cup {None},
            from : [ram : [Groups -> Values], paramsTxt : Content \cup {Missing},
                    active : Names \cup {None}],
            failed : BOOLEAN, hurt : BOOLEAN, restoring : BOOLEAN]

\* A step leaves the command what it is; how it goes is noted.
SameCommand == /\ cmd'.kind = cmd.kind /\ cmd'.group = cmd.group /\ cmd'.value = cmd.value
               /\ cmd'.name = cmd.name /\ cmd'.from = cmd.from
               /\ cmd.failed => cmd'.failed

LEMMA Follow ==
  ASSUME cmd \in CmdType
  PROVE  /\ Continue \/ Replace => cmd' = cmd
         /\ Abandon => /\ cmd'.failed = TRUE /\ cmd'.restoring = cmd.restoring
                       /\ cmd'.hurt = cmd.hurt /\ SameCommand /\ cmd' \in CmdType
         /\ Restore => /\ cmd'.failed = TRUE /\ cmd'.restoring = TRUE
                       /\ cmd'.hurt = cmd.hurt /\ SameCommand /\ cmd' \in CmdType
         /\ GoOn => /\ cmd'.failed = TRUE /\ cmd'.restoring = cmd.restoring
                    /\ cmd'.hurt = (cmd.hurt \/ cmd.restoring) /\ SameCommand
                    /\ cmd' \in CmdType
<1> USE DEF CmdType
<1>1. Continue \/ Replace => cmd' = cmd
  BY DEF Continue, Replace
<1>2. Abandon => /\ cmd'.failed = TRUE /\ cmd'.restoring = cmd.restoring
                 /\ cmd'.hurt = cmd.hurt /\ SameCommand /\ cmd' \in CmdType
  BY DEF Abandon, SameCommand
<1>3. Restore => /\ cmd'.failed = TRUE /\ cmd'.restoring = TRUE
                 /\ cmd'.hurt = cmd.hurt /\ SameCommand /\ cmd' \in CmdType
  BY DEF Restore, SameCommand
<1>4. GoOn => /\ cmd'.failed = TRUE /\ cmd'.restoring = cmd.restoring
              /\ cmd'.hurt = (cmd.hurt \/ cmd.restoring) /\ SameCommand
              /\ cmd' \in CmdType
  <2> SUFFICES ASSUME GoOn
               PROVE  /\ cmd'.failed = TRUE /\ cmd'.restoring = cmd.restoring
                      /\ cmd'.hurt = (cmd.hurt \/ cmd.restoring) /\ SameCommand
                      /\ cmd' \in CmdType
    OBVIOUS
  <2>1. PICK hurt \in BOOLEAN : hurt = (cmd.hurt \/ cmd.restoring)
    OBVIOUS
  <2>2. cmd' = [cmd EXCEPT !.failed = TRUE, !.hurt = hurt]
    <3>1. cmd' = [cmd EXCEPT !.failed = TRUE, !.hurt = cmd.hurt \/ cmd.restoring]
      BY DEF GoOn
    <3> QED BY <3>1, <2>1, Zenon
  <2>3. cmd'.hurt = hurt /\ cmd'.failed = TRUE
    BY <2>2
  <2>4. cmd'.restoring = cmd.restoring /\ SameCommand /\ cmd' \in CmdType
    BY <2>2 DEF SameCommand
  <2> QED BY <2>1, <2>3, <2>4
<1> QED BY <1>1, <1>2, <1>3, <1>4

\* What is left after it.
LEMMA Left ==
  ASSUME todo \in Seq(Accesses), todo # <<>>
  PROVE  /\ Tail(todo) \in Seq(Accesses)
         /\ Continue \/ GoOn => todo' = Tail(todo)
         /\ Abandon => todo' = <<>>
         /\ Restore => todo' = UndoCopy
         /\ Replace => todo' = Then("remove", Then("rename", Tail(todo)))
<1>1. Tail(todo) \in Seq(Accesses)
  BY Parts
<1>2. Restore => todo' = UndoCopy
  BY Programs DEF Restore
<1>3. Replace => todo' = Then("remove", Then("rename", Tail(todo)))
  <2>1. {"remove", "rename"} \subseteq Ops
    BY DEF Ops
  <2>2. Replace => todo' = Cat(Cat(Do("remove"), Do("rename")), Tail(todo))
    BY DEF Replace, Cat
  <2>3. Cat(Cat(Do("remove"), Do("rename")), Tail(todo))
          = Cat(Do("remove"), Then("rename", Tail(todo)))
    <3> DEFINE r == Do("remove")  s == Do("rename")  u == Tail(todo)
    <3>1. r \in Seq(Accesses) /\ s \in Seq(Accesses) /\ Cat(s, u) = Then("rename", u)
      BY <1>1, <2>1, CatStep
    <3> HIDE DEF r, s, u
    <3>2. u \in Seq(Accesses)
      BY <1>1 DEF u
    <3>3. Cat(Cat(r, s), u) = Cat(r, Then("rename", u))
      BY <3>1, <3>2, Cats
    <3> QED BY <3>3 DEF r, s, u
  <2>4. Then("rename", Tail(todo)) \in Seq(Accesses)
    BY <1>1, <2>1, Thens
  <2> QED BY <2>1, <2>2, <2>3, <2>4, CatStep
<1> QED BY <1>1, <1>2, <1>3 DEF Continue, GoOn, Abandon

LEMMA ControlTypes ==
  ASSUME STypeOK, Steps
  PROVE  /\ cmd' \in CmdType /\ SameCommand /\ todo' \in Seq(Accesses)
         /\ (cmd.hurt => cmd'.hurt) /\ (cmd.restoring => cmd'.restoring)
         /\ commands' \in 0 .. MaxCommands
         /\ faults' \in 0 .. MaxFaults /\ crashes' \in 0 .. MaxCrashes
         /\ crashes' = crashes /\ (faults' = 0 => faults = 0) /\ (faults' # faults => faults' > 0)
<1>1. cmd \in CmdType /\ todo \in Seq(Accesses) /\ todo # <<>>
  BY StepOps DEF STypeOK, CmdType
<1>2. cmd' \in CmdType /\ SameCommand /\ (cmd.hurt => cmd'.hurt) /\ (cmd.restoring => cmd'.restoring)
  BY <1>1, Control, Follow DEF SameCommand
<1>3. todo' \in Seq(Accesses)
  <2>1. <<>> \in Seq(Accesses) /\ UndoCopy \in Seq(Accesses)
    BY Subsequences, UndoRemainders DEF StepOf
  <2>2. Then("remove", Then("rename", Tail(todo))) \in Seq(Accesses)
    BY <1>1, Left, Thens DEF Ops
  <2> QED BY <1>1, <2>1, <2>2, Control, Left
<1>4. /\ commands \in 0 .. MaxCommands /\ faults \in 0 .. MaxFaults
      /\ crashes \in 0 .. MaxCrashes /\ MaxFaults \in Nat
  BY StoreAssumption DEF STypeOK
<1>5. /\ commands' = commands /\ crashes' = crashes
      /\ faults' = faults \/ (faults < MaxFaults /\ faults' = faults + 1)
  <2>1. UNCHANGED counts \/ Fault
    BY Control
  <2> QED BY <2>1 DEF Fault, counts
<1>6. /\ faults' \in 0 .. MaxFaults /\ (faults' = 0 => faults = 0)
      /\ (faults' # faults => faults' > 0)
  BY <1>4, <1>5
<1> QED BY <1>2, <1>3, <1>4, <1>5, <1>6

-----------------------------------------------------------------------------
(* The parameters are saved.                                               *)

LEMMA Heads ==
  ASSUME NEW E \in SUBSET Accesses, NEW w \in Seq(E), NEW rest \in Seq(Accesses)
  PROVE  /\ Cat(w, rest) \in Seq(Accesses) /\ Cat(<<>>, rest) = rest /\ Cat(w, <<>>) = w
         /\ w # <<>> => /\ Head(w) \in E /\ Tail(w) \in Seq(E) /\ Cat(w, rest) # <<>>
                        /\ Head(Cat(w, rest)) = Head(w)
                        /\ Tail(Cat(w, rest)) = Cat(Tail(w), rest)
                        /\ Elements(w) = {Head(w)} \cup Elements(Tail(w))
<1>1. w \in Seq(Accesses)
  BY SeqMonotonic
<1>2. Cat(w, rest) \in Seq(Accesses) /\ Cat(<<>>, rest) = rest /\ Cat(w, <<>>) = w
  BY <1>1, ConcatEmptySeq DEF Cat
<1>3. ASSUME w # <<>>
      PROVE  /\ Head(w) \in E /\ Tail(w) \in Seq(E)
             /\ Elements(w) = {Head(w)} \cup Elements(Tail(w))
  <2> DEFINE X == E
  <2> HIDE DEF X
  <2>1. w \in Seq(X)
    BY DEF X
  <2>2. /\ Head(w) \in X /\ Tail(w) \in Seq(X)
        /\ Elements(w) = {Head(w)} \cup Elements(Tail(w))
    BY <1>3, <2>1, Parts
  <2> QED BY <2>2 DEF X
<1>4. ASSUME w # <<>>
      PROVE  /\ Cat(w, rest) # <<>> /\ Head(Cat(w, rest)) = Head(w)
             /\ Tail(Cat(w, rest)) = Cat(Tail(w), rest)
  <2> DEFINE X == Accesses
  <2> HIDE DEF X
  <2>1. w \in Seq(X) /\ rest \in Seq(X) /\ w # <<>>
    BY <1>1, <1>4 DEF X
  <2>2. /\ w \o rest # <<>> /\ Head(w \o rest) = Head(w)
        /\ Tail(w \o rest) = Tail(w) \o rest
    BY <2>1, InFront
  <2> QED BY <2>2 DEF Cat
<1> QED BY <1>2, <1>3, <1>4

\* What is in the files and in memory, by type.
LEMMA Typed ==
  ASSUME STypeOK
  PROVE  /\ ram \in [Groups -> Values]
         /\ paramsTxt \in Content \cup {Missing} /\ tmp \in Content \cup {Missing}
         /\ bak \in Content \cup {Missing}
         /\ conf \in [Names -> Content \cup {Missing}]
         /\ live \in [active : Names \cup {None}, list : SUBSET Names, cut : BOOLEAN]
         /\ meta \in [active : Names \cup {None}, list : SUBSET Names, cut : BOOLEAN]
         /\ IsFiniteSet(live.list) /\ Cardinality(live.list) <= MaxConfigs
         /\ cmd \in CmdType /\ todo \in Seq(Accesses)
         /\ faults \in Nat /\ crashes \in Nat
BY DEF STypeOK, CmdType

LEMMA LinesOf ==
  ASSUME STypeOK, NEW g \in Groups, ram = Target, OldOrNew(paramsTxt),
         cmd.kind \in {"set", "save", "saveAs"},
         cmd.kind = "set" => g = cmd.group /\ cmd.value \in Values
  PROVE  Booted(Lines(g)) = Target
<1>1. /\ ram \in [Groups -> Values] /\ cmd.from.ram \in [Groups -> Values]
      /\ paramsTxt = Missing \/ paramsTxt \in [Groups -> Values \cup {NoLine}]
      /\ NoLine \notin Values /\ Missing \notin Content
  BY Typed, StoreAssumption DEF CmdType, Content
<1>2. Lines(g) \in Content
  BY <1>1 DEF Lines, Content
<1>3. ASSUME NEW h \in Groups, h # g PROVE Booted(paramsTxt)[h] = ram[h]
  <2>1. Booted(paramsTxt) = cmd.from.ram \/ Booted(paramsTxt) = Target
    BY DEF OldOrNew
  <2>2. CASE Booted(paramsTxt) = Target
    BY <2>2
  <2>3. CASE Booted(paramsTxt) = cmd.from.ram
    BY <1>1, <1>3, <2>3 DEF Target
  <2> QED BY <2>1, <2>2, <2>3
<1>4. ASSUME NEW h \in Groups PROVE Booted(Lines(g))[h] = ram[h]
  <2>1. CASE h = g
    BY <1>1, <1>2, <2>1 DEF Booted, Lines
  <2>2. CASE h # g /\ paramsTxt = Missing
    BY <1>1, <1>2, <1>3, <2>2 DEF Booted, Lines
  <2>3. CASE h # g /\ paramsTxt # Missing
    BY <1>1, <1>2, <1>3, <2>3 DEF Booted, Lines
  <2> QED BY <2>1, <2>2, <2>3
<1>5. Booted(Lines(g)) \in [Groups -> Values]
  BY <1>2, StoreAssumption DEF Booted, Content
<1> QED BY <1>1, <1>4, <1>5

\* A step of saving the parameters leaves more of it or what comes after.
LEMMA SavingStep ==
  ASSUME STypeOK, Steps, NEW G \in SUBSET Groups, NEW rest \in Seq(Accesses),
         Saving(G, rest), todo # rest, cmd.kind \in {"set", "save", "saveAs"},
         cmd.kind = "set" => G = {cmd.group} /\ cmd.value \in Values
  PROVE  /\ Saving(G, rest)'
         /\ ram' = ram /\ UNCHANGED <<bak, conf, meta, live>>
         /\ paramsTxt' \in {paramsTxt, Missing, tmp} /\ tmp' \in Content \cup {Missing}
<1>1. /\ cmd \in CmdType /\ todo \in Seq(Accesses) /\ todo # <<>> /\ faults \in Nat
      /\ WritesOf(G) \in SUBSET Accesses
      /\ tmp \in Content \cup {Missing} /\ ram \in [Groups -> Values]
  BY Typed, StepOps, SomeAccesses
<1>2. /\ SameCommand /\ Target' = Target
      /\ Clean' => Clean /\ faults' = 0
      /\ \A c : (Booted(c) \in {cmd'.from.ram, Target'}) <=> OldOrNew(c)
  <2>1. SameCommand /\ (faults' = 0 => faults = 0)
    BY ControlTypes
  <2>2. Target' = Target
    BY <2>1 DEF Target, SameCommand
  <2>3. Clean' => Clean /\ faults' = 0
    BY <2>1 DEF Clean, SameCommand
  <2>4. \A c : (Booted(c) \in {cmd'.from.ram, Target'}) <=> OldOrNew(c)
    BY <2>1, <2>2 DEF OldOrNew, SameCommand
  <2> QED BY <2>1, <2>2, <2>3, <2>4
<1>3. PICK w \in Seq(WritesOf(G)) :
         \/ todo = Cat(w, rest) /\ (Clean => OldOrNew(paramsTxt))
         \/ /\ todo = Then("remove", Then("rename", Cat(w, rest)))
            /\ Clean => OldOrNew(paramsTxt) /\ Booted(tmp) = Target
         \/ /\ todo = Then("rename", Cat(w, rest))
            /\ Clean => paramsTxt = Missing /\ Booted(tmp) = Target
  BY DEF Saving
<1>4. Clean => ram = Target
  BY DEF Saving
<1>5. Cat(w, rest) \in Seq(Accesses) /\ <<>> \in Seq(Accesses)
  BY <1>1, Heads, Subsequences
<1>6. CASE todo = Cat(w, rest) /\ (Clean => OldOrNew(paramsTxt))
  <2> DEFINE v == Tail(w)
  <2>1. /\ w # <<>> /\ v \in Seq(WritesOf(G)) /\ Head(todo) \in WritesOf(G)
        /\ Tail(todo) = Cat(v, rest)
    <3> DEFINE E == WritesOf(G)
    <3> HIDE DEF E
    <3>1. E \in SUBSET Accesses /\ w \in Seq(E)
      BY <1>1 DEF E
    <3>2. w # <<>>
      BY <1>6, <3>1, Heads
    <3>3. /\ Head(w) \in E /\ Tail(w) \in Seq(E) /\ Head(Cat(w, rest)) = Head(w)
          /\ Tail(Cat(w, rest)) = Cat(Tail(w), rest)
      BY <3>1, <3>2, Heads
    <3> QED BY <1>6, <3>2, <3>3 DEF E
  <2> HIDE DEF v
  <2>2. At("write") /\ Head(todo).group \in G
    BY <1>1, <2>1, SomeAccesses DEF At
  <2>3. PICK g \in G : g = Head(todo).group
    BY <2>2
  <2>4. CASE Write
    <3>1. /\ tmp' = Lines(g) /\ paramsTxt' = paramsTxt /\ ram' = ram
          /\ UNCHANGED <<bak, conf, meta, live>>
          /\ todo' = Then("remove", Then("rename", Cat(v, rest)))
      BY <1>1, <2>1, <2>3, <2>4, Left DEF Write
    <3>2. Clean' => OldOrNew(paramsTxt) /\ Booted(tmp') = Target /\ ram = Target
      BY <1>2, <1>4, <1>6, <3>1, LinesOf
    <3>3. tmp' \in Content
      BY <1>1, <3>1, Typed DEF Lines, Content
    <3> QED BY <1>2, <2>1, <3>1, <3>2, <3>3 DEF Saving, OldOrNew
  <2>5. CASE WriteShort
    <3>1. /\ paramsTxt' = paramsTxt /\ ram' = ram
          /\ UNCHANGED <<bak, conf, meta, live>>
          /\ todo' = Then("remove", Then("rename", Cat(v, rest)))
      BY <1>1, <2>1, <2>5, Left DEF WriteShort
    <3>2. tmp' \in Content
      BY <1>1, <2>3, <2>5, Typed DEF WriteShort, Lines, Content
    <3>3. ~Clean'
      BY <1>1, <2>5 DEF WriteShort, Fault, Clean
    <3> QED BY <2>1, <3>1, <3>2, <3>3 DEF Saving
  <2>6. CASE WriteFails
    <3>1. /\ paramsTxt' = paramsTxt /\ ram' = ram /\ tmp' = tmp
          /\ UNCHANGED <<bak, conf, meta, live>> /\ todo' = Cat(v, rest)
      BY <1>1, <2>1, <2>6, Left DEF WriteFails, files
    <3>2. ~Clean'
      BY <1>1, <2>6 DEF WriteFails, Fault, Clean
    <3> QED BY <1>1, <2>1, <3>1, <3>2 DEF Saving
  <2> QED BY <2>2, <2>4, <2>5, <2>6, StepOps
<1>7. CASE /\ todo = Then("remove", Then("rename", Cat(w, rest)))
           /\ Clean => OldOrNew(paramsTxt) /\ Booted(tmp) = Target
  <2>1. At("remove") /\ Tail(todo) = Then("rename", Cat(w, rest))
    <3>1. "remove" \in Ops /\ "rename" \in Ops
      BY DEF Ops
    <3>2. Then("rename", Cat(w, rest)) \in Seq(Accesses)
      BY <1>5, <3>1, Thens
    <3> QED BY <1>1, <1>7, <3>1, <3>2, Thens DEF At
  <2>2. /\ paramsTxt' = Missing /\ ram' = ram /\ tmp' = tmp
        /\ UNCHANGED <<bak, conf, meta, live>>
        /\ todo' = Then("rename", Cat(w, rest))
    BY <1>1, <2>1, StepOps, Left DEF RemoveParams
  <2> QED BY <1>1, <1>2, <1>4, <1>7, <2>2 DEF Saving
<1>8. CASE /\ todo = Then("rename", Cat(w, rest))
           /\ Clean => paramsTxt = Missing /\ Booted(tmp) = Target
  <2>1. At("rename") /\ Tail(todo) = Cat(w, rest)
    BY <1>1, <1>5, <1>8, Thens DEF At, Ops
  <2>2. CASE Rename
    <3>1. /\ paramsTxt' = tmp /\ ram' = ram /\ tmp' = Missing
          /\ UNCHANGED <<bak, conf, meta, live>> /\ todo' = Cat(w, rest)
      BY <1>1, <2>1, <2>2, Left DEF Rename
    <3>2. Clean' => OldOrNew(paramsTxt') /\ ram' = Target
      BY <1>2, <1>4, <1>8, <3>1 DEF OldOrNew
    <3> QED BY <1>2, <3>1, <3>2 DEF Saving, OldOrNew
  <2>3. CASE RenameFails
    <3>1. /\ paramsTxt' = paramsTxt /\ ram' = ram /\ tmp' = tmp
          /\ UNCHANGED <<bak, conf, meta, live>> /\ todo' = Cat(w, rest)
      BY <1>1, <2>1, <2>3, Left DEF RenameFails, files
    <3>2. ~Clean'
      BY <1>1, <2>3 DEF RenameFails, Fault, Clean
    <3> QED BY <1>1, <3>1, <3>2 DEF Saving
  <2> QED BY <2>1, <2>2, <2>3, StepOps
<1> QED BY <1>3, <1>6, <1>7, <1>8

-----------------------------------------------------------------------------
(* One command after another: what its step leaves.                        *)

DataOK == /\ ram \in [Groups -> Values]
          /\ paramsTxt \in Content \cup {Missing} /\ tmp \in Content \cup {Missing}
          /\ bak \in Content \cup {Missing} /\ conf \in [Names -> Content \cup {Missing}]
          /\ live \in [active : Names \cup {None}, list : SUBSET Names, cut : BOOLEAN]
          /\ IsFiniteSet(live.list) /\ Cardinality(live.list) <= MaxConfigs
MetaOK == /\ meta \in [active : Names \cup {None}, list : SUBSET Names, cut : BOOLEAN]
          /\ Listed(meta) /\ IsFiniteSet(meta.list) /\ Cardinality(meta.list) <= MaxConfigs

LEMMA Data == ASSUME StoreInv PROVE DataOK /\ MetaOK
BY Typed DEF StoreInv, DataOK, MetaOK

LEMMA HeadStep ==
  ASSUME STypeOK, NEW op, NEW s, StepOf(op, todo, s)
  PROVE  /\ At(op) /\ (Continue \/ GoOn => todo' = s)
         /\ (Abandon => todo' = <<>>) /\ (Restore => todo' = UndoCopy)
BY Left DEF StepOf, At

\* SetParam stores the value, then saves its group.
LEMMA SetKind ==
  ASSUME StoreInv, Steps, cmd.kind = "set"
  PROVE  SetPhase' /\ DataOK' /\ MetaOK'
<1>1. STypeOK /\ DataOK /\ MetaOK /\ SetPhase /\ SameCommand /\ todo # <<>>
  BY Data, ControlTypes, StepOps DEF StoreInv, Phase
<1>2. /\ cmd.group \in Groups /\ cmd.value \in Values /\ Listed(live)
      /\ cmd'.group = cmd.group /\ cmd'.value = cmd.value
  BY <1>1 DEF SetPhase, SameCommand
<1>3. CASE todo = Then("store", <<On("write", cmd.group)>>) /\ Unchanged
  <2> DEFINE w == <<On("write", cmd.group)>>
  <2>1. w \in Seq(WritesOf({cmd.group})) /\ w \in Seq(Accesses) /\ Cat(w, <<>>) = w
    <3> DEFINE x == On("write", cmd.group)
               E == WritesOf({cmd.group})
    <3>1. x \in E /\ E \subseteq Accesses
      BY <1>2, SomeAccesses DEF WritesOf
    <3> HIDE DEF x, E
    <3>2. <<x>> \in Seq(E) /\ <<x>> \in Seq(Accesses)
      BY <3>1
    <3>3. Cat(<<x>>, <<>>) = <<x>>
      BY <3>2, ConcatEmptySeq DEF Cat
    <3> QED BY <3>2, <3>3 DEF x, E
  <2> HIDE DEF w
  <2>2. StepOf("store", todo, w)
    <3>1. "store" \in Ops /\ todo = Then("store", w)
      BY <1>3 DEF Ops, w
    <3> QED BY <2>1, <3>1, Thens DEF StepOf
  <2>3. Store /\ (Continue => todo' = w)
    BY <1>1, <2>2, HeadStep, StepOps
  <2>4. /\ ram' = [ram EXCEPT ![cmd.group] = cmd.value] /\ todo' = Cat(w, <<>>)
        /\ cmd' = cmd /\ UNCHANGED <<paramsTxt, tmp, bak, conf, meta, live, faults>>
    BY <2>1, <2>3 DEF Store, Continue, files, counts
  <2>5. DataOK' /\ MetaOK'
    <3>1. ram' \in [Groups -> Values]
      BY <1>1, <1>2, <2>4 DEF DataOK
    <3> QED BY <1>1, <2>4, <3>1 DEF DataOK, MetaOK, Listed
  <2>6. Clean' => ram' = Target' /\ OldOrNew(paramsTxt)'
    <3>1. Target' = [cmd.from.ram EXCEPT ![cmd.group] = cmd.value]
      BY <2>4 DEF Target
    <3>2. ram = cmd.from.ram /\ paramsTxt = cmd.from.paramsTxt
      BY <1>3 DEF Unchanged
    <3>3. Clean' => Booted(paramsTxt') = cmd'.from.ram
      BY <2>4, <3>2 DEF Clean
    <3> QED BY <2>4, <3>1, <3>2, <3>3 DEF OldOrNew
  <2>7. Saving({cmd.group}, <<>>)'
    BY <2>1, <2>4, <2>6 DEF Saving
  <2> QED BY <1>2, <2>4, <2>5, <2>7 DEF SetPhase, Listed
<1>4. CASE Saving({cmd.group}, <<>>)
  <2> DEFINE g == cmd.group
  <2>1. {g} \in SUBSET Groups /\ <<>> \in Seq(Accesses)
    BY <1>2, Subsequences
  <2>2. /\ Saving({g}, <<>>)' /\ ram' = ram /\ UNCHANGED <<bak, conf, meta, live>>
        /\ paramsTxt' \in {paramsTxt, Missing, tmp} /\ tmp' \in Content \cup {Missing}
    BY <1>1, <1>2, <1>4, <2>1, SavingStep
  <2>3. DataOK' /\ MetaOK'
    BY <1>1, <2>2 DEF DataOK, MetaOK, Listed
  <2> QED BY <1>2, <2>2, <2>3 DEF SetPhase, Listed
<1> QED BY <1>1, <1>3, <1>4 DEF SetPhase

LEMMA SaveKind ==
  ASSUME StoreInv, Steps, cmd.kind = "save"
  PROVE  SavePhase' /\ DataOK' /\ MetaOK'
<1>1. STypeOK /\ DataOK /\ MetaOK /\ Listed(live) /\ Saving(Groups, <<>>) /\ todo # <<>>
  BY Data, StepOps DEF StoreInv, Phase, SavePhase
<1>2. /\ Saving(Groups, <<>>)' /\ ram' = ram /\ UNCHANGED <<bak, conf, meta, live>>
      /\ paramsTxt' \in {paramsTxt, Missing, tmp} /\ tmp' \in Content \cup {Missing}
  BY <1>1, SavingStep, Subsequences
<1>3. DataOK' /\ MetaOK'
  BY <1>1, <1>2 DEF DataOK, MetaOK, Listed
<1> QED BY <1>1, <1>2, <1>3 DEF SavePhase, Listed

\* What loading one group does.
LEMMA LoadedGroup ==
  ASSUME STypeOK, At("load"), Load, Head(todo) \in Loads
  PROVE  /\ ram' \in [Groups -> Values] /\ UNCHANGED <<files, live, counts>> /\ cmd' = cmd
         /\ todo' = Tail(todo)
         /\ \A g \in Groups : InMemory(g) \/ Head(todo) = On("load", g) => InMemory(g)'
         /\ \A g \in Groups : paramsTxt = Missing \/ paramsTxt[g] = NoLine => ram'[g] = ram[g]
<1>1. PICK g \in Groups : Head(todo) = On("load", g) /\ Head(todo).group = g
  BY SomeAccesses
<1>2. /\ ram' = IF paramsTxt = Missing \/ paramsTxt[g] = NoLine
                THEN ram ELSE [ram EXCEPT ![g] = paramsTxt[g]]
      /\ UNCHANGED <<files, live, counts>> /\ cmd' = cmd /\ todo' = Tail(todo)
      /\ paramsTxt' = paramsTxt
  BY <1>1 DEF Load, Continue, files
<1>3. /\ ram \in [Groups -> Values]
      /\ paramsTxt = Missing \/ paramsTxt \in [Groups -> Values \cup {NoLine}]
  BY Typed DEF Content
<1>4. ram' \in [Groups -> Values]
  BY <1>2, <1>3
<1>5. ASSUME NEW h \in Groups, InMemory(h) \/ Head(todo) = On("load", h)
      PROVE  InMemory(h)'
  <2>1. Head(todo) = On("load", h) => h = g
    BY <1>1 DEF On
  <2> QED BY <1>2, <1>3, <1>5, <2>1 DEF InMemory
<1>6. ASSUME NEW h \in Groups, paramsTxt = Missing \/ paramsTxt[h] = NoLine
      PROVE  ram'[h] = ram[h]
  BY <1>2, <1>3, <1>6
<1> QED BY <1>2, <1>4, <1>5, <1>6

LEMMA LoadKind ==
  ASSUME StoreInv, Steps, cmd.kind = "load"
  PROVE  LoadPhase' /\ DataOK' /\ MetaOK'
<1>1. /\ STypeOK /\ DataOK /\ MetaOK /\ Listed(live) /\ todo \in Seq(Loads) /\ todo # <<>>
      /\ paramsTxt = cmd.from.paramsTxt
  BY Data, StepOps DEF StoreInv, Phase, LoadPhase
<1>2. Head(todo) \in Loads /\ Tail(todo) \in Seq(Loads)
  <2> DEFINE E == Loads
  <2> HIDE DEF E
  <2>1. todo \in Seq(E)
    BY <1>1 DEF E
  <2>2. Head(todo) \in E /\ Tail(todo) \in Seq(E)
    BY <1>1, <2>1, Parts
  <2> QED BY <2>2 DEF E
<1>3. At("load") /\ (Load \/ LoadBusy)
  <2>1. At("load")
    BY <1>1, <1>2, SomeAccesses DEF At
  <2> QED BY <2>1, StepOps DEF LoadRejected
<1>4. /\ ram' \in [Groups -> Values] /\ UNCHANGED <<files, live>> /\ cmd'.from = cmd.from
      /\ todo' = Tail(todo)
  <2>1. CASE Load
    BY <1>1, <1>2, <1>3, <2>1, LoadedGroup
  <2>2. CASE LoadBusy
    <3>1. UNCHANGED <<ram, files, live>> /\ GoOn
      BY <2>2 DEF LoadBusy
    <3> QED BY <1>1, <3>1, Left, ControlTypes, Typed DEF DataOK, SameCommand
  <2> QED BY <1>3, <2>1, <2>2
<1> QED BY <1>1, <1>2, <1>4 DEF LoadPhase, DataOK, MetaOK, Listed, files

LEMMA SameTarget ==
  ASSUME STypeOK, Steps, cmd.kind # "loadNamed"
  PROVE  /\ Clean' => Clean
         /\ paramsTxt' = paramsTxt /\ OldOrNew(paramsTxt) => OldOrNew(paramsTxt)'
<1>1. SameCommand /\ (faults' = 0 => faults = 0)
  BY ControlTypes
<1>2. Target' = Target
  BY <1>1 DEF Target, SameCommand
<1> QED BY <1>1, <1>2 DEF Clean, OldOrNew, SameCommand

\* Metadata cut short are still a name and a list.
LEMMA CutShort ==
  ASSUME DataOK, MetaOK, SaveMetadataShort
  PROVE  /\ MetaOK' /\ meta'.cut /\ cmd' = cmd /\ (Continue /\ todo' = Tail(todo))
         /\ UNCHANGED <<ram, paramsTxt, tmp, bak, conf, live>> /\ faults' = faults + 1
<1> DEFINE M == [active : Names \cup {None}, list : SUBSET Names, cut : BOOLEAN]
<1>1. PICK left \in {meta, NoConfigs, [live EXCEPT !.list = {}]} :
         meta' = [left EXCEPT !.cut = TRUE]
  BY DEF SaveMetadataShort
<1>2. left \in M /\ IsFiniteSet(left.list) /\ Cardinality(left.list) <= MaxConfigs
  <2>1. IsFiniteSet({}) /\ Cardinality({}) = 0 /\ 0 <= MaxConfigs
    BY FS_EmptySet, StoreAssumption
  <2>2. CASE left = meta
    BY <2>2 DEF MetaOK
  <2>3. CASE left = NoConfigs
    BY <2>1, <2>3 DEF NoConfigs
  <2>4. CASE left = [live EXCEPT !.list = {}]
    <3>1. left.list = {} /\ left \in M
      BY <2>4 DEF DataOK
    <3> QED BY <2>1, <3>1
  <2> QED BY <1>1, <2>2, <2>3, <2>4
<1>3. meta' \in M /\ meta'.list = left.list /\ meta'.cut = TRUE
  BY <1>1, <1>2
<1>4. MetaOK'
  BY <1>2, <1>3 DEF MetaOK, Listed
<1> QED BY <1>3, <1>4 DEF SaveMetadataShort, Continue, Fault

\* Writing the metadata, in the commands that do not undo what they did.
LEMMA MetaStep ==
  ASSUME StoreInv, Steps, StepOf("saveMeta", todo, <<>>), Listed(live),
         cmd.kind \in {"saveAs", "delete"}
  PROVE  /\ DataOK' /\ MetaOK' /\ todo' = <<>> /\ live' = live /\ paramsTxt' = paramsTxt
<1>1. STypeOK /\ DataOK /\ MetaOK
  BY Data DEF StoreInv
<1>2. /\ SaveMetadata \/ SaveMetadataShort \/ SaveMetadataFails
      /\ (Continue \/ GoOn \/ Abandon => todo' = <<>>)
  BY <1>1, HeadStep, StepOps
<1>3. CASE SaveMetadata
  BY <1>1, <1>2, <1>3 DEF SaveMetadata, DataOK, MetaOK, Listed
<1>4. CASE SaveMetadataFails
  <2>1. UNCHANGED <<ram, files, live>> /\ (Continue \/ GoOn \/ Abandon)
    BY <1>4 DEF SaveMetadataFails
  <2> QED BY <1>1, <1>2, <2>1 DEF DataOK, MetaOK, Listed, files
<1>5. CASE SaveMetadataShort
  BY <1>1, <1>2, <1>5, CutShort DEF DataOK
<1> QED BY <1>2, <1>3, <1>4, <1>5

\* SaveConfigAs saves the parameters, then copies them and registers the copy.
LEMMA SaveAsKind ==
  ASSUME StoreInv, Steps, cmd.kind = "saveAs"
  PROVE  SaveAsPhase' /\ DataOK' /\ MetaOK'
<1>1. /\ STypeOK /\ DataOK /\ MetaOK /\ todo # <<>> /\ cmd.name \in Names /\ Listed(live)
      /\ cmd'.name = cmd.name
  BY Data, ControlTypes, StepOps DEF StoreInv, Phase, SaveAsPhase, SameCommand
<1>2. /\ Clean' => Clean
      /\ paramsTxt' = paramsTxt /\ OldOrNew(paramsTxt) => OldOrNew(paramsTxt)'
  BY <1>1, SameTarget
<1>3. CASE Saving(Groups, AsAdmit) /\ todo # AsAdmit
  <2>1. /\ Saving(Groups, AsAdmit)' /\ ram' = ram /\ UNCHANGED <<bak, conf, meta, live>>
        /\ paramsTxt' \in {paramsTxt, Missing, tmp} /\ tmp' \in Content \cup {Missing}
    BY <1>1, <1>3, SavingStep, OtherRemainders DEF StepOf
  <2>2. DataOK' /\ MetaOK'
    BY <1>1, <2>1 DEF DataOK, MetaOK, Listed
  <2> QED BY <1>1, <2>1, <2>2 DEF SaveAsPhase, Listed
<1>4. CASE Saving(Groups, AsAdmit) /\ todo = AsAdmit
  <2>1. Clean => OldOrNew(paramsTxt)
    <3>1. PICK w \in Seq(WritesOf(Groups)) :
             \/ todo = Cat(w, AsAdmit) /\ (Clean => OldOrNew(paramsTxt))
             \/ todo = Then("remove", Then("rename", Cat(w, AsAdmit)))
             \/ todo = Then("rename", Cat(w, AsAdmit))
      BY <1>4 DEF Saving
    <3>2. Head(todo).op = "admit" /\ AsAdmit \in Seq(Accesses)
      BY <1>4, OtherRemainders DEF StepOf
    <3>3. Cat(w, AsAdmit) \in Seq(Accesses) /\ "remove" \in Ops /\ "rename" \in Ops
      BY <3>2, Heads, SomeAccesses DEF Ops
    <3>4. Head(Then("rename", Cat(w, AsAdmit))).op = "rename"
      BY <3>3, Thens
    <3>5. Head(Then("remove", Then("rename", Cat(w, AsAdmit)))).op = "remove"
      BY <3>3, Thens
    <3> QED BY <3>1, <3>2, <3>4, <3>5
  <2>2. Admit /\ (Continue => todo' = AsCopy) /\ (Abandon => todo' = <<>>)
    BY <1>1, <1>4, HeadStep, StepOps, OtherRemainders
  <2>3. /\ UNCHANGED <<ram, files, live>>
        /\ (todo' = AsCopy /\ Room) \/ todo' = <<>>
    <3>1. UNCHANGED <<ram, files, live>> /\ (Abandon \/ (Room /\ Continue))
      <4>1. CASE cmd.failed \/ (cmd.name \notin live.list
                                /\ Cardinality(live.list) >= MaxConfigs)
        BY <2>2, <4>1 DEF Admit
      <4>2. CASE ~(cmd.failed \/ (cmd.name \notin live.list
                                  /\ Cardinality(live.list) >= MaxConfigs))
        <5>1. Cardinality(live.list) \in Nat /\ MaxConfigs \in Nat
          BY <1>1, StoreAssumption, FS_CardinalityType DEF DataOK
        <5>2. Room
          BY <4>2, <5>1 DEF Room
        <5> QED BY <2>2, <4>2, <5>2 DEF Admit
      <4> QED BY <4>1, <4>2
    <3> QED BY <2>2, <3>1
  <2> QED BY <1>1, <1>2, <2>1, <2>3 DEF SaveAsPhase, DataOK, MetaOK, Listed, Room, files
<1>5. CASE todo = AsCopy /\ Room /\ (Clean => OldOrNew(paramsTxt))
  <2>1. /\ CopyOut \/ CopyOutFails
        /\ (Continue => todo' = AsRegister) /\ (Abandon => todo' = <<>>)
    BY <1>1, <1>5, HeadStep, StepOps, OtherRemainders
  <2>2. /\ UNCHANGED <<ram, paramsTxt, tmp, bak, meta, live>>
        /\ todo' \in {AsRegister, <<>>}
        /\ conf' \in {conf, [conf EXCEPT ![cmd.name] = paramsTxt],
                      [conf EXCEPT ![cmd.name] = Missing]}
    BY <2>1 DEF CopyOut, CopyOutFails
  <2>3. conf' \in [Names -> Content \cup {Missing}]
    BY <1>1, <2>2 DEF DataOK
  <2> QED BY <1>1, <1>2, <1>5, <2>2, <2>3 DEF SaveAsPhase, DataOK, MetaOK, Listed, Room
<1>6. CASE todo = AsRegister /\ Room /\ (Clean => OldOrNew(paramsTxt))
  <2>1. Register /\ (Continue => todo' = AsMeta)
    BY <1>1, <1>6, HeadStep, StepOps, OtherRemainders
  <2>2. /\ UNCHANGED <<ram, files>> /\ todo' = AsMeta
        /\ live' = [active |-> cmd.name, list |-> live.list \cup {cmd.name},
                    cut |-> FALSE]
    BY <2>1 DEF Register
  <2>3. /\ live'.active = cmd.name /\ live'.list = live.list \cup {cmd.name}
        /\ live' \in [active : Names \cup {None}, list : SUBSET Names, cut : BOOLEAN]
    BY <1>1, <2>2 DEF DataOK
  <2>4. IsFiniteSet(live'.list) /\ Cardinality(live'.list) <= MaxConfigs
    <3>1. /\ IsFiniteSet(live.list) /\ Cardinality(live.list) \in Nat
          /\ IsFiniteSet(live.list \cup {cmd.name})
          /\ Cardinality(live.list \cup {cmd.name})
               = IF cmd.name \in live.list THEN Cardinality(live.list)
                                           ELSE Cardinality(live.list) + 1
      BY <1>1, FS_AddElement, FS_CardinalityType DEF DataOK
    <3>2. Cardinality(live.list) <= MaxConfigs /\ MaxConfigs \in Nat
      BY <1>1, StoreAssumption DEF DataOK
    <3>3. cmd.name \in live.list \/ Cardinality(live.list) < MaxConfigs
      BY <1>6 DEF Room
    <3> QED BY <2>3, <3>1, <3>2, <3>3
  <2> QED BY <1>1, <1>2, <1>6, <2>2, <2>3, <2>4 DEF SaveAsPhase, DataOK, MetaOK, Listed, files
<1>7. CASE todo \in {AsMeta, <<>>} /\ (Clean => OldOrNew(paramsTxt))
  <2>1. StepOf("saveMeta", todo, <<>>)
    BY <1>1, <1>7, OtherRemainders
  <2>2. DataOK' /\ MetaOK' /\ todo' = <<>> /\ live' = live /\ paramsTxt' = paramsTxt
    BY <1>1, <2>1, MetaStep
  <2> QED BY <1>1, <1>2, <1>7, <2>2 DEF SaveAsPhase, Listed
<1> QED BY <1>3, <1>4, <1>5, <1>6, <1>7 DEF StoreInv, Phase, SaveAsPhase

\* DeleteConfig takes the name off the list, removes the file and saves the metadata.
LEMMA DeleteKind ==
  ASSUME StoreInv, Steps, cmd.kind = "delete"
  PROVE  DeletePhase' /\ DataOK' /\ MetaOK'
<1>1. /\ STypeOK /\ DataOK /\ MetaOK /\ todo # <<>> /\ cmd.name \in Names
      /\ paramsTxt = cmd.from.paramsTxt /\ cmd'.name = cmd.name /\ cmd'.from = cmd.from
  BY Data, ControlTypes, StepOps DEF StoreInv, Phase, DeletePhase, SameCommand
<1>2. CASE todo = DelUnlist /\ Listed(live)
  <2>1. Unlist /\ (Continue => todo' = DelRemove) /\ (Abandon => todo' = <<>>)
    BY <1>1, <1>2, HeadStep, StepOps, OtherRemainders
  <2>2. /\ UNCHANGED <<ram, files>>
        /\ live' = [live EXCEPT !.list = live.list \ {cmd.name}]
        /\ IF cmd.name \in live.list THEN todo' = DelRemove ELSE todo' = <<>>
    BY <2>1 DEF Unlist
  <2>3. /\ live'.active = live.active /\ live'.list = live.list \ {cmd.name}
        /\ live'.cut = live.cut
        /\ live' \in [active : Names \cup {None}, list : SUBSET Names, cut : BOOLEAN]
    BY <1>1, <2>2 DEF DataOK
  <2>4. IsFiniteSet(live'.list) /\ Cardinality(live'.list) <= MaxConfigs
    <3>1. /\ IsFiniteSet(live.list) /\ Cardinality(live.list) \in Nat
          /\ IsFiniteSet(live'.list) /\ Cardinality(live'.list) \in Nat
          /\ Cardinality(live'.list) <= Cardinality(live.list)
      BY <1>1, <2>3, FS_Subset, FS_CardinalityType DEF DataOK
    <3>2. Cardinality(live.list) <= MaxConfigs /\ MaxConfigs \in Nat
      BY <1>1, StoreAssumption DEF DataOK
    <3> QED BY <3>1, <3>2
  <2>5. DataOK' /\ MetaOK'
    BY <1>1, <2>2, <2>3, <2>4 DEF DataOK, MetaOK, Listed, files
  <2>6. cmd.name \notin live.list => Listed(live)'
    BY <1>2, <2>3 DEF Listed
  <2>7. Listed(live)' \/ live'.active = cmd.name
    BY <1>2, <2>3 DEF Listed
  <2> QED BY <1>1, <2>2, <2>5, <2>6, <2>7 DEF DeletePhase, files
<1>3. CASE todo = DelRemove /\ (Listed(live) \/ live.active = cmd.name)
  <2>1. RemoveConfig /\ (Continue => todo' = DelActive)
    BY <1>1, <1>3, HeadStep, StepOps, OtherRemainders
  <2>2. /\ UNCHANGED <<ram, paramsTxt, tmp, bak, meta, live>> /\ todo' = DelActive
        /\ conf' = [conf EXCEPT ![cmd.name] = Missing]
    BY <2>1 DEF RemoveConfig
  <2>3. conf' \in [Names -> Content \cup {Missing}]
    BY <1>1, <2>2 DEF DataOK
  <2> QED BY <1>1, <1>3, <2>2, <2>3 DEF DeletePhase, DataOK, MetaOK, Listed
<1>4. CASE todo = DelActive /\ (Listed(live) \/ live.active = cmd.name)
  <2>1. Deactivate /\ (Continue => todo' = AsMeta)
    BY <1>1, <1>4, HeadStep, StepOps, OtherRemainders
  <2>2. /\ UNCHANGED <<ram, files>> /\ todo' = AsMeta
        /\ live' = [live EXCEPT !.active = IF live.active = cmd.name THEN None
                                                                     ELSE live.active]
    BY <2>1 DEF Deactivate
  <2>3. /\ live'.active = (IF live.active = cmd.name THEN None ELSE live.active)
        /\ live'.list = live.list /\ live'.cut = live.cut
        /\ live' \in [active : Names \cup {None}, list : SUBSET Names, cut : BOOLEAN]
    BY <1>1, <2>2 DEF DataOK
  <2>4. Listed(live)'
    BY <1>4, <2>3 DEF Listed
  <2> QED BY <1>1, <2>2, <2>3, <2>4 DEF DeletePhase, DataOK, MetaOK, Listed, files
<1>5. CASE todo \in {AsMeta, <<>>} /\ Listed(live)
  <2>1. StepOf("saveMeta", todo, <<>>)
    BY <1>1, <1>5, OtherRemainders
  <2>2. DataOK' /\ MetaOK' /\ todo' = <<>> /\ live' = live /\ paramsTxt' = paramsTxt
    BY <1>1, <1>5, <2>1, MetaStep
  <2> QED BY <1>1, <1>5, <2>2 DEF DeletePhase, Listed
<1> QED BY <1>1, <1>2, <1>3, <1>4, <1>5 DEF StoreInv, Phase, DeletePhase

-----------------------------------------------------------------------------
(* Loading a configuration, and undoing that.                              *)

\* What holds whether it is being loaded or undone.
NamedPhase == /\ cmd.name \in Names /\ Listed(live)
              /\ live.cut \/ cmd.from.active \in live.list \cup {None}
              /\ cmd.hurt => faults > 0
              /\ faults = 0 => paramsTxt = cmd.from.paramsTxt \/ Installed

LEMMA LoadFrame ==
  ASSUME StoreInv, Steps, cmd.kind = "loadNamed",
         conf' = conf, live'.list = live.list, live'.cut = live.cut,
         live'.active \in {live.active, cmd.from.active}
           \/ (live'.active = cmd.name /\ cmd.name \in live.list),
         paramsTxt' \in {paramsTxt, cmd.from.paramsTxt, conf[cmd.name]} \/ faults' > 0,
         cmd'.hurt => cmd.hurt \/ faults' > 0
  PROVE  NamedPhase' /\ (Found => Found') /\ SameCommand
<1>1. NamedPhase /\ SameCommand
  BY ControlTypes DEF StoreInv, Phase, LoadNamedPhase, NamedPhase
<1>2. /\ faults' \in Nat /\ (faults' = 0 => faults = 0)
      /\ (faults' # faults => faults' > 0)
  BY ControlTypes DEF StoreInv
<1>3. Listed(live)' /\ (live.cut \/ cmd.from.active \in live.list \cup {None})'
  BY <1>1 DEF NamedPhase, Listed, SameCommand
<1>4. (cmd.hurt => faults > 0)'
  BY <1>1, <1>2 DEF NamedPhase
<1>5. (faults = 0 => paramsTxt = cmd.from.paramsTxt \/ Installed)'
  BY <1>1, <1>2 DEF NamedPhase, Installed, SameCommand
<1> QED BY <1>1, <1>3, <1>4, <1>5 DEF NamedPhase, Found, SameCommand

\* What loading a group leaves of a sequence of loads with more after it.
LEMMA LoadOne ==
  ASSUME STypeOK, Steps, NEW s \in Seq(Loads), s # <<>>, NEW rest \in Seq(Accesses),
         todo = Cat(s, rest)
  PROVE  /\ UNCHANGED <<files, live>> /\ ram' \in [Groups -> Values]
         /\ Tail(s) \in Seq(Loads) /\ todo' = Cat(Tail(s), rest)
         /\ \/ /\ cmd' = cmd
               /\ \A g \in Groups : On("load", g) \in Elements(s) \/ InMemory(g)
                    => On("load", g) \in Elements(Tail(s)) \/ InMemory(g)'
            \/ GoOn /\ (cmd.restoring => faults' > 0)
<1>1. /\ todo \in Seq(Accesses) /\ todo # <<>> /\ Head(s) \in Loads /\ Tail(s) \in Seq(Loads)
      /\ Head(todo) = Head(s) /\ Tail(todo) = Cat(Tail(s), rest)
      /\ Elements(s) = {Head(s)} \cup Elements(Tail(s))
  <2> DEFINE E == Loads
  <2>1. E \in SUBSET Accesses /\ s \in Seq(E)
    BY SomeAccesses
  <2> HIDE DEF E
  <2>2. /\ Head(s) \in E /\ Tail(s) \in Seq(E) /\ Cat(s, rest) # <<>>
        /\ Head(Cat(s, rest)) = Head(s) /\ Tail(Cat(s, rest)) = Cat(Tail(s), rest)
        /\ Elements(s) = {Head(s)} \cup Elements(Tail(s))
    BY <2>1, Heads
  <2>3. todo \in Seq(Accesses)
    BY Typed
  <2> QED BY <2>2, <2>3 DEF E
<1>2. At("load")
  BY <1>1, SomeAccesses DEF At
<1>3. CASE Load
  <2>1. /\ ram' \in [Groups -> Values] /\ UNCHANGED <<files, live, counts>> /\ cmd' = cmd
        /\ todo' = Tail(todo)
        /\ \A g \in Groups : InMemory(g) \/ Head(todo) = On("load", g) => InMemory(g)'
    BY <1>1, <1>2, <1>3, LoadedGroup
  <2> QED BY <1>1, <2>1
<1>4. CASE LoadRejected
  <2>1. UNCHANGED <<ram, files, live, counts>> /\ GoOn /\ ~cmd.restoring
    BY <1>4 DEF LoadRejected
  <2> QED BY <1>1, <2>1, Left, Typed
<1>5. CASE LoadBusy
  <2>1. UNCHANGED <<ram, files, live>> /\ GoOn /\ faults' = faults + 1
    BY <1>5 DEF LoadBusy, Fault
  <2>2. faults' > 0
    BY <2>1, Typed
  <2> QED BY <1>1, <2>1, <2>2, Left, Typed
<1> QED BY <1>2, <1>3, <1>4, <1>5, StepOps

LEMMA LoadingFirst ==
  ASSUME StoreInv, Steps, cmd.kind = "loadNamed", ~cmd.restoring,
         \/ todo = FromFind /\ ~cmd.failed /\ Unchanged
         \/ todo \in {FromClear, FromBackup} /\ ~cmd.failed /\ Unchanged /\ Found
         \/ todo = FromInstall /\ ~cmd.failed /\ Unchanged /\ Found /\ Kept
  PROVE  LoadNamedPhase' /\ DataOK' /\ MetaOK'
<1>1. /\ STypeOK /\ DataOK /\ MetaOK /\ NamedPhase /\ cmd \in CmdType /\ SameCommand
      /\ faults \in Nat
  BY Data, Typed, ControlTypes DEF StoreInv, Phase, LoadNamedPhase, NamedPhase
<1>2. CASE todo = FromFind /\ ~cmd.failed /\ Unchanged
  <2>1. Find /\ (Continue => todo' = FromClear) /\ (Abandon => todo' = <<>>)
    BY <1>1, <1>2, HeadStep, StepOps, Remainders
  <2>2. UNCHANGED <<ram, files, live, counts>> /\ ((Continue /\ Found) \/ Abandon)
    BY <2>1 DEF Find, Found
  <2>3. /\ cmd'.hurt = cmd.hurt /\ cmd'.restoring = cmd.restoring
        /\ \/ todo' = FromClear /\ Found /\ cmd'.failed = cmd.failed
           \/ todo' = <<>> /\ cmd'.failed = TRUE
    BY <1>1, <2>1, <2>2, Follow
  <2>4. NamedPhase' /\ (Found => Found')
    BY <2>2, <2>3, LoadFrame DEF files
  <2>5. DataOK' /\ MetaOK'
    BY <1>1, <2>2 DEF DataOK, MetaOK, Listed, files
  <2>6. Unchanged'
    BY <1>1, <1>2, <2>2 DEF Unchanged, SameCommand, files
  <2>7. Loading'
    BY <1>2, <2>3, <2>4, <2>6 DEF Loading
  <2> QED BY <2>3, <2>4, <2>5, <2>7 DEF LoadNamedPhase, NamedPhase
<1>3. CASE todo = FromClear /\ ~cmd.failed /\ Unchanged /\ Found
  <2>1. DropBackup /\ (Continue => todo' = FromBackup)
    BY <1>1, <1>3, HeadStep, StepOps, Remainders
  <2>2. /\ UNCHANGED <<ram, paramsTxt, tmp, conf, meta, live, counts>> /\ bak' = Missing
        /\ cmd' = cmd /\ todo' = FromBackup
    BY <2>1 DEF DropBackup, Continue
  <2>3. NamedPhase' /\ (Found => Found')
    BY <2>2, LoadFrame
  <2>4. DataOK' /\ MetaOK'
    BY <1>1, <2>2 DEF DataOK, MetaOK, Listed
  <2>5. Unchanged'
    BY <1>3, <2>2 DEF Unchanged
  <2>6. Loading'
    BY <1>3, <2>2, <2>3, <2>5 DEF Loading
  <2> QED BY <2>2, <2>3, <2>4, <2>6 DEF LoadNamedPhase, NamedPhase
<1>4. CASE todo = FromBackup /\ ~cmd.failed /\ Unchanged /\ Found
  <2>1. /\ Backup \/ BackupFails
        /\ (Continue => todo' = FromInstall) /\ (Abandon => todo' = <<>>)
    BY <1>1, <1>4, HeadStep, StepOps, Remainders
  <2>2. CASE Backup
    <3>1. /\ UNCHANGED <<ram, paramsTxt, tmp, conf, meta, live, counts>>
          /\ bak' = paramsTxt /\ cmd' = cmd /\ todo' = FromInstall
      BY <2>1, <2>2 DEF Backup, Continue
    <3>2. NamedPhase' /\ (Found => Found')
      BY <3>1, LoadFrame
    <3>3. DataOK' /\ MetaOK'
      BY <1>1, <3>1 DEF DataOK, MetaOK, Listed
    <3>4. Unchanged' /\ Kept'
      BY <1>4, <3>1 DEF Unchanged, Kept
    <3>5. Loading'
      BY <1>4, <3>1, <3>2, <3>4 DEF Loading
    <3> QED BY <3>1, <3>2, <3>3, <3>5 DEF LoadNamedPhase, NamedPhase
  <2>3. CASE BackupFails
    <3>1. UNCHANGED <<ram, files, live>> /\ Abandon
      BY <2>3 DEF BackupFails
    <3>2. /\ cmd'.hurt = cmd.hurt /\ cmd'.restoring = cmd.restoring
          /\ todo' = <<>> /\ cmd'.failed = TRUE
      BY <1>1, <2>1, <3>1, Follow
    <3>3. NamedPhase'
      BY <3>1, <3>2, LoadFrame DEF files
    <3>4. DataOK' /\ MetaOK'
      BY <1>1, <3>1 DEF DataOK, MetaOK, Listed, files
    <3>5. Unchanged'
      BY <1>1, <1>4, <3>1 DEF Unchanged, SameCommand, files
    <3>6. Loading'
      BY <3>2, <3>5 DEF Loading
    <3> QED BY <3>2, <3>3, <3>4, <3>6 DEF LoadNamedPhase, NamedPhase
  <2> QED BY <2>1, <2>2, <2>3
<1>5. CASE todo = FromInstall /\ ~cmd.failed /\ Unchanged /\ Found /\ Kept
  <2>1. /\ Install \/ InstallFails
        /\ (Continue => todo' = FromActivate) /\ (Restore => todo' = UndoCopy)
    BY <1>1, <1>5, HeadStep, StepOps, Remainders
  <2>2. CASE Install
    <3>1. /\ UNCHANGED <<ram, tmp, bak, conf, meta, live, counts>>
          /\ paramsTxt' = conf[cmd.name] /\ cmd' = cmd /\ todo' = FromActivate
      BY <2>1, <2>2 DEF Install, Continue
    <3>2. NamedPhase' /\ (Found => Found')
      BY <3>1, LoadFrame
    <3>3. DataOK' /\ MetaOK'
      BY <1>1, <3>1 DEF DataOK, MetaOK, Listed, NamedPhase
    <3>4. Kept' /\ Installed'
      BY <1>5, <3>1 DEF Kept, Installed
    <3>5. Loading'
      BY <1>5, <3>1, <3>2, <3>4 DEF Loading
    <3> QED BY <3>1, <3>2, <3>3, <3>5 DEF LoadNamedPhase, NamedPhase
  <2>3. CASE InstallFails
    <3>1. /\ UNCHANGED <<ram, tmp, bak, conf, meta, live>> /\ Restore /\ faults' = faults + 1
          /\ paramsTxt' \in {paramsTxt, Missing}
      BY <2>3 DEF InstallFails, Fault
    <3>2. /\ cmd'.hurt = cmd.hurt /\ cmd'.restoring = TRUE
          /\ todo' = UndoCopy /\ cmd'.failed = TRUE /\ faults' > 0
      <4>1. faults' > 0
        BY <1>1, <3>1
      <4> QED BY <1>1, <2>1, <3>1, <4>1, Follow
    <3>3. NamedPhase'
      BY <3>1, <3>2, LoadFrame
    <3>4. DataOK' /\ MetaOK'
      BY <1>1, <3>1 DEF DataOK, MetaOK, Listed
    <3>5. Kept'
      BY <1>1, <1>5, <3>1 DEF Kept, SameCommand
    <3>6. Undoing'
      BY <3>2, <3>5 DEF Undoing
    <3> QED BY <3>2, <3>3, <3>4, <3>6 DEF LoadNamedPhase, NamedPhase
  <2> QED BY <2>1, <2>2, <2>3
<1> QED BY <1>2, <1>3, <1>4, <1>5

LEMMA LoadingThen ==
  ASSUME StoreInv, Steps, cmd.kind = "loadNamed", ~cmd.restoring,
         \/ todo = FromActivate /\ ~cmd.failed /\ Found /\ Kept /\ Installed
         \/ /\ todo = FromMeta /\ ~cmd.failed /\ Found /\ Kept /\ Installed
            /\ live.active = cmd.name
  PROVE  LoadNamedPhase' /\ DataOK' /\ MetaOK'
<1>1. /\ STypeOK /\ DataOK /\ MetaOK /\ NamedPhase /\ cmd \in CmdType /\ SameCommand
      /\ faults \in Nat
  BY Data, Typed, ControlTypes DEF StoreInv, Phase, LoadNamedPhase, NamedPhase
<1>2. CASE todo = FromActivate /\ ~cmd.failed /\ Found /\ Kept /\ Installed
  <2>1. Activate /\ (Continue => todo' = FromMeta)
    BY <1>1, <1>2, HeadStep, StepOps, Remainders
  <2>2. /\ UNCHANGED <<ram, files, counts>> /\ cmd' = cmd /\ todo' = FromMeta
        /\ live' = [live EXCEPT !.active = cmd.name]
    BY <2>1 DEF Activate, Continue
  <2>3. /\ live' \in [active : Names \cup {None}, list : SUBSET Names, cut : BOOLEAN]
        /\ live'.active = cmd.name /\ live'.list = live.list /\ live'.cut = live.cut
    BY <1>1, <2>2 DEF DataOK, NamedPhase
  <2>4. NamedPhase' /\ (Found => Found')
    BY <1>2, <2>2, <2>3, LoadFrame DEF Found, files
  <2>5. DataOK' /\ MetaOK'
    BY <1>1, <2>2, <2>3 DEF DataOK, MetaOK, Listed, files
  <2>6. Kept' /\ Installed'
    BY <1>2, <2>2 DEF Kept, Installed, files
  <2>7. Loading'
    BY <1>2, <2>2, <2>3, <2>4, <2>6 DEF Loading
  <2> QED BY <2>2, <2>4, <2>5, <2>7 DEF LoadNamedPhase, NamedPhase
<1>3. CASE /\ todo = FromMeta /\ ~cmd.failed /\ Found /\ Kept /\ Installed
           /\ live.active = cmd.name
  <2>1. /\ SaveMetadata \/ SaveMetadataShort \/ SaveMetadataFails
        /\ (Continue => todo' = FromLoads) /\ (Restore => todo' = UndoCopy)
    BY <1>1, <1>3, HeadStep, StepOps, Remainders
  <2>2. CASE SaveMetadata \/ SaveMetadataShort
    <3>1. /\ UNCHANGED <<ram, paramsTxt, tmp, bak, conf, live>>
          /\ cmd' = cmd /\ todo' = FromLoads
          /\ meta'.cut \/ meta' = live
      BY <1>1, <2>1, <2>2, CutShort DEF SaveMetadata, Continue
    <3>2. NamedPhase' /\ (Found => Found')
      BY <3>1, LoadFrame
    <3>3. DataOK' /\ MetaOK'
      <4>1. DataOK'
        BY <1>1, <3>1 DEF DataOK
      <4>2. MetaOK'
        BY <1>1, <2>2, CutShort DEF SaveMetadata, DataOK, MetaOK, Listed, NamedPhase
      <4> QED BY <4>1, <4>2
    <3>4. Kept' /\ Installed' /\ live'.active = cmd'.name /\ (meta'.cut \/ meta' = live')
      BY <1>3, <3>1 DEF Kept, Installed
    <3>5. PICK s \in Seq(Loads) : /\ todo' = Cat(s, Ending)
                                  /\ \A g \in Groups : On("load", g) \in Elements(s)
      BY <3>1, SavesAndLoads DEF FromLoads
    <3>6. Loading'
      BY <1>3, <3>1, <3>2, <3>4, <3>5 DEF Loading
    <3> QED BY <3>1, <3>2, <3>3, <3>6 DEF LoadNamedPhase, NamedPhase
  <2>3. CASE SaveMetadataFails
    <3>1. UNCHANGED <<ram, files, live>> /\ faults' = faults + 1
      BY <2>3 DEF SaveMetadataFails, Fault
    <3>2. Restore
      BY <2>3 DEF SaveMetadataFails
    <3>3. faults' > 0
      BY <1>1, <3>1
    <3>4. /\ cmd'.hurt = cmd.hurt /\ cmd'.restoring = TRUE
          /\ todo' = UndoCopy /\ cmd'.failed = TRUE
      BY <1>1, <2>1, <3>2, Follow
    <3>5. NamedPhase'
      BY <3>1, <3>3, <3>4, LoadFrame DEF files
    <3>6. DataOK' /\ MetaOK'
      BY <1>1, <3>1 DEF DataOK, MetaOK, Listed, files
    <3>7. Kept'
      BY <1>1, <1>3, <3>1 DEF Kept, SameCommand, files
    <3>8. Undoing'
      BY <3>4, <3>7 DEF Undoing
    <3> QED BY <3>4, <3>5, <3>6, <3>8 DEF LoadNamedPhase, NamedPhase
  <2> QED BY <2>1, <2>2, <2>3
<1> QED BY <1>2, <1>3

LEMMA LoadingGroups ==
  ASSUME StoreInv, Steps, cmd.kind = "loadNamed", ~cmd.restoring,
         Found, Kept, Installed, live.active = cmd.name, meta.cut \/ meta = live,
         NEW s \in Seq(Loads), todo = Cat(s, Ending),
         cmd.failed \/ \A g \in Groups : On("load", g) \in Elements(s) \/ InMemory(g)
  PROVE  LoadNamedPhase' /\ DataOK' /\ MetaOK'
<1>1. /\ STypeOK /\ DataOK /\ MetaOK /\ NamedPhase /\ cmd \in CmdType /\ SameCommand
      /\ faults \in Nat /\ Ending \in Seq(Accesses)
  BY Data, Typed, ControlTypes, Remainders
     DEF StoreInv, Phase, LoadNamedPhase, NamedPhase
<1>2. CASE s = <<>>
  <2>1. todo = Ending /\ StepOf("check", todo, Then("dropBackup", <<>>))
    BY <1>1, <1>2, Heads, Subsequences, SomeAccesses, Remainders
  <2>2. Check /\ (Continue => todo' = Then("dropBackup", <<>>))
        /\ (Restore => todo' = UndoCopy)
    BY <1>1, <2>1, HeadStep, StepOps
  <2>3. UNCHANGED <<ram, files, live, counts>>
    BY <2>2 DEF Check
  <2>4. DataOK' /\ MetaOK' /\ Kept' /\ Installed'
    BY <1>1, <2>3 DEF DataOK, MetaOK, Listed, files, Kept, Installed, SameCommand
  <2>5. CASE cmd.failed
    <3>1. Restore
      BY <2>2, <2>5 DEF Check
    <3>2. /\ cmd'.hurt = cmd.hurt /\ cmd'.restoring = TRUE
          /\ todo' = UndoCopy /\ cmd'.failed = TRUE
      BY <1>1, <2>2, <3>1, Follow
    <3>3. NamedPhase'
      BY <2>3, <3>2, LoadFrame DEF files
    <3>4. Undoing'
      BY <2>4, <3>2 DEF Undoing
    <3> QED BY <2>4, <3>2, <3>3, <3>4 DEF LoadNamedPhase, NamedPhase
  <2>6. CASE ~cmd.failed
    <3>1. todo' = Then("dropBackup", <<>>) /\ cmd' = cmd
      BY <2>2, <2>6 DEF Check, Continue
    <3>2. NamedPhase' /\ (Found => Found')
      BY <2>3, <3>1, LoadFrame DEF files
    <3>3. \A g \in Groups : InMemory(g)
      BY <1>2, <2>6, Nothing
    <3>4. \A g \in Groups : InMemory(g)'
      BY <2>3, <3>3 DEF InMemory, files
    <3>5. Loading'
      BY <2>3, <2>4, <2>6, <3>1, <3>2, <3>4 DEF Loading, files
    <3> QED BY <2>4, <3>1, <3>2, <3>5 DEF LoadNamedPhase, NamedPhase
  <2> QED BY <2>5, <2>6
<1>3. CASE s # <<>>
  <2> DEFINE v == Tail(s)
  <2>1. /\ UNCHANGED <<files, live>> /\ ram' \in [Groups -> Values]
        /\ v \in Seq(Loads) /\ todo' = Cat(v, Ending)
        /\ \/ /\ cmd' = cmd
              /\ \A g \in Groups : On("load", g) \in Elements(s) \/ InMemory(g)
                   => On("load", g) \in Elements(v) \/ InMemory(g)'
           \/ GoOn
    BY <1>1, <1>3, LoadOne
  <2> HIDE DEF v
  <2>2. DataOK' /\ MetaOK' /\ Kept' /\ Installed'
    BY <1>1, <2>1 DEF DataOK, MetaOK, Listed, files, Kept, Installed, SameCommand
  <2>3. live'.active = cmd'.name /\ (meta'.cut \/ meta' = live')
    BY <1>1, <2>1 DEF files, SameCommand
  <2>4. CASE GoOn
    <3>1. cmd'.hurt = cmd.hurt /\ ~cmd'.restoring /\ cmd'.failed
      BY <1>1, <2>4, Follow DEF CmdType
    <3>2. NamedPhase' /\ (Found => Found')
      BY <2>1, <3>1, LoadFrame DEF files
    <3>3. Loading'
      BY <2>1, <2>2, <2>3, <3>1, <3>2 DEF Loading
    <3> QED BY <2>2, <3>1, <3>2, <3>3 DEF LoadNamedPhase, NamedPhase
  <2>5. CASE /\ cmd' = cmd
             /\ \A g \in Groups : On("load", g) \in Elements(s) \/ InMemory(g)
                  => On("load", g) \in Elements(v) \/ InMemory(g)'
    <3>1. NamedPhase' /\ (Found => Found')
      BY <2>1, <2>5, LoadFrame DEF files
    <3>2. cmd'.failed \/ \A g \in Groups : On("load", g) \in Elements(v) \/ InMemory(g)'
      BY <2>5
    <3>3. Loading'
      BY <2>1, <2>2, <2>3, <3>1, <3>2 DEF Loading
    <3> QED BY <2>2, <2>5, <3>1, <3>3 DEF LoadNamedPhase, NamedPhase
  <2> QED BY <2>1, <2>4, <2>5
<1> QED BY <1>2, <1>3

LEMMA LoadingLast ==
  ASSUME StoreInv, Steps, cmd.kind = "loadNamed", ~cmd.restoring, ~cmd.failed,
         todo = Then("dropBackup", <<>>),
         Found, Installed, live.active = cmd.name, meta.cut \/ meta = live,
         \A g \in Groups : InMemory(g)
  PROVE  LoadNamedPhase' /\ DataOK' /\ MetaOK'
<1>1. /\ STypeOK /\ DataOK /\ MetaOK /\ NamedPhase /\ cmd \in CmdType
  BY Data, Typed DEF StoreInv, Phase, LoadNamedPhase, NamedPhase
<1>2. DropBackup /\ (Continue => todo' = <<>>)
  BY <1>1, HeadStep, StepOps, Remainders
<1>3. /\ UNCHANGED <<ram, paramsTxt, tmp, conf, meta, live, counts>> /\ bak' = Missing
      /\ cmd' = cmd /\ todo' = <<>>
  BY <1>2 DEF DropBackup, Continue
<1>4. NamedPhase' /\ (Found => Found')
  BY <1>3, LoadFrame
<1>5. DataOK' /\ MetaOK'
  BY <1>1, <1>3 DEF DataOK, MetaOK, Listed
<1>6. Installed' /\ \A g \in Groups : InMemory(g)'
  BY <1>3 DEF Installed, InMemory
<1>7. Loading'
  BY <1>3, <1>4, <1>6 DEF Loading
<1> QED BY <1>3, <1>4, <1>5, <1>7 DEF LoadNamedPhase, NamedPhase

LEMMA UndoingKind ==
  ASSUME StoreInv, Steps, cmd.kind = "loadNamed", cmd.restoring
  PROVE  LoadNamedPhase' /\ DataOK' /\ MetaOK'
<1>1. /\ STypeOK /\ DataOK /\ MetaOK /\ NamedPhase /\ cmd \in CmdType /\ SameCommand
      /\ faults \in Nat /\ cmd.failed /\ Undoing /\ todo # <<>>
  BY Data, Typed, ControlTypes, StepOps DEF StoreInv, Phase, LoadNamedPhase, NamedPhase
<1>2. cmd'.restoring /\ cmd'.failed
  BY <1>1, ControlTypes DEF SameCommand
<1>3. CASE todo = UndoCopy /\ Kept
  <2>1. /\ CopyBack \/ CopyBackFails
        /\ (Continue \/ GoOn => todo' = UndoClear)
    BY <1>1, <1>3, HeadStep, StepOps, UndoRemainders
  <2>2. CASE CopyBack
    <3>1. /\ UNCHANGED <<ram, tmp, bak, conf, meta, live, counts>> /\ paramsTxt' = bak
          /\ cmd' = cmd /\ todo' = UndoClear
      BY <2>1, <2>2 DEF CopyBack, Continue
    <3>2. paramsTxt' = cmd.from.paramsTxt
      BY <1>3, <3>1 DEF Kept
    <3>3. NamedPhase'
      BY <3>1, <3>2, LoadFrame
    <3>4. DataOK' /\ MetaOK'
      BY <1>1, <3>1 DEF DataOK, MetaOK, Listed
    <3>5. Undoing'
      BY <3>1, <3>2 DEF Undoing, Restored
    <3> QED BY <1>2, <3>3, <3>4, <3>5 DEF LoadNamedPhase, NamedPhase
  <2>3. CASE CopyBackFails
    <3>1. /\ UNCHANGED <<ram, tmp, bak, conf, meta, live>> /\ GoOn /\ faults' = faults + 1
          /\ paramsTxt' \in {paramsTxt, Missing}
      BY <2>3 DEF CopyBackFails, Fault
    <3>2. faults' > 0
      BY <1>1, <3>1
    <3>3. cmd'.hurt = TRUE /\ todo' = UndoClear
      BY <1>1, <2>1, <3>1, Follow
    <3>4. NamedPhase'
      BY <3>1, <3>2, LoadFrame
    <3>5. DataOK' /\ MetaOK'
      BY <1>1, <3>1 DEF DataOK, MetaOK, Listed
    <3>6. Undoing'
      BY <3>3 DEF Undoing, Restored
    <3> QED BY <1>2, <3>4, <3>5, <3>6 DEF LoadNamedPhase, NamedPhase
  <2> QED BY <2>1, <2>2, <2>3
<1>4. CASE todo = UndoClear /\ Restored
  <2>1. DropBackup /\ (Continue => todo' = UndoActive)
    BY <1>1, <1>4, HeadStep, StepOps, UndoRemainders
  <2>2. /\ UNCHANGED <<ram, paramsTxt, tmp, conf, meta, live, counts>> /\ bak' = Missing
        /\ cmd' = cmd /\ todo' = UndoActive
    BY <2>1 DEF DropBackup, Continue
  <2>3. NamedPhase'
    BY <2>2, LoadFrame
  <2>4. DataOK' /\ MetaOK'
    BY <1>1, <2>2 DEF DataOK, MetaOK, Listed
  <2>5. Undoing'
    BY <1>4, <2>2 DEF Undoing, Restored
  <2> QED BY <1>2, <2>3, <2>4, <2>5 DEF LoadNamedPhase, NamedPhase
<1>5. CASE todo = UndoActive /\ Restored
  <2>1. Reactivate /\ (Continue => todo' = UndoMeta)
    BY <1>1, <1>5, HeadStep, StepOps, UndoRemainders
  <2>2. /\ UNCHANGED <<ram, files, counts>> /\ cmd' = cmd /\ todo' = UndoMeta
        /\ live' = [live EXCEPT !.active = cmd.from.active]
    BY <2>1 DEF Reactivate, Continue
  <2>3. /\ live' \in [active : Names \cup {None}, list : SUBSET Names, cut : BOOLEAN]
        /\ live'.active = cmd.from.active /\ live'.list = live.list
        /\ live'.cut = live.cut
    BY <1>1, <2>2 DEF DataOK, CmdType
  <2>4. NamedPhase'
    BY <2>2, <2>3, LoadFrame DEF files
  <2>5. DataOK' /\ MetaOK'
    BY <1>1, <2>2, <2>3 DEF DataOK, MetaOK, Listed, files
  <2>6. Undoing'
    BY <1>5, <2>2, <2>3 DEF Undoing, Restored, files
  <2> QED BY <1>2, <2>4, <2>5, <2>6 DEF LoadNamedPhase, NamedPhase
<1>6. CASE todo = UndoMeta /\ Restored /\ live.active = cmd.from.active
  <2>1. /\ SaveMetadata \/ SaveMetadataShort \/ SaveMetadataFails
        /\ (Continue \/ GoOn => todo' = LoadAllParams)
    BY <1>1, <1>6, HeadStep, StepOps, UndoRemainders
  <2>2. /\ LoadAllParams \in Seq(Loads)
        /\ \A g \in Groups : On("load", g) \in Elements(LoadAllParams)
    BY SavesAndLoads
  <2>3. CASE SaveMetadata \/ SaveMetadataShort
    <3>1. /\ UNCHANGED <<ram, paramsTxt, tmp, bak, conf, live>>
          /\ cmd' = cmd /\ todo' = LoadAllParams
      BY <1>1, <2>1, <2>3, CutShort DEF SaveMetadata, Continue
    <3>2. NamedPhase'
      BY <3>1, LoadFrame
    <3>3. DataOK' /\ MetaOK'
      <4>1. DataOK'
        BY <1>1, <3>1 DEF DataOK
      <4>2. MetaOK'
        BY <1>1, <2>3, CutShort DEF SaveMetadata, DataOK, MetaOK, Listed, NamedPhase
      <4> QED BY <4>1, <4>2
    <3>4. Undoing'
      BY <1>6, <2>2, <3>1 DEF Undoing, Restored
    <3> QED BY <1>2, <3>2, <3>3, <3>4 DEF LoadNamedPhase, NamedPhase
  <2>4. CASE SaveMetadataFails
    <3>1. UNCHANGED <<ram, files, live>> /\ faults' = faults + 1
      BY <2>4 DEF SaveMetadataFails, Fault
    <3>2. GoOn
      BY <2>4 DEF SaveMetadataFails
    <3>3. faults' > 0
      BY <1>1, <3>1
    <3>4. cmd'.hurt = TRUE /\ todo' = LoadAllParams
      BY <1>1, <2>1, <3>2, Follow
    <3>5. NamedPhase'
      BY <3>1, <3>3, LoadFrame DEF files
    <3>6. DataOK' /\ MetaOK'
      BY <1>1, <3>1 DEF DataOK, MetaOK, Listed, files
    <3>7. Undoing'
      BY <1>1, <1>6, <2>2, <3>1, <3>4 DEF Undoing, Restored, SameCommand
    <3> QED BY <1>2, <3>5, <3>6, <3>7 DEF LoadNamedPhase, NamedPhase
  <2> QED BY <2>1, <2>3, <2>4
<1>7. CASE /\ todo \in Seq(Loads) /\ Restored /\ live.active = cmd.from.active
           /\ cmd.hurt \/ \A g \in Groups : On("load", g) \in Elements(todo) \/ InMemory(g)
  <2>1. PICK s \in Seq(Loads) : s = todo
    BY <1>7
  <2>2. s # <<>> /\ todo = Cat(s, <<>>) /\ <<>> \in Seq(Accesses)
    BY <1>1, <2>1, Heads, SomeAccesses, Subsequences
  <2>3. /\ UNCHANGED <<files, live>> /\ ram' \in [Groups -> Values]
        /\ Tail(s) \in Seq(Loads) /\ todo' = Cat(Tail(s), <<>>)
        /\ \/ /\ cmd' = cmd
              /\ \A g \in Groups : On("load", g) \in Elements(s) \/ InMemory(g)
                   => On("load", g) \in Elements(Tail(s)) \/ InMemory(g)'
           \/ GoOn /\ faults' > 0
    BY <1>1, <2>2, LoadOne
  <2>4. todo' = Tail(s)
    BY <2>2, <2>3, Heads, SomeAccesses
  <2>5. \/ cmd'.hurt /\ faults' > 0
        \/ /\ cmd' = cmd
           /\ \A g \in Groups : On("load", g) \in Elements(s) \/ InMemory(g)
                => On("load", g) \in Elements(Tail(s)) \/ InMemory(g)'
    BY <1>1, <2>3, Follow
  <2>6. NamedPhase'
    BY <2>3, <2>5, LoadFrame DEF files
  <2>7. DataOK' /\ MetaOK'
    BY <1>1, <2>3 DEF DataOK, MetaOK, Listed, files
  <2>8. cmd'.hurt \/ \A g \in Groups : On("load", g) \in Elements(todo') \/ InMemory(g)'
    BY <1>7, <2>1, <2>4, <2>5
  <2>9. Restored' /\ live'.active = cmd'.from.active
    BY <1>1, <1>7, <2>3, <2>5 DEF Restored, SameCommand, files
  <2>10. Undoing'
    BY <2>3, <2>4, <2>8, <2>9 DEF Undoing
  <2> QED BY <1>2, <2>6, <2>7, <2>10 DEF LoadNamedPhase, NamedPhase
<1> QED BY <1>1, <1>3, <1>4, <1>5, <1>6, <1>7 DEF Undoing

LEMMA LoadNamedKind ==
  ASSUME StoreInv, Steps, cmd.kind = "loadNamed"
  PROVE  LoadNamedPhase' /\ DataOK' /\ MetaOK'
<1>1. LoadNamedPhase /\ todo # <<>>
  BY StepOps DEF StoreInv, Phase
<1>2. CASE cmd.restoring
  BY <1>2, UndoingKind
<1>3. CASE ~cmd.restoring
  <2>1. Loading
    BY <1>1, <1>3 DEF LoadNamedPhase
  <2> QED BY <1>1, <1>3, <2>1, LoadingFirst, LoadingThen, LoadingGroups, LoadingLast
          DEF Loading
<1> QED BY <1>2, <1>3

\* Any step of a command.
LEMMA StoreSteps ==
  ASSUME StoreInv, Steps
  PROVE  StoreInv'
<1>1. /\ cmd \in CmdType /\ cmd' \in CmdType /\ cmd'.kind = cmd.kind /\ todo # <<>>
      /\ todo' \in Seq(Accesses) /\ commands' \in 0 .. MaxCommands
      /\ faults' \in 0 .. MaxFaults /\ crashes' \in 0 .. MaxCrashes
  BY Typed, ControlTypes, StepOps DEF StoreInv, SameCommand
<1>2. cmd.kind \in Kinds
  BY <1>1 DEF StoreInv, Phase, CmdType
<1>3. DataOK' /\ MetaOK' /\ Phase'
  <2>1. /\ None \notin {"set", "save", "load", "saveAs", "loadNamed", "delete"}
        /\ cmd.kind \in {"set", "save", "load", "saveAs", "loadNamed", "delete"}
    BY <1>2, StoreAssumption DEF Kinds
  <2>2. CASE cmd.kind = "set"
    BY <1>1, <2>1, <2>2, SetKind DEF Phase
  <2>3. CASE cmd.kind = "save"
    BY <1>1, <2>1, <2>3, SaveKind DEF Phase
  <2>4. CASE cmd.kind = "load"
    BY <1>1, <2>1, <2>4, LoadKind DEF Phase
  <2>5. CASE cmd.kind = "saveAs"
    BY <1>1, <2>1, <2>5, SaveAsKind DEF Phase
  <2>6. CASE cmd.kind = "delete"
    BY <1>1, <2>1, <2>6, DeleteKind DEF Phase
  <2>7. CASE cmd.kind = "loadNamed"
    BY <1>1, <2>1, <2>7, LoadNamedKind DEF Phase
  <2> QED BY <2>1, <2>2, <2>3, <2>4, <2>5, <2>6, <2>7
<1>4. STypeOK'
  BY <1>1, <1>3 DEF STypeOK, DataOK, MetaOK, CmdType
<1> QED BY <1>3, <1>4 DEF StoreInv, MetaOK

-----------------------------------------------------------------------------
(* The next command, and a power loss.                                     *)

LEMMA NotOver ==
  /\ Ending # <<>> /\ FromMeta # <<>> /\ FromActivate # <<>> /\ FromInstall # <<>>
  /\ FromBackup # <<>> /\ FromClear # <<>> /\ FromFind # <<>>
  /\ Then("dropBackup", <<>>) # <<>> /\ UndoMeta # <<>> /\ UndoActive # <<>>
  /\ UndoClear # <<>> /\ UndoCopy # <<>> /\ DelRemove # <<>> /\ DelActive # <<>>
  /\ \A s \in Seq(Loads) : Cat(s, Ending) # <<>>
<1>1. ASSUME NEW s \in Seq(Loads) PROVE Cat(s, Ending) # <<>>
  <2>1. Ending \in Seq(Accesses) /\ Ending # <<>>
    BY Remainders DEF StepOf
  <2>2. CASE s = <<>>
    BY <2>1, <2>2, Heads, SomeAccesses
  <2>3. CASE s # <<>>
    BY <2>1, <2>3, Heads, SomeAccesses
  <2> QED BY <2>2, <2>3
<1> QED BY <1>1, Remainders, UndoRemainders, OtherRemainders DEF StepOf

\* Between commands the active configuration is listed.
LEMMA Idle == ASSUME StoreInv, todo = <<>> PROVE Listed(live)
<1>1. cmd.kind \in Kinds \cup {None} /\ Phase
  BY Typed DEF StoreInv, CmdType
<1>2. CASE cmd.kind = "delete"
  BY <1>1, <1>2, NotOver DEF Phase, DeletePhase
<1>3. CASE cmd.kind \in {None, "set", "save", "load", "saveAs", "loadNamed"}
  BY <1>1, <1>3 DEF Phase, SetPhase, SavePhase, LoadPhase, SaveAsPhase, LoadNamedPhase
<1> QED BY <1>1, <1>2, <1>3 DEF Kinds

LEMMA Boots == /\ \A c \in Content \cup {Missing} : Booted(c) \in [Groups -> Values]
               /\ NoCommand \in CmdType
<1>1. /\ \A c \in Content \cup {Missing} : Booted(c) \in [Groups -> Values]
  BY StoreAssumption DEF Booted, Content
<1> QED BY <1>1 DEF NoCommand, CmdType

LEMMA Giving ==
  ASSUME StoreInv, NEW kind \in Kinds, NEW group \in Groups \cup {None},
         NEW value \in Values \cup {None}, NEW name \in Names \cup {None},
         Give(kind, group, value, name),
         kind = "set" => group \in Groups /\ value \in Values,
         kind \in {"saveAs", "loadNamed", "delete"} => name \in Names
  PROVE  StoreInv'
<1>1. /\ STypeOK /\ DataOK /\ MetaOK /\ Listed(live) /\ commands \in Nat
      /\ commands' \in 0 .. MaxCommands /\ UNCHANGED <<ram, files, live, faults, crashes>>
  <2>1. todo = <<>> /\ commands < MaxCommands /\ commands' = commands + 1
    BY DEF Give
  <2>2. commands \in 0 .. MaxCommands /\ MaxCommands \in Nat
    BY StoreAssumption DEF StoreInv, STypeOK
  <2>3. commands' \in 0 .. MaxCommands /\ commands \in Nat
    BY <2>1, <2>2
  <2> QED BY <2>1, <2>3, Data, Idle DEF StoreInv, Give
<1>2. /\ cmd' \in CmdType /\ cmd'.kind = kind /\ cmd'.group = group /\ cmd'.value = value
      /\ cmd'.name = name /\ ~cmd'.failed /\ ~cmd'.hurt /\ ~cmd'.restoring
      /\ cmd'.from = [ram |-> ram, paramsTxt |-> paramsTxt, active |-> live.active]
  <2>1. cmd' = [NoCommand EXCEPT
                 !.kind = kind, !.group = group, !.value = value, !.name = name,
                 !.from = [ram |-> ram, paramsTxt |-> paramsTxt, active |-> live.active]]
    BY DEF Give
  <2>2. /\ ram \in [Groups -> Values] /\ paramsTxt \in Content \cup {Missing}
        /\ live.active \in Names \cup {None}
    BY <1>1 DEF DataOK
  <2> QED BY <2>1, <2>2, Boots DEF NoCommand, CmdType
<1>3. /\ kind = "set"    => todo' = Then("store", <<On("write", group)>>)
      /\ kind = "save"   => todo' = SaveAllParams
      /\ kind = "load"   => todo' = LoadAllParams
      /\ kind = "saveAs" => todo' = Cat(SaveAllParams, AsAdmit)
      /\ kind = "loadNamed" => todo' = FromFind
      /\ kind = "delete" => todo' = DelUnlist
  <2>1. /\ kind = "set"    => todo' = SetParam(group)
        /\ kind = "save"   => todo' = SaveAllParams
        /\ kind = "load"   => todo' = LoadAllParams
        /\ kind = "saveAs" => todo' = SaveConfigAs
        /\ kind = "loadNamed" => todo' = LoadConfigNamed
        /\ kind = "delete" => todo' = DeleteConfig
    BY DEF Give
  <2> QED BY <2>1, Programs
<1>4. Unchanged' /\ Listed(live)'
  BY <1>1, <1>2 DEF Unchanged, Listed, files
<1>5. /\ Clean' /\ kind # "set" /\ kind # "loadNamed" => ram' = Target'
      /\ Clean' => OldOrNew(paramsTxt)'
  <2>1. kind # "set" /\ kind # "loadNamed" => ram' = Target'
    BY <1>1, <1>2 DEF Target
  <2>2. Clean' => Booted(paramsTxt') = cmd'.from.ram
    BY <1>1, <1>2 DEF Clean, files
  <2> QED BY <2>1, <2>2 DEF OldOrNew
<1>6. /\ SaveAllParams \in Seq(WritesOf(Groups)) /\ SaveAllParams = Cat(SaveAllParams, <<>>)
      /\ LoadAllParams \in Seq(Loads)
  BY SavesAndLoads, Heads, SomeAccesses, Subsequences
<1>7. Phase'
  <2>1. None \notin {"set", "save", "load", "saveAs", "loadNamed", "delete"}
    BY StoreAssumption DEF Kinds
  <2>2. CASE kind = "set"
    BY <1>2, <1>3, <1>4, <2>1, <2>2 DEF Phase, SetPhase
  <2>3. CASE kind = "save"
    <3>1. Saving(Groups, <<>>)'
      BY <1>3, <1>5, <1>6, <2>3 DEF Saving
    <3> QED BY <1>2, <1>4, <2>1, <2>3, <3>1 DEF Phase, SavePhase
  <2>4. CASE kind = "load"
    BY <1>2, <1>3, <1>4, <1>6, <2>1, <2>4 DEF Phase, LoadPhase, Unchanged
  <2>5. CASE kind = "saveAs"
    <3>1. Saving(Groups, AsAdmit)'
      BY <1>3, <1>5, <1>6, <2>5 DEF Saving
    <3> QED BY <1>2, <1>4, <2>1, <2>5, <3>1 DEF Phase, SaveAsPhase
  <2>6. CASE kind = "loadNamed"
    <3>1. Loading'
      BY <1>2, <1>3, <1>4, <2>6 DEF Loading
    <3>2. /\ live'.cut \/ cmd'.from.active \in live'.list \cup {None}
          /\ paramsTxt' = cmd'.from.paramsTxt
      BY <1>2, <1>4 DEF Listed, Unchanged
    <3> QED BY <1>2, <1>4, <2>1, <2>6, <3>1, <3>2 DEF Phase, LoadNamedPhase
  <2>7. CASE kind = "delete"
    BY <1>2, <1>3, <1>4, <2>1, <2>7 DEF Phase, DeletePhase, Unchanged
  <2> QED BY <2>2, <2>3, <2>4, <2>5, <2>6, <2>7 DEF Kinds
<1>8. todo' \in Seq(Accesses)
  <2>1. /\ FromFind \in Seq(Accesses) /\ DelUnlist \in Seq(Accesses)
        /\ AsAdmit \in Seq(Accesses)
    BY Remainders, OtherRemainders DEF StepOf
  <2>2. SaveAllParams \in Seq(Accesses) /\ LoadAllParams \in Seq(Accesses)
    BY SavesAndLoads, Subsequences
  <2>3. kind = "set" => Then("store", <<On("write", group)>>) \in Seq(Accesses)
    <3>1. kind = "set" => On("write", group) \in Accesses
      BY SomeAccesses DEF Accesses, On, Ops
    <3>2. kind = "set" => <<On("write", group)>> \in Seq(Accesses)
      BY <3>1
    <3> QED BY <3>2, Thens DEF Ops
  <2>4. Cat(SaveAllParams, AsAdmit) \in Seq(Accesses)
    BY <2>1, <2>2, Cats
  <2> QED BY <1>3, <2>1, <2>2, <2>3, <2>4 DEF Kinds
<1>9. STypeOK'
  <2>1. DataOK' /\ MetaOK' /\ faults' \in 0 .. MaxFaults /\ crashes' \in 0 .. MaxCrashes
    BY <1>1 DEF DataOK, MetaOK, Listed, files, STypeOK
  <2> QED BY <1>1, <1>2, <1>8, <2>1 DEF STypeOK, DataOK, MetaOK, CmdType
<1> QED BY <1>1, <1>7, <1>9 DEF StoreInv, MetaOK, Listed, files

LEMMA Restarts ==
  ASSUME StoreInv, Restart
  PROVE  StoreInv'
<1>1. /\ DataOK /\ MetaOK /\ STypeOK /\ crashes' \in 0 .. MaxCrashes
  <2>1. crashes \in 0 .. MaxCrashes /\ MaxCrashes \in Nat
    BY StoreAssumption DEF StoreInv, STypeOK
  <2> QED BY <2>1, Data DEF StoreInv, Restart
<1>2. /\ ram' = Booted(paramsTxt) /\ live' = meta /\ todo' = <<>> /\ cmd' = NoCommand
      /\ UNCHANGED <<files, commands, faults>>
  BY DEF Restart
<1>3. ram' \in [Groups -> Values] /\ cmd' \in CmdType /\ cmd'.kind = None
  BY <1>1, <1>2, Boots DEF DataOK, NoCommand
<1>4. STypeOK' /\ MetaOK'
  BY <1>1, <1>2, <1>3, Subsequences DEF STypeOK, DataOK, MetaOK, CmdType, files, Listed
<1>5. Phase'
  BY <1>1, <1>2, <1>3, StoreAssumption DEF Phase, MetaOK, Listed, Kinds
<1> QED BY <1>4, <1>5 DEF StoreInv, MetaOK

LEMMA StoreStarts == SInit => StoreInv
<1> SUFFICES ASSUME SInit PROVE StoreInv
  OBVIOUS
<1>1. /\ ram \in [Groups -> Values] /\ cmd \in CmdType /\ cmd.kind = None
      /\ live = NoConfigs /\ meta = live
      /\ IsFiniteSet({}) /\ Cardinality({}) = 0
      /\ todo = <<>>
  BY Boots, FS_EmptySet DEF SInit, NoCommand
<1>2. live.active = None /\ live.list = {} /\ live.cut = FALSE
  BY <1>1 DEF NoConfigs
<1>3. STypeOK
  <2>1. Cardinality(live.list) <= MaxConfigs
    BY <1>1, <1>2, StoreAssumption
  <2>2. /\ commands \in 0 .. MaxCommands /\ faults \in 0 .. MaxFaults
        /\ crashes \in 0 .. MaxCrashes
    BY StoreAssumption DEF SInit
  <2>3. {live, meta} \subseteq [active : Names \cup {None}, list : SUBSET Names, cut : BOOLEAN]
    BY <1>1 DEF NoConfigs
  <2> QED BY <1>1, <1>2, <2>1, <2>2, <2>3, Subsequences DEF STypeOK, SInit, CmdType
<1>4. Listed(meta) /\ Listed(live)
  BY <1>1, <1>2 DEF Listed
<1>5. Phase
  BY <1>1, <1>4, StoreAssumption DEF Phase, Kinds
<1> QED BY <1>1, <1>2, <1>3, <1>4, <1>5 DEF StoreInv, STypeOK

LEMMA StoreNext == StoreInv /\ [SNext]_svars => StoreInv'
<1> SUFFICES ASSUME StoreInv, [SNext]_svars PROVE StoreInv'
  OBVIOUS
<1>1. CASE Request
  <2>1. CASE \E g \in Groups, v \in Values : Give("set", g, v, None)
    BY <2>1, Giving DEF Kinds
  <2>2. CASE \E kind \in {"save", "load"} : Give(kind, None, None, None)
    BY <2>2, Giving DEF Kinds
  <2>3. CASE \E kind \in {"saveAs", "loadNamed", "delete"}, n \in Names :
                Give(kind, None, None, n)
    BY <2>3, Giving DEF Kinds
  <2> QED BY <1>1, <2>1, <2>2, <2>3 DEF Request
<1>2. CASE SaveStep \/ LoadStep \/ ConfigStep
  BY <1>2, StoreSteps DEF Steps
<1>3. CASE Restart
  BY <1>3, Restarts
<1>4. CASE UNCHANGED svars
  <2>1. /\ UNCHANGED <<ram, paramsTxt, tmp, bak, conf, meta, live, cmd, todo>>
        /\ UNCHANGED <<commands, faults, crashes>>
    BY <1>4 DEF svars, files, counts
  <2>2. Phase'
    <3>1. /\ Listed(live)' = Listed(live) /\ Unchanged' = Unchanged /\ Clean' = Clean
          /\ Target' = Target
      BY <2>1 DEF Listed, Unchanged, Clean, Target
    <3>2. OldOrNew(paramsTxt)' = OldOrNew(paramsTxt)
      BY <2>1, <3>1 DEF OldOrNew
    <3>3. /\ Saving({cmd.group}, <<>>) => Saving({cmd.group}, <<>>)'
          /\ Saving(Groups, <<>>) => Saving(Groups, <<>>)'
          /\ Saving(Groups, AsAdmit) => Saving(Groups, AsAdmit)'
      BY <2>1, <3>1, <3>2 DEF Saving
    <3>4. SetPhase => SetPhase'
      BY <2>1, <3>1, <3>3 DEF SetPhase
    <3>5. SavePhase => SavePhase'
      BY <3>1, <3>3 DEF SavePhase
    <3>6. LoadPhase => LoadPhase'
      BY <2>1, <3>1 DEF LoadPhase
    <3>7. SaveAsPhase => SaveAsPhase'
      BY <2>1, <3>1, <3>2, <3>3 DEF SaveAsPhase, Room
    <3>8. DeletePhase => DeletePhase'
      BY <2>1, <3>1 DEF DeletePhase
    <3>9. Loading => Loading'
      BY <2>1, <3>1 DEF Loading, Found, Kept, Installed, InMemory
    <3>10. Undoing => Undoing'
      BY <2>1 DEF Undoing, Kept, Restored, InMemory
    <3>11. LoadNamedPhase => LoadNamedPhase'
      BY <2>1, <3>1, <3>9, <3>10 DEF LoadNamedPhase, Installed
    <3> QED BY <2>1, <3>1, <3>4, <3>5, <3>6, <3>7, <3>8, <3>11 DEF StoreInv, Phase
  <2>3. STypeOK'
    BY <2>1 DEF StoreInv, STypeOK
  <2> QED BY <2>1, <2>2, <2>3 DEF StoreInv, Listed
<1> QED BY <1>1, <1>2, <1>3, <1>4 DEF SNext

THEOREM StoreInvariant == SSpec => []StoreInv
BY StoreStarts, StoreNext, PTL DEF SSpec

-----------------------------------------------------------------------------
(* What the parameter store promises.                                      *)

\* The files and what is in memory are always of the kind the code puts there, and no
\* more configurations are listed than there may be.
THEOREM StoreTypeCorrect == SSpec => []STypeOK
<1>1. StoreInv => STypeOK
  BY DEF StoreInv
<1> QED BY <1>1, StoreInvariant, PTL

\* The configuration ConfigManager reports as active is a listed one: in memory between
\* commands, and in the metadata file after every access, so that a power loss at any
\* point of a save, a load or a deletion leaves it so; but for metadata cut short, and
\* what goes back to them.
THEOREM ActiveStaysListed == SSpec => []ActiveIsListed
<1>1. StoreInv => ActiveIsListed
  BY Idle DEF ActiveIsListed, Done, StoreInv, Listed
<1> QED BY <1>1, StoreInvariant, PTL

LEMMA Ended ==
  ASSUME StoreInv, Done, cmd.kind = "loadNamed"
  PROVE  /\ ~cmd.failed => /\ Found /\ Installed /\ live.active = cmd.name
                           /\ meta.cut \/ meta = live
                           /\ \A g \in Groups : InMemory(g)
         /\ cmd.failed /\ ~cmd.restoring => Unchanged
         /\ cmd.failed /\ cmd.restoring /\ ~cmd.hurt
              => /\ paramsTxt = cmd.from.paramsTxt /\ live.active = cmd.from.active
                 /\ \A g \in Groups : InMemory(g)
<1>1. LoadNamedPhase /\ todo = <<>>
  BY DEF StoreInv, Phase, Done
<1>2. CASE cmd.restoring
  <2>1. Undoing /\ cmd.failed
    BY <1>1, <1>2 DEF LoadNamedPhase
  <2> QED BY <1>1, <1>2, <2>1, NotOver, Nothing DEF Undoing, Restored
<1>3. CASE ~cmd.restoring
  <2>1. Loading
    BY <1>1, <1>3 DEF LoadNamedPhase
  <2> QED BY <1>1, <1>3, <2>1, NotOver DEF Loading
<1> QED BY <1>2, <1>3

\* LoadConfigNamed reports success only when the configuration is in force: its file is
\* /params.txt, every group it has lines of has those values in memory, and its name is
\* the active one in memory and in the metadata file - in memory only if SaveMetadata,
\* which does not look at the result of print, has written that file cut short.
THEOREM LoadPutsInForce == SSpec => []LoadedIsInForce
<1>1. ASSUME StoreInv PROVE LoadedIsInForce
  <2> SUFFICES ASSUME Done, cmd.kind = "loadNamed", ~cmd.failed
               PROVE  /\ paramsTxt = conf[cmd.name]
                      /\ \A g \in Groups : paramsTxt[g] # NoLine => ram[g] = paramsTxt[g]
                      /\ live.active = cmd.name /\ (meta.cut \/ meta = live)
    BY DEF LoadedIsInForce
  <2> QED BY <1>1, Ended DEF Found, Installed, InMemory
<1> QED BY <1>1, StoreInvariant, PTL

\* restorePreviousParams: a load reported as failed leaves the parameters in memory,
\* /params.txt and the active name as they were before it, whichever step failed, unless
\* a step of undoing it failed too.
THEOREM FailedLoadChangesNothing == SSpec => []FailedLoadIsUndone
<1>1. ASSUME StoreInv PROVE FailedLoadIsUndone
  <2> SUFFICES ASSUME Done, cmd.kind = "loadNamed", cmd.failed, ~cmd.hurt,
                      cmd.from.paramsTxt = cmd.from.ram
               PROVE  /\ ram = cmd.from.ram /\ paramsTxt = cmd.from.paramsTxt
                      /\ live.active = cmd.from.active
    BY DEF FailedLoadIsUndone
  <2>1. CASE ~cmd.restoring
    BY <1>1, <2>1, Ended DEF Unchanged
  <2>2. CASE cmd.restoring
    <3>1. /\ paramsTxt = cmd.from.paramsTxt /\ live.active = cmd.from.active
          /\ \A g \in Groups : InMemory(g)
      BY <1>1, <2>2, Ended
    <3>2. /\ ram \in [Groups -> Values] /\ cmd.from.ram \in [Groups -> Values]
          /\ NoLine \notin Values /\ Missing \notin [Groups -> Values \cup {NoLine}]
      BY <1>1, Typed, StoreAssumption DEF StoreInv, CmdType, Content
    <3>3. paramsTxt \in [Groups -> Values] /\ paramsTxt # Missing
      BY <3>1, <3>2
    <3>4. \A g \in Groups : ram[g] = cmd.from.ram[g]
      BY <3>1, <3>2, <3>3 DEF InMemory
    <3> QED BY <3>1, <3>2, <3>4
  <2> QED BY <2>1, <2>2
<1> QED BY <1>1, StoreInvariant, PTL

\* What /params.txt would bring up, in the middle of a command without faults.
LEMMA InTheMiddle ==
  ASSUME StoreInv, ~Done, Clean
  PROVE  Booted(paramsTxt) \in {cmd.from.ram, Target, Booted(Missing)}
<1>1. cmd.kind \in Kinds \cup {None} /\ Phase /\ todo # <<>>
  BY Typed DEF StoreInv, CmdType, Done
<1>2. ASSUME NEW G, NEW rest, Saving(G, rest)
      PROVE  OldOrNew(paramsTxt) \/ paramsTxt = Missing
  BY <1>2 DEF Saving
<1>3. paramsTxt = cmd.from.paramsTxt => Booted(paramsTxt) = cmd.from.ram
  BY DEF Clean
<1>4. CASE cmd.kind = "set"
  BY <1>1, <1>2, <1>3, <1>4 DEF Phase, SetPhase, Unchanged, OldOrNew
<1>5. CASE cmd.kind = "save"
  BY <1>1, <1>2, <1>5 DEF Phase, SavePhase, OldOrNew
<1>6. CASE cmd.kind = "load"
  BY <1>1, <1>3, <1>6 DEF Phase, LoadPhase
<1>7. CASE cmd.kind = "saveAs"
  BY <1>1, <1>2, <1>7 DEF Phase, SaveAsPhase, OldOrNew
<1>8. CASE cmd.kind = "delete"
  BY <1>1, <1>3, <1>8 DEF Phase, DeletePhase
<1>9. CASE cmd.kind = "loadNamed"
  BY <1>1, <1>3, <1>9 DEF Phase, LoadNamedPhase, Installed, Clean, Target
<1> QED BY <1>1, <1>4, <1>5, <1>6, <1>7, <1>8, <1>9 DEF Phase, Kinds

\* A power loss in the middle of any command, begun with the parameters on file, brings
\* up those before it, those after it or the compiled ones, and no mixture: SaveParams
\* writes a whole new file before it removes the old one.
THEOREM PowerLossLeavesNoMixture == SSpec => NeverAMixture
<1> DEFINE A == crashes' # crashes /\ ~Done /\ faults = 0
                  /\ Booted(cmd.from.paramsTxt) = cmd.from.ram
                => ram' \in {cmd.from.ram, Target, Booted(Missing)}
<1>1. ASSUME StoreInv, [SNext]_svars PROVE [A]_svars
  <2>1. CASE UNCHANGED svars
    BY <2>1
  <2>2. CASE Request
    BY <2>2 DEF Request, Give
  <2>3. CASE SaveStep \/ LoadStep \/ ConfigStep
    BY <1>1, <2>3, ControlTypes DEF StoreInv, Steps
  <2>4. CASE Restart
    BY <1>1, <2>4, InTheMiddle DEF Restart, Clean
  <2> QED BY <1>1, <2>1, <2>2, <2>3, <2>4 DEF SNext
<1> HIDE DEF A
<1>2. SSpec => [][A]_svars
  BY <1>1, StoreInvariant, PTL DEF SSpec
<1> QED BY <1>2 DEF NeverAMixture, A

=============================================================================
