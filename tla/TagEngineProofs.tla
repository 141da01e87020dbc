--------------------------- MODULE TagEngineProofs ---------------------------
(***************************************************************************)
(* Proofs about TagEngine, for any number of anchors, any size of the      *)
(* bucket, any validity and any number of faults.                          *)
(***************************************************************************)
EXTENDS TagEngine, FiniteSetTheorems, TLAPS

\* The bucket holds a sample for every one that agreed with the correction and was not
\* outweighed since.
Vouched ==
  \A a \in Anchors : store[a].clockCorrectionBucket + held[a].missed >= held[a].agreed

Inv == TypeOK /\ Vouched

-----------------------------------------------------------------------------
LEMMA Remainder ==
  ASSUME NEW n \in Nat, NEW m \in Nat \ {0}
  PROVE  n % m \in 0 .. m - 1 /\ n \div m \in 0 .. n
<1>1. n % m \in 0 .. m - 1
  OBVIOUS
<1>2. n \div m \in Nat
  OBVIOUS
<1>3. n = m * (n \div m) + (n % m)
  OBVIOUS
<1>4. n \div m <= m * (n \div m)
  <2> DEFINE q == n \div m
  <2>1. q \in Nat /\ m - 1 \in Nat
    BY <1>2
  <2> HIDE DEF q
  <2>2. (m - 1) * q \in Nat
    BY <2>1
  <2>3. m * q = (m - 1) * q + q
    BY <2>1
  <2>4. m * q \in Nat
    BY <2>1
  <2>5. q <= m * q
    BY <2>1, <2>2, <2>3, <2>4
  <2> QED BY <2>5 DEF q
<1> QED BY <1>1, <1>2, <1>3, <1>4

LEMMA SlotTypes ==
  ASSUME now \in 1 .. MaxSlot
  PROVE  /\ Sender \in Anchors
         /\ Frame \in 0 .. MaxSlot
         /\ Frame % SeqMod \in 0 .. SeqMod - 1
         /\ \A r \in Anchors : LastFrame(r) \in Frames
<1> USE EngineAssumption
<1>1. now - 1 \in Nat /\ MaxSlot \in Nat
  OBVIOUS
<1>2. Sender \in 0 .. N - 1 /\ Frame \in 0 .. now - 1
  BY <1>1, Remainder DEF Sender, Frame
<1>3. Frame \in Nat /\ Frame \in 0 .. MaxSlot
  BY <1>1, <1>2
<1>4. Frame % SeqMod \in 0 .. SeqMod - 1
  BY <1>3, Remainder
<1>5. \A r \in Anchors : LastFrame(r) \in Frames
  BY <1>3 DEF LastFrame, Frames, NoFrame
<1> QED BY <1>2, <1>3, <1>4, <1>5 DEF Anchors

\* What the packet says of others leaves the sender's clock alone.
LEMMA RemoteDataType ==
  ASSUME now \in 1 .. MaxSlot, NEW s \in AnchorInfo,
         NEW heard \in SUBSET Anchors, NEW ranged \in SUBSET Anchors
  PROVE  LET u == updateRemoteData(s, heard, ranged)
         IN  /\ u \in AnchorInfo
             /\ u.frame = s.frame
             /\ u.clockCorrection = s.clockCorrection
             /\ u.clockCorrectionBucket = s.clockCorrectionBucket
<1> DEFINE Remote == [Anchors -> [frame : Frames,
                                  endOfLife : 0 .. MaxSlot + RemoteValidity + 1]]
           Tof == [Anchors -> 0 .. MaxSlot + TofValidity + 1]
           remote == [r \in Anchors |->
              IF r \in heard THEN [frame |-> LastFrame(r), endOfLife |-> now + RemoteValidity]
                             ELSE s.remote[r]]
           tof == [r \in Anchors |-> IF r \in ranged THEN now + TofValidity ELSE s.remoteTof[r]]
<1>1. s.remote \in Remote /\ s.remoteTof \in Tof
  BY DEF AnchorInfo
<1>2. /\ now + RemoteValidity \in 0 .. MaxSlot + RemoteValidity + 1
      /\ now + TofValidity \in 0 .. MaxSlot + TofValidity + 1
  BY EngineAssumption
<1>3. remote \in Remote
  BY <1>1, <1>2, SlotTypes
<1>4. tof \in Tof
  BY <1>1, <1>2
<1> HIDE DEF remote, tof
<1>5. updateRemoteData(s, heard, ranged) =
        [s EXCEPT !.isInitialized = TRUE, !.remote = remote, !.remoteTof = tof]
  BY DEF updateRemoteData, SetRemoteTimeOfFlight, SetRemoteRxTime, AnchorInfo, remote, tof
<1> QED BY <1>3, <1>4, <1>5 DEF AnchorInfo

\* A sample: the bucket fills by one, or drains by one, or is empty and may let the
\* sample's correction in.
LEMMA ClockCorrectionType ==
  ASSUME NEW s \in AnchorInfo, NEW candidate \in {"right", "wrong", "outOfSpec"}
  PROVE  LET t == updateClockCorrection(s, candidate)
         IN  /\ t \in AnchorInfo
             /\ ~HasSample(s) => t = s
             /\ HasSample(s) /\ candidate = s.clockCorrection =>
                  /\ t.clockCorrection = s.clockCorrection
                  /\ t.clockCorrectionBucket = Lesser(s.clockCorrectionBucket + 1, BucketMax)
             /\ HasSample(s) /\ candidate # s.clockCorrection =>
                  \/ /\ t.clockCorrection = s.clockCorrection
                     /\ s.clockCorrectionBucket > 0
                     /\ t.clockCorrectionBucket = s.clockCorrectionBucket - 1
                  \/ /\ s.clockCorrectionBucket = 0
                     /\ t.clockCorrectionBucket = 0
                     /\ t.clockCorrection \in {s.clockCorrection, candidate}
<1> DEFINE t == updateClockCorrection(s, candidate)
<1>1. /\ s.clockCorrectionBucket \in 0 .. BucketMax
      /\ s.clockCorrection \in {"none", "right", "wrong"}
  BY DEF AnchorInfo
<1>2. CASE ~HasSample(s)
  BY <1>2 DEF updateClockCorrection
<1>3. CASE HasSample(s) /\ candidate = s.clockCorrection
  <2>1. t = [s EXCEPT !.clockCorrectionBucket = Lesser(s.clockCorrectionBucket + 1, BucketMax)]
    BY <1>3 DEF updateClockCorrection, clockCorrectionEngineUpdate, AnchorInfo
  <2>2. Lesser(s.clockCorrectionBucket + 1, BucketMax) \in 0 .. BucketMax
    BY <1>1, EngineAssumption DEF Lesser
  <2> QED BY <1>3, <2>1, <2>2 DEF AnchorInfo
<1>4. CASE HasSample(s) /\ candidate # s.clockCorrection /\ s.clockCorrectionBucket > 0
  <2>1. t = [s EXCEPT !.clockCorrectionBucket = s.clockCorrectionBucket - 1]
    BY <1>4 DEF updateClockCorrection, clockCorrectionEngineUpdate, AnchorInfo
  <2>2. s.clockCorrectionBucket - 1 \in 0 .. BucketMax
    BY <1>1, <1>4, EngineAssumption
  <2> QED BY <1>4, <2>1, <2>2 DEF AnchorInfo
<1>5. CASE HasSample(s) /\ candidate # s.clockCorrection /\ ~(s.clockCorrectionBucket > 0)
  <2>1. s.clockCorrectionBucket = 0
    BY <1>1, <1>5, EngineAssumption
  <2>2. t = IF candidate = "outOfSpec" THEN s ELSE [s EXCEPT !.clockCorrection = candidate]
    BY <1>5 DEF updateClockCorrection, clockCorrectionEngineUpdate
  <2> QED BY <1>5, <2>1, <2>2 DEF AnchorInfo
<1> QED BY <1>2, <1>3, <1>4, <1>5

LEMMA SearchFinds ==
  ASSUME TypeOK, NEW s, NEW t, NEW candidate, NEW m \in Search(s, t, candidate)
  PROVE  m.found = NoFrame \/ m.found \in Anchors
<1>1. CASE ~Reliable(s, candidate)
  BY <1>1 DEF Search
<1>2. CASE Reliable(s, candidate) /\ matcher = "Youngest"
  BY <1>2 DEF Search, findSuitableAnchor, matchYoungestAnchor, Matching, RemoteList
<1>3. CASE Reliable(s, candidate) /\ matcher = "Random"
  <2>1. findSuitableAnchor(t) = matchRandomAnchor(t)
    BY <1>3 DEF findSuitableAnchor
  <2>2. m \in matchRandomAnchor(t)
    BY <1>3, <2>1 DEF Search
  <2> QED BY <2>2 DEF matchRandomAnchor, Matching, RemoteList
<1> QED BY <1>1, <1>2, <1>3 DEF TypeOK, Matchers

\* A reception: what the packet says, and the n faults that it is.
Hears(heard, ranged, candidate, n) ==
  LET s == updateRemoteData(store[Sender], heard, ranged)
      t == updateClockCorrection(s, candidate)
  IN  /\ \A r \in heard : LastFrame(r) >= 0
      /\ Fault(n)
      /\ Tick
      /\ Hold(s, t, candidate)
      /\ \E m \in Search(s, t, candidate) :
           /\ store' = [Created(m.looked) EXCEPT ![Sender] = SetRxTxData(t)]
           /\ out' = IF m.found = NoFrame THEN NoMeasurement ELSE Measurement(t, m.found)
      /\ UNCHANGED matcher

LEMMA ReceiveHears ==
  ASSUME Receive
  PROVE  \E heard \in SUBSET (Anchors \ {Sender}), ranged \in SUBSET (Anchors \ {Sender}),
            candidate \in {"right", "wrong", "outOfSpec"}, n \in Nat :
               Hears(heard, ranged, candidate, n)
<1>1. PICK heard \in SUBSET (Anchors \ {Sender}), ranged \in SUBSET (Anchors \ {Sender}),
           candidate \in {"right", "wrong", "outOfSpec"} :
        Hears(heard, ranged, candidate,
              Cardinality({r \in (Anchors \ {Sender}) \ heard :
                             store[r].frame = LastFrame(r) /\ LastFrame(r) # NoFrame})
              + Cardinality(heard \ ranged)
              + IF candidate = "right" THEN 0 ELSE 1)
  BY ZenonT(40) DEF Receive, Hears
<1> DEFINE silent == {r \in (Anchors \ {Sender}) \ heard : store[r].frame = LastFrame(r)
                                                            /\ LastFrame(r) # NoFrame}
           unranged == heard \ ranged
           odd == IF candidate = "right" THEN 0 ELSE 1
<1>2. Cardinality(silent) \in Nat /\ Cardinality(unranged) \in Nat
  <2>1. IsFiniteSet(Anchors)
    BY EngineAssumption, FS_Interval DEF Anchors
  <2>2. silent \subseteq Anchors /\ unranged \subseteq Anchors
    OBVIOUS
  <2> QED BY <2>1, <2>2, FS_Subset, FS_CardinalityType
<1>3. Cardinality(silent) + Cardinality(unranged) + odd \in Nat
  BY <1>2
<1> QED BY <1>1, <1>3

\* What a reception does: the sender's context t, with its reception, replaces the old
\* one; those of the others keep their clocks.
LEMMA ReceiveStep ==
  ASSUME Inv, Receive
  PROVE  TypeOK' /\ Vouched'
         /\ \A a \in Anchors :
              /\ store[a].clockCorrection # "none"
              /\ store'[a].clockCorrection # store[a].clockCorrection
              => held[a].missed >= held[a].agreed
<1> USE EngineAssumption
<1>1. PICK heard \in SUBSET (Anchors \ {Sender}), ranged \in SUBSET (Anchors \ {Sender}),
           candidate \in {"right", "wrong", "outOfSpec"}, n \in Nat :
        Hears(heard, ranged, candidate, n)
  BY ReceiveHears
<1> DEFINE s == updateRemoteData(store[Sender], heard, ranged)
           t == updateClockCorrection(s, candidate)
<1>2. /\ now \in 1 .. MaxSlot /\ now' = now + 1
      /\ matcher' = matcher
      /\ faults' \in 0 .. MaxFaults
      /\ clean' = IF n = 0 THEN Lesser(clean + 1, RecoverySlots) ELSE 0
      /\ Hold(s, t, candidate)
  BY <1>1 DEF Hears, Tick, Fault, Inv, TypeOK
<1>3. PICK m \in Search(s, t, candidate) :
        /\ store' = [Created(m.looked) EXCEPT ![Sender] = SetRxTxData(t)]
        /\ out' = IF m.found = NoFrame THEN NoMeasurement ELSE Measurement(t, m.found)
  BY <1>1 DEF Hears
<1>4. Sender \in Anchors /\ store \in [Anchors -> AnchorInfo]
  BY <1>2, SlotTypes DEF Inv, TypeOK
<1>5. /\ s \in AnchorInfo
      /\ s.clockCorrection = store[Sender].clockCorrection
      /\ s.clockCorrectionBucket = store[Sender].clockCorrectionBucket
  BY <1>2, <1>4, RemoteDataType
<1> HIDE DEF s
<1>6. t \in AnchorInfo
  BY <1>5, ClockCorrectionType
<1>7. /\ SetRxTxData(t) \in AnchorInfo
      /\ SetRxTxData(t).clockCorrection = t.clockCorrection
      /\ SetRxTxData(t).clockCorrectionBucket = t.clockCorrectionBucket
  <2>1. Frame \in Frames /\ Frame % SeqMod \in 0 .. SeqMod - 1 /\ now \in Times
    BY <1>2, SlotTypes DEF Frames, NoFrame, Times
  <2> DEFINE seq == Frame % SeqMod
  <2> HIDE DEF seq
  <2>2. SetRxTxData(t) = [t EXCEPT !.frame = Frame, !.seqNr = seq, !.lastUpdateTime = now]
    BY DEF SetRxTxData, seq
  <2>3. seq \in 0 .. SeqMod - 1
    BY <2>1 DEF seq
  <2> QED BY <1>6, <2>1, <2>2, <2>3 DEF AnchorInfo
<1>8. /\ Created(m.looked) \in [Anchors -> AnchorInfo]
      /\ \A a \in Anchors :
           /\ Created(m.looked)[a].clockCorrection = store[a].clockCorrection
           /\ Created(m.looked)[a].clockCorrectionBucket = store[a].clockCorrectionBucket
  <2>1. ASSUME NEW a \in Anchors
        PROVE  /\ Created(m.looked)[a] \in AnchorInfo
               /\ Created(m.looked)[a].clockCorrection = store[a].clockCorrection
               /\ Created(m.looked)[a].clockCorrectionBucket = store[a].clockCorrectionBucket
    <3>1. store[a] \in AnchorInfo
      BY <1>4
    <3>2. CASE a \in m.looked
      <4>1. Created(m.looked)[a] = [store[a] EXCEPT !.isInitialized = TRUE]
        BY <3>2 DEF Created
      <4> QED BY <3>1, <4>1 DEF AnchorInfo
    <3>3. CASE a \notin m.looked
      <4>1. Created(m.looked)[a] = store[a]
        BY <3>3 DEF Created
      <4> QED BY <3>1, <4>1
    <3> QED BY <3>2, <3>3
  <2>2. Created(m.looked) = [a \in Anchors |-> Created(m.looked)[a]]
    BY DEF Created
  <2> QED BY <2>1, <2>2
<1>9. /\ store' \in [Anchors -> AnchorInfo]
      /\ store'[Sender].clockCorrection = t.clockCorrection
      /\ store'[Sender].clockCorrectionBucket = t.clockCorrectionBucket
      /\ \A a \in Anchors \ {Sender} :
           /\ store'[a].clockCorrection = store[a].clockCorrection
           /\ store'[a].clockCorrectionBucket = store[a].clockCorrectionBucket
  BY <1>3, <1>4, <1>7, <1>8
<1>10. out' = NoMeasurement \/
       out' \in [from : Anchors, to : Anchors, mine : Frames, theirs : Frames, by : Matchers]
  <2>1. CASE m.found = NoFrame
    BY <1>3, <2>1
  <2>2. CASE m.found # NoFrame
    <3>1. m.found \in Anchors
      BY <2>2, SearchFinds DEF Inv
    <3>2. store[m.found].frame \in Frames /\ t.remote[m.found].frame \in Frames
      BY <1>4, <1>6, <3>1 DEF AnchorInfo
    <3>3. matcher \in Matchers
      BY DEF Inv, TypeOK
    <3> QED BY <1>3, <1>4, <2>2, <3>1, <3>2, <3>3 DEF Measurement, RemoteRxTime
  <2> QED BY <2>1, <2>2
<1>11. clean' \in 0 .. RecoverySlots
  <2>1. RecoverySlots \in Nat
    BY DEF RecoverySlots
  <2>2. clean \in 0 .. RecoverySlots
    BY DEF Inv, TypeOK
  <2> QED BY <1>2, <2>1, <2>2 DEF Lesser
<1> DEFINE h == held[Sender]
           b == store[Sender].clockCorrectionBucket
           Counts == [agreed : 0 .. BucketMax, missed : 0 .. BucketMax + 1]
<1>12. /\ held \in [Anchors -> Counts] /\ h \in Counts /\ b \in 0 .. BucketMax
       /\ b + h.missed >= h.agreed
  BY <1>4 DEF Inv, TypeOK, Vouched, AnchorInfo
<1>13. /\ held' \in [Anchors -> Counts]
       /\ \A a \in Anchors \ {Sender} : held'[a] = held[a]
       /\ t.clockCorrectionBucket + held'[Sender].missed >= held'[Sender].agreed
       /\ t.clockCorrection # s.clockCorrection => h.missed >= h.agreed
  <2> HIDE DEF t
  <2>1. \A g \in Counts : held' = [held EXCEPT ![Sender] = g] =>
           /\ held' \in [Anchors -> Counts]
           /\ \A a \in Anchors \ {Sender} : held'[a] = held[a]
           /\ held'[Sender] = g
    BY <1>4, <1>12
  <2>2. CASE ~HasSample(s)
    <3>1. held' = [held EXCEPT ![Sender] = h] /\ t = s
      BY <1>2, <1>5, <2>2, ClockCorrectionType DEF Hold, t
    <3> QED BY <1>5, <1>12, <2>1, <3>1
  <2>3. CASE HasSample(s) /\ candidate = s.clockCorrection
    <3> DEFINE g == [agreed |-> IF h.missed > 0 THEN 1 ELSE Lesser(h.agreed + 1, BucketMax),
                     missed |-> 0]
    <3>1. held' = [held EXCEPT ![Sender] = g]
      BY <1>2, <2>3 DEF Hold, Reliable
    <3>2. /\ t.clockCorrection = s.clockCorrection
          /\ t.clockCorrectionBucket = Lesser(b + 1, BucketMax)
      BY <1>5, <2>3, ClockCorrectionType DEF t
    <3>3. g \in Counts /\ g.missed = 0 /\ g.agreed <= Lesser(b + 1, BucketMax)
      BY <1>12 DEF Lesser
    <3>4. Lesser(b + 1, BucketMax) \in Nat
      BY <1>12 DEF Lesser
    <3>5. g.agreed \in Nat
      BY <3>3
    <3> HIDE DEF g
    <3>6. /\ held' \in [Anchors -> Counts] /\ held'[Sender] = g
          /\ \A a \in Anchors \ {Sender} : held'[a] = held[a]
      BY <2>1, <3>1, <3>3
    <3>7. t.clockCorrectionBucket + g.missed >= g.agreed
      BY <3>2, <3>3, <3>4, <3>5
    <3> QED BY <3>2, <3>6, <3>7
  <2>4. CASE HasSample(s) /\ candidate # s.clockCorrection
    <3>1. \/ /\ t.clockCorrection = s.clockCorrection
             /\ b > 0 /\ t.clockCorrectionBucket = b - 1
          \/ b = 0 /\ t.clockCorrectionBucket = 0
      BY <1>5, <2>4, ClockCorrectionType DEF t
    <3>2. CASE t.clockCorrection # s.clockCorrection
      <4> DEFINE g == [agreed |-> 0, missed |-> 0]
      <4>1. held' = [held EXCEPT ![Sender] = g]
        BY <1>2, <2>4, <3>2 DEF Hold, Reliable
      <4>2. g \in Counts
        OBVIOUS
      <4>3. b = 0 /\ t.clockCorrectionBucket = 0
        BY <3>1, <3>2
      <4>4. h.missed >= h.agreed
        BY <1>12, <4>3
      <4>5. g.missed = 0 /\ g.agreed = 0
        OBVIOUS
      <4> HIDE DEF g
      <4>6. /\ held' \in [Anchors -> Counts] /\ held'[Sender] = g
            /\ \A a \in Anchors \ {Sender} : held'[a] = held[a]
        BY <2>1, <4>1, <4>2
      <4> QED BY <4>3, <4>4, <4>5, <4>6
    <3>3. CASE t.clockCorrection = s.clockCorrection
      <4> DEFINE g == [h EXCEPT !.missed = Lesser(h.missed + 1, BucketMax + 1)]
      <4>1. held' = [held EXCEPT ![Sender] = g]
        BY <1>2, <2>4, <3>3 DEF Hold, Reliable
      <4>2. g \in Counts /\ g.agreed = h.agreed
            /\ g.missed = Lesser(h.missed + 1, BucketMax + 1)
        BY <1>12 DEF Lesser
      <4>3. t.clockCorrectionBucket + g.missed >= g.agreed
        BY <1>12, <3>1, <4>2 DEF Lesser
      <4> HIDE DEF g
      <4> QED BY <2>1, <3>3, <4>1, <4>2, <4>3
    <3> QED BY <3>2, <3>3
  <2> QED BY <2>2, <2>3, <2>4
<1> HIDE DEF t
<1>14. TypeOK'
  BY <1>2, <1>9, <1>10, <1>11, <1>13 DEF Inv, TypeOK
<1>15. Vouched'
  BY <1>9, <1>13 DEF Inv, Vouched
<1> QED BY <1>5, <1>9, <1>13, <1>14, <1>15

-----------------------------------------------------------------------------
(* Which packets the reports and the receptions are of.  The packet of     *)
(* anchor a in frame f is the one of slot N * f + a.                       *)

\* A report is of a packet in the round of slots before it, and lives RemoteValidity
\* slots; nobody reports on its own packets.
ReportOf(rem, r, a) ==
  rem.endOfLife > 0 =>
    /\ r # a /\ rem.frame # NoFrame
    /\ N * rem.frame + r >= rem.endOfLife - RemoteValidity - N

\* A reception has the sequence number of its packet, which is over.
ReceptionOf(s, a) ==
  /\ s.lastUpdateTime > 0 => s.frame # NoFrame
  /\ s.frame # NoFrame => /\ s.seqNr = s.frame % SeqMod
                          /\ N * s.frame + a <= now - 2

Reports == \A a, r \in Anchors : ReportOf(store[a].remote[r], r, a)
Receptions == \A a \in Anchors : ReceptionOf(store[a], a)
FullInv == Inv /\ Reports /\ Receptions

\* Two numbers with the same remainder are the same or at least the divisor apart.
LEMMA SameRemainder ==
  ASSUME NEW m \in Nat \ {0}, NEW x \in Nat, NEW y \in Nat, x % m = y % m, x < y
  PROVE  x + m <= y
<1> DEFINE qx == x \div m
           qy == y \div m
           r == x % m
<1>1. qx \in Nat /\ qy \in Nat /\ r \in Nat
  <2>1. qx \in Nat
    OBVIOUS
  <2>2. qy \in Nat
    OBVIOUS
  <2>3. x % m \in 0 .. m - 1
    BY Remainder
  <2>4. r \in Nat
    BY <2>3
  <2> QED BY <2>1, <2>2, <2>4
<1>2. x = m * qx + r /\ y = m * qy + r
  OBVIOUS
<1> HIDE DEF qx, qy, r
<1>3. m * qx \in Nat /\ m * qy \in Nat
  BY <1>1
<1>4. CASE qy <= qx
  <2>1. PICK d \in Nat : qx = qy + d
    BY <1>1, <1>4
  <2>2. m * qx = m * qy + m * d /\ m * d \in Nat
    BY <1>1, <2>1
  <2> QED BY <1>1, <1>2, <1>3, <2>2
<1>5. CASE qy > qx
  <2>1. PICK d \in Nat : qy = qx + 1 + d
    <3>1. qy - qx - 1 \in Nat /\ qy = qx + 1 + (qy - qx - 1)
      BY <1>1, <1>5
    <3> QED BY <3>1
  <2>2. m * qy = m * qx + m + m * d /\ m * d \in Nat
    BY <1>1, <2>1
  <2> QED BY <1>1, <1>2, <1>3, <2>2
<1> QED BY <1>1, <1>4, <1>5

\* The slots of the packet on the air and of the last ones of the others.
LEMMA SlotOf ==
  ASSUME now \in 1 .. MaxSlot
  PROVE  /\ N * Frame + Sender = now - 1
         /\ \A r \in Anchors \ {Sender} : N * LastFrame(r) + r >= now - N
<1> USE EngineAssumption
<1>1. now - 1 \in Nat /\ Sender \in 0 .. N - 1 /\ Frame \in Nat
  BY SlotTypes DEF Anchors
<1>2. now - 1 = N * Frame + Sender
  BY <1>1 DEF Frame, Sender
<1>3. ASSUME NEW r \in Anchors \ {Sender}
      PROVE  N * LastFrame(r) + r >= now - N
  <2>1. r \in 0 .. N - 1 /\ r # Sender /\ N * Frame \in Nat
    BY <1>1 DEF Anchors
  <2>2. CASE r < Sender
    BY <1>1, <1>2, <2>1, <2>2 DEF LastFrame
  <2>3. CASE r > Sender
    <3>1. LastFrame(r) = Frame - 1
      BY <1>1, <2>1, <2>3 DEF LastFrame
    <3>2. N * (Frame - 1) = N * Frame - N
      BY <1>1
    <3> QED BY <1>1, <1>2, <2>1, <2>3, <3>1, <3>2
  <2> QED BY <1>1, <2>1, <2>2, <2>3
<1> QED BY <1>2, <1>3

LEMMA ClockCorrectionKeeps ==
  ASSUME NEW s \in AnchorInfo, NEW candidate
  PROVE  updateClockCorrection(s, candidate).remote = s.remote
BY DEF updateClockCorrection, clockCorrectionEngineUpdate, AnchorInfo

LEMMA PacketStep ==
  ASSUME FullInv, Receive
  PROVE  Reports' /\ Receptions' /\ SamePacket' /\ RemoteIsRecent'
<1> USE EngineAssumption
<1>1. PICK heard \in SUBSET (Anchors \ {Sender}), ranged \in SUBSET (Anchors \ {Sender}),
           candidate \in {"right", "wrong", "outOfSpec"}, n \in Nat :
        Hears(heard, ranged, candidate, n)
  BY ReceiveHears
<1> DEFINE s == updateRemoteData(store[Sender], heard, ranged)
           t == updateClockCorrection(s, candidate)
<1>2. now \in 1 .. MaxSlot /\ now' = now + 1 /\ matcher' = matcher
  BY <1>1 DEF Hears, Tick, FullInv, Inv, TypeOK
<1>3. PICK m \in Search(s, t, candidate) :
        /\ store' = [Created(m.looked) EXCEPT ![Sender] = SetRxTxData(t)]
        /\ out' = IF m.found = NoFrame THEN NoMeasurement ELSE Measurement(t, m.found)
  BY <1>1 DEF Hears
<1>4. /\ Sender \in Anchors /\ store \in [Anchors -> AnchorInfo]
      /\ Reports /\ Receptions
  BY <1>2, SlotTypes DEF FullInv, Inv, TypeOK
<1>5. s \in AnchorInfo
  BY <1>2, <1>4, RemoteDataType
<1>6. s.remote = [r \in Anchors |->
        IF r \in heard THEN [frame |-> LastFrame(r), endOfLife |-> now + RemoteValidity]
                       ELSE store[Sender].remote[r]]
  <2>1. store[Sender] \in AnchorInfo
    BY <1>4
  <2>2. [store[Sender] EXCEPT !.isInitialized = TRUE] \in AnchorInfo
        /\ [store[Sender] EXCEPT !.isInitialized = TRUE].remote = store[Sender].remote
    BY <2>1 DEF AnchorInfo
  <2> DEFINE z == [store[Sender] EXCEPT !.isInitialized = TRUE]
  <2> HIDE DEF z
  <2>3. s.remote = SetRemoteRxTime(z, heard).remote
    BY <2>2 DEF s, z, updateRemoteData, SetRemoteTimeOfFlight, SetRemoteRxTime, AnchorInfo
  <2>4. SetRemoteRxTime(z, heard).remote = [r \in Anchors |->
          IF r \in heard THEN [frame |-> LastFrame(r), endOfLife |-> now + RemoteValidity]
                         ELSE z.remote[r]]
    BY <2>2 DEF z, SetRemoteRxTime, AnchorInfo
  <2>5. z.remote = store[Sender].remote
    BY <2>2 DEF z
  <2> QED BY <2>3, <2>4, <2>5
<1> HIDE DEF s
<1>7. t \in AnchorInfo /\ t.remote = s.remote
  BY <1>5, ClockCorrectionType, ClockCorrectionKeeps
<1> HIDE DEF t
<1>8. \A r \in Anchors : ReportOf(t.remote[r], r, Sender)
  <2> SUFFICES ASSUME NEW r \in Anchors PROVE ReportOf(t.remote[r], r, Sender)
    OBVIOUS
  <2>1. CASE r \in heard
    <3>1. t.remote[r] = [frame |-> LastFrame(r), endOfLife |-> now + RemoteValidity]
      BY <1>6, <1>7, <2>1
    <3>2. r # Sender /\ N * LastFrame(r) + r >= now - N
      BY <1>2, <2>1, SlotOf
    <3>3. LastFrame(r) # NoFrame
      BY <1>1, <2>1 DEF Hears, NoFrame
    <3> QED BY <1>2, <3>1, <3>2, <3>3 DEF ReportOf
  <2>2. CASE r \notin heard
    <3>1. t.remote[r] = store[Sender].remote[r]
      BY <1>6, <1>7, <2>2
    <3> QED BY <1>4, <3>1 DEF Reports
  <2> QED BY <2>1, <2>2
<1>9. \A a \in Anchors \ {Sender} :
        /\ store'[a].remote = store[a].remote
        /\ store'[a].frame = store[a].frame
        /\ store'[a].seqNr = store[a].seqNr
        /\ store'[a].lastUpdateTime = store[a].lastUpdateTime
  <2> SUFFICES ASSUME NEW a \in Anchors \ {Sender}
               PROVE  /\ store'[a].remote = store[a].remote
                      /\ store'[a].frame = store[a].frame
                      /\ store'[a].seqNr = store[a].seqNr
                      /\ store'[a].lastUpdateTime = store[a].lastUpdateTime
    OBVIOUS
  <2>1. store'[a] = Created(m.looked)[a] /\ store[a] \in AnchorInfo
    BY <1>3, <1>4 DEF Created
  <2>2. store'[a] \in {store[a], [store[a] EXCEPT !.isInitialized = TRUE]}
    BY <2>1 DEF Created
  <2>3. PICK info \in AnchorInfo : info = store[a]
    BY <2>1
  <2>4. CASE store'[a] = [info EXCEPT !.isInitialized = TRUE]
    BY <2>3, <2>4 DEF AnchorInfo
  <2> QED BY <2>2, <2>3, <2>4
<1>10. /\ store'[Sender].remote = t.remote
       /\ store'[Sender].frame = Frame
       /\ store'[Sender].seqNr = Frame % SeqMod
  <2>1. store'[Sender] = SetRxTxData(t)
    BY <1>3, <1>4 DEF Created
  <2> QED BY <1>7, <2>1 DEF SetRxTxData, AnchorInfo
<1>11. Reports'
  BY <1>4, <1>8, <1>9, <1>10 DEF Reports
<1>12. Receptions'
  <2> SUFFICES ASSUME NEW a \in Anchors PROVE ReceptionOf(store[a], a)'
    BY DEF Receptions
  <2>1. CASE a = Sender
    <3>1. Frame # NoFrame
      BY <1>2, SlotTypes DEF NoFrame
    <3>2. N * Frame + Sender <= now' - 2
      BY <1>2, SlotOf
    <3> QED BY <1>10, <2>1, <3>1, <3>2 DEF ReceptionOf
  <2>2. CASE a # Sender
    <3>1. /\ store[a].lastUpdateTime > 0 => store[a].frame # NoFrame
          /\ store[a].frame # NoFrame =>
               /\ store[a].seqNr = store[a].frame % SeqMod
               /\ N * store[a].frame + a <= now - 2
      BY <1>4 DEF Receptions, ReceptionOf
    <3>2. store[a].frame # NoFrame => N * store[a].frame + a <= now' - 2
      <4> DEFINE slot == N * store[a].frame + a
      <4>1. store[a].frame \in Int /\ a \in Int
        BY <1>4 DEF AnchorInfo, Frames, NoFrame, Anchors
      <4>2. slot \in Int
        BY <4>1
      <4> HIDE DEF slot
      <4>3. slot <= now - 2 => slot <= now' - 2
        BY <1>2, <4>2
      <4> QED BY <3>1, <4>3 DEF slot
    <3> QED BY <1>9, <2>2, <3>1, <3>2 DEF ReceptionOf
  <2> QED BY <2>1, <2>2
<1>13. SamePacket' /\ RemoteIsRecent'
  <2>1. CASE out' = NoMeasurement
    BY <2>1 DEF SamePacket, RemoteIsRecent
  <2>2. CASE out' # NoMeasurement
    <3> DEFINE r == m.found
               mine == store[r].frame
               theirs == t.remote[r].frame
    <3>1. /\ Reliable(s, candidate) /\ m \in findSuitableAnchor(t)
          /\ r # NoFrame /\ out' = Measurement(t, r)
      BY <1>3, <2>2 DEF Search
    <3>2. /\ r \in Matching(t) /\ r \in Anchors
          /\ matcher = "Youngest" => store[r].lastUpdateTime > 0
      <4>1. CASE matcher = "Youngest"
        BY <3>1, <4>1 DEF findSuitableAnchor, matchYoungestAnchor, Matching, RemoteList
      <4>2. CASE matcher = "Random"
        <5>1. m \in matchRandomAnchor(t)
          BY <3>1, <4>2 DEF findSuitableAnchor
        <5> QED BY <3>1, <4>2, <5>1 DEF matchRandomAnchor, Matching, RemoteList
      <4> QED BY <4>1, <4>2 DEF FullInv, Inv, TypeOK, Matchers
    <3>3. /\ out'.from = Sender /\ out'.to = r /\ out'.by = matcher
          /\ out'.mine = mine /\ out'.theirs = theirs
      BY <3>1 DEF Measurement, RemoteRxTime
    <3>4. /\ t.remote[r].endOfLife > now
          /\ theirs % SeqMod = store[r].seqNr
      BY <3>2 DEF Matching, RemoteList, SameSeqNr
    <3>5. /\ mine \in Frames /\ theirs \in Frames /\ r \in 0 .. N - 1
          /\ t.remote[r].endOfLife \in Nat
      <4>1. r \in 0 .. N - 1
        BY <3>2 DEF Anchors
      <4>2. mine \in Frames
        BY <1>4, <3>2 DEF AnchorInfo
      <4>3. t.remote[r] \in [frame : Frames, endOfLife : 0 .. MaxSlot + RemoteValidity + 1]
        BY <1>7, <3>2 DEF AnchorInfo
      <4> QED BY <4>1, <4>2, <4>3
    <3>6. /\ r # Sender /\ theirs # NoFrame
          /\ N * theirs + r >= t.remote[r].endOfLife - RemoteValidity - N
      BY <1>2, <1>8, <3>2, <3>4, <3>5 DEF ReportOf
    <3> DEFINE eol == t.remote[r].endOfLife
    <3>7. /\ mine = NoFrame \/ mine \in Nat
          /\ theirs \in Nat
      BY <3>5, <3>6 DEF Frames, NoFrame
    <3>8. mine # NoFrame => /\ store[r].seqNr = mine % SeqMod
                            /\ N * mine + r <= now - 2
      BY <1>4, <3>2 DEF Receptions, ReceptionOf
    <3>9. mine = NoFrame => matcher = "Random"
      BY <1>4, <3>2 DEF Receptions, ReceptionOf, FullInv, Inv, TypeOK, Matchers
    <3> HIDE DEF mine, theirs, eol, r
    <3>10. (now' - 2) - (N * theirs + r) < RemoteValidity + N
      <4> DEFINE slot == N * theirs + r
      <4>1. slot \in Int /\ slot >= eol - RemoteValidity - N /\ eol > now /\ eol \in Nat
        BY <3>4, <3>5, <3>6, <3>7 DEF eol, NoFrame
      <4> HIDE DEF slot
      <4>2. (now' - 2) - slot < RemoteValidity + N
        BY <1>2, <4>1
      <4> QED BY <4>2 DEF slot
    <3>11. mine # NoFrame => mine = theirs \/ theirs >= mine + SeqMod
      <4> SUFFICES ASSUME mine # NoFrame PROVE mine = theirs \/ theirs >= mine + SeqMod
        OBVIOUS
      <4>1. mine \in Nat /\ N * mine + r <= now - 2 /\ theirs % SeqMod = mine % SeqMod
        BY <3>4, <3>7, <3>8
      <4>2. N * theirs + r >= now - RemoteValidity - N + 1
        <5> DEFINE slot == N * theirs + r
        <5>1. slot \in Int /\ slot >= eol - RemoteValidity - N /\ eol > now /\ eol \in Nat
          BY <3>4, <3>5, <3>6, <3>7 DEF eol, NoFrame
        <5> HIDE DEF slot
        <5>2. slot >= now - RemoteValidity - N + 1
          BY <1>2, <5>1
        <5> QED BY <5>2 DEF slot
      <4>3. theirs + SeqMod <= mine => FALSE
        <5> SUFFICES ASSUME theirs + SeqMod <= mine PROVE FALSE
          OBVIOUS
        <5>1. PICK d \in Nat : mine = theirs + SeqMod + d
          <6>1. mine - theirs - SeqMod \in Nat
            BY <3>7, <4>1 DEF NoFrame
          <6>2. mine = theirs + SeqMod + (mine - theirs - SeqMod)
            BY <3>7, <4>1 DEF NoFrame
          <6> QED BY <6>1, <6>2
        <5>2. /\ N * mine = N * theirs + N * SeqMod + N * d
              /\ N * d \in Nat /\ N * SeqMod \in Nat /\ N * theirs \in Int
          BY <3>7, <5>1 DEF NoFrame
        <5>3. N * (SeqMod - 1) = N * SeqMod - N
          OBVIOUS
        <5> DEFINE A == N * theirs
                   B == N * SeqMod
                   C == N * d
        <5>4. A \in Int /\ B \in Nat /\ C \in Nat /\ r \in Int
          BY <3>5, <5>2
        <5>5. A + B + C + r <= now - 2
          BY <4>1, <5>2
        <5>6. A + r >= now - RemoteValidity - N + 1
          BY <4>2
        <5>7. RemoteValidity < B - N + 3
          BY <5>3, SeqAssumption
        <5> HIDE DEF A, B, C
        <5> QED BY <1>2, <5>4, <5>5, <5>6, <5>7
      <4>4. CASE mine < theirs
        <5>1. mine + SeqMod <= theirs
          BY <3>7, <4>1, <4>4, SameRemainder
        <5> QED BY <3>7, <4>1, <5>1
      <4>5. CASE theirs < mine
        <5>1. theirs + SeqMod <= mine
          BY <3>7, <4>1, <4>5, SameRemainder
        <5> QED BY <4>3, <5>1
      <4> QED BY <3>7, <4>1, <4>4, <4>5
    <3> QED BY <3>3, <3>9, <3>10, <3>11 DEF SamePacket, RemoteIsRecent
  <2> QED BY <2>1, <2>2
<1> QED BY <1>11, <1>12, <1>13

-----------------------------------------------------------------------------
LEMMA InitInv == Init => FullInv
<1> SUFFICES ASSUME Init PROVE FullInv
  OBVIOUS
<1> USE EngineAssumption
<1>1. EmptySlot \in AnchorInfo
  <2>1. [r \in Anchors |-> [frame |-> NoFrame, endOfLife |-> 0]] \in
          [Anchors -> [frame : Frames, endOfLife : 0 .. MaxSlot + RemoteValidity + 1]]
    BY DEF Frames, NoFrame
  <2>2. [r \in Anchors |-> 0] \in [Anchors -> 0 .. MaxSlot + TofValidity + 1]
    OBVIOUS
  <2> QED BY <2>1, <2>2 DEF EmptySlot, AnchorInfo, Frames, NoFrame, Times
<1>2. 0 \in 0 .. RecoverySlots
  BY DEF RecoverySlots
<1>3. TypeOK
  BY <1>1, <1>2 DEF Init, TypeOK
<1>4. Vouched
  BY DEF Init, Vouched, EmptySlot
<1>5. Reports
  BY DEF Init, Reports, ReportOf, EmptySlot
<1>6. Receptions
  BY DEF Init, Receptions, ReceptionOf, EmptySlot
<1> QED BY <1>3, <1>4, <1>5, <1>6 DEF FullInv, Inv

LEMMA OtherSteps ==
  ASSUME FullInv, Lose \/ SetMatchingAlgorithm \/ UNCHANGED vars
  PROVE  FullInv' /\ UNCHANGED store
         /\ (SamePacket => SamePacket') /\ (RemoteIsRecent => RemoteIsRecent')
<1> USE EngineAssumption
<1>1. CASE Lose
  <2>1. now' \in 1 .. MaxSlot + 1 /\ faults' \in 0 .. MaxFaults /\ clean' = 0
    BY <1>1 DEF Lose, Tick, Fault, FullInv, Inv, TypeOK
  <2>2. 0 \in 0 .. RecoverySlots
    BY DEF RecoverySlots
  <2>3. Inv'
    BY <1>1, <2>1, <2>2 DEF Lose, FullInv, Inv, TypeOK, Vouched
  <2>4. Reports'
    BY <1>1 DEF Lose, FullInv, Reports
  <2>5. Receptions'
    <3> SUFFICES ASSUME NEW a \in Anchors PROVE ReceptionOf(store[a], a)'
      BY DEF Receptions
    <3> DEFINE slot == N * store[a].frame + a
    <3>1. slot \in Int
      <4>1. store[a].frame \in Frames
        BY DEF FullInv, Inv, TypeOK, AnchorInfo
      <4>2. store[a].frame \in Int /\ a \in Int
        BY <4>1 DEF Frames, NoFrame, Anchors
      <4> QED BY <4>2
    <3>2. now \in Int /\ now' = now + 1
      BY <1>1 DEF Lose, Tick, FullInv, Inv, TypeOK
    <3>3. slot <= now - 2 => slot <= now' - 2
      <4> HIDE DEF slot
      <4> QED BY <3>1, <3>2
    <3> QED BY <1>1, <3>3 DEF Lose, FullInv, Receptions, ReceptionOf
  <2> QED BY <1>1, <2>3, <2>4, <2>5 DEF Lose, FullInv, SamePacket, RemoteIsRecent
<1>2. CASE SetMatchingAlgorithm
  <2>1. Inv'
    BY <1>2 DEF SetMatchingAlgorithm, FullInv, Inv, TypeOK, Vouched
  <2> QED BY <1>2, <2>1 DEF SetMatchingAlgorithm, FullInv, Reports, Receptions, ReceptionOf,
                            SamePacket, RemoteIsRecent
<1>3. CASE UNCHANGED vars
  <2>1. Inv'
    BY <1>3 DEF vars, FullInv, Inv, TypeOK, Vouched
  <2> QED BY <1>3, <2>1 DEF vars, FullInv, Reports, Receptions, ReceptionOf,
                            SamePacket, RemoteIsRecent
<1> QED BY <1>1, <1>2, <1>3

Safe == FullInv /\ SamePacket /\ RemoteIsRecent

THEOREM Invariance == Spec => []Safe
<1>1. Init => Safe
  BY InitInv DEF Safe, Init, SamePacket, RemoteIsRecent
<1>2. Safe /\ [Next]_vars => Safe'
  BY ReceiveStep, PacketStep, OtherSteps DEF Next, Safe, FullInv, Inv
<1> QED BY <1>1, <1>2, PTL DEF Spec

\* Every variable keeps its type: a stored sequence number is in range, the bucket never
\* exceeds its size, and a measurement is of two anchors (tdoaStorage.cpp, tdoaEngine.cpp).
THEOREM TypeCorrect == Spec => []TypeOK
BY Invariance, PTL DEF Safe, FullInv, Inv

\* The two receptions of a measurement are of one packet as long as the tag does not miss
\* as many of an anchor's as there are sequence numbers, provided a report dies before its
\* number comes round (matchYoungestAnchor, matchRandomAnchor).
THEOREM PacketsMatch == Spec => []SamePacket
BY Invariance, PTL DEF Safe

\* No measurement uses a report that is older than its validity (tdoaStorageGetRemoteSeqNrList).
THEOREM ReportsAreRecent == Spec => []RemoteIsRecent
BY Invariance, PTL DEF Safe

\* However samples agree, disagree or are lost, a clock correction is given up only after
\* as many disagreeing samples as agreeing ones vouched for it (clockCorrectionEngine.cpp).
THEOREM CorrectionIsHeld == Spec => ClockIsHeld
<1>1. Safe /\ [Next]_vars =>
        [\A a \in Anchors :
           /\ store[a].clockCorrection # "none"
           /\ store'[a].clockCorrection # store[a].clockCorrection
           => held[a].missed >= held[a].agreed]_vars
  BY ReceiveStep, OtherSteps DEF Next, Safe, FullInv
<1> QED BY Invariance, <1>1, PTL DEF Spec, ClockIsHeld

-----------------------------------------------------------------------------
(* After a disturbance the measurements come back.                         *)

\* There is another anchor to measure, and a report lives until the next slot.
Measurable == N > 1 /\ RemoteValidity > 0 /\ TofValidity > 0

\* The slots since a's last turn.
Ago(a) == IF a < Sender THEN Sender - a ELSE Sender + N - a

\* What j undisturbed packets in a row leave of a correction: the first of them may only
\* be the one that the samples start from, the others drain the bucket, one of them is
\* let in when it is empty, and then the correction is right.
Cleared(s, j) ==
  /\ s.frame # NoFrame
  /\ s.clockCorrection = "right" \/ s.clockCorrectionBucket + j <= BucketMax + 1

Progress ==
  \A a \in Anchors, j \in Nat \ {0} : clean >= N * (j - 1) + Ago(a) => Cleared(store[a], j)

\* The packet of the slot before was heard, and none later.
Latest ==
  clean > 0 => \A a \in Anchors : Ago(a) = 1 =>
    /\ store[a].isInitialized /\ store[a].frame = LastFrame(a) /\ store[a].frame # NoFrame
    /\ store[a].lastUpdateTime = now - 1

Past == \A a \in Anchors : store[a].lastUpdateTime < now

Recovery == Past /\ Latest /\ Progress /\ Recovers

\* A quotient and a remainder are unique, and what they are one slot later.
LEMMA DivisionIsUnique ==
  ASSUME NEW m \in Nat \ {0}, NEW q \in Nat, NEW r \in 0 .. m - 1
  PROVE  (m * q + r) % m = r /\ (m * q + r) \div m = q
<1> DEFINE x == m * q + r
           p == x \div m
           s == x % m
<1>1. m * q \in Nat /\ x \in Nat
  OBVIOUS
<1>2. p \in Nat /\ s \in 0 .. m - 1 /\ x = m * p + s
  <2> HIDE DEF x
  <2>1. p \in Nat
    BY <1>1
  <2>2. s \in 0 .. m - 1
    BY <1>1, Remainder
  <2>3. x = m * p + s
    BY <1>1
  <2> QED BY <2>1, <2>2, <2>3
<1> HIDE DEF p, s
<1>3. m * p \in Nat
  BY <1>2
<1>4. ~(p < q)
  <2> SUFFICES ASSUME p < q PROVE FALSE
    OBVIOUS
  <2>1. PICK d \in Nat : q = p + 1 + d
    <3>1. q - p - 1 \in Nat /\ q = p + 1 + (q - p - 1)
      BY <1>2
    <3> QED BY <3>1
  <2>2. m * q = m * p + m + m * d /\ m * d \in Nat
    BY <1>2, <2>1
  <2> QED BY <1>1, <1>2, <1>3, <2>2
<1>5. ~(q < p)
  <2> SUFFICES ASSUME q < p PROVE FALSE
    OBVIOUS
  <2>1. PICK d \in Nat : p = q + 1 + d
    <3>1. p - q - 1 \in Nat /\ p = q + 1 + (p - q - 1)
      BY <1>2
    <3> QED BY <3>1
  <2>2. m * p = m * q + m + m * d /\ m * d \in Nat
    BY <1>2, <2>1
  <2> QED BY <1>1, <1>2, <1>3, <2>2
<1>6. p = q
  BY <1>2, <1>4, <1>5
<1>7. s = r
  BY <1>1, <1>2, <1>3, <1>6
<1> QED BY <1>6, <1>7 DEF p, s

\* The turn passes to the next anchor, and after the last one to the first.
LEMMA TurnPasses ==
  ASSUME now \in 1 .. MaxSlot, now' = now + 1
  PROVE  /\ Sender \in Anchors /\ Frame \in Nat /\ Sender' \in Anchors
         /\ \/ Sender < N - 1 /\ Sender' = Sender + 1 /\ Frame' = Frame
            \/ Sender = N - 1 /\ Sender' = 0 /\ Frame' = Frame + 1
<1> USE EngineAssumption
<1>1. Sender \in 0 .. N - 1 /\ Frame \in Nat
  BY SlotTypes DEF Anchors
<1>2. now - 1 = N * Frame + Sender
  BY SlotOf
<1>3. Sender' = now % N /\ Frame' = now \div N
  <2>1. now' - 1 = now
    OBVIOUS
  <2> QED BY <2>1 DEF Sender, Frame
<1>4. CASE Sender < N - 1
  <2>1. now = N * Frame + (Sender + 1) /\ Sender + 1 \in 0 .. N - 1
    <3> DEFINE z == N * Frame
    <3>1. z \in Nat
      BY <1>1
    <3> HIDE DEF z
    <3>2. now = z + (Sender + 1)
      BY <1>1, <1>2, <3>1 DEF z
    <3> QED BY <1>1, <1>4, <3>2 DEF z
  <2>2. Sender' = Sender + 1 /\ Frame' = Frame
    BY <1>1, <1>3, <2>1, DivisionIsUnique
  <2> QED BY <1>1, <1>4, <2>2 DEF Anchors
<1>5. CASE Sender = N - 1
  <2>1. now = N * (Frame + 1) + 0
    <3> DEFINE z == N * Frame
    <3>1. z \in Nat /\ N * (Frame + 1) = z + N
      BY <1>1
    <3>2. now = z + N
      <4>1. now - 1 = z + N - 1
        BY <1>2, <1>5
      <4> HIDE DEF z
      <4> QED BY <3>1, <4>1
    <3> QED BY <3>1, <3>2
  <2>2. Sender' = 0 /\ Frame' = Frame + 1
    BY <1>1, <1>3, <2>1, DivisionIsUnique
  <2> QED BY <1>1, <1>5, <2>2 DEF Anchors
<1> QED BY <1>1, <1>4, <1>5 DEF Anchors

LEMMA AgoSteps ==
  ASSUME now \in 1 .. MaxSlot, now' = now + 1
  PROVE  /\ Ago(Sender) = N
         /\ \A a \in Anchors : Ago(a) \in 1 .. N
         /\ \A a \in Anchors : Ago(a)' = IF a = Sender THEN 1 ELSE Ago(a) + 1
         /\ \A a \in Anchors : Ago(a)' \in 1 .. N
<1> USE EngineAssumption
<1>1. \A a \in Anchors : Ago(a)' = IF a < Sender' THEN Sender' - a ELSE Sender' + N - a
  BY DEF Ago
<1> QED BY <1>1, TurnPasses DEF Ago, Anchors

\* The sender's context once the packet's report and its clock sample are taken.
Taken(heard, ranged, candidate) ==
  updateClockCorrection(updateRemoteData(store[Sender], heard, ranged), candidate)

\* A packet changes the sender's clock and reception, and nobody else's.
LEMMA ContextsStep ==
  ASSUME FullInv, NEW heard \in SUBSET (Anchors \ {Sender}),
         NEW ranged \in SUBSET (Anchors \ {Sender}),
         NEW candidate \in {"right", "wrong", "outOfSpec"}, NEW n \in Nat,
         Hears(heard, ranged, candidate, n)
  PROVE  /\ now \in 1 .. MaxSlot /\ now' = now + 1
         /\ store'[Sender].frame = Frame
         /\ store'[Sender].lastUpdateTime = now
         /\ store'[Sender].isInitialized
         /\ store'[Sender].clockCorrection = Taken(heard, ranged, candidate).clockCorrection
         /\ store'[Sender].clockCorrectionBucket =
              Taken(heard, ranged, candidate).clockCorrectionBucket
         /\ \A a \in Anchors \ {Sender} :
              /\ store'[a].frame = store[a].frame
              /\ store'[a].lastUpdateTime = store[a].lastUpdateTime
              /\ store[a].isInitialized => store'[a].isInitialized
              /\ store'[a].clockCorrection = store[a].clockCorrection
              /\ store'[a].clockCorrectionBucket = store[a].clockCorrectionBucket
<1> DEFINE s == updateRemoteData(store[Sender], heard, ranged)
           t == updateClockCorrection(s, candidate)
<1>1. now \in 1 .. MaxSlot /\ now' = now + 1
  BY DEF Hears, Tick, FullInv, Inv, TypeOK
<1>2. PICK m \in Search(s, t, candidate) :
        store' = [Created(m.looked) EXCEPT ![Sender] = SetRxTxData(t)]
  BY DEF Hears
<1>3. Sender \in Anchors /\ store \in [Anchors -> AnchorInfo]
  BY <1>1, SlotTypes DEF FullInv, Inv, TypeOK
<1>4. s \in AnchorInfo /\ s.isInitialized
  <2>1. s \in AnchorInfo
    BY <1>1, <1>3, RemoteDataType
  <2>2. store[Sender] \in AnchorInfo
    BY <1>3
  <2>3. PICK info \in AnchorInfo : info = store[Sender]
    BY <2>2
  <2>4. s.isInitialized
    BY <2>3 DEF updateRemoteData, SetRemoteTimeOfFlight, SetRemoteRxTime, AnchorInfo
  <2> QED BY <2>1, <2>4
<1> HIDE DEF s
<1>5. t \in AnchorInfo /\ t.isInitialized
  <2>1. t.isInitialized
    BY <1>4 DEF updateClockCorrection, clockCorrectionEngineUpdate, AnchorInfo
  <2> QED BY <1>4, <2>1, ClockCorrectionType
<1>6. t = Taken(heard, ranged, candidate)
  BY DEF Taken, s
<1> HIDE DEF t
<1>7. store'[Sender] = SetRxTxData(t)
  BY <1>2, <1>3 DEF Created
<1>8. /\ SetRxTxData(t).frame = Frame
      /\ SetRxTxData(t).lastUpdateTime = now
      /\ SetRxTxData(t).isInitialized
      /\ SetRxTxData(t).clockCorrection = t.clockCorrection
      /\ SetRxTxData(t).clockCorrectionBucket = t.clockCorrectionBucket
  BY <1>5 DEF SetRxTxData, AnchorInfo
<1>9. ASSUME NEW a \in Anchors \ {Sender}
      PROVE  /\ store'[a].frame = store[a].frame
             /\ store'[a].lastUpdateTime = store[a].lastUpdateTime
             /\ store[a].isInitialized => store'[a].isInitialized
             /\ store'[a].clockCorrection = store[a].clockCorrection
             /\ store'[a].clockCorrectionBucket = store[a].clockCorrectionBucket
  <2>1. store'[a] = Created(m.looked)[a] /\ store[a] \in AnchorInfo
    BY <1>2, <1>3 DEF Created
  <2>2. store'[a] \in {store[a], [store[a] EXCEPT !.isInitialized = TRUE]}
    BY <2>1 DEF Created
  <2>3. PICK info \in AnchorInfo : info = store[a]
    BY <2>1
  <2>4. CASE store'[a] = [info EXCEPT !.isInitialized = TRUE]
    BY <2>3, <2>4 DEF AnchorInfo
  <2> QED BY <2>2, <2>3, <2>4
<1> QED BY <1>1, <1>6, <1>7, <1>8, <1>9

\* An undisturbed packet: its sender heard what the tag heard, and its sample is right.
LEMMA UndisturbedReceive ==
  ASSUME TypeOK, Receive, clean' > 0
  PROVE  \E heard \in SUBSET (Anchors \ {Sender}) :
           /\ Hears(heard, heard, "right", 0)
           /\ \A r \in Anchors \ {Sender} :
                store[r].frame = LastFrame(r) /\ LastFrame(r) # NoFrame => r \in heard
<1> DEFINE Silent(heard) == {r \in (Anchors \ {Sender}) \ heard :
                               store[r].frame = LastFrame(r) /\ LastFrame(r) # NoFrame}
           Odd(candidate) == IF candidate = "right" THEN 0 ELSE 1
<1>1. PICK heard \in SUBSET (Anchors \ {Sender}), ranged \in SUBSET (Anchors \ {Sender}),
           candidate \in {"right", "wrong", "outOfSpec"} :
        /\ ranged \subseteq heard
        /\ Hears(heard, ranged, candidate,
                 Cardinality(Silent(heard)) + Cardinality(heard \ ranged) + Odd(candidate))
  BY ZenonT(40) DEF Receive, Hears
<1>2. IsFiniteSet(Silent(heard)) /\ IsFiniteSet(heard \ ranged)
  <2>1. IsFiniteSet(Anchors)
    BY EngineAssumption, FS_Interval DEF Anchors
  <2>2. Silent(heard) \subseteq Anchors /\ heard \ ranged \subseteq Anchors
    OBVIOUS
  <2> QED BY <2>1, <2>2, FS_Subset
<1> DEFINE n == Cardinality(Silent(heard)) + Cardinality(heard \ ranged) + Odd(candidate)
<1>3. n = 0
  <2>1. clean' = IF n = 0 THEN Lesser(clean + 1, RecoverySlots) ELSE 0
    BY <1>1 DEF Hears, Fault
  <2> HIDE DEF n
  <2> QED BY <2>1
<1>4. Cardinality(Silent(heard)) = 0 /\ Cardinality(heard \ ranged) = 0 /\ candidate = "right"
  <2>1. Cardinality(Silent(heard)) \in Nat /\ Cardinality(heard \ ranged) \in Nat
    BY <1>2, FS_CardinalityType
  <2>2. Odd(candidate) \in Nat /\ (Odd(candidate) = 0 => candidate = "right")
    OBVIOUS
  <2> HIDE DEF Silent, Odd
  <2> QED BY <1>3, <2>1, <2>2
<1>5. Silent(heard) = {} /\ heard = ranged
  <2>1. Silent(heard) = {} /\ heard \ ranged = {}
    BY <1>2, <1>4, FS_EmptySet
  <2> QED BY <1>1, <2>1
<1>6. Hears(heard, heard, "right", 0)
  BY <1>1, <1>3, <1>4, <1>5
<1> QED BY <1>5, <1>6

\* An undisturbed packet after j - 1 others clears its sender for j.
LEMMA ClearedStep ==
  ASSUME FullInv, now \in 1 .. MaxSlot, NEW heard \in SUBSET (Anchors \ {Sender}),
         NEW j \in Nat \ {0}, j > 1 => Cleared(store[Sender], j - 1)
  PROVE  LET t == Taken(heard, heard, "right")
         IN  t.clockCorrection = "right" \/ t.clockCorrectionBucket + j <= BucketMax + 1
<1> USE EngineAssumption
<1> DEFINE s == updateRemoteData(store[Sender], heard, heard)
           t == Taken(heard, heard, "right")
<1>1. store[Sender] \in AnchorInfo
  BY SlotTypes DEF FullInv, Inv, TypeOK
<1>2. /\ s \in AnchorInfo
      /\ s.frame = store[Sender].frame
      /\ s.clockCorrection = store[Sender].clockCorrection
      /\ s.clockCorrectionBucket = store[Sender].clockCorrectionBucket
  BY <1>1, RemoteDataType
<1> HIDE DEF s
<1>3. t = updateClockCorrection(s, "right")
  BY DEF Taken, s
<1>4. t \in AnchorInfo
  BY <1>2, <1>3, ClockCorrectionType
<1>5. t.clockCorrectionBucket \in 0 .. BucketMax
  BY <1>4 DEF AnchorInfo
<1>6. CASE j = 1
  BY <1>5, <1>6
<1>7. CASE j > 1
  <2>1. /\ HasSample(s)
        /\ s.clockCorrection = "right" \/ s.clockCorrectionBucket + (j - 1) <= BucketMax + 1
    BY <1>2, <1>7 DEF Cleared, HasSample
  <2>2. CASE s.clockCorrection = "right"
    BY <1>2, <1>3, <2>1, <2>2, ClockCorrectionType
  <2>3. CASE s.clockCorrection # "right" /\ s.clockCorrectionBucket > 0
    <3>1. t.clockCorrectionBucket = s.clockCorrectionBucket - 1
      BY <1>2, <1>3, <2>1, <2>3, ClockCorrectionType
    <3>2. s.clockCorrectionBucket \in 0 .. BucketMax
      BY <1>2 DEF AnchorInfo
    <3> QED BY <2>1, <2>3, <3>1, <3>2
  <2>4. CASE s.clockCorrection # "right" /\ ~(s.clockCorrectionBucket > 0)
    <3>1. t = [s EXCEPT !.clockCorrection = "right"]
      BY <1>3, <2>1, <2>4 DEF updateClockCorrection, clockCorrectionEngineUpdate
    <3> QED BY <1>2, <3>1 DEF AnchorInfo
  <2> QED BY <2>2, <2>3, <2>4
<1> QED BY <1>6, <1>7

LEMMA ProgressStep == FullInv /\ Progress /\ Receive => Progress'
<1> SUFFICES ASSUME FullInv, Progress, Receive,
                    NEW a \in Anchors, NEW j \in Nat \ {0},
                    clean' >= N * (j - 1) + Ago(a)'
             PROVE  Cleared(store[a], j)'
  BY DEF Progress
<1> USE EngineAssumption
<1> DEFINE rounds == N * (j - 1)
<1>1. rounds \in Nat /\ (j > 1 => rounds = N * ((j - 1) - 1) + N)
  OBVIOUS
<1> HIDE DEF rounds
<1>2. now \in 1 .. MaxSlot /\ now' = now + 1
  BY DEF Receive, Tick, FullInv, Inv, TypeOK
<1>3. /\ Sender \in Anchors /\ Frame # NoFrame
      /\ Ago(a) \in 1 .. N /\ Ago(a)' \in 1 .. N
      /\ Ago(a)' = IF a = Sender THEN 1 ELSE Ago(a) + 1
      /\ Ago(Sender) = N
  BY <1>2, AgoSteps, TurnPasses DEF NoFrame
<1>4. clean' \in Nat /\ clean' > 0 /\ clean' >= rounds + Ago(a)'
  <2>1. TypeOK'
    BY ReceiveStep DEF FullInv
  <2>2. clean' \in Nat
    <3>1. RecoverySlots \in Nat
      BY DEF RecoverySlots
    <3> QED BY <2>1, <3>1 DEF TypeOK
  <2>3. clean' >= rounds + Ago(a)'
    BY DEF rounds
  <2> QED BY <1>1, <1>3, <2>2, <2>3
<1>5. PICK heard \in SUBSET (Anchors \ {Sender}) : Hears(heard, heard, "right", 0)
  BY <1>4, UndisturbedReceive DEF FullInv, Inv
<1>6. clean \in Nat /\ clean + 1 >= clean'
  <2>1. clean' = Lesser(clean + 1, RecoverySlots)
    BY <1>5 DEF Hears, Fault
  <2>2. RecoverySlots \in Nat
    BY DEF RecoverySlots
  <2>3. clean \in 0 .. RecoverySlots
    BY DEF FullInv, Inv, TypeOK
  <2> QED BY <2>1, <2>2, <2>3 DEF Lesser
<1>7. CASE a = Sender
  <2>1. j > 1 => Cleared(store[Sender], j - 1)
    <3> SUFFICES ASSUME j > 1 PROVE Cleared(store[Sender], j - 1)
      OBVIOUS
    <3>1. clean >= N * ((j - 1) - 1) + N
      BY <1>1, <1>3, <1>4, <1>6, <1>7
    <3>2. j - 1 \in Nat \ {0}
      OBVIOUS
    <3> QED BY <1>3, <3>1, <3>2 DEF Progress
  <2>2. LET t == Taken(heard, heard, "right")
        IN  t.clockCorrection = "right" \/ t.clockCorrectionBucket + j <= BucketMax + 1
    BY <1>2, <2>1, ClearedStep
  <2> QED BY <1>3, <1>5, <1>7, <2>2, ContextsStep DEF Cleared
<1>8. CASE a # Sender
  <2>1. clean >= rounds + Ago(a)
    BY <1>1, <1>3, <1>4, <1>6, <1>8
  <2>2. Cleared(store[a], j)
    BY <2>1 DEF Progress, rounds
  <2> QED BY <1>5, <1>8, <2>2, ContextsStep DEF Cleared
<1> QED BY <1>7, <1>8

LEMMA LatestStep ==
  ASSUME FullInv, Past, Receive
  PROVE  Past' /\ Latest'
<1> USE EngineAssumption
<1>1. PICK heard \in SUBSET (Anchors \ {Sender}), ranged \in SUBSET (Anchors \ {Sender}),
           candidate \in {"right", "wrong", "outOfSpec"}, n \in Nat :
        Hears(heard, ranged, candidate, n)
  BY ReceiveHears
<1>2. /\ now \in 1 .. MaxSlot /\ now' = now + 1
      /\ store'[Sender].frame = Frame
      /\ store'[Sender].lastUpdateTime = now
      /\ store'[Sender].isInitialized
      /\ \A a \in Anchors \ {Sender} : store'[a].lastUpdateTime = store[a].lastUpdateTime
  BY <1>1, ContextsStep
<1>3. Past'
  <2> SUFFICES ASSUME NEW a \in Anchors PROVE store'[a].lastUpdateTime < now'
    BY DEF Past
  <2>1. store[a].lastUpdateTime \in Nat /\ store[a].lastUpdateTime < now
    BY DEF Past, FullInv, Inv, TypeOK, AnchorInfo, Times
  <2> QED BY <1>2, <2>1
<1>4. Latest'
  <2> SUFFICES ASSUME NEW a \in Anchors, Ago(a)' = 1
               PROVE  /\ store'[a].isInitialized /\ store'[a].frame = LastFrame(a)'
                      /\ store'[a].frame # NoFrame
                      /\ store'[a].lastUpdateTime = now' - 1
    BY DEF Latest
  <2>1. a = Sender
    <3>1. Ago(a) \in 1 .. N /\ Ago(a)' = IF a = Sender THEN 1 ELSE Ago(a) + 1
      BY <1>2, AgoSteps
    <3> QED BY <3>1
  <2>2. LastFrame(a)' = Frame
    <3>1. LastFrame(a)' = IF a < Sender' THEN Frame' ELSE Frame' - 1
      BY DEF LastFrame
    <3> QED BY <1>2, <2>1, <3>1, TurnPasses DEF Anchors
  <2>3. Frame # NoFrame
    BY <1>2, TurnPasses DEF NoFrame
  <2> QED BY <1>2, <2>1, <2>2, <2>3
<1> QED BY <1>3, <1>4

\* What an undisturbed packet says of an anchor that its sender heard.
LEMMA ReportOfHeard ==
  ASSUME FullInv, now \in 1 .. MaxSlot, NEW heard \in SUBSET (Anchors \ {Sender}),
         NEW r \in heard
  PROVE  LET t == Taken(heard, heard, "right")
         IN  /\ t.remote[r] = [frame |-> LastFrame(r), endOfLife |-> now + RemoteValidity]
             /\ t.remoteTof[r] = now + TofValidity
<1> DEFINE info == store[Sender]
           remote == [q \in Anchors |->
              IF q \in heard THEN [frame |-> LastFrame(q), endOfLife |-> now + RemoteValidity]
                             ELSE info.remote[q]]
           tof == [q \in Anchors |-> IF q \in heard THEN now + TofValidity ELSE info.remoteTof[q]]
           s == updateRemoteData(info, heard, heard)
<1>1. info \in AnchorInfo
  BY SlotTypes DEF FullInv, Inv, TypeOK
<1>2. s \in AnchorInfo
  BY <1>1, RemoteDataType
<1> HIDE DEF info
<1>3. /\ remote[r] = [frame |-> LastFrame(r), endOfLife |-> now + RemoteValidity]
      /\ tof[r] = now + TofValidity
  OBVIOUS
<1> HIDE DEF remote, tof
<1>4. s = [info EXCEPT !.isInitialized = TRUE, !.remote = remote, !.remoteTof = tof]
  BY <1>1 DEF updateRemoteData, SetRemoteTimeOfFlight, SetRemoteRxTime, AnchorInfo, remote, tof
<1>5. s.remote = remote /\ s.remoteTof = tof
  BY <1>1, <1>4 DEF AnchorInfo
<1> HIDE DEF s
<1>6. /\ updateClockCorrection(s, "right").remote = s.remote
      /\ updateClockCorrection(s, "right").remoteTof = s.remoteTof
  BY <1>2 DEF updateClockCorrection, clockCorrectionEngineUpdate, AnchorInfo
<1> QED BY <1>3, <1>5, <1>6 DEF Taken, info, s

\* A reliable sample in an undisturbed slot after an undisturbed one measures: the anchor
\* of the slot before can be matched, and for the youngest none is younger.
LEMMA MeasuresLatest ==
  ASSUME Measurable, FullInv, Past, Latest, clean > 0,
         NEW heard \in SUBSET (Anchors \ {Sender}), Hears(heard, heard, "right", 0),
         \A r \in Anchors \ {Sender} :
           store[r].frame = LastFrame(r) /\ LastFrame(r) # NoFrame => r \in heard,
         HasSample(store[Sender]), store[Sender].clockCorrection = "right"
  PROVE  out' # NoMeasurement
<1> USE EngineAssumption
<1> DEFINE s == updateRemoteData(store[Sender], heard, heard)
           t == Taken(heard, heard, "right")
<1>1. now \in 1 .. MaxSlot /\ now' = now + 1
  BY ContextsStep
<1>2. Sender \in Anchors /\ \A a \in Anchors : store[a] \in AnchorInfo
  BY <1>1, SlotTypes DEF FullInv, Inv, TypeOK
<1>3. PICK p \in Anchors \ {Sender} : Ago(p) = 1
  <2> DEFINE p == IF Sender = 0 THEN N - 1 ELSE Sender - 1
  <2>1. p \in Anchors \ {Sender} /\ Ago(p) = 1
    BY <1>2 DEF Measurable, Ago, Anchors
  <2> QED BY <2>1
<1>4. /\ store[p].isInitialized /\ store[p].frame = LastFrame(p) /\ LastFrame(p) # NoFrame
      /\ store[p].lastUpdateTime = now - 1
  BY <1>3 DEF Latest
<1>5. p \in heard
  BY <1>4
<1>6. store[p].lastUpdateTime > 0
  <2>1. now # 1
    <3>1. CASE now = 1
      <4>1. store[p].frame # NoFrame => N * store[p].frame + p <= now - 2
        BY DEF FullInv, Receptions, ReceptionOf
      <4>2. store[p].frame \in Nat /\ p \in Nat
        <5>1. store[p].frame \in Frames /\ store[p].frame # NoFrame
          BY <1>2, <1>4 DEF AnchorInfo
        <5>2. p \in 0 .. N - 1
          BY DEF Anchors
        <5> QED BY <5>1, <5>2 DEF Frames, NoFrame
      <4> DEFINE slot == N * store[p].frame
      <4>3. slot \in Nat /\ slot + p <= now - 2
        BY <1>4, <4>1, <4>2
      <4> HIDE DEF slot
      <4> QED BY <3>1, <4>2, <4>3
    <3> QED BY <3>1
  <2> QED BY <1>1, <1>4, <2>1
<1>7. p \in Matching(t)
  <2>1. /\ t.remote[p] = [frame |-> LastFrame(p), endOfLife |-> now + RemoteValidity]
        /\ t.remoteTof[p] = now + TofValidity
    BY <1>1, <1>5, ReportOfHeard
  <2>2. store[p].seqNr = store[p].frame % SeqMod
    BY <1>4 DEF FullInv, Receptions, ReceptionOf
  <2> QED BY <1>1, <1>4, <2>1, <2>2 DEF Measurable, Matching, RemoteList, HasTimeOfFlight, SameSeqNr
<1>8. Reliable(s, "right")
  <2>1. s.frame = store[Sender].frame /\ s.clockCorrection = store[Sender].clockCorrection
    BY <1>1, <1>2, RemoteDataType
  <2> QED BY <2>1 DEF Reliable, HasSample
<1>9. PICK m \in Search(s, t, "right") :
        out' = IF m.found = NoFrame THEN NoMeasurement ELSE Measurement(t, m.found)
  BY DEF Hears, Taken
<1>10. m \in findSuitableAnchor(t)
  BY <1>8, <1>9 DEF Search
<1>11. Matching(t) \subseteq Anchors
  BY DEF Matching, RemoteList
<1>12. m.found \in Anchors
  <2>1. CASE matcher = "Youngest"
    <3> DEFINE ready == {r \in Matching(t) : store[r].lastUpdateTime > 0}
               best == {r \in ready : \A q \in ready :
                                        store[q].lastUpdateTime <= store[r].lastUpdateTime}
    <3>1. p \in ready
      BY <1>6, <1>7
    <3>2. \A q \in ready : store[q].lastUpdateTime <= store[p].lastUpdateTime
      <4> SUFFICES ASSUME NEW q \in ready
                   PROVE  store[q].lastUpdateTime <= store[p].lastUpdateTime
        OBVIOUS
      <4>1. store[q].lastUpdateTime \in Nat /\ store[q].lastUpdateTime < now
        BY <1>2, <1>11 DEF Past, AnchorInfo, Times
      <4> QED BY <1>1, <1>4, <4>1
    <3>3. best # {} /\ best \subseteq Anchors
      BY <1>11, <3>1, <3>2
    <3>4. m \in matchYoungestAnchor(t)
      BY <1>10, <2>1 DEF findSuitableAnchor
    <3> HIDE DEF t
    <3>5. m.found \in IF best = {} THEN {NoFrame} ELSE best
      BY <3>4 DEF matchYoungestAnchor
    <3> QED BY <3>3, <3>5
  <2>2. CASE matcher = "Random"
    <3> DEFINE usable == {r \in Matching(t) : store[r].isInitialized}
    <3>1. p \in usable /\ usable \subseteq Anchors
      BY <1>4, <1>7, <1>11
    <3>2. m \in matchRandomAnchor(t)
      BY <1>10, <2>2 DEF findSuitableAnchor
    <3> HIDE DEF t
    <3>3. m \in [found : usable, looked : SUBSET RemoteList(t)]
      BY <3>1, <3>2 DEF matchRandomAnchor
    <3> QED BY <3>1, <3>3
  <2> QED BY <2>1, <2>2 DEF FullInv, Inv, TypeOK, Matchers
<1>13. m.found # NoFrame
  BY <1>12 DEF NoFrame, Anchors
<1>14. out'.from = Sender /\ Sender # NoFrame /\ out' # NoMeasurement
  <2>1. out' = Measurement(t, m.found)
    BY <1>9, <1>13
  <2> HIDE DEF t
  <2>2. Sender # NoFrame
    BY <1>2 DEF NoFrame, Anchors
  <2> QED BY <2>1, <2>2 DEF Measurement, NoMeasurement
<1> QED BY <1>14

LEMMA RecoversStep ==
  ASSUME Measurable, FullInv, Recovery, Receive
  PROVE  Recovers'
<1> SUFFICES ASSUME clean' = RecoverySlots PROVE out' # NoMeasurement
  BY DEF Recovers, RecoverySlots
<1> USE EngineAssumption
<1> DEFINE rounds == N * BucketMax
<1>1. rounds \in Nat /\ RecoverySlots = rounds + 4 * N /\ N * (BucketMax + 1) = rounds + N
  BY DEF RecoverySlots
<1> HIDE DEF rounds
<1>2. clean' > 0
  BY <1>1
<1>3. PICK heard \in SUBSET (Anchors \ {Sender}) :
        /\ Hears(heard, heard, "right", 0)
        /\ \A r \in Anchors \ {Sender} :
             store[r].frame = LastFrame(r) /\ LastFrame(r) # NoFrame => r \in heard
  BY <1>2, UndisturbedReceive DEF FullInv, Inv
<1>4. clean \in Nat /\ clean + 1 >= RecoverySlots
  <2>1. clean' = Lesser(clean + 1, RecoverySlots)
    BY <1>3 DEF Hears, Fault
  <2>2. clean \in 0 .. RecoverySlots
    BY DEF FullInv, Inv, TypeOK
  <2> QED BY <1>1, <2>1, <2>2 DEF Lesser
<1>5. now \in 1 .. MaxSlot /\ now' = now + 1 /\ Sender \in Anchors /\ Ago(Sender) = N
  BY <1>3, ContextsStep, SlotTypes, AgoSteps
<1>6. Cleared(store[Sender], BucketMax + 2)
  <2>1. clean >= N * (BucketMax + 1) + N
    BY <1>1, <1>4
  <2>2. BucketMax + 2 \in Nat \ {0} /\ (BucketMax + 2) - 1 = BucketMax + 1
    OBVIOUS
  <2>3. clean >= N * ((BucketMax + 2) - 1) + Ago(Sender)
    BY <1>5, <2>1, <2>2
  <2> QED BY <1>5, <2>2, <2>3 DEF Recovery, Progress
<1>7. HasSample(store[Sender]) /\ store[Sender].clockCorrection = "right"
  <2>1. store[Sender].clockCorrectionBucket \in 0 .. BucketMax
    BY <1>5 DEF FullInv, Inv, TypeOK, AnchorInfo
  <2> QED BY <1>6, <2>1 DEF Cleared, HasSample
<1>8. clean > 0
  BY <1>1, <1>4
<1> QED BY <1>3, <1>7, <1>8, MeasuresLatest DEF Recovery

LEMMA RecoveryOtherSteps ==
  ASSUME FullInv, Recovery, Lose \/ SetMatchingAlgorithm \/ UNCHANGED vars
  PROVE  Recovery'
<1> USE EngineAssumption
<1>1. CASE Lose
  <2>1. /\ now \in 1 .. MaxSlot /\ now' = now + 1 /\ clean' = 0 /\ store' = store
    BY <1>1 DEF Lose, Tick, Fault, FullInv, Inv, TypeOK
  <2>2. Past'
    <3> SUFFICES ASSUME NEW a \in Anchors PROVE store[a].lastUpdateTime < now'
      BY <2>1 DEF Past
    <3>1. store[a].lastUpdateTime \in Nat /\ store[a].lastUpdateTime < now
      BY DEF Recovery, Past, FullInv, Inv, TypeOK, AnchorInfo, Times
    <3> QED BY <2>1, <3>1
  <2>3. Latest'
    BY <2>1 DEF Latest
  <2>4. Progress'
    <3> SUFFICES ASSUME NEW a \in Anchors, NEW j \in Nat \ {0}
                 PROVE  ~(0 >= N * (j - 1) + Ago(a)')
      BY <2>1 DEF Progress
    <3>1. N * (j - 1) \in Nat
      OBVIOUS
    <3>2. Ago(a)' \in 1 .. N
      BY <2>1, AgoSteps
    <3> QED BY <3>1, <3>2
  <2>5. Recovers'
    <3>1. RecoverySlots \in Nat \ {0}
      <4> DEFINE rounds == N * BucketMax
      <4>1. rounds \in Nat /\ RecoverySlots = rounds + 4 * N
        BY DEF RecoverySlots
      <4> QED BY <4>1
    <3>2. RecoverySlots' = RecoverySlots
      BY DEF RecoverySlots
    <3> QED BY <2>1, <3>1, <3>2 DEF Recovers
  <2> QED BY <2>2, <2>3, <2>4, <2>5 DEF Recovery
<1>2. CASE SetMatchingAlgorithm \/ UNCHANGED vars
  <2>1. UNCHANGED <<now, store, out, clean>>
    BY <1>2 DEF SetMatchingAlgorithm, vars
  <2> QED BY <2>1 DEF Recovery, Past, Latest, Progress, Recovers, Ago, Sender, LastFrame, Frame,
                      RecoverySlots
<1> QED BY <1>1, <1>2

\* Whatever was lost, unheard or mistimed, after as many undisturbed slots as drain the
\* bucket, accept a correction and agree with it, every packet gives a measurement,
\* provided there is another anchor and a report lives until the next slot
\* (clockCorrectionEngineUpdate, findSuitableAnchor).
THEOREM MeasurementsComeBack ==
  ASSUME Measurable
  PROVE  Spec => []Recovers
<1> USE EngineAssumption
<1>1. Init => Recovery
  <2> SUFFICES ASSUME Init PROVE Recovery
    OBVIOUS
  <2>1. now = 1 /\ clean = 0 /\ \A a \in Anchors : store[a].lastUpdateTime = 0
    BY DEF Init, EmptySlot
  <2>2. Past /\ Latest
    BY <2>1 DEF Past, Latest
  <2>3. Progress
    <3> SUFFICES ASSUME NEW a \in Anchors, NEW j \in Nat \ {0}
                 PROVE  ~(0 >= N * (j - 1) + Ago(a))
      BY <2>1 DEF Progress
    <3>1. N * (j - 1) \in Nat
      OBVIOUS
    <3>2. Sender \in 0 .. N - 1
      BY <2>1, Remainder DEF Sender
    <3>3. Ago(a) \in 1 .. N
      BY <3>2 DEF Ago, Anchors
    <3> QED BY <3>1, <3>3
  <2>4. Recovers
    <3> DEFINE rounds == N * BucketMax
    <3>1. rounds \in Nat /\ RecoverySlots = rounds + 4 * N
      BY DEF RecoverySlots
    <3> QED BY <2>1, <3>1 DEF Recovers
  <2> QED BY <2>2, <2>3, <2>4 DEF Recovery
<1>2. FullInv /\ Recovery /\ [Next]_vars => Recovery'
  BY ProgressStep, LatestStep, RecoversStep, RecoveryOtherSteps DEF Next, Recovery
<1>3. Recovery => Recovers
  BY DEF Recovery
<1> QED BY <1>1, <1>2, <1>3, Invariance, PTL DEF Spec, Safe
=============================================================================
