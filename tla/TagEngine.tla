----------------------------- MODULE TagEngine -----------------------------
(***************************************************************************)
(* The tag's side of the radio: from the packets of the anchors that it    *)
(* hears to the time differences it hands to its estimator                 *)
(* (tdoa_tag_algorithm.cpp, tdoaEngine.cpp, tdoaStorage.cpp and            *)
(* clockCorrectionEngine.cpp).                                             *)
(*                                                                         *)
(* The anchors speak in turn, one per slot.  A packet says which packets   *)
(* of the other anchors its sender heard and when, so that with the tag's  *)
(* own reception of the same packet of another anchor it gives one         *)
(* measurement.  "The same packet" is decided on a seven bit sequence      *)
(* number, and the tag's reception of a packet never expires.              *)
(*                                                                         *)
(* A timestamp is abstracted to the frame of the packet it belongs to and  *)
(* NoFrame is the timestamp 0.  The clock correction is the right one or a *)
(* wrong one within the crystal's specification.  The storage has 16 slots *)
(* for 8 anchors: nothing is ever evicted, so it is a function of the id.  *)
(* Left out: the LPP positions, which the firmware stores and never reads, *)
(* and the antenna delays, which are passed on to the anchor model.        *)
(***************************************************************************)
EXTENDS Integers, FiniteSets

CONSTANTS
  N,                \* the anchors 0 .. N - 1, that speak in this order
  SeqMod,           \* 128 in the code: the range of a sequence number
  BucketMax,        \* CLOCK_CORRECTION_BUCKET_MAX, 4 in the code
  RemoteValidity,   \* REMOTE_DATA_VALIDITY_PERIOD in slots
  TofValidity,      \* TOF_VALIDITY_PERIOD in slots
  MaxSlot,          \* bound: slots of a behaviour
  MaxFaults         \* bound: packets lost or unheard and noisy samples

ASSUME EngineAssumption ==
  /\ N \in Nat \ {0} /\ SeqMod \in Nat \ {0} /\ BucketMax \in Nat \ {0}
  /\ RemoteValidity \in Nat /\ TofValidity \in Nat
  /\ MaxSlot \in Nat /\ MaxFaults \in Nat

\* A report dies before the sequence number that it names comes round.
ASSUME SeqAssumption == RemoteValidity < N * (SeqMod - 1) + 3

VARIABLES
  now,       \* millis() in slots; the first packet is not heard at 0
  store,     \* tdoaEngineState.anchorInfoArray, per anchor
  matcher,   \* engineState->matchingAlgorithm
  out,       \* the measurement of the last slot, or NoMeasurement
  held,      \* history: agreeing samples, then disagreeing ones, per anchor
  clean,     \* history: slots since the last fault
  faults     \* faults so far

vars == <<now, store, matcher, out, held, clean, faults>>

Anchors == 0 .. N - 1
NoFrame == -1
Frames == NoFrame .. MaxSlot
Matchers == {"Youngest", "Random"}
Times == 0 .. MaxSlot + 1

Lesser(x, y) == IF x < y THEN x ELSE y

\* Enough slots without a fault to drain the bucket of every anchor, to accept a
\* new correction and to agree with it.
RecoverySlots == N * (BucketMax + 4)

AnchorInfo ==
  [isInitialized : BOOLEAN, frame : Frames, seqNr : 0 .. SeqMod - 1,
   lastUpdateTime : Times, clockCorrection : {"none", "right", "wrong"},
   clockCorrectionBucket : 0 .. BucketMax,
   remote : [Anchors -> [frame : Frames, endOfLife : 0 .. MaxSlot + RemoteValidity + 1]],
   remoteTof : [Anchors -> 0 .. MaxSlot + TofValidity + 1]]

\* What memset leaves: sequence number 0, no times, nothing alive.
EmptySlot ==
  [isInitialized |-> FALSE, frame |-> NoFrame, seqNr |-> 0, lastUpdateTime |-> 0,
   clockCorrection |-> "none", clockCorrectionBucket |-> 0,
   remote |-> [r \in Anchors |-> [frame |-> NoFrame, endOfLife |-> 0]],
   remoteTof |-> [r \in Anchors |-> 0]]

NoMeasurement == [from |-> NoFrame]

TypeOK ==
  /\ now \in 1 .. MaxSlot + 1
  /\ store \in [Anchors -> AnchorInfo]
  /\ matcher \in Matchers
  /\ out = NoMeasurement
     \/ out \in [from : Anchors, to : Anchors, mine : Frames, theirs : Frames, by : Matchers]
  /\ held \in [Anchors -> [agreed : 0 .. BucketMax, missed : 0 .. BucketMax + 1]]
  /\ clean \in 0 .. RecoverySlots
  /\ faults \in 0 .. MaxFaults

-----------------------------------------------------------------------------
(* The anchors' schedule.                                                  *)

Sender == (now - 1) % N
Frame == (now - 1) \div N

\* The frame of the last packet of r when the sender speaks.
LastFrame(r) == IF r < Sender THEN Frame ELSE Frame - 1

-----------------------------------------------------------------------------
(* The handlers, on the storage s of the packet's sender.                  *)

\* tdoaStorageSetRemoteRxTime and tdoaStorageSetRemoteTimeOfFlight, for every anchor
\* that the packet names: each starts its life anew.
SetRemoteRxTime(s, heard) ==
  [s EXCEPT !.remote = [r \in Anchors |->
     IF r \in heard THEN [frame |-> LastFrame(r), endOfLife |-> now + RemoteValidity]
                    ELSE @[r]]]
SetRemoteTimeOfFlight(s, ranged) ==
  [s EXCEPT !.remoteTof = [r \in Anchors |-> IF r \in ranged THEN now + TofValidity ELSE @[r]]]

\* What the packet says of the other anchors.
updateRemoteData(s, heard, ranged) ==
  SetRemoteTimeOfFlight(SetRemoteRxTime([s EXCEPT !.isInitialized = TRUE], heard), ranged)

\* Seeded fault: a disagreeing sample replaces the correction at once.
clockCorrectionEngineUpdateEager(s, candidate) ==
  IF candidate = s.clockCorrection
  THEN [s EXCEPT !.clockCorrectionBucket = Lesser(@ + 1, BucketMax)]
  ELSE IF candidate = "outOfSpec" THEN s
  ELSE [s EXCEPT !.clockCorrection = candidate]

\* Seeded fault: a disagreeing sample refills the bucket, which never empties.
clockCorrectionEngineUpdateStuck(s, candidate) ==
  IF candidate = s.clockCorrection
  THEN [s EXCEPT !.clockCorrectionBucket = BucketMax]
  ELSE IF s.clockCorrectionBucket > 0 \/ candidate = "outOfSpec" THEN s
  ELSE [s EXCEPT !.clockCorrection = candidate]

\* The leaky bucket: agreeing samples fill it, the others drain it, and only an
\* empty one lets a new correction in.
clockCorrectionEngineUpdate(s, candidate) ==
  IF candidate = s.clockCorrection
  THEN [s EXCEPT !.clockCorrectionBucket = Lesser(@ + 1, BucketMax)]
  ELSE IF s.clockCorrectionBucket > 0
  THEN [s EXCEPT !.clockCorrectionBucket = @ - 1]
  ELSE IF candidate = "outOfSpec" THEN s
  ELSE [s EXCEPT !.clockCorrection = candidate]

\* A clock sample needs the previous packet of the anchor, and is reliable when
\* it agrees with the correction in use.
HasSample(s) == s.frame # NoFrame
updateClockCorrection(s, candidate) ==
  IF HasSample(s) THEN clockCorrectionEngineUpdate(s, candidate) ELSE s
Reliable(s, candidate) == HasSample(s) /\ candidate = s.clockCorrection

\* Seeded fault: a report is kept for as long as it is not replaced.
RemoteListForever(s) == {r \in Anchors : s.remote[r].endOfLife > 0}

RemoteList(s) == {r \in Anchors : s.remote[r].endOfLife > now}
HasTimeOfFlight(s, r) == s.remoteTof[r] > now

\* Seeded fault: any packet of the other anchor will do.
SameSeqNrAlways(s, r) == TRUE

SameSeqNr(s, r) == s.remote[r].frame % SeqMod = store[r].seqNr

Matching(s) == {r \in RemoteList(s) : HasTimeOfFlight(s, r) /\ SameSeqNr(s, r)}

\* matchYoungestAnchor: the last heard of the matching anchors, found by looking
\* at every anchor with a time of flight.
matchYoungestAnchor(s) ==
  LET ready == {r \in Matching(s) : store[r].lastUpdateTime > 0}
      best == {r \in ready : \A q \in ready :
                               store[q].lastUpdateTime <= store[r].lastUpdateTime}
  IN  [found : IF best = {} THEN {NoFrame} ELSE best,
       looked : {{r \in RemoteList(s) : HasTimeOfFlight(s, r)}}]

\* matchRandomAnchor: the first matching one in a rotation of the list; a context
\* that the search itself has just created is passed over, an older one is not.
matchRandomAnchor(s) ==
  LET usable == {r \in Matching(s) : store[r].isInitialized}
  IN  IF usable = {} THEN {[found |-> NoFrame, looked |-> RemoteList(s)]}
      ELSE {m \in [found : usable, looked : SUBSET RemoteList(s)] :
              m.looked \cap usable = {m.found}}

\* findSuitableAnchor: the anchor it can find, or NoFrame, with the contexts that
\* it looks at.  A correction is there whenever a sample was reliable.
findSuitableAnchor(s) ==
  CASE matcher = "Youngest" -> matchYoungestAnchor(s)
    [] matcher = "Random" -> matchRandomAnchor(s)

\* tdoaEngineProcessPacket searches after a reliable sample only.
Search(s, t, candidate) ==
  IF Reliable(s, candidate) THEN findSuitableAnchor(t)
                            ELSE {[found |-> NoFrame, looked |-> {}]}

\* tdoaStorageSetRxTxData
SetRxTxData(s) ==
  [s EXCEPT !.frame = Frame, !.seqNr = Frame % SeqMod, !.lastUpdateTime = now]

\* tdoaStorageGetRemoteRxTime, of an anchor in RemoteList(s).
RemoteRxTime(s, r) == s.remote[r].frame

\* calcTDoA and enqueueTDOA: the tag's reception of r is paired with the one that
\* the sender reports.
Measurement(s, r) ==
  [from |-> Sender, to |-> r, mine |-> store[r].frame, theirs |-> RemoteRxTime(s, r),
   by |-> matcher]

\* getCreate: the storage after a search has looked at the contexts in looked.
Created(looked) ==
  [r \in Anchors |-> IF r \in looked THEN [store[r] EXCEPT !.isInitialized = TRUE]
                                     ELSE store[r]]

-----------------------------------------------------------------------------
(* The actions.                                                            *)

Tick == now <= MaxSlot /\ now' = now + 1

\* History: the samples since the correction was last agreed with.
Hold(s, t, candidate) ==
  LET h == held[Sender]
  IN  held' = [held EXCEPT ![Sender] =
        IF ~HasSample(s) THEN h
        ELSE IF Reliable(s, candidate)
        THEN [agreed |-> IF h.missed > 0 THEN 1 ELSE Lesser(h.agreed + 1, BucketMax),
              missed |-> 0]
        ELSE IF t.clockCorrection # s.clockCorrection
        THEN [agreed |-> 0, missed |-> 0]
        ELSE [h EXCEPT !.missed = Lesser(h.missed + 1, BucketMax + 1)]]

Fault(n) ==
  /\ faults + n <= MaxFaults
  /\ faults' = faults + n
  /\ clean' = IF n = 0 THEN Lesser(clean + 1, RecoverySlots) ELSE 0

\* rxcallback: the tag hears the packet of the slot.  A packet that the tag missed
\* may never have been sent: the sender's not hearing it is no further fault.
Receive ==
  \E heard \in SUBSET (Anchors \ {Sender}), ranged \in SUBSET (Anchors \ {Sender}),
     candidate \in {"right", "wrong", "outOfSpec"} :
    LET s == updateRemoteData(store[Sender], heard, ranged)
        t == updateClockCorrection(s, candidate)
        others == Anchors \ {Sender}
    IN  /\ \A r \in heard : LastFrame(r) >= 0
        /\ ranged \subseteq heard
        /\ Fault(Cardinality({r \in others \ heard : store[r].frame = LastFrame(r)
                                                    /\ LastFrame(r) # NoFrame})
                 + Cardinality(heard \ ranged)
                 + IF candidate = "right" THEN 0 ELSE 1)
        /\ Tick
        /\ Hold(s, t, candidate)
        /\ \E m \in Search(s, t, candidate) :
             /\ store' = [Created(m.looked) EXCEPT ![Sender] = SetRxTxData(t)]
             /\ out' = IF m.found = NoFrame THEN NoMeasurement ELSE Measurement(t, m.found)
        /\ UNCHANGED matcher

\* The packet of the slot is lost at the tag: the receiver is only armed again.
Lose ==
  /\ Fault(1)
  /\ Tick
  /\ out' = NoMeasurement
  /\ UNCHANGED <<store, matcher, held>>

\* uwbTdoa2TagSetMatchingAlgorithm
SetMatchingAlgorithm ==
  /\ matcher' \in Matchers \ {matcher}
  /\ UNCHANGED <<now, store, out, held, clean, faults>>

Init ==
  /\ now = 1
  /\ store = [a \in Anchors |-> EmptySlot]
  /\ matcher \in Matchers
  /\ out = NoMeasurement
  /\ held = [a \in Anchors |-> [agreed |-> 0, missed |-> 0]]
  /\ clean = 0
  /\ faults = 0

Next == Receive \/ Lose \/ SetMatchingAlgorithm

Spec == Init /\ [][Next]_vars

-----------------------------------------------------------------------------
(* Properties.                                                             *)

\* A measurement pairs two receptions of one packet, the tag's and the sender's.
\* The sequence number tells packets apart as long as the tag has not missed as
\* many as there are numbers, and as long as the random matcher does not take a
\* context that was created for an anchor never heard.
SamePacket ==
  out # NoMeasurement =>
    \/ out.mine = out.theirs
    \/ out.mine # NoFrame /\ out.theirs >= out.mine + SeqMod
    \/ out.mine = NoFrame /\ out.by = "Random"

\* Both receptions are recent: a report that its sender no longer repeats, of an
\* anchor that went silent, is not used beyond its validity.
RemoteIsRecent ==
  out # NoMeasurement => (now - 2) - (N * out.theirs + out.to) < RemoteValidity + N

\* A clock correction in use survives as many disagreeing samples as agreeing ones
\* vouched for it (up to the bucket's size): noise does not displace it.
ClockIsHeld ==
  [][\A a \in Anchors :
       /\ store[a].clockCorrection # "none"
       /\ store'[a].clockCorrection # store[a].clockCorrection
       => held[a].missed >= held[a].agreed]_vars

\* Whatever was lost, unheard or mistimed, and whatever correction that left
\* behind: after RecoverySlots undisturbed slots every packet gives a measurement.
Recovers == clean = RecoverySlots => out # NoMeasurement
=============================================================================
