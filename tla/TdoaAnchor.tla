----------------------------- MODULE TdoaAnchor -----------------------------
(***************************************************************************)
(* What the anchors say to each other on the schedule of TdmaSchedule: the *)
(* packet ids, the timestamps and the inter-anchor distances of            *)
(* tdoa_anchor.cpp.  Every packet carries its sender's ids and timestamps, *)
(* and a receiver turns two consecutive packets of one anchor, with its    *)
(* own packet in between, into a distance by two-way ranging.              *)
(*                                                                         *)
(* A timestamp is abstracted to the id of the packet whose departure or    *)
(* arrival it is, and NoStamp is the 0 that stands for no packet.  The     *)
(* ranging formula then yields a time of flight exactly when its stamps    *)
(* belong together.  Ids are uint8_t in the code and wrap at PidMod here.  *)
(***************************************************************************)
EXTENDS TdmaSchedule

CONSTANT PidMod    \* 256 in the code: the range of ctx.pid

ASSUME PidAssumption == PidMod \in Nat /\ PidMod >= 2

VARIABLE rng       \* the ranging registers of ctx, per anchor

rvars == <<ctx, now, quiet, rng>>

Ids == Anchors \cup Slots      \* the indices in use of the arrays [NSLOTS]
Pids == 0 .. PidMod - 1
NoStamp == -1
Stamps == Pids \cup {NoStamp}

\* A "tof" is a distance of two-way ranging; a "garbled" one was computed from
\* timestamps of packets that are not the ones of the exchange.
Distances == {"none", "tof", "garbled"}

Rng == [pid : Pids,
        packetIds : [Ids -> Pids],
        rxTimestamps : [Ids -> Stamps],
        txTimestamps : [Ids -> Stamps],
        distances : [Ids -> Distances]]

Cleared == [pid |-> 0,
            packetIds |-> [s \in Ids |-> 0],
            rxTimestamps |-> [s \in Ids |-> NoStamp],
            txTimestamps |-> [s \in Ids |-> NoStamp],
            distances |-> [s \in Ids |-> "none"]]

-----------------------------------------------------------------------------
(* The handlers, on the ranging registers r of anchor a.                   *)

\* The list that anchor b's packet carries (setTxData): nothing runs on b
\* between the arming of the packet and its departure.
Packet(b) ==
  [pid |-> rng[b].packetIds,
   stamps |-> [rng[b].rxTimestamps EXCEPT ![b] = rng[b].txTimestamps[b]]]

\* Seeded fault: the id is compared with itself and not with its predecessor.
SameIdDistance(r, a, s, p) ==
  IF r.packetIds[s] # p.pid[s] \/ p.pid[a] # r.packetIds[a] THEN "none" ELSE "tof"

CalculateDistance(r, a, s, p) ==
  IF r.packetIds[s] # (p.pid[s] - 1) % PidMod \/ p.pid[a] # r.packetIds[a] THEN "none"
  ELSE IF /\ r.rxTimestamps[s] # NoStamp /\ r.rxTimestamps[s] = r.txTimestamps[s]
          /\ p.stamps[a] # NoStamp /\ p.stamps[a] = r.txTimestamps[a]
       THEN "tof"
       ELSE "garbled"

\* Seeded fault: a failed reception leaves the distance it makes void.
DistanceKeepingFailure(r, s) == [r EXCEPT !.rxTimestamps[s] = NoStamp]

RecordFailure(r, s) == [r EXCEPT !.rxTimestamps[s] = NoStamp, !.distances[s] = "none"]

RecordPacket(r, a, s, p) ==
  [r EXCEPT !.distances[s] = CalculateDistance(r, a, s, p),
            !.packetIds[s] = p.pid[s],
            !.rxTimestamps[s] = p.pid[s],
            !.txTimestamps[s] = p.stamps[s]]

\* setupTx: the packet takes the current id, and its departure is stamped.
StampTx(r, a) ==
  [r EXCEPT !.packetIds[a] = r.pid, !.txTimestamps[a] = r.pid,
            !.pid = (r.pid + 1) % PidMod]

\* The slot whose reception the handler of this event closes: the slot of a
\* synchronized anchor, or slot 0 for the packet an anchor joins a frame with.
ClosedSlots(a, h) ==
  IF ~Receiving(a) THEN {}
  ELSE IF ctx[a].state = "synchronized" THEN {ctx[a].slot}
  ELSE IF a # 0 /\ h = 0 THEN {0} ELSE {}

AfterRx(a, h) ==
  IF ClosedSlots(a, h) = {} THEN rng[a]
  ELSE LET s == CHOOSE x \in ClosedSlots(a, h) : TRUE
       IN  IF h = s THEN RecordPacket(rng[a], a, s, Packet(s))
           ELSE RecordFailure(rng[a], s)

\* A handler that leaves the radio armed for TX has been through setupTx.
RangingAfterSlot(a, h) ==
  IF (Receiving(a) \/ Transmitting(a)) /\ AfterSlot(a, h).radio = "tx"
  THEN StampTx(AfterRx(a, h), a)
  ELSE AfterRx(a, h)

RangingAfterRestart(a) == IF a = 0 THEN StampTx(Cleared, a) ELSE Cleared

-----------------------------------------------------------------------------

RInit == Init /\ rng = [a \in Anchors |-> Cleared]

RSlotEnds(heard) ==
  /\ SlotEnds(heard)
  /\ rng' = [a \in Anchors |-> RangingAfterSlot(a, heard[a])]

RSlotPasses == \E heard \in [Anchors -> Senders \cup {Timeout}] : RSlotEnds(heard)

RRestart(a) ==
  /\ Start(a) \/ CheckStallWatchdog(a)
  /\ rng' = [rng EXCEPT ![a] = RangingAfterRestart(a)]

RDisturb(a) == (SuspendRadio(a) \/ MissDeadline(a)) /\ UNCHANGED rng

RBecomeQuiet == BecomeQuiet /\ UNCHANGED rng

RNext ==
  \/ RSlotPasses
  \/ \E a \in Anchors : RRestart(a) \/ RDisturb(a)
  \/ RBecomeQuiet

RSpec == RInit /\ [][RNext]_rvars

RFairSpec ==
  /\ RSpec
  /\ WF_rvars(RSlotPasses)
  /\ WF_rvars(RBecomeQuiet)
  /\ \A a \in Anchors : WF_rvars(RRestart(a))

-----------------------------------------------------------------------------
(* Properties.                                                             *)

RTypeOK == rng \in [Anchors -> Rng]

\* The timestamps an anchor holds belong to the packets whose ids it holds: a
\* nonzero reception stamp is that of the last packet recorded, beside that
\* packet's own departure stamp, and the anchor's departure stamp is that of
\* its last packet.  The ids in a packet therefore name what it stamps.
StampsNamePackets ==
  \A a \in Anchors : LET r == rng[a] IN
    /\ r.txTimestamps[a] \in {NoStamp, r.packetIds[a]}
    /\ \A s \in Ids \ {a} :
         /\ r.rxTimestamps[s] \in {NoStamp, r.packetIds[s]}
         /\ r.txTimestamps[s] \in {NoStamp, r.packetIds[s]}
         /\ r.rxTimestamps[s] # NoStamp => r.txTimestamps[s] # NoStamp

\* A distance stands only beside the reception it was computed from: the packet
\* that broadcasts it carries that reception's timestamp too, and an anchor that
\* went missing loses both at once.
DistanceHasReception ==
  \A a \in Anchors : \A s \in Ids \ {a} :
    rng[a].distances[s] # "none" => rng[a].rxTimestamps[s] # NoStamp

\* When the disturbances are over every pair of transmitting anchors ends up with
\* a two-way ranging distance in both directions, frame after frame.
AllPairsRanged ==
  <>[](\A a, s \in Anchors : a # s /\ TxEnabled(a) /\ TxEnabled(s) =>
         rng[a].distances[s] = "tof")

=============================================================================
