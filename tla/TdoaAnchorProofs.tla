-------------------------- MODULE TdoaAnchorProofs --------------------------
(***************************************************************************)
(* Proofs about the anchors, for any number of anchors, slots and ids.     *)
(* First the schedule (TdmaSchedule): the types, the agreement of the slot *)
(* registers with the air, the absence of collisions on one frame, and the *)
(* stability of an aligned network.  Then the ranging (TdoaAnchor): it     *)
(* implements the schedule, and the timestamps in its registers and        *)
(* packets are those of the packets they are filed under.                  *)
(*                                                                         *)
(* A step changes the anchors one by one, so the inductive invariant of    *)
(* the schedule is a statement about one context and the slot on the air.  *)
(***************************************************************************)
EXTENDS TdoaAnchor, TLAPS

Armed(c) == c.radio \in {"rx", "tx"}

\* The inductive invariant of one anchor a whose context is c in slot t.
AnchorInv(a, c, t) ==
  /\ c \in Ctx
  /\ c.nextSlot = Following(c.slot)
  /\ Armed(c) /\ (a = 0 => c.slot # 0) => InSlot(c, t)
  /\ c.radio = "tx" => c.slot = a /\ c.slotState = "txDone"
  /\ c.radio = "rx" => c.slotState = "rxDone" /\ (a = 0 => c.slot # 0)
  /\ c.radio = "tx" => c.state = "synchronized" \/ a = 1
  /\ c.radio = "listen" => c.state = "syncTdma" /\ a # 0
  /\ a = 0 /\ Armed(c) => c.state = "synchronized"
  /\ c.skip => a = 0 /\ c.slot = 0

Inv ==
  /\ ctx \in [Anchors -> Ctx]
  /\ now \in Slots
  /\ quiet \in BOOLEAN
  /\ \A a \in Anchors : AnchorInv(a, ctx[a], now)

-----------------------------------------------------------------------------

LEMMA FollowingInSlots == ASSUME NEW s \in Slots PROVE Following(s) \in Slots
BY ScheduleAssumption DEF Following, Slots

LEMMA NextInSlot ==
  ASSUME NEW c \in Ctx, NEW t \in Slots, InSlot(c, t)
  PROVE  c.frameStart + Following(c.slot) \in {Following(t), Following(t) + ActiveSlots}
<1>1. c.frameStart \in Slots /\ c.slot \in Slots
  BY DEF Ctx
<1> QED BY <1>1, ScheduleAssumption DEF InSlot, Following, Slots

LEMMA SetupRxFields ==
  ASSUME NEW c \in Ctx
  PROVE  LET d == SetupRx(c)
         IN  /\ d \in Ctx
             /\ d.slot = c.nextSlot /\ d.nextSlot = Following(c.nextSlot)
             /\ d.radio = "rx" /\ d.slotState = "rxDone"
             /\ d.state = c.state /\ d.frameStart = c.frameStart /\ d.skip = c.skip
<1>1. Following(c.nextSlot) \in Slots
  BY FollowingInSlots DEF Ctx
<1> QED BY <1>1 DEF SetupRx, UpdateSlot, Ctx, Radios

LEMMA SetupTxFields ==
  ASSUME NEW c \in Ctx
  PROVE  LET d == SetupTx(c)
         IN  /\ d \in Ctx
             /\ d.slot = c.nextSlot /\ d.nextSlot = Following(c.nextSlot)
             /\ d.radio = "tx" /\ d.slotState = "txDone"
             /\ d.state = c.state /\ d.frameStart = c.frameStart /\ d.skip = c.skip
<1>1. Following(c.nextSlot) \in Slots
  BY FollowingInSlots DEF Ctx
<1> QED BY <1>1 DEF SetupTx, UpdateSlot, Ctx, Radios

LEMMA FailedRxFields ==
  ASSUME NEW c \in Ctx
  PROVE  LET d == HandleFailedRx(c)
         IN  /\ d \in Ctx
             /\ d.slot = c.slot /\ d.nextSlot = c.nextSlot /\ d.slotState = c.slotState
             /\ d.frameStart = c.frameStart /\ d.skip = c.skip
             /\ c.slot # 0 => d.state = c.state
<1>1. c.slot0MissCount \in Int /\ c.slot0MissCount >= 0 /\ c.slot0MissCount <= MissThreshold - 1
  BY ScheduleAssumption DEF Ctx
<1>2. CASE c.slot # 0
  BY <1>2 DEF HandleFailedRx
<1>3. CASE c.slot = 0 /\ c.slot0MissCount + 1 >= MissThreshold
  <2>1. 0 \in 0 .. MissThreshold - 1
    BY ScheduleAssumption
  <2> QED BY <1>3, <2>1 DEF HandleFailedRx, Ctx
<1>4. CASE c.slot = 0 /\ ~(c.slot0MissCount + 1 >= MissThreshold)
  <2>1. c.slot0MissCount + 1 \in 0 .. MissThreshold - 1
    BY <1>1, <1>4, ScheduleAssumption
  <2> QED BY <1>4, <2>1 DEF HandleFailedRx, Ctx
<1> QED BY <1>2, <1>3, <1>4

LEMMA RxPacketFields ==
  ASSUME NEW c \in Ctx, NEW src \in Anchors, NEW t \in Slots
  PROVE  LET d == HandleRxPacket(c, src, t)
         IN  /\ d \in Ctx
             /\ d.slot = c.slot /\ d.nextSlot = c.nextSlot /\ d.slotState = c.slotState
             /\ d.skip = c.skip
             /\ d.frameStart = IF src = c.slot /\ src = 0 THEN t ELSE c.frameStart
             /\ c.slot # 0 \/ src = 0 => d.state = c.state
<1>1. CASE src # c.slot
  BY <1>1, FailedRxFields DEF HandleRxPacket
<1>2. CASE src = c.slot /\ src = 0
  <2>1. 0 \in 0 .. MissThreshold - 1
    BY ScheduleAssumption
  <2> QED BY <1>2, <2>1 DEF HandleRxPacket, Ctx
<1>3. CASE src = c.slot /\ src # 0
  BY <1>3 DEF HandleRxPacket
<1> QED BY <1>1, <1>2, <1>3

\* The handler of a slot keeps the invariant, in the slot that follows.
LEMMA SlotStepInv ==
  ASSUME NEW a \in Anchors, NEW c \in Ctx, NEW e \in Events, NEW t \in Slots,
         c.state = "synchronized", InSlot(c, t), ~c.skip,
         c.nextSlot = Following(c.slot),
         c.slotState = "txDone" => c.slot = a,
         c.slotState = "rxDone" /\ a = 0 => c.slot # 0
  PROVE  AnchorInv(a, SlotStep(a, c, e, t), Following(t))
<1> DEFINE d == IF e \in Anchors THEN HandleRxPacket(c, e, t) ELSE HandleFailedRx(c)
           n == Following(c.slot)
<1> USE ScheduleAssumption
<1>0. /\ a \in Nat /\ c.slot \in Slots /\ c.frameStart \in Slots
      /\ c.slotState \in {"rxDone", "txDone"} /\ n \in Slots /\ ~c.skip
  BY FollowingInSlots DEF Ctx, Anchors
<1>1. c.frameStart + n \in {Following(t), Following(t) + ActiveSlots}
  BY NextInSlot
<1>2. CASE c.slotState = "txDone"
  <2>1. a = 0 => n # 0
    BY <1>0, <1>2 DEF Following, Slots
  <2> QED BY <1>0, <1>1, <1>2, <2>1, SetupRxFields DEF AnchorInv, SlotStep, InSlot, Armed
<1>3. CASE c.slotState = "rxDone"
  <2>1. /\ d \in Ctx /\ d.slot = c.slot /\ d.nextSlot = n /\ ~d.skip
        /\ d.state = "synchronized" \/ c.slot = 0
    BY FailedRxFields, RxPacketFields
  <2>2. d.frameStart + n \in {Following(t), Following(t) + ActiveSlots}
    <3>1. CASE d.frameStart = c.frameStart
      BY <3>1, <1>1
    <3>2. CASE d.frameStart # c.frameStart
      <4>1. d.frameStart = t /\ c.slot = 0
        BY <3>2, FailedRxFields, RxPacketFields
      <4> QED BY <4>1, <1>0 DEF Following, Slots
    <3> QED BY <3>1, <3>2
  <2>3. c.slot = 0 => n = 1
    BY DEF Following
  <2>4. CASE TxEnabled(a) /\ d.nextSlot = a
    <3>1. SlotStep(a, c, e, t) = SetupTx(d)
      BY <1>3, <2>4 DEF SlotStep
    <3>2. a = 0 => d.state = "synchronized"
      BY <1>3, <2>1, <1>0
    <3> QED BY <3>1, <3>2, <2>1, <2>2, <2>3, <2>4, SetupTxFields
            DEF AnchorInv, InSlot, Armed
  <2>5. CASE ~(TxEnabled(a) /\ d.nextSlot = a)
    <3>1. SlotStep(a, c, e, t) = SetupRx(d)
      BY <1>3, <2>5 DEF SlotStep
    <3>2. a = 0 => d.state = "synchronized" /\ n # 0
      BY <1>3, <2>1, <1>0, <2>5 DEF TxEnabled
    <3> QED BY <3>1, <3>2, <2>1, <2>2, <2>5, SetupRxFields
            DEF AnchorInv, InSlot, Armed
  <2> QED BY <2>4, <2>5
<1> QED BY <1>0, <1>2, <1>3

\* Opening a frame: the context of the master, whatever the slot on the air.
LEMMA StartMasterInv ==
  ASSUME NEW c \in Ctx, NEW p \in Slots, NEW t \in Slots, c.nextSlot = 0
  PROVE  AnchorInv(0, StartMaster(c, p), t)
<1> DEFINE d == [c EXCEPT !.state = "synchronized", !.frameStart = p, !.skip = TRUE]
<1>1. d \in Ctx /\ d.nextSlot = 0 /\ d.state = "synchronized"
  BY DEF Ctx
<1> QED BY <1>1, SetupTxFields DEF StartMaster, AnchorInv, Armed

LEMMA JoinFrameInv ==
  ASSUME NEW a \in Anchors, a # 0, NEW c \in Ctx, NEW t \in Slots, ~c.skip
  PROVE  AnchorInv(a, JoinFrame(a, c, t), Following(t))
<1> DEFINE d == [c EXCEPT !.slot = 0, !.nextSlot = 1, !.slotState = "rxDone",
                          !.state = "synchronized"]
           r == HandleRxPacket(d, 0, t)
<1> USE ScheduleAssumption
<1>1. /\ d \in Ctx /\ d.slot = 0 /\ d.nextSlot = 1 /\ d.slotState = "rxDone"
      /\ d.state = "synchronized" /\ ~d.skip
  <2>1. 0 \in Slots /\ 1 \in Slots
    BY DEF Slots
  <2>2. d \in Ctx
    BY <2>1 DEF Ctx
  <2> QED BY <2>2 DEF Ctx
<1>2. 0 \in Anchors
  BY DEF Anchors
<1>3. /\ r \in Ctx /\ r.slot = 0 /\ r.nextSlot = 1 /\ ~r.skip
      /\ r.state = "synchronized" /\ r.frameStart = t
  <2> HIDE DEF d
  <2>1. /\ r \in Ctx /\ r.slot = d.slot /\ r.nextSlot = d.nextSlot /\ r.skip = d.skip
        /\ d.slot = 0 => r.frameStart = t
        /\ r.state = d.state
    BY <1>1, <1>2, RxPacketFields
  <2> HIDE DEF r
  <2> QED BY <1>1, <2>1
<1>4. t + 1 \in {Following(t), Following(t) + ActiveSlots} /\ Following(0) = 1
  BY DEF Following, Slots
<1>5. JoinFrame(a, c, t) = IF TxEnabled(a) /\ r.nextSlot = a THEN SetupTx(r) ELSE SetupRx(r)
  BY <1>1, <1>2 DEF JoinFrame, SlotStep
<1>6. CASE TxEnabled(a) /\ r.nextSlot = a
  BY <1>3, <1>4, <1>5, <1>6, SetupTxFields DEF AnchorInv, InSlot, Armed, Following
<1>7. CASE ~(TxEnabled(a) /\ r.nextSlot = a)
  BY <1>3, <1>4, <1>5, <1>7, SetupRxFields DEF AnchorInv, InSlot, Armed, Following
<1> QED BY <1>6, <1>7

LEMMA Tdoa2InitInv ==
  ASSUME NEW c \in Ctx
  PROVE  LET d == Tdoa2Init(c)
         IN  /\ d \in Ctx /\ d.state = "syncTdma" /\ d.nextSlot = 0 /\ ~d.skip
             /\ d.slot = ActiveSlots - 1 /\ d.nextSlot = Following(d.slot)
<1>1. 0 \in Slots /\ ActiveSlots - 1 \in Slots /\ 0 \in 0 .. MissThreshold - 1
  BY ScheduleAssumption DEF Slots
<1>2. Tdoa2Init(c) \in Ctx
  BY <1>1 DEF Tdoa2Init, Ctx
<1>3. Following(ActiveSlots - 1) = 0
  BY ScheduleAssumption DEF Following
<1> QED BY <1>2, <1>3 DEF Tdoa2Init, Ctx

LEMMA ListenInv ==
  ASSUME NEW a \in Anchors, a # 0, NEW c \in Ctx, NEW t \in Slots,
         c.state = "syncTdma", c.nextSlot = Following(c.slot), ~c.skip
  PROVE  AnchorInv(a, ListenForMaster(c), t)
<1>1. ListenForMaster(c) \in Ctx
  BY DEF ListenForMaster, Ctx, Radios
<1> QED BY <1>1 DEF ListenForMaster, AnchorInv, Armed, Ctx

\* A restart may come at any moment of the slot on the air.
LEMMA RestartInv ==
  ASSUME NEW a \in Anchors, NEW c \in Ctx, NEW t \in Slots, NEW p \in Slots
  PROVE  AnchorInv(a, OnEvent(a, Tdoa2Init(c), Timeout, t, p), t)
<1>1. Timeout # 0
  BY DEF Timeout
<1>2. CASE a = 0
  BY <1>2, Tdoa2InitInv, StartMasterInv DEF OnEvent
<1>3. CASE a # 0
  BY <1>1, <1>3, Tdoa2InitInv, ListenInv DEF OnEvent
<1> QED BY <1>2, <1>3

\* An anchor that gets an event ends its slot with it.
LEMMA OnEventInv ==
  ASSUME NEW a \in Anchors, NEW c, NEW e \in Events, NEW t \in Slots,
         AnchorInv(a, c, t),
         c.radio = "listen" \/ (Armed(c) /\ InSlot(c, t) /\ ~c.skip)
  PROVE  AnchorInv(a, OnEvent(a, c, e, t, c.frameStart), Following(t))
<1>0. c \in Ctx /\ c.nextSlot = Following(c.slot) /\ c.state \in {"syncTdma", "synchronized"}
  BY DEF AnchorInv, Ctx
<1>t. Following(t) \in Slots
  BY FollowingInSlots
<1>1. CASE c.state = "synchronized"
  <2>1. Armed(c) /\ InSlot(c, t) /\ ~c.skip
    BY <1>1 DEF AnchorInv
  <2>2. /\ c.slotState = "txDone" => c.slot = a
        /\ c.slotState = "rxDone" /\ a = 0 => c.slot # 0
    BY <2>1 DEF AnchorInv, Armed
  <2> QED BY <1>0, <1>1, <2>1, <2>2, SlotStepInv DEF OnEvent
<1>2. CASE c.state = "syncTdma"
  <2>1. a # 0 /\ ~c.skip
    BY <1>2 DEF AnchorInv
  <2>2. CASE e = 0
    BY <1>0, <1>2, <2>1, <2>2, JoinFrameInv DEF OnEvent
  <2>3. CASE e # 0
    BY <1>0, <1>2, <1>t, <2>1, <2>3, ListenInv DEF OnEvent
  <2> QED BY <2>2, <2>3
<1> QED BY <1>0, <1>1, <1>2

LEMMA AfterSlotInv ==
  ASSUME Inv, NEW a \in Anchors, NEW h \in Anchors \cup {Timeout}
  PROVE  AnchorInv(a, AfterSlot(a, h), Following(now))
<1>0. /\ AnchorInv(a, ctx[a], now) /\ ctx[a] \in Ctx /\ now \in Slots
      /\ h \in Events /\ Sent \in Events
  BY DEF Inv, Events
<1>1. CASE Transmitting(a)
  <2>1. ctx[a].radio = "tx" /\ InSlot(ctx[a], now) /\ ~ctx[a].skip
    BY <1>1 DEF Transmitting, Due
  <2> QED BY <1>0, <1>1, <2>1, OnEventInv DEF AfterSlot, Armed
<1>2. CASE ~Transmitting(a) /\ Receiving(a)
  <2>1. ctx[a].radio = "listen" \/ (Armed(ctx[a]) /\ InSlot(ctx[a], now) /\ ~ctx[a].skip)
    BY <1>2 DEF Receiving, Due, Armed
  <2> QED BY <1>0, <1>2, <2>1, OnEventInv DEF AfterSlot
<1>3. CASE ~Transmitting(a) /\ ~Receiving(a)
  <2> DEFINE d == [ctx[a] EXCEPT !.skip = @ /\ ~InSlot(ctx[a], now)]
  <2>1. AfterSlot(a, h) = d
    BY <1>3 DEF AfterSlot
  <2>2. ctx[a].radio # "listen" /\ (Armed(ctx[a]) => a = 0 /\ ctx[a].slot = 0)
    BY <1>0, <1>3 DEF Transmitting, Receiving, Due, Armed, AnchorInv
  <2>3. d \in Ctx
    BY <1>0 DEF Ctx
  <2>4. /\ d.state = ctx[a].state /\ d.slotState = ctx[a].slotState
        /\ d.slot = ctx[a].slot /\ d.nextSlot = ctx[a].nextSlot
        /\ d.radio = ctx[a].radio /\ (d.skip => ctx[a].skip)
    BY <1>0 DEF Ctx
  <2> QED BY <1>0, <2>1, <2>2, <2>3, <2>4 DEF AnchorInv, Armed
<1> QED BY <1>1, <1>2, <1>3

-----------------------------------------------------------------------------

LEMMA InitInv == Init => Inv
<1> SUFFICES ASSUME Init PROVE Inv
  OBVIOUS
<1>1. 0 \in Slots /\ ActiveSlots - 1 \in Slots /\ 0 \in 0 .. MissThreshold - 1
  BY ScheduleAssumption DEF Slots
<1>2. Following(ActiveSlots - 1) = 0
  BY ScheduleAssumption DEF Following
<1>3. ASSUME NEW a \in Anchors PROVE AnchorInv(a, ctx[a], now)
  <2>1. ctx[a] \in Ctx
    BY <1>1 DEF Init, Ctx, Radios
  <2> QED BY <1>2, <2>1 DEF Init, AnchorInv, Armed
<1>4. ctx \in [Anchors -> Ctx]
  BY <1>3 DEF Init, AnchorInv
<1> QED BY <1>1, <1>3, <1>4 DEF Init, Inv

\* A step that gives one anchor a new context keeps the others as they are.
LEMMA OneAnchorInv ==
  ASSUME Inv, NEW a \in Anchors, NEW d,
         ctx' = [ctx EXCEPT ![a] = d], UNCHANGED <<now, quiet>>, AnchorInv(a, d, now)
  PROVE  Inv'
<1>1. d \in Ctx
  BY DEF AnchorInv
<1>2. ctx' \in [Anchors -> Ctx]
  BY <1>1 DEF Inv
<1>3. ASSUME NEW b \in Anchors PROVE AnchorInv(b, ctx'[b], now')
  BY DEF Inv
<1> QED BY <1>2, <1>3 DEF Inv

LEMMA NextInv == Inv /\ [Next]_vars => Inv'
<1> SUFFICES ASSUME Inv, [Next]_vars PROVE Inv'
  OBVIOUS
<1>0. now \in Slots /\ \A a \in Anchors : ctx[a] \in Ctx /\ AnchorInv(a, ctx[a], now)
  BY DEF Inv
<1>1. CASE SlotPasses
  <2>1. PICK heard \in [Anchors -> Senders \cup {Timeout}] : SlotEnds(heard)
    BY <1>1 DEF SlotPasses
  <2>2. ASSUME NEW a \in Anchors
        PROVE  ctx'[a] = AfterSlot(a, heard[a]) /\ AnchorInv(a, AfterSlot(a, heard[a]), now')
    <3>1. heard[a] \in Anchors \cup {Timeout}
      BY DEF Senders
    <3> QED BY <2>1, <3>1, AfterSlotInv DEF SlotEnds
  <2>3. ctx' \in [Anchors -> Ctx]
    BY <2>1, <2>2 DEF SlotEnds, AnchorInv
  <2>4. now' \in Slots /\ quiet' = quiet
    BY <1>0, <2>1, FollowingInSlots DEF SlotEnds
  <2> QED BY <2>2, <2>3, <2>4 DEF Inv
<1>2. ASSUME NEW a \in Anchors, Start(a) \/ CheckStallWatchdog(a) PROVE Inv'
  <2>1. PICK p \in Slots : ctx' = [ctx EXCEPT ![a] = Restarted(a, p)]
    BY <1>2 DEF Start, CheckStallWatchdog
  <2>2. AnchorInv(a, Restarted(a, p), now)
    BY <1>0, RestartInv DEF Restarted
  <2> QED BY <1>2, <2>1, <2>2, OneAnchorInv DEF Start, CheckStallWatchdog
<1>3. ASSUME NEW a \in Anchors, SuspendRadio(a) \/ MissDeadline(a) PROVE Inv'
  <2>1. PICK r \in {"off", "dead"} : ctx' = [ctx EXCEPT ![a].radio = r]
    BY <1>3 DEF SuspendRadio, MissDeadline
  <2> DEFINE d == [ctx[a] EXCEPT !.radio = r]
  <2>2. d \in Ctx
    BY <1>0 DEF Ctx, Radios
  <2>3. AnchorInv(a, d, now)
    BY <1>0, <2>2 DEF AnchorInv, Armed, Ctx
  <2>4. ctx' = [ctx EXCEPT ![a] = d]
    BY <2>1
  <2> HIDE DEF d
  <2> QED BY <1>3, <2>3, <2>4, OneAnchorInv DEF SuspendRadio, MissDeadline
<1>4. CASE BecomeQuiet
  BY <1>4 DEF BecomeQuiet, Inv
<1>5. CASE UNCHANGED vars
  BY <1>5 DEF vars, Inv
<1> QED BY <1>1, <1>2, <1>3, <1>4, <1>5 DEF Next

THEOREM Invariance == Spec => []Inv
BY InitInv, NextInv, PTL DEF Spec

\* The registers of every anchor keep to their types (ctx_s in tdoa_anchor.cpp).
THEOREM TypeCorrect == Spec => []TypeOK
<1>1. Inv => TypeOK
  BY DEF Inv, TypeOK
<1> QED BY <1>1, Invariance, PTL

\* No sequence of lost packets, joins, restarts and late commands leaves an armed
\* anchor in another slot than the one its frame start says is on the air.
THEOREM SlotRegistersInStep == Spec => []InStep
<1>1. Inv => InStep
  BY DEF Inv, InStep, AnchorInv, Armed
<1> QED BY <1>1, Invariance, PTL

\* Two anchors on one frame never transmit in the same slot, for any number of
\* anchors and slots.
THEOREM CollisionFree == Spec => []NoCollision
<1>1. ASSUME Inv PROVE NoCollision
  <2> SUFFICES ASSUME NEW a \in Anchors, NEW b \in Anchors,
                      Transmitting(a), Transmitting(b),
                      ctx[a].frameStart = ctx[b].frameStart
               PROVE  a = b
    BY DEF NoCollision
  <2>1. /\ ctx[a].slot = a /\ ctx[b].slot = b
        /\ InSlot(ctx[a], now) /\ InSlot(ctx[b], now)
    BY <1>1 DEF Inv, AnchorInv, Transmitting, Due
  <2>2. ctx[a].slot \in Slots /\ ctx[b].slot \in Slots /\ ctx[a].frameStart \in Slots
    BY <1>1 DEF Inv, Ctx
  <2> QED BY <2>1, <2>2, ScheduleAssumption DEF InSlot, Slots
<1> QED BY <1>1, Invariance, PTL

\* Anchor 1 is the only one that ever transmits after it has given the frame up.
THEOREM TransmittersInSync == Spec => []TransmitsInSync
<1>1. Inv => TransmitsInSync
  BY DEF Inv, TransmitsInSync, AnchorInv, Transmitting
<1> QED BY <1>1, Invariance, PTL

-----------------------------------------------------------------------------
(* A network that is aligned stays aligned while nothing disturbs it.      *)

\* On one frame, all anchors are in the same slot.
LEMMA LockedSameSlot ==
  ASSUME Inv, Locked, NEW a \in Anchors, NEW b \in Anchors
  PROVE  ctx[a].slot = ctx[b].slot
<1>1. /\ ctx[a].slot \in Slots /\ ctx[b].slot \in Slots
      /\ ctx[0].frameStart \in Slots /\ now \in Slots
  BY ScheduleAssumption DEF Inv, Ctx, Anchors
<1>2. /\ ctx[a].frameStart = ctx[0].frameStart /\ ctx[b].frameStart = ctx[0].frameStart
      /\ InSlot(ctx[a], now) /\ InSlot(ctx[b], now)
  BY DEF Locked
<1>3. \A f, s, u, t \in Slots :
        f + s \in {t, t + ActiveSlots} /\ f + u \in {t, t + ActiveSlots} => s = u
  BY ScheduleAssumption DEF Slots
<1> QED BY <1>1, <1>2, <1>3 DEF InSlot

\* The slot's owner is then the only sender, and it is heard by everyone.
LEMMA LockedSenders ==
  ASSUME Inv, Locked, quiet, NEW heard, SlotEnds(heard), NEW a \in Anchors,
         ctx[a].slot = 0
  PROVE  heard[a] = 0
<1>1. 0 \in Anchors
  BY ScheduleAssumption DEF Anchors
<1>2. ASSUME NEW b \in Anchors PROVE Transmitting(b) <=> b = 0
  <2>1. ctx[b].slot = 0
    BY LockedSameSlot
  <2>2. Transmitting(b) <=> ctx[b].radio = "tx"
    BY DEF Transmitting, Due, Locked
  <2> QED BY <2>1, <2>2 DEF Locked
<1>3. Senders = {0}
  BY <1>1, <1>2 DEF Senders
<1> QED BY <1>1, <1>3 DEF SlotEnds, Hearable

LEMMA LockedSlot ==
  ASSUME Inv, Locked, quiet, NEW heard \in [Anchors -> Senders \cup {Timeout}],
         SlotEnds(heard), NEW a \in Anchors
  PROVE  LET d == AfterSlot(a, heard[a])
         IN  /\ d \in Ctx /\ d.state = "synchronized" /\ d.radio \in {"rx", "tx"}
             /\ d.frameStart = ctx[0].frameStart /\ InSlot(d, Following(now)) /\ ~d.skip
             /\ d.radio = "tx" <=> d.slot = a
<1> DEFINE c == ctx[a]
           h == heard[a]
           e == IF Transmitting(a) THEN Sent ELSE h
           r == IF e \in Anchors THEN HandleRxPacket(c, e, now) ELSE HandleFailedRx(c)
<1>0. /\ c \in Ctx /\ c.slot \in Slots /\ c.frameStart \in Slots /\ now \in Slots
      /\ AnchorInv(a, c, now) /\ c.nextSlot = Following(c.slot) /\ a \in Nat
  BY DEF Inv, Ctx, AnchorInv, Anchors
<1>1. /\ c.state = "synchronized" /\ Armed(c) /\ c.frameStart = ctx[0].frameStart
      /\ InSlot(c, now) /\ ~c.skip /\ (c.radio = "tx" <=> c.slot = a)
  BY DEF Locked, Armed
<1>2. c.frameStart + Following(c.slot) \in {Following(now), Following(now) + ActiveSlots}
  BY <1>0, <1>1, NextInSlot
<1>3. AfterSlot(a, h) = SlotStep(a, c, e, now)
  BY <1>1 DEF AfterSlot, OnEvent, Transmitting, Receiving, Due, Armed
<1>4. CASE c.radio = "tx"
  <2>1. SlotStep(a, c, e, now) = SetupRx(c)
    BY <1>0, <1>4 DEF SlotStep, AnchorInv
  <2>2. Following(c.slot) # a
    BY <1>0, <1>1, <1>4, ScheduleAssumption DEF Following, Slots
  <2> QED BY <1>0, <1>1, <1>2, <1>3, <2>1, <2>2, SetupRxFields DEF InSlot
<1>5. CASE c.radio = "rx"
  <2>1. e = h /\ h \in Anchors \cup {Timeout} /\ c.slotState = "rxDone"
    BY <1>0, <1>5 DEF Transmitting, Senders, AnchorInv
  <2>2. c.slot = 0 => e = 0 /\ e \in Anchors
    BY <2>1, LockedSenders, ScheduleAssumption DEF Anchors
  <2>3. /\ r \in Ctx /\ r.slot = c.slot /\ r.nextSlot = Following(c.slot)
        /\ r.skip = c.skip /\ r.state = "synchronized"
    <3>1. CASE e \in Anchors
      <4>1. r = HandleRxPacket(c, e, now)
        BY <3>1
      <4>2. /\ c \in Ctx /\ now \in Slots /\ (c.slot = 0 => e = 0)
            /\ c.nextSlot = Following(c.slot) /\ c.state = "synchronized"
        BY <1>0, <1>1, <2>2
      <4> HIDE DEF e, r, c
      <4>3. /\ r \in Ctx /\ r.slot = c.slot /\ r.nextSlot = c.nextSlot /\ r.skip = c.skip
            /\ c.slot # 0 \/ e = 0 => r.state = c.state
        BY <3>1, <4>1, <4>2, RxPacketFields
      <4> QED BY <4>2, <4>3
    <3>2. CASE e \notin Anchors
      <4>1. r = HandleFailedRx(c)
        BY <3>2
      <4> HIDE DEF e, r
      <4> QED BY <1>0, <1>1, <2>2, <3>2, <4>1, FailedRxFields
    <3> QED BY <3>1, <3>2
  <2>4. r.frameStart = c.frameStart
    <3>1. CASE c.slot = 0
      <4>1. c.frameStart = now
        BY <1>0, <1>1, <3>1, ScheduleAssumption DEF InSlot, Slots
      <4> QED BY <1>0, <2>2, <3>1, <4>1, RxPacketFields
    <3>2. CASE c.slot # 0
      <4>1. CASE e \in Anchors
        <5>1. r = HandleRxPacket(c, e, now)
          BY <4>1
        <5>2. HandleRxPacket(c, e, now).frameStart
                = IF e = c.slot /\ e = 0 THEN now ELSE c.frameStart
          <6> HIDE DEF e, c
          <6> QED BY <1>0, <4>1, RxPacketFields
        <5> QED BY <3>2, <5>1, <5>2
      <4>2. CASE e \notin Anchors
        <5>1. r = HandleFailedRx(c)
          BY <4>2
        <5> HIDE DEF e, r
        <5> QED BY <1>0, <5>1, FailedRxFields
      <4> QED BY <4>1, <4>2
    <3> QED BY <3>1, <3>2
  <2>5. SlotStep(a, c, e, now) = IF TxEnabled(a) /\ r.nextSlot = a THEN SetupTx(r) ELSE SetupRx(r)
    BY <2>1 DEF SlotStep
  <2>6. r.nextSlot = a => TxEnabled(a)
    BY <1>0, <2>3, FollowingInSlots, ScheduleAssumption DEF TxEnabled, Slots
  <2>7. CASE r.nextSlot = a
    BY <1>1, <1>2, <1>3, <2>3, <2>4, <2>5, <2>6, <2>7, SetupTxFields DEF InSlot
  <2>8. CASE r.nextSlot # a
    BY <1>1, <1>2, <1>3, <2>3, <2>4, <2>5, <2>8, SetupRxFields DEF InSlot
  <2> QED BY <2>7, <2>8
<1> QED BY <1>1, <1>4, <1>5 DEF Armed

\* Without loss or restart a frame never collides, never misses slot 0 and never
\* drops an anchor: only a disturbance can break an aligned network.
THEOREM AlignedStaysAligned == Spec => LockIsStable
<1>1. ASSUME Inv, [Next]_vars, quiet, Locked PROVE Locked'
  <2>1. CASE SlotPasses
    <3>1. PICK heard \in [Anchors -> Senders \cup {Timeout}] : SlotEnds(heard)
      BY <2>1 DEF SlotPasses
    <3>2. ASSUME NEW a \in Anchors PROVE ctx'[a] = AfterSlot(a, heard[a])
      BY <3>1 DEF SlotEnds
    <3>3. 0 \in Anchors /\ now' = Following(now)
      BY <3>1, ScheduleAssumption DEF Anchors, SlotEnds
    <3> QED BY <1>1, <3>1, <3>2, <3>3, LockedSlot DEF Locked, InSlot
  <2>2. ASSUME NEW a \in Anchors
        PROVE  ~Start(a) /\ ~CheckStallWatchdog(a) /\ ~SuspendRadio(a) /\ ~MissDeadline(a)
    BY <1>1 DEF Locked, Start, CheckStallWatchdog, SuspendRadio, MissDeadline
  <2>3. ~BecomeQuiet
    BY <1>1 DEF BecomeQuiet
  <2>4. CASE UNCHANGED vars
    BY <1>1, <2>4 DEF vars, Locked, InSlot
  <2> QED BY <1>1, <2>1, <2>2, <2>3, <2>4 DEF Next
<1>2. Inv /\ [Next]_vars => [quiet /\ Locked => Locked']_vars
  BY <1>1
<1> QED BY <1>2, Invariance, PTL DEF Spec, LockIsStable

-----------------------------------------------------------------------------
(* The ranging.                                                            *)

\* What the ranging registers r of anchor a satisfy on their own.
RngInv(a, r) ==
  /\ r \in Rng
  /\ r.txTimestamps[a] \in {NoStamp, r.packetIds[a]}
  /\ \A s \in Ids \ {a} :
       /\ r.rxTimestamps[s] \in {NoStamp, r.packetIds[s]}
       /\ r.txTimestamps[s] \in {NoStamp, r.packetIds[s]}
       /\ r.rxTimestamps[s] # NoStamp => r.txTimestamps[s] # NoStamp
       /\ r.distances[s] # "none" => r.rxTimestamps[s] # NoStamp

RInv ==
  /\ rng \in [Anchors -> Rng]
  /\ \A a \in Anchors :
       /\ RngInv(a, rng[a])
       /\ ctx[a].radio = "tx" => rng[a].txTimestamps[a] # NoStamp

\* The ranging registers follow the schedule and never steer it.
THEOREM ImplementsSchedule == RSpec => Spec
<1>1. RInit => Init
  BY DEF RInit
<1>2. [RNext]_rvars => [Next]_vars
  BY DEF RNext, Next, RSlotPasses, RSlotEnds, SlotPasses, RRestart, RDisturb, RBecomeQuiet,
         rvars, vars
<1> QED BY <1>1, <1>2, PTL DEF RSpec, Spec

-----------------------------------------------------------------------------

LEMMA NoStampIsNoPid == NoStamp \notin Pids
BY DEF NoStamp, Pids

LEMMA ClearedInv == ASSUME NEW a \in Anchors PROVE RngInv(a, Cleared)
<1>1. 0 \in Pids
  BY PidAssumption DEF Pids
<1>2. Cleared \in Rng
  BY <1>1 DEF Cleared, Rng, Stamps, Distances
<1> QED BY <1>2 DEF Cleared, RngInv, Ids

LEMMA StampTxInv ==
  ASSUME NEW a \in Anchors, NEW r, RngInv(a, r)
  PROVE  RngInv(a, StampTx(r, a)) /\ StampTx(r, a).txTimestamps[a] # NoStamp
<1>0. r \in Rng /\ a \in Ids
  BY DEF RngInv, Ids
<1>1. r.pid \in Pids /\ (r.pid + 1) % PidMod \in Pids
  BY <1>0, PidAssumption DEF Rng, Pids
<1>2. StampTx(r, a) \in Rng
  BY <1>0, <1>1 DEF StampTx, Rng, Stamps
<1>3. /\ StampTx(r, a).txTimestamps[a] = r.pid
      /\ StampTx(r, a).packetIds[a] = r.pid
  BY <1>0 DEF StampTx, Rng
<1>4. ASSUME NEW s \in Ids \ {a}
      PROVE  /\ StampTx(r, a).txTimestamps[s] = r.txTimestamps[s]
             /\ StampTx(r, a).packetIds[s] = r.packetIds[s]
             /\ StampTx(r, a).rxTimestamps[s] = r.rxTimestamps[s]
             /\ StampTx(r, a).distances[s] = r.distances[s]
  BY <1>0 DEF StampTx, Rng
<1> QED BY <1>1, <1>2, <1>3, <1>4, NoStampIsNoPid DEF RngInv

LEMMA RecordFailureInv ==
  ASSUME NEW a \in Anchors, NEW r, RngInv(a, r), NEW s \in Ids
  PROVE  /\ RngInv(a, RecordFailure(r, s))
         /\ RecordFailure(r, s).txTimestamps = r.txTimestamps
<1> DEFINE q == RecordFailure(r, s)
<1>0. r \in Rng
  BY DEF RngInv
<1>1. q \in Rng
  BY <1>0 DEF RecordFailure, Rng, Stamps, Distances
<1>2. q.txTimestamps = r.txTimestamps /\ q.packetIds = r.packetIds
  BY <1>0 DEF RecordFailure, Rng
<1>3. ASSUME NEW x \in Ids
      PROVE  /\ q.rxTimestamps[x] = IF x = s THEN NoStamp ELSE r.rxTimestamps[x]
             /\ q.distances[x] = IF x = s THEN "none" ELSE r.distances[x]
  BY <1>0 DEF RecordFailure, Rng
<1> HIDE DEF q
<1> QED BY <1>1, <1>2, <1>3 DEF RngInv, q

LEMMA RecordPacketInv ==
  ASSUME NEW a \in Anchors, NEW r, RngInv(a, r), NEW s \in Ids \ {a}, NEW p,
         p.pid[s] \in Pids, p.stamps[s] = p.pid[s]
  PROVE  /\ RngInv(a, RecordPacket(r, a, s, p))
         /\ RecordPacket(r, a, s, p).txTimestamps[a] = r.txTimestamps[a]
<1> DEFINE q == RecordPacket(r, a, s, p)
<1>0. r \in Rng /\ a \in Ids
  BY DEF RngInv, Ids
<1>d. CalculateDistance(r, a, s, p) \in Distances
  BY DEF CalculateDistance, Distances
<1>1. q \in Rng
  BY <1>0, <1>d DEF RecordPacket, Rng, Stamps
<1>2. ASSUME NEW x \in Ids
      PROVE  /\ q.rxTimestamps[x] = IF x = s THEN p.pid[s] ELSE r.rxTimestamps[x]
             /\ q.txTimestamps[x] = IF x = s THEN p.pid[s] ELSE r.txTimestamps[x]
             /\ q.packetIds[x] = IF x = s THEN p.pid[s] ELSE r.packetIds[x]
             /\ x # s => q.distances[x] = r.distances[x]
  BY <1>0 DEF RecordPacket, Rng
<1> HIDE DEF q
<1>3. RngInv(a, q)
  BY <1>0, <1>1, <1>2, NoStampIsNoPid DEF RngInv
<1> QED BY <1>0, <1>2, <1>3 DEF q

\* A packet on the air carries its departure stamp under its own id.
LEMMA PacketStamp ==
  ASSUME RInv, NEW b \in Anchors, Transmitting(b)
  PROVE  Packet(b).pid[b] \in Pids /\ Packet(b).stamps[b] = Packet(b).pid[b]
<1>1. rng[b] \in Rng /\ b \in Ids
  BY DEF RInv, Ids
<1>2. rng[b].txTimestamps[b] = rng[b].packetIds[b]
  BY DEF RInv, RngInv, Transmitting
<1>3. rng[b].packetIds[b] \in Pids
  BY <1>1 DEF Rng
<1> QED BY <1>1, <1>2, <1>3 DEF Packet, Rng

LEMMA AfterRxInv ==
  ASSUME Inv, RInv, NEW a \in Anchors, NEW h \in Senders \cup {Timeout}
  PROVE  /\ RngInv(a, AfterRx(a, h))
         /\ AfterRx(a, h).txTimestamps[a] = rng[a].txTimestamps[a]
<1>0. RngInv(a, rng[a])
  BY DEF RInv
<1>1. CASE ClosedSlots(a, h) = {}
  BY <1>0, <1>1 DEF AfterRx
<1>2. CASE ClosedSlots(a, h) # {}
  <2>1. PICK s \in Slots : ClosedSlots(a, h) = {s}
    <3>1. ctx[a].slot \in Slots /\ 0 \in Slots
      BY ScheduleAssumption DEF Inv, Ctx, Slots
    <3> QED BY <1>2, <3>1 DEF ClosedSlots
  <2>2. AfterRx(a, h) = IF h = s THEN RecordPacket(rng[a], a, s, Packet(s))
                        ELSE RecordFailure(rng[a], s)
    BY <2>1 DEF AfterRx
  <2>3. s \in Ids
    BY DEF Ids
  <2>4. CASE h = s
    <3>1. s \in Anchors /\ Transmitting(s)
      BY <2>4, ScheduleAssumption DEF Senders, Timeout, Slots
    <3>2. s # a
      BY <1>2, <3>1 DEF ClosedSlots, Receiving, Transmitting
    <3> QED BY <1>0, <2>2, <2>3, <2>4, <3>1, <3>2, PacketStamp, RecordPacketInv
  <2>5. CASE h # s
    BY <1>0, <2>2, <2>3, <2>5, RecordFailureInv
  <2> QED BY <2>4, <2>5
<1> QED BY <1>1, <1>2

\* After a slot in which a does not arm a transmission, a radio armed for TX is
\* one that was armed before.
LEMMA StillArmed ==
  ASSUME NEW a \in Anchors, NEW h, AfterSlot(a, h).radio = "tx",
         ~(Receiving(a) \/ Transmitting(a)), ctx[a] \in Ctx
  PROVE  ctx[a].radio = "tx"
BY DEF AfterSlot, Ctx

LEMMA RNextInv == Inv /\ RInv /\ [RNext]_rvars => RInv'
<1> SUFFICES ASSUME Inv, RInv, [RNext]_rvars PROVE RInv'
  OBVIOUS
<1>0. \A a \in Anchors : RngInv(a, rng[a]) /\ ctx[a] \in Ctx
  BY DEF RInv, Inv
<1>1. CASE RSlotPasses
  <2>1. PICK heard \in [Anchors -> Senders \cup {Timeout}] : RSlotEnds(heard)
    BY <1>1 DEF RSlotPasses
  <2>2. ASSUME NEW a \in Anchors
        PROVE  /\ rng'[a] = RangingAfterSlot(a, heard[a])
               /\ RngInv(a, rng'[a])
               /\ ctx'[a].radio = "tx" => rng'[a].txTimestamps[a] # NoStamp
    <3> DEFINE h == heard[a]
    <3>1. rng'[a] = RangingAfterSlot(a, h) /\ ctx'[a] = AfterSlot(a, h)
      BY <2>1 DEF RSlotEnds, SlotEnds
    <3>2. RngInv(a, AfterRx(a, h)) /\ AfterRx(a, h).txTimestamps[a] = rng[a].txTimestamps[a]
      BY AfterRxInv
    <3>3. CASE (Receiving(a) \/ Transmitting(a)) /\ AfterSlot(a, h).radio = "tx"
      <4>1. rng'[a] = StampTx(AfterRx(a, h), a)
        BY <3>1, <3>3 DEF RangingAfterSlot
      <4> HIDE DEF h
      <4> QED BY <3>1, <3>2, <4>1, StampTxInv DEF h
    <3>4. CASE ~((Receiving(a) \/ Transmitting(a)) /\ AfterSlot(a, h).radio = "tx")
      <4>1. rng'[a] = AfterRx(a, h)
        BY <3>1, <3>4 DEF RangingAfterSlot
      <4>2. ctx'[a].radio = "tx" => ctx[a].radio = "tx"
        BY <1>0, <3>1, <3>4, StillArmed
      <4> QED BY <3>1, <3>2, <4>1, <4>2 DEF RInv
    <3> QED BY <3>1, <3>3, <3>4
  <2>3. rng' \in [Anchors -> Rng]
    BY <2>1, <2>2 DEF RSlotEnds, RngInv
  <2> QED BY <2>2, <2>3 DEF RInv
<1>2. ASSUME NEW a \in Anchors, RRestart(a) PROVE RInv'
  <2> DEFINE q == RangingAfterRestart(a)
  <2>1. PICK p \in Slots : ctx' = [ctx EXCEPT ![a] = Restarted(a, p)]
    BY <1>2 DEF RRestart, Start, CheckStallWatchdog
  <2>2. /\ RngInv(a, q)
        /\ a = 0 => q.txTimestamps[a] # NoStamp
    BY ClearedInv, StampTxInv DEF RangingAfterRestart
  <2>3. a # 0 => Restarted(a, p).radio = "listen"
    <3>1. Tdoa2Init(ctx[a]) \in Ctx /\ Tdoa2Init(ctx[a]).state = "syncTdma"
      BY <1>0, Tdoa2InitInv
    <3> QED BY <3>1 DEF Restarted, OnEvent, ListenForMaster, Timeout, Ctx
  <2>4. rng' = [rng EXCEPT ![a] = q] /\ ctx' = [ctx EXCEPT ![a] = Restarted(a, p)]
    BY <1>2, <2>1 DEF RRestart
  <2>5. q \in Rng
    BY <2>2 DEF RngInv
  <2> HIDE DEF q
  <2>6. rng' \in [Anchors -> Rng]
    BY <2>4, <2>5 DEF RInv
  <2>7. ASSUME NEW b \in Anchors
        PROVE  RngInv(b, rng'[b]) /\ (ctx'[b].radio = "tx" => rng'[b].txTimestamps[b] # NoStamp)
    BY <2>2, <2>3, <2>4 DEF RInv, Inv
  <2> QED BY <2>6, <2>7 DEF RInv
<1>3. ASSUME NEW a \in Anchors, RDisturb(a) PROVE RInv'
  <2>1. PICK r \in {"off", "dead"} : ctx' = [ctx EXCEPT ![a].radio = r] /\ rng' = rng
    BY <1>3 DEF RDisturb, SuspendRadio, MissDeadline
  <2>2. ASSUME NEW b \in Anchors PROVE ctx'[b].radio = "tx" => ctx[b].radio = "tx"
    BY <1>0, <2>1 DEF Inv, Ctx
  <2> QED BY <2>1, <2>2 DEF RInv
<1>4. CASE RBecomeQuiet \/ UNCHANGED rvars
  BY <1>4 DEF RBecomeQuiet, BecomeQuiet, rvars, RInv
<1> QED BY <1>1, <1>2, <1>3, <1>4 DEF RNext

THEOREM RInvariance == RSpec => []RInv
<1>1. RInit => RInv
  BY ClearedInv DEF RInit, Init, RInv, RngInv
<1> QED BY <1>1, RNextInv, ImplementsSchedule, Invariance, PTL DEF RSpec

\* The registers of the exchange keep to their types, pid wrap included.
THEOREM RTypeCorrect == RSpec => []RTypeOK
<1>1. RInv => RTypeOK
  BY DEF RInv, RTypeOK
<1> QED BY <1>1, RInvariance, PTL

\* Whatever is lost, joined or restarted, an anchor never files or broadcasts a
\* timestamp under the id of another packet.
THEOREM StampsAreOfTheirPackets == RSpec => []StampsNamePackets
<1>1. RInv => StampsNamePackets
  BY DEF RInv, RngInv, StampsNamePackets
<1> QED BY <1>1, RInvariance, PTL

\* A distance that stands is one of a reception that stands.
THEOREM DistancesHaveReceptions == RSpec => []DistanceHasReception
<1>1. RInv => DistanceHasReception
  BY DEF RInv, RngInv, DistanceHasReception
<1> QED BY <1>1, RInvariance, PTL
=============================================================================
