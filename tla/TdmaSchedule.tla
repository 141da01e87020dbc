---------------------------- MODULE TdmaSchedule ----------------------------
(***************************************************************************)
(* The TDMA schedule of the TDoA anchors (tdoa_anchor.cpp): every anchor   *)
(* runs the same event-driven state machine on its own DW1000 radio, and   *)
(* the machines meet only on the air.  Anchor 0 is the master: it opens a  *)
(* frame of ActiveSlots slots, and anchor n transmits in slot n.  The      *)
(* others find the frame by hearing anchor 0, and give it up after         *)
(* MissThreshold frames in a row without it.                               *)
(*                                                                         *)
(* Time is counted in slots, modulo one frame.  ctx[a].frameStart is the   *)
(* phase of tdmaFrameStart in that frame: adding frameLen to it leaves the *)
(* phase as it is.  The packets' contents are added by TdoaAnchor.         *)
(***************************************************************************)
EXTENDS Integers

CONSTANTS
  AnchorCount,    \* anchors that are powered, with ids 0 .. AnchorCount-1
  ActiveSlots,    \* ctx.activeSlots; an anchor with a larger id only listens
  MissThreshold,  \* kSlot0MissThreshold
  Disturbed       \* bound: the anchors whose radio may be suspended or stall

ASSUME ScheduleAssumption ==
  /\ AnchorCount \in Nat \ {0}
  /\ ActiveSlots \in Nat /\ ActiveSlots >= 2
  /\ MissThreshold \in Nat \ {0}
  /\ Disturbed \subseteq 0 .. AnchorCount - 1

VARIABLES
  ctx,     \* the algorithm's context and the radio's state, per anchor
  now,     \* the slot in progress on the air, modulo one frame
  quiet    \* the disturbances have ended: nothing is lost or reset any more

vars == <<ctx, now, quiet>>

Anchors == 0 .. AnchorCount - 1
Slots == 0 .. ActiveSlots - 1
TxEnabled(a) == a < ActiveSlots

\* What the radio of an anchor is doing.  A delayed TX or RX ends with one
\* event at the end of its slot.  A "dead" radio was armed too late: the
\* DW1000 drops the command and raises no interrupt.
Radios == {"off", "rx", "tx", "listen", "dead"}

Ctx == [state : {"syncTdma", "synchronized"},
        slotState : {"rxDone", "txDone"},
        slot : Slots, nextSlot : Slots,
        slot0MissCount : 0 .. MissThreshold - 1,
        frameStart : Slots,
        radio : Radios,
        skip : BOOLEAN]    \* the armed TX is a whole frame further away

\* An event is the sender of a received packet, or one of these.  A timeout
\* stands for a failed or foreign reception too: they differ in the counters
\* of the statistics only.
Sent == -1
Timeout == -2
Events == Anchors \cup {Sent, Timeout}

Following(s) == IF s + 1 >= ActiveSlots THEN 0 ELSE s + 1

-----------------------------------------------------------------------------
(* The handlers, as functions of the context.                              *)

\* Seeded fault: the wrap of nextSlot tests > instead of >=.
LateWrapUpdateSlot(c) ==
  [c EXCEPT !.slot = c.nextSlot,
            !.nextSlot = IF @ + 1 > ActiveSlots THEN 0 ELSE @ + 1]

UpdateSlot(c) == [c EXCEPT !.slot = c.nextSlot, !.nextSlot = Following(c.nextSlot)]

SetupRx(c) == UpdateSlot([c EXCEPT !.radio = "rx", !.slotState = "rxDone"])

SetupTx(c) == UpdateSlot([c EXCEPT !.radio = "tx", !.slotState = "txDone"])

ListenForMaster(c) == [c EXCEPT !.radio = "listen"]

\* Seeded faults: the count is not compared with its threshold; it saturates without
\* ending the synchronisation.
UncheckedFailedRx(c) ==
  IF c.slot # 0 THEN c ELSE [c EXCEPT !.slot0MissCount = @ + 1]

SaturatingFailedRx(c) ==
  IF c.slot # 0 \/ c.slot0MissCount + 1 >= MissThreshold THEN c
  ELSE [c EXCEPT !.slot0MissCount = @ + 1]

HandleFailedRx(c) ==
  IF c.slot # 0 THEN c
  ELSE IF c.slot0MissCount + 1 >= MissThreshold
       THEN [c EXCEPT !.state = "syncTdma", !.slot0MissCount = 0]
       ELSE [c EXCEPT !.slot0MissCount = @ + 1]

HandleRxPacket(c, src, t) ==
  IF src # c.slot THEN HandleFailedRx(c)
  ELSE IF src = 0 THEN [c EXCEPT !.slot0MissCount = 0, !.frameStart = t]
  ELSE c

\* Seeded fault: the turn to transmit is read from slot and not from nextSlot.
LateTurnSlotStep(a, c, e, t) ==
  IF c.slotState = "txDone" THEN SetupRx(c)
  ELSE LET d == IF e \in Anchors THEN HandleRxPacket(c, e, t) ELSE HandleFailedRx(c)
       IN  IF TxEnabled(a) /\ d.slot = a THEN SetupTx(d) ELSE SetupRx(d)

\* The event of the slot that ends, then the command for the next slot.
SlotStep(a, c, e, t) ==
  IF c.slotState = "txDone" THEN SetupRx(c)
  ELSE LET d == IF e \in Anchors THEN HandleRxPacket(c, e, t) ELSE HandleFailedRx(c)
       IN  IF TxEnabled(a) /\ d.nextSlot = a THEN SetupTx(d) ELSE SetupRx(d)

\* Anchor 0 opens a frame on its own clock: two frames after the start of the
\* current one, whose phase p the other anchors cannot know.
StartMaster(c, p) ==
  SetupTx([c EXCEPT !.state = "synchronized", !.frameStart = p, !.skip = TRUE])

\* Seeded fault: the slot registers keep what they held before the resync.
StaleJoinFrame(a, c, t) ==
  SlotStep(a, [c EXCEPT !.slotState = "rxDone", !.state = "synchronized"], 0, t)

JoinFrame(a, c, t) ==
  SlotStep(a, [c EXCEPT !.slot = 0, !.nextSlot = 1, !.slotState = "rxDone",
                        !.state = "synchronized"], 0, t)

OnEvent(a, c, e, t, p) ==
  IF c.state = "synchronized" THEN SlotStep(a, c, e, t)
  ELSE IF a = 0 THEN StartMaster(c, p)
  ELSE IF e = 0 THEN JoinFrame(a, c, t)
  ELSE ListenForMaster(c)

Tdoa2Init(c) ==
  [c EXCEPT !.state = "syncTdma", !.slot0MissCount = 0, !.skip = FALSE,
            !.slot = ActiveSlots - 1, !.nextSlot = 0]

-----------------------------------------------------------------------------
(* The air.                                                                *)

InSlot(c, t) == c.frameStart + c.slot \in {t, t + ActiveSlots}

Due(a) == ctx[a].radio \in {"rx", "tx"} /\ InSlot(ctx[a], now) /\ ~ctx[a].skip

Transmitting(a) == ctx[a].radio = "tx" /\ Due(a)

Senders == {a \in Anchors : Transmitting(a)}

Receiving(a) == ctx[a].radio = "listen" \/ (ctx[a].radio = "rx" /\ Due(a))

\* heard[a] is whose packet anchor a decodes in the slot that ends, if any: a
\* packet may be lost, and of packets that collide one or none is captured.
\* Once the band is quiet a lone packet always arrives.
Hearable(heard) ==
  quiet => \A s \in Anchors : Senders = {s} => \A a \in Anchors : heard[a] = s

AfterSlot(a, h) ==
  CASE Transmitting(a) -> OnEvent(a, ctx[a], Sent, now, ctx[a].frameStart)
    [] Receiving(a) -> OnEvent(a, ctx[a], h, now, ctx[a].frameStart)
    [] OTHER -> [ctx[a] EXCEPT !.skip = @ /\ ~InSlot(ctx[a], now)]

SlotEnds(heard) ==
  /\ Hearable(heard)
  /\ ctx' = [a \in Anchors |-> AfterSlot(a, heard[a])]
  /\ now' = Following(now)
  /\ UNCHANGED quiet

-----------------------------------------------------------------------------
(* The radio task around the algorithm.                                    *)

\* Power-up, a resume after a suspend, or the watchdog: init, then one event.
\* An enabling that overtakes its suspend gives the event without the init; it
\* is left out.
Restarted(a, p) == OnEvent(a, Tdoa2Init(ctx[a]), Timeout, now, p)

Start(a) ==
  /\ ctx[a].radio = "off"
  /\ \E p \in Slots : ctx' = [ctx EXCEPT ![a] = Restarted(a, p)]
  /\ UNCHANGED <<now, quiet>>

CheckStallWatchdog(a) ==
  /\ ctx[a].radio = "dead"
  /\ \E p \in Slots : ctx' = [ctx EXCEPT ![a] = Restarted(a, p)]
  /\ UNCHANGED <<now, quiet>>

SuspendRadio(a) ==
  /\ ~quiet /\ a \in Disturbed /\ ctx[a].radio # "off"
  /\ ctx' = [ctx EXCEPT ![a].radio = "off"]
  /\ UNCHANGED <<now, quiet>>

\* A command armed for a time that has already passed.
MissDeadline(a) ==
  /\ ~quiet /\ a \in Disturbed /\ ctx[a].radio \in {"rx", "tx"}
  /\ ctx' = [ctx EXCEPT ![a].radio = "dead"]
  /\ UNCHANGED <<now, quiet>>

\* The environment settles: it is assumed to, and no code does it.
BecomeQuiet ==
  /\ ~quiet
  /\ quiet' = TRUE
  /\ UNCHANGED <<ctx, now>>

-----------------------------------------------------------------------------

Init ==
  /\ ctx = [a \in Anchors |->
              [state |-> "syncTdma", slotState |-> "rxDone",
               slot |-> ActiveSlots - 1, nextSlot |-> 0, slot0MissCount |-> 0,
               frameStart |-> 0, radio |-> "off", skip |-> FALSE]]
  /\ now = 0
  /\ quiet = FALSE

SlotPasses == \E heard \in [Anchors -> Senders \cup {Timeout}] : SlotEnds(heard)

Next ==
  \/ SlotPasses
  \/ \E a \in Anchors : \/ Start(a)
                        \/ CheckStallWatchdog(a)
                        \/ SuspendRadio(a)
                        \/ MissDeadline(a)
  \/ BecomeQuiet

\* Slots pass, the radio task runs every 10 ms, and disturbances end.
Fairness ==
  /\ WF_vars(SlotPasses)
  /\ WF_vars(BecomeQuiet)
  /\ \A a \in Anchors : WF_vars(Start(a)) /\ WF_vars(CheckStallWatchdog(a))

Spec == Init /\ [][Next]_vars

FairSpec == Spec /\ Fairness

-----------------------------------------------------------------------------
(* Properties.                                                             *)

\* Every register of the context holds one of its values.
TypeOK ==
  /\ ctx \in [Anchors -> Ctx]
  /\ now \in Slots
  /\ quiet \in BOOLEAN

\* The slot register of an anchor with an armed radio names the slot that is on
\* the air by its own frame start, and the two slot registers stay neighbours:
\* joining a frame, losing it and restarting never leave it a slot behind
\* (updateSlot, the resync in tdoa2UwbEvent, tdoa2Init).  Only the master
\* waits for its slot, once, when it opens its first frame.
InStep ==
  \A a \in Anchors :
    /\ ctx[a].nextSlot = Following(ctx[a].slot)
    /\ ctx[a].radio \in {"rx", "tx"} /\ (a = 0 => ctx[a].slot # 0) => InSlot(ctx[a], now)

\* Anchors whose frames start together never transmit in the same slot.
NoCollision ==
  \A a, b \in Anchors :
    Transmitting(a) /\ Transmitting(b) /\ ctx[a].frameStart = ctx[b].frameStart => a = b

\* An anchor transmits only while it counts itself synchronized.  The one
\* exception is anchor 1: slot 1 is armed in the very handler that gives the
\* frame up, after the third missed slot 0 (slotStep).
TransmitsInSync ==
  \A a \in Anchors : Transmitting(a) => ctx[a].state = "synchronized" \/ a = 1

\* All anchors run on the master's frame.
Locked ==
  /\ \A a \in Anchors :
       /\ ctx[a].state = "synchronized"
       /\ ctx[a].radio \in {"rx", "tx"}
       /\ ctx[a].frameStart = ctx[0].frameStart
       /\ InSlot(ctx[a], now)
       /\ ~ctx[a].skip
       /\ ctx[a].radio = "tx" <=> ctx[a].slot = a

\* Without disturbances an aligned network stays aligned: the schedule itself
\* never collides, never misses slot 0 and never drops an anchor.
LockIsStable == [][quiet /\ Locked => Locked']_vars

\* After the last loss, late command or restart, in whatever state it left the
\* anchors (frames of several phases at once included), all of them end up on
\* the master's frame for good.
Converges == <>[]Locked

=============================================================================
