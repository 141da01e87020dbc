------------------------------- MODULE Beacon -------------------------------
(***************************************************************************)
(* The RTLSLink beacon backend (rtlslink_beacon_backend.cpp): it gives the *)
(* anchors to the autopilot over a serial line, and positions and TDoA     *)
(* measurements once the autopilot has acknowledged the anchors.           *)
(*                                                                         *)
(* Four tasks call it: the application's Update, which reads the answers   *)
(* and sends the configuration again every kConfigRetryIntervalMs until it *)
(* is accepted; whoever changes the anchors; the estimator with positions; *)
(* the radio's task with TDoA measurements.  config_mutex_ is held by the  *)
(* second of these in one access and by SendConfig and EnqueueTdoa over    *)
(* several, while frames go out one by one under tx_mutex_.                *)
(*                                                                         *)
(* All anchors of a configuration go out as one frame, and only the frame  *)
(* that ends one keeps its sequence number: no answer to another one is    *)
(* matched by it.  The autopilot is external: it answers a configuration   *)
(* that is complete with OK, one that is not, and data without one, with   *)
(* an error.                                                               *)
(***************************************************************************)
EXTENDS Naturals, Sequences

CONSTANTS Configs,     \* sets of anchors, with their positions
          None,        \* no anchors
          SeqMod,      \* 256 in the code: the range of seq_
          Capacity,    \* bound: frames on the line to the autopilot
          MaxAnswers,  \* bound: answers waiting to be read
          MaxChanges   \* bound: configurations given

ASSUME BeaconAssumption ==
    /\ {None, "nothing", "started"} \cap Configs = {}
    /\ SeqMod \in Nat \ {0}
    /\ {Capacity, MaxAnswers, MaxChanges} \subseteq Nat \ {0}
(* A number comes again only after more frames than the line holds and an  *)
(* Update sends before the end of a configuration.                         *)
ASSUME SeqAssumption == Capacity + 3 < SeqMod

VARIABLES
    anchors,    \* anchors_ and anchor_count_
    accepted,   \* config_accepted_
    awaiting,   \* awaiting_config_ack_
    expected,   \* expected_config_end_seq_, or 0 while it is not awaited
    due,        \* the retry interval since last_config_ms_ is over
    seq,        \* seq_
    mtx,        \* the holder of config_mutex_
    update,     \* the application's task, in Update
    position,   \* the estimator's task is between the check and the frame
    down, up,   \* the frames to the autopilot, and its answers
    autopilot,  \* its anchors, and the ones it is being given
    agreed,     \* history: the anchors whose acknowledgement is in force
    changes,    \* configurations given so far
    calm        \* no frame is lost any more, no anchors change, no task waits

config == <<anchors, accepted, awaiting, expected, due, agreed>>
env == <<changes, calm>>
vars == <<config, seq, mtx, update, position, down, up, autopilot, env>>

(* What the autopilot is being given, before it is a configuration.        *)
Nothing == "nothing"
Started == "started"

Idle == [pc |-> "idle", toRead |-> 0, allSent |-> TRUE]

Init == /\ anchors = None /\ accepted = FALSE /\ awaiting = FALSE
        /\ expected = 0 /\ due = TRUE /\ seq = 0
        /\ mtx = "free" /\ update = Idle /\ position = FALSE
        /\ down = <<>> /\ up = <<>>
        /\ autopilot = [config |-> None, staged |-> Nothing]
        /\ agreed = None
        /\ changes = 0 /\ calm = FALSE
-----------------------------------------------------------------------------
(* WriteFrameLocked: one frame, which waits for room on the line.          *)
Write(kind, content) ==
    /\ Len(down) < Capacity
    /\ down' = Append(down, [kind |-> kind, config |-> content,
                             seq |-> IF kind = "end" THEN seq ELSE 0])
    /\ seq' = (seq + 1) % SeqMod

NothingAwaited == awaiting' = FALSE /\ expected' = 0
Accept == NothingAwaited /\ accepted' = TRUE /\ agreed' = Head(up).config
Reject == NothingAwaited /\ accepted' = FALSE /\ agreed' = None

(* A mutex that is taken with a timeout is not always got.                 *)
TimesOut == mtx # "free" /\ ~calm
-----------------------------------------------------------------------------
\* Seeded fault: an acknowledgement of the old anchors is still waited for.
ConfigureStillAwaiting ==
    /\ mtx = "free" /\ ~calm /\ changes < MaxChanges
    /\ anchors' \in Configs \cup {None}
    /\ accepted' = FALSE /\ agreed' = None /\ due' = TRUE
    /\ changes' = changes + 1
    /\ UNCHANGED <<awaiting, expected, seq, mtx, update, position, down, up,
                   autopilot, calm>>

(* The anchors change; the validation has accepted them.                   *)
ConfigureAnchors ==
    /\ mtx = "free" /\ ~calm /\ changes < MaxChanges
    /\ anchors' \in Configs \cup {None}
    /\ Reject /\ due' = TRUE
    /\ changes' = changes + 1
    /\ UNCHANGED <<seq, mtx, update, position, down, up, autopilot, calm>>
-----------------------------------------------------------------------------
(* Update.                                                                 *)

At(pc) == update.pc = pc
Goto(pc) == update' = [update EXCEPT !.pc = pc]

StartUpdate == /\ At("idle")
               /\ update' = [update EXCEPT !.pc = "reading", !.toRead = Len(up)]
               /\ UNCHANGED <<config, seq, mtx, position, down, up, autopilot, env>>

\* Seeded fault: an error that comes when nothing is awaited is overlooked.
DeafHandleFrame ==
    /\ At("reading") /\ update.toRead > 0
    /\ mtx = "free"
    /\ IF Head(up).ok /\ awaiting /\ Head(up).seq = expected
       THEN Accept ELSE UNCHANGED <<accepted, awaiting, expected, agreed>>
    /\ up' = Tail(up)
    /\ update' = [update EXCEPT !.toRead = @ - 1]
    /\ UNCHANGED <<anchors, due, seq, mtx, position, down, autopilot, env>>

(* HandleFrame: only the answer to the last configuration counts, and any  *)
(* error ends it.                                                          *)
HandleFrame ==
    /\ At("reading") /\ update.toRead > 0
    /\ \/ /\ mtx = "free"
          /\ CASE ~Head(up).ok -> Reject
               [] Head(up).ok /\ awaiting /\ Head(up).seq = expected -> Accept
               [] OTHER -> UNCHANGED <<accepted, awaiting, expected, agreed>>
       \/ TimesOut /\ UNCHANGED <<accepted, awaiting, expected, agreed>>
    /\ up' = Tail(up)
    /\ update' = [update EXCEPT !.toRead = @ - 1]
    /\ UNCHANGED <<anchors, due, seq, mtx, position, down, autopilot, env>>

(* The retry time is read, and later written, without the mutex.           *)
CheckNeedsConfig ==
    /\ At("reading") /\ update.toRead = 0
    /\ \/ mtx = "free" /\ Goto(IF ~accepted THEN "timing" ELSE "idle")
       \/ TimesOut /\ Goto("idle")
    /\ UNCHANGED <<config, seq, mtx, position, down, up, autopilot, env>>

CheckRetry == /\ At("timing")
              /\ Goto(IF due THEN "locking" ELSE "idle")
              /\ UNCHANGED <<config, seq, mtx, position, down, up, autopilot, env>>

SendConfig ==
    /\ At("locking")
    /\ \/ /\ mtx = "free" /\ anchors # None
          /\ mtx' = "update"
          /\ update' = [update EXCEPT !.pc = "hello", !.allSent = TRUE]
       \/ /\ (anchors = None /\ mtx = "free") \/ TimesOut
          /\ Goto("noting") /\ UNCHANGED mtx
    /\ UNCHANGED <<config, seq, position, down, up, autopilot, env>>

(* A frame of the configuration; tx_mutex_ may be busy.                    *)
SendPart(kind, next) ==
    /\ At(kind)
    /\ \/ Write(kind, anchors) /\ Goto(next)
       \/ /\ ~calm
          /\ update' = [update EXCEPT !.pc = next, !.allSent = FALSE]
          /\ UNCHANGED <<down, seq>>
    /\ UNCHANGED <<config, mtx, position, up, autopilot, env>>

SendHello == SendPart("hello", "anchors")
SendAnchors == SendPart("anchors", "end")

SendEnd ==
    /\ At("end")
    /\ \/ /\ update.allSent
          /\ Write("end", anchors)
          /\ expected' = seq /\ awaiting' = TRUE
          /\ accepted' = FALSE /\ agreed' = None
       \/ /\ update.allSent => ~calm
          /\ NothingAwaited
          /\ UNCHANGED <<down, seq, accepted, agreed>>
    /\ mtx' = "free"
    /\ Goto("noting")
    /\ UNCHANGED <<anchors, due, position, up, autopilot, env>>

NoteTime == /\ At("noting")
            /\ due' = FALSE
            /\ update' = Idle
            /\ UNCHANGED <<anchors, accepted, awaiting, expected, agreed, seq, mtx,
                           position, down, up, autopilot, env>>

UpdateStep == \/ StartUpdate \/ HandleFrame \/ CheckNeedsConfig \/ CheckRetry
              \/ SendConfig \/ SendHello \/ SendAnchors \/ SendEnd \/ NoteTime
-----------------------------------------------------------------------------
(* Positions: the mutex is given back between the check and the frame.     *)
CheckPosition == /\ ~position /\ mtx = "free" /\ accepted
                 /\ position' = TRUE
                 /\ UNCHANGED <<config, seq, mtx, update, down, up, autopilot, env>>

SendPosition == /\ position
                /\ \/ Write("position", None)
                   \/ ~calm /\ UNCHANGED <<down, seq>>
                /\ position' = FALSE
                /\ UNCHANGED <<config, mtx, update, up, autopilot, env>>

(* TDoA measurements: it is kept until the frame is out, or dropped.       *)
\* Seeded fault: measurements go out before the anchors are accepted.
UncheckedEnqueueTdoa ==
    /\ mtx = "free" /\ anchors # None
    /\ mtx' = "tdoa"
    /\ UNCHANGED <<config, seq, update, position, down, up, autopilot, env>>

EnqueueTdoa == /\ mtx = "free" /\ accepted
               /\ mtx' = "tdoa"
               /\ UNCHANGED <<config, seq, update, position, down, up, autopilot, env>>

SendTdoa == /\ mtx = "tdoa"
            /\ \/ Write("tdoa", anchors)
               \/ UNCHANGED <<down, seq>>
            /\ mtx' = "free"
            /\ UNCHANGED <<config, update, position, up, autopilot, env>>
-----------------------------------------------------------------------------
(* The autopilot, and the line.                                            *)

Answer(ok, n, content) ==
    LET answer == [ok |-> ok, seq |-> n, config |-> content]
    IN  up' \in (IF calm THEN {} ELSE {up})
                  \cup (IF Len(up) < MaxAnswers THEN {Append(up, answer)} ELSE {up})

Receive ==
    /\ down # <<>>
    /\ down' = Tail(down)
    /\ LET frame == Head(down)
       IN  CASE frame.kind = "hello" ->
                  /\ \E kept \in {autopilot.config, None} :
                        autopilot' = [config |-> kept, staged |-> Started]
                  /\ UNCHANGED up
             [] frame.kind = "anchors" /\ autopilot.staged = Started ->
                  /\ autopilot' = [autopilot EXCEPT !.staged = frame.config]
                  /\ UNCHANGED up
             [] frame.kind = "end" /\ autopilot.staged \in Configs ->
                  /\ autopilot' = [config |-> autopilot.staged, staged |-> Nothing]
                  /\ Answer(TRUE, frame.seq, autopilot.staged)
             [] frame.kind \in {"position", "tdoa"} /\ autopilot.config # None ->
                  UNCHANGED <<autopilot, up>>
             [] OTHER ->
                  UNCHANGED autopilot /\ Answer(FALSE, 0, None)
    /\ UNCHANGED <<config, seq, mtx, update, position, env>>

(* A frame arrives damaged: it is answered with an error, and what was     *)
(* being given is void.                                                    *)
Damage == /\ ~calm /\ down # <<>>
          /\ down' = Tail(down)
          /\ autopilot' = [autopilot EXCEPT !.staged = Nothing]
          /\ Answer(FALSE, 0, None)
          /\ UNCHANGED <<config, seq, mtx, update, position, env>>

Reboot == /\ ~calm
          /\ autopilot' = [config |-> None, staged |-> Nothing]
          /\ UNCHANGED <<config, seq, mtx, update, position, down, up, env>>

(* In a calm line the autopilot answers before the configuration is sent   *)
(* once more.                                                              *)
RetryPasses == /\ ~due
               /\ calm => down = <<>> /\ up = <<>>
               /\ due' = TRUE
               /\ UNCHANGED <<anchors, accepted, awaiting, expected, agreed, seq,
                              mtx, update, position, down, up, autopilot, env>>

BecomeCalm == /\ ~calm /\ calm' = TRUE
              /\ UNCHANGED <<config, seq, mtx, update, position, down, up,
                             autopilot, changes>>
-----------------------------------------------------------------------------
Next == \/ ConfigureAnchors \/ UpdateStep
        \/ CheckPosition \/ SendPosition \/ EnqueueTdoa \/ SendTdoa
        \/ Receive \/ Damage \/ Reboot \/ RetryPasses \/ BecomeCalm

Spec == Init /\ [][Next]_vars

(* Update is periodic, a mutex goes to the task that has waited longest,   *)
(* positions keep coming, and the disturbances end.                        *)
Fairness == /\ SF_vars(UpdateStep)
            /\ SF_vars(CheckPosition) /\ SF_vars(SendPosition)
            /\ WF_vars(SendTdoa) /\ WF_vars(Receive)
            /\ SF_vars(RetryPasses) /\ WF_vars(BecomeCalm)

FairSpec == Spec /\ Fairness
-----------------------------------------------------------------------------
Contents == Configs \cup {None}

(* The state of the backend, and of the frames and answers on the line.    *)
TypeOK ==
    /\ {anchors, agreed, autopilot.config} \subseteq Contents
    /\ {accepted, awaiting, due, position, calm} \subseteq BOOLEAN
    /\ {expected, seq} \subseteq 0 .. SeqMod - 1
    /\ mtx \in {"free", "update", "tdoa"}
    /\ update.toRead \in 0 .. Len(up)
    /\ Len(down) <= Capacity /\ Len(up) <= MaxAnswers

(* The backend keeps its promise: what it holds for accepted is what it    *)
(* was last given and what the autopilot has confirmed, although answers   *)
(* come late, to earlier configurations, and their numbers repeat.         *)
Promise == INSTANCE BeaconPromise
           WITH wanted <- anchors
KeepsPromise == Promise!Spec

(* A measurement names anchors by their index: when the autopilot takes it *)
(* from the line it has the anchors it was measured with, or none.         *)
TdoaUnderItsConfig ==
    down # <<>> /\ Head(down).kind = "tdoa"
      => autopilot.config \in {Head(down).config, None}

(* When the disturbances are over the autopilot gets the anchors, whatever *)
(* was lost, answered late or forgotten in a reboot before.                *)
Configured == <>[](anchors # None => accepted /\ autopilot.config = anchors)
=============================================================================
