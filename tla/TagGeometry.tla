---------------------------- MODULE TagGeometry ----------------------------
(***************************************************************************)
(* Which anchors the tag solves with (uwb_tdoa_tag.cpp, with the commands  *)
(* of uwb_frontend_littlefs.cpp that change them).  Three tasks share      *)
(* anchor_positions and a handful of flags: the command's task applies     *)
(* parameters, the radio's task (loop) publishes the positions it          *)
(* calculates from the distances between the anchors, and the estimator's  *)
(* task copies what is live and solves.  measurements_mtx makes single     *)
(* accesses to anchor_positions atomic, and nothing makes a command so: it *)
(* is the sequence of its accesses, with the others in between.            *)
(*                                                                         *)
(* A geometry is None, a static configuration or Dynamic.  The buffer of   *)
(* measurements is modelled by MeasurementBuffer; here it is the set of    *)
(* the geometries its fresh rows were collected under.  Commands come from *)
(* one task.                                                               *)
(***************************************************************************)
EXTENDS Integers, Sequences, SequencesExt

CONSTANTS
  None, Dynamic,  \* geometries: no anchors, calculated positions
  Statics,        \* the static configurations that commands may set
  Commands,       \* the kinds of command that are given
  MaxCommands     \* bound: commands given

Kinds == {"dynamic on", "dynamic off", "commit", "layout", "disable", "enable"}

ASSUME GeometryAssumption ==
  /\ None # Dynamic /\ {None, Dynamic} \cap Statics = {}
  /\ Statics # {} /\ Commands \subseteq Kinds /\ MaxCommands \in Nat

VARIABLES
  param,    \* m_Params: dyn (dynamicAnchorPosEnabled), static (the configured
            \* positions), enable (uwbEnable)
  use,      \* s_useDynamicPositions
  listening, \* the distance callback is set
  calc,     \* s_dynamicCalc.canCalculate()
  live,     \* anchor_positions and configured_anchor_ids
  beacon,   \* the anchors of the beacon backend
  rows,     \* the geometries the fresh rows were collected under
  ready,    \* s_dynamicPositionsReadyForEstimator
  reinit,   \* s_estimatorReinitRequested and s_dynamicEstimatorReinitRequested
  holdoff,  \* s_dynamicTransitionHoldoffUntilMs: none, in the future, past
  loop,     \* the radio's task, in maybeUpdateDynamicPositions
  est,      \* the estimator's task
  cmd       \* the command's task: what it has left to do

shared == <<live, beacon, rows, ready, reinit, holdoff>>
dynamics == <<use, listening, calc>>
vars == <<param, dynamics, shared, loop, est, cmd>>

Geometries == {None, Dynamic} \cup Statics
Params == [dyn : BOOLEAN, static : Statics, enable : BOOLEAN]

(***************************************************************************)
(* Commands, as the sequences of their accesses                            *)
(***************************************************************************)
\* ClearDynamicAnchorRuntimeState
Clearing == <<"clear ready", "clear reinit", "clear holdoff", "reset calc">>
ClearingLive == Clearing \o <<"clear live", "clear beacon">>
\* ApplyDynamicAnchorRuntimeConfig
RuntimeConfig == <<"init calc", "clear ready", "clear reinit", "clear holdoff",
                   "clear live">>
\* ApplyDynamicAnchorPositioningEnabled
SwitchOn == IF use THEN <<>>
            ELSE <<"use">> \o ClearingLive \o RuntimeConfig \o <<"listen">>
SwitchOff == <<"do not use", "do not listen">> \o Clearing
\* ApplyTagRuntimeAnchorsTransaction
Transaction(p) == IF p.dyn THEN <<"beacon dynamic">>
                  ELSE <<"beacon static", "live static", "request reinit">>

\* Seeded fault: what was cleared to disable the backend is not applied again.
ForgetfulProgram(kind, p) ==
  CASE kind = "dynamic on" -> SwitchOn \o Transaction(p)
    [] kind = "dynamic off" -> Transaction(p) \o SwitchOff
    [] kind = "commit" -> Transaction(p)
    [] kind = "layout" -> RuntimeConfig \o <<"clear beacon">>
    [] kind = "disable" -> ClearingLive
    [] kind = "enable" -> IF p.dyn THEN SwitchOn ELSE SwitchOff

\* What SetParam does after it has stored the parameters p.
Program(kind, p) ==
  CASE kind = "dynamic on" -> SwitchOn \o Transaction(p)
    [] kind = "dynamic off" -> Transaction(p) \o SwitchOff
    [] kind = "commit" -> Transaction(p)
    [] kind = "layout" -> RuntimeConfig \o <<"clear beacon">>
    [] kind = "disable" -> ClearingLive
    [] kind = "enable" -> IF p.dyn
                          THEN SwitchOn \o RuntimeConfig \o <<"clear beacon">>
                          ELSE SwitchOff \o Transaction(p)

\* rollbackParamsAndRuntime, back to the parameters p: what comes after the anchors
\* are applied again, and all of it.
AfterAnchors(p) == IF p.enable THEN <<>> ELSE ClearingLive
Rollback(kind, p) ==
  (IF p.dyn THEN SwitchOn ELSE SwitchOff)
    \o (IF kind \in {"dynamic on", "dynamic off"} /\ ~p.dyn
        THEN <<"beacon static">> ELSE Transaction(p))
    \o AfterAnchors(p)

Idle == cmd.todo = <<>>

Init ==
  /\ param \in [dyn : BOOLEAN, static : Statics, enable : {TRUE}]
  /\ use = param.dyn /\ listening = param.dyn
  /\ calc = FALSE
  /\ live = IF param.dyn THEN None ELSE param.static
  /\ beacon = live
  /\ rows = {}
  /\ ready = FALSE
  /\ reinit = [static |-> ~param.dyn, dynamic |-> FALSE]
  /\ holdoff = "none"
  /\ loop = [pc |-> "idle", anchors |-> None]
  /\ est = [pc |-> "waiting", first |-> TRUE, geometry |-> None, rows |-> {}]
  /\ cmd = [todo |-> <<>>, kind |-> "none", prev |-> param, given |-> <<>>,
            anchors |-> None]

\* SetParam: the parameter is stored, and read by all tasks, before anything
\* else is done.
SetParam(kind, p) ==
  /\ Idle /\ Len(cmd.given) < MaxCommands
  /\ param' = p
  /\ cmd' = [cmd EXCEPT !.todo = Program(kind, p), !.kind = kind, !.prev = param,
                        !.given = Append(cmd.given, kind)]
  /\ UNCHANGED <<dynamics, shared, loop, est>>

\* The parameters that a command stores.
Stored(kind) ==
  CASE kind = "dynamic on" -> {[param EXCEPT !.dyn = TRUE]}
    [] kind = "dynamic off" -> {[param EXCEPT !.dyn = FALSE]}
    [] kind = "commit" -> {[param EXCEPT !.static = s] : s \in Statics}
    [] kind = "layout" -> IF param.dyn THEN {param} ELSE {}
    [] kind = "disable" -> {[param EXCEPT !.enable = FALSE]}
    [] kind = "enable" -> {[param EXCEPT !.enable = TRUE]}

Command == \E kind \in Commands : \E p \in Stored(kind) : SetParam(kind, p)

\* The next access is done.
Doing(access) ==
  /\ ~Idle /\ Head(cmd.todo) = access
  /\ cmd' = [cmd EXCEPT !.todo = Tail(cmd.todo)]
  /\ UNCHANGED <<param, loop, est>>

\* It is given up because a mutex is busy, and nobody is told.
Skipping(access, n) ==
  /\ ~Idle /\ Head(cmd.todo) = access
  /\ cmd' = [cmd EXCEPT !.todo = SubSeq(cmd.todo, n + 1, Len(cmd.todo))]
  /\ UNCHANGED <<param, dynamics, shared, loop, est>>

SwitchUse ==
  /\ \E on \in BOOLEAN :
       \/ Doing(IF on THEN "use" ELSE "do not use") /\ use' = on /\ UNCHANGED listening
       \/ /\ Doing(IF on THEN "listen" ELSE "do not listen") /\ listening' = on
          /\ UNCHANGED use
  /\ UNCHANGED <<calc, shared>>

ClearFlags ==
  /\ \/ Doing("clear ready") /\ ready' = FALSE /\ UNCHANGED <<reinit, holdoff>>
     \/ /\ Doing("clear reinit") /\ reinit' = [reinit EXCEPT !.dynamic = FALSE]
        /\ UNCHANGED <<ready, holdoff>>
     \/ Doing("clear holdoff") /\ holdoff' = "none" /\ UNCHANGED <<ready, reinit>>
  /\ UNCHANGED <<dynamics, live, beacon, rows>>

ResetCalc ==
  /\ Doing("reset calc") \/ Doing("init calc")
  /\ calc' = FALSE
  /\ UNCHANGED <<use, listening, shared>>

ClearLive ==
  /\ Doing("clear live")
  /\ live' = None /\ rows' = {}
  /\ UNCHANGED <<dynamics, beacon, ready, reinit, holdoff>>

ClearBeacon ==
  /\ Doing("clear beacon")
  /\ beacon' = None
  /\ UNCHANGED <<dynamics, live, rows, ready, reinit, holdoff>>

BusyClear ==
  \/ \E access \in {"reset calc", "clear live", "clear beacon"} : Skipping(access, 1)
  \/ Skipping("init calc", Len(RuntimeConfig))

BeaconStatic ==
  /\ Doing("beacon static")
  /\ beacon' = param.static
  /\ UNCHANGED <<dynamics, live, rows, ready, reinit, holdoff>>

\* Seeded fault: the rows collected so far survive the new anchors.
RowKeepingLiveStatic ==
  /\ Doing("live static")
  /\ live' = param.static
  /\ UNCHANGED <<dynamics, beacon, rows, ready, reinit, holdoff>>

\* ApplyStaticAnchors, in the mutex
LiveStatic ==
  /\ Doing("live static")
  /\ live' = param.static /\ rows' = {}
  /\ UNCHANGED <<dynamics, beacon, ready, reinit, holdoff>>

\* ApplyStaticAnchors, after the mutex
RequestReinit ==
  /\ Doing("request reinit")
  /\ reinit' = [reinit EXCEPT !.static = TRUE]
  /\ UNCHANGED <<dynamics, live, beacon, rows, ready, holdoff>>

\* ApplyStaticAnchorsToLiveBackends with dynamic positioning: the beacon gets
\* the positions that are live, or none.
BeaconDynamic ==
  /\ ~Idle /\ Head(cmd.todo) = "beacon dynamic"
  /\ IF ready
     THEN live # None /\ cmd' = [cmd EXCEPT !.todo = <<"tell beacon">> \o Tail(cmd.todo),
                                           !.anchors = live]
     ELSE cmd' = [cmd EXCEPT !.todo = <<"clear beacon">> \o Tail(cmd.todo)]
  /\ UNCHANGED <<param, dynamics, shared, loop, est>>

TellBeacon ==
  /\ ~Idle /\ Head(cmd.todo) = "tell beacon"
  /\ beacon' = cmd.anchors
  /\ cmd' = [cmd EXCEPT !.todo = Tail(cmd.todo), !.anchors = None]
  /\ UNCHANGED <<param, dynamics, live, rows, ready, reinit, holdoff, loop, est>>

\* The validation refuses the parameters, stored though they are: those of a dynamic
\* geometry before anything is applied, those of a static one when the transaction
\* begins.
DynamicRefused ==
  /\ cmd.kind \in {"dynamic on", "layout"}
  /\ cmd.todo = Program(cmd.kind, param)
StaticRefused == Head(cmd.todo) = "beacon static"

\* They are refused, a mutex is busy, or there are no positions for the beacon.  The
\* command is rolled back; what fails in the rollback is logged and left as it is.
Fails ==
  /\ ~Idle
  /\ \/ DynamicRefused \/ StaticRefused
     \/ Head(cmd.todo) \in {"beacon static", "tell beacon", "live static"}
     \/ Head(cmd.todo) = "beacon dynamic" /\ ready
  /\ IF cmd.kind # "rollback"
     THEN /\ param' = cmd.prev
          /\ cmd' = [cmd EXCEPT !.todo = Rollback(cmd.kind, cmd.prev), !.anchors = None,
                                !.kind = "rollback"]
     ELSE /\ cmd' = [cmd EXCEPT !.todo = AfterAnchors(cmd.prev), !.anchors = None]
          /\ UNCHANGED param
  /\ UNCHANGED <<dynamics, shared, loop, est>>

Access ==
  \/ SwitchUse \/ ClearFlags \/ ResetCalc \/ ClearLive \/ ClearBeacon \/ BusyClear
  \/ BeaconStatic \/ LiveStatic \/ RequestReinit \/ BeaconDynamic \/ TellBeacon \/ Fails

(***************************************************************************)
(* The radio's task.  It looks at uwbEnable before every pass and then     *)
(* finishes the pass, whatever the commands do meanwhile.                  *)
(***************************************************************************)
Looping(from, to) ==
  /\ loop.pc = from /\ loop' = [loop EXCEPT !.pc = to]
  /\ UNCHANGED <<param, est, cmd>>

\* estimatorCallback stores differences of pairs that have positions.
Produce ==
  /\ param.enable /\ live # None
  /\ rows' = rows \cup {live}
  /\ Looping("idle", "idle")
  /\ UNCHANGED <<dynamics, live, beacon, ready, reinit, holdoff>>

\* onInterAnchorDistance completes the distances, or they grow stale.
Distances ==
  /\ param.enable
  /\ calc' \in {FALSE, calc \/ (use /\ listening)}
  /\ Looping("idle", "idle")
  /\ UNCHANGED <<use, listening, shared>>

\* maybeUpdateDynamicPositions, when its interval has passed.
Calculate ==
  /\ param.enable /\ use
  /\ \/ calc /\ Looping("idle", "publish") /\ UNCHANGED ready
     \/ ~calc /\ ready /\ Looping("idle", "retract") /\ ready' = FALSE
  /\ UNCHANGED <<dynamics, live, beacon, rows, reinit, holdoff>>

Publish ==
  /\ live' = Dynamic
  /\ rows' = IF ready THEN rows ELSE {}
  /\ Looping("publish", IF ready THEN "idle" ELSE "ready")
  /\ UNCHANGED <<dynamics, beacon, ready, reinit, holdoff>>

\* A mutex was busy, and the step is given up.
LoopBusy ==
  /\ loop.pc \in {"publish", "retract", "tell", "no beacon"}
  /\ loop' = [pc |-> IF loop.pc = "retract" THEN "forget" ELSE "idle", anchors |-> None]
  /\ UNCHANGED <<param, dynamics, shared, est, cmd>>

\* The first update announces itself after it has given the mutex back.
Announce ==
  /\ \/ Looping("ready", "reinit") /\ ready' = TRUE /\ UNCHANGED <<reinit, holdoff>>
     \/ /\ Looping("reinit", "holdoff") /\ reinit' = [reinit EXCEPT !.dynamic = TRUE]
        /\ UNCHANGED <<ready, holdoff>>
     \/ Looping("holdoff", "beacon") /\ holdoff' = "future" /\ UNCHANGED <<ready, reinit>>
  /\ UNCHANGED <<dynamics, live, beacon, rows>>

\* configureRtlslinkBeaconFromAnchorPositions, with a copy of what is live
CopyForBeacon ==
  /\ loop.pc = "beacon"
  /\ loop' = IF live = None THEN [loop EXCEPT !.pc = "idle"]
             ELSE [pc |-> "tell", anchors |-> live]
  /\ UNCHANGED <<param, dynamics, shared, est, cmd>>

Tell ==
  /\ loop.pc = "tell" /\ loop' = [pc |-> "idle", anchors |-> None]
  /\ beacon' = loop.anchors
  /\ UNCHANGED <<param, dynamics, live, rows, ready, reinit, holdoff, est, cmd>>

Retract ==
  /\ \/ /\ Looping("retract", "forget") /\ live' = None /\ rows' = {}
        /\ UNCHANGED <<beacon, reinit, holdoff>>
     \/ /\ Looping("forget", "unhold") /\ reinit' = [reinit EXCEPT !.dynamic = FALSE]
        /\ UNCHANGED <<live, beacon, rows, holdoff>>
     \/ /\ Looping("unhold", "no beacon") /\ holdoff' = "none"
        /\ UNCHANGED <<live, beacon, rows, reinit>>
     \/ /\ Looping("no beacon", "idle") /\ beacon' = None
        /\ UNCHANGED <<live, rows, reinit, holdoff>>
  /\ UNCHANGED <<dynamics, ready>>

(***************************************************************************)
(* The estimator's task: one pass of estimatorProcess                      *)
(***************************************************************************)
Estimating(from) ==
  /\ est.pc = from
  /\ UNCHANGED <<param, dynamics, live, beacon, ready, loop, cmd>>

\* It wakes up, and takes a requested reinitialisation.
Begin ==
  /\ Estimating("waiting")
  /\ est' = [est EXCEPT !.pc = "holdoff", !.first = est.first \/ reinit.static]
  /\ reinit' = [reinit EXCEPT !.static = FALSE]
  /\ UNCHANGED <<rows, holdoff>>

ReadHoldoff ==
  /\ Estimating("holdoff")
  /\ est' = [est EXCEPT !.pc = CASE holdoff = "none" -> "reinit"
                                 [] holdoff = "past" -> "unhold"
                                 [] holdoff = "future" -> "waiting"]
  /\ UNCHANGED <<rows, reinit, holdoff>>

ResetHoldoff ==
  /\ Estimating("unhold")
  /\ holdoff' = "none"
  /\ est' = [est EXCEPT !.pc = "reinit"]
  /\ UNCHANGED <<rows, reinit>>

TakeReinit ==
  /\ Estimating("reinit")
  /\ IF use /\ reinit.dynamic
     THEN /\ est' = [est EXCEPT !.pc = "copy", !.first = TRUE]
          /\ reinit' = [reinit EXCEPT !.dynamic = FALSE]
     ELSE est' = [est EXCEPT !.pc = "copy"] /\ UNCHANGED reinit
  /\ UNCHANGED <<rows, holdoff>>

\* Rows and anchors are copied in the mutex, and from here on an estimation is no
\* longer the first one, which starts from the middle of the anchors.
Copy ==
  /\ Estimating("copy")
  /\ \/ /\ rows # {}
        /\ est' = [pc |-> "solving", geometry |-> live, rows |-> rows, first |-> FALSE]
        /\ rows' = {}
     \/ est' = [est EXCEPT !.pc = "waiting"] /\ UNCHANGED rows
  /\ UNCHANGED <<reinit, holdoff>>

\* The position is sent; where the next estimation starts from is left out.
Solve ==
  /\ Estimating("solving")
  /\ est' = [est EXCEPT !.pc = "waiting", !.geometry = None, !.rows = {}]
  /\ UNCHANGED <<rows, reinit, holdoff>>

HoldoffPasses ==
  /\ holdoff = "future" /\ holdoff' = "past"
  /\ UNCHANGED <<param, dynamics, live, beacon, rows, ready, reinit, loop, est, cmd>>

Next ==
  \/ Command \/ Access
  \/ Produce \/ Distances \/ Calculate \/ Publish \/ LoopBusy
  \/ Announce \/ CopyForBeacon \/ Tell \/ Retract
  \/ Begin \/ ReadHoldoff \/ ResetHoldoff \/ TakeReinit \/ Copy \/ Solve
  \/ HoldoffPasses

Spec == Init /\ [][Next]_vars

(***************************************************************************)
(* Properties                                                              *)
(***************************************************************************)
Accesses == {"use", "do not use", "listen", "do not listen", "clear ready", "clear reinit",
             "clear holdoff", "reset calc", "init calc", "clear live", "clear beacon",
             "beacon static", "live static", "request reinit", "beacon dynamic",
             "tell beacon"}

LoopSteps == {"idle", "publish", "ready", "reinit", "holdoff", "beacon", "tell",
              "retract", "forget", "unhold", "no beacon"}
EstSteps == {"waiting", "holdoff", "unhold", "reinit", "copy", "solving"}

\* Positions are only stored for pairs whose anchors have some, and every access
\* a command is made of is one that is modelled.
TypeOK ==
  /\ param \in Params /\ use \in BOOLEAN /\ listening \in BOOLEAN /\ calc \in BOOLEAN
  /\ live \in Geometries /\ beacon \in Geometries /\ rows \subseteq Geometries \ {None}
  /\ ready \in BOOLEAN
  /\ reinit \in [static : BOOLEAN, dynamic : BOOLEAN]
  /\ holdoff \in {"none", "future", "past"}
  /\ loop \in [pc : LoopSteps, anchors : Geometries]
  /\ est \in [pc : EstSteps, first : BOOLEAN, geometry : Geometries,
              rows : SUBSET Geometries]
  /\ cmd \in [todo : Seq(Accesses), kind : Kinds \cup {"none", "rollback"}, prev : Params,
              given : Seq(Commands), anchors : Geometries]

Resting == Idle /\ loop.pc = "idle"

\* Dynamic positioning is switched on once at most, and never off.
OneSwitch ==
  \A i, j \in DOMAIN cmd.given :
    /\ cmd.given[i] # "dynamic off"
    /\ cmd.given[i] = "dynamic on" /\ cmd.given[j] = "dynamic on" => i = j

\* A batch is solved with the anchors its rows were collected under: no change
\* of the anchors leaves rows behind, whichever task makes it.  Switching off
\* leaves the announcement and the calculator of a pass that was under way, and
\* the first publication after switching on again keeps the rows it finds.
OneGeometry == OneSwitch => est.rows \subseteq {est.geometry}

\* uwb_params.hpp says of dynamicAnchorPosEnabled: "0=static (use configured
\* positions)".  So when nothing is under way, the estimator has the configured
\* positions.
StaticWhenOff == Resting /\ param.enable /\ ~param.dyn => live = param.static

NeverSwitched == {"dynamic on", "dynamic off"} \cap ToSet(cmd.given) = {}

\* It has them as long as dynamic positioning has not been switched: after any
\* mixture of commits, of disabling and enabling, and of failures of these.
StaticUnlessSwitched == NeverSwitched => StaticWhenOff

=============================================================================
