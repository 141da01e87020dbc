------------------------------ MODULE AppOutput ------------------------------
(***************************************************************************)
(* The application's output to the autopilot (App): MainAppTask runs       *)
(* Update ten times a second, PosEstimatorTask, of a higher priority, calls*)
(* SendSample for every position it computes, and the consoles change the  *)
(* parameters both read.  Update reads the clock once, at its start, and   *)
(* compares it with stamps that SendSample writes while Update runs.       *)
(*                                                                         *)
(* A stamp is kept as its age in ticks.  Ages saturate: no comparison of   *)
(* the code tells two ages beyond its limit apart.  A stamp that is newer  *)
(* than the time Update read is told by `ahead`: the difference of the two *)
(* unsigned 64-bit numbers is then larger than every limit.                *)
(***************************************************************************)
EXTENDS Naturals, FiniteSets

CONSTANTS HealthyMin,   \* kDeviceHealtyMinDurationMs
          HbInterval,   \* kHeartbeatIntervalMs
          HbTimeout,    \* kHeartbeatRcvTimeoutMs
          OriginAfter,  \* kSendOriginPositionAfterMs
          Retry,        \* kOriginRetryIntervalMs
          Resend,       \* kOriginResendIntervalMs
          RfStale,      \* kRangefinderStaleTimeoutMs
          Dropout,      \* kUwbDropoutForwardMs
          MaxChanges    \* bound: parameter writes in a behaviour

(* The origin is tried again sooner than it is resent, and a distance is   *)
(* not stale before Update, which runs once a tick, could read another.    *)
ASSUME LimitsAssumption ==
    /\ {HealthyMin, HbInterval, HbTimeout, OriginAfter, Retry, Resend, RfStale,
        Dropout, MaxChanges} \subseteq Nat
    /\ Retry <= Resend
    /\ RfStale >= 1

(* The largest age that is told apart from the next one, for each stamp.   *)
Cap == [sample    |-> HealthyMin + Dropout + 1,
        beat      |-> HbInterval + 1,
        heard     |-> HbTimeout,
        unhealthy |-> OriginAfter + 1,
        attempt   |-> Retry + Resend + 2,
        sent      |-> Resend,
        range     |-> RfStale + 1,
        good      |-> OriginAfter,
        ready     |-> OriginAfter + 2,
        steady    |-> Dropout + 2,
        height    |-> Dropout + 2]
Stamps == DOMAIN Cap
Lower(x, y) == IF x < y THEN x ELSE y

VARIABLES
    params,  \* outputBackend, rfForwardEnable, zCalcMode, mavlinkTargetSystemId
    step,    \* where Update is
    age,     \* ages of the stamps, and of the observations good .. height
    ever,    \* what has happened since the boot: sample, range, heard, sent
    ahead,   \* the last sample is newer than the time Update read
    ran,     \* Update has run to its end since the last tick
    changes  \* parameter writes so far

ovars == <<params, step, age, ever, ahead, ran, changes>>

(* An outputBackend that is neither of the two is stored all the same.     *)
OutputParams == [output : {"MAVLINK", "BEACON", "OTHER"}, forward : BOOLEAN,
           z : {"UWB", "RANGEFINDER"}, target : BOOLEAN]
Events == {"sample", "range", "heard", "sent"}

(* At the boot every stamp is zero, so its age is the time since power-on, *)
(* except the unhealthy one: App::Init sets it.                            *)
OInit == /\ params \in OutputParams
         /\ step = "idle"
         /\ \E uptime \in 0 .. Retry + Resend :
               age = [s \in Stamps |->
                        IF s \in {"unhealthy", "good", "ready", "steady", "height"}
                        THEN 0 ELSE Lower(uptime, Cap[s])]
         /\ ever = {}
         /\ ahead = FALSE
         /\ ran = FALSE
         /\ changes = 0

Restart(stamps) == [s \in Stamps |-> IF s \in stamps THEN 0 ELSE age[s]]
-----------------------------------------------------------------------------
(* The rangefinder, read by either task.                                   *)

IsRangefinderHealthy == "range" \in ever /\ age.range <= RfStale
GetRangefinderZ == IF params.z = "RANGEFINDER" /\ IsRangefinderHealthy
                   THEN "range" ELSE "NAN"

(* SendSample, in PosEstimatorTask.  It may interrupt Update at any point; *)
(* if the millisecond has changed since Update read it, the stamp is ahead.*)
(* The position carries a height unless the rangefinder's is missing.      *)
SendSample ==
    /\ params.output # "OTHER"
    /\ \E later \in IF step = "idle" THEN {FALSE} ELSE BOOLEAN :
       LET height == params.z = "UWB" \/ GetRangefinderZ # "NAN"
       IN /\ age' = Restart({"sample"}
                  \cup (IF later THEN {"ready"} ELSE {})
                  \cup IF params.output = "MAVLINK" /\ height THEN {"height"} ELSE {})
          /\ ever' = ever \cup {"sample"}
          /\ ahead' = (ahead \/ later)
          /\ UNCHANGED <<params, step, ran, changes>>
-----------------------------------------------------------------------------
(* Update, in MainAppTask.                                                 *)

(* process_received_bytes of the rangefinder's port, with the callback that*)
(* App::Init gave it, for at most one message per pass.  Here as everywhere*)
(* a height is sent when the code hands it to the port: whether the port   *)
(* takes it is logged, and nothing repeats it.                             *)
Ranged(message) ==
    IF ~message THEN {}
    ELSE {"range"} \cup
         IF params.forward /\ params.output = "MAVLINK" THEN {"height"} ELSE {}

(* Update reads the clock and the rangefinder, and goes on only if the     *)
(* MAVLink output is selected; the heartbeat is sent when it is due.       *)
Capture ==
    /\ step = "idle"
    /\ \E message \in BOOLEAN :
          /\ age' = Restart(Ranged(message) \cup
                      IF params.output = "MAVLINK" /\ age.beat > HbInterval
                      THEN {"beat"} ELSE {})
          /\ ever' = IF message THEN ever \cup {"range"} ELSE ever
    /\ ahead' = FALSE
    /\ IF params.output = "MAVLINK"
       THEN step' = "health" /\ UNCHANGED ran
       ELSE step' = "idle" /\ ran' = TRUE
    /\ UNCHANGED <<params, changes>>

(* now_ms - last_sample_timestamp_ms_ > limit, in unsigned numbers.        *)
SampleOlderThan(limit) == ahead \/ age.sample > limit

\* Seeded fault: the spell of health is measured from the last sample only.
OriginDueWithoutSpell ==
    /\ age.heard < HbTimeout
    /\ age.attempt >= Retry
    /\ "sent" \in ever => age.sent >= Resend

\* Seeded fault: once sent, the origin is never sent again.
OriginDueOnce ==
    /\ age.unhealthy > OriginAfter
    /\ age.heard < HbTimeout
    /\ age.attempt >= Retry
    /\ "sent" \notin ever

OriginDue ==
    /\ age.unhealthy > OriginAfter
    /\ age.heard < HbTimeout
    /\ age.attempt >= Retry
    /\ "sent" \in ever => age.sent >= Resend

HasTarget == params.target \/ "heard" \in ever

(* The health check and, on a healthy device, the autopilot's origin.  The *)
(* attempt is stamped even when there is no system to send it to.          *)
Health ==
    /\ step = "health"
    /\ \/ /\ SampleOlderThan(HealthyMin)
          /\ age' = Restart({"unhealthy"})
          /\ UNCHANGED ever
       \/ /\ ~SampleOlderThan(HealthyMin)
          /\ ~OriginDue
          /\ UNCHANGED <<age, ever>>
       \/ /\ ~SampleOlderThan(HealthyMin)
          /\ OriginDue
          /\ \E sent \in IF HasTarget THEN BOOLEAN ELSE {FALSE} :
                /\ age' = Restart({"attempt"} \cup IF sent THEN {"sent"} ELSE {})
                /\ ever' = IF sent THEN ever \cup {"sent"} ELSE ever
    /\ step' = "fallback"
    /\ UNCHANGED <<params, ahead, ran, changes>>

\* Seeded fault: a device that has sent no sample at all gets no fallback.
UwbSilentAfterSample == "sample" \in ever /\ SampleOlderThan(Dropout)

UwbSilent == "sample" \notin ever \/ SampleOlderThan(Dropout)

(* The distance is re-emitted when the estimator is silent, and then the   *)
(* autopilot's bytes are parsed: a heartbeat of its own is remembered.     *)
Fallback ==
    /\ step = "fallback"
    /\ \E heartbeat \in BOOLEAN :
          /\ age' = Restart((IF heartbeat THEN {"heard"} ELSE {}) \cup
                     IF ~params.forward /\ UwbSilent /\ IsRangefinderHealthy
                     THEN {"height"} ELSE {})
          /\ ever' = IF heartbeat THEN ever \cup {"heard"} ELSE ever
    /\ step' = "idle"
    /\ ran' = TRUE
    /\ UNCHANGED <<params, ahead, changes>>
-----------------------------------------------------------------------------
(* A console writes a parameter, at any point.                             *)

SetOutputParam ==
    /\ changes < MaxChanges
    /\ params' \in OutputParams
    /\ Cardinality({p \in DOMAIN params : params'[p] # params[p]}) = 1
    /\ changes' = changes + 1
    /\ age' = Restart({"ready", "steady"})
    /\ UNCHANGED <<step, ever, ahead, ran>>

(* Observations: good, for how long no gap between samples was longer than *)
(* one that Update, which runs once a tick at least, is certain to see;    *)
(* ready, for how long the origin could have been sent, no sample having   *)
(* come into a pass of Update at a later millisecond; steady, for how      *)
(* long the parameters stayed as they are and the rangefinder was heard in *)
(* every tick; height, the time since a height was sent.                   *)
Holds(s) ==
    CASE s = "good"   -> age.sample <= HealthyMin
      [] s = "ready"  -> /\ params.output = "MAVLINK"
                         /\ HasTarget
                         /\ "sample" \in ever /\ age.sample + 1 <= HealthyMin
                         /\ age.heard + 1 < HbTimeout
      [] s = "steady" -> params.output = "MAVLINK" /\ "range" \in ever /\ age.range = 0
      [] OTHER        -> TRUE

(* Time passes between two runs of Update.                                 *)
Tick ==
    /\ step = "idle" /\ ran
    /\ age' = [s \in Stamps |->
                 IF Holds(s) THEN Lower(age[s] + 1, Cap[s]) ELSE 0]
    /\ ran' = FALSE
    /\ UNCHANGED <<params, step, ever, ahead, changes>>

ONext == SendSample \/ Capture \/ Health \/ Fallback \/ SetOutputParam \/ Tick
OSpec == OInit /\ [][ONext]_ovars
-----------------------------------------------------------------------------
OTypeOK ==
    /\ params \in OutputParams
    /\ step \in {"idle", "health", "fallback"}
    /\ age \in [Stamps -> Nat] /\ \A s \in Stamps : age[s] <= Cap[s]
    /\ ever \subseteq Events
    /\ ahead \in BOOLEAN /\ ran \in BOOLEAN
    /\ changes \in 0 .. MaxChanges

(* The autopilot gets its origin only after OriginAfter ticks in which no  *)
(* gap between two positions outlasted the health limit, as app.hpp says,  *)
(* if the parameters are those of the boot.  While the beacon output is    *)
(* selected nothing measures the device's health, so a device just switched*)
(* to MAVLink may send it at once.                                         *)
OriginAfterHealthySpell ==
    [][age.sent # 0 /\ age'.sent = 0 /\ changes = 0 => age.good >= OriginAfter]_ovars

(* A device that has been able to send the origin for the whole spell has  *)
(* tried it no longer than a resend period ago, whatever sends failed.  A  *)
(* sample later than the time its pass of Update has read (`ahead') passes *)
(* for silence in the code, and begins the spell again.                    *)
OriginIsTimely == age.ready > OriginAfter + 1 => age.attempt <= Resend + 1

(* While the rangefinder is heard, the autopilot is never left without a   *)
(* height for longer than the dropout limit: by the position, by the       *)
(* forwarded distance or by the distance re-emitted while UWB is silent.   *)
HeightKeepsComing == age.steady > Dropout + 1 => age.height <= Dropout + 1
==============================================================================
