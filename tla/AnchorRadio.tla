----------------------------- MODULE AnchorRadio -----------------------------
(***************************************************************************)
(* An anchor's radio and who turns it on and off (UWBAnchorTDoA,           *)
(* UWBLittleFSFrontend::SetRuntimeEnabled, the firmware upload).           *)
(*                                                                         *)
(* RadioTask alone touches the chip.  The interrupt handler notifies it;   *)
(* SetEnabled, called by a console and by the upload's task, attaches and  *)
(* detaches the handler itself and leaves the rest to RadioTask through    *)
(* three flags that no lock protects.  Every task is a sequence of steps,  *)
(* todo[t]; a step accesses the flags once.                                *)
(***************************************************************************)
EXTENDS Naturals, Sequences

CONSTANTS MaxCommands,  \* bound: commands of the console
          MaxUploads,   \* bound: firmware uploads
          MaxFaults,    \* bound: operations the chip never finishes, and saves
                        \* of the parameters that fail
          MaxBoots      \* bound: restarts

ASSUME BoundsAssumption ==
    {MaxCommands, MaxUploads, MaxFaults, MaxBoots} \subseteq Nat

Callers == {"console", "ota"}
Tasks == Callers \cup {"radio"}

VARIABLES
    param,       \* m_Params.uwbEnable
    file,        \* uwbEnable in the parameter file: on, off, or gone
    backend,     \* m_Backend is not null
    enabled,     \* m_radioEnabled
    suspended,   \* m_radioSuspended
    attached,    \* m_interruptAttached, and the handler with it
    start,       \* m_startRequested
    timer,       \* m_lastEventTimeMs: zero, recent, or older than the limit
    chip,        \* the DW1000: idle, active, done (its line is high), or hung
    notified,    \* RadioTask's notification count, up to two
    got,         \* RadioTask's copy of it
    todo,        \* the steps each task still has to make
    upload,      \* the firmware upload: none, running, or reboot scheduled
    otaSuspended,\* uwbSuspendedForOta
    overlapped,  \* observation: two SetEnabled have run at the same time
    unsaved,     \* observation: a write has cleared param, and failed to save it
    bounds       \* commands, uploads, faults and boots so far

flags == <<enabled, suspended, attached, start>>
radio == <<timer, chip, got>>
stored == <<param, file, backend, unsaved>>
ota == <<upload, otaSuspended>>
vars == <<param, file, backend, enabled, suspended, attached, start, timer, chip,
          notified, got, todo, upload, otaSuspended, overlapped, unsaved, bounds>>

NoTasks == [t \in Tasks |-> <<>>]

(* What is on file, and what a boot makes of it: a parameter that is gone  *)
(* has the value it is compiled with, which is on.                         *)
Saved(on) == IF on THEN "on" ELSE "off"
Read == file # "off"

(* A boot: the backend's constructor runs to its end if the file says so.  *)
Booted(on) ==
    /\ param' = on /\ backend' = on
    /\ enabled' = TRUE /\ suspended' = FALSE /\ attached' = on /\ start' = on
    /\ timer' = "zero" /\ chip' = "idle"
    /\ notified' = IF on THEN 1 ELSE 0
    /\ got' = 0
    /\ todo' = NoTasks
    /\ upload' = "none" /\ otaSuspended' = FALSE
    /\ overlapped' = FALSE /\ unsaved' = FALSE

Init == /\ file \in {"on", "off"}
        /\ param = Read /\ backend = Read
        /\ enabled = TRUE /\ suspended = FALSE /\ attached = Read /\ start = Read
        /\ timer = "zero" /\ chip = "idle"
        /\ notified = IF Read THEN 1 ELSE 0
        /\ got = 0
        /\ todo = NoTasks
        /\ upload = "none" /\ otaSuspended = FALSE
        /\ overlapped = FALSE /\ unsaved = FALSE
        /\ bounds = [commands |-> 0, uploads |-> 0, faults |-> 0, boots |-> 0]

Do(op) == [op |-> op]
With(op, arg) == [op |-> op, arg |-> arg]
At(t, op) == todo[t] # <<>> /\ Head(todo[t]).op = op
Arg(t) == Head(todo[t]).arg
Continue(t, next) == todo' = [todo EXCEPT ![t] = next \o Tail(@)]
More(n) == IF n < 2 THEN n + 1 ELSE 2
-----------------------------------------------------------------------------
(* SetRuntimeEnabled and SetEnabled, in any task that calls them.          *)

Runtime(v) == <<With("runtime", v)>>

\* Seeded fault: enabling leaves everything to the resumption of the radio.
EnablingByResume == <<Do("notify")>>

Enabling == <<Do("ifRunning"), Do("notify")>>
Disabling == <<Do("ifAttached"), Do("notify")>>
Busy(t) == t \in Callers /\ todo[t] # <<>>
           /\ Head(todo[t]).op \in {"ifAttached", "detach", "ifRunning", "ifDetached",
                                    "attach", "requestStart", "notify"}

(* The upload notes that it has suspended the radio, and forgets it when it*)
(* has resumed it.  The code does so after the last step of SetEnabled; no *)
(* other task looks at the note, so here it changes with the parameter.    *)

\* Seeded fault: the upload suspends the radio and does not note it.
NotNoted(t) == otaSuspended

Noted(t) == IF t = "ota" THEN ~Arg(t) ELSE otaSuspended

(* SetRuntimeEnabled stores the parameter; without a backend, enabling     *)
(* constructs one, whose radio starts as at the boot.                      *)
SetRuntimeEnabled(t) ==
    /\ At(t, "runtime")
    /\ param' = Arg(t) /\ otaSuspended' = Noted(t)
    /\ IF backend THEN /\ Continue(t, <<With("setEnabled", Arg(t))>>)
                       /\ UNCHANGED <<backend, flags, notified>>
       ELSE /\ backend' = Arg(t)
            /\ Continue(t, <<>>)
            /\ enabled' = TRUE /\ suspended' = FALSE
            /\ attached' = Arg(t) /\ start' = Arg(t)
            /\ notified' = IF Arg(t) THEN 1 ELSE 0
    /\ UNCHANGED <<file, unsaved, radio, upload, overlapped, bounds>>

SetEnabled(t) ==
    /\ At(t, "setEnabled")
    /\ enabled' = Arg(t)
    /\ Continue(t, IF Arg(t) = enabled THEN <<>>
                   ELSE IF Arg(t) THEN Enabling ELSE Disabling)
    /\ overlapped' = (overlapped \/ \E u \in Callers \ {t} : Busy(u))
    /\ UNCHANGED <<stored, suspended, attached, start, radio, notified, ota, bounds>>

IfRunning(t) == /\ At(t, "ifRunning")
                /\ Continue(t, IF suspended THEN <<>>
                               ELSE <<Do("ifDetached"), Do("requestStart")>>)
                /\ UNCHANGED <<stored, flags, radio, notified, ota, overlapped, bounds>>

(* AttachInterruptHandler and DetachInterruptHandler.                      *)
IfDetached(t) == /\ At(t, "ifDetached")
                 /\ Continue(t, IF attached THEN <<>> ELSE <<Do("attach")>>)
                 /\ UNCHANGED <<stored, flags, radio, notified, ota, overlapped, bounds>>
IfAttached(t) == /\ At(t, "ifAttached")
                 /\ Continue(t, IF attached THEN <<Do("detach")>> ELSE <<>>)
                 /\ UNCHANGED <<stored, flags, radio, notified, ota, overlapped, bounds>>
Attach(t) == /\ At(t, "attach")
             /\ attached' = TRUE
             /\ Continue(t, <<>>)
             /\ UNCHANGED <<stored, enabled, suspended, start, radio, notified, ota,
                            overlapped, bounds>>
Detach(t) == /\ At(t, "detach")
             /\ attached' = FALSE
             /\ Continue(t, <<>>)
             /\ UNCHANGED <<stored, enabled, suspended, start, radio, notified, ota,
                            overlapped, bounds>>
RequestStart(t) == /\ At(t, "requestStart")
                   /\ start' = TRUE
                   /\ Continue(t, <<>>)
                   /\ UNCHANGED <<stored, enabled, suspended, attached, radio, notified,
                                  ota, overlapped, bounds>>
Notify(t) == /\ At(t, "notify")
             /\ notified' = More(notified)
             /\ Continue(t, <<>>)
             /\ UNCHANGED <<stored, flags, radio, ota, overlapped, bounds>>

Access(t) == \/ SetRuntimeEnabled(t) \/ SetEnabled(t) \/ IfRunning(t) \/ IfDetached(t)
             \/ IfAttached(t) \/ Attach(t) \/ Detach(t) \/ RequestStart(t) \/ Notify(t)
-----------------------------------------------------------------------------
(* RadioTask.  It waits ten milliseconds for a notification, so it takes   *)
(* one pass whether it was notified or not.                                *)

Resume == <<Do("unsuspend"), Do("ifDetached"), Do("requestStart"),
            Do("ifStart"), Do("service")>>

\* Seeded fault: the radio is not suspended while a start is requested.
TakeStartFirst ==
        /\ backend /\ todo["radio"] = <<>>
        /\ got' = IF enabled THEN notified ELSE 0
        /\ notified' = 0
        /\ todo' = [todo EXCEPT !["radio"] =
              IF enabled
              THEN IF suspended THEN Resume ELSE <<Do("ifStart"), Do("service")>>
              ELSE IF suspended \/ start THEN <<>> ELSE <<Do("idle"), Do("suspend")>>]
        /\ UNCHANGED <<stored, flags, timer, chip, ota, overlapped, bounds>>

Take == /\ backend /\ todo["radio"] = <<>>
        /\ got' = IF enabled THEN notified ELSE 0
        /\ notified' = 0
        /\ todo' = [todo EXCEPT !["radio"] =
              IF enabled
              THEN IF suspended THEN Resume ELSE <<Do("ifStart"), Do("service")>>
              ELSE IF suspended THEN <<>> ELSE <<Do("idle"), Do("suspend")>>]
        /\ UNCHANGED <<stored, flags, timer, chip, ota, overlapped, bounds>>

(* SuspendRadio and the beginning of ResumeRadio.                          *)

\* Seeded fault: the watchdog is left running over a suspension.
IdleKeepsTimer ==
        /\ At("radio", "idle")
        /\ chip' = "idle" /\ start' = FALSE
        /\ Continue("radio", <<>>)
        /\ UNCHANGED <<stored, enabled, suspended, attached, timer, got, notified, ota,
                       overlapped, bounds>>

Idle == /\ At("radio", "idle")
        /\ chip' = "idle" /\ timer' = "zero" /\ start' = FALSE
        /\ Continue("radio", <<>>)
        /\ UNCHANGED <<stored, enabled, suspended, attached, got, notified, ota,
                       overlapped, bounds>>
Suspend == /\ At("radio", "suspend")
           /\ suspended' = TRUE
           /\ Continue("radio", <<>>)
           /\ UNCHANGED <<stored, enabled, attached, start, radio, notified, ota,
                          overlapped, bounds>>
Unsuspend == /\ At("radio", "unsuspend")
             /\ suspended' = FALSE
             /\ Continue("radio", <<>>)
             /\ UNCHANGED <<stored, enabled, attached, start, radio, notified, ota,
                            overlapped, bounds>>

(* A requested start: the algorithm's timeout event begins an operation and*)
(* clears what the chip had to say; it stands for one notification.        *)

IfStart == /\ At("radio", "ifStart")
           /\ IF start THEN /\ start' = FALSE
                            /\ chip' = "active" /\ timer' = "recent"
                            /\ got' = IF got > 0 THEN got - 1 ELSE 0
              ELSE UNCHANGED <<start, radio>>
           /\ Continue("radio", <<>>)
           /\ UNCHANGED <<stored, enabled, suspended, attached, notified, ota,
                          overlapped, bounds>>

(* ServicePendingInterrupts, once for all notifications in hand: an event  *)
(* of the chip is dispatched, and its handler begins the next operation.   *)
Service == /\ At("radio", "service") /\ (got > 0)
           /\ chip' = IF chip = "done" THEN "active" ELSE chip
           /\ timer' = "recent"
           /\ got' = notified
           /\ notified' = 0
           /\ UNCHANGED <<stored, flags, todo, ota, overlapped, bounds>>
Served == Service /\ chip = "done"
InExcess == Service /\ chip = "active"

(* CheckStallWatchdog, when no notification is left.                       *)
CheckStallWatchdog ==
    /\ At("radio", "service") /\ got = 0
    /\ IF timer = "old" THEN chip' = "active" /\ timer' = "recent"
       ELSE UNCHANGED <<chip, timer>>
    /\ Continue("radio", <<>>)
    /\ UNCHANGED <<stored, flags, got, notified, ota, overlapped, bounds>>

RadioTask == \/ Take \/ Idle \/ Suspend \/ Unsuspend \/ IfStart
             \/ Service \/ CheckStallWatchdog \/ Access("radio")
-----------------------------------------------------------------------------
(* The chip and its interrupt, and time.                                   *)

(* An operation ends, by its receive timeout at the latest; the rising line*)
(* runs anchorInterruptISR if it is attached.                              *)
Finish == /\ chip = "active"
          /\ chip' = "done"
          /\ notified' = IF attached THEN More(notified) ELSE notified
          /\ UNCHANGED <<stored, flags, timer, got, todo, ota, overlapped, bounds>>

Hang == /\ chip = "active" /\ bounds.faults < MaxFaults
        /\ chip' = "hung"
        /\ bounds' = [bounds EXCEPT !.faults = @ + 1]
        /\ UNCHANGED <<stored, flags, timer, got, notified, todo, ota, overlapped>>

(* STALL_TIMEOUT_MS goes by without an event: the chip is not at work, and *)
(* RadioTask is waiting, or kept from running by the network's tasks.      *)
Elapse == /\ timer = "recent" /\ chip # "active" /\ todo["radio"] = <<>>
          /\ timer' = "old"
          /\ UNCHANGED <<stored, flags, chip, got, notified, todo, ota, overlapped, bounds>>
-----------------------------------------------------------------------------
(* The console: it writes uwbEnable, writes another parameter of the group *)
(* (which saves them all), or loads the group.                             *)
Given(body, failing) ==
    /\ todo["console"] = <<>>
    /\ bounds.commands < MaxCommands /\ bounds.faults + failing <= MaxFaults
    /\ bounds' = [bounds EXCEPT !.commands = @ + 1, !.faults = @ + failing]
    /\ todo' = [todo EXCEPT !["console"] = body]
    /\ UNCHANGED <<backend, flags, radio, notified, ota, overlapped>>
Command(body) == Given(body, 0)
Failing(body) == Given(body, 1)

WriteEnable == \E v \in BOOLEAN :
                  /\ Command(Runtime(v))
                  /\ param' = v /\ file' = Saved(v) /\ unsaved' = FALSE

(* SetParam has changed the memory when the save fails, and returns: the   *)
(* temporary file does not open, or replaces nothing after the old one was *)
(* removed.  A save that falls short loses the line and goes unnoticed.    *)
WriteEnableFails ==
    \E v \in BOOLEAN :
       /\ \/ Failing(<<>>) /\ file' \in {file, "gone"}
          \/ Failing(Runtime(v)) /\ file' = "gone"
       /\ param' = v /\ unsaved' = ~v

WriteOther == /\ Command(<<>>)
              /\ file' = Saved(param) /\ unsaved' = FALSE
              /\ UNCHANGED param

WriteOtherFails == /\ Failing(<<>>)
                   /\ file' = "gone"
                   /\ UNCHANGED <<param, unsaved>>

(* Without a file LoadParams does nothing; without the line in it the group*)
(* keeps the value it has.                                                 *)
LoadParams == /\ file # "gone"
              /\ Command(Runtime(Read))
              /\ param' = Read /\ unsaved' = FALSE
              /\ UNCHANGED file

LoadNothing == /\ file = "gone"
               /\ \E body \in {<<>>, Runtime(param)} : Command(body)
               /\ UNCHANGED <<param, file, unsaved>>

(* The upload: suspendUwbForOtaIfSupported with the first chunk, and at the*)
(* end a response.  For a client that goes away nothing is called: such an *)
(* upload never ends, and another may begin.                               *)

Begin == /\ upload # "reboot" /\ todo["ota"] = <<>>
         /\ bounds.uploads < MaxUploads
         /\ bounds' = [bounds EXCEPT !.uploads = @ + 1]
         /\ upload' = "running"
         /\ todo' = [todo EXCEPT !["ota"] = IF param THEN Runtime(FALSE) ELSE <<>>]
         /\ UNCHANGED <<stored, flags, radio, notified, otaSuspended, overlapped>>

End(to, body) == /\ upload = "running" /\ todo["ota"] = <<>>
                 /\ upload' = to
                 /\ todo' = [todo EXCEPT !["ota"] = body]
                 /\ UNCHANGED <<stored, flags, radio, notified, otaSuspended,
                                overlapped, bounds>>

Fail == End("none", IF otaSuspended THEN Runtime(TRUE) ELSE <<>>)
Succeed == End("reboot", <<>>)

Reboot == /\ upload = "reboot" \/ bounds.boots < MaxBoots
          /\ Booted(Read)
          /\ bounds' = IF upload = "reboot" THEN bounds
                       ELSE [bounds EXCEPT !.boots = @ + 1]
          /\ UNCHANGED file

Next == \/ RadioTask \/ Finish \/ Hang \/ Elapse
        \/ (\E t \in Callers : Access(t))
        \/ WriteEnable \/ WriteEnableFails \/ WriteOther \/ WriteOtherFails
        \/ LoadParams \/ LoadNothing
        \/ Begin \/ Fail \/ Succeed \/ Reboot

(* The tasks run, an operation ends or its watchdog's time does; nobody has*)
(* to give a command, upload or reboot.  Time passes whenever RadioTask    *)
(* waits, ten milliseconds a pass; an operation lasts longer than a turn of*)
(* the service loop, so not every one ends before a notification in excess *)
(* is taken.                                                               *)
Fairness == /\ WF_vars(RadioTask) /\ WF_vars(Finish)
            /\ SF_vars(Elapse) /\ SF_vars(InExcess)
            /\ \A t \in Callers : WF_vars(Access(t))
Spec == Init /\ [][Next]_vars /\ Fairness
-----------------------------------------------------------------------------
(* Every flag, copy and register keeps its type.                           *)
TypeOK ==
    /\ {param, backend, enabled, suspended, attached, start, otaSuspended,
        overlapped, unsaved} \subseteq BOOLEAN
    /\ file \in {"on", "off", "gone"}
    /\ timer \in {"zero", "recent", "old"}
    /\ chip \in {"idle", "active", "done", "hung"}
    /\ notified \in 0 .. 2 /\ got \in 0 .. 2
    /\ upload \in {"none", "running", "reboot"}

(* A suspended radio is idle and its watchdog is off: whatever order the   *)
(* callers and RadioTask write their flags in, nothing is transmitted or   *)
(* restarted while a firmware image is being written.                      *)
SuspendedIsIdle == suspended => chip = "idle" /\ timer = "zero"

(* The radio is off in memory though the file has it on only because an    *)
(* upload has suspended it, and its note of that (uwbSuspendedForOta)      *)
(* outlives every command of the console; or because a write that switched *)
(* it off has failed to save that.                                         *)
OffForAReason ==
    ~param /\ file = "on" => otaSuspended \/ unsaved

(* A radio that stays enabled is served for ever: a start is not lost, and *)
(* neither a hung operation nor an interrupt that rose while its handler   *)
(* was detached stops it, unless two SetEnabled have run at the same time. *)
EnabledIsServed ==
    <>[](backend /\ enabled /\ ~overlapped) => []<><<Served>>_vars

(* A radio that stays disabled is suspended for good.                      *)
DisabledIsSuspended == <>[](backend /\ ~enabled /\ ~overlapped) => <>[]suspended
==============================================================================
