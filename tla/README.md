# RTLS-Link in TLA+

RTLS-Link is the firmware of an ESP32 with a DW1000 ultra-wideband radio. The same
board is an **anchor** (it transmits in its own TDMA slot and measures its distance to the
other anchors) or a **tag** (it only listens, computes its position from differences of arrival
times, and sends it to an autopilot). This directory models the parts of it whose control is
hard to get right: the schedule that the anchors find over the air, their two-way ranging and
the radio task under it; on the tag the engine that pairs receptions, the anchor model, the
dynamic anchor positions, the measurement buffer, the anchor geometry shared by its tasks, and
what it sends to the autopilot; the WiFi services that are rebuilt while they run, and the
parameter and configuration files under power loss.

Paths in this file are relative to the repository. `PROJECT.json` maps every definition to its
lines, lists the runs with their properties, a mutant for each property, the hazards and the
theorems. What the code does otherwise than its comments say, or than one would expect, is in
section 5.

## 1. The system

### Tasks and shared state

| task | code | what it shares |
|---|---|---|
| radio task (anchor or tag) | `src/uwb/uwb_tdoa_anchor.cpp`, `src/uwb/uwb_tdoa_tag.cpp` | on the tag: pair slots, anchor positions, estimator flags |
| position estimator | `estimatorProcess` in `uwb_tdoa_tag.cpp` | the same |
| WifiTask | `src/wifi/wifi_frontend_littlefs.cpp` `Update` | services, pending flags; runs management packets, thus commands |
| WifiConnTask | `StationConnectionThread` | services, link state |
| console | `src/console/console.cpp` | commands, thus every parameter |
| HTTP server | `src/ota/ota_handler.cpp` | radio enable, flash |

`commandQueueMutex` lets one command run at a time (a `PARAM_EXT_SET` packet bypasses it);
`measurements_mtx` protects the tag's slots and positions; `m_backendsMutex` the services;
`config_mutex_` and a TX mutex the beacon. Most of the difficulty is what is *not* under these
locks: atomic flags, and commands made of several critical sections.

### Components

Paths without a directory are under `src/` or `lib/tdoa_algorithm/src/`.

| component | state | operations | hard behaviours | what makes it correct |
|---|---|---|---|---|
| Anchor TDMA schedule (`tdoa_anchor.cpp`) | `slot`, `nextSlot`, `slotState`, `state`, `slot0MissCount`, `tdmaFrameStart` | `tdoa2Init`, `tdoa2UwbEvent`, `slotStep`, `updateSlot`, `setupRx/Tx` | lost packets, late radio commands, restarts in mid-frame, several frames at once | slot registers agree with the air, no collision on one frame, everyone ends up on the master's frame |
| Anchor ranging (same file) | ids, reception and transmission stamps, distances | `setTxData`, `handleRxPacket`, `handleFailedRx`, `calculateDistance` | ids wrap, stamps survive missed frames | stamps belong to the ids they are sent with; distances come from one exchange |
| Anchor radio (`uwb_tdoa_anchor.cpp`) | interrupt, enable and suspend flags, activity time | interrupt loop, `CheckStallWatchdog`, `SetEnabled` | interrupt, watchdog and two callers race | an enabled radio is served, a suspended one is idle |
| Tag measurement buffer (`uwb_tdoa_tag.cpp`, `tdoa_measurement_buffer.hpp`) | pair slots, `fresh_pair_count`, configured ids | `estimatorCallback`, `estimatorProcess`, `ApplyStaticAnchors` | three tasks, atomics outside the mutex, mutex timeouts | counter exact, batches solvable and current |
| Tag anchor geometry (`uwb_tdoa_tag.cpp`, `uwb_frontend_littlefs.cpp`) | positions, dynamic flags, reinit requests, hold-off, parameters | `SetParam` with its transactions and rollbacks, `maybeUpdateDynamicPositions`, `estimatorProcess` | a command is many accesses, each can fail | one geometry per solve; commits are whole; switching takes effect |
| Tag engine (`tag/*.cpp`) | per-anchor context, clock correction, storage with expiry | `rxcallback`, `tdoaEngineProcessPacket` | packets lost, expiry, wrap of sequence numbers | differences pair one packet, and come back after any loss |
| Dynamic anchor positions (`tag/dynamicAnchorPositions.cpp`) | distance table with freshness | update, calculate | staleness per pair | only fresh distances, locks hold, moves are followed |
| Anchor model (`uwb/tdoa_anchor_model.cpp`) | collected distances, lock, file | collect, lock, persist, clear | persistence in place | a locked model is whole and stored as reported |
| Beacon backend (`beacon/rtlslink_beacon_backend.cpp`) | configuration handshake, 8-bit sequence, retry time | `ConfigureAnchors`, `Update`, `ParseByte`, `SendPosition` | lost and late acknowledgements, writes outside the mutex | positions only after the current configuration was accepted |
| Parameter storage (`littlefs_frontend.hpp`) | `m_Params` of every frontend, `/params.txt`, `/params.tmp` | set, save, load | power loss, short writes | the other groups survive a save; no mixture |
| Configuration manager (`config_manager/`) | list, active name, `/configs/*`, backup | save as, load, delete | a load of six steps, each fails | whole or undone; active is listed |
| WiFi frontend (`wifi/wifi_frontend_littlefs.cpp`) | mode, link, services, pending flags | `Update`, `SetParam`, `UpdateMode`, `SetupNetworkServices` | services replace themselves, two mutexes | never deleted while running, requests take effect |
| Management protocol (`wifi/wifi_mavlink_management.cpp`) | MAVLink parser, replies | packets to parameters and commands | runs inside WifiTask's pass | as above |
| Firmware update (`ota/`) | suspended flag, reboot time | upload, finish, error | connection cut, reboot | radio comes back if the update does not |
| Commands and console | command mutex | text and binary commands | the mutex | one at a time |
| Position estimator (`lib/tdoa_newton_raphson`) | none | solve | numeric only | out of scope |
| Application, MAVLink output (`app.cpp`) | times of last sends, parameters | `Update`, `SendSample`, the rangefinder's callback | a task of higher priority interrupts; five time limits | origin neither early nor late, a height always |
| Scheduler, boards, logging, utilities | none of interest | wrappers | - | out of scope |

Interactions: the anchor radio task drives the schedule; the schedule's packets are the tag
engine's input; the engine's pairs go through the measurement buffer to the estimator; the
estimator uses the geometry that commands or the dynamic calculator set; the same commands
configure the beacon; every command goes through the parameter storage; a configuration load
calls the load of every group; WiFi, console and management run the commands.

## 2. The modules

| module | models | composed with |
|---|---|---|
| `TdmaSchedule` | schedule of all anchors on one band | - |
| `TdoaAnchor` | ranging on that schedule | EXTENDS and refines `TdmaSchedule` |
| `AnchorRadio` | one anchor's radio task, its callers and the upload | its events are those of `TdmaSchedule` |
| `TagEngine` | packets to pairs of receptions | the anchors' packets are choices |
| `AnchorModel` | collection, lock and file of the distances between anchors | packets are choices |
| `DynamicAnchors` | distances to published positions | publishes what `TagGeometry` calls dynamic |
| `MeasurementBuffer` | pair slots, counter, batches | its solver and anchors are choices |
| `TagGeometry` | positions, flags, commands and rollback | its buffer is the set of geometries of the rows |
| `AppOutput` | heartbeat, health, origin and rangefinder towards the autopilot | positions are choices |
| `WifiServices` | services, flags, locks, link | commands are their locks and writes |
| `ParamStore` | parameters, files, configurations, crashes | groups are opaque values |
| `Beacon` | the backend's tasks, its mutexes, the line and the autopilot | implements `BeaconPromise` |
| `BeaconPromise` | what is accepted is what was given and confirmed | - |
| `*Proofs` | theorems of the module of that name; those of `TdmaSchedule` are in `TdoaAnchorProofs`, of `TagGeometry` and `AppOutput` in `TagOutputProofs`, of `AnchorModel` and `ParamStore` in `PersistenceProofs`, of `MeasurementBuffer` and `WifiServices` in `MutexProofs` | EXTENDS them and TLAPS |
| `MC*` | definitions for a TLC instance | EXTENDS the module |

The specifications of `AppOutput`, `ParamStore` and `WifiServices` are named `OSpec`, `SSpec` and `WSpec` (likewise their
`Init`, `Next`, `vars` and `TypeOK`), because a proof module extends each of them together with another component.

**TdmaSchedule.** `ctx[a]` is the algorithm's context of anchor `a` and what its radio is armed
for. Time is one variable `now`, the slot on the air modulo a frame; `SlotEnds` ends it for every
anchor at once, and `SlotStep` is one call of the event handler on an anchor, with the reception
or its failure and then the command for the next slot (`slotStep`, `handleRxPacket`,
`handleFailedRx`, `setupRx`, `setupTx` in their order). `JoinFrame`, `StartMaster` and
`ListenForMaster` are the branches of `tdoa2UwbEvent` that are not synchronised. `heard` chooses
what each anchor decodes: a lone packet arrives or is lost, colliding packets may be captured.
`SuspendRadio`, `MissDeadline` (a command armed for the past, which the DW1000 drops),
`Start` and `CheckStallWatchdog` are the radio task around it.
The phase of a frame start is kept, its radio ticks are not.

**TdoaAnchor.** `rng[a]` holds the ids, stamps and distances. A stamp is the id of the packet it
belongs to, so a distance is a time of flight exactly when its four stamps belong together,
and otherwise `"garbled"`. Ids wrap at `PidMod` (256 in the code). Every action is an action of
TdmaSchedule with the changes of these registers.

**AnchorRadio.** `todo[t]` is what task `t` still has to do, each step one access to the three flags
that no lock protects: `m_radioEnabled`, `m_radioSuspended`, `m_startRequested` and the attachment of
the interrupt. The radio task takes a pass every ten milliseconds, notified or not, and in it
suspends, resumes, starts, serves notifications and lets the watchdog look. `SetRuntimeEnabled` is called
by the console's parameter writes and by the upload, which switches the radio off with its first
chunk and on again only when it fails; an upload whose client goes away never ends, and another may begin. The chip finishes, or
hangs. `file` is what is on flash of the parameter: a write changes the memory first and saves it then, and the save may
fail with the old file kept or gone (`WriteEnableFails`); a load takes the value back (`LoadParams`, `LoadNothing`).

**TagEngine.** One anchor speaks per slot. `Receive` is the whole handler of a packet: remote data stored
with its expiry, clock sample through the leaky bucket, search by either matcher, measurement, and only
then the tag's own reception. A timestamp is the frame of its packet, so that a measurement says which
packets it paired; sequence numbers are frames modulo `SeqMod`. Packets are lost at the tag, unheard by
the sender, or without a time of flight, and a clock sample may be wrong or out of specification.

**AnchorModel.** Parameters are read by `ReadParams`, before the mutex, and used by `Process`, under it, with
writes and commands in between. A time of flight is the domain it was measured in, so that a collection
across a change of the domain is `"MIXED"`. A lock writes the file at once, which may fail in two ways;
`PowerLoss` boots from the file. `wrong` counts the replacements by values of another domain.

**DynamicAnchors.** A sample is the epoch in which it was measured, an average and a position the set of epochs
that went into them, so that a position of an anchor that has been moved is told by its epochs. The radio's task
is split at the calculator's mutex and at the publication, a command at the store of its parameter and its
application. The two axes and the corner between them stand for the lower plane, `"upper"` for the second one.

**MeasurementBuffer.** Each critical section of `measurements_mtx` is split at the points where
shared state is touched: the radio's task stores, then counts; the estimator copies the batch
(prune, select, expire), then subtracts; a configuring task writes the anchors, then clears, or is refused
because their ids leave a gap. The timeouts of the mutex are steps that give up. Ages are in ticks up to one
past stale. `outdated` is a history variable: the slots whose row is older than the last change.

**TagGeometry.** A command is a sequence of named accesses (`Program`, `Rollback`), each taken by
`Access` with those of the other two tasks in between, and failing where the code has a mutex with
a timeout or refuses the parameters. The radio's task is split at its test of `s_useDynamicPositions`, the
calculation, the publication under the mutex, and the beacon. The estimator's is split at the hold-off, the
reinitialisation request, the copy and the solve. The diagnostics, and where the solver starts from, are left out.

**AppOutput.** Time stamps are ages that saturate where no comparison tells them apart. `Update` is three
steps (`Capture`, `Health`, `Fallback`) that read one time; `SendSample`, of a higher priority, comes between
any two of them, and may stamp a later millisecond than the one `Update` has read (`ahead`).
`good`, `ready`, `steady` and `height` are observations for the properties.

**WifiServices.** Every task `t` has `todo[t]`, the accesses it still has to make; a function of the
frontend is a sequence of them (`UpdateMode`, `SetParamMode`, `Update`, ...), so that a test of a
flag and the action on it can be separated by any other task. `Request` is a packet served in
WifiTask's pass or a line typed at a console: a parameter write (of a packet without, of a console with the command mutex),
whose save may fail, or a command, which loads the parameters of this group from a file (`Loads`: `load-config`,
`load-config-named`) or leaves them alone. A load and a failed save change `m_Params` and request nothing. `asked` observes
the mode of the last request. The link comes and goes (`Reach`).

**ParamStore.** A command is its sequence of file and memory accesses, and between any two the
power may go (`Restart` reads the files as the boot does). The failing operations of the code are
the `...Fails` actions and `LoadBusy` (a mutex the estimator keeps); `WriteShort` and `SaveMetadataShort` are a `println` and a
`print` whose results nobody looks at. What `LoadMetadata` makes of metadata cut short is the active name without the list, nothing,
or, when they were not committed, the old ones; `cut` remembers that this has happened. Files are
committed when closed, as LittleFS does, so a file that is opened, written and closed is one access, and
`/params.txt` is replaced by two more, its removal and the renaming of `/params.tmp` (`Replace`). `cmd` remembers
what the command started from, for the properties.

**Beacon.** The frames to the autopilot and its answers are two bounded queues; `Update` reads the
answers that are there, checks whether a configuration is needed, tests the retry time and sends
the configuration frame by frame, each of these a step, because the mutex is given back and the
retry time is never under it. `CheckPosition` and `SendPosition` are apart for the same reason;
`EnqueueTdoa` and `SendTdoa` are apart to show what happens while the mutex is kept. The autopilot
is external and modelled by what the code expects of it: OK with the sequence number of a complete
configuration, an error to anything else that needs one (`AckStatus` names them), and everything it
was being given void after a damaged frame. `BeaconPromise` is the abstract specification:
anchors are wanted, agreed with the autopilot, or no longer agreed. The mapping takes the history
variable `agreed` (what the acknowledgement in force confirmed), so an acknowledgement of other anchors
than the wanted ones is no step of it.

## 3. The runs

| run | instance | shows |
|---|---|---|
| `tdma_schedule` | 3 anchors, 3 slots, 3 misses; anchors 0 and 2 disturbed | `InStep`, `NoCollision`, `LockIsStable`, `Converges` |
| `tdoa_anchor` | 2 anchors, ids mod 4, master disturbed | `DistanceHasReception`, `AllPairsRanged` |
| `anchor_radio` | 2 commands, 1 upload, 1 hang or failed save, the reboot after an upload | `SuspendedIsIdle`, `OffForAReason`, `EnabledIsServed`, `DisabledIsSuspended` |
| `tag_engine` | 3 anchors, sequence numbers mod 2, bucket 1, 25 slots, 3 faults | `SamePacket`, `RemoteIsRecent`, `Recovers`, `ClockIsHeld` |
| `anchor_model` | 2 anchor counts with 1 and 2 pairs, 2 samples, window 2, 2 locks or resets per boot, 1 write, 1 power loss | `LockedIsWhole`, `PersistedIsStored`, `WrongDomainIsCaught`, `LockSurvives` |
| `dynamic_anchors` | averages of 2, stale after 2 frames, updates every 2; 1 move, 2 commands, 2 faults; one corner and the upper plane may be locked | `LockHolds`, `LiveIsRecent`, `Follows` |
| `measurement_buffer` | 3 anchors, 3 pairs, configurations {}, {0,1}, all; batch of 2 rows and 3 anchors, span 1, stale 2 | `CountMatchesSlots`, `BatchIsSolvable`, `NothingOutdatedIsTaken` |
| `tag_geometry` | 2 static configurations, 2 commands of 5 kinds | `OneGeometry`, `StaticUnlessSwitched` |
| `app_output` | limits of 1 and 2 ticks, 1 parameter write, every uptime at the boot | `OriginIsTimely`, `HeightKeepsComing`, `OriginAfterHealthySpell` |
| `wifi_services` | 1 console, 2 configurations, 2 requests | `DeleteOnlyOutside`, `ModeApplied` |
| `param_store` | 2 groups, 2 values, 3 names, 2 configurations, 5 commands, 2 faults, 1 power loss | `ActiveIsListed`, `LoadedIsInForce`, `FailedLoadIsUndone`, `NeverAMixture` |
| `beacon` | 2 configurations given twice, sequence numbers mod 6, 2 frames and 1 answer on the line | `TdoaUnderItsConfig`, `KeepsPromise`, `Configured` |

`tdma_schedule` and `measurement_buffer` also check their type invariant. The comment before each property in its
module says what it means; those with an exception name it (`overlapped`, `unsaved`, `skipped`, `changes`, `ahead`, `cut`, `hurt`,
`out.by = "Random"`, `NeverSwitched`, `OneSwitch`, `Crossed`, `packet.overtaken`), and section 5 says what the code does there.

Some properties leave out what would make them false for a known reason. `ModeApplied` speaks of behaviours in which no console's
write crosses WifiTask's pass (`Crossed`): with one the code does deadlock or lose a request, and the run has those
behaviours too. `tag_geometry` has no `"dynamic off"` in `Commands`, and `OneGeometry` speaks of behaviours that switch dynamic positions on once at most and never off (`OneSwitch`): a calculation
that was under way over a switch back, and a second switch on (also one after a first that failed and was undone), leave rows
of both geometries in one batch. `NeverAMixture` allows the compiled values.

**Why the bounds are enough.** *Schedule:* the third anchor is the smallest with an anchor that is
neither the master nor the one next to it, which is special (slot 1 is armed by the handler
that gives the frame up). All frame phases and all combinations of loss occur; the number of
disturbances is unbounded until `quiet`. *Ranging:* `PidMod` 4 makes ids wrap within a few frames, so
old stamps meet equal ids. *Radio:* two commands beside an upload overlap with it in every order, switch off and on
again within its suspension and put a save between; a hang or a failed save, and an upload that is left unfinished, meet each of these states. A second upload after an unfinished one is left to the proofs. There is no reboot
but the one that ends an upload: any other leads to an initial state, with fewer commands left. *Engine:* with
numbers modulo 2 a report lives almost until its number comes round (`SeqAssumption` allows validity 5 and no
more); three faults are what it takes for the tag to miss as many packets of one anchor as there are numbers, with one
to spare; three anchors give a matcher two to choose from. 25 slots are eight frames, room for the faults and for
`RecoverySlots` after them. *Model:* two counts differ by one pair; two samples let a collection be too short, mixed or
full; two locks with a power loss let a version be written over. *Dynamic anchors:* an average of two can hold samples
of two placements; an average goes stale during an update interval and after it; two commands lock, unlock and
reconfigure around a publication. *Buffer:* three pairs let a batch be one too small, just enough and one more,
with rows on each side of the span and of the stale age; there is no bound on the steps.
*Geometry:* two commands are what a rollback, a re-enable or a second commit needs to meet state
left by a first. *Output:* each limit is compared on both sides of it; the two of two ticks are those that code and
properties subtract from. *WiFi:* two requests are a mode change and its undoing, a load or a failed save before or after a
request, or a packet's and a console's at once; each meets every state of the link and of the pass. *Parameters:* the lifecycle of a
named configuration (save as, change, save as, load, delete) takes five commands; two faults let an undo fail too; two names
fill the list and a third finds it full. A restart forgets all but the files, so what a second one finds is what the first found with
fewer commands behind it.
*Beacon:* two changes let every answer be one to an earlier configuration. With two frames and one
answer on the line and three frames in a configuration, numbers modulo 5 repeat while an answer to an
old one can still come, and `KeepsPromise` is false; modulo 6 it holds, with numbers repeating all the
time. In the code a configuration is at most 11 frames and numbers repeat after 256, so
an answer would have to be more than twenty retries late.

**Symmetry** is used for the configurations' names in `param_store` and for the static geometries in
`tag_geometry`, which no action compares except for equality, and in no run with a liveness property. **Deadlock** is
checked except where bounds end a behaviour (`tag_geometry`, `param_store`, `tag_engine`), in `anchor_radio`, where
a disabled radio is left with nothing to do once the commands are used up, and in `wifi_services`, where WifiTask and a console
really wait for each other's mutex (section 5).

### Fairness

*TdmaSchedule, TdoaAnchor.* Weak fairness of the slots (time passes), of the radio task's start and
watchdog (a 10 ms loop) and of `BecomeQuiet`. The last is an assumption on the environment: the
disturbances end. `Converges` and `AllPairsRanged` are false without it, for a band that is
jammed for ever. Once quiet, a lone packet arrives; packets that collide still need not.

*AnchorRadio.* Weak fairness of the radio task (a 10 ms loop), of each caller's next access and of the chip
finishing; strong fairness of `Elapse`, the time of the stall limit, which is disabled for the moments of a pass, and of
a service for which the chip has nothing to say, because an operation lasts longer than a turn of the service
loop. No command, upload, end of an upload or reboot has to come, and an operation may hang for good.

*WifiServices.* Weak fairness of the two periodic tasks, strong fairness of each task's next access.
The tasks have one priority, FreeRTOS time-slices them, and a mutex goes to the
waiting task first in line, so a lock that is free again and again is taken. Nothing is assumed of the
access point or of the requests.

*Beacon.* Strong fairness of `Update`'s steps and of the position's check (mutexes as above, and positions
keep coming, without which an autopilot that rebooted is never noticed), weak fairness of the line and
of the autopilot's answers, strong fairness of the retry interval. `calm` is the assumption that in
the end nothing is damaged, no anchors change, no autopilot reboots and no timeout strikes, and that the
autopilot then answers within the 500 ms of a retry: an autopilot that always took longer would never be
matched, since every retry has a new number.

The other specifications have no fairness. What must happen in them is stated with a clock instead, as an
invariant with a bound: `Recovers` (slots without a fault), `Follows` (frames of calm), `OriginIsTimely` and
`HeightKeepsComing` (ticks).

## 4. The proofs

`tlapm` proves, for every value of the constants that the modules' named assumptions allow:

| module | theorems |
|---|---|
| `TdoaAnchorProofs` | schedule: `TypeCorrect`, `SlotRegistersInStep`, `CollisionFree`, `TransmittersInSync`, `AlignedStaysAligned`; ranging: `ImplementsSchedule`, `RTypeCorrect`, `StampsAreOfTheirPackets`, `DistancesHaveReceptions` |
| `AnchorRadioProofs` | `TypeCorrect`, `SuspendedRadioIsIdle`, `RadioIsOffForAReason` |
| `TagEngineProofs` | `TypeCorrect`, `PacketsMatch`, `ReportsAreRecent`, `CorrectionIsHeld`, `MeasurementsComeBack` |
| `PersistenceProofs` | model: `TypeCorrect`, `LockedModelsAreWhole`, `PersistedModelsAreStored`, `WrongDomainsAreCaught`, `LocksSurvive`; parameters: `StoreTypeCorrect`, `ActiveStaysListed`, `LoadPutsInForce`, `FailedLoadChangesNothing`, `PowerLossLeavesNoMixture` |
| `DynamicAnchorsProofs` | `TypeCorrect`, `LocksHold`, `LiveGeometryIsRecent`, `GeometryFollows` |
| `MutexProofs` | buffer: `TypeCorrect`, `CounterIsExact`, `BatchesAreSolvable`, `BatchesAreCurrent`; WiFi: `ServicesOutliveTheirPass` |
| `TagOutputProofs` | geometry: `TypeCorrect`, `SolvedWithOneGeometry`, `StaticAnchorsStay`; output: `OutputTypeCorrect`, `OriginComesInTime`, `HeightsKeepComing`, `OriginNeedsHealthySpell` |
| `BeaconProofs` | `TypeCorrect`, `TdoaKeepsItsConfig`, `RefinesPromise` |

*Schedule.* `InStep` is not inductive: whether an anchor is armed for the right slot next depends
on its `slotState`, on what it was armed for and on whether it is the master before its first frame. The
inductive `Inv` adds these to one `AnchorInv(a, c, t)` per anchor, and a lemma per handler
(`SlotStepInv`, `JoinFrameInv`, `StartMasterInv`, `Tdoa2InitInv`, ...) shows that the handler keeps it
from one slot to the next; a step is then the handlers of all anchors at once. `CollisionFree`
follows: on one frame, armed for the same slot, and armed to transmit only in one's own slot.
`AlignedStaysAligned` is an action property: from `Locked` in a quiet band there is exactly one sender
and everyone hears it. It uses that fewer anchors than slots leave the empty slots silent, and says nothing
about how the network gets to `Locked`; that is `Converges`, which only TLC checks.

*Ranging.* Every step of `RNext` is a step of `Next` (`ImplementsSchedule`), so the schedule's
invariant is available; `RInv` adds that an anchor armed to transmit has stamped its packet. With it, the
packet that a receiver files has a stamp, and the stamp is that of its id.

*Radio.* What `SuspendedIsIdle` needs is where each task is: the radio task may set `m_radioSuspended` only when it has
idled the chip, may start it only after it has cleared the flag, and the callers, in whatever step they are, touch
neither the chip nor the watchdog. `OffForAReason` excepts the write whose save failed (`unsaved`). So the invariant lists the sequences of steps that each task can be left with
(`RadioSteps`, `ConsoleSteps`). The upload's note changes together with the parameter
(`Noted`): the code writes it after the last step of `SetEnabled`, and only the upload reads it.

*Engine.* A report names the last packet its sender heard, at most a frame before it was sent; the tag's own reception
is of a packet no later. Equal numbers then mean the same packet or one at least `SeqMod` frames older, and the report's
age (`SeqAssumption`) excludes that the tag's is the newer. The invariant bounds, for every stored report, the slot in
which it came by its end of life. `ClockIsHeld` compares the bucket with the history `held`: the bucket is at
least the agreeing samples less the disagreeing ones. For `Recovers` the invariant counts, per anchor, the undisturbed
packets since the last fault: `j` of them have left the right correction or a bucket of at most `BucketMax + 1 - j`
(`Progress`), with `N * (j - 1) + Ago(a)` slots for them, where `Ago` is how long ago the anchor's turn was. A reliable sample then
finds a match, since the packet of the slot before was heard (`Latest`) and no other context is younger (`Past`). The
theorem has a hypothesis, `Measurable`: a second anchor, and reports and distances that live for a slot, which the
periods of 30 ms and 2 s are.

*Model.* The invariant speaks of the state and the file as one value `[m, p]` and `file`, because every operation is a
composition of the class's helpers: `Good` says that a lock is whole and that a persisted one is the file's, and a lemma
per helper (the change of the count, the sample, the lock, the health window) shows that it keeps it. `Counted` ties
the count of wrong replacements to the pair's health window: there are no more of them than packets counted, and a window
with one of them ends unhealthy.

*Dynamic anchors.* `LockHolds` holds since what is pinned is the calculator's `locked` position, which only an unlocking or a
configuration changes, and since a result that was calculated before such a change pins nothing. `Recent` says for
`LiveIsRecent` that a result in hand is at most `Stale` old, that a live geometry which is not being skipped was published with
`oldest` at most `Stale` plus the time `since` then, and that `since` is below the interval whenever the radio's task waits. For
`Follows`, `Calm` describes the way back by the number of calm frames: when an accumulator's sum is of the present place alone, when an
average is, how old it is then (as many frames as its successor has samples), and how close the next update is.

*Buffer.* `CountMatchesSlots` speaks of a free mutex. The invariant says what holds inside:
`freshCount = Cardinality(fresh) + Unsubtracted - Uncounted`, each term owned by the holder, and `Locking`
ties the program counters to the holder. `Batches` keeps the batch enough and within the
configured ids until it is copied, and shows that between the writing and the clearing of a
configuration nobody else is inside.

*WiFi.* No service is replaced while the mutex is held, so `DeleteOnlyOutside` follows from `updating => held`. That is
not inductive: it depends on the accesses that WifiTask has left. The invariant says that accesses to the mutex and to the flag are
only in what WifiTask has left of its pass, always the end of `Update` from its first, second, third, fourth or
eleventh access on, behind whatever a served packet has put before it; which of these it is tells whether the mutex is held and the
flag set. It needs no assumption on the consoles, so `ServicesOutliveTheirPass` holds with any number of them, in the behaviours that `ModeApplied` excepts too.

*Geometry.* A command is a sequence of accesses between which the other tasks run, so the invariants speak of what is left of the
sequence. For `OneGeometry` it is not enough that the rows are of the live anchors (`Rows`): a publication keeps the rows if it finds an
announcement, so an announcement found has to be of positions that are not static (`Announced`), and that depends on `Order`: no command with dynamic
positions has an access left that makes static ones live, switching on begins with the radio's task as at the boot, and while
positions are static the radio's task either finds no announcement or the command has yet to withdraw it. For `StaticUnlessSwitched`
(`Statically`) a command that makes anchors live has that still to do and, when refused, what was live before to fall back to; every other
command, and every rollback, has no access left that changes what is live from what is configured.

*Output.* The ages are of stamps that the code compares with each other, so `OutputInv` says how they are ordered: the code's stamp of the
last unhealthy pass is at most a tick older than the spell it measures (`SpellIsMeasured`), while the origin could be sent `Update` finds the device healthy
(`StaysReady`) and, once the spell is over, attempts it in every pass that is due (`IsAttempted`), and a height leaves with every sample or fallback
(`HeightsComeWith`). `SendSample` comes between any two steps of `Update`, so the parts are stated for the step that `Update` is at and for `ahead`. `OriginIsTimely` allows one tick on either
limit for the pass in which the code notices.

*Parameters.* The properties compare what a command leaves with what it has found, so the invariant (`StoreInv`) has one description per kind of
command of what is left of it and what has been done by then. For a load of a configuration (`Loading`): before its backup nothing is changed, from then on
`/params.bak` holds what was in force, after the copy `/params.txt` is the configuration, then the active name, then the metadata, and then
every group that is not still to be loaded; `Undoing` says the same of restoring them. For a save (`Saving`): `/params.txt` is the old or the new content, or it is removed and
`/params.tmp` is the new one, which the boot does not look at. That is why the compiled values are among the outcomes of
`PowerLossLeavesNoMixture`. `CutShort` says what a short write of the metadata leaves, which is why `LoadPutsInForce` and
`ActiveStaysListed` except it.

*Beacon.* A token is an end frame on the line or the OK that answers one. `Tokens` says that the one with the expected number, if
there is one, is the last and is about the present anchors, and that there is none while a configuration is accepted. Numbers repeat,
so this needs that a new end has a number no token has: the frames behind an end on the line were written after it (`Numbered`), and an
OK that `Update` has not read when it starts was sent for an end behind which the line has been filled at most once, with a position and the
frames of this `Update` after it (`Fresh`). That is at most `Capacity + 3` frames, hence `SeqAssumption`. `Given` says that
what lies on the line before an end makes the autopilot take the anchors of that end, or refuse it.

`TypeCorrect` of a module is proved from the same invariant, or is a part of it. The assumptions used are
`ScheduleAssumption`, `PidAssumption`, `BufferAssumption`, `GeometryAssumption`, `LimitsAssumption`, `StoreAssumption`, `EngineAssumption`, the `SeqAssumption` of `TagEngine` and of `Beacon`,
`CountsAssumption`, `DynamicAssumption`, `LockableAssumption`, `BeaconAssumption`, `RequestsAssumption`, `ConfigsAssumption`, `ConsolesAssumption` and the `BoundsAssumption` of `AnchorModel` and `AnchorRadio`; TLC evaluates
them in the runs.

**Only model-checked.** The liveness properties (`Converges`, `AllPairsRanged`, `EnabledIsServed`,
`DisabledIsSuspended`, `ModeApplied`, `Configured`): the prover does not reason about fairness and ENABLED. Every
invariant and action property of the runs has its theorem. Nothing by induction over data is needed, and no module
declares a RECURSIVE operator.

## 5. Divergences

What the code does otherwise than a comment of it says, or than a reader would expect. The models have these
behaviours; the properties are stated so that they hold with them, and name the exception.

*Ranging.* `calculateDistance` tests ids only (`lib/tdoa_algorithm/src/anchor/tdoa_anchor.cpp:356`): after a start,
or after a skipped frame, a distance is computed from stamps that are no exchange.

*Radio.* Two `SetEnabled` at the same time, a console's and the upload's, can leave the radio enabled with its handler
detached, and nothing attaches it again (`uwb_tdoa_anchor.cpp:322`). A save of any parameter of the group during an upload stores
`uwbEnable = 0`, so the radio stays off after the reboot (`ota_handler.cpp:34`). An upload that is cut off calls neither handler:
the radio stays suspended. A write of `uwbEnable` whose save fails returns without undoing what it changed in memory
(`uwb_frontend_littlefs.cpp:636`): memory and file disagree until a later save, load or restart. A failed upload enables the radio again even if the user has disabled it meanwhile.

*Tag engine.* The tag's own reception of a packet never expires, so an anchor of which the tag has missed as many packets as there are
numbers (128) is paired with the wrong packet (`tdoaStorage.cpp:209`). The random matcher takes a context that an earlier search
created for an anchor never heard, with reception time 0 (`tdoaEngine.cpp:189`).

*Anchor model.* A packet whose parameters were read before a command changes the model under them: with the old anchor count it clears a
newer model (`tdoa_anchor_model.cpp:182`). Changing the domain keeps a locked model whose values are then wrong until the health window ends, and a
collection across the change locks a mixture. `tdoaAnchorModelMinSamplesPerPair` above the 160 samples that are kept never locks.

*Dynamic positions.* A partly filled average never ages, so samples from before a silence are averaged with those after it
(`dynamicAnchorPositions.cpp:95`). The anchor count is stored before the calculator is configured: the radio's task may publish eight anchors
of a calculator that has four, four of them from uninitialised stack (`uwb_tdoa_tag.cpp:2295`); a result calculated before the calculator was
configured is published after it. A clear of the estimator's anchors whose mutex timed out is never repeated (`:2305`). `distanceAvgSamples` may be
set up to 1000, more than the anchors send in the five seconds of staleness; there are then no positions between two averages.

*Geometry.* Switching dynamic positions off races with the radio's task (`uwb_frontend_littlefs.cpp:716`, `uwb_tdoa_tag.cpp:2285`): a pass that has read the
flag publishes its positions over the static ones, which stay, although `uwb_params.hpp` says of 0 "static (use configured positions)".
The reset of the calculator that a busy mutex skipped is not repeated, and switching on again uses what is left.
A publication drops the older rows only if it finds none announced (`uwb_tdoa_tag.cpp:2346`); a pass that announces after a switch back, or after a
switch on that failed and was undone, leaves the announcement, and the next switch on keeps rows of the static geometry.
`ApplyDynamicAnchorRuntimeConfig` clears the request and the beacon's anchors of a publication that came before it (`:2188`).

*Buffer.* A wake that falls short after the rows beyond `maxBatchSpanUs` were expired discards current
rows (`tdoa_measurement_buffer.hpp:87`), although the comment at `uwb_tdoa_tag.cpp:1697` says that a partial
batch is left fresh.

*Output.* `Update` subtracts from the time it has read at its start the time of a sample that interrupted it: the unsigned difference is
then huge, and a healthy device passes for silent, which restarts its spell of health and re-emits the rangefinder (`app.cpp:289`).

*WiFi.* "Apply mode changes immediately when requested" (`wifi_frontend_littlefs.cpp:373`) is not true of the mode that a configuration load
brings: `Front::LoadAllParams` changes `m_Params.mode` and requests nothing, whoever runs the command, so the old mode stays until the next
mode write or boot. A write whose save fails (`:369`) leaves the new mode in memory and unapplied too.
A console's mode write holds `commandQueueMutex` and wants `m_backendsMutex`, a command served by WifiTask the other way round
(`wifi_frontend_littlefs.cpp:343`); in other interleavings a pending flag is lost (`:180`), or the flag is taken before its mode, and the mode
becomes `UNDEFINED` with all services gone. Services are built before
`m_stationConnected = true` (`:291`): a parameter written in between reaches none of them while the link lasts.

*Parameters.* `SaveMetadata` ignores the result of `print` and returns true (`config_manager.cpp:446`): on a full flash a load or a save is
reported done, and a restart brings up the new parameters under the old active name, under none, or a name without the list.
A power loss between `remove("/params.txt")` and the rename resets every group (`littlefs_frontend.hpp:238`); a short `println` is not
noticed (`:201`).

## 6. What is not modelled, and why

* Floating point (the estimator, the distance formula, the coordinates of the dynamic positions): no control to
  check; the models choose among its outcomes.
* Radio ticks: the clock arithmetic of `adjustTxRxTime` and the drift between anchors. The schedule is
  exact in slots; guard times are not represented.
* Encoding: packet bytes, MAVLink, JSON, parameter text, the binary command protocol. The reports and statistics of
  `app.cpp`, of the anchor model and of the tag, which nothing reads back.
* A crash inside an open file: a file system matter.
* Two tasks inside the parameter storage at once (`PARAM_EXT_SET` takes no command mutex): listed as a
  hazard, the model runs one command at a time.
* `TdmaSchedule`: an enabling that overtakes the suspend it follows gives the algorithm an event without `tdoa2Init`
  (`uwb_tdoa_anchor.cpp:159`); the flags of it are in `AnchorRadio`, the slot it skips is not in the schedule.
* `AppOutput`: whether the port takes a height that is handed to it (`app.cpp:114`, `:303`), which is logged and not repeated. A height
  sent is one handed over.
* Two command tasks in `TagGeometry`, and what the race of a layout change with the first publication does to the
  beacon: listed as hazards.
* The tag's interrupt flags and its enabling (`uwb_tdoa_tag.cpp:1045`): listed as a hazard. The eviction of the
  engine's storage, which has more slots than there are anchors.
* `ConfigManager::SetActiveConfig` and `lockAnchor`/`unlockAnchor`, which have no caller; logging settings; boards and build variants.

## 7. Plan

1. The tag's radio loop with its interrupt flags, enabling and the watchdog, feeding `TagEngine`.
2. The firmware update's routes in `ParamStore`, and parameter writes of a second task.
3. Proofs: that no mode is taken torn in `WifiServices` but for `Crossed`; abstract specifications
   for the buffer (a counter and a set) and for the storage (a register of groups that
   restarts with an old or a new value) with their refinements.
4. Runs that end in a violation for the divergences that contradict a comment (ranging, geometry, WiFi, parameters).
