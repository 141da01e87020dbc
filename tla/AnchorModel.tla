----------------------------- MODULE AnchorModel -----------------------------
(***************************************************************************)
(* The tag's model of the distances between anchors (TDoAAnchorModel): the *)
(* inter-anchor times of flight heard in the anchors' packets are collected*)
(* over a window, locked pair by pair, kept in /tdoa_anchor_model.bin, and *)
(* then handed to the TDoA engine in place of the ones in later packets.   *)
(*                                                                         *)
(* Every operation runs under m_mutex, but the radio's task reads the      *)
(* parameters before it takes the mutex, and consoles write them and give  *)
(* the model's commands from tasks of their own.  A time of flight is known*)
(* by the domain it was measured in: raw, or less the antenna delays.      *)
(* The memory for the samples is taken to be available.                    *)
(***************************************************************************)
EXTENDS Naturals, Sequences, FiniteSets

CONSTANTS Counts,        \* anchor counts the parameters can ask for
          Pairs,         \* pairs of anchors
          ActivePairs,   \* the pairs of the first c anchors, for each count c
          MinSamples,    \* tdoaAnchorModelMinSamplesPerPair
          MaxSamples,    \* kMaxSamplesPerPair
          HealthWindow,  \* tdoaAnchorModelHealthWindow
          HealthQuorum,  \* tdoaAnchorModelHealthQuorum
          MaxVersion,    \* bound: locks and resets since the last power-on
          MaxWrites,     \* bound: parameter writes in a behaviour
          MaxBoots       \* bound: power losses in a behaviour

ASSUME CountsAssumption == /\ Counts \subseteq Nat \ {0}
                           /\ ActivePairs \in [Counts -> SUBSET Pairs]
ASSUME BoundsAssumption ==
    /\ {MinSamples, HealthWindow} \subseteq Nat \ {0}
    /\ {MaxSamples, HealthQuorum, MaxVersion, MaxWrites, MaxBoots} \subseteq Nat

Modes == {"OFF", "MONITOR", "LOCKED_ANCHOR_MODEL"}
Domains == {"RAW_EFFECTIVE", "PROPAGATION"}
Collects == {"IDLE", "ACTIVE", "DONE", "FAILED"}
NoTof == "none"
NoFile == [domain |-> NoTof]
NoPacket == [pair |-> NoTof]

VARIABLES
    params,  \* the parameters of the model, as the front end holds them
    model,   \* the state under m_mutex
    pair,    \* m_pairs, with m_samples
    file,    \* what LoadPersistedModelLocked would find
    packet,  \* the packet in hand, with the parameters read for it
    wrong,   \* observation: per pair, how many replacements in a row were
             \* in a domain other than the packet's
    bounds   \* parameter writes and power losses so far

vars == <<params, model, pair, file, packet, wrong, bounds>>

Params == [mode : Modes, domain : Domains, count : Counts, startup : BOOLEAN]
Model == [mode : Modes, domain : Domains, active : Counts, collect : Collects,
          started : BOOLEAN, locked : BOOLEAN, modelCount : Counts \cup {0},
          persisted : BOOLEAN, fallback : BOOLEAN, version : Nat]
Tofs == Domains \cup {"MIXED", NoTof}
Pair == [samples : Seq(Domains), locked : BOOLEAN, tof : Tofs, healthy : BOOLEAN,
         received : Nat, bad : Nat]
File == [domain : Domains, count : Counts, version : Nat, tof : [Pairs -> Tofs]]
-----------------------------------------------------------------------------
(* The helpers of the class, as functions of its state [m, p].             *)

ClearSamples(p) == [i \in Pairs |-> [p[i] EXCEPT !.samples = <<>>]]
ResetHealth(p) ==
    [i \in Pairs |-> [p[i] EXCEPT !.healthy = TRUE, !.received = 0, !.bad = 0]]
Unlocked(p) == [i \in Pairs |-> [p[i] EXCEPT !.locked = FALSE, !.tof = NoTof]]

ClearLockedModel(s) ==
    [m |-> [s.m EXCEPT !.locked = FALSE, !.persisted = FALSE,
                       !.fallback = FALSE, !.modelCount = 0],
     p |-> Unlocked(s.p)]

\* Seeded fault: a change of the count keeps a model that is not on flash.
SetActiveAnchorCountPersisted(s, count) ==
    LET t == [s EXCEPT !.m.active = count]
    IN IF count = s.m.active THEN s
       ELSE IF s.m.persisted THEN ClearLockedModel(t) ELSE t

SetActiveAnchorCount(s, count) ==
    LET t == [s EXCEPT !.m.active = count]
    IN IF count = s.m.active THEN s
       ELSE IF s.m.locked \/ s.m.persisted THEN ClearLockedModel(t) ELSE t

Active(m) == ActivePairs[m.active]

(* RobustEstimate: samples of one domain give a value of that domain.      *)
RobustEstimate(samples) ==
    IF \A i \in 1 .. Len(samples) : samples[i] = samples[1]
    THEN samples[1] ELSE "MIXED"

(* What PersistModelLocked leaves on flash: the model, the file as it was  *)
(* (it cannot be opened), or nothing (a short write is removed).           *)
Writes == {"written", "unopened", "short"}

Persisted(s, write) ==
    CASE write = "written"  -> [domain |-> s.m.domain, count |-> s.m.modelCount,
                                version |-> s.m.version,
                                tof |-> [i \in Pairs |-> s.p[i].tof]]
      [] write = "unopened" -> file
      [] write = "short"    -> NoFile

EnoughSamples(s) == \A i \in Active(s.m) : Len(s.p[i].samples) >= MinSamples

LockedBy(s, write) ==
    [m |-> [s.m EXCEPT !.locked = TRUE, !.modelCount = s.m.active,
                       !.fallback = FALSE, !.collect = "DONE", !.version = @ + 1,
                       !.persisted = write = "written"],
     p |-> ResetHealth([i \in Pairs |->
              IF i \in Active(s.m)
              THEN [s.p[i] EXCEPT !.locked = TRUE, !.tof = RobustEstimate(s.p[i].samples)]
              ELSE [s.p[i] EXCEPT !.locked = FALSE, !.tof = NoTof]])]

\* Seeded fault: the file's write is taken for done whatever it returned.
LockUnchecked(s) ==
    LET t == SetActiveAnchorCount(s, params.count)
    IN IF EnoughSamples(t)
       THEN {[s |-> [LockedBy(t, w) EXCEPT !.m.persisted = TRUE],
              file |-> Persisted(LockedBy(t, w), w), ok |-> TRUE] : w \in Writes}
       ELSE {[s |-> ClearLockedModel(t), file |-> file, ok |-> FALSE]}

(* LockLocked, with the parameters as they are now: its possible outcomes. *)
LockLocked(s) ==
    LET t == SetActiveAnchorCount(s, params.count)
    IN IF EnoughSamples(t)
       THEN {[s |-> LockedBy(t, w), file |-> Persisted(LockedBy(t, w), w), ok |-> TRUE] :
                w \in Writes}
       ELSE {[s |-> ClearLockedModel(t), file |-> file, ok |-> FALSE]}

HasLockedModel(s) == /\ s.m.locked
                     /\ s.m.modelCount = s.m.active
                     /\ \A i \in Active(s.m) : s.p[i].locked
HealthyLockedPairs(s) == {i \in Active(s.m) : s.p[i].locked /\ s.p[i].healthy}
-----------------------------------------------------------------------------
(* The boot: the state the constructor leaves, and Configure.              *)

Fresh(p) ==
    [m |-> [mode |-> p.mode, domain |-> p.domain, active |-> p.count,
            collect |-> "IDLE", started |-> FALSE, locked |-> FALSE,
            modelCount |-> 0, persisted |-> FALSE, fallback |-> FALSE, version |-> 0],
     p |-> [i \in Pairs |-> [samples |-> <<>>, locked |-> FALSE, tof |-> NoTof,
                             healthy |-> TRUE, received |-> 0, bad |-> 0]]]

(* LoadPersistedModelLocked accepts a file of the same count and domain.   *)
Loadable(s) == file # NoFile /\ file.count = s.m.active /\ file.domain = s.m.domain
Loaded(s) ==
    [m |-> [s.m EXCEPT !.locked = TRUE, !.modelCount = s.m.active, !.collect = "DONE",
                       !.version = file.version, !.persisted = TRUE],
     p |-> [i \in Pairs |-> [s.p[i] EXCEPT
              !.locked = i \in Active(s.m),
              !.tof = IF i \in Active(s.m) THEN file.tof[i] ELSE NoTof]]]

\* Seeded fault: the file is loaded even when a collection is armed.
ConfigureLoads(p) ==
    LET s == IF Loadable(Fresh(p)) THEN Loaded(Fresh(p)) ELSE Fresh(p)
    IN IF p.startup /\ p.mode # "OFF" THEN [s EXCEPT !.m.collect = "ACTIVE"] ELSE s

Configure(p) ==
    IF p.startup /\ p.mode # "OFF"
    THEN [Fresh(p) EXCEPT !.m.collect = "ACTIVE"]
    ELSE IF Loadable(Fresh(p)) THEN Loaded(Fresh(p)) ELSE Fresh(p)

Set(s) == model' = s.m /\ pair' = s.p
NoneWrong == [i \in Pairs |-> 0]

Init == /\ params \in Params
        /\ file = NoFile
        /\ model = Configure(params).m
        /\ pair = Configure(params).p
        /\ packet = NoPacket
        /\ wrong = NoneWrong
        /\ bounds = [writes |-> 0, boots |-> 0]
-----------------------------------------------------------------------------
(* Commands of the consoles, and their writes of the parameters.           *)

State == [m |-> model, p |-> pair]
MayCount == model.version < MaxVersion

Reset ==
    /\ MayCount
    /\ Set([m |-> [model EXCEPT !.collect = "IDLE", !.started = FALSE, !.locked = FALSE,
                                !.fallback = FALSE, !.persisted = FALSE,
                                !.modelCount = 0, !.version = @ + 1],
            p |-> Unlocked(ResetHealth(ClearSamples(pair)))])
    /\ file' \in {NoFile, file}       \* the removal may fail, unnoticed
    /\ wrong' = NoneWrong
    /\ UNCHANGED <<params, packet, bounds>>

StartCollection ==
    /\ LET s == SetActiveAnchorCount(
                  [m |-> [model EXCEPT !.domain = params.domain, !.mode = params.mode],
                   p |-> pair], params.count)
       IN Set([m |-> [s.m EXCEPT !.locked = FALSE, !.persisted = FALSE, !.modelCount = 0,
                                 !.collect = "ACTIVE", !.started = FALSE,
                                 !.fallback = FALSE],
               p |-> Unlocked(ResetHealth(ClearSamples(s.p)))])
    /\ wrong' = NoneWrong
    /\ UNCHANGED <<params, file, packet, bounds>>

Lock ==
    /\ MayCount
    /\ \E o \in LockLocked(State) : Set(o.s) /\ file' = o.file
    /\ wrong' = NoneWrong
    /\ UNCHANGED <<params, packet, bounds>>

WriteParam ==
    /\ bounds.writes < MaxWrites
    /\ params' \in Params /\ params' # params
    /\ bounds' = [bounds EXCEPT !.writes = @ + 1]
    /\ packet' = IF packet = NoPacket THEN NoPacket
                 ELSE [packet EXCEPT !.overtaken = TRUE]
    /\ UNCHANGED <<model, pair, file, wrong>>
-----------------------------------------------------------------------------
(* ProcessInterAnchorTof, called for every time of flight in a packet.     *)

(* Before the mutex: the parameters are read, and a pair that is not active*)
(* under them is left alone.                                               *)
ReadParams ==
    /\ packet = NoPacket
    /\ \E i \in ActivePairs[params.count] :
          packet' = [pair |-> i, mode |-> params.mode, domain |-> params.domain,
                     count |-> params.count, overtaken |-> FALSE]
    /\ UNCHANGED <<params, model, pair, file, wrong, bounds>>

(* One more sample while a collection is active, and the lock at the end of*)
(* its window, which begins with the first sample.                         *)
Sampled(s) ==
    LET q == s.p[packet.pair]
        samples == IF Len(q.samples) < MaxSamples
                   THEN Append(q.samples, packet.domain) ELSE q.samples
    IN [m |-> [s.m EXCEPT !.started = TRUE],
        p |-> [s.p EXCEPT ![packet.pair] = [q EXCEPT !.samples = samples]]]

Collected(s) ==
    IF s.m.collect # "ACTIVE" THEN {[s |-> s, file |-> file]}
    ELSE {[s |-> Sampled(s), file |-> file]}
         \cup IF ~s.m.started \/ ~MayCount THEN {}
              ELSE {[s |-> [o.s EXCEPT !.m.collect = IF o.ok THEN "DONE" ELSE "FAILED"],
                     file |-> o.file] : o \in LockLocked(Sampled(s))}

(* The residual of a packet against the locked value: the antenna delays   *)
(* make a value of the other domain differ by more than the threshold.     *)
Residuals(q) == IF q.tof \in Domains /\ q.tof # packet.domain THEN {TRUE} ELSE BOOLEAN

\* Seeded fault: one good residual makes a pair healthy at the window's end.
CheckedAny(q, isBad) ==
    LET r == [q EXCEPT !.received = @ + 1, !.bad = IF isBad THEN @ + 1 ELSE @]
    IN IF r.received < HealthWindow THEN r
       ELSE [r EXCEPT !.healthy = r.bad <= r.received, !.received = 0, !.bad = 0]

Checked(q, isBad) ==
    LET r == [q EXCEPT !.received = @ + 1, !.bad = IF isBad THEN @ + 1 ELSE @]
    IN IF r.received < HealthWindow THEN r
       ELSE [r EXCEPT !.healthy = r.bad = 0, !.received = 0, !.bad = 0]

Monitored(s, isBad) ==
    IF s.m.locked /\ s.p[packet.pair].locked /\ packet.mode # "OFF"
    THEN [s EXCEPT !.p[packet.pair] = Checked(@, isBad)] ELSE s

(* The packet's time of flight is replaced by the model's.                 *)
Overrides(s) == /\ s.m.locked /\ s.p[packet.pair].locked
                /\ packet.mode = "LOCKED_ANCHOR_MODEL"
                /\ s.p[packet.pair].healthy

FallbackActive(s) ==
    LET pairs  == Cardinality(Active(s.m))
        quorum == IF HealthQuorum < pairs THEN HealthQuorum ELSE pairs
    IN /\ packet.mode = "LOCKED_ANCHOR_MODEL"
       /\ ~HasLockedModel(s) \/ Cardinality(HealthyLockedPairs(s)) < quorum

Wrong(s) == s.p[packet.pair].tof \in Domains /\ s.p[packet.pair].tof # packet.domain

Process ==
    /\ packet # NoPacket
    /\ \E c \in Collected(SetActiveAnchorCount(
                   [m |-> [model EXCEPT !.domain = packet.domain, !.mode = packet.mode],
                    p |-> pair], packet.count)) :
          \E isBad \in Residuals(c.s.p[packet.pair]) :
             LET s == Monitored(c.s, isBad)
             IN /\ Set([s EXCEPT !.m.fallback = FallbackActive(s)])
                /\ file' = c.file
                /\ wrong' = [wrong EXCEPT ![packet.pair] =
                               IF Overrides(s) /\ Wrong(s) /\ @ < HealthWindow
                               THEN @ + 1 ELSE 0]
    /\ packet' = NoPacket
    /\ UNCHANGED <<params, bounds>>
-----------------------------------------------------------------------------
(* The power goes and comes back: a file that was being written is the old *)
(* one until it is closed, a short one is not loadable.                    *)
PowerLoss ==
    /\ bounds.boots < MaxBoots
    /\ bounds' = [bounds EXCEPT !.boots = @ + 1]
    /\ Set(Configure(params))
    /\ packet' = NoPacket
    /\ wrong' = NoneWrong
    /\ UNCHANGED <<params, file>>

Command == Reset \/ StartCollection \/ Lock
Next == Command \/ WriteParam \/ ReadParams \/ Process \/ PowerLoss
Spec == Init /\ [][Next]_vars
-----------------------------------------------------------------------------
TypeOK == /\ params \in Params
          /\ model \in Model
          /\ pair \in [Pairs -> Pair]
          /\ file \in File \cup {NoFile}
          /\ wrong \in [Pairs -> Nat]

(* A locked model is a whole one: it is of the anchors that are active, it *)
(* has a value for every one of their pairs, and none for another.         *)
LockedIsWhole == model.locked => /\ HasLockedModel(State)
                                 /\ \A i \in Pairs \ Active(model) : ~pair[i].locked

(* A model that is reported persisted is the one on flash, whatever locks, *)
(* resets, failed writes and changes of the anchor count came before.      *)
PersistedIsStored ==
    model.persisted => /\ file # NoFile
                       /\ file.count = model.modelCount
                       /\ file.version = model.version
                       /\ \A i \in Active(model) : file.tof[i] = pair[i].tof

(* When the model's domain is changed under a locked model, its values,    *)
(* which are then off by the antenna delays, replace those of the packets: *)
(* of one pair in a row, only until its health window ends.                *)
WrongDomainIsCaught == \A i \in Pairs : wrong[i] < HealthWindow

(* Nothing but a command, a power loss or a changed anchor count takes a   *)
(* locked model away, except a packet whose parameters were written after  *)
(* it had read them: with the old count it clears even a newer model.      *)
LockSurvives ==
    [][model.locked /\ ~model'.locked =>
          \/ Command \/ PowerLoss
          \/ packet # NoPacket /\ (packet.overtaken \/ packet.count # model.modelCount)]_vars
==============================================================================
