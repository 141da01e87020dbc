----------------------------- MODULE ParamStore -----------------------------
(***************************************************************************)
(* The parameters of the frontends (one group each), the file that keeps   *)
(* them (/params.txt), and the named configurations of the config manager, *)
(* with power losses and failing file operations.                          *)
(*                                                                         *)
(* commandQueueMutex lets one command run at a time.  A command is the     *)
(* sequence todo of its accesses to the files and to memory, taken one by  *)
(* one from the head; between any two the power may go.  A file written    *)
(* and closed is one access: LittleFS commits a file when it is closed.    *)
(***************************************************************************)
EXTENDS Naturals, Sequences, FiniteSets, SequencesExt

CONSTANTS Order,        \* the groups, in the order the frontends registered
          Values,       \* parameter values of a group
          Default,      \* the values it is compiled with
          Names,        \* names of configurations
          MaxConfigs,   \* ConfigManager::MAX_CONFIGS
          Missing,      \* stands for the content of a file that does not exist
          NoLine,       \* stands for the values of a group that has no lines
          None,         \* no configuration, no command
          MaxCommands, MaxFaults, MaxCrashes    \* bounds of a behaviour

Groups == ToSet(Order)
Content == [Groups -> Values \cup {NoLine}]
Kinds == {"set", "save", "load", "saveAs", "loadNamed", "delete"}

ASSUME StoreAssumption ==
    /\ Order \in Seq(Groups) /\ Default \in Values
    /\ {None, NoLine, Missing} \cap (Values \cup Names) = {}
    /\ None \notin Groups \cup Kinds /\ Missing \notin Content
    /\ {MaxConfigs, MaxCommands, MaxFaults, MaxCrashes} \subseteq Nat

VARIABLES
    ram,        \* m_Params of every frontend
    paramsTxt,  \* /params.txt
    tmp,        \* /params.tmp
    bak,        \* /params.load.bak
    conf,       \* /configs/<name>.txt
    meta,       \* /configs/metadata.json, as LoadMetadata would parse it
    live,       \* s_ActiveConfig and s_Configs; `cut' observes that they go
                \* back to metadata of which not all was written
    cmd,        \* the last command, what it started from and how it ended
    todo,       \* what is left of it
    commands, faults, crashes   \* how many so far

files == <<paramsTxt, tmp, bak, conf, meta>>
counts == <<commands, faults, crashes>>
svars == <<ram, files, live, cmd, todo, counts>>

Booted(content) ==
    [g \in Groups |-> IF content = Missing \/ content[g] = NoLine THEN Default
                                                                  ELSE content[g]]
NoCommand == [kind |-> None, group |-> None, value |-> None, name |-> None,
              from |-> [ram |-> Booted(Missing), paramsTxt |-> Missing, active |-> None],
              failed |-> FALSE, hurt |-> FALSE, restoring |-> FALSE]

NoConfigs == [active |-> None, list |-> {}, cut |-> FALSE]

SInit == /\ ram = Booted(Missing)
         /\ paramsTxt = Missing /\ tmp = Missing /\ bak = Missing
         /\ conf = [n \in Names |-> Missing]
         /\ live = NoConfigs
         /\ meta = live
         /\ cmd = NoCommand
         /\ todo = <<>>
         /\ commands = 0 /\ faults = 0 /\ crashes = 0
-----------------------------------------------------------------------------
(* The commands as sequences of accesses.                                  *)

(* SaveParams and LoadParams of a group begin with one access to a file.   *)
On(op, group) == [op |-> op, group |-> group]
Do(op) == <<On(op, None)>>
SaveAllParams == [i \in DOMAIN Order |-> On("write", Order[i])]
LoadAllParams == [i \in DOMAIN Order |-> On("load", Order[i])]

SetParam(g) == Do("store") \o <<On("write", g)>>
SaveConfigAs == SaveAllParams \o Do("admit") \o Do("copyOut") \o Do("register")
                \o Do("saveMeta")
\* Seeded fault: the active name is set after the metadata were written.
LoadActivatesLate == Do("find") \o Do("clearBackup") \o Do("backup") \o Do("install")
                     \o Do("saveMeta") \o Do("activate") \o LoadAllParams
                     \o Do("check") \o Do("dropBackup")
LoadConfigNamed == Do("find") \o Do("clearBackup") \o Do("backup") \o Do("install")
                   \o Do("activate") \o Do("saveMeta") \o LoadAllParams
                   \o Do("check") \o Do("dropBackup")
\* Seeded fault: undoing a load leaves what it had put in memory.
RestoreFilesOnly == Do("copyBack") \o Do("clearBackup") \o Do("reactivate")
                    \o Do("saveMeta")
RestorePreviousParams == Do("copyBack") \o Do("clearBackup") \o Do("reactivate")
                         \o Do("saveMeta") \o LoadAllParams
DeleteConfig == Do("unlist") \o Do("removeConfig") \o Do("deactivate")
                \o Do("saveMeta")

Give(kind, group, value, name) ==
    /\ todo = <<>>
    /\ commands < MaxCommands
    /\ commands' = commands + 1
    /\ cmd' = [NoCommand EXCEPT
                 !.kind = kind, !.group = group, !.value = value, !.name = name,
                 !.from = [ram |-> ram, paramsTxt |-> paramsTxt, active |-> live.active]]
    /\ todo' = CASE kind = "set"    -> SetParam(group)
                 [] kind = "save"   -> SaveAllParams
                 [] kind = "load"   -> LoadAllParams
                 [] kind = "saveAs" -> SaveConfigAs
                 [] kind = "loadNamed" -> LoadConfigNamed
                 [] kind = "delete" -> DeleteConfig
    /\ UNCHANGED <<ram, files, live, faults, crashes>>

Request == \/ \E g \in Groups, v \in Values : Give("set", g, v, None)
           \/ \E kind \in {"save", "load"} : Give(kind, None, None, None)
           \/ \E kind \in {"saveAs", "loadNamed", "delete"}, n \in Names :
                 Give(kind, None, None, n)

At(op) == todo # <<>> /\ Head(todo).op = op
Continue == todo' = Tail(todo) /\ cmd' = cmd
Abandon == todo' = <<>> /\ cmd' = [cmd EXCEPT !.failed = TRUE]
Restore == todo' = RestorePreviousParams
           /\ cmd' = [cmd EXCEPT !.failed = TRUE, !.restoring = TRUE]
(* An error that only shows in the result: the function goes on.           *)
GoOn == todo' = Tail(todo) /\ cmd' = [cmd EXCEPT !.failed = TRUE,
                                                 !.hurt = @ \/ cmd.restoring]
Fault == faults < MaxFaults /\ faults' = faults + 1 /\ UNCHANGED <<commands, crashes>>
-----------------------------------------------------------------------------
(* LittleFSFrontend: SetParam, SaveParams, LoadParams.                     *)

Store == /\ At("store")
         /\ ram' = [ram EXCEPT ![cmd.group] = cmd.value]
         /\ Continue
         /\ UNCHANGED <<files, live, counts>>

(* The lines of the other groups are copied and this group's are written.  *)
Lines(g) == [h \in Groups |-> CASE h = g -> ram[g]
                                [] h # g /\ paramsTxt = Missing -> NoLine
                                [] OTHER -> paramsTxt[h]]

(* A file written to the end takes the place of the old one.               *)
Replace == /\ todo' = Do("remove") \o Do("rename") \o Tail(todo)
           /\ cmd' = cmd

Write == /\ At("write")
         /\ tmp' = Lines(Head(todo).group)
         /\ Replace
         /\ UNCHANGED <<ram, paramsTxt, bak, conf, meta, live, counts>>

(* The result of println is not looked at: a full flash drops lines.       *)
WriteShort ==
    /\ At("write") /\ Fault
    /\ \E lost \in SUBSET Groups \ {{}} :
          tmp' = [h \in Groups |-> IF h \in lost THEN NoLine
                                                 ELSE Lines(Head(todo).group)[h]]
    /\ Replace
    /\ UNCHANGED <<ram, paramsTxt, bak, conf, meta, live>>

(* /params.tmp does not open: this group is not saved, the next ones are.  *)
WriteFails == /\ At("write") /\ Fault
              /\ GoOn
              /\ UNCHANGED <<ram, files, live>>

RemoveParams == /\ At("remove")
                /\ paramsTxt' = Missing
                /\ Continue
                /\ UNCHANGED <<ram, tmp, bak, conf, meta, live, counts>>

Rename == /\ At("rename")
          /\ paramsTxt' = tmp
          /\ tmp' = Missing
          /\ Continue
          /\ UNCHANGED <<ram, bak, conf, meta, live, counts>>

RenameFails == /\ At("rename") /\ Fault
               /\ GoOn
               /\ UNCHANGED <<ram, files, live>>

(* A group without lines, or without a file, keeps the values it has.      *)
Load == /\ At("load")
        /\ LET g == Head(todo).group
           IN  ram' = IF paramsTxt = Missing \/ paramsTxt[g] = NoLine
                      THEN ram ELSE [ram EXCEPT ![g] = paramsTxt[g]]
        /\ Continue
        /\ UNCHANGED <<files, live, counts>>

(* The UWB group does not fit the backend that runs, and stays as it was:  *)
(* the parameters that ran before fit.                                     *)
LoadRejected == /\ At("load")
                /\ Head(todo).group = "uwb"
                /\ cmd.kind = "loadNamed" /\ ~cmd.restoring
                /\ paramsTxt # cmd.from.paramsTxt
                /\ GoOn
                /\ UNCHANGED <<ram, files, live, counts>>

(* The estimator keeps the mutex: ApplyLoadedRuntimeConfig gives up on it, *)
(* and the group goes back to what it was.                                 *)
LoadBusy == /\ At("load") /\ Fault
            /\ Head(todo).group = "uwb" /\ paramsTxt # Missing
            /\ GoOn
            /\ UNCHANGED <<ram, files, live>>
-----------------------------------------------------------------------------
(* ConfigManager.                                                          *)

Admit == /\ At("admit")
         /\ IF cmd.failed \/ (cmd.name \notin live.list
                              /\ Cardinality(live.list) >= MaxConfigs)
            THEN Abandon ELSE Continue
         /\ UNCHANGED <<ram, files, live, counts>>

(* CopyFile: a copy that fails to write removes what it wrote.             *)
CopyOut == /\ At("copyOut")
           /\ conf' = IF paramsTxt = Missing THEN conf
                                          ELSE [conf EXCEPT ![cmd.name] = paramsTxt]
           /\ IF paramsTxt = Missing THEN Abandon ELSE Continue
           /\ UNCHANGED <<ram, paramsTxt, tmp, bak, meta, live, counts>>

CopyOutFails == /\ At("copyOut") /\ Fault
                /\ conf' \in {conf, [conf EXCEPT ![cmd.name] = Missing]}
                /\ Abandon
                /\ UNCHANGED <<ram, paramsTxt, tmp, bak, meta, live>>

Register == /\ At("register")
            /\ live' = [active |-> cmd.name, list |-> live.list \cup {cmd.name},
                        cut |-> FALSE]
            /\ Continue
            /\ UNCHANGED <<ram, files, counts>>

SaveMetadata == /\ At("saveMeta")
                /\ meta' = live
                /\ Continue
                /\ UNCHANGED <<ram, paramsTxt, tmp, bak, conf, live, counts>>

(* The result of print is not looked at.  Of a file cut short LoadMetadata *)
(* takes the active name if its end was written, and no list; a file that  *)
(* was not committed is the old one.                                       *)
SaveMetadataShort ==
    /\ At("saveMeta") /\ Fault
    /\ \E left \in {meta, NoConfigs, [live EXCEPT !.list = {}]} :
          meta' = [left EXCEPT !.cut = TRUE]
    /\ Continue
    /\ UNCHANGED <<ram, paramsTxt, tmp, bak, conf, live>>

SaveMetadataFails == /\ At("saveMeta") /\ Fault
                     /\ CASE cmd.restoring -> GoOn
                          [] cmd.kind = "loadNamed" /\ ~cmd.restoring -> Restore
                          [] cmd.kind = "saveAs" -> Abandon
                          [] OTHER -> Continue
                     /\ UNCHANGED <<ram, files, live>>

(* Not listed, no file, or rejected by the check of its anchors.           *)
Find == /\ At("find")
        /\ \/ cmd.name \in live.list /\ conf[cmd.name] # Missing /\ Continue
           \/ Abandon
        /\ UNCHANGED <<ram, files, live, counts>>

DropBackup == /\ At("clearBackup") \/ At("dropBackup")
              /\ bak' = Missing
              /\ Continue
              /\ UNCHANGED <<ram, paramsTxt, tmp, conf, meta, live, counts>>

Backup == /\ At("backup")
          /\ bak' = paramsTxt
          /\ Continue
          /\ UNCHANGED <<ram, paramsTxt, tmp, conf, meta, live, counts>>

BackupFails == /\ At("backup") /\ Fault
               /\ paramsTxt # Missing
               /\ Abandon
               /\ UNCHANGED <<ram, files, live>>

\* Seeded fault: only the first group of a configuration is installed.
InstallPart == /\ At("install")
               /\ paramsTxt' = [g \in Groups |-> IF g = Order[1] THEN conf[cmd.name][g]
                                                             ELSE NoLine]
               /\ Continue
               /\ UNCHANGED <<ram, tmp, bak, conf, meta, live, counts>>

Install == /\ At("install")
           /\ paramsTxt' = conf[cmd.name]
           /\ Continue
           /\ UNCHANGED <<ram, tmp, bak, conf, meta, live, counts>>

InstallFails == /\ At("install") /\ Fault
                /\ paramsTxt' \in {paramsTxt, Missing}
                /\ Restore
                /\ UNCHANGED <<ram, tmp, bak, conf, meta, live>>

Activate == /\ At("activate")
            /\ live' = [live EXCEPT !.active = cmd.name]
            /\ Continue
            /\ UNCHANGED <<ram, files, counts>>

Check == /\ At("check")
         /\ IF cmd.failed THEN Restore ELSE Continue
         /\ UNCHANGED <<ram, files, live, counts>>

CopyBack == /\ At("copyBack")
            /\ paramsTxt' = bak
            /\ Continue
            /\ UNCHANGED <<ram, tmp, bak, conf, meta, live, counts>>

CopyBackFails == /\ At("copyBack") /\ Fault
                 /\ paramsTxt' \in {paramsTxt, Missing}
                 /\ GoOn
                 /\ UNCHANGED <<ram, tmp, bak, conf, meta, live>>

Reactivate == /\ At("reactivate")
              /\ live' = [live EXCEPT !.active = cmd.from.active]
              /\ Continue
              /\ UNCHANGED <<ram, files, counts>>

Unlist == /\ At("unlist")
          /\ IF cmd.name \in live.list THEN Continue ELSE Abandon
          /\ live' = [live EXCEPT !.list = @ \ {cmd.name}]
          /\ UNCHANGED <<ram, files, counts>>

RemoveConfig == /\ At("removeConfig")
                /\ conf' = [conf EXCEPT ![cmd.name] = Missing]
                /\ Continue
                /\ UNCHANGED <<ram, paramsTxt, tmp, bak, meta, live, counts>>

\* Seeded fault: the deleted configuration stays the active one.
DeactivateNothing == /\ At("deactivate")
                     /\ Continue
                     /\ UNCHANGED <<ram, files, live, counts>>

Deactivate == /\ At("deactivate")
              /\ live' = [live EXCEPT !.active = IF @ = cmd.name THEN None ELSE @]
              /\ Continue
              /\ UNCHANGED <<ram, files, counts>>
-----------------------------------------------------------------------------
(* The power goes and comes back: the files are read, the rest is lost.    *)
Restart == /\ crashes < MaxCrashes
           /\ crashes' = crashes + 1
           /\ ram' = Booted(paramsTxt)
           /\ live' = meta
           /\ todo' = <<>>
           /\ cmd' = NoCommand
           /\ UNCHANGED <<files, commands, faults>>

SaveStep == \/ Store \/ Write \/ WriteShort \/ WriteFails
            \/ RemoveParams \/ Rename \/ RenameFails
LoadStep == Load \/ LoadRejected \/ LoadBusy
ConfigStep == \/ Admit \/ CopyOut \/ CopyOutFails \/ Register
              \/ SaveMetadata \/ SaveMetadataShort \/ SaveMetadataFails
              \/ Find \/ DropBackup \/ Backup \/ BackupFails
              \/ Install \/ InstallFails \/ Activate \/ Check
              \/ CopyBack \/ CopyBackFails \/ Reactivate
              \/ Unlist \/ RemoveConfig \/ Deactivate
SNext == Request \/ SaveStep \/ LoadStep \/ ConfigStep \/ Restart

SSpec == SInit /\ [][SNext]_svars
-----------------------------------------------------------------------------
Ops == {"store", "write", "remove", "rename", "load", "admit", "copyOut", "register",
        "saveMeta", "find", "clearBackup", "backup", "install", "activate", "check",
        "dropBackup", "copyBack", "reactivate", "unlist", "removeConfig", "deactivate"}
Accesses == [op : Ops, group : Groups \cup {None}]

(* Every file and variable holds what the code can put there.              *)
STypeOK ==
    /\ ram \in [Groups -> Values]
    /\ {paramsTxt, tmp, bak} \subseteq Content \cup {Missing}
    /\ conf \in [Names -> Content \cup {Missing}]
    /\ {live, meta} \subseteq [active : Names \cup {None}, list : SUBSET Names,
                                cut : BOOLEAN]
    /\ IsFiniteSet(live.list) /\ Cardinality(live.list) <= MaxConfigs
    /\ cmd \in [kind : Kinds \cup {None}, group : Groups \cup {None},
               value : Values \cup {None}, name : Names \cup {None},
               from : [ram : [Groups -> Values], paramsTxt : Content \cup {Missing},
                       active : Names \cup {None}],
               failed : BOOLEAN, hurt : BOOLEAN, restoring : BOOLEAN]
    /\ todo \in Seq(Accesses)
    /\ commands \in 0 .. MaxCommands
    /\ faults \in 0 .. MaxFaults /\ crashes \in 0 .. MaxCrashes

Done == todo = <<>>

(* The name reported as active is one of the listed configurations, in     *)
(* memory between commands and in the metadata file at any time, so after  *)
(* a power loss in the middle of a save, a load or a deletion; unless the  *)
(* metadata have been cut short, and no configuration saved as another     *)
(* since.                                                                  *)
ActiveIsListed ==
    /\ Done /\ ~live.cut => live.active \in live.list \cup {None}
    /\ ~meta.cut => meta.active \in meta.list \cup {None}

(* A load reported as done has put the configuration in force: memory,     *)
(* /params.txt and the active name are all its own, and the metadata file  *)
(* has that name, unless SaveMetadata has written it cut short unnoticed.  *)
LoadedIsInForce ==
    Done /\ cmd.kind = "loadNamed" /\ ~cmd.failed
       => /\ paramsTxt = conf[cmd.name]
          /\ \A g \in Groups : paramsTxt[g] # NoLine => ram[g] = paramsTxt[g]
          /\ live.active = cmd.name /\ (meta.cut \/ meta = live)

(* A load reported as failed has changed nothing (restorePreviousParams),  *)
(* whichever of its steps failed: the parameters in memory, /params.txt    *)
(* and the active name are those before it, unless undoing it failed too.  *)
(* It starts from parameters that are all on file, as after a save.        *)
FailedLoadIsUndone ==
    Done /\ cmd.kind = "loadNamed" /\ cmd.failed /\ ~cmd.hurt
         /\ cmd.from.paramsTxt = cmd.from.ram
       => /\ ram = cmd.from.ram
          /\ paramsTxt = cmd.from.paramsTxt
          /\ live.active = cmd.from.active

(* A power loss in the middle of any command, begun with the parameters on *)
(* file, brings up those before it, those after it or the compiled ones:   *)
(* never a mixture.                                                        *)
Target == CASE cmd.kind = "set" -> [cmd.from.ram EXCEPT ![cmd.group] = cmd.value]
            [] cmd.kind = "loadNamed" -> Booted(conf[cmd.name])
            [] OTHER -> cmd.from.ram
NeverAMixture ==
    [][crashes' # crashes /\ ~Done /\ faults = 0
          /\ Booted(cmd.from.paramsTxt) = cmd.from.ram
         => ram' \in {cmd.from.ram, Target, Booted(Missing)}]_svars

=============================================================================
