---------------------------- MODULE WifiServices ----------------------------
(***************************************************************************)
(* The WiFi frontend: the network services it owns (m_Backends: the HTTP   *)
(* update server, the MAVLink management, the UART bridge), the task that  *)
(* runs them (WifiTask), the task that watches the station link            *)
(* (WifiConnTask), and the consoles whose commands write its parameters.   *)
(*                                                                         *)
(* A packet that WifiTask serves may itself write a parameter or run a     *)
(* command, while WifiTask holds m_backendsMutex: the rebuild is then put  *)
(* off with the m_pending flags.  Every task is a sequence of accesses to  *)
(* the shared state, todo[t], taken one by one from its head; a critical   *)
(* section of m_backendsMutex that nobody can look into is one access.     *)
(***************************************************************************)
EXTENDS Naturals, Sequences

CONSTANTS Consoles,         \* tasks that run commands, other than WifiTask
          ServiceConfigs,   \* values of the parameters the services are built from
          BootConfig,       \* those stored at the boot
          MaxRequests       \* bound: parameter writes and commands in a behaviour

ASSUME RequestsAssumption == MaxRequests \in Nat

Modes == {"AP", "STATION"}
NoServices == "none"
ASSUME ConfigsAssumption == BootConfig \in ServiceConfigs /\ NoServices \notin ServiceConfigs

Tasks == {"WifiTask", "WifiConnTask"} \cup Consoles
ASSUME ConsolesAssumption ==
    Consoles \cap {"WifiTask", "WifiConnTask", "free"} = {}

VARIABLES
    param,      \* m_Params: the mode and the configuration of the services
    current,    \* m_currentMode
    asked,      \* observation: the mode of the last mode request
    connected,  \* m_stationConnected
    link,       \* WiFi.status() == WL_CONNECTED
    services,   \* m_Backends: the configuration they were built with, or none
    held,       \* m_backendsMutex is held by WifiTask's update
    updating,   \* m_updatingBackends
    pending,    \* m_pendingModeUpdate, m_pendingMode, m_pendingNetworkServicesSetup
    got,        \* WifiTask's local copies of pending
    command,    \* the holder of commandQueueMutex, or "free"
    todo,       \* the accesses each task still has to make
    requests    \* parameter writes and commands so far

net == <<current, connected, link, services, asked>>
pass == <<held, updating, pending, got>>
wvars == <<param, current, connected, link, services, asked, held, updating, pending,
          got, command, todo, requests>>

NothingPending == [modeUpdate |-> FALSE, mode |-> "UNDEFINED", setup |-> FALSE]
Fields == {"modeUpdate", "mode", "setup"}

WInit == /\ param \in [mode : Modes, config : {BootConfig}]
         /\ current = param.mode /\ asked = param.mode
         /\ connected = FALSE
         /\ link = FALSE
         /\ services \in IF current = "AP" THEN {NoServices, param.config}
                                           ELSE {NoServices}
         /\ held = FALSE
         /\ updating = FALSE
         /\ pending = NothingPending
         /\ got = NothingPending
         /\ command = "free"
         /\ todo = [t \in Tasks |-> <<>>]
         /\ requests = 0
-----------------------------------------------------------------------------
(* Accesses, and the functions of the frontend as sequences of them.       *)

Do(op) == [op |-> op]
With(op, arg) == [op |-> op, arg |-> arg]

UpdateMode(mode) ==
    <<Do("clear"), With("setConnected", FALSE), With("setCurrent", mode)>>
    \o CASE mode = "AP"      -> <<Do("startAP")>>
         [] mode = "STATION" -> <<With("setConnected", FALSE), Do("begin")>>
         [] OTHER            -> <<>>

(* SetParam changes the memory, saves the group, and only then requests    *)
(* what follows from it: after a save that failed nothing is requested.    *)
SetParamMode(mode) == {<<With("storeMode", mode), Do("requestMode")>>,
                       <<With("storeMode", mode)>>}
SetParamConfig(config) == {<<With("storeConfig", config), Do("requestSetup")>>,
                           <<With("storeConfig", config)>>}
Writes == UNION ({SetParamMode(m) : m \in Modes}
                 \cup {SetParamConfig(c) : c \in ServiceConfigs})

(* LoadAllParams: the group takes the values of the file, or of the named  *)
(* configuration that was copied there, and nothing is requested.          *)
Load(p) == <<With("storeMode", p.mode), With("storeConfig", p.config)>>
Loads == {Load(p) : p \in [mode : Modes, config : ServiceConfigs]}

\* Seeded fault: the mode request is dropped before its mode is copied.
UpdateDropsFirst ==
    <<Do("lock"), With("setUpdating", TRUE), Do("serve"), With("setUpdating", FALSE),
      With("take", "modeUpdate"), With("drop", "modeUpdate"), With("drop", "mode"),
      With("take", "mode"), With("take", "setup"), With("drop", "setup"),
      Do("unlock"), Do("apply")>>

Update ==
    <<Do("lock"), With("setUpdating", TRUE), Do("serve"), With("setUpdating", FALSE),
      With("take", "modeUpdate"), With("take", "mode"), With("take", "setup"),
      With("drop", "modeUpdate"), With("drop", "mode"), With("drop", "setup"),
      Do("unlock"), Do("apply")>>

(* What a task does under commandQueueMutex: a command of the management   *)
(* protocol leaves this group alone or loads it, a console's "write"       *)
(* writes it.                                                              *)
Command(body) == <<Do("lockCommand")>> \o body \o <<Do("unlockCommand")>>

NetworkServicesActive == current = "AP" \/ (current = "STATION" /\ connected)

(* t takes the access op at its head, and goes on with next.               *)
At(t, op) == todo[t] # <<>> /\ Head(todo[t]).op = op
Arg(t) == Head(todo[t]).arg
Continue(t, next) == todo' = [todo EXCEPT ![t] = next \o Tail(@)]
-----------------------------------------------------------------------------
(* The periodic tasks.                                                     *)

StartUpdate == /\ todo["WifiTask"] = <<>>
               /\ todo' = [todo EXCEPT !["WifiTask"] = Update]
               /\ UNCHANGED <<param, net, pass, command, requests>>

LinkFound == /\ todo["WifiConnTask"] = <<>>
             /\ current = "STATION" /\ link /\ ~connected
             /\ todo' = [todo EXCEPT !["WifiConnTask"] =
                              <<Do("setup"), With("setConnected", TRUE)>>]
             /\ UNCHANGED <<param, net, pass, command, requests>>

LinkLost == /\ todo["WifiConnTask"] = <<>>
            /\ current = "STATION" /\ ~link /\ connected
            /\ connected' = FALSE
            /\ UNCHANGED <<param, current, link, services, asked, pass, command, todo,
                           requests>>

(* The access point comes into and out of reach: only a station has one.   *)
Reach == /\ current = "STATION"
         /\ link' = ~link
         /\ UNCHANGED <<param, current, connected, services, asked, pass, command,
                        todo, requests>>
-----------------------------------------------------------------------------
(* WifiTask's pass over the services.                                      *)

LockBackends(t) == /\ At(t, "lock")
                   /\ ~held
                   /\ held' = TRUE
                   /\ Continue(t, <<>>)
                   /\ UNCHANGED <<param, net, updating, pending, got, command,
                                  requests>>

UnlockBackends(t) == /\ At(t, "unlock")
                     /\ held' = FALSE
                     /\ Continue(t, <<>>)
                     /\ UNCHANGED <<param, net, updating, pending, got, command,
                                    requests>>

SetUpdating(t) == /\ At(t, "setUpdating")
                  /\ updating' = Arg(t)
                  /\ Continue(t, <<>>)
                  /\ UNCHANGED <<param, net, held, pending, got, command,
                                 requests>>

(* One more packet for the management service, which WifiTask serves in    *)
(* the middle of its pass, or one more line typed at a console.            *)
Accepts(t) == IF t \in Consoles THEN todo[t] = <<>>
                                ELSE At(t, "serve") /\ services # NoServices
Bodies(t) == {Command(load) : load \in Loads \cup {<<>>}}
             \cup IF t \in Consoles THEN {Command(w) : w \in Writes} ELSE Writes

Request(t) == /\ Accepts(t)
              /\ requests < MaxRequests
              /\ requests' = requests + 1
              /\ \E body \in Bodies(t) : todo' = [todo EXCEPT ![t] = body \o @]
              /\ UNCHANGED <<param, net, pass, command>>

ServeNoMore(t) == /\ At(t, "serve")
                  /\ Continue(t, <<>>)
                  /\ UNCHANGED <<param, net, pass, command, requests>>

Take(t) == /\ At(t, "take")
           /\ got' = [got EXCEPT ![Arg(t)] = pending[Arg(t)]]
           /\ Continue(t, <<>>)
           /\ UNCHANGED <<param, net, held, updating, pending, command,
                          requests>>

Drop(t) == /\ At(t, "drop")
           /\ pending' = [pending EXCEPT ![Arg(t)] = NothingPending[Arg(t)]]
           /\ Continue(t, <<>>)
           /\ UNCHANGED <<param, net, held, updating, got, command, requests>>

Apply(t) == /\ At(t, "apply")
            /\ Continue(t, CASE got.modeUpdate -> UpdateMode(got.mode)
                             [] ~got.modeUpdate /\ got.setup /\ NetworkServicesActive
                                   -> <<Do("setup")>>
                             [] OTHER -> <<>>)
            /\ got' = NothingPending
            /\ UNCHANGED <<param, net, held, updating, pending, command,
                           requests>>
-----------------------------------------------------------------------------
(* What any caller of the frontend does.                                   *)

StoreMode(t) == /\ At(t, "storeMode")
                /\ param' = [param EXCEPT !.mode = Arg(t)]
                /\ Continue(t, <<>>)
                /\ UNCHANGED <<net, pass, command, requests>>

StoreConfig(t) == /\ At(t, "storeConfig")
                  /\ param' = [param EXCEPT !.config = Arg(t)]
                  /\ Continue(t, <<>>)
                  /\ UNCHANGED <<net, pass, command, requests>>

RequestModeUpdate(t) ==
    /\ At(t, "requestMode")
    /\ Continue(t, IF updating THEN <<With("pend", [field |-> "modeUpdate", value |-> TRUE]),
                                      With("pend", [field |-> "mode", value |-> param.mode])>>
                               ELSE UpdateMode(param.mode))
    /\ asked' = param.mode
    /\ UNCHANGED <<param, current, connected, link, services, pass, command,
                   requests>>

RequestNetworkServicesSetup(t) ==
    /\ At(t, "requestSetup")
    /\ Continue(t, CASE ~NetworkServicesActive -> <<>>
                     [] NetworkServicesActive /\ updating
                           -> <<With("pend", [field |-> "setup", value |-> TRUE])>>
                     [] OTHER -> <<Do("setup")>>)
    /\ UNCHANGED <<param, net, pass, command, requests>>

Pend(t) == /\ At(t, "pend")
           /\ pending' = [pending EXCEPT ![Arg(t).field] = Arg(t).value]
           /\ Continue(t, <<>>)
           /\ UNCHANGED <<param, net, held, updating, got, command, requests>>

ClearBackends(t) == /\ At(t, "clear")
                    /\ ~held
                    /\ services' = NoServices
                    /\ Continue(t, <<>>)
                    /\ UNCHANGED <<param, current, connected, link, asked, pass,
                                   command, requests>>

\* Seeded fault: the services are rebuilt without m_backendsMutex.
SetupUnlocked(t) ==
    /\ At(t, "setup")
    /\ services' = param.config
    /\ Continue(t, <<>>)
    /\ UNCHANGED <<param, current, connected, link, asked, pass, command, requests>>

SetupNetworkServices(t) ==
    /\ At(t, "setup")
    /\ ~held
    /\ services' = param.config
    /\ Continue(t, <<>>)
    /\ UNCHANGED <<param, current, connected, link, asked, pass, command, requests>>

SetConnected(t) == /\ At(t, "setConnected")
                   /\ connected' = Arg(t)
                   /\ Continue(t, <<>>)
                   /\ UNCHANGED <<param, current, link, services, asked, pass, command,
                                  requests>>

SetCurrent(t) == /\ At(t, "setCurrent")
                 /\ current' = Arg(t)
                 /\ Continue(t, <<>>)
                 /\ UNCHANGED <<param, connected, link, services, asked, pass, command,
                                requests>>

(* Leaving station mode drops the link; the access point may fail to start. *)
SetupAP(t) == /\ At(t, "startAP")
              /\ link' = FALSE
              /\ \E next \in {<<Do("setup")>>, <<>>} : Continue(t, next)
              /\ UNCHANGED <<param, current, connected, services, asked, pass, command,
                             requests>>

(* WiFi.begin: the link may survive until the radio has left the network.  *)
BeginStation(t) == /\ At(t, "begin")
                   /\ link' \in {link, FALSE}
                   /\ Continue(t, <<>>)
                   /\ UNCHANGED <<param, current, connected, services, asked, pass,
                                  command, requests>>

LockCommand(t) == /\ At(t, "lockCommand")
                  /\ command = "free"
                  /\ command' = t
                  /\ Continue(t, <<>>)
                  /\ UNCHANGED <<param, net, pass, requests>>

UnlockCommand(t) == /\ At(t, "unlockCommand")
                    /\ command' = "free"
                    /\ Continue(t, <<>>)
                    /\ UNCHANGED <<param, net, pass, requests>>
-----------------------------------------------------------------------------
Step(t) == \/ LockBackends(t) \/ UnlockBackends(t) \/ SetUpdating(t)
           \/ ServeNoMore(t) \/ Take(t) \/ Drop(t) \/ Apply(t)
           \/ StoreMode(t) \/ StoreConfig(t)
           \/ RequestModeUpdate(t) \/ RequestNetworkServicesSetup(t) \/ Pend(t)
           \/ ClearBackends(t) \/ SetupNetworkServices(t)
           \/ SetConnected(t) \/ SetCurrent(t) \/ SetupAP(t) \/ BeginStation(t)
           \/ LockCommand(t) \/ UnlockCommand(t)

WNext == \/ StartUpdate \/ LinkFound \/ LinkLost \/ Reach
         \/ \E t \in Tasks : Request(t) \/ Step(t)

WSpec == WInit /\ [][WNext]_wvars

(* The tasks have one priority and share the processor in turns, and a     *)
(* mutex is handed to the task that has waited longest: a task whose step  *)
(* is possible again and again takes it.  Nothing is assumed of the        *)
(* access point, of the packets, or of who types at a console.             *)
Fairness == /\ WF_wvars(StartUpdate)
            /\ WF_wvars(LinkFound \/ LinkLost)
            /\ \A t \in Tasks : SF_wvars(Step(t))

FairSpec == WSpec /\ Fairness
-----------------------------------------------------------------------------
(* Every variable keeps its type.                                          *)
WTypeOK ==
    /\ param \in [mode : Modes, config : ServiceConfigs]
    /\ current \in Modes \cup {"UNDEFINED"} /\ asked \in Modes
    /\ {connected, link, held, updating} \subseteq BOOLEAN
    /\ services \in ServiceConfigs \cup {NoServices}
    /\ {pending, got} \subseteq [modeUpdate : BOOLEAN, mode : Modes \cup {"UNDEFINED"},
                                 setup : BOOLEAN]
    /\ command \in Tasks \cup {"free"}
    /\ requests \in 0 .. MaxRequests

(* No service is deleted or replaced while WifiTask is inside one of them  *)
(* (the loop over m_Backends in Update), whoever asks for the rebuild: a   *)
(* packet served in that very loop, the link's task or a console.          *)
DeleteOnlyOutside == [][services' # services => ~updating]_wvars

(* A console's write that has changed the memory and is not over, while    *)
(* WifiTask is in its pass: here the two can wait for each other's mutex   *)
(* for ever, and the pending flags can be lost or taken half written.      *)
Rebuilds(t) == \E i \in DOMAIN todo[t] :
                  todo[t][i].op \notin {"lockCommand", "storeMode", "storeConfig",
                                        "unlockCommand"}
Crossed == \E c \in Consoles : /\ command = c /\ Rebuilds(c)
                               /\ todo["WifiTask"] # <<>>

(* "Apply mode changes immediately when requested" (SetParam): the mode    *)
(* last requested is in force in the end, whatever else was going on; no   *)
(* request is lost between the flags and the task that takes them.  A load *)
(* and a save that failed change the parameter and request nothing: then   *)
(* the mode in force is still the one requested before.  Nothing is said   *)
(* of behaviours in which a console's write crosses WifiTask's pass.       *)
ModeApplied == [](~Crossed) => <>[](current = asked)

=============================================================================
