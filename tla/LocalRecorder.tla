----------------------------- MODULE LocalRecorder -----------------------------
(***************************************************************************)
(* LocalRecorder: the operations by which the extension installs, starts,  *)
(* stops, rebuilds and configures its Docker container, what they leave on *)
(* disk and in Docker when they are interrupted, and how setup.cjs selects *)
(* the recorder they report.                                               *)
(*                                                                         *)
(* OperationLock keeps the operations of several windows apart, so there   *)
(* is one at a time here; a window that dies, a user that cancels and a    *)
(* step that fails all end it where it stands.  A Docker client that was   *)
(* stopped may leave one call for the daemon to finish later.              *)
(***************************************************************************)
EXTENDS Naturals

CONSTANTS Ports, NoPort, NoConfig, NoContainer, NoCommand, NoOrigin,
          MaxVersion    \* bound of the model: releases of the extension

ASSUME NoPortAssumption == NoPort \notin Ports
ASSUME MaxVersionAssumption == MaxVersion \in Nat \ {0}

Versions == 1..MaxVersion
Config == [version : Versions, port : Ports, restart : BOOLEAN]
\* wanted: Docker was last asked to run it.
Container == [config : Config, running : BOOLEAN, wanted : BOOLEAN]
Command == [do : {"start", "stop", "update"}, restart : BOOLEAN]
\* An origin is a host and a port.  The installation reports itself by the loopback
\* address, own, and setup refers to an external recorder as localhost.
Origin == [port : Ports, own : BOOLEAN]

ASSUME NonesAssumption ==
    /\ NoConfig \notin Config /\ NoContainer \notin Container
    /\ NoCommand \notin Command /\ NoOrigin \notin Origin

VARIABLES installed,  \* installation.json names the owned Docker resources
          saved,      \* config.json
          staged,     \* releases whose build context is in versions/
          images,     \* releases whose image Docker has
          container,  \* the container of the installation
          others,     \* ports that other processes hold, each maybe a recorder
          late,       \* what the daemon still does for a client that is gone
          bundle,     \* the release this extension ships
          kind,       \* the operation
          at,         \* where it stands
          config,     \* the configuration it asks for, then the one it works with
          chosen,     \* the port that was entered for setup
          outcome,    \* how the last operation ended; failed until it does
          selected,   \* flightRecorder.serverUrl
          current,    \* localRecorder.current in the global state, if it says managed
          answer      \* a recorder that an operation reported, not yet finished

disk == <<installed, saved, staged>>
docker == <<images, container, late>>
operation == <<kind, at, config, chosen, outcome>>
shell == <<selected, current, answer>>
vars == <<disk, docker, others, bundle, operation, shell>>

Kinds == {"setup", "start", "stop", "restart", "rebuild", "setRestart"}

Init ==
    /\ installed = FALSE
    /\ saved = NoConfig
    /\ staged = {}
    /\ images = {}
    /\ container = NoContainer
    /\ others \in SUBSET Ports
    /\ late = NoCommand
    /\ bundle = 1
    /\ kind = "none"
    /\ at = "idle"
    /\ config = NoConfig
    /\ chosen = NoPort
    /\ outcome = "failed"
    /\ selected \in Origin
    /\ current = NoOrigin
    /\ answer = NoOrigin

Known == IF container # NoContainer THEN container.config ELSE saved

Running == container # NoContainer /\ container.running

Goto(place) == at' = place /\ UNCHANGED <<kind, chosen, outcome>>

\* Between operations nothing is left of them but what is on disk, in Docker and
\* in what they returned.
End(how) ==
    /\ at' = "idle"
    /\ outcome' = how
    /\ kind' = "none"
    /\ config' = NoConfig
    /\ chosen' = IF how = "port in use" THEN chosen ELSE NoPort

\* Die, cancel, or fail for a reason of its own.
Interrupt ==
    /\ at # "idle"
    /\ End("failed")
    /\ UNCHANGED <<disk, docker, others, bundle, shell>>

-----------------------------------------------------------------------------
(* Where an operation begins.                                              *)

\* managed: the selected recorder is the owned one.
Managed == installed /\ Known # NoConfig /\ selected = [port |-> Known.port, own |-> TRUE]

Begin(k, asked) ==
    /\ at = "idle"
    /\ kind' = k
    /\ at' = "looking"
    /\ config' = asked
    /\ chosen' = IF k = "setup" THEN asked.port ELSE NoPort
    /\ outcome' = "failed"
    /\ UNCHANGED <<disk, docker, others, bundle, shell>>

\* The setup command installs, though another window may have installed since it
\* looked; it starts or rebuilds an installation whatever is selected.  The others
\* manage the selected recorder only.
Setup(port, restart) ==
    Begin("setup", [version |-> bundle, port |-> port, restart |-> restart])

Manage(k) == (k \in {"start", "rebuild"} \/ Managed) /\ Begin(k, NoConfig)

SetRestart(enabled) == Managed /\ Begin("setRestart", [Known EXCEPT !.restart = enabled])

After(k) == CASE k \in {"setup", "start"} -> "starting"
              [] k = "restart" -> IF container = NoContainer THEN "starting" ELSE "restarting"
              [] k = "rebuild" -> "staging"
              [] k = "stop" -> "stopping"
              [] k = "setRestart" -> "updating"

\* Mutant of Look: setup works with what was asked for, installed or not.
LookAsAsked ==
    /\ at = "looking"
    /\ \/ kind = "setup" /\ Goto("installing") /\ UNCHANGED config
       \/ /\ kind # "setup" /\ Known # NoConfig
          /\ config' = Known
          /\ Goto(After(kind))
    /\ UNCHANGED <<disk, docker, others, bundle, shell>>

\* Mutant of Look: an operation goes on though nothing is installed.
LookUnchecked ==
    /\ at = "looking"
    /\ config' = Known
    /\ Goto(After(kind))
    /\ UNCHANGED <<disk, docker, others, bundle, shell>>

\* The container, not config.json, says what is installed.
Look ==
    /\ at = "looking"
    /\ \/ Known = NoConfig /\ kind = "setup" /\ Goto("installing") /\ UNCHANGED config
       \/ Known = NoConfig /\ kind # "setup" /\ End("failed")
       \/ /\ Known # NoConfig
          /\ config' = CASE kind = "rebuild" -> [Known EXCEPT !.version = bundle]
                         [] kind = "setRestart" -> [Known EXCEPT !.restart = config.restart]
                         [] OTHER -> Known
          /\ Goto(After(kind))
    /\ UNCHANGED <<disk, docker, others, bundle, shell>>

-----------------------------------------------------------------------------
(* Docker.                                                                 *)

\* compose up of a configuration: the container Docker makes of it starts if it
\* gets its port.
Made(cfg) ==
    [config |-> cfg, running |-> cfg.port \notin others, wanted |-> TRUE]

Started(c) == [c EXCEPT !.running = c.running \/ c.config.port \notin others, !.wanted = TRUE]

\* A command that changes the container to c: it succeeds; its client is stopped
\* after it; or it could not bind the port, and the container stays behind.
Changes(c, place) ==
    /\ container' = c
    /\ late' = NoCommand
    /\ \/ c.running /\ Goto(place) /\ UNCHANGED <<config>>
       \/ c.running /\ End("failed")
       \/ ~ c.running /\ End("port in use")
    /\ UNCHANGED <<disk, images, others, bundle, shell>>

\* The client is stopped, and the daemon goes on.
Leaves(command) ==
    /\ late' = command
    /\ End("failed")
    /\ UNCHANGED <<disk, images, container, others, bundle, shell>>

\* A later call of the daemon's for the container that is there.
LateCommand ==
    /\ late # NoCommand
    /\ container # NoContainer
    /\ late' = NoCommand
    /\ container' = CASE late.do = "start" -> Started(container)
                      [] late.do = "stop" -> [container EXCEPT !.running = FALSE, !.wanted = FALSE]
                      [] late.do = "update" -> [container EXCEPT !.config.restart = late.restart]
    /\ UNCHANGED <<disk, images, others, bundle, operation, shell>>

\* checkPort, before anything is bound.
PortFree == config.port \notin others \/ Running

-----------------------------------------------------------------------------
(* setup and rebuild: stage, build, replace.                               *)

Install ==
    /\ at = "installing"
    /\ installed' = TRUE
    /\ \/ config.port \in others /\ End("port in use")
       \/ config.port \notin others /\ Goto("staging") /\ UNCHANGED config
    /\ UNCHANGED <<saved, staged, docker, others, bundle, shell>>

Stage ==
    /\ at = "staging"
    /\ staged' = staged \cup {config.version}
    /\ Goto("building")
    /\ UNCHANGED <<installed, saved, docker, others, bundle, config, shell>>

Built(place) ==
    /\ at = "building"
    /\ Goto(place)
    /\ UNCHANGED <<installed, staged, container, late, others, bundle, config, shell>>

\* Mutant of Build: the configuration is saved before its image is built.
SaveBeforeBuild ==
    \/ /\ at = "building"
       /\ saved' = config
       /\ Goto("built")
       /\ UNCHANGED <<installed, staged, docker, others, bundle, config, shell>>
    \/ /\ at = "built"
       /\ images' = images \cup {config.version}
       /\ Goto(IF kind = "setup" THEN "starting" ELSE "recreating")
       /\ UNCHANGED <<disk, container, late, others, bundle, config, shell>>

Build ==
    /\ Built(IF kind = "setup" THEN "starting" ELSE "recreating")
    /\ images' = images \cup {config.version}
    /\ UNCHANGED saved

\* rebuild checks the port unless the container holds it.
CheckRebuild ==
    /\ at = "recreating"
    /\ IF PortFree THEN Goto("replacing") /\ UNCHANGED <<config>> ELSE End("port in use")
    /\ UNCHANGED <<disk, docker, others, bundle, shell>>

\* up --force-recreate.  The port of the old container is free for the new one.
Replace ==
    /\ at = "replacing"
    /\ Changes(Made(config), "readying")

-----------------------------------------------------------------------------
(* _start, restart, stop and setRestart.                                   *)

\* An existing container keeps its own configuration, whatever setup was asked for.
Start ==
    /\ at = "starting"
    /\ LET known == IF container # NoContainer THEN container.config ELSE config
       IN \/ /\ Running
             /\ config' = known
             /\ Goto("readying")
          \/ /\ ~ Running /\ known.port \in others
             /\ End("port in use")
          \/ /\ ~ Running /\ known.port \notin others
             /\ \/ known.version \in staged /\ config' = known /\ Goto("creating")
                \/ known.version \notin staged /\ End("failed")
    /\ UNCHANGED <<disk, docker, others, bundle, shell>>

\* up --no-build: without an image there is nothing to run.
Create ==
    /\ at = "creating"
    /\ \/ /\ config.version \in images
          /\ (container # NoContainer => container.config # config)
          /\ Changes(Made(config), "readying")
       \/ /\ container # NoContainer
          /\ container.config = config
          /\ Changes(Started(container), "readying") \/ Leaves([do |-> "start", restart |-> FALSE])

CheckRestart ==
    /\ at = "restarting"
    /\ container # NoContainer
    /\ IF Running \/ container.config.port \notin others
       THEN Goto("rebooting") /\ UNCHANGED <<config>>
       ELSE End("port in use")
    /\ UNCHANGED <<disk, docker, others, bundle, shell>>

Restart ==
    /\ at = "rebooting"
    /\ container # NoContainer
    /\ Changes(Started(container), "readying") \/ Leaves([do |-> "start", restart |-> FALSE])

Stop ==
    /\ at = "stopping"
    /\ \/ ~ Running /\ Goto("stopped") /\ UNCHANGED <<docker, config>>
       \/ /\ Running
          /\ container' = [container EXCEPT !.running = FALSE, !.wanted = FALSE]
          /\ Goto("stopped")
          /\ UNCHANGED <<images, late, config>>
       \/ /\ Running
          /\ late' = [do |-> "stop", restart |-> FALSE]
          /\ End("failed")
          /\ UNCHANGED <<images, container>>
    /\ UNCHANGED <<disk, others, bundle, shell>>

\* Mutant of ConfirmStop: the last operation's configuration is saved again.
ConfirmStopBlindly ==
    /\ at = "stopped"
    /\ ~ Running
    /\ saved' = IF saved = NoConfig THEN config ELSE saved
    /\ End("stopped")
    /\ UNCHANGED <<installed, staged, docker, others, bundle, shell>>

ConfirmStop ==
    /\ at = "stopped"
    /\ IF Running THEN End("failed") /\ UNCHANGED saved
       ELSE /\ saved' = IF container # NoContainer THEN container.config ELSE config
            /\ End("stopped")
    /\ UNCHANGED <<installed, staged, docker, others, bundle, shell>>

Update ==
    /\ at = "updating"
    /\ \/ /\ container = NoContainer
          /\ Goto("updated none")
          /\ UNCHANGED <<docker, config>>
       \/ /\ container # NoContainer
          /\ container' = [container EXCEPT !.config.restart = config.restart]
          /\ Goto("updated")
          /\ UNCHANGED <<images, late, config>>
       \/ /\ container # NoContainer
          /\ late' = [do |-> "update", restart |-> config.restart]
          /\ End("failed")
          /\ UNCHANGED <<images, container>>
    /\ UNCHANGED <<disk, others, bundle, shell>>

\* config.json is written before readiness is known.
ConfirmUpdate ==
    /\ \/ at = "updated none"
       \/ at = "updated" /\ container # NoContainer /\ container.config.restart = config.restart
    /\ saved' = config
    /\ IF Running THEN Goto("readying") /\ UNCHANGED config ELSE End("stopped")
    /\ UNCHANGED <<installed, staged, docker, others, bundle, shell>>

-----------------------------------------------------------------------------
(* _ready: inspect, probe, inspect again, and only then save.              *)

\* The operation's own container runs, as configured.  No other process makes one,
\* so a container that is there is the one that was inspected.
OwnRuns == Running /\ container.config = config

Inspect ==
    /\ at = "readying"
    /\ OwnRuns
    /\ Goto("probing")
    /\ UNCHANGED <<disk, docker, others, bundle, config, shell>>

\* A recorder answers at the port: the viewer, the run list and the MCP tools.
Answers(port) == (Running /\ container.config.port = port) \/ port \in others

Probe ==
    /\ at = "probing"
    /\ Goto(IF Answers(config.port) THEN "confirming" ELSE "readying")
    /\ UNCHANGED <<disk, docker, others, bundle, config, shell>>

Ready ==
    /\ saved' = config
    /\ End("ready")
    /\ answer' = IF kind = "setRestart" THEN answer ELSE [port |-> config.port, own |-> TRUE]
    /\ UNCHANGED <<installed, staged, docker, others, bundle, selected, current>>

\* Mutant of Confirm: a recorder that answers is taken for the container.
ConfirmByProbe == at = "confirming" /\ Ready

Confirm ==
    /\ at = "confirming"
    /\ \/ OwnRuns /\ Ready
       \/ /\ ~ OwnRuns
          /\ Goto("readying")
          /\ UNCHANGED <<disk, docker, others, bundle, config, shell>>

-----------------------------------------------------------------------------
(* setup.cjs: what becomes of a recorder that is reported ready.           *)

\* After a port conflict the user may select the recorder that has the port.
UseExisting ==
    /\ at = "idle"
    /\ chosen # NoPort
    /\ Answers(chosen)
    /\ answer' = [port |-> chosen, own |-> FALSE]
    /\ UNCHANGED <<disk, docker, others, bundle, operation, selected, current>>

\* The user accepts the change of the server URL, if it is one, or keeps his own.
Finish ==
    /\ answer # NoOrigin
    /\ answer' = NoOrigin
    /\ \/ selected' = answer /\ current' = IF answer.own THEN answer ELSE NoOrigin
       \/ selected # answer /\ UNCHANGED <<selected, current>>
    /\ UNCHANGED <<disk, docker, others, bundle, operation>>

Select(origin) ==
    /\ selected' = origin
    /\ UNCHANGED <<disk, docker, others, bundle, operation, current, answer>>

-----------------------------------------------------------------------------
(* What happens around the extension.                                      *)

Replaced(c) ==
    /\ container' = c
    /\ UNCHANGED <<disk, images, others, bundle, operation, shell>>

\* The container exits, or Docker is stopped.
Exit == Running /\ Replaced([container EXCEPT !.running = FALSE]) /\ UNCHANGED late

\* Docker starts a container with restart policy again that nobody stopped.
RestartByPolicy ==
    /\ container # NoContainer
    /\ container.config.restart /\ container.wanted
    /\ Replaced(Started(container))
    /\ UNCHANGED late

\* The user removes the container by hand.
Remove == container # NoContainer /\ Replaced(NoContainer) /\ late' = NoCommand

OtherTakes(port) ==
    /\ ~ (Running /\ container.config.port = port)
    /\ others' = others \cup {port}
    /\ UNCHANGED <<disk, docker, bundle, operation, shell>>

OtherLeaves(port) ==
    /\ others' = others \ {port}
    /\ UNCHANGED <<disk, docker, bundle, operation, shell>>

\* A new release of the extension is installed; windows load it when they reload.
UpdateExtension ==
    /\ at = "idle"
    /\ bundle < MaxVersion
    /\ bundle' = bundle + 1
    /\ UNCHANGED <<disk, docker, others, operation, shell>>

-----------------------------------------------------------------------------

Step ==
    \/ Look \/ Install \/ Stage \/ Build \/ CheckRebuild \/ Replace
    \/ Start \/ Create \/ CheckRestart \/ Restart \/ Stop \/ ConfirmStop
    \/ Update \/ ConfirmUpdate \/ Inspect \/ Probe \/ Confirm \/ Interrupt

Environment ==
    \/ LateCommand \/ Exit \/ RestartByPolicy \/ Remove \/ UpdateExtension
    \/ \E port \in Ports : OtherTakes(port) \/ OtherLeaves(port)

Shell ==
    \/ \E port \in Ports, restart \in BOOLEAN : Setup(port, restart)
    \/ \E k \in Kinds \ {"setup", "setRestart"} : Manage(k)
    \/ \E enabled \in BOOLEAN : SetRestart(enabled)
    \/ UseExisting \/ Finish \/ \E origin \in Origin : Select(origin)

Next == Step \/ Shell \/ Environment

Spec == Init /\ [][Next]_vars

-----------------------------------------------------------------------------
(* Properties.                                                             *)

TypeOK ==
    /\ installed \in BOOLEAN
    /\ saved \in Config \cup {NoConfig}
    /\ staged \subseteq Versions
    /\ images \subseteq Versions
    /\ container \in Container \cup {NoContainer}
    /\ others \subseteq Ports
    /\ late \in Command \cup {NoCommand}
    /\ bundle \in Versions
    /\ kind \in Kinds \cup {"none"}
    /\ config \in Config \cup {NoConfig}
    /\ at \notin {"idle", "looking"} => config # NoConfig
    /\ chosen \in Ports \cup {NoPort}
    /\ selected \in Origin
    /\ current \in {origin \in Origin : origin.own} \cup {NoOrigin}
    /\ answer \in Origin \cup {NoOrigin}

\* Whatever was interrupted where, the configuration the next operation starts
\* from is owned, staged and built: it can be started without a build.
KnownCanStart ==
    Known # NoConfig => installed /\ Known.version \in staged \cap images

\* "Ready" and "stopped" are said of the installation's own container in the
\* state it is in, whoever else answers at its port, and config.json agrees.
SuccessIsConfirmed ==
    [][outcome' # outcome /\ outcome' \in {"ready", "stopped"} =>
          /\ outcome' = "ready" => Running
          /\ container # NoContainer =>
                saved' = container.config /\ container.running = (outcome' = "ready")]_vars

\* The origin that is remembered as managed stays the installation's, through
\* rebuilds, conflicts, removals and everything that fails.
ManagedOriginStays ==
    current # NoOrigin =>
        /\ saved # NoConfig /\ saved.port = current.port
        /\ container # NoContainer => container.config.port = current.port

\* A setup that fails because of a port fails because of the port chosen for it.
ConflictIsOfChosenPort ==
    [][kind = "setup" /\ outcome' # outcome /\ outcome' = "port in use" => chosen \in others]_vars
=============================================================================
