-------------------------- MODULE LocalRecorderProofs --------------------------
(***************************************************************************)
(* What TLAPS proves of the local recorder's lifecycle for every number of *)
(* ports and of releases of the extension.                                 *)
(***************************************************************************)
EXTENDS LocalRecorder, TLAPS

USE NoPortAssumption, MaxVersionAssumption, NonesAssumption

-----------------------------------------------------------------------------
(* The inductive invariant.                                                *)

\* Where an operation has decided what to work with, and has what it needs.
Decided == at \notin {"idle", "looking"}
Equipped == at \notin {"idle", "looking", "installing", "staging", "building", "built"}

CanStart(version) == installed /\ version \in staged /\ version \in images

\* What is known, or worked with, has been staged and built.
Prepared ==
    /\ saved # NoConfig => CanStart(saved.version)
    /\ container # NoContainer => CanStart(container.config.version)
    /\ Equipped => CanStart(config.version)
    /\ at \in {"staging", "building"} => installed
    /\ at = "building" => config.version \in staged

\* The port is that of the first installation, in every copy of it.
OnePort ==
    /\ saved # NoConfig /\ container # NoContainer => saved.port = container.config.port
    /\ Decided /\ saved # NoConfig => config.port = saved.port
    /\ Decided /\ container # NoContainer => config.port = container.config.port
    /\ answer # NoOrigin /\ answer.own => saved # NoConfig /\ saved.port = answer.port
    /\ current # NoOrigin => saved # NoConfig /\ saved.port = current.port

\* An update changes the restart policy of the container and nothing else.
UpdatesPolicy ==
    /\ at \in {"updating", "updated"} /\ container # NoContainer =>
          config.version = container.config.version
    /\ at = "updated none" => container = NoContainer

\* What an operation was asked for.
Asked ==
    at = "looking" => kind \in Kinds /\ (kind \in {"setup", "setRestart"} => config # NoConfig)

IInv ==
    /\ TypeOK
    /\ Prepared
    /\ OnePort
    /\ UpdatesPolicy
    /\ Asked

-----------------------------------------------------------------------------

LEMMA ConfigFields ==
    ASSUME NEW c \in Config
    PROVE  /\ c.version \in Versions /\ c.port \in Ports /\ c.restart \in BOOLEAN
           /\ \A r \in BOOLEAN : [c EXCEPT !.restart = r] \in Config
           /\ \A v \in Versions : [c EXCEPT !.version = v] \in Config
  BY DEF Config

\* Two configurations are one if their fields agree.
LEMMA ConfigEqual ==
    ASSUME NEW c \in Config, NEW d \in Config,
           c.version = d.version, c.port = d.port, c.restart = d.restart
    PROVE  c = d
  BY DEF Config

LEMMA ContainerFields ==
    ASSUME NEW c \in Container
    PROVE  /\ c.config \in Config /\ c.running \in BOOLEAN /\ c.wanted \in BOOLEAN
           /\ c # NoContainer
  BY DEF Container

LEMMA MadeContainer ==
    ASSUME NEW c \in Config
    PROVE  Made(c) \in Container /\ Made(c).config = c
  BY DEF Made, Container

\* What Docker does to a container keeps its version and its port.
LEMMA ChangedContainer ==
    ASSUME NEW c \in Container
    PROVE  /\ Started(c) \in Container /\ Started(c).config = c.config
           /\ [c EXCEPT !.running = FALSE] \in Container
           /\ [c EXCEPT !.running = FALSE].config = c.config
           /\ [c EXCEPT !.running = FALSE, !.wanted = FALSE] \in Container
           /\ [c EXCEPT !.running = FALSE, !.wanted = FALSE].config = c.config
<1> DEFINE binds == c.running \/ c.config.port \notin others
<1>1. binds \in BOOLEAN
  BY Zenon
<1>2. \A b \in BOOLEAN : /\ [c EXCEPT !.running = b, !.wanted = TRUE] \in Container
                         /\ [c EXCEPT !.running = b, !.wanted = TRUE].config = c.config
  BY DEF Container
<1>3. Started(c) = [c EXCEPT !.running = binds, !.wanted = TRUE]
  BY DEF Started
<1>4. Started(c) \in Container /\ Started(c).config = c.config
  <2> HIDE DEF binds
  <2> QED
    BY <1>1, <1>2, <1>3
<1> QED
  BY <1>4 DEF Container

LEMMA UpdatedContainer ==
    ASSUME NEW c \in Container, NEW r \in BOOLEAN
    PROVE  /\ [c EXCEPT !.config.restart = r] \in Container
           /\ [c EXCEPT !.config.restart = r].config = [c.config EXCEPT !.restart = r]
           /\ [c EXCEPT !.config.restart = r].config.version = c.config.version
           /\ [c EXCEPT !.config.restart = r].config.port = c.config.port
  BY ConfigFields DEF Container, Config

LEMMA KnownConfig ==
    ASSUME IInv, Known # NoConfig
    PROVE  /\ Known \in Config
           /\ CanStart(Known.version)
           /\ container # NoContainer =>
                 Known.port = container.config.port /\ Known.version = container.config.version
           /\ saved # NoConfig => Known.port = saved.port
  BY ContainerFields DEF IInv, TypeOK, Prepared, OnePort, Known

-----------------------------------------------------------------------------
(* The steps, by what they change.                                         *)

\* The disk stays, and of the container at most its state and restart policy.
SameInstallation ==
    /\ UNCHANGED <<disk, images>>
    /\ container' # NoContainer =>
          /\ container # NoContainer
          /\ container' \in Container
          /\ container'.config.version = container.config.version
          /\ container'.config.port = container.config.port

SameShell == UNCHANGED <<others, bundle, shell>>

\* An operation that ends leaves everything in order.
LEMMA EndStep ==
    ASSUME IInv, NEW how, End(how), SameInstallation, SameShell,
           late' \in Command \cup {NoCommand}
    PROVE  IInv'
<1>1. TypeOK'
  BY DEF IInv, TypeOK, End, SameInstallation, SameShell, disk, shell
<1>2. Prepared'
  BY DEF IInv, TypeOK, Prepared, CanStart, Equipped, End, SameInstallation, SameShell, disk, shell
<1>3. OnePort'
  BY DEF IInv, OnePort, Decided, End, SameInstallation, SameShell, disk, shell
<1>4. UpdatesPolicy' /\ Asked'
  BY DEF UpdatesPolicy, Asked, End
<1> QED
  BY <1>1, <1>2, <1>3, <1>4 DEF IInv

\* An operation that goes on with what it has.
LEMMA GotoStep ==
    ASSUME IInv, Decided, NEW place, Goto(place), UNCHANGED config, SameInstallation, SameShell,
           late' \in Command \cup {NoCommand},
           place \notin {"idle", "looking", "installing", "staging", "building", "built", "updating",
                         "updated", "updated none"},
           CanStart(config.version)
    PROVE  IInv'
<1>1. TypeOK'
  BY DEF IInv, TypeOK, Goto, Decided, SameInstallation, SameShell, disk, shell
<1>2. Prepared'
  BY DEF IInv, TypeOK, Prepared, CanStart, Equipped, Goto, SameInstallation, SameShell, disk, shell
<1>3. OnePort'
  BY DEF IInv, OnePort, Decided, Goto, SameInstallation, SameShell, disk, shell
<1>4. UpdatesPolicy' /\ Asked'
  BY DEF UpdatesPolicy, Asked, Goto
<1> QED
  BY <1>1, <1>2, <1>3, <1>4 DEF IInv

\* What happens around an operation.
LEMMA AroundStep ==
    ASSUME IInv, UNCHANGED operation, SameInstallation,
           late' \in Command \cup {NoCommand}, others' \subseteq Ports, bundle' \in Versions,
           UNCHANGED shell
    PROVE  IInv'
<1>1. TypeOK'
  BY DEF IInv, TypeOK, operation, SameInstallation, disk, shell
<1>2. Prepared'
  BY DEF IInv, TypeOK, Prepared, CanStart, Equipped, operation, SameInstallation, disk, shell
<1>3. OnePort'
  BY DEF IInv, OnePort, Decided, operation, SameInstallation, disk, shell
<1>4. UpdatesPolicy' /\ Asked'
  BY DEF IInv, UpdatesPolicy, Asked, operation, SameInstallation
<1> QED
  BY <1>1, <1>2, <1>3, <1>4 DEF IInv

LEMMA StaysInstalled ==
    ASSUME IInv, UNCHANGED <<disk, images, container>>
    PROVE  SameInstallation
  BY DEF IInv, TypeOK, SameInstallation

\* The container is Docker's doing: it starts, stops, or changes its policy.
LEMMA ContainerStays ==
    ASSUME IInv, container # NoContainer, UNCHANGED <<disk, images>>,
           \/ container' = NoContainer
           \/ container' = Started(container)
           \/ container' = [container EXCEPT !.running = FALSE]
           \/ container' = [container EXCEPT !.running = FALSE, !.wanted = FALSE]
           \/ \E r \in BOOLEAN : container' = [container EXCEPT !.config.restart = r]
    PROVE  SameInstallation
<1>1. container \in Container
  BY DEF IInv, TypeOK
<1>2. CASE \E r \in BOOLEAN : container' = [container EXCEPT !.config.restart = r]
  BY <1>1, <1>2, UpdatedContainer DEF SameInstallation
<1> QED
  BY <1>1, <1>2, ChangedContainer DEF SameInstallation

\* compose up makes a container of the configuration the operation works with.
LEMMA MakeStep ==
    ASSUME IInv, Decided, CanStart(config.version), Changes(Made(config), "readying"),
           at \notin {"updating", "updated", "updated none"}
    PROVE  IInv'
<1>1. /\ config \in Config /\ Made(config) \in Container /\ Made(config).config = config
      /\ Made(config) # NoContainer
  BY MadeContainer, ContainerFields DEF IInv, TypeOK, Decided
<1>2. /\ container' = Made(config) /\ late' = NoCommand
      /\ UNCHANGED <<disk, images, others, bundle, shell>>
      /\ \/ Goto("readying") /\ UNCHANGED config
         \/ \E how : End(how)
  BY DEF Changes
<1>3. TypeOK'
  <2>1. CASE Goto("readying") /\ UNCHANGED config
    BY <1>1, <1>2, <2>1 DEF IInv, TypeOK, Goto, Decided, disk, shell
  <2>2. ASSUME NEW how, End(how)
        PROVE  TypeOK'
    BY <1>1, <1>2, <2>2 DEF IInv, TypeOK, End, disk, shell
  <2> QED
    BY <1>2, <2>1, <2>2
<1>4. Prepared'
  BY <1>1, <1>2 DEF IInv, Prepared, CanStart, Equipped, Goto, End, disk
<1>5. OnePort'
  BY <1>1, <1>2 DEF IInv, OnePort, Decided, Goto, End, disk, shell
<1>6. UpdatesPolicy' /\ Asked'
  BY <1>2 DEF UpdatesPolicy, Asked, Goto, End
<1> QED
  BY <1>3, <1>4, <1>5, <1>6 DEF IInv

\* config.json is written: from now on it is what the container has, if there is one.
LEMMA SaveStep ==
    ASSUME IInv, saved' \in Config, CanStart(saved'.version),
           UNCHANGED <<installed, staged, docker, others, bundle, selected, current>>,
           saved # NoConfig => saved'.port = saved.port,
           container # NoContainer => saved'.port = container.config.port,
           \/ \E how : End(how)
           \/ Goto("readying") /\ UNCHANGED config /\ saved' = config /\ Decided,
           answer' = answer \/ answer' = [port |-> saved'.port, own |-> TRUE]
    PROVE  IInv'
<1>1. saved'.port \in Ports /\ saved' # NoConfig
  BY ConfigFields
<1>2. [port |-> saved'.port, own |-> TRUE] \in Origin
  BY <1>1 DEF Origin
<1>3. TypeOK'
  <2>1. CASE Goto("readying") /\ UNCHANGED config /\ Decided
    BY <1>2, <2>1 DEF IInv, TypeOK, Goto, Decided, docker
  <2>2. ASSUME NEW how, End(how)
        PROVE  TypeOK'
    BY <1>2, <2>2 DEF IInv, TypeOK, End, docker
  <2> QED
    BY <2>1, <2>2
<1>4. Prepared'
  BY <1>1 DEF IInv, Prepared, CanStart, Equipped, Goto, End, docker
<1>5. OnePort'
  <2>1. /\ saved' # NoConfig /\ container' # NoContainer => saved'.port = container'.config.port
        /\ Decided' => config'.port = saved'.port
        /\ Decided' /\ container' # NoContainer => config'.port = container'.config.port
    BY <1>1 DEF IInv, OnePort, Decided, Goto, End, docker
  <2>2. answer' # NoOrigin /\ answer'.own => saved'.port = answer'.port
    BY <1>1 DEF IInv, OnePort
  <2>3. current' # NoOrigin => saved'.port = current'.port
    BY <1>1 DEF IInv, OnePort
  <2> QED
    BY <1>1, <2>1, <2>2, <2>3 DEF OnePort
<1>6. UpdatesPolicy' /\ Asked'
  BY DEF UpdatesPolicy, Asked, Goto, End
<1> QED
  BY <1>3, <1>4, <1>5, <1>6 DEF IInv

-----------------------------------------------------------------------------
(* The steps of an operation.                                              *)

LEMMA BeginStep ==
    ASSUME IInv, NEW k \in Kinds, NEW asked \in Config \cup {NoConfig}, Begin(k, asked),
           k \in {"setup", "setRestart"} => asked # NoConfig
    PROVE  IInv'
<1>1. TypeOK'
  BY ConfigFields DEF IInv, TypeOK, Begin, disk, docker, shell
<1>2. Prepared' /\ UpdatesPolicy' /\ Asked'
  BY DEF IInv, Prepared, CanStart, Equipped, UpdatesPolicy, Asked, Begin, disk, docker
<1>3. OnePort'
  BY DEF IInv, OnePort, Decided, Begin, disk, docker, shell
<1> QED
  BY <1>1, <1>2, <1>3 DEF IInv

LEMMA ShellBegins ==
    ASSUME IInv,
           \/ \E port \in Ports, restart \in BOOLEAN : Setup(port, restart)
           \/ \E k \in Kinds \ {"setup", "setRestart"} : Manage(k)
           \/ \E enabled \in BOOLEAN : SetRestart(enabled)
    PROVE  IInv'
<1>1. ASSUME NEW port \in Ports, NEW restart \in BOOLEAN, Setup(port, restart)
      PROVE  IInv'
  <2>1. [version |-> bundle, port |-> port, restart |-> restart] \in Config
    BY DEF IInv, TypeOK, Config
  <2> QED
    BY <1>1, <2>1, BeginStep DEF Setup, Kinds
<1>2. ASSUME NEW k \in Kinds \ {"setup", "setRestart"}, Manage(k)
      PROVE  IInv'
  BY <1>2, BeginStep DEF Manage
<1>3. ASSUME NEW enabled \in BOOLEAN, SetRestart(enabled)
      PROVE  IInv'
  <2>1. Known \in Config
    BY <1>3, KnownConfig DEF SetRestart, Managed
  <2>2. [Known EXCEPT !.restart = enabled] \in Config
    BY <2>1, ConfigFields
  <2> QED
    BY <1>3, <2>2, BeginStep DEF SetRestart, Kinds
<1> QED
  BY <1>1, <1>2, <1>3

LEMMA LookStep ==
    ASSUME IInv, Look
    PROVE  IInv'
<1>1. at = "looking" /\ UNCHANGED <<disk, docker, others, bundle, shell>>
  BY DEF Look
<1>2. SameInstallation /\ SameShell /\ late' \in Command \cup {NoCommand}
  BY <1>1, StaysInstalled DEF IInv, TypeOK, SameShell, disk, docker
<1>3. CASE Known = NoConfig /\ kind = "setup" /\ Goto("installing") /\ UNCHANGED config
  <2>1. saved = NoConfig /\ container = NoContainer
    BY <1>3, ContainerFields DEF IInv, TypeOK, Known
  <2>2. TypeOK'
    BY <1>1, <1>3 DEF IInv, TypeOK, Asked, Goto, disk, docker, shell
  <2>3. Prepared' /\ OnePort' /\ UpdatesPolicy' /\ Asked'
    BY <1>1, <1>3, <2>1
       DEF IInv, Prepared, Equipped, OnePort, UpdatesPolicy, Asked, Goto, disk, docker, shell
  <2> QED
    BY <2>2, <2>3 DEF IInv
<1>4. CASE End("failed")
  BY <1>2, <1>4, EndStep
<1>5. CASE /\ Known # NoConfig
           /\ config' = CASE kind = "rebuild" -> [Known EXCEPT !.version = bundle]
                          [] kind = "setRestart" -> [Known EXCEPT !.restart = config.restart]
                          [] OTHER -> Known
           /\ Goto(After(kind))
  <2>1. /\ Known \in Config /\ CanStart(Known.version)
        /\ container # NoContainer =>
              Known.port = container.config.port /\ Known.version = container.config.version
        /\ saved # NoConfig => Known.port = saved.port
    BY <1>5, KnownConfig
  <2>2. kind \in Kinds /\ (kind = "setRestart" => config \in Config) /\ bundle \in Versions
    BY <1>1 DEF IInv, TypeOK, Asked
  <2>3. /\ config' \in Config /\ config'.port = Known.port
        /\ kind # "rebuild" => config'.version = Known.version
    BY <1>5, <2>1, <2>2, ConfigFields DEF Kinds, Config
  <2>4. /\ at' \in {"starting", "restarting", "staging", "stopping", "updating"}
        /\ at' = "staging" <=> kind = "rebuild"
        /\ UNCHANGED <<kind, chosen, outcome>>
    BY <1>5, <2>2 DEF After, Goto, Kinds
  <2>5. TypeOK'
    BY <1>1, <2>3, <2>4 DEF IInv, TypeOK, disk, docker, shell
  <2>6. Prepared'
    BY <1>1, <2>1, <2>3, <2>4 DEF IInv, Prepared, CanStart, Equipped, disk, docker
  <2>7. OnePort'
    BY <1>1, <2>1, <2>3, <2>4 DEF IInv, OnePort, Decided, disk, docker, shell
  <2>8. UpdatesPolicy' /\ Asked'
    BY <1>1, <2>1, <2>3, <2>4 DEF UpdatesPolicy, Asked, docker
  <2> QED
    BY <2>5, <2>6, <2>7, <2>8 DEF IInv
<1> QED
  BY <1>3, <1>4, <1>5 DEF Look

LEMMA InstallStep ==
    ASSUME IInv, Install \/ Stage \/ Build
    PROVE  IInv'
<1>1. CASE Install
  <2>1. TypeOK'
    BY <1>1 DEF IInv, TypeOK, Install, Goto, End, docker, shell
  <2>2. Prepared' /\ OnePort' /\ UpdatesPolicy' /\ Asked'
    BY <1>1 DEF IInv, TypeOK, Prepared, CanStart, Equipped, OnePort, Decided, UpdatesPolicy, Asked,
                Install, Goto, End, docker, shell
  <2> QED
    BY <2>1, <2>2 DEF IInv
<1>2. CASE Stage
  <2>1. config \in Config /\ config.version \in Versions
    BY <1>2, ConfigFields DEF IInv, TypeOK, Stage
  <2>2. TypeOK'
    BY <1>2, <2>1 DEF IInv, TypeOK, Stage, Goto, docker, shell
  <2>3. Prepared' /\ OnePort' /\ UpdatesPolicy' /\ Asked'
    BY <1>2 DEF IInv, Prepared, CanStart, Equipped, OnePort, Decided, UpdatesPolicy, Asked,
                Stage, Goto, docker, shell
  <2> QED
    BY <2>2, <2>3 DEF IInv
<1>3. CASE Build
  <2>1. config \in Config /\ config.version \in Versions
    BY <1>3, ConfigFields DEF IInv, TypeOK, Build, Built
  <2>2. /\ at = "building" /\ at' \in {"starting", "recreating"}
        /\ images' = images \cup {config.version}
        /\ UNCHANGED <<saved, kind, chosen, outcome, installed, staged, container, late, others,
                       bundle, config, shell>>
    BY <1>3 DEF Build, Built, Goto
  <2>3. TypeOK'
    BY <2>1, <2>2 DEF IInv, TypeOK, shell
  <2>4. Prepared' /\ OnePort' /\ UpdatesPolicy' /\ Asked'
    BY <2>2 DEF IInv, Prepared, CanStart, Equipped, OnePort, Decided, UpdatesPolicy, Asked, shell
  <2> QED
    BY <2>3, <2>4 DEF IInv
<1> QED
  BY <1>1, <1>2, <1>3

\* Steps that only look, and then go on or end.
LEMMA CheckStep ==
    ASSUME IInv, CheckRebuild \/ CheckRestart \/ Inspect \/ Probe
    PROVE  IInv'
<1>1. /\ UNCHANGED <<disk, docker, others, bundle, shell>>
      /\ at \in {"recreating", "restarting", "readying", "probing"}
      /\ \/ \E how : End(how)
         \/ /\ UNCHANGED config
            /\ \E place \in {"replacing", "rebooting", "probing", "confirming", "readying"} :
                  Goto(place)
  BY DEF CheckRebuild, CheckRestart, Inspect, Probe
<1>2. SameInstallation /\ SameShell /\ late' \in Command \cup {NoCommand}
  BY <1>1, StaysInstalled DEF IInv, TypeOK, SameShell, disk, docker
<1>3. Decided /\ CanStart(config.version)
  BY <1>1 DEF IInv, Prepared, Equipped, Decided
<1>4. ASSUME NEW how, End(how)
      PROVE  IInv'
  BY <1>2, <1>4, EndStep
<1>5. ASSUME NEW place \in {"replacing", "rebooting", "probing", "confirming", "readying"},
             Goto(place), UNCHANGED config
      PROVE  IInv'
  BY <1>2, <1>3, <1>5, GotoStep
<1> QED
  BY <1>1, <1>4, <1>5

LEMMA StartStep ==
    ASSUME IInv, Start
    PROVE  IInv'
<1> DEFINE known == IF container # NoContainer THEN container.config ELSE config
<1>1. /\ at = "starting" /\ UNCHANGED <<disk, docker, others, bundle, shell>>
      /\ \/ \E how : End(how)
         \/ config' = known /\ \E place \in {"readying", "creating"} : Goto(place)
  BY DEF Start
<1>2. SameInstallation /\ SameShell /\ late' \in Command \cup {NoCommand}
  BY <1>1, StaysInstalled DEF IInv, TypeOK, SameShell, disk, docker
<1>3. /\ known \in Config /\ known.port = config.port /\ CanStart(known.version)
      /\ container # NoContainer => known = container.config
  BY <1>1, ContainerFields DEF IInv, TypeOK, Prepared, Equipped, OnePort, Decided
<1>4. ASSUME NEW how, End(how)
      PROVE  IInv'
  BY <1>2, <1>4, EndStep
<1>5. ASSUME NEW place \in {"readying", "creating"}, Goto(place), config' = known
      PROVE  IInv'
  <2> HIDE DEF known
  <2>1. TypeOK'
    BY <1>1, <1>3, <1>5 DEF IInv, TypeOK, Goto, disk, docker, shell
  <2>2. Prepared'
    BY <1>1, <1>3, <1>5 DEF IInv, Prepared, CanStart, Equipped, Goto, disk, docker
  <2>3. OnePort'
    BY <1>1, <1>3, <1>5 DEF IInv, OnePort, Decided, Goto, disk, docker, shell
  <2>4. UpdatesPolicy' /\ Asked'
    BY <1>5 DEF UpdatesPolicy, Asked, Goto
  <2> QED
    BY <2>1, <2>2, <2>3, <2>4 DEF IInv
<1> QED
  BY <1>1, <1>4, <1>5

\* Docker starts the container there is, or is left to it.
LEMMA StartsContainer ==
    ASSUME IInv, at \in {"creating", "rebooting"}, container # NoContainer,
           \/ Changes(Started(container), "readying")
           \/ Leaves([do |-> "start", restart |-> FALSE])
    PROVE  IInv'
<1>1. Decided /\ CanStart(config.version)
  BY DEF IInv, Prepared, Equipped, Decided
<1>2. CASE Changes(Started(container), "readying")
  <2>1. /\ container' = Started(container) /\ late' = NoCommand
        /\ UNCHANGED <<disk, images, others, bundle, shell>>
        /\ \/ Goto("readying") /\ UNCHANGED config
           \/ \E how : End(how)
    BY <1>2 DEF Changes
  <2>2. SameInstallation /\ SameShell /\ late' \in Command \cup {NoCommand}
    BY <2>1, ContainerStays DEF SameShell
  <2>3. ASSUME NEW how, End(how)
        PROVE  IInv'
    BY <2>2, <2>3, EndStep
  <2>4. CASE Goto("readying") /\ UNCHANGED config
    BY <1>1, <2>2, <2>4, GotoStep
  <2> QED
    BY <2>1, <2>3, <2>4
<1>3. CASE Leaves([do |-> "start", restart |-> FALSE])
  <2>1. late' \in Command \cup {NoCommand}
    BY <1>3 DEF Leaves, Command
  <2>2. SameInstallation /\ SameShell
    BY <1>3, StaysInstalled DEF Leaves, SameShell, disk
  <2> QED
    BY <1>3, <2>1, <2>2, EndStep DEF Leaves
<1> QED
  BY <1>2, <1>3

LEMMA CreateStep ==
    ASSUME IInv, Create \/ Replace \/ Restart
    PROVE  IInv'
<1>1. CASE Create
  <2>1. at = "creating"
    BY <1>1 DEF Create
  <2>2. Decided /\ CanStart(config.version)
    BY <2>1 DEF IInv, Prepared, Equipped, Decided
  <2> QED
    BY <1>1, <2>1, <2>2, MakeStep, StartsContainer DEF Create
<1>2. CASE Replace
  <2>1. at = "replacing"
    BY <1>2 DEF Replace
  <2>2. Decided /\ CanStart(config.version)
    BY <2>1 DEF IInv, Prepared, Equipped, Decided
  <2> QED
    BY <1>2, <2>1, <2>2, MakeStep DEF Replace
<1>3. CASE Restart
  BY <1>3, StartsContainer DEF Restart
<1> QED
  BY <1>1, <1>2, <1>3

LEMMA StopStep ==
    ASSUME IInv, Stop
    PROVE  IInv'
<1>1. /\ at = "stopping" /\ Decided /\ CanStart(config.version)
      /\ UNCHANGED <<disk, images, others, bundle, shell>> /\ SameShell
  BY DEF Stop, IInv, Prepared, Equipped, Decided, docker, SameShell
<1>2. CASE ~ Running /\ Goto("stopped") /\ UNCHANGED <<docker, config>>
  <2>1. SameInstallation /\ late' \in Command \cup {NoCommand}
    BY <1>1, <1>2, StaysInstalled DEF docker, IInv, TypeOK
  <2> QED
    BY <1>1, <1>2, <2>1, GotoStep
<1>3. CASE /\ Running
           /\ container' = [container EXCEPT !.running = FALSE, !.wanted = FALSE]
           /\ Goto("stopped")
           /\ UNCHANGED <<images, late, config>>
  <2>1. SameInstallation /\ late' \in Command \cup {NoCommand}
    BY <1>1, <1>3, ContainerStays DEF Running, IInv, TypeOK
  <2> QED
    BY <1>1, <1>3, <2>1, GotoStep
<1>4. CASE /\ Running
           /\ late' = [do |-> "stop", restart |-> FALSE]
           /\ End("failed")
           /\ UNCHANGED <<images, container>>
  <2>1. SameInstallation /\ late' \in Command \cup {NoCommand}
    BY <1>1, <1>4, StaysInstalled DEF Command
  <2> QED
    BY <1>1, <1>4, <2>1, EndStep
<1> QED
  BY <1>2, <1>3, <1>4 DEF Stop

LEMMA UpdateStep ==
    ASSUME IInv, Update
    PROVE  IInv'
<1>1. /\ at = "updating" /\ Decided /\ CanStart(config.version) /\ config \in Config
      /\ UNCHANGED <<disk, images, others, bundle, shell>> /\ SameShell
  BY DEF Update, IInv, TypeOK, Prepared, Equipped, Decided, docker, SameShell
<1>2. config.restart \in BOOLEAN
  BY <1>1, ConfigFields
<1>3. CASE container = NoContainer /\ Goto("updated none") /\ UNCHANGED <<docker, config>>
  <2>1. TypeOK'
    BY <1>1, <1>3 DEF IInv, TypeOK, Goto, disk, docker, shell
  <2>2. Prepared' /\ OnePort' /\ UpdatesPolicy' /\ Asked'
    BY <1>1, <1>3 DEF IInv, Prepared, CanStart, Equipped, OnePort, Decided, UpdatesPolicy, Asked,
                      Goto, disk, docker, shell
  <2> QED
    BY <2>1, <2>2 DEF IInv
<1>4. CASE /\ container # NoContainer
           /\ container' = [container EXCEPT !.config.restart = config.restart]
           /\ Goto("updated")
           /\ UNCHANGED <<images, late, config>>
  <2>1. SameInstallation
    BY <1>1, <1>2, <1>4, ContainerStays
  <2>2. TypeOK'
    BY <1>1, <1>4, <2>1 DEF IInv, TypeOK, SameInstallation, Goto, disk, shell
  <2>3. Prepared' /\ OnePort' /\ UpdatesPolicy' /\ Asked'
    BY <1>1, <1>4, <2>1
       DEF IInv, Prepared, CanStart, Equipped, OnePort, Decided, UpdatesPolicy, Asked,
           SameInstallation, Goto, disk, shell
  <2> QED
    BY <2>2, <2>3 DEF IInv
<1>5. CASE /\ container # NoContainer
           /\ late' = [do |-> "update", restart |-> config.restart]
           /\ End("failed")
           /\ UNCHANGED <<images, container>>
  <2>1. SameInstallation /\ late' \in Command \cup {NoCommand}
    BY <1>1, <1>2, <1>5, StaysInstalled DEF Command
  <2> QED
    BY <1>1, <1>5, <2>1, EndStep
<1> QED
  BY <1>3, <1>4, <1>5 DEF Update

LEMMA ConfirmStopStep ==
    ASSUME IInv, ConfirmStop
    PROVE  IInv'
<1>1. /\ at = "stopped" /\ Decided /\ CanStart(config.version) /\ config \in Config
      /\ UNCHANGED <<installed, staged, docker, others, bundle, shell>>
  BY DEF ConfirmStop, IInv, TypeOK, Prepared, Equipped, Decided
<1>2. CASE End("failed") /\ UNCHANGED saved
  <2>1. SameInstallation /\ SameShell /\ late' \in Command \cup {NoCommand}
    BY <1>1, <1>2, StaysInstalled DEF SameShell, disk, docker, IInv, TypeOK
  <2> QED
    BY <1>2, <2>1, EndStep
<1>3. CASE /\ saved' = IF container # NoContainer THEN container.config ELSE config
           /\ End("stopped")
  <2>1. /\ saved' \in Config /\ CanStart(saved'.version)
        /\ saved # NoConfig => saved'.port = saved.port
        /\ container # NoContainer => saved'.port = container.config.port
    BY <1>1, <1>3, ContainerFields DEF IInv, TypeOK, Prepared, OnePort
  <2> QED
    BY <1>1, <1>3, <2>1, SaveStep DEF shell
<1> QED
  BY <1>2, <1>3 DEF ConfirmStop

LEMMA ConfirmUpdateStep ==
    ASSUME IInv, ConfirmUpdate
    PROVE  IInv'
<1>1. /\ Decided /\ CanStart(config.version) /\ config \in Config /\ saved' = config
      /\ UNCHANGED <<installed, staged, docker, others, bundle, shell>>
      /\ (Goto("readying") /\ UNCHANGED config) \/ End("stopped")
  BY DEF ConfirmUpdate, IInv, TypeOK, Prepared, Equipped, Decided
<1>2. /\ saved # NoConfig => saved'.port = saved.port
      /\ container # NoContainer => saved'.port = container.config.port
  BY <1>1 DEF IInv, OnePort
<1> QED
  BY <1>1, <1>2, SaveStep DEF shell

LEMMA ConfirmStep ==
    ASSUME IInv, Confirm
    PROVE  IInv'
<1>1. at = "confirming" /\ Decided /\ CanStart(config.version) /\ config \in Config
  BY DEF Confirm, IInv, TypeOK, Prepared, Equipped, Decided
<1>2. CASE Ready
  <2>1. /\ saved' = config
        /\ UNCHANGED <<installed, staged, docker, others, bundle, selected, current>>
        /\ End("ready")
        /\ answer' = answer \/ answer' = [port |-> saved'.port, own |-> TRUE]
    BY <1>2 DEF Ready
  <2>2. /\ saved # NoConfig => saved'.port = saved.port
        /\ container # NoContainer => saved'.port = container.config.port
    BY <1>1, <2>1 DEF IInv, OnePort
  <2> QED
    BY <1>1, <2>1, <2>2, SaveStep
<1>3. CASE Goto("readying") /\ UNCHANGED <<disk, docker, others, bundle, config, shell>>
  <2>1. SameInstallation /\ SameShell /\ late' \in Command \cup {NoCommand}
    BY <1>3, StaysInstalled DEF SameShell, disk, docker, IInv, TypeOK
  <2> QED
    BY <1>1, <1>3, <2>1, GotoStep
<1> QED
  BY <1>2, <1>3 DEF Confirm

LEMMA InterruptStep ==
    ASSUME IInv, Interrupt
    PROVE  IInv'
<1>1. SameInstallation /\ SameShell /\ late' \in Command \cup {NoCommand}
  BY StaysInstalled DEF Interrupt, SameShell, disk, docker, IInv, TypeOK
<1> QED
  BY <1>1, EndStep DEF Interrupt

-----------------------------------------------------------------------------
(* What happens around operations.                                         *)

LEMMA EnvironmentStep ==
    ASSUME IInv, Environment
    PROVE  IInv'
<1>1. CASE LateCommand
  <2>1. /\ container # NoContainer /\ late' = NoCommand
        /\ UNCHANGED <<disk, images, others, bundle, operation, shell>>
        /\ late \in Command
    BY <1>1 DEF LateCommand, IInv, TypeOK
  <2>2. \/ container' = Started(container)
        \/ container' = [container EXCEPT !.running = FALSE, !.wanted = FALSE]
        \/ container' = [container EXCEPT !.config.restart = late.restart]
    BY <1>1, <2>1 DEF LateCommand, Command
  <2>3. late.restart \in BOOLEAN
    BY <2>1 DEF Command
  <2>4. SameInstallation
    BY <2>1, <2>2, <2>3, ContainerStays
  <2>5. others' \subseteq Ports /\ bundle' \in Versions
    BY <2>1 DEF IInv, TypeOK
  <2> QED
    BY <2>1, <2>4, <2>5, AroundStep
<1>2. CASE Exit \/ RestartByPolicy \/ Remove
  <2>1. /\ container # NoContainer /\ late' \in {late, NoCommand}
        /\ UNCHANGED <<disk, images, others, bundle, operation, shell>>
        /\ \/ container' = NoContainer
           \/ container' = Started(container)
           \/ container' = [container EXCEPT !.running = FALSE]
    BY <1>2 DEF Exit, RestartByPolicy, Remove, Replaced, Running
  <2>2. SameInstallation
    BY <2>1, ContainerStays
  <2>3. late' \in Command \cup {NoCommand} /\ others' \subseteq Ports /\ bundle' \in Versions
    BY <2>1 DEF IInv, TypeOK
  <2> QED
    BY <2>1, <2>2, <2>3, AroundStep
<1>3. CASE UpdateExtension \/ \E port \in Ports : OtherTakes(port) \/ OtherLeaves(port)
  <2>1. UNCHANGED <<disk, docker, operation, shell>>
    BY <1>3 DEF UpdateExtension, OtherTakes, OtherLeaves
  <2>2. SameInstallation /\ late' \in Command \cup {NoCommand}
    BY <2>1, StaysInstalled DEF docker, IInv, TypeOK
  <2>3. others' \subseteq Ports /\ bundle' \in Versions
    BY <1>3 DEF UpdateExtension, OtherTakes, OtherLeaves, IInv, TypeOK, Versions
  <2> QED
    BY <2>1, <2>2, <2>3, AroundStep
<1> QED
  BY <1>1, <1>2, <1>3 DEF Environment

LEMMA ShellStep ==
    ASSUME IInv, UseExisting \/ Finish \/ \E origin \in Origin : Select(origin)
    PROVE  IInv'
<1>1. UNCHANGED <<disk, docker, others, bundle, operation>>
  BY DEF UseExisting, Finish, Select
<1>2. /\ selected' \in Origin
      /\ answer' \in Origin \cup {NoOrigin}
      /\ current' \in {origin \in Origin : origin.own} \cup {NoOrigin}
  <2>1. CASE UseExisting
    <3>1. [port |-> chosen, own |-> FALSE] \in Origin
      BY <2>1 DEF UseExisting, IInv, TypeOK, Origin
    <3> QED
      BY <2>1, <3>1 DEF UseExisting, IInv, TypeOK
  <2>2. CASE Finish
    BY <2>2 DEF Finish, IInv, TypeOK
  <2>3. CASE \E origin \in Origin : Select(origin)
    BY <2>3 DEF Select, IInv, TypeOK
  <2> QED
    BY <2>1, <2>2, <2>3
<1>3. TypeOK'
  BY <1>1, <1>2 DEF IInv, TypeOK, disk, docker, operation
<1>4. Prepared' /\ UpdatesPolicy' /\ Asked'
  BY <1>1 DEF IInv, Prepared, CanStart, Equipped, UpdatesPolicy, Asked, disk, docker, operation
<1>5. OnePort'
  BY <1>1 DEF IInv, OnePort, Decided, UseExisting, Finish, Select, disk, docker, operation
<1> QED
  BY <1>3, <1>4, <1>5 DEF IInv

-----------------------------------------------------------------------------

LEMMA IInvInit == Init => IInv
<1> SUFFICES ASSUME Init
             PROVE  IInv
  OBVIOUS
<1>1. TypeOK
  <2>1. 1 \in Versions
    BY DEF Versions
  <2> QED
    BY <2>1 DEF Init, TypeOK
<1>2. Prepared /\ OnePort /\ UpdatesPolicy /\ Asked
  BY DEF Init, Prepared, Equipped, OnePort, Decided, UpdatesPolicy, Asked
<1> QED
  BY <1>1, <1>2 DEF IInv

LEMMA IInvStep == IInv /\ [Next]_vars => IInv'
<1> SUFFICES ASSUME IInv, [Next]_vars
             PROVE  IInv'
  OBVIOUS
<1>1. CASE UNCHANGED vars
  <2>1. TypeOK' /\ Prepared'
    BY <1>1 DEF vars, disk, docker, operation, shell, IInv, TypeOK, Prepared, CanStart, Equipped
  <2>2. OnePort' /\ UpdatesPolicy' /\ Asked'
    BY <1>1 DEF vars, disk, docker, operation, shell, IInv, OnePort, Decided, UpdatesPolicy, Asked
  <2> QED
    BY <2>1, <2>2 DEF IInv
<1>2. CASE Step
  BY <1>2, LookStep, InstallStep, CheckStep, StartStep, CreateStep, StopStep, UpdateStep,
     ConfirmStopStep, ConfirmUpdateStep, ConfirmStep, InterruptStep DEF Step
<1>3. CASE Shell
  BY <1>3, ShellBegins, ShellStep DEF Shell
<1>4. CASE Environment
  BY <1>4, EnvironmentStep
<1> QED
  BY <1>1, <1>2, <1>3, <1>4 DEF Next

LEMMA Inductive == Spec => []IInv
<1> QED
  BY IInvInit, IInvStep, PTL DEF Spec

-----------------------------------------------------------------------------
(* The theorems.                                                           *)

\* The lifecycle keeps its types, and works with a configuration once it decided.
THEOREM TypeCorrect == Spec => []TypeOK
<1>1. IInv => TypeOK
  BY DEF IInv
<1> QED
  BY <1>1, Inductive, PTL

\* Wherever an operation was interrupted, what the next one finds was staged and built.
THEOREM InterruptedCanStart == Spec => []KnownCanStart
<1>1. IInv => KnownCanStart
  BY KnownConfig DEF KnownCanStart, CanStart
<1> QED
  BY <1>1, Inductive, PTL

\* The origin that setup.cjs remembers as managed is the installation's for ever.
THEOREM ManagedOriginsStay == Spec => []ManagedOriginStays
<1>1. IInv => ManagedOriginStays
  BY DEF IInv, OnePort, ManagedOriginStays
<1> QED
  BY <1>1, Inductive, PTL

\* "Ready" and "stopped" are said of the installation's own container, as it is.
THEOREM SuccessIsOfOwnContainer == Spec => SuccessIsConfirmed
<1>1. ASSUME IInv, Next, outcome' # outcome, outcome' \in {"ready", "stopped"}
      PROVE  /\ outcome' = "ready" => Running
             /\ container # NoContainer =>
                   saved' = container.config /\ container.running = (outcome' = "ready")
  <2>1. container # NoContainer => container.config \in Config /\ container.running \in BOOLEAN
    BY <1>1, ContainerFields DEF IInv, TypeOK
  <2>2. CASE Confirm
    BY <1>1, <2>1, <2>2 DEF Confirm, Ready, End, Goto, OwnRuns, Running
  <2>3. CASE ConfirmStop
    BY <1>1, <2>1, <2>3 DEF ConfirmStop, End, Running
  <2>4. CASE ConfirmUpdate
    <3>1. /\ ~ Running /\ outcome' = "stopped" /\ saved' = config /\ config \in Config
      BY <1>1, <2>4 DEF ConfirmUpdate, End, Goto, IInv, TypeOK
    <3>2. container # NoContainer =>
             /\ at = "updated"
             /\ config.version = container.config.version
             /\ config.port = container.config.port
             /\ config.restart = container.config.restart
      BY <1>1, <2>4 DEF ConfirmUpdate, IInv, OnePort, Decided, UpdatesPolicy
    <3> QED
      BY <2>1, <3>1, <3>2, ConfigEqual DEF Running
  <2>5. CASE ~ (Confirm \/ ConfirmStop \/ ConfirmUpdate)
    <3>1. \/ UNCHANGED outcome
          \/ \E how \in {"failed", "port in use"} : outcome' = how
      <4>1. CASE Step
        BY <2>5, <4>1 DEF Step, Look, Install, Stage, Build, Built, CheckRebuild, Replace, Start,
                   Create, CheckRestart, Restart, Stop, Update, Inspect, Probe, Interrupt,
                   Changes, Leaves, Goto, End
      <4>2. CASE Shell
        BY <4>2 DEF Shell, Setup, Manage, SetRestart, Begin, UseExisting, Finish, Select, operation
      <4>3. CASE Environment
        BY <4>3 DEF Environment, LateCommand, Exit, RestartByPolicy, Remove, Replaced,
                    UpdateExtension, OtherTakes, OtherLeaves, operation
      <4> QED
        BY <1>1, <4>1, <4>2, <4>3 DEF Next
    <3> QED
      BY <1>1, <3>1
  <2> QED
    BY <2>2, <2>3, <2>4, <2>5
<1>2. IInv /\ [Next]_vars =>
         [outcome' # outcome /\ outcome' \in {"ready", "stopped"} =>
             /\ outcome' = "ready" => Running
             /\ container # NoContainer =>
                   saved' = container.config /\ container.running = (outcome' = "ready")]_vars
  BY <1>1
<1> QED
  BY <1>2, Inductive, PTL DEF Spec, SuccessIsConfirmed
=============================================================================
