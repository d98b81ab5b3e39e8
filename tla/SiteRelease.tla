---------------------------- MODULE SiteRelease ----------------------------
(***************************************************************************)
(* The blue/green lifecycle of one Site: application-release.sh, which     *)
(* runs bootstrap-site.sh or switch-slot.sh, reconcile-site.sh, and the    *)
(* operator's rollback-slot.sh.  A script is a job: its locals are the     *)
(* record `job', the command it is about to run is `pc', and each action   *)
(* is one command that changes the host.  Runs on one Site are serialized  *)
(* (Pulumi's stack lock and the README's rule), so there is one job.       *)
(*                                                                         *)
(* A job can stop between any two commands: it is killed, or a command     *)
(* fails that the script does not handle (set -e).  MaxInterrupts bounds   *)
(* how often.  Traefik watches the route file and reloads it on its own    *)
(* time: `loaded' is the route it serves, `route' the one in the file.     *)
(*                                                                         *)
(* Time is kept by two count-down timers: `due' is what Traefik has left   *)
(* to reload a route, `rest' what is left of a release's drain.            *)
(*                                                                         *)
(* Left out: the content of environment files other than the data modes    *)
(* they carry, the retry counts of the probes (a probe passes or fails),   *)
(* and the route's backup file, which a script always rewrites before it   *)
(* reads it and which is therefore the local job.saved.                    *)
(***************************************************************************)
EXTENDS Naturals, FiniteSets

CONSTANTS
    Images,             \* the immutable image digests a Site can be configured with
    Modes,              \* the pairs (postgres mode, redis mode)
    None,               \* an absent record, slot, image, mode or job
    MaxInterrupts,      \* bound: how often a job is cut short
    DrainSeconds,       \* the Site's drainSeconds (0 is allowed)
    ReloadSeconds       \* Traefik serves a route at the latest so long after its writing

Slots == {"blue", "green"}

DeployStates ==
    [activeSlot : Slots, activeImage : Images,
     previousSlot : Slots \cup {None}, previousImage : Images \cup {None},
     mode : Modes \cup {None}]

Scripts == {"bootstrap", "switch", "reconcile", "rollback"}

(* The locals of a script: the slot and image it starts, the slot that was *)
(* active, the modes it was given and the route it replaced.               *)
Jobs ==
    [script : Scripts, slot : Slots, image : Images, old : Slots \cup {None},
     mode : Modes, saved : Slots \cup {None}]

ASSUME NoneAssumption ==
    /\ None \notin Images
    /\ None \notin Modes
    /\ None \notin Slots
    /\ None \notin DeployStates
    /\ None \notin Jobs

ASSUME BoundAssumption ==
    /\ MaxInterrupts \in Nat
    /\ DrainSeconds \in Nat
    /\ ReloadSeconds \in Nat

VARIABLES
    deploy,      \* deploy-state.json, or None
    marker,      \* does the bootstrap marker exist?
    env,         \* the modes runtime.env was rendered for, or None
    dataUp,      \* the modes whose local data services were started
    route,       \* the slot the Site's route file names, or None
    loaded,      \* the slot of the route Traefik has loaded, or None
    cont,        \* each slot's container: running?, its image and its AUTO_SETUP
    installed,   \* the slots whose data directory holds the install marker
    pc,          \* the command the job runs next
    job,         \* the locals of the running script, or None
    interrupts,  \* how often a job was cut short
    due,         \* the seconds Traefik has left to reload
    rest         \* the seconds the drain still sleeps

timers == <<due, rest>>

vars == <<deploy, marker, env, dataUp, route, loaded, cont, installed, pc, job, interrupts,
          timers>>

Commands ==
    {"renderEnv", "startData", "stopTarget", "copyData", "start", "probeInternal",
     "writeRoute", "probePublic", "restoreRoute", "stopFailed", "drain", "stopOld",
     "writeState", "writeMarker"}

Containers == [up : BOOLEAN, image : Images \cup {None}, setup : BOOLEAN]

TypeOK ==
    /\ deploy \in DeployStates \cup {None}
    /\ marker \in BOOLEAN
    /\ env \in Modes \cup {None}
    /\ dataUp \in SUBSET Modes
    /\ route \in Slots \cup {None}
    /\ loaded \in Slots \cup {None}
    /\ cont \in [Slots -> Containers]
    /\ installed \in SUBSET Slots
    /\ pc \in Commands \cup {"idle"}
    /\ job \in Jobs \cup {None}
    /\ interrupts \in 0..MaxInterrupts
    /\ due \in 0..ReloadSeconds
    /\ rest \in 0..DrainSeconds

Deployed == deploy # None

Other(slot) == IF slot = "blue" THEN "green" ELSE "blue"

Absent == [up |-> FALSE, image |-> None, setup |-> FALSE]

(***************************************************************************)
(* A new host, or a host whose Site was deployed by a release that did not *)
(* record the modes.                                                       *)
(***************************************************************************)
InitNew ==
    /\ deploy = None
    /\ marker = FALSE
    /\ env = None
    /\ dataUp = {}
    /\ route = None
    /\ cont = [s \in Slots |-> Absent]
    /\ installed = {}

InitLegacy ==
    \E i \in Images, m \in Modes, setup \in BOOLEAN :
        /\ deploy = [activeSlot |-> "blue", activeImage |-> i, mode |-> None,
                     previousSlot |-> None, previousImage |-> None]
        /\ marker = TRUE
        /\ env = m
        /\ dataUp = {m}
        /\ route = "blue"
        /\ cont = [s \in Slots |->
                     IF s = "blue" THEN [up |-> TRUE, image |-> i, setup |-> setup]
                     ELSE Absent]
        /\ installed = {"blue"}

Init ==
    /\ InitNew \/ InitLegacy
    /\ loaded = route
    /\ pc = "idle"
    /\ job = None
    /\ interrupts = 0
    /\ due = 0
    /\ rest = 0

(* Mutant: the requested modes are not compared with the recorded ones.    *)
ModesIgnored(mode) == Deployed

(***************************************************************************)
(* Starting a script: the checks it makes before it changes anything.  A   *)
(* refused run changes nothing and is no step.                             *)
(***************************************************************************)
ModesMatch(mode) == Deployed /\ deploy.mode = mode      \* assertDeploymentModes

Begin(script, slot, image, old, mode, first) ==
    /\ pc = "idle"
    /\ pc' = first
    /\ job' = [script |-> script, slot |-> slot, image |-> image, old |-> old,
               mode |-> mode, saved |-> None]
    /\ UNCHANGED <<deploy, marker, env, dataUp, route, loaded, cont, installed, interrupts, timers>>

(* A marker without a record is refused: the record was lost.              *)
StartBootstrap(image, mode) ==
    /\ ~Deployed
    /\ ~marker
    /\ Begin("bootstrap", "blue", image, None, mode, "renderEnv")

(* A release of the image that is already active exits at once.            *)
StartSwitch(image, mode) ==
    /\ ModesMatch(mode)
    /\ image # deploy.activeImage
    /\ Begin("switch", Other(deploy.activeSlot), image, deploy.activeSlot, mode, "stopTarget")

StartReconcile(mode) ==
    /\ ModesMatch(mode)
    /\ Begin("reconcile", deploy.activeSlot, deploy.activeImage, None, mode, "renderEnv")

StartRollback(mode) ==
    /\ ModesMatch(mode)
    /\ deploy.previousSlot # None
    /\ deploy.previousImage # None
    /\ Begin("rollback", deploy.previousSlot, deploy.previousImage, deploy.activeSlot,
             mode, "stopTarget")

(* The operator records the modes of a Site deployed without them.  The    *)
(* script takes any modes; that they are the ones in use is what the       *)
(* migration document has the operator verify first.                       *)
AdoptModes(mode) ==
    /\ pc = "idle"
    /\ Deployed
    /\ deploy.mode = None
    /\ env = mode
    /\ deploy' = [deploy EXCEPT !.mode = mode]
    /\ UNCHANGED <<marker, env, dataUp, route, loaded, cont, installed, pc, job, interrupts,
                   timers>>

(***************************************************************************)
(* The commands.  Goto moves on within the script, Exit ends it.           *)
(***************************************************************************)
Goto(command) == pc' = command /\ UNCHANGED job

Exit == pc' = "idle" /\ job' = None

Stopped(slot) == [cont EXCEPT ![slot].up = FALSE]

SwitchesSlots == job.script \in {"switch", "rollback"}

(* The container the job asks compose for.  AUTO_SETUP: a bootstrap or     *)
(* reconcile installs the application into the slot's data directory, a    *)
(* switch or rollback expects it there.                                    *)
Wanted == [up |-> TRUE, image |-> job.image, setup |-> ~SwitchesSlots]

RenderEnv ==
    /\ pc = "renderEnv"
    /\ env' = job.mode
    /\ Goto("startData")
    /\ UNCHANGED <<deploy, marker, dataUp, route, loaded, cont, installed, interrupts, timers>>

StartData ==
    /\ pc = "startData"
    /\ dataUp' = dataUp \cup {job.mode}
    /\ Goto("start")
    /\ UNCHANGED <<deploy, marker, env, route, loaded, cont, installed, interrupts, timers>>

(* Mutant: data is copied under a target that may still run.               *)
StopTargetNot ==
    /\ pc = "stopTarget"
    /\ Goto(IF job.script = "switch" THEN "copyData" ELSE "start")
    /\ UNCHANGED <<deploy, marker, env, dataUp, route, loaded, cont, installed, interrupts, timers>>

StopTarget ==
    /\ pc = "stopTarget"
    /\ cont' = Stopped(job.slot)
    /\ Goto(IF job.script = "switch" THEN "copyData" ELSE "start")
    /\ UNCHANGED <<deploy, marker, env, dataUp, route, loaded, installed, interrupts, timers>>

(* The install marker is copied only if the active slot has one.           *)
CopyData ==
    /\ pc = "copyData"
    /\ installed' = IF job.old \in installed THEN installed \cup {job.slot} ELSE installed
    /\ Goto("start")
    /\ UNCHANGED <<deploy, marker, env, dataUp, route, loaded, cont, interrupts, timers>>

(* `up' stops a running container whose configuration is not the wanted   *)
(* one before it makes it anew.  Its image and AUTO_SETUP are compared     *)
(* here; the settings left out may differ too.                             *)
RecreateSlot ==
    /\ pc = "start"
    /\ cont[job.slot].up
    /\ cont' = Stopped(job.slot)
    /\ UNCHANGED <<deploy, marker, env, dataUp, route, loaded, installed, pc, job, interrupts,
                   timers>>

ReadyToStart == cont[job.slot].up => cont[job.slot] = Wanted

StartSlot ==
    /\ pc = "start"
    /\ ReadyToStart
    /\ cont' = [cont EXCEPT ![job.slot] = Wanted]
    /\ installed' = IF SwitchesSlots THEN installed ELSE installed \cup {job.slot}
    /\ Goto(IF SwitchesSlots THEN "probeInternal" ELSE "writeRoute")
    /\ UNCHANGED <<deploy, marker, env, dataUp, route, loaded, interrupts, timers>>

(* `up --wait' fails or is cut short after it made the container, which is *)
(* then not running, or running and not healthy.                           *)
StartSlotFails ==
    /\ pc = "start"
    /\ ReadyToStart
    /\ interrupts < MaxInterrupts
    /\ interrupts' = interrupts + 1
    /\ \E runs \in BOOLEAN :
          /\ cont' = [cont EXCEPT ![job.slot] = [Wanted EXCEPT !.up = runs]]
          /\ \/ UNCHANGED installed
             \/ runs /\ ~SwitchesSlots /\ installed' = installed \cup {job.slot}
    /\ Exit
    /\ UNCHANGED <<deploy, marker, env, dataUp, route, loaded, timers>>

(* Mutant: a slot that fails its probe is left running.                    *)
ProbeInternalExits ==
    /\ pc = "probeInternal"
    /\ \/ cont[job.slot].up /\ Goto("writeRoute")
       \/ Exit
    /\ UNCHANGED <<deploy, marker, env, dataUp, route, loaded, cont, installed, interrupts, timers>>

ProbeInternal ==
    /\ pc = "probeInternal"
    /\ \/ cont[job.slot].up /\ Goto("writeRoute")
       \/ Goto("stopFailed")
    /\ UNCHANGED <<deploy, marker, env, dataUp, route, loaded, cont, installed, interrupts, timers>>

(* Writing the route file gives Traefik a new time to reload.              *)
ToRoute(slot) ==
    /\ route' = slot
    /\ due' = IF loaded = slot THEN 0 ELSE ReloadSeconds

WriteRoute ==
    /\ pc = "writeRoute"
    /\ ToRoute(job.slot)
    /\ job' = [job EXCEPT !.saved = route]
    /\ pc' = "probePublic"
    /\ UNCHANGED <<deploy, marker, env, dataUp, loaded, cont, installed, interrupts, rest>>

(* The public probe goes through Traefik: whatever slot it has loaded      *)
(* answers.                                                                *)
Serving == loaded # None /\ cont[loaded].up

(* Mutant: the bootstrap marker is written before the record.              *)
ProbePublicPassesToMarker ==
    /\ pc = "probePublic"
    /\ Serving
    /\ \/ job.script = "switch" /\ Goto("drain") /\ rest' = DrainSeconds
       \/ job.script = "rollback" /\ Goto("stopOld") /\ UNCHANGED rest
       \/ job.script = "bootstrap" /\ Goto("writeMarker") /\ UNCHANGED rest
       \/ job.script = "reconcile" /\ Exit /\ UNCHANGED rest
    /\ UNCHANGED <<deploy, marker, env, dataUp, route, loaded, cont, installed, interrupts, due>>

(* Mutant: a release does not drain.                                       *)
ProbePublicPassesUndrained ==
    /\ pc = "probePublic"
    /\ Serving
    /\ \/ SwitchesSlots /\ Goto("stopOld")
       \/ job.script = "bootstrap" /\ Goto("writeState")
       \/ job.script = "reconcile" /\ Exit
    /\ UNCHANGED <<deploy, marker, env, dataUp, route, loaded, cont, installed, interrupts, timers>>

ProbePublicPasses ==
    /\ pc = "probePublic"
    /\ Serving
    /\ \/ job.script = "switch" /\ Goto("drain") /\ rest' = DrainSeconds
       \/ job.script = "rollback" /\ Goto("stopOld") /\ UNCHANGED rest
       \/ job.script = "bootstrap" /\ Goto("writeState") /\ UNCHANGED rest
       \/ job.script = "reconcile" /\ Exit /\ UNCHANGED rest
    /\ UNCHANGED <<deploy, marker, env, dataUp, route, loaded, cont, installed, interrupts, due>>

ProbePublicFails ==
    /\ pc = "probePublic"
    /\ Goto("restoreRoute")
    /\ UNCHANGED <<deploy, marker, env, dataUp, route, loaded, cont, installed, interrupts, timers>>

(* Mutant: the new route stays after its probe failed.                     *)
RestoreRouteNot ==
    /\ pc = "restoreRoute"
    /\ IF SwitchesSlots THEN Goto("stopFailed") ELSE Exit
    /\ UNCHANGED <<deploy, marker, env, dataUp, route, loaded, cont, installed, interrupts, timers>>

(* Mutant: the route is removed whether or not there was one before.       *)
RestoreRouteRemoves ==
    /\ pc = "restoreRoute"
    /\ ToRoute(None)
    /\ IF SwitchesSlots THEN Goto("stopFailed") ELSE Exit
    /\ UNCHANGED <<deploy, marker, env, dataUp, loaded, cont, installed, interrupts, rest>>

RestoreRoute ==
    /\ pc = "restoreRoute"
    /\ ToRoute(job.saved)
    /\ IF SwitchesSlots THEN Goto("stopFailed") ELSE Exit
    /\ UNCHANGED <<deploy, marker, env, dataUp, loaded, cont, installed, interrupts, rest>>

StopFailed ==
    /\ pc = "stopFailed"
    /\ cont' = Stopped(job.slot)
    /\ Exit
    /\ UNCHANGED <<deploy, marker, env, dataUp, route, loaded, installed, interrupts, timers>>

(* The end of the release's `sleep "$drain_seconds"'.                       *)
Drain ==
    /\ pc = "drain"
    /\ rest = 0
    /\ Goto("stopOld")
    /\ UNCHANGED <<deploy, marker, env, dataUp, route, loaded, cont, installed, interrupts, timers>>

(* Mutant: the old slot is left running.                                   *)
StopOldNot ==
    /\ pc = "stopOld"
    /\ Goto("writeState")
    /\ UNCHANGED <<deploy, marker, env, dataUp, route, loaded, cont, installed, interrupts, timers>>

StopOld ==
    /\ pc = "stopOld"
    /\ cont' = Stopped(job.old)
    /\ Goto("writeState")
    /\ UNCHANGED <<deploy, marker, env, dataUp, route, loaded, installed, interrupts, timers>>

(* Mutant: a rollback keeps the image and only swaps the slots.            *)
RecordAfterSlotsOnly ==
    CASE job.script = "bootstrap" ->
            [activeSlot |-> "blue", activeImage |-> job.image, mode |-> job.mode,
             previousSlot |-> None, previousImage |-> None]
      [] job.script = "switch" ->
            [deploy EXCEPT !.previousSlot = deploy.activeSlot,
                           !.previousImage = deploy.activeImage,
                           !.activeSlot = job.slot, !.activeImage = job.image]
      [] OTHER ->
            [deploy EXCEPT !.activeSlot = deploy.previousSlot,
                           !.previousSlot = deploy.activeSlot]

(* Mutant: the previous image is that of the release itself.               *)
RecordAfterPreviousLost ==
    IF job.script = "bootstrap"
    THEN [activeSlot |-> "blue", activeImage |-> job.image, mode |-> job.mode,
          previousSlot |-> None, previousImage |-> None]
    ELSE [deploy EXCEPT !.previousSlot = deploy.activeSlot, !.previousImage = job.image,
                        !.activeSlot = job.slot, !.activeImage = job.image]

(* What the script writes, computed from the record as it is then.         *)
RecordAfter ==
    CASE job.script = "bootstrap" ->
            [activeSlot |-> "blue", activeImage |-> job.image, mode |-> job.mode,
             previousSlot |-> None, previousImage |-> None]
      [] job.script = "switch" ->
            [deploy EXCEPT !.previousSlot = deploy.activeSlot,
                           !.previousImage = deploy.activeImage,
                           !.activeSlot = job.slot, !.activeImage = job.image]
      [] OTHER ->
            [deploy EXCEPT !.activeSlot = deploy.previousSlot,
                           !.activeImage = deploy.previousImage,
                           !.previousSlot = deploy.activeSlot,
                           !.previousImage = deploy.activeImage]

WriteState ==
    /\ pc = "writeState"
    /\ deploy' = RecordAfter
    /\ IF job.script = "bootstrap" THEN Goto("writeMarker") ELSE Exit
    /\ UNCHANGED <<marker, env, dataUp, route, loaded, cont, installed, interrupts, timers>>

WriteMarker ==
    /\ pc = "writeMarker"
    /\ marker' = TRUE
    /\ Exit
    /\ UNCHANGED <<deploy, env, dataUp, route, loaded, cont, installed, interrupts, timers>>

(* The job is killed, or the command it is at fails unhandled.             *)
Interrupt ==
    /\ pc # "idle"
    /\ interrupts < MaxInterrupts
    /\ interrupts' = interrupts + 1
    /\ rest' = 0
    /\ Exit
    /\ UNCHANGED <<deploy, marker, env, dataUp, route, loaded, cont, installed, due>>

TraefikReload ==
    /\ loaded # route
    /\ loaded' = route
    /\ due' = 0
    /\ UNCHANGED <<deploy, marker, env, dataUp, route, cont, installed, pc, job, interrupts, rest>>

(* A second passes; not beyond the time by which Traefik has reloaded.     *)
Less(timer) == IF timer = 0 THEN 0 ELSE timer - 1

Tick ==
    /\ due > 0 \/ rest > 0
    /\ loaded # route => due > 0
    /\ due' = Less(due)
    /\ rest' = Less(rest)
    /\ UNCHANGED <<deploy, marker, env, dataUp, route, loaded, cont, installed, pc, job,
                   interrupts>>

Command ==
    \/ RenderEnv \/ StartData \/ StopTarget \/ CopyData \/ RecreateSlot
    \/ StartSlot \/ ProbeInternal \/ WriteRoute \/ ProbePublicPasses \/ ProbePublicFails
    \/ RestoreRoute \/ StopFailed \/ Drain \/ StopOld \/ WriteState \/ WriteMarker

StartJob ==
    \/ \E i \in Images, m \in Modes : StartBootstrap(i, m) \/ StartSwitch(i, m)
    \/ \E m \in Modes : StartReconcile(m) \/ StartRollback(m) \/ AdoptModes(m)

Next ==
    \/ StartJob
    \/ Command
    \/ StartSlotFails
    \/ Interrupt
    \/ TraefikReload
    \/ Tick

Spec == Init /\ [][Next]_vars

(* A started script runs to its end, Traefik's file watch is never silent  *)
(* for ever and time passes; nobody is obliged to start a script.          *)
Fairness == WF_vars(Command) /\ WF_vars(TraefikReload) /\ WF_vars(Tick)

FairSpec == Spec /\ Fairness

(***************************************************************************)
(* Properties that hold however often a job is cut short.                  *)
(***************************************************************************)

(* The record never lies about the host: the slot it calls active carries  *)
(* the recorded image and an installed data directory, and the slot a      *)
(* rollback would return to is the other one and is installed too.         *)
(* (rollback-slot.sh stops the previous slot first and copies no data.)    *)
RecordIsUsable ==
    Deployed =>
        /\ cont[deploy.activeSlot].image = deploy.activeImage
        /\ deploy.activeSlot \in installed
        /\ deploy.previousSlot # None =>
              /\ deploy.previousSlot = Other(deploy.activeSlot)
              /\ deploy.previousImage # None
              /\ deploy.previousSlot \in installed

(* No interrupted bootstrap leaves the state deployment-preflight.ts       *)
(* refuses for ever: a marker whose record is missing.                     *)
NeverWedged == marker => Deployed

(* Application data is never put under a container that writes it: the     *)
(* target of a copy is stopped (switch-slot.sh:32).                        *)
CopyIntoStoppedSlot == pc = "copyData" => ~cont[job.slot].up

(* A slot that expects an installed application is started only on one,    *)
(* also when an earlier switch died between the copy and the record.       *)
StartsInstalled ==
    pc = "start" /\ SwitchesSlots => job.slot \in installed

(* A switch or rollback works on data nobody else writes and that is there.*)
SwitchDataSafe == CopyIntoStoppedSlot /\ StartsInstalled

(* Once a Site is deployed its data stays where it is: no request, whatever*)
(* modes it carries and wherever it stops, rewrites runtime.env for other  *)
(* modes, starts other data services or changes the recorded modes.        *)
DataStaysPut ==
    [][Deployed => /\ Deployed'
                   /\ deploy.mode # None => deploy'.mode = deploy.mode
                   /\ env' = env
                   /\ dataUp' = dataUp]_vars

(* A run that completes heals what interrupted runs left: when a script    *)
(* ends well, route and record agree and the active slot runs the recorded *)
(* image; after a switch or rollback the other slot is stopped.            *)
Completes ==
    /\ pc' = "idle"
    /\ \/ pc = "writeState"
       \/ pc = "writeMarker"
       \/ pc = "probePublic" /\ job.script = "reconcile"

CompletionHeals ==
    [][Completes /\ interrupts' = interrupts =>
          /\ Deployed'
          /\ route' = deploy'.activeSlot
          /\ cont'[deploy'.activeSlot].up
          /\ cont'[deploy'.activeSlot].image = deploy'.activeImage
          /\ SwitchesSlots => ~cont'[Other(deploy'.activeSlot)].up]_vars

(* The scripts implement the record's atomic transitions, slot-state.ts's  *)
(* nextSlot and transitionState, in spite of their many steps.             *)
Record == INSTANCE SlotRecord WITH record <- deploy

RecordTransitions == Record!Spec

(***************************************************************************)
(* The inductive invariant: what a job knows at each of its commands.      *)
(***************************************************************************)
AfterStart == {"probeInternal", "writeRoute", "probePublic", "drain", "stopOld",
               "writeState", "writeMarker"}

AfterRoute == {"probePublic", "drain", "stopOld", "writeState", "writeMarker"}

(* A bootstrap works on blue and has no record until it wrote one.         *)
BootstrapInv ==
    /\ job.slot = "blue"
    /\ pc \in {"renderEnv", "startData", "start", "writeRoute", "probePublic",
               "restoreRoute", "writeState", "writeMarker"}
    /\ pc # "writeMarker" => ~Deployed
    /\ pc = "writeMarker" =>
          /\ Deployed
          /\ deploy.activeSlot = "blue"
          /\ deploy.activeImage = job.image

(* The other scripts run on the record they read when they started.        *)
DeployedInv ==
    /\ Deployed
    /\ deploy.mode = job.mode
    /\ job.script = "reconcile" =>
          /\ job.slot = deploy.activeSlot
          /\ job.image = deploy.activeImage
          /\ pc \in {"renderEnv", "startData", "start", "writeRoute", "probePublic",
                     "restoreRoute"}
    /\ SwitchesSlots =>
          /\ job.old = deploy.activeSlot
          /\ job.slot = Other(deploy.activeSlot)
          /\ pc \notin {"renderEnv", "startData", "writeMarker"}
    /\ job.script = "switch" => job.image # deploy.activeImage
    /\ job.script = "rollback" =>
          /\ job.slot = deploy.previousSlot
          /\ job.image = deploy.previousImage
          /\ pc \notin {"copyData", "drain"}

(* What the job has done so far.                                           *)
ProgressInv ==
    /\ pc \in AfterStart => cont[job.slot] = Wanted
    /\ pc \in AfterRoute => route = job.slot
    /\ pc \in AfterStart \/ (pc = "start" /\ SwitchesSlots) => job.slot \in installed
    /\ pc = "copyData" => ~cont[job.slot].up
    /\ pc = "writeState" /\ SwitchesSlots => ~cont[job.old].up
    /\ job.script = "bootstrap" /\ pc # "renderEnv" => env = job.mode
    /\ job.script = "bootstrap" /\ pc \notin {"renderEnv", "startData"} => job.mode \in dataUp

JobInv ==
    IF pc = "idle" THEN job = None
    ELSE /\ job \in Jobs
         /\ IF job.script = "bootstrap" THEN BootstrapInv ELSE DeployedInv
         /\ ProgressInv

(* A deployed Site's data is where its record says, or, while the record   *)
(* has no modes, where runtime.env says.                                   *)
DataInv ==
    Deployed => /\ env # None
                /\ env \in dataUp
                /\ deploy.mode # None => deploy.mode = env

Inv ==
    /\ TypeOK
    /\ JobInv
    /\ DataInv
    /\ RecordIsUsable
    /\ NeverWedged

(***************************************************************************)
(* Properties of runs that are not cut short (MaxInterrupts = 0): failed   *)
(* probes are handled, so they too must leave the Site in order.           *)
(***************************************************************************)

(* The route file names a stopped slot only while a reconcile makes that   *)
(* slot's container anew (after a release it must: AUTO_SETUP differs).    *)
(* Releases and rollbacks, whatever probes fail, never leave the routed    *)
(* slot stopped: the new slot runs before the route changes and a failed   *)
(* one is stopped after the route is restored.                             *)
OnlyReconcileStopsRouted ==
    route # None /\ ~cont[route].up => pc = "start" /\ job.script = "reconcile"

(* Between runs the record, the route and the containers agree: the active *)
(* slot is routed and runs, the other is stopped, and a Site without a     *)
(* record is not routed.                                                   *)
AtRest ==
    pc = "idle" =>
        IF Deployed
        THEN /\ route = deploy.activeSlot
             /\ cont[deploy.activeSlot].up
             /\ ~cont[Other(deploy.activeSlot)].up
        ELSE route = None

(* Why both hold, in any run as long as nothing was cut short: until a job *)
(* writes its route the one it found is there, and the slot it names runs  *)
(* until the new one is probed, a reconcile's own recreation apart.        *)
FoundRoute == IF job.script = "bootstrap" THEN None ELSE deploy.activeSlot

UndisturbedInv ==
    interrupts = 0 =>
        /\ AtRest
        /\ ~Deployed => ~cont["green"].up
        /\ pc # "idle" =>
              /\ job.script = "bootstrap" => ~cont["green"].up
              /\ job.script = "reconcile" => ~cont[Other(job.slot)].up
              /\ job.script # "bootstrap" /\ pc # "writeState"
                    => \/ cont[deploy.activeSlot].up
                       \/ pc = "start" /\ job.script = "reconcile"
              /\ pc \notin AfterRoute \cup {"restoreRoute"} => route = FoundRoute
              /\ pc \in {"probePublic", "restoreRoute"} => job.saved = FoundRoute
              /\ pc = "restoreRoute" => route = job.slot /\ cont[job.slot].up


(* A release never stops the slot Traefik still sends requests to: when the*)
(* drain is longer than Traefik takes to reload, sleeping it after the     *)
(* route was written is enough, whatever Traefik did before.  (A passed    *)
(* public probe is not: the old slot may have answered it.)                *)
DrainProtects ==
    pc \in {"stopOld", "writeState"} /\ job.script = "switch" => loaded = job.slot

(* Why: while Traefik is late, the drain outlasts the time it has left by  *)
(* what DrainSeconds is longer than ReloadSeconds.                         *)
TimersInv ==
    pc = "drain" /\ loaded # route => due + DrainSeconds <= rest + ReloadSeconds

ReleaseInv == Inv /\ UndisturbedInv /\ TimersInv

(* However releases, rollbacks and failed probes follow each other, a      *)
(* deployed Site is served again and again; Traefik's delay, a rollback    *)
(* without a drain included, only interrupts it.                           *)
ServedAgain == [](Deployed => <>Serving)
=============================================================================
