----------------------------- MODULE Adoption -----------------------------
(***************************************************************************)
(* adopt-single-site-layout.sh: the one-time handover of an existing       *)
(* single-Site host from its legacy Traefik to the shared Edge.  --apply   *)
(* writes a journal first and an intent before each mutation; a command    *)
(* that fails runs the ERR trap, which restores the legacy host from the   *)
(* journal; a process that is killed leaves everything as it is, and the   *)
(* operator runs --rollback, or --apply again.                             *)
(*                                                                         *)
(* `host' is what the script mutates, `journal' what it knows about it.    *)
(* Only the journal's fields that a recovery reads are kept: the set       *)
(* `keys' holds the boolean fields that are true.  A command that fails    *)
(* after its effect is one that succeeds before a failing one.  An         *)
(* explicit `exit 1' skips the trap and is a kill.  Labels and IDs of      *)
(* containers and the files' contents never change and are left out.       *)
(***************************************************************************)
EXTENDS Naturals, FiniteSets

CONSTANTS
    PriorRoutes,    \* may a site-code2.yml exist before? (a set of BOOLEANs)
    MaxFaults       \* bound: how often a command fails or the script is killed

ASSUME PriorRoutesAssumption == PriorRoutes \subseteq BOOLEAN
ASSUME BoundAssumption == MaxFaults \in Nat

EdgeFiles == {"env", "static", "singbox", "acme"}

Keys == EdgeFiles \cup {"stateBackup", "network", "edge", "attachment"}

Hosts ==
    [deploy : {"bare", "modes"},             \* deploy-state.json without or with modes
     stateBackup : BOOLEAN,                  \* deploy-state.json.before-adoption exists
     mapping : {"absent", "pending", "complete"},   \* host-state.json
     files : SUBSET EdgeFiles,               \* the files under runtime/edge
     route : {"absent", "prior", "adopted"}, \* site-code2.yml
     routeBackup : BOOLEAN,                  \* site-code2.yml.before-adoption exists
     network : BOOLEAN,                      \* the Docker network sub2api-edge exists
     edge : {"absent", "created", "running"},       \* the Edge's Traefik
     attached : BOOLEAN,                     \* the application is on that network
     legacy : BOOLEAN]                       \* the legacy Traefik runs

NoJournal == [state |-> "none", routePre |-> FALSE, acmePre |-> FALSE, keys |-> {}]

Journals ==
    [state : {"none", "prepared", "pending", "completing", "complete"},
     routePre : BOOLEAN, acmePre : BOOLEAN, keys : SUBSET Keys]

VARIABLES
    host,      \* files, containers and network of the host
    origin,    \* the host as it was before any adoption
    careful,   \* does the operator roll an unfinished apply back before the next,
               \* and retire the journal of a verified handover only?
    journal,   \* adopt-single-site-layout.journal
    pc,        \* the command the script runs next, or "idle"
    faults     \* failed commands and kills so far

vars == <<host, origin, careful, journal, pc, faults>>

ApplyCommands ==
    {"modes", "backupState", "recordBackup", "adoptModes", "writePending", "recordPending",
     "intendEnv", "writeEnv", "intendConfig", "writeStatic", "writeSingbox", "intendAcme",
     "writeAcme", "backupRoute", "intendEdge", "createNetwork", "createEdge",
     "intendAttach", "attach", "writeRoute", "stopLegacy", "startEdge", "probe",
     "recordCompleting", "writeComplete", "recordComplete"}

RestoreCommands ==
    {"stopEdge", "startLegacy", "disconnect", "restoreRoute", "removeFiles", "removeAcme", "removeEdge",
     "removeNetwork", "restoreState", "removeBackup", "removeMapping"}

TypeOK ==
    /\ host \in Hosts
    /\ origin \in Hosts
    /\ careful \in BOOLEAN
    /\ journal \in Journals
    /\ pc \in ApplyCommands \cup RestoreCommands \cup {"idle", "trap", "cleanRetired"}
    /\ faults \in 0..MaxFaults

(* A running single-Site host; ACME storage or a route may already be      *)
(* where the Edge will look for it.                                        *)
Init ==
    /\ \E d \in {"bare", "modes"}, f \in {{}, {"acme"}}, r \in PriorRoutes :
          host = [deploy |-> d, stateBackup |-> FALSE, mapping |-> "absent", files |-> f,
                  route |-> IF r THEN "prior" ELSE "absent", routeBackup |-> FALSE,
                  network |-> FALSE, edge |-> "absent", attached |-> FALSE, legacy |-> TRUE]
    /\ origin = host
    /\ careful \in BOOLEAN
    /\ journal = NoJournal
    /\ pc = "idle"
    /\ faults = 0

(* The host is as adoption found it, but for the script's own bookkeeping. *)
AsFound ==
    host = [origin EXCEPT !.mapping = host.mapping, !.stateBackup = host.stateBackup,
                          !.routeBackup = host.routeBackup]

(***************************************************************************)
(* The steps of a script: most either change the host or the journal.      *)
(***************************************************************************)
ChangeHost(command, next, newHost) ==
    /\ pc = command
    /\ host' = newHost
    /\ pc' = next
    /\ UNCHANGED <<origin, careful, journal, faults>>

SetJournal(command, next, newJournal) ==
    /\ pc = command
    /\ journal' = newJournal
    /\ pc' = next
    /\ UNCHANGED <<host, origin, careful, faults>>

WithKeys(keys) == [journal EXCEPT !.keys = @ \cup keys]

PreparePreview ==
    /\ host.mapping = "absent"
    /\ ChangeHost("idle", "idle", [host EXCEPT !.mapping = "pending"])

(* Mutant: a journal that says `prepared' allows no mapping yet.           *)
PairStrict ==
    CASE journal.state = "prepared" -> host.mapping = "absent"
      [] journal.state = "pending" -> host.mapping = "pending"
      [] journal.state = "completing" -> host.mapping \in {"pending", "complete"}
      [] journal.state = "complete" -> host.mapping = "complete"
      [] OTHER -> FALSE

(* read_journal, rollback_pair and validate_owned_resources: what a        *)
(* recovery demands before it changes anything.                            *)
PairOk ==
    CASE journal.state = "prepared" -> host.mapping \in {"absent", "pending"}
      [] journal.state = "pending" -> host.mapping = "pending"
      [] journal.state = "completing" -> host.mapping \in {"pending", "complete"}
      [] journal.state = "complete" -> host.mapping = "complete"
      [] OTHER -> FALSE

OwnedResources ==
    /\ host.network => "network" \in journal.keys
    /\ journal.routePre => host.routeBackup

RollbackAccepted == PairOk /\ OwnedResources

StartRollback ==
    /\ pc = "idle"
    /\ RollbackAccepted
    /\ pc' = "stopEdge"
    /\ UNCHANGED <<host, origin, careful, journal, faults>>

ApplyAccepted ==
    /\ host.mapping \in {"absent", "pending"}
    /\ host.legacy
    /\ host.files \cap {"env", "static", "singbox"} = {}
    /\ ~host.network
    /\ host.edge = "absent"

StartApply ==
    /\ ApplyAccepted
    /\ careful => AsFound
    /\ SetJournal("idle", "modes",
          [state |-> "prepared", routePre |-> host.route # "absent",
           acmePre |-> "acme" \in host.files, keys |-> {}])

(* Modes that are recorded are checked; otherwise an old backup is refused *)
(* by an exit that skips the trap.                                         *)
Modes ==
    /\ pc = "modes"
    /\ pc' = CASE host.deploy = "modes" -> "writePending"
               [] host.stateBackup -> "idle"
               [] OTHER -> "backupState"
    /\ UNCHANGED <<host, origin, careful, journal, faults>>

BackupState == ChangeHost("backupState", "recordBackup", [host EXCEPT !.stateBackup = TRUE])
RecordBackup == SetJournal("recordBackup", "adoptModes", WithKeys({"stateBackup"}))
AdoptModes == ChangeHost("adoptModes", "writePending", [host EXCEPT !.deploy = "modes"])
WritePending == ChangeHost("writePending", "recordPending", [host EXCEPT !.mapping = "pending"])
RecordPending == SetJournal("recordPending", "intendEnv", [journal EXCEPT !.state = "pending"])

(* stage_edge                                                              *)
WithFile(file) == [host EXCEPT !.files = @ \cup {file}]

IntendEnv == SetJournal("intendEnv", "writeEnv", WithKeys({"env"}))
WriteEnv == ChangeHost("writeEnv", "intendConfig", WithFile("env"))
IntendConfig == SetJournal("intendConfig", "writeStatic", WithKeys({"static", "singbox"}))
WriteStatic == ChangeHost("writeStatic", "writeSingbox", WithFile("static"))
WriteSingbox ==
    ChangeHost("writeSingbox", IF journal.acmePre THEN "backupRoute" ELSE "intendAcme",
               WithFile("singbox"))
IntendAcme == SetJournal("intendAcme", "writeAcme", WithKeys({"acme"}))
WriteAcme == ChangeHost("writeAcme", "backupRoute", WithFile("acme"))

BackupRoute ==
    ChangeHost("backupRoute", "intendEdge",
               [host EXCEPT !.routeBackup = journal.routePre \/ @])

(* Mutants: the intent names the container or the network only.            *)
IntendEdgeOnly == SetJournal("intendEdge", "createNetwork", WithKeys({"edge"}))
IntendNetworkOnly == SetJournal("intendEdge", "createNetwork", WithKeys({"network"}))

(* `docker compose create' makes the network and then the container.       *)
IntendEdge == SetJournal("intendEdge", "createNetwork", WithKeys({"network", "edge"}))
CreateNetwork == ChangeHost("createNetwork", "createEdge", [host EXCEPT !.network = TRUE])
CreateEdge == ChangeHost("createEdge", "intendAttach", [host EXCEPT !.edge = "created"])

IntendAttach == SetJournal("intendAttach", "attach", WithKeys({"attachment"}))
Attach == ChangeHost("attach", "writeRoute", [host EXCEPT !.attached = TRUE])
WriteRoute == ChangeHost("writeRoute", "stopLegacy", [host EXCEPT !.route = "adopted"])

(* The handover of ports 80 and 443, and its checks.                       *)
StopLegacy == ChangeHost("stopLegacy", "startEdge", [host EXCEPT !.legacy = FALSE])
StartEdge ==
    /\ ~host.legacy                      \* wait_for_ports_released
    /\ ChangeHost("startEdge", "probe", [host EXCEPT !.edge = "running"])
Probe == SetJournal("probe", "recordCompleting", journal)
RecordCompleting ==
    SetJournal("recordCompleting", "writeComplete", [journal EXCEPT !.state = "completing"])
WriteComplete ==
    ChangeHost("writeComplete", "recordComplete", [host EXCEPT !.mapping = "complete"])
RecordComplete ==
    SetJournal("recordComplete", "idle", [journal EXCEPT !.state = "complete"])

Apply ==
    \/ Modes \/ BackupState \/ RecordBackup \/ AdoptModes \/ WritePending \/ RecordPending
    \/ IntendEnv \/ WriteEnv \/ IntendConfig \/ WriteStatic \/ WriteSingbox
    \/ IntendAcme \/ WriteAcme \/ BackupRoute \/ IntendEdge \/ CreateNetwork \/ CreateEdge
    \/ IntendAttach \/ Attach \/ WriteRoute \/ StopLegacy \/ StartEdge \/ Probe
    \/ RecordCompleting \/ WriteComplete \/ RecordComplete

(***************************************************************************)
(* A failed command of --apply runs the trap; restore is the same in the   *)
(* trap and in --rollback.                                                 *)
(***************************************************************************)
Fail ==
    /\ pc \in ApplyCommands
    /\ faults < MaxFaults
    /\ faults' = faults + 1
    /\ pc' = "trap"
    /\ UNCHANGED <<host, origin, careful, journal>>

Trap ==
    /\ pc = "trap"
    /\ pc' = IF RollbackAccepted THEN "stopEdge" ELSE "idle"
    /\ UNCHANGED <<host, origin, careful, journal, faults>>

(* The container is the one the journal names, or the one found under an   *)
(* intent that was not completed.                                          *)
EdgeKnown == "edge" \in journal.keys /\ host.edge # "absent"

(* Mutant: a restore does not stop the Edge first.                         *)
StopEdgeNot == ChangeHost("stopEdge", "startLegacy", host)

StopEdge ==
    ChangeHost("stopEdge", "startLegacy",
               IF EdgeKnown THEN [host EXCEPT !.edge = "created"] ELSE host)

(* Mutant: a restore leaves the legacy Traefik stopped.                    *)
StartLegacyNot == ChangeHost("startLegacy", "disconnect", host)

(* Docker refuses to start a container whose port is taken.                *)
StartLegacy ==
    ChangeHost("startLegacy", "disconnect", [host EXCEPT !.legacy = TRUE])

Disconnect ==
    ChangeHost("disconnect", "restoreRoute",
               [host EXCEPT !.attached = @ /\ ~("attachment" \in journal.keys /\ host.network)])

RestoreRoute ==
    ChangeHost("restoreRoute", "removeFiles",
               IF ~journal.routePre THEN [host EXCEPT !.route = "absent"]
               ELSE IF host.routeBackup
                    THEN [host EXCEPT !.route = "prior", !.routeBackup = FALSE]
                    ELSE host)

(* Mutant: a restore forgets the generated configuration.                  *)
RemoveEnvOnly ==
    ChangeHost("removeFiles", "removeAcme",
               [host EXCEPT !.files = @ \ (journal.keys \cap {"env"})])

RemoveFiles ==
    ChangeHost("removeFiles", "removeAcme",
               [host EXCEPT !.files = @ \ (journal.keys \ {"acme"})])

RemoveAcme ==
    ChangeHost("removeAcme", "removeEdge",
               IF "acme" \in journal.keys /\ ~journal.acmePre
               THEN [host EXCEPT !.files = @ \ {"acme"}] ELSE host)

RemoveEdge ==
    ChangeHost("removeEdge", "removeNetwork",
               IF EdgeKnown THEN [host EXCEPT !.edge = "absent"] ELSE host)

(* Docker removes no network that is in use.                               *)
RemoveNetwork ==
    /\ host.network => host.edge = "absent" /\ ~host.attached
    /\ ChangeHost("removeNetwork", "restoreState",
                  [host EXCEPT !.network = @ /\ "network" \notin journal.keys])

OwnsBackup == "stateBackup" \in journal.keys /\ host.stateBackup

RestoreState ==
    ChangeHost("restoreState", "removeBackup",
               IF OwnsBackup THEN [host EXCEPT !.deploy = "bare"] ELSE host)

RemoveBackup ==
    ChangeHost("removeBackup", "removeMapping",
               IF OwnsBackup THEN [host EXCEPT !.stateBackup = FALSE] ELSE host)

RemoveMapping == ChangeHost("removeMapping", "idle", [host EXCEPT !.mapping = "absent"])

Restore ==
    \/ StopEdge \/ StartLegacy \/ Disconnect \/ RestoreRoute \/ RemoveFiles \/ RemoveAcme \/ RemoveEdge
    \/ RemoveNetwork \/ RestoreState \/ RemoveBackup \/ RemoveMapping

(* Retirement moves the journal away and then drops the backup it owned.   *)
RetireJournal ==
    /\ journal.state = "complete"
    /\ host.mapping = "complete"
    /\ careful => host.edge = "running" /\ host.attached
    /\ SetJournal("idle", IF "stateBackup" \in journal.keys THEN "cleanRetired" ELSE "idle",
                  NoJournal)

CleanRetired == ChangeHost("cleanRetired", "idle", [host EXCEPT !.stateBackup = FALSE])

(* The script is killed, or a command of a restore fails.                  *)
Kill ==
    /\ pc # "idle"
    /\ faults < MaxFaults
    /\ faults' = faults + 1
    /\ pc' = "idle"
    /\ UNCHANGED <<host, origin, careful, journal>>

Next ==
    \/ PreparePreview \/ StartApply \/ StartRollback \/ RetireJournal
    \/ Apply \/ Fail \/ Trap \/ Restore \/ CleanRetired \/ Kill

Spec == Init /\ [][Next]_vars

(* A script that runs ends, and the operator rolls back what it left       *)
(* unsettled.                                                              *)
HandedOver == host.mapping = "complete" /\ journal.state \in {"complete", "none"}

Settled == AsFound \/ (HandedOver /\ host.edge = "running")

FairSpec ==
    /\ Spec
    /\ WF_vars(Apply \/ Trap \/ Restore \/ CleanRetired)
    /\ WF_vars(StartRollback /\ ~Settled)

(***************************************************************************)
(* Properties.                                                             *)
(***************************************************************************)

(* The legacy Traefik and the Edge never both run, whatever is killed and  *)
(* however it is recovered: the one to start finds ports 80/443 free.      *)
OnePortOwner == ~(host.legacy /\ host.edge = "running")

(* Why it holds: a restore finds the Edge, because its intent is in the    *)
(* journal whenever the container exists, and stops it first.              *)
EdgeIntended ==
    {"createNetwork", "createEdge", "intendAttach", "attach", "writeRoute", "stopLegacy",
     "startEdge", "probe", "recordCompleting", "writeComplete", "recordComplete"}

PortInv ==
    /\ TypeOK
    /\ OnePortOwner
    /\ pc = "startLegacy" => host.edge # "running"
    /\ pc = "startEdge" => ~host.legacy
    /\ pc \in EdgeIntended => "edge" \in journal.keys
    /\ host.edge # "absent" /\ journal.state # "none" => "edge" \in journal.keys
    /\ pc \in ApplyCommands \cup RestoreCommands \cup {"trap"} => journal.state # "none"

(* "Before each writer or Docker action it records a durable intent":      *)
(* each network, container, attachment and generated file on the host      *)
(* beyond what adoption found is in the journal, and a stopped Traefik     *)
(* shows in its state, until the finished journal is retired.              *)
IntentFirst ==
    careful /\ ~(HandedOver /\ journal.state = "none") =>
        /\ host.network => "network" \in journal.keys
        /\ host.edge # "absent" => "edge" \in journal.keys
        /\ host.attached => "attachment" \in journal.keys
        /\ host.files \ origin.files \subseteq journal.keys
        /\ ~host.legacy => journal.state \in {"pending", "completing", "complete"}

(* Why it holds, and why a recovery succeeds, for a careful operator.      *)
Preparing ==
    {"modes", "backupState", "recordBackup", "adoptModes", "writePending", "recordPending"}

Completing == {"writeComplete", "recordComplete"}

Staging == ApplyCommands \ (Preparing \cup Completing)

(* The commands a restore has left when it has put something back.         *)
StateBack == {"removeBackup", "removeMapping"}
NetworkGone == StateBack \cup {"restoreState"}
EdgeGone == NetworkGone \cup {"removeNetwork"}
AcmeBack == EdgeGone \cup {"removeEdge"}
FilesGone == AcmeBack \cup {"removeAcme"}
RouteBack == FilesGone \cup {"removeFiles"}
Detached == RouteBack \cup {"restoreRoute"}
LegacyBack == Detached \cup {"disconnect"}

OriginInv ==
    /\ ~origin.network /\ origin.edge = "absent" /\ ~origin.attached /\ origin.legacy
    /\ origin.files \subseteq {"acme"}
    /\ origin.route # "adopted"

(* The journal and the mapping are a pair a recovery accepts, or there is  *)
(* nothing to recover.                                                     *)
JournalInv ==
    /\ pc \in Preparing => journal.state = "prepared"
    /\ pc \in Staging => journal.state = "pending"
    /\ pc \in Completing => journal.state = "completing"
    /\ pc = "recordPending" => host.mapping = "pending"
    /\ pc = "recordComplete" => host.mapping = "complete"
    /\ journal.state # "none" => PairOk \/ (pc = "idle" /\ AsFound)
    /\ journal.state = "none" =>
          /\ pc \in {"idle", "cleanRetired"}
          /\ host.mapping = "complete" \/ (pc = "idle" /\ AsFound)
    /\ pc = "cleanRetired" => journal.state = "none" /\ host.mapping = "complete"

(* The journal tells the host of before, and each intent precedes its      *)
(* mutation.                                                               *)
IntentInv ==
    journal.state # "none" =>
        /\ journal.routePre <=> origin.route # "absent"
        /\ journal.acmePre <=> "acme" \in origin.files
        /\ host.network \/ pc = "createNetwork" => "network" \in journal.keys
        /\ host.attached \/ pc = "attach" => "attachment" \in journal.keys
        /\ host.files \ origin.files \subseteq journal.keys
        /\ pc = "writeEnv" => "env" \in journal.keys
        /\ pc \in {"writeStatic", "writeSingbox"} => {"static", "singbox"} \subseteq journal.keys
        /\ pc = "writeAcme" => "acme" \in journal.keys
        /\ ~host.legacy => journal.state # "prepared"

(* What was there before is still there or in a backup the journal owns.   *)
BackupInv ==
    journal.state # "none" =>
        /\ host.attached \/ pc \in {"createEdge", "intendAttach", "attach"} => host.network
        /\ origin.files \subseteq host.files
        /\ host.route \in {origin.route, "adopted"}
        /\ journal.routePre
              /\ (host.route # origin.route \/ pc \in EdgeIntended \cup {"intendEdge"})
              => host.routeBackup
        /\ host.deploy # origin.deploy \/ pc = "adoptModes" =>
              host.stateBackup /\ "stateBackup" \in journal.keys
        /\ "stateBackup" \in journal.keys => origin.deploy = "bare"
        /\ pc \in Preparing \ {"writePending", "recordPending"} => host.deploy = origin.deploy
        /\ pc \in {"backupState", "recordBackup"} => host.deploy = "bare"
        /\ pc = "recordBackup" => host.stateBackup

RestoreInv ==
    /\ pc \in LegacyBack => host.legacy
    /\ pc \in Detached => ~host.attached
    /\ pc \in RouteBack => host.route = origin.route
    /\ pc \in FilesGone => host.files \subseteq {"acme"}
    /\ pc \in AcmeBack => host.files = origin.files
    /\ pc \in EdgeGone => host.edge = "absent"
    /\ pc \in NetworkGone => ~host.network
    /\ pc \in StateBack => host.deploy = origin.deploy

RecoveryInv == OriginInv /\ JournalInv /\ IntentInv /\ BackupInv /\ RestoreInv

AdoptionInv == PortInv /\ (careful => RecoveryInv)

(* A recovery that gets to its last step has put everything back, however  *)
(* many attempts to apply and to restore were cut short before.            *)
RestoreRestores == careful /\ pc = "removeMapping" => AsFound

(* The host had no site-code2.yml before its adoption.                     *)
FreshRoute == origin.route = "absent"

(* When no script runs, either nothing is to be recovered or --rollback    *)
(* accepts the journal and the host as they are.                           *)
Recoverable ==
    pc = "idle" =>
        AsFound \/ RollbackAccepted \/ (HandedOver /\ journal.state = "none")

NeverStuck == careful /\ FreshRoute => Recoverable

(* An operator who rolls back what was left unsettled gets either the old  *)
(* host or the new one, again and again.                                   *)
AlwaysSettles == careful /\ FreshRoute => []<>Settled

(***************************************************************************)
(* Claims of the tests and the documentation that the script refutes.      *)
(***************************************************************************)

(* test/legacy-adoption.test.ts:286 "uses intent-only cleanup after every  *)
(* interruptible writer and Docker mutation, then allows retry".           *)
RetryAllowed ==
    careful /\ pc = "idle" /\ AsFound /\ host.deploy = "bare" => ~host.stateBackup

(* docs/migrations/single-site-to-multi-site.md:89 "If any check fails,    *)
(* use the exact supported rollback path", on any host.                    *)
RollbackSupported == careful => Recoverable
=============================================================================
