# Verification of sub2api-deploy

`sub2api-deploy` runs one or more *Sites* (sub2api applications) on one host. A
Pulumi program in Go (`infra/`) registers a graph of resources, most of them
local commands; shell and TypeScript scripts (`scripts/`, `src/`) change the host:
files under `runtime/`, Docker containers, routes of a shared Traefik (the
*Edge*). Correctness is mostly about what is left when a step of a script fails
or is killed, and about steps that several actors take in an order nobody chose:
the subject of these modules.

Source paths below are relative to the repository.

## Inventory

| Part | State it keeps | Operations | What must hold |
| --- | --- | --- | --- |
| Site lifecycle (`bootstrap-site.sh`, `switch-slot.sh`, `reconcile-site.sh`, `rollback-slot.sh`, `application-release.sh`) | `deploy-state.json`, bootstrap marker, `runtime.env`, the Site's route file, blue and green containers and data directories | bootstrap, release, reconcile, rollback, adopting the data modes | the record never lies about the host; a retry heals; data stays where it is; the routed slot runs |
| Deployment record (`slot-state.ts`, `write-deploy-state.ts`, `deployment-mode.ts`, `deployment-preflight.ts`) | `deploy-state.json` | atomic write, mode check, preflight | one well-defined transition per completed script |
| Edge (`reconcile-edge.sh`, `traefik/`, `compose/edge.yml`) | `runtime/edge`, the Edge's Traefik | reconcile; Traefik watches the route files | Traefik follows the route files, in its own time |
| Adoption (`adopt-single-site-layout.sh`) | journal, backups, `host-state.json`, legacy and Edge Traefik | prepare-preview, apply, rollback, retire-journal | intent before each mutation; a rollback restores; never stuck; one owner of ports 80/443 |
| Host registry (`host-preflight.ts`, `finalize-host-state.sh`, `write-host-state.cjs`) | `host-state.json` | check, finalize | a registered Site is never dropped and has a record |
| Host graph (`infra/main.go`, `site.go`, `edge.go`, `commands.go`, `triggers.go`, `cloudflare.go`) | Pulumi's stack: the inputs of each resource's last success | one `pulumi up` | one Site at a time, in order; what completes delivers the configuration |
| Managed Neon project (`create-neon-project.ts`) | lock file, `neon-project.json`, Neon's projects | find or create under a lock | mutual exclusion; one project per Site |
| Neon endpoint (`reconcile-neon-endpoint.ts`, `infra/neon_endpoint.go`) | the endpoint's settings in Neon | PATCH with retries, verification | success means the settings are in effect and stay |
| Host layouts (`infra/layout.go`) | none; reads `host-state.json` | resolve | leads to the record `host-preflight.ts` checked; Sites share nothing |
| Configuration (`infra/spec.go`, `config.go`) | the stack's configuration | validate, fill in defaults, normalise | accepts what the rest can be built of, and nothing that lets Sites collide |
| Database and Redis inputs (`infra/database.go`, `redis.go`) | `neon-project.json` | choose a connection per mode | every input is there; a Site keeps its database and has it alone |
| Environment files (`render-runtime-env.ts`, `read-runtime-env.cjs`, `verify-legacy-app-env.ts`) | `runtime.env`, `app.env` | render, read | every reader sees the written value |
| Launcher, release bundle, Compose files | none | selection, packaging, declaration | stateless: left to the repository's tests |

How they interact: `pulumi up` runs the host preflight, then the Edge and DNS,
then each Site's reconcile, release and readiness commands in sorted order, then
the finalization of the registry. A release runs bootstrap or switch, which
share the Site's record, containers and route file with reconcile and with the
operator's rollback. Traefik reads the route files whenever it notices. The
Neon command runs once per Site whose database is created, concurrently with
another checkout's or a killed predecessor's. Adoption happens once, before
Pulumi may touch an old host, and hands the registry over to it: from then on
the Go program (when it registers the graph), the preflight (when its command
runs, if it runs) and the finalization each read the mapping in `host-state.json`.

What is hard here: kills between any two commands; retries that start from what
was left; Traefik's asynchronous reload; Pulumi's parallelism, skipping and late
deletions; checks that are separated from what they check (the lock's pid, the
preflight, which Pulumi skips when its inputs are unchanged); a journal that must
always describe the host; an external service that handles requests after their
sender is gone; names that are derived, defaulted and normalised before they are
compared. The list with lines is under
`hazards` in `PROJECT.json`.

## Modules

| Module | Subject |
| --- | --- |
| `SlotRecord` | abstract: a Site's record as atomic transitions |
| `SiteRelease` | the scripts of one Site; implements `SlotRecord` |
| `Adoption` | the handover of a single-Site host |
| `NeonProject` | the lock and the find-or-create protocol |
| `NeonEndpoint` | the retried PATCH of an endpoint's settings and its verification |
| `HostGraph` | `pulumi up` over the graph of all Sites |
| `SiteLayout` | operators: a Site's derived and adopted identity, the code2 mapping |
| `HostSpec` | operators: what configuration is accepted, its defaults, what resources make of it |
| `HostConfig` | a host over edits, adoptions and updates; composes `HostSpec`, `SiteLayout`, the preflight and the registry |
| `MC*` | the finite instances TLC checks |
| `*_proofs` | the theorems |

Each component's module holds operators called "mutants": a definition changed
the way a plausible bug would change it. They are not part of the specification;
each of them makes a property fail, which shows that the property can.

### SiteRelease

A script is a job: `pc` is the command it runs next, `job` its locals (script,
slot, image, the slot that was active, modes, the route it replaced). Each action
is one command that changes the host and is named after it; the checks and reads
before the first such command are the guard of the action that starts the
script, and a refused script is no step. One job runs at a time: a Site's
scripts run under Pulumi's stack lock, and README.md:174 asks the operator not
to start another.

Time is two count-down timers, which `Tick` moves: `rest` is what a release's drain
still sleeps, `due` what Traefik has left to reload the route file. A second does
not pass beyond `due`: Traefik reloads within `ReloadSeconds` of a write, at any
moment before. `DrainSeconds` is the Site's setting; nothing in the code relates
the two.

| Model | Code |
| --- | --- |
| `deploy`, `marker`, `env`, `route`, `installed` | `deploy-state.json`, the bootstrap marker, the modes in `runtime.env`, the slot in `site-ID.yml`, the slots with `data/SLOT/.installed` |
| `cont` | each slot's container: running, its image and its `AUTO_SETUP` |
| `dataUp` | the local data services that were started |
| `loaded`, `TraefikReload` | what Traefik has read of the route file (`watch: true`) |
| `StartBootstrap`, `StartSwitch`, `StartReconcile`, `StartRollback` | the four scripts, up to their first mutation |
| `RecreateSlot`, `StartSlot` | `up --wait` of a slot: a running container is stopped first if it is not the wanted one, also the routed one in a reconcile after a release, whose `AUTO_SETUP` differs (switch-slot.sh:38, reconcile-site.sh:41); then it is made and started |
| `StartSlotFails` | `up --wait` fails or is cut short with the new container made: down, or running and unhealthy (before that it is an `Interrupt`) |
| `Drain` | the end of the release's `sleep`, when `rest` is 0 |
| `AdoptModes` | `deployment-mode.ts adopt`; the script takes any modes, that they are those in use is the operator's to verify, as the migration document says |
| `ProbePublicPasses` | `probe-origin.sh` through Traefik: the slot *Traefik has loaded* answers |
| `Interrupt` | a kill, or a command `set -e` does not forgive |

`SlotRecord` promises a record that changes only by whole bootstraps, releases
(to the other slot, the active one becoming the previous) and rollbacks (to the
previous slot *and image*). It is what the exported, tested functions of
`slot-state.ts` say; the scripts do not call them but edit JSON inline.
`SiteRelease` implements it with `record <- deploy`.

### Adoption

`host` is everything the script mutates, `journal` the fields a recovery reads,
`origin` the host before. Each mutation and each `set_journal` a recovery depends
on is a step. `Fail` is a failing command (the ERR trap restores), `Kill` a kill
or an `exit 1` that skips the trap, also during a restore. The operator may start
any mode whenever no script runs. A `careful` one keeps to the migration document:
rolls an unfinished apply back before applying again, retires the journal of a
verified handover only. The ports are safe with any operator; what a recovery
achieves is stated for the careful one.

### NeonProject

Any number of invocations, each of which opens the lock, reads a foreign lock's
pid, probes it, renames it and opens again, as separate steps (`withLock`), and
then finds or creates the project. A POST is handled by Neon at a moment of its
own, after its sender died if need be. `robbed` is a history variable: the
processes whose lock was renamed while they were alive. Neon may answer a second
project of a name with another project or with 409: what it does is not in the
repository, so both are possible each time.

### NeonEndpoint

One run of the command after another: `pc` is the request it makes next, `attempt`
the counter of the loop it is in. Neon is external: a PATCH takes effect at a
moment of its own (`Land`), also after an error answer, also after its run has
ended (`LandStray`). `clean` is a history variable: no PATCH *for other settings*
was left when the run began. Without that condition the promise cannot be kept,
and the code has nothing to keep it with; with it, retries, lost answers and kills
are harmless.

### HostGraph

Resources are pairs such as `<<"release", s>>`. `DependsOn` is the graph,
`Inputs` what the stack records of a resource (environment and triggers); a
resource whose recorded inputs are unchanged is skipped. Pulumi is external:
`Start`, `Finish`, `Fail` and `EndUp` say what the program relies on. Sites are
numbers in the order their IDs sort. A release is one step here: `SiteRelease`
shows that its effect on the record is.

### SiteLayout, HostSpec, HostConfig

`SiteLayout` and `HostSpec` hold no state: they are the pure Go functions.
A derived name is the tuple of its parts, a configured text is kept only as far
as the code tells texts apart (a host name has a `form`, a secret is given or
not, a key of `appEnv` is split at its first underscore, a compute size is a
number of quarters). `ValidSite`, `ValidSecrets` and `Accepted` are the errors of
`spec.go`, `ResolveSite` its defaults, `DatabaseInputs` and `RedisInputs` what
registration then asks for.

| `HostConfig` | Code |
| --- | --- |
| `config`, `Edit` | the stack's configuration, and an operator who changes it between updates |
| `registry`, `records` | `host-state.json`; the data modes in each `deploy-state.json`, also that of the flat layout |
| `journal`, `PreparePreview`, `Apply`, `Rollback`, `RetireJournal` | the adoption of code2, each mode of the script one step (its steps are `Adoption`'s) |
| `checked` | the inputs of the preflight's last success, in Pulumi's stack |
| `Register` | `deploymentProgram`: validation, `ResolveHostLayouts`, and Pulumi's decision to skip the preflight |
| `RunPreflight`, `DeploySite`, `Finalize` | `host-preflight.ts` as its own command with the data modes, and as a Site's commands and the finalization repeat it, without |
| `CreateProject`, `BindProject`, `bound`, `projects` | `create-neon-project.ts` per Site: up to the POST, and from the project it made or found to `neon-project.json`; the persisted project; those at Neon |
| `posted`, `cutShort` | projects made and not recorded: of this update, of earlier ones |
| `RegisterProject`, `natives`, `held` | the Neon project of an adopted code2, a resource of Pulumi's provider: the single-Site host's (`Inherited`) if the alias finds it, otherwise a new one (`Remade`) |
| `DeleteUnregistered` | the end of an update, when Pulumi deletes the single-Site host's project if it is not registered: it alone is not protected |

An update may fail between any two steps, and the next one starts from what was
left. Adoption happens between updates, the maintenance window the document asks
for. No Neon command is skipped here, as Pulumi would one with unchanged inputs.
Which Site's command waits for which is `HostGraph`'s subject; here the order is
arbitrary, so what holds does not depend on it.

## Runs

| Run | Question | Bounds |
| --- | --- | --- |
| `SiteReleaseInterrupted` | what survives kills and failures | 3 images, 2 modes, 2 interruptions, drain and reload of 1 second |
| `SiteReleaseUndisturbed` | what handled failures leave; liveness | 3 images, 2 modes, no interruption, drain of 2 seconds, reload of 1 |
| `AdoptionFaults` | the ports with any operator; recovery of a careful one; liveness | 3 faults, with and without a prior route |
| `NeonProjectFaults` | the lock and the project under faults | 3 processes, 3 project IDs, 3 faults |
| `NeonEndpointFaults` | what success means; liveness | 3 settings, 2 changes, 5 faults, 3 PATCHes in flight for the same settings |
| `HostGraphUpdates` | updates of several Sites | 3 Sites, 2 images, 2 changes, 1 fault |
| `HostConfigUpdates` | configurations, adoption and updates together | 2 Sites, 1 edit, 363 first configurations, 74 of them accepted, with and without a project of the single-Site host |
| `AdoptionRetry`, `AdoptionPriorRoute`, `NeonProjectTheft`, `HostGraphRemoval`, `HostConfigAliases` | claims the code does not keep (below) | smallest that shows it |

Why the bounds are enough. Images and modes are only compared: a third image is
one that is neither active nor previous, a second mode one that is not recorded.
Of the two times only their order matters: a drain one second longer than the
reload protects, one as long does not.
Two interruptions let a run be cut short, its repair be cut short too, and a
third run meet the result. Three processes are one that dies, one that takes
over and one that locks in between. Three Sites have one before, one after and
one between; two changes are, for example, an update that fails and a
configuration that is edited again; an image that returns to a recorded value
needs two changes as well. Three adoption faults let an apply, its restore and
a later rollback all be cut short. Five faults exhaust the attempts of one of
the endpoint's loops, or fail and kill several runs; two changes leave PATCHes
for two other settings behind. `HostConfig` bounds only edits: updates, failures,
adoptions and rollbacks repeat without limit in its finite state space. One edit
takes the host from any configuration to any of the `Moves`, which differ in their
Sites, data services and prefixes (shared, swapped and defaulted ones included,
and those of the single-Site host's project);
the other first configurations deviate from an accepted one in one setting, on
either side of each limit, so that `Accepted` is exercised rule by rule. The same properties
hold of two edits among the 17 `Moves`, in 1.6 million states.
There is no unbounded counter besides these.

Runs that stop (all processes ended, an adoption settled with its faults spent, a
refused configuration with no edit left) legitimately deadlock: `CHECK_DEADLOCK
FALSE` for `Adoption`, `NeonProject`, `NeonEndpoint` and `HostConfig` only.

### What is shown

* Whatever is cut short, a Site's record names a slot that carries the recorded
  image and an installed data directory, a rollback has somewhere to go
  (`RecordIsUsable`), no lost record blocks a Site (`NeverWedged`, part of `ReleaseInv`), data
  is not copied under a running container nor missing where it is needed
  (`SwitchDataSafe`),
  data services and modes never move (`DataStaysPut`), and the next run that
  completes brings route, record and containers into agreement (`CompletionHeals`).
* Without kills, the routed slot is stopped only while a reconcile makes its
  container anew (`OnlyReconcileStopsRouted`): no release, rollback or failed probe
  does it. Between runs record, route and containers agree (`AtRest`). A drain
  longer than Traefik's reload lets a release stop the old slot only when Traefik has left
  it (`DrainProtects`), although the probe before it may have been answered by the
  old slot. The Site is served again and again (`ServedAgain`).
* Adoption records intent first (`IntentFirst`), its recovery restores
  (`RestoreRestores`), is always accepted where no route existed before
  (`NeverStuck`) and comes to an end (`AlwaysSettles`); two Traefiks never run
  together (`OnePortOwner`).
* The Neon lock excludes unless a live lock is stolen (`Exclusive`, `ProjectInv`);
  without a theft all runs agree on one project even if Neon allows
  duplicates (`Agreement`, `StaysBound`), and where Neon never kept a second
  project not even a theft does harm (`ConflictHarmless`).
* A run that reports success leaves its settings in effect until the next,
  although PATCHes are sent twice and land late (`InEffect`), and retried
  updates come to such a run (`Converges`).
* Updates run one Site at a time and in order (`OneSiteAtATime`, `InOrder`),
  never drop a registered Site (`RegistryKept`, `GraphInv`, `RegistryRouted`)
  and deliver the configuration, but for Sites whose stack record is stale
  (`UpDelivers`; `drifted` names that exception).
* Whatever was edited, adopted or rolled back before, a skipped preflight would
  have accepted the host, data modes included (`SkipSound`), the layouts of an
  update lead to each registered Site's record (`SitesFound`), code2 is never
  installed beside itself (`OneHome`) and nothing but a rollback of its adoption
  takes a Site off the registry (`AdoptionLeavesSites`).
* Sites which one update has provided with databases by its commands have one each,
  unless a command took an adopted code2's project for the one of its name
  (`PrivateDatabases`). It does not exclude that a Site which takes over another's
  prefix is bound to that one's project, before the other's command fails. A Site that
  has a project never gets a new, empty one: of the projects that commands made and
  recorded there are no more than Sites that have one, and an adopted code2 has none of
  them (`OneProjectPerSite`). A command cut short between the POST and the record
  leaves a project that nobody has; it is found by its name, unless the prefix is
  edited first.
* An accepted configuration lacks nothing that registration needs
  (`InputsDefined`), lets no two Sites share a project, file, alias, prefix or
  domain (`NothingShared`) and no application variable replace one of the
  deployment (`AppEnvOwnsNothing`).

### Findings

Five runs show a sentence of the documentation or the tests violated; the
details are under `findings` in `PROJECT.json`.

* `AdoptionRetry`, `AdoptionPriorRoute`: a kill between the `cp` of the deploy
  state and its journal entry forbids every retry; with a prior `site-code2.yml`
  an apply cut short before it copied the route cannot be undone (the shortest
  trace), nor an interrupted restore repeated.
* `NeonProjectTheft`: the stale-lock takeover can steal a live lock.
* `HostGraphRemoval`: a Site deployed by an update that did not reach the
  finalization is unregistered, so removing it is not refused and deletes its
  DNS record.
* `HostConfigAliases`: an adopted code2 keeps the aliases `sub2api-blue` and
  `sub2api-green` on the Edge's network. These are the service names of
  `compose/site.yml`, under which Compose makes every other Site's slots known
  there too, so code2's route may lead to another Site.

Other behaviour worth knowing: retrying a release that died after its route
change stops the slot that serves the Site, because the inactive slot is read
from the record; the Site is down until the retried slot is up, and with a
failing new image until the next reconcile. An apply over an unfinished one,
which the migration document advises against, overwrites the journal and so
forgets the deploy state's backup. Adding a Site
re-runs every Site's commands, because `CONFIGURED_SITE_IDS` is in their
environment, and so releases a rolled-back image again; after a failed release
and a revert of the configuration nothing is re-run, because the recorded inputs
match; a public probe may be answered by the old slot when Traefik has not yet
reloaded; `drainSeconds: 0` is accepted and a rollback never drains. The first
reconcile after a release or rollback makes the routed container anew, because
`AUTO_SETUP` differs, and so interrupts the Site until it is healthy. A Neon
command killed before it wrote its pid leaves a lock that nobody takes over. Two
Sites that swap their resource prefixes swap their created databases, and a
change of a database between `existing` and `create`, or of its DSN, moves a Site's data
without a check: only modes are recorded. A Site renamed to the prefix of a project
that was made and not recorded gets that one. The project of an adopted code2 is
known by an alias made of the prefix (database.go:187): if the prefix is edited
between the adoption and the first update, code2 gets a new project, and the old
one, which a single-Site stack does not protect (test/fixtures/legacy-code2-stack-shape.json:9), is deleted at the end of the
update; if its database is not created any more, it is deleted as well. README.md:108
promises that it is retained; the manual review of the preview that the migration
document asks for is what stops it. A Site with no project that takes over code2's prefix
is bound to code2's live project. The preflight's inputs omit Neon's
compute, region and the secrets, rightly, since it checks none of them. A Site
that is deployed but not registered has its modes checked by its own commands
only, after its providers were touched. A DSN's password may be empty, which
Compose then refuses. A Site's domain may equal the sing-box server name.

### Fairness

`SiteRelease!FairSpec`: a started script runs on (`WF` on its commands; every wait
in them is bounded by retries or a timeout) and Traefik's watch eventually fires.
No fairness obliges anybody to start a script, and none says which way a probe
goes. Time passes (`WF` on `Tick`). `Adoption!FairSpec`: a script runs on, and the operator, whom the migration
document tells to use the rollback when a check failed, does so if the host is
neither the old nor the new one. Faults are bounded, so rollbacks cannot be cut
short for ever. `NeonEndpoint!FairSpec`: every request is answered in the end or
its connection breaks, Neon handles what it accepted, and a failed update is run
again; faults are bounded. The other specifications state no liveness.

## Proofs

All theorems hold for every value of the constants under the named assumptions
of the modules: `None` is no image, mode, record and so on, bounds are naturals,
Sites are a finite set of numbers, configurations are records of the types of
`spec.go`. They do not depend on the bounds of the runs; in particular
`MaxInterrupts`, `MaxFaults` and `MaxEdits` are arbitrary, and so are the numbers of
processes and Sites and the configurations of `HostConfig`: any Sites, any settings,
valid or not. What a run checks of undisturbed scripts with `MaxInterrupts = 0` is proved
for any `MaxInterrupts`, of the states before the first interruption (`interrupts = 0`),
and `DrainProtects` under the condition its run sets, `DrainSeconds > ReloadSeconds`,
with interruptions or without.

The theorems of a module rest on its inductive invariant, which a run of TLC checks
as well: every action preserves it, and an invariant follows from it, an action
property from it and one step.

| Theorem | Argument |
| --- | --- |
| `SiteRelease_proofs!InvHolds` | `Inv` is inductive. `RecordIsUsable` and `NeverWedged` alone are not: what a script writes at its end must follow from what it did before. `JobInv` says it per command (`BootstrapInv`, `DeployedInv`: which record the script read; `ProgressInv`: which container runs, which route is written, which slot is installed), `DataInv` ties the recorded modes to `runtime.env`. |
| `RecordUsable`, `SlotDataSafe` | from `Inv` |
| `DataStaysPutHolds`, `CompletionHealsHolds` | action properties, from `Inv` and one step |
| `Implements` | `Inv /\ [Next]_vars` is a step of `SlotRecord` or leaves the record alone |
| `ReleaseInvHolds`, `OnlyReconcileStopsRoutedHolds`, `AtRestHolds` | `UndisturbedInv`: before the first interruption a script finds record, route and containers in agreement and knows at each command how far it took them apart, and which route it saved (`FoundRoute`) for the case that the public probe fails |
| `DrainProtectsHolds` | `TimersInv`: as long as Traefik is late during a drain, the drain outlasts the time Traefik has left by what `DrainSeconds` exceeds `ReloadSeconds`, since the route was written before it began. So at `rest = 0` Traefik cannot be late; from `Drain` to the record only Traefik's reload could change it, and the route stays what the script wrote (`Inv`) |
| `Adoption_proofs!PortInvHolds`, `PortsSafe` | `PortInv` adds why a restore finds the Edge: its intent is in the journal whenever the container exists, and `startLegacy` follows `stopEdge` as `startEdge` follows `stopLegacy` |
| `AdoptionInvHolds` | for a careful operator (`careful`: rolls an unfinished apply back before the next) also `RecoveryInv`. `OriginInv`: what adoption finds on a single-Site host. `JournalInv`: which step and which backups the journal names at each command, before and after its save. `IntentInv`: the host differs from what was found only in what is journalled. `BackupInv`: what is overwritten is in a backup that the journal or the apply's next save names. `RestoreInv`: what each command of a restore may rely on, and has put back |
| `IntentFirstHolds`, `RestoreRestoresHolds`, `NeverStuckHolds` | from `AdoptionInv`: the first from `IntentInv`, the second from `RestoreInv` at the last command, the third from `JournalInv` and `IntentInv`, which give what the entry checks of `--rollback` ask for where no route existed before |
| `UnrefusedHolds` | from `AdoptionInv`: a Traefik to start finds its ports free, a network to remove is in use by nobody. So every command is enabled when its turn comes, which is what `AlwaysSettles` needs besides fairness |
| `NeonProject_proofs!ProjectHolds`, `ExclusiveHolds` | `LockInv`: while nobody was robbed, everyone in the critical section created the present lock file, hence there is only one. `KnowsRecord`, `Persisted`: then what its holder read is still the record, and what a run reports was written first |
| `AgreementHolds`, `StaysBoundHolds` | from `LockInv`, `KnowsRecord` and `Persisted`: as long as the reported project exists, nobody has a reason to replace its record |
| `ConflictHarmlessHolds` | needs no lock: where Neon refuses a second project, all reported projects are members of `used` (`FromNeon`), which has at most one; `DoomedByFault` says that a run without it was killed or had a request of its own fail |
| `HostGraph_proofs!GraphInvHolds`, `InOrderHolds` | a running resource belongs to the update and its dependencies are done (`DependenciesDone`); what Pulumi skipped or finished is done on the host (`DoneMeans`, `RecordMeans`), so the chain of barriers, which joins neighbours only, orders all Sites (`EarlierDone`) |
| `OneSiteAtATimeHolds` | from the same: of two running Sites the earlier would have to be both running and done |
| `RegistryRoutedHolds`, `UpDeliversHolds`, `RegistryKeptHolds` | `RegistryRouted` is inductive together with `GraphInv`: finalization registers Sites whose DNS record is done, and an update that completes deletes none of a registered Site; such an update has all resources done |
| `NeonEndpoint_proofs!EndpointHolds`, `InEffectHolds` | `InEffect` is not inductive: a PATCH in flight could undo it. `EndpointInv` says that all that may still land asks for the same settings |
| `HostConfig_proofs!HostHolds` | `HostInv` is inductive. `RegistryInv`: the registry's Sites have records, and the flat layout's record excludes a normal one of code2. `CheckedInv`: what the preflight's last success found is *still so*, although it was updates, edits and adoptions ago; this is why a skip is sound, and it needs that the inputs contain the layouts. `UpdateInv`: an update's layouts are those of the present registry |
| `SkipSoundHolds`, `SitesFoundHolds`, `OneHomeHolds`, `PrivateDatabasesHolds`, `AdoptionLeavesSitesHolds` | from `HostInv`; the databases from the distinct resolved prefixes, since a provided Site's project has the name of its prefix or is code2's |
| `OneProjectPerSiteHolds` | counting (`ProjectsInv`): a project leaves `posted` as recorded only in the step that gives it to a Site without one, so the recorded ones never exceed those Sites; an update cut short moves its `posted` to `cutShort`. `NativesInv`: a native project exists only where a single-Site host is or was adopted, and there code2 has no command's project |
| `NothingSharedHolds` | a lemma per kind of name: derived ones are injective in the Site ID, and the adopted ones are none of them |
| `AmbiguousOnlyAdoptedHolds` | from the same lemmas: the violation that `HostConfigAliases` finds is the only kind; derived aliases are nobody's service name |
| `AppEnvOwnsNothingHolds`, `InputsDefinedHolds` | by cases over the variables, and over the modes |

Only model-checked: liveness under fairness (`ServedAgain`, `AlwaysSettles`,
`Converges`), which the prover does not do. Every other property of a passing run
is stated by a theorem.

## Not modelled

Compose files, the launcher and the release bundle are declarative or pure I/O. The
quoting of `runtime.env` and `app.env` is character-level, and its readers
(`docker compose`, the container) are outside the repository. `HostSpec` takes the
patterns of `spec.go` as sets of well-formed and malformed texts and does not
repeat their characters; the application's own variables that the deployment
does not set are one (`TZ`). Pulumi's provider resources (Cloudflare, Upstash) and the two scripts that only read from Neon appear
by what they are given. A damaged `host-state.json` or record is not produced by
any action, so the parsers' refusals of one are left out; so are previews, which
change nothing. File contents are abstracted to what the properties distinguish;
the files the code writes are written to a temporary and renamed, hence
atomic. The copies are not (`cp -p` in switch-slot.sh:35-36 and
adopt-single-site-layout.sh:66,73,100,106, and the routes' backups); they are one
step here, so what half a copy would do is not shown: a repeated switch or restore copies
again, but a rollback to the slot that a switch was copying into may start on half a
`config.yaml`, and an adoption's rollback moves half a route backup over the route. Docker's and the
application's own failures outside a script are left out. Pids are not reused. Two
scripts on one Site at once are excluded, as the documentation asks.

## Plan

Done: `SlotRecord`, `SiteRelease`, `Adoption`, `NeonProject`, `HostGraph`,
`NeonEndpoint`, `SiteLayout`, `HostSpec`, `HostConfig`, each with runs and theorems.

Next models: a release of the adopted code2 between an apply and its rollback
(`Adoption` with `SiteRelease`), whose restored deploy state may be older than the
containers; the Edge in `SiteRelease` and `HostGraph`, a reconcile that recreates
Traefik while a Site's script probes.

Next theorems: that an update of `HostGraph` implements a sequence of atomic Site
deployments, and the commands of `NeonProject` an atomic choice of one project, as
`SiteRelease` implements `SlotRecord`; that the composition of `Adoption` and
`SiteRelease` keeps the invariants of both.
