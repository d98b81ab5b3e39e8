----------------------------- MODULE HostGraph -----------------------------
(***************************************************************************)
(* `pulumi up' over the resource graph infra/main.go registers for one     *)
(* host: the host preflight, the Edge, each configured Site's DNS record   *)
(* and commands, and the finalization of the host registry.                *)
(*                                                                         *)
(* Pulumi (external) starts a resource when those it depends on are done,  *)
(* as many at once as it likes; it skips one whose inputs are those the    *)
(* stack recorded when it last succeeded, and it records nothing when it   *)
(* fails.  After a failure it starts nothing new, and it deletes what is   *)
(* no longer configured only at the end of an update without failures.     *)
(* One update runs at a time: Pulumi locks the stack.                      *)
(*                                                                         *)
(* The inputs are environment and triggers: only what varies here is kept, *)
(* the configured Site IDs and images.  A release is the atomic change of  *)
(* the deploy record that SiteRelease shows it to be.  The no-op command   *)
(* after the readiness probe is part of it, the zone's SSL setting part of *)
(* the Edge.  Data resources behave like the DNS record, but are           *)
(* protected.  Data modes are SiteRelease's subject, code2's pending       *)
(* handover Adoption's.                                                    *)
(***************************************************************************)
EXTENDS Naturals, FiniteSets

CONSTANTS
    Sites,       \* the Site IDs, as numbers in the order the IDs sort
    Images,      \* image digests
    None,        \* no record
    MaxChanges,  \* bound: changes of the configuration and rollbacks
    MaxFaults    \* bound: commands that fail though nothing refuses them

DeployRecords == [active : Images, previous : Images \cup {None}]

ASSUME SitesAssumption == Sites \subseteq Nat /\ IsFiniteSet(Sites)
ASSUME NoneAssumption == None \notin Images /\ None \notin DeployRecords
ASSUME BoundAssumption == MaxChanges \in Nat /\ MaxFaults \in Nat

VARIABLES
    config,      \* the configured Sites and their images
    registry,    \* the Site IDs in host-state.json
    deploy,      \* each Site's deploy-state.json: active and previous image, or None
    dns,         \* the Sites that have a DNS record
    stack,       \* the inputs recorded for each resource, or None
    up,          \* is an update running?
    status,      \* of each resource in the update
    drifted,     \* history: rolled back, or a release failed, since the recorded one
    changes, faults

vars == <<config, registry, deploy, dns, stack, up, status, drifted, changes, faults>>

Configured == DOMAIN config

(***************************************************************************)
(* The resource graph.                                                     *)
(***************************************************************************)
Preflight == <<"preflight", "host">>
Edge == <<"edge", "host">>
Finalize == <<"finalize", "host">>
Dns(s) == <<"dns", s>>
Reconcile(s) == <<"reconcile", s>>
Release(s) == <<"release", s>>
Readiness(s) == <<"readiness", s>>

HostResources == {Preflight, Edge, Finalize}
SiteCommands(s) == {Reconcile(s), Release(s), Readiness(s)}
SiteResources(s) == SiteCommands(s) \cup {Dns(s)}
ResourcesOf(sites) == HostResources \cup UNION {SiteResources(s) : s \in sites}
Resources == ResourcesOf(Sites)
Planned == ResourcesOf(Configured)

(* Mutant: the next Site waits for the reconciliation of the one before.   *)
BarrierAtReconcile(s) ==
    {Reconcile(e) : e \in {e \in Configured : e < s /\ \A f \in Configured : f < s => f <= e}}

(* The last command of the Site before s in the order of the layouts.      *)
Barrier(s) ==
    {Readiness(e) : e \in {e \in Configured : e < s /\ \A f \in Configured : f < s => f <= e}}

LastBarrier == {Readiness(e) : e \in {e \in Configured : \A f \in Configured : f <= e}}

(* Mutants: the Sites do not wait for each other; or not for their DNS.    *)
DependsOnNoBarrier(r) ==
    CASE r = Preflight -> {}
      [] r = Edge \/ r[1] = "dns" -> {Preflight}
      [] r = Finalize -> {Readiness(s) : s \in Configured}
      [] r[1] = "reconcile" -> {Dns(r[2]), Edge}
      [] r[1] = "release" -> {Reconcile(r[2])}
      [] r[1] = "readiness" -> {Release(r[2])}

DependsOnNoDns(r) ==
    CASE r = Preflight -> {}
      [] r = Edge \/ r[1] = "dns" -> {Preflight}
      [] r = Finalize -> LastBarrier
      [] r[1] = "reconcile" -> {Edge} \cup Barrier(r[2])
      [] r[1] = "release" -> {Reconcile(r[2])}
      [] r[1] = "readiness" -> {Release(r[2])}

DependsOn(r) ==
    CASE r = Preflight -> {}
      [] r = Edge -> {Preflight}
      [] r = Finalize -> {Preflight} \cup LastBarrier
      [] r[1] = "dns" -> {Preflight}
      [] r[1] = "reconcile" -> {Dns(r[2]), Edge, Preflight} \cup Barrier(r[2])
      [] r[1] = "release" -> {Reconcile(r[2]), Preflight}
      [] r[1] = "readiness" -> {Release(r[2]), Preflight}

(* Mutant: the release is not triggered by the image.                      *)
InputsWithoutImage(r) ==
    CASE r = Preflight -> config
      [] r = Edge \/ r[1] = "dns" -> "unchanged"
      [] OTHER -> Configured

(* The Site IDs are in the environment of every Site command; the image is *)
(* in the release's only, and in the digest that triggers the preflight.   *)
Inputs(r) ==
    CASE r = Preflight -> config
      [] r = Finalize -> Configured
      [] r = Edge \/ r[1] = "dns" -> "unchanged"
      [] r[1] = "release" -> <<Configured, config[r[2]]>>
      [] OTHER -> Configured

Recorded(r) == stack[r] # None /\ stack[r] = Inputs(r)

TypeOK ==
    /\ Configured \subseteq Sites /\ Configured # {}
    /\ config \in [Configured -> Images]
    /\ registry \subseteq Sites
    /\ deploy \in [Sites -> DeployRecords \cup {None}]
    /\ dns \subseteq Sites
    /\ DOMAIN stack = Resources
    /\ up \in BOOLEAN
    /\ status \in [Resources -> {"waiting", "running", "done", "failed"}]
    /\ drifted \subseteq Sites
    /\ changes \in 0..MaxChanges
    /\ faults \in 0..MaxFaults

(* A new host with a first configuration.                                  *)
Init ==
    /\ \E sites \in (SUBSET Sites) \ {{}} : config \in [sites -> Images]
    /\ registry = {} /\ dns = {} /\ drifted = {}
    /\ deploy = [s \in Sites |-> None]
    /\ stack = [r \in Resources |-> None]
    /\ up = FALSE
    /\ status = [r \in Resources |-> "waiting"]
    /\ changes = 0 /\ faults = 0

(***************************************************************************)
(* The operator, between updates.                                          *)
(***************************************************************************)
Operator ==
    /\ ~up
    /\ changes < MaxChanges
    /\ changes' = changes + 1
    /\ UNCHANGED <<registry, dns, stack, up, status, faults>>

(* A configured Site gets an image: a new Site or a new image.             *)
Configure(s, image) ==
    /\ Operator
    /\ config' = [e \in Configured \cup {s} |-> IF e = s THEN image ELSE config[e]]
    /\ config' # config
    /\ UNCHANGED <<deploy, drifted>>

RemoveSite(s) ==
    /\ Operator
    /\ s \in Configured /\ Configured # {s}
    /\ config' = [e \in Configured \ {s} |-> config[e]]
    /\ UNCHANGED <<deploy, drifted>>

(* Mutant: a rollback does not ask for a recorded previous image.          *)
RollbackUnchecked(s) ==
    /\ Operator
    /\ deploy[s] # None
    /\ deploy' = [deploy EXCEPT ![s] = [active |-> @.previous, previous |-> @.active]]
    /\ drifted' = drifted \cup {s}
    /\ UNCHANGED config

(* rollback-slot.sh                                                        *)
Rollback(s) ==
    /\ Operator
    /\ deploy[s] # None /\ deploy[s].previous # None
    /\ deploy' = [deploy EXCEPT ![s] = [active |-> @.previous, previous |-> @.active]]
    /\ drifted' = drifted \cup {s}
    /\ UNCHANGED config

(***************************************************************************)
(* An update.                                                              *)
(***************************************************************************)
StartUp ==
    /\ ~up
    /\ up' = TRUE
    /\ UNCHANGED <<config, registry, deploy, dns, stack, status, drifted, changes, faults>>

Failed == \E r \in Planned : status[r] = "failed"

Ready(r) ==
    /\ up
    /\ r \in Planned
    /\ status[r] = "waiting"
    /\ ~Failed
    /\ \A d \in DependsOn(r) : status[d] = "done"

(* Skips a resource with recorded inputs, starts the others.               *)
Start(r) ==
    /\ Ready(r)
    /\ status' = [status EXCEPT ![r] = IF Recorded(r) THEN "done" ELSE "running"]
    /\ UNCHANGED <<config, registry, deploy, dns, stack, up, drifted, changes, faults>>

Deployed(s) == deploy[s] # None

(* Mutant: Sites that are missing from the configuration are not noticed.  *)
PreflightLax == \A s \in registry \cap Configured : Deployed(s)

(* checkHostPreflight: no recorded Site is missing from the configuration, *)
(* and each still has its deploy state.                                    *)
PreflightAccepts == registry \subseteq Configured /\ \A s \in registry : Deployed(s)

(* The preflight, and again reconcile, bootstrap and finalization refuse.  *)
Accepts(r) ==
    /\ r = Preflight \/ r = Finalize \/ r[1] = "reconcile" => PreflightAccepts
    /\ r[1] = "release" => Deployed(r[2]) \/ PreflightAccepts
    /\ r = Finalize => \A s \in Configured : Deployed(s)

(* application-release.sh: bootstrap, nothing to do, or a switch.          *)
Released(s) ==
    CASE ~Deployed(s) -> [active |-> config[s], previous |-> None]
      [] Deployed(s) /\ deploy[s].active = config[s] -> deploy[s]
      [] OTHER -> [active |-> config[s], previous |-> deploy[s].active]

Effect(r) ==
    /\ deploy' = IF r[1] = "release" THEN [deploy EXCEPT ![r[2]] = Released(r[2])] ELSE deploy
    /\ dns' = IF r[1] = "dns" THEN dns \cup {r[2]} ELSE dns
    /\ registry' = IF r = Finalize THEN Configured ELSE registry

Finish(r) ==
    /\ status[r] = "running"
    /\ Accepts(r)
    /\ Effect(r)
    /\ stack' = [stack EXCEPT ![r] = Inputs(r)]
    /\ status' = [status EXCEPT ![r] = "done"]
    /\ drifted' = IF r[1] = "release" THEN drifted \ {r[2]} ELSE drifted
    /\ UNCHANGED <<config, up, changes, faults>>

(* A command is refused, fails, or is cut off after its effect.            *)
Fail(r) ==
    /\ status[r] = "running"
    /\ \/ ~Accepts(r) /\ UNCHANGED <<registry, deploy, dns, faults>>
       \/ /\ faults < MaxFaults /\ faults' = faults + 1
          /\ UNCHANGED <<registry, deploy, dns>> \/ (Accepts(r) /\ Effect(r))
    /\ status' = [status EXCEPT ![r] = "failed"]
    /\ drifted' = IF r[1] = "release" THEN drifted \cup {r[2]} ELSE drifted
    /\ UNCHANGED <<config, stack, up, changes>>

Complete == \A r \in Planned : status[r] = "done"

(* The DNS records of Sites that are not configured any more are deleted   *)
(* with their other resources; a command has nothing to delete on the host.*)
EndUp ==
    /\ up
    /\ \A r \in Resources : status[r] # "running"
    /\ \/ /\ Complete
          /\ stack' = [r \in Resources |-> IF r \in Planned THEN stack[r] ELSE None]
          /\ dns' = dns \cap Configured
       \/ Failed /\ UNCHANGED <<stack, dns>>
    /\ up' = FALSE
    /\ status' = [r \in Resources |-> "waiting"]
    /\ UNCHANGED <<config, registry, deploy, drifted, changes, faults>>

Next ==
    \/ \E s \in Sites : RemoveSite(s) \/ Rollback(s) \/ \E i \in Images : Configure(s, i)
    \/ StartUp
    \/ \E r \in Resources : Start(r) \/ Finish(r) \/ Fail(r)
    \/ EndUp

Spec == Init /\ [][Next]_vars

(***************************************************************************)
(* Properties.                                                             *)
(***************************************************************************)

(* What runs belongs to the update, and a recorded Site has a deploy       *)
(* record, which the preflight of every later update demands of it.        *)
RunningPlanned == \A r \in Resources : status[r] # "waiting" => up /\ r \in Planned

RegistryDeployed == \A s \in registry : Deployed(s)

(* The barriers are between neighbours.  What they add up to: once a       *)
(* command of a Site has started, all of the Sites before it is done, and  *)
(* of all Sites once the finalization has.                                 *)
DependenciesDone ==
    \A r \in Planned : status[r] # "waiting" => \A d \in DependsOn(r) : status[d] = "done"

EarlierDone ==
    \A s, t \in Configured : \A c \in SiteCommands(t) :
        s < t /\ status[c] # "waiting" => \A r \in SiteResources(s) : status[r] = "done"

AllDone ==
    status[Finalize] # "waiting" => \A s \in Configured : \A r \in SiteResources(s) : status[r] = "done"

(* What "done" means for the host, whether the resource ran or was         *)
(* skipped, and what makes skipping right: what the stack's record says.   *)
DoneMeans ==
    /\ status[Preflight] = "done" => registry \subseteq Configured /\ stack[Preflight] = config
    /\ status[Finalize] = "done" => Configured \subseteq registry
    /\ \A s \in Configured :
          /\ status[Dns(s)] = "done" => s \in dns
          /\ status[Release(s)] = "done" =>
                Deployed(s) /\ (deploy[s].active = config[s] \/ s \in drifted)

RecordMeans ==
    /\ stack[Preflight] # None => registry \subseteq DOMAIN stack[Preflight]
    /\ stack[Finalize] # None => stack[Finalize] \subseteq registry
    /\ \A s \in Sites :
          /\ stack[Dns(s)] # None => s \in dns
          /\ stack[Release(s)] # None =>
                Deployed(s) /\ (deploy[s].active = stack[Release(s)][2] \/ s \in drifted)

GraphInv ==
    /\ TypeOK /\ RunningPlanned /\ RegistryDeployed
    /\ DependenciesDone /\ EarlierDone /\ AllDone
    /\ DoneMeans /\ RecordMeans

(* README.md:174 "Site bootstrap and release mutations are serialized":    *)
(* however much Pulumi runs in parallel and skips, the commands of two     *)
(* Sites never run together, and a Site's run only on a host whose earlier *)
(* Sites are deployed.                                                     *)
OneSiteAtATime ==
    \A s, t \in Sites : \A c \in SiteCommands(s) :
        s < t /\ status[c] = "running" => \A d \in SiteCommands(t) : status[d] # "running"

InOrder ==
    up => \A s, t \in Configured : \A c \in SiteCommands(t) :
              s < t /\ status[c] = "running" => Deployed(s)

(* A Site of the registry has its DNS record: finalization waits for all   *)
(* of a Site's resources, and what it recorded is never unconfigured in an *)
(* update that completes.                                                  *)
RegistryRouted == registry \subseteq dns

(* host-preflight.ts:151-155: no update drops a recorded Site, a skipped   *)
(* preflight and one interrupted between its resources included.           *)
RegistryKept == [][registry \subseteq registry']_vars

(* An update that completes leaves every configured Site on its configured *)
(* image, registered and routed, except where the stack's record is stale: *)
(* the Site was rolled back or its last release failed, and the inputs are *)
(* those of the release before.                                            *)
UpDelivers ==
    up /\ Complete =>
        /\ registry = Configured
        /\ Configured \subseteq dns
        /\ \A s \in Configured :
              Deployed(s) /\ (deploy[s].active = config[s] \/ s \in drifted)

(***************************************************************************)
(* Claims that the graph refutes.                                          *)
(***************************************************************************)

(* README.md:145-147 "when a Site is removed or renamed.  Such changes     *)
(* fail closed"; host-preflight.ts:153 "removing or renaming a Site key    *)
(* cannot silently stop routing": a deployed Site keeps its DNS record.    *)
RemovalFailsClosed == \A s \in Sites : Deployed(s) => s \in dns
=============================================================================
