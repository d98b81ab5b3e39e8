------------------------- MODULE HostGraph_proofs -------------------------
(***************************************************************************)
(* Theorems about HostGraph for any finite set of Sites, any images and    *)
(* any number of changes and faults.  RegistryKept needs no invariant: the *)
(* registry is written by the finalization only, which runs the preflight  *)
(* again, so it does not matter what Pulumi skipped before.                *)
(*                                                                         *)
(* The others rest on four parts, proved in this order: CoreInv (what runs *)
(* is configured, and a recorded Site has a deploy record); the types      *)
(* (RestTypes); OrderInv (what the barriers between neighbours add up to); *)
(* MeansInv (what "done" and the stack's record say of the host).          *)
(***************************************************************************)
EXTENDS HostGraph, FiniteSetTheorems, TLAPS

(* What a recorded Site's deploy record rests on.                          *)
CoreInv ==
    /\ Configured \subseteq Sites
    /\ config \in [Configured -> Images]
    /\ deploy \in [Sites -> DeployRecords \cup {None}]
    /\ DOMAIN status = Resources
    /\ registry \subseteq Sites
    /\ RunningPlanned
    /\ RegistryDeployed

RestTypes ==
    /\ Configured # {}
    /\ dns \subseteq Sites
    /\ DOMAIN stack = Resources
    /\ up \in BOOLEAN
    /\ status \in [Resources -> {"waiting", "running", "done", "failed"}]
    /\ drifted \subseteq Sites
    /\ changes \in 0..MaxChanges
    /\ faults \in 0..MaxFaults

(***************************************************************************)
(* Resources, effects and the registry.                                    *)
(***************************************************************************)

(* A release that is planned is the release of a configured Site.          *)
LEMMA PlannedRelease ==
  ASSUME NEW r \in Planned, r[1] = "release"
  PROVE  r[2] \in Configured
<1>1. r \notin HostResources
  BY DEF HostResources, Preflight, Edge, Finalize
<1>2. PICK s \in Configured : r \in SiteResources(s)
  BY <1>1 DEF Planned, ResourcesOf
<1>3. r = Release(s)
  BY <1>2 DEF SiteResources, SiteCommands, Dns, Reconcile, Readiness, Release
<1> QED
  BY <1>3 DEF Release

(* An accepted command writes only a registry that holds the former one.   *)
LEMMA EffectKeepsRegistry ==
  ASSUME NEW r, Accepts(r), Effect(r)
  PROVE  registry \subseteq registry'
<1>1. CASE r = Finalize
  BY <1>1 DEF Accepts, Effect, PreflightAccepts
<1>2. CASE r # Finalize
  BY <1>2 DEF Effect
<1> QED
  BY <1>1, <1>2

(* A release records one of the configured images.                         *)
LEMMA ReleasedType ==
  ASSUME CoreInv, NEW s \in Configured
  PROVE  Released(s) \in DeployRecords
<1>1. config[s] \in Images /\ s \in Sites
  BY DEF CoreInv
<1>2. Deployed(s) => deploy[s] \in DeployRecords /\ deploy[s].active \in Images
  BY <1>1 DEF CoreInv, Deployed, DeployRecords
<1>3. [active |-> config[s], previous |-> None] \in DeployRecords
  BY <1>1 DEF DeployRecords
<1>4. Deployed(s) => [active |-> config[s], previous |-> deploy[s].active] \in DeployRecords
  BY <1>1, <1>2 DEF DeployRecords
<1> QED
  BY <1>2, <1>3, <1>4 DEF Released

(* No effect deletes a deploy record, and the finalization writes only     *)
(* Sites that have one.                                                    *)
LEMMA EffectKeepsRecords ==
  ASSUME CoreInv, NEW r \in Planned, Accepts(r), Effect(r)
  PROVE  /\ deploy' \in [Sites -> DeployRecords \cup {None}]
         /\ registry' \subseteq Sites
         /\ RegistryDeployed'
<1>1. CASE r[1] = "release"
  <2>1. r[2] \in Configured /\ r[2] \in Sites
    BY <1>1, PlannedRelease DEF CoreInv
  <2>2. Released(r[2]) \in DeployRecords
    BY <2>1, ReleasedType
  <2>3. deploy' = [deploy EXCEPT ![r[2]] = Released(r[2])]
    BY <1>1 DEF Effect
  <2>4. registry' = registry
    BY <1>1 DEF Effect, Finalize
  <2>5. deploy' \in [Sites -> DeployRecords \cup {None}]
    BY <2>1, <2>2, <2>3 DEF CoreInv
  <2>6. ASSUME NEW s \in registry PROVE deploy'[s] # None
    BY <2>1, <2>2, <2>3, NoneAssumption DEF CoreInv, RegistryDeployed, Deployed
  <2> QED
    BY <2>4, <2>5, <2>6 DEF CoreInv, RegistryDeployed, Deployed
<1>2. CASE r = Finalize
  <2>1. deploy' = deploy /\ registry' = Configured
    BY <1>2 DEF Effect, Finalize
  <2> QED
    BY <1>2, <2>1 DEF Accepts, CoreInv, RegistryDeployed, Deployed
<1>3. CASE r[1] # "release" /\ r # Finalize
  BY <1>3 DEF Effect, CoreInv, RegistryDeployed, Deployed
<1> QED
  BY <1>1, <1>2, <1>3

(***************************************************************************)
(* The invariant.                                                          *)
(***************************************************************************)

(* The first configuration is one of Sites; nothing is recorded.           *)
LEMMA InitCore == Init => CoreInv
BY DEF Init, CoreInv, RunningPlanned, RegistryDeployed, Configured

(* A status that changes is that of a planned resource of the update.      *)
LEMMA StatusStep ==
  ASSUME RunningPlanned, up, NEW r \in Planned, NEW label,
         status' = [status EXCEPT ![r] = label], UNCHANGED <<config, up>>
  PROVE  RunningPlanned'
BY DEF RunningPlanned, Planned, Configured

(* Each step keeps the invariant.                                          *)
LEMMA NextCore == CoreInv /\ [Next]_vars => CoreInv'
<1> SUFFICES ASSUME CoreInv, [Next]_vars
             PROVE  CoreInv'
  OBVIOUS
<1>1. CASE UNCHANGED vars
  BY <1>1 DEF vars, CoreInv, RunningPlanned, RegistryDeployed, Deployed, Configured, Planned
<1>2. ASSUME NEW s \in Sites, NEW i \in Images, Configure(s, i)
      PROVE  CoreInv'
  <2>1. config' \in [Configured \cup {s} -> Images] /\ Configured' = Configured \cup {s}
    BY <1>2 DEF Configure, CoreInv, Configured
  <2>2. RunningPlanned'
    BY <1>2 DEF Configure, Operator, CoreInv, RunningPlanned
  <2>3. UNCHANGED <<deploy, registry, status>>
    BY <1>2 DEF Configure, Operator
  <2> QED
    BY <2>1, <2>2, <2>3 DEF CoreInv, RegistryDeployed, Deployed
<1>3. ASSUME NEW s \in Sites, RemoveSite(s)
      PROVE  CoreInv'
  <2>1. config' \in [Configured \ {s} -> Images] /\ Configured' = Configured \ {s}
    BY <1>3 DEF RemoveSite, CoreInv, Configured
  <2>2. RunningPlanned'
    BY <1>3 DEF RemoveSite, Operator, CoreInv, RunningPlanned
  <2>3. UNCHANGED <<deploy, registry, status>>
    BY <1>3 DEF RemoveSite, Operator
  <2> QED
    BY <2>1, <2>2, <2>3 DEF CoreInv, RegistryDeployed, Deployed
<1>4. ASSUME NEW s \in Sites, Rollback(s)
      PROVE  CoreInv'
  <2>1. deploy[s] \in DeployRecords /\ deploy[s].previous \in Images
    BY <1>4 DEF Rollback, CoreInv, DeployRecords
  <2>2. [active |-> deploy[s].previous, previous |-> deploy[s].active] \in DeployRecords
    BY <2>1 DEF DeployRecords
  <2>3. /\ deploy' \in [Sites -> DeployRecords \cup {None}]
        /\ \A t \in Sites : deploy[t] # None => deploy'[t] # None
    BY <1>4, <2>2, NoneAssumption DEF Rollback, CoreInv
  <2>4. RunningPlanned'
    BY <1>4 DEF Rollback, Operator, CoreInv, RunningPlanned
  <2>5. UNCHANGED <<config, registry, status>>
    BY <1>4 DEF Rollback, Operator
  <2> QED
    BY <2>3, <2>4, <2>5 DEF CoreInv, RegistryDeployed, Deployed, Configured
<1>5. CASE StartUp
  <2>1. RunningPlanned'
    BY <1>5 DEF StartUp, CoreInv, RunningPlanned, Planned, Configured
  <2> QED
    BY <1>5, <2>1 DEF StartUp, CoreInv, RegistryDeployed, Deployed, Configured
<1>6. CASE EndUp
  <2>1. RunningPlanned'
    BY <1>6 DEF EndUp, CoreInv, RunningPlanned
  <2> QED
    BY <1>6, <2>1 DEF EndUp, CoreInv, RegistryDeployed, Deployed, Configured
<1>7. ASSUME NEW r \in Resources, Start(r)
      PROVE  CoreInv'
  <2>1. up /\ r \in Planned
    BY <1>7 DEF Start, Ready
  <2>2. RunningPlanned'
    BY <1>7, <2>1, StatusStep DEF Start, CoreInv
  <2> QED
    BY <1>7, <2>2 DEF Start, CoreInv, RegistryDeployed, Deployed, Configured
<1>8. ASSUME NEW r \in Resources, Finish(r)
      PROVE  CoreInv'
  <2>1. up /\ r \in Planned
    BY <1>8 DEF Finish, CoreInv, RunningPlanned
  <2>2. RunningPlanned'
    BY <1>8, <2>1, StatusStep DEF Finish, CoreInv
  <2>3. /\ deploy' \in [Sites -> DeployRecords \cup {None}]
        /\ registry' \subseteq Sites
        /\ RegistryDeployed'
    BY <1>8, <2>1, EffectKeepsRecords DEF Finish
  <2> QED
    BY <1>8, <2>2, <2>3 DEF Finish, CoreInv, Configured
<1>9. ASSUME NEW r \in Resources, Fail(r)
      PROVE  CoreInv'
  <2>1. up /\ r \in Planned
    BY <1>9 DEF Fail, CoreInv, RunningPlanned
  <2>2. RunningPlanned'
    BY <1>9, <2>1, StatusStep DEF Fail, CoreInv
  <2>3. CASE UNCHANGED <<registry, deploy>>
    BY <1>9, <2>2, <2>3 DEF Fail, CoreInv, RegistryDeployed, Deployed, Configured
  <2>4. CASE Accepts(r) /\ Effect(r)
    <3>1. /\ deploy' \in [Sites -> DeployRecords \cup {None}]
          /\ registry' \subseteq Sites
          /\ RegistryDeployed'
      BY <2>1, <2>4, EffectKeepsRecords
    <3> QED
      BY <1>9, <2>2, <3>1 DEF Fail, CoreInv, Configured
  <2> QED
    BY <1>9, <2>3, <2>4 DEF Fail
<1> QED
  BY <1>1, <1>2, <1>3, <1>4, <1>5, <1>6, <1>7, <1>8, <1>9 DEF Next

(* The other types, which rest on CoreInv: what runs is configured.        *)
LEMMA InitRest == Init => RestTypes
<1> SUFFICES ASSUME Init
             PROVE  RestTypes
  OBVIOUS
<1>1. Configured # {}
  BY DEF Init, Configured
<1>2. /\ DOMAIN stack = Resources
      /\ status \in [Resources -> {"waiting", "running", "done", "failed"}]
  BY DEF Init
<1>3. changes \in 0..MaxChanges /\ faults \in 0..MaxFaults
  BY BoundAssumption DEF Init
<1> QED
  BY <1>1, <1>2, <1>3 DEF Init, RestTypes

(* A change by the operator.                                               *)
LEMMA OperatorRest ==
  ASSUME RestTypes, Operator, Configured' # {}, drifted' \subseteq Sites
  PROVE  RestTypes'
BY BoundAssumption DEF Operator, RestTypes

(* A status that changes keeps its type.                                   *)
LEMMA StatusTyped ==
  ASSUME RestTypes, NEW r \in Resources, NEW label \in {"waiting", "running", "done", "failed"},
         status' = [status EXCEPT ![r] = label]
  PROVE  status' \in [Resources -> {"waiting", "running", "done", "failed"}]
BY DEF RestTypes

(* A DNS record is made for, and a release drifts at, a configured Site.   *)
LEMMA ResourceSite ==
  ASSUME CoreInv, NEW r \in Planned, r[1] \in {"dns", "release"}
  PROVE  r[2] \in Sites
<1>1. r \notin HostResources
  BY DEF HostResources, Preflight, Edge, Finalize
<1>2. PICK s \in Configured : r \in SiteResources(s)
  BY <1>1 DEF Planned, ResourcesOf
<1>3. r = <<r[1], s>>
  BY <1>2 DEF SiteResources, SiteCommands, Dns, Reconcile, Readiness, Release
<1> QED
  BY <1>3 DEF CoreInv

(* Each step keeps the other types.                                        *)
LEMMA NextRest == CoreInv /\ RestTypes /\ [Next]_vars => RestTypes'
<1> SUFFICES ASSUME CoreInv, RestTypes, [Next]_vars
             PROVE  RestTypes'
  OBVIOUS
<1>1. CASE UNCHANGED vars
  BY <1>1 DEF vars, RestTypes, Configured
<1>2. ASSUME NEW s \in Sites, NEW i \in Images, Configure(s, i)
      PROVE  RestTypes'
  <2>1. Configured' = Configured \cup {s}
    BY <1>2 DEF Configure, Configured
  <2> QED
    BY <1>2, <2>1, OperatorRest DEF Configure, RestTypes
<1>3. ASSUME NEW s \in Sites, RemoveSite(s)
      PROVE  RestTypes'
  <2>1. Configured' = Configured \ {s} /\ s \in Configured /\ Configured # {s}
    BY <1>3 DEF RemoveSite, Configured
  <2>2. Configured' # {}
    BY <2>1
  <2> QED
    BY <1>3, <2>2, OperatorRest DEF RemoveSite, RestTypes
<1>4. ASSUME NEW s \in Sites, Rollback(s)
      PROVE  RestTypes'
  BY <1>4, OperatorRest DEF Rollback, RestTypes, Configured
<1>5. CASE StartUp
  BY <1>5 DEF StartUp, RestTypes, Configured
<1>6. CASE EndUp
  BY <1>6 DEF EndUp, RestTypes, Configured
<1>7. ASSUME NEW r \in Resources, Start(r)
      PROVE  RestTypes'
  <2>1. status' \in [Resources -> {"waiting", "running", "done", "failed"}]
    BY <1>7, StatusTyped DEF Start
  <2> QED
    BY <1>7, <2>1 DEF Start, RestTypes, Configured
<1>8. ASSUME NEW r \in Resources, Finish(r)
      PROVE  RestTypes'
  <2>1. status' \in [Resources -> {"waiting", "running", "done", "failed"}]
    BY <1>8, StatusTyped DEF Finish
  <2>2. r \in Planned
    BY <1>8 DEF Finish, CoreInv, RunningPlanned
  <2>3. dns' \subseteq Sites
    BY <1>8, <2>2, ResourceSite DEF Finish, Effect, RestTypes
  <2>4. drifted' \subseteq Sites
    BY <1>8 DEF Finish, RestTypes
  <2> QED
    BY <1>8, <2>1, <2>3, <2>4 DEF Finish, RestTypes, Configured
<1>9. ASSUME NEW r \in Resources, Fail(r)
      PROVE  RestTypes'
  <2>1. status' \in [Resources -> {"waiting", "running", "done", "failed"}]
    BY <1>9, StatusTyped DEF Fail
  <2>2. r \in Planned
    BY <1>9 DEF Fail, CoreInv, RunningPlanned
  <2>3. dns' \subseteq Sites
    BY <1>9, <2>2, ResourceSite DEF Fail, Effect, RestTypes
  <2>4. drifted' \subseteq Sites
    BY <1>9, <2>2, ResourceSite DEF Fail, RestTypes
  <2>5. faults' \in 0..MaxFaults
    BY <1>9, BoundAssumption DEF Fail, RestTypes
  <2> QED
    BY <1>9, <2>1, <2>3, <2>4, <2>5 DEF Fail, RestTypes, Configured
<1> QED
  BY <1>1, <1>2, <1>3, <1>4, <1>5, <1>6, <1>7, <1>8, <1>9 DEF Next

(***************************************************************************)
(* The graph: what a command waits for.                                    *)
(***************************************************************************)

(* A finite set of numbers has a greatest one: the one with the fewest     *)
(* above it.                                                               *)
LEMMA GreatestExists ==
  ASSUME NEW S, S \subseteq Nat, IsFiniteSet(S), S # {}
  PROVE  \E e \in S : \A f \in S : f <= e
<1> DEFINE Above(e) == {f \in S : f > e}
           T == {Above(e) : e \in S}
<1>1. T \subseteq FiniteSubsetsOf(S) /\ T # {}
  <2>1. \A e \in S : Above(e) \in SUBSET S
    OBVIOUS
  <2>2. \A e \in S : IsFiniteSet(Above(e))
    BY <2>1, FS_Subset
  <2> QED
    BY <2>1, <2>2 DEF FiniteSubsetsOf
<1>2. IsWellFoundedOn(StrictSubsetOrdering(S), FiniteSubsetsOf(S))
  BY FS_StrictSubsetOrderingWellFounded
<1>3. PICK A \in T : \A B \in T : <<B, A>> \notin StrictSubsetOrdering(S)
  BY <1>1, <1>2, WFMin
<1>4. PICK e \in S : A = Above(e)
  BY <1>3
<1>5. ASSUME NEW f \in S, f > e
      PROVE  FALSE
  <2>1. Above(f) \in T /\ Above(f) \subseteq Above(e)
    <3>1. \A g \in Nat : g > f => g > e
      BY <1>5
    <3>2. Above(f) \subseteq Above(e)
      BY <3>1
    <3> QED
      BY <3>2
  <2>2. f \in Above(e) /\ f \notin Above(f)
    BY <1>5
  <2>3. Above(f) \in SUBSET S /\ Above(e) \in SUBSET S
    OBVIOUS
  <2>4. <<Above(f), Above(e)>> \in StrictSubsetOrdering(S)
    BY <2>1, <2>2, <2>3 DEF StrictSubsetOrdering
  <2> QED
    BY <1>3, <1>4, <2>1, <2>4
<1> QED
  BY <1>5

(* A configured Site with an earlier one has a last one before it, the one *)
(* its reconciliation waits for.                                           *)
LEMMA BarrierBetween ==
  ASSUME Configured \subseteq Sites, NEW s \in Configured, NEW t \in Configured, s < t
  PROVE  \E e \in Configured : s <= e /\ e < t /\ Readiness(e) \in Barrier(t)
<1> DEFINE Before == {e \in Configured : e < t}
<1>1. Before \subseteq Sites /\ s \in Before
  OBVIOUS
<1>2. IsFiniteSet(Before) /\ Before \subseteq Nat
  BY <1>1, FS_Subset, SitesAssumption
<1>3. PICK e \in Before : \A f \in Before : f <= e
  BY <1>1, <1>2, GreatestExists
<1> QED
  BY <1>1, <1>3 DEF Barrier

(* The finalization waits for the last Site.                               *)
LEMMA LastBarrierExists ==
  ASSUME Configured \subseteq Sites, NEW s \in Configured
  PROVE  \E e \in Configured : s <= e /\ Readiness(e) \in LastBarrier
<1>1. IsFiniteSet(Configured) /\ Configured \subseteq Nat
  BY FS_Subset, SitesAssumption
<1>2. PICK e \in Configured : \A f \in Configured : f <= e
  BY <1>1, GreatestExists
<1> QED
  BY <1>2 DEF LastBarrier

(* The planned resources, one by one.                                      *)
LEMMA PlannedCases ==
  ASSUME NEW r \in Planned
  PROVE  \/ r = Preflight \/ r = Edge \/ r = Finalize
         \/ \E s \in Configured : r = Dns(s) \/ r = Reconcile(s) \/ r = Release(s) \/ r = Readiness(s)
BY DEF Planned, ResourcesOf, HostResources, SiteResources, SiteCommands

(* A configured Site's resources are planned.                              *)
LEMMA SitePlanned ==
  ASSUME NEW s \in Configured
  PROVE  SiteResources(s) \subseteq Planned
BY DEF Planned, ResourcesOf

(* What each of them waits for.                                            *)
LEMMA Dependencies ==
  /\ DependsOn(Preflight) = {}
  /\ DependsOn(Edge) = {Preflight}
  /\ DependsOn(Finalize) = {Preflight} \cup LastBarrier
  /\ \A s : /\ DependsOn(Dns(s)) = {Preflight}
            /\ DependsOn(Reconcile(s)) = {Dns(s), Edge, Preflight} \cup Barrier(s)
            /\ DependsOn(Release(s)) = {Reconcile(s), Preflight}
            /\ DependsOn(Readiness(s)) = {Release(s), Preflight}
BY DEF DependsOn, Preflight, Edge, Finalize, Dns, Reconcile, Release, Readiness

(* A resource waits for planned resources.                                 *)
LEMMA DependenciesPlanned ==
  ASSUME NEW r \in Planned
  PROVE  DependsOn(r) \subseteq Planned
<1>1. /\ HostResources \subseteq Planned
      /\ \A s \in Configured : SiteResources(s) \subseteq Planned
  BY DEF Planned, ResourcesOf
<1>2. Preflight \in Planned /\ Edge \in Planned
  BY <1>1 DEF HostResources
<1>3. \A s \in Configured : /\ Dns(s) \in Planned /\ Reconcile(s) \in Planned
                            /\ Release(s) \in Planned /\ Readiness(s) \in Planned
  BY <1>1 DEF SiteResources, SiteCommands
<1>4. LastBarrier \subseteq Planned
  BY <1>3 DEF LastBarrier
<1>5. \A s \in Configured : Barrier(s) \subseteq Planned
  BY <1>3 DEF Barrier
<1> QED
  BY <1>2, <1>3, <1>4, <1>5, PlannedCases, Dependencies

(* A Site that is ready has all its resources done.                        *)
LEMMA ReadyIsDone ==
  ASSUME DependenciesDone, NEW s \in Configured, status[Readiness(s)] = "done"
  PROVE  \A r \in SiteResources(s) : status[r] = "done"
<1>1. /\ Dns(s) \in Planned /\ Reconcile(s) \in Planned
      /\ Release(s) \in Planned /\ Readiness(s) \in Planned
  BY SitePlanned DEF SiteResources, SiteCommands
<1>2. status[Release(s)] = "done"
  BY <1>1, Dependencies DEF DependenciesDone
<1>3. status[Reconcile(s)] = "done"
  BY <1>1, <1>2, Dependencies DEF DependenciesDone
<1>4. status[Dns(s)] = "done"
  BY <1>1, <1>3, Dependencies DEF DependenciesDone
<1> QED
  BY <1>2, <1>3, <1>4 DEF SiteResources, SiteCommands

(***************************************************************************)
(* The order of an update.                                                 *)
(***************************************************************************)
OrderInv == DependenciesDone /\ EarlierDone /\ AllDone

(* The graph is that of the configuration.                                 *)
LEMMA SameGraph ==
  ASSUME config' = config
  PROVE  /\ Configured' = Configured /\ Planned' = Planned
         /\ \A r : DependsOn(r)' = DependsOn(r)
         /\ \A r : Inputs(r)' = Inputs(r)
<1>1. Configured' = Configured
  BY DEF Configured
<1>2. Planned' = Planned
  BY <1>1 DEF Planned
<1>3. LastBarrier' = LastBarrier /\ \A s : Barrier(s)' = Barrier(s)
  BY <1>1 DEF LastBarrier, Barrier
<1>4. \A r : DependsOn(r)' = DependsOn(r)
  BY <1>3 DEF DependsOn
<1>5. \A r : Inputs(r)' = Inputs(r)
  BY <1>1 DEF Inputs
<1> QED
  BY <1>1, <1>2, <1>4, <1>5

(* Where nothing starts and what is done stays done, the order stays.      *)
LEMMA NothingStarts ==
  ASSUME OrderInv, config' = config,
         \A r \in Planned : status'[r] # "waiting" => status[r] # "waiting",
         \A r \in Planned : status[r] = "done" => status'[r] = "done"
  PROVE  OrderInv'
<1>1. Configured' = Configured /\ Planned' = Planned /\ \A r : DependsOn(r)' = DependsOn(r)
  BY SameGraph
<1>2. DependenciesDone'
  BY <1>1, DependenciesPlanned DEF OrderInv, DependenciesDone
<1>3. \A s \in Configured : SiteResources(s) \subseteq Planned /\ SiteCommands(s) \subseteq Planned
  BY SitePlanned DEF SiteResources
<1>4. EarlierDone'
  BY <1>1, <1>3 DEF OrderInv, EarlierDone
<1>5. Finalize \in Planned
  BY DEF Planned, ResourcesOf, HostResources
<1>6. AllDone'
  BY <1>1, <1>3, <1>5 DEF OrderInv, AllDone
<1> QED
  BY <1>2, <1>4, <1>6 DEF OrderInv

(* What a starting command of a later Site finds.                          *)
LEMMA EarlierReady ==
  ASSUME OrderInv, Configured \subseteq Sites,
         NEW s \in Configured, NEW t \in Configured, s < t, NEW c \in SiteCommands(t),
         \A d \in DependsOn(c) : status[d] = "done"
  PROVE  \A r \in SiteResources(s) : status[r] = "done"
<1>1. CASE c = Reconcile(t)
  <2>1. PICK e \in Configured : s <= e /\ e < t /\ Readiness(e) \in Barrier(t)
    BY BarrierBetween
  <2>2. status[Readiness(e)] = "done"
    BY <1>1, <2>1, Dependencies
  <2>3. CASE s = e
    BY <2>2, <2>3, ReadyIsDone DEF OrderInv
  <2>4. CASE s # e
    <3>1. s < e
      BY <2>1, <2>4, SitesAssumption
    <3>2. Readiness(e) \in SiteCommands(e)
      BY DEF SiteCommands
    <3> QED
      BY <2>2, <3>1, <3>2 DEF OrderInv, EarlierDone
  <2> QED
    BY <2>3, <2>4
<1>2. CASE c = Release(t) \/ c = Readiness(t)
  <2>1. \E d \in SiteCommands(t) : status[d] = "done"
    BY <1>2, Dependencies DEF SiteCommands
  <2> QED
    BY <2>1 DEF OrderInv, EarlierDone
<1> QED
  BY <1>1, <1>2 DEF SiteCommands

(* What the starting finalization finds.                                   *)
LEMMA AllReady ==
  ASSUME OrderInv, Configured \subseteq Sites, NEW s \in Configured,
         \A d \in DependsOn(Finalize) : status[d] = "done"
  PROVE  \A r \in SiteResources(s) : status[r] = "done"
<1>1. PICK e \in Configured : s <= e /\ Readiness(e) \in LastBarrier
  BY LastBarrierExists
<1>2. status[Readiness(e)] = "done"
  BY <1>1, Dependencies
<1>3. CASE s = e
  BY <1>2, <1>3, ReadyIsDone DEF OrderInv
<1>4. CASE s # e
  <2>1. s < e
    BY <1>1, <1>4, SitesAssumption
  <2>2. Readiness(e) \in SiteCommands(e)
    BY DEF SiteCommands
  <2> QED
    BY <1>2, <2>1, <2>2 DEF OrderInv, EarlierDone
<1> QED
  BY <1>3, <1>4

(* A resource that starts keeps the order.                                 *)
LEMMA StartKeepsOrder ==
  ASSUME CoreInv, OrderInv, NEW q \in Resources, Start(q)
  PROVE  OrderInv'
<1>1. /\ q \in Planned /\ status[q] = "waiting" /\ config' = config
      /\ \A d \in DependsOn(q) : status[d] = "done"
  BY DEF Start, Ready
<1>2. PICK label : status' = [status EXCEPT ![q] = label]
  BY DEF Start
<1>3. Planned \subseteq Resources
  BY DEF CoreInv, Planned, Resources, ResourcesOf
<1>4. /\ \A r \in Planned : status[r] = "done" => status'[r] = "done"
      /\ \A r \in Planned : r # q => status'[r] = status[r]
  BY <1>1, <1>2, <1>3 DEF CoreInv
<1>5. Configured' = Configured /\ Planned' = Planned /\ \A r : DependsOn(r)' = DependsOn(r)
  BY <1>1, SameGraph
<1>6. \A s \in Configured : SiteResources(s) \subseteq Planned /\ SiteCommands(s) \subseteq Planned
  BY SitePlanned DEF SiteResources
<1>7. DependenciesDone'
  BY <1>1, <1>4, <1>5, DependenciesPlanned DEF OrderInv, DependenciesDone
<1>8. EarlierDone'
  <2> SUFFICES ASSUME NEW s \in Configured, NEW t \in Configured, NEW c \in SiteCommands(t),
                      s < t, status'[c] # "waiting",
                      NEW r \in SiteResources(s)
               PROVE  status'[r] = "done"
    BY <1>5 DEF EarlierDone
  <2>1. CASE c = q
    BY <1>1, <1>4, <1>6, <2>1, EarlierReady DEF CoreInv
  <2>2. CASE c # q
    BY <1>4, <1>6, <2>2 DEF OrderInv, EarlierDone
  <2> QED
    BY <2>1, <2>2
<1>9. AllDone'
  <2> SUFFICES ASSUME status'[Finalize] # "waiting", NEW s \in Configured, NEW r \in SiteResources(s)
               PROVE  status'[r] = "done"
    BY <1>5 DEF AllDone
  <2>1. CASE q = Finalize
    BY <1>1, <1>4, <1>6, <2>1, AllReady DEF CoreInv
  <2>2. CASE q # Finalize
    <3>1. Finalize \in Planned
      BY DEF Planned, ResourcesOf, HostResources
    <3> QED
      BY <1>4, <1>6, <2>2, <3>1 DEF OrderInv, AllDone
  <2> QED
    BY <2>1, <2>2
<1> QED
  BY <1>7, <1>8, <1>9 DEF OrderInv

(***************************************************************************)
(* What is done, and what the stack records.                               *)
(***************************************************************************)
MeansInv == DoneMeans /\ RecordMeans /\ RegistryRouted

(* Between updates nothing has started.                                    *)
LEMMA NothingStarted ==
  Configured \subseteq Sites /\ (\A r \in Resources : status[r] = "waiting") => OrderInv /\ DoneMeans
<1> SUFFICES ASSUME \A r \in Resources : status[r] = "waiting", Configured \subseteq Sites
             PROVE  OrderInv /\ DoneMeans
  OBVIOUS
<1>1. Planned \subseteq Resources
  BY DEF Planned, Resources, ResourcesOf
<1>2. \A s \in Configured : SiteCommands(s) \subseteq Planned /\ SiteResources(s) \subseteq Planned
  BY SitePlanned DEF SiteResources
<1>3. Finalize \in Planned /\ Preflight \in Planned
  BY DEF Planned, ResourcesOf, HostResources
<1>4. \A s \in Configured : Dns(s) \in Planned /\ Release(s) \in Planned
  BY <1>2 DEF SiteResources, SiteCommands
<1>5. OrderInv
  BY <1>1, <1>2, <1>3 DEF OrderInv, DependenciesDone, EarlierDone, AllDone
<1>6. DoneMeans
  BY <1>1, <1>3, <1>4 DEF DoneMeans
<1> QED
  BY <1>5, <1>6

(* The same, of the state an update leaves.                                *)
LEMMA NothingStartedNext ==
  (Configured \subseteq Sites /\ (\A r \in Resources : status[r] = "waiting"))' => (OrderInv /\ DoneMeans)'
BY NothingStarted, PTL

(* Without an update every resource waits.                                 *)
LEMMA IdleWaits ==
  ASSUME CoreInv, ~up
  PROVE  \A r \in Resources : status[r] = "waiting"
BY DEF CoreInv, RunningPlanned

(* A new host.                                                             *)
LEMMA InitMeans == Init => OrderInv /\ MeansInv
<1> SUFFICES ASSUME Init
             PROVE  OrderInv /\ MeansInv
  OBVIOUS
<1>1. OrderInv /\ DoneMeans
  <2>1. Configured \subseteq Sites /\ \A r \in Resources : status[r] = "waiting"
    BY DEF Init, Configured
  <2> QED
    BY <2>1, NothingStarted
<1>2. /\ Preflight \in Resources /\ Finalize \in Resources
      /\ \A s \in Sites : Dns(s) \in Resources /\ Release(s) \in Resources
  BY DEF Resources, ResourcesOf, HostResources, SiteResources, SiteCommands
<1>3. RecordMeans
  BY <1>2 DEF Init, RecordMeans
<1>4. RegistryRouted
  BY DEF Init, RegistryRouted
<1> QED
  BY <1>1, <1>3, <1>4 DEF MeansInv

(* The effects of an accepted command.  A finalization finds the           *)
(* preflight and every Site's DNS record done.                             *)
LEMMA EffectMeans ==
  ASSUME CoreInv, OrderInv, MeansInv, NEW q \in Planned, status[q] = "running",
         Accepts(q), Effect(q)
  PROVE  /\ dns \subseteq dns' /\ registry' \subseteq dns'
         /\ registry \subseteq registry'
         /\ \/ q # Finalize /\ registry' = registry
            \/ /\ q = Finalize /\ registry' = Configured
               /\ stack[Preflight] = config
         /\ \A s \in Sites : \/ q # Release(s) /\ deploy'[s] = deploy[s]
                             \/ /\ q = Release(s) /\ s \in Configured
                                /\ deploy'[s] # None /\ deploy'[s].active = config[s]
         /\ \A s \in Sites : q = Dns(s) => s \in dns'
<1>1. dns \subseteq dns' /\ \A s \in Sites : q = Dns(s) => s \in dns'
  BY DEF Effect, Dns
<1>2. registry \subseteq registry'
  BY EffectKeepsRegistry
<1>3. CASE q = Finalize
  <2>1. registry' = Configured /\ deploy' = deploy /\ dns' = dns
    BY <1>3 DEF Effect, Finalize
  <2>2. status[Preflight] = "done"
    BY <1>3, Dependencies DEF OrderInv, DependenciesDone
  <2>3. stack[Preflight] = config
    BY <2>2 DEF MeansInv, DoneMeans
  <2>4. \A s \in Configured : status[Dns(s)] = "done"
    BY <1>3 DEF OrderInv, AllDone, SiteResources
  <2>5. registry' \subseteq dns'
    BY <2>1, <2>4 DEF MeansInv, DoneMeans
  <2>6. \A s \in Sites : q # Release(s)
    BY <1>3 DEF Finalize, Release
  <2> QED
    BY <1>1, <1>2, <1>3, <2>1, <2>3, <2>5, <2>6
<1>4. CASE q # Finalize
  <2>1. registry' = registry
    BY <1>4 DEF Effect
  <2>2. registry' \subseteq dns'
    BY <1>1, <2>1 DEF MeansInv, RegistryRouted
  <2>3. ASSUME NEW s \in Sites, q = Release(s)
        PROVE  s \in Configured /\ deploy'[s] # None /\ deploy'[s].active = config[s]
    <3>1. q[1] = "release" /\ q[2] = s /\ s \in Configured
      BY <2>3, PlannedRelease DEF Release
    <3>2. deploy'[s] = Released(s)
      BY <3>1 DEF Effect, CoreInv
    <3>3. Released(s) # None
      BY <3>1, ReleasedType, NoneAssumption
    <3>4. Released(s).active = config[s]
      BY DEF Released
    <3> QED
      BY <3>1, <3>2, <3>3, <3>4
  <2>4. ASSUME NEW s \in Sites, q # Release(s)
        PROVE  deploy'[s] = deploy[s]
    <3>1. CASE q[1] = "release"
      <4>1. q[2] # s
        BY <2>4, <3>1, PlannedCases DEF Preflight, Edge, Finalize, Dns, Reconcile, Release, Readiness
      <4> QED
        BY <3>1, <4>1 DEF Effect, CoreInv
    <3>2. CASE q[1] # "release"
      BY <3>2 DEF Effect
    <3> QED
      BY <3>1, <3>2
  <2> QED
    BY <1>1, <1>2, <1>4, <2>1, <2>2, <2>3, <2>4
<1> QED
  BY <1>3, <1>4

(* A command that finishes: what is done and recorded is so on the host.   *)
LEMMA FinishMeans ==
  ASSUME CoreInv, RestTypes, OrderInv, MeansInv, NEW q \in Resources, Finish(q)
  PROVE  OrderInv' /\ MeansInv'
<1>1. /\ q \in Planned /\ status[q] = "running" /\ config' = config
      /\ status' = [status EXCEPT ![q] = "done"] /\ stack' = [stack EXCEPT ![q] = Inputs(q)]
  BY DEF Finish, CoreInv, RunningPlanned
<1>2. /\ dns \subseteq dns' /\ registry' \subseteq dns' /\ registry \subseteq registry'
      /\ \/ q # Finalize /\ registry' = registry
         \/ q = Finalize /\ registry' = Configured /\ stack[Preflight] = config
      /\ \A s \in Sites : \/ q # Release(s) /\ deploy'[s] = deploy[s]
                          \/ /\ q = Release(s) /\ s \in Configured
                             /\ deploy'[s] # None /\ deploy'[s].active = config[s]
      /\ \A s \in Sites : q = Dns(s) => s \in dns'
  BY <1>1, EffectMeans DEF Finish
<1>3. Configured' = Configured /\ Planned' = Planned
  BY <1>1, SameGraph
<1>4. \A r \in Resources : r # q => status'[r] = status[r] /\ stack'[r] = stack[r]
  BY <1>1 DEF CoreInv
<1>5. status'[q] = "done" /\ stack'[q] = Inputs(q)
  BY <1>1 DEF CoreInv, RestTypes
<1>6. Planned \subseteq Resources /\ Configured \subseteq Sites
  BY DEF CoreInv, Planned, Resources, ResourcesOf
<1>7. OrderInv'
  BY <1>1, <1>4, <1>5, <1>6, NothingStarts
<1>8. /\ Preflight \in Resources /\ Finalize \in Resources
      /\ \A s \in Sites : Dns(s) \in Resources /\ Release(s) \in Resources
  BY DEF Resources, ResourcesOf, HostResources, SiteResources, SiteCommands
<1>9. /\ Inputs(Preflight) = config /\ Inputs(Finalize) = Configured
      /\ \A s : Inputs(Release(s)) = <<Configured, config[s]>>
  BY DEF Inputs, Preflight, Finalize, Release, Edge
<1>10. q = Preflight => registry \subseteq Configured
  BY DEF Finish, Accepts, PreflightAccepts
<1>11. \A s \in Sites : s \in drifted /\ q # Release(s) => s \in drifted'
  <2> SUFFICES ASSUME NEW s \in Sites, s \in drifted, s \notin drifted', q # Release(s)
               PROVE  FALSE
    OBVIOUS
  <2>1. q[1] = "release" /\ q[2] = s
    BY DEF Finish
  <2> QED
    BY <1>1, <2>1, PlannedCases DEF Preflight, Edge, Finalize, Dns, Reconcile, Release, Readiness
<1>12. DoneMeans'
  <2>1. (status[Preflight] = "done" => registry \subseteq Configured /\ stack[Preflight] = config)'
    <3>1. CASE q = Preflight
      BY <1>1, <1>2, <1>3, <1>5, <1>9, <1>10, <3>1 DEF Preflight, Finalize
    <3>2. CASE q # Preflight
      BY <1>1, <1>2, <1>3, <1>4, <1>8, <3>2 DEF MeansInv, DoneMeans
    <3> QED
      BY <3>1, <3>2
  <2>2. (status[Finalize] = "done" => Configured \subseteq registry)'
    BY <1>2, <1>3, <1>4, <1>8 DEF MeansInv, DoneMeans
  <2>3. ASSUME NEW s \in Configured
        PROVE  (status[Dns(s)] = "done" => s \in dns)'
    BY <1>2, <1>4, <1>6, <1>8 DEF MeansInv, DoneMeans
  <2>4. ASSUME NEW s \in Configured
        PROVE  (status[Release(s)] = "done" =>
                  Deployed(s) /\ (deploy[s].active = config[s] \/ s \in drifted))'
    <3>1. CASE q = Release(s)
      BY <1>1, <1>2, <1>6, <3>1 DEF Deployed
    <3>2. CASE q # Release(s)
      BY <1>1, <1>2, <1>4, <1>6, <1>8, <1>11, <3>2 DEF MeansInv, DoneMeans, Deployed
    <3> QED
      BY <3>1, <3>2
  <2> QED
    BY <1>3, <2>1, <2>2, <2>3, <2>4 DEF DoneMeans
<1>13. RecordMeans'
  <2>1. (stack[Preflight] # None => registry \subseteq DOMAIN stack[Preflight])'
    <3>1. CASE q = Preflight
      BY <1>2, <1>5, <1>9, <1>10, <3>1 DEF Preflight, Finalize, Configured
    <3>2. CASE q # Preflight
      BY <1>2, <1>4, <1>8, <3>2 DEF MeansInv, RecordMeans, Configured
    <3> QED
      BY <3>1, <3>2
  <2>2. (stack[Finalize] # None => stack[Finalize] \subseteq registry)'
    <3>1. CASE q = Finalize
      BY <1>2, <1>5, <1>9, <3>1
    <3>2. CASE q # Finalize
      BY <1>2, <1>4, <1>8, <3>2 DEF MeansInv, RecordMeans
    <3> QED
      BY <3>1, <3>2
  <2>3. ASSUME NEW s \in Sites
        PROVE  (stack[Dns(s)] # None => s \in dns)'
    BY <1>2, <1>4, <1>8 DEF MeansInv, RecordMeans
  <2>4. ASSUME NEW s \in Sites
        PROVE  (stack[Release(s)] # None =>
                  Deployed(s) /\ (deploy[s].active = stack[Release(s)][2] \/ s \in drifted))'
    <3>1. CASE q = Release(s)
      BY <1>2, <1>5, <1>9, <3>1 DEF Deployed
    <3>2. CASE q # Release(s)
      BY <1>2, <1>4, <1>8, <1>11, <3>2 DEF MeansInv, RecordMeans, Deployed
    <3> QED
      BY <3>1, <3>2
  <2> QED
    BY <2>1, <2>2, <2>3, <2>4 DEF RecordMeans
<1>14. RegistryRouted'
  BY <1>2 DEF RegistryRouted
<1> QED
  BY <1>7, <1>12, <1>13, <1>14 DEF MeansInv

(* A command that fails, before or after its effect: nothing more is done, *)
(* a Site whose release failed has drifted.                                *)
LEMMA FailMeans ==
  ASSUME CoreInv, RestTypes, OrderInv, MeansInv, NEW q \in Resources, Fail(q)
  PROVE  OrderInv' /\ MeansInv'
<1>1. /\ q \in Planned /\ status[q] = "running" /\ config' = config /\ stack' = stack
      /\ status' = [status EXCEPT ![q] = "failed"]
  BY DEF Fail, CoreInv, RunningPlanned
<1>2. \A s \in Sites : /\ s \in drifted => s \in drifted'
                       /\ q = Release(s) => s \in drifted'
  BY DEF Fail, Release
<1>3. /\ dns \subseteq dns' /\ registry' \subseteq dns' /\ registry \subseteq registry'
      /\ registry' = registry \/ (q = Finalize /\ registry' = Configured /\ stack[Preflight] = config)
      /\ \A s \in Sites : deploy'[s] = deploy[s] \/ (q = Release(s) /\ deploy'[s] # None)
  <2>1. CASE UNCHANGED <<registry, deploy, dns>>
    BY <2>1 DEF MeansInv, RegistryRouted
  <2>2. CASE Accepts(q) /\ Effect(q)
    BY <1>1, <2>2, EffectMeans
  <2> QED
    BY <2>1, <2>2 DEF Fail
<1>4. Configured' = Configured /\ Planned' = Planned
  BY <1>1, SameGraph
<1>5. \A r \in Resources : status'[r] = "done" <=> status[r] = "done"
  BY <1>1 DEF CoreInv
<1>6. Planned \subseteq Resources /\ Configured \subseteq Sites
  BY DEF CoreInv, Planned, Resources, ResourcesOf
<1>7. OrderInv'
  <2>1. \A r \in Planned : status'[r] # "waiting" => status[r] # "waiting"
    BY <1>1, <1>6 DEF CoreInv
  <2> QED
    BY <1>1, <1>5, <1>6, <2>1, NothingStarts
<1>8. /\ Preflight \in Resources /\ Finalize \in Resources
      /\ \A s \in Sites : Dns(s) \in Resources /\ Release(s) \in Resources
  BY DEF Resources, ResourcesOf, HostResources, SiteResources, SiteCommands
<1>9. DoneMeans'
  <2>1. (status[Preflight] = "done" => registry \subseteq Configured /\ stack[Preflight] = config)'
    BY <1>1, <1>3, <1>4, <1>5, <1>8 DEF MeansInv, DoneMeans
  <2>2. (status[Finalize] = "done" => Configured \subseteq registry)'
    BY <1>3, <1>4, <1>5, <1>8 DEF MeansInv, DoneMeans
  <2>3. ASSUME NEW s \in Configured
        PROVE  (status[Dns(s)] = "done" => s \in dns)'
    BY <1>3, <1>5, <1>6, <1>8 DEF MeansInv, DoneMeans
  <2>4. ASSUME NEW s \in Configured
        PROVE  (status[Release(s)] = "done" =>
                  Deployed(s) /\ (deploy[s].active = config[s] \/ s \in drifted))'
    BY <1>1, <1>2, <1>3, <1>5, <1>6, <1>8 DEF MeansInv, DoneMeans, Deployed
  <2> QED
    BY <1>4, <2>1, <2>2, <2>3, <2>4 DEF DoneMeans
<1>10. RecordMeans'
  <2>1. (stack[Preflight] # None => registry \subseteq DOMAIN stack[Preflight])'
    BY <1>1, <1>3 DEF MeansInv, RecordMeans, Configured
  <2>2. (stack[Finalize] # None => stack[Finalize] \subseteq registry)'
    BY <1>1, <1>3 DEF MeansInv, RecordMeans
  <2>3. ASSUME NEW s \in Sites
        PROVE  (stack[Dns(s)] # None => s \in dns)'
    BY <1>1, <1>3 DEF MeansInv, RecordMeans
  <2>4. ASSUME NEW s \in Sites
        PROVE  (stack[Release(s)] # None =>
                  Deployed(s) /\ (deploy[s].active = stack[Release(s)][2] \/ s \in drifted))'
    BY <1>1, <1>2, <1>3 DEF MeansInv, RecordMeans, Deployed
  <2> QED
    BY <2>1, <2>2, <2>3, <2>4 DEF RecordMeans
<1>11. RegistryRouted'
  BY <1>3 DEF RegistryRouted
<1> QED
  BY <1>7, <1>9, <1>10, <1>11 DEF MeansInv

(* A resource whose inputs are the recorded ones is done without running.  *)
LEMMA StartMeans ==
  ASSUME CoreInv, RestTypes, MeansInv, NEW q \in Resources, Start(q)
  PROVE  MeansInv'
<1>1. /\ status[q] = "waiting"
      /\ UNCHANGED <<config, registry, deploy, dns, stack, drifted>>
  BY DEF Start, Ready
<1>2. \A r \in Resources : status'[r] = "done" => status[r] = "done" \/ (r = q /\ Recorded(q))
  BY DEF Start, CoreInv
<1>3. Configured' = Configured /\ Configured \subseteq Sites
  BY <1>1, SameGraph DEF CoreInv
<1>4. /\ Preflight \in Resources /\ Finalize \in Resources
      /\ \A s \in Sites : Dns(s) \in Resources /\ Release(s) \in Resources
  BY DEF Resources, ResourcesOf, HostResources, SiteResources, SiteCommands
<1>5. /\ Inputs(Preflight) = config /\ Inputs(Finalize) = Configured
      /\ \A s : Inputs(Release(s)) = <<Configured, config[s]>>
  BY DEF Inputs, Preflight, Finalize, Release, Edge
<1>6. DoneMeans'
  <2>1. (status[Preflight] = "done" => registry \subseteq Configured /\ stack[Preflight] = config)'
    BY <1>1, <1>2, <1>3, <1>4, <1>5 DEF MeansInv, DoneMeans, RecordMeans, Recorded, Configured
  <2>2. (status[Finalize] = "done" => Configured \subseteq registry)'
    BY <1>1, <1>2, <1>3, <1>4, <1>5 DEF MeansInv, DoneMeans, RecordMeans, Recorded
  <2>3. ASSUME NEW s \in Configured
        PROVE  (status[Dns(s)] = "done" => s \in dns)'
    BY <1>1, <1>2, <1>3, <1>4 DEF MeansInv, DoneMeans, RecordMeans, Recorded
  <2>4. ASSUME NEW s \in Configured
        PROVE  (status[Release(s)] = "done" =>
                  Deployed(s) /\ (deploy[s].active = config[s] \/ s \in drifted))'
    BY <1>1, <1>2, <1>3, <1>4, <1>5 DEF MeansInv, DoneMeans, RecordMeans, Recorded, Deployed
  <2> QED
    BY <1>3, <2>1, <2>2, <2>3, <2>4 DEF DoneMeans
<1>7. RecordMeans' /\ RegistryRouted'
  BY <1>1 DEF MeansInv, RecordMeans, RegistryRouted, Deployed
<1> QED
  BY <1>6, <1>7 DEF MeansInv

(* An update that completes deletes what is not configured, and no         *)
(* registered Site is such a Site.                                         *)
LEMMA EndUpMeans ==
  ASSUME CoreInv, RestTypes, MeansInv, EndUp
  PROVE  OrderInv' /\ MeansInv'
<1>1. UNCHANGED <<config, registry, deploy, drifted>> /\ status' = [r \in Resources |-> "waiting"]
  BY DEF EndUp
<1>2. Configured' \subseteq Sites
  BY <1>1, SameGraph DEF CoreInv
<1>3. OrderInv' /\ DoneMeans'
  BY <1>1, <1>2, NothingStartedNext
<1>4. CASE UNCHANGED <<stack, dns>>
  BY <1>1, <1>3, <1>4 DEF MeansInv, RecordMeans, RegistryRouted, Deployed
<1>5. CASE /\ Complete
           /\ stack' = [r \in Resources |-> IF r \in Planned THEN stack[r] ELSE None]
           /\ dns' = dns \cap Configured
  <2>1. Preflight \in Planned /\ Finalize \in Planned
    BY DEF Planned, ResourcesOf, HostResources
  <2>2. registry \subseteq Configured
    BY <1>5, <2>1 DEF Complete, MeansInv, DoneMeans
  <2>3. RegistryRouted'
    BY <1>1, <1>5, <2>2 DEF MeansInv, RegistryRouted
  <2>4. /\ Preflight \in Resources /\ Finalize \in Resources
        /\ \A s \in Sites : Dns(s) \in Resources /\ Release(s) \in Resources
    BY DEF Resources, ResourcesOf, HostResources, SiteResources, SiteCommands
  <2>5. \A r \in Resources : stack'[r] # None => r \in Planned /\ stack'[r] = stack[r]
    BY <1>5
  <2>6. \A s : Dns(s) \in Planned => s \in Configured
    BY PlannedCases DEF Preflight, Edge, Finalize, Dns, Reconcile, Release, Readiness
  <2>7. RecordMeans'
    BY <1>1, <1>5, <2>4, <2>5, <2>6 DEF MeansInv, RecordMeans, Deployed
  <2> QED
    BY <1>3, <2>3, <2>7 DEF MeansInv
<1> QED
  BY <1>4, <1>5 DEF EndUp

(* Each step keeps the order and what done and recorded mean.              *)
LEMMA NextMeans ==
  CoreInv /\ RestTypes /\ OrderInv /\ MeansInv /\ [Next]_vars => OrderInv' /\ MeansInv'
<1> SUFFICES ASSUME CoreInv, RestTypes, OrderInv, MeansInv, [Next]_vars
             PROVE  OrderInv' /\ MeansInv'
  OBVIOUS
<1>1. CASE UNCHANGED vars
  <2>1. OrderInv'
    BY <1>1, NothingStarts DEF vars
  <2>2. DoneMeans' /\ RecordMeans' /\ RegistryRouted'
    BY <1>1 DEF vars, MeansInv, DoneMeans, RecordMeans, RegistryRouted, Deployed, Configured
  <2> QED
    BY <2>1, <2>2 DEF MeansInv
<1>2. ASSUME Operator, CoreInv', RecordMeans'
      PROVE  OrderInv' /\ MeansInv'
  <2>1. \A r \in Resources : status'[r] = "waiting"
    BY <1>2, IdleWaits DEF Operator
  <2>2. OrderInv' /\ DoneMeans'
    BY <1>2, <2>1, NothingStartedNext DEF CoreInv
  <2>3. RegistryRouted'
    BY <1>2 DEF Operator, MeansInv, RegistryRouted
  <2> QED
    BY <1>2, <2>2, <2>3 DEF MeansInv
<1>3. CoreInv'
  BY NextCore
<1>4. ASSUME NEW s \in Sites, RemoveSite(s) \/ \E i \in Images : Configure(s, i)
      PROVE  OrderInv' /\ MeansInv'
  <2>1. Operator /\ UNCHANGED <<deploy, drifted>>
    BY <1>4 DEF RemoveSite, Configure
  <2>2. RecordMeans'
    BY <2>1 DEF Operator, MeansInv, RecordMeans, Deployed
  <2> QED
    BY <1>2, <1>3, <2>1, <2>2
<1>5. ASSUME NEW s \in Sites, Rollback(s)
      PROVE  OrderInv' /\ MeansInv'
  <2>1. Operator
    BY <1>5 DEF Rollback
  <2>2. /\ drifted' = drifted \cup {s}
        /\ \A t \in Sites : t # s => deploy'[t] = deploy[t]
        /\ deploy'[s] = [active |-> deploy[s].previous, previous |-> deploy[s].active]
    BY <1>5 DEF Rollback, CoreInv
  <2>3. deploy[s] \in DeployRecords /\ deploy[s].previous \in Images
    BY <1>5 DEF Rollback, CoreInv, DeployRecords
  <2>4. deploy'[s] \in DeployRecords
    BY <2>2, <2>3 DEF DeployRecords
  <2>5. deploy'[s] # None
    BY <2>4, NoneAssumption
  <2>6. RecordMeans'
    BY <2>1, <2>2, <2>5 DEF Operator, MeansInv, RecordMeans, Deployed
  <2> QED
    BY <1>2, <1>3, <2>1, <2>6
<1>6. CASE StartUp
  <2>1. OrderInv'
    BY <1>6, NothingStarts DEF StartUp
  <2>2. DoneMeans' /\ RecordMeans' /\ RegistryRouted'
    BY <1>6 DEF StartUp, MeansInv, DoneMeans, RecordMeans, RegistryRouted, Deployed, Configured
  <2> QED
    BY <2>1, <2>2 DEF MeansInv
<1>7. ASSUME NEW r \in Resources, Start(r)
      PROVE  OrderInv' /\ MeansInv'
  BY <1>7, StartKeepsOrder, StartMeans
<1>8. ASSUME NEW r \in Resources, Finish(r)
      PROVE  OrderInv' /\ MeansInv'
  BY <1>8, FinishMeans
<1>9. ASSUME NEW r \in Resources, Fail(r)
      PROVE  OrderInv' /\ MeansInv'
  BY <1>9, FailMeans
<1>10. CASE EndUp
  BY <1>10, EndUpMeans
<1> QED
  BY <1>1, <1>4, <1>5, <1>6, <1>7, <1>8, <1>9, <1>10 DEF Next

(***************************************************************************)
(* Theorems.                                                               *)
(***************************************************************************)

(* The inductive invariant, with RegistryRouted, which needs it and which  *)
(* it needs.                                                               *)
LEMMA UpdateInvariant == Spec => [](GraphInv /\ RegistryRouted)
<1> DEFINE IInv == CoreInv /\ RestTypes /\ OrderInv /\ MeansInv
<1>1. Init => IInv
  BY InitCore, InitRest, InitMeans
<1>2. IInv /\ [Next]_vars => IInv'
  BY NextCore, NextRest, NextMeans
<1>3. IInv => GraphInv /\ RegistryRouted
  BY DEF CoreInv, RestTypes, OrderInv, MeansInv, GraphInv, TypeOK
<1> QED
  BY <1>1, <1>2, <1>3, PTL DEF Spec

(* Types are right, what runs is configured and in order, a Site of the    *)
(* registry has a deploy record, and what the update calls done and what   *)
(* the stack records is so on the host.                                    *)
THEOREM GraphInvHolds == Spec => []GraphInv
BY UpdateInvariant, PTL

(* The commands of two Sites never run together, although each waits for   *)
(* the last Site before its own only.                                      *)
THEOREM OneSiteAtATimeHolds == Spec => []OneSiteAtATime
<1>1. GraphInv => OneSiteAtATime
  <2> SUFFICES ASSUME GraphInv, NEW s \in Sites, NEW t \in Sites, s < t,
                      NEW c \in SiteCommands(s), status[c] = "running",
                      NEW d \in SiteCommands(t), status[d] = "running"
               PROVE  FALSE
    BY DEF OneSiteAtATime
  <2>1. c \in Resources /\ d \in Resources
    BY DEF Resources, ResourcesOf, SiteResources
  <2>2. c \in Planned /\ d \in Planned
    BY <2>1 DEF GraphInv, RunningPlanned
  <2>3. s \in Configured /\ t \in Configured
    BY <2>2, PlannedCases
       DEF SiteCommands, Preflight, Edge, Finalize, Dns, Reconcile, Release, Readiness
  <2>4. status[c] = "done"
    BY <2>3 DEF GraphInv, EarlierDone, SiteResources
  <2> QED
    BY <2>4
<1> QED
  BY <1>1, GraphInvHolds, PTL

(* A Site's commands run only on a host whose earlier Sites are deployed,  *)
(* in this update or, when Pulumi skipped them, before.                    *)
THEOREM InOrderHolds == Spec => []InOrder
<1>1. GraphInv => InOrder
  BY DEF GraphInv, EarlierDone, DoneMeans, InOrder, SiteResources, SiteCommands
<1> QED
  BY <1>1, GraphInvHolds, PTL

(* A registered Site has its DNS record, also between updates and after    *)
(* the deletions at the end of one.                                        *)
THEOREM RegistryRoutedHolds == Spec => []RegistryRouted
BY UpdateInvariant, PTL

(* An update that completes, with any of its resources skipped, leaves     *)
(* every configured Site on its image, registered and routed, unless it    *)
(* drifted since the stack's record.                                       *)
THEOREM UpDeliversHolds == Spec => []UpDelivers
<1>1. GraphInv => UpDelivers
  <2> SUFFICES ASSUME GraphInv, up, Complete
               PROVE  /\ registry = Configured
                      /\ Configured \subseteq dns
                      /\ \A s \in Configured :
                            Deployed(s) /\ (deploy[s].active = config[s] \/ s \in drifted)
    BY DEF UpDelivers
  <2>1. /\ Preflight \in Planned /\ Finalize \in Planned
        /\ \A s \in Configured : Dns(s) \in Planned /\ Release(s) \in Planned
    BY DEF Planned, ResourcesOf, HostResources, SiteResources, SiteCommands
  <2> QED
    BY <2>1 DEF GraphInv, Complete, DoneMeans
<1> QED
  BY <1>1, GraphInvHolds, PTL

(* No update drops a Site from the host registry, whatever was configured, *)
(* failed or skipped.                                                      *)
THEOREM RegistryKeptHolds == Spec => RegistryKept
<1>1. [Next]_vars => [registry \subseteq registry']_vars
  <2> SUFFICES ASSUME Next
               PROVE  registry \subseteq registry'
    OBVIOUS
  <2>1. CASE \E s \in Sites : RemoveSite(s) \/ Rollback(s) \/ \E i \in Images : Configure(s, i)
    BY <2>1 DEF RemoveSite, Rollback, Configure, Operator
  <2>2. CASE StartUp \/ EndUp
    BY <2>2 DEF StartUp, EndUp
  <2>3. ASSUME NEW r \in Resources, Start(r)
        PROVE  registry \subseteq registry'
    BY <2>3 DEF Start
  <2>4. ASSUME NEW r \in Resources, Finish(r)
        PROVE  registry \subseteq registry'
    BY <2>4, EffectKeepsRegistry DEF Finish
  <2>5. ASSUME NEW r \in Resources, Fail(r)
        PROVE  registry \subseteq registry'
    BY <2>5, EffectKeepsRegistry DEF Fail
  <2> QED
    BY <2>1, <2>2, <2>3, <2>4, <2>5 DEF Next
<1> QED
  BY <1>1, PTL DEF Spec, RegistryKept
=============================================================================
