-------------------------- MODULE HostConfig_proofs --------------------------
(***************************************************************************)
(* Proofs about HostConfig, for every set of configurations.  HostInv is   *)
(* inductive.  From it follow what a command may rely on when Pulumi       *)
(* skipped the preflight, that layouts lead to the recorded Sites, that    *)
(* code2 is installed once, that databases are private, that the projects  *)
(* commands recorded are no more than the Sites that have one, and that    *)
(* Sites share nothing.                                                    *)
(***************************************************************************)
EXTENDS HostConfig, FiniteSetTheorems, TLAPS

(***************************************************************************)
(* Homes and configurations.                                               *)
(***************************************************************************)

(* No two Sites have one home, and none the flat one.                      *)
LEMMA NormalHomes ==
    \A s, t : (NormalHome(s) = NormalHome(t) => s = t) /\ NormalHome(s) # FlatHome
BY DEF NormalHome, FlatHome

(* Where the preflight looks for a record tells Sites apart.               *)
LEMMA PreflightHomes ==
    \A s, t : /\ PreflightHome(s) = PreflightHome(t) => s = t
              /\ PreflightHome(s) = FlatHome <=> IsLegacy(registry, s)
              /\ ~IsLegacy(registry, s) => PreflightHome(s) = NormalHome(s)
BY NormalHomes DEF PreflightHome, IsLegacy

(* The Sites of an update are those of the model.                          *)
LEMMA SitesAreIDs == ASSUME TypeOK PROVE Sites \subseteq SiteIDs
BY DEF TypeOK, Sites, SiteIDs

LEMMA HomesTyped ==
    /\ FlatHome \in Homes /\ Code2 \in SiteIDs
    /\ \A s \in SiteIDs : NormalHome(s) \in Homes /\ PreflightHome(s) \in Homes
BY DEF Homes, SiteIDs, PreflightHome

(* Resolve keeps the Sites.                                                *)
LEMMA Resolved ==
    /\ DOMAIN Resolve(config).sites = Sites
    /\ \A s \in Sites : Site(s) = ResolveSite(s, config.sites[s])
BY DEF Resolve, Sites, Site

(* An accepted Site has data modes.                                        *)
LEMMA ModesTyped ==
    ASSUME Accepted(config), NEW s \in Sites
    PROVE  SiteModes(s) \in Modes /\ SiteModes(s) # None
<1>1. ValidSite(Site(s)) BY Resolved DEF Accepted, Sites
<1>2. Site(s).database.mode \in {"docker", "neon"} /\ Site(s).redis.mode \in {"docker", "upstash"}
  BY <1>1 DEF ValidSite
<1> QED BY <1>2, NoneAssumption DEF SiteModes, Modes

(* What the preflight's inputs keep.                                       *)
LEMMA InputsKept ==
    ASSUME NEW plan
    PROVE  /\ DOMAIN PreflightInputs(plan).sites = Sites
           /\ PreflightInputs(plan).layouts = plan
           /\ \A s \in Sites :
                 SiteModes(s) = <<PreflightInputs(plan).sites[s].database.mode,
                                  PreflightInputs(plan).sites[s].redis.mode>>
<1>1. PreflightInputs(plan).sites = [s \in Sites |-> DesiredSite(s)] /\ PreflightInputs(plan).layouts = plan
  BY DEF PreflightInputs
<1>2. ASSUME NEW s \in Sites
      PROVE  DesiredSite(s).database.mode = Site(s).database.mode /\ DesiredSite(s).redis.mode = Site(s).redis.mode
  BY Resolved DEF DesiredSite, ResolveSite
<1> QED BY <1>1, <1>2 DEF SiteModes

(* An update's layouts are those the registry gives, also to the preflight.*)
LEMMA LayoutsRead ==
    ASSUME UpdateInv, phase # "idle"
    PROVE  /\ DOMAIN layouts = Sites
           /\ \A s \in Sites : layouts[s] = SiteLayoutOf(registry, s, Prefixes[s])
           /\ \A s \in Sites : Home(s) = PreflightHome(s)
<1>1. /\ DOMAIN layouts = Sites
      /\ \A s \in Sites : layouts[s] = SiteLayoutOf(registry, s, Prefixes[s])
  BY DEF UpdateInv, ResolveHostLayouts, Prefixes
<1>2. ASSUME NEW s \in Sites PROVE layouts[s].home = PreflightHome(s)
  BY <1>1 DEF SiteLayoutOf, LegacyLayout, DeriveSiteLayout, PreflightHome
<1> QED BY <1>1, <1>2 DEF Home

(***************************************************************************)
(* What a step leaves alone.                                               *)
(***************************************************************************)
LEMMA SameConfig ==
    ASSUME config' = config
    PROVE  /\ Sites' = Sites /\ Prefixes' = Prefixes
           /\ \A s : Site(s)' = Site(s) /\ SiteModes(s)' = SiteModes(s) /\ ProjectName(s)' = ProjectName(s)
           /\ \A plan : PreflightInputs(plan)' = PreflightInputs(plan)
<1>1. Sites' = Sites BY DEF Sites
<1>2. \A s : Site(s)' = Site(s) BY DEF Site
<1>3. Prefixes' = Prefixes BY <1>1, <1>2 DEF Prefixes
<1>4. \A s : SiteModes(s)' = SiteModes(s) BY <1>2 DEF SiteModes
<1>5. \A s : ProjectName(s)' = ProjectName(s) BY <1>3 DEF ProjectName
<1>6. \A s : DesiredSite(s)' = DesiredSite(s) BY <1>2 DEF DesiredSite
<1>7. \A plan : PreflightInputs(plan)' = PreflightInputs(plan) BY <1>1, <1>6 DEF PreflightInputs
<1> QED BY <1>1, <1>2, <1>3, <1>4, <1>5, <1>7

LEMMA SameRegistry ==
    ASSUME registry' = registry
    PROVE  \A s : PreflightHome(s)' = PreflightHome(s) /\ (IsLegacy(registry, s)' <=> IsLegacy(registry, s))
BY DEF PreflightHome, IsLegacy

LEMMA SamePlan ==
    ASSUME layouts' = layouts
    PROVE  \A s : Home(s)' = Home(s) /\ (RunsNeonCommand(s)' <=> Creates(Site(s)'.database) /\ ~LegacyAliased(layouts[s]))
BY DEF Home, RunsNeonCommand

(* Between updates there is no update to speak of.                         *)
LEMMA IdleUpdate == ASSUME UpdateInv, Idle PROVE UpdateInv'
BY DEF UpdateInv, Idle

(***************************************************************************)
(* The invariant is inductive: one lemma for each action.                  *)
(***************************************************************************)
LEMMA InitHolds == Init => HostInv
<1> SUFFICES ASSUME Init PROVE HostInv OBVIOUS
<1>1. TypeOK
  BY BoundAssumption, NativesAssumption, HomesTyped
  DEF Init, TypeOK, Configs, Registries, NoRegistry, Handover
<1>2. RegistryInv
  BY NormalHomes, HomesTyped DEF Init, RegistryInv, NoRegistry
<1>3. CheckedInv BY DEF Init, CheckedInv
<1>4. UpdateInv BY DEF Init, UpdateInv
<1> QED BY <1>1, <1>2, <1>3, <1>4 DEF HostInv

LEMMA EditHolds == ASSUME HostInv, NEW c \in LaterConfigs, Edit(c) PROVE HostInv'
<1> USE DEF HostInv
<1>1. TypeOK' BY BoundAssumption DEF TypeOK, Edit, Idle, neon, Configs
<1>2. RegistryInv' BY SameRegistry DEF Edit, RegistryInv
<1>3. CheckedInv' BY SameRegistry DEF Edit, Idle, CheckedInv
<1>4. UpdateInv' BY IdleUpdate DEF Edit
<1> QED BY <1>1, <1>2, <1>3, <1>4

LEMMA PreparePreviewHolds == ASSUME HostInv, PreparePreview PROVE HostInv'
<1> USE DEF HostInv
<1>1. registry' = [sites |-> {Code2}, legacy |-> "pending"] /\ IsLegacy(registry, Code2)'
  BY DEF PreparePreview, IsLegacy
<1>2. PreflightHome(Code2)' = FlatHome BY <1>1 DEF PreflightHome
<1>3. TypeOK' BY <1>1, HomesTyped DEF TypeOK, PreparePreview, Adopt, Idle, neon, Registries, Handover
<1>4. RegistryInv' BY <1>1, <1>2 DEF PreparePreview, RegistryInv
<1>5. CheckedInv' BY <1>1 DEF PreparePreview, Adopt, Idle, CheckedInv
<1>6. UpdateInv' BY IdleUpdate DEF PreparePreview, Adopt
<1> QED BY <1>3, <1>4, <1>5, <1>6

LEMMA ApplyHolds == ASSUME HostInv, NEW modes \in Modes, Apply(modes) PROVE HostInv'
<1> USE DEF HostInv
<1>1. registry' = [sites |-> {Code2}, legacy |-> "complete"] /\ IsLegacy(registry, Code2)'
  BY DEF Apply, IsLegacy
<1>2. PreflightHome(Code2)' = FlatHome BY <1>1 DEF PreflightHome
<1>3. /\ records[FlatHome] # None /\ records'[FlatHome] = modes
      /\ records'[NormalHome(Code2)] = records[NormalHome(Code2)]
  BY NoneAssumption, NormalHomes, HomesTyped DEF Apply, TypeOK
<1>4. TypeOK' BY <1>1, HomesTyped DEF TypeOK, Apply, Adopt, Idle, neon, Registries, Handover
<1>5. RegistryInv' BY <1>1, <1>2, <1>3, NoneAssumption DEF RegistryInv
<1>6. CheckedInv' BY <1>1, <1>3 DEF Apply, Adopt, Idle, CheckedInv
<1>7. UpdateInv' BY IdleUpdate DEF Apply, Adopt
<1> QED BY <1>4, <1>5, <1>6, <1>7

LEMMA RollbackHolds == ASSUME HostInv, Rollback PROVE HostInv'
<1> USE DEF HostInv
<1>1. registry' = NoRegistry BY DEF Rollback
<1>2. records[FlatHome] # None
  BY DEF Rollback, MappingComplete, RegistryInv
<1>3. /\ records'[FlatHome] # None
      /\ records'[NormalHome(Code2)] = records[NormalHome(Code2)]
  BY <1>2, NoneAssumption, NormalHomes, HomesTyped DEF Rollback, TypeOK
<1>4. TypeOK' BY <1>1, HomesTyped DEF TypeOK, Rollback, Adopt, Idle, neon, Registries, Handover, NoRegistry
<1>5. RegistryInv' BY <1>1, <1>2, <1>3 DEF RegistryInv, NoRegistry
<1>6. CheckedInv' BY <1>1, <1>2, <1>3 DEF Rollback, Adopt, Idle, CheckedInv, NoRegistry
<1>7. UpdateInv' BY IdleUpdate DEF Rollback, Adopt
<1> QED BY <1>4, <1>5, <1>6, <1>7

LEMMA RetireJournalHolds == ASSUME HostInv, RetireJournal PROVE HostInv'
<1> USE DEF HostInv
<1>1. TypeOK' BY DEF TypeOK, RetireJournal, Adopt, Idle, neon
<1>2. RegistryInv' BY SameRegistry DEF RetireJournal, RegistryInv
<1>3. CheckedInv' BY SameRegistry DEF RetireJournal, Adopt, Idle, CheckedInv
<1>4. UpdateInv' BY IdleUpdate DEF RetireJournal, Adopt
<1> QED BY <1>1, <1>2, <1>3, <1>4

LEMMA RegisterHolds == ASSUME HostInv, Register PROVE HostInv'
<1> USE DEF HostInv
<1>0. config' = config /\ registry' = registry /\ records' = records /\ checked' = checked
  BY DEF Register, hostVars, neon
<1>1. TypeOK' BY DEF TypeOK, Register, hostVars, neon
<1>2. RegistryInv' BY <1>0, SameRegistry DEF RegistryInv
<1>3. CheckedInv' BY <1>0, SameRegistry DEF CheckedInv
<1>4. UpdateInv'
  <2>1. provided' = {} /\ deployed' = {} /\ posted' = {}
    BY DEF Register, UpdateInv
  <2>2. registry.legacy # "pending" BY DEF Register, LayoutsResolve
  <2>3. layouts' = ResolveHostLayouts(registry', Prefixes') /\ Accepted(config')
    BY <1>0, SameConfig DEF Register
  <2>4. phase' = "sites" => PreflightInputs(layouts)' \in checked'
    BY <1>0 DEF Register, PreflightInputs, DesiredSite, Site, Sites
  <2> QED BY <1>0, <2>1, <2>2, <2>3, <2>4 DEF UpdateInv
<1> QED BY <1>1, <1>2, <1>3, <1>4

LEMMA RunPreflightHolds == ASSUME HostInv, RunPreflight PROVE HostInv'
<1> USE DEF HostInv
<1>0. /\ config' = config /\ registry' = registry /\ records' = records /\ layouts' = layouts
      /\ phase # "idle"
  BY DEF RunPreflight, hostVars, neon
<1>1. TypeOK' BY DEF TypeOK, RunPreflight, hostVars, neon
<1>2. RegistryInv' BY <1>0, SameRegistry DEF RegistryInv
<1>3. CheckedInv'
  <2> DEFINE inputs == PreflightInputs(layouts)
  <2> HIDE DEF inputs
  <2>1. /\ DOMAIN inputs.sites = Sites /\ inputs.layouts = layouts
        /\ \A s \in Sites : SiteModes(s) = <<inputs.sites[s].database.mode, inputs.sites[s].redis.mode>>
    BY InputsKept DEF inputs
  <2>2. registry.sites \subseteq Sites BY DEF RunPreflight, CheckHostPreflight
  <2>3. records[FlatHome] # None => Code2 \in Sites /\ inputs.layouts[Code2].home = FlatHome
    <3> SUFFICES ASSUME records[FlatHome] # None
                 PROVE  Code2 \in Sites /\ layouts[Code2].home = FlatHome
      BY <2>1
    <3>1. registry.legacy # "none" BY DEF RunPreflight, CheckHostPreflight, RegistryInv
    <3>2. Code2 \in Sites /\ IsLegacy(registry, Code2) BY <3>1, <2>2 DEF RegistryInv, IsLegacy
    <3> QED BY <1>0, <3>2, LayoutsRead, PreflightHomes DEF Home
  <2>4. \A s \in registry.sites : ~IsLegacy(registry, s) =>
           records[NormalHome(s)] = <<inputs.sites[s].database.mode, inputs.sites[s].redis.mode>>
    BY <2>1, <2>2, PreflightHomes DEF RunPreflight, CheckSiteModes
  <2>5. checked' = {inputs} BY DEF RunPreflight, inputs
  <2> QED BY <1>0, <2>1, <2>2, <2>3, <2>4, <2>5, SameRegistry DEF CheckedInv
<1>4. UpdateInv'
  <2>1. provided' = {} /\ deployed' = {} /\ posted' = {}
    BY DEF RunPreflight, UpdateInv
  <2>2. PreflightInputs(layouts)' \in checked'
    BY <1>0 DEF RunPreflight, PreflightInputs, DesiredSite, Site, Sites
  <2>3. layouts' = ResolveHostLayouts(registry', Prefixes') /\ Accepted(config') /\ registry'.legacy # "pending"
    BY <1>0, SameConfig DEF UpdateInv
  <2> QED BY <2>1, <2>2, <2>3 DEF UpdateInv
<1> QED BY <1>1, <1>2, <1>3, <1>4

(* A project that a database's command may make is one of the model's.     *)
LEMMA ProjectNamed ==
    ASSUME TypeOK, NEW s \in Sites
    PROVE  ProjectName(s) \in ProjectNames /\ ProjectName(s) # None
<1>1. ProjectName(s) = ManagedNeonProjectName(ResolveSite(s, config.sites[s]).resourcePrefix)
  BY Resolved DEF ProjectName, Prefixes
<1>2. ProjectName(s) \in ProjectNames BY <1>1 DEF ProjectNames, TypeOK, Sites
<1> QED BY <1>2, NoneAssumption

(* What a search by name may find.                                         *)
LEMMA NamedTyped == \A name : Named(name) \subseteq {name, Inherited, Remade}
BY DEF Named

(* A step of a database within an update, which leaves the rest alone.     *)
LEMMA DatabaseStep ==
    ASSUME HostInv, UNCHANGED <<config, registry, records, layouts, checked, phase, deployed>>,
           TypeOK', phase = "sites", provided \subseteq provided', provided' \subseteq Sites,
           \A t \in provided' : RunsNeonCommand(t) => bound'[t] \in {ProjectName(t), Inherited, Remade}
    PROVE  HostInv'
<1> USE DEF HostInv
<1>1. RegistryInv' BY SameRegistry DEF RegistryInv
<1>2. CheckedInv' BY SameRegistry DEF CheckedInv
<1>3. UpdateInv'
  <2>1. \A t \in provided' : RunsNeonCommand(t)' => bound'[t] \in {ProjectName(t)', Inherited, Remade}
    BY SameConfig DEF RunsNeonCommand
  <2>2. PreflightInputs(layouts)' \in checked'
    BY DEF UpdateInv, PreflightInputs, DesiredSite, Site, Sites
  <2>3. layouts' = ResolveHostLayouts(registry', Prefixes') /\ Accepted(config') /\ registry'.legacy # "pending"
    BY SameConfig DEF UpdateInv
  <2>4. \A t \in deployed' : records'[Home(t)'] = SiteModes(t)'
    BY SameConfig, SamePlan DEF UpdateInv
  <2>5. provided' \subseteq Sites' /\ deployed' \subseteq provided' /\ phase' = "sites"
    BY SameConfig DEF UpdateInv
  <2> QED BY <2>1, <2>2, <2>3, <2>4, <2>5 DEF UpdateInv
<1> QED BY <1>1, <1>2, <1>3

LEMMA CreateProjectHolds == ASSUME HostInv, NEW s \in SiteIDs, CreateProject(s) PROVE HostInv'
<1> USE DEF HostInv
<1>1. ProjectName(s) \in ProjectNames BY ProjectNamed DEF CreateProject
<1>2. TypeOK' BY <1>1 DEF TypeOK, CreateProject
<1> QED BY <1>2, DatabaseStep DEF CreateProject, UpdateInv

LEMMA ProvideDatabaseHolds == ASSUME HostInv, NEW s \in SiteIDs, ProvideDatabase(s) PROVE HostInv'
<1> USE DEF HostInv
<1>0. s \in Sites /\ phase = "sites" /\ provided' = provided \cup {s} BY DEF ProvideDatabase
<1>1. ProjectName(s) \in ProjectNames BY <1>0, ProjectNamed
<1> DEFINE Bound == \A t \in provided' :
                       RunsNeonCommand(t) => bound'[t] \in {ProjectName(t), Inherited, Remade}
           Typed == /\ bound' \in [SiteIDs -> ProjectNames \cup {Inherited, Remade, None}]
                    /\ posted' \subseteq posted /\ projects' = projects /\ cutShort' = cutShort
                    /\ natives' \in [{Inherited, Remade} -> ProjectNames \cup {None}]
                    /\ held' \in {Inherited, Remade, None}
<1>2. ASSUME RunsNeonCommand(s), BindProject(s) PROVE Bound /\ Typed
  <2>1. PICK p \in Named(ProjectName(s)) : bound' = [bound EXCEPT ![s] = p]
    BY <1>2 DEF BindProject
  <2>2. p \in {ProjectName(s), Inherited, Remade} BY NamedTyped
  <2>3. Typed BY <1>1, <1>2, <2>1, <2>2 DEF TypeOK, BindProject
  <2>4. Bound BY <1>0, <2>1, <2>2 DEF TypeOK, UpdateInv
  <2> QED BY <2>3, <2>4
<1>3. ASSUME RegistersProject(s), RegisterProject(s) PROVE Bound /\ Typed
  <2>1. held' \in {Inherited, Remade} /\ natives' = [natives EXCEPT ![held'] = ProjectName(s)]
    BY <1>3, NativesAssumption DEF TypeOK, RegisterProject
  <2>2. Typed BY <1>1, <1>3, <2>1 DEF TypeOK, RegisterProject
  <2>3. Bound BY <1>0, <1>3 DEF RegisterProject, RegistersProject, RunsNeonCommand, UpdateInv
  <2> QED BY <2>2, <2>3
<1>4. ASSUME ~Creates(Site(s).database), UNCHANGED <<neon, posted>> PROVE Bound /\ Typed
  BY <1>0, <1>4 DEF neon, TypeOK, RunsNeonCommand, UpdateInv
<1>5. Bound /\ Typed BY <1>2, <1>3, <1>4 DEF ProvideDatabase
<1>6. TypeOK' BY <1>0, <1>5 DEF ProvideDatabase, TypeOK
<1> HIDE DEF Typed
<1> QED BY <1>0, <1>5, <1>6, DatabaseStep DEF ProvideDatabase, UpdateInv

LEMMA DeploySiteHolds == ASSUME HostInv, NEW s \in SiteIDs, DeploySite(s) PROVE HostInv'
<1> USE DEF HostInv
<1>0. /\ config' = config /\ registry' = registry /\ layouts' = layouts /\ checked' = checked
      /\ phase' = phase /\ bound' = bound /\ provided' = provided /\ posted' = posted /\ phase = "sites"
      /\ s \in provided /\ deployed' = deployed \cup {s}
      /\ records' = [records EXCEPT ![Home(s)] = SiteModes(s)]
  BY DEF DeploySite, neon
<1>1. s \in Sites /\ Accepted(config) BY <1>0 DEF UpdateInv
<1>2. SiteModes(s) \in Modes /\ SiteModes(s) # None BY <1>1, ModesTyped
<1>3. \A t \in Sites : Home(t) = PreflightHome(t) BY <1>0, LayoutsRead
<1>4. Home(s) \in Homes BY <1>1, <1>3, HomesTyped
<1>5. \A h \in Homes : records'[h] = IF h = Home(s) THEN SiteModes(s) ELSE records[h]
  BY <1>0 DEF TypeOK
<1>6. registry.sites \subseteq Sites /\ registry.sites \subseteq SiteIDs
  BY SitesAreIDs DEF DeploySite, CheckHostPreflight
<1>7. records'[FlatHome] # None => records[FlatHome] # None
  <2>1. CASE Home(s) = FlatHome
    BY <2>1, <1>1, <1>3, PreflightHomes DEF RegistryInv, IsLegacy
  <2>2. CASE Home(s) # FlatHome BY <2>2, <1>5, HomesTyped
  <2> QED BY <2>1, <2>2
<1>8. TypeOK' BY <1>0, <1>1, <1>2 DEF TypeOK, DeploySite, neon
<1>9. RegistryInv'
  <2>1. registry.legacy # "none" => Code2 \in registry.sites /\ records'[FlatHome] # None
    BY <1>2, <1>5, HomesTyped DEF RegistryInv
  <2>2. \A t \in registry.sites : records'[PreflightHome(t)] # None
    BY <1>2, <1>5, <1>6, HomesTyped DEF RegistryInv
  <2>3. records'[FlatHome] # None => records'[NormalHome(Code2)] = None
    <3> SUFFICES ASSUME records'[FlatHome] # None PROVE Home(s) # NormalHome(Code2)
      BY <1>5, <1>7, HomesTyped DEF RegistryInv
    <3>1. registry.legacy # "none" BY <1>7 DEF DeploySite, CheckHostPreflight, RegistryInv
    <3>2. IsLegacy(registry, Code2) BY <3>1 DEF IsLegacy
    <3>3. s = Code2 => Home(s) = FlatHome BY <3>2, <1>1, <1>3, PreflightHomes
    <3>4. s # Code2 => Home(s) = NormalHome(s)
      BY <1>1, <1>3, PreflightHomes DEF IsLegacy
    <3> QED BY <3>3, <3>4, NormalHomes
  <2>4. records'[FlatHome] # None => registry = NoRegistry \/ registry.legacy # "none"
    BY <1>7 DEF RegistryInv
  <2> QED BY <1>0, <2>1, <2>2, <2>3, <2>4, SameRegistry DEF RegistryInv
<1>10. CheckedInv'
  <2> SUFFICES ASSUME NEW inputs \in checked, NEW t \in registry.sites, ~IsLegacy(registry, t),
                      records[NormalHome(t)]
                        = <<inputs.sites[t].database.mode, inputs.sites[t].redis.mode>>
               PROVE  records'[NormalHome(t)]
                        = <<inputs.sites[t].database.mode, inputs.sites[t].redis.mode>>
    BY <1>0, <1>7, SameRegistry DEF CheckedInv
  <2>1. NormalHome(t) \in Homes BY <1>6, HomesTyped
  <2>2. CASE NormalHome(t) # Home(s) BY <2>1, <2>2, <1>5
  <2>3. CASE NormalHome(t) = Home(s)
    <3>1. Home(t) = Home(s) /\ t \in Sites BY <2>3, <1>3, <1>6, PreflightHomes
    <3>2. t = s BY <3>1, <1>1, <1>3, PreflightHomes
    <3>3. records[NormalHome(t)] # None BY <1>6, PreflightHomes DEF RegistryInv
    <3>4. records[NormalHome(t)] = SiteModes(s) BY <3>2, <3>3, <2>3 DEF DeploySite
    <3> QED BY <3>4, <2>1, <2>3, <1>5
  <2> QED BY <2>2, <2>3
<1>11. UpdateInv'
  <2>1. \A t \in deployed' : records'[Home(t)] = SiteModes(t)
    <3> SUFFICES ASSUME NEW t \in deployed' PROVE records'[Home(t)] = SiteModes(t)
      OBVIOUS
    <3>1. t \in Sites BY <1>0, <1>1 DEF UpdateInv
    <3>2. Home(t) \in Homes BY <3>1, <1>3, SitesAreIDs, HomesTyped
    <3>3. Home(t) = Home(s) => t = s BY <3>1, <1>1, <1>3, PreflightHomes
    <3> QED BY <1>0, <1>5, <3>2, <3>3 DEF UpdateInv
  <2>2. \A t \in deployed' : records'[Home(t)'] = SiteModes(t)'
    BY <1>0, <2>1, SameConfig, SamePlan
  <2>3. PreflightInputs(layouts)' \in checked'
    BY <1>0 DEF UpdateInv, PreflightInputs, DesiredSite, Site, Sites
  <2>4. layouts' = ResolveHostLayouts(registry', Prefixes') /\ Accepted(config') /\ registry'.legacy # "pending"
    BY <1>0, SameConfig DEF UpdateInv
  <2>5. \A t \in provided' : RunsNeonCommand(t)' => bound'[t] \in {ProjectName(t)', Inherited, Remade}
    BY <1>0, SameConfig DEF UpdateInv, RunsNeonCommand
  <2>6. provided' \subseteq Sites' /\ deployed' \subseteq provided' /\ phase' = "sites"
    BY <1>0, SameConfig DEF UpdateInv
  <2> QED BY <2>2, <2>3, <2>4, <2>5, <2>6 DEF UpdateInv
<1> QED BY <1>8, <1>9, <1>10, <1>11

LEMMA FinalizeHolds == ASSUME HostInv, Finalize PROVE HostInv'
<1> USE DEF HostInv
<1>0. /\ config' = config /\ records' = records /\ checked' = checked /\ phase = "sites"
      /\ registry' = [sites |-> Sites, legacy |-> registry.legacy] /\ deployed = Sites
  BY DEF Finalize, EndUpdate
<1>1. \A t : PreflightHome(t)' = PreflightHome(t) /\ (IsLegacy(registry, t)' <=> IsLegacy(registry, t))
  BY <1>0 DEF PreflightHome, IsLegacy
<1>2. registry.sites \subseteq Sites /\ (registry = NoRegistry => records[FlatHome] = None)
  BY DEF Finalize, CheckHostPreflight
<1>3. \A t \in Sites : Home(t) = PreflightHome(t) BY <1>0, LayoutsRead
<1>4. registry.legacy # "pending" BY <1>0 DEF UpdateInv
<1>5. TypeOK' BY <1>0, SitesAreIDs DEF TypeOK, Finalize, EndUpdate, DeleteUnregistered, Registries
<1>6. RegistryInv'
  <2>1. \A t \in Sites : records[PreflightHome(t)] # None BY <1>3 DEF Finalize
  <2> QED BY <1>0, <1>1, <1>2, <1>4, <2>1 DEF RegistryInv, NoRegistry
<1>7. CheckedInv'
  <2> SUFFICES ASSUME NEW inputs \in checked
               PROVE  /\ Sites \subseteq DOMAIN inputs.sites
                      /\ \A t \in Sites : ~IsLegacy(registry, t) =>
                            records[NormalHome(t)]
                              = <<inputs.sites[t].database.mode, inputs.sites[t].redis.mode>>
    BY <1>0, <1>1 DEF CheckedInv
  <2>1. inputs = PreflightInputs(layouts) BY <1>0 DEF UpdateInv, CheckedInv
  <2>2. /\ DOMAIN inputs.sites = Sites
        /\ \A t \in Sites : SiteModes(t) = <<inputs.sites[t].database.mode, inputs.sites[t].redis.mode>>
    BY <2>1, InputsKept
  <2>3. \A t \in Sites : ~IsLegacy(registry, t) => records[NormalHome(t)] = SiteModes(t)
    BY <1>0, <1>3, PreflightHomes DEF UpdateInv
  <2> QED BY <2>2, <2>3
<1>8. UpdateInv' BY DEF Finalize, EndUpdate, UpdateInv
<1> QED BY <1>5, <1>6, <1>7, <1>8

LEMMA FailHolds == ASSUME HostInv, Fail PROVE HostInv'
<1> USE DEF HostInv
<1>1. TypeOK' BY DEF TypeOK, Fail, EndUpdate
<1>2. RegistryInv' BY SameRegistry DEF Fail, EndUpdate, RegistryInv
<1>3. CheckedInv' BY SameRegistry DEF Fail, EndUpdate, CheckedInv
<1>4. UpdateInv' BY DEF Fail, EndUpdate, UpdateInv
<1> QED BY <1>1, <1>2, <1>3, <1>4

(* Every state of the host is well formed and its parts agree.             *)
THEOREM HostHolds == Spec => []HostInv
<1>1. HostInv /\ [Next]_vars => HostInv'
  <2> SUFFICES ASSUME HostInv, [Next]_vars PROVE HostInv' OBVIOUS
  <2>1. CASE UNCHANGED vars
    <3>1. UNCHANGED <<config, registry, records, journal, bound, projects, cutShort, natives, held>>
          /\ UNCHANGED <<checked, phase, layouts, posted, provided, deployed, edits>>
      BY <2>1 DEF vars, neon
    <3>2. TypeOK' BY <3>1 DEF HostInv, TypeOK
    <3>3. RegistryInv' BY <3>1, SameRegistry DEF HostInv, RegistryInv
    <3>4. CheckedInv' BY <3>1, SameRegistry DEF HostInv, CheckedInv
    <3>5. UpdateInv'
      BY <3>1, SameConfig, SamePlan
      DEF HostInv, UpdateInv, PreflightInputs, DesiredSite, Site, Sites, RunsNeonCommand
    <3> QED BY <3>2, <3>3, <3>4, <3>5 DEF HostInv
  <2>2. CASE \E c \in LaterConfigs : Edit(c) BY <2>2, EditHolds
  <2>3. CASE PreparePreview BY <2>3, PreparePreviewHolds
  <2>4. CASE Rollback BY <2>4, RollbackHolds
  <2>5. CASE RetireJournal BY <2>5, RetireJournalHolds
  <2>6. CASE \E modes \in Modes : Apply(modes) BY <2>6, ApplyHolds
  <2>7. CASE Register BY <2>7, RegisterHolds
  <2>8. CASE RunPreflight BY <2>8, RunPreflightHolds
  <2>9. CASE \E s \in SiteIDs : CreateProject(s) \/ ProvideDatabase(s)
    BY <2>9, CreateProjectHolds, ProvideDatabaseHolds
  <2>10. CASE \E s \in SiteIDs : DeploySite(s) BY <2>10, DeploySiteHolds
  <2>11. CASE Finalize BY <2>11, FinalizeHolds
  <2>12. CASE Fail BY <2>12, FailHolds
  <2> QED BY <2>1, <2>2, <2>3, <2>4, <2>5, <2>6, <2>7, <2>8, <2>9, <2>10, <2>11, <2>12 DEF Next
<1> QED BY InitHolds, <1>1, PTL DEF Spec

(***************************************************************************)
(* What follows.                                                           *)
(***************************************************************************)

(* A skipped preflight would have succeeded.                               *)
THEOREM SkipSoundHolds == Spec => []SkipSound
<1>1. HostInv => SkipSound
  <2> SUFFICES ASSUME HostInv, phase = "sites" PROVE CheckHostPreflight /\ CheckSiteModes
    BY DEF SkipSound
  <2> USE DEF HostInv
  <2> DEFINE inputs == PreflightInputs(layouts)
  <2>1. inputs \in checked BY DEF UpdateInv
  <2>2. /\ DOMAIN inputs.sites = Sites /\ inputs.layouts = layouts
        /\ \A s \in Sites : SiteModes(s) = <<inputs.sites[s].database.mode, inputs.sites[s].redis.mode>>
    BY InputsKept
  <2> HIDE DEF inputs
  <2>3. registry.sites \subseteq Sites BY <2>1, <2>2 DEF CheckedInv
  <2>4. ASSUME registry = NoRegistry PROVE records[FlatHome] = None
    <3>1. \A s : ~IsLegacy(registry, s) BY <2>4 DEF IsLegacy, NoRegistry
    <3>2. Code2 \in Sites => Home(Code2) # FlatHome BY <3>1, LayoutsRead, PreflightHomes
    <3> QED BY <2>1, <2>2, <3>2 DEF CheckedInv, Home
  <2>5. CheckHostPreflight BY <2>3, <2>4 DEF CheckHostPreflight, RegistryInv, UpdateInv
  <2>6. CheckSiteModes BY <2>1, <2>2, <2>3, PreflightHomes DEF CheckSiteModes, CheckedInv
  <2> QED BY <2>5, <2>6
<1> QED BY HostHolds, <1>1, PTL

(* The layouts of an update lead to the record of each registered Site.    *)
THEOREM SitesFoundHolds == Spec => []SitesFound
<1>1. HostInv /\ SkipSound => SitesFound
  BY LayoutsRead DEF HostInv, SkipSound, SitesFound, RegistryInv, CheckHostPreflight
<1> QED BY HostHolds, SkipSoundHolds, <1>1, PTL

(* code2 is installed once.                                                *)
THEOREM OneHomeHolds == Spec => []OneHome
<1>1. HostInv => OneHome BY DEF HostInv, RegistryInv, OneHome
<1> QED BY HostHolds, <1>1, PTL

(* Two Sites of an accepted configuration differ in domain and prefix.     *)
LEMMA SitesDistinct ==
    ASSUME Accepted(config), NEW s \in Sites, NEW t \in Sites, s # t
    PROVE  Site(s).domain # Site(t).domain /\ Prefixes[s] # Prefixes[t]
BY Resolved DEF Accepted, Distinct, Sites, Prefixes

(* Two Sites with databases of commands have two, unless both have an      *)
(* adopted code2's.                                                        *)
THEOREM PrivateDatabasesHolds == Spec => []PrivateDatabases
<1>1. HostInv => PrivateDatabases
  <2> SUFFICES ASSUME HostInv, phase = "sites", NEW s \in provided, NEW t \in provided, s # t,
                      RunsNeonCommand(s), RunsNeonCommand(t), bound[s] \notin {Inherited, Remade}
               PROVE  bound[s] # bound[t]
    BY DEF PrivateDatabases
  <2>1. bound[s] = ProjectName(s) /\ bound[t] \in {ProjectName(t), Inherited, Remade}
    BY DEF HostInv, UpdateInv
  <2>2. ProjectName(s) # ProjectName(t)
    BY SitesDistinct DEF HostInv, UpdateInv, ProjectName, ManagedNeonProjectName
  <2> QED BY <2>1, <2>2
<1> QED BY HostHolds, <1>1, PTL

(***************************************************************************)
(* Projects are counted against the Sites that have one.  A command makes  *)
(* one only for a Site without, and as long as it has not recorded it,     *)
(* that Site stays without.                                                *)
(***************************************************************************)
Recorded == projects \ (cutShort \cup posted)

ProjectsInv ==
    /\ IsFiniteSet(projects) /\ IsFiniteSet(Owners)
    /\ Cardinality(Recorded) <= Cardinality(Owners)
    /\ \A s \in Sites : ProjectName(s) \in posted => bound[s] = None

(* Projects of the single-Site host's kind are an adopted code2's, which   *)
(* gets none from a command.                                               *)
NativesInv ==
    /\ (\E n \in {Inherited, Remade} : natives[n] # None) => records[FlatHome] # None
    /\ records[FlatHome] # None => bound[Code2] = None

(* A new project is not recorded, and its Site has no other.               *)
LEMMA CreateCounted ==
    ASSUME HostInv, ProjectsInv, NEW s \in SiteIDs, CreateProject(s)
    PROVE  ProjectsInv'
<1> DEFINE name == ProjectName(s)
<1>1. /\ s \in Sites /\ bound[s] = None /\ bound' = bound /\ cutShort' = cutShort /\ config' = config
      /\ projects' = projects \cup {name} /\ posted' = posted \cup {name} /\ phase = "sites"
  BY DEF CreateProject, FindsOrCreates
<1>2. name \notin projects BY DEF CreateProject, Named
<1>3. IsFiniteSet(projects') BY <1>1, FS_AddElement DEF ProjectsInv
<1>4. Recorded' = Recorded BY <1>1, <1>2 DEF Recorded
<1>5. Owners' = Owners BY <1>1 DEF Owners
<1>6. \A t \in Sites : ProjectName(t) \in posted' => bound[t] = None
  <2>1. \A t \in Sites : ProjectName(t) = name => t = s
    BY <1>1, SitesDistinct DEF HostInv, UpdateInv, ProjectName, ManagedNeonProjectName
  <2> QED BY <1>1, <2>1 DEF ProjectsInv
<1> QED BY <1>1, <1>3, <1>4, <1>5, <1>6, SameConfig DEF ProjectsInv

(* One that gets recorded counts with its Site.                            *)
LEMMA BindCounted ==
    ASSUME HostInv, ProjectsInv, NEW s \in Sites, phase = "sites", config' = config, BindProject(s)
    PROVE  ProjectsInv'
<1> DEFINE name == ProjectName(s)
<1>1. PICK p \in Named(name) : bound' = [bound EXCEPT ![s] = p] BY DEF BindProject
<1>2. posted' = posted \ {name} /\ projects' = projects /\ cutShort' = cutShort BY DEF BindProject
<1>3. p # None
  BY NamedTyped, ProjectNamed, NativesAssumption DEF HostInv
<1>4. bound'[s] = p /\ (\A t \in SiteIDs \ {s} : bound'[t] = bound[t]) /\ s \in SiteIDs
  BY <1>1, SitesAreIDs DEF HostInv, TypeOK
<1>5. Owners' = Owners \cup {s} BY <1>3, <1>4 DEF Owners
<1>6. /\ IsFiniteSet(Owners')
      /\ Cardinality(Owners') = IF s \in Owners THEN Cardinality(Owners) ELSE Cardinality(Owners) + 1
  BY <1>5, FS_AddElement DEF ProjectsInv
<1>7. IsFiniteSet(Recorded) BY FS_Subset DEF ProjectsInv, Recorded
<1>8. Cardinality(Recorded) \in Nat /\ Cardinality(Owners) \in Nat /\ Cardinality(Recorded') \in Nat
  <2>1. IsFiniteSet(Recorded') BY <1>2, FS_Subset DEF ProjectsInv, Recorded
  <2> QED BY <1>7, <2>1, FS_CardinalityType DEF ProjectsInv
<1>9. Cardinality(Recorded') <= Cardinality(Owners')
  <2>1. CASE name \notin posted
    <3>1. Recorded' = Recorded BY <1>2, <2>1 DEF Recorded
    <3> QED BY <3>1, <1>6, <1>8 DEF ProjectsInv
  <2>2. CASE name \in posted
    <3>1. s \notin Owners BY <2>2 DEF ProjectsInv, Owners
    <3>2. Recorded' \subseteq Recorded \cup {name} BY <1>2 DEF Recorded
    <3>3. /\ IsFiniteSet(Recorded \cup {name})
          /\ Cardinality(Recorded \cup {name}) <= Cardinality(Recorded) + 1
      <4> HIDE DEF name
      <4>1. /\ IsFiniteSet(Recorded \cup {name})
            /\ Cardinality(Recorded \cup {name})
                 = IF name \in Recorded THEN Cardinality(Recorded) ELSE Cardinality(Recorded) + 1
        BY <1>7, FS_AddElement
      <4> QED BY <4>1, <1>8
    <3>4. Cardinality(Recorded') <= Cardinality(Recorded \cup {name})
      <4> HIDE DEF name
      <4> QED BY <3>2, <3>3, FS_Subset
    <3>5. Cardinality(Recorded \cup {name}) \in Nat
      <4> HIDE DEF name
      <4> QED BY <3>3, FS_CardinalityType
    <3> QED
      <4> HIDE DEF name
      <4> QED BY <3>1, <3>3, <3>4, <3>5, <1>6, <1>8 DEF ProjectsInv
  <2> QED BY <2>1, <2>2
<1>10. \A t \in Sites : ProjectName(t) \in posted' => bound'[t] = None
  BY <1>2, <1>4, SitesAreIDs DEF ProjectsInv, HostInv
<1> QED BY <1>2, <1>6, <1>9, <1>10, SameConfig DEF ProjectsInv

(* The other steps of an update and those between updates change neither   *)
(* count.                                                                  *)
LEMMA OthersCounted ==
    ASSUME HostInv, ProjectsInv, UNCHANGED <<bound, projects>>,
           cutShort' \cup posted' = cutShort \cup posted,
           posted' = {} \/ (posted' = posted /\ config' = config)
    PROVE  ProjectsInv'
<1>1. Recorded' = Recorded /\ Owners' = Owners BY DEF Recorded, Owners
<1>2. \A s \in Sites' : ProjectName(s)' \in posted' => bound'[s] = None BY SameConfig DEF ProjectsInv
<1> QED BY <1>1, <1>2 DEF ProjectsInv

(* A Site whose project Pulumi registers is code2 of an adopted host.      *)
LEMMA RegisteredIsAdopted ==
    ASSUME HostInv, phase = "sites", NEW s \in Sites
    PROVE  /\ RegistersProject(s) => records[FlatHome] # None
           /\ RunsNeonCommand(s) /\ s = Code2 => ~IsLegacy(registry, Code2)
<1>1. layouts[s] = SiteLayoutOf(registry, s, Prefixes[s]) BY LayoutsRead DEF HostInv
<1>2. RegistersProject(s) => IsLegacy(registry, s)
  BY <1>1 DEF RegistersProject, LegacyAliased, SiteLayoutOf, DeriveSiteLayout, NormalHome, FlatHome
<1>3. RunsNeonCommand(s) /\ s = Code2 => ~IsLegacy(registry, Code2)
  BY <1>1 DEF RunsNeonCommand, LegacyAliased, SiteLayoutOf, LegacyLayout
<1> QED BY <1>2, <1>3 DEF HostInv, RegistryInv, IsLegacy

(* A host keeps its single-Site record, and none appears later.            *)
LEMMA FlatRecordStays ==
    ASSUME HostInv, HostInv', Next
    PROVE  records'[FlatHome] # None <=> records[FlatHome] # None
<1> USE DEF HostInv
<1>1. CASE UNCHANGED records BY <1>1
<1>2. ASSUME NEW modes \in Modes, Apply(modes) PROVE records'[FlatHome] # None /\ records[FlatHome] # None
  BY <1>2, NoneAssumption, HomesTyped DEF Apply, TypeOK
<1>3. CASE Rollback
  BY <1>3, NoneAssumption, HomesTyped DEF Rollback, MappingComplete, RegistryInv, TypeOK
<1>4. ASSUME NEW s \in SiteIDs, DeploySite(s)
      PROVE  records'[FlatHome] # None <=> records[FlatHome] # None
  <2>1. s \in Sites /\ Home(s) = PreflightHome(s) /\ Accepted(config)
    BY <1>4, LayoutsRead DEF DeploySite, UpdateInv
  <2>2. CASE Home(s) = FlatHome
    <3>1. records[FlatHome] # None BY <2>1, <2>2, PreflightHomes DEF RegistryInv, IsLegacy
    <3>2. records'[FlatHome] = SiteModes(s) BY <1>4, <2>2, HomesTyped DEF DeploySite, TypeOK
    <3> QED BY <2>1, <3>1, <3>2, ModesTyped
  <2>3. CASE Home(s) # FlatHome BY <1>4, <2>3, HomesTyped DEF DeploySite, TypeOK
  <2> QED BY <2>2, <2>3
<1> QED BY <1>1, <1>2, <1>3, <1>4
    DEF Next, Edit, Adopt, PreparePreview, RetireJournal, Register, RunPreflight, CreateProject,
        ProvideDatabase, Finalize, Fail, EndUpdate, hostVars, neon

LEMMA NativesKept ==
    ASSUME HostInv, HostInv', SkipSound, NativesInv, Next
    PROVE  NativesInv'
<1>0. records'[FlatHome] # None <=> records[FlatHome] # None BY FlatRecordStays
<1>1. CASE UNCHANGED <<bound, natives>> BY <1>0, <1>1 DEF NativesInv
<1>2. CASE DeleteUnregistered /\ bound' = bound
  <2>1. \A n \in {Inherited, Remade} : natives'[n] # None => natives[n] # None
    BY <1>2 DEF DeleteUnregistered, HostInv, TypeOK
  <2> QED BY <1>0, <1>2, <2>1 DEF NativesInv
<1>3. ASSUME NEW s \in SiteIDs, ProvideDatabase(s) PROVE NativesInv'
  <2>0. phase = "sites" /\ s \in Sites BY <1>3 DEF ProvideDatabase
  <2>1. CASE RunsNeonCommand(s) /\ BindProject(s)
    <3>1. natives' = natives /\ \A t \in SiteIDs \ {s} : bound'[t] = bound[t]
      BY <2>1 DEF BindProject, HostInv, TypeOK
    <3>2. s = Code2 => records[FlatHome] = None
      BY <2>0, <2>1, RegisteredIsAdopted DEF SkipSound, CheckHostPreflight, HostInv, RegistryInv, IsLegacy
    <3> QED BY <1>0, <3>1, <3>2, HomesTyped DEF NativesInv
  <2>2. CASE RegistersProject(s) /\ RegisterProject(s)
    BY <1>0, <2>0, <2>2, RegisteredIsAdopted DEF RegisterProject, NativesInv
  <2>3. CASE UNCHANGED neon BY <1>1, <2>3 DEF neon
  <2> QED BY <1>3, <2>1, <2>2, <2>3 DEF ProvideDatabase
<1> QED BY <1>1, <1>2, <1>3
    DEF Next, Edit, Idle, Adopt, PreparePreview, Apply, Rollback, RetireJournal, Register, RunPreflight,
        CreateProject, DeploySite, Finalize, Fail, EndUpdate, hostVars, neon

(* No edit and no adoption gives a Site that has a project another, new    *)
(* one: a project too many is one whose command was cut short before it    *)
(* could record it.                                                        *)
THEOREM OneProjectPerSiteHolds == Spec => []OneProjectPerSite
<1>1. Init => ProjectsInv /\ NativesInv
  <2> SUFFICES ASSUME Init PROVE ProjectsInv /\ NativesInv OBVIOUS
  <2>1. projects = {} /\ Owners = {} /\ Recorded = {} BY DEF Init, Owners, Recorded
  <2>2. ProjectsInv BY <2>1, FS_EmptySet DEF Init, ProjectsInv
  <2>3. NativesInv BY NoneAssumption, NativesAssumption, HomesTyped DEF Init, NativesInv, Modes
  <2> QED BY <2>2, <2>3
<1>2. HostInv /\ HostInv' /\ SkipSound /\ ProjectsInv /\ NativesInv /\ [Next]_vars => ProjectsInv' /\ NativesInv'
  <2> SUFFICES ASSUME HostInv, HostInv', SkipSound, ProjectsInv, NativesInv, [Next]_vars
               PROVE  ProjectsInv' /\ NativesInv'
    OBVIOUS
  <2>1. CASE UNCHANGED vars
    <3>1. UNCHANGED <<config, bound, projects, cutShort, natives, posted>> /\ records' = records
      BY <2>1 DEF vars, neon
    <3> QED BY <3>1, OthersCounted DEF NativesInv
  <2>2. ASSUME NEW s \in SiteIDs, CreateProject(s) PROVE ProjectsInv'
    BY <2>2, CreateCounted
  <2>3. ASSUME NEW s \in SiteIDs, ProvideDatabase(s) PROVE ProjectsInv'
    <3>1. s \in Sites /\ phase = "sites" /\ config' = config BY <2>3 DEF ProvideDatabase
    <3>2. CASE BindProject(s) BY <3>1, <3>2, BindCounted
    <3>3. CASE RegisterProject(s) BY <3>1, <3>3, OthersCounted DEF RegisterProject
    <3>4. CASE UNCHANGED <<neon, posted>> BY <3>1, <3>4, OthersCounted DEF neon
    <3> QED BY <2>3, <3>2, <3>3, <3>4 DEF ProvideDatabase
  <2>4. ASSUME EndUpdate PROVE ProjectsInv'
    <3>1. /\ bound' = bound /\ projects' = projects
          /\ posted' = {} /\ cutShort' \cup posted' = cutShort \cup posted
      BY <2>4 DEF EndUpdate
    <3> QED BY <3>1, OthersCounted
  <2>5. ASSUME UNCHANGED <<neon, posted>>, phase = "idle" \/ config' = config PROVE ProjectsInv'
    <3>1. /\ bound' = bound /\ projects' = projects /\ posted' = posted
          /\ cutShort' \cup posted' = cutShort \cup posted
      BY <2>5 DEF neon
    <3>2. phase = "idle" => posted = {} BY DEF HostInv, UpdateInv
    <3> QED BY <2>5, <3>1, <3>2, OthersCounted
  <2>6. Next => ProjectsInv'
    BY <2>2, <2>3, <2>4, <2>5
    DEF Next, Edit, Idle, Adopt, PreparePreview, Apply, Rollback, RetireJournal, Register, RunPreflight,
        DeploySite, Finalize, Fail, hostVars
  <2> QED BY <2>1, <2>6, NativesKept
<1>3. ProjectsInv /\ NativesInv => OneProjectPerSite
  BY DEF ProjectsInv, NativesInv, Recorded, OneProjectPerSite
<1> QED BY HostHolds, SkipSoundHolds, <1>1, <1>2, <1>3, PTL DEF Spec

(* An adoption takes no other Site off the registry.                       *)
THEOREM AdoptionLeavesSitesHolds == Spec => AdoptionLeavesSites
<1> DEFINE Leaves == \A s \in registry.sites \ registry'.sites :
                        s = Code2 /\ registry.legacy = "complete" /\ registry' = NoRegistry
<1>1. HostInv /\ [Next]_vars => [Leaves]_vars
  <2> SUFFICES ASSUME HostInv, Next PROVE Leaves OBVIOUS
  <2> USE DEF HostInv
  <2>1. CASE registry' = registry BY <2>1
  <2>2. CASE PreparePreview BY <2>2 DEF PreparePreview, NoRegistry
  <2>3. CASE Rollback BY <2>3 DEF Rollback, MappingComplete
  <2>4. CASE \E modes \in Modes : Apply(modes) BY <2>4 DEF Apply, NoRegistry, RegistryInv
  <2>5. CASE Finalize BY <2>5 DEF Finalize, CheckHostPreflight
  <2> QED BY <2>1, <2>2, <2>3, <2>4, <2>5
      DEF Next, Edit, RetireJournal, Register, RunPreflight, CreateProject, ProvideDatabase, DeploySite, Fail, hostVars, neon
<1> QED BY HostHolds, <1>1, PTL DEF Spec, AdoptionLeavesSites

(***************************************************************************)
(* Sites share nothing.                                                    *)
(***************************************************************************)

(* A file is in its Site's home or is its route.                           *)
LEMMA FilesAt ==
    ASSUME NEW home, NEW s, NEW file \in FilesIn(home, s)
    PROVE  file[1] = home \/ file = RoutePath(s)
BY DEF FilesIn, In, DeployStatePath, DataPath

LEMMA RoutesAt ==
    \A s : /\ RoutePath(s)[1] = EdgeHome
           /\ RoutePath(s) \notin EdgeFiles
           /\ \A t : RoutePath(s) = RoutePath(t) => s = t
<1>1. \A s : RoutePath(s) = <<EdgeHome, <<"dynamic", "site", s>>>> BY DEF RoutePath, In
<1>2. \A file \in EdgeFiles : Len(file[2]) # 3
  BY DEF EdgeFiles, In
<1>3. \A s : Len(RoutePath(s)[2]) = 3 BY <1>1
<1> QED BY <1>1, <1>2, <1>3

(* Homes are not the Edge's.                                               *)
LEMMA HomesApart == \A s : NormalHome(s) # EdgeHome /\ FlatHome # EdgeHome
BY DEF NormalHome, FlatHome, EdgeHome

(* Files of two Sites, and of a Site and the Edge, are apart when the      *)
(* homes are.                                                              *)
LEMMA FilesApart ==
    ASSUME NEW g, NEW s, g # EdgeHome
    PROVE  /\ FilesIn(g, s) \cap EdgeFiles = {}
           /\ \A h, t : h \notin {g, EdgeHome} /\ s # t => FilesIn(g, s) \cap FilesIn(h, t) = {}
<1>1. \A file \in FilesIn(g, s) : file[1] = g \/ file = RoutePath(s) BY FilesAt
<1>2. \A h, t : \A file \in FilesIn(h, t) : file[1] = h \/ file = RoutePath(t) BY FilesAt
<1>3. \A file \in EdgeFiles : file[1] = EdgeHome BY DEF EdgeFiles, In
<1> QED BY <1>1, <1>2, <1>3, RoutesAt

LEMMA LayoutFiles ==
    ASSUME NEW s, NEW p
    PROVE  /\ SiteLayoutOf(registry, s, p).files = FilesIn(PreflightHome(s), s)
           /\ SiteLayoutOf(registry, s, p).prefix = p
           /\ PreflightHome(s) # EdgeHome
<1>1. CASE IsLegacy(registry, s)
  <2>1. s = Code2 BY <1>1 DEF IsLegacy
  <2> QED BY <1>1, <2>1, HomesApart DEF SiteLayoutOf, LegacyLayout, PreflightHome
<1>2. CASE ~IsLegacy(registry, s)
  BY <1>2, HomesApart DEF SiteLayoutOf, DeriveSiteLayout, PreflightHome
<1> QED BY <1>1, <1>2

(* A Site's layout and the Edge have nothing in common but a directory.    *)
LEMMA EdgeApart ==
    ASSUME NEW s, NEW p, s # "edge"
    PROVE  /\ SiteLayoutOf(registry, s, p).project # EdgeProject
           /\ SiteLayoutOf(registry, s, p).files \cap EdgeFiles = {}
<1>1. SiteLayoutOf(registry, s, p).project # EdgeProject
  BY DEF SiteLayoutOf, LegacyLayout, DeriveSiteLayout, EdgeProject
<1> QED BY <1>1, LayoutFiles, FilesApart

(* Nor have the layouts of two Sites.                                      *)
LEMMA LayoutsApart ==
    ASSUME NEW s, NEW t, NEW p, NEW q, s # t
    PROVE  LET a == SiteLayoutOf(registry, s, p)
               b == SiteLayoutOf(registry, t, q)
           IN a.project # b.project /\ a.files \cap b.files = {} /\ a.aliases \cap b.aliases = {}
<1> DEFINE a == SiteLayoutOf(registry, s, p)
           b == SiteLayoutOf(registry, t, q)
<1>1. /\ a.files = FilesIn(PreflightHome(s), s) /\ b.files = FilesIn(PreflightHome(t), t)
      /\ PreflightHome(s) # EdgeHome /\ PreflightHome(t) # EdgeHome
  BY LayoutFiles
<1>2. PreflightHome(s) # PreflightHome(t) BY PreflightHomes
<1>3. a.files \cap b.files = {}
  <2> HIDE DEF a, b
  <2> QED BY <1>1, <1>2, FilesApart
<1>4. a.project # b.project
  BY DEF SiteLayoutOf, LegacyLayout, DeriveSiteLayout, IsLegacy
<1>5. a.aliases \cap b.aliases = {}
  BY DEF SiteLayoutOf, LegacyLayout, DeriveSiteLayout, IsLegacy
<1> QED BY <1>3, <1>4, <1>5

(* Sites share nothing with each other or the Edge.                        *)
THEOREM NothingSharedHolds == Spec => []NothingShared
<1>1. HostInv => NothingShared
  <2> SUFFICES ASSUME HostInv, phase # "idle" PROVE NothingShared BY DEF NothingShared
  <2>1. /\ Accepted(config)
        /\ \A s \in Sites : layouts[s] = SiteLayoutOf(registry, s, Prefixes[s])
    BY LayoutsRead DEF HostInv, UpdateInv
  <2>2. \A s \in Sites : s # "edge" BY <2>1 DEF Accepted, Sites, ValidSiteID
  <2>3. ASSUME NEW s \in Sites
        PROVE  /\ layouts[s].project # EdgeProject /\ layouts[s].files \cap EdgeFiles = {}
               /\ layouts[s].prefix = Prefixes[s]
    BY <2>1, <2>2, EdgeApart, LayoutFiles
  <2>4. ASSUME NEW s \in Sites, NEW t \in Sites, s # t
        PROVE  /\ Site(s).domain # Site(t).domain
               /\ layouts[s].prefix # layouts[t].prefix
               /\ layouts[s].project # layouts[t].project
               /\ layouts[s].files \cap layouts[t].files = {}
               /\ layouts[s].aliases \cap layouts[t].aliases = {}
    BY <2>1, <2>3, <2>4, LayoutsApart, SitesDistinct
  <2> QED BY <2>3, <2>4 DEF NothingShared
<1> QED BY HostHolds, <1>1, PTL

(* A name on the Edge's network leads to two Sites only if it is an alias  *)
(* of an adopted code2.                                                    *)
AmbiguousOnlyAdopted ==
    phase # "idle" =>
        \A s, t \in Sites :
            s # t /\ layouts[s].aliases \cap NetworkNames(layouts[t]) # {} => IsLegacy(registry, s)

(* Routes of derived layouts are unambiguous, although the Sites' services *)
(* carry their own names too: the aliases of no other Site than an adopted *)
(* code2 can be taken for another Site's.                                  *)
THEOREM AmbiguousOnlyAdoptedHolds == Spec => []AmbiguousOnlyAdopted
<1>1. HostInv => AmbiguousOnlyAdopted
  <2> SUFFICES ASSUME HostInv, phase # "idle", NEW s \in Sites, NEW t \in Sites, s # t,
                      ~IsLegacy(registry, s)
               PROVE  layouts[s].aliases \cap NetworkNames(layouts[t]) = {}
    BY DEF AmbiguousOnlyAdopted
  <2>1. \A r \in Sites : layouts[r] = SiteLayoutOf(registry, r, Prefixes[r])
    BY LayoutsRead DEF HostInv, UpdateInv
  <2>2. layouts[s].aliases \cap layouts[t].aliases = {}
    BY <2>1, LayoutsApart
  <2>3. layouts[s].aliases \cap ServiceNames = {}
    <3>1. layouts[s].aliases = {<<"sub2api", s, slot>> : slot \in Slots}
      <4>1. layouts[s] = DeriveSiteLayout(s, Prefixes[s])
        BY <2>1 DEF SiteLayoutOf
      <4> QED
        BY <4>1 DEF DeriveSiteLayout
    <3>2. \A a, b : <<"sub2api", s, a>> # <<"sub2api", b>>
      OBVIOUS
    <3> QED
      BY <3>1, <3>2 DEF ServiceNames
  <2> QED
    BY <2>2, <2>3 DEF NetworkNames
<1> QED BY HostHolds, <1>1, PTL

(***************************************************************************)
(* Variables of the application.                                           *)
(***************************************************************************)
LEMMA PrefixesReserved ==
    ASSUME NEW word \in ReservedPrefixes, NEW rests, NEW key \in Joined(word, rests)
    PROVE  Reserved(key)
<1>1. PICK rest \in rests : key = <<word, rest>> BY DEF Joined
<1>2. key[1] = word /\ key # <<word>> BY <1>1
<1> QED BY <1>2 DEF Reserved

LEMMA RuntimeReserved == \A key \in RuntimeVariables : Reserved(key)
<1> SUFFICES ASSUME NEW key \in RuntimeVariables PROVE Reserved(key) OBVIOUS
<1>1. CASE \E word \in {"DATABASE", "REDIS", "POSTGRES"} : \E rests : key \in Joined(word, rests)
  BY <1>1, PrefixesReserved DEF ReservedPrefixes
<1>2. CASE key \in Joined("ADMIN", {"EMAIL", "PASSWORD"})
  BY <1>2 DEF Joined, Reserved, UpstreamKeys
<1>3. CASE key \in {<<"SITE", "ID">>, <<"APP", "PROBE_PATH">>, <<"DRAIN", "SECONDS">>, <<"JWT", "SECRET">>,
                    <<"TOTP", "ENCRYPTION_KEY">>, <<"RUNTIME", "ROOT">>, <<"BLUE", "EDGE_ALIAS">>,
                    <<"GREEN", "EDGE_ALIAS">>, <<"ACTIVE", "EDGE_ALIAS">>, <<"AUTO", "SETUP">>, <<"DOMAIN">>}
  BY <1>3 DEF Joined, Single, Reserved, ReservedKeys, UpstreamKeys
<1> QED BY <1>1, <1>2, <1>3 DEF RuntimeVariables

LEMMA CommandsReserved == \A key \in CommandVariables : Reserved(key)
<1> SUFFICES ASSUME NEW key \in CommandVariables PROVE Reserved(key) OBVIOUS
<1>1. CASE \E rests : key \in Joined("SITE", rests)
  BY <1>1, PrefixesReserved DEF ReservedPrefixes
<1>2. CASE key \in Joined("BLUE", {"DATA_PATH", "EDGE_ALIAS"}) \cup Joined("GREEN", {"DATA_PATH", "EDGE_ALIAS"})
                      \cup Joined("APP", {"PROBE_PATH", "ENV_JSON", "ENV_CONFIGURED"})
  BY <1>2 DEF Joined, Reserved, ReservedKeys
<1>3. CASE key \in {<<"COMPOSE", "PROJECT_NAME">>, <<"POSTGRES", "MODE">>, <<"REDIS", "MODE">>,
                    <<"ADMIN", "EMAIL">>}
  BY <1>3 DEF Reserved, ReservedKeys, UpstreamKeys
<1>4. CASE key \in {<<"ACTIVE", "EDGE_ALIAS">>, <<"EDGE", "NETWORK_NAME">>, <<"DOMAIN">>,
                    <<"DRAIN", "SECONDS">>, <<"ORIGIN", "IP">>, <<"RUNTIME", "JSON">>,
                    <<"CONFIGURED", "SITE_IDS">>, <<"HOST", "STATE_PATH">>, <<"SUB2API", "IMAGE">>}
  BY <1>4 DEF Joined, Single, Reserved, ReservedKeys
<1> QED BY <1>1, <1>2, <1>3, <1>4 DEF CommandVariables

(* No variable added for the application is one the deployment sets.       *)
THEOREM AppEnvOwnsNothingHolds == Spec => []AppEnvOwnsNothing
<1>1. AppEnvOwnsNothing
  BY Resolved, RuntimeReserved, CommandsReserved
  DEF AppEnvOwnsNothing, Accepted, ValidSecrets, ValidAppEnv, Sites
<1> QED BY <1>1, PTL

(***************************************************************************)
(* An accepted configuration has what the resources are made of.           *)
(***************************************************************************)
LEMMA ComputeTyped ==
    ASSUME NEW database, ValidCompute(database)
    PROVE  database.minCU \in Nat /\ database.maxCU \in Nat /\ database.suspend \in Nat
BY DEF ValidCompute

LEMMA RegionGiven ==
    ASSUME NEW database, ResolveDatabase(database).mode = "neon"
    PROVE  ResolveDatabase(database).region # ""
<1> DEFINE mode == DefaultText(database.mode, "docker")
           region == DefaultText(database.region, "aws-us-east-1")
<1>1. ResolveDatabase(database).mode = mode
  BY DEF ResolveDatabase
<1>2. mode = "neon" BY <1>1
<1>3. ResolveDatabase(database).region = region
  BY <1>2 DEF ResolveDatabase
<1> QED BY <1>3 DEF DefaultText

(* No resource of an accepted configuration lacks an input.                *)
THEOREM InputsDefinedHolds == Spec => []InputsDefined
<1>1. TypeOK => InputsDefined
  <2> SUFFICES ASSUME TypeOK, Accepted(config), NEW s \in Sites
               PROVE  LET secrets == Resolve(config).secrets[s]
                          given == secrets.given
                          inputs == {DatabaseInputs(Site(s), secrets), RedisInputs(Site(s))}
                      IN /\ \A i \in inputs : i.password \in given \cup {"neon", "upstash"}
                         /\ ProviderSecrets(Site(s)) \subseteq given
                         /\ Site(s).drainSeconds \in Nat
                         /\ Creates(Site(s).database) => /\ NeonInputs(Site(s)).region # ""
                                                         /\ NeonInputs(Site(s)).settings \in Nat \X Nat \X Nat
    BY DEF InputsDefined
  <2> DEFINE secrets == config.secrets[s]
  <2>1. Resolve(config).secrets[s] = secrets BY DEF Resolve, Sites
  <2>2. ValidSite(Site(s)) /\ ValidSecrets(Site(s), secrets)
    BY Resolved DEF Accepted, Sites
  <2>3. config.sites[s] \in SiteSpecs
    BY ConfigAssumption DEF TypeOK, IsHostSpec, Sites
  <2>4. Site(s).drainSeconds \in Nat
    <3>1. Site(s).drainSeconds = DefaultNumber(config.sites[s].drainSeconds, 10)
      BY Resolved DEF ResolveSite
    <3>2. config.sites[s].drainSeconds \in Numbers BY <2>3 DEF SiteSpecs
    <3>3. Site(s).drainSeconds \in Int BY <3>1, <3>2 DEF DefaultNumber, Numbers
    <3>4. Site(s).drainSeconds >= 0 BY <2>2 DEF ValidSite
    <3> QED BY <3>3, <3>4
  <2>5. DatabaseInputs(Site(s), secrets).password \in secrets.given \cup {"neon"}
    <3> DEFINE database == Site(s).database
    <3>1. CASE database.mode = "docker"
      <4>1. DatabaseSecret(database) = "database.password" BY <3>1, SMT DEF DatabaseSecret
      <4>2. DatabaseInputs(Site(s), secrets).password = "database.password"
        BY <3>1, SMT DEF DatabaseInputs, Creates
      <4> QED BY <2>2, <4>1, <4>2, SMT DEF ValidSecrets
    <3>2. CASE Creates(database)
      BY <3>2, SMT DEF DatabaseInputs, Creates
    <3>3. CASE database.mode # "docker" /\ ~Creates(database)
      <4>1. DatabaseSecret(database) = "database.dsn" BY <3>3, SMT DEF DatabaseSecret, Creates
      <4>2. ValidDSN(secrets.dsn) /\ "database.dsn" \in secrets.given BY <2>2, <4>1, SMT DEF ValidSecrets
      <4>3. DatabaseInputs(Site(s), secrets).password = "database.dsn" BY <3>3, <4>2, SMT DEF DatabaseInputs
      <4> QED BY <4>2, <4>3
    <3> QED BY <3>1, <3>2, <3>3
  <2>6. RedisInputs(Site(s)).password \in secrets.given \cup {"upstash"}
    <3>1. RedisSecret(Site(s).redis) \in secrets.given BY <2>2, SMT DEF ValidSecrets
    <3>2. Site(s).redis.mode \in {"docker", "upstash"}
          /\ Site(s).redis.resourceMode \in {"existing", "create"}
          /\ (Site(s).redis.mode = "upstash" /\ Site(s).redis.resourceMode = "existing" =>
                 ValidEndpoint(Site(s).redis.endpoint))
      BY <2>2 DEF ValidSite
    <3>3. CASE Site(s).redis.mode = "docker"
      BY <3>1, <3>3, SMT DEF RedisSecret, RedisInputs
    <3>4. CASE Site(s).redis.mode = "upstash" /\ Site(s).redis.resourceMode = "create"
      BY <3>4, SMT DEF RedisInputs
    <3>5. CASE Site(s).redis.mode = "upstash" /\ Site(s).redis.resourceMode = "existing"
      BY <3>1, <3>2, <3>5, SMT DEF RedisSecret, RedisInputs
    <3> QED BY <3>2, <3>3, <3>4, <3>5
  <2>7. ProviderSecrets(Site(s)) \subseteq secrets.given
    <3>1. DatabaseSecret(Site(s).database) \in secrets.given /\ RedisSecret(Site(s).redis) \in secrets.given
      BY <2>2, SMT DEF ValidSecrets
    <3>2. Creates(Site(s).database) => DatabaseSecret(Site(s).database) = "database.apiToken"
      BY SMT DEF DatabaseSecret, Creates
    <3> QED BY <3>1, <3>2, SMT DEF RedisSecret, ProviderSecrets
  <2>8. ASSUME Creates(Site(s).database)
        PROVE  /\ NeonInputs(Site(s)).region # ""
               /\ NeonInputs(Site(s)).settings \in Nat \X Nat \X Nat
    <3>1. Site(s).database = ResolveDatabase(config.sites[s].database)
      BY Resolved DEF ResolveSite
    <3>2. Site(s).database.region # "" /\ Site(s).database.mode = "neon"
      BY <2>8, <3>1, RegionGiven DEF Creates
    <3>3. /\ Site(s).database.minCU \in Nat /\ Site(s).database.maxCU \in Nat
          /\ Site(s).database.suspend \in Nat
      <4>1. ValidCompute(Site(s).database) BY <2>2, <3>2 DEF ValidSite
      <4> QED BY <4>1, ComputeTyped
    <3> QED BY <3>2, <3>3 DEF NeonInputs
  <2> QED BY <2>1, <2>4, <2>5, <2>6, <2>7, <2>8
<1> QED BY HostHolds, <1>1, PTL DEF HostInv
=============================================================================
