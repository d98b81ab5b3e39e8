----------------------------- MODULE HostConfig -----------------------------
(***************************************************************************)
(* A host over several configurations: what `pulumi up' reads when it      *)
(* registers its graph (the configuration and, for the layouts, the host   *)
(* registry), what host-preflight.ts reads when its command runs, and the  *)
(* effects that rely on both: databases created at Neon, Sites deployed,   *)
(* the registry finalized.  In between the configuration is edited, and    *)
(* code2 is adopted or its adoption rolled back.                           *)
(*                                                                         *)
(* Pulumi (external) skips the preflight when its inputs are those of its  *)
(* last success.  An update may fail at any point.  Which commands of a    *)
(* Site run, and in what order, is HostGraph's subject, a Site's deploy    *)
(* record SiteRelease's, the steps of an adoption Adoption's and those of  *)
(* the lock of a Neon command NeonProject's: here each is one step, but    *)
(* for the POST of a project and the file that records it.  Pulumi skips   *)
(* no Neon command here.  The adoption runs in a maintenance window, that  *)
(* is between updates.  A preview changes nothing and is left out.         *)
(***************************************************************************)
EXTENDS HostSpec, FiniteSets

CONSTANTS
    FirstConfigs,   \* configurations a stack starts with
    LaterConfigs,   \* and those it may be given later
    None, Bare,     \* no deploy record; one of a single-Site host, without data modes
    Inherited, Remade, \* the project of a single-Site host; one made for it once adopted
    InheritedNames, \* names the former may have
    MaxEdits        \* bound: edits of the configuration

Configs == FirstConfigs \cup LaterConfigs
SiteIDs == (UNION {DOMAIN c.sites : c \in Configs}) \cup {Code2}
Homes == {NormalHome(s) : s \in SiteIDs} \cup {FlatHome}
Modes == {"docker", "neon"} \X {"docker", "upstash"}
ProjectNames ==
    UNION {{ManagedNeonProjectName(ResolveSite(s, c.sites[s]).resourcePrefix) : s \in DOMAIN c.sites}
           : c \in Configs}

ASSUME ConfigAssumption == \A c \in Configs : IsHostSpec(c)
ASSUME NoneAssumption == None \notin Modes /\ Bare \notin Modes /\ None # Bare /\ None \notin ProjectNames
ASSUME NativesAssumption ==
    /\ Inherited # Remade /\ {Inherited, Remade} \cap (ProjectNames \cup {None}) = {}
    /\ InheritedNames \subseteq ProjectNames
ASSUME BoundAssumption == MaxEdits \in Nat

VARIABLES
    config,     \* of the stack
    registry,   \* host-state.json
    records,    \* the data modes in the deploy-state.json of each home, None or Bare
    journal,    \* of the adoption: the record its rollback restores, or None
    bound,      \* the project in each Site's neon-project.json, or None
    projects,   \* the projects at Neon that commands made, by the names they keep
    cutShort,   \* those of them whose command never got to record them
    natives,    \* the names of code2's projects in Pulumi's own state, None without one
    held,       \* which of them Pulumi registers for the adopted code2, or None
    checked,    \* the inputs of the preflight's last success: none or one
    phase,      \* of the update
    layouts,    \* of the update: its Sites' layouts, or None
    posted,     \* of the update: projects made and not recorded yet
    provided, deployed,   \* of the update: Sites whose database, whose release is done
    edits

neon == <<bound, projects, cutShort, natives, held>>
vars == <<config, registry, records, journal, neon, checked, phase, layouts,
          posted, provided, deployed, edits>>

hostVars == <<registry, records, journal, neon>>

Sites == DOMAIN config.sites
Site(s) == Resolve(config).sites[s]
SiteModes(s) == <<Site(s).database.mode, Site(s).redis.mode>>
Prefixes == [s \in Sites |-> Site(s).resourcePrefix]

TypeOK ==
    /\ config \in Configs
    /\ registry \in Registries(SiteIDs)
    /\ records \in [Homes -> Modes \cup {Bare, None}]
    /\ journal \in Modes \cup {Bare, None}
    /\ bound \in [SiteIDs -> ProjectNames \cup {Inherited, Remade, None}]
    /\ projects \subseteq ProjectNames /\ cutShort \subseteq projects /\ posted \subseteq projects
    /\ natives \in [{Inherited, Remade} -> ProjectNames \cup {None}]
    /\ held \in {Inherited, Remade, None}
    /\ phase \in {"idle", "preflight", "sites"}
    /\ provided \subseteq SiteIDs /\ deployed \subseteq SiteIDs
    /\ edits \in 0..MaxEdits

(* A new host, or one with the single-Site layout, which may have made a   *)
(* project for its database.                                               *)
Init ==
    /\ config \in FirstConfigs
    /\ registry = NoRegistry
    /\ \E r \in Modes \cup {Bare, None} :
          records = [h \in Homes |-> IF h = FlatHome THEN r ELSE None]
    /\ journal = None
    /\ bound = [s \in SiteIDs |-> None] /\ projects = {} /\ cutShort = {}
    /\ \E single \in InheritedNames \cup {None} :
          /\ single # None => records[FlatHome] \in {Bare} \cup ({"neon"} \X {"docker", "upstash"})
          /\ natives = [n \in {Inherited, Remade} |-> IF n = Inherited THEN single ELSE None]
    /\ held = None
    /\ checked = {}
    /\ phase = "idle" /\ layouts = None
    /\ posted = {} /\ provided = {} /\ deployed = {}
    /\ edits = 0

(***************************************************************************)
(* Between updates: the configuration and the adoption of code2.           *)
(***************************************************************************)
Idle == phase = "idle" /\ UNCHANGED <<neon, checked, phase, layouts, posted, provided, deployed>>

Edit(c) ==
    /\ Idle
    /\ edits < MaxEdits /\ edits' = edits + 1
    /\ config' = c
    /\ UNCHANGED <<registry, records, journal>>

Adopt == Idle /\ UNCHANGED <<config, edits>>

PreparePreview ==
    /\ Adopt
    /\ records[FlatHome] # None /\ registry = NoRegistry
    /\ registry' = [sites |-> {Code2}, legacy |-> "pending"]
    /\ UNCHANGED <<records, journal>>

(* A complete --apply, by an operator who gives the data modes.            *)
Apply(modes) ==
    /\ Adopt
    /\ records[FlatHome] \in {Bare, modes}
    /\ registry = NoRegistry \/ registry.legacy = "pending"
    /\ registry' = [sites |-> {Code2}, legacy |-> "complete"]
    /\ records' = [records EXCEPT ![FlatHome] = modes]
    /\ journal' = records[FlatHome]

MappingComplete == registry = [sites |-> {Code2}, legacy |-> "complete"]

(* Mutant: --rollback does not look at the Sites of the mapping.           *)
RollbackAnySites ==
    /\ Adopt
    /\ journal # None /\ registry.legacy = "complete"
    /\ registry' = NoRegistry
    /\ records' = [records EXCEPT ![FlatHome] = IF journal = Bare THEN Bare ELSE @]
    /\ UNCHANGED journal

Rollback ==
    /\ Adopt
    /\ journal # None /\ MappingComplete
    /\ registry' = NoRegistry
    /\ records' = [records EXCEPT ![FlatHome] = IF journal = Bare THEN Bare ELSE @]
    /\ UNCHANGED journal

RetireJournal ==
    /\ Adopt
    /\ journal # None /\ MappingComplete
    /\ journal' = None
    /\ UNCHANGED <<registry, records>>

(***************************************************************************)
(* The host preflight.                                                     *)
(***************************************************************************)
PreflightHome(s) == IF IsLegacy(registry, s) THEN FlatHome ELSE NormalHome(s)

(* Mutant: a single-Site host is not recognised.                           *)
CheckHostPreflightLax ==
    /\ registry.sites \subseteq Sites
    /\ \A s \in registry.sites : records[PreflightHome(s)] # None
    /\ registry.legacy # "pending"

(* checkHostPreflight, as the commands of Sites and finalize-host-state.sh *)
(* repeat it: without the data modes.                                      *)
CheckHostPreflight ==
    /\ registry.sites \subseteq Sites
    /\ \A s \in registry.sites : records[PreflightHome(s)] # None
    /\ registry.legacy # "pending"
    /\ registry = NoRegistry => records[FlatHome] = None

(* The data modes of registered Sites; an adopted code2's are its          *)
(* commands' to check.                                                     *)
CheckSiteModes ==
    \A s \in registry.sites :
        ~IsLegacy(registry, s) => records[PreflightHome(s)] = SiteModes(s)

(* What the digest keeps of a Site: neither its compute nor its region.    *)
DesiredSite(s) ==
    [Site(s) EXCEPT !.database = [mode |-> @.mode, resourceMode |-> @.resourceMode]]

(* Mutant: the digest leaves the layouts out.                              *)
PreflightInputsOfSites(plan) ==
    [edge |-> Resolve(config).edge, sites |-> [s \in Sites |-> DesiredSite(s)]]

(* The Site IDs and modes of its environment are part of hostDesiredState. *)
PreflightInputs(plan) ==
    [edge |-> Resolve(config).edge, sites |-> [s \in Sites |-> DesiredSite(s)], layouts |-> plan]

(***************************************************************************)
(* An update.                                                              *)
(***************************************************************************)
Register ==
    /\ phase = "idle"
    /\ Accepted(config)
    /\ LayoutsResolve(registry, Sites, FALSE)
    /\ layouts' = ResolveHostLayouts(registry, Prefixes)
    /\ phase' = IF PreflightInputs(layouts') \in checked THEN "sites" ELSE "preflight"
    /\ UNCHANGED <<hostVars, config, checked, posted, provided, deployed, edits>>

RunPreflight ==
    /\ phase = "preflight"
    /\ CheckHostPreflight /\ CheckSiteModes
    /\ checked' = {PreflightInputs(layouts)}
    /\ phase' = "sites"
    /\ UNCHANGED <<hostVars, config, layouts, posted, provided, deployed, edits>>

(* A created database is a command's, but an adopted code2's, which is a   *)
(* resource of Pulumi's Neon provider as on the single-Site host.          *)
RunsNeonCommand(s) == Creates(Site(s).database) /\ ~LegacyAliased(layouts[s])
RegistersProject(s) == Creates(Site(s).database) /\ LegacyAliased(layouts[s])

ProjectName(s) == ManagedNeonProjectName(Prefixes[s])

(* The projects a search by name finds.                                    *)
Named(name) ==
    (projects \cap {name}) \cup {n \in {Inherited, Remade} : name # None /\ natives[n] = name}

(* Mutant: a Site whose project has another name gets a new one.           *)
FindOrCreateAlways(s) == TRUE

(* Only a Site without a record of a project gets a new one.               *)
FindsOrCreates(s) == bound[s] = None

(* The command, up to the POST.                                            *)
CreateProject(s) ==
    /\ phase = "sites" /\ s \in Sites \ provided
    /\ RunsNeonCommand(s)
    /\ FindsOrCreates(s) /\ Named(ProjectName(s)) = {}
    /\ projects' = projects \cup {ProjectName(s)}
    /\ posted' = posted \cup {ProjectName(s)}
    /\ UNCHANGED <<registry, records, journal, bound, cutShort, natives, held, config, checked,
                   phase, layouts, provided, deployed, edits>>

(* And from the one project of its name, which it made or found, to the    *)
(* file that records it.  A recorded project that still has the name is    *)
(* not searched for.                                                       *)
BindProject(s) ==
    LET found == Named(ProjectName(s))
    IN /\ \E p \in found :
             /\ bound[s] = p \/ (bound[s] \notin found /\ found = {p})
             /\ bound' = [bound EXCEPT ![s] = p]
       /\ posted' = posted \ {ProjectName(s)}
       /\ UNCHANGED <<projects, cutShort, natives, held>>

(* Pulumi knows an adopted code2's project by the alias, if the prefix is  *)
(* still the one it was made for, and makes another one if not.  From then *)
(* on it gives the project the name of the prefix.                         *)
RegisterProject(s) ==
    /\ held' = IF held # None THEN held
               ELSE IF natives[Inherited] = ProjectName(s) THEN Inherited ELSE Remade
    /\ natives' = [natives EXCEPT ![held'] = ProjectName(s)]
    /\ UNCHANGED <<bound, projects, cutShort, posted>>

ProvideDatabase(s) ==
    /\ phase = "sites" /\ s \in Sites \ provided
    /\ \/ RunsNeonCommand(s) /\ BindProject(s)
       \/ RegistersProject(s) /\ RegisterProject(s)
       \/ ~Creates(Site(s).database) /\ UNCHANGED <<neon, posted>>
    /\ provided' = provided \cup {s}
    /\ UNCHANGED <<registry, records, journal, config, checked, phase, layouts, deployed, edits>>

Home(s) == layouts[s].home

(* Reconcile and release, which bootstraps a Site without a record.        *)
DeploySite(s) ==
    /\ phase = "sites" /\ s \in provided \ deployed
    /\ CheckHostPreflight
    /\ records[Home(s)] \in {None, SiteModes(s)}
    /\ records' = [records EXCEPT ![Home(s)] = SiteModes(s)]
    /\ deployed' = deployed \cup {s}
    /\ UNCHANGED <<registry, journal, neon, config, checked, phase, layouts, posted, provided, edits>>

EndUpdate ==
    /\ phase' = "idle" /\ layouts' = None
    /\ posted' = {} /\ provided' = {} /\ deployed' = {}
    /\ cutShort' = cutShort \cup posted
    /\ UNCHANGED <<records, journal, bound, projects, held, config, checked, edits>>

(* In the end Pulumi deletes what is no longer registered, and of the      *)
(* projects only the single-Site host's is not protected; unless a         *)
(* protected one is among them, or the deletion fails.                     *)
DeleteUnregistered ==
    \/ UNCHANGED natives
    \/ /\ held # Inherited
       /\ held = Remade => RegistersProject(Code2)
       /\ natives' = [natives EXCEPT ![Inherited] = None]

(* Mutant: write-host-state.cjs writes the Sites without the mapping.      *)
FinalizeWithoutMapping ==
    /\ phase = "sites" /\ deployed = Sites
    /\ CheckHostPreflight
    /\ \A s \in Sites : records[Home(s)] # None
    /\ registry' = [sites |-> Sites, legacy |-> "none"]
    /\ DeleteUnregistered /\ EndUpdate

(* finalize-host-state.sh and write-host-state.cjs, which keep the mapping.*)
Finalize ==
    /\ phase = "sites" /\ deployed = Sites
    /\ CheckHostPreflight
    /\ \A s \in Sites : records[Home(s)] # None
    /\ registry' = [sites |-> Sites, legacy |-> registry.legacy]
    /\ DeleteUnregistered /\ EndUpdate

Fail ==
    /\ phase # "idle"
    /\ EndUpdate
    /\ UNCHANGED <<registry, natives>>

Next ==
    \/ \E c \in LaterConfigs : Edit(c)
    \/ PreparePreview \/ Rollback \/ RetireJournal \/ \E modes \in Modes : Apply(modes)
    \/ Register \/ RunPreflight
    \/ \E s \in SiteIDs : CreateProject(s) \/ ProvideDatabase(s) \/ DeploySite(s)
    \/ Finalize \/ Fail

Spec == Init /\ [][Next]_vars

(***************************************************************************)
(* The invariant: how the registry, the records and the last preflight     *)
(* belong together, and an update's reading of them with what is there.    *)
(***************************************************************************)
RegistryInv ==
    /\ registry.legacy # "none" => Code2 \in registry.sites /\ records[FlatHome] # None
    /\ registry.legacy = "pending" => registry.sites = {Code2}
    /\ \A s \in registry.sites : records[PreflightHome(s)] # None
    /\ records[FlatHome] # None =>
           /\ records[NormalHome(Code2)] = None
           /\ registry = NoRegistry \/ registry.legacy # "none"

(* What the preflight's last success found is still so.                    *)
CheckedInv ==
    /\ \A inputs, others \in checked : inputs = others
    /\ \A inputs \in checked :
          /\ registry.sites \subseteq DOMAIN inputs.sites
          /\ records[FlatHome] # None =>
                 Code2 \in DOMAIN inputs.sites /\ inputs.layouts[Code2].home = FlatHome
          /\ \A s \in registry.sites : ~IsLegacy(registry, s) =>
                 records[NormalHome(s)] = <<inputs.sites[s].database.mode, inputs.sites[s].redis.mode>>

UpdateInv ==
    /\ provided \subseteq Sites /\ deployed \subseteq provided
    /\ phase # "sites" => provided = {} /\ posted = {}
    /\ phase # "idle" =>
           /\ Accepted(config)
           /\ registry.legacy # "pending"
           /\ layouts = ResolveHostLayouts(registry, Prefixes)
    /\ phase = "sites" =>
           /\ PreflightInputs(layouts) \in checked
           /\ \A s \in deployed : records[Home(s)] = SiteModes(s)
           /\ \A s \in provided : RunsNeonCommand(s) => bound[s] \in {ProjectName(s), Inherited, Remade}

(* Every state of the host is well formed, and its parts agree with each   *)
(* other: layout.go:54-101, host-preflight.ts:148-187,                     *)
(* finalize-host-state.sh and adopt-single-site-layout.sh.                 *)
HostInv == TypeOK /\ RegistryInv /\ CheckedInv /\ UpdateInv

(***************************************************************************)
(* Properties of the host.                                                 *)
(***************************************************************************)

(* Whenever a command that depends on the preflight may run, the host is   *)
(* as the preflight demands, also when Pulumi skipped it because its       *)
(* inputs are those of its last success: whatever was adopted, rolled back *)
(* or edited since.  test/host-preflight.test.ts:80 "checks recorded       *)
(* normal Site data modes before provider side effects".                   *)
SkipSound == phase = "sites" => CheckHostPreflight /\ CheckSiteModes

(* layout.go and host-preflight.ts read the mapping alike: the layouts of  *)
(* an update lead to the record of each registered Site.                   *)
SitesFound ==
    phase = "sites" => \A s \in registry.sites : records[Home(s)] # None

(* There is never a second installation of code2 beside the single-Site    *)
(* host's, through any adoption, rollback and update.                      *)
OneHome == records[FlatHome] = None \/ records[NormalHome(Code2)] = None

(* An adoption, rolled back or not, never takes another Site off the       *)
(* registry, and nothing but a rollback takes code2 off.                   *)
AdoptionLeavesSites ==
    [][\A s \in registry.sites \ registry'.sites :
           s = Code2 /\ registry.legacy = "complete" /\ registry' = NoRegistry]_vars

(* Of two Sites that an update's commands have provided with databases,    *)
(* each has one of its own, unless a command took a project of an adopted  *)
(* code2 for the one of its name.                                          *)
PrivateDatabases ==
    phase = "sites" =>
        \A s, t \in provided :
            s # t /\ RunsNeonCommand(s) /\ RunsNeonCommand(t) /\ bound[s] \notin {Inherited, Remade} =>
                bound[s] # bound[t]

Owners == {s \in SiteIDs : bound[s] # None}

(* No edit of a prefix or a data mode and no adoption gives a Site that    *)
(* has a project a new, empty one (create-neon-project.ts:122-123): of the *)
(* projects at Neon that commands made and got to record, there are never  *)
(* more than Sites that have one.  An adopted code2 has none of them       *)
(* beside its own (database.go:181-197).                                   *)
OneProjectPerSite ==
    /\ Cardinality(projects \ (cutShort \cup posted)) <= Cardinality(Owners)
    /\ (\E n \in {Inherited, Remade} : natives[n] # None) => bound[Code2] = None

(***************************************************************************)
(* Properties of the configuration.                                        *)
(***************************************************************************)

(* An accepted configuration has all that its Sites' resources are made    *)
(* of: no registration ends in an error or a panic (database.go:152,       *)
(* redis.go:24, nil compute or drain), and no command or provider gets a   *)
(* blank credential, region or size.                                       *)
InputsDefined ==
    Accepted(config) =>
        \A s \in Sites :
            LET secrets == Resolve(config).secrets[s]
                given == secrets.given
                inputs == {DatabaseInputs(Site(s), secrets), RedisInputs(Site(s))}
            IN /\ \A i \in inputs : i.password \in given \cup {"neon", "upstash"}
               /\ ProviderSecrets(Site(s)) \subseteq given
               /\ Site(s).drainSeconds \in Nat
               /\ Creates(Site(s).database) => /\ NeonInputs(Site(s)).region # ""
                                               /\ NeonInputs(Site(s)).settings \in Nat \X Nat \X Nat

(* Sites share nothing with each other or the Edge, however their names    *)
(* are written or defaulted, beside an adopted code2 too.                  *)
NothingShared ==
    phase # "idle" =>
        /\ \A s \in Sites : layouts[s].project # EdgeProject /\ layouts[s].files \cap EdgeFiles = {}
        /\ \A s, t \in Sites : s # t =>
              /\ Site(s).domain # Site(t).domain
              /\ layouts[s].prefix # layouts[t].prefix
              /\ layouts[s].project # layouts[t].project
              /\ layouts[s].files \cap layouts[t].files = {}
              /\ layouts[s].aliases \cap layouts[t].aliases = {}

(* No variable an accepted configuration adds for the application is one   *)
(* the deployment sets.                                                    *)
AppEnvOwnsNothing ==
    Accepted(config) =>
        \A s \in Sites : \A e \in config.secrets[s].appEnv :
            e.key \notin RuntimeVariables \cup CommandVariables

(***************************************************************************)
(* A claim that the layouts refute.                                        *)
(***************************************************************************)

(* compose/site.yml:7-8 "BLUE_EDGE_ALIAS and GREEN_EDGE_ALIAS must be the  *)
(* unique per-Site aliases on `sub2api-edge`": no other Site of the host   *)
(* answers to a Site's aliases there.                                      *)
UniqueAliases ==
    phase # "idle" =>
        \A s, t \in deployed : s # t => layouts[s].aliases \cap NetworkNames(layouts[t]) = {}
=============================================================================
