----------------------------- MODULE SiteLayout -----------------------------
(***************************************************************************)
(* infra/layout.go: the identity of a Site, derived from its ID, and the   *)
(* exception for an adopted code2, which keeps the flat layout of the      *)
(* single-Site host it was.                                                *)
(*                                                                         *)
(* A derived name is a tuple of its parts: <<"sub2api", s>> for sub2api-s, *)
(* In(home, file) for home/file.  host-state.json is a record: its Sites,  *)
(* and how far the adoption of code2 got that it records, if any.          *)
(***************************************************************************)
Code2 == "code2"
Slots == {"blue", "green"}

In(home, file) == <<home, file>>

(***************************************************************************)
(* host-state.json.  Where there is none nothing is recorded.              *)
(***************************************************************************)
Handover == {"none", "pending", "complete"}
Registries(ids) == [sites : SUBSET ids, legacy : Handover]
NoRegistry == [sites |-> {}, legacy |-> "none"]

IsLegacy(registry, s) == s = Code2 /\ registry.legacy # "none"

(***************************************************************************)
(* Layouts.                                                                *)
(***************************************************************************)
NormalHome(s) == <<"runtime", "sites", s>>
FlatHome == <<"runtime">>
EdgeHome == <<"runtime", "edge">>

DataPath(home, slot) == In(home, <<"data", slot>>)
RoutePath(s) == In(EdgeHome, <<"dynamic", "site", s>>)
DeployStatePath(home) == In(home, <<"deploy-state.json">>)

FilesIn(home, s) ==
    {In(home, <<f>>) : f \in {"runtime.env", "app.env", "bootstrap.marker"}}
        \cup {DeployStatePath(home), RoutePath(s)}
        \cup {DataPath(home, slot) : slot \in Slots}

DeriveSiteLayout(s, prefix) ==
    [siteID  |-> s,
     project |-> <<"sub2api", s>>,
     home    |-> NormalHome(s),
     files   |-> FilesIn(NormalHome(s), s),
     aliases |-> {<<"sub2api", s, slot>> : slot \in Slots},
     prefix  |-> prefix]

LegacyLayout(prefix) ==
    [siteID  |-> Code2,
     project |-> <<"sub2api">>,
     home    |-> FlatHome,
     files   |-> FilesIn(FlatHome, Code2),
     aliases |-> {<<"sub2api", slot>> : slot \in Slots},
     prefix  |-> prefix]

(***************************************************************************)
(* ResolveHostLayouts.  prefixes are those of the configured Sites.        *)
(***************************************************************************)

(* Is the mapping usable, and has the adoption got far enough for an       *)
(* update?  Only a preview may be allowed before that.                     *)
LayoutsResolve(registry, sites, allowPendingPreview) ==
    /\ registry.legacy # "none" => Code2 \in registry.sites
    /\ registry.legacy = "pending" => sites = {Code2} /\ allowPendingPreview

(* Mutant: a completed adoption is forgotten.                              *)
SiteLayoutPending(registry, s, prefix) ==
    IF s = Code2 /\ registry.legacy = "pending" THEN LegacyLayout(prefix)
    ELSE DeriveSiteLayout(s, prefix)

SiteLayoutOf(registry, s, prefix) ==
    IF IsLegacy(registry, s) THEN LegacyLayout(prefix) ELSE DeriveSiteLayout(s, prefix)

ResolveHostLayouts(registry, prefixes) ==
    [s \in DOMAIN prefixes |-> SiteLayoutOf(registry, s, prefixes[s])]

(* Pulumi names code2's resources had before they belonged to a Site are   *)
(* aliases of the adopted Site's only.                                     *)
LegacyAliased(layout) ==
    layout.siteID = Code2 /\ layout.project = <<"sub2api">> /\ layout.home = FlatHome

(***************************************************************************)
(* The Edge's own names.                                                   *)
(***************************************************************************)
EdgeProject == <<"sub2api", "edge">>
EdgeFiles ==
    {In(EdgeHome, <<f>>) : f \in {"edge.env", "traefik.yml", "acme.json"}}
        \cup {In(EdgeHome, <<"dynamic", "00-sing-box">>)}

(***************************************************************************)
(* compose/site.yml (external to the program): a Site's services carry     *)
(* their own names on the Edge's network too, beside the alias.            *)
(***************************************************************************)
ServiceNames == {<<"sub2api", slot>> : slot \in Slots}
NetworkNames(layout) == layout.aliases \cup ServiceNames
=============================================================================
