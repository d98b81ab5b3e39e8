------------------------------ MODULE HostSpec ------------------------------
(***************************************************************************)
(* The configuration of a host: what infra/spec.go accepts of the four     *)
(* configuration objects, the defaults it fills in, and the inputs that    *)
(* infra/database.go and redis.go make of an accepted configuration.       *)
(*                                                                         *)
(* Texts are told apart only as far as the code tells them apart.  The     *)
(* ones that must merely not be blank are kept as the set `given' of those *)
(* that are not.  "" is a blank text, Unset a number that is not there.    *)
(***************************************************************************)
EXTENDS Integers, Sequences, SiteLayout

CONSTANTS
    Unset,
    MalformedNames   \* names that do not match the code's patterns

ASSUME UnsetAssumption == Unset \notin Int

DefaultText(value, fallback) == IF value = "" THEN fallback ELSE value
DefaultNumber(value, fallback) == IF value = Unset THEN fallback ELSE value

WellFormedName(name) == name \notin MalformedNames

(***************************************************************************)
(* The types of the configuration.                                         *)
(***************************************************************************)
Numbers == Int \cup {Unset}

(* dotted: a.b; upper: not in lower case; label: no dot; ip6: an IPv6      *)
(* address; malformed: padded, too long, with a final dot or a bad label.  *)
Hostnames == [form : {"", "dotted", "upper", "label", "ip6", "malformed"}, name : STRING]

HostTexts == {"originIp", "cloudflareZoneId", "acmeEmail", "traefikImage", "cloudflareApiToken"}

EdgeSpecs == [serverName : Hostnames, target : [host : Hostnames, port : Numbers]]

Images == {"", "tagged", "digest", "newDigest"}
ProbePaths == {"", "/", "/health", "relative"}
Endpoints == {"", "host", "padded host", "url"}

SiteSpecs ==
    [domain : Hostnames, image : Images, adminEmail : STRING, appProbePath : ProbePaths,
     drainSeconds : Numbers, resourcePrefix : STRING,
     database : [mode : STRING, resourceMode : STRING, region : STRING,
                 minCU : Numbers, maxCU : Numbers, suspend : Numbers],
     redis : [mode : STRING, resourceMode : STRING, endpoint : Endpoints, region : STRING]]

SecretTexts ==
    {"adminPassword", "jwtSecret", "totpEncryptionKey", "database.apiToken", "database.dsn",
     "database.password", "redis.apiKey", "redis.password"}

DSNParts == {"host", "user", "password", "database"}
DSNs == [scheme : STRING, has : SUBSET DSNParts, sslmode : STRING, port : Numbers]

(* A key of appEnv is split at its first underscore; clean: its value has  *)
(* no NUL and no newline.                                                  *)
Keys == Seq(STRING) \ {<<>>}
Entries == [key : Keys, clean : BOOLEAN]

SiteSecrets == [given : SUBSET SecretTexts, dsn : DSNs, appEnv : SUBSET Entries]

(***************************************************************************)
(* Names and the sing-box target.                                          *)
(***************************************************************************)
ValidHostname(h, requireDot) ==
    h.form \in {"dotted", "upper"} \cup (IF requireDot THEN {} ELSE {"label"})

NormalizeHostname(h) == IF h.form = "upper" THEN [h EXCEPT !.form = "dotted"] ELSE h

ValidSingBoxTarget(target) ==
    /\ target.host.form = "ip6" \/ ValidHostname(target.host, FALSE)
    /\ target.port \in 1..65535

ValidEndpoint(endpoint) == endpoint \in {"host", "padded host"}

ValidPrefix(prefix) == WellFormedName(prefix)

(***************************************************************************)
(* One Site: its settings with the defaults, and what they must satisfy.   *)
(* Compute sizes are in quarters of a unit.                                *)
(***************************************************************************)
DefaultSuspend == 300
MaxSuspend == 604800   \* a week

ResolveDatabase(database) ==
    LET neon == DefaultText(database.mode, "docker") = "neon"
        Compute(value, fallback) == IF neon THEN DefaultNumber(value, fallback) ELSE Unset
    IN [mode         |-> DefaultText(database.mode, "docker"),
        resourceMode |-> DefaultText(database.resourceMode, "existing"),
        region       |-> IF neon THEN DefaultText(database.region, "aws-us-east-1") ELSE "",
        minCU        |-> Compute(database.minCU, 1),
        maxCU        |-> Compute(database.maxCU, 1),
        suspend      |-> Compute(database.suspend, DefaultSuspend)]

ResolveRedis(redis) ==
    [mode         |-> DefaultText(redis.mode, "docker"),
     resourceMode |-> DefaultText(redis.resourceMode, "existing"),
     endpoint     |-> IF redis.endpoint = "padded host" THEN "host" ELSE redis.endpoint,
     region       |-> DefaultText(redis.region, "us-east-1")]

ResolveSite(s, site) ==
    [domain         |-> NormalizeHostname(site.domain),
     image          |-> site.image,
     adminEmail     |-> site.adminEmail,
     appProbePath   |-> site.appProbePath,
     drainSeconds   |-> DefaultNumber(site.drainSeconds, 10),
     resourcePrefix |-> DefaultText(site.resourcePrefix, s),
     database       |-> ResolveDatabase(site.database),
     redis          |-> ResolveRedis(site.redis)]

ValidCompute(database) ==
    /\ database.minCU \in 1..64
    /\ database.maxCU \in database.minCU..64
    /\ database.suspend \in 60..MaxSuspend

(* validateSiteSpec, of a Site with its defaults.                          *)
ValidSite(site) ==
    /\ ValidHostname(site.domain, TRUE)
    /\ site.image \in {"digest", "newDigest"}
    /\ site.adminEmail # ""
    /\ site.appProbePath = "/"
    /\ site.database.mode \in {"docker", "neon"} /\ site.redis.mode \in {"docker", "upstash"}
    /\ site.database.resourceMode \in {"existing", "create"}
    /\ site.redis.resourceMode \in {"existing", "create"}
    /\ site.database.mode = "neon" => ValidCompute(site.database)
    /\ site.redis.mode = "upstash" /\ site.redis.resourceMode = "existing" =>
           ValidEndpoint(site.redis.endpoint)
    /\ ValidPrefix(site.resourcePrefix)
    /\ site.drainSeconds >= 0

(***************************************************************************)
(* Variables a Site's environment may add for the application.             *)
(***************************************************************************)
Joined(word, rests) == {<<word, rest>> : rest \in rests}
Single(words) == {<<w>> : w \in words}

ReservedKeys ==
    Joined("SITE", {"ID", "RUNTIME_ROOT", "RUNTIME_ENV_PATH", "APP_ENV_PATH", "DEPLOY_STATE_PATH",
                    "BOOTSTRAP_MARKER_PATH", "ROUTE_PATH"})
    \cup Joined("RUNTIME", {"ROOT", "JSON"}) \cup Joined("APP", {"PROBE_PATH", "ENV_CONFIGURED", "ENV_JSON"})
    \cup Joined("BLUE", {"DATA_PATH", "EDGE_ALIAS"}) \cup Joined("GREEN", {"DATA_PATH", "EDGE_ALIAS"})
    \cup Joined("ACTIVE", {"EDGE_ALIAS", "SLOT"}) \cup Joined("EDGE", {"NETWORK_NAME", "RUNTIME_ROOT"})
    \cup Joined("SLOT", {"DATA_DIR"}) \cup Joined("CLOUDFLARE", {"DNS_API_TOKEN", "API_TOKEN"})
    \cup Joined("SING", {"BOX_SERVER_NAME", "BOX_TARGET", "BOX_CONFIG"})
    \cup Joined("PROBE", {"RETRIES", "DELAY_SECONDS"})
    \cup {<<"COMPOSE", "PROJECT_NAME">>, <<"ORIGIN", "IP">>, <<"DRAIN", "SECONDS">>,
          <<"CONFIGURED", "SITE_IDS">>, <<"HOST", "STATE_PATH">>, <<"SUB2API", "IMAGE">>,
          <<"AUTO", "SETUP">>, <<"TRAEFIK", "IMAGE">>, <<"ACME", "EMAIL">>,
          <<"POSTGRES", "MODE">>, <<"REDIS", "MODE">>}
    \cup Single({"DOMAIN", "SLOT"})

ReservedPrefixes == {"DATABASE", "POSTGRES", "REDIS", "SITE", "COMPOSE"}

(* Of the application's own variables, those the deployment sets, and one  *)
(* for all the others.                                                     *)
UpstreamKeys ==
    {<<"ADMIN", "EMAIL">>, <<"ADMIN", "PASSWORD">>, <<"JWT", "SECRET">>,
     <<"TOTP", "ENCRYPTION_KEY">>, <<"TZ">>}

(* Mutant: the application's own variables are not reserved.               *)
ReservedForDeployment(key) ==
    key \in ReservedKeys \/ (key[1] \in ReservedPrefixes /\ key # <<key[1]>>)

Reserved(key) ==
    \/ key \in ReservedKeys \cup UpstreamKeys
    \/ key[1] \in ReservedPrefixes /\ key # <<key[1]>>

ValidAppEnv(entries) ==
    \A e \in entries : WellFormedName(e.key[1]) /\ e.clean /\ ~Reserved(e.key)

(***************************************************************************)
(* Secrets.                                                                *)
(***************************************************************************)

(* ParsePostgresDSN: the password may be empty, an absent port is 5432.    *)
ValidDSN(dsn) ==
    /\ dsn.scheme \in {"postgres", "postgresql"}
    /\ dsn.has = DSNParts
    /\ dsn.sslmode \in {"", "require"}

(* Mutant: a database that is created is asked for the secret of one that  *)
(* exists.                                                                 *)
DatabaseSecretOfMode(database) ==
    IF database.mode = "docker" THEN "database.password" ELSE "database.dsn"

DatabaseSecret(database) ==
    CASE database.mode = "docker" -> "database.password"
      [] database.mode = "neon" /\ database.resourceMode = "create" -> "database.apiToken"
      [] OTHER -> "database.dsn"

RedisSecret(redis) ==
    IF redis.mode = "upstash" /\ redis.resourceMode = "create" THEN "redis.apiKey" ELSE "redis.password"

(* validateSiteSecrets, for a Site with its defaults.                      *)
ValidSecrets(site, secrets) ==
    /\ {"adminPassword", "jwtSecret", "totpEncryptionKey",
        DatabaseSecret(site.database), RedisSecret(site.redis)} \subseteq secrets.given
    /\ DatabaseSecret(site.database) = "database.dsn" => ValidDSN(secrets.dsn)
    /\ ValidAppEnv(secrets.appEnv)

(***************************************************************************)
(* ValidateHostSpec.                                                       *)
(***************************************************************************)
IsHostSpec(c) ==
    /\ c.given \subseteq HostTexts /\ c.edge \in EdgeSpecs
    /\ \A s \in DOMAIN c.sites : c.sites[s] \in SiteSpecs
    /\ \A s \in DOMAIN c.secrets : c.secrets[s] \in SiteSecrets

Resolve(c) ==
    [given   |-> c.given,
     edge    |-> [c.edge EXCEPT !.serverName = NormalizeHostname(@)],
     sites   |-> [s \in DOMAIN c.sites |-> ResolveSite(s, c.sites[s])],
     secrets |-> [s \in DOMAIN c.sites |-> c.secrets[s]]]

ValidEdge(c) ==
    /\ HostTexts \subseteq c.given
    /\ ValidHostname(c.edge.serverName, TRUE)
    /\ ValidSingBoxTarget(c.edge.target)

(* Mutant: names are compared as they are configured.                      *)
DistinctAsGiven(c) ==
    \A s, t \in DOMAIN c.sites : s # t =>
        /\ c.sites[s].domain # c.sites[t].domain
        /\ c.sites[s].resourcePrefix # c.sites[t].resourcePrefix

(* No two Sites have the same domain or prefix, with the defaults.         *)
Distinct(c) ==
    LET site(s) == ResolveSite(s, c.sites[s])
    IN \A s, t \in DOMAIN c.sites : s # t =>
           /\ site(s).domain # site(t).domain
           /\ site(s).resourcePrefix # site(t).resourcePrefix

(* Mutant: the ID of the Edge is not reserved.                             *)
ValidSiteIDAny(s) == WellFormedName(s)

ValidSiteID(s) == WellFormedName(s) /\ s # "edge"

Accepted(c) ==
    /\ ValidEdge(c)
    /\ DOMAIN c.sites # {}
    /\ \A s \in DOMAIN c.sites :
          /\ ValidSiteID(s)
          /\ ValidSite(ResolveSite(s, c.sites[s]))
          /\ s \in DOMAIN c.secrets
          /\ ValidSecrets(ResolveSite(s, c.sites[s]), c.secrets[s])
    /\ Distinct(c)

(***************************************************************************)
(* What a Site's resources are given.                                      *)
(***************************************************************************)
ManagedNeonProjectName(prefix) == <<prefix, "postgres">>

Creates(database) == database.mode = "neon" /\ database.resourceMode = "create"

(* siteDatabaseInputs.  A value Neon will answer with is "neon", one taken *)
(* from a text of the configuration is that text.  Where it returns an     *)
(* error, and the program ends, there is none.                             *)
PostgresPort == 5432
NoInputs == [password |-> ""]

DatabaseInputs(site, secrets) ==
    CASE site.database.mode = "docker" ->
            [host |-> "postgres", port |-> PostgresPort, password |-> "database.password", sslmode |-> "disable"]
      [] Creates(site.database) ->
            [host |-> "neon", port |-> PostgresPort, password |-> "neon", sslmode |-> "require"]
      [] OTHER ->
            IF ~ValidDSN(secrets.dsn) THEN NoInputs
            ELSE [host |-> "database.dsn", port |-> DefaultNumber(secrets.dsn.port, PostgresPort),
                  password |-> "database.dsn", sslmode |-> "require"]

(* reconcileNeonEndpointSettings and validateNeonRegion: what the commands *)
(* of a created database demand.                                           *)
NeonInputs(site) ==
    [region |-> site.database.region,
     settings |-> <<site.database.minCU, site.database.maxCU, site.database.suspend>>]

RedisInputs(site) ==
    CASE site.redis.mode = "docker" -> [host |-> "redis", password |-> "redis.password", tls |-> FALSE]
      [] site.redis.mode = "upstash" /\ site.redis.resourceMode = "create" ->
            [host |-> "upstash", password |-> "upstash", tls |-> TRUE]
      [] OTHER ->
            IF ~ValidEndpoint(site.redis.endpoint) THEN NoInputs
            ELSE [host |-> site.redis.endpoint, password |-> "redis.password", tls |-> TRUE]

(* The provider credential a created resource is registered with.          *)
ProviderSecrets(site) ==
    {secret \in {"database.apiToken"} : Creates(site.database)}
        \cup {secret \in {"redis.apiKey"} :
                 site.redis.mode = "upstash" /\ site.redis.resourceMode = "create"}

(***************************************************************************)
(* The variables of a Site's commands and of runtime.env.                  *)
(***************************************************************************)
RuntimeVariables ==
    Joined("DATABASE", {"HOST", "PORT", "USER", "PASSWORD", "DBNAME", "SSLMODE"})
    \cup Joined("REDIS", {"MODE", "HOST", "PORT", "USERNAME", "PASSWORD", "DB", "ENABLE_TLS"})
    \cup Joined("POSTGRES", {"MODE", "PASSWORD", "USER", "DB"})
    \cup Joined("ADMIN", {"EMAIL", "PASSWORD"})
    \cup {<<"SITE", "ID">>, <<"APP", "PROBE_PATH">>, <<"DRAIN", "SECONDS">>, <<"JWT", "SECRET">>,
          <<"TOTP", "ENCRYPTION_KEY">>, <<"RUNTIME", "ROOT">>, <<"BLUE", "EDGE_ALIAS">>,
          <<"GREEN", "EDGE_ALIAS">>, <<"ACTIVE", "EDGE_ALIAS">>, <<"AUTO", "SETUP">>, <<"DOMAIN">>}

CommandVariables ==
    Joined("SITE", {"ID", "RUNTIME_ROOT", "ROUTE_PATH", "RUNTIME_ENV_PATH", "APP_ENV_PATH",
                    "DEPLOY_STATE_PATH", "BOOTSTRAP_MARKER_PATH"})
    \cup Joined("BLUE", {"DATA_PATH", "EDGE_ALIAS"}) \cup Joined("GREEN", {"DATA_PATH", "EDGE_ALIAS"})
    \cup Joined("APP", {"PROBE_PATH", "ENV_JSON", "ENV_CONFIGURED"})
    \cup {<<"COMPOSE", "PROJECT_NAME">>, <<"ACTIVE", "EDGE_ALIAS">>, <<"EDGE", "NETWORK_NAME">>,
          <<"DOMAIN">>, <<"DRAIN", "SECONDS">>, <<"ORIGIN", "IP">>, <<"ADMIN", "EMAIL">>,
          <<"POSTGRES", "MODE">>, <<"REDIS", "MODE">>, <<"RUNTIME", "JSON">>,
          <<"CONFIGURED", "SITE_IDS">>, <<"HOST", "STATE_PATH">>, <<"SUB2API", "IMAGE">>}
=============================================================================
