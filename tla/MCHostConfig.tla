---------------------------- MODULE MCHostConfig ----------------------------
(***************************************************************************)
(* Instances of HostConfig: code2 and code3 in configurations that differ  *)
(* in their Sites, data services and prefixes, and ones that deviate from  *)
(* an accepted one in each setting that is checked.  The fields of their   *)
(* records stand in the order in which TLC stores them, since its workers  *)
(* sort other ones in place while they share them.                         *)
(***************************************************************************)
EXTENDS HostConfig, TLC

Dotted(name) == [name |-> name, form |-> "dotted"]

Docker == [mode |-> "", resourceMode |-> "", region |-> "", minCU |-> Unset, maxCU |-> Unset, suspend |-> Unset]
Neon(resourceMode) == [Docker EXCEPT !.mode = "neon", !.resourceMode = resourceMode]
Redis(mode, resourceMode, endpoint) ==
    [mode |-> mode, resourceMode |-> resourceMode, region |-> "", endpoint |-> endpoint]

BaseSite(s, database, prefix) ==
    [database |-> database, domain |-> Dotted(s), image |-> "digest", adminEmail |-> "admin",
     appProbePath |-> "/", drainSeconds |-> Unset, resourcePrefix |-> prefix, redis |-> Redis("", "", "")]

BaseDSN == [scheme |-> "postgres", has |-> DSNParts, sslmode |-> "require", port |-> Unset]
Entry(key) == [key |-> key, clean |-> TRUE]
BaseSecrets == [given |-> SecretTexts, dsn |-> BaseDSN, appEnv |-> {Entry(<<"OIDC", "ISSUER">>)}]

Host(sites) ==
    [given |-> HostTexts,
     sites |-> sites,
     edge |-> [serverName |-> Dotted("sing"), target |-> [port |-> 443, host |-> Dotted("target")]],
     secrets |-> IF Cardinality(DOMAIN sites) = 1
                   THEN (CHOOSE s \in DOMAIN sites : TRUE) :> BaseSecrets
                   ELSE "code2" :> BaseSecrets @@ "code3" :> BaseSecrets]

One(s, database, prefix) == Host(s :> BaseSite(s, database, prefix))

Two(database2, prefix2, database3, prefix3) ==
    Host("code2" :> BaseSite("code2", database2, prefix2)
         @@ "code3" :> BaseSite("code3", database3, prefix3))

(* Configurations between which a stack moves.                             *)
Moves ==
    {One("code2", d, p) : d \in {Docker, Neon("create"), Neon("existing")}, p \in {"", "code3"}}
        \cup {One("code3", d, "") : d \in {Docker, Neon("create")}}
        \cup {Two(d, "", e, "") : d, e \in {Docker, Neon("create")}}
        \cup {Two(Neon("create"), p, Neon("create"), q) :
                 p \in {"", "code3"}, q \in {"", "code2", "shared"}}

(* One Site with one setting changed; most are refused.                    *)
Site1 == BaseSite("code2", Neon("create"), "")
OneSite(site) == Host("code2" :> site)

SiteVariants ==
    {[Site1 EXCEPT !.domain.form = f] : f \in {"", "upper", "label", "malformed"}}
        \cup {[Site1 EXCEPT !.image = i] : i \in Images}
        \cup {[Site1 EXCEPT !.appProbePath = i] : i \in ProbePaths}
        \cup {[Site1 EXCEPT !.adminEmail = ""]}
        \cup {[Site1 EXCEPT !.drainSeconds = d] : d \in {-1, 0, 10}}
        \cup {[Site1 EXCEPT !.resourcePrefix = "Bad"]}
        \cup {[Site1 EXCEPT !.database.mode = m, !.database.resourceMode = r] :
                 m \in {"", "docker", "neon", "mysql"}, r \in {"", "existing", "create", "other"}}
        \cup {[Site1 EXCEPT !.database.minCU = a, !.database.maxCU = b] :
                 a, b \in {Unset, 0, 1, 2, 64, 65}}
        \cup {[Site1 EXCEPT !.database.suspend = t] : t \in {59, 60, 604800, 604801}}
        \cup {[Site1 EXCEPT !.redis = Redis(m, r, e)] :
                 m \in {"", "upstash"}, r \in {"", "create", "other"}, e \in Endpoints}

SecretVariants ==
    {[BaseSecrets EXCEPT !.given = @ \ {t}] : t \in SecretTexts}
        \cup {[BaseSecrets EXCEPT !.dsn = d] :
                 d \in {[BaseDSN EXCEPT !.scheme = "mysql"], [BaseDSN EXCEPT !.has = @ \ {"password"}],
                        [BaseDSN EXCEPT !.sslmode = "disable"], [BaseDSN EXCEPT !.port = 6543]}}
        \cup {[BaseSecrets EXCEPT !.appEnv = {Entry(k)}] :
                 k \in RuntimeVariables \cup CommandVariables \cup ReservedKeys \cup UpstreamKeys
                       \cup {<<"SITE", "NAME">>, <<"SITENAME">>, <<"Bad", "KEY">>}}
        \cup {[BaseSecrets EXCEPT !.appEnv = {[key |-> <<"FREE">>, clean |-> FALSE]}]}

Data == {Docker, Neon("create"), Neon("existing")}

HostVariants ==
    {[One("code2", Docker, "") EXCEPT !.given = @ \ {t}] : t \in HostTexts}
        \cup {[One("code2", Docker, "") EXCEPT !.edge.serverName.form = f] : f \in {"", "upper", "label"}}
        \cup {[One("code2", Docker, "") EXCEPT !.edge.target = [port |-> p, host |-> [name |-> "t", form |-> f]]] :
                 f \in {"", "label", "ip6"}, p \in {Unset, 0, 65535, 65536}}
        \cup {One("edge", Docker, ""), One("Bad", Docker, "")}
        \cup {[One("code2", d, "") EXCEPT !.secrets.code2 = x] : d \in Data, x \in SecretVariants}
        \cup {[One("code2", Docker, "") EXCEPT !.secrets = << >>]}
        \cup {[Two(Docker, "", Docker, "") EXCEPT !.sites.code2.domain = [name |-> "code3", form |-> f]] :
                 f \in {"dotted", "upper"}}

Variants == HostVariants \cup {OneSite(site) : site \in SiteVariants}

AllConfigs == Moves \cup Variants

Adopted == {Two(Docker, "", Docker, ""), One("code2", Docker, "")}
Malformed == {"Bad"}
Code2Project == {ManagedNeonProjectName("code2")}
=============================================================================
