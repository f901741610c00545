----------------------------- MODULE PqParams -----------------------------
(***************************************************************************)
(* Where the parameters of a connection come from (clientparameters.py,         *)
(* pgpassfile.py and connect() of dbapi20.py): defaults, the caller's base, the   *)
(* environment, service files, a locator, the options of the command line and the  *)
(* keywords of connect(), each over the one before, and the password last of all.    *)
(***************************************************************************)
EXTENDS Naturals, Sequences, SequencesExt

CONSTANTS
  EnvSamples,      \* environments: functions of some variables
  BaseSamples,     \* the `parameters` of collect() and the keywords of connect()
  OptionSamples,   \* command lines: sequences of items
  ServiceFiles,    \* what the service files hold: file, section, sequence of lines
  PassFiles        \* what the password files hold: sequences of lines, file by file

VARIABLES
  pIn,      \* the sources of this call
  pParams,  \* the normalized parameters: a path such as "settings.tz" to its value
  pStage

paramsVars == <<pIn, pParams, pStage>>

-----------------------------------------------------------------------------
(* Items.  A key that is a path is a parameter, a key that is a word is expanded. *)
Item(path, v) == [word |-> FALSE, k |-> path, v |-> v]
Word(k, v) == [word |-> TRUE, k |-> k, v |-> v]
NoValue == "None"
NoParams == [p \in {} |-> NoValue]
Empty(params) == DOMAIN params = {}
Has(f, k) == k \in DOMAIN f
\* denormalize_parameters of a dictionary; its order does not matter.
Denormalized(params) == [i \in 1..Len(SetToSeq(DOMAIN params)) |->
                           LET k == SetToSeq(DOMAIN params)[i] IN Item(k, params[k])]
\* normalize: the last value of a path stays.
Normalized(items) ==
  LET paths == {items[i].k : i \in DOMAIN items}
      last(p) == CHOOSE i \in DOMAIN items : items[i].k = p /\ \A j \in DOMAIN items : items[j].k = p => j <= i
  IN [p \in paths |-> items[last(p)].v]

\* defaults: the user, localhost, 5432, and the password file if it exists.
Defaults ==
  <<Item("user", "me"), Item("host", "localhost"), Item("port", "5432")>>
    \o (IF Has(PassFiles, "home") THEN <<Item("pgpassfile", "home")>> ELSE <<>>)

\* envvars.  PGTZ, PGDATESTYLE, PGCLIENTENCODING, PGGEQO and PGOPTIONS are collected
\* into a list that is never yielded.
EnvMap == [PGUSER |-> "user", PGDATABASE |-> "database", PGHOST |-> "host", PGPORT |-> "port",
           PGPASSWORD |-> "password", PGSSLMODE |-> "sslmode", PGPASSFILE |-> "pgpassfile"]
If(env, var, item) == IF Has(env, var) THEN <<item>> ELSE <<>>
EnvItems(env) ==
  LET v(var) == IF Has(env, var) THEN env[var] ELSE NoValue
      names == SetToSeq({n \in DOMAIN EnvMap : Has(env, n)})
  IN (IF v("PGREQUIRESSL") = "1" THEN <<Item("sslmode", "a pair")>> ELSE <<>>)
       \o [i \in DOMAIN names |-> Item(EnvMap[names[i]], env[names[i]])]
       \o If(env, "PGHOSTADDR", Item("host", v("PGHOSTADDR")))
       \o If(env, "PGSYSCONFDIR", Word("config-pg_sysconfdir", v("PGSYSCONFDIR")))
       \o If(env, "PGSERVICEFILE", Word("config-pg_service_file", v("PGSERVICEFILE")))
       \o If(env, "PGSERVICE", Word("pg_service", v("PGSERVICE")))

-----------------------------------------------------------------------------
(* extrapolate and its callbacks *)
DriverKeys == {"user", "host", "database", "port", "password", "sslmode"}
\* x_pg_service: one line of the section.
ServiceItem(line) ==
  CASE line[1] = "ldap" -> <<Word("pg_ldap", line[2])>>
    [] line[1] = "pg_service" -> <<>>
    [] line[1] = "hostaddr" -> <<Item("host", line[2])>>
    [] line[1] = "dbname" -> <<Item("database", line[2])>>
    [] line[1] \in DriverKeys -> <<Item(line[1], line[2])>>
    [] OTHER -> <<Item("settings." \o line[1], line[2])>>
\* The override or the user's file, then the global one; the first with the section.
ServicePaths(config) ==
  <<IF config.pg_service_file # NoValue THEN config.pg_service_file ELSE "user file">>
    \o (IF config.pg_sysconfdir # NoValue THEN <<config.pg_sysconfdir>> ELSE <<>>)
ServiceFound(name, config) ==
  {i \in DOMAIN ServicePaths(config) :
     Has(ServiceFiles, ServicePaths(config)[i]) /\ Has(ServiceFiles[ServicePaths(config)[i]], name)}
FirstOf_last(found) == CHOOSE i \in found : \A j \in found : j <= i
FirstOf(found) == CHOOSE i \in found : \A j \in found : i <= j
Service(name, config) ==
  LET found == ServiceFound(name, config)
  IN IF found = {} THEN <<Word("raise", "ServiceDoesNotExistError")>>
     ELSE FlattenSeq([i \in DOMAIN ServiceFiles[ServicePaths(config)[FirstOf(found)]][name] |->
            ServiceItem(ServiceFiles[ServicePaths(config)[FirstOf(found)]][name][i])])

\* One item: a path is kept, a configuration word is remembered for the words after
\* it, the others are expanded in their place.
RECURSIVE Extrapolated(_, _)
Extrapolated(items, config) ==
  IF items = <<>> THEN <<>>
  ELSE LET it == Head(items)
           set == CASE it.word /\ it.k = "config-pg_sysconfdir" -> [config EXCEPT !.pg_sysconfdir = it.v]
                    [] it.word /\ it.k = "config-pg_service_file" -> [config EXCEPT !.pg_service_file = it.v]
                    [] OTHER -> config
           here == CASE ~it.word -> <<it>>
                     [] it.word /\ it.k = "pg_service" -> Extrapolated(Service(it.v, config), config)
                     [] it.word /\ it.k = "pq_iri" -> Denormalized(it.v)
                     [] it.word /\ it.k = "pg_ldap" -> <<Word("raise", "NotImplementedError")>>
                     [] it.word /\ it.k = "raise" -> <<it>>
                     [] OTHER -> <<>>
       IN here \o Extrapolated(Tail(items), set)
ServiceFails(items) == \E i \in DOMAIN items : items[i].word

-----------------------------------------------------------------------------
(* pgpassfile: a line is its four patterns and the word *)
PassKeys == {"host", "port", "database", "user"}
LineMatches_host(line, t) == \A k \in PassKeys \ {"database"} : line[k] \in {"*", t[k]}
LineMatches(line, t) == \A k \in PassKeys : line[k] \in {"*", t[k]}
LookupPassword(lines, t) ==
  LET hits == {i \in DOMAIN lines : LineMatches(lines[i], t)}
  IN IF hits = {} THEN NoValue ELSE lines[FirstOf(hits)].word
\* lookup_pgpass: the target of the connection, whose database defaults to the user.
Target(params) ==
  [k \in PassKeys |-> IF k = "database" /\ ~Has(params, k) THEN params["user"] ELSE params[k]]
\* resolve_password
Resolved(params) ==
  LET rest == [p \in DOMAIN params \ {"pgpassfile", "prompt_password"} |-> params[p]]
      with(w) == [p \in DOMAIN rest \cup {"password"} |-> IF p = "password" THEN w ELSE rest[p]]
  IN IF Has(params, "prompt_password") THEN with("typed")
     ELSE IF Has(params, "password") \/ ~Has(params, "pgpassfile") THEN rest
     ELSE with(IF Has(PassFiles, params["pgpassfile"])
               THEN LookupPassword(PassFiles[params["pgpassfile"]], Target(params)) ELSE NoValue)
\* The lookup needs user, host and port: a KeyError without the defaults.
Resolvable(params) ==
  Has(params, "prompt_password") \/ Has(params, "password") \/ ~Has(params, "pgpassfile")
    \/ ~Has(PassFiles, params["pgpassfile"]) \/ {"user", "host", "port"} \subseteq DOMAIN params

-----------------------------------------------------------------------------
NoConfig == [pg_sysconfdir |-> NoValue, pg_service_file |-> NoValue]
\* collect: the sources in order.  PGSERVICEFILE overrides the argument pg_service_file.
Sources(in) ==
  Extrapolated(
    (IF in.file # NoValue THEN <<Word("config-pg_service_file", in.file)>> ELSE <<>>)
      \o (IF in.defaults THEN Defaults ELSE <<>>)
      \o Denormalized(in.base) \o EnvItems(in.env) \o in.options, NoConfig)
Collect ==
  /\ pStage = "new"
  /\ \E in \in [ base : BaseSamples, env : EnvSamples, options : OptionSamples, kw : BaseSamples,
                 defaults : BOOLEAN, file : {NoValue, "other file"} ] :
       \* connect() of dbapi20 has no options and takes the defaults
       /\ ~Empty(in.kw) => in.options = <<>> /\ in.defaults /\ Empty(in.base) /\ in.file = NoValue
       /\ pIn' = in
       /\ pStage' = IF ServiceFails(Sources(in)) THEN "raised" ELSE "collected"
       /\ pParams' = IF ServiceFails(Sources(in)) THEN NoParams ELSE Normalized(Sources(in))
\* connect(**kw): the keywords over what collect(prompt_title = None) found.
Merge ==
  /\ pStage = "collected" /\ ~Empty(pIn.kw)
  /\ pParams' = Normalized(Denormalized(pParams) \o Denormalized(pIn.kw))
  /\ pStage' = "merged" /\ UNCHANGED pIn
ResolvePassword ==
  /\ pStage = "merged" \/ (pStage = "collected" /\ Empty(pIn.kw))
  /\ pStage' = IF Resolvable(pParams) THEN "ready" ELSE "raised"
  /\ pParams' = IF Resolvable(pParams) THEN Resolved(pParams) ELSE pParams
  /\ UNCHANGED pIn

ParamsInit ==
  /\ pStage = "new" /\ pParams = NoParams
  /\ pIn = [base |-> NoParams, env |-> NoParams, options |-> <<>>, kw |-> NoParams, defaults |-> TRUE, file |-> NoValue]
ParamsNext == Collect \/ Merge \/ ResolvePassword
ParamsSpec == ParamsInit /\ [][ParamsNext]_paramsVars

ParamsTypeOK ==
  /\ pStage \in {"new", "collected", "merged", "ready", "raised"}
  /\ pStage = "ready" => ~Has(pParams, "pgpassfile") /\ ~Has(pParams, "prompt_password")

\* The value that the strongest source gives to a path: keywords, the last option, the
\* first service file that knows the service, the environment, the base, the defaults.
Strongest(p) ==
  LET opts == {i \in DOMAIN pIn.options : ~pIn.options[i].word /\ pIn.options[i].k = p}
      env(var) == IF Has(pIn.env, var) THEN pIn.env[var] ELSE NoValue
      own == IF env("PGSERVICEFILE") # NoValue THEN env("PGSERVICEFILE")
             ELSE IF pIn.file # NoValue THEN pIn.file ELSE "user file"
      knows(f) == Has(ServiceFiles, f) /\ Has(ServiceFiles[f], env("PGSERVICE"))
      lines == IF knows(own) THEN ServiceFiles[own][env("PGSERVICE")]
               ELSE IF knows(env("PGSYSCONFDIR")) THEN ServiceFiles[env("PGSYSCONFDIR")][env("PGSERVICE")]
               ELSE <<>>
      said == {i \in DOMAIN lines : \E it \in ToSet(ServiceItem(lines[i])) : ~it.word /\ it.k = p}
      iris == {i \in DOMAIN pIn.options : pIn.options[i].word /\ Has(pIn.options[i].v, p)}
      top(s) == CHOOSE i \in s : \A j \in s : j <= i
      vars == {v \in DOMAIN EnvMap : EnvMap[v] = p /\ Has(pIn.env, v)}
  IN CASE Has(pIn.kw, p) -> pIn.kw[p]
       [] ~Has(pIn.kw, p) /\ opts \cup iris # {} ->
            IF top(opts \cup iris) \in opts THEN pIn.options[top(opts \cup iris)].v
            ELSE pIn.options[top(iris)].v[p]
       [] OTHER ->
            IF said # {} THEN lines[top(said)][2]
            ELSE IF p = "host" /\ Has(pIn.env, "PGHOSTADDR") THEN pIn.env["PGHOSTADDR"]
            ELSE IF vars # {} THEN pIn.env[CHOOSE v \in vars : TRUE]
            ELSE IF p = "sslmode" /\ env("PGREQUIRESSL") = "1" THEN "a pair"
            ELSE IF Has(pIn.base, p) THEN pIn.base[p]
            ELSE IF pIn.defaults /\ Has(Normalized(Defaults), p) THEN Normalized(Defaults)[p] ELSE NoValue

\* A parameter is what the strongest of its sources says, however many of them say
\* something and whichever way it came, and the password is looked up for the target
\* that is really connected to, by the first line that matches it.
StrongestWins ==
  pStage = "ready" =>
    /\ \A p \in DOMAIN pParams \ {"password"} : pParams[p] = Strongest(p)
    /\ LET typed == \E i \in DOMAIN pIn.options : pIn.options[i].k = "prompt_password"
           given == Strongest("password")
           file == Strongest("pgpassfile")
           lines == IF Has(PassFiles, file) THEN PassFiles[file] ELSE <<>>
           user == pParams["user"]
           fits(line) == /\ line.user \in {"*", user} /\ line.host \in {"*", pParams["host"]}
                         /\ line.port \in {"*", pParams["port"]}
                         /\ line.database \in {"*", IF Has(pParams, "database") THEN pParams["database"] ELSE user}
           hits == SelectSeq(lines, fits)
       IN ~typed /\ Has(pParams, "password") =>
            pParams["password"] = IF given # NoValue THEN given
                                  ELSE IF hits = <<>> THEN NoValue ELSE Head(hits).word
=============================================================================
