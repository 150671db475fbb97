------------------------------- MODULE Login -------------------------------
(***************************************************************************)
(* How a client comes to its Authorization header: a configuration is read *)
(* from files (src/py_etp_client/etpconfig.py) or made of an ETPConfig,    *)
(* its TokenManager gets a token (Credentials), and the constructor of the *)
(* client puts it into the headers (etpsimpleclient.py).  The              *)
(* configuration may be saved, with what it has cached, and read again by  *)
(* another process.                                                        *)
(*                                                                         *)
(* Of a configuration only the part of the active method is modelled, and  *)
(* of its fields which are given.  A string that names a server is a word  *)
(* and whether it is in capitals.  The environment of the process stands   *)
(* beside the files, and stays what it is.                                 *)
(***************************************************************************)
EXTENDS Credentials, FiniteSets, Sequences, SequencesExt

CONSTANTS
  Sources,  \* what there is to read: a file, the value of ETP_CONFIG_ID, and the
            \* environment: SERVER_NAME and which variables are set
  Nothing   \* no value, no configuration, nothing saved

VARIABLES
  read,    \* the source that was read
  config,  \* the configuration, but for what Credentials knows of it
  reread   \* it has once been saved as JSON and read again
VARIABLES
  extra,   \* the Authorization in the additional_headers, if there is one
  own,     \* the client is made with headers or credentials of its own
  client,  \* "none", "making", "made", "refused" or "failed"
  header,  \* the Authorization in the headers of the client
  saved    \* what was saved last

configVars == <<read, config, reread>>
clientVars == <<extra, own, client, header>>
loginVars == <<configVars, clientVars, saved>>
allVars == <<vars, loginVars>>

-----------------------------------------------------------------------------
(***************************************************************************)
(* The fields of a method                                                  *)
(***************************************************************************)

\* The dataclasses of auth.py, but for cached_token and token_expires_at
Fields(m) ==
  CASE m = "basic" -> {"username", "password"}
    [] m = "oauth2" ->
         {"client_id", "client_secret", "refresh_token", "token_url", "scope"}
    [] m = "azure_ad" -> {"tenant_id", "client_id", "client_secret", "scope"}
    [] m = "aws_cognito" ->
         {"user_pool_id", "app_client_id", "client_secret", "aws_region",
          "username", "password", "refresh_token"}
    [] m = "gcp_oauth" -> {"gcp_project_id", "service_account_key", "scope"}
    [] m = "bearer_token" -> {"cached_token"}
    [] OTHER -> {}

\* What get_token() looks for before it makes a request
Needs(m) ==
  CASE m = "oauth2" -> {"client_id", "client_secret", "token_url"}
    [] m = "azure_ad" -> {"tenant_id", "client_id", "client_secret"}
    [] m = "aws_cognito" ->
         {"aws_region", "user_pool_id", "app_client_id", "username", "password"}
    [] m = "gcp_oauth" -> {"gcp_project_id", "service_account_key"}
    [] OTHER -> Fields(m)

\* Seeded bug: to_dict() leaves out the pool of Cognito.
ToDictShort(m, given) ==
  CASE m = "bearer_token" ->
         IF "cached_token" \in given THEN {"bearer_token"} ELSE {}
    [] m = "oauth2" -> given \cap {"client_id", "client_secret"}
    [] OTHER -> given \ {"refresh_token", "user_pool_id"}

\* to_dict(): no refresh token, for oauth2 neither its URL nor its scope, and a
\* bearer token under a name that from_dict() does not know
ToDict(m, given) ==
  CASE m = "bearer_token" ->
         IF "cached_token" \in given THEN {"bearer_token"} ELSE {}
    [] m = "oauth2" -> given \cap {"client_id", "client_secret"}
    [] OTHER -> given \ {"refresh_token"}

\* A new _id, for the configuration at a place in the files: see Places
Anew(place) == [word |-> place, upper |-> FALSE]
Alone == <<1, 1>>

\* __post_init__(): a configuration without an _id is given a new one, and one
\* without a name or additional headers those of the environment.
PostInit(c, new, env) ==
  [c EXCEPT !.id = IF @ = Nothing THEN new ELSE @,
            !.name = IF @ = Nothing THEN env.server ELSE @,
            !.headers = @ \/ "ADDITIONAL_HEADERS" \in env.set]

\* from_dict() takes the fields that it knows.
FromDict(c, new, env) ==
  PostInit([id |-> c.id, name |-> c.name, method |-> c.method,
            given |-> c.given \cap Fields(c.method),
            token |-> c.token, headers |-> c.headers], new, env)

\* What from_dict() makes of a dictionary in which it knows nothing
Default == [id |-> Nothing, name |-> Nothing, method |-> "basic",
            given |-> {}, token |-> NoToken, headers |-> FALSE]

-----------------------------------------------------------------------------
(***************************************************************************)
(* Reading                                                                 *)
(***************************************************************************)

\* _read_configs(): the configurations of an included file; one that includes
\* others is taken for a configuration.
Included(file) ==
  CASE file.kind = "missing" -> <<>>
    [] file.kind = "many" -> <<Default>>
    [] OTHER -> file.configs

\* What is written: the lists of the included files, then that of the file
Parts(file) ==
  [i \in DOMAIN file.includes |-> Included(file.includes[i])] \o <<file.configs>>

\* Where a configuration is written: in which list, and where in it
Places(file) ==
  UNION {{i} \X DOMAIN Parts(file)[i] : i \in DOMAIN Parts(file)}

Before(a, b) == a[1] < b[1] \/ (a[1] = b[1] /\ a[2] < b[2])
Earliest(places) == CHOOSE a \in places : \A b \in places : ~Before(b, a)
Latest(places) == CHOOSE a \in places : \A b \in places : ~Before(a, b)

\* _read_configs(): what is made of what is written, in the order of the places
Listed(file, env) ==
  [a \in Places(file) |-> FromDict(Parts(file)[a[1]][a[2]], Anew(a), env)]

\* _read_configs() keeps them by id: the place is that of the first with an id,
\* the value that of the last.
ReadConfigs(file, env) ==
  LET listed == Listed(file, env)
      alike(a) == {b \in Places(file) : listed[b].id = listed[a].id}
  IN [a \in {Earliest(alike(b)) : b \in Places(file)} |-> listed[Latest(alike(a))]]

\* The first of some of them
FirstOf(configs, found) ==
  IF found = {} THEN Nothing ELSE configs[Earliest(found)]

Known(configs, wanted) == {i \in DOMAIN configs : configs[i].id = wanted}
Named(configs, wanted) ==
  {i \in DOMAIN configs :
     configs[i].name # Nothing /\ configs[i].name.word = wanted.word}

\* Seeded bug: the name is looked for first.
GetByName(configs, wanted) ==
  LET named == Named(configs, wanted)
  IN FirstOf(configs, IF named # {} THEN named ELSE Known(configs, wanted))

\* get_by_id(): a name in any case
GetById(configs, wanted) ==
  LET known == Known(configs, wanted)
  IN FirstOf(configs, IF known # {} THEN known ELSE Named(configs, wanted))

\* What dict() finds under a key in a list of configurations of two keys each: of
\* the last whose first key it is, the name of the second key.
PairedWith(configs, key) ==
  LET pairs == SelectSeq(configs, LAMBDA c : c.keys[1] = key)
  IN IF pairs = <<>> THEN Nothing ELSE Last(pairs).keys[2]

\* from_dict() takes such a list for the pairs of one dictionary, unless the pairs
\* make no AuthMethod.
AsPairs(file) ==
  /\ file.kind = "list"
  /\ \A c \in Range(file.configs) : Len(c.keys) = 2
  /\ PairedWith(file.configs, "auth_method") \in AuthMethod \cup {Nothing}

\* The configuration that it makes of the names of keys; the default one of an
\* empty list
FromPairs(configs, env) ==
  LET value(key) == PairedWith(configs, key)
      text(key) == IF value(key) = Nothing THEN Nothing
                   ELSE [word |-> value(key), upper |-> FALSE]
  IN FromDict([Default EXCEPT !.id = text("_id"), !.name = text("name"),
                 !.method = IF value("auth_method") = Nothing THEN @
                            ELSE value("auth_method")],
              Anew(Alone), env)

\* ServerConfig.from_file(), Nothing when it raises or returns None.  A file
\* of one configuration is taken whatever is wanted, and so are pairs.
FromFile(file, wanted, env) ==
  CASE file.kind = "missing" -> Nothing
    [] file.kind = "one" -> FromDict(file.configs[1], Anew(Alone), env)
    [] AsPairs(file) -> FromPairs(file.configs, env)
    [] OTHER ->
         LET configs == ReadConfigs(file, env)
         IN IF wanted # Nothing /\ Cardinality(DOMAIN configs) > 1
              THEN GetById(configs, wanted)
              ELSE FirstOf(configs, DOMAIN configs)

\* ETPConfig: the environment, over which load_from_yml() lays the included
\* files and then the file itself
Settings(file, env) ==
  LET layers == <<[key \in env.set |-> TRUE]>> \o file.includes \o <<file.main>>
      set(key) == {i \in DOMAIN layers : key \in DOMAIN layers[i]}
  IN {key \in UNION {DOMAIN layers[i] : i \in DOMAIN layers} :
        layers[CHOOSE i \in set(key) : \A j \in set(key) : j <= i][key]}

\* ETPConfig.as_server_config(); the bearer token goes under the name that
\* from_dict() does not know.
AsServerConfig(set, env) ==
  LET method_ == IF {"USERNAME", "PASSWORD"} \subseteq set THEN "basic"
                 ELSE IF "ACCESS_TOKEN" \in set THEN "bearer_token" ELSE "none"
  IN FromDict([Default EXCEPT !.method = method_,
                 !.given = IF method_ = "basic" THEN {"username", "password"}
                           ELSE {"bearer_token"},
                 !.headers = "ADDITIONAL_HEADERS" \in set], Anew(Alone), env)

\* What is read of a source: a configuration, or Nothing
Opened(source) ==
  IF source.file.kind = "etp"
    THEN AsServerConfig(Settings(source.file, source.env), source.env)
    ELSE FromFile(source.file, source.wanted, source.env)

\* A file of one configuration has one.  Where a configuration of two keys has its
\* method or headers first, what a list of such makes of them is not modelled.
\* Nobody has written, or can ask for, the _id that is given to a configuration
\* without one.
ASSUME SourcesAssumption ==
  \A source \in Sources :
    LET file == source.file
    IN /\ file.includes \in Seq(Range(file.includes))
       /\ file.kind # "etp" =>
            /\ file.kind = "one" => 1 \in DOMAIN file.configs
            /\ AsPairs(file) => \A c \in Range(file.configs) :
                 c.keys[1] \notin AuthMethod \cup {"additional_headers"}
            /\ \A part \in Range(Parts(file)) : part \in Seq(Range(part))
            /\ \A a \in Places(file) \cup {Alone} :
                 /\ source.wanted # Anew(a) /\ Nothing # Anew(a)
                 /\ \A c \in Range(file.configs) : c.id # Anew(a)
                 /\ \A i \in Range(file.includes) :
                      \A c \in Range(i.configs) : c.id # Anew(a)

\* Of the tokens of the methods only that of "bearer_token" is written in files.
\* A configuration is something.
ASSUME LoginAssumption ==
  /\ "none" \in Methods /\ Nothing # Anew(Alone)
  /\ \A source \in Sources :
       LET c == Opened(source)
       IN c # Nothing =>
            /\ c.method \in Methods
            /\ c.token \in Tokens /\ c.token.kind \in {"no", "ending"}
            /\ "cached_token" \in c.given =>
                 c.method = "bearer_token" /\ c.token.kind # "no"
            /\ Nothing \notin [id : {c.id}, name : {c.name},
                              given : SUBSET Fields(c.method), headers : {c.headers}]

-----------------------------------------------------------------------------
(***************************************************************************)
(* The steps                                                               *)
(***************************************************************************)

LoginInit ==
  /\ method = "none" /\ complete = FALSE
  /\ cached = NoToken /\ expiresAt = 0
  /\ now = Start /\ asked = 0
  /\ caller = "nobody"
  /\ outcome = [from |-> "nothing", token |-> NoToken]
  /\ read = Nothing /\ config = Nothing /\ reread = FALSE
  /\ extra = NoToken /\ own = FALSE
  /\ client = "none" /\ header = NoToken
  /\ saved = Nothing

\* A configuration comes into use: that of Credentials is part of it.
Use(c, token, end) ==
  /\ method' = c.method
  /\ complete' = (Needs(c.method) \subseteq c.given)
  /\ cached' = token
  /\ expiresAt' = end
  /\ config' = [id |-> c.id, name |-> c.name, given |-> c.given,
                headers |-> c.headers]

Read(source) ==
  /\ config = Nothing
  /\ read' = source
  /\ LET c == Opened(source)
     IN IF c = Nothing
          THEN UNCHANGED <<setVars, cached, expiresAt, config>>
          ELSE \E end \in {0, c.token.until} :
                 Use(c, IF "cached_token" \in c.given THEN c.token ELSE NoToken,
                     IF "cached_token" \in c.given THEN end ELSE 0)
  /\ UNCHANGED <<now, asked, caller, outcome, reread, clientVars, saved>>

\* The constructor has its answer.  With headers of the client's own, which the
\* update that returns None has lost, there is nothing to add a token to.  The
\* additional headers of the configuration become those of the client, and an
\* Authorization that is added to them stays in the configuration.
Finish(token, refused) ==
  LET given == token.kind # "no" \/ method = "bearer_token"
  IN IF own'
       THEN /\ client' = IF given THEN "failed" ELSE IF refused THEN "refused" ELSE "made"
            /\ header' = NoToken
            /\ UNCHANGED extra
       ELSE /\ client' = IF refused THEN "refused" ELSE "made"
            /\ header' = IF given THEN token ELSE extra
            /\ extra' = IF given /\ config.headers THEN token ELSE extra

\* Seeded bug: the constructor takes what is cached, whatever its age.
MakeClientOfCache ==
  /\ caller = "nobody" /\ config # Nothing
  /\ own' = FALSE
  /\ IF cached.kind # "no"
       THEN /\ Hand("cache", cached)
            /\ Finish(cached, FALSE)
            /\ UNCHANGED <<cached, expiresAt, asked, caller>>
       ELSE /\ Request("get_token")
            /\ client' = "making" /\ header' = NoToken
            /\ UNCHANGED extra
  /\ UNCHANGED <<setVars, now, configVars, saved>>

\* ETPSimpleClient.__init__(): get_token(), whatever is cached
MakeClient ==
  /\ caller = "nobody" /\ config # Nothing
  /\ own' \in BOOLEAN
  /\ \/ /\ Request("get_token")
        /\ client' = "making" /\ header' = NoToken
        /\ UNCHANGED extra
     \/ /\ Answer
        /\ IF outcome'.from = "raised"
             THEN client' = "failed" /\ header' = NoToken /\ UNCHANGED extra
             ELSE Finish(outcome'.token, FALSE)
        /\ UNCHANGED <<caller, asked>>
  /\ UNCHANGED <<setVars, now, configVars, saved>>

\* The TokenManager has its answer, for the constructor or for another caller.
Answered ==
  /\ Granted \/ NotGranted
  /\ UNCHANGED own
  /\ IF client = "making"
       THEN Finish(outcome'.token, outcome'.token.kind = "no")
       ELSE UNCHANGED <<extra, client, header>>
  /\ UNCHANGED <<configVars, saved>>

\* get_token() or refresh_token_if_needed() called for another purpose, and time
TokenStep ==
  /\ config # Nothing
  /\ GetToken \/ Refresh \/ Tick
  /\ UNCHANGED loginVars

\* to_dotenv() writes every field that is set, to_json() what to_dict() gives.
Save(how) ==
  /\ caller = "nobody" /\ config # Nothing
  /\ saved' = [id |-> config.id, name |-> config.name, method |-> method,
                given |-> IF how = "dotenv" THEN config.given
                          ELSE ToDict(method, config.given),
                headers |-> config.headers,
                token |-> IF how = "dotenv" THEN cached ELSE NoToken,
                end |-> IF how = "dotenv" THEN expiresAt ELSE 0,
                extra |-> extra, reread |-> reread \/ how = "json"]
  /\ UNCHANGED <<vars, configVars, clientVars>>

\* The process ends, at any moment, and another reads what was saved: from_env(),
\* or from_file() of the one configuration, in the same environment.
Boot ==
  /\ saved # Nothing
  /\ Use(FromDict(saved, Anew(Alone), read.env), saved.token, saved.end)
  /\ reread' = saved.reread
  /\ extra' = saved.extra
  /\ own' = FALSE /\ client' = "none" /\ header' = NoToken
  /\ caller' = "nobody"
  /\ Hand("nothing", NoToken)
  /\ UNCHANGED <<now, asked, read, saved>>

LoginNext ==
  \/ \E source \in Sources : Read(source)
  \/ MakeClient
  \/ Answered
  \/ TokenStep
  \/ \E how \in {"dotenv", "json"} : Save(how)
  \/ Boot

LoginSpec == LoginInit /\ [][LoginNext]_allVars

-----------------------------------------------------------------------------
(***************************************************************************)
(* Properties                                                              *)
(***************************************************************************)

\* What the user wrote in a file and in those that it includes
Written(file) ==
  Range(file.configs)
    \cup UNION {Range(i.configs) :
                  i \in {j \in Range(file.includes) : j.kind \notin {"missing", "many"}}}

Several(file, env) ==
  /\ file.kind \in {"list", "many"} /\ ~AsPairs(file)
  /\ Cardinality(DOMAIN ReadConfigs(file, env)) > 1

\* With ETP_CONFIG_ID and several configurations, in whatever files, the one in
\* use has the id that is asked for, or the name when none has the id; and it
\* is still the one after it was saved and another process has read it.  A list
\* of configurations of two keys each is not taken for several.
RightServer ==
  config # Nothing /\ read.wanted # Nothing /\ Several(read.file, read.env) =>
    IF \E c \in Written(read.file) : c.id = read.wanted
      THEN config.id = read.wanted
      ELSE config.name # Nothing /\ config.name.word = read.wanted.word

\* What was written of a bearer token as "bearer_token" is not known again, and
\* to_dict() forgets the URL of oauth2.
Forgotten(c) ==
  \/ c.method = "bearer_token" /\ (reread \/ "cached_token" \notin c.given)
  \/ c.method = "oauth2" /\ reread

\* A client is made with an Authorization when the configuration of its server
\* gave all that its method needs and the provider has not refused: on the way
\* from the file to the header, or to a saved file and back, nothing is lost.
\* The last that an ETPConfig reads is its file.
LoginWorks ==
  client = "made" /\ ~own =>
    IF read.file.kind = "etp"
      THEN {"USERNAME", "PASSWORD"} \subseteq
               {k \in DOMAIN read.file.main : read.file.main[k]}
             => header.kind # "no"
      ELSE \A c \in Written(read.file) :
             /\ ~AsPairs(read.file) /\ c.id = config.id
             /\ \A d \in Written(read.file) : d.id = c.id => d = c
             /\ Needs(c.method) \subseteq c.given
             /\ c.method # "none"
             /\ ~Forgotten(c)
             => method = c.method /\ header.kind # "no"

\* A client that is made with a token of a provider is not made with one that
\* had ended before it was asked for.  Where get_token() has none, additional
\* headers may still hold that of an earlier client.
NeverBornStale ==
  [][client' = "made" /\ <<client, header>>' # <<client, header>>
       /\ method \in Online /\ outcome'.token.kind # "no"
       => header'.until >= now - Delay[method] \/ own']_allVars

=============================================================================
