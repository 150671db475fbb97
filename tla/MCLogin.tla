------------------------------ MODULE MCLogin ------------------------------
(***************************************************************************)
(* Constants for Login, in units of thirty seconds: a request times out    *)
(* after one where the code says so, after two where it leaves that to the *)
(* library of the provider.  Hosts are a unit ahead of UTC or behind it.   *)
(***************************************************************************)
EXTENDS Login

CONSTANTS p, q, r

AllMethods == Online \cup {"basic", "bearer_token", "none"}
SomeLives == {0, 3}
Delays == [m \in AllMethods |->
            CASE m \in {"oauth2", "azure_ad"} -> 1
              [] m \in {"aws_cognito", "gcp_oauth"} -> 2
              [] OTHER -> 0]
AllTellings == {"number", "garbled", "nothing"}
SomeZones == {-1, 1}

Str(word) == [word |-> word, upper |-> FALSE]
Capitals(word) == [word |-> word, upper |-> TRUE]
SomeWanted == {Str(p), Str(q), Capitals(q)}

\* The keys of a configuration as it is written, in their order
Keys(id, name, m, given) ==
  (IF id = Nothing THEN <<>> ELSE <<"_id">>) \o (IF name = Nothing THEN <<>> ELSE <<"name">>)
    \o <<"auth_method">> \o (IF given = {} THEN <<>> ELSE <<m>>)

Config(id, name, m, given) ==
  [id |-> id, name |-> name, method |-> m, given |-> given,
   token |-> IF m = "bearer_token" THEN Ending(6) ELSE NoToken,
   headers |-> m \in {"basic", "oauth2"},
   keys |-> Keys(id, name, m, given)]

One(c) == [kind |-> "one", configs |-> <<c>>, includes |-> <<>>]
List(cs) == [kind |-> "list", configs |-> cs, includes |-> <<>>]
Many(includes, cs) == [kind |-> "many", configs |-> cs, includes |-> includes]
Missing == [kind |-> "missing", configs |-> <<>>, includes |-> <<>>]
Etp(includes, main) ==
  [kind |-> "etp", configs |-> <<>>, includes |-> includes, main |-> main]

\* Everything that a method needs, or one thing less
Whole(m) == Config(Str(p), Str(q), m, Fields(m))
Short == {Config(Str(p), Nothing, m, Fields(m) \ {k}) : m \in {"azure_ad", "oauth2"}, k \in {"client_id"}}

\* The id of one server is the name of another.
Basic == Config(Str(q), Str(p), "basic", Fields("basic"))
Azure == Config(Str(p), Str(q), "azure_ad", {"scope"})
NoName == Config(Nothing, Nothing, "bearer_token", Fields("bearer_token"))
NoId == Config(Nothing, Capitals(q), "basic", Fields("basic"))
NoServer == Config(Str(q), Nothing, "none", {})
Bearer == Config(Str(r), Nothing, "bearer_token", {"bearer_token"})

\* Configurations of two keys each
NoAuth == {Config(Str(w), Nothing, "none", {}) : w \in {p, q}}
Anonymous == Config(Nothing, Nothing, "oauth2", Fields("oauth2"))
Unread == [NoServer EXCEPT !.keys = <<"auth_method", "url">>]

On == [k \in {"USERNAME", "PASSWORD"} |-> TRUE]
Token == [k \in {"ACCESS_TOKEN"} |-> TRUE]
Off == [k \in {"USERNAME"} |-> FALSE]
None == [k \in {} |-> TRUE]

Env(server, set) == [server |-> server, set |-> set]
Bare == Env(Nothing, {})
Rich == Env(Capitals(q), {"USERNAME", "PASSWORD", "ADDITIONAL_HEADERS"})

Singles == {One(Whole(m)) : m \in AllMethods} \cup {One(c) : c \in Short}
Groups ==
  {List(<<NoId>>), List(<<Basic, NoId>>),
   Many(<<Missing, One(Basic), List(<<NoId, Bearer>>)>>, <<Azure>>),
   Many(<<Many(<<One(Azure)>>, <<>>)>>, <<Basic, NoServer>>),
   Many(<<One(Bearer)>>, <<NoName, Basic>>)}
Pairs ==
  {List(SetToSeq(NoAuth)), List(<<NoServer, Anonymous>>), List(<<Unread, Unread>>)}
Others ==
  {Missing, List(<<>>), Many(<<>>, <<>>), Etp(<<>>, None), Etp(<<None>>, Off),
   Etp(<<Off>>, On), Etp(<<>>, Token)}

Source(file, wanted, env) == [file |-> file, wanted |-> wanted, env |-> env]
SomeSources ==
  {Source(f, Nothing, Bare) : f \in Singles}
    \cup {Source(f, Nothing, e) : f \in Others, e \in {Bare, Rich}}
    \cup {Source(f, w, Bare) : f \in Groups, w \in SomeWanted \cup {Nothing}}
    \cup {Source(f, Str(q), e) : f \in Groups \cup Pairs, e \in {Bare, Rich}}

=============================================================================
