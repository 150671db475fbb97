---------------------------- MODULE Credentials ----------------------------
(***************************************************************************)
(* TokenManager: the cached token of a configuration, its expiry and the   *)
(* requests that renew it (src/py_etp_client/auth.py).                     *)
(*                                                                         *)
(* A token is modelled by what the provider knows of it: when it ends.     *)
(* The manager reckons an end of its own, from the moment at which it has  *)
(* the answer, and takes a token for valid until thirty seconds before.    *)
(* What google-auth tells as a time of UTC it reads as one of the zone of  *)
(* the host.                                                               *)
(*                                                                         *)
(* The providers are external: they issue a token at some moment between   *)
(* the request and its answer, or fail.  One thread uses the manager.      *)
(***************************************************************************)
EXTENDS Integers

CONSTANTS
  Methods,   \* the methods of authentication that are looked at
  Lives,     \* how long the tokens last that providers issue
  Buffer,    \* the thirty seconds of is_token_valid()
  Delay,     \* for each method, how long a request for a token may take
  Tellings,  \* how an answer may tell the life: "number", "garbled", "nothing"
  Unsaid,    \* the 3600 seconds that are taken for a life that is not told
  Zones,     \* how far the hosts are ahead of UTC
  Start,     \* the first moment of the clock, long after 1970
  Horizon    \* bound: the last moment of the clock

Online == {"oauth2", "azure_ad", "aws_cognito", "gcp_oauth"}
AuthMethod == Online \cup {"basic", "bearer_token", "none"}

ASSUME CredentialsAssumption ==
  /\ Methods \subseteq AuthMethod
  /\ Lives \subseteq Nat
  /\ Buffer \in Nat
  /\ Delay \in [Methods -> Nat]
  /\ Tellings \subseteq {"number", "garbled", "nothing"}
  /\ Unsaid \in Nat
  /\ Start \in Nat \ {0}
  /\ Zones \subseteq Int /\ \A zone \in Zones : zone < Start
  /\ Horizon \in Nat

VARIABLES
  method,     \* auth_method
  complete,   \* the fields that the method needs are set
  cached,     \* cached_token
  expiresAt,  \* token_expires_at
  now,        \* the clock
  asked,      \* when the request in flight was sent
  caller,     \* the operation in progress, or "nobody"
  outcome     \* how the operation that just ended did: where from, and what

setVars == <<method, complete>>
vars == <<setVars, cached, expiresAt, now, asked, caller, outcome>>

-----------------------------------------------------------------------------
\* A token ends or not, or the manager was not told when: it ends at no moment
\* before that of its issue.
Tokens == [kind : {"no", "endless", "ending", "untold"}, until : Nat]
NoToken == [kind |-> "no", until |-> 0]
Endless == [kind |-> "endless", until |-> 0]
Ending(t) == [kind |-> "ending", until |-> t]
Untold(t) == [kind |-> "untold", until |-> t]

Hand(from, token) == outcome' = [from |-> from, token |-> token]

Init ==
  /\ method \in Methods
  /\ complete \in BOOLEAN
  /\ now = Start
  /\ cached \in {NoToken} \cup
       (IF method = "bearer_token" THEN {Ending(now + l) : l \in Lives} ELSE {})
  /\ expiresAt \in {0} \cup
       (IF cached.kind = "ending" THEN {cached.until} ELSE {})
  /\ asked = 0
  /\ caller = "nobody"
  /\ outcome = [from |-> "nothing", token |-> NoToken]

\* get_active_config() knows the method.
Configured == method # "none"

\* Seeded bug: the buffer is added.
ValidTooLong ==
  /\ cached.kind # "no"
  /\ expiresAt = 0 \/ now < expiresAt + Buffer

\* Seeded bug: the buffer is taken off twice.
ValidTooShort ==
  /\ cached.kind # "no"
  /\ expiresAt = 0 \/ now < expiresAt - 2 * Buffer

\* is_token_valid(); an expiry of zero means none
Valid ==
  /\ cached.kind # "no"
  /\ expiresAt = 0 \/ now < expiresAt - Buffer

\* A basic token is made from what the user gave, and cached without an expiry.
BasicAuthToken ==
  /\ cached' = Endless
  /\ expiresAt' = 0
  /\ Hand("config", Endless)

\* get_token() without a request
Answer ==
  \/ /\ method = "none"
     /\ Hand("config", NoToken)
     /\ UNCHANGED <<cached, expiresAt>>
  \/ /\ method = "bearer_token"
     /\ Hand("config", cached)
     /\ UNCHANGED <<cached, expiresAt>>
  \/ /\ method = "basic" /\ complete
     /\ BasicAuthToken
  \/ /\ method \in Online \cup {"basic"} /\ ~complete
     /\ Hand(IF method = "azure_ad" THEN "raised" ELSE "config", NoToken)
     /\ UNCHANGED <<cached, expiresAt>>

\* get_token() that asks the provider
Request(who) ==
  /\ method \in Online /\ complete
  /\ caller' = who
  /\ asked' = now
  /\ Hand("nothing", NoToken)
  /\ UNCHANGED <<cached, expiresAt>>

Get(who) ==
  \/ Answer /\ UNCHANGED <<caller, asked>>
  \/ Request(who)

GetToken ==
  /\ caller = "nobody"
  /\ Get("get_token")
  /\ UNCHANGED <<setVars, now>>

\* refresh_token_if_needed(); get_active_config() raises when there is none
Refresh ==
  /\ caller = "nobody"
  /\ \/ /\ ~Configured
        /\ Hand("raised", NoToken)
        /\ UNCHANGED <<cached, expiresAt, asked, caller>>
     \/ /\ Configured /\ Valid
        /\ Hand("cache", cached)
        /\ UNCHANGED <<cached, expiresAt, asked, caller>>
     \/ /\ Configured /\ ~Valid
        /\ Get("refresh")
  /\ UNCHANGED <<setVars, now>>

\* In what zone the end of a token is read: that of the host, for the datetime
\* without a zone that google-auth gives.
ZonesOf(m) == IF m = "gcp_oauth" THEN Zones ELSE {0}

\* The end that the manager reckons for a token that has just arrived.  It has
\* none when the life is no number, which raises, nor when google-auth tells
\* nothing; the others assume a life.
Reckonings(life, telling) ==
  CASE telling = "number" -> {now + life - zone : zone \in ZonesOf(method)}
    [] telling = "nothing" /\ method # "gcp_oauth" -> {now + Unsaid}
    [] OTHER -> {expiresAt}

\* The token arrives: it is cached, then its expiry is reckoned, or stays that of
\* the token before.
Granted ==
  /\ caller # "nobody"
  /\ \E issued \in asked..now, life \in Lives, telling \in Tellings :
       /\ telling = "garbled" => method # "gcp_oauth"
       /\ cached' = IF telling = "number" THEN Ending(issued + life) ELSE Untold(issued)
       /\ expiresAt' \in Reckonings(life, telling)
       /\ Hand("provider", IF telling = "garbled" THEN NoToken ELSE cached')
  /\ caller' = "nobody"
  /\ UNCHANGED <<setVars, now, asked>>

\* An error of the provider, or an answer without a token: None.
NotGranted ==
  /\ caller # "nobody"
  /\ Hand("provider", NoToken)
  /\ caller' = "nobody"
  /\ UNCHANGED <<setVars, cached, expiresAt, now, asked>>

Tick ==
  /\ now < Horizon
  /\ caller # "nobody" => now < asked + Delay[method]
  /\ now' = now + 1
  /\ Hand("nothing", NoToken)
  /\ UNCHANGED <<setVars, cached, expiresAt, asked, caller>>

Next == GetToken \/ Refresh \/ Granted \/ NotGranted \/ Tick

Spec == Init /\ [][Next]_vars

-----------------------------------------------------------------------------
(***************************************************************************)
(* Properties                                                              *)
(***************************************************************************)

\* The cache holds no token, or one that ends or not; what was handed out came
\* from the cache, the configuration or the provider.
TypeOK ==
  /\ method \in Methods
  /\ complete \in BOOLEAN
  /\ cached \in Tokens
  /\ expiresAt \in Nat
  /\ now \in Nat
  /\ asked \in Nat
  /\ caller \in {"nobody", "get_token", "refresh"}
  /\ outcome \in [from : {"nothing", "cache", "config", "provider", "raised"},
                  token : Tokens]

\* refresh_token_if_needed() does not take from the cache a token that has
\* ended at its provider: what the manager does not know, how old the token
\* was when it arrived, is within the buffer when no request takes longer.
\* A token of google-auth may have ended by as much as the host is behind UTC.
\* A bearer token is the user's, who may give no expiry.
NeverStale ==
  outcome.from = "cache" /\ method # "bearer_token"
      /\ outcome.token.kind = "ending"
    => \E zone \in ZonesOf(method) :
         now + Buffer < outcome.token.until - zone + Delay[method]

\* refresh_token_if_needed() asks for a token only when the one it has is
\* within the buffer of its end, for google-auth by the time of a host that is
\* ahead of UTC; or when it was not told that end.
NoNeedlessRequest ==
  caller = "refresh" /\ cached.kind \notin {"no", "untold"} =>
    /\ cached.kind = "ending"
    /\ \E zone \in ZonesOf(method) : cached.until - zone <= asked + Buffer

=============================================================================
