------------------------- MODULE CredentialsProofs -------------------------
(***************************************************************************)
(* What refresh_token_if_needed() takes from the cache is alive, and what  *)
(* it asks for is needed, for every provider, buffer and delay; and so it  *)
(* is when configurations are read, saved and read again, and clients are  *)
(* made with the token (Login), which has not ended before it was asked    *)
(* for.  The configuration is that of the server that was named, from      *)
(* whatever files, and a client that is made of it is authorized.          *)
(***************************************************************************)
EXTENDS Login, SequenceTheorems, WellFoundedInduction, TLAPS

-----------------------------------------------------------------------------
(***************************************************************************)
(* The inductive invariant                                                 *)
(***************************************************************************)

\* A token of a method ends at most the delay of a request before the moment that
\* the manager reckons, and never after it, by the time of some host.
ReckonedWell(m, token, end) ==
  /\ end # 0
  /\ \E zone \in ZonesOf(m) :
       /\ token.until - zone <= end
       /\ end <= token.until - zone + Delay[m]

\* The cached token of a provider is reckoned well.
Reckoned ==
  method # "bearer_token" /\ cached.kind = "ending" =>
    ReckonedWell(method, cached, expiresAt)

\* Only a token that does not end has no expiry.
NoExpiry == cached.kind = "endless" => expiresAt = 0

\* What a configuration gives as a bearer token has its own expiry, or none.
Given ==
  method = "bearer_token" /\ cached.kind = "ending" =>
    expiresAt = 0 \/ expiresAt = cached.until

\* A request is in flight no longer than its delay, and of a method that asks.
InFlight ==
  caller # "nobody" =>
    /\ method \in Online
    /\ asked <= now
    /\ now <= asked + Delay[method]

Cleared == outcome.from = "cache" => caller = "nobody"

CInv ==
  /\ TypeOK
  /\ now >= Start
  /\ Reckoned
  /\ NoExpiry
  /\ Given
  /\ InFlight
  /\ Cleared
  /\ NeverStale
  /\ NoNeedlessRequest

-----------------------------------------------------------------------------
\* A token that does not end, one that does, and none.
LEMMA TokenTypes ==
  /\ \A t \in Nat : Untold(t) \in Tokens /\ Untold(t).kind = "untold" /\ Untold(t).until = t
  /\ NoToken \in Tokens /\ NoToken.kind = "no"
  /\ Endless \in Tokens /\ Endless.kind = "endless"
  /\ \A t \in Nat : /\ Ending(t) \in Tokens
                    /\ Ending(t).kind = "ending" /\ Ending(t).until = t
BY DEF NoToken, Endless, Ending, Untold, Tokens

\* A zone is a number, before the first moment of the clock.
LEMMA ZoneTypes ==
  /\ Start \in Nat \ {0}
  /\ \A m : \A zone \in ZonesOf(m) : zone \in Int /\ zone < Start
BY CredentialsAssumption DEF ZonesOf

\* A TokenManager begins with an empty cache.
LEMMA Initially == Init => CInv
BY CredentialsAssumption
   DEF Init, CInv, TypeOK, Tokens, NoToken, Ending, Reckoned, NoExpiry, Given,
       InFlight, Cleared, NeverStale, NoNeedlessRequest

\* An answer without a request gives what the user gave, or an endless token.
LEMMA AnswerKeeps ==
  ASSUME CInv, Answer, caller = "nobody", UNCHANGED <<setVars, now, caller, asked>>
  PROVE  CInv'
<1> USE TokenTypes DEF CInv
<1>1. TypeOK'
  BY DEF TypeOK, Answer, BasicAuthToken, Hand, setVars
<1>2. now' >= Start /\ InFlight' /\ Cleared' /\ NeverStale' /\ NoNeedlessRequest'
  BY DEF Answer, BasicAuthToken, Hand, setVars, InFlight, Cleared,
         NeverStale, NoNeedlessRequest
<1>3. Reckoned' /\ NoExpiry' /\ Given'
  BY DEF Answer, BasicAuthToken, setVars, Reckoned, NoExpiry, Given
<1> QED BY <1>1, <1>2, <1>3

\* A request leaves the cache as it is; refresh_token_if_needed() makes it only
\* when the cached token is not valid.
LEMMA RequestKeeps ==
  ASSUME CInv, NEW who \in {"get_token", "refresh"}, Request(who),
         who = "refresh" => ~Valid, UNCHANGED <<setVars, now>>
  PROVE  CInv'
<1> USE TokenTypes DEF CInv
<1>1. TypeOK'
  BY DEF TypeOK, Request, Hand, setVars
<1>2. InFlight'
  <2>1. Delay[method] \in Nat
    BY CredentialsAssumption DEF TypeOK
  <2> QED BY <2>1 DEF TypeOK, Request, setVars, InFlight
<1>3. NoNeedlessRequest'
  <2> SUFFICES ASSUME who = "refresh", cached.kind \notin {"no", "untold"}
               PROVE  /\ cached.kind = "ending"
                      /\ \E zone \in ZonesOf(method) : cached.until - zone <= now + Buffer
    BY DEF Request, NoNeedlessRequest, setVars
  <2>1. expiresAt # 0 /\ ~(now < expiresAt - Buffer)
    BY DEF Valid
  <2>2. cached.kind = "ending"
    BY <2>1 DEF TypeOK, Tokens, NoExpiry
  <2>3. PICK zone \in ZonesOf(method) : cached.until - zone <= expiresAt
    BY <2>2 DEF Request, Online, Reckoned, ReckonedWell
  <2>4. zone \in Int /\ {cached.until, expiresAt, now, Buffer} \subseteq Nat
    BY ZoneTypes, CredentialsAssumption DEF TypeOK, Tokens
  <2> QED BY <2>1, <2>2, <2>3, <2>4
<1>4. /\ now' >= Start /\ Cleared' /\ NeverStale'
      /\ Reckoned' /\ NoExpiry' /\ Given'
  BY DEF Request, Hand, setVars, Cleared, NeverStale, Reckoned, NoExpiry, Given
<1> QED BY <1>1, <1>2, <1>3, <1>4

\* get_token() asks, whatever is cached.
LEMMA GetTokenKeeps == CInv /\ GetToken => CInv'
BY AnswerKeeps, RequestKeeps DEF GetToken, Get

\* What is valid for the manager has not ended at the provider, but for the
\* delay that the buffer does not cover.
LEMMA RefreshKeeps == CInv /\ Refresh => CInv'
<1> SUFFICES ASSUME CInv, Refresh PROVE CInv'
  OBVIOUS
<1> USE DEF CInv
<1>1. CASE Configured /\ ~Valid /\ Get("refresh")
  BY <1>1, AnswerKeeps, RequestKeeps DEF Refresh, Get
<1>2. CASE /\ ~Configured
           /\ Hand("raised", NoToken)
           /\ UNCHANGED <<cached, expiresAt, asked, caller>>
  BY <1>2, TokenTypes
     DEF Refresh, Hand, setVars, TypeOK, Reckoned, NoExpiry, Given, InFlight,
         Cleared, NeverStale, NoNeedlessRequest
<1>3. CASE /\ Configured /\ Valid
           /\ Hand("cache", cached)
           /\ UNCHANGED <<cached, expiresAt, asked, caller>>
  <2>1. UNCHANGED <<method, complete, now, cached, expiresAt, asked, caller>>
    BY <1>3 DEF Refresh, setVars
  <2>2. outcome' = [from |-> "cache", token |-> cached] /\ caller = "nobody"
    BY <1>3 DEF Hand, Refresh
  <2>3. TypeOK'
    BY <2>1, <2>2 DEF TypeOK
  <2>4. NeverStale'
    <3> SUFFICES ASSUME method # "bearer_token", cached.kind = "ending"
                 PROVE  \E zone \in ZonesOf(method) :
                          now + Buffer < cached.until - zone + Delay[method]
      BY <2>1, <2>2 DEF NeverStale
    <3>1. now < expiresAt - Buffer
      BY <1>3 DEF Valid, Reckoned, ReckonedWell
    <3>2. PICK zone \in ZonesOf(method) : expiresAt <= cached.until - zone + Delay[method]
      BY DEF Reckoned, ReckonedWell
    <3>3. /\ {now, expiresAt, Buffer, cached.until, Delay[method]} \subseteq Nat
          /\ zone \in Int
      BY ZoneTypes, CredentialsAssumption DEF TypeOK, Tokens
    <3> QED BY <3>1, <3>2, <3>3
  <2>5. /\ now' >= Start /\ Reckoned' /\ NoExpiry' /\ Given' /\ InFlight' /\ Cleared'
        /\ NoNeedlessRequest'
    BY <2>1, <2>2 DEF Reckoned, NoExpiry, Given, InFlight, Cleared,
                      NoNeedlessRequest
  <2> QED BY <2>3, <2>4, <2>5
<1> QED BY <1>1, <1>2, <1>3 DEF Refresh

\* A token that arrives is younger than the request and older than its answer.
LEMMA GrantedKeeps == CInv /\ Granted => CInv'
<1> SUFFICES ASSUME CInv, Granted PROVE CInv'
  OBVIOUS
<1> USE DEF CInv
<1> PICK issued \in asked..now, life \in Lives, telling \in Tellings :
      /\ telling = "garbled" => method # "gcp_oauth"
      /\ cached' = IF telling = "number" THEN Ending(issued + life) ELSE Untold(issued)
      /\ expiresAt' \in Reckonings(life, telling)
      /\ outcome' = [from |-> "provider",
                      token |-> IF telling = "garbled" THEN NoToken ELSE cached']
  BY DEF Granted, Hand
<1>1. /\ caller # "nobody" /\ caller' = "nobody"
      /\ UNCHANGED <<method, complete, now, asked>>
  BY DEF Granted, setVars
<1>2. /\ method \in Online /\ telling \in {"number", "garbled", "nothing"}
      /\ {asked, now, issued, life, expiresAt, Unsaid, Delay[method]} \subseteq Nat
      /\ issued <= now /\ now <= issued + Delay[method]
  <2>1. /\ {asked, now, life, expiresAt, Unsaid, Delay[method]} \subseteq Nat
        /\ telling \in {"number", "garbled", "nothing"}
    BY CredentialsAssumption DEF TypeOK
  <2>2. issued \in Nat /\ asked <= issued /\ issued <= now
    BY <2>1
  <2> QED BY <1>1, <2>1, <2>2 DEF InFlight
<1>3. IF telling = "number"
        THEN cached' \in Tokens /\ cached'.kind = "ending" /\ cached'.until = issued + life
        ELSE cached' \in Tokens /\ cached'.kind = "untold"
  BY <1>2, TokenTypes
<1>4. ASSUME telling = "number"
      PROVE  /\ expiresAt' \in Nat /\ expiresAt' # 0
             /\ \E zone \in ZonesOf(method) : expiresAt' = now + life - zone
  <2>1. PICK zone \in ZonesOf(method) : expiresAt' = now + life - zone
    BY <1>4 DEF Reckonings
  <2>2. zone \in Int /\ zone < Start /\ Start \in Nat /\ now >= Start
    BY ZoneTypes
  <2> QED BY <1>2, <2>1, <2>2
<1>5. expiresAt' \in Nat
  <2>1. CASE telling = "number"
    BY <1>4, <2>1
  <2>2. CASE telling # "number"
    <3>1. expiresAt' \in {expiresAt, now + Unsaid}
      BY <2>2 DEF Reckonings
    <3> QED BY <1>2, <3>1
  <2> QED BY <2>1, <2>2
<1>6. TypeOK'
  BY <1>1, <1>3, <1>5, TokenTypes DEF TypeOK
<1>7. Reckoned'
  <2> SUFFICES ASSUME telling = "number"
               PROVE  ReckonedWell(method, cached', expiresAt')
    BY <1>1, <1>3 DEF Reckoned
  <2>1. PICK zone \in ZonesOf(method) : expiresAt' = now + life - zone
    BY <1>4
  <2>2. zone \in Int /\ cached'.until = issued + life
    BY <1>3, ZoneTypes
  <2>3. cached'.until - zone <= expiresAt' /\ expiresAt' <= cached'.until - zone + Delay[method]
    BY <1>2, <2>1, <2>2
  <2> QED BY <1>4, <2>3 DEF ReckonedWell
<1>8. NoExpiry' /\ Given'
  BY <1>1, <1>2, <1>3 DEF NoExpiry, Given, Online
<1>9. now' >= Start /\ InFlight' /\ Cleared' /\ NeverStale' /\ NoNeedlessRequest'
  BY <1>1 DEF InFlight, Cleared, NeverStale, NoNeedlessRequest
<1> QED BY <1>6, <1>7, <1>8, <1>9

\* A refused or failed request leaves the cache as it is.
LEMMA NotGrantedKeeps == CInv /\ NotGranted => CInv'
BY TokenTypes
   DEF CInv, NotGranted, Hand, setVars, TypeOK, Reckoned, NoExpiry, Given,
       InFlight, Cleared, NeverStale, NoNeedlessRequest

\* Time passes, but not beyond the timeout of a request in flight.
LEMMA TickKeeps == CInv /\ Tick => CInv'
<1> SUFFICES ASSUME CInv, Tick PROVE CInv'
  OBVIOUS
<1> USE DEF CInv
<1>1. /\ UNCHANGED <<method, complete, cached, expiresAt, asked, caller>>
      /\ now' = now + 1 /\ outcome' = [from |-> "nothing", token |-> NoToken]
  BY DEF Tick, setVars, Hand
<1>2. {now, asked, Delay[method]} \subseteq Nat
  BY CredentialsAssumption DEF TypeOK
<1>3. TypeOK' /\ now' >= Start
  BY <1>1, <1>2, TokenTypes, ZoneTypes DEF TypeOK
<1>4. InFlight'
  BY <1>1, <1>2 DEF Tick, InFlight
<1>5. /\ Reckoned' /\ NoExpiry' /\ Given' /\ Cleared' /\ NeverStale'
      /\ NoNeedlessRequest'
  BY <1>1 DEF Reckoned, NoExpiry, Given, Cleared, NeverStale, NoNeedlessRequest
<1> QED BY <1>3, <1>4, <1>5

\* Nothing happens.
LEMMA StutterKeeps == CInv /\ UNCHANGED vars => CInv'
BY DEF CInv, vars, setVars, TypeOK, Reckoned, NoExpiry, Given, InFlight,
       Cleared, NeverStale, NoNeedlessRequest

-----------------------------------------------------------------------------
(***************************************************************************)
(* Theorems                                                                *)
(***************************************************************************)

\* CInv is an invariant, however the providers tell the life of a token.
THEOREM CacheInductive == Spec => []CInv
<1>1. CInv /\ [Next]_vars => CInv'
  BY GetTokenKeeps, RefreshKeeps, GrantedKeeps, NotGrantedKeeps, TickKeeps,
     StutterKeeps DEF Next
<1> QED BY Initially, <1>1, PTL DEF Spec

\* The variables of TokenManager keep their types.
THEOREM CacheTypes == Spec => []TypeOK
<1>1. CInv => TypeOK
  BY DEF CInv
<1> QED BY CacheInductive, <1>1, PTL

-----------------------------------------------------------------------------
(***************************************************************************)
(* With configurations and clients around it                               *)
(***************************************************************************)

\* Before a configuration is read nothing is asked or handed out.
Unread == config = Nothing => caller = "nobody" /\ outcome.from = "nothing"

\* What is saved of the cache is as the cache was.
SavedReckoned ==
  saved # Nothing =>
    /\ saved.method \in Methods /\ saved.token \in Tokens /\ saved.end \in Nat
    /\ saved.method # "bearer_token" /\ saved.token.kind = "ending" =>
         ReckonedWell(saved.method, saved.token, saved.end)
    /\ saved.token.kind = "endless" => saved.end = 0
    /\ saved.method = "bearer_token" /\ saved.token.kind = "ending" =>
         saved.end \in {0, saved.token.until}

LoginInv == CInv /\ Unread /\ SavedReckoned

\* A configuration comes into use between two requests, with a token whose end
\* is reckoned as the manager reckons it, or with none.
LEMMA UseKeeps ==
  ASSUME CInv, NEW c, NEW token \in Tokens, NEW end \in Nat, Use(c, token, end),
         c.method \in Methods, caller' = "nobody", outcome'.from = "nothing",
         outcome' \in [from : {"nothing", "cache", "config", "provider", "raised"},
                       token : Tokens],
         UNCHANGED <<now, asked>>,
         c.method # "bearer_token" /\ token.kind = "ending" =>
           ReckonedWell(c.method, token, end),
         token.kind = "endless" => end = 0,
         c.method = "bearer_token" /\ token.kind = "ending" => end \in {0, token.until}
  PROVE  CInv'
<1>1. method' = c.method /\ complete' \in BOOLEAN /\ cached' = token /\ expiresAt' = end
  BY DEF Use
<1>2. TypeOK' /\ now' >= Start
  BY <1>1 DEF CInv, TypeOK
<1>3. Reckoned' /\ NoExpiry' /\ Given'
  BY <1>1 DEF Reckoned, NoExpiry, Given
<1>4. InFlight' /\ Cleared' /\ NeverStale' /\ NoNeedlessRequest'
  BY <1>1 DEF InFlight, Cleared, NeverStale, NoNeedlessRequest
<1> QED
  BY <1>2, <1>3, <1>4 DEF CInv

\* A configuration is read once, before anything else.
LEMMA ReadKeeps ==
  ASSUME LoginInv, NEW source \in Sources, Read(source)
  PROVE  CInv'
<1> DEFINE c == Opened(source)
           token == IF "cached_token" \in c.given THEN c.token ELSE NoToken
<1>1. /\ UNCHANGED <<now, asked, caller, outcome>>
      /\ caller = "nobody" /\ outcome.from = "nothing"
  BY DEF LoginInv, Unread, Read
<1>2. CASE UNCHANGED <<setVars, cached, expiresAt>>
  BY <1>1, <1>2, StutterKeeps DEF LoginInv, vars
<1>3. CASE /\ c # Nothing
           /\ \E end \in {0, c.token.until} :
                Use(c, token, IF "cached_token" \in c.given THEN end ELSE 0)
  <2>1. PICK end \in {0, c.token.until} :
          Use(c, token, IF "cached_token" \in c.given THEN end ELSE 0)
    BY <1>3
  <2>2. /\ c.method \in Methods
        /\ c.token \in Tokens /\ c.token.kind \in {"no", "ending"}
        /\ "cached_token" \in c.given => c.method = "bearer_token"
    BY <1>3, LoginAssumption
  <2> HIDE DEF c
  <2>3. token \in Tokens /\ token.kind # "endless" /\ end \in Nat
    BY <2>2, TokenTypes DEF Tokens
  <2>4. token.kind = "ending" => c.method = "bearer_token" /\ token = c.token
    BY <2>2, TokenTypes
  <2> QED
    BY <1>1, <2>1, <2>2, <2>3, <2>4, UseKeeps DEF LoginInv, CInv, TypeOK
<1> QED
  BY <1>2, <1>3 DEF Read

\* Another process begins with what was saved.
LEMMA BootKeeps ==
  ASSUME LoginInv, Boot
  PROVE  CInv'
<1> DEFINE c == FromDict(saved, Anew(Alone), read.env)
<1>1. /\ saved # Nothing /\ Use(c, saved.token, saved.end)
      /\ caller' = "nobody" /\ UNCHANGED <<now, asked>>
      /\ outcome' = [from |-> "nothing", token |-> NoToken]
  BY DEF Boot, Hand
<1>2. c.method = saved.method
  BY DEF FromDict, PostInit
<1> HIDE DEF c
<1> QED
  BY <1>1, <1>2, TokenTypes, UseKeeps DEF LoginInv, SavedReckoned

\* The client is made with get_token(), the answer comes to the TokenManager, and
\* neither does to the cache what a TokenManager alone does not do.
LEMMA LoginStepKeeps ==
  ASSUME LoginInv, [LoginNext]_allVars
  PROVE  CInv'
<1> USE DEF LoginInv
<1>1. CASE \E source \in Sources : Read(source)
  BY <1>1, ReadKeeps
<1>2. CASE MakeClient
  <2>1. caller = "nobody" /\ UNCHANGED <<setVars, now>>
    BY <1>2 DEF MakeClient
  <2>2. Request("get_token") \/ (Answer /\ UNCHANGED <<caller, asked>>)
    BY <1>2 DEF MakeClient
  <2> QED
    BY <2>1, <2>2, AnswerKeeps, RequestKeeps
<1>3. CASE Answered
  BY <1>3, GrantedKeeps, NotGrantedKeeps DEF Answered
<1>4. CASE TokenStep
  BY <1>4, GetTokenKeeps, RefreshKeeps, TickKeeps DEF TokenStep
<1>5. CASE UNCHANGED vars
  BY <1>5, StutterKeeps
<1>6. CASE Boot
  BY <1>6, BootKeeps
<1>7. CASE \E how \in {"dotenv", "json"} : Save(how)
  BY <1>5, <1>7 DEF Save
<1> QED
  BY <1>1, <1>2, <1>3, <1>4, <1>5, <1>6, <1>7 DEF LoginNext, allVars

\* What is saved is reckoned as what is cached, which Save() writes or leaves out.
LEMMA SavedStepKeeps ==
  ASSUME LoginInv, [LoginNext]_allVars
  PROVE  SavedReckoned'
<1>1. CASE UNCHANGED saved
  BY <1>1 DEF LoginInv, SavedReckoned
<1>2. ASSUME NEW how \in {"dotenv", "json"}, Save(how) PROVE SavedReckoned'
  <2>1. /\ saved'.method = method
        /\ saved'.token = (IF how = "dotenv" THEN cached ELSE NoToken)
        /\ saved'.end = (IF how = "dotenv" THEN expiresAt ELSE 0)
    BY <1>2 DEF Save
  <2>2. TypeOK /\ Reckoned /\ NoExpiry /\ Given
    BY DEF LoginInv, CInv
  <2> QED
    BY <2>1, <2>2, TokenTypes DEF TypeOK, Reckoned, NoExpiry, Given, SavedReckoned
<1> QED
  BY <1>1, <1>2 DEF LoginNext, allVars, loginVars, Read, MakeClient, Answered, TokenStep, Boot

\* LoginInv is an invariant, however the providers tell the life of a token.
THEOREM LoginInductive == LoginSpec => []LoginInv
<1>0. "none" \in Methods
  BY LoginAssumption
<1>1. LoginInit => LoginInv
  <2> SUFFICES ASSUME LoginInit PROVE LoginInv
    OBVIOUS
  <2>1. /\ cached = NoToken /\ now = Start /\ caller = "nobody" /\ saved = Nothing
        /\ outcome = [from |-> "nothing", token |-> NoToken]
    BY DEF LoginInit
  <2>2. TypeOK
    BY <1>0, TokenTypes, ZoneTypes DEF LoginInit, TypeOK
  <2>3. CInv
    BY <2>1, <2>2, TokenTypes, ZoneTypes
       DEF CInv, Reckoned, NoExpiry, Given, InFlight, Cleared, NeverStale, NoNeedlessRequest
  <2> QED
    BY <2>1, <2>3 DEF LoginInv, Unread, SavedReckoned
<1>2. LoginInv /\ [LoginNext]_allVars => LoginInv'
  <2> SUFFICES ASSUME LoginInv, [LoginNext]_allVars PROVE LoginInv'
    OBVIOUS
  <2>1. \/ config # Nothing /\ UNCHANGED config
        \/ UNCHANGED <<caller, outcome>> /\ config = Nothing
        \/ UNCHANGED <<config, caller, outcome>>
        \/ Boot
    BY DEF LoginInv, Unread, LoginNext, allVars, vars, loginVars, configVars, Read,
           MakeClient, Answered, TokenStep, Save, Granted, NotGranted
  <2>2. Unread'
    BY <2>1 DEF LoginInv, Unread, Boot, Hand
  <2> QED
    BY <2>2, LoginStepKeeps, SavedStepKeeps DEF LoginInv
<1> QED
  BY <1>1, <1>2, PTL DEF LoginSpec

\* refresh_token_if_needed() takes no token from the cache that has ended at its
\* provider, but for what a request may take longer than the buffer, however the
\* cache was filled: by this process, or by one that saved its configuration.
THEOREM CacheIsNeverStale == LoginSpec => []NeverStale
<1>1. LoginInv => NeverStale
  BY DEF LoginInv, CInv
<1> QED BY LoginInductive, <1>1, PTL

\* It asks for a token only when the one it has is within the buffer of its end.
THEOREM RequestsAreNeeded == LoginSpec => []NoNeedlessRequest
<1>1. LoginInv => NoNeedlessRequest
  BY DEF LoginInv, CInv
<1> QED BY LoginInductive, <1>1, PTL

\* The constructor of a client takes the token that it has asked for, which was
\* issued after that, and never one that is cached.
THEOREM BornWithALiveToken == LoginSpec => NeverBornStale
<1> DEFINE Made == client' = "made" /\ <<client, header>>' # <<client, header>>
                     /\ method \in Online /\ outcome'.token.kind # "no"
           Fresh == header'.until >= now - Delay[method] \/ own'
<1>1. LoginInv /\ [LoginNext]_allVars => [Made => Fresh]_allVars
  <2> SUFFICES ASSUME LoginInv, LoginNext, Made PROVE Fresh
    OBVIOUS
  <2>1. TypeOK /\ InFlight
    BY DEF LoginInv, CInv
  <2>2. MakeClient \/ (Answered /\ client = "making")
    BY DEF LoginNext, loginVars, clientVars, Read, Answered, TokenStep, Save, Boot
  <2>3. CASE MakeClient
    <3>1. Answer
      BY <2>3 DEF MakeClient
    <3>2. outcome'.token = NoToken
      BY <3>1 DEF Answer, Hand, BasicAuthToken, Online
    <3> QED
      BY <3>2, TokenTypes
  <2>4. CASE Answered /\ client = "making"
    <3>1. Finish(outcome'.token, outcome'.token.kind = "no") /\ (Granted \/ NotGranted)
      BY <2>4 DEF Answered
    <3>2. Granted
      BY <3>1, TokenTypes DEF NotGranted, Hand
    <3>3. PICK issued \in asked..now, life \in Lives :
            outcome'.token \in {Ending(issued + life), Untold(issued)}
      BY <3>2, TokenTypes DEF Granted, Hand
    <3>4. /\ {issued, life, asked, now, Delay[method]} \subseteq Nat
          /\ asked <= issued /\ now <= asked + Delay[method]
      BY <2>1, <3>2, CredentialsAssumption DEF TypeOK, InFlight, Granted
    <3>5. outcome'.token.until \in {issued + life, issued}
      BY <3>3, <3>4, TokenTypes
    <3>6. header' = outcome'.token \/ own'
      BY <3>1 DEF Finish
    <3> QED
      BY <3>4, <3>5, <3>6
  <2> QED
    BY <2>2, <2>3, <2>4
<1> QED
  BY <1>1, LoginInductive, PTL DEF LoginSpec, NeverBornStale

-----------------------------------------------------------------------------
(***************************************************************************)
(* Places in files                                                         *)
(***************************************************************************)

\* A set of numbers that is not empty has a least one.
LEMMA LeastNumber ==
  ASSUME NEW S \in SUBSET Nat, S # {}
  PROVE  \E x \in S : \A y \in S : x <= y
<1>1. PICK x \in S : \A y \in S : ~(<<y, x>> \in OpToRel(<, Nat))
  BY NatLessThanWellFounded, WFMin
<1>2. ASSUME NEW y \in S PROVE ~(y < x)
  <2>1. y \in Nat /\ x \in Nat /\ <<y, x>> \in Nat \X Nat
    OBVIOUS
  <2>2. y < x => <<y, x>> \in OpToRel(<, Nat)
    BY <2>1, Zenon DEF OpToRel
  <2> QED
    BY <1>1, <2>2
<1> QED
  BY <1>2

\* One that is bounded has a greatest one.
LEMMA GreatestNumber ==
  ASSUME NEW S \in SUBSET Nat, S # {}, NEW n \in Nat, \A y \in S : y <= n
  PROVE  \E x \in S : \A y \in S : y <= x
<1> DEFINE T == {n - y : y \in S}
<1>1. T \in SUBSET Nat /\ T # {}
  <2>1. \A y \in S : y \in Nat /\ n - y \in Nat
    OBVIOUS
  <2> QED
    BY <2>1
<1>2. PICK z \in T : \A t \in T : z <= t
  BY <1>1, LeastNumber
<1>3. PICK x \in S : z = n - x
  OBVIOUS
<1>4. ASSUME NEW y \in S PROVE y <= x
  <2>1. n - y \in T
    OBVIOUS
  <2>2. z <= n - y
    BY <1>2, <2>1
  <2>3. x \in Nat /\ y \in Nat
    OBVIOUS
  <2> QED
    BY <1>3, <2>2, <2>3
<1> QED
  BY <1>4

\* Some places have an earliest among them.
LEMMA EarliestIsIn ==
  ASSUME NEW S \in SUBSET (Nat \X Nat), S # {}
  PROVE  Earliest(S) \in S
<1> DEFINE lists == {a[1] : a \in S}
<1>1. \A a \in S : a[1] \in Nat /\ a[2] \in Nat
  OBVIOUS
<1>2. PICK i \in lists : \A l \in lists : i <= l
  <2>1. lists \in SUBSET Nat /\ lists # {}
    BY <1>1
  <2> QED
    BY <2>1, LeastNumber
<1> DEFINE there == {a \in S : a[1] = i}
           indices == {a[2] : a \in there}
<1>3. PICK j \in indices : \A l \in indices : j <= l
  <2>1. indices \in SUBSET Nat /\ indices # {}
    BY <1>1, <1>2
  <2> QED
    BY <2>1, LeastNumber
<1>4. PICK a \in there : a[2] = j
  BY <1>3
<1>5. ASSUME NEW b \in S PROVE ~Before(b, a)
  <2>1. a[1] = i /\ i <= b[1] /\ a[1] \in Nat /\ b[1] \in Nat
    BY <1>1, <1>2, <1>4
  <2>2. b[1] = a[1] => a[2] <= b[2]
    BY <1>3, <1>4, <2>1
  <2>3. a[2] \in Nat /\ b[2] \in Nat
    BY <1>1, <1>4
  <2> QED
    BY <2>1, <2>2, <2>3 DEF Before
<1> QED
  BY <1>4, <1>5 DEF Earliest

\* Some places in a file have a latest among them.
LEMMA LatestIsIn ==
  ASSUME NEW S \in SUBSET (Nat \X Nat), S # {},
         NEW m \in Nat, NEW n \in [Nat -> Nat],
         \A a \in S : a[1] <= m /\ a[2] <= n[a[1]]
  PROVE  Latest(S) \in S
<1> DEFINE lists == {a[1] : a \in S}
<1>1. \A a \in S : a[1] \in Nat /\ a[2] \in Nat
  OBVIOUS
<1>2. PICK i \in lists : \A l \in lists : l <= i
  <2>1. lists \in SUBSET Nat /\ lists # {} /\ \A l \in lists : l <= m
    BY <1>1
  <2> QED
    BY <2>1, GreatestNumber
<1> DEFINE there == {a \in S : a[1] = i}
           indices == {a[2] : a \in there}
<1>3. PICK j \in indices : \A l \in indices : l <= j
  <2>1. indices \in SUBSET Nat /\ indices # {}
    BY <1>1, <1>2
  <2>2. n[i] \in Nat /\ \A l \in indices : l <= n[i]
    BY <1>1, <1>2
  <2> QED
    BY <2>1, <2>2, GreatestNumber
<1>4. PICK a \in there : a[2] = j
  BY <1>3
<1>5. ASSUME NEW b \in S PROVE ~Before(a, b)
  <2>1. a[1] = i /\ b[1] <= i /\ a[1] \in Nat /\ b[1] \in Nat
    BY <1>1, <1>2, <1>4
  <2>2. b[1] = a[1] => b[2] <= a[2]
    BY <1>3, <1>4, <2>1
  <2>3. a[2] \in Nat /\ b[2] \in Nat
    BY <1>1, <1>4
  <2> QED
    BY <2>1, <2>2, <2>3 DEF Before
<1> QED
  BY <1>4, <1>5 DEF Latest

-----------------------------------------------------------------------------
(***************************************************************************)
(* What is read of files                                                   *)
(***************************************************************************)

\* A source whose file is not that of an ETPConfig
FileSource(source) == source \in Sources /\ source.file.kind # "etp"

\* The parts of a file are what each included file has, and what it has itself.
LEMMA PartsShape ==
  ASSUME NEW source, FileSource(source)
  PROVE  LET file == source.file
             m == Len(file.includes)
         IN /\ m \in Nat /\ DOMAIN file.includes = 1..m
            /\ DOMAIN Parts(file) = 1..(m + 1)
            /\ \A i \in 1..m : Parts(file)[i] = Included(file.includes[i])
            /\ Parts(file)[m + 1] = file.configs
            /\ \A i \in 1..(m + 1) : /\ Len(Parts(file)[i]) \in Nat
                                     /\ DOMAIN Parts(file)[i] = 1..Len(Parts(file)[i])
<1> DEFINE file == source.file
           m == Len(file.includes)
           s == [i \in DOMAIN file.includes |-> Included(file.includes[i])]
           t == <<file.configs>>
           S == Range(s) \cup {file.configs}
<1>1. /\ file.includes \in Seq(Range(file.includes))
      /\ \A part \in Range(Parts(file)) : part \in Seq(Range(part))
  BY SourcesAssumption DEF FileSource
<1>2. m \in Nat /\ DOMAIN file.includes = 1..m
  BY <1>1
<1>3. s \in Seq(S) /\ Len(s) = m
  <2>1. s = [i \in 1..m |-> Included(file.includes[i])]
    BY <1>2
  <2>2. \A i \in 1..m : Included(file.includes[i]) \in S
    BY <1>2 DEF Range
  <2> HIDE DEF m, S, s
  <2> QED
    BY <1>2, <2>1, <2>2
<1>4. t \in Seq(S) /\ Len(t) = 1 /\ t[1] = file.configs
  OBVIOUS
<1>5. Parts(file) = s \o t
  BY DEF Parts
<1> HIDE DEF S, s, t, m, file
<1>6. /\ Len(s \o t) = m + 1 /\ s \o t \in Seq(S)
      /\ \A i \in 1..(m + 1) : (s \o t)[i] = IF i <= m THEN s[i] ELSE t[i - m]
  <2>1. /\ Len(s \o t) = Len(s) + Len(t) /\ s \o t \in Seq(S)
        /\ \A i \in 1..(Len(s) + Len(t)) :
             (s \o t)[i] = IF i <= Len(s) THEN s[i] ELSE t[i - Len(s)]
    BY <1>3, <1>4, ConcatProperties
  <2> QED
    BY <1>3, <1>4, <2>1
<1>7. DOMAIN Parts(file) = 1..(m + 1)
  BY <1>2, <1>5, <1>6
<1>8. \A i \in 1..m : Parts(file)[i] = Included(file.includes[i])
  <2>1. \A i \in 1..m : i <= m /\ i \in 1..(m + 1)
    BY <1>2
  <2>2. \A i \in 1..m : s[i] = Included(file.includes[i])
    BY <1>2 DEF s
  <2> QED
    BY <1>5, <1>6, <2>1, <2>2
<1>9. Parts(file)[m + 1] = file.configs
  <2>1. ~(m + 1 <= m) /\ m + 1 \in 1..(m + 1) /\ (m + 1) - m = 1
    BY <1>2
  <2> QED
    BY <1>4, <1>5, <1>6, <2>1
<1>10. \A i \in 1..(m + 1) : /\ Len(Parts(file)[i]) \in Nat
                             /\ DOMAIN Parts(file)[i] = 1..Len(Parts(file)[i])
  <2> SUFFICES ASSUME NEW i \in 1..(m + 1)
               PROVE  /\ Len(Parts(file)[i]) \in Nat
                      /\ DOMAIN Parts(file)[i] = 1..Len(Parts(file)[i])
    OBVIOUS
  <2>1. Parts(file)[i] \in Range(Parts(file))
    BY <1>7 DEF Range
  <2>2. Parts(file)[i] \in Seq(Range(Parts(file)[i]))
    BY <1>1, <2>1
  <2> QED
    BY <2>2
<1> QED
  BY <1>2, <1>7, <1>8, <1>9, <1>10 DEF file, m

\* Places are pairs of numbers, and of those with one id there is a first and
\* a last one.
LEMMA PlacesShape ==
  ASSUME NEW source, FileSource(source),
         NEW S \in SUBSET Places(source.file), S # {}
  PROVE  S \in SUBSET (Nat \X Nat) /\ Earliest(S) \in S /\ Latest(S) \in S
<1> DEFINE file == source.file
           m == Len(file.includes)
           n == [i \in Nat |-> IF i \in 1..(m + 1) THEN Len(Parts(file)[i]) ELSE 0]
<1>1. /\ m \in Nat /\ DOMAIN Parts(file) = 1..(m + 1)
      /\ \A i \in 1..(m + 1) : /\ Len(Parts(file)[i]) \in Nat
                               /\ DOMAIN Parts(file)[i] = 1..Len(Parts(file)[i])
  BY PartsShape
<1>2. ASSUME NEW a \in Places(file)
      PROVE  /\ a \in Nat \X Nat /\ a[1] \in 1..(m + 1)
             /\ a[2] \in 1..Len(Parts(file)[a[1]])
  <2>1. PICK i \in DOMAIN Parts(file) : a \in {i} \X DOMAIN Parts(file)[i]
    BY DEF Places
  <2>2. i \in 1..(m + 1) /\ a[1] = i /\ a[2] \in 1..Len(Parts(file)[i])
    BY <1>1, <2>1
  <2>3. a = <<a[1], a[2]>>
    BY <2>1
  <2> QED
    BY <1>1, <2>2, <2>3
<1> HIDE DEF m, file
<1>3. m + 1 \in Nat /\ n \in [Nat -> Nat]
  BY <1>1
<1>4. \A a \in S : a[1] <= m + 1 /\ a[2] <= n[a[1]]
  <2> SUFFICES ASSUME NEW a \in S PROVE a[1] <= m + 1 /\ a[2] <= n[a[1]]
    OBVIOUS
  <2>1. a[1] \in 1..(m + 1) /\ a[2] \in 1..Len(Parts(file)[a[1]])
    BY <1>2 DEF file
  <2>2. n[a[1]] = Len(Parts(file)[a[1]])
    BY <1>1, <2>1
  <2> QED
    BY <1>1, <2>1, <2>2
<1> HIDE DEF n
<1>5. S \in SUBSET (Nat \X Nat)
  BY <1>2 DEF file
<1> QED
  BY <1>3, <1>4, <1>5, EarliestIsIn, LatestIsIn
\* A configuration that is listed is written, or is what is made of an included
\* file that includes others.
LEMMA ListedFrom ==
  ASSUME NEW source, FileSource(source), NEW a \in Places(source.file)
  PROVE  \E c \in Written(source.file) \cup {Default} :
           Listed(source.file, source.env)[a] = FromDict(c, Anew(a), source.env)
<1> DEFINE file == source.file
           m == Len(file.includes)
<1>1. /\ m \in Nat /\ DOMAIN file.includes = 1..m
      /\ DOMAIN Parts(file) = 1..(m + 1)
      /\ \A i \in 1..m : Parts(file)[i] = Included(file.includes[i])
      /\ Parts(file)[m + 1] = file.configs
  BY PartsShape
<1>2. PICK i \in DOMAIN Parts(file) : a \in {i} \X DOMAIN Parts(file)[i]
  BY DEF Places
<1>3. a[1] = i /\ a[2] \in DOMAIN Parts(file)[i]
  BY <1>2
<1> DEFINE c == Parts(file)[i][a[2]]
<1>4. Listed(file, source.env)[a] = FromDict(c, Anew(a), source.env)
  BY <1>3 DEF Listed
<1> HIDE DEF m, c
<1>5. c \in Written(file) \cup {Default}
  <2>1. CASE i = m + 1
    BY <1>1, <1>3, <2>1 DEF c, Written, Range
  <2>2. CASE i \in 1..m
    <3> DEFINE sub == file.includes[i]
    <3>1. sub \in Range(file.includes) /\ c = Included(sub)[a[2]]
          /\ a[2] \in DOMAIN Included(sub)
      BY <1>1, <1>3, <2>2 DEF c, Range
    <3> HIDE DEF sub
    <3>2. CASE sub.kind = "missing"
      BY <3>1, <3>2 DEF Included
    <3>3. CASE sub.kind = "many"
      BY <3>1, <3>3 DEF Included
    <3>4. CASE sub.kind \notin {"missing", "many"}
      <4>1. Included(sub) = sub.configs
        BY <3>4 DEF Included
      <4>2. c \in Range(sub.configs)
        BY <3>1, <4>1 DEF Range
      <4> QED
        BY <3>1, <3>4, <4>2 DEF Written
    <3> QED
      BY <3>2, <3>3, <3>4
  <2> QED
    BY <1>1, <2>1, <2>2
<1> QED
  BY <1>4, <1>5

\* A configuration that is written is listed.
LEMMA WrittenIsListed ==
  ASSUME NEW source, FileSource(source), NEW c \in Written(source.file)
  PROVE  \E a \in Places(source.file) : Listed(source.file, source.env)[a] = FromDict(c, Anew(a), source.env)
<1> DEFINE file == source.file
           m == Len(file.includes)
<1>1. /\ m \in Nat /\ DOMAIN file.includes = 1..m
      /\ DOMAIN Parts(file) = 1..(m + 1)
      /\ \A i \in 1..m : Parts(file)[i] = Included(file.includes[i])
      /\ Parts(file)[m + 1] = file.configs
  BY PartsShape
<1> HIDE DEF m, file
<1>2. \E i \in 1..(m + 1) : \E j \in DOMAIN Parts(file)[i] : c = Parts(file)[i][j]
  <2>1. CASE c \in Range(file.configs)
    <3>1. m + 1 \in 1..(m + 1)
      BY <1>1
    <3> QED
      BY <1>1, <2>1, <3>1 DEF Range
  <2>2. CASE \E sub \in Range(file.includes) :
               sub.kind \notin {"missing", "many"} /\ c \in Range(sub.configs)
    <3>1. PICK i \in 1..m : /\ file.includes[i].kind \notin {"missing", "many"}
                            /\ c \in Range(file.includes[i].configs)
      BY <1>1, <2>2 DEF Range
    <3>2. Parts(file)[i] = file.includes[i].configs /\ i \in 1..(m + 1)
      BY <1>1, <3>1 DEF Included
    <3> QED
      BY <3>1, <3>2 DEF Range
  <2> QED
    BY <2>1, <2>2 DEF Written, file
<1>3. PICK i \in 1..(m + 1) : \E j \in DOMAIN Parts(file)[i] : c = Parts(file)[i][j]
  BY <1>2
<1>4. PICK j \in DOMAIN Parts(file)[i] : c = Parts(file)[i][j]
  BY <1>3
<1>5. <<i, j>> \in Places(file)
  BY <1>1, <1>4 DEF Places
<1>6. Listed(file, source.env)[<<i, j>>] = FromDict(c, Anew(<<i, j>>), source.env)
  BY <1>4, <1>5 DEF Listed
<1> QED
  BY <1>5, <1>6 DEF file

\* A configuration that is kept is listed.
LEMMA KeptFrom ==
  ASSUME NEW source, FileSource(source), NEW k \in DOMAIN ReadConfigs(source.file, source.env)
  PROVE  /\ k \in Places(source.file)
         /\ \E a \in Places(source.file) :
              ReadConfigs(source.file, source.env)[k] = Listed(source.file, source.env)[a]
<1> DEFINE file == source.file
           alike(a) == {b \in Places(file) : Listed(file, source.env)[b].id = Listed(file, source.env)[a].id}
<1>1. PICK b \in Places(file) : k = Earliest(alike(b))
  BY DEF ReadConfigs
<1>2. alike(b) \in SUBSET Places(file) /\ alike(b) # {}
  OBVIOUS
<1>3. k \in Places(file)
  BY <1>1, <1>2, PlacesShape
<1>4. alike(k) \in SUBSET Places(file) /\ alike(k) # {}
  BY <1>3
<1>5. Latest(alike(k)) \in Places(file)
  BY <1>4, PlacesShape
<1>6. ReadConfigs(file, source.env)[k] = Listed(file, source.env)[Latest(alike(k))]
  BY DEF ReadConfigs
<1> QED
  BY <1>3, <1>5, <1>6

\* Of every id that is listed a configuration is kept.
LEMMA KeptOfAll ==
  ASSUME NEW source, FileSource(source), NEW b \in Places(source.file)
  PROVE  \E k \in DOMAIN ReadConfigs(source.file, source.env) :
           ReadConfigs(source.file, source.env)[k].id = Listed(source.file, source.env)[b].id
<1> DEFINE file == source.file
           alike(a) == {d \in Places(file) : Listed(file, source.env)[d].id = Listed(file, source.env)[a].id}
           k == Earliest(alike(b))
<1>1. alike(b) \in SUBSET Places(file) /\ alike(b) # {}
  OBVIOUS
<1>2. k \in alike(b)
  BY <1>1, PlacesShape
<1>3. alike(k) = alike(b)
  BY <1>2
<1>4. Latest(alike(k)) \in alike(b)
  BY <1>1, <1>3, PlacesShape
<1>5. k \in DOMAIN ReadConfigs(file, source.env)
  BY DEF ReadConfigs
<1>6. ReadConfigs(file, source.env)[k] = Listed(file, source.env)[Latest(alike(k))]
  BY <1>5 DEF ReadConfigs
<1> QED
  BY <1>4, <1>5, <1>6

\* What is found is one of those that are looked at, or nothing.
LEMMA FirstIsFound ==
  ASSUME NEW source, FileSource(source), NEW configs,
         NEW found \in SUBSET Places(source.file), FirstOf(configs, found) # Nothing
  PROVE  \E k \in found : FirstOf(configs, found) = configs[k]
<1>1. found # {}
  BY DEF FirstOf
<1>2. Earliest(found) \in found
  BY <1>1, PlacesShape
<1> QED
  BY <1>1, <1>2 DEF FirstOf

\* What from_file() gives of several configurations is what get_by_id() finds.
LEMMA FoundIsAsked ==
  ASSUME NEW source, FileSource(source), Opened(source) # Nothing,
         source.wanted # Nothing, Several(source.file, source.env)
  PROVE  LET configs == ReadConfigs(source.file, source.env)
             known == Known(configs, source.wanted)
         IN \E k \in DOMAIN configs :
              /\ Opened(source) = configs[k]
              /\ IF known # {} THEN configs[k].id = source.wanted
                 ELSE /\ configs[k].name # Nothing
                      /\ configs[k].name.word = source.wanted.word
<1> DEFINE configs == ReadConfigs(source.file, source.env)
           known == Known(configs, source.wanted)
           named == Named(configs, source.wanted)
           found == IF known # {} THEN known ELSE named
<1>1. Opened(source) = FirstOf(configs, found)
  BY DEF FileSource, Opened, FromFile, Several, GetById
<1>2. known \in SUBSET DOMAIN configs /\ named \in SUBSET DOMAIN configs
  BY DEF Known, Named
<1>3. found \in SUBSET Places(source.file)
  BY <1>2, KeptFrom
<1>4. PICK k \in found : FirstOf(configs, found) = configs[k]
  BY <1>1, <1>3, FirstIsFound
<1>5. k \in DOMAIN configs
  BY <1>2, <1>4
<1>6. IF known # {} THEN configs[k].id = source.wanted
      ELSE configs[k].name # Nothing /\ configs[k].name.word = source.wanted.word
  BY <1>4 DEF Known, Named
<1> QED
  BY <1>1, <1>4, <1>5, <1>6

\* From whatever files, the configuration that is opened is the one that is
\* asked for.
LEMMA RightIsOpened ==
  ASSUME NEW source, FileSource(source), Opened(source) # Nothing,
         source.wanted # Nothing, Several(source.file, source.env)
  PROVE  IF \E c \in Written(source.file) : c.id = source.wanted
           THEN Opened(source).id = source.wanted
           ELSE /\ Opened(source).name # Nothing
                /\ Opened(source).name.word = source.wanted.word
<1> DEFINE file == source.file
           configs == ReadConfigs(file, source.env)
           known == Known(configs, source.wanted)
<1>1. PICK k \in DOMAIN configs :
        /\ Opened(source) = configs[k]
        /\ IF known # {} THEN configs[k].id = source.wanted
           ELSE configs[k].name # Nothing /\ configs[k].name.word = source.wanted.word
  BY FoundIsAsked
<1>2. ASSUME NEW c \in Written(file), c.id = source.wanted
      PROVE  known # {}
  <2>1. PICK a \in Places(file) : Listed(file, source.env)[a] = FromDict(c, Anew(a), source.env)
    BY WrittenIsListed
  <2>2. Listed(file, source.env)[a].id = source.wanted
    BY <1>2, <2>1 DEF FromDict, PostInit
  <2>3. PICK l \in DOMAIN configs : configs[l].id = Listed(file, source.env)[a].id
    BY KeptOfAll
  <2> QED
    BY <2>2, <2>3 DEF Known
<1>3. ASSUME known # {}
      PROVE  \E c \in Written(file) : c.id = source.wanted
  <2>1. PICK a \in Places(file) : configs[k] = Listed(file, source.env)[a]
    BY KeptFrom
  <2>2. PICK c \in Written(file) \cup {Default} : Listed(file, source.env)[a] = FromDict(c, Anew(a), source.env)
    BY ListedFrom
  <2>3. FromDict(c, Anew(a), source.env).id = source.wanted
    BY <1>1, <1>3, <2>1, <2>2
  <2>4. source.wanted # Anew(a)
    BY SourcesAssumption DEF FileSource
  <2>5. c.id = source.wanted /\ c.id # Nothing
    BY <2>3, <2>4 DEF FromDict, PostInit
  <2> QED
    BY <2>5 DEF Default
<1> QED
  BY <1>1, <1>2, <1>3
\* What is opened is written, or made of nothing.
LEMMA OpenedFrom ==
  ASSUME NEW source, FileSource(source), ~AsPairs(source.file), Opened(source) # Nothing
  PROVE  \E c \in Written(source.file) \cup {Default} :
           \E a \in Places(source.file) \cup {Alone} :
             Opened(source) = FromDict(c, Anew(a), source.env)
<1> DEFINE file == source.file
           configs == ReadConfigs(file, source.env)
<1>1. CASE file.kind = "one"
  <2>1. Opened(source) = FromDict(file.configs[1], Anew(Alone), source.env)
    BY <1>1 DEF Opened, FromFile
  <2>2. file.configs[1] \in Range(file.configs)
    BY <1>1, SourcesAssumption DEF FileSource, Range
  <2> QED
    BY <2>1, <2>2 DEF Written
<1>2. CASE file.kind # "one"
  <2>1. file.kind # "missing" /\ file.kind # "etp"
    BY DEF FileSource, Opened, FromFile
  <2>2. \E found \in SUBSET DOMAIN configs : Opened(source) = FirstOf(configs, found)
    BY <1>2, <2>1 DEF Opened, FromFile, GetById, Known, Named
  <2>3. PICK found \in SUBSET DOMAIN configs : Opened(source) = FirstOf(configs, found)
    BY <2>2
  <2>4. found \in SUBSET Places(file)
    BY KeptFrom
  <2>5. PICK k \in found : Opened(source) = configs[k]
    BY <2>3, <2>4, FirstIsFound
  <2>6. PICK a \in Places(file) : configs[k] = Listed(file, source.env)[a]
    BY KeptFrom
  <2> QED
    BY <2>5, <2>6, ListedFrom
<1> QED
  BY <1>1, <1>2

\* What from_dict() gives
LEMMA FromDictGives ==
  ASSUME NEW c, NEW new, NEW env
  PROVE  LET d == FromDict(c, new, env)
         IN /\ d.id = IF c.id = Nothing THEN new ELSE c.id
            /\ d.name = IF c.name = Nothing THEN env.server ELSE c.name
            /\ d.method = c.method /\ d.given = c.given \cap Fields(c.method)
            /\ d.headers = (c.headers \/ "ADDITIONAL_HEADERS" \in env.set)
<1> DEFINE b == [id |-> c.id, name |-> c.name, method |-> c.method,
                 given |-> c.given \cap Fields(c.method),
                 token |-> c.token, headers |-> c.headers]
<1>1. FromDict(c, new, env) = PostInit(b, new, env)
  BY DEF FromDict
<1>2. /\ DOMAIN b = {"id", "name", "method", "given", "token", "headers"}
      /\ b.id = c.id /\ b.name = c.name /\ b.method = c.method
      /\ b.given = c.given \cap Fields(c.method) /\ b.headers = c.headers
  OBVIOUS
<1> HIDE DEF b
<1>3. \A h : LET d == [b EXCEPT !.id = IF b.id = Nothing THEN new ELSE b.id,
                        !.name = IF b.name = Nothing THEN env.server ELSE b.name,
                        !.headers = h]
             IN /\ d.id = IF c.id = Nothing THEN new ELSE c.id
                /\ d.name = IF c.name = Nothing THEN env.server ELSE c.name
                /\ d.method = c.method /\ d.given = c.given \cap Fields(c.method)
                /\ d.headers = h
  BY <1>2
<1> QED
  BY <1>1, <1>2, <1>3 DEF PostInit

\* __post_init__() would find nothing to take from the environment.
PostInited(c, env) ==
  /\ c.name = Nothing => env.server = Nothing
  /\ c.headers \in BOOLEAN
  /\ "ADDITIONAL_HEADERS" \in env.set => c.headers

\* What is opened has an id, only fields of its method, and what the environment
\* gives.
LEMMA OpenedShape ==
  ASSUME NEW source \in Sources, Opened(source) # Nothing
  PROVE  /\ Opened(source).id # Nothing
         /\ Opened(source).given \subseteq Fields(Opened(source).method)
         /\ PostInited(Opened(source), source.env)
<1>1. \A c, new, env :
        /\ FromDict(c, new, env).given \subseteq Fields(FromDict(c, new, env).method)
        /\ new # Nothing => FromDict(c, new, env).id # Nothing
        /\ PostInited(FromDict(c, new, env), env)
  <2> SUFFICES ASSUME NEW c, NEW new, NEW env
               PROVE  /\ FromDict(c, new, env).given \subseteq
                           Fields(FromDict(c, new, env).method)
                      /\ new # Nothing => FromDict(c, new, env).id # Nothing
                      /\ PostInited(FromDict(c, new, env), env)
    OBVIOUS
  <2> DEFINE d == FromDict(c, new, env)
  <2>1. /\ d.id = IF c.id = Nothing THEN new ELSE c.id
        /\ d.name = IF c.name = Nothing THEN env.server ELSE c.name
        /\ d.method = c.method /\ d.given = c.given \cap Fields(c.method)
        /\ d.headers = (c.headers \/ "ADDITIONAL_HEADERS" \in env.set)
    BY FromDictGives
  <2> HIDE DEF d
  <2>2. d.given \subseteq Fields(d.method)
    BY <2>1
  <2>3. new # Nothing => d.id # Nothing
    BY <2>1
  <2>4. d.name = Nothing => env.server = Nothing
    BY <2>1
  <2>5. d.headers \in BOOLEAN
    BY <2>1, Zenon
  <2>6. "ADDITIONAL_HEADERS" \in env.set => d.headers
    BY <2>1, Zenon
  <2> QED
    BY <2>2, <2>3, <2>4, <2>5, <2>6 DEF d, PostInited
<1>2. CASE source.file.kind = "etp"
  <2>1. \E c : Opened(source) = FromDict(c, Anew(Alone), source.env)
    BY <1>2 DEF Opened, AsServerConfig
  <2> QED
    BY <1>1, <2>1, LoginAssumption
<1>4. CASE AsPairs(source.file)
  <2>1. \E c : Opened(source) = FromDict(c, Anew(Alone), source.env)
    BY <1>4 DEF Opened, FromFile, FromPairs, AsPairs
  <2> QED
    BY <1>1, <2>1, LoginAssumption
<1>3. CASE source.file.kind # "etp" /\ ~AsPairs(source.file)
  <2>1. FileSource(source)
    BY <1>3 DEF FileSource
  <2>2. PICK c \in Written(source.file) \cup {Default},
             a \in Places(source.file) \cup {Alone} :
               Opened(source) = FromDict(c, Anew(a), source.env)
    BY <1>3, <2>1, OpenedFrom
  <2>3. Nothing # Anew(a)
    <3>1. source.file.kind # "etp"
      BY <1>3
    <3>2. \A b \in Places(source.file) \cup {Alone} : Nothing # Anew(b)
      BY <3>1, SourcesAssumption, Zenon
    <3> QED
      BY <2>2, <3>2
  <2> QED
    BY <1>1, <2>2, <2>3
<1> QED
  BY <1>2, <1>3, <1>4

\* What is opened has the fields that are written under its id, if that is
\* written once.
LEMMA OpenedIsWritten ==
  ASSUME NEW source, FileSource(source), ~AsPairs(source.file), Opened(source) # Nothing,
         NEW c \in Written(source.file), c.id = Opened(source).id,
         \A d \in Written(source.file) : d.id = c.id => d = c
  PROVE  /\ Opened(source).method = c.method
         /\ Opened(source).given = c.given \cap Fields(c.method)
<1>1. PICK d \in Written(source.file) \cup {Default},
           a \in Places(source.file) \cup {Alone} :
             Opened(source) = FromDict(d, Anew(a), source.env)
  BY OpenedFrom
<1>2. c.id # Anew(a)
  <2>1. /\ \A e \in Range(source.file.configs) : e.id # Anew(a)
        /\ \A i \in Range(source.file.includes) :
             \A e \in Range(i.configs) : e.id # Anew(a)
    BY SourcesAssumption DEF FileSource
  <2> QED
    BY <2>1 DEF Written
<1>3. d.id = c.id /\ d.id # Nothing
  BY <1>1, <1>2 DEF FromDict, PostInit
<1>4. d = c
  BY <1>3 DEF Default
<1> QED
  BY <1>1, <1>4 DEF FromDict, PostInit

\* An ETPConfig whose file has a user and a password gives both.
LEMMA OpenedOfEtp ==
  ASSUME NEW source \in Sources, source.file.kind = "etp",
         {"USERNAME", "PASSWORD"} \subseteq
           {k \in DOMAIN source.file.main : source.file.main[k]}
  PROVE  Opened(source).method = "basic"
         /\ Opened(source).given = {"username", "password"}
<1> DEFINE file == source.file
           base == [key \in source.env.set |-> TRUE]
           S == {base, file.main} \cup Range(file.includes)
           layers == <<base>> \o file.includes \o <<file.main>>
           n == Len(layers)
           set(key) == {i \in DOMAIN layers : key \in DOMAIN layers[i]}
<1>1. layers \in Seq(S) /\ n \in Nat /\ n \in 1..n /\ layers[n] = file.main
  <2>1. file.includes \in Seq(Range(file.includes))
    BY SourcesAssumption
  <2>2. file.includes \in Seq(S)
    BY <2>1, SeqMonotonic
  <2>3. <<base>> \in Seq(S) /\ <<file.main>> \in Seq(S)
        /\ Len(<<file.main>>) = 1 /\ <<file.main>>[1] = file.main
    OBVIOUS
  <2> DEFINE s == <<base>> \o file.includes
             t == <<file.main>>
  <2>4. s \in Seq(S)
    BY <2>2, <2>3, ConcatProperties
  <2> HIDE DEF S, s, t
  <2>5. /\ s \o t \in Seq(S) /\ Len(s \o t) = Len(s) + Len(t)
        /\ \A i \in 1..(Len(s) + Len(t)) :
             (s \o t)[i] = IF i <= Len(s) THEN s[i] ELSE t[i - Len(s)]
    BY <2>3, <2>4, ConcatProperties DEF t
  <2>6. Len(s) \in Nat /\ Len(t) = 1 /\ t[1] = file.main
    BY <2>3, <2>4 DEF t
  <2>7. /\ Len(s \o t) = Len(s) + 1 /\ ~(Len(s) + 1 <= Len(s))
        /\ Len(s) + 1 \in 1..(Len(s) + 1) /\ (Len(s) + 1) - Len(s) = 1
    BY <2>5, <2>6
  <2>8. (s \o t)[Len(s) + 1] = file.main
    BY <2>5, <2>6, <2>7
  <2> QED
    BY <2>5, <2>6, <2>7, <2>8 DEF s, t
<1> HIDE DEF layers, S
<1>2. DOMAIN layers = 1..n
  BY <1>1
<1>3. ASSUME NEW key \in {"USERNAME", "PASSWORD"}
      PROVE  key \in Settings(file, source.env)
  <2>1. n \in set(key) /\ file.main[key]
    BY <1>1, <1>2
  <2>2. \A i \in set(key) : i <= n /\ i \in Nat
    BY <1>1, <1>2
  <2>3. (CHOOSE i \in set(key) : \A j \in set(key) : j <= i) = n
    <3> DEFINE m == CHOOSE i \in set(key) : \A j \in set(key) : j <= i
    <3>1. m \in set(key) /\ n <= m
      BY <2>1, <2>2
    <3> QED
      BY <1>1, <2>2, <3>1
  <2>4. key \in UNION {DOMAIN layers[i] : i \in DOMAIN layers}
    BY <2>1
  <2> QED
    BY <1>1, <2>1, <2>3, <2>4 DEF Settings, layers
<1>4. Opened(source) = AsServerConfig(Settings(file, source.env), source.env)
  BY DEF Opened
<1> HIDE DEF file
<1>5. {"USERNAME", "PASSWORD"} \subseteq Settings(file, source.env)
  BY <1>3
<1>6. AsServerConfig(Settings(file, source.env), source.env).method = "basic"
      /\ AsServerConfig(Settings(file, source.env), source.env).given = {"username", "password"}
  <2> DEFINE d == [Default EXCEPT !.method = "basic", !.given = {"username", "password"},
                              !.headers = "ADDITIONAL_HEADERS" \in Settings(file, source.env)]
  <2>1. AsServerConfig(Settings(file, source.env), source.env) = FromDict(d, Anew(Alone), source.env)
    BY <1>5 DEF AsServerConfig
  <2>2. d.method = "basic" /\ d.given = {"username", "password"}
    BY DEF Default
  <2>3. Fields("basic") = {"username", "password"}
    BY DEF Fields
  <2> HIDE DEF d
  <2> QED
    BY <2>1, <2>2, <2>3 DEF FromDict, PostInit
<1> QED
  BY <1>4, <1>6
-----------------------------------------------------------------------------
(***************************************************************************)
(* What is in use, and what is saved, is what was opened                   *)
(***************************************************************************)

\* Of the fields of c those that a method needs are still given, but for the two
\* methods of which JSON forgets some.
Kept(c, given, again, token) ==
  \/ again /\ c.method \in {"oauth2", "bearer_token"}
  \/ /\ c.given \ {"refresh_token"} \subseteq given
     /\ c.method = "bearer_token" /\ "cached_token" \in c.given => token.kind # "no"

Used ==
  LET c == Opened(read)
  IN config # Nothing =>
       /\ read \in Sources /\ c # Nothing
       /\ config.id = c.id /\ config.name = c.name /\ config.headers = c.headers
       /\ method = c.method /\ complete = (Needs(method) \subseteq config.given)
       /\ Kept(c, config.given, reread, cached)

Stored ==
  LET c == Opened(read)
  IN saved # Nothing =>
       /\ config # Nothing
       /\ saved.id = c.id /\ saved.name = c.name /\ saved.headers = c.headers
       /\ saved.method = c.method
       /\ Kept(c, saved.given, saved.reread, saved.token)

ProvInv ==
  /\ Used /\ Stored
  /\ client # "none" => config # Nothing
  /\ caller # "nobody" => config # Nothing /\ method \in Online
  /\ LoginWorks

\* No method needs what is not of its own, nor a refresh token.
LEMMA NeedsAreFields ==
  ASSUME NEW m
  PROVE  Needs(m) \subseteq Fields(m) \ {"refresh_token"}
BY DEF Needs, Fields

\* What goes to JSON is all but the refresh token, of the other methods.
LEMMA WhatIsWritten ==
  ASSUME NEW m, m \notin {"oauth2", "bearer_token"}, NEW given
  PROVE  ToDict(m, given) = given \ {"refresh_token"}
BY DEF ToDict

\* A configuration that is read is what was opened.
LEMMA ReadProves ==
  ASSUME ProvInv, NEW source \in Sources, Read(source)
  PROVE  ProvInv'
<1> DEFINE c == Opened(source)
<1>1. /\ config = Nothing /\ saved = Nothing /\ client = "none" /\ caller = "nobody"
      /\ read' = source /\ UNCHANGED <<reread, client, saved, own, header, caller>>
  BY DEF ProvInv, Stored, Read, clientVars
<1>2. LoginWorks'
  BY <1>1 DEF LoginWorks
<1>3. CASE c = Nothing
  <2>1. config' = Nothing
    BY <1>1, <1>3 DEF Read
  <2> QED
    BY <1>1, <1>2, <2>1 DEF ProvInv, Used, Stored
<1>4. CASE c # Nothing
  <2>1. PICK end \in {0, c.token.until} :
          Use(c, IF "cached_token" \in c.given THEN c.token ELSE NoToken,
              IF "cached_token" \in c.given THEN end ELSE 0)
    BY <1>4 DEF Read
  <2>2. /\ config'.id = c.id /\ config'.name = c.name /\ config'.headers = c.headers
        /\ config'.given = c.given /\ method' = c.method
        /\ complete' = (Needs(c.method) \subseteq c.given)
        /\ "cached_token" \in c.given => cached' = c.token
    BY <2>1 DEF Use
  <2>3. "cached_token" \in c.given => c.token.kind # "no"
    BY <1>4, LoginAssumption
  <2>4. Kept(c, config'.given, reread', cached')
    BY <2>2, <2>3 DEF Kept
  <2>5. Used'
    BY <1>1, <1>4, <2>2, <2>4 DEF Used
  <2> QED
    BY <1>1, <1>2, <2>5 DEF ProvInv, Stored
<1> QED
  BY <1>3, <1>4

\* What is saved is what is in use.
LEMMA SaveProves ==
  ASSUME ProvInv, NEW how \in {"dotenv", "json"}, Save(how)
  PROVE  ProvInv'
<1> DEFINE c == Opened(read)
<1>1. config # Nothing /\ UNCHANGED <<vars, configVars, clientVars>>
  BY DEF Save
<1>2. /\ c.id = config.id /\ c.name = config.name /\ c.headers = config.headers
      /\ c.method = method /\ Kept(c, config.given, reread, cached)
  BY <1>1 DEF ProvInv, Used
<1>3. /\ saved'.id = config.id /\ saved'.name = config.name
      /\ saved'.headers = config.headers /\ saved'.method = method
      /\ saved'.given = (IF how = "dotenv" THEN config.given
                         ELSE ToDict(method, config.given))
      /\ saved'.reread = (reread \/ how = "json")
      /\ saved'.token = (IF how = "dotenv" THEN cached ELSE NoToken)
  BY DEF Save
<1>4. Kept(c, saved'.given, saved'.reread, saved'.token)
  <2>1. CASE how = "dotenv"
    BY <1>2, <1>3, <2>1 DEF Kept
  <2>2. CASE how = "json" /\ method \in {"oauth2", "bearer_token"}
    BY <1>2, <1>3, <2>2 DEF Kept
  <2>3. CASE how = "json" /\ method \notin {"oauth2", "bearer_token"}
    <3>1. c.given \ {"refresh_token"} \subseteq config.given
      BY <1>2, <2>3 DEF Kept
    <3>2. saved'.given = config.given \ {"refresh_token"}
      BY <1>3, <2>3, WhatIsWritten
    <3> QED
      BY <1>2, <2>3, <3>1, <3>2 DEF Kept
  <2> QED
    BY <2>1, <2>2, <2>3
<1>5. UNCHANGED <<config, read, reread, method, complete, cached, caller, client, own,
                  header>>
  BY <1>1 DEF vars, setVars, configVars, clientVars
<1>6. Stored'
  BY <1>1, <1>2, <1>3, <1>4, <1>5 DEF Stored
<1>7. Used' /\ LoginWorks'
  BY <1>5 DEF ProvInv, Used, LoginWorks, Forgotten
<1> QED
  BY <1>5, <1>6, <1>7 DEF ProvInv

\* What another process begins with is what was saved.
LEMMA BootProves ==
  ASSUME ProvInv, Boot
  PROVE  ProvInv'
<1> DEFINE c == Opened(read)
           d == FromDict(saved, Anew(Alone), read.env)
<1>1. /\ saved # Nothing /\ Use(d, saved.token, saved.end)
      /\ reread' = saved.reread /\ client' = "none" /\ caller' = "nobody"
      /\ UNCHANGED <<read, saved>>
  BY DEF Boot
<1>2. /\ read \in Sources /\ c # Nothing
      /\ saved.id = c.id /\ saved.name = c.name /\ saved.headers = c.headers
      /\ saved.method = c.method /\ Kept(c, saved.given, saved.reread, saved.token)
  BY <1>1 DEF ProvInv, Used, Stored
<1>3. c.id # Nothing /\ c.given \subseteq Fields(c.method) /\ PostInited(c, read.env)
  BY <1>2, OpenedShape
<1>4. /\ d.id = c.id /\ d.name = c.name /\ d.headers = c.headers
      /\ d.method = c.method /\ d.given = saved.given \cap Fields(c.method)
  <2>1. /\ d.id = c.id /\ d.name = c.name
        /\ d.method = c.method /\ d.given = saved.given \cap Fields(c.method)
    BY <1>2, <1>3, FromDictGives DEF PostInited
  <2>2. d.headers = c.headers
    <3>1. d.headers = (c.headers \/ "ADDITIONAL_HEADERS" \in read.env.set)
      BY <1>2, FromDictGives
    <3>2. CASE c.headers = TRUE
      BY <3>1, <3>2
    <3>3. CASE c.headers = FALSE
      BY <1>3, <3>1, <3>3 DEF PostInited
    <3> QED
      BY <1>3, <3>2, <3>3 DEF PostInited
  <2> QED
    BY <2>1, <2>2
<1> HIDE DEF d
<1>5. /\ config' = [id |-> c.id, name |-> c.name, given |-> d.given, headers |-> c.headers]
      /\ method' = c.method /\ cached' = saved.token
      /\ complete' = (Needs(c.method) \subseteq d.given)
  BY <1>1, <1>4 DEF Use
<1>6. config' # Nothing
  <2>1. config' \in [id : {c.id}, name : {c.name},
                     given : SUBSET Fields(c.method), headers : {c.headers}]
    BY <1>4, <1>5
  <2> QED
    BY <1>2, <2>1, LoginAssumption
<1>7. Kept(c, d.given, reread', cached')
  BY <1>1, <1>2, <1>3, <1>4, <1>5 DEF Kept
<1> HIDE DEF c
<1>8. Used'
  <2>1. /\ config'.id = c.id /\ config'.name = c.name /\ config'.headers = c.headers
        /\ config'.given = d.given
    BY <1>5
  <2> QED
    BY <1>1, <1>2, <1>5, <1>7, <2>1 DEF Used, c
<1>9. Stored'
  BY <1>1, <1>2, <1>6 DEF Stored, c
<1>10. LoginWorks'
  BY <1>1 DEF LoginWorks
<1> QED
  BY <1>1, <1>8, <1>9, <1>10 DEF ProvInv

\* What the configuration in use can do: its method has all it needs.
Able ==
  /\ method # "none" /\ complete
  /\ method = "bearer_token" => cached.kind # "no"

\* What the premises of LoginWorks give
LEMMA WrittenIsAble ==
  ASSUME ProvInv, config # Nothing
  PROVE  IF read.file.kind = "etp"
           THEN {"USERNAME", "PASSWORD"} \subseteq
                    {k \in DOMAIN read.file.main : read.file.main[k]}
                  => Able
           ELSE \A c \in Written(read.file) :
                  /\ ~AsPairs(read.file) /\ c.id = config.id
                  /\ \A d \in Written(read.file) : d.id = c.id => d = c
                  /\ Needs(c.method) \subseteq c.given
                  /\ c.method # "none"
                  /\ ~Forgotten(c)
                  => method = c.method /\ Able
<1> DEFINE o == Opened(read)
<1>1. /\ read \in Sources /\ o # Nothing /\ config.id = o.id
      /\ method = o.method /\ complete = (Needs(method) \subseteq config.given)
      /\ Kept(o, config.given, reread, cached)
  BY DEF ProvInv, Used
<1>2. CASE read.file.kind = "etp"
  <2> SUFFICES ASSUME {"USERNAME", "PASSWORD"} \subseteq
                        {k \in DOMAIN read.file.main : read.file.main[k]}
               PROVE  Able
    BY <1>2
  <2>1. o.method = "basic" /\ o.given = {"username", "password"}
    BY <1>1, <1>2, OpenedOfEtp
  <2>2. Needs("basic") = {"username", "password"}
    BY DEF Needs, Fields
  <2>3. {"username", "password"} \subseteq config.given
    BY <1>1, <2>1 DEF Kept
  <2> QED
    BY <1>1, <2>1, <2>2, <2>3 DEF Able
<1>3. CASE read.file.kind # "etp"
  <2> SUFFICES ASSUME NEW c \in Written(read.file), ~AsPairs(read.file),
                      c.id = config.id,
                      \A d \in Written(read.file) : d.id = c.id => d = c,
                      Needs(c.method) \subseteq c.given, c.method # "none",
                      ~Forgotten(c)
               PROVE  method = c.method /\ Able
    BY <1>3
  <2>1. o.method = c.method /\ o.given = c.given \cap Fields(c.method)
    BY <1>1, <1>3, OpenedIsWritten DEF FileSource
  <2>2. (c.given \cap Fields(c.method)) \ {"refresh_token"} \subseteq config.given
        /\ (c.method = "bearer_token" /\ "cached_token" \in o.given
              => cached.kind # "no")
    BY <1>1, <2>1 DEF Kept, Forgotten
  <2>3. Needs(c.method) \subseteq config.given
    BY <2>2, NeedsAreFields
  <2>4. c.method = "bearer_token" => "cached_token" \in o.given
    BY <2>1 DEF Forgotten, Fields
  <2> QED
    BY <1>1, <2>1, <2>2, <2>3, <2>4 DEF Able
<1> QED
  BY <1>2, <1>3

\* With a configuration that is able a client is made with an Authorization.
LEMMA AbleIsAuthorized ==
  ASSUME Able, client' = "made", ~own',
         MakeClient \/ (Answered /\ client = "making")
  PROVE  header'.kind # "no"
<1>1. CASE MakeClient
  <2>1. Answer /\ outcome'.from # "raised" /\ Finish(outcome'.token, FALSE)
    BY <1>1 DEF MakeClient
  <2>2. outcome'.token.kind # "no"
    BY <2>1, TokenTypes DEF Answer, BasicAuthToken, Hand, Able
  <2> QED
    BY <2>1, <2>2 DEF Finish
<1>2. CASE Answered /\ client = "making"
  BY <1>2 DEF Answered, Finish
<1> QED
  BY <1>1, <1>2

\* The other steps change neither the configuration nor what was saved of it.
LEMMA OthersProve ==
  ASSUME ProvInv, MakeClient \/ Answered \/ TokenStep \/ UNCHANGED allVars
  PROVE  ProvInv'
<1>1. UNCHANGED <<read, config, reread, saved, method, complete>>
  BY DEF MakeClient, Answered, TokenStep, GetToken, Refresh, Tick, Granted, NotGranted,
         allVars, vars, loginVars, setVars, configVars
<1>2. method = "bearer_token" => cached' = cached
  <2>1. caller # "nobody" => method \in Online
    BY DEF ProvInv
  <2> QED
    BY <2>1 DEF MakeClient, Answered, TokenStep, GetToken, Refresh, Get, Answer, Request,
                Tick, Granted, NotGranted, BasicAuthToken, Online, allVars, vars
<1>3. Used'
  <2> SUFFICES ASSUME config # Nothing
               PROVE  Kept(Opened(read), config.given, reread, cached')
    BY <1>1 DEF ProvInv, Used
  <2>1. Kept(Opened(read), config.given, reread, cached) /\ method = Opened(read).method
    BY DEF ProvInv, Used
  <2> QED
    BY <1>2, <2>1 DEF Kept
<1>4. Stored'
  BY <1>1 DEF ProvInv, Stored
<1>5. /\ client' # "none" => config' # Nothing
      /\ caller' # "nobody" => config' # Nothing /\ method' \in Online
  BY <1>1 DEF ProvInv, MakeClient, Answered, TokenStep, allVars, loginVars, clientVars,
              vars, Granted, NotGranted, GetToken, Refresh, Tick, Get, Request
<1>6. LoginWorks'
  <2>1. CASE UNCHANGED <<client, own, header>>
    BY <1>1, <2>1 DEF ProvInv, LoginWorks, Forgotten
  <2>2. CASE MakeClient \/ (Answered /\ client = "making")
    <3> SUFFICES ASSUME client' = "made", ~own'
                 PROVE  IF read.file.kind = "etp"
                          THEN {"USERNAME", "PASSWORD"} \subseteq
                                   {k \in DOMAIN read.file.main : read.file.main[k]}
                                 => header'.kind # "no"
                          ELSE \A c \in Written(read.file) :
                                 /\ ~AsPairs(read.file) /\ c.id = config.id
                                 /\ \A d \in Written(read.file) : d.id = c.id => d = c
                                 /\ Needs(c.method) \subseteq c.given
                                 /\ c.method # "none"
                                 /\ ~Forgotten(c)
                                 => method = c.method /\ header'.kind # "no"
      BY <1>1 DEF LoginWorks, Forgotten
    <3>1. Able => header'.kind # "no"
      BY <2>2, AbleIsAuthorized
    <3>2. config # Nothing
      BY <1>1, <1>5
    <3> QED
      BY <3>1, <3>2, WrittenIsAble
  <2> QED
    BY <2>1, <2>2 DEF Answered, TokenStep, allVars, loginVars, clientVars
<1> QED
  BY <1>3, <1>4, <1>5, <1>6 DEF ProvInv

\* ProvInv is an invariant, whatever the providers answer.
THEOREM ProvenanceInductive == LoginSpec => []ProvInv
<1>1. LoginInit => ProvInv
  BY DEF LoginInit, ProvInv, Used, Stored, LoginWorks
<1>2. ProvInv /\ [LoginNext]_allVars => ProvInv'
  BY ReadProves, SaveProves, BootProves, OthersProve DEF LoginNext
<1> QED
  BY <1>1, <1>2, PTL DEF LoginSpec

\* The configuration in use is that of the server that was asked for, by its id
\* or its name, from however many files; and it is so after it was saved and
\* read by other processes.
THEOREM RightServerIsUsed == LoginSpec => []RightServer
<1>1. ProvInv => RightServer
  <2> SUFFICES ASSUME ProvInv, config # Nothing, read.wanted # Nothing, Several(read.file, read.env)
               PROVE  IF \E c \in Written(read.file) : c.id = read.wanted
                        THEN config.id = read.wanted
                        ELSE config.name # Nothing /\ config.name.word = read.wanted.word
    BY DEF RightServer
  <2>1. /\ read \in Sources /\ Opened(read) # Nothing
        /\ config.id = Opened(read).id /\ config.name = Opened(read).name
    BY DEF ProvInv, Used
  <2>2. FileSource(read)
    BY <2>1 DEF FileSource, Several
  <2> QED
    BY <2>1, <2>2, RightIsOpened
<1> QED
  BY <1>1, ProvenanceInductive, PTL

\* A client that is made of a configuration that has all that its method needs
\* has an Authorization: nothing is lost on the way from the file, or through
\* files that other processes have saved.
THEOREM ClientsAreAuthorized == LoginSpec => []LoginWorks
<1>1. ProvInv => LoginWorks
  BY DEF ProvInv
<1> QED
  BY <1>1, ProvenanceInductive, PTL

=============================================================================
