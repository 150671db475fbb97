-------------------------------- MODULE Store --------------------------------
(***************************************************************************)
(* The requests of ETPClient that keep no state: core, dataspaces,         *)
(* discovery and objects (src/py_etp_client/etpclient.py), with the forms  *)
(* in which URIs are given (utils.py) and the requests made of them        *)
(* (etp_requests.py).                                                      *)
(*                                                                         *)
(* A call builds its request, which may raise, and makes one of the answer *)
(* something to return.  The server is external; other clients change what *)
(* it holds between any two steps.  An answer is what RequestReply         *)
(* promises of send_and_wait(): the first messages of what the server      *)
(* sends, at least one, or an exception.                                   *)
(*                                                                         *)
(* A string is a record of what it names.  A dictionary is a function; its *)
(* order, where the code needs it, is the sequence of its keys.            *)
(***************************************************************************)
EXTENDS Naturals, Sequences, SequencesExt

CONSTANTS
  Spaces,      \* the dataspaces
  Home,        \* the default one, "eml:///"
  Ids,         \* the uuids of the objects
  NoId,        \* of a URI of a dataspace, which has none
  None,        \* no URI given
  Versions,    \* what an object is like when it can be parsed
  Unreadable,  \* ... and when it cannot
  Absent,      \* what the server holds for an object that it has not
  Positions,   \* "0", "1", ... in order
  Calls        \* the calls that are made

\* A URI, or the plain name of a dataspace.
Names == [space : Spaces, id : Ids \cup {NoId}, plain : BOOLEAN]
Uris == {n \in Names : n.id # NoId /\ ~n.plain}
Contents == Versions \cup {Unreadable}

Uri(space, id) == [space |-> space, id |-> id, plain |-> FALSE]

Gets == {"get_data_object", "get_data_object_as_obj"}
Puts == {"put_data_object_str", "put_data_object_obj", "put_data_object_file"}
SpaceWrites == {"put_dataspace", "put_dataspaces_with_acl", "delete_dataspace"}
Writes == Puts \cup SpaceWrites \cup {"delete_data_object"}
Lists == {"get_dataspaces", "get_resources", "search_resource",
          "get_supported_types"}
Ops == Gets \cup Writes \cup Lists \cup {"ping", "authorize"}

\* Arguments: in which form, with which keys, and what.
Forms == {"str", "uri", "list", "dict"}

ASSUME StoreAssumption ==
  /\ Home \in Spaces /\ NoId \notin Ids /\ Unreadable \notin Versions
  /\ Absent \notin Contents /\ None \notin Names
  /\ Positions \in Seq(Range(Positions)) /\ IsInjective(Positions)
  /\ \A c \in Calls :
       /\ c.op \in Ops /\ c.form \in Forms
       /\ c.items \in Seq(Range(c.items)) /\ c.keys \in Seq(Range(c.keys))
       /\ c.form \in {"str", "uri"} => Len(c.items) = 1
       /\ Len(c.items) <= Len(Positions)
       /\ c.form = "dict" => IsInjective(c.keys) /\ Len(c.keys) = Len(c.items)
       /\ c.op \in Gets \cup SpaceWrites \cup {"delete_data_object"} =>
            Range(c.items) \subseteq IF c.form = "str" THEN Names ELSE Names \cup {None}

VARIABLES
  store,    \* the objects that the server holds
  spaces,   \* the dataspaces that it holds, by the names they were put under
  stage,    \* "idle", "sent" or "ended"
  call,     \* the call in progress
  msgs,     \* what send_and_wait() returned, <<>> when it raised
  outcome   \* what the call returned

serverVars == <<store, spaces>>
vars == <<serverVars, stage, call, msgs, outcome>>

-----------------------------------------------------------------------------
(***************************************************************************)
(* The forms of URIs                                                       *)
(***************************************************************************)

EmptyMap == [k \in {} |-> Absent]

ByKey(keys, items) ==
  [k \in Range(keys) |-> items[CHOOSE i \in DOMAIN keys : keys[i] = k]]

\* get_valid_uri_str()
ValidUri(n) == IF n = None THEN Uri(Home, NoId) ELSE [n EXCEPT !.plain = FALSE]

\* The keys of an argument: those of a dictionary, or positions.
KeysOf(c) ==
  IF c.form = "dict" THEN c.keys ELSE SubSeq(Positions, 1, Len(c.items))

\* reshape_uris_as_str_dict(): one string is taken as it is
AsStrDict(c) ==
  LET dict == ByKey(KeysOf(c), c.items)
  IN [k \in DOMAIN dict |-> IF c.form = "str" THEN dict[k] ELSE ValidUri(dict[k])]

\* reshape_uris_as_str_list(): one string is not
AsStrList(c) == [i \in DOMAIN c.items |-> ValidUri(c.items[i])]

-----------------------------------------------------------------------------
(***************************************************************************)
(* The requests                                                            *)
(***************************************************************************)

\* put_data_object_file(): the objects of the files that exist and are named
\* .xml, .json or .epc, in order; a folder is the files in it.  An EPC file that
\* cannot be read is logged.
Found(files) ==
  FlattenSeq([i \in DOMAIN files |->
                IF files[i].kind \in {"object", "epc"} THEN files[i].holds ELSE <<>>])

\* The objects of a call that puts some
ObjectsOf(c) == IF c.op = "put_data_object_file" THEN Found(c.items) ELSE c.items

\* What a call puts, and where; there is a position for each of the objects.
ASSUME ObjectsAssumption ==
  \A c \in Calls :
    c.op \in Puts =>
      /\ ObjectsOf(c) \in Seq([id : Ids, content : Contents])
      /\ Len(ObjectsOf(c)) <= Len(Positions)
      /\ c.where \in Names \cup {None}

\* create_data_object() raises for what cannot be parsed; objects in memory
\* were.
Buildable(c) ==
  \A i \in DOMAIN ObjectsOf(c) : ObjectsOf(c)[i].content # Unreadable

\* _create_resource(): the URI of an object in the dataspace it is put to
ResourceUri(where, object) == Uri(ValidUri(where).space, object.id)

\* put_data_object_*(): a dictionary is taken for the list of its values
ObjectRequest(c) ==
  LET objects == ObjectsOf(c)
      keys == SubSeq(Positions, 1, Len(objects))
  IN ByKey(keys, [i \in DOMAIN objects |-> ResourceUri(c.where, objects[i])])

\* Seeded bug: the request is made of the names as they are.
SpaceRequestRaw(c) == ByKey(KeysOf(c), c.items)

\* put_dataspace(), with what put_dataspaces_with_acl() does before it
SpaceRequest(c) ==
  LET dict == AsStrDict(c)
  IN IF c.op = "put_dataspaces_with_acl"
       THEN [k \in DOMAIN dict |-> ValidUri(dict[k])]
       ELSE dict

\* put_dataspaces_with_acl(): a list given as a string has to be JSON
AclParses(c) == c.acl # "text"

\* What a call asks of the server: URIs by their keys
Request(c) ==
  CASE c.op \in Puts -> ObjectRequest(c)
    [] c.op \in {"put_dataspace", "put_dataspaces_with_acl"} -> SpaceRequest(c)
    [] c.op \in Gets \cup {"delete_dataspace", "delete_data_object"} -> AsStrDict(c)
    [] c.op \in Lists -> ByKey(<<Positions[1]>>, <<ValidUri(c.items[1])>>)
    [] OTHER -> EmptyMap

\* What the code, or parse_uri() of a plain name, may make of the arguments
\* before anything is sent
Raises(c) ==
  \/ c.op \in {"put_data_object_str", "put_data_object_file"} /\ ~Buildable(c)
  \/ c.op = "put_dataspaces_with_acl" /\ ~AclParses(c)

MayRaise(c) ==
  \/ Raises(c)
  \/ c.op = "put_dataspace"
     /\ \E k \in DOMAIN Request(c) : Request(c)[k].plain

-----------------------------------------------------------------------------
(***************************************************************************)
(* What is made of an answer                                               *)
(***************************************************************************)

Value(map) == [kind |-> "value", value |-> map]
Ended(kind) == [kind |-> kind, value |-> EmptyMap]

Refused(ms) == \E i \in DOMAIN ms : ms[i].kind \in {"error", "errors"}

\* The maps of the messages of some kinds, the later over the earlier one
Merged(ms, kinds) ==
  LET from == {i \in DOMAIN ms : ms[i].kind \in kinds}
      with(k) == {i \in from : k \in DOMAIN ms[i].map}
  IN [k \in UNION {DOMAIN ms[i].map : i \in from} |->
        LET last == CHOOSE i \in with(k) : \A j \in with(k) : j <= i
        IN ms[last].map[k]]

\* Seeded bug: what has come is returned, whatever is missing.
GetDataObjectShort(c, ms) ==
  LET data == Merged(ms, {"response"})
      keys == Range(KeysOf(c)) \cap DOMAIN data
  IN IF Refused(ms) THEN Ended("exception")
     ELSE IF data = EmptyMap \/ c.form = "uri" THEN Ended("none")
     ELSE Value([k \in keys |-> data[k]])

\* Seeded bug: a dictionary is forgotten.
GetDataObjectNoDict(c, ms) ==
  LET data == Merged(ms, {"response"})
      keys == Range(KeysOf(c))
  IN IF Refused(ms) THEN Ended("exception")
     ELSE IF data = EmptyMap \/ c.form \in {"uri", "dict"} THEN Ended("none")
     ELSE IF keys \subseteq DOMAIN data THEN Value([k \in keys |-> data[k]])
     ELSE Ended("raised")

\* get_data_object(): a key that is missing raises; one ETPUri is of none of
\* the forms that the answer is taken for.
GetDataObject(c, ms) ==
  LET data == Merged(ms, {"response"})
      keys == Range(KeysOf(c))
  IN IF Refused(ms) THEN Ended("exception")
     ELSE IF data = EmptyMap \/ c.form = "uri" THEN Ended("none")
     ELSE IF keys \subseteq DOMAIN data THEN Value([k \in keys |-> data[k]])
     ELSE Ended("raised")

\* get_data_object_as_obj() parses all of them.
GetDataObjectAsObj(c, ms) ==
  LET got == GetDataObject(c, ms)
  IN IF Unreadable \in {got.value[k] : k \in DOMAIN got.value}
       THEN Ended("raised") ELSE got

\* put_dataspace(), delete_dataspace()
DataspacesAnswer(ms) ==
  IF Refused(ms) THEN Ended("exception") ELSE Value(Merged(ms, {"response"}))

\* put_data_object_str(), put_data_object_obj(), delete_data_object(): an
\* exception is logged
WrittenAnswer(ms) == Value(Merged(ms, {"response"}))

\* put_data_object_file() lists what was refused with the rest.
FileAnswer(ms) ==
  IF Len(ms) = 1 /\ ms[1].kind = "error"
    THEN Ended("exception")
    ELSE Value(Merged(ms, {"response", "errors"}))

\* get_dataspaces(), get_resources()
ListAnswer(ms) ==
  IF Refused(ms) THEN Ended("exception") ELSE Value(Merged(ms, {"response"}))

\* search_resource() walks over an exception as if it were resources; with a
\* result, it takes out what does not have the uuid.
SearchAnswer(c, ms) ==
  LET listed == Merged(ms, {"response"})
  IN IF Refused(ms) THEN Value(EmptyMap)
     ELSE Value([u \in {v \in DOMAIN listed : v.id = c.uuid} |-> listed[u]])

\* get_supported_types(): an exception is logged
TypesAnswer(ms) == Value(Merged(ms, {"response"}))

\* ping()
PingAnswer(ms) == Ended(IF Refused(ms) THEN "no" ELSE "yes")

\* authorize() looks at the first message.
AuthorizeAnswer(ms) ==
  CASE ms[1].kind = "response" -> Value(EmptyMap)
    [] ms[1].kind \in {"error", "errors"} -> Ended("exception")
    [] OTHER -> Ended("none")

Result(c, ms) ==
  CASE c.op = "get_data_object" -> GetDataObject(c, ms)
    [] c.op = "get_data_object_as_obj" -> GetDataObjectAsObj(c, ms)
    [] c.op \in SpaceWrites -> DataspacesAnswer(ms)
    [] c.op = "put_data_object_file" -> FileAnswer(ms)
    [] c.op \in {"put_data_object_str", "put_data_object_obj",
                 "delete_data_object"} -> WrittenAnswer(ms)
    [] c.op \in {"get_dataspaces", "get_resources"} -> ListAnswer(ms)
    [] c.op = "search_resource" -> SearchAnswer(c, ms)
    [] c.op = "get_supported_types" -> TypesAnswer(ms)
    [] c.op = "ping" -> PingAnswer(ms)
    [] c.op = "authorize" -> AuthorizeAnswer(ms)

-----------------------------------------------------------------------------
(***************************************************************************)
(* The server                                                              *)
(***************************************************************************)

Held == {u \in Uris : store[u] # Absent}

\* The keys of a request that the server can serve, or what it has to list
Servable(c) ==
  LET r == Request(c)
  IN CASE c.op \in Gets \cup {"delete_data_object"} ->
            {k \in DOMAIN r : r[k] \in Held}
       [] c.op = "delete_dataspace" -> {k \in DOMAIN r : r[k] \in spaces}
       [] c.op \in Puts \cup {"put_dataspace", "put_dataspaces_with_acl"} -> DOMAIN r
       [] c.op = "get_dataspaces" -> spaces
       [] c.op \in Lists \ {"get_dataspaces"} ->
            {u \in Held : u.space = r[Positions[1]].space}
       [] OTHER -> {}

\* It serves any of the keys, and lists all that there is to list.
ServedOf(c) == IF c.op \in Lists THEN {Servable(c)} ELSE SUBSET Servable(c)

\* What it says of a key that it serves
Told(c, k) ==
  CASE c.op \in Gets -> store[Request(c)[k]]
    [] c.op \in Lists -> k
    [] OTHER -> "done"

Response(c, keys) == [kind |-> "response", map |-> [k \in keys |-> Told(c, k)]]
Errors(keys) == [kind |-> "errors", map |-> [k \in keys |-> "refused"]]
Message(kind) == [kind |-> kind, map |-> EmptyMap]

\* The beginnings of what it may send for the keys that it serves and the rest:
\* one or two messages, one of which may tell the errors
Answers(c, served) ==
  LET rest == IF c.op \in Lists THEN {} ELSE DOMAIN Request(c) \ served IN
    {<<Response(c, part)>> : part \in SUBSET served}
      \cup {<<Response(c, part), Response(c, served \ part)>> : part \in SUBSET served}
      \cup {<<Message("other")>>}
      \cup IF rest = {} THEN {}
           ELSE {<<Errors(rest)>>, <<Errors(rest), Response(c, served)>>,
                 <<Response(c, served), Errors(rest)>>}

\* The content of the object that a call puts under a key
PutUnder(c, k) ==
  ObjectsOf(c)[CHOOSE i \in DOMAIN Positions : Positions[i] = k].content

\* What becomes of its objects and dataspaces.  Of several objects of one uuid
\* it keeps any.
Serve(c, served) ==
  LET r == Request(c)
      uris == {r[k] : k \in served}
  IN CASE c.op \in Puts ->
            /\ \E from \in [uris -> served] :
                 /\ \A u \in uris : r[from[u]] = u
                 /\ store' = [u \in Uris |-> IF u \in uris
                                             THEN PutUnder(c, from[u]) ELSE store[u]]
            /\ UNCHANGED spaces
       [] c.op = "delete_data_object" ->
            /\ store' = [u \in Uris |-> IF u \in uris THEN Absent ELSE store[u]]
            /\ UNCHANGED spaces
       [] c.op \in {"put_dataspace", "put_dataspaces_with_acl"} ->
            /\ spaces' = spaces \cup uris
            /\ UNCHANGED store
       [] c.op = "delete_dataspace" ->
            /\ spaces' = spaces \ uris
            /\ store' = [u \in Uris |-> IF Uri(u.space, NoId) \in uris
                                          THEN Absent ELSE store[u]]
       [] OTHER -> UNCHANGED serverVars

-----------------------------------------------------------------------------
(***************************************************************************)
(* The steps                                                               *)
(***************************************************************************)

Idle == [op |-> "none"]

Init ==
  /\ store = [u \in Uris |-> Absent]
  /\ spaces = {}
  /\ stage = "idle"
  /\ call = Idle
  /\ msgs = <<>>
  /\ outcome = Ended("none")

\* A call builds its request and sends it.
Ask(c) ==
  /\ stage = "idle"
  /\ call' = c
  /\ \/ /\ ~Raises(c)
        /\ stage' = "sent"
        /\ UNCHANGED outcome
     \/ /\ MayRaise(c)
        /\ stage' = "ended"
        /\ outcome' = Ended("raised")
  /\ UNCHANGED <<serverVars, msgs>>

\* It is served and answered.
Return ==
  /\ stage = "sent"
  /\ \/ \E served \in ServedOf(call) :
          Serve(call, served) /\ msgs' \in Answers(call, served)
     \/ UNCHANGED serverVars /\ msgs' = <<Message("error")>>
  /\ outcome' = Result(call, msgs')
  /\ stage' = "ended"
  /\ UNCHANGED call

\* send_and_wait() raises, before it is served or after.
Fail ==
  /\ stage = "sent"
  /\ \/ UNCHANGED serverVars
     \/ \E served \in ServedOf(call) : Serve(call, served)
  /\ outcome' = Ended("raised")
  /\ stage' = "ended"
  /\ UNCHANGED <<call, msgs>>

\* The caller has seen what was returned.
Seen ==
  /\ stage = "ended"
  /\ stage' = "idle"
  /\ call' = Idle
  /\ msgs' = <<>>
  /\ outcome' = Ended("none")
  /\ UNCHANGED serverVars

\* Another client puts or deletes an object.  What a call returns is of the
\* moment at which it is served, so that nobody else acts until it is seen.
Others ==
  /\ stage # "ended"
  /\ \E u \in Uris, content \in Contents \cup {Absent} :
       store' = [store EXCEPT ![u] = content]
  /\ UNCHANGED <<spaces, stage, call, msgs, outcome>>

Next == (\E c \in Calls : Ask(c)) \/ Return \/ Fail \/ Seen \/ Others

Spec == Init /\ [][Next]_vars

-----------------------------------------------------------------------------
(***************************************************************************)
(* Properties                                                              *)
(***************************************************************************)

Returned(kind) == stage = "ended" /\ outcome.kind = kind

\* The names of a call, by the keys under which the caller looks for them
Asked(c) == ByKey(KeysOf(c), AsStrList(c))

\* One plain name, to put_dataspace() or delete_dataspace(), is sent as it is.
NamedRaw(c) ==
  c.op \in {"put_dataspace", "delete_dataspace"} /\ c.form = "str"
    /\ c.items[1].plain

\* get_data_object() returns whatever was asked for, each under the key or at
\* the place where it was asked, as the server held it; or nothing at all.
WholeAndOwn ==
  call.op \in Gets /\ Returned("value") =>
    outcome.value = [k \in DOMAIN Asked(call) |-> store[Asked(call)[k]]]

\* What a call lists as written is written: the object that the caller gave
\* at that place, or another that it gave for the same uuid, is in the dataspace
\* it named, the dataspace is there under its URI, whatever form it was named
\* in, or what was deleted is gone.
ReportsAreTrue ==
  call.op \in Writes /\ Returned("value") /\ ~(NamedRaw(call)) =>
    \A k \in DOMAIN outcome.value : outcome.value[k] = "done" =>
      CASE call.op \in Puts ->
             LET i == CHOOSE i \in DOMAIN Positions : Positions[i] = k
                 id == ObjectsOf(call)[i].id
             IN \E j \in DOMAIN ObjectsOf(call) :
                  /\ ObjectsOf(call)[j].id = id
                  /\ store[Uri(ValidUri(call.where).space, id)]
                       = ObjectsOf(call)[j].content
        [] call.op = "delete_data_object" -> store[Asked(call)[k]] = Absent
        [] call.op = "delete_dataspace" -> Asked(call)[k] \notin spaces
        [] OTHER -> Asked(call)[k] \in spaces

\* An answer in one message that serves all that was asked is returned in full:
\* every object, every report, every resource that the server has.
NothingIsLost ==
  stage = "ended" /\ Len(msgs) = 1 /\ msgs[1].kind = "response"
      /\ call.form # "uri" =>
    CASE call.op \in Gets ->
           DOMAIN msgs[1].map = DOMAIN Asked(call) /\ msgs[1].map # EmptyMap
               /\ (\A k \in DOMAIN msgs[1].map : msgs[1].map[k] # Unreadable)
             => Returned("value")
      [] call.op \in Writes \cup (Lists \ {"search_resource"}) ->
           Returned("value") /\ DOMAIN outcome.value = DOMAIN msgs[1].map
      [] call.op = "search_resource" ->
           DOMAIN outcome.value = {u \in DOMAIN msgs[1].map : u.id = call.uuid}
      [] OTHER -> Returned("yes") \/ Returned("value")

=============================================================================
