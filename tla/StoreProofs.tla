----------------------------- MODULE StoreProofs -----------------------------
(***************************************************************************)
(* Proofs about Store, for any objects, dataspaces and calls: what a call  *)
(* gets is what it asked for, what it lists as written is written, and     *)
(* nothing of an answer in one message is lost.                            *)
(***************************************************************************)
EXTENDS Store, SequenceTheorems, TLAPS

-----------------------------------------------------------------------------
(***************************************************************************)
(* The arguments of a call                                                 *)
(***************************************************************************)

\* Where a key is
Place(keys, k) == CHOOSE i \in DOMAIN keys : keys[i] = k

\* A dictionary holds under a key what is at the place of the key.
LEMMA ByKeyAt ==
  ASSUME NEW keys, NEW items, NEW k \in Range(keys)
  PROVE  /\ Place(keys, k) \in DOMAIN keys
         /\ keys[Place(keys, k)] = k
         /\ ByKey(keys, items)[k] = items[Place(keys, k)]
<1>1. \E i \in DOMAIN keys : keys[i] = k
  BY DEF Range
<1>2. Place(keys, k) \in DOMAIN keys /\ keys[Place(keys, k)] = k
  BY <1>1 DEF Place
<1> QED
  BY <1>2 DEF ByKey, Place

\* A dictionary has the keys that it was made with.
LEMMA ByKeyDomain ==
  ASSUME NEW keys, NEW items
  PROVE  DOMAIN ByKey(keys, items) = Range(keys)
BY DEF ByKey

\* The first positions
LEMMA FirstPositions ==
  ASSUME NEW n \in Nat, n <= Len(Positions)
  PROVE  /\ DOMAIN SubSeq(Positions, 1, n) = 1..n
         /\ \A i \in 1..n : i \in DOMAIN Positions
                             /\ SubSeq(Positions, 1, n)[i] = Positions[i]
<1>1. Positions \in Seq(Range(Positions))
  BY StoreAssumption
<1>2. \A i \in 1..n : Positions[i] \in Range(Positions) /\ i \in DOMAIN Positions
  BY <1>1 DEF Range
<1>3. /\ SubSeq(Positions, 1, n) \in Seq(Range(Positions))
      /\ Len(SubSeq(Positions, 1, n)) = n
      /\ \A i \in 1..n : SubSeq(Positions, 1, n)[i] = Positions[i]
  BY <1>2, SubSeqProperties
<1> QED
  BY <1>2, <1>3

\* What the assumption says of one call
LEMMA CallShape ==
  ASSUME NEW c \in Calls
  PROVE  /\ c.op \in Ops /\ c.form \in Forms
         /\ c.items \in Seq(Range(c.items)) /\ c.keys \in Seq(Range(c.keys))
         /\ c.form \in {"str", "uri"} => Len(c.items) = 1
         /\ Len(c.items) <= Len(Positions)
         /\ c.form = "dict" => Len(c.keys) = Len(c.items)
BY StoreAssumption

\* There is a key for each of the items.
LEMMA KeysShape ==
  ASSUME NEW c \in Calls
  PROVE  DOMAIN KeysOf(c) = DOMAIN c.items
<1>1. c.items \in Seq(Range(c.items)) /\ c.keys \in Seq(Range(c.keys))
  BY CallShape
<1>2. DOMAIN c.items = 1..Len(c.items) /\ Len(c.items) \in Nat
  BY <1>1
<1>3. CASE c.form = "dict"
  <2>1. DOMAIN c.keys = 1..Len(c.keys) /\ Len(c.keys) = Len(c.items)
    BY <1>1, <1>3, CallShape
  <2> QED
    BY <1>2, <1>3, <2>1 DEF KeysOf
<1>4. CASE c.form # "dict"
  BY <1>2, <1>4, CallShape, FirstPositions DEF KeysOf
<1> QED
  BY <1>3, <1>4

\* What a call asks for under a key, and what it sends, are the same item.
LEMMA AskedAt ==
  ASSUME NEW c \in Calls
  PROVE  /\ DOMAIN Asked(c) = Range(KeysOf(c))
         /\ DOMAIN AsStrDict(c) = Range(KeysOf(c))
         /\ \A k \in Range(KeysOf(c)) :
              \E i \in DOMAIN c.items :
                /\ Asked(c)[k] = ValidUri(c.items[i])
                /\ AsStrDict(c)[k] = IF c.form = "str" THEN c.items[i]
                                     ELSE ValidUri(c.items[i])
<1>1. DOMAIN Asked(c) = Range(KeysOf(c)) /\ DOMAIN AsStrDict(c) = Range(KeysOf(c))
  BY ByKeyDomain DEF Asked, AsStrDict
<1>2. ASSUME NEW k \in Range(KeysOf(c))
      PROVE  \E i \in DOMAIN c.items :
                /\ Asked(c)[k] = ValidUri(c.items[i])
                /\ AsStrDict(c)[k] = IF c.form = "str" THEN c.items[i]
                                     ELSE ValidUri(c.items[i])
  <2> DEFINE i == Place(KeysOf(c), k)
  <2>1. i \in DOMAIN c.items
    BY ByKeyAt, KeysShape
  <2>2. Asked(c)[k] = AsStrList(c)[i]
    BY ByKeyAt DEF Asked
  <2>3. AsStrList(c)[i] = ValidUri(c.items[i])
    BY <2>1 DEF AsStrList
  <2>4. ByKey(KeysOf(c), c.items)[k] = c.items[i]
    BY ByKeyAt
  <2>5. k \in DOMAIN ByKey(KeysOf(c), c.items)
    BY ByKeyDomain
  <2>6. AsStrDict(c)[k] = IF c.form = "str" THEN c.items[i] ELSE ValidUri(c.items[i])
    BY <2>4, <2>5 DEF AsStrDict
  <2> QED
    BY <2>1, <2>2, <2>3, <2>6
<1> QED
  BY <1>1, <1>2

\* get_valid_uri_str() makes a URI of a name or of none, and keeps a URI.
LEMMA ValidName ==
  /\ \A n \in Names \cup {None} : ValidUri(n) \in Names /\ ~(ValidUri(n).plain)
  /\ \A n \in Names : ~(n.plain) => ValidUri(n) = n
<1>1. Home \in Spaces /\ None \notin Names
  BY StoreAssumption
<1>2. Uri(Home, NoId) \in Names /\ ~(Uri(Home, NoId).plain)
  BY <1>1 DEF Uri, Names
<1>3. ASSUME NEW n \in Names
      PROVE  /\ ValidUri(n) \in Names /\ ~(ValidUri(n).plain)
             /\ ~(n.plain) => ValidUri(n) = n
  <2>1. ValidUri(n) = [n EXCEPT !.plain = FALSE]
    BY <1>1 DEF ValidUri
  <2> QED
    BY <2>1 DEF Names
<1>4. ValidUri(None) = Uri(Home, NoId)
  BY DEF ValidUri
<1> QED
  BY <1>2, <1>3, <1>4

\* The calls whose items are URIs or the names of dataspaces
Naming == Gets \cup SpaceWrites \cup {"delete_data_object"}

\* What such a call asks for is well named.
LEMMA ItemsNamed ==
  ASSUME NEW c \in Calls, c.op \in Naming, NEW i \in DOMAIN c.items
  PROVE  /\ c.items[i] \in Names \cup {None}
         /\ c.form = "str" => c.items[i] \in Names
<1>1. Range(c.items) \subseteq IF c.form = "str" THEN Names ELSE Names \cup {None}
  BY StoreAssumption DEF Naming
<1>2. c.items[i] \in Range(c.items)
  BY DEF Range
<1> QED
  BY <1>1, <1>2

\* Where it is not a plain name, what is sent is what is asked for.
LEMMA SentAsAsked ==
  ASSUME NEW c \in Calls, c.op \in Naming, NEW k \in Range(KeysOf(c)),
         ~(AsStrDict(c)[k].plain) \/ c.form # "str"
  PROVE  AsStrDict(c)[k] = Asked(c)[k]
<1>1. PICK i \in DOMAIN c.items :
        /\ Asked(c)[k] = ValidUri(c.items[i])
        /\ AsStrDict(c)[k] = IF c.form = "str" THEN c.items[i]
                             ELSE ValidUri(c.items[i])
  BY AskedAt
<1> QED
  BY <1>1, ItemsNamed, ValidName

-----------------------------------------------------------------------------
(***************************************************************************)
(* The answers                                                             *)
(***************************************************************************)

\* What may be made of one call
Replies(c, served) == Answers(c, served) \cup {<<Message("error")>>}

\* What a message says of a key is what the server says of it, or that it is
\* refused.
Fine(c, served, m) ==
  /\ m.map = [k \in DOMAIN m.map |-> m.map[k]]
  /\ m.kind = "response" => \A k \in DOMAIN m.map : k \in served /\ m.map[k] = Told(c, k)
  /\ m.kind = "errors" => \A k \in DOMAIN m.map : m.map[k] = "refused"

\* An answer is one message or two, each of them fine.
LEMMA AnswerShape ==
  ASSUME NEW c, NEW served, NEW ms \in Replies(c, served)
  PROVE  /\ DOMAIN ms = {1} \/ DOMAIN ms = {1, 2}
         /\ \A i \in DOMAIN ms : Fine(c, served, ms[i])
<1>1. \A part \in SUBSET served : Fine(c, served, Response(c, part))
  BY DEF Fine, Response
<1>2. \A part : Fine(c, served, Errors(part))
  BY DEF Fine, Errors
<1>3. Fine(c, served, Message("other")) /\ Fine(c, served, Message("error"))
  BY DEF Fine, Message, EmptyMap
<1>4. \/ \E part \in SUBSET served : ms = <<Response(c, part)>>
      \/ \E part \in SUBSET served :
           ms = <<Response(c, part), Response(c, served \ part)>>
      \/ ms = <<Message("other")>> \/ ms = <<Message("error")>>
      \/ \E rest : ms \in {<<Errors(rest)>>, <<Errors(rest), Response(c, served)>>,
                           <<Response(c, served), Errors(rest)>>}
  BY DEF Replies, Answers
<1>5. \A a : DOMAIN <<a>> = {1} /\ <<a>>[1] = a
  OBVIOUS
<1>6. \A a, b : DOMAIN <<a, b>> = {1, 2} /\ <<a, b>>[1] = a /\ <<a, b>>[2] = b
  OBVIOUS
<1>7. \A part \in SUBSET served : served \ part \in SUBSET served
  OBVIOUS
<1>8. served \in SUBSET served
  OBVIOUS
<1>9. ASSUME NEW a, Fine(c, served, a), ms = <<a>>
      PROVE  DOMAIN ms = {1} /\ \A i \in DOMAIN ms : Fine(c, served, ms[i])
  BY <1>5, <1>9
<1>10. ASSUME NEW a, NEW b, Fine(c, served, a), Fine(c, served, b), ms = <<a, b>>
       PROVE  DOMAIN ms = {1, 2} /\ \A i \in DOMAIN ms : Fine(c, served, ms[i])
  BY <1>6, <1>10
<1> QED
  BY <1>1, <1>2, <1>3, <1>4, <1>7, <1>8, <1>9, <1>10

\* So it is with a response of an answer.
LEMMA RespondedAt ==
  ASSUME NEW c, NEW served, NEW ms \in Replies(c, served), NEW i \in DOMAIN ms,
         ms[i].kind = "response", NEW k \in DOMAIN ms[i].map
  PROVE  k \in served /\ ms[i].map[k] = Told(c, k)
<1>1. Fine(c, served, ms[i])
  BY AnswerShape
<1> QED
  BY <1>1 DEF Fine

\* What is made of several messages is in one of them.
LEMMA MergedAt ==
  ASSUME NEW ms, DOMAIN ms = {1} \/ DOMAIN ms = {1, 2}, NEW kinds,
         NEW k \in DOMAIN Merged(ms, kinds)
  PROVE  \E i \in DOMAIN ms :
           /\ ms[i].kind \in kinds /\ k \in DOMAIN ms[i].map
           /\ Merged(ms, kinds)[k] = ms[i].map[k]
<1> DEFINE from == {i \in DOMAIN ms : ms[i].kind \in kinds}
           with == {i \in from : k \in DOMAIN ms[i].map}
           last == CHOOSE i \in with : \A j \in with : j <= i
<1>1. with # {} /\ with \subseteq {1, 2}
  BY DEF Merged
<1>2. \E i \in with : \A j \in with : j <= i
  BY <1>1
<1>3. last \in with
  BY <1>2
<1>4. Merged(ms, kinds)[k] = ms[last].map[k]
  BY DEF Merged
<1> QED
  BY <1>3, <1>4

\* What is made of one message is what it says.
LEMMA MergedOne ==
  ASSUME NEW ms, DOMAIN ms = {1}, NEW kinds, ms[1].kind \in kinds
  PROVE  /\ DOMAIN Merged(ms, kinds) = DOMAIN ms[1].map
         /\ \A k \in DOMAIN ms[1].map : Merged(ms, kinds)[k] = ms[1].map[k]
<1>1. DOMAIN Merged(ms, kinds) = DOMAIN ms[1].map
  BY DEF Merged
<1> QED
  BY <1>1, MergedAt

-----------------------------------------------------------------------------
(***************************************************************************)
(* What a call returns                                                     *)
(***************************************************************************)

\* get_data_object() returns a value only when it has all the keys, and no
\* error; what it returns is what came.
LEMMA GotShape ==
  ASSUME NEW c, c.op \in Gets, NEW ms, Result(c, ms).kind = "value"
  PROVE  LET data == Merged(ms, {"response"})
             keys == Range(KeysOf(c))
         IN keys \subseteq DOMAIN data /\ Result(c, ms).value = [k \in keys |-> data[k]]
<1> DEFINE data == Merged(ms, {"response"})
           keys == Range(KeysOf(c))
<1>1. GetDataObject(c, ms).kind = "value" /\ Result(c, ms) = GetDataObject(c, ms)
  <2>1. CASE c.op = "get_data_object"
    BY <2>1 DEF Result, SpaceWrites
  <2>2. CASE c.op = "get_data_object_as_obj"
    <3>1. Result(c, ms) = GetDataObjectAsObj(c, ms)
      BY <2>2 DEF Result, SpaceWrites
    <3>2. Ended("raised").kind = "raised"
      BY DEF Ended
    <3> QED
      BY <3>1, <3>2 DEF GetDataObjectAsObj
  <2> QED
    BY <2>1, <2>2 DEF Gets
<1>2. \A kind \in {"exception", "none", "raised"} : Ended(kind).kind # "value"
  BY DEF Ended
<1> HIDE DEF data, keys
<1>3. keys \subseteq DOMAIN data /\ GetDataObject(c, ms) = Value([k \in keys |-> data[k]])
  BY <1>1, <1>2 DEF GetDataObject, data, keys
<1> QED
  BY <1>1, <1>3 DEF Value, data, keys

\* The value of a call that writes is made of its responses and errors.
LEMMA WrittenShape ==
  ASSUME NEW c, c.op \in Writes, NEW ms, Result(c, ms).kind = "value"
  PROVE  \E kinds \in SUBSET {"response", "errors"} :
           "response" \in kinds /\ Result(c, ms).value = Merged(ms, kinds)
<1>1. Ended("exception").kind # "value"
  BY DEF Ended
<1>2. CASE c.op \in SpaceWrites
  <2>1. Result(c, ms) = DataspacesAnswer(ms)
    BY <1>2 DEF Result, SpaceWrites
  <2> QED
    BY <1>1, <2>1 DEF DataspacesAnswer, Value
<1>3. CASE c.op = "put_data_object_file"
  <2>1. Result(c, ms) = FileAnswer(ms)
    BY <1>3 DEF Result, SpaceWrites
  <2> QED
    BY <1>1, <2>1 DEF FileAnswer, Value
<1>4. CASE c.op \in {"put_data_object_str", "put_data_object_obj", "delete_data_object"}
  <2>1. Result(c, ms) = WrittenAnswer(ms)
    BY <1>4 DEF Result, SpaceWrites
  <2> QED
    BY <2>1 DEF WrittenAnswer, Value
<1> QED
  BY <1>2, <1>3, <1>4 DEF Writes, Puts

\* The requests, by operation
LEMMA RequestShape ==
  ASSUME NEW c
  PROVE  /\ c.op \in Gets \cup {"delete_dataspace", "delete_data_object"} =>
              Request(c) = AsStrDict(c)
         /\ c.op \in Puts => Request(c) = ObjectRequest(c)
         /\ c.op \in {"put_dataspace", "put_dataspaces_with_acl"} =>
              Request(c) = SpaceRequest(c)
BY DEF Request, Gets, Puts, Lists

\* What the server can serve, by operation
LEMMA ServableShape ==
  ASSUME NEW c, NEW served \in ServedOf(c), NEW k \in served
  PROVE  /\ c.op \in Gets \cup {"delete_data_object"} =>
              k \in DOMAIN Request(c) /\ Request(c)[k] \in Held
         /\ c.op \in Puts \cup SpaceWrites => k \in DOMAIN Request(c)
<1>1. c.op \in Gets \cup Puts \cup SpaceWrites \cup {"delete_data_object"} =>
        k \in Servable(c)
  BY DEF ServedOf, Lists, Gets, Puts, SpaceWrites
<1>2. CASE c.op \in Gets \cup {"delete_data_object"}
  <2>1. Servable(c) = {j \in DOMAIN Request(c) : Request(c)[j] \in Held}
    BY <1>2 DEF Servable, Gets, Puts, Lists
  <2> QED
    BY <1>1, <1>2, <2>1 DEF Gets, Puts, SpaceWrites
<1>3. CASE c.op \in Puts \cup SpaceWrites
  <2>1. Servable(c) \subseteq DOMAIN Request(c)
    BY <1>3 DEF Servable, Gets, Puts, SpaceWrites, Lists
  <2> QED
    BY <1>1, <1>3, <2>1 DEF Gets, Puts, SpaceWrites
<1> QED
  BY <1>2, <1>3

\* get_data_object() returns what was asked for: the keys are those that were
\* asked, and under each is what the server holds.
LEMMA GotIsOwn ==
  ASSUME NEW c \in Calls, c.op \in Gets, NEW served \in ServedOf(c),
         NEW ms \in Replies(c, served), Result(c, ms).kind = "value"
  PROVE  Result(c, ms).value = [k \in DOMAIN Asked(c) |-> store[Asked(c)[k]]]
<1> DEFINE data == Merged(ms, {"response"})
           keys == Range(KeysOf(c))
<1>1. keys \subseteq DOMAIN data /\ Result(c, ms).value = [k \in keys |-> data[k]]
  BY GotShape
<1>2. DOMAIN Asked(c) = keys
  BY AskedAt
<1>3. ASSUME NEW k \in keys
      PROVE  data[k] = store[Asked(c)[k]]
  <2>1. PICK i \in DOMAIN ms :
          ms[i].kind = "response" /\ k \in DOMAIN ms[i].map /\ data[k] = ms[i].map[k]
    <3>1. DOMAIN ms = {1} \/ DOMAIN ms = {1, 2}
      BY AnswerShape
    <3>2. k \in DOMAIN data
      BY <1>1
    <3>3. PICK i \in DOMAIN ms :
            ms[i].kind \in {"response"} /\ k \in DOMAIN ms[i].map /\ data[k] = ms[i].map[k]
      BY <3>1, <3>2, MergedAt
    <3> QED
      BY <3>3
  <2>2. k \in served /\ data[k] = Told(c, k)
    <3>1. k \in served /\ ms[i].map[k] = Told(c, k)
      BY <2>1, RespondedAt
    <3> QED
      BY <2>1, <3>1
  <2>3. Request(c) = AsStrDict(c)
    BY RequestShape
  <2>4. AsStrDict(c)[k] \in Held
    BY <2>2, <2>3, ServableShape
  <2>5. AsStrDict(c)[k] = Asked(c)[k]
    BY <2>4, SentAsAsked DEF Held, Uris, Naming
  <2>6. Told(c, k) = store[Request(c)[k]]
    BY DEF Told, Gets, Lists
  <2> QED
    BY <2>2, <2>3, <2>5, <2>6
<1> QED
  BY <1>1, <1>2, <1>3

\* What is reported as done was served.
LEMMA DoneIsServed ==
  ASSUME NEW c, c.op \in Writes, NEW served,
         NEW ms \in Replies(c, served), Result(c, ms).kind = "value",
         NEW k \in DOMAIN Result(c, ms).value, Result(c, ms).value[k] = "done"
  PROVE  k \in served
<1>1. PICK kinds \in SUBSET {"response", "errors"} :
        Result(c, ms).value = Merged(ms, kinds)
  BY WrittenShape
<1>2. DOMAIN ms = {1} \/ DOMAIN ms = {1, 2}
  BY AnswerShape
<1>3. PICK i \in DOMAIN ms :
        /\ ms[i].kind \in kinds /\ k \in DOMAIN ms[i].map
        /\ Merged(ms, kinds)[k] = ms[i].map[k]
  BY <1>1, <1>2, MergedAt
<1>4. ms[i].map[k] = "done" /\ ms[i].kind \in {"response", "errors"}
  BY <1>1, <1>3
<1>5. ms[i].kind # "errors"
  <2>1. Fine(c, served, ms[i])
    BY AnswerShape
  <2> QED
    BY <1>3, <1>4, <2>1 DEF Fine
<1> QED
  BY <1>3, <1>4, <1>5, RespondedAt

-----------------------------------------------------------------------------
(***************************************************************************)
(* What a call lists as written                                            *)
(***************************************************************************)

\* An object is put under its position, as its URI in the dataspace.
LEMMA PutAt ==
  ASSUME NEW c \in Calls, c.op \in Puts, NEW k \in DOMAIN Request(c)
  PROVE  LET i == CHOOSE j \in DOMAIN Positions : Positions[j] = k
         IN /\ i \in DOMAIN ObjectsOf(c)
            /\ Request(c)[k] = ResourceUri(c.where, ObjectsOf(c)[i])
            /\ Request(c)[k] \in Uris
<1> DEFINE objects == ObjectsOf(c)
           n == Len(objects)
           keys == SubSeq(Positions, 1, n)
           items == [i \in DOMAIN objects |-> ResourceUri(c.where, objects[i])]
           i == CHOOSE j \in DOMAIN Positions : Positions[j] = k
           p == Place(keys, k)
<1>1. /\ objects \in Seq([id : Ids, content : Contents])
      /\ n \in Nat /\ n <= Len(Positions) /\ c.where \in Names \cup {None}
  <2>1. /\ ObjectsOf(c) \in Seq([id : Ids, content : Contents])
        /\ Len(ObjectsOf(c)) <= Len(Positions) /\ c.where \in Names \cup {None}
    BY ObjectsAssumption
  <2>2. Len(ObjectsOf(c)) \in Nat
    BY <2>1
  <2> QED
    BY <2>1, <2>2
<1>2. DOMAIN objects = 1..n
  BY <1>1
<1>3. /\ DOMAIN keys = 1..n
      /\ \A j \in 1..n : j \in DOMAIN Positions /\ keys[j] = Positions[j]
  BY <1>1, FirstPositions
<1> HIDE DEF objects
<1>4. Request(c) = ByKey(keys, items)
  BY RequestShape DEF ObjectRequest, objects
<1> HIDE DEF n, keys, items
<1>5. k \in Range(keys)
  BY <1>4, ByKeyDomain
<1>6. p \in 1..n /\ keys[p] = k /\ Request(c)[k] = items[p]
  <2>1. /\ Place(keys, k) \in DOMAIN keys /\ keys[Place(keys, k)] = k
        /\ ByKey(keys, items)[k] = items[Place(keys, k)]
    BY <1>5, ByKeyAt
  <2> QED
    BY <1>3, <1>4, <2>1
<1>7. p \in DOMAIN Positions /\ Positions[p] = k
  BY <1>3, <1>6
<1>8. i = p
  <2>1. \A a, b \in DOMAIN Positions : Positions[a] = Positions[b] => a = b
    BY StoreAssumption DEF IsInjective
  <2>2. i \in DOMAIN Positions /\ Positions[i] = k
    BY <1>7
  <2> QED
    BY <1>7, <2>1, <2>2
<1> HIDE DEF i, p
<1>9. items[p] = ResourceUri(c.where, objects[p])
  BY <1>2, <1>6 DEF items
<1>10. ResourceUri(c.where, objects[p]) \in Uris
  <2>1. ValidUri(c.where).space \in Spaces
    BY <1>1, ValidName DEF Names
  <2>2. objects[p].id \in Ids /\ NoId \notin Ids
    <3>1. objects[p] \in [id : Ids, content : Contents]
      <4>1. objects \in Seq([id : Ids, content : Contents]) /\ p \in 1..Len(objects)
        BY <1>1, <1>6 DEF n
      <4> QED
        BY <4>1, ElementOfSeq
    <3>2. NoId \notin Ids
      BY StoreAssumption
    <3> QED
      BY <3>1, <3>2
  <2> QED
    BY <2>1, <2>2 DEF ResourceUri, Uri, Uris, Names
<1> QED
  BY <1>2, <1>6, <1>8, <1>9, <1>10 DEF i, objects

\* What the server serves of a call that puts is in the store.
LEMMA PutIsStored ==
  ASSUME NEW c \in Calls, c.op \in Puts, NEW served \in ServedOf(c),
         Serve(c, served), NEW k \in served
  PROVE  LET i == CHOOSE j \in DOMAIN Positions : Positions[j] = k
             id == ObjectsOf(c)[i].id
         IN \E j \in DOMAIN ObjectsOf(c) :
              /\ ObjectsOf(c)[j].id = id
              /\ store'[Uri(ValidUri(c.where).space, id)] = ObjectsOf(c)[j].content
<1> DEFINE r == Request(c)
           uris == {r[q] : q \in served}
           i == CHOOSE j \in DOMAIN Positions : Positions[j] = k
           u == r[k]
<1>1. PICK from \in [uris -> served] :
        /\ \A v \in uris : r[from[v]] = v
        /\ store' = [v \in Uris |-> IF v \in uris
                                      THEN PutUnder(c, from[v]) ELSE store[v]]
  BY DEF Serve, Puts
<1>2. \A q \in served : q \in DOMAIN r
  BY ServableShape
<1>3. /\ i \in DOMAIN ObjectsOf(c)
      /\ u = ResourceUri(c.where, ObjectsOf(c)[i]) /\ u \in Uris
  BY <1>2, PutAt
<1> DEFINE q == from[u]
           j == CHOOSE m \in DOMAIN Positions : Positions[m] = q
<1>4. u \in uris /\ q \in served /\ r[q] = u
  BY <1>1
<1>5. j \in DOMAIN ObjectsOf(c) /\ r[q] = ResourceUri(c.where, ObjectsOf(c)[j])
  BY <1>2, <1>4, PutAt
<1>6. ObjectsOf(c)[j].id = ObjectsOf(c)[i].id
  <2> HIDE DEF i, j
  <2>1. ResourceUri(c.where, ObjectsOf(c)[j]) = ResourceUri(c.where, ObjectsOf(c)[i])
    BY <1>3, <1>4, <1>5
  <2>2. \A object : ResourceUri(c.where, object).id = object.id
    BY DEF ResourceUri, Uri
  <2> QED
    BY <2>1, <2>2
<1>7. store'[u] = ObjectsOf(c)[j].content
  BY <1>1, <1>3, <1>4 DEF PutUnder
<1>8. u = Uri(ValidUri(c.where).space, ObjectsOf(c)[i].id)
  BY <1>3 DEF ResourceUri
<1> HIDE DEF i, j, u
<1>9. \E m \in DOMAIN ObjectsOf(c) :
        /\ ObjectsOf(c)[m].id = ObjectsOf(c)[i].id
        /\ store'[Uri(ValidUri(c.where).space, ObjectsOf(c)[i].id)]
             = ObjectsOf(c)[m].content
  BY <1>5, <1>6, <1>7, <1>8
<1> QED
  BY <1>9 DEF i

\* What put_dataspace() sends for a name is the URI that is meant.
LEMMA SpaceSent ==
  ASSUME NEW c \in Calls, c.op \in SpaceWrites, ~(NamedRaw(c)),
         NEW k \in DOMAIN Request(c)
  PROVE  Request(c)[k] = Asked(c)[k]
<1>1. CASE c.op \in {"put_dataspace", "delete_dataspace"}
  <2>1. Request(c) = AsStrDict(c)
    BY <1>1, RequestShape DEF SpaceRequest
  <2>2. k \in Range(KeysOf(c))
    BY <2>1, AskedAt
  <2>3. ~(AsStrDict(c)[k].plain) \/ c.form # "str"
    <3> SUFFICES ASSUME c.form = "str" PROVE ~(AsStrDict(c)[k].plain)
      OBVIOUS
    <3>1. PICK i \in DOMAIN c.items : AsStrDict(c)[k] = c.items[i]
      BY <2>2, AskedAt
    <3>2. DOMAIN c.items = {1}
      <4>1. c.items \in Seq(Range(c.items)) /\ Len(c.items) = 1
        BY CallShape
      <4> QED
        BY <4>1
    <3> QED
      BY <1>1, <3>1, <3>2 DEF NamedRaw
  <2> QED
    BY <2>1, <2>2, <2>3, SentAsAsked DEF Naming
<1>2. CASE c.op = "put_dataspaces_with_acl"
  <2>1. Request(c) = [j \in DOMAIN AsStrDict(c) |-> ValidUri(AsStrDict(c)[j])]
    BY <1>2, RequestShape DEF SpaceRequest
  <2>2. k \in Range(KeysOf(c)) /\ Request(c)[k] = ValidUri(AsStrDict(c)[k])
    BY <2>1, AskedAt
  <2>3. PICK i \in DOMAIN c.items :
          /\ Asked(c)[k] = ValidUri(c.items[i])
          /\ AsStrDict(c)[k] = IF c.form = "str" THEN c.items[i]
                               ELSE ValidUri(c.items[i])
    BY <2>2, AskedAt
  <2>4. ValidUri(ValidUri(c.items[i])) = ValidUri(c.items[i])
    BY ItemsNamed, ValidName DEF Naming
  <2> QED
    BY <2>2, <2>3, <2>4
<1> QED
  BY <1>1, <1>2 DEF SpaceWrites

\* What delete_data_object() has served is gone.
LEMMA DeletedIsGone ==
  ASSUME NEW c \in Calls, c.op = "delete_data_object",
         NEW served \in ServedOf(c), Serve(c, served), NEW k \in served
  PROVE  store'[Asked(c)[k]] = Absent
<1>1. Request(c) = AsStrDict(c)
  BY RequestShape
<1>2. k \in Range(KeysOf(c)) /\ AsStrDict(c)[k] \in Uris
  BY <1>1, AskedAt, ServableShape DEF Held
<1>3. AsStrDict(c)[k] = Asked(c)[k]
  BY <1>2, SentAsAsked DEF Uris, Naming
<1>4. store' = [u \in Uris |-> IF u \in {Request(c)[q] : q \in served}
                                 THEN Absent ELSE store[u]]
  BY DEF Serve, Puts
<1> QED
  BY <1>1, <1>2, <1>3, <1>4

\* A dataspace that was put is there, one that was deleted is not.
LEMMA SpacesFollow ==
  ASSUME NEW c \in Calls, c.op \in SpaceWrites, ~(NamedRaw(c)),
         NEW served \in ServedOf(c), Serve(c, served), NEW k \in served
  PROVE  IF c.op = "delete_dataspace" THEN Asked(c)[k] \notin spaces'
                                      ELSE Asked(c)[k] \in spaces'
<1>1. k \in DOMAIN Request(c)
  BY ServableShape
<1>2. Asked(c)[k] \in {Request(c)[q] : q \in served}
  BY <1>1, SpaceSent
<1>3. spaces' = IF c.op = "delete_dataspace"
                  THEN spaces \ {Request(c)[q] : q \in served}
                  ELSE spaces \cup {Request(c)[q] : q \in served}
  <2>1. CASE c.op = "delete_dataspace"
    BY <2>1 DEF Serve, Puts
  <2>2. CASE c.op \in {"put_dataspace", "put_dataspaces_with_acl"}
    BY <2>2 DEF Serve, Puts
  <2> QED
    BY <2>1, <2>2 DEF SpaceWrites
<1> QED
  BY <1>2, <1>3

-----------------------------------------------------------------------------
(***************************************************************************)
(* What an answer in one message becomes                                   *)
(***************************************************************************)

\* It is returned in full.
LEMMA NothingDropped ==
  ASSUME NEW c \in Calls, NEW ms, DOMAIN ms = {1}, ms[1].kind = "response",
         ms[1].map = [k \in DOMAIN ms[1].map |-> ms[1].map[k]],
         c.form # "uri"
  PROVE  LET got == Result(c, ms)
             map == ms[1].map
         IN CASE c.op \in Gets ->
                   DOMAIN map = DOMAIN Asked(c) /\ map # EmptyMap
                       /\ (\A k \in DOMAIN map : map[k] # Unreadable)
                     => got.kind = "value"
              [] c.op \in Writes \cup (Lists \ {"search_resource"}) ->
                   got.kind = "value" /\ DOMAIN got.value = DOMAIN map
              [] c.op = "search_resource" ->
                   DOMAIN got.value = {u \in DOMAIN map : u.id = c.uuid}
              [] OTHER -> got.kind \in {"yes", "value"}
<1> DEFINE got == Result(c, ms)
           map == ms[1].map
<1>1. ~Refused(ms)
  BY DEF Refused
<1>2. \A kinds : "response" \in kinds =>
        /\ DOMAIN Merged(ms, kinds) = DOMAIN map
        /\ \A k \in DOMAIN map : Merged(ms, kinds)[k] = map[k]
  BY MergedOne
<1>3. CASE c.op \in Writes
  <2>1. Result(c, ms).kind = "value"
    <3>1. CASE c.op \in SpaceWrites
      <4>1. Result(c, ms) = DataspacesAnswer(ms)
        BY <3>1 DEF Result, SpaceWrites
      <4> QED
        BY <1>1, <4>1 DEF DataspacesAnswer, Value
    <3>2. CASE c.op = "put_data_object_file"
      <4>1. Result(c, ms) = FileAnswer(ms)
        BY <3>2 DEF Result, SpaceWrites
      <4> QED
        BY <4>1 DEF FileAnswer, Value
    <3>3. CASE c.op \in {"put_data_object_str", "put_data_object_obj", "delete_data_object"}
      <4>1. Result(c, ms) = WrittenAnswer(ms)
        BY <3>3 DEF Result, SpaceWrites
      <4> QED
        BY <4>1 DEF WrittenAnswer, Value
    <3> QED
      BY <1>3, <3>1, <3>2, <3>3 DEF Writes, Puts
  <2>2. DOMAIN Result(c, ms).value = DOMAIN map
    BY <1>2, <1>3, <2>1, WrittenShape
  <2> QED
    BY <1>3, <2>1, <2>2 DEF Writes, Gets, Puts, SpaceWrites
<1>4. CASE c.op \in Lists \ {"search_resource"}
  <2>1. Result(c, ms) = Value(Merged(ms, {"response"}))
    BY <1>1, <1>4 DEF Result, SpaceWrites, Lists, ListAnswer, TypesAnswer
  <2> QED
    BY <1>2, <1>4, <2>1 DEF Value, Lists, Gets
<1>5. CASE c.op = "search_resource"
  <2>1. Result(c, ms) = SearchAnswer(c, ms)
    BY <1>5 DEF Result, SpaceWrites
  <2>2. DOMAIN Result(c, ms).value = {u \in DOMAIN map : u.id = c.uuid}
    BY <1>1, <1>2, <2>1 DEF SearchAnswer, Value
  <2> QED
    BY <1>5, <2>2 DEF Gets, Writes, Puts, SpaceWrites
<1>6. CASE c.op \in {"ping", "authorize"}
  <2>1. Result(c, ms).kind \in {"yes", "value"}
    BY <1>1, <1>6 DEF Result, SpaceWrites, PingAnswer, AuthorizeAnswer, Ended, Value
  <2> QED
    BY <1>6, <2>1 DEF Gets, Writes, Puts, SpaceWrites, Lists
<1>7. CASE c.op \in Gets
  <2> SUFFICES ASSUME DOMAIN map = DOMAIN Asked(c), map # EmptyMap,
                      \A k \in DOMAIN map : map[k] # Unreadable
               PROVE  got.kind = "value"
    BY <1>7 DEF Gets, Writes, Puts, SpaceWrites, Lists
  <2> DEFINE data == Merged(ms, {"response"})
             keys == Range(KeysOf(c))
  <2>1. DOMAIN data = keys /\ \A k \in keys : data[k] = map[k]
    BY <1>2, AskedAt
  <2>2. data # EmptyMap
    <3>1. DOMAIN map # {}
      BY DEF EmptyMap
    <3> QED
      BY <1>2, <3>1 DEF EmptyMap
  <2> HIDE DEF data, keys
  <2>3. GetDataObject(c, ms) = Value([k \in keys |-> data[k]])
    BY <1>1, <2>1, <2>2 DEF GetDataObject, data, keys
  <2>4. GetDataObject(c, ms).kind = "value"
    BY <2>3 DEF Value
  <2>5. CASE c.op = "get_data_object"
    BY <2>4, <2>5 DEF Result, SpaceWrites
  <2>6. CASE c.op = "get_data_object_as_obj"
    <3>1. Result(c, ms) = GetDataObjectAsObj(c, ms)
      BY <2>6 DEF Result, SpaceWrites
    <3>2. Unreadable \notin {GetDataObject(c, ms).value[k] :
                              k \in DOMAIN GetDataObject(c, ms).value}
      BY <2>1, <2>3, AskedAt DEF Value, keys
    <3> QED
      BY <2>4, <3>1, <3>2 DEF GetDataObjectAsObj
  <2> QED
    BY <1>7, <2>5, <2>6 DEF Gets
<1> QED
  BY <1>3, <1>4, <1>5, <1>6, <1>7, CallShape DEF Ops, Gets, Lists

-----------------------------------------------------------------------------
(***************************************************************************)
(* The steps                                                               *)
(***************************************************************************)

\* The three properties, with what holds of a call between its steps.
SInv ==
  /\ stage \in {"idle", "sent", "ended"}
  /\ stage # "ended" => msgs = <<>>
  /\ stage # "idle" => call \in Calls
  /\ WholeAndOwn
  /\ ReportsAreTrue
  /\ NothingIsLost

\* The properties say nothing of a call that has not ended.
LEMMA QuietBefore ==
  ASSUME stage # "ended"
  PROVE  WholeAndOwn /\ ReportsAreTrue /\ NothingIsLost
BY DEF WholeAndOwn, ReportsAreTrue, NothingIsLost, Returned

\* An error in place of an answer serves nothing.
LEMMA ErrorServesNothing ==
  ASSUME NEW c, c.op \in Gets \cup Writes
  PROVE  {} \in ServedOf(c) /\ <<Message("error")>> \in Replies(c, {})
BY DEF ServedOf, Replies, Gets, Writes, Puts, SpaceWrites, Lists

\* Serving a call that reads changes nothing.
LEMMA ReadsChangeNothing ==
  ASSUME NEW c, c.op \in Gets, NEW served, Serve(c, served)
  PROVE  store' = store
BY DEF Serve, Gets, Puts, serverVars

\* What a call that ends returns of what it asked for is its own and whole.
LEMMA ReturnGets ==
  ASSUME call \in Calls, Return
  PROVE  WholeAndOwn'
<1>1. outcome' = Result(call, msgs') /\ call' = call
  BY DEF Return
<1> SUFFICES ASSUME call.op \in Gets, outcome'.kind = "value"
             PROVE  outcome'.value = [k \in DOMAIN Asked(call) |-> store'[Asked(call)[k]]]
  BY <1>1 DEF WholeAndOwn, Returned
<1>2. PICK served \in ServedOf(call) : msgs' \in Replies(call, served) /\ store' = store
  <2>1. CASE \E served \in ServedOf(call) :
               Serve(call, served) /\ msgs' \in Answers(call, served)
    BY <2>1, ReadsChangeNothing DEF Replies
  <2>2. CASE UNCHANGED serverVars /\ msgs' = <<Message("error")>>
    BY <2>2, ErrorServesNothing DEF serverVars
  <2> QED
    BY <2>1, <2>2 DEF Return
<1> QED
  BY <1>1, <1>2, GotIsOwn

\* What a call that ends lists as written is written.
LEMMA ReturnWrites ==
  ASSUME call \in Calls, Return
  PROVE  ReportsAreTrue'
<1>1. outcome' = Result(call, msgs') /\ call' = call
  BY DEF Return
<1> SUFFICES ASSUME call.op \in Writes, outcome'.kind = "value", ~(NamedRaw(call)),
                    NEW k \in DOMAIN outcome'.value, outcome'.value[k] = "done"
             PROVE  CASE call.op \in Puts ->
                           LET i == CHOOSE i \in DOMAIN Positions : Positions[i] = k
                               id == ObjectsOf(call)[i].id
                           IN \E j \in DOMAIN ObjectsOf(call) :
                                /\ ObjectsOf(call)[j].id = id
                                /\ store'[Uri(ValidUri(call.where).space, id)]
                                     = ObjectsOf(call)[j].content
                      [] call.op = "delete_data_object" ->
                           store'[Asked(call)[k]] = Absent
                      [] call.op = "delete_dataspace" -> Asked(call)[k] \notin spaces'
                      [] OTHER -> Asked(call)[k] \in spaces'
  BY <1>1 DEF ReportsAreTrue, Returned
<1>2. PICK served \in ServedOf(call) : Serve(call, served) /\ k \in served
  <2>1. CASE \E served \in ServedOf(call) :
               Serve(call, served) /\ msgs' \in Answers(call, served)
    BY <1>1, <2>1, DoneIsServed DEF Replies
  <2>2. CASE UNCHANGED serverVars /\ msgs' = <<Message("error")>>
    BY <1>1, <2>2, DoneIsServed, ErrorServesNothing
  <2> QED
    BY <2>1, <2>2 DEF Return
<1>3. CASE call.op \in Puts
  <2> DEFINE i == CHOOSE i \in DOMAIN Positions : Positions[i] = k
             id == ObjectsOf(call)[i].id
  <2>1. \E j \in DOMAIN ObjectsOf(call) :
          /\ ObjectsOf(call)[j].id = id
          /\ store'[Uri(ValidUri(call.where).space, id)] = ObjectsOf(call)[j].content
    BY <1>2, <1>3, PutIsStored, Zenon
  <2> QED
    BY <1>3, <2>1 DEF Puts
<1>4. CASE call.op = "delete_data_object"
  <2>1. store'[Asked(call)[k]] = Absent
    BY <1>2, <1>4, DeletedIsGone
  <2> QED
    BY <1>4, <2>1 DEF Puts
<1>5. CASE call.op \in SpaceWrites
  <2>1. IF call.op = "delete_dataspace" THEN Asked(call)[k] \notin spaces'
                                        ELSE Asked(call)[k] \in spaces'
    BY <1>2, <1>5, SpacesFollow
  <2> QED
    BY <1>5, <2>1 DEF Puts, SpaceWrites
<1> QED
  BY <1>3, <1>4, <1>5 DEF Writes

\* Nothing is lost of an answer in one message.
LEMMA ReturnAll ==
  ASSUME call \in Calls, Return
  PROVE  NothingIsLost'
<1>1. outcome' = Result(call, msgs') /\ call' = call /\ stage' = "ended"
  BY DEF Return
<1> SUFFICES ASSUME Len(msgs') = 1, msgs'[1].kind = "response", call.form # "uri"
             PROVE  CASE call.op \in Gets ->
                           DOMAIN msgs'[1].map = DOMAIN Asked(call)
                               /\ msgs'[1].map # EmptyMap
                               /\ (\A k \in DOMAIN msgs'[1].map :
                                     msgs'[1].map[k] # Unreadable)
                             => outcome'.kind = "value"
                      [] call.op \in Writes \cup (Lists \ {"search_resource"}) ->
                           outcome'.kind = "value"
                             /\ DOMAIN outcome'.value = DOMAIN msgs'[1].map
                      [] call.op = "search_resource" ->
                           DOMAIN outcome'.value
                             = {u \in DOMAIN msgs'[1].map : u.id = call.uuid}
                      [] OTHER -> outcome'.kind \in {"yes", "value"}
  BY <1>1 DEF NothingIsLost, Returned
<1>2. PICK served : msgs' \in Replies(call, served)
  BY DEF Return, Replies
<1>3. /\ DOMAIN msgs' = {1} \/ DOMAIN msgs' = {1, 2}
      /\ \A i \in DOMAIN msgs' :
           msgs'[i].map = [k \in DOMAIN msgs'[i].map |-> msgs'[i].map[k]]
  BY <1>2, AnswerShape DEF Fine
<1>4. DOMAIN msgs' = {1}
  BY <1>3
<1>5. msgs'[1].map = [k \in DOMAIN msgs'[1].map |-> msgs'[1].map[k]]
  BY <1>3, <1>4
<1> QED
  BY <1>1, <1>4, <1>5, NothingDropped

\* It holds at first, and is kept by every step of the call and of the others.
LEMMA SInvHolds == Spec => []SInv
<1>1. Init => SInv
  BY QuietBefore DEF Init, SInv
<1>2. SInv /\ [Next]_vars => SInv'
  <2> SUFFICES ASSUME SInv, [Next]_vars
               PROVE  SInv'
    OBVIOUS
  <2>1. ASSUME stage' # "ended"
        PROVE  WholeAndOwn' /\ ReportsAreTrue' /\ NothingIsLost'
    BY <2>1 DEF WholeAndOwn, ReportsAreTrue, NothingIsLost, Returned
  <2>2. ASSUME outcome' = Ended("raised"), msgs' = <<>>
        PROVE  WholeAndOwn' /\ ReportsAreTrue' /\ NothingIsLost'
    <3>1. ~(outcome'.kind = "value") /\ Len(msgs') # 1
      BY <2>2 DEF Ended
    <3> QED
      BY <3>1 DEF WholeAndOwn, ReportsAreTrue, NothingIsLost, Returned
  <2>3. ASSUME NEW c \in Calls, Ask(c)
        PROVE  SInv'
    <3>1. call' = c /\ msgs' = <<>>
      BY <2>3 DEF Ask, SInv
    <3>2. CASE stage' = "sent"
      BY <2>1, <3>1, <3>2 DEF SInv
    <3>3. CASE stage' = "ended" /\ outcome' = Ended("raised")
      BY <2>2, <3>1, <3>3 DEF SInv
    <3> QED
      BY <2>3, <3>2, <3>3 DEF Ask
  <2>4. ASSUME Return
        PROVE  SInv'
    <3>1. call \in Calls
      BY <2>4 DEF Return, SInv
    <3>2. stage' = "ended" /\ call' = call
      BY <2>4 DEF Return
    <3>3. WholeAndOwn' /\ ReportsAreTrue' /\ NothingIsLost'
      BY <2>4, <3>1, ReturnGets, ReturnWrites, ReturnAll
    <3> QED
      BY <3>1, <3>2, <3>3 DEF SInv
  <2>5. ASSUME Fail
        PROVE  SInv'
    <3>1. call \in Calls /\ msgs = <<>>
      BY <2>5 DEF Fail, SInv
    <3>2. stage' = "ended" /\ call' = call /\ msgs' = msgs /\ outcome' = Ended("raised")
      BY <2>5 DEF Fail
    <3> QED
      BY <2>2, <3>1, <3>2 DEF SInv
  <2>6. ASSUME Seen
        PROVE  SInv'
    <3>1. stage' = "idle" /\ msgs' = <<>>
      BY <2>6 DEF Seen
    <3> QED
      BY <2>1, <3>1 DEF SInv
  <2>7. ASSUME Others
        PROVE  SInv'
    <3>1. stage' # "ended" /\ stage' = stage /\ msgs' = msgs /\ call' = call
      BY <2>7 DEF Others
    <3> QED
      BY <2>1, <3>1 DEF SInv
  <2>8. ASSUME UNCHANGED vars
        PROVE  SInv'
    <3>1. /\ stage' = stage /\ msgs' = msgs /\ call' = call /\ outcome' = outcome
          /\ store' = store /\ spaces' = spaces
      BY <2>8 DEF vars, serverVars
    <3>2. WholeAndOwn' /\ ReportsAreTrue' /\ NothingIsLost'
      BY <3>1 DEF SInv, WholeAndOwn, ReportsAreTrue, NothingIsLost, Returned
    <3> QED
      BY <3>1, <3>2 DEF SInv
  <2> QED
    BY <2>3, <2>4, <2>5, <2>6, <2>7, <2>8 DEF Next
<1> QED
  BY <1>1, <1>2, PTL DEF Spec

\* get_data_object() and get_data_object_as_obj() never return a part of what
\* was asked for, nor an object under another's key, in whatever form the URIs
\* were given and whatever the server left out or split over messages.
THEOREM GotIsAsked == Spec => []WholeAndOwn
BY SInvHolds, PTL DEF SInv

\* What put_data_object_*(), put_dataspace*() and delete_*() list as written is
\* so on the server, under the URI that was meant.
THEOREM ReportsHold == Spec => []ReportsAreTrue
BY SInvHolds, PTL DEF SInv

\* No call drops a key of an answer in one message that has all of them.
THEOREM AnswersAreKept == Spec => []NothingIsLost
BY SInvHolds, PTL DEF SInv

=============================================================================
