# A TLA+ model of py-etp-client

`py_etp_client` is a Python client of ETP 1.2 (Energistics Transfer Protocol): a
WebSocket client with a thread of its own (`ETPSimpleClient`), a client with one
method per ETP request on top of it (`ETPClient`), configurations and an
authentication manager (`ServerConfig`, `TokenManager`) and a script that copies
objects from one store to another (`transfert_data`). This directory holds TLA+
modules translated from that source, the TLC configurations that check them on
small instances, and proofs checked by TLAPS. Line numbers below are those of
the files under `src/py_etp_client/`.

Contents

 1. The system: parts, state, interactions, hazards
 2. From the code to the modules
 3. What the runs check
 4. Fairness
 5. What is proved
 6. Where the code falls short of its words, and how to see it
 7. What is abstracted, and what is not modelled
 8. Plan

## 1. The system

Three kinds of threads meet in one client object:

- *caller threads*, which call methods of `ETPClient`; each of these ends in
  `send_and_wait()`;
- the *WebSocket thread*, made by `start()`, which runs `_run_websocket()` and,
  inside `run_forever()`, the callbacks `on_open`, `on_message`, `on_close`;
- the *owner*, which calls `start()`, `stop()` and `close()`.

They share attributes with hardly any lock: `pending_requests`,
`recieved_msg_dict`, `_connection_closed_events`, `closed`, `stop_event`, `ws`,
`thread`, `spec`, `active_transaction`, `listeners`.

| Component | State | Operations | What is hard | What makes it correct |
|---|---|---|---|---|
| Request/answer correlation (`etpsimpleclient.py`) | registry of waiting calls, filed messages, closing events, flags | `send`, `send_and_wait`, `on_message`, `on_close` | an answer races the registration, the timeout and the close; several parts of one answer; first callers race to create the event set | a call gets its own answer or a justified error; the registry is exact; no wake-up is lost |
| ... over several connections | as above | `start` while old calls run; listeners that call `send_and_wait` | ids begin again; flags are cleared under a call's feet; the thread that files answers waits for one | no foreign answer; no registration taken over; waiting calls are released; the thread gets out |
| Lifecycle (`etpsimpleclient.py`, `etpclient.py`) | `ws`, `thread`, `spec`, `closed`, `stop_event`, reconnection count | `start`, `stop`, `close`, `start_and_wait_connected`, `start_client`, the thread, its callbacks | stop during connect; start over an ending thread; listeners that stop or restart | stop leaves nothing; `is_connected()` tells the truth; attempts are bounded |
| Event listeners (`etpsimpleclient.py`) | one list per event | `add_listener`, `remove_listener`, `_notify_listeners` | the list changes while it is walked; callbacks raise | everybody called, in order; skips bounded |
| Transactions (`etpclient.py`) | `active_transaction` | start, rollback, two commits | check, round trip, then write; lost and late answers; two kinds of server | client and server agree; results are true |
| Data arrays (`etpclient.py`, `etp_requests.py`) | none between calls | `put_data_array_safe`, `get_data_array_safe` | how many rows fit; last chunk; a chunk refused | success means written; a get is whole; messages keep to the limit, or by how much they do not |
| Discovery walk (`etpclient.py`, `etp_requests.py`) | `to_check`, `checked` | `get_all_related_objects_uris` | cycles, overlaps, refused requests | complete, minimal, no repeats, ends |
| Token cache (`auth.py`) | token, expiry | `get_token`, `is_token_valid`, `refresh_token_if_needed` | tokens age in flight; partial writes; a time of UTC read as a local one | nothing stale handed out; no needless request |
| Transfer script (`etpscript.py`) | the open transaction, over nested calls | `transfert_data` | nested calls share a transaction; refused puts; late commits | nothing overwritten; what is acknowledged is stored |
| Store, dataspace and core requests (`etpclient.py`, `etp_requests.py`, `utils.py`) | none between calls | `ping`, `authorize`, get, put, delete, list and search, one `send_and_wait()` each | partial answers, several messages, exceptions; a URI or a name, alone, in a list or in a dictionary | objects are returned whole and in their places, or not at all; what is reported as written is; nothing of an answer is lost |
| Configuration and login (`etpconfig.py`, `auth.py`, `etpsimpleclient.py`) | a configuration, its token cache, the headers of a client | `from_file`, `get_by_id`, `as_server_config`, `to_dotenv`, `to_json`, the constructor of the client | files that include files; ids and names; fields that one conversion knows and the other does not; tokens that age on their way into a header | the right server; all that its method needs arrives; no client is made with a dead token |
| Request builders, URIs and helpers | none | conversions | in the rows above | partly modelled, see 7 |
| Printers, package, documentation, example, tests | | | | not modelled, see 7 |

How they interact: the transactions, the arrays, the walk and the requests of
the store call `send_and_wait()`, so each request there ends as `RequestReply`
says: answered with messages of its own, timed out, refused because the session
goes down, or not sent. Those models take a request for one step that ends in
one of these ways. `transfert_data()` uses the transactions and the requests of
two clients. `on_close()` belongs to both Correlation (which calls it wakes) and
Lifecycle (which flags it sets). Listeners run in the WebSocket thread, so that
a listener that stops the client meets `stop()` from inside its own thread, and
one that makes a request waits for the thread it holds up. The constructor of a
client calls the token manager once, for the header that every connection of
that client sends.

The hazards, each with its line and its properties, are listed in
`PROJECT.json`.

## 2. From the code to the modules

| Module | Extends | Models | Proofs in |
|---|---|---|---|
| `RequestReply` | | the promise of `send_and_wait()`, with no threads | |
| `Correlation` | | how the client keeps it, for one connection | `CorrelationInv`, `CorrelationProofs` |
| `Restart` | Correlation | `start()` again, seen by calls of the old connection; listeners that wait | `CorrelationProofs` |
| `Lifecycle` | | `start`, `stop`, `close` and the WebSocket thread | `LifecycleProofs` |
| `Listeners` | | one notification and a list that changes | `LifecycleProofs` |
| `Transactions` | | the four transaction operations, and a server | `TransactionsProofs` |
| `ArrayTransfer` | | chunked put and get of one array | `ArrayTransferProofs` |
| `Discovery` | | the walk over related objects | `DiscoveryProofs` |
| `Store` | | the requests without state, the forms of URIs, and a server | `StoreProofs` |
| `Credentials` | | the token cache | `CredentialsProofs` |
| `Login` | Credentials | from a file to the header of a client, and back to a file | `CredentialsProofs` |
| `Transfer` | | `transfert_data()` and the target it writes to | `TransferProofs` |
| `MC...` | one of the above | model values for TLC | |

`PROJECT.json` maps every definition to its lines. What each module's state and
actions stand for:

**Correlation.** A *call* of the API is a process; `pc` is the place it has
reached between two points where another thread can be observed, in the order of
the code: `send()` (link up: an id and a write; otherwise `SendFails`), the
`hasattr` test and the creation of `_connection_closed_events` (`LookForSet`,
`CreateSet`), `AddEvent`, `Register`, the wait (`Wake`, or `Expire`, which may
happen whenever the event is not set), the test of `closed` and `stop_event`
(`CheckClosed`) and three ways out (`GiveUp`, `CloseOut`, `Return`), all of
which pop the registration and discard the event. `OnMessage` files one part of
an answer: `recieved_msg_dict` keeps the first part of an id only, the list is
stored in the registration when there is one, and the event is set. `OnClose` is
four kinds of steps: `closed`, `stop_event`, the snapshot of the events, and one
`set()` each. `waiter` and `answer` together are `pending_requests`. Popping and
discarding are one step: both are done under `self.lock`, and `on_close()`,
which does not take it, could in between only set an event nobody waits for.

**Restart** adds `StartAgain`: what `start()` replaces (registry, messages,
flags) and what it leaves (the closing events, the calls). After `stop()` the
session is dropped and ids begin at 1; after a lost connection they go on. It
also tells whose thread runs what: `on_message()` files a message and then runs
its listeners (`Hear`, `busy`) in the WebSocket thread, which files nothing more
and does not come to `on_close()` before they return (`ListenersReturn`). A
listener may call `send_and_wait()` itself: that call is one of `Inner` and
takes its steps, one listener at a time, while the thread is busy (`InnerCall`).
Calls of other threads, the loss of the connection and a request to stop
(`Elsewhere`) go on meanwhile. With `Inner` empty this is Correlation again.

**Lifecycle.** `upc` and `op` are the owner's place and operation, `worker` the
WebSocket thread's. `start()` resets the flags (`StartReset`), decides whether
a thread is needed and makes it (`StartThread`), and returns. `stop()` is
`Stop`, `StopSignal`, `StopCloseSocket`, `StopJoin`, `StopFinish`; `close()` is
a message, which raises when there is nothing to send it on, and then `stop()`.
The thread is `Guard`, `Make`, `RunForever`, the callbacks, `Ran`, `Count`,
`Backoff`, `Exit`. `app` is the `WebSocketApp` of the library, external;
`close()` on one that does not run yet has no effect. `spec` is the ETP
session, "stale" when `start()` carried it over while it was connected.
`restarter` is a listener of `ON_CLOSE` that calls `start()`.

**Listeners.** The list, and the walk by an index into it, as a Python `for`
over a list does: a removal before the index makes the walk miss one.

**Transactions.** An operation reads `active_transaction` (`Find`), sends
(`Start`, `Finish`), is served (`ServerStart`, `ServerFinish`, or later, after
its caller has given up: `ServerLate`) and writes what the answer says
(`StartAnswered`, `FinishAnswered`) or raises (`Raises`). `keeps` is whether
the server keeps a transaction open whose commit failed.

**ArrayTransfer.** One array of `rows` by `cells` of a type; a writer and a
reader cut it by rows into messages of at most `MaxMessage` bytes, as each
reckons them (`HeldBytes`, `ReckonedBytes`). What a message carries is a third
thing: the session encodes it as Avro binary, where an integer is a varint, of
more bytes the larger it is, and a text comes after its length. `Widest` is the
most that a cell of a type may take; `sizes` remembers of every message that, and
what a cell was reckoned at. `Served`, `Failed` are the answers a request may get; `Versions` tell old rows, allocated rows and written ones apart.

**Discovery.** `to_check` and `checked` as in the code; `Near` is the answer to
one request, in the scope that `get_scope()` chooses; the resources of one
answer are looked at in any order.

**Store.** A call is a record of its operation, the form and the items of its
argument (`Calls`). `Ask` builds the request (`Request`, by `AsStrDict` and the
like) or raises; the server, external, serves any part of it (`ServedOf`,
`Serve`) and answers in one or two messages, of which one may be an exception
for the rest (`Answers`); `Return` makes of them what that operation makes
(`Result`: one operator per operation), `Fail` is an exception of
`send_and_wait()`, before the request is served or after. `Others` change what
the server holds between any two steps. A string is a record of what it names
and whether it is a plain name instead of a URI, which is all that
`get_valid_uri_str()` tells apart. A call may put two objects of one uuid, under
one URI: the server keeps either of them (`Serve`), which is all that the code
lets one expect.

**Credentials.** `cached`, `expiresAt` and a clock. A request takes from
nothing to `Delay[method]`; the token was issued at some moment in between, and
lasts `life` from then, while the manager counts from the moment of the answer
(`Reckonings`). The answer tells the life as a number, or garbled, which leaves
the token cached with the expiry of the one before, or not at all, which is
taken for 3600 seconds, but for `gcp_oauth`, which then keeps the expiry that
was there. The end that google-auth gives is a time of UTC without a zone, which
the code reads in the zone of the host (`auth.py` 762-763): `ZonesOf` has how far
hosts are ahead of UTC. A token whose end was not told is "untold".

**Login** is Credentials with a configuration around it. `Read` is
`ServerConfig.from_file()` with its included files, its merging by id and
`get_by_id()`, or an `ETPConfig` and `as_server_config()`. Where a
configuration is written is a pair, the list and the index in it (`Places`), and
the dictionary of `_read_configs()` is a function of the places of its keys,
which gives it its order. `FromDict` ends in `PostInit`, by which a configuration
without a name or additional headers takes those of the environment, which is
part of a source. A list is first given to `dict()`, as the code does: an empty
one makes the default configuration, and one whose configurations have two keys
each (`AsPairs`) makes a configuration of the names of keys (`FromPairs`), unless
that raises for its method. `MakeClient` and
`Answered` are the constructor of the client around a `get_token()`;
`TokenStep` is any other use of the token manager, and time; `Save` writes the
configuration with `to_dotenv()` or `to_json()`, and `Boot` is another process
that reads it, at any moment, with what was cached. Of a configuration it holds
which fields are given, not their text; `header` is the Authorization of the
client, `extra` that of the additional headers, which the code makes the same
dictionary.

**Transfer.** A stack of calls (`frames`), since `transfert_data()` calls
itself for the part that holds an object's arrays, in the middle of its own
transaction; the target (`stored`, `staged`, `open`) and the client's view of
it (`active`).

*Seeded bugs.* An operator whose comment begins with "Seeded bug" is a wrong
version of the one after it: a dropped guard, a missing reset, an off-by-one.
It is not part of any specification. `PROJECT.json` ("mutants") pairs each
property with one; put in place of the right version it makes TLC report that
property, which shows that the property speaks of the code.

## 3. What the runs check

States are distinct states; times are with two workers.

| Run | Bounds | States | Time |
|---|---|---|---|
| `Correlation_safety` | 2 waiting calls, 1 post, 3 ids, answers of 1 or 2 parts, the event set not yet made, symmetric calls | 1,789,150 | 70 s |
| `Correlation_fast_answer` | 2 calls, 2 ids, 2 parts | stops at the violation | 1 s |
| `Restart` | 2 calls and one of a listener, 2 ids, 1 part, 1 restart of either kind | 384,070 | 85 s |
| `Lifecycle` | 2 reconnections, 3 starts | 40,198 | 3 s |
| `Lifecycle_no_retry` | 1 reconnection, 1 start | stops at the violation | 1 s |
| `Listeners` | 3 callbacks (one raises, one raises and has no name, one removes itself), lists of at most 4, 2 changes | 8,866 | 1 s |
| `Transactions` | 2 threads, 3 transactions, 1 late request, symmetric threads | 3,426,395 | 56 s |
| `ArrayTransfer` | 0 to 5 rows, 0 to 2 cells, 9 types, messages of 20 bytes | 33,558 | 7 s |
| `Discovery` | every graph of 4 objects and at most 4 relations; roots `<<o1>>`, `<<o1,o1>>`, `<<o1,o2>>` | 1,082,023 | 23 s |
| `Store` | 1 dataspace and the default one, 2 uuids, 2 versions; every operation with one or two items in every form, two versions of one object in one call among them | 2,806,272 | 55 s |
| `Login` | units of 30 s: buffer 1, delays 1 (`oauth2`, `azure_ad`), 2 (`aws_cognito`, `gcp_oauth`) or 0, lives 0 and 3, told, garbled or not told (which is taken for 3), hosts 1 ahead of UTC or behind it, clock from 2 to 6; files of one configuration for every method, whole or short, groups of up to four in up to three files, lists that are taken for pairs, and two environments | 4,118,289 | 120 s |
| `Transfer` | 4 items: plain, one whose arrays are in a part, that part, one that has its own | 381,847 | 5 s |

Why these bounds are enough for the questions asked.

- *Correlation*: races are between a call and the WebSocket thread, or between
  two calls over the shared set; a third call adds no new kind of partner. Two
  parts are enough for "first kept, rest dropped". The three messages let the
  ids of posts and calls interleave. The theorems of section 5 hold for any
  number of each.
- *Restart*: an old and a new call with the same id is the case that matters;
  one restart makes it. One inner call is enough to hold the WebSocket thread
  up, since only one at a time can.
- *Lifecycle*: with two reconnections there is a first attempt, a repeated one
  and a last one; three starts allow a start over an ending thread, and one
  after a stop.
- *Listeners*: a walk, a removal before the index, one after it, an addition.
- *Transactions*: one thread to have a transaction, one to take it away; the
  third transaction follows a lost one and an overlapping one.
- *ArrayTransfer*: 20 bytes hold no, one, two or more rows of the nine types,
  with and without a remainder; both ends of the arithmetic (zero rows, zero
  cells, a row that fits in no message) are there.
- *Discovery*: four relations give chains, forks, diamonds and cycles of up to
  four.
- *Store*: two items are enough for one to be served and the other refused, in
  one message or two, in either order, and for an object in the place of
  another; the dictionary's keys are "b" and "0", so that one of them is also a
  position. Two uuids in the named dataspace and one of them also in the default
  one tell an object from its namesake, and two versions tell whose object it is.
- *Login*: a life shorter and one longer than buffer and delay; the horizon
  covers a request, a life and a second request. The groups have the cases that
  `get_by_id()` tells apart: the id of one server is the name of another, a name
  in capitals, a server without an id, two servers with the same id, an included
  file that is missing or includes others; and a list that is empty or has
  configurations of two keys each, with and without a method among them. One of
  the two environments names a server and has everything set, the other nothing.
  The theorems about the cache
  (section 5) hold for any life, delay and buffer.
- *Transfer*: one item per path through the loop of `transfert_data()`, with a
  second, independent one to be forgotten or lost.

What each passing run shows:

- `Correlation_safety`: a call that returns has a non-empty prefix of what the
  peer sent for that very call (`OwnAnswer`); the registry holds exactly the
  calls that wait (`RegistryExact`), and no event stays in the closing set
  (`NoStaleEvents`); a stored answer has its event set (`NoLostWakeup`); and the
  whole keeps the promise of `RequestReply` (`KeepsPromise`, a refinement), by
  which a call is refused only when the session goes down.
- `Restart`: calls outside the old session get their own answers
  (`NoForeignAnswer`), registrations are not taken over once the calls of
  earlier sessions have ended (`RegistryKept`), `on_close()` finds every call
  that waits (`CloseSeesWaiters`), and such a call ends without its timeout
  (`ReleasedByClose`), but for one that the listener of a message makes: that
  one waits for the thread it holds up, and the thread gets out
  (`ListenersEnd`).
- `Lifecycle`: a stop that returned left no thread, no connection and no
  session (`StopQuiescent`); `is_connected()` is true of a connection
  (`IsConnectedTruthful`); a thread that ended has left the client marked
  (`DeadMeansDown`); attempts are bounded (`AttemptsBounded`); no connection is
  begun after the signal to stop (`NoConnectAfterStop`); and `stop()` returns
  (`StopReturns`). Each names the case in which the code does not do so.
- `Listeners`: without a removal, all are called in order
  (`AllCalledInOrder`); with removals, each costs at most one listener its call
  (`SkipsBounded`).
- `Transactions`: True is the truth (`ToldTheTruth`), always; client and server
  agree (`InStep`) and a started transaction is open (`StartGivesOpen`) as long
  as nothing was lost, no two operations overlapped and no commit failed in the
  way its variant does not expect. The three cases that are left out do break
  agreement, which is what the history variable `upset` is there to say.
- `ArrayTransfer`: a put that says so has written every row (`PutTruth`); a get
  returns the whole array or none (`GetWhole`); the cells of a message exceed
  the limit in no greater proportion than the widest of them exceeds what a cell
  was reckoned at (`MessagesFit`); both loops end (`TransfersEnd`).
- `Discovery`: `NoRepeats`, `Complete` (but for what was refused), `Minimal`,
  `Ends`.
- `Store`: what `get_data_object()` returns is what was asked for, each object
  under its key or in its place, and as the server held it (`WholeAndOwn`); what
  a put or a delete reports as done is done, where the caller said
  (`ReportsAreTrue`: of two objects of one uuid, one of them is there); a whole answer in one message comes back whole
  (`NothingIsLost`).
- `Login`: a token from the cache is alive, but for the part of a delay that
  exceeds the buffer, and for `gcp_oauth` for the zone of a host behind UTC
  (`NeverStale`, of tokens whose end was told); requests are made only within the
  buffer of the end, for `gcp_oauth` by a clock that is wrong by the zone, or when
  no end was told (`NoNeedlessRequest`); the configuration in use is the one that
  was asked for (`RightServer`), but for the lists that are taken for pairs; what the user wrote of a server gets as far as the
  header, by way of any file and of a saved one (`LoginWorks`); no client is
  made with a token that had ended (`NeverBornStale`).
- `Transfer`: nothing is overwritten without the flag (`NoOverwrite`), a call
  that returns without a complaint has stored what was put (`AckedIsStored`) and
  left no transaction behind (`LeavesNothingOpen`).

Deadlock is checked for `Transactions`, `Store`, `Login` and `Transfer`, which
never have to stop. The others may end: calls end, a client stays stopped, a
transfer is over.

## 4. Fairness

Safety runs have none. Where a property says that something happens:

- `Restart` (`ReleasedByClose`): weak fairness of the steps a running call owes
  (`Proceed`) and of `on_close()`. The operating system schedules threads, and
  no step of theirs waits for another but `event.wait()`, whose end is a guard.
  No peer has to answer, and no timeout of another thread's call has to pass:
  the point of the property is that the close alone releases the call.
- `Restart` (`ListenersEnd`): weak fairness of the return of the listeners, and
  of the timeout of a call that one of them makes (`Expire`, of `Inner` only):
  nothing else ends that call, whose `timeout` is five seconds unless the caller
  says otherwise. A listener that gives `timeout=None` is not there.
- `Lifecycle` (`StopReturns`, `LossIsRetried`): weak fairness of the owner's
  operation in progress and of the WebSocket thread. The owner may never begin
  another operation, the peer may keep a connection open for ever
  (`LinkLost` and `SessionOpens` are not fair), and listeners need do nothing.
  An attempt to connect does end: it is the library's, which has the timeouts
  of the operating system.
- `ArrayTransfer` (`TransfersEnd`): weak fairness of the writer and of the
  reader, since every request ends by its answer or its timeout.
- `Discovery` (`Ends`): weak fairness of the walk, for the same reason.

## 5. What is proved

All theorems hold for every value of the constants that satisfies the named
assumption of the module (`CallsAssumption`, `RestartAssumption`,
`LifecycleAssumption`, `TransactionsAssumption`, `ArrayAssumption`,
`DiscoveryAssumption`, `CredentialsAssumption`, `LoginAssumption`,
`SourcesAssumption`, `ListenersAssumption`, `StoreAssumption`,
`ObjectsAssumption`, `TransferAssumption`), so for any number of calls, ids,
parts, restarts, callbacks, threads, transactions, rows, objects, graphs, files,
lives and delays. TLC evaluates each assumption on the constants of the runs.
Every safety invariant and action property of the passing runs is a theorem.
Where a theorem needs more, its statement says so. `PROJECT.json` lists them with the property
each states.

**Correlation.** `IInv` (in `CorrelationInv`) is the inductive invariant. The
properties alone are not inductive: that a call returns its own answer depends
on where the answer has been on its way. The chain is

- `IdsOwned`: an id belongs to one call for ever, and ids not handed out yet
  belong to nobody. It is what makes "the entry under my id" mine.
- `PartsFiled`: what the peer sent for an id carries that call, and what is
  filed is its first part.
- `RegistryExact`: the entry under an id is there exactly while its call waits.
- `AnswerFiled`: what an entry holds is what is filed under its id.
- `ResultFiled`: what was returned is what is filed; with `PartsFiled` and
  `IdsOwned` that is a non-empty prefix of the call's own answer (`OwnAnswer`).
- `CloseTold`, `EventMeaning`: an event is set because the client is closed or
  because the answer is stored, and `on_close()` sets the flag before it
  signals. That is why a call that wakes and does not find the flags finds an
  answer (`WokenForAReason`, theorem `RefusalsHaveAReason`): without it an empty
  list could be returned.
- `NoLostWakeup`, `NoStaleEvents` are inductive with these.

The proof has one lemma per conjunct. Most steps of a call are of a few kinds
(`WalkStep`, `StayStep`, `LeaveStep`, `CloseStep`, `StepKinds`): what a kind
leaves alone is stated once, so that each lemma has only the steps to treat
that can disturb its conjunct.

`CloseFindsWaiters` proves `CloseSeesWaiters` under a hypothesis about the
behaviour, `NoneThrownAway`: nobody makes `_connection_closed_events` while an
event is in it. That is what the race of two first callers does (580-581), and
nothing else: the code does not exclude it, and without the hypothesis the
property is false (section 6). The theorem says that this race is the only way
to miss a call. The invariant is `Collected`: who adds an event finds a set, and
the set holds the event of every call from before it registers until it has
left.

`PromiseKept` proves that Correlation implements
`RequestReply`, with the mapping of `KeepsPromise`: a call is *open* from its
`send()` to its end, its replies are what the peer delivered for its id, and
the session is *down* when either flag is set. `StepRefines` has one step per
action; filing an answer maps to a reply, popping the registration to one of
the three endings, and everything between stutters. `IInv` is used for the
returned prefix and for "refused only when down".

**Restart.** `RInv` is weaker than `IInv`, since much of that is false over two
connections: an entry may be popped by a call of the old session. What is left
is said of the calls that began since the ids did (`Current`: in progress and
not orphans): each has an id of its own that was handed out (`HasId`,
`IdsKept`), what is filed under an id was sent for the call that has it
(`FiledForAsker`), and what waits under an id is that call (`WaiterWaits`). From
these `OwnAnswersOnly` and `RegistrationsKept` follow. `EveryCloseFindsWaiters`
carries `CloseSeesWaiters` over to any number of connections: `Collected` speaks
of the set of events only, which `start()` neither replaces nor empties, and
between two starts every step is one of Correlation (`OneConnection`). It has
the hypothesis `NoneThrownAway` too. `LaterCallsAreFound` has the constant
`SetExists` in its place, as the run does: where an earlier call has made the
set, nobody makes it again.

**Lifecycle.** `LInv` has one part for each thing the two threads must know of
each other: a thread that is alive is the one the client knows (`ThreadKnown`),
there is a connection exactly while `run_forever()` runs (`AppRuns`), a stop
past its join has no thread (`StopJoined`), a session that a loss leaves behind
is covered by `closed` (`LossFlagged`), a thread past its loop was told to leave
it or says so in the flags (`ExitFlagged`), only such a thread has counted
beyond the limit (`CountBounded`), and nobody clears the signal to stop but a
listener that calls `start()` (`SignalStays`). `StopQuiescent` and
`IsConnectedTruthful` are inductive with these; `DeadMeansDown`,
`AttemptsBounded` and `NoConnectAfterStop` follow.

**Listeners.** `NotifiesInOrder` (`AllCalledInOrder`) is by `WalkedInOrder`: as
long as nothing is removed, what was called is what the index has passed, and
what was registered is still where it was. `SkipsAreBounded` (`SkipsBounded`) is
the harder one, since a removal moves all that come after it and the same
callback may be registered twice. `LostBounded` says that there is a function
from the registrations that were not called to places ahead of the index, one to
one (`Tracks`), or to 0 for those that are lost, of which there are no more than
there were removals. One removal moves the function and loses one place
(`RemovalStep`): the one that it takes out, or the one that slips behind the
index.

**Transactions.** `TInv`: what was not opened yet is unknown to the server
(`NotYetOpened`), a request that ends a transaction names one (`Addressed`),
what the server has done stays done while the answer is under way (`DoneIsDone`)
and after the caller was told (`ToldIsDone`), since what is over is never opened
again (`OverIsOver`). This gives `ToldTheTruth` whatever is lost. `InStep` and
`StartGivesOpen` come from a second invariant, `Calm`, which speaks of the
histories in which nothing was upset: one user at a time is in an operation, and
`WhileIn` says what holds at each of its stages.

**ArrayTransfer.** `AInv`: the rows before the writer's next chunk are written
(`Written`, in `WriterInv`), and the reader holds at most the rows it has
reached, in order when it holds all of them (`Placed`, in `ReaderInv`): a chunk
that comes short can therefore never be made up for by another one, and the
final reshape fails. The lemmas under it are the arithmetic of how many rows fit
and of the last chunk. `PutIsTrue` assumes that no answer is empty, and
`GetIsWhole` that a small array is answered in one message, which are two rows
of section 6. `MessagesAlwaysFit` (`MessagesFit`) has no condition: whatever the
type, a message takes at most the limit times the widest encoding of a cell over
what it was reckoned at. `LimitIsKept` draws the consequence for the types that
are reckoned at their width: floats of four and eight bytes and booleans keep to
the limit, integers of four and eight bytes, reckoned at that and taking up to
five and ten, exceed it by a quarter at most. For integers that are widened and
for texts the ratio is larger, without a bound for texts of any width.

**Transfer.** `WInv` has the three properties and what they need: calls nest
once (`Nested`), what is staged is staged in an open transaction
(`StagedIsOpen`), what was there and is not to be overwritten is untouched
(`Untouched`), and (`AckedIsThere`) what was acknowledged is stored or staged,
or the client holds a transaction that the target has not, in which case the
commit of the outer call cannot succeed and the call complains. The last is why
a commit by the nested call does no harm to what is promised.

**Discovery.** `DInv` holds for every graph, every list of roots and any
refusals. Besides the properties it has: what is known contains the roots
(`RootsKnown`), what is related to a checked URI is known or still to be looked
at (`NearKnown`), and all of it is in every closed set (`WithinClosed`). At the
return `to_check` is empty and nothing is left to be looked at, and `NearKnown`
becomes `Complete`.

**Store.** `SInv` is the three properties together with what a call is at each
of its stages; the work is in the lemmas about the operators. A dictionary has
under a key what is at the place of the key (`ByKeyAt`), what is merged of several
messages is in one of them (`MergedAt`), what an answer says of a key the server
says of it (`AnswerShape`), and a URI that the server has is the one that was
asked for, whatever the form it was given in (`SentAsAsked`). `GotIsAsked`
follows for the calls that get. For `ReportsHold` a report must have been served
(`DoneIsServed`), under the URI that is meant (`PutAt`, `SpaceSent`), and remain
so (`PutIsStored`, `DeletedIsGone`, `SpacesFollow`). `AnswersAreKept` has one
case for each operation (`NothingDropped`). The proof found `ReportsAreTrue` too
strong as it was first stated: that the object at a place is what is stored is
false when a later one has the same uuid.

**Credentials and Login.** `CInv` holds for every buffer, delay, life and set of
zones, and for lives that are told, garbled or not told. `Reckoned` is its core,
of a token whose end was told: for one of the zones of its method, the manager's
expiry is at least the true end of the token less the zone, and at most a delay
later. For the other methods the zone is 0; for a host whose zone is known, take
a set of one. `NeverStale` and `NoNeedlessRequest` follow from the two
halves. `LoginInv` carries it over to Login: what is saved is reckoned as what
was cached (`SavedReckoned`), so that a process that reads it is as safe as the
one that wrote it, whatever the files hold. `BornWithALiveToken` is
`NeverBornStale`: the constructor asks, and its answer is younger than the
request (`InFlight`).

`RightServerIsUsed` and `ClientsAreAuthorized` need nothing of the lives, and
nothing of the environment; both leave out the lists that are taken for pairs. About
the files there are lemmas without a state: what is listed is written
(`ListedFrom`) and what is written is listed (`WrittenIsListed`), of every id
that is listed one configuration is kept (`KeptFrom`, `KeptOfAll`), and so what
is opened is what is asked for (`RightIsOpened`) and has the fields that are
written under its id (`OpenedIsWritten`); a configuration that was opened has
found in the environment what there was (`OpenedShape`), so that another
process, in the same environment, finds no more. About the process there is `ProvInv`:
what is in use (`Used`) and what was saved last (`Stored`) is what was opened,
but for the fields that the two conversions are known to forget (`Kept`). That
a new `_id` is none that is written or asked for, and that a configuration is not
nothing, are the assumptions. The proof showed the choice of a method in
`AsServerConfig` to be of two conditions that may hold together, which TLC takes
in their order and the logic in none; it is now a choice in order, as the code
makes it.

**Only model-checked:** what the proof system does not reach, which is liveness
under fairness (`ReleasedByClose`, `ListenersEnd`, `StopReturns`,
`TransfersEnd`, `Ends`) and `ENABLED`. Induction over data is out of its reach
too, in the form of a theorem about any predicate; where a proof needs it, a
least number stands in for it, which is a set and no predicate (`WFMin`, of
well-founded induction): `LeastIsIn` for the first place of a callback in a
list, `EarliestIsIn` and `LatestIsIn` for the places in files. What
`put_data_object_file()` finds (`Found`, by a fold over its files) is only
assumed to be objects (`ObjectsAssumption`), which TLC evaluates.

## 6. Where the code falls short of its words, and how to see it

Two disagreements with a doc string have a run of their own that TLC violates:

- `Correlation_fast_answer`: `send_and_wait()` writes to the socket (line 573)
  before it registers (585-586). An answer processed in between is filed, wakes
  nobody, and the call ends in a TimeoutError, which its doc string (569) keeps
  for the case that no response is received.
- `Lifecycle_no_retry`: `on_close()` sets `stop_event` (388), by which
  `_run_websocket()` knows that its owner wants it to stop: after the first
  lost or failed connection there is no second attempt, although the module's
  doc string (13) has automatic reconnection.

The passing properties are stated so that each says exactly what the code
guarantees. What their conditions leave out can be seen by taking the
condition, or the constant, away:

| Where | What happens | How to see it |
|---|---|---|
| `etpsimpleclient.py` 539, doc 558-559 | the first message of an id is filed and wakes the call at once, final or not; the doc string says that all answers are waited for and returned | `Replies` against `delivered` in Correlation: a prefix, not the whole |
| 580-581 | two first callers both create `_connection_closed_events`; the event of one is lost, and `on_close()` does not wake it | `Restart` with `SetExists = FALSE` breaks `CloseSeesWaiters`; `EveryCloseFindsWaiters` |
| 392 | a call that adds its event after the snapshot waits for its timeout | drop `closing = "no"` from `ReleasedByClose` |
| 599 | an answer that is stored already is dropped when the flags are set by then | `pc = "interrupted"` with a stored answer is reachable |
| 556 | a listener that calls `send_and_wait()` holds up the thread that would file the answer: the call can only time out, and the close waits with it | `ListenersEnd` without the fairness of `Expire` |
| 609 | after `stop(); start()` ids begin again: a call of the old session pops the entry of a new one, and may return its answer | drop `c \notin orphans` from `NoForeignAnswer` |
| 469 | `start()` clears the flags before a call that was woken by the close has read them: it returns an empty list | `OwnAnswer`'s first conjunct in `Restart` |
| 487 | `stop()` waits for ever when the `WebSocketApp` does not run yet, or was replaced by `start()` | drop `Reachable` from `StopReturns` |
| 499 | `close()` on a client that is not connected raises before it stops anything | add "closeRaised" to `Stopped` in `StopQuiescent` |
| 661 | after a lost connection and `start()`, `is_connected()` is true before there is a connection, so that `start_and_wait_connected()` returns True at once | drop `spec # "stale"` |
| 471 | `start()` finds a thread that is ending alive and makes none | `ended = "skipped"` |
| 212 | `max_reconnect_attempts=0` means 3 | `Limit` |
| `etpclient.py` 1465 | `start_client()` raises after five seconds and leaves its thread connecting | `upc = "abandoned"` |
| `etpsimpleclient.py` 374, 378 | a removal during the walk skips a listener; a failing callback without `__name__` ends it | `SkipsBounded` counts the first; drop `Nameless` |
| `etpclient.py` 1351 | two threads start two transactions, one of which nobody can end | drop `Overlaps` |
| 1353, 1414 | after a lost answer the client holds a transaction that is over, or none while one is open | `upset` set by `Raises` |
| 1439 | `commit_transaction()` and `commit_transaction_get_msg()` disagree on whether a failed commit ends the transaction | `upset` set in `FinishAnswered` |
| 1083, doc 1113 | a response that lists no success counts as one | `Empty = TRUE` breaks `PutTruth` |
| 855, doc 1211 | a small array answered in several messages comes back short | `Splits = {"whole"}` breaks `GetWhole` |
| `etpclient.py` 1118, 1147 | the bytes of a message are reckoned by the width of the cells in memory, against MaxWebSocketMessagePayloadSize; in the message, which is Avro binary, a large int takes up to five bytes and a large long up to ten, so that chunks exceed the limit | replace `Widest(dtype)` by `m.cell` in `MessagesFit` |
| 1224-1232, `etp_requests.py` 391-398, 435 | narrow integers and floats are widened after the chunks were reckoned; texts count one byte each for the reader: both exceed the limit by more | the same, for those types |
| `etpclient.py` 1117 | nobody reckons the header of a message, the URI, the path, the dimensions and the counts of its blocks: an array of just the limit exceeds it | not modelled |
| `etpclient.py` 556-569 | a ProtocolException of `get_resources()` is walked over as if it were resources: the result is incomplete and says nothing | drop `refused` from `Complete` |
| 634-639 | one `ETPUri` is neither a string nor a list nor a dictionary: `get_data_object()` fetches it and returns None | drop `call.form # "uri"` from `NothingIsLost` |
| `utils.py` 112 | one plain name is sent as it is by `put_dataspace()` and `delete_dataspace()`, while in a list, or by `put_dataspaces_with_acl()`, it is made a URI of: what one creates the other does not find | drop `NamedRaw` from `ReportsAreTrue` |
| `etpclient.py` 573-598 | a ProtocolException of a search is walked over as if it were resources: nothing is found | `SearchAnswer` |
| 742-830 | files that do not exist or are named in capitals (`.XML`) are skipped, and the result says nothing | `Found` |
| 293-333 | `ping()` is true for any answer that is not an exception; `authorize()` looks at the first message only | `PingAnswer`, `AuthorizeAnswer` |
| `etpconfig.py` 51-72 | a file of one configuration is taken whatever `ETP_CONFIG_ID` says | `FromFile` of a file of one |
| 70-72 | `from_file()` makes a dictionary of whatever it has read: a list of configurations of two keys each, say a name and a method, becomes one configuration of the names of keys, whatever `ETP_CONFIG_ID` says, and the client logs in nowhere; an empty list becomes the default configuration | `AsPairs`, `FromPairs`; drop `AsPairs` from `Several` and `RightServer` fails |
| 76 | `if server_configs:` is always true: a dictionary of configurations that has none, or whose included files are missing, gives None, and no error | `FromFile` of a file "many" without places |
| 134 | a configuration without a name answers to the SERVER_NAME of the environment, by which `get_by_id()` may take it | `PostInit` in `Listed` |
| 250-266 | an included file that includes others becomes a default configuration | `Included` |
| 420-461, `auth.py` 385-397 | a bearer token is written under "bearer_token", which `from_dict()` does not know: it is lost from an `ETPConfig` with ACCESS_TOKEN, and from any saved configuration | drop `Forgotten` from `LoginWorks` |
| `auth.py` 309 | `to_dict()` of oauth2 leaves out its URL and scope: the saved configuration cannot log in | drop `Forgotten` from `LoginWorks` |
| `etpsimpleclient.py` 273-281 | with headers of its own, the constructor overwrites them by the None of `headers.update()`, and raises a TypeError as soon as it has a token | `client = "failed"` with `own` |
| 276-281 | the additional headers of the configuration become the headers of the client: the token that is put there stays in the configuration, is saved with it, and is what a later client sends that gets no token of its own | drop `outcome'.token.kind # "no"` from `NeverBornStale` |
| `auth.py` 549, 645, 713 | the token is stored before its life is read: one that is no number leaves the new token with the old expiry, or with none, by which it is valid for ever | `NeverStale` leaves out tokens of kind "untold" |
| 762-763 | the expiry of google-auth, in UTC and without a zone, is read in the zone of the host: on one that is behind UTC the token is handed out for hours after its end, on one that is ahead every refresh makes a request; without an expiry the old one stays | drop `zone` from `NeverStale` or `NoNeedlessRequest` |
| AWS and GCP | no timeout of thirty seconds: the delay may exceed the buffer, and the token may be stale by the difference | `Delay` in `NeverStale` |
| `etpscript.py` 354, 417 | the nested call commits the outer transaction, and the outer one complains of a commit that has nothing to do | outcome "complained" with everything stored |
| 298, 311 | a ProtocolException taken for objects raises with the transaction open | outcome "raised" with `open` |
| 178-184, 395-401 | `put_data_array()` of an `ETPClient` has no argument `array_flat`: a TypeError, with the transaction open, so that no array ever reaches an ETP target | `Array` |

Outside what the models hold, and found by reading. In `etpsimpleclient.py`,
line 236 gives `BasicAuthConfig` its arguments by position, which makes a header
"Basic None"; the client fetches its token once, when it is made (279), and
never calls `refresh_token_if_needed()`, so that the header of a client that
connects again may hold a token that has ended; `on_message()` iterates over
what `handle_bytes_generator()` produces but sends none of it, so that the
answer to a Ping is dropped (530); `recieved_msg_dict` keeps one list for each
message id until the next `start()` (539); sizes given for the connection are
lost by `stop()` and `start()` (301-326). In `auth.py`, an `AzureADError` raised
inside its own `try` is swallowed. `ServerConfigs.to_dict()` writes what
`read_configs()` does not read (`etpconfig.py` 304). A chunked read while
another client writes the same array mixes rows of both versions (`etpclient.py`
1266). `DataStorage.get_all_related_objects_uris()` raises on every call
(`etpscript.py` 56), `put_data_array()` of an `ETPClient` has no `array_flat`
(398), and `put_data_objects()` for an EPC file returns None, which
`transfert_data()` cannot use (312). Nothing in `transfert_data()` ever rolls
back.

## 7. What is abstracted, and what is not modelled

- *Steps.* A step is what runs between two points where another thread can be
  observed; a read or write of one attribute is atomic, as the interpreter
  makes it.
- *Messages* are records of the call they answer, their number and whether they
  are final. Their content is a model value or a set of rows.
- *Time* is a clock in Credentials and Login only. Elsewhere a timeout may pass at any
  moment, which covers every length.
- *Callers* are as many as there are calls: a thread that makes two calls is an
  interleaving in which one begins after the other has ended.
- *External:* the ETP session (`ETPConnection`), the `websocket-client`
  library, the HTTP requests of the identity providers and the servers. They
  are modelled from how the code uses them, with every answer the code has a
  branch for.
- *Servers* in Transfer have one transaction for a session and refuse a second
  start, and answer a request for resources in whole. A server that replaces an
  open transaction would break `AckedIsStored`, and one that cuts such an
  answer short would break `NoOverwrite`. A commit that was given up is served
  before the next call of the script, or never.
- *Restart* takes `start()` for one step. Its own interleavings are in
  Lifecycle.
- *Discovery* asks the server for one graph that does not change meanwhile.
- *Sizes* in ArrayTransfer are of the cells, at the widest that they may be in
  the message. What else is in a message is not reckoned by the code and not
  modelled.
- *Zones* in Credentials: a host may be in any of them at every request; a
  clock that is changed meanwhile is not there.
- *The environment* of a process that reads a saved configuration is that of the
  one that wrote it.
- *Lists of two-key configurations* whose first key is a method (a dictionary) or
  `additional_headers` are not among the sources: what `dict()` then sets is not
  modelled (`SourcesAssumption`).
- *Arrays* are cut by rows of one writer and one reader at a time, and a
  concurrent writer of another client is not there.
- *Strings* in Store and Login are records of what they name. The values that a
  configuration has in a `.env` file are taken to be free of what dotenv reads as
  a comment, a quote or a variable.
- *Dictionaries* keep the order of their keys where the code depends on it: the
  first configuration of a file, the values of the objects to put.

Not modelled:

- `default_request_session()`, `get_deleted_resources()` and
  `delete_data_object()` of `etp_requests.py` build a message from their
  arguments and keep nothing; nothing in the client uses the last two.
- `pe_as_str()`, which words an error, and the list of the datasets of an HDF5
  file.
- The settings of a configuration that have nothing to do with logging in are
  copied from one field to another, and the formats of the files are those of
  their libraries.
- `test_connection()` of `auth.py` is a `get_token()` (which is there) and a
  request of its own; refresh tokens are stored and never used.
- The printers of `serverprotocols.py`: nothing in the client registers them.
- A DataStorage over an EPC file, which cannot take part in `transfert_data()`
  (section 6).
- Documentation, packaging, the example interface and the tests, which need a live
  server.

## 8. Plan

Done: RequestReply, Correlation with its refinement, Restart with listeners that
call, Lifecycle, Listeners, Transactions, ArrayTransfer, Discovery, Store,
Credentials, Login and Transfer; and theorems about all of them, which state
every safety property of the runs.

Open, in this order:

1. Correlation composed with Lifecycle, so that `start()` in Restart is more
   than one step: a call that begins while the connection is being made, and
   the `send()` of `on_open()`.
2. A client that connects again with the header it was made with, that is, Login
   composed with Lifecycle: how old a token may get that way.
3. Transfer and Discovery taking their answers from Store, so that what is lost
   there is lost here.
4. An abstract specification of transactions (one open transaction for a
   client, ended once) that Transactions refines while nothing is upset, and one
   of a copy (nothing lost, nothing overwritten) for Transfer.
5. Theorems: what the liveness properties rest on that a proof can reach, that
   each step of a transfer, a walk or a release comes nearer to its end.
