---------------------------- MODULE Correlation ----------------------------
(***************************************************************************)
(* The request/answer correlation of ETPSimpleClient, for the life of one  *)
(* WebSocket connection: send(), send_and_wait(), on_message() and         *)
(* on_close() (src/py_etp_client/etpsimpleclient.py).                      *)
(*                                                                         *)
(* Caller threads and the WebSocket thread share, with hardly any common   *)
(* lock, the registry pending_requests, the set _connection_closed_events  *)
(* (which the first caller creates), the flags closed and stop_event and   *)
(* one threading.Event per call.  A call of the API is a process of its    *)
(* own: a thread that makes several calls is one of the interleavings in   *)
(* which a call starts after another has ended.  A step is what runs       *)
(* between two points where another thread can be observed.                *)
(*                                                                         *)
(* The ETP session (message ids), the peer and the socket are external.    *)
(***************************************************************************)
EXTENDS Naturals, Sequences, SequencesExt

CONSTANTS
  Calls,       \* the invocations of send_and_wait() and of send()
  Posts,       \* those of send(), such as on_open's RequestSession
  NoCall,      \* no call
  MaxId,       \* bound: message ids a session may allocate
  MaxParts,    \* bound: parts of one answer
  SetExists    \* an earlier call has created _connection_closed_events

ASSUME CallsAssumption ==
  /\ Posts \subseteq Calls
  /\ NoCall \notin Calls
  /\ MaxId \in Nat
  /\ MaxParts \in Nat \ {0}
  /\ SetExists \in BOOLEAN

VARIABLES
  \* the callers
  pc,            \* where each call is in send_and_wait()
  msgId,         \* its local msg_id, 0 before send() returns
  result,        \* what it returned
  \* attributes of the client
  event,         \* the event of each call is set
  waiter,        \* pending_requests: the call whose event is registered
                 \* under each id, NoCall for an id that is not registered,
  answer,        \* and the answer stored there, <<>> for None
  received,      \* recieved_msg_dict
  hasSet,        \* the attribute _connection_closed_events exists
  closedEvents,  \* its value, as the calls whose events it holds
  closed,        \* closed
  stopEvent,     \* stop_event is set
  \* the WebSocket thread
  closing,       \* where it is in on_close()
  toSignal,      \* the events on_close() still has to set
  \* external: the session, the socket and the peer
  nextId,        \* the id of the next message sent
  link,          \* the socket
  asker,         \* the call that sent the message with this id
  delivered      \* the parts the peer sent for this id, oldest first

callVars   == <<pc, msgId, result>>
clientVars == <<event, waiter, answer, received, hasSet, closedEvents>>
flagVars   == <<closed, stopEvent>>
threadVars == <<closing, toSignal>>
peerVars   == <<nextId, link, asker, delivered>>
vars == <<callVars, clientVars, flagVars, threadVars, peerVars>>

-----------------------------------------------------------------------------
Ids == 1..MaxId

\* A message that answers the request of a call.
Part == [call : Calls, part : 1..MaxParts, final : BOOLEAN]

\* Between the return of send() and the removal of the registration.
Unregistered == {"sent", "creating", "adding", "registering"}
Registered   == {"waiting", "woken", "expired", "interrupted", "answering"}
InProgress   == Unregistered \cup Registered
Ended        == {"answered", "timedOut", "closedOut", "notSent", "posted"}

\* The calls whose event is, or is about to be, in _connection_closed_events.
Announced == {"registering"} \cup Registered

Init ==
  /\ pc           = [c \in Calls |-> "idle"]
  /\ msgId        = [c \in Calls |-> 0]
  /\ result       = [c \in Calls |-> <<>>]
  /\ event        = [c \in Calls |-> FALSE]
  /\ waiter       = [i \in Ids |-> NoCall]
  /\ answer       = [i \in Ids |-> <<>>]
  /\ received     = [i \in Ids |-> <<>>]
  /\ hasSet       = SetExists
  /\ closedEvents = {}
  /\ closed       = FALSE
  /\ stopEvent    = FALSE
  /\ closing      = "no"
  /\ toSignal     = {}
  /\ nextId       = 1
  /\ link         = "up"
  /\ asker        = [i \in Ids |-> NoCall]
  /\ delivered    = [i \in Ids |-> <<>>]

Goto(c, from, to) ==
  /\ pc[c] = from
  /\ pc' = [pc EXCEPT ![c] = to]

-----------------------------------------------------------------------------
(***************************************************************************)
(* send(): one message id, one write to the socket.                        *)
(***************************************************************************)

\* Seeded bug: the session hands out the same id again.
SendSameId(c) ==
  /\ link = "up"
  /\ nextId \in Ids
  /\ Goto(c, "idle", IF c \in Posts THEN "posted" ELSE "sent")
  /\ msgId'  = [msgId EXCEPT ![c] = nextId]
  /\ asker'  = [asker EXCEPT ![nextId] = c]
  /\ nextId' = nextId
  /\ UNCHANGED <<result, clientVars, flagVars, threadVars, link, delivered>>

Send(c) ==
  /\ link = "up"
  /\ nextId \in Ids
  /\ Goto(c, "idle", IF c \in Posts THEN "posted" ELSE "sent")
  /\ msgId'  = [msgId EXCEPT ![c] = nextId]
  /\ asker'  = [asker EXCEPT ![nextId] = c]
  /\ nextId' = nextId + 1
  /\ UNCHANGED <<result, clientVars, flagVars, threadVars, link, delivered>>

\* WebSocketApp.send() raises on a socket that is gone; the id is lost.
SendFails(c) ==
  /\ link # "up"
  /\ nextId \in Ids
  /\ Goto(c, "idle", "notSent")
  /\ nextId' = nextId + 1
  /\ UNCHANGED <<msgId, result, clientVars, flagVars, threadVars,
                 link, asker, delivered>>

-----------------------------------------------------------------------------
(***************************************************************************)
(* send_and_wait(), after send() has returned.                             *)
(***************************************************************************)

\* hasattr(self, "_connection_closed_events")
LookForSet(c) ==
  /\ Goto(c, "sent", IF hasSet THEN "adding" ELSE "creating")
  /\ UNCHANGED <<msgId, result, clientVars, flagVars, threadVars, peerVars>>

CreateSet(c) ==
  /\ Goto(c, "creating", "adding")
  /\ hasSet' = TRUE
  /\ closedEvents' = {}
  /\ UNCHANGED <<msgId, result, event, waiter, answer, received, flagVars,
                 threadVars, peerVars>>

AddEvent(c) ==
  /\ Goto(c, "adding", "registering")
  /\ closedEvents' = closedEvents \cup {c}
  /\ UNCHANGED <<msgId, result, event, waiter, answer, received, hasSet,
                 flagVars, threadVars, peerVars>>

Register(c) ==
  /\ Goto(c, "registering", "waiting")
  /\ waiter' = [waiter EXCEPT ![msgId[c]] = c]
  /\ answer' = [answer EXCEPT ![msgId[c]] = <<>>]
  /\ UNCHANGED <<msgId, result, event, received, hasSet, closedEvents,
                 flagVars, threadVars, peerVars>>

\* event.wait(timeout) returns True ...
Wake(c) ==
  /\ event[c]
  /\ Goto(c, "waiting", "woken")
  /\ UNCHANGED <<msgId, result, clientVars, flagVars, threadVars, peerVars>>

\* Seeded bug: the wait has no timeout, but for messages nobody waits for.
ExpireNever(c) ==
  /\ c \in Posts
  /\ Goto(c, "waiting", "expired")
  /\ UNCHANGED <<msgId, result, clientVars, flagVars, threadVars, peerVars>>

\* ... or False: the timeout may pass at any moment.
Expire(c) ==
  /\ ~event[c]
  /\ Goto(c, "waiting", "expired")
  /\ UNCHANGED <<msgId, result, clientVars, flagVars, threadVars, peerVars>>

\* Seeded bug: the flags are not looked at after the wait.
CheckClosedNever(c) ==
  /\ Goto(c, "woken", "answering")
  /\ UNCHANGED <<msgId, result, clientVars, flagVars, threadVars, peerVars>>

\* if self.closed or self.stop_event.is_set()
CheckClosed(c) ==
  /\ Goto(c, "woken", IF closed \/ stopEvent THEN "interrupted"
                                             ELSE "answering")
  /\ UNCHANGED <<msgId, result, clientVars, flagVars, threadVars, peerVars>>

\* Seeded bug: the registration is not popped.
UnregisterEvent(c) ==
  /\ waiter' = waiter
  /\ answer' = answer
  /\ closedEvents' = closedEvents \ {c}

\* Seeded bug: the event is not discarded.
UnregisterEntry(c) ==
  /\ waiter' = [waiter EXCEPT ![msgId[c]] = NoCall]
  /\ answer' = [answer EXCEPT ![msgId[c]] = <<>>]
  /\ closedEvents' = closedEvents

\* Every way out pops the registration and discards the event.
Unregister(c) ==
  /\ waiter' = [waiter EXCEPT ![msgId[c]] = NoCall]
  /\ answer' = [answer EXCEPT ![msgId[c]] = <<>>]
  /\ closedEvents' = closedEvents \ {c}

GiveUp(c) ==
  /\ Goto(c, "expired", "timedOut")
  /\ Unregister(c)
  /\ UNCHANGED <<msgId, result, event, received, hasSet, flagVars,
                 threadVars, peerVars>>

CloseOut(c) ==
  /\ Goto(c, "interrupted", "closedOut")
  /\ Unregister(c)
  /\ UNCHANGED <<msgId, result, event, received, hasSet, flagVars,
                 threadVars, peerVars>>

Return(c) ==
  /\ Goto(c, "answering", "answered")
  /\ result' = [result EXCEPT ![c] = answer[msgId[c]]]
  /\ Unregister(c)
  /\ UNCHANGED <<msgId, event, received, hasSet, flagVars, threadVars,
                 peerVars>>

-----------------------------------------------------------------------------
(***************************************************************************)
(* on_message(): the peer sends the next part of an answer and the         *)
(* WebSocket thread files it.                                              *)
(***************************************************************************)

\* The part the peer sends next for id i.
NextPart(i, final) ==
  [call |-> asker[i], part |-> Len(delivered[i]) + 1, final |-> final]

\* The peer has received request i and has not finished answering it.
Answerable(i) ==
  /\ asker[i] # NoCall
  /\ delivered[i] # <<>> => ~Last(delivered[i]).final
  /\ Len(delivered[i]) < MaxParts

\* recieved_msg_dict gets a list, and the message, for a new id only.
Filed(i, p) == IF received[i] = <<>> THEN <<p>> ELSE received[i]

\* Seeded bug: the answer is filed without event.set().
OnMessageQuietly(i, final) ==
  LET p == NextPart(i, final)
  IN /\ link = "up"
     /\ Answerable(i)
     /\ delivered' = [delivered EXCEPT ![i] = Append(@, p)]
     /\ received'  = [received EXCEPT ![i] = Filed(i, p)]
     /\ \/ /\ waiter[i] # NoCall
           /\ answer' = [answer EXCEPT ![i] = Filed(i, p)]
           /\ event'  = event
        \/ /\ waiter[i] = NoCall
           /\ UNCHANGED <<answer, event>>
     /\ UNCHANGED <<callVars, waiter, hasSet, closedEvents, flagVars,
                    threadVars, nextId, link, asker>>

OnMessage(i, final) ==
  LET p == NextPart(i, final)
  IN /\ link = "up"
     /\ Answerable(i)
     /\ delivered' = [delivered EXCEPT ![i] = Append(@, p)]
     /\ received'  = [received EXCEPT ![i] = Filed(i, p)]
     /\ \/ /\ waiter[i] # NoCall
           /\ answer' = [answer EXCEPT ![i] = Filed(i, p)]
           /\ event'  = [event EXCEPT ![waiter[i]] = TRUE]
        \/ /\ waiter[i] = NoCall
           /\ UNCHANGED <<answer, event>>
     /\ UNCHANGED <<callVars, waiter, hasSet, closedEvents, flagVars,
                    threadVars, nextId, link, asker>>

-----------------------------------------------------------------------------
(***************************************************************************)
(* The end of the connection: the peer, the network or stop() closes the   *)
(* socket, and the WebSocket thread runs on_close().                       *)
(***************************************************************************)

LinkLost ==
  /\ link = "up"
  /\ link' = "down"
  /\ UNCHANGED <<callVars, clientVars, flagVars, threadVars, nextId, asker,
                 delivered>>

\* stop() sets stop_event and then closes the socket (a LinkLost).
RequestStop ==
  /\ ~stopEvent
  /\ stopEvent' = TRUE
  /\ UNCHANGED <<callVars, clientVars, closed, threadVars, peerVars>>

OnCloseFlag ==
  /\ link = "down"
  /\ closing = "no"
  /\ closing' = "flagged"
  /\ closed' = TRUE
  /\ UNCHANGED <<callVars, clientVars, stopEvent, toSignal, peerVars>>

OnCloseStopEvent ==
  /\ closing = "flagged"
  /\ closing' = "stopped"
  /\ stopEvent' = TRUE
  /\ UNCHANGED <<callVars, clientVars, closed, toSignal, peerVars>>

\* Seeded bug: on_close() collects no event.
OnCloseForgets ==
  /\ closing = "stopped"
  /\ closing' = "signalling"
  /\ toSignal' = {}
  /\ UNCHANGED <<callVars, clientVars, flagVars, peerVars>>

\* list(self._connection_closed_events), when there is such an attribute
OnCloseSnapshot ==
  /\ closing = "stopped"
  /\ closing' = "signalling"
  /\ toSignal' = IF hasSet THEN closedEvents ELSE {}
  /\ UNCHANGED <<callVars, clientVars, flagVars, peerVars>>

OnCloseSignal(c) ==
  /\ closing = "signalling"
  /\ c \in toSignal
  /\ event' = [event EXCEPT ![c] = TRUE]
  /\ toSignal' = toSignal \ {c}
  /\ UNCHANGED <<callVars, waiter, answer, received, hasSet, closedEvents,
                 flagVars, closing, peerVars>>

OnCloseDone ==
  /\ closing = "signalling"
  /\ toSignal = {}
  /\ closing' = "done"
  /\ UNCHANGED <<callVars, clientVars, flagVars, toSignal, peerVars>>

OnClose ==
  \/ OnCloseFlag \/ OnCloseStopEvent \/ OnCloseSnapshot \/ OnCloseDone
  \/ \E c \in Calls : OnCloseSignal(c)

-----------------------------------------------------------------------------
\* The steps of a call that the scheduler owes it; Send starts the call and
\* Expire is the passing of time.
Proceed(c) ==
  \/ LookForSet(c) \/ CreateSet(c) \/ AddEvent(c) \/ Register(c)
  \/ Wake(c) \/ CheckClosed(c)
  \/ GiveUp(c) \/ CloseOut(c) \/ Return(c)

Call(c) == Send(c) \/ SendFails(c) \/ Proceed(c) \/ Expire(c)

Next ==
  \/ \E c \in Calls : Call(c)
  \/ \E i \in Ids, final \in BOOLEAN : OnMessage(i, final)
  \/ LinkLost
  \/ RequestStop
  \/ OnClose

Spec == Init /\ [][Next]_vars

-----------------------------------------------------------------------------
(***************************************************************************)
(* Properties                                                              *)
(***************************************************************************)

\* Every variable of the client, its threads and its peer keeps its type.
TypeOK ==
  /\ pc \in [Calls -> {"idle"} \cup InProgress \cup Ended]
  /\ msgId \in [Calls -> 0..MaxId]
  /\ result \in [Calls -> Seq(Part)]
  /\ event \in [Calls -> BOOLEAN]
  /\ waiter \in [Ids -> Calls \cup {NoCall}]
  /\ answer \in [Ids -> Seq(Part)]
  /\ received \in [Ids -> Seq(Part)]
  /\ hasSet \in BOOLEAN
  /\ closedEvents \subseteq Calls
  /\ closed \in BOOLEAN
  /\ stopEvent \in BOOLEAN
  /\ closing \in {"no", "flagged", "stopped", "signalling", "done"}
  /\ toSignal \subseteq Calls
  /\ nextId \in 1..(MaxId + 1)
  /\ link \in {"up", "down"}
  /\ asker \in [Ids -> Calls \cup {NoCall}]
  /\ delivered \in [Ids -> Seq(Part)]

\* send_and_wait() returns messages, at least one, and only messages the peer
\* sent for the request of that very call, from the first one on: never an
\* empty list and never the answer of a concurrent call.
OwnAnswer ==
  \A c \in Calls :
    pc[c] = "answered" =>
      /\ result[c] # <<>>
      /\ IsPrefix(result[c], delivered[msgId[c]])
      /\ \A k \in DOMAIN result[c] : result[c][k].call = c

\* pending_requests holds the calls that wait, each once and under its own
\* id, whatever way the others left: by an answer, a timeout or a close.
RegistryExact ==
  /\ \A c \in Calls : pc[c] \in Registered => waiter[msgId[c]] = c
  /\ \A i \in Ids : waiter[i] # NoCall =>
       /\ pc[waiter[i]] \in Registered
       /\ msgId[waiter[i]] = i

\* No event is left behind in _connection_closed_events by a call that ended.
NoStaleEvents == \A c \in closedEvents : pc[c] \in Announced

\* A call is refused its answer only when the session is going down, and is
\* given one only for a message that was filed while it was registered.
WokenForAReason ==
  \A c \in Calls :
    /\ pc[c] \in {"interrupted", "closedOut"} => closed \/ stopEvent
    /\ pc[c] = "answering" => answer[msgId[c]] # <<>>

\* No lost wake-up: once the answer of a waiting call is filed in its
\* registration, its event is set.
NoLostWakeup ==
  \A c \in Calls :
    pc[c] = "waiting" /\ answer[msgId[c]] # <<>> => event[c]

\* When on_close() collects the events to set, the event of every call that
\* waits on an unset event is among them.
CloseSeesWaiters ==
  [][closing = "stopped" /\ closing' = "signalling" =>
       \A c \in Calls : pc[c] = "waiting" /\ ~event[c] => c \in toSignal']_vars

\* A call that waits when the connection is lost is released by on_close():
\* it does not need its timeout to end.
ReleasedByClose ==
  \A c \in Calls :
    pc[c] = "waiting" /\ link = "down" /\ closing = "no" ~> pc[c] \in Ended

\* A timeout strikes only a call for which no message has come.
TimeoutMeansNoResponse ==
  [][\A c \in Calls :
       pc[c] = "waiting" /\ pc'[c] = "expired" => received[msgId[c]] = <<>>]_vars

-----------------------------------------------------------------------------
\* What RequestReply sees of the client and its peer.
Status ==
  [c \in Calls |-> CASE pc[c] = "idle" -> "new"
                     [] pc[c] \in InProgress -> "open"
                     [] OTHER -> pc[c]]

Replies ==
  [c \in Calls |-> IF msgId[c] = 0 THEN <<>> ELSE delivered[msgId[c]]]

Down == closed \/ stopEvent

Reply == INSTANCE RequestReply WITH
  Messages <- Part, status <- Status, replies <- Replies, down <- Down

\* send_and_wait() keeps the promise of RequestReply.
KeepsPromise == Reply!Spec

=============================================================================
