------------------------- MODULE CorrelationProofs -------------------------
(***************************************************************************)
(* Proofs about Correlation, for every set of calls and every bound: its   *)
(* invariants, and that it implements RequestReply; and about Restart, for *)
(* any number of connections.                                              *)
(***************************************************************************)
EXTENDS CorrelationInv, Restart, SequenceTheorems, TLAPS

-----------------------------------------------------------------------------
(***************************************************************************)
(* The steps of a call, by what they do to its control state.              *)
(***************************************************************************)

Moved(c, From, To) ==
  /\ pc[c] \in From
  /\ \E to \in To : pc' = [pc EXCEPT ![c] = to]

\* Before it registers.
Walk(c) == LookForSet(c) \/ CreateSet(c) \/ AddEvent(c)

\* While it is registered.
Stay(c) == Wake(c) \/ Expire(c) \/ CheckClosed(c)

\* When it takes its registration back.
Leave(c) == GiveUp(c) \/ CloseOut(c) \/ Return(c)

\* The steps of the WebSocket thread and of the application that neither file
\* a message nor set an event.
Aside == \/ LinkLost \/ RequestStop
         \/ OnCloseFlag \/ OnCloseStopEvent \/ OnCloseSnapshot \/ OnCloseDone

\* The registry, the ids and what the peer has sent.
filed == <<msgId, waiter, answer, received, nextId, asker, delivered>>

\* A step of send_and_wait() up to the registration changes no id, no
\* registration and no message.
LEMMA WalkStep ==
  ASSUME NEW c \in Calls, Walk(c)
  PROVE  Moved(c, Unregistered, Unregistered) /\ UNCHANGED <<filed, result, event>>
<1>1. CASE LookForSet(c)
  BY <1>1 DEF LookForSet, Goto, Moved, Unregistered, filed, clientVars, peerVars
<1>2. CASE CreateSet(c)
  BY <1>2 DEF CreateSet, Goto, Moved, Unregistered, filed, peerVars
<1>3. CASE AddEvent(c)
  BY <1>3 DEF AddEvent, Goto, Moved, Unregistered, filed, peerVars
<1> QED
  BY <1>1, <1>2, <1>3 DEF Walk

\* Nor does a step while the call waits.
LEMMA StayStep ==
  ASSUME NEW c \in Calls, Stay(c)
  PROVE  Moved(c, Registered, Registered) /\ UNCHANGED <<filed, result, event>>
<1>1. CASE Wake(c)
  BY <1>1 DEF Wake, Goto, Moved, Registered, filed, clientVars, peerVars
<1>2. CASE Expire(c)
  BY <1>2 DEF Expire, Goto, Moved, Registered, filed, clientVars, peerVars
<1>3. CASE CheckClosed(c)
  BY <1>3 DEF CheckClosed, Goto, Moved, Registered, filed, clientVars, peerVars
<1> QED
  BY <1>1, <1>2, <1>3 DEF Stay

\* Every way out of send_and_wait() removes the registration of the call and
\* no other.
LEMMA LeaveStep ==
  ASSUME NEW c \in Calls, Leave(c)
  PROVE  /\ Moved(c, Registered, Ended)
         /\ Unregister(c)
         /\ UNCHANGED <<msgId, event, received, nextId, asker, delivered>>
<1>1. CASE GiveUp(c)
  BY <1>1 DEF GiveUp, Goto, Moved, Registered, Ended, peerVars
<1>2. CASE CloseOut(c)
  BY <1>2 DEF CloseOut, Goto, Moved, Registered, Ended, peerVars
<1>3. CASE Return(c)
  BY <1>3 DEF Return, Goto, Moved, Registered, Ended, peerVars
<1> QED
  BY <1>1, <1>2, <1>3 DEF Leave

\* The end of the connection leaves the registry and the callers alone.
LEMMA CloseStep ==
  Aside => UNCHANGED <<filed, pc, result, event>>
BY DEF Aside, LinkLost, RequestStop, OnCloseFlag, OnCloseStopEvent,
       OnCloseSnapshot, OnCloseDone, filed, callVars, clientVars, peerVars

\* A step is one of the nine kinds above, or leaves everything alone.
LEMMA StepKinds ==
  [Next]_vars =>
    \/ \E c \in Calls : \/ Send(c) \/ SendFails(c) \/ Walk(c) \/ Register(c)
                        \/ Stay(c) \/ Leave(c) \/ OnCloseSignal(c)
    \/ \E i \in Ids, final \in BOOLEAN : OnMessage(i, final)
    \/ Aside
    \/ UNCHANGED vars
BY DEF Next, Call, Proceed, OnClose, Walk, Stay, Leave, Aside

-----------------------------------------------------------------------------
(***************************************************************************)
(* A call in progress owns its message id.                                 *)
(***************************************************************************)

\* The id of a call in progress is a proper id, the call is the one that
\* asked, and no other call has that id.
LEMMA OwnId ==
  ASSUME TypeOK, IdsOwned, NEW c \in Calls, pc[c] \in InProgress \cup Ended,
         pc[c] # "notSent"
  PROVE  /\ msgId[c] \in Ids
         /\ msgId[c] # 0
         /\ asker[msgId[c]] = c
         /\ \A d \in Calls : msgId[d] = msgId[c] => d = c
<1>1. msgId[c] \in 0..MaxId
  BY DEF TypeOK
<1>2. msgId[c] # 0
  BY DEF IdsOwned, InProgress, Unregistered, Registered, Ended
<1>3. msgId[c] \in Ids
  BY <1>1, <1>2, CallsAssumption DEF Ids
<1> QED
  BY <1>2, <1>3 DEF IdsOwned

\* A call that has not registered yet, or has left, has no registration.
LEMMA NotRegistered ==
  ASSUME TypeOK, IdsOwned, RegistryExact, NEW c \in Calls,
         pc[c] \notin Registered
  PROVE  \A i \in Ids : waiter[i] # c
BY CallsAssumption DEF TypeOK, RegistryExact

\* What the peer sends is a message, and what the client files a list of them.
LEMMA FiledType ==
  ASSUME TypeOK, NEW i \in Ids, NEW final \in BOOLEAN, Answerable(i)
  PROVE  /\ NextPart(i, final) \in Part
         /\ Filed(i, NextPart(i, final)) \in Seq(Part)
         /\ Append(delivered[i], NextPart(i, final)) \in Seq(Part)
<1>1. asker[i] \in Calls /\ delivered[i] \in Seq(Part) /\ received[i] \in Seq(Part)
  BY DEF TypeOK, Answerable
<1>2. Len(delivered[i]) + 1 \in 1..MaxParts
  BY <1>1, CallsAssumption DEF Answerable
<1>3. NextPart(i, final) \in Part
  BY <1>1, <1>2 DEF NextPart, Part
<1> QED
  BY <1>1, <1>3 DEF Filed

-----------------------------------------------------------------------------
(***************************************************************************)
(* The conjuncts of the inductive invariant, one lemma each.               *)
(***************************************************************************)

\* pc keeps its type when it is moved.
LEMMA MovedType ==
  ASSUME TypeOK, NEW c \in Calls, NEW From, Moved(c, From, InProgress \cup Ended)
  PROVE  pc' \in [Calls -> {"idle"} \cup InProgress \cup Ended]
BY DEF TypeOK, Moved

\* Every step keeps the types of the variables.
LEMMA TypeOKStep == TypeOK /\ IdsOwned /\ [Next]_vars => TypeOK'
<1> SUFFICES ASSUME TypeOK, IdsOwned, [Next]_vars PROVE TypeOK'
  OBVIOUS
<1> USE DEF clientVars, flagVars, threadVars, peerVars, callVars
<1>1. ASSUME NEW c \in Calls, Send(c)
      PROVE  TypeOK'
  <2>1. nextId \in Ids /\ nextId \in 0..MaxId /\ nextId + 1 \in 1..(MaxId + 1)
    BY <1>1, CallsAssumption DEF Send, Ids
  <2>2. Moved(c, {"idle"}, InProgress \cup Ended)
    BY <1>1 DEF Send, Goto, Moved, InProgress, Unregistered, Ended
  <2>3. pc' \in [Calls -> {"idle"} \cup InProgress \cup Ended]
    BY <2>2, MovedType
  <2> QED
    BY <1>1, <2>1, <2>3 DEF TypeOK, Send
<1>2. ASSUME NEW c \in Calls, SendFails(c)
      PROVE  TypeOK'
  <2>1. nextId + 1 \in 1..(MaxId + 1)
    BY <1>2, CallsAssumption DEF SendFails, Ids
  <2>2. Moved(c, {"idle"}, InProgress \cup Ended)
    BY <1>2 DEF SendFails, Goto, Moved, Ended
  <2>3. pc' \in [Calls -> {"idle"} \cup InProgress \cup Ended]
    BY <2>2, MovedType
  <2> QED
    BY <1>2, <2>1, <2>3 DEF TypeOK, SendFails
<1>3. ASSUME NEW c \in Calls, Walk(c)
      PROVE  TypeOK'
  <2>1. Moved(c, Unregistered, InProgress \cup Ended)
    BY <1>3, WalkStep DEF Moved, InProgress
  <2>2. pc' \in [Calls -> {"idle"} \cup InProgress \cup Ended]
    BY <2>1, MovedType
  <2>3. CASE LookForSet(c)
    BY <2>2, <2>3 DEF TypeOK, LookForSet
  <2>4. CASE CreateSet(c)
    BY <2>2, <2>4 DEF TypeOK, CreateSet
  <2>5. CASE AddEvent(c)
    BY <2>2, <2>5 DEF TypeOK, AddEvent
  <2> QED
    BY <1>3, <2>3, <2>4, <2>5 DEF Walk
<1>4. ASSUME NEW c \in Calls, Register(c)
      PROVE  TypeOK'
  <2>1. Moved(c, {"registering"}, InProgress \cup Ended)
    BY <1>4 DEF Register, Goto, Moved, InProgress, Registered
  <2>2. pc' \in [Calls -> {"idle"} \cup InProgress \cup Ended]
    BY <2>1, MovedType
  <2>3. <<>> \in Seq(Part)
    OBVIOUS
  <2> QED
    BY <1>4, <2>2, <2>3 DEF TypeOK, Register
<1>5. ASSUME NEW c \in Calls, Stay(c)
      PROVE  TypeOK'
  <2>1. Moved(c, Registered, InProgress \cup Ended)
    BY <1>5, StayStep DEF Moved, InProgress
  <2>2. pc' \in [Calls -> {"idle"} \cup InProgress \cup Ended]
    BY <2>1, MovedType
  <2> QED
    BY <1>5, <2>2 DEF TypeOK, Stay, Wake, Expire, CheckClosed
<1>6. ASSUME NEW c \in Calls, Leave(c)
      PROVE  TypeOK'
  <2>1. Moved(c, Registered, InProgress \cup Ended)
    BY <1>6, LeaveStep DEF Moved
  <2>2. pc' \in [Calls -> {"idle"} \cup InProgress \cup Ended]
    BY <2>1, MovedType
  <2>3. msgId[c] \in Ids
    BY <2>1, OwnId DEF Moved, Registered, InProgress
  <2>4. answer[msgId[c]] \in Seq(Part)
    BY <2>3 DEF TypeOK
  <2>5. /\ waiter' \in [Ids -> Calls \cup {NoCall}]
        /\ answer' \in [Ids -> Seq(Part)]
        /\ closedEvents' \subseteq Calls
    <3>1. <<>> \in Seq(Part)
      OBVIOUS
    <3> QED
      BY <1>6, <3>1, LeaveStep DEF TypeOK, Unregister
  <2>6. CASE GiveUp(c)
    BY <2>2, <2>5, <2>6 DEF TypeOK, GiveUp
  <2>7. CASE CloseOut(c)
    BY <2>2, <2>5, <2>7 DEF TypeOK, CloseOut
  <2>8. CASE Return(c)
    BY <2>2, <2>4, <2>5, <2>8 DEF TypeOK, Return
  <2> QED
    BY <1>6, <2>6, <2>7, <2>8 DEF Leave
<1>7. ASSUME NEW c \in Calls, OnCloseSignal(c)
      PROVE  TypeOK'
  BY <1>7 DEF TypeOK, OnCloseSignal
<1>8. ASSUME NEW i \in Ids, NEW final \in BOOLEAN, OnMessage(i, final)
      PROVE  TypeOK'
  <2> DEFINE p == NextPart(i, final)
  <2>1. /\ Filed(i, p) \in Seq(Part)
        /\ Append(delivered[i], p) \in Seq(Part)
    BY <1>8, FiledType DEF OnMessage
  <2>2. /\ delivered' = [delivered EXCEPT ![i] = Append(@, p)]
        /\ received' = [received EXCEPT ![i] = Filed(i, p)]
        /\ \/ answer' = [answer EXCEPT ![i] = Filed(i, p)]
           \/ UNCHANGED answer
        /\ \/ event' = [event EXCEPT ![waiter[i]] = TRUE]
           \/ UNCHANGED event
    BY <1>8 DEF OnMessage
  <2> HIDE DEF p
  <2>3. /\ delivered' \in [Ids -> Seq(Part)]
        /\ received' \in [Ids -> Seq(Part)]
        /\ answer' \in [Ids -> Seq(Part)]
        /\ event' \in [Calls -> BOOLEAN]
    BY <2>1, <2>2 DEF TypeOK
  <2> QED
    BY <1>8, <2>3 DEF TypeOK, OnMessage
<1>9. ASSUME Aside
      PROVE  TypeOK'
  BY <1>9 DEF TypeOK, Aside, LinkLost, RequestStop, OnCloseFlag,
              OnCloseStopEvent, OnCloseSnapshot, OnCloseDone
<1>10. CASE UNCHANGED vars
  BY <1>10 DEF TypeOK, vars
<1> QED
  BY <1>1, <1>2, <1>3, <1>4, <1>5, <1>6, <1>7, <1>8, <1>9, <1>10, StepKinds

\* What IdsOwned speaks of does not change when a call only moves on.
LEMMA MovedIds ==
  ASSUME TypeOK, IdsOwned, NEW c \in Calls, NEW From, NEW To,
         Moved(c, From, To),
         \A x \in From \cup To : x \notin {"idle", "notSent"},
         UNCHANGED <<msgId, nextId, asker>>
  PROVE  IdsOwned'
BY DEF TypeOK, IdsOwned, Moved

\* A message id stays with the call that sent it.
LEMMA IdsOwnedStep == TypeOK /\ IdsOwned /\ [Next]_vars => IdsOwned'
<1> SUFFICES ASSUME TypeOK, IdsOwned, [Next]_vars PROVE IdsOwned'
  OBVIOUS
<1> USE DEF clientVars, flagVars, threadVars, peerVars, callVars
<1>1. ASSUME NEW c \in Calls, Send(c)
      PROVE  IdsOwned'
  <2>1. /\ nextId \in Ids /\ nextId \in Nat /\ nextId # 0
        /\ pc[c] = "idle" /\ msgId[c] = 0
        /\ pc'[c] \notin {"idle", "notSent"}
        /\ \A d \in Calls : d # c => pc'[d] = pc[d]
        /\ msgId' = [msgId EXCEPT ![c] = nextId]
        /\ asker' = [asker EXCEPT ![nextId] = c]
        /\ nextId' = nextId + 1
    BY <1>1, CallsAssumption DEF Send, Goto, Ids, IdsOwned, TypeOK
  <2>2. \A d \in Calls : d # c => msgId'[d] = msgId[d] /\ msgId[d] \in 0..MaxId
    BY <2>1 DEF TypeOK
  <2>3. \A d \in Calls : pc'[d] \in {"idle", "notSent"} <=> msgId'[d] = 0
    BY <2>1, <2>2 DEF TypeOK, IdsOwned
  <2>4. \A d \in Calls : msgId'[d] # 0 => /\ asker'[msgId'[d]] = d
                                          /\ msgId'[d] < nextId'
    <3> SUFFICES ASSUME NEW d \in Calls, msgId'[d] # 0
                 PROVE  asker'[msgId'[d]] = d /\ msgId'[d] < nextId'
      OBVIOUS
    <3>1. CASE d = c
      <4>1. msgId'[d] = nextId /\ asker'[nextId] = c
        BY <2>1, <3>1 DEF TypeOK
      <4> QED BY <2>1, <3>1, <4>1
    <3>2. CASE d # c
      <4>1. /\ msgId'[d] = msgId[d] /\ msgId[d] \in Ids /\ msgId[d] \in Nat
            /\ asker[msgId[d]] = d /\ msgId[d] < nextId
        BY <2>2, <3>2, CallsAssumption DEF IdsOwned, Ids
      <4>2. asker'[msgId[d]] = asker[msgId[d]]
        BY <2>1, <4>1 DEF TypeOK
      <4> QED BY <2>1, <4>1, <4>2
    <3> QED BY <3>1, <3>2
  <2>5. \A i \in Ids : asker'[i] # NoCall => msgId'[asker'[i]] = i
    <3> SUFFICES ASSUME NEW i \in Ids, asker'[i] # NoCall
                 PROVE  msgId'[asker'[i]] = i
      OBVIOUS
    <3>1. CASE i = nextId
      <4>1. asker'[i] = c
        BY <2>1, <3>1 DEF TypeOK
      <4> QED BY <2>1, <3>1, <4>1 DEF TypeOK
    <3>2. CASE i # nextId
      <4>1. asker'[i] = asker[i]
        BY <2>1, <3>2 DEF TypeOK
      <4>2. asker[i] \in Calls /\ msgId[asker[i]] = i
        BY <4>1 DEF TypeOK, IdsOwned
      <4>3. asker[i] # c
        BY <2>1, <4>2, CallsAssumption DEF Ids
      <4> QED BY <2>2, <4>1, <4>2, <4>3
    <3> QED BY <3>1, <3>2
  <2>6. \A i \in Ids : i >= nextId' => asker'[i] = NoCall
    BY <2>1 DEF TypeOK, IdsOwned, Ids
  <2> QED
    BY <2>3, <2>4, <2>5, <2>6 DEF IdsOwned
<1>2. ASSUME NEW c \in Calls, SendFails(c)
      PROVE  IdsOwned'
  <2>1. /\ \A d \in Calls : d # c => pc'[d] = pc[d]
        /\ pc[c] = "idle" /\ pc'[c] = "notSent"
        /\ nextId \in Nat /\ nextId' = nextId + 1
        /\ UNCHANGED <<msgId, asker>>
    BY <1>2 DEF SendFails, Goto, TypeOK, Ids
  <2> QED
    BY <2>1 DEF IdsOwned, TypeOK, Ids
<1>3. ASSUME NEW c \in Calls, Walk(c)
      PROVE  IdsOwned'
  BY <1>3, WalkStep, MovedIds DEF Unregistered, filed
<1>4. ASSUME NEW c \in Calls, Register(c)
      PROVE  IdsOwned'
  <2>1. Moved(c, {"registering"}, {"waiting"})
    BY <1>4 DEF Register, Goto, Moved
  <2> QED
    BY <1>4, <2>1, MovedIds DEF Register
<1>5. ASSUME NEW c \in Calls, Stay(c)
      PROVE  IdsOwned'
  BY <1>5, StayStep, MovedIds DEF Registered, filed
<1>6. ASSUME NEW c \in Calls, Leave(c)
      PROVE  IdsOwned'
  <2>1. Moved(c, Registered, Ended \ {"notSent"})
    BY <1>6 DEF Leave, GiveUp, CloseOut, Return, Goto, Moved, Registered, Ended
  <2>2. \A x \in Registered \cup (Ended \ {"notSent"}) :
          x \notin {"idle", "notSent"}
    BY DEF Registered, Ended
  <2> QED
    BY <1>6, <2>1, <2>2, LeaveStep, MovedIds
<1>7. ASSUME NEW c \in Calls, OnCloseSignal(c)
      PROVE  IdsOwned'
  BY <1>7 DEF IdsOwned, OnCloseSignal
<1>8. ASSUME NEW i \in Ids, NEW final \in BOOLEAN, OnMessage(i, final)
      PROVE  IdsOwned'
  BY <1>8 DEF IdsOwned, OnMessage
<1>9. ASSUME Aside
      PROVE  IdsOwned'
  BY <1>9, CloseStep DEF IdsOwned, filed
<1>10. CASE UNCHANGED vars
  BY <1>10 DEF IdsOwned, vars
<1> QED
  BY <1>1, <1>2, <1>3, <1>4, <1>5, <1>6, <1>7, <1>8, <1>9, <1>10, StepKinds

\* The peer answers the call that asked; recieved_msg_dict keeps the first part.
LEMMA PartsFiledStep ==
  TypeOK /\ IdsOwned /\ PartsFiled /\ [Next]_vars => PartsFiled'
<1> SUFFICES ASSUME TypeOK, IdsOwned, PartsFiled, [Next]_vars PROVE PartsFiled'
  OBVIOUS
<1> USE DEF clientVars, flagVars, threadVars, peerVars, callVars
<1>1. ASSUME NEW c \in Calls, Send(c)
      PROVE  PartsFiled'
  <2>1. /\ nextId \in Ids
        /\ asker' = [asker EXCEPT ![nextId] = c]
        /\ UNCHANGED <<delivered, received>>
    BY <1>1 DEF Send
  <2>2. asker[nextId] = NoCall /\ delivered[nextId] = <<>>
    BY <2>1, CallsAssumption DEF IdsOwned, PartsFiled, TypeOK, Ids
  <2> QED
    BY <2>1, <2>2, CallsAssumption DEF TypeOK, PartsFiled
<1>2. ASSUME NEW i \in Ids, NEW final \in BOOLEAN, OnMessage(i, final)
      PROVE  PartsFiled'
  <2> DEFINE p == NextPart(i, final)
  <2>1. /\ asker[i] # NoCall /\ asker' = asker
        /\ delivered' = [delivered EXCEPT ![i] = Append(delivered[i], p)]
        /\ received' = [received EXCEPT ![i] = Filed(i, p)]
        /\ p.call = asker[i] /\ p \in Part
    BY <1>2, FiledType DEF OnMessage, Answerable, NextPart
  <2>2. received[i] = IF delivered[i] = <<>> THEN <<>> ELSE <<delivered[i][1]>>
    BY DEF PartsFiled
  <2> HIDE DEF p
  <2>3. delivered[i] \in Seq(Part)
    BY DEF TypeOK
  <2>4. Append(delivered[i], p) # <<>>
    BY <2>1, <2>3
  <2>5. \A k \in DOMAIN Append(delivered[i], p) :
          Append(delivered[i], p)[k].call = asker[i]
    <3> SUFFICES ASSUME NEW k \in DOMAIN Append(delivered[i], p)
                 PROVE  Append(delivered[i], p)[k].call = asker[i]
      OBVIOUS
    <3>1. \A l \in DOMAIN delivered[i] : delivered[i][l].call = asker[i]
      BY DEF PartsFiled
    <3>2. k \in DOMAIN delivered[i] \/ k = Len(delivered[i]) + 1
      BY <2>1, <2>3
    <3>3. k \in DOMAIN delivered[i] => Append(delivered[i], p)[k] = delivered[i][k]
      BY <2>1, <2>3
    <3>4. Append(delivered[i], p)[Len(delivered[i]) + 1] = p
      BY <2>1, <2>3
    <3> QED
      BY <2>1, <3>1, <3>2, <3>3, <3>4
  <2>6. Filed(i, p) = <<Append(delivered[i], p)[1]>>
    BY <2>1, <2>2, <2>3 DEF Filed
  <2>7. \A j \in Ids : j # i => delivered'[j] = delivered[j]
                                /\ received'[j] = received[j]
    BY <2>1 DEF TypeOK
  <2>8. delivered'[i] = Append(delivered[i], p) /\ received'[i] = Filed(i, p)
    BY <2>1 DEF TypeOK
  <2> QED
    BY <2>1, <2>4, <2>5, <2>6, <2>7, <2>8 DEF PartsFiled
<1>3. CASE UNCHANGED <<asker, delivered, received>>
  BY <1>3 DEF PartsFiled
<1>4. ASSUME NEW c \in Calls,
             SendFails(c) \/ Register(c) \/ OnCloseSignal(c)
      PROVE  UNCHANGED <<asker, delivered, received>>
  BY <1>4 DEF SendFails, Register, OnCloseSignal
<1>5. ASSUME NEW c \in Calls, Walk(c) \/ Stay(c) \/ Leave(c)
      PROVE  UNCHANGED <<asker, delivered, received>>
  BY <1>5, WalkStep, StayStep, LeaveStep DEF filed
<1>6. Aside => UNCHANGED <<asker, delivered, received>>
  BY CloseStep DEF filed
<1>7. UNCHANGED vars => UNCHANGED <<asker, delivered, received>>
  BY DEF vars
<1> QED
  BY <1>1, <1>2, <1>3, <1>4, <1>5, <1>6, <1>7, StepKinds

\* The registry keeps to the calls that wait.
LEMMA RegistryExactStep ==
  TypeOK /\ IdsOwned /\ RegistryExact /\ [Next]_vars => RegistryExact'
<1> SUFFICES ASSUME TypeOK, IdsOwned, RegistryExact, [Next]_vars
             PROVE  RegistryExact'
  OBVIOUS
<1> USE DEF clientVars, flagVars, threadVars, peerVars, callVars
<1>1. ASSUME NEW c \in Calls,
             Moved(c, {"idle"} \cup Unregistered,
                      {"notSent", "sent", "posted"} \cup Unregistered),
             UNCHANGED waiter,
             \A d \in Calls : d # c => msgId'[d] = msgId[d]
      PROVE  RegistryExact'
  <2>1. /\ pc[c] \notin Registered /\ pc'[c] \notin Registered
        /\ \A d \in Calls : d # c => pc'[d] = pc[d]
    BY <1>1 DEF Moved, TypeOK, Unregistered, Registered
  <2>2. \A i \in Ids : waiter[i] # c
    BY <2>1, NotRegistered
  <2>3. ASSUME NEW d \in Calls, pc'[d] \in Registered
        PROVE  waiter'[msgId'[d]] = d
    BY <1>1, <2>1, <2>3 DEF RegistryExact
  <2>4. ASSUME NEW i \in Ids, waiter'[i] # NoCall
        PROVE  pc'[waiter'[i]] \in Registered /\ msgId'[waiter'[i]] = i
    <3>1. waiter'[i] = waiter[i] /\ waiter[i] \in Calls /\ waiter[i] # c
      BY <1>1, <2>2, <2>4 DEF TypeOK
    <3>2. pc[waiter[i]] \in Registered /\ msgId[waiter[i]] = i
      BY <2>4, <3>1 DEF RegistryExact
    <3> QED
      BY <1>1, <2>1, <3>1, <3>2
  <2> QED
    BY <2>3, <2>4 DEF RegistryExact
<1>2. ASSUME NEW c \in Calls, Send(c)
      PROVE  RegistryExact'
  <2>1. Moved(c, {"idle"} \cup Unregistered,
                 {"notSent", "sent", "posted"} \cup Unregistered)
    BY <1>2 DEF Send, Goto, Moved
  <2> QED
    BY <1>1, <1>2, <2>1 DEF Send, TypeOK
<1>3. ASSUME NEW c \in Calls, SendFails(c)
      PROVE  RegistryExact'
  <2>1. Moved(c, {"idle"} \cup Unregistered,
                 {"notSent", "sent", "posted"} \cup Unregistered)
    BY <1>3 DEF SendFails, Goto, Moved
  <2> QED
    BY <1>1, <1>3, <2>1 DEF SendFails
<1>4. ASSUME NEW c \in Calls, Walk(c)
      PROVE  RegistryExact'
  <2>1. Moved(c, {"idle"} \cup Unregistered,
                 {"notSent", "sent", "posted"} \cup Unregistered)
    BY <1>4, WalkStep DEF Moved
  <2> QED
    BY <1>1, <1>4, <2>1, WalkStep DEF filed
<1>5. ASSUME NEW c \in Calls, Register(c)
      PROVE  RegistryExact'
  <2>1. /\ msgId[c] \in Ids
        /\ \A d \in Calls : msgId[d] = msgId[c] => d = c
    BY <1>5, OwnId DEF Register, Goto, InProgress, Unregistered
  <2>2. /\ pc'[c] = "waiting" /\ pc[c] = "registering"
        /\ \A d \in Calls : d # c => pc'[d] = pc[d]
        /\ waiter' = [waiter EXCEPT ![msgId[c]] = c]
        /\ msgId' = msgId
    BY <1>5 DEF Register, Goto, TypeOK
  <2>3. waiter'[msgId[c]] = c /\ \A i \in Ids : i # msgId[c] => waiter'[i] = waiter[i]
    BY <2>1, <2>2 DEF TypeOK
  <2>4. \A i \in Ids : waiter[i] # c
    BY <2>2, NotRegistered DEF Registered
  <2>5. ASSUME NEW d \in Calls, pc'[d] \in Registered
        PROVE  waiter'[msgId'[d]] = d
    <3>1. CASE d = c
      BY <2>2, <2>3, <3>1
    <3>2. CASE d # c
      <4>1. pc[d] \in Registered /\ waiter[msgId[d]] = d /\ msgId[d] # msgId[c]
        BY <2>1, <2>2, <2>5, <3>2 DEF RegistryExact
      <4>2. msgId[d] \in Ids
        BY <4>1, OwnId DEF InProgress, Registered
      <4> QED
        BY <2>2, <2>3, <4>1, <4>2
    <3> QED
      BY <3>1, <3>2
  <2>6. ASSUME NEW i \in Ids, waiter'[i] # NoCall
        PROVE  pc'[waiter'[i]] \in Registered /\ msgId'[waiter'[i]] = i
    BY <2>2, <2>3, <2>4, <2>6 DEF RegistryExact, TypeOK, Registered
  <2> QED
    BY <2>5, <2>6 DEF RegistryExact
<1>6. ASSUME NEW c \in Calls, Stay(c)
      PROVE  RegistryExact'
  <2>1. /\ pc[c] \in Registered /\ pc'[c] \in Registered
        /\ \A d \in Calls : d # c => pc'[d] = pc[d]
        /\ UNCHANGED <<waiter, msgId>>
    BY <1>6, StayStep DEF Moved, TypeOK, filed
  <2>2. \A d \in Calls : pc'[d] \in Registered <=> pc[d] \in Registered
    BY <2>1
  <2>3. \A i \in Ids : waiter[i] # NoCall => waiter[i] \in Calls
    BY DEF TypeOK
  <2> QED
    BY <2>1, <2>2, <2>3 DEF RegistryExact
<1>7. ASSUME NEW c \in Calls, Leave(c)
      PROVE  RegistryExact'
  <2>1. /\ pc[c] \in Registered /\ pc'[c] \notin Registered
        /\ \A d \in Calls : d # c => pc'[d] = pc[d]
        /\ waiter' = [waiter EXCEPT ![msgId[c]] = NoCall]
        /\ msgId' = msgId
    BY <1>7, LeaveStep DEF Moved, Unregister, TypeOK, Registered, Ended
  <2>2. msgId[c] \in Ids /\ \A d \in Calls : msgId[d] = msgId[c] => d = c
    BY <2>1, OwnId DEF InProgress, Registered
  <2>3. /\ waiter'[msgId[c]] = NoCall
        /\ \A i \in Ids : i # msgId[c] => waiter'[i] = waiter[i]
    BY <2>1, <2>2 DEF TypeOK
  <2>4. ASSUME NEW d \in Calls, pc'[d] \in Registered
        PROVE  waiter'[msgId'[d]] = d
    <3>1. d # c /\ pc[d] \in Registered /\ waiter[msgId[d]] = d
      BY <2>1, <2>4 DEF RegistryExact
    <3>2. msgId[d] \in Ids /\ msgId[d] # msgId[c]
      BY <2>2, <3>1, OwnId DEF InProgress, Registered
    <3> QED
      BY <2>1, <2>3, <3>1, <3>2
  <2>5. ASSUME NEW i \in Ids, waiter'[i] # NoCall
        PROVE  pc'[waiter'[i]] \in Registered /\ msgId'[waiter'[i]] = i
    <3>1. i # msgId[c] /\ waiter'[i] = waiter[i] /\ waiter[i] \in Calls
      BY <2>3, <2>5 DEF TypeOK
    <3>2. pc[waiter[i]] \in Registered /\ msgId[waiter[i]] = i
      BY <2>5, <3>1 DEF RegistryExact
    <3> QED
      BY <2>1, <3>1, <3>2
  <2> QED
    BY <2>4, <2>5 DEF RegistryExact
<1>8. CASE UNCHANGED <<pc, msgId, waiter>>
  BY <1>8 DEF RegistryExact
<1>9. ASSUME NEW c \in Calls, OnCloseSignal(c)
      PROVE  UNCHANGED <<pc, msgId, waiter>>
  BY <1>9 DEF OnCloseSignal
<1>10. ASSUME NEW i \in Ids, NEW final \in BOOLEAN, OnMessage(i, final)
       PROVE  UNCHANGED <<pc, msgId, waiter>>
  BY <1>10 DEF OnMessage
<1>11. Aside => UNCHANGED <<pc, msgId, waiter>>
  BY CloseStep DEF filed
<1>12. UNCHANGED vars => UNCHANGED <<pc, msgId, waiter>>
  BY DEF vars
<1> QED
  BY <1>2, <1>3, <1>4, <1>5, <1>6, <1>7, <1>8, <1>9, <1>10, <1>11, <1>12,
     StepKinds

\* The answer stored for a call is the list filed under its id.
LEMMA AnswerFiledStep ==
  TypeOK /\ IdsOwned /\ RegistryExact /\ PartsFiled /\ AnswerFiled /\ [Next]_vars
    => AnswerFiled'
<1> SUFFICES ASSUME TypeOK, IdsOwned, RegistryExact, PartsFiled, AnswerFiled,
                    [Next]_vars
             PROVE  AnswerFiled'
  OBVIOUS
<1> USE DEF clientVars, flagVars, threadVars, peerVars, callVars
<1>1. ASSUME NEW c \in Calls, UNCHANGED received,
             answer' = [answer EXCEPT ![msgId[c]] = <<>>]
      PROVE  AnswerFiled'
  BY <1>1 DEF AnswerFiled, TypeOK
<1>2. ASSUME NEW c \in Calls, Register(c) \/ Leave(c)
      PROVE  AnswerFiled'
  <2>1. UNCHANGED received /\ answer' = [answer EXCEPT ![msgId[c]] = <<>>]
    BY <1>2, LeaveStep DEF Register, Unregister
  <2> QED
    BY <1>1, <2>1
<1>3. ASSUME NEW i \in Ids, NEW final \in BOOLEAN, OnMessage(i, final)
      PROVE  AnswerFiled'
  <2> DEFINE p == NextPart(i, final)
  <2>1. /\ received' = [received EXCEPT ![i] = Filed(i, p)]
        /\ \/ answer' = [answer EXCEPT ![i] = Filed(i, p)]
           \/ waiter[i] = NoCall /\ UNCHANGED answer
    BY <1>3 DEF OnMessage
  <2>2. received[i] # <<>> => Filed(i, p) = received[i]
    BY DEF Filed
  <2> HIDE DEF p
  <2>3. ASSUME NEW j \in Ids PROVE answer'[j] \in {<<>>, received'[j]}
    <3>1. CASE j # i
      BY <2>1, <3>1 DEF AnswerFiled, TypeOK
    <3>2. CASE j = i
      <4>1. answer[i] \in {<<>>, received[i]}
        BY DEF AnswerFiled
      <4> QED
        BY <2>1, <2>2, <3>2, <4>1 DEF TypeOK
    <3> QED
      BY <3>1, <3>2
  <2> QED
    BY <2>3 DEF AnswerFiled
<1>4. CASE UNCHANGED <<answer, received>>
  BY <1>4 DEF AnswerFiled
<1>5. ASSUME NEW c \in Calls, \/ Send(c) \/ SendFails(c) \/ OnCloseSignal(c)
                              \/ Walk(c) \/ Stay(c)
      PROVE  UNCHANGED <<answer, received>>
  BY <1>5, WalkStep, StayStep DEF Send, SendFails, OnCloseSignal, filed
<1>6. Aside => UNCHANGED <<answer, received>>
  BY CloseStep DEF filed
<1>7. UNCHANGED vars => UNCHANGED <<answer, received>>
  BY DEF vars
<1> QED
  BY <1>2, <1>3, <1>4, <1>5, <1>6, <1>7, StepKinds

\* on_close() announces the end before it sets an event; only its own steps
\* and stop() touch the flags, and nothing takes them back.
LEMMA FlagsStep ==
  CloseTold /\ [Next]_vars =>
    /\ CloseTold'
    /\ closed => closed'
    /\ stopEvent => stopEvent'
<1> SUFFICES ASSUME CloseTold, [Next]_vars
             PROVE  CloseTold' /\ (closed => closed') /\ (stopEvent => stopEvent')
  OBVIOUS
<1> USE DEF CloseTold, clientVars, flagVars, threadVars, peerVars, callVars
<1>1. ASSUME NEW c \in Calls, \/ Send(c) \/ SendFails(c) \/ Register(c)
                              \/ Walk(c) \/ Stay(c) \/ Leave(c)
      PROVE  UNCHANGED <<flagVars, threadVars>>
  BY <1>1 DEF Send, SendFails, Register, Walk, LookForSet, CreateSet, AddEvent,
              Stay, Wake, Expire, CheckClosed, Leave, GiveUp, CloseOut, Return
<1>2. ASSUME NEW i \in Ids, NEW final \in BOOLEAN, OnMessage(i, final)
      PROVE  UNCHANGED <<flagVars, threadVars>>
  BY <1>2 DEF OnMessage
<1>3. ASSUME NEW c \in Calls, OnCloseSignal(c)
      PROVE  CloseTold' /\ (closed => closed') /\ (stopEvent => stopEvent')
  BY <1>3 DEF OnCloseSignal
<1>4. ASSUME Aside
      PROVE  CloseTold' /\ (closed => closed') /\ (stopEvent => stopEvent')
  BY <1>4 DEF Aside, LinkLost, RequestStop, OnCloseFlag, OnCloseStopEvent,
              OnCloseSnapshot, OnCloseDone
<1>5. UNCHANGED vars => UNCHANGED <<flagVars, threadVars>>
  BY DEF vars
<1> QED
  BY <1>1, <1>2, <1>3, <1>4, <1>5, StepKinds

\* The event of a call is never cleared, and a filed answer stays filed for as
\* long as its call is registered.
LEMMA AnswerKept ==
  ASSUME TypeOK, IdsOwned, RegistryExact, [Next]_vars,
         NEW d \in Calls, pc[d] \in Registered, pc'[d] \in Registered
  PROVE  /\ msgId'[d] = msgId[d]
         /\ event[d] => event'[d]
         /\ answer'[msgId[d]] = <<>> => answer[msgId[d]] = <<>>
         /\ answer[msgId[d]] = <<>> /\ answer'[msgId[d]] # <<>> => event'[d]
<1> USE DEF clientVars, flagVars, threadVars, peerVars, callVars
<1>1. /\ msgId[d] \in Ids
      /\ \A c \in Calls : msgId[c] = msgId[d] => c = d
      /\ waiter[msgId[d]] = d
  BY OwnId DEF InProgress, Registered, RegistryExact
<1>2. CASE UNCHANGED <<msgId, event, answer>>
  BY <1>2
<1>3. ASSUME NEW c \in Calls, Send(c)
      PROVE  msgId'[d] = msgId[d] /\ UNCHANGED <<event, answer>>
  BY <1>3 DEF Send, Goto, Registered, TypeOK
<1>4. ASSUME NEW c \in Calls, SendFails(c) \/ Walk(c) \/ Stay(c)
      PROVE  UNCHANGED <<msgId, event, answer>>
  BY <1>4, WalkStep, StayStep DEF SendFails, filed
<1>5. ASSUME NEW c \in Calls, Register(c) \/ Leave(c)
      PROVE  UNCHANGED <<msgId, event>> /\ answer'[msgId[d]] = answer[msgId[d]]
  <2>1. /\ UNCHANGED <<msgId, event>>
        /\ answer' = [answer EXCEPT ![msgId[c]] = <<>>]
    BY <1>5, LeaveStep DEF Register, Unregister
  <2>2. c # d
    <3>1. CASE Register(c)
      BY <3>1 DEF Register, Goto, Registered
    <3>2. CASE Leave(c)
      <4>1. pc'[c] \in Ended
        BY <3>2, LeaveStep DEF Moved, TypeOK
      <4> QED
        BY <4>1 DEF Registered, Ended
    <3> QED
      BY <1>5, <3>1, <3>2
  <2> QED
    BY <1>1, <2>1, <2>2 DEF TypeOK
<1>6. ASSUME NEW c \in Calls, OnCloseSignal(c)
      PROVE  UNCHANGED <<msgId, answer>> /\ (event[d] => event'[d])
  BY <1>6 DEF OnCloseSignal, TypeOK
<1>7. ASSUME NEW i \in Ids, NEW final \in BOOLEAN, OnMessage(i, final)
      PROVE  /\ UNCHANGED msgId
             /\ event[d] => event'[d]
             /\ answer'[msgId[d]] = <<>> => answer[msgId[d]] = <<>>
             /\ answer[msgId[d]] = <<>> /\ answer'[msgId[d]] # <<>> => event'[d]
  <2> DEFINE p == NextPart(i, final)
  <2>1. /\ UNCHANGED msgId
        /\ \/ /\ answer' = [answer EXCEPT ![i] = Filed(i, p)]
              /\ event' = [event EXCEPT ![waiter[i]] = TRUE]
           \/ UNCHANGED <<answer, event>>
        /\ Filed(i, p) # <<>>
    BY <1>7 DEF OnMessage, Filed
  <2> HIDE DEF p
  <2>2. CASE UNCHANGED <<answer, event>>
    BY <2>1, <2>2
  <2>3. CASE /\ answer' = [answer EXCEPT ![i] = Filed(i, p)]
             /\ event' = [event EXCEPT ![waiter[i]] = TRUE]
    <3>1. event[d] => event'[d]
      BY <2>3 DEF TypeOK
    <3>2. CASE i = msgId[d]
      BY <1>1, <2>1, <2>3, <3>1, <3>2 DEF TypeOK
    <3>3. CASE i # msgId[d]
      BY <1>1, <2>1, <2>3, <3>1, <3>3 DEF TypeOK
    <3> QED
      BY <3>2, <3>3
  <2> QED
    BY <2>1, <2>2, <2>3
<1>8. Aside => UNCHANGED <<msgId, event, answer>>
  BY CloseStep DEF filed
<1>9. UNCHANGED vars => UNCHANGED <<msgId, event, answer>>
  BY DEF vars
<1> QED
  BY <1>2, <1>3, <1>4, <1>5, <1>6, <1>7, <1>8, <1>9, StepKinds

\* The order of the steps of send_and_wait(), and what each has just seen.
LEMMA PcStep ==
  ASSUME TypeOK, [Next]_vars, NEW d \in Calls
  PROVE  /\ pc[d] \in Registered => pc'[d] \in Registered \cup Ended
         /\ pc[d] \in Ended => pc'[d] = pc[d]
         /\ pc'[d] = "waiting" => pc[d] = "waiting" \/ Register(d)
         /\ pc'[d] \in {"woken", "interrupted", "answering"} =>
              \/ pc[d] \in {"woken", "interrupted", "answering"}
              \/ pc[d] = "waiting" /\ event[d]
         /\ pc'[d] \in {"interrupted", "closedOut"} =>
              pc[d] \in {"interrupted", "closedOut"} \/ closed \/ stopEvent
         /\ pc'[d] = "answering" =>
              pc[d] = "answering" \/ (pc[d] = "woken" /\ ~closed)
         /\ pc'[d] = "answered" => pc[d] = "answered" \/ Return(d)
<1>1. CASE pc'[d] = pc[d]
  BY <1>1
<1> USE DEF Registered, Ended
<1>2. ASSUME NEW c \in Calls, \/ Send(c) \/ SendFails(c) \/ Walk(c)
                              \/ Register(c) \/ Stay(c) \/ Leave(c)
      PROVE  \E x : pc' = [pc EXCEPT ![c] = x]
  BY <1>2, WalkStep, StayStep, LeaveStep
     DEF Send, SendFails, Register, Goto, Moved
<1>3. CASE Send(d)
  BY <1>3 DEF Send, Goto, TypeOK
<1>4. CASE SendFails(d)
  BY <1>4 DEF SendFails, Goto, TypeOK
<1>5. CASE Walk(d)
  BY <1>5, WalkStep DEF Moved, TypeOK, Unregistered
<1>6. CASE Register(d)
  BY <1>6 DEF Register, Goto, TypeOK
<1>7. CASE Stay(d)
  BY <1>7 DEF Stay, Wake, Expire, CheckClosed, Goto, TypeOK
<1>8. CASE Leave(d)
  BY <1>8 DEF Leave, GiveUp, CloseOut, Return, Goto, TypeOK
<1>9. ASSUME NEW c \in Calls, OnCloseSignal(c)
      PROVE  pc' = pc
  BY <1>9 DEF OnCloseSignal, callVars
<1>10. ASSUME NEW i \in Ids, NEW final \in BOOLEAN, OnMessage(i, final)
       PROVE  pc' = pc
  BY <1>10 DEF OnMessage, callVars
<1>11. Aside => pc' = pc
  BY CloseStep
<1>12. UNCHANGED vars => pc' = pc
  BY DEF vars, callVars
<1>13. ASSUME NEW c \in Calls, c # d, \E x : pc' = [pc EXCEPT ![c] = x]
       PROVE  pc'[d] = pc[d]
  BY <1>13 DEF TypeOK
<1> HIDE DEF Registered, Ended
<1> QED
  BY <1>1, <1>2, <1>3, <1>4, <1>5, <1>6, <1>7, <1>8, <1>9, <1>10, <1>11,
     <1>12, <1>13, StepKinds

\* An event is set by an answer filed for a registered call, or by on_close().
LEMMA EventStep ==
  ASSUME TypeOK, IdsOwned, RegistryExact, CloseTold, [Next]_vars,
         NEW d \in Calls, event'[d]
  PROVE  \/ event[d]
         \/ closed'
         \/ pc[d] \in Registered /\ pc' = pc /\ answer'[msgId[d]] # <<>>
<1> USE DEF clientVars, flagVars, threadVars, peerVars, callVars
<1>1. ASSUME NEW c \in Calls, \/ Send(c) \/ SendFails(c) \/ Walk(c)
                              \/ Register(c) \/ Stay(c) \/ Leave(c)
      PROVE  event' = event
  BY <1>1, WalkStep, StayStep, LeaveStep DEF Send, SendFails, Register
<1>2. ASSUME NEW c \in Calls, OnCloseSignal(c)
      PROVE  closed'
  BY <1>2 DEF OnCloseSignal, CloseTold
<1>3. ASSUME NEW i \in Ids, NEW final \in BOOLEAN, OnMessage(i, final),
             ~event[d]
      PROVE  pc[d] \in Registered /\ pc' = pc /\ answer'[msgId[d]] # <<>>
  <2> DEFINE p == NextPart(i, final)
  <2>1. /\ pc' = pc
        /\ \/ /\ waiter[i] # NoCall
              /\ answer' = [answer EXCEPT ![i] = Filed(i, p)]
              /\ event' = [event EXCEPT ![waiter[i]] = TRUE]
           \/ UNCHANGED event
        /\ Filed(i, p) # <<>>
    BY <1>3 DEF OnMessage, Filed
  <2> HIDE DEF p
  <2>2. /\ waiter[i] = d
        /\ answer' = [answer EXCEPT ![i] = Filed(i, p)]
    BY <1>3, <2>1 DEF TypeOK
  <2>3. pc[d] \in Registered /\ msgId[d] = i
    BY <2>2, CallsAssumption DEF RegistryExact
  <2> QED
    BY <2>1, <2>2, <2>3 DEF TypeOK
<1>4. Aside => event' = event
  BY CloseStep
<1>5. UNCHANGED vars => event' = event
  BY DEF vars
<1> QED
  BY <1>1, <1>2, <1>3, <1>4, <1>5, StepKinds

\* An event is set for an answer or for the end of the connection.
LEMMA EventMeaningStep ==
  /\ TypeOK /\ IdsOwned /\ RegistryExact /\ CloseTold /\ EventMeaning
  /\ [Next]_vars
  => EventMeaning'
<1> SUFFICES ASSUME TypeOK, IdsOwned, RegistryExact, CloseTold, EventMeaning,
                    [Next]_vars, NEW d \in Calls
             PROVE  /\ event'[d] =>
                         \/ closed'
                         \/ pc'[d] \in Registered /\ answer'[msgId'[d]] # <<>>
                         \/ pc'[d] \in Ended
                    /\ pc'[d] \in {"woken", "interrupted", "answering"}
                         => event'[d]
  BY DEF EventMeaning
<1>1. ASSUME event'[d], ~closed', pc'[d] \notin Ended
      PROVE  pc'[d] \in Registered /\ answer'[msgId'[d]] # <<>>
  <2>1. ~closed
    BY <1>1, FlagsStep
  <2>2. CASE event[d]
    <3>1. pc[d] \notin Ended
      BY <1>1, PcStep
    <3>2. pc[d] \in Registered /\ answer[msgId[d]] # <<>>
      BY <2>1, <2>2, <3>1 DEF EventMeaning
    <3>3. pc'[d] \in Registered
      BY <1>1, <3>2, PcStep
    <3> QED
      BY <3>2, <3>3, AnswerKept
  <2>3. CASE ~event[d]
    <3>1. pc[d] \in Registered /\ pc' = pc /\ answer'[msgId[d]] # <<>>
      BY <1>1, <2>3, EventStep
    <3> QED
      BY <3>1, AnswerKept
  <2> QED
    BY <2>2, <2>3
<1>2. ASSUME pc'[d] \in {"woken", "interrupted", "answering"}
      PROVE  event'[d]
  <2>1. event[d] /\ pc[d] \in Registered
    BY <1>2, PcStep DEF EventMeaning, Registered
  <2> QED
    BY <1>2, <2>1, AnswerKept DEF Registered
<1> QED
  BY <1>1, <1>2

\* A call is told to go without its answer only when the session goes down.
LEMMA WokenForAReasonStep ==
  /\ TypeOK /\ IdsOwned /\ RegistryExact /\ CloseTold /\ EventMeaning
  /\ WokenForAReason /\ [Next]_vars
  => WokenForAReason'
<1> SUFFICES ASSUME TypeOK, IdsOwned, RegistryExact, CloseTold, EventMeaning,
                    WokenForAReason, [Next]_vars, NEW d \in Calls
             PROVE  /\ pc'[d] \in {"interrupted", "closedOut"}
                         => closed' \/ stopEvent'
                    /\ pc'[d] = "answering" => answer'[msgId'[d]] # <<>>
  BY DEF WokenForAReason
<1>1. ASSUME pc'[d] \in {"interrupted", "closedOut"}
      PROVE  closed' \/ stopEvent'
  BY <1>1, PcStep, FlagsStep DEF WokenForAReason
<1>2. ASSUME pc'[d] = "answering"
      PROVE  answer'[msgId'[d]] # <<>>
  <2>1. pc[d] \in Registered /\ answer[msgId[d]] # <<>>
    <3>1. CASE pc[d] = "answering"
      BY <3>1 DEF WokenForAReason, Registered
    <3>2. CASE pc[d] = "woken" /\ ~closed
      BY <3>2 DEF EventMeaning, Registered, Ended
    <3> QED
      BY <1>2, <3>1, <3>2, PcStep
  <2> QED
    BY <1>2, <2>1, AnswerKept DEF Registered
<1> QED
  BY <1>1, <1>2

\* No wake-up is lost.
LEMMA NoLostWakeupStep ==
  TypeOK /\ IdsOwned /\ RegistryExact /\ NoLostWakeup /\ [Next]_vars
    => NoLostWakeup'
<1> SUFFICES ASSUME TypeOK, IdsOwned, RegistryExact, NoLostWakeup,
                    [Next]_vars, NEW d \in Calls,
                    pc'[d] = "waiting", answer'[msgId'[d]] # <<>>
             PROVE  event'[d]
  BY DEF NoLostWakeup
<1>1. CASE Register(d)
  <2>1. msgId[d] \in Ids
    BY <1>1, OwnId DEF Register, Goto, InProgress, Unregistered
  <2> QED
    BY <1>1, <2>1 DEF Register, TypeOK
<1>2. CASE pc[d] = "waiting"
  BY <1>2, AnswerKept DEF NoLostWakeup, Registered
<1> QED
  BY <1>1, <1>2, PcStep

\* No call leaves its event behind in _connection_closed_events.
LEMMA NoStaleEventsStep ==
  TypeOK /\ NoStaleEvents /\ [Next]_vars => NoStaleEvents'
<1> SUFFICES ASSUME TypeOK, NoStaleEvents, [Next]_vars PROVE NoStaleEvents'
  OBVIOUS
<1> USE DEF clientVars, flagVars, threadVars, peerVars, callVars
<1>1. ASSUME NEW c \in Calls, NEW From, NEW To, Moved(c, From, To),
             To \subseteq Announced \/ From \cap Announced = {},
             UNCHANGED closedEvents
      PROVE  NoStaleEvents'
  BY <1>1 DEF NoStaleEvents, Moved, TypeOK
<1>2. ASSUME NEW c \in Calls, Send(c) \/ SendFails(c)
      PROVE  NoStaleEvents'
  <2>1. Moved(c, {"idle"}, {"posted", "sent", "notSent"})
    BY <1>2 DEF Send, SendFails, Goto, Moved
  <2>2. {"idle"} \cap Announced = {}
    BY DEF Announced, Registered
  <2> QED
    BY <1>1, <1>2, <2>1, <2>2 DEF Send, SendFails
<1>3. ASSUME NEW c \in Calls, Walk(c)
      PROVE  NoStaleEvents'
  <2>1. CASE LookForSet(c)
    <3>1. Moved(c, {"sent"}, {"adding", "creating"})
      BY <2>1 DEF LookForSet, Goto, Moved
    <3>2. {"sent"} \cap Announced = {}
      BY DEF Announced, Registered
    <3> QED
      BY <1>1, <2>1, <3>1, <3>2 DEF LookForSet
  <2>2. CASE CreateSet(c)
    BY <2>2 DEF CreateSet, NoStaleEvents
  <2>3. CASE AddEvent(c)
    BY <2>3 DEF AddEvent, Goto, NoStaleEvents, Announced, TypeOK
  <2> QED
    BY <1>3, <2>1, <2>2, <2>3 DEF Walk
<1>4. ASSUME NEW c \in Calls, Register(c) \/ Stay(c)
      PROVE  NoStaleEvents'
  <2>1. Moved(c, {"registering"} \cup Registered, Registered)
    BY <1>4, StayStep DEF Register, Goto, Moved, Registered
  <2>2. Registered \subseteq Announced
    BY DEF Announced
  <2>3. UNCHANGED closedEvents
    BY <1>4 DEF Register, Stay, Wake, Expire, CheckClosed
  <2> QED
    BY <1>1, <2>1, <2>2, <2>3
<1>5. ASSUME NEW c \in Calls, Leave(c)
      PROVE  NoStaleEvents'
  <2>1. /\ closedEvents' = closedEvents \ {c}
        /\ \A d \in Calls : d # c => pc'[d] = pc[d]
    BY <1>5, LeaveStep DEF Unregister, Moved, TypeOK
  <2> QED
    BY <2>1 DEF NoStaleEvents, TypeOK
<1>6. CASE UNCHANGED <<pc, closedEvents>>
  BY <1>6 DEF NoStaleEvents
<1>7. ASSUME NEW c \in Calls, OnCloseSignal(c)
      PROVE  UNCHANGED <<pc, closedEvents>>
  BY <1>7 DEF OnCloseSignal
<1>8. ASSUME NEW i \in Ids, NEW final \in BOOLEAN, OnMessage(i, final)
      PROVE  UNCHANGED <<pc, closedEvents>>
  BY <1>8 DEF OnMessage
<1>9. Aside => UNCHANGED <<pc, closedEvents>>
  BY DEF Aside, LinkLost, RequestStop, OnCloseFlag, OnCloseStopEvent,
         OnCloseSnapshot, OnCloseDone
<1>10. UNCHANGED vars => UNCHANGED <<pc, closedEvents>>
  BY DEF vars
<1> QED
  BY <1>2, <1>3, <1>4, <1>5, <1>6, <1>7, <1>8, <1>9, <1>10, StepKinds

\* What the client has filed under an id is never replaced.
LEMMA ReceivedKept ==
  ASSUME TypeOK, [Next]_vars, NEW i \in Ids, received[i] # <<>>
  PROVE  received'[i] = received[i]
<1> USE DEF clientVars, flagVars, threadVars, peerVars, callVars
<1>1. ASSUME NEW j \in Ids, NEW final \in BOOLEAN, OnMessage(j, final)
      PROVE  received'[i] = received[i]
  <2>1. received' = [received EXCEPT ![j] = Filed(j, NextPart(j, final))]
    BY <1>1 DEF OnMessage
  <2>2. received[j] # <<>> => Filed(j, NextPart(j, final)) = received[j]
    BY DEF Filed
  <2> QED
    BY <2>1, <2>2 DEF TypeOK
<1>2. ASSUME NEW c \in Calls,
             \/ Send(c) \/ SendFails(c) \/ Walk(c) \/ Register(c)
             \/ Stay(c) \/ Leave(c) \/ OnCloseSignal(c)
      PROVE  received' = received
  BY <1>2, WalkStep, StayStep, LeaveStep
     DEF Send, SendFails, Register, OnCloseSignal, filed
<1>3. Aside => received' = received
  BY CloseStep DEF filed
<1>4. UNCHANGED vars => received' = received
  BY DEF vars
<1> QED
  BY <1>1, <1>2, <1>3, <1>4, StepKinds

\* A call returns the list that is filed under its id.
LEMMA ResultFiledStep ==
  /\ TypeOK /\ IdsOwned /\ AnswerFiled /\ WokenForAReason /\ ResultFiled
  /\ [Next]_vars
  => ResultFiled'
<1> SUFFICES ASSUME TypeOK, IdsOwned, AnswerFiled, WokenForAReason,
                    ResultFiled, [Next]_vars, NEW d \in Calls
             PROVE  IF pc'[d] = "answered"
                      THEN result'[d] # <<>> /\ result'[d] = received'[msgId'[d]]
                      ELSE result'[d] = <<>>
  BY DEF ResultFiled
<1> USE DEF clientVars, flagVars, threadVars, peerVars, callVars
<1>1. CASE Return(d)
  <2>1. pc[d] = "answering" /\ msgId[d] \in Ids
    BY <1>1, OwnId DEF Return, Goto, InProgress, Registered
  <2>2. /\ pc'[d] = "answered" /\ result'[d] = answer[msgId[d]]
        /\ UNCHANGED <<msgId, received>>
    BY <1>1 DEF Return, Goto, TypeOK
  <2>3. answer[msgId[d]] # <<>> /\ answer[msgId[d]] = received[msgId[d]]
    BY <2>1 DEF WokenForAReason, AnswerFiled
  <2> QED
    BY <2>2, <2>3
<1>2. ASSUME ~Return(d)
      PROVE  result'[d] = result[d]
  <2>1. ASSUME NEW c \in Calls, Return(c)
        PROVE  result'[d] = result[d]
    BY <1>2, <2>1 DEF Return, TypeOK
  <2>2. ASSUME NEW c \in Calls, GiveUp(c) \/ CloseOut(c)
        PROVE  result' = result
    BY <2>2 DEF GiveUp, CloseOut
  <2>3. ASSUME NEW c \in Calls,
               \/ Send(c) \/ SendFails(c) \/ Walk(c) \/ Register(c)
               \/ Stay(c) \/ OnCloseSignal(c)
        PROVE  result' = result
    BY <2>3, WalkStep, StayStep DEF Send, SendFails, Register, OnCloseSignal
  <2>4. ASSUME NEW i \in Ids, NEW final \in BOOLEAN, OnMessage(i, final)
        PROVE  result' = result
    BY <2>4 DEF OnMessage
  <2>5. Aside => result' = result
    BY CloseStep
  <2>6. UNCHANGED vars => result' = result
    BY DEF vars
  <2> QED
    BY <2>1, <2>2, <2>3, <2>4, <2>5, <2>6, StepKinds DEF Leave
<1>3. CASE ~Return(d) /\ pc[d] = "answered"
  <2>1. pc'[d] = "answered"
    BY <1>3, PcStep DEF Ended
  <2>2. msgId[d] \in Ids /\ msgId'[d] = msgId[d]
    <3>1. msgId[d] \in Ids
      BY <1>3, OwnId DEF Ended
    <3>2. ASSUME NEW c \in Calls, Send(c)
          PROVE  msgId'[d] = msgId[d]
      BY <1>3, <3>2 DEF Send, Goto, TypeOK
    <3>3. ASSUME NEW c \in Calls,
                 \/ SendFails(c) \/ Walk(c) \/ Register(c)
                 \/ Stay(c) \/ Leave(c) \/ OnCloseSignal(c)
          PROVE  msgId' = msgId
      BY <3>3, WalkStep, StayStep, LeaveStep
         DEF SendFails, Register, OnCloseSignal, filed
    <3>4. ASSUME NEW i \in Ids, NEW final \in BOOLEAN, OnMessage(i, final)
          PROVE  msgId' = msgId
      BY <3>4 DEF OnMessage
    <3>5. Aside => msgId' = msgId
      BY CloseStep DEF filed
    <3>6. UNCHANGED vars => msgId' = msgId
      BY DEF vars
    <3> QED
      BY <3>1, <3>2, <3>3, <3>4, <3>5, <3>6, StepKinds
  <2>3. result[d] # <<>> /\ result[d] = received[msgId[d]]
    BY <1>3 DEF ResultFiled
  <2>4. received'[msgId[d]] = received[msgId[d]]
    BY <2>2, <2>3, ReceivedKept
  <2> QED
    BY <1>2, <1>3, <2>1, <2>2, <2>3, <2>4
<1>4. CASE ~Return(d) /\ pc[d] # "answered"
  <2>1. pc'[d] # "answered"
    BY <1>4, PcStep
  <2>2. result[d] = <<>>
    BY <1>4 DEF ResultFiled
  <2> QED
    BY <1>2, <1>4, <2>1, <2>2
<1> QED
  BY <1>1, <1>3, <1>4

-----------------------------------------------------------------------------
(***************************************************************************)
(* The theorems.                                                           *)
(***************************************************************************)

\* The invariant holds when the connection has just been made.
LEMMA IInvInit == Init => IInv
<1> SUFFICES ASSUME Init PROVE IInv
  OBVIOUS
<1> USE CallsAssumption
<1>1. TypeOK
  <2>1. <<>> \in Seq(Part)
    OBVIOUS
  <2>2. /\ msgId \in [Calls -> 0..MaxId]
        /\ nextId \in 1..(MaxId + 1)
    BY DEF Init
  <2>3. /\ pc \in [Calls -> {"idle"} \cup InProgress \cup Ended]
        /\ event \in [Calls -> BOOLEAN]
        /\ waiter \in [Ids -> Calls \cup {NoCall}]
        /\ asker \in [Ids -> Calls \cup {NoCall}]
    BY DEF Init
  <2>4. /\ result \in [Calls -> Seq(Part)]
        /\ answer \in [Ids -> Seq(Part)]
        /\ received \in [Ids -> Seq(Part)]
        /\ delivered \in [Ids -> Seq(Part)]
    BY <2>1 DEF Init
  <2>5. /\ hasSet \in BOOLEAN /\ closed \in BOOLEAN /\ stopEvent \in BOOLEAN
        /\ closedEvents \subseteq Calls /\ toSignal \subseteq Calls
        /\ closing \in {"no", "flagged", "stopped", "signalling", "done"}
        /\ link \in {"up", "down"}
    BY DEF Init
  <2> QED
    BY <2>2, <2>3, <2>4, <2>5 DEF TypeOK
<1>2. IdsOwned
  BY DEF Init, IdsOwned
<1>3. PartsFiled
  BY DEF Init, PartsFiled
<1>4. RegistryExact /\ AnswerFiled /\ CloseTold
  BY DEF Init, RegistryExact, AnswerFiled, CloseTold, Registered
<1>5. EventMeaning /\ WokenForAReason /\ NoLostWakeup
  BY DEF Init, EventMeaning, WokenForAReason, NoLostWakeup
<1>6. NoStaleEvents /\ ResultFiled
  BY DEF Init, NoStaleEvents, ResultFiled
<1> QED
  BY <1>1, <1>2, <1>3, <1>4, <1>5, <1>6 DEF IInv

\* Every step preserves it.
LEMMA IInvStep == IInv /\ [Next]_vars => IInv'
BY TypeOKStep, IdsOwnedStep, PartsFiledStep, RegistryExactStep,
   AnswerFiledStep, FlagsStep, EventMeaningStep, WokenForAReasonStep,
   NoLostWakeupStep, NoStaleEventsStep, ResultFiledStep, Zenon
   DEF IInv

\* The correlation of calls and answers keeps its inductive invariant.
THEOREM Inductive == Spec => []IInv
BY IInvInit, IInvStep, PTL DEF Spec

\* Every variable of the client, its threads and its peer keeps its type.
THEOREM TypeCorrect == Spec => []TypeOK
<1>1. IInv => TypeOK
  BY DEF IInv
<1> QED
  BY <1>1, Inductive, PTL

\* A filed list is the beginning of what the peer sent under that id.
LEMMA FiledIsPrefix ==
  ASSUME TypeOK, PartsFiled, NEW i \in Ids, received[i] # <<>>
  PROVE  /\ delivered[i] # <<>>
         /\ received[i] = <<delivered[i][1]>>
         /\ IsPrefix(received[i], delivered[i])
         /\ \A k \in DOMAIN received[i] : received[i][k].call = asker[i]
<1>1. delivered[i] \in Seq(Part) /\ delivered[i] # <<>>
      /\ received[i] = <<delivered[i][1]>>
  BY DEF PartsFiled, TypeOK
<1>2. 1 \in DOMAIN delivered[i] /\ delivered[i][1] \in Part
  BY <1>1
<1>3. SubSeq(delivered[i], 1, 1) = <<delivered[i][1]>>
  <2>1. \A k \in 1..1 : delivered[i][k] \in Part
    BY <1>2
  <2>2. /\ SubSeq(delivered[i], 1, 1) \in Seq(Part)
        /\ Len(SubSeq(delivered[i], 1, 1)) = 1
        /\ SubSeq(delivered[i], 1, 1)[1] = delivered[i][1]
    BY <2>1, SubSeqProperties
  <2> DEFINE first == SubSeq(delivered[i], 1, 1)
             only  == <<delivered[i][1]>>
  <2>3. only \in Seq(Part) /\ Len(only) = 1 /\ only[1] = delivered[i][1]
    BY <1>2
  <2>4. /\ first \in Seq(Part) /\ Len(first) = Len(only)
        /\ \A k \in 1..Len(first) : first[k] = only[k]
    BY <2>2, <2>3
  <2> HIDE DEF first, only
  <2>5. first = only
    BY <2>3, <2>4, SeqEqual
  <2> QED
    BY <2>5 DEF first, only
<1>4. IsPrefix(received[i], delivered[i])
  BY <1>1, <1>2, <1>3 DEF IsPrefix
<1>5. \A k \in DOMAIN received[i] : received[i][k].call = asker[i]
  BY <1>1, <1>2 DEF PartsFiled
<1> QED
  BY <1>1, <1>4, <1>5

\* send_and_wait() never returns an empty list nor the answer of another call,
\* whatever the callers, the peer, the timeouts and the close of the connection
\* do.
THEOREM AnswersAreOwn == Spec => []OwnAnswer
<1>1. IInv => OwnAnswer
  <2> SUFFICES ASSUME IInv, NEW c \in Calls, pc[c] = "answered"
               PROVE  /\ result[c] # <<>>
                      /\ IsPrefix(result[c], delivered[msgId[c]])
                      /\ \A k \in DOMAIN result[c] : result[c][k].call = c
    BY DEF OwnAnswer
  <2>1. TypeOK /\ IdsOwned /\ PartsFiled /\ ResultFiled
    BY DEF IInv
  <2>2. msgId[c] \in Ids /\ asker[msgId[c]] = c
    BY <2>1, OwnId DEF Ended
  <2>3. result[c] # <<>> /\ result[c] = received[msgId[c]]
    BY <2>1 DEF ResultFiled
  <2> QED
    BY <2>1, <2>2, <2>3, FiledIsPrefix
<1> QED
  BY <1>1, Inductive, PTL

\* pending_requests holds exactly the calls that wait.
THEOREM RegistryIsExact == Spec => []RegistryExact
<1>1. IInv => RegistryExact
  BY DEF IInv
<1> QED
  BY <1>1, Inductive, PTL

\* No wake-up is lost: the event of a waiting call is set as soon as its answer
\* is filed in its registration.
THEOREM WakeupsAreKept == Spec => []NoLostWakeup
<1>1. IInv => NoLostWakeup
  BY DEF IInv
<1> QED
  BY <1>1, Inductive, PTL

\* A call goes without its answer only when the session goes down.
THEOREM RefusalsHaveAReason == Spec => []WokenForAReason
<1>1. IInv => WokenForAReason
  BY DEF IInv
<1> QED
  BY <1>1, Inductive, PTL

\* A call that has ended has left nothing in _connection_closed_events.
THEOREM EventsAreDiscarded == Spec => []NoStaleEvents
<1>1. IInv => NoStaleEvents
  BY DEF IInv
<1> QED
  BY <1>1, Inductive, PTL

-----------------------------------------------------------------------------
(***************************************************************************)
(* on_close() and the callers it must signal.                              *)
(***************************************************************************)

\* Who makes _connection_closed_events throws no event away: of first calls at
\* the same time, none makes the set after another has put its event into it.
NoneThrownAway ==
  [][\A c \in Calls : CreateSet(c) => closedEvents = {}]_vars

\* Then the set exists when a call puts its event into it, and holds the event
\* from before the call registers until after it has left.
Collected ==
  /\ \A c \in Calls : pc[c] \in {"adding"} \cup Announced => hasSet
  /\ \A c \in Calls : pc[c] \in Announced => c \in closedEvents

\* The control states of the calls: what these steps need of TypeOK.
PlacesTyped == pc \in [Calls -> {"idle"} \cup InProgress \cup Ended]

\* No step of a caller or of the WebSocket thread takes an event out of it early.
LEMMA CollectedStep ==
  ASSUME PlacesTyped, Collected, [Next]_vars,
         [\A c \in Calls : CreateSet(c) => closedEvents = {}]_vars
  PROVE  Collected'
<1> USE DEF clientVars, flagVars, threadVars, peerVars, callVars
<1>1. ASSUME NEW c \in Calls, NEW to, UNCHANGED hasSet,
             pc' = [pc EXCEPT ![c] = to],
             to \in {"adding"} \cup Announced => hasSet,
             \A d \in closedEvents : d # c => d \in closedEvents',
             to \in Announced => c \in closedEvents'
      PROVE  Collected'
  BY <1>1 DEF Collected, PlacesTyped
<1>2. ASSUME NEW c \in Calls, Send(c) \/ SendFails(c)
      PROVE  Collected'
  BY <1>1, <1>2 DEF Send, SendFails, Goto, Announced, Registered
<1>3. ASSUME NEW c \in Calls, LookForSet(c)
      PROVE  Collected'
  BY <1>1, <1>3 DEF LookForSet, Goto, Announced, Registered
<1>4. ASSUME NEW c \in Calls, CreateSet(c)
      PROVE  Collected'
  <2>1. /\ pc' = [pc EXCEPT ![c] = "adding"] /\ pc # pc'
        /\ hasSet' = TRUE /\ closedEvents' = {}
    BY <1>4 DEF CreateSet, Goto, PlacesTyped
  <2>2. closedEvents = {}
    BY <1>4, <2>1 DEF vars
  <2>3. \A d \in Calls : pc[d] \notin Announced
    BY <2>2 DEF Collected
  <2>4. \A d \in Calls : pc'[d] \notin Announced
    BY <2>1, <2>3 DEF PlacesTyped, Announced, Registered
  <2> QED
    BY <2>1, <2>4 DEF Collected
<1>5. ASSUME NEW c \in Calls, AddEvent(c)
      PROVE  Collected'
  BY <1>1, <1>5 DEF AddEvent, Goto, Collected
<1>6. ASSUME NEW c \in Calls, Register(c)
      PROVE  Collected'
  BY <1>1, <1>6 DEF Register, Goto, Collected, Announced
<1>7. ASSUME NEW c \in Calls, Stay(c)
      PROVE  Collected'
  <2>1. /\ c \in closedEvents /\ hasSet /\ UNCHANGED <<hasSet, closedEvents>>
        /\ \E to \in Registered : pc' = [pc EXCEPT ![c] = to]
    BY <1>7, StayStep DEF Moved, Collected, Announced, Stay, Wake, Expire,
                          CheckClosed
  <2> QED
    BY <1>1, <2>1 DEF Registered
<1>8. ASSUME NEW c \in Calls, Leave(c)
      PROVE  Collected'
  <2>1. /\ closedEvents' = closedEvents \ {c}
        /\ \E to \in Ended : pc' = [pc EXCEPT ![c] = to]
        /\ UNCHANGED hasSet
    BY <1>8, LeaveStep DEF Unregister, Moved, Leave, GiveUp, CloseOut, Return
  <2> QED
    BY <1>1, <2>1 DEF Ended, Announced, Registered
<1>9. CASE UNCHANGED <<pc, hasSet, closedEvents>>
  BY <1>9 DEF Collected
<1>10. ASSUME NEW c \in Calls, OnCloseSignal(c)
       PROVE  UNCHANGED <<pc, hasSet, closedEvents>>
  BY <1>10 DEF OnCloseSignal
<1>11. ASSUME NEW i \in Ids, NEW final \in BOOLEAN, OnMessage(i, final)
       PROVE  UNCHANGED <<pc, hasSet, closedEvents>>
  BY <1>11 DEF OnMessage
<1>12. Aside => UNCHANGED <<pc, hasSet, closedEvents>>
  BY DEF Aside, LinkLost, RequestStop, OnCloseFlag, OnCloseStopEvent,
         OnCloseSnapshot, OnCloseDone
<1>13. UNCHANGED vars => UNCHANGED <<pc, hasSet, closedEvents>>
  BY DEF vars
<1> QED
  BY <1>2, <1>3, <1>4, <1>5, <1>6, <1>7, <1>8, <1>9, <1>10, <1>11, <1>12,
     <1>13, StepKinds DEF Walk

\* Only collecting the events begins the signals, and then all that wait are
\* in the set.
LEMMA SnapshotStep ==
  ASSUME Collected, [Next]_vars, closing = "stopped", closing' = "signalling"
  PROVE  \A c \in Calls : pc[c] = "waiting" => c \in toSignal'
<1>1. OnCloseSnapshot
  <2>1. ASSUME NEW c \in Calls, \/ Send(c) \/ SendFails(c) \/ Register(c)
                                \/ Walk(c) \/ Stay(c) \/ Leave(c)
                                \/ OnCloseSignal(c)
        PROVE  closing' = closing
    BY <2>1 DEF Send, SendFails, Register, Walk, LookForSet, CreateSet,
                AddEvent, Stay, Wake, Expire, CheckClosed, Leave, GiveUp,
                CloseOut, Return, OnCloseSignal, threadVars
  <2>2. ASSUME NEW i \in Ids, NEW final \in BOOLEAN, OnMessage(i, final)
        PROVE  closing' = closing
    BY <2>2 DEF OnMessage, threadVars
  <2>3. ASSUME Aside, ~OnCloseSnapshot
        PROVE  closing' # "signalling" \/ closing # "stopped"
    BY <2>3 DEF Aside, LinkLost, RequestStop, OnCloseFlag, OnCloseStopEvent,
                OnCloseDone, threadVars
  <2>4. UNCHANGED vars => closing' = closing
    BY DEF vars, threadVars
  <2> QED
    BY <2>1, <2>2, <2>3, <2>4, StepKinds
<1>2. toSignal' = IF hasSet THEN closedEvents ELSE {}
  BY <1>1 DEF OnCloseSnapshot
<1> QED
  BY <1>2 DEF Collected, Announced, Registered

\* on_close() finds the event of every call that waits, unless a first call has
\* thrown it away: two that find no set each make one, and the second replaces
\* that of the first.
THEOREM CloseFindsWaiters == Spec /\ NoneThrownAway => CloseSeesWaiters
<1> DEFINE Sees == closing = "stopped" /\ closing' = "signalling" =>
                     \A c \in Calls : pc[c] = "waiting" /\ ~event[c]
                                       => c \in toSignal'
           Keeps == \A c \in Calls : CreateSet(c) => closedEvents = {}
<1>1. Init => Collected
  BY DEF Init, Collected, Announced, Registered
<1>2. TypeOK /\ Collected /\ [Next]_vars /\ [Keeps]_vars => Collected'
  BY CollectedStep DEF TypeOK, PlacesTyped
<1>3. Collected /\ [Next]_vars => [Sees]_vars
  BY SnapshotStep
<1> QED
  BY <1>1, <1>2, <1>3, TypeCorrect, PTL DEF Spec, CloseSeesWaiters, NoneThrownAway

-----------------------------------------------------------------------------
(***************************************************************************)
(* The threads, events and dictionaries of send_and_wait() keep the        *)
(* promise of RequestReply to the callers.                                 *)
(***************************************************************************)

\* Nothing a caller can see changes while nothing below does.
LEMMA Stutter ==
  ASSUME TypeOK, UNCHANGED <<msgId, result, delivered, closed, stopEvent>>,
         \/ UNCHANGED pc
         \/ \E c \in Calls : Moved(c, InProgress, InProgress)
  PROVE  UNCHANGED Reply!vars
<1>1. UNCHANGED <<Replies, Down, result>>
  BY DEF Replies, Down
<1>2. UNCHANGED Status
  <2>1. CASE UNCHANGED pc
    BY <2>1 DEF Status
  <2>2. ASSUME NEW c \in Calls, Moved(c, InProgress, InProgress)
        PROVE  UNCHANGED Status
    <3>1. "idle" \notin InProgress
      BY DEF InProgress, Unregistered, Registered
    <3>2. \A d \in Calls : pc'[d] = pc[d] \/ {pc[d], pc'[d]} \subseteq InProgress
      BY <2>2 DEF Moved, TypeOK
    <3> QED
      BY <3>1, <3>2 DEF Status
  <2> QED
    BY <2>1, <2>2
<1> QED
  BY <1>1, <1>2 DEF Reply!vars

\* The status of a call that leaves, and of no other, changes.
LEMMA StatusMoves ==
  ASSUME TypeOK, NEW c \in Calls, NEW from, NEW to, Goto(c, from, to),
         from = "idle" \/ from \in InProgress,
         to \in Ended \/ to \in InProgress
  PROVE  /\ Status[c] = IF from = "idle" THEN "new" ELSE "open"
         /\ Status' = [Status EXCEPT ![c] =
                          IF to \in InProgress THEN "open" ELSE to]
<1>1. pc[c] = from /\ pc'[c] = to /\ \A d \in Calls : d # c => pc'[d] = pc[d]
  BY DEF Goto, TypeOK
<1>2. "idle" \notin InProgress /\ "idle" \notin Ended
  BY DEF InProgress, Unregistered, Registered, Ended
<1> QED
  BY <1>1, <1>2 DEF Status

\* Every step of Correlation is a step of RequestReply, or changes nothing that
\* a caller sees.
LEMMA StepRefines == IInv /\ [Next]_vars => [Reply!Next]_(Reply!vars)
<1> SUFFICES ASSUME IInv, [Next]_vars PROVE [Reply!Next]_(Reply!vars)
  OBVIOUS
<1> USE DEF clientVars, flagVars, threadVars, peerVars, callVars
<1>0. TypeOK /\ IdsOwned /\ PartsFiled /\ WokenForAReason /\ AnswerFiled
  BY DEF IInv
<1>1. ASSUME NEW c \in Calls, Send(c)
      PROVE  Reply!Ask(c)
  <2>1. Status[c] = "new"
        /\ Status' = [Status EXCEPT ![c] =
                        IF c \in Posts THEN "posted" ELSE "open"]
    <3>1. /\ "sent" \in InProgress /\ "posted" \in Ended
          /\ "posted" \notin InProgress
      BY DEF InProgress, Unregistered, Registered, Ended
    <3>2. Goto(c, "idle", IF c \in Posts THEN "posted" ELSE "sent")
      BY <1>1 DEF Send
    <3>3. CASE c \in Posts
      BY <1>0, <3>1, <3>2, <3>3, StatusMoves
    <3>4. CASE c \notin Posts
      BY <1>0, <3>1, <3>2, <3>4, StatusMoves
    <3> QED
      BY <3>3, <3>4
  <2>2. /\ nextId \in Ids /\ nextId # 0 /\ msgId[c] = 0
        /\ msgId' = [msgId EXCEPT ![c] = nextId]
        /\ UNCHANGED <<delivered, result, Down>>
    BY <1>0, <1>1, CallsAssumption DEF Send, Goto, Ids, IdsOwned, Down
  <2>3. delivered[nextId] = <<>>
    <3>1. asker[nextId] = NoCall
      BY <1>0, <2>2, CallsAssumption DEF IdsOwned, Ids
    <3> QED
      BY <1>0, <2>2, <3>1 DEF PartsFiled
  <2>4. UNCHANGED Replies
    BY <1>0, <2>2, <2>3 DEF Replies, TypeOK
  <2> QED
    BY <2>1, <2>2, <2>4 DEF Reply!Ask, Reply!Move
<1>2. ASSUME NEW c \in Calls, SendFails(c)
      PROVE  Reply!Refuse(c)
  <2>1. "notSent" \in Ended /\ "notSent" \notin InProgress
    BY DEF InProgress, Unregistered, Registered, Ended
  <2>2. Goto(c, "idle", "notSent")
    BY <1>2 DEF SendFails
  <2>3. Status[c] = "new" /\ Status' = [Status EXCEPT ![c] = "notSent"]
    BY <1>0, <2>1, <2>2, StatusMoves
  <2>4. UNCHANGED <<Replies, result, Down>>
    BY <1>2 DEF SendFails, Replies, Down
  <2> QED
    BY <2>3, <2>4 DEF Reply!Refuse, Reply!Move
<1>3. ASSUME NEW c \in Calls, Walk(c) \/ Register(c) \/ Stay(c)
      PROVE  UNCHANGED Reply!vars
  <2>1. UNCHANGED <<msgId, result, delivered, closed, stopEvent>>
    BY <1>3 DEF Walk, LookForSet, CreateSet, AddEvent, Register, Stay, Wake,
                Expire, CheckClosed
  <2>2. Moved(c, InProgress, InProgress)
    <3>1. CASE Walk(c) \/ Stay(c)
      BY <3>1, WalkStep, StayStep DEF Moved, InProgress
    <3>2. CASE Register(c)
      BY <3>2 DEF Register, Goto, Moved, InProgress, Unregistered, Registered
    <3> QED
      BY <1>3, <3>1, <3>2
  <2> QED
    BY <1>0, <2>1, <2>2, Stutter
<1>4. ASSUME NEW c \in Calls, GiveUp(c)
      PROVE  Reply!TimeOut(c)
  <2>1. "timedOut" \in Ended /\ "timedOut" \notin InProgress
        /\ "expired" \in InProgress /\ "expired" # "idle"
    BY DEF InProgress, Unregistered, Registered, Ended
  <2>2. Goto(c, "expired", "timedOut")
    BY <1>4 DEF GiveUp
  <2>3. Status[c] = "open" /\ Status' = [Status EXCEPT ![c] = "timedOut"]
    BY <1>0, <2>1, <2>2, StatusMoves
  <2>4. UNCHANGED <<Replies, result, Down>>
    BY <1>4 DEF GiveUp, Replies, Down
  <2> QED
    BY <2>3, <2>4 DEF Reply!TimeOut, Reply!Move
<1>5. ASSUME NEW c \in Calls, CloseOut(c)
      PROVE  Reply!CloseOut(c)
  <2>1. "closedOut" \in Ended /\ "closedOut" \notin InProgress
        /\ "interrupted" \in InProgress /\ "interrupted" # "idle"
    BY DEF InProgress, Unregistered, Registered, Ended
  <2>2. Goto(c, "interrupted", "closedOut")
    BY <1>5 DEF CloseOut
  <2>3. Status[c] = "open" /\ Status' = [Status EXCEPT ![c] = "closedOut"]
    BY <1>0, <2>1, <2>2, StatusMoves
  <2>4. UNCHANGED <<Replies, result, Down>>
    BY <1>5 DEF CloseOut, Replies, Down
  <2>5. Down
    BY <1>0, <2>2 DEF Goto, WokenForAReason, Down
  <2> QED
    BY <2>3, <2>4, <2>5 DEF Reply!CloseOut, Reply!Move
<1>6. ASSUME NEW c \in Calls, Return(c)
      PROVE  Reply!Return(c)
  <2>1. "answered" \in Ended /\ "answered" \notin InProgress
        /\ "answering" \in InProgress /\ "answering" # "idle"
    BY DEF InProgress, Unregistered, Registered, Ended
  <2>2. Goto(c, "answering", "answered")
    BY <1>6 DEF Return
  <2>3. Status[c] = "open" /\ Status' = [Status EXCEPT ![c] = "answered"]
    BY <1>0, <2>1, <2>2, StatusMoves
  <2>4. UNCHANGED <<Replies, Down>>
    BY <1>6 DEF Return, Replies, Down
  <2>5. msgId[c] \in Ids /\ msgId[c] # 0
    BY <1>0, <2>1, <2>2, OwnId DEF Goto, Ended, InProgress
  <2>6. answer[msgId[c]] # <<>> /\ answer[msgId[c]] = received[msgId[c]]
    BY <1>0, <2>2, <2>5 DEF Goto, WokenForAReason, AnswerFiled
  <2>7. Replies[c] = delivered[msgId[c]]
    BY <2>5 DEF Replies
  <2>8. /\ Replies[c] # <<>> /\ Replies[c] \in Seq(Part)
        /\ answer[msgId[c]] = SubSeq(Replies[c], 1, 1)
    <3>1. /\ delivered[msgId[c]] # <<>>
          /\ answer[msgId[c]] = <<delivered[msgId[c]][1]>>
          /\ IsPrefix(answer[msgId[c]], delivered[msgId[c]])
      BY <1>0, <2>5, <2>6, FiledIsPrefix
    <3> QED
      BY <1>0, <2>5, <2>7, <3>1 DEF IsPrefix, TypeOK
  <2>9. 1 \in 1..Len(Replies[c])
    BY <2>8
  <2>10. result' = [result EXCEPT ![c] = SubSeq(Replies[c], 1, 1)]
    BY <1>6, <2>8 DEF Return
  <2> QED
    BY <2>3, <2>4, <2>9, <2>10 DEF Reply!Return, Reply!Move
<1>7. ASSUME NEW i \in Ids, NEW final \in BOOLEAN, OnMessage(i, final)
      PROVE  \E c \in Calls : Reply!Reply(c)
  <2> DEFINE p == NextPart(i, final)
             c == asker[i]
  <2>1. /\ p \in Part
        /\ delivered' = [delivered EXCEPT ![i] = Append(delivered[i], p)]
        /\ c # NoCall
        /\ UNCHANGED <<pc, msgId, result, Down>>
    BY <1>0, <1>7, FiledType DEF OnMessage, Answerable, Down
  <2>2. c \in Calls /\ msgId[c] = i /\ i # 0
    BY <1>0, <2>1, CallsAssumption DEF TypeOK, IdsOwned, Ids
  <2>3. pc[c] \notin {"idle", "notSent"}
    BY <1>0, <2>2 DEF IdsOwned
  <2>4. \A d \in Calls : msgId[d] = i => d = c
    BY <1>0, <2>2 DEF IdsOwned
  <2> HIDE DEF p, c
  <2>5. Status[c] \notin {"new", "notSent"} /\ UNCHANGED Status
    <3>1. UNCHANGED Status
      BY <2>1 DEF Status
    <3>2. pc[c] \in InProgress \/ pc[c] \in Ended \ {"notSent"}
      BY <1>0, <2>2, <2>3 DEF TypeOK
    <3>3. Status[c] = IF pc[c] \in InProgress THEN "open" ELSE pc[c]
      BY <2>2, <2>3 DEF Status
    <3> QED
      BY <3>1, <3>2, <3>3 DEF Ended
  <2>6. Replies' = [Replies EXCEPT ![c] = Append(Replies[c], p)]
    <3>1. \A d \in Calls : msgId[d] # 0 => msgId[d] \in Ids
      BY <1>0, CallsAssumption DEF TypeOK, Ids
    <3>2. Replies'[c] = Append(Replies[c], p)
      BY <1>0, <2>1, <2>2 DEF Replies, TypeOK
    <3>3. \A d \in Calls : d # c => Replies'[d] = Replies[d]
      BY <1>0, <2>1, <2>4, <3>1 DEF Replies, TypeOK
    <3> QED
      BY <2>2, <3>2, <3>3 DEF Replies
  <2> QED
    BY <2>1, <2>2, <2>5, <2>6 DEF Reply!Reply
<1>8. ASSUME NEW c \in Calls, OnCloseSignal(c)
      PROVE  UNCHANGED Reply!vars
  BY <1>0, <1>8, Stutter DEF OnCloseSignal
<1>9. ASSUME Aside
      PROVE  Reply!GoDown \/ UNCHANGED Reply!vars
  <2>1. UNCHANGED <<pc, msgId, result, delivered>>
    BY <1>9, CloseStep DEF filed
  <2>2. Down' \/ UNCHANGED <<closed, stopEvent>>
    BY <1>9 DEF Aside, LinkLost, RequestStop, OnCloseFlag, OnCloseStopEvent,
                OnCloseSnapshot, OnCloseDone, Down
  <2>3. CASE Down'
    BY <2>1, <2>3 DEF Reply!GoDown, Status, Replies, Down
  <2>4. CASE UNCHANGED <<closed, stopEvent>>
    BY <1>0, <2>1, <2>4, Stutter
  <2> QED
    BY <2>2, <2>3, <2>4
<1>10. CASE UNCHANGED vars
  BY <1>0, <1>10, Stutter DEF vars
<1> QED
  BY <1>1, <1>2, <1>3, <1>4, <1>5, <1>6, <1>7, <1>8, <1>9, <1>10, StepKinds
     DEF Leave, Reply!Next

\* Whatever the threads, the peer, the timeouts and the close do, a caller sees
\* a client that keeps the promise of RequestReply.
THEOREM PromiseKept == Spec => KeepsPromise
<1>1. Init => Reply!Init
  <2> SUFFICES ASSUME Init PROVE Reply!Init
    OBVIOUS
  <2>1. Status = [c \in Calls |-> "new"]
    BY DEF Init, Status, InProgress, Unregistered, Registered
  <2>2. Replies = [c \in Calls |-> <<>>]
    BY DEF Init, Replies
  <2>3. Down = FALSE
    BY DEF Init, Down
  <2>4. result = [c \in Calls |-> <<>>]
    BY DEF Init
  <2> QED
    BY <2>1, <2>2, <2>3, <2>4 DEF Reply!Init
<1>2. IInv /\ [Next]_vars => [Reply!Next]_(Reply!vars)
  BY StepRefines
<1> QED
  BY <1>1, <1>2, Inductive, PTL DEF Spec, KeepsPromise, Reply!Spec

-----------------------------------------------------------------------------
(***************************************************************************)
(* Restart: any number of restarts of either kind, any calls and any       *)
(* listeners that call.                                                    *)
(***************************************************************************)

\* The calls in progress whose ids the session will not allocate again
Current == {c \in Calls : pc[c] \in InProgress} \ orphans

\* The ids and where a call is
PlacesOK ==
  /\ pc \in [Calls -> {"idle"} \cup InProgress \cup Ended]
  /\ msgId \in [Calls -> 0..MaxId]
  /\ nextId \in 1..(MaxId + 1)
  /\ asker \in [Ids -> Calls \cup {NoCall}]
  /\ waiter \in [Ids -> Calls \cup {NoCall}]
  /\ orphans \subseteq Calls

\* The messages
FilesOK ==
  /\ answer \in [Ids -> Seq(Part)]
  /\ received \in [Ids -> Seq(Part)]
  /\ result \in [Calls -> Seq(Part)]
  /\ delivered \in [Ids -> Seq(Part)]

\* A call in progress has sent its request under an id.
HasId == \A c \in Calls : pc[c] \in InProgress => msgId[c] \in Ids

\* In one session an id belongs to the call that sent a message under it; a
\* connection that is made anew forgets who that was, but not the id.
IdsKept ==
  /\ \A c \in Current : msgId[c] < nextId /\ asker[msgId[c]] \in {c, NoCall}
  /\ \A c, d \in Current : msgId[c] = msgId[d] => c = d
  /\ \A i \in Ids : i >= nextId => asker[i] = NoCall

\* What is filed under an id was sent to whoever asked under it in this session.
FiledForAsker ==
  \A i \in Ids :
    /\ \A k \in DOMAIN received[i] : received[i][k].call = asker[i]
    /\ answer[i] \in {<<>>, received[i]}
    /\ asker[i] = NoCall => received[i] = <<>>

\* Whoever is registered waits, under that id.
WaiterWaits ==
  \A i \in Ids : waiter[i] # NoCall =>
    pc[waiter[i]] \in Registered /\ msgId[waiter[i]] = i

RInv ==
  /\ PlacesOK /\ FilesOK
  /\ HasId /\ IdsKept /\ FiledForAsker /\ WaiterWaits
  /\ NoForeignAnswer

-----------------------------------------------------------------------------
(***************************************************************************)
(* The steps, by what they do to ids and registrations                     *)
(***************************************************************************)

\* A call goes from one place to another, and that is all that is seen of it.
Moves(c, from, to) ==
  /\ pc[c] \in from
  /\ \E p \in to : pc' = [pc EXCEPT ![c] = p]

\* What the other conjuncts speak of
recorded == <<msgId, result, waiter, answer, received, delivered, nextId, asker>>

\* send_and_wait() before the registration, while it waits, and the way out
Walks(c) ==
  /\ Moves(c, Unregistered, Unregistered)
  /\ UNCHANGED recorded
Stays(c) ==
  /\ Moves(c, Registered, Registered)
  /\ UNCHANGED recorded
Leaves(c) ==
  /\ Moves(c, Registered, Ended \ {"answered"})
  /\ Unregister(c)
  /\ UNCHANGED <<msgId, result, received, delivered, nextId, asker>>

\* Every step of a call is of one of these kinds, or is one of the four that
\* touch an id, a registration or a result.
LEMMA CallKinds ==
  ASSUME NEW c \in Calls, Call(c)
  PROVE  Send(c) \/ SendFails(c) \/ Walks(c) \/ Register(c) \/ Stays(c) \/ Leaves(c) \/ Return(c)
<1> USE DEF Goto, Moves, recorded, Unregistered, Registered, Ended
<1>1. LookForSet(c) \/ CreateSet(c) \/ AddEvent(c) => Walks(c)
  BY DEF LookForSet, CreateSet, AddEvent, Walks, clientVars, peerVars
<1>2. Wake(c) \/ Expire(c) \/ CheckClosed(c) => Stays(c)
  BY DEF Wake, Expire, CheckClosed, Stays, clientVars, peerVars
<1>3. GiveUp(c) \/ CloseOut(c) => Leaves(c)
  BY DEF GiveUp, CloseOut, Leaves, peerVars
<1> QED
  BY <1>1, <1>2, <1>3 DEF Call, Proceed

\* What is not a call, a message or a restart leaves ids and registrations alone.
LEMMA RestartKinds ==
  [RestartNext]_restartVars =>
    \/ \E how \in Restarts : StartAgain(how)
    \/ /\ UNCHANGED orphans
       /\ \/ \E c \in Calls : Call(c)
          \/ \E i \in Ids, final \in BOOLEAN : OnMessage(i, final)
          \/ UNCHANGED <<recorded, pc>>
<1>1. OnClose => UNCHANGED <<recorded, pc>>
  BY DEF OnClose, OnCloseFlag, OnCloseStopEvent, OnCloseSnapshot, OnCloseDone,
     OnCloseSignal, recorded, callVars, clientVars, peerVars
<1>2. LinkLost \/ RequestStop => UNCHANGED <<recorded, pc>>
  BY DEF LinkLost, RequestStop, recorded, callVars, clientVars, peerVars
<1>3. UNCHANGED vars => UNCHANGED <<recorded, pc>>
  BY DEF vars, recorded, callVars, clientVars, peerVars
<1> QED
  BY <1>1, <1>2, <1>3, RestartAssumption
  DEF RestartNext, Hear, InnerCall, ListenersReturn, Elsewhere, Close, restartVars,
      againVars

\* A call in progress goes on or ends; ids stay as they are.
Goes(c) ==
  /\ Moves(c, InProgress, InProgress \cup Ended)
  /\ UNCHANGED <<msgId, nextId, asker, orphans>>

\* Whatever a call in progress does, it goes on or ends with its id.
LEMMA CallGoes ==
  ASSUME NEW c \in Calls, UNCHANGED orphans,
         Walks(c) \/ Register(c) \/ Stays(c) \/ Leaves(c) \/ Return(c)
  PROVE  Goes(c)
<1> USE DEF Goes, Moves, recorded, InProgress, Unregistered, Registered, Ended
<1>1. Walks(c) \/ Stays(c) \/ Leaves(c) => Goes(c)
  BY DEF Walks, Stays, Leaves
<1>2. Register(c) \/ Return(c) => Goes(c)
  BY DEF Register, Return, Goto, peerVars
<1> QED
  BY <1>1, <1>2

-----------------------------------------------------------------------------
(***************************************************************************)
(* Every conjunct of the invariant is kept.                                *)
(***************************************************************************)

\* Places and ids keep their types.
LEMMA PlacesStep ==
  ASSUME PlacesOK, HasId, [RestartNext]_restartVars
  PROVE  PlacesOK'
<1> USE DEF PlacesOK
<1>1. ASSUME NEW c \in Calls, UNCHANGED orphans, Send(c)
      PROVE  PlacesOK'
  <2>1. nextId \in Ids /\ nextId \in 0..MaxId /\ nextId + 1 \in 1..(MaxId + 1)
    BY <1>1, CallsAssumption DEF Send, Ids
  <2> QED
    BY <1>1, <2>1
    DEF Send, Goto, clientVars, InProgress, Unregistered, Ended
<1>2. ASSUME NEW c \in Calls, UNCHANGED orphans, SendFails(c)
      PROVE  PlacesOK'
  <2>1. nextId + 1 \in 1..(MaxId + 1)
    BY <1>2, CallsAssumption DEF SendFails, Ids
  <2> QED
    BY <1>2, <2>1 DEF SendFails, Goto, clientVars, Ended
<1>3. ASSUME NEW c \in Calls, Goes(c)
      PROVE  pc' \in [Calls -> {"idle"} \cup InProgress \cup Ended]
  BY <1>3 DEF Goes, Moves
<1>4. ASSUME NEW c \in Calls, UNCHANGED orphans,
             Walks(c) \/ Register(c) \/ Stays(c) \/ Leaves(c) \/ Return(c)
      PROVE  PlacesOK'
  <2>1. Goes(c)
    BY <1>4, CallGoes
  <2>2. msgId[c] \in Ids
    BY <2>1 DEF Goes, Moves, HasId
  <2>3. waiter' \in [Ids -> Calls \cup {NoCall}]
    BY <1>4, <2>2 DEF Walks, Stays, Leaves, Register, Return, Unregister, recorded
  <2> QED
    BY <1>3, <2>1, <2>3 DEF Goes
<1>5. ASSUME NEW i \in Ids, NEW final \in BOOLEAN, UNCHANGED orphans,
             OnMessage(i, final)
      PROVE  PlacesOK'
  BY <1>5 DEF OnMessage, callVars
<1>6. ASSUME NEW how \in Restarts, StartAgain(how)
      PROVE  PlacesOK'
  <2>1. nextId' \in 1..(MaxId + 1)
    BY <1>6, CallsAssumption DEF StartAgain, FirstId
  <2> QED
    BY <1>6, <2>1 DEF StartAgain, callVars
<1>7. CASE UNCHANGED <<recorded, pc, orphans>>
  BY <1>7 DEF recorded
<1> QED
  BY <1>1, <1>2, <1>4, <1>5, <1>6, <1>7, RestartKinds, CallKinds

\* What is recorded and returned are messages.
LEMMA FilesStep ==
  ASSUME PlacesOK, FilesOK, HasId, [RestartNext]_restartVars
  PROVE  FilesOK'
<1> USE DEF FilesOK
<1>0. <<>> \in Seq(Part)
  OBVIOUS
<1>1. ASSUME NEW c \in Calls, Send(c) \/ SendFails(c)
      PROVE  FilesOK'
  BY <1>1 DEF Send, SendFails, clientVars, peerVars
<1>2. ASSUME NEW c \in Calls, UNCHANGED orphans,
             Walks(c) \/ Register(c) \/ Stays(c) \/ Leaves(c) \/ Return(c)
      PROVE  FilesOK'
  <2>1. Goes(c)
    BY <1>2, CallGoes
  <2>2. msgId[c] \in Ids
    BY <2>1 DEF Goes, Moves, HasId
  <2> QED
    BY <1>0, <1>2, <2>2
    DEF Walks, Stays, Leaves, Register, Return, Unregister, recorded, peerVars
<1>3. ASSUME NEW i \in Ids, NEW final \in BOOLEAN, OnMessage(i, final)
      PROVE  FilesOK'
  <2> DEFINE p == NextPart(i, final)
  <2>1. asker[i] \in Calls /\ Len(delivered[i]) + 1 \in 1..MaxParts
    BY <1>3, CallsAssumption DEF OnMessage, Answerable, PlacesOK
  <2>2. p \in Part
    BY <2>1 DEF NextPart, Part
  <2>3. /\ delivered' = [delivered EXCEPT ![i] = Append(@, p)]
        /\ received' = [received EXCEPT ![i] = Filed(i, p)]
        /\ answer' = [answer EXCEPT ![i] = Filed(i, p)] \/ UNCHANGED answer
        /\ UNCHANGED result
    BY <1>3 DEF OnMessage, callVars
  <2> HIDE DEF p
  <2>4. Filed(i, p) \in Seq(Part) /\ Append(delivered[i], p) \in Seq(Part)
    BY <2>2 DEF Filed
  <2> QED
    BY <2>3, <2>4
<1>4. ASSUME NEW how \in Restarts, StartAgain(how)
      PROVE  FilesOK'
  BY <1>0, <1>4 DEF StartAgain, callVars
<1>5. CASE UNCHANGED <<recorded, pc, orphans>>
  BY <1>5 DEF recorded
<1> QED
  BY <1>1, <1>2, <1>3, <1>4, <1>5, RestartKinds, CallKinds

\* A call that is in progress has its id from its send().
LEMMA HasIdStep ==
  ASSUME PlacesOK, HasId, [RestartNext]_restartVars
  PROVE  HasId'
<1> USE DEF HasId, PlacesOK
<1>1. ASSUME NEW c \in Calls, Send(c)
      PROVE  HasId'
  BY <1>1 DEF Send, Goto
<1>2. ASSUME NEW c \in Calls, SendFails(c)
      PROVE  HasId'
  <2>1. "notSent" \notin InProgress
    BY DEF InProgress, Unregistered, Registered
  <2> QED
    BY <1>2, <2>1 DEF SendFails, Goto
<1>3. ASSUME NEW c \in Calls, Goes(c)
      PROVE  HasId'
  BY <1>3 DEF Goes, Moves
<1>4. ASSUME NEW i \in Ids, NEW final \in BOOLEAN, OnMessage(i, final)
      PROVE  HasId'
  BY <1>4 DEF OnMessage, callVars
<1>5. ASSUME NEW how \in Restarts, StartAgain(how)
      PROVE  HasId'
  BY <1>5 DEF StartAgain, callVars
<1>6. CASE UNCHANGED <<recorded, pc, orphans>>
  BY <1>6 DEF recorded
<1> QED
  BY <1>1, <1>2, <1>3, <1>4, <1>5, <1>6, RestartKinds, CallKinds, CallGoes

\* Ids grow while a session lasts; the calls of a session that is dropped are
\* no longer current.
LEMMA IdsKeptStep ==
  ASSUME PlacesOK, HasId, IdsKept, [RestartNext]_restartVars
  PROVE  IdsKept'
<1>1. ASSUME NEW c \in Calls, UNCHANGED orphans, Send(c)
      PROVE  IdsKept'
  <2>1. /\ nextId \in Ids /\ nextId \in Nat /\ nextId' = nextId + 1
        /\ asker' = [asker EXCEPT ![nextId] = c]
        /\ msgId' = [msgId EXCEPT ![c] = nextId]
        /\ pc[c] = "idle"
        /\ \A d \in Calls : d # c => pc'[d] = pc[d]
    BY <1>1, CallsAssumption DEF Send, Goto, PlacesOK, Ids
  <2>2. msgId'[c] = nextId /\ asker'[nextId] = c
    BY <2>1 DEF PlacesOK
  <2>3. ASSUME NEW d \in Calls, d # c, d \in Current'
        PROVE  /\ d \in Current /\ msgId'[d] = msgId[d]
               /\ msgId[d] \in Nat /\ msgId[d] < nextId
               /\ asker'[msgId[d]] = asker[msgId[d]]
    <3>1. d \in Current
      BY <1>1, <2>1, <2>3 DEF Current
    <3>2. msgId[d] \in Ids /\ msgId[d] \in Nat /\ msgId[d] < nextId
      BY <3>1, CallsAssumption DEF IdsKept, Current, HasId, Ids
    <3> QED
      BY <2>1, <2>3, <3>1, <3>2 DEF PlacesOK
  <2>4. \A d \in Current' : msgId'[d] < nextId' /\ asker'[msgId'[d]] \in {d, NoCall}
    <3> SUFFICES ASSUME NEW d \in Current'
                 PROVE  msgId'[d] < nextId' /\ asker'[msgId'[d]] \in {d, NoCall}
      OBVIOUS
    <3>1. d \in Calls
      BY DEF Current
    <3>2. CASE d = c
      BY <2>1, <2>2, <3>2
    <3>3. CASE d # c
      BY <2>1, <2>3, <3>1, <3>3 DEF IdsKept
    <3> QED
      BY <3>2, <3>3
  <2>5. \A d, e \in Current' : msgId'[d] = msgId'[e] => d = e
    <3> SUFFICES ASSUME NEW d \in Current', NEW e \in Current', msgId'[d] = msgId'[e]
                 PROVE  d = e
      OBVIOUS
    <3>1. d \in Calls /\ e \in Calls
      BY DEF Current
    <3>2. CASE d # c /\ e # c
      BY <2>3, <3>1, <3>2 DEF IdsKept
    <3>3. CASE d = c /\ e # c
      <4>1. msgId'[e] < nextId
        BY <2>3, <3>1, <3>3
      <4> QED
        BY <2>1, <2>2, <3>3, <4>1
    <3>4. CASE d # c /\ e = c
      <4>1. msgId'[d] < nextId
        BY <2>3, <3>1, <3>4
      <4> QED
        BY <2>1, <2>2, <3>4, <4>1
    <3> QED
      BY <3>2, <3>3, <3>4
  <2>6. \A i \in Ids : i >= nextId' => asker'[i] = NoCall
    BY <2>1, CallsAssumption DEF PlacesOK, IdsKept, Ids
  <2> QED
    BY <2>4, <2>5, <2>6 DEF IdsKept
<1>2. ASSUME NEW c \in Calls, UNCHANGED orphans, SendFails(c)
      PROVE  IdsKept'
  <2>1. /\ nextId \in Nat /\ nextId' = nextId + 1
        /\ UNCHANGED <<msgId, asker>>
        /\ \A d \in Calls : d # c => pc'[d] = pc[d]
        /\ pc'[c] \notin InProgress
    BY <1>2, CallsAssumption
    DEF SendFails, Goto, PlacesOK, Ids, InProgress, Unregistered, Registered
  <2>2. Current' \subseteq Current
    BY <1>2, <2>1 DEF Current
  <2>3. \A d \in Current : msgId[d] \in Nat
    BY CallsAssumption DEF Current, PlacesOK
  <2>4. \A d \in Current' : msgId'[d] < nextId' /\ asker'[msgId'[d]] \in {d, NoCall}
    BY <2>1, <2>2, <2>3 DEF IdsKept
  <2>5. \A d, e \in Current' : msgId'[d] = msgId'[e] => d = e
    BY <2>1, <2>2 DEF IdsKept
  <2>6. \A i \in Ids : i >= nextId' => asker'[i] = NoCall
    BY <2>1, CallsAssumption DEF IdsKept, Ids
  <2> QED
    BY <2>4, <2>5, <2>6 DEF IdsKept
<1>3. ASSUME NEW c \in Calls, Goes(c)
      PROVE  IdsKept'
  <2>1. Current' \subseteq Current
    BY <1>3 DEF Current, Goes, Moves, PlacesOK
  <2> QED
    BY <1>3, <2>1 DEF IdsKept, Goes
<1>4. ASSUME NEW i \in Ids, NEW final \in BOOLEAN, UNCHANGED orphans,
             OnMessage(i, final)
      PROVE  IdsKept'
  BY <1>4 DEF OnMessage, callVars, IdsKept, Current
<1>5. ASSUME NEW how \in Restarts, StartAgain(how)
      PROVE  IdsKept'
  <2>1. asker' = [i \in Ids |-> NoCall] /\ UNCHANGED <<pc, msgId>>
    BY <1>5 DEF StartAgain, callVars
  <2>2. CASE how = "lost"
    <3>1. nextId' = nextId /\ Current' = Current
      BY <1>5, <2>1, <2>2 DEF StartAgain, FirstId, Current
    <3>2. \A d \in Current : msgId[d] \in Ids
      BY DEF Current, HasId
    <3> QED
      BY <2>1, <3>1, <3>2 DEF IdsKept
  <2>3. CASE how # "lost"
    <3>1. Current' = {}
      BY <1>5, <2>1, <2>3 DEF StartAgain, Current
    <3> QED
      BY <2>1, <3>1 DEF IdsKept
  <2> QED
    BY <2>2, <2>3
<1>6. CASE UNCHANGED <<recorded, pc, orphans>>
  BY <1>6 DEF recorded, IdsKept, Current
<1> QED
  BY <1>1, <1>2, <1>3, <1>4, <1>5, <1>6, RestartKinds, CallKinds, CallGoes

\* What is recorded under an id is for the call that asked in this session.
LEMMA FiledStep ==
  ASSUME PlacesOK, FilesOK, HasId, IdsKept, FiledForAsker, [RestartNext]_restartVars
  PROVE  FiledForAsker'
<1>1. ASSUME NEW c \in Calls, Send(c)
      PROVE  FiledForAsker'
  <2>1. /\ nextId \in Ids /\ nextId \in Nat
        /\ asker' = [asker EXCEPT ![nextId] = c]
        /\ UNCHANGED <<answer, received>>
    BY <1>1, CallsAssumption DEF Send, clientVars, Ids
  <2>2. received[nextId] = <<>>
    BY <2>1 DEF IdsKept, FiledForAsker
  <2> QED
    BY <2>1, <2>2, CallsAssumption DEF FiledForAsker, PlacesOK
<1>2. ASSUME NEW c \in Calls, SendFails(c)
      PROVE  FiledForAsker'
  BY <1>2 DEF SendFails, clientVars, FiledForAsker
<1>3. ASSUME NEW c \in Calls, UNCHANGED orphans,
             Walks(c) \/ Register(c) \/ Stays(c) \/ Leaves(c) \/ Return(c)
      PROVE  FiledForAsker'
  <2>1. msgId[c] \in Ids
    BY <1>3, CallGoes DEF Goes, Moves, HasId
  <2>2. /\ UNCHANGED <<received, asker>>
        /\ UNCHANGED answer \/ answer' = [answer EXCEPT ![msgId[c]] = <<>>]
    BY <1>3 DEF Walks, Stays, Leaves, Register, Return, Unregister, recorded, peerVars
  <2> QED
    BY <2>1, <2>2 DEF FiledForAsker, FilesOK
<1>4. ASSUME NEW i \in Ids, NEW final \in BOOLEAN, OnMessage(i, final)
      PROVE  FiledForAsker'
  <2> DEFINE p == NextPart(i, final)
  <2>1. /\ asker[i] # NoCall /\ UNCHANGED asker
        /\ received' = [received EXCEPT ![i] = Filed(i, p)]
        /\ answer' = [answer EXCEPT ![i] = Filed(i, p)] \/ UNCHANGED answer
    BY <1>4 DEF OnMessage, Answerable
  <2>2. p.call = asker[i]
    BY DEF NextPart
  <2> HIDE DEF p
  <2>3. \A k \in DOMAIN Filed(i, p) : Filed(i, p)[k].call = asker[i]
    <3>1. CASE received[i] = <<>>
      <4>1. Filed(i, p) = <<p>>
        BY <3>1 DEF Filed
      <4> QED
        BY <2>2, <4>1
    <3>2. CASE received[i] # <<>>
      BY <3>2 DEF Filed, FiledForAsker
    <3> QED
      BY <3>1, <3>2
  <2>4. received[i] # <<>> => Filed(i, p) = received[i]
    BY DEF Filed
  <2> QED
    BY <2>1, <2>3, <2>4 DEF FiledForAsker, FilesOK
<1>5. ASSUME NEW how \in Restarts, StartAgain(how)
      PROVE  FiledForAsker'
  BY <1>5 DEF StartAgain, FiledForAsker
<1>6. CASE UNCHANGED <<recorded, pc, orphans>>
  BY <1>6 DEF recorded, FiledForAsker
<1> QED
  BY <1>1, <1>2, <1>3, <1>4, <1>5, <1>6, RestartKinds, CallKinds

\* A call takes its id out of the registry when it leaves.
LEMMA WaitersStep ==
  ASSUME PlacesOK, HasId, WaiterWaits, [RestartNext]_restartVars
  PROVE  WaiterWaits'
<1>0. \A i \in Ids : waiter[i] # NoCall => waiter[i] \in Calls
  BY DEF PlacesOK
<1>1. ASSUME NEW c \in Calls, Send(c) \/ SendFails(c)
      PROVE  WaiterWaits'
  <2>1. pc[c] \notin Registered
    BY <1>1 DEF Send, SendFails, Goto, Registered
  <2>2. /\ UNCHANGED waiter
        /\ \A d \in Calls : d # c => pc'[d] = pc[d] /\ msgId'[d] = msgId[d]
    BY <1>1 DEF Send, SendFails, Goto, clientVars, PlacesOK
  <2> QED
    BY <1>0, <2>1, <2>2 DEF WaiterWaits
<1>2. ASSUME NEW c \in Calls, Walks(c)
      PROVE  WaiterWaits'
  <2>1. /\ pc[c] \notin Registered /\ UNCHANGED <<waiter, msgId>>
        /\ \A d \in Calls : d # c => pc'[d] = pc[d]
    BY <1>2 DEF Walks, Moves, recorded, Registered, Unregistered, PlacesOK
  <2> QED
    BY <1>0, <2>1 DEF WaiterWaits
<1>3. ASSUME NEW c \in Calls, Stays(c)
      PROVE  WaiterWaits'
  <2>1. /\ pc'[c] \in Registered /\ UNCHANGED <<waiter, msgId>>
        /\ \A d \in Calls : d # c => pc'[d] = pc[d]
    BY <1>3 DEF Stays, Moves, recorded, PlacesOK
  <2> QED
    BY <1>0, <2>1 DEF WaiterWaits
<1>4. ASSUME NEW c \in Calls, UNCHANGED orphans, Register(c)
      PROVE  WaiterWaits'
  <2>1. msgId[c] \in Ids
    BY <1>4, CallGoes DEF Goes, Moves, HasId
  <2>2. /\ waiter' = [waiter EXCEPT ![msgId[c]] = c] /\ UNCHANGED msgId
        /\ pc'[c] \in Registered
        /\ \A d \in Calls : d # c => pc'[d] = pc[d]
    BY <1>4 DEF Register, Goto, Registered, PlacesOK
  <2> QED
    BY <1>0, <2>1, <2>2 DEF WaiterWaits, PlacesOK
<1>5. ASSUME NEW c \in Calls, UNCHANGED orphans, Leaves(c) \/ Return(c)
      PROVE  WaiterWaits'
  <2>1. msgId[c] \in Ids
    BY <1>5, CallGoes DEF Goes, Moves, HasId
  <2>2. /\ waiter' = [waiter EXCEPT ![msgId[c]] = NoCall] /\ UNCHANGED msgId
        /\ \A d \in Calls : d # c => pc'[d] = pc[d]
    BY <1>5 DEF Leaves, Return, Unregister, Moves, Goto, PlacesOK
  <2> QED
    BY <1>0, <2>1, <2>2 DEF WaiterWaits, PlacesOK
<1>6. ASSUME NEW i \in Ids, NEW final \in BOOLEAN, OnMessage(i, final)
      PROVE  WaiterWaits'
  BY <1>6 DEF OnMessage, callVars, WaiterWaits
<1>7. ASSUME NEW how \in Restarts, StartAgain(how)
      PROVE  WaiterWaits'
  BY <1>7 DEF StartAgain, WaiterWaits
<1>8. CASE UNCHANGED <<recorded, pc, orphans>>
  BY <1>8 DEF recorded, WaiterWaits
<1> QED
  BY <1>1, <1>2, <1>3, <1>4, <1>5, <1>6, <1>7, <1>8, RestartKinds, CallKinds

\* What a call returns was recorded under its id, for itself.
LEMMA AnswersStep ==
  ASSUME PlacesOK, FilesOK, HasId, IdsKept, FiledForAsker, NoForeignAnswer,
         [RestartNext]_restartVars
  PROVE  NoForeignAnswer'
<1>1. ASSUME NEW c \in Calls, UNCHANGED orphans,
             Send(c) \/ SendFails(c) \/ Walks(c) \/ Register(c) \/ Stays(c) \/ Leaves(c)
      PROVE  NoForeignAnswer'
  <2>1. UNCHANGED result /\ pc'[c] # "answered"
    <3>1. CASE Send(c) \/ SendFails(c) \/ Register(c)
      BY <3>1 DEF Send, SendFails, Register, Goto, PlacesOK
    <3>2. CASE Walks(c) \/ Stays(c) \/ Leaves(c)
      BY <3>2
      DEF Walks, Stays, Leaves, Moves, recorded, PlacesOK, Unregistered, Registered
    <3> QED
      BY <1>1, <3>1, <3>2
  <2>2. \A d \in Calls : d # c => pc'[d] = pc[d]
    BY <1>1
    DEF Send, SendFails, Register, Goto, Walks, Stays, Leaves, Moves, PlacesOK
  <2> QED
    BY <1>1, <2>1, <2>2 DEF NoForeignAnswer
<1>2. ASSUME NEW c \in Calls, UNCHANGED orphans, Return(c)
      PROVE  NoForeignAnswer'
  <2>1. /\ pc[c] \in InProgress
        /\ result' = [result EXCEPT ![c] = answer[msgId[c]]]
        /\ \A d \in Calls : d # c => pc'[d] = pc[d]
    BY <1>2 DEF Return, Goto, InProgress, Registered, PlacesOK
  <2>2. msgId[c] \in Ids
    BY <2>1 DEF HasId
  <2>3. c \notin orphans => asker[msgId[c]] \in {c, NoCall}
    BY <2>1 DEF IdsKept, Current
  <2>4. c \notin orphans =>
          \A k \in DOMAIN answer[msgId[c]] : answer[msgId[c]][k].call = c
    BY <2>2, <2>3 DEF FiledForAsker
  <2> QED
    BY <1>2, <2>1, <2>4 DEF NoForeignAnswer, FilesOK
<1>3. ASSUME NEW i \in Ids, NEW final \in BOOLEAN, UNCHANGED orphans,
             OnMessage(i, final)
      PROVE  NoForeignAnswer'
  BY <1>3 DEF OnMessage, callVars, NoForeignAnswer
<1>4. ASSUME NEW how \in Restarts, StartAgain(how)
      PROVE  NoForeignAnswer'
  <2>1. UNCHANGED <<pc, result>> /\ orphans \subseteq orphans'
    BY <1>4 DEF StartAgain, callVars
  <2> QED
    BY <2>1 DEF NoForeignAnswer
<1>5. CASE UNCHANGED <<recorded, pc, orphans>>
  BY <1>5 DEF recorded, NoForeignAnswer
<1> QED
  BY <1>1, <1>2, <1>3, <1>4, <1>5, RestartKinds, CallKinds

-----------------------------------------------------------------------------
(***************************************************************************)
(* The theorems                                                            *)
(***************************************************************************)

\* A new client has no calls, no messages and no registrations.
LEMMA FirstSession == RestartInit => RInv
<1> SUFFICES ASSUME RestartInit PROVE RInv
  OBVIOUS
<1> USE DEF RestartInit, Init
<1>1. PlacesOK
  <2>1. 0 \in 0..MaxId /\ 1 \in 1..(MaxId + 1)
    BY CallsAssumption
  <2> QED
    BY <2>1 DEF PlacesOK
<1>2. FilesOK
  BY DEF FilesOK
<1>3. HasId /\ Current = {}
  BY DEF HasId, Current, InProgress, Unregistered, Registered
<1>4. IdsKept /\ FiledForAsker /\ WaiterWaits /\ NoForeignAnswer
  BY <1>3 DEF IdsKept, FiledForAsker, WaiterWaits, NoForeignAnswer
<1> QED
  BY <1>1, <1>2, <1>3, <1>4 DEF RInv

\* The invariant holds however often the client is started again, and whoever
\* calls.
THEOREM RestartInductive == RestartSpec => []RInv
<1>1. RInv /\ [RestartNext]_restartVars => RInv'
  BY PlacesStep, FilesStep, HasIdStep, IdsKeptStep, FiledStep, WaitersStep,
     AnswersStep DEF RInv
<1> QED
  BY <1>1, FirstSession, PTL DEF RestartSpec

\* A call that has not outlived its session returns its own answer, over any
\* number of connections: send_and_wait() and start().
THEOREM OwnAnswersOnly == RestartSpec => []NoForeignAnswer
<1>1. RInv => NoForeignAnswer
  BY DEF RInv
<1> QED
  BY <1>1, RestartInductive, PTL

\* A call that leaves finds its own registration, or none, once the calls of
\* earlier sessions have ended.
THEOREM RegistrationsKept == RestartSpec => RegistryKept
<1> DEFINE Mine == \A c \in Calls :
             /\ pc[c] \in Registered /\ pc'[c] \in Ended
             /\ \A o \in orphans : pc[o] \in Ended
             => waiter[msgId[c]] \in {c, NoCall}
<1>1. RInv => Mine
  <2> SUFFICES ASSUME RInv, NEW c \in Calls, pc[c] \in Registered,
                      \A o \in orphans : pc[o] \in Ended,
                      waiter[msgId[c]] # NoCall
               PROVE  waiter[msgId[c]] = c
    OBVIOUS
  <2> DEFINE d == waiter[msgId[c]]
  <2>1. msgId[c] \in Ids
    BY DEF RInv, HasId, InProgress
  <2>2. d \in Calls /\ pc[d] \in Registered /\ msgId[d] = msgId[c]
    BY <2>1 DEF RInv, PlacesOK, WaiterWaits
  <2>3. \A e \in Calls : pc[e] \in Registered => e \in Current
    BY DEF Current, InProgress, Registered, Ended
  <2> QED
    BY <2>2, <2>3 DEF RInv, IdsKept
<1>2. RInv => [Mine]_restartVars
  BY <1>1
<1> QED
  BY <1>2, RestartInductive, PTL DEF RegistryKept

\* What happens between two starts are steps of Correlation.
LEMMA OneConnection ==
  [RestartNext]_restartVars =>
    [Next]_vars \/ \E how \in Restarts : StartAgain(how)
BY RestartAssumption
DEF RestartNext, Hear, InnerCall, ListenersReturn, Elsewhere, Close, restartVars,
    Next

\* _connection_closed_events outlives a connection, with the events of the calls
\* that are still in progress: on the next one, on_close() finds those too.  None
\* may have been thrown away by a first call, on whatever connection.
THEOREM EveryCloseFindsWaiters ==
  RestartSpec /\ NoneThrownAway => CloseSeesWaiters
<1> DEFINE Sees == closing = "stopped" /\ closing' = "signalling" =>
                     \A c \in Calls : pc[c] = "waiting" /\ ~event[c]
                                       => c \in toSignal'
           Keeps == \A c \in Calls : CreateSet(c) => closedEvents = {}
<1>1. RestartInit => Collected
  BY DEF RestartInit, Init, Collected, Announced, Registered
<1>2. \A how \in Restarts :
        StartAgain(how) => UNCHANGED <<pc, hasSet, closedEvents>> /\ closing' = "no"
  BY DEF StartAgain, callVars
<1>3. RInv /\ Collected /\ [RestartNext]_restartVars /\ [Keeps]_vars => Collected'
  <2> SUFFICES ASSUME RInv, Collected, [RestartNext]_restartVars, [Keeps]_vars
               PROVE  Collected'
    OBVIOUS
  <2>1. CASE [Next]_vars
    BY <2>1, CollectedStep DEF RInv, PlacesOK, PlacesTyped
  <2>2. CASE \E how \in Restarts : StartAgain(how)
    BY <1>2, <2>2 DEF Collected
  <2> QED
    BY <2>1, <2>2, OneConnection
<1>4. Collected /\ [RestartNext]_restartVars => [Sees]_vars
  <2> SUFFICES ASSUME Collected, [RestartNext]_restartVars PROVE Sees
    OBVIOUS
  <2> QED
    BY <1>2, OneConnection, SnapshotStep
<1> QED
  BY <1>1, <1>3, <1>4, RestartInductive, PTL
  DEF RestartSpec, CloseSeesWaiters, NoneThrownAway

\* Where an earlier call has made the set, nobody makes it again, and on_close()
\* finds all that wait without more being assumed.
COROLLARY LaterCallsAreFound ==
  ASSUME SetExists PROVE RestartSpec => CloseSeesWaiters
<1> DEFINE NoneMakes == hasSet /\ \A c \in Calls : pc[c] # "creating"
           Keeps == \A c \in Calls : CreateSet(c) => closedEvents = {}
<1>1. RestartInit => NoneMakes
  BY DEF RestartInit, Init
<1>2. RInv /\ NoneMakes /\ [RestartNext]_restartVars => NoneMakes'
  <2> SUFFICES ASSUME RInv, NoneMakes, [RestartNext]_restartVars PROVE NoneMakes'
    OBVIOUS
  <2>1. ASSUME NEW c \in Calls, Call(c)
        PROVE  NoneMakes'
    <3>1. UNCHANGED hasSet /\ \E to : to # "creating" /\ pc' = [pc EXCEPT ![c] = to]
      BY <2>1
      DEF Call, Proceed, Send, SendFails, LookForSet, CreateSet, AddEvent, Register,
          Wake, Expire, CheckClosed, GiveUp, CloseOut, Return, Goto, clientVars
    <3> QED
      BY <3>1 DEF RInv, PlacesOK
  <2>2. CASE UNCHANGED <<pc, hasSet>>
    BY <2>2
  <2>3. \A how \in Restarts : StartAgain(how) => UNCHANGED <<pc, hasSet>>
    BY DEF StartAgain, callVars
  <2>4. \A i \in Ids, final \in BOOLEAN : OnMessage(i, final) => UNCHANGED <<pc, hasSet>>
    BY DEF OnMessage, callVars
  <2>5. LinkLost \/ RequestStop \/ OnClose \/ UNCHANGED vars => UNCHANGED <<pc, hasSet>>
    BY DEF LinkLost, RequestStop, OnClose, OnCloseFlag, OnCloseStopEvent,
           OnCloseSnapshot, OnCloseSignal, OnCloseDone, vars, callVars, clientVars
  <2> QED
    BY <2>1, <2>2, <2>3, <2>4, <2>5, OneConnection DEF Next
<1>3. NoneMakes => Keeps
  BY DEF CreateSet, Goto
<1>4. NoneMakes => [Keeps]_vars
  BY <1>3
<1>5. RestartSpec => NoneThrownAway
  BY <1>1, <1>2, <1>4, RestartInductive, PTL DEF RestartSpec, NoneThrownAway
<1> QED
  BY <1>5, EveryCloseFindsWaiters, PTL

=============================================================================
