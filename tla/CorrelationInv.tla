--------------------------- MODULE CorrelationInv ---------------------------
(***************************************************************************)
(* The inductive invariant of Correlation: what the callers, the WebSocket *)
(* thread and the peer know of each other, at every step.                  *)
(***************************************************************************)
EXTENDS Correlation

\* A message id belongs to one call for ever: the one that sent it.
IdsOwned ==
  /\ \A c \in Calls : pc[c] \in {"idle", "notSent"} <=> msgId[c] = 0
  /\ \A c \in Calls : msgId[c] # 0 => /\ asker[msgId[c]] = c
                                      /\ msgId[c] < nextId
  /\ \A i \in Ids : asker[i] # NoCall => msgId[asker[i]] = i
  /\ \A i \in Ids : i >= nextId => asker[i] = NoCall

\* The peer answers the call that asked, and the client files the first part.
PartsFiled ==
  \A i \in Ids :
    /\ asker[i] = NoCall => delivered[i] = <<>>
    /\ \A k \in DOMAIN delivered[i] : delivered[i][k].call = asker[i]
    /\ received[i] = IF delivered[i] = <<>> THEN <<>> ELSE <<delivered[i][1]>>

\* The answer stored for a call, if any, is the list filed under its id.
AnswerFiled == \A i \in Ids : answer[i] \in {<<>>, received[i]}

\* on_close() has told the callers before it signals them.
CloseTold ==
  /\ closing # "no" => closed
  /\ toSignal # {} => closing = "signalling"

\* An event is set for an answer or for the end of the connection.
EventMeaning ==
  /\ \A c \in Calls : event[c] =>
       \/ closed
       \/ pc[c] \in Registered /\ answer[msgId[c]] # <<>>
       \/ pc[c] \in Ended
  /\ \A c \in Calls : pc[c] \in {"woken", "interrupted", "answering"}
                        => event[c]

\* What a call has returned is the list filed under its id.
ResultFiled ==
  \A c \in Calls :
    IF pc[c] = "answered" THEN result[c] # <<>> /\ result[c] = received[msgId[c]]
                          ELSE result[c] = <<>>

\* The inductive invariant that the safety properties follow from.
IInv ==
  /\ TypeOK
  /\ IdsOwned
  /\ PartsFiled
  /\ RegistryExact
  /\ AnswerFiled
  /\ CloseTold
  /\ EventMeaning
  /\ WokenForAReason
  /\ NoLostWakeup
  /\ NoStaleEvents
  /\ ResultFiled

=============================================================================
