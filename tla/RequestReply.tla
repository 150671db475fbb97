---------------------------- MODULE RequestReply ----------------------------
(***************************************************************************)
(* What ETPSimpleClient.send_and_wait promises to its callers, without the *)
(* threads, events, locks and dictionaries that implement it.              *)
(*                                                                         *)
(* Every call asks once and ends once: with an answer made of messages the *)
(* peer sent for that very call (a non-empty prefix of them, oldest        *)
(* first), with a TimeoutError, with a RuntimeError because the session is *)
(* going down, or at once because the request could not be written.        *)
(* Correlation refines this module.                                        *)
(***************************************************************************)
EXTENDS Naturals, Sequences, SequencesExt

CONSTANTS
  Calls,      \* the invocations of send_and_wait() and of send()
  Posts,      \* those of send(), which wait for nothing
  Messages    \* the messages a peer may send

VARIABLES
  status,     \* where each call stands
  replies,    \* what the peer has sent for each call, oldest first
  result,     \* what each call returned
  down        \* the session is closed, or was asked to stop

vars == <<status, replies, result, down>>

Status == {"new", "open", "answered", "timedOut", "closedOut",
           "notSent", "posted"}

Ended == Status \ {"new", "open"}

Init ==
  /\ status  = [c \in Calls |-> "new"]
  /\ replies = [c \in Calls |-> <<>>]
  /\ result  = [c \in Calls |-> <<>>]
  /\ down    = FALSE

Move(c, from, to) ==
  /\ status[c] = from
  /\ status' = [status EXCEPT ![c] = to]

\* The request goes out; a post has nothing to wait for.
Ask(c) ==
  /\ Move(c, "new", IF c \in Posts THEN "posted" ELSE "open")
  /\ UNCHANGED <<replies, result, down>>

\* The request cannot be written.
Refuse(c) ==
  /\ Move(c, "new", "notSent")
  /\ UNCHANGED <<replies, result, down>>

\* The peer answers a request it has received, whether or not the caller
\* still waits.
Reply(c) ==
  /\ status[c] \notin {"new", "notSent"}
  /\ \E m \in Messages : replies' = [replies EXCEPT ![c] = Append(@, m)]
  /\ UNCHANGED <<status, result, down>>

Return(c) ==
  /\ Move(c, "open", "answered")
  /\ \E n \in 1..Len(replies[c]) :
       result' = [result EXCEPT ![c] = SubSeq(replies[c], 1, n)]
  /\ UNCHANGED <<replies, down>>

TimeOut(c) ==
  /\ Move(c, "open", "timedOut")
  /\ UNCHANGED <<replies, result, down>>

\* Only a session that is going down may refuse the answer.
CloseOut(c) ==
  /\ down
  /\ Move(c, "open", "closedOut")
  /\ UNCHANGED <<replies, result, down>>

GoDown ==
  /\ down' = TRUE
  /\ UNCHANGED <<status, replies, result>>

Next ==
  \/ GoDown
  \/ \E c \in Calls :
       \/ Ask(c) \/ Refuse(c) \/ Reply(c)
       \/ Return(c) \/ TimeOut(c) \/ CloseOut(c)

Spec == Init /\ [][Next]_vars

=============================================================================
