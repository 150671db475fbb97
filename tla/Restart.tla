------------------------------ MODULE Restart ------------------------------
(***************************************************************************)
(* Correlation over several connections of one client: start() while calls *)
(* of the previous connection have not returned yet.                       *)
(*                                                                         *)
(* start() replaces lock, stop_event, recieved_msg_dict and                *)
(* pending_requests and clears closed, but _connection_closed_events and   *)
(* the calls in progress survive it.  stop() drops the ETP session, so     *)
(* that the start() after it allocates message ids from the beginning;     *)
(* start() alone, after a lost connection, keeps the session and its ids.  *)
(*                                                                         *)
(* The listeners of a message run in the WebSocket thread, which files no  *)
(* other message and does not come to on_close() until they return, and    *)
(* they may call send_and_wait() themselves.                               *)
(***************************************************************************)
EXTENDS Correlation

CONSTANTS
  MaxRestarts,   \* bound: how often the client is started again
  Restarts,      \* how: "stopped" by stop(); start(), "lost" by start() alone
  Inner          \* the calls made by listeners, in the WebSocket thread

ASSUME RestartAssumption ==
  /\ MaxRestarts \in Nat
  /\ Restarts \subseteq {"stopped", "lost"}
  /\ Inner \subseteq Calls

VARIABLES
  restarts,   \* how often it was
  busy,       \* the WebSocket thread runs the listeners of a message
  orphans     \* history: the calls that were in progress when a new session
              \* began, with ids that the new session allocates again

againVars == <<restarts, orphans>>
restartVars == <<vars, busy, againVars>>

RestartInit == Init /\ restarts = 0 /\ orphans = {} /\ busy = FALSE

\* Seeded bug: every start() makes a new session.
FirstIdAnew(how) == 1

\* The ids of the next session.
FirstId(how) == IF how = "stopped" THEN 1 ELSE nextId

\* The WebSocket thread has ended (stop() joins it; start() makes a new one
\* only then), and start() returns with the new connection established.
StartAgain(how) ==
  /\ restarts < MaxRestarts
  /\ closing = "done" /\ ~busy
  /\ restarts'  = restarts + 1
  /\ orphans'   = IF how = "lost" THEN orphans
                  ELSE orphans \cup {c \in Calls : pc[c] \in InProgress}
  /\ closed'    = FALSE
  /\ stopEvent' = FALSE
  /\ received'  = [i \in Ids |-> <<>>]
  /\ waiter'    = [i \in Ids |-> NoCall]
  /\ answer'    = [i \in Ids |-> <<>>]
  /\ nextId'    = FirstId(how)
  /\ link'      = "up"
  /\ closing'   = "no"
  /\ asker'     = [i \in Ids |-> NoCall]
  /\ delivered' = [i \in Ids |-> <<>>]
  /\ UNCHANGED <<callVars, event, hasSet, closedEvents, toSignal, busy>>

\* The WebSocket thread files a message and then tells it to the listeners.
Hear(i, final) ==
  /\ ~busy
  /\ OnMessage(i, final)
  /\ busy' = (Inner # {})

\* A listener calls send_and_wait(), and is in it until it ends ...
InnerCall(c) ==
  /\ busy
  /\ \A d \in Inner \ {c} : pc[d] \notin InProgress
  /\ Call(c)
  /\ UNCHANGED busy

\* ... and all of them return.
ListenersReturn ==
  /\ busy
  /\ \A c \in Inner : pc[c] \notin InProgress
  /\ busy' = FALSE
  /\ UNCHANGED vars

\* What happens in other threads, and outside
Elsewhere ==
  /\ (\E c \in Calls \ Inner : Call(c)) \/ LinkLost \/ RequestStop
  /\ UNCHANGED busy

\* The WebSocket thread, out of the listeners, ends the connection.
Close == ~busy /\ OnClose /\ UNCHANGED busy

RestartNext ==
  \/ /\ \/ \E i \in Ids, final \in BOOLEAN : Hear(i, final)
        \/ \E c \in Inner : InnerCall(c)
        \/ ListenersReturn \/ Elsewhere \/ Close
     /\ UNCHANGED againVars
  \/ \E how \in Restarts : StartAgain(how)

RestartSpec == RestartInit /\ [][RestartNext]_restartVars

\* Threads are scheduled, and no peer has to answer.  A timeout has to pass only
\* for a call in the WebSocket thread.
RestartFairSpec ==
  /\ RestartSpec
  /\ \A c \in Calls : WF_restartVars(Proceed(c) /\ UNCHANGED <<busy, againVars>>)
  /\ \A c \in Inner : WF_restartVars(Expire(c) /\ UNCHANGED <<busy, againVars>>)
  /\ WF_restartVars(ListenersReturn /\ UNCHANGED againVars)
  /\ WF_restartVars(Close /\ UNCHANGED againVars)

-----------------------------------------------------------------------------
\* Whatever a call returns was sent for that call, even when it began on an
\* earlier connection and even with calls of an earlier session about: only
\* these may be handed the answer of another call.
NoForeignAnswer ==
  \A c \in Calls :
    pc[c] = "answered" /\ c \notin orphans =>
      \A k \in DOMAIN result[c] : result[c][k].call = c

\* Once the calls of earlier sessions have ended, no call takes over, or
\* removes, the registration of another one, on the same or a new connection.
RegistryKept ==
  [][\A c \in Calls :
       /\ pc[c] \in Registered /\ pc'[c] \in Ended
       /\ \A o \in orphans : pc[o] \in Ended
       => waiter[msgId[c]] \in {c, NoCall}]_restartVars

\* A listener that waits for an answer waits for its own thread, which is to
\* file it; but the thread gets out, and goes on to file and to close.
ListenersEnd == busy ~> ~busy

=============================================================================
