----------------------------- MODULE Lifecycle -----------------------------
(***************************************************************************)
(* The life of an ETPSimpleClient: start(), stop() and close() called by   *)
(* the thread that owns the client, and _run_websocket(), on_open(),       *)
(* on_message() and on_close() run by the WebSocket thread                 *)
(* (src/py_etp_client/etpsimpleclient.py); and the two operations that     *)
(* start a client and wait for it to be connected, start_client() and      *)
(* start_and_wait_connected() (src/py_etp_client/etpclient.py).            *)
(*                                                                         *)
(* The two threads share the attributes ws, closed, stop_event, spec and   *)
(* thread without a lock.  A step is what runs between two points where    *)
(* the other thread can be observed.  What the waiting calls see of        *)
(* on_close() is in Correlation.                                           *)
(*                                                                         *)
(* The WebSocketApp of the websocket-client library is external: it is     *)
(* modelled from its use here (run_forever() calls on_open and, when the   *)
(* connection ends or cannot be made, on_close; close() has no effect      *)
(* before run_forever()).  So is the ETPConnection, which is connected     *)
(* once the peer has answered the RequestSession of on_open.               *)
(***************************************************************************)
EXTENDS Naturals

CONSTANTS
  MaxReconnects,   \* the argument max_reconnect_attempts
  MaxStarts        \* bound: calls of start()

ASSUME LifecycleAssumption == MaxReconnects \in Nat /\ MaxStarts \in Nat

VARIABLES
  \* the owner's thread
  upc,         \* where it is in its operation
  op,          \* that operation
  ended,       \* how its last operation ended
  starts,      \* how often start() was called
  \* the WebSocket thread
  worker,      \* where it is in _run_websocket()
  retries,     \* its local reconnect_count
  \* attributes of the client
  thread,      \* thread is not None
  wsSet,       \* ws is not None (then it is the last WebSocketApp made)
  closed,      \* closed
  stopEvent,   \* stop_event is set
  spec,        \* "none", or an ETPConnection that is "fresh", "connected", or
               \* "stale": connected already when start() was last called
  \* external
  restarter,   \* a listener of ON_CLOSE calls start()
  app,         \* the last WebSocketApp made
  asked        \* its peer owes an answer to the RequestSession

userVars   == <<upc, op, ended, starts>>
workerVars == <<worker, retries>>
flagVars   == <<closed, stopEvent>>
vars == <<userVars, workerVars, thread, wsSet, flagVars, spec, app, asked,
          restarter>>

-----------------------------------------------------------------------------
Dead == {"none", "dead"}                       \* no live WebSocket thread
Live == {"guard", "make", "run", "running", "flagged", "notifying", "ran",
         "counting", "backoff", "exiting"}
AppLive == {"connecting", "open", "closing"}   \* run_forever() has the app

Stopped == {"stopped", "closed"}               \* stop(), close() returned

\* Seeded bug: one reconnection too many.
LimitPlusOne == IF MaxReconnects = 0 THEN 3 ELSE MaxReconnects + 1

\* max_reconnect_attempts or 3
Limit == IF MaxReconnects = 0 THEN 3 ELSE MaxReconnects

\* _init_connection() makes an ETPConnection only when there is none.
InitConnection ==
  CASE spec = "none"      -> "fresh"
    [] spec = "connected" -> "stale"
    [] OTHER              -> spec

\* is_connected()
IsConnected == spec \in {"connected", "stale"} /\ ~closed

Init ==
  /\ upc = "idle" /\ op = "none" /\ ended = "none" /\ starts = 0
  /\ worker = "none" /\ retries = 0
  /\ thread = FALSE
  /\ wsSet = FALSE
  /\ closed = FALSE /\ stopEvent = FALSE
  /\ spec = "fresh"
  /\ app = "none" /\ asked = FALSE
  /\ restarter \in BOOLEAN

-----------------------------------------------------------------------------
(***************************************************************************)
(* start()                                                                 *)
(***************************************************************************)

\* Everything start() resets before it looks at the thread.
Reset ==
  /\ starts < MaxStarts
  /\ starts' = starts + 1
  /\ wsSet' = FALSE
  /\ closed' = FALSE
  /\ stopEvent' = FALSE
  /\ spec' = InitConnection

\* start_client() makes the client that it starts: nobody has used it, or
\* listens to it.
Unknown == starts = 0 /\ ended = "none" /\ ~restarter

StartReset ==
  /\ upc = "idle"
  /\ upc' = "starting"
  /\ op' \in {"start", "wait"} \cup (IF Unknown THEN {"client"} ELSE {})
  /\ Reset
  /\ UNCHANGED <<ended, workerVars, thread, app, asked>>

\* start() returns to its caller, which may wait for the connection.
Return(how) ==
  /\ upc' = IF op = "start" THEN "idle" ELSE "polling"
  /\ op' = IF op = "start" THEN "none" ELSE op
  /\ ended' = how

StartThread ==
  /\ upc = "starting"
  /\ \/ /\ ~thread \/ worker \in Dead
        /\ thread' = TRUE
        /\ worker' = "guard"
        /\ retries' = 0
        /\ upc' = "settling"
        /\ UNCHANGED <<op, ended>>
     \/ /\ thread /\ worker \notin Dead
        /\ Return("skipped")
        /\ UNCHANGED <<thread, workerVars>>
  /\ UNCHANGED <<starts, wsSet, flagVars, spec, app, asked>>

\* Seeded bug: start() resets the flags after it has started the thread.
StartReturnsResets ==
  /\ upc = "settling"
  /\ Return("started")
  /\ closed' = FALSE
  /\ stopEvent' = FALSE
  /\ UNCHANGED <<starts, workerVars, thread, wsSet, spec, app, asked>>

\* The second that start() sleeps is over, however far the thread has come.
StartReturns ==
  /\ upc = "settling"
  /\ Return("started")
  /\ UNCHANGED <<starts, workerVars, thread, wsSet, flagVars, spec, app, asked>>

\* start_and_wait_connected() tells whether the client is connected, at once
\* when it is and otherwise when its time is over.
WaitConnected ==
  /\ upc = "polling" /\ op = "wait"
  /\ upc' = "idle"
  /\ op' = "none"
  /\ UNCHANGED <<ended, starts, workerVars, thread, wsSet, flagVars, spec, app,
                 asked>>

\* start_client() returns the client it has made, or raises and leaves the
\* thread behind: nobody has the client then.
StartClient ==
  /\ upc = "polling" /\ op = "client"
  /\ upc' = IF IsConnected THEN "idle" ELSE "abandoned"
  /\ op' = "none"
  /\ UNCHANGED <<ended, starts, workerVars, thread, wsSet, flagVars, spec, app,
                 asked>>

-----------------------------------------------------------------------------
(***************************************************************************)
(* stop() and close()                                                      *)
(***************************************************************************)

Stop ==
  /\ upc = "idle"
  /\ upc' = "stopping"
  /\ op' = "stop"
  /\ ended' = "none"
  /\ UNCHANGED <<starts, workerVars, thread, wsSet, flagVars, spec, app,
                 asked>>

CanSend == wsSet /\ spec # "none" /\ app = "open"

\* close() sends CloseSession, and stops the client only if that did not raise.
Close ==
  /\ upc = "idle"
  /\ \/ /\ CanSend
        /\ upc' = "stopping"
        /\ op' = "close"
        /\ ended' = "none"
     \/ /\ ~CanSend
        /\ ended' = "closeRaised"
        /\ UNCHANGED <<upc, op>>
  /\ UNCHANGED <<starts, workerVars, thread, wsSet, flagVars, spec, app,
                 asked>>

StopSignal ==
  /\ upc = "stopping"
  /\ upc' = "signalled"
  /\ stopEvent' = TRUE
  /\ UNCHANGED <<op, ended, starts, workerVars, thread, wsSet, closed, spec,
                 app, asked>>

\* WebSocketApp.close() ends a connection that run_forever() has begun.
AppClosed ==
  IF wsSet /\ app \in {"connecting", "open"} THEN "closing" ELSE app

\* Seeded bug: stop() does not close the socket.
StopLeavesSocket ==
  /\ upc = "signalled"
  /\ upc' = "joining"
  /\ app' = app
  /\ UNCHANGED <<op, ended, starts, workerVars, thread, wsSet, flagVars,
                 spec, asked>>

StopCloseSocket ==
  /\ upc = "signalled"
  /\ upc' = "joining"
  /\ app' = AppClosed
  /\ UNCHANGED <<op, ended, starts, workerVars, thread, wsSet, flagVars,
                 spec, asked>>

\* Seeded bug: stop() does not join the thread.
StopWithoutJoin ==
  /\ upc = "joining"
  /\ upc' = "joined"
  /\ thread' = FALSE
  /\ UNCHANGED <<op, ended, starts, workerVars, wsSet, flagVars, spec, app,
                 asked>>

StopJoin ==
  /\ upc = "joining"
  /\ thread => worker \in Dead
  /\ upc' = "joined"
  /\ thread' = FALSE
  /\ UNCHANGED <<op, ended, starts, workerVars, wsSet, flagVars, spec, app,
                 asked>>

StopFinish ==
  /\ upc = "joined"
  /\ upc' = "idle"
  /\ op' = "none"
  /\ ended' = IF op = "close" THEN "closed" ELSE "stopped"
  /\ spec' = "none"
  /\ UNCHANGED <<starts, workerVars, thread, wsSet, flagVars, app, asked>>

-----------------------------------------------------------------------------
(***************************************************************************)
(* _run_websocket() and the callbacks of the WebSocketApp                  *)
(***************************************************************************)

Work(from, to) == worker = from /\ worker' = to

\* Seeded bug: the loop does not look at stop_event.
GuardIgnoresStop ==
  /\ Work("guard", IF retries <= Limit THEN "make" ELSE "exiting")
  /\ UNCHANGED <<userVars, retries, thread, wsSet, flagVars, spec, app, asked>>

Guard ==
  /\ Work("guard", IF retries <= Limit /\ ~stopEvent THEN "make" ELSE "exiting")
  /\ UNCHANGED <<userVars, retries, thread, wsSet, flagVars, spec, app, asked>>

Make ==
  /\ Work("make", "run")
  /\ app' = "made"
  /\ wsSet' = TRUE
  /\ asked' = FALSE
  /\ UNCHANGED <<userVars, retries, thread, flagVars, spec>>

RunForever ==
  /\ Work("run", "running")
  /\ app' = "connecting"
  /\ UNCHANGED <<userVars, retries, thread, wsSet, flagVars, spec, asked>>

\* run_forever() raises, without on_close(), into the except clause.
RunRaises ==
  /\ app = "connecting"
  /\ Work("running", "counting")
  /\ app' = "finished"
  /\ UNCHANGED <<userVars, retries, thread, wsSet, flagVars, spec, asked>>

\* on_open(): the RequestSession is sent, or a failure to send it is logged.
OnOpen ==
  /\ worker = "running" /\ app = "connecting"
  /\ app' = "open"
  /\ asked' = (wsSet /\ spec # "none")
  /\ UNCHANGED <<userVars, workerVars, thread, wsSet, flagVars, spec>>

ConnectFails ==
  /\ worker = "running" /\ app = "connecting"
  /\ app' = "closing"
  /\ UNCHANGED <<userVars, workerVars, thread, wsSet, flagVars, spec, asked>>

LinkLost ==
  /\ worker = "running" /\ app = "open"
  /\ app' = "closing"
  /\ UNCHANGED <<userVars, workerVars, thread, wsSet, flagVars, spec, asked>>

\* on_message() hands the OpenSession of the peer to the ETPConnection.
SessionOpens ==
  /\ worker = "running" /\ app = "open" /\ asked
  /\ spec # "none"
  /\ spec' = "connected"
  /\ asked' = FALSE
  /\ UNCHANGED <<userVars, workerVars, thread, wsSet, flagVars, app>>

\* A listener of ON_MESSAGE calls stop(): no join in the WebSocket thread.
ListenerStops ==
  /\ worker = "running" /\ app = "open"
  /\ op # "client" /\ upc # "abandoned"
  /\ stopEvent' = TRUE
  /\ app' = AppClosed
  /\ spec' = "none"
  /\ UNCHANGED <<userVars, workerVars, thread, wsSet, closed, asked>>

\* Seeded bug: on_close() does not set closed.
OnCloseUnflagged ==
  /\ app = "closing"
  /\ Work("running", "flagged")
  /\ closed' = closed
  /\ UNCHANGED <<userVars, retries, thread, wsSet, stopEvent, spec, app,
                 asked>>

OnCloseFlag ==
  /\ app = "closing"
  /\ Work("running", "flagged")
  /\ closed' = TRUE
  /\ UNCHANGED <<userVars, retries, thread, wsSet, stopEvent, spec, app,
                 asked>>

OnCloseStopEvent ==
  /\ Work("flagged", "notifying")
  /\ stopEvent' = TRUE
  /\ UNCHANGED <<userVars, retries, thread, wsSet, closed, spec, app, asked>>

\* The listeners of ON_CLOSE are called, in a thread that start() finds alive.
OnCloseNotify ==
  /\ Work("notifying", "ran")
  /\ app' = "finished"
  /\ \/ UNCHANGED <<starts, wsSet, flagVars, spec>>
     \/ restarter /\ Reset
  /\ UNCHANGED <<upc, op, ended, retries, thread, asked>>

\* run_forever() has returned.
Ran ==
  /\ Work("ran", IF stopEvent THEN "exiting" ELSE "counting")
  /\ UNCHANGED <<userVars, retries, thread, wsSet, flagVars, spec, app, asked>>

Count ==
  /\ retries' = retries + 1
  /\ \/ /\ retries' <= Limit /\ ~stopEvent
        /\ Work("counting", "backoff")
        /\ UNCHANGED closed
     \/ /\ retries' > Limit \/ stopEvent
        /\ Work("counting", "exiting")
        /\ closed' = TRUE
  /\ UNCHANGED <<userVars, thread, wsSet, stopEvent, spec, app, asked>>

\* stop_event.wait(wait_time) is True and ends the loop, or the time passes.
Backoff ==
  /\ \/ stopEvent /\ Work("backoff", "exiting")
     \/ Work("backoff", "guard")
  /\ UNCHANGED <<userVars, retries, thread, wsSet, flagVars, spec, app, asked>>

\* Until then is_alive() holds of a thread that has left its loop.
Exit ==
  /\ Work("exiting", "dead")
  /\ UNCHANGED <<userVars, retries, thread, wsSet, flagVars, spec, app, asked>>

-----------------------------------------------------------------------------
\* What the owner has begun, it continues; it may start no other operation.
UserStep ==
  \/ StartThread \/ StartReturns \/ WaitConnected \/ StartClient
  \/ StopSignal \/ StopCloseSocket \/ StopJoin \/ StopFinish

\* A connection attempt comes to an end, one way or another.
WorkerStep ==
  \/ Guard \/ Make \/ RunForever \/ RunRaises \/ OnOpen \/ ConnectFails
  \/ OnCloseFlag \/ OnCloseStopEvent \/ OnCloseNotify
  \/ Ran \/ Count \/ Backoff \/ Exit

Next ==
  /\ UNCHANGED restarter
  /\ \/ StartReset \/ Stop \/ Close \/ UserStep
     \/ WorkerStep
     \/ LinkLost \/ SessionOpens \/ ListenerStops

Spec == Init /\ [][Next]_vars

\* Both threads are scheduled; the peer may keep a connection open for ever.
FairSpec == Spec /\ WF_vars(UserStep /\ UNCHANGED restarter)
                 /\ WF_vars(WorkerStep /\ UNCHANGED restarter)

-----------------------------------------------------------------------------
(***************************************************************************)
(* Properties                                                              *)
(***************************************************************************)

\* The flags are flags ...
FlagsOK ==
  /\ thread \in BOOLEAN
  /\ wsSet \in BOOLEAN
  /\ closed \in BOOLEAN
  /\ stopEvent \in BOOLEAN
  /\ asked \in BOOLEAN
  /\ restarter \in BOOLEAN

\* ... the two threads are at the places of their code where the other can be
\* observed, and the count of reconnections ends at one beyond the limit.
PlacesOK ==
  /\ upc \in {"idle", "starting", "settling", "stopping", "signalled",
              "joining", "joined", "polling", "abandoned"}
  /\ op \in {"none", "start", "wait", "client", "stop", "close"}
  /\ ended \in {"none", "started", "skipped", "closeRaised"} \cup Stopped
  /\ starts \in 0..MaxStarts
  /\ worker \in Dead \cup Live
  /\ retries \in 0..(Limit + 1)
  /\ spec \in {"none", "fresh", "connected", "stale"}
  /\ app \in {"none", "made", "finished"} \cup AppLive

\* The variables have their types.
TypeOK == FlagsOK /\ PlacesOK

\* Once stop() or close() has returned, and until start() is called, no
\* WebSocket thread is alive, no connection is open or being made and no ETP
\* session is left: nothing of the client runs behind its owner's back.
StopQuiescent ==
  upc = "idle" /\ ended \in Stopped =>
    /\ worker \in Dead
    /\ app \notin AppLive
    /\ spec = "none"

\* is_connected() is True only while the client has a connection that is open,
\* or whose end on_close() has not reported yet: a session of an earlier
\* connection, which start() carries over, is the one exception.
IsConnectedTruthful ==
  IsConnected /\ spec # "stale" => app \in {"open", "closing"}

\* After a start() that made a thread, and while the owner does nothing else, a
\* thread that has ended has left the client marked as closed or stopped:
\* nobody mistakes it for a client that is about to connect.
DeadMeansDown ==
  upc \in {"idle", "polling", "abandoned"} /\ ended = "started"
      /\ worker \in Dead => closed \/ stopEvent

\* One thread attempts no more connections than the first one and the
\* reconnections its owner asked for, whatever start() resets meanwhile.
AttemptsBounded ==
  MaxReconnects > 0 /\ worker \in {"make", "run", "running"}
    => retries <= MaxReconnects

\* Once stop() has signalled the thread, it begins no connection but one whose
\* WebSocketApp it was already making.
NoConnectAfterStop ==
  [][(upc \in {"signalled", "joining"} /\ worker # "make" /\ ~restarter)
       => ~(worker' = "make")]_vars

\* The thread has no WebSocketApp that stop() cannot reach: one that does not
\* run yet, or that start() has made the client forget.
Reachable ==
  worker \in {"make", "run", "running"} => wsSet /\ worker = "running"

\* stop() returns, when it can reach what the thread runs and no listener
\* starts the client again.
StopReturns ==
  upc = "signalled" /\ Reachable /\ ~restarter ~> upc = "idle"

\* A connection that ends without its owner having asked for it is attempted
\* again, as long as reconnections are left.
LossIsRetried ==
  worker = "ran" /\ upc = "idle" /\ ended = "started" /\ retries < Limit
    ~> worker = "make" \/ upc # "idle"

=============================================================================
